------------------------------ MODULE IosLdapSteps -------------------------------
(***************************************************************************)
(* What every step of IosLdap does to the library and to the proxies, for  *)
(* any number of requests, handles, message IDs and items.                 *)
(*                                                                         *)
(* First the library.  One handle comes before the others: what is on the  *)
(* wire, what is queued and what the server has sent, and how reading,     *)
(* queueing, tossing and sending a message relate them.  Then the          *)
(* operations of the library and the steps of the server, and LibInv.      *)
(*                                                                         *)
(* Then the proxies: what each of their fields knows of the messages, one  *)
(* lemma for each way a step touches them, and one for each step.  IosInv  *)
(* is the invariant they keep as long as a connection is closed only when  *)
(* no request uses it (LastRef, which IosLdapProofs shows).                *)
(***************************************************************************)
EXTENDS IosLdap, TLAPS

-------------------------------------------------------------------------------
(* Sequences. *)

LEMMA SeqFacts ==
  ASSUME NEW S, NEW t \in Seq(S)
  PROVE  /\ Len(t) \in Nat /\ DOMAIN t = 1 .. Len(t)
         /\ \A k \in 1 .. Len(t) : t[k] \in S
         /\ t # <<>> => Len(t) \in Nat \ {0}
         /\ Len(t) = 0 => t = <<>>
OBVIOUS

LEMMA EmptyFacts == ASSUME NEW S PROVE <<>> \in Seq(S) /\ Len(<<>>) = 0 /\ DOMAIN <<>> = {}
OBVIOUS

LEMMA AppendFacts ==
  ASSUME NEW S, NEW t \in Seq(S), NEW e \in S
  PROVE  /\ Append(t, e) \in Seq(S) /\ Append(t, e) # <<>>
         /\ Len(Append(t, e)) = Len(t) + 1
         /\ \A k \in 1 .. Len(t) : Append(t, e)[k] = t[k]
         /\ Append(t, e)[Len(t) + 1] = e
OBVIOUS

LEMMA Appended ==
  ASSUME NEW S
  PROVE  \A t \in Seq(S), e \in S :
           /\ Len(Append(t, e)) = Len(t) + 1 /\ Append(t, e)[Len(t) + 1] = e
           /\ \A k \in 1 .. Len(t) : Append(t, e)[k] = t[k]
OBVIOUS

LEMMA TailFacts ==
  ASSUME NEW S, NEW t \in Seq(S), t # <<>>
  PROVE  /\ Tail(t) \in Seq(S) /\ Head(t) = t[1] /\ Head(t) \in S
         /\ Len(Tail(t)) = Len(t) - 1 /\ Len(t) \in Nat \ {0}
         /\ \A k \in 1 .. Len(Tail(t)) : Tail(t)[k] = t[k + 1]
OBVIOUS

LEMMA CutFacts ==
  ASSUME NEW S, NEW t \in Seq(S), NEW n \in 0 .. Len(t)
  PROVE  /\ SubSeq(t, 1, n) \in Seq(S) /\ Len(SubSeq(t, 1, n)) = n
         /\ \A k \in 1 .. n : SubSeq(t, 1, n)[k] = t[k]
OBVIOUS

LEMMA SameSeq ==
  ASSUME NEW S, NEW t \in Seq(S), NEW u \in Seq(S), Len(t) = Len(u),
         \A k \in 1 .. Len(t) : t[k] = u[k]
  PROVE  t = u
OBVIOUS

LEMMA NarrowSeq ==
  ASSUME NEW S, NEW T, NEW t \in Seq(S), \A k \in 1 .. Len(t) : t[k] \in T
  PROVE  t \in Seq(T)
OBVIOUS

\* The first callbacks of a request.
LEMMA FirstCalls ==
  ASSUME NEW S, NEW c \in S, NEW t, t = <<>> \o <<c>> \/ t = <<>> \o <<c, c>>
  PROVE  t \in Seq(S) /\ t # <<>> /\ \A i \in DOMAIN t : t[i] = c
<1>1. <<>> \in Seq(S) /\ <<c>> \in Seq(S) /\ <<c, c>> \in Seq(S)
  OBVIOUS
<1>2. CASE t = <<>> \o <<c>>
  <2>1. t \in Seq(S) /\ DOMAIN t = 1 .. 1 /\ Len(t) = 1
    BY <1>1, <1>2
  <2>2. t[1] = c
    BY <1>1, <1>2
  <2>3. QED
    BY <2>1, <2>2
<1>3. CASE t = <<>> \o <<c, c>>
  <2>1. t \in Seq(S) /\ DOMAIN t = 1 .. 2 /\ Len(t) = 2
    BY <1>1, <1>3
  <2>2. t[1] = c /\ t[2] = c
    BY <1>1, <1>3
  <2>3. t # <<>> /\ \A i \in 1 .. 2 : i = 1 \/ i = 2
    BY <2>1
  <2>4. QED
    BY <2>1, <2>2, <2>3, Zenon
<1>4. QED
  BY <1>2, <1>3

-------------------------------------------------------------------------------
(* Arithmetic. *)

LEMMA IdNat == MaxId \in Nat /\ (\A i \in Id : i \in Nat) /\ (\A i \in 0 .. MaxId : i \in Nat)
BY LibAssumption DEF Id

LEMMA RoomLeft == \A m \in 0 .. MaxId : m + 1 <= MaxId => m < MaxId
BY LibAssumption

LEMMA RoomForTwo == \A m \in 0 .. MaxId : m + 2 <= MaxId => (m + 1) + 1 <= MaxId
BY LibAssumption

LEMMA Bumped == \A n \in Nat : \A f \in {n, n + 1} : f \in Nat
OBVIOUS

LEMMA FirstPlace == \A n \in Nat \ {0} : 1 \in 1 .. n /\ 1 - 1 = 0
OBVIOUS

LEMMA Apart == \A i, j, m \in Nat : i <= m /\ j > m => j # i
OBVIOUS

LEMMA NextPlace == \A n \in Nat : \A k \in 1 .. n + 1 : k \in 1 .. n \/ k = n + 1
OBVIOUS

LEMMA LaterPlace ==
  \A n \in Nat : \A k \in 1 .. n : 1 \in 1 .. n + 1 /\ k + 1 \in 1 .. n + 1 /\ k + 1 > 1
OBVIOUS

LEMMA Between == \A i, m, n \in Nat : i <= m /\ m < n => i < n
OBVIOUS

-------------------------------------------------------------------------------
(* A handle and its server, as values: the message IDs given out (m), the   *)
(* requests (q), the queued chains (p), the abandoned IDs (a), the other    *)
(* end of the connection (n) and what the server has sent (s).              *)

NetType == [alive : BOOLEAN, auth : BOOLEAN, working : SUBSET Operation, stream : Seq(Message)]

HandleTypes(m, q, p, a, n, s) ==
  /\ m \in 0 .. MaxId /\ q \subseteq Id /\ a \subseteq Id
  /\ p \in [Id -> Seq(Body)] /\ n \in NetType /\ s \in [Id -> Seq(Item)]

\* Only IDs that were given out are in use.
Given(m, q, p, n, s) ==
  /\ \A i \in q : i <= m
  /\ \A w \in n.working : w.id <= m
  /\ \A k \in DOMAIN n.stream : n.stream[k].id <= m
  /\ \A i \in Id : i > m => p[i] = <<>> /\ s[i] = <<>>

\* A final response is the last one of its operation, and a server that asks
\* for another round of a bind leaves room for it.
Ending(n) ==
  /\ \A w, v \in n.working : w.id = v.id => w = v
  /\ \A k \in DOMAIN n.stream : IsFinal(n.stream[k].body) =>
       /\ \A w \in n.working : w.id # n.stream[k].id
       /\ \A j \in DOMAIN n.stream : j > k => n.stream[j].id # n.stream[k].id
  /\ \A k \in DOMAIN n.stream : n.stream[k].body = "more" => n.stream[k].id < MaxId

\* A chain is unfinished as long as its request is on the list.
Queued(q, p, a) ==
  \A i \in Id :
    /\ i \in a => p[i] = <<>>
    /\ i \in q => p[i] \in Seq(Item)
    /\ i \notin q /\ p[i] # <<>> => IsFinal(p[i][Len(p[i])])

\* g counts the items of request i that have been read when the stream has
\* been read up to each of its places.
Counts(g, i, p, n, s) ==
  /\ g \in [0 .. Len(n.stream) -> Nat]
  /\ g[0] = Len(p[i])
  /\ \A k \in 1 .. Len(n.stream) :
       IF n.stream[k].id = i /\ ~IsFinal(n.stream[k].body)
       THEN g[k] = g[k - 1] + 1 /\ g[k] <= Len(s[i]) /\ s[i][g[k]] = n.stream[k].body
       ELSE g[k] = g[k - 1]
  /\ \A k \in 1 .. Len(n.stream) :
       n.stream[k].id = i /\ IsFinal(n.stream[k].body) => g[k] = Len(s[i])
  /\ (\E w \in n.working : w.id = i) => g[Len(n.stream)] = Len(s[i])

\* What is queued for a request is the beginning of what the server sent, and
\* what is on the wire goes on from there.
Flows(q, p, a, n, s) ==
  \A i \in q \ a :
    /\ Len(p[i]) <= Len(s[i]) /\ \A k \in 1 .. Len(p[i]) : p[i][k] = s[i][k]
    /\ \E g : Counts(g, i, p, n, s)

HandleOK(m, q, p, a, n, s) ==
  /\ HandleTypes(m, q, p, a, n, s)
  /\ Given(m, q, p, n, s) /\ Ending(n) /\ Queued(q, p, a) /\ Flows(q, p, a, n, s)

LEMMA NetFacts ==
  ASSUME NEW n \in NetType
  PROVE  /\ n.working \subseteq Operation /\ n.stream \in Seq(Message)
         /\ Len(n.stream) \in Nat /\ DOMAIN n.stream = 1 .. Len(n.stream)
         /\ \A k \in 1 .. Len(n.stream) : /\ n.stream[k] \in Message /\ n.stream[k].id \in Id
                                          /\ n.stream[k].id \in Nat
                                          /\ n.stream[k].body \in Body
         /\ \A w \in n.working : w.id \in Id /\ w.id \in Nat /\ w.kind \in Kinds
<1>1. n.working \subseteq Operation /\ n.stream \in Seq(Message)
  BY DEF NetType
<1>2. MaxId \in Nat /\ Id \subseteq Nat
  BY LibAssumption DEF Id
<1>3. \A k \in 1 .. Len(n.stream) : n.stream[k] \in Message
  BY <1>1, SeqFacts
<1>4. QED
  BY <1>1, <1>2, <1>3, SeqFacts, Zenon DEF Message, Operation

-------------------------------------------------------------------------------
(* What the library, the server and the network do to such values. *)

\* Message IDs are used up.
LEMMA IdsOK ==
  ASSUME NEW m, NEW q, NEW p, NEW a, NEW n, NEW s, HandleOK(m, q, p, a, n, s),
         NEW m2 \in 0 .. MaxId, m2 >= m
  PROVE  HandleOK(m2, q, p, a, n, s)
<1>1. m \in Nat /\ MaxId \in Nat /\ n \in NetType /\ q \subseteq Id /\ Id \subseteq Nat
  BY LibAssumption DEF HandleOK, HandleTypes, Id
<1>2. HandleTypes(m2, q, p, a, n, s)
  BY DEF HandleOK, HandleTypes
<1>3. Given(m2, q, p, n, s)
  <2>1. Given(m, q, p, n, s)
    BY DEF HandleOK
  <2>2. \A i \in Nat : (i <= m => i <= m2) /\ (i > m2 => i > m)
    BY <1>1
  <2>3. QED
    BY <1>1, <2>1, <2>2, NetFacts, Zenon DEF Given
<1>4. QED
  BY <1>2, <1>3 DEF HandleOK

\* A connection that no request uses is closed or opened again.
LEMMA ResetOK ==
  ASSUME NEW m, NEW p, NEW a, NEW n, NEW s, HandleOK(m, {}, p, a, n, s), NEW n2 \in {Closed, Opened}
  PROVE  HandleOK(m, {}, p, a, n2, s)
<1>1. n2 \in NetType /\ n2.working = {} /\ n2.stream = <<>> /\ DOMAIN n2.stream = {}
  <2>1. PICK b \in BOOLEAN : n2 = [alive |-> b, auth |-> FALSE, working |-> {}, stream |-> <<>>]
    BY Zenon DEF Closed, Opened
  <2>2. QED
    BY <2>1, EmptyFacts DEF NetType
<1>2. HandleTypes(m, {}, p, a, n2, s)
  BY <1>1 DEF HandleOK, HandleTypes
<1>3. Given(m, {}, p, n2, s)
  BY <1>1 DEF HandleOK, Given
<1>4. Ending(n2)
  BY <1>1 DEF Ending
<1>5. Queued({}, p, a) /\ Flows({}, p, a, n2, s)
  BY DEF HandleOK, Flows
<1>6. QED
  BY <1>2, <1>3, <1>4, <1>5 DEF HandleOK

\* A request is sent, on a link that is up or not.
LEMMA SendOK ==
  ASSUME NEW m, NEW q, NEW p, NEW a, NEW n, NEW s, HandleOK(m, q, p, a, n, s), m < MaxId,
         NEW kind \in Kinds, NEW n2 \in NetType, n2.stream = n.stream,
         n2.working = n.working \/ n2.working = n.working \cup {[id |-> m + 1, kind |-> kind]}
  PROVE  HandleOK(m + 1, q \cup {m + 1}, p, a, n2, s)
<1> DEFINE w0 == [id |-> m + 1, kind |-> kind]
<1>1. /\ m \in Nat /\ MaxId \in Nat /\ n \in NetType /\ q \subseteq Id /\ Id \subseteq Nat
      /\ m + 1 \in Id /\ m + 1 \in 0 .. MaxId /\ m + 1 > m
  BY LibAssumption DEF HandleOK, HandleTypes, Id
<1>2. w0.id = m + 1
  OBVIOUS
<1>3. \A w \in n2.working : w \in n.working \/ w = w0
  BY Zenon
<1> HIDE DEF w0
<1>4. HandleTypes(m + 1, q \cup {m + 1}, p, a, n2, s)
  BY <1>1 DEF HandleOK, HandleTypes
<1>5. Given(m, q, p, n, s) /\ Ending(n) /\ Queued(q, p, a) /\ Flows(q, p, a, n, s)
  BY DEF HandleOK
<1>6. p[m + 1] = <<>> /\ s[m + 1] = <<>> /\ m + 1 \notin q
  BY <1>1, <1>5 DEF Given
<1>7. \A k \in 1 .. Len(n.stream) : n.stream[k].id \in Nat /\ n.stream[k].id # m + 1
  BY <1>1, <1>5, NetFacts DEF Given
<1>8. \A w \in n.working : w.id \in Nat /\ w.id # m + 1
  BY <1>1, <1>5, NetFacts DEF Given
<1>9. Given(m + 1, q \cup {m + 1}, p, n2, s)
  <2>1. \A i \in Nat : (i <= m => i <= m + 1) /\ (i > m + 1 => i > m)
    BY <1>1
  <2>2. \A i \in q \cup {m + 1} : i <= m + 1
    BY <1>1, <1>5, <2>1 DEF Given
  <2>3. \A w \in n2.working : w.id <= m + 1
    BY <1>1, <1>2, <1>3, <1>5, <1>8, <2>1 DEF Given
  <2>4. \A k \in DOMAIN n2.stream : n2.stream[k].id <= m + 1
    BY <1>1, <1>5, <1>7, <2>1, NetFacts, Zenon DEF Given
  <2>5. QED
    BY <1>1, <1>5, <2>1, <2>2, <2>3, <2>4 DEF Given
<1>10. Ending(n2)
  <2>1. \A w, v \in n2.working : w.id = v.id => w = v
    BY <1>2, <1>3, <1>5, <1>8, Zenon DEF Ending
  <2>2. \A k \in DOMAIN n2.stream : IsFinal(n2.stream[k].body) =>
          \A w \in n2.working : w.id # n2.stream[k].id
    <3>1. DOMAIN n2.stream = 1 .. Len(n.stream)
      BY <1>1, NetFacts, Zenon
    <3>2. QED
      BY <1>2, <1>3, <1>5, <1>7, <3>1, Zenon DEF Ending
  <2>3. QED
    BY <1>5, <2>1, <2>2, Zenon DEF Ending
<1>11. Queued(q \cup {m + 1}, p, a)
  BY <1>5, <1>6, EmptyFacts, Zenon DEF Queued
<1>12. Flows(q \cup {m + 1}, p, a, n2, s)
  <2>1. ASSUME NEW i \in q \ a, NEW g, Counts(g, i, p, n, s) PROVE Counts(g, i, p, n2, s)
    <3>1. (\E w \in n2.working : w.id = i) => (\E w \in n.working : w.id = i)
      BY <1>2, <1>3, <1>6
    <3>2. QED
      BY <2>1, <3>1, Zenon DEF Counts
  <2>2. \E g : Counts(g, m + 1, p, n2, s)
    <3> DEFINE g == [k \in 0 .. Len(n.stream) |-> 0]
    <3>1. Len(n.stream) \in Nat /\ Len(<<>>) = 0
      BY <1>1, NetFacts, EmptyFacts
    <3>2. g \in [0 .. Len(n.stream) -> Nat] /\ \A k \in 0 .. Len(n.stream) : g[k] = 0
      OBVIOUS
    <3>3. \A k \in 1 .. Len(n.stream) : k \in 0 .. Len(n.stream) /\ k - 1 \in 0 .. Len(n.stream)
      BY <3>1
    <3>4. 0 \in 0 .. Len(n.stream) /\ Len(n.stream) \in 0 .. Len(n.stream)
      BY <3>1
    <3> HIDE DEF g
    <3>5. Counts(g, m + 1, p, n2, s)
      BY <1>6, <1>7, <3>1, <3>2, <3>3, <3>4, Zenon DEF Counts
    <3>6. QED
      BY <3>5
  <2>3. QED
    BY <1>5, <1>6, <2>1, <2>2, EmptyFacts DEF Flows
<1>13. QED
  BY <1>4, <1>9, <1>10, <1>11, <1>12 DEF HandleOK

\* The next response is taken off the stream.
LEMMA ReadNet ==
  ASSUME NEW n \in NetType, n.stream # <<>>, Ending(n), NEW n2 \in NetType,
         n2.stream = Tail(n.stream), n2.working = n.working
  PROVE  /\ Ending(n2)
         /\ Len(n2.stream) = Len(n.stream) - 1 /\ Len(n.stream) \in Nat \ {0}
         /\ Head(n.stream) = n.stream[1] /\ Head(n.stream) \in Message
         /\ \A k \in 1 .. Len(n2.stream) : n2.stream[k] = n.stream[k + 1] /\ k + 1 \in 1 .. Len(n.stream)
<1>1. n.stream \in Seq(Message)
  BY NetFacts
<1>2. /\ Len(n2.stream) = Len(n.stream) - 1 /\ Len(n.stream) \in Nat \ {0}
      /\ Head(n.stream) = n.stream[1] /\ Head(n.stream) \in Message
      /\ \A k \in 1 .. Len(n2.stream) : n2.stream[k] = n.stream[k + 1]
  BY <1>1, TailFacts
<1>3. \A k \in 1 .. Len(n2.stream) : k + 1 \in 1 .. Len(n.stream)
  BY <1>2
<1>4. DOMAIN n.stream = 1 .. Len(n.stream) /\ DOMAIN n2.stream = 1 .. Len(n2.stream)
  BY NetFacts
<1>5. \A j, k \in 1 .. Len(n2.stream) : j > k => j + 1 > k + 1
  BY <1>2
<1>6. \A k \in DOMAIN n2.stream : IsFinal(n2.stream[k].body) =>
        /\ \A w \in n2.working : w.id # n2.stream[k].id
        /\ \A j \in DOMAIN n2.stream : j > k => n2.stream[j].id # n2.stream[k].id
  <2> SUFFICES ASSUME NEW k \in 1 .. Len(n2.stream), IsFinal(n2.stream[k].body)
               PROVE  /\ \A w \in n2.working : w.id # n2.stream[k].id
                      /\ \A j \in 1 .. Len(n2.stream) : j > k => n2.stream[j].id # n2.stream[k].id
    BY <1>4, Zenon
  <2>1. n2.stream[k] = n.stream[k + 1] /\ k + 1 \in DOMAIN n.stream
    BY <1>2, <1>3, <1>4
  <2>2. /\ \A w \in n.working : w.id # n.stream[k + 1].id
        /\ \A j \in DOMAIN n.stream : j > k + 1 => n.stream[j].id # n.stream[k + 1].id
    BY <2>1 DEF Ending
  <2>3. ASSUME NEW j \in 1 .. Len(n2.stream), j > k PROVE n2.stream[j].id # n2.stream[k].id
    <3>1. n2.stream[j] = n.stream[j + 1] /\ j + 1 \in DOMAIN n.stream /\ j + 1 > k + 1
      BY <1>2, <1>3, <1>4, <1>5, <2>3
    <3>2. QED
      BY <2>1, <2>2, <3>1
  <2>4. QED
    BY <2>1, <2>2, <2>3
<1>7. \A k \in DOMAIN n2.stream : n2.stream[k].body = "more" => n2.stream[k].id < MaxId
  BY <1>2, <1>3, <1>4 DEF Ending
<1>8. QED
  BY <1>2, <1>3, <1>6, <1>7 DEF Ending

\* The requests that a response is not for, and what they have still to get.
LEMMA ReadCounts ==
  ASSUME NEW n \in NetType, n.stream # <<>>, Ending(n), NEW n2 \in NetType,
         n2.stream = Tail(n.stream), n2.working = n.working,
         NEW i, NEW p, NEW p2, NEW s, NEW g, Counts(g, i, p, n, s), g[1] = Len(p2[i])
  PROVE  \E f : Counts(f, i, p2, n2, s)
<1> DEFINE l == Len(n.stream)  l2 == Len(n2.stream)  f == [k \in 0 .. l2 |-> g[k + 1]]
<1>1. /\ l2 = l - 1 /\ l \in Nat \ {0}
      /\ \A k \in 1 .. l2 : n2.stream[k] = n.stream[k + 1] /\ k + 1 \in 1 .. l
  BY ReadNet
<1>2. /\ \A k \in 0 .. l2 : k + 1 \in 0 .. l
      /\ \A k \in 1 .. l2 : k \in 0 .. l2 /\ k - 1 \in 0 .. l2 /\ (k - 1) + 1 = k /\ (k + 1) - 1 = k
      /\ 0 \in 0 .. l2 /\ 0 + 1 = 1 /\ l2 \in 0 .. l2 /\ l2 + 1 = l
  BY <1>1
<1> HIDE DEF l, l2
<1>3. f \in [0 .. l2 -> Nat] /\ \A k \in 0 .. l2 : f[k] = g[k + 1]
  BY <1>2 DEF Counts, l
<1> HIDE DEF f
<1>4. \A k \in 1 .. l2 : f[k] = g[k + 1] /\ f[k - 1] = g[(k + 1) - 1]
  BY <1>2, <1>3, Zenon
<1>5. \A k \in 1 .. l2 :
        IF n2.stream[k].id = i /\ ~IsFinal(n2.stream[k].body)
        THEN f[k] = f[k - 1] + 1 /\ f[k] <= Len(s[i]) /\ s[i][f[k]] = n2.stream[k].body
        ELSE f[k] = f[k - 1]
  <2> SUFFICES ASSUME NEW k \in 1 .. l2
               PROVE  IF n2.stream[k].id = i /\ ~IsFinal(n2.stream[k].body)
                      THEN f[k] = f[k - 1] + 1 /\ f[k] <= Len(s[i]) /\ s[i][f[k]] = n2.stream[k].body
                      ELSE f[k] = f[k - 1]
    BY Zenon
  <2>1. IF n.stream[k + 1].id = i /\ ~IsFinal(n.stream[k + 1].body)
        THEN /\ g[k + 1] = g[(k + 1) - 1] + 1 /\ g[k + 1] <= Len(s[i])
             /\ s[i][g[k + 1]] = n.stream[k + 1].body
        ELSE g[k + 1] = g[(k + 1) - 1]
    BY <1>1, Zenon DEF Counts, l
  <2>2. n2.stream[k] = n.stream[k + 1] /\ f[k] = g[k + 1] /\ f[k - 1] = g[(k + 1) - 1]
    BY <1>1, <1>4, Zenon
  <2>3. QED
    BY <2>1, <2>2, Zenon
<1>6. \A k \in 1 .. l2 : n2.stream[k].id = i /\ IsFinal(n2.stream[k].body) => f[k] = Len(s[i])
  BY <1>1, <1>4, ZenonT(30) DEF Counts, l
<1>7. (\E w \in n2.working : w.id = i) => f[l2] = Len(s[i])
  BY <1>2, <1>3, Zenon DEF Counts, l
<1>8. f[0] = Len(p2[i])
  BY <1>2, <1>3
<1>9. Counts(f, i, p2, n2, s)
  BY <1>3, <1>5, <1>6, <1>7, <1>8, Zenon DEF Counts, l2
<1>10. QED
  BY <1>9

\* A response is tossed: its ID is abandoned or not on the list.
LEMMA TossOK ==
  ASSUME NEW m, NEW q, NEW p, NEW a, NEW n, NEW s, HandleOK(m, q, p, a, n, s), n.stream # <<>>,
         NEW n2 \in NetType, n2.stream = Tail(n.stream), n2.working = n.working,
         NEW i, NEW body, i = n.stream[1].id, body = n.stream[1].body, i \in a \/ i \notin q,
         NEW b, b = a \/ (b = a \ {i} /\ IsFinal(body))
  PROVE  HandleOK(m, q, p, b, n2, s)
<1>1. n \in NetType /\ Given(m, q, p, n, s) /\ Ending(n) /\ Queued(q, p, a) /\ Flows(q, p, a, n, s)
  BY DEF HandleOK, HandleTypes
<1>2. /\ Ending(n2) /\ Len(n2.stream) = Len(n.stream) - 1 /\ Len(n.stream) \in Nat \ {0}
      /\ \A k \in 1 .. Len(n2.stream) : n2.stream[k] = n.stream[k + 1] /\ k + 1 \in 1 .. Len(n.stream)
  BY <1>1, ReadNet, Zenon
<1>3. DOMAIN n.stream = 1 .. Len(n.stream) /\ DOMAIN n2.stream = 1 .. Len(n2.stream)
  BY <1>1, NetFacts
<1>4. HandleTypes(m, q, p, b, n2, s)
  BY DEF HandleOK, HandleTypes
<1>5. Given(m, q, p, n2, s)
  BY <1>1, <1>2, <1>3, Zenon DEF Given
<1>6. Queued(q, p, b)
  BY <1>1, Zenon DEF Queued
<1>7. ASSUME NEW j \in q \ b, j # i
      PROVE  /\ Len(p[j]) <= Len(s[j]) /\ \A k \in 1 .. Len(p[j]) : p[j][k] = s[j][k]
             /\ \E g : Counts(g, j, p, n2, s)
  <2>1. j \in q \ a
    BY <1>7, Zenon
  <2>2. PICK g : Counts(g, j, p, n, s)
    BY <1>1, <2>1, Zenon DEF Flows
  <2>3. 1 \in 1 .. Len(n.stream) /\ 1 - 1 = 0
    BY <1>2
  <2>4. g[1] = Len(p[j])
    BY <1>7, <2>2, <2>3, Zenon DEF Counts
  <2>5. \E f : Counts(f, j, p, n2, s)
    BY <1>1, <2>2, <2>4, ReadCounts
  <2>6. QED
    BY <1>1, <2>1, <2>5 DEF Flows
<1>8. ASSUME i \in q \ b
      PROVE  /\ Len(p[i]) <= Len(s[i]) /\ \A k \in 1 .. Len(p[i]) : p[i][k] = s[i][k]
             /\ \E g : Counts(g, i, p, n2, s)
  <2>1. i \in a /\ IsFinal(body)
    BY <1>8, Zenon
  <2>2. p[i] = <<>> /\ i \in Id
    BY <1>1, <2>1, Zenon DEF Queued, HandleOK, HandleTypes
  <2>3. Len(s[i]) \in Nat /\ Len(<<>>) = 0
    BY <2>2, SeqFacts, EmptyFacts DEF HandleOK, HandleTypes
  <2>4. \A k \in 1 .. Len(n2.stream) : n2.stream[k].id # i
    <3>1. 1 \in DOMAIN n.stream /\ \A k \in 1 .. Len(n2.stream) : k + 1 > 1
      BY <1>2, <1>3
    <3>2. \A j \in DOMAIN n.stream : j > 1 => n.stream[j].id # n.stream[1].id
      BY <1>1, <2>1, <3>1, Zenon DEF Ending
    <3>3. QED
      BY <1>2, <1>3, <3>1, <3>2, Zenon
  <2>5. \A w \in n2.working : w.id # i
    BY <1>1, <1>2, <1>3, <2>1 DEF Ending
  <2> DEFINE l == Len(n2.stream)  g == [k \in 0 .. l |-> 0]
  <2>6. l \in Nat
    BY <1>2
  <2>7. /\ \A k \in 1 .. l : k \in 0 .. l /\ k - 1 \in 0 .. l
        /\ 0 \in 0 .. l /\ l \in 0 .. l
    BY <2>6
  <2> HIDE DEF l
  <2>8. g \in [0 .. l -> Nat] /\ \A k \in 0 .. l : g[k] = 0
    BY Zenon
  <2> HIDE DEF g
  <2>9. Counts(g, i, p, n2, s)
    BY <2>2, <2>3, <2>4, <2>5, <2>7, <2>8, Zenon DEF Counts, l
  <2>10. QED
    BY <2>2, <2>3, <2>9
<1>9. Flows(q, p, b, n2, s)
  BY <1>7, <1>8, Zenon DEF Flows
<1>10. QED
  BY <1>2, <1>4, <1>5, <1>6, <1>9 DEF HandleOK

\* A response is queued.
LEMMA QueueOK ==
  ASSUME NEW m, NEW q, NEW p, NEW a, NEW n, NEW s, HandleOK(m, q, p, a, n, s), n.stream # <<>>,
         NEW n2 \in NetType, n2.stream = Tail(n.stream), n2.working = n.working,
         NEW i, NEW body, i = n.stream[1].id, body = n.stream[1].body, i \in q \ a,
         NEW p2, p2 = [p EXCEPT ![i] = Append(@, body)],
         NEW q2, q2 = IF IsFinal(body) THEN q \ {i} ELSE q
  PROVE  HandleOK(m, q2, p2, a, n2, s)
<1>1. n \in NetType /\ Given(m, q, p, n, s) /\ Ending(n) /\ Queued(q, p, a) /\ Flows(q, p, a, n, s)
  BY Zenon DEF HandleOK, HandleTypes
<1>2. /\ Ending(n2) /\ Len(n2.stream) = Len(n.stream) - 1 /\ Len(n.stream) \in Nat \ {0}
      /\ \A k \in 1 .. Len(n2.stream) : n2.stream[k] = n.stream[k + 1] /\ k + 1 \in 1 .. Len(n.stream)
      /\ 1 \in 1 .. Len(n.stream) /\ 1 - 1 = 0
  BY <1>1, ReadNet
<1>3. DOMAIN n.stream = 1 .. Len(n.stream) /\ DOMAIN n2.stream = 1 .. Len(n2.stream)
  BY <1>1, NetFacts, Zenon
<1>4. i \in Id /\ i <= m /\ body \in Body /\ p \in [Id -> Seq(Body)] /\ s \in [Id -> Seq(Item)]
  BY <1>1, <1>2, <1>3, NetFacts, Zenon DEF Given, HandleOK, HandleTypes
<1>5. p[i] \in Seq(Item) /\ p[i] \in Seq(Body) /\ Len(p[i]) \in Nat
  BY <1>1, <1>4, SeqFacts, Zenon DEF Queued
<1>6. /\ p2 \in [Id -> Seq(Body)] /\ p2[i] = Append(p[i], body) /\ Append(p[i], body) \in Seq(Body)
      /\ \A j \in Id \ {i} : p2[j] = p[j]
  <2>1. Append(p[i], body) \in Seq(Body)
    BY <1>4, <1>5, AppendFacts
  <2>2. QED
    BY <1>4, <2>1, Zenon
<1>7. /\ Len(p2[i]) = Len(p[i]) + 1 /\ p2[i][Len(p[i]) + 1] = body
      /\ \A k \in 1 .. Len(p[i]) : p2[i][k] = p[i][k]
  <2> DEFINE t == p[i]
  <2>1. t \in Seq(Body)
    BY <1>5, Zenon
  <2> HIDE DEF t
  <2>2. /\ Len(Append(t, body)) = Len(t) + 1 /\ Append(t, body)[Len(t) + 1] = body
        /\ \A k \in 1 .. Len(t) : Append(t, body)[k] = t[k]
    <3>1. body \in Body
      BY <1>4, Zenon
    <3>2. QED
      BY <2>1, <3>1, Appended, SMT
  <2>3. QED
    BY <1>6, <2>2, Zenon DEF t
<1>8. HandleTypes(m, q2, p2, a, n2, s)
  BY <1>6, Zenon DEF HandleOK, HandleTypes
<1>9. Given(m, q2, p2, n2, s)
  <2>1. ASSUME NEW j \in Id, j > m PROVE p2[j] = <<>> /\ s[j] = <<>>
    <3>1. j # i
      <4>1. m \in Nat /\ i \in Nat /\ j \in Nat
        BY <1>4, <2>1, IdNat, Zenon DEF HandleOK, HandleTypes
      <4>2. QED
        BY <1>4, <2>1, <4>1, Apart, Zenon
    <3>2. QED
      BY <1>1, <1>6, <2>1, <3>1, Zenon DEF Given
  <2>2. QED
    BY <1>1, <1>2, <1>3, <2>1, SMTT(30) DEF Given
<1>10. Queued(q2, p2, a)
  <2>1. ASSUME NEW j \in Id, j # i
        PROVE  /\ j \in a => p2[j] = <<>>
               /\ j \in q2 => p2[j] \in Seq(Item)
               /\ j \notin q2 /\ p2[j] # <<>> => IsFinal(p2[j][Len(p2[j])])
    BY <1>1, <1>6, <2>1, Zenon DEF Queued
  <2>2. i \notin a
    BY Zenon
  <2>3. i \in q2 => p2[i] \in Seq(Item)
    <3> SUFFICES ASSUME i \in q2 PROVE Append(p[i], body) \in Seq(Item)
      BY <1>6, Zenon
    <3>1. body \in Item
      BY <1>4, Zenon DEF Body, IsFinal
    <3>2. QED
      BY <1>5, <3>1, AppendFacts, SMTT(30)
  <2>4. i \notin q2 => IsFinal(p2[i][Len(p2[i])])
    BY <1>7, Zenon
  <2>5. QED
    BY <2>1, <2>2, <2>3, <2>4, Zenon DEF Queued
<1>11. ASSUME NEW j \in q2 \ a
       PROVE  /\ Len(p2[j]) <= Len(s[j]) /\ \A k \in 1 .. Len(p2[j]) : p2[j][k] = s[j][k]
              /\ \E g : Counts(g, j, p2, n2, s)
  <2>1. j \in q \ a /\ j \in Id
    BY Zenon DEF HandleOK, HandleTypes
  <2>2. /\ Len(p[j]) <= Len(s[j]) /\ \A k \in 1 .. Len(p[j]) : p[j][k] = s[j][k]
    BY <1>1, <2>1, Zenon DEF Flows
  <2>3. PICK g : Counts(g, j, p, n, s)
    BY <1>1, <2>1, Zenon DEF Flows
  <2>4. /\ g[0] = Len(p[j])
        /\ IF n.stream[1].id = j /\ ~IsFinal(n.stream[1].body)
           THEN g[1] = g[0] + 1 /\ g[1] <= Len(s[j]) /\ s[j][g[1]] = n.stream[1].body
           ELSE g[1] = g[0]
    BY <1>2, <2>3, Zenon DEF Counts
  <2>5. CASE j = i
    <3>1. ~IsFinal(body)
      BY <2>5, Zenon
    <3>2. g[1] = Len(p[i]) + 1 /\ g[1] <= Len(s[i]) /\ s[i][g[1]] = body
      BY <2>4, <2>5, <3>1, SMTT(30)
    <3>3. \E f : Counts(f, j, p2, n2, s)
      BY <1>1, <1>7, <2>3, <2>5, <3>2, ReadCounts, ZenonT(30)
    <3>4. ASSUME NEW k \in 1 .. Len(p2[i]) PROVE p2[i][k] = s[i][k]
      <4>1. k \in 1 .. Len(p[i]) \/ k = Len(p[i]) + 1
        BY <1>5, <1>7, NextPlace, Zenon
      <4>2. QED
        BY <1>7, <2>2, <2>5, <3>2, <4>1, Zenon
    <3>5. QED
      BY <1>7, <2>5, <3>2, <3>3, <3>4, ZenonT(30)
  <2>6. CASE j # i
    <3>1. g[1] = Len(p2[j]) /\ p2[j] = p[j]
      BY <1>6, <2>1, <2>4, <2>6, Zenon
    <3>2. \E f : Counts(f, j, p2, n2, s)
      BY <1>1, <2>3, <3>1, ReadCounts, Zenon
    <3>3. QED
      BY <2>2, <3>1, <3>2, Zenon
  <2>7. QED
    BY <2>5, <2>6, Zenon
<1>12. Flows(q2, p2, a, n2, s)
  BY <1>11, Zenon DEF Flows
<1>13. QED
  BY <1>2, <1>8, <1>9, <1>10, <1>12, Zenon DEF HandleOK

\* The first message of the stream is put on the chain it belongs to.
Queues(q, p, a, n, q2, p2, n2) ==
  LET i == n.stream[1].id  body == n.stream[1].body IN
  /\ n.stream # <<>> /\ n2 \in NetType /\ n2.stream = Tail(n.stream) /\ n2.working = n.working
  /\ i \in q \ a
  /\ p2 = [p EXCEPT ![i] = Append(@, body)]
  /\ q2 = IF IsFinal(body) THEN q \ {i} ELSE q

LEMMA QueuesOK ==
  ASSUME NEW m, NEW q, NEW p, NEW a, NEW n, NEW s, HandleOK(m, q, p, a, n, s),
         NEW q2, NEW p2, NEW n2, Queues(q, p, a, n, q2, p2, n2)
  PROVE  HandleOK(m, q2, p2, a, n2, s)
<1> DEFINE i == n.stream[1].id  body == n.stream[1].body
<1>1. /\ n.stream # <<>> /\ n2 \in NetType /\ n2.stream = Tail(n.stream) /\ n2.working = n.working
      /\ i \in q \ a
      /\ p2 = [p EXCEPT ![i] = Append(@, body)]
      /\ q2 = IF IsFinal(body) THEN q \ {i} ELSE q
      /\ i = n.stream[1].id /\ body = n.stream[1].body
  BY Zenon DEF Queues
<1> HIDE DEF i, body
<1>2. QED
  BY <1>1, QueueOK, ZenonT(40)

\* What a request gets that is not concerned by a step.
LEMMA CountsKept ==
  ASSUME NEW i, NEW p, NEW p2, NEW n, NEW n2, NEW s, NEW s2, NEW g, Counts(g, i, p, n, s),
         p2[i] = p[i], s2[i] = s[i], n2.stream = n.stream, n2.working \subseteq n.working
  PROVE  Counts(g, i, p2, n2, s2)
BY DEF Counts

\* A chain is thrown away, or returned as a whole.
LEMMA ClearOK ==
  ASSUME NEW m, NEW q, NEW p, NEW a, NEW n, NEW s, HandleOK(m, q, p, a, n, s),
         NEW i \in Id, i \notin q, NEW p2, p2 = [p EXCEPT ![i] = <<>>]
  PROVE  HandleOK(m, q, p2, a, n, s)
<1>1. n \in NetType /\ Given(m, q, p, n, s) /\ Ending(n) /\ Queued(q, p, a) /\ Flows(q, p, a, n, s)
  BY DEF HandleOK, HandleTypes
<1>2. p2 \in [Id -> Seq(Body)] /\ p2[i] = <<>> /\ \A j \in Id \ {i} : p2[j] = p[j]
  BY EmptyFacts DEF HandleOK, HandleTypes
<1>3. HandleTypes(m, q, p2, a, n, s)
  BY <1>2 DEF HandleOK, HandleTypes
<1>4. Given(m, q, p2, n, s)
  BY <1>1, <1>2 DEF Given
<1>5. Queued(q, p2, a)
  BY <1>1, <1>2 DEF Queued
<1>6. Flows(q, p2, a, n, s)
  <2>1. ASSUME NEW j \in q \ a
        PROVE  /\ Len(p2[j]) <= Len(s[j]) /\ \A k \in 1 .. Len(p2[j]) : p2[j][k] = s[j][k]
               /\ \E g : Counts(g, j, p2, n, s)
    <3>1. p2[j] = p[j]
      BY <1>2, Zenon DEF HandleOK, HandleTypes
    <3>2. PICK g : Counts(g, j, p, n, s)
      BY <1>1 DEF Flows
    <3>3. Counts(g, j, p2, n, s)
      BY <3>1, <3>2, CountsKept, Zenon
    <3>4. QED
      BY <1>1, <3>1, <3>3 DEF Flows
  <2>2. QED
    BY <2>1, Zenon DEF Flows
<1>7. QED
  BY <1>1, <1>3, <1>4, <1>5, <1>6 DEF HandleOK

\* A request is abandoned.
LEMMA AbandonOK ==
  ASSUME NEW m, NEW q, NEW p, NEW a, NEW n, NEW s, HandleOK(m, q, p, a, n, s),
         NEW i \in Id, NEW p2, p2 = [p EXCEPT ![i] = <<>>],
         NEW n2 \in NetType, n2.stream = n.stream, n2.working \subseteq n.working
  PROVE  HandleOK(m, q \ {i}, p2, a \cup {i}, n2, s)
<1>1. n \in NetType /\ Given(m, q, p, n, s) /\ Ending(n) /\ Queued(q, p, a) /\ Flows(q, p, a, n, s)
  BY DEF HandleOK, HandleTypes
<1>2. p2 \in [Id -> Seq(Body)] /\ p2[i] = <<>> /\ \A j \in Id \ {i} : p2[j] = p[j]
  BY EmptyFacts, Zenon DEF HandleOK, HandleTypes
<1>3. HandleTypes(m, q \ {i}, p2, a \cup {i}, n2, s)
  BY <1>2 DEF HandleOK, HandleTypes
<1>4. Given(m, q \ {i}, p2, n2, s)
  BY <1>1, <1>2, Zenon DEF Given
<1>5. Queued(q \ {i}, p2, a \cup {i})
  BY <1>1, <1>2, Zenon DEF Queued
<1>6. Ending(n2)
  BY <1>1 DEF Ending
<1>7. Flows(q \ {i}, p2, a \cup {i}, n2, s)
  <2>1. ASSUME NEW j \in (q \ {i}) \ (a \cup {i})
        PROVE  /\ Len(p2[j]) <= Len(s[j]) /\ \A k \in 1 .. Len(p2[j]) : p2[j][k] = s[j][k]
               /\ \E g : Counts(g, j, p2, n2, s)
    <3>1. p2[j] = p[j] /\ j \in q \ a
      BY <1>2, Zenon DEF HandleOK, HandleTypes
    <3>2. PICK g : Counts(g, j, p, n, s)
      BY <1>1, <3>1 DEF Flows
    <3>3. Counts(g, j, p2, n2, s)
      BY <3>1, <3>2, CountsKept, Zenon
    <3>4. QED
      BY <1>1, <3>1, <3>3, Zenon DEF Flows
  <2>2. QED
    BY <2>1, Zenon DEF Flows
<1>8. QED
  BY <1>3, <1>4, <1>5, <1>6, <1>7, Zenon DEF HandleOK

\* The server sends x, and v is the count after it.
Longer(n, n2, x, i, p, s, s2, g, v) ==
  /\ n \in NetType /\ n2 \in NetType /\ x \in Message /\ n2.stream = Append(n.stream, x)
  /\ i \in Id /\ s \in [Id -> Seq(Item)] /\ s2 \in [Id -> Seq(Item)]
  /\ Counts(g, i, p, n, s) /\ v \in Nat
  /\ Len(s[i]) <= Len(s2[i]) /\ \A k \in 1 .. Len(s[i]) : s2[i][k] = s[i][k]
  /\ IF x.id = i /\ ~IsFinal(x.body)
     THEN v = g[Len(n.stream)] + 1 /\ v <= Len(s2[i]) /\ s2[i][v] = x.body
     ELSE v = g[Len(n.stream)]
  /\ \A k \in 1 .. Len(n.stream) :
       n.stream[k].id = i /\ IsFinal(n.stream[k].body) => Len(s2[i]) = Len(s[i])
  /\ x.id = i /\ IsFinal(x.body) => v = Len(s2[i])
  /\ (\E w \in n2.working : w.id = i) => v = Len(s2[i])

LEMMA AppendCounts ==
  ASSUME NEW n, NEW n2, NEW x, NEW i, NEW p, NEW s, NEW s2, NEW g, NEW v,
         Longer(n, n2, x, i, p, s, s2, g, v)
  PROVE  \E f : Counts(f, i, p, n2, s2)
<1>a. /\ n \in NetType /\ n2 \in NetType /\ x \in Message /\ n2.stream = Append(n.stream, x)
      /\ i \in Id /\ s \in [Id -> Seq(Item)] /\ s2 \in [Id -> Seq(Item)]
      /\ Counts(g, i, p, n, s) /\ v \in Nat
  BY Zenon DEF Longer
<1>b. Len(s[i]) <= Len(s2[i]) /\ \A k \in 1 .. Len(s[i]) : s2[i][k] = s[i][k]
  BY Zenon DEF Longer
<1>c. IF x.id = i /\ ~IsFinal(x.body)
      THEN v = g[Len(n.stream)] + 1 /\ v <= Len(s2[i]) /\ s2[i][v] = x.body
      ELSE v = g[Len(n.stream)]
  BY Zenon DEF Longer
<1>d. /\ \A k \in 1 .. Len(n.stream) :
           n.stream[k].id = i /\ IsFinal(n.stream[k].body) => Len(s2[i]) = Len(s[i])
      /\ x.id = i /\ IsFinal(x.body) => v = Len(s2[i])
      /\ (\E w \in n2.working : w.id = i) => v = Len(s2[i])
  BY DEF Longer
<1> DEFINE l == Len(n.stream)  f == [k \in 0 .. l + 1 |-> IF k <= l THEN g[k] ELSE v]
<1>1. n.stream \in Seq(Message) /\ l \in Nat
  BY <1>a, NetFacts, Zenon
<1>2. /\ Len(n2.stream) = l + 1 /\ n2.stream[l + 1] = x
      /\ \A k \in 1 .. l : n2.stream[k] = n.stream[k]
  BY <1>a, <1>1, AppendFacts
<1>3. Len(s[i]) \in Nat /\ Len(s2[i]) \in Nat
  BY <1>a, SeqFacts, Zenon
<1> HIDE DEF l
<1>4. g \in [0 .. l -> Nat]
  BY <1>a DEF Counts, l
<1>5. /\ f \in [0 .. l + 1 -> Nat]
      /\ \A k \in 0 .. l : f[k] = g[k]
      /\ f[l + 1] = v
  BY <1>a, <1>1, <1>4
<1> HIDE DEF f
<1>6. f[0] = Len(p[i])
  BY <1>a, <1>1, <1>5 DEF Counts
<1>7. ASSUME NEW k \in 1 .. l + 1
      PROVE  IF n2.stream[k].id = i /\ ~IsFinal(n2.stream[k].body)
             THEN f[k] = f[k - 1] + 1 /\ f[k] <= Len(s2[i]) /\ s2[i][f[k]] = n2.stream[k].body
             ELSE f[k] = f[k - 1]
  <2>1. CASE k \in 1 .. l
    <3>1. k - 1 \in 0 .. l /\ k \in 0 .. l
      BY <1>1, <2>1
    <3>2. f[k] = g[k] /\ f[k - 1] = g[k - 1] /\ g[k - 1] \in Nat /\ n2.stream[k] = n.stream[k]
      BY <1>2, <1>4, <1>5, <2>1, <3>1, Zenon
    <3>3. IF n.stream[k].id = i /\ ~IsFinal(n.stream[k].body)
          THEN g[k] = g[k - 1] + 1 /\ g[k] <= Len(s[i]) /\ s[i][g[k]] = n.stream[k].body
          ELSE g[k] = g[k - 1]
      BY <1>a, <2>1, Zenon DEF Counts, l
    <3>4. CASE n.stream[k].id = i /\ ~IsFinal(n.stream[k].body)
      <4>1. g[k] = g[k - 1] + 1 /\ g[k] \in 1 .. Len(s[i]) /\ g[k] <= Len(s2[i])
        BY <1>b, <1>3, <3>2, <3>3, <3>4
      <4>2. s2[i][g[k]] = n.stream[k].body
        BY <1>b, <3>3, <3>4, <4>1, Zenon
      <4>3. QED
        BY <3>2, <3>4, <4>1, <4>2, Zenon
    <3>5. CASE ~(n.stream[k].id = i /\ ~IsFinal(n.stream[k].body))
      BY <3>2, <3>3, <3>5, Zenon
    <3>6. QED
      BY <3>4, <3>5
  <2>2. CASE k = l + 1
    <3>1. f[k] = v /\ f[k - 1] = g[l] /\ n2.stream[k] = x
      BY <1>1, <1>2, <1>5, <2>2
    <3>2. QED
      BY <1>c, <3>1, Zenon DEF l
  <2>3. k \in 1 .. l \/ k = l + 1
    BY <1>1
  <2>4. QED
    BY <2>1, <2>2, <2>3, Zenon
<1>8. ASSUME NEW k \in 1 .. l + 1, n2.stream[k].id = i /\ IsFinal(n2.stream[k].body)
      PROVE  f[k] = Len(s2[i])
  <2>1. CASE k \in 1 .. l
    <3>1. n2.stream[k] = n.stream[k] /\ f[k] = g[k]
      BY <1>1, <1>2, <1>5, <2>1
    <3>2. g[k] = Len(s[i]) /\ Len(s2[i]) = Len(s[i])
      BY <1>a, <1>d, <1>8, <2>1, <3>1, Zenon DEF Counts, l
    <3>3. QED
      BY <3>1, <3>2, Zenon
  <2>2. CASE k = l + 1
    BY <1>d, <1>2, <1>5, <1>8, <2>2, Zenon
  <2>3. QED
    BY <1>1, <2>1, <2>2
<1>9. Counts(f, i, p, n2, s2)
  BY <1>d, <1>2, <1>5, <1>6, <1>7, <1>8, Zenon DEF Counts
<1>10. QED
  BY <1>9

\* The server sends x for an operation w.
Sends(n, w, x, n2) ==
  /\ n \in NetType /\ Ending(n) /\ n2 \in NetType /\ w \in n.working /\ x \in Message
  /\ x.id = w.id /\ n2.stream = Append(n.stream, x)
  /\ \/ n2.working = n.working /\ ~IsFinal(x.body)
     \/ n2.working = n.working \ {w} /\ IsFinal(x.body)
  /\ x.body = "more" => x.id < MaxId

Grown(n, x, n2) ==
  /\ Ending(n2) /\ Len(n.stream) \in Nat
  /\ Len(n2.stream) = Len(n.stream) + 1 /\ n2.stream[Len(n.stream) + 1] = x
  /\ \A k \in 1 .. Len(n.stream) : n2.stream[k] = n.stream[k]
  /\ DOMAIN n.stream = 1 .. Len(n.stream) /\ DOMAIN n2.stream = 1 .. Len(n2.stream)

LEMMA AppendNet ==
  ASSUME NEW n, NEW w, NEW x, NEW n2, Sends(n, w, x, n2)
  PROVE  Grown(n, x, n2)
<1> USE DEF Sends
<1> DEFINE l == Len(n.stream)
<1>1. /\ n.stream \in Seq(Message) /\ l \in Nat
      /\ DOMAIN n.stream = 1 .. l /\ DOMAIN n2.stream = 1 .. Len(n2.stream)
  BY NetFacts
<1>2. /\ Len(n2.stream) = l + 1 /\ n2.stream[l + 1] = x
      /\ \A k \in 1 .. l : n2.stream[k] = n.stream[k]
  BY <1>1, AppendFacts
<1> HIDE DEF l
<1>3. \A k \in 1 .. l + 1 : k \in 1 .. l \/ k = l + 1
  BY <1>1
<1>4. \A u, v \in n2.working : u.id = v.id => u = v
  BY DEF Ending
<1>5. ASSUME NEW k \in 1 .. l + 1, IsFinal(n2.stream[k].body)
      PROVE  /\ \A v \in n2.working : v.id # n2.stream[k].id
             /\ \A j \in 1 .. l + 1 : j > k => n2.stream[j].id # n2.stream[k].id
  <2>1. CASE k \in 1 .. l
    <3>1. /\ n2.stream[k] = n.stream[k] /\ \A v \in n.working : v.id # n.stream[k].id
          /\ \A j \in 1 .. l : j > k => n.stream[j].id # n.stream[k].id
      BY <1>1, <1>2, <1>5, <2>1, Zenon DEF Ending
    <3>2. x.id # n.stream[k].id
      BY <3>1
    <3>3. QED
      BY <1>2, <1>3, <3>1, <3>2, Zenon
  <2>2. CASE k = l + 1
    <3>1. IsFinal(x.body) /\ n2.working = n.working \ {w}
      BY <1>2, <1>5, <2>2, Zenon
    <3>2. \A v \in n2.working : v.id # x.id
      BY <3>1 DEF Ending
    <3>3. \A j \in 1 .. l + 1 : ~(j > k)
      BY <1>1, <2>2
    <3>4. QED
      BY <1>2, <2>2, <3>2, <3>3, Zenon
  <2>3. QED
    BY <1>3, <2>1, <2>2, Zenon
<1>6. \A k \in 1 .. l + 1 : n2.stream[k].body = "more" => n2.stream[k].id < MaxId
  BY <1>1, <1>2, <1>3 DEF Ending
<1>7. Ending(n2)
  BY <1>1, <1>2, <1>4, <1>5, <1>6, Zenon DEF Ending
<1>8. QED
  BY <1>1, <1>2, <1>7, Zenon DEF l, Grown

\* The server returns an item.
LEMMA ItemOK ==
  ASSUME NEW m, NEW q, NEW p, NEW a, NEW n, NEW s, HandleOK(m, q, p, a, n, s),
         NEW w \in n.working, NEW item \in Item, NEW n2 \in NetType, n2.working = n.working,
         n2.stream = Append(n.stream, [id |-> w.id, body |-> item]),
         NEW s2, s2 = [s EXCEPT ![w.id] = Append(@, item)]
  PROVE  HandleOK(m, q, p, a, n2, s2)
<1> DEFINE x == [id |-> w.id, body |-> item]  l == Len(n.stream)
<1>1. n \in NetType /\ Given(m, q, p, n, s) /\ Ending(n) /\ Queued(q, p, a) /\ Flows(q, p, a, n, s)
  BY Zenon DEF HandleOK, HandleTypes
<1>2. w.id \in Id /\ w.id \in Nat /\ w.id <= m /\ m \in Nat /\ s \in [Id -> Seq(Item)] /\ Id \subseteq Nat
  BY <1>1, NetFacts, IdNat, Zenon DEF Given, HandleOK, HandleTypes
<1>3. x \in Message /\ x.id = w.id /\ x.body = item /\ ~IsFinal(x.body) /\ x.body # "more"
      /\ n2.stream = Append(n.stream, x)
  BY <1>2, LibAssumption, Zenon DEF Message, Body, IsFinal, Verdicts
<1> HIDE DEF x
<1>4. /\ Ending(n2) /\ Len(n2.stream) = l + 1 /\ n2.stream[l + 1] = x /\ l \in Nat
      /\ \A k \in 1 .. l : n2.stream[k] = n.stream[k]
      /\ DOMAIN n.stream = 1 .. l /\ DOMAIN n2.stream = 1 .. Len(n2.stream)
  <2>1. Sends(n, w, x, n2)
    BY <1>1, <1>3 DEF Sends
  <2>2. Grown(n, x, n2)
    BY <2>1, AppendNet, Zenon
  <2>3. QED
    BY <2>2, Zenon DEF Grown
<1> DEFINE t == s[w.id]
<1>5. t \in Seq(Item) /\ Len(t) \in Nat
  BY <1>2, SeqFacts, Zenon
<1> HIDE DEF t
<1>6. /\ Append(t, item) \in Seq(Item) /\ Len(Append(t, item)) = Len(t) + 1
      /\ \A k \in 1 .. Len(t) : Append(t, item)[k] = t[k]
      /\ Append(t, item)[Len(t) + 1] = item
  BY <1>5, AppendFacts
<1>7. s2 \in [Id -> Seq(Item)] /\ s2[w.id] = Append(t, item) /\ \A j \in Id \ {w.id} : s2[j] = s[j]
  BY <1>2, <1>6, Zenon DEF t
<1>8. HandleTypes(m, q, p, a, n2, s2)
  BY <1>7, Zenon DEF HandleOK, HandleTypes
<1>9. Given(m, q, p, n2, s2)
  <2>1. ASSUME NEW k \in 1 .. l + 1 PROVE n2.stream[k].id <= m
    <3>1. k \in 1 .. l \/ k = l + 1
      BY <1>4
    <3>2. QED
      BY <1>1, <1>2, <1>3, <1>4, <3>1, Zenon DEF Given
  <2>2. \A j \in Id : j > m => j # w.id
    BY <1>2
  <2>3. QED
    BY <1>1, <1>4, <1>7, <2>1, <2>2, Zenon DEF Given
<1>10. ASSUME NEW i \in q \ a
       PROVE  /\ Len(p[i]) <= Len(s2[i]) /\ \A k \in 1 .. Len(p[i]) : p[i][k] = s2[i][k]
              /\ \E g : Counts(g, i, p, n2, s2)
  <2>1. i \in Id
    BY Zenon DEF HandleOK, HandleTypes
  <2>2. Len(p[i]) <= Len(s[i]) /\ \A k \in 1 .. Len(p[i]) : p[i][k] = s[i][k]
    BY <1>1, Zenon DEF Flows
  <2>3. PICK g : Counts(g, i, p, n, s)
    BY <1>1, Zenon DEF Flows
  <2>4. g[l] \in Nat
    <3>1. l \in 0 .. l
      BY <1>4
    <3>2. QED
      BY <2>3, <3>1, Zenon DEF Counts
  <2>5. CASE i # w.id
    <3>1. s2[i] = s[i] /\ Len(s[i]) \in Nat
      BY <1>2, <1>7, <2>1, <2>5, SeqFacts
    <3>2. (\E v \in n2.working : v.id = i) => g[l] = Len(s2[i])
      BY <2>3, <3>1, Zenon DEF Counts
    <3>3. /\ Len(s[i]) <= Len(s2[i]) /\ \A k \in 1 .. Len(s[i]) : s2[i][k] = s[i][k]
          /\ x.id # i /\ Len(s2[i]) = Len(s[i])
      BY <1>3, <2>5, <3>1
    <3>4. \E f : Counts(f, i, p, n2, s2)
      <4>1. Longer(n, n2, x, i, p, s, s2, g, g[l])
        BY <1>1, <1>2, <1>3, <1>7, <2>1, <2>3, <2>4, <3>2, <3>3, Zenon DEF Longer
      <4>2. QED
        BY <4>1, AppendCounts, Zenon
    <3>5. QED
      BY <2>2, <3>1, <3>4, Zenon
  <2>6. CASE i = w.id
    <3>1. g[l] = Len(t)
      BY <2>3, <2>6, Zenon DEF Counts, t
    <3>2. /\ Len(s2[i]) = Len(s[i]) + 1 /\ s2[i][Len(s[i]) + 1] = item
          /\ \A k \in 1 .. Len(s[i]) : s2[i][k] = s[i][k]
          /\ Len(s[i]) \in Nat /\ Len(s[i]) <= Len(s2[i]) /\ g[l] = Len(s[i])
      BY <1>5, <1>6, <1>7, <2>6, <3>1 DEF t
    <3>3. \A k \in 1 .. l : ~(n.stream[k].id = i /\ IsFinal(n.stream[k].body))
      BY <1>1, <1>4, <2>6, Zenon DEF Ending
    <3>4. /\ g[l] + 1 \in Nat /\ g[l] + 1 <= Len(s2[i]) /\ s2[i][g[l] + 1] = x.body
          /\ g[l] + 1 = Len(s2[i])
      BY <1>3, <3>2
    <3>5. \E f : Counts(f, i, p, n2, s2)
      <4> DEFINE c == g[l] + 1
      <4>1. /\ c \in Nat /\ c = g[Len(n.stream)] + 1 /\ c <= Len(s2[i]) /\ s2[i][c] = x.body
            /\ c = Len(s2[i]) /\ x.id = i /\ ~IsFinal(x.body)
        BY <1>3, <2>6, <3>4
      <4> HIDE DEF c
      <4>2. Longer(n, n2, x, i, p, s, s2, g, c)
        BY <1>1, <1>2, <1>3, <1>7, <2>1, <2>3, <3>2, <3>3, <4>1, Zenon DEF Longer
      <4>3. QED
        BY <4>2, AppendCounts, Zenon
    <3>6. Len(p[i]) <= Len(s2[i]) /\ \A k \in 1 .. Len(p[i]) : k \in 1 .. Len(s[i])
      <4>1. Len(p[i]) \in Nat
        BY <1>1, <2>1, SeqFacts, Zenon DEF Queued
      <4>2. Len(p[i]) <= Len(s[i])
        BY <2>2, Zenon
      <4>3. Len(s2[i]) = Len(s[i]) + 1 /\ Len(s[i]) \in Nat
        BY <3>2
      <4>4. QED
        BY <4>1, <4>2, <4>3
    <3>7. QED
      BY <2>2, <3>2, <3>5, <3>6, Zenon
  <2>7. QED
    BY <2>5, <2>6, Zenon
<1>11. Flows(q, p, a, n2, s2)
  BY <1>10, Zenon DEF Flows
<1>12. QED
  BY <1>1, <1>4, <1>8, <1>9, <1>11, Zenon DEF HandleOK

\* The server finishes an operation.
LEMMA DoneOK ==
  ASSUME NEW m, NEW q, NEW p, NEW a, NEW n, NEW s, HandleOK(m, q, p, a, n, s),
         NEW w \in n.working, NEW v \in Verdicts, v = "more" => m < MaxId,
         NEW n2 \in NetType, n2.working = n.working \ {w},
         n2.stream = Append(n.stream, [id |-> w.id, body |-> v])
  PROVE  HandleOK(m, q, p, a, n2, s)
<1> DEFINE x == [id |-> w.id, body |-> v]  l == Len(n.stream)
<1>1. n \in NetType /\ Given(m, q, p, n, s) /\ Ending(n) /\ Queued(q, p, a) /\ Flows(q, p, a, n, s)
  BY Zenon DEF HandleOK, HandleTypes
<1>2. w.id \in Id /\ w.id \in Nat /\ w.id <= m /\ m \in Nat /\ MaxId \in Nat /\ s \in [Id -> Seq(Item)]
  BY <1>1, NetFacts, IdNat, Zenon DEF Given, HandleOK, HandleTypes
<1>3. x \in Message /\ x.id = w.id /\ x.body = v /\ IsFinal(x.body)
      /\ (x.body = "more" => x.id < MaxId) /\ n2.stream = Append(n.stream, x)
  <2>1. x.id = w.id /\ x.body = v
    BY Zenon
  <2>2. v = "more" => w.id < MaxId
    BY <1>2, Between, Zenon
  <2>3. x \in Message /\ IsFinal(v)
    BY <1>2, Zenon DEF Message, Body, IsFinal
  <2>4. QED
    BY <2>1, <2>2, <2>3, Zenon
<1> HIDE DEF x
<1>4. /\ Ending(n2) /\ Len(n2.stream) = l + 1 /\ n2.stream[l + 1] = x /\ l \in Nat
      /\ \A k \in 1 .. l : n2.stream[k] = n.stream[k]
      /\ DOMAIN n.stream = 1 .. l /\ DOMAIN n2.stream = 1 .. Len(n2.stream)
  <2>1. Sends(n, w, x, n2)
    BY <1>1, <1>3 DEF Sends
  <2>2. Grown(n, x, n2)
    BY <2>1, AppendNet, Zenon
  <2>3. QED
    BY <2>2, Zenon DEF Grown
<1>5. HandleTypes(m, q, p, a, n2, s)
  BY Zenon DEF HandleOK, HandleTypes
<1>6. Given(m, q, p, n2, s)
  <2>1. ASSUME NEW k \in 1 .. l + 1 PROVE n2.stream[k].id <= m
    <3>1. k \in 1 .. l \/ k = l + 1
      BY <1>4
    <3>2. QED
      BY <1>1, <1>2, <1>3, <1>4, <3>1, Zenon DEF Given
  <2>2. QED
    BY <1>1, <1>4, <2>1, Zenon DEF Given
<1>7. ASSUME NEW i \in q \ a PROVE \E g : Counts(g, i, p, n2, s)
  <2>1. i \in Id /\ Len(s[i]) \in Nat
    BY <1>2, SeqFacts, Zenon DEF HandleOK, HandleTypes
  <2>2. PICK g : Counts(g, i, p, n, s)
    BY <1>1, Zenon DEF Flows
  <2>3. g[l] \in Nat
    <3>1. l \in 0 .. l
      BY <1>4
    <3>2. QED
      BY <2>2, <3>1, Zenon DEF Counts
  <2>4. (\E u \in n.working : u.id = i) => g[l] = Len(s[i])
    BY <2>2, Zenon DEF Counts
  <2>5. /\ (\E u \in n2.working : u.id = i) => g[l] = Len(s[i])
        /\ x.id = i => g[l] = Len(s[i])
    BY <1>3, <2>4, Zenon
  <2>6. Len(s[i]) <= Len(s[i])
    BY <2>1
  <2>7. Longer(n, n2, x, i, p, s, s, g, g[l])
    BY <1>1, <1>2, <1>3, <2>1, <2>2, <2>3, <2>5, <2>6, Zenon DEF Longer
  <2>8. QED
    BY <2>7, AppendCounts, Zenon
<1>8. Flows(q, p, a, n2, s)
  BY <1>1, <1>7, Zenon DEF Flows
<1>9. QED
  BY <1>1, <1>4, <1>5, <1>6, <1>8, Zenon DEF HandleOK

\* The link is lost, and with it the end of the stream.
LEMMA CutOK ==
  ASSUME NEW m, NEW q, NEW p, NEW a, NEW n, NEW s, HandleOK(m, q, p, a, n, s),
         NEW c \in 0 .. Len(n.stream), NEW n2 \in NetType, n2.working = {},
         n2.stream = SubSeq(n.stream, 1, c)
  PROVE  HandleOK(m, q, p, a, n2, s)
<1> DEFINE l == Len(n.stream)
<1>1. n \in NetType /\ Given(m, q, p, n, s) /\ Ending(n) /\ Queued(q, p, a) /\ Flows(q, p, a, n, s)
  BY Zenon DEF HandleOK, HandleTypes
<1>2. n.stream \in Seq(Message) /\ l \in Nat /\ DOMAIN n.stream = 1 .. l /\ DOMAIN n2.stream = 1 .. Len(n2.stream)
  BY <1>1, NetFacts, Zenon
<1>3. Len(n2.stream) = c /\ \A k \in 1 .. c : n2.stream[k] = n.stream[k]
  BY <1>2, CutFacts
<1> HIDE DEF l
<1>4. \A k \in 1 .. c : k \in 1 .. l /\ k \in 0 .. l /\ k - 1 \in 0 .. c /\ k \in 0 .. c
  BY <1>2 DEF l
<1>5. HandleTypes(m, q, p, a, n2, s)
  BY Zenon DEF HandleOK, HandleTypes
<1>6. Given(m, q, p, n2, s)
  BY <1>1, <1>2, <1>3, <1>4 DEF Given
<1>7. Ending(n2)
  BY <1>1, <1>2, <1>3, <1>4, Zenon DEF Ending
<1>8. ASSUME NEW i \in q \ a PROVE \E g : Counts(g, i, p, n2, s)
  <2>1. PICK g : Counts(g, i, p, n, s)
    BY <1>1 DEF Flows
  <2> DEFINE f == [k \in 0 .. c |-> g[k]]
  <2>2. \A k \in 0 .. c : k \in 0 .. l
    BY <1>2 DEF l
  <2>3. g \in [0 .. l -> Nat] /\ 0 \in 0 .. c
    BY <1>2, <2>1 DEF Counts, l
  <2>4. f \in [0 .. c -> Nat] /\ \A k \in 0 .. c : f[k] = g[k]
    BY <2>2, <2>3, Zenon
  <2> HIDE DEF f
  <2>5. Counts(f, i, p, n2, s)
    BY <1>3, <1>4, <2>1, <2>3, <2>4, Zenon DEF Counts, l
  <2>6. QED
    BY <2>5, Zenon
<1>9. Flows(q, p, a, n2, s)
  BY <1>1, <1>8, Zenon DEF Flows
<1>10. QED
  BY <1>1, <1>5, <1>6, <1>7, <1>9, Zenon DEF HandleOK

\* The handle is unbound.
LEMMA UnbindOK ==
  ASSUME NEW m, NEW q, NEW p, NEW a, NEW n, NEW s, HandleOK(m, q, p, a, n, s)
  PROVE  HandleOK(m, {}, [i \in Id |-> <<>>], {}, Closed, s)
<1> DEFINE p2 == [i \in Id |-> <<>>]
<1>1. p2 \in [Id -> Seq(Body)] /\ \A i \in Id : p2[i] = <<>>
  BY EmptyFacts, Zenon
<1> HIDE DEF p2
<1>2. Closed \in NetType /\ Closed.working = {} /\ DOMAIN Closed.stream = {}
  BY EmptyFacts, Zenon DEF Closed, NetType
<1>3. HandleTypes(m, {}, p2, {}, Closed, s)
  BY <1>1, <1>2, Zenon DEF HandleOK, HandleTypes
<1>4. Given(m, {}, p2, Closed, s)
  BY <1>1, <1>2, Zenon DEF HandleOK, Given
<1>5. Ending(Closed)
  BY <1>2, Zenon DEF Ending
<1>6. Queued({}, p2, {}) /\ Flows({}, p2, {}, Closed, s)
  BY <1>1, Zenon DEF Queued, Flows
<1>7. QED
  BY <1>3, <1>4, <1>5, <1>6 DEF HandleOK, p2

-------------------------------------------------------------------------------
(* The library's operations. *)

HandleSound(h) ==
  HandleOK(msgid[h], requests[h], responses[h], abandoned[h], net[h], sent[h])

LibInv ==
  /\ LibTypeOK
  /\ \A h \in Handle : HandleSound(h)
  /\ \A h \in Handle : heap[h] = "unused" => msgid[h] = 0

\* What the reference count is needed for: a connection is closed only when no
\* request, or only the one that is being dropped, uses it.
LastRef ==
  \A h \in Handle :
    /\ conn[h] = "none" => requests[h] = {}
    /\ conn[h] = "up" /\ refs[h] <= 1 => requests[h] = {}
    /\ refs[h] <= 1 => \A i \in requests[h] : requests[h] = {i}

\* The variables with a value for every handle that HandleOK is not about.
OtherTypes ==
  /\ heap \in [Handle -> {"unused", "live", "freed"}]
  /\ errno \in [Handle -> Codes]
  /\ timed \in [Handle -> BOOLEAN]
  /\ conn \in [Handle -> {"none", "up", "broken"}]
  /\ refs \in [Handle -> Nat]

LEMMA LibFacts ==
  ASSUME LibInv
  PROVE  /\ OtherTypes
         /\ msgid \in [Handle -> 0 .. MaxId] /\ requests \in [Handle -> SUBSET Id]
         /\ responses \in [Handle -> [Id -> Seq(Body)]] /\ abandoned \in [Handle -> SUBSET Id]
         /\ net \in [Handle -> NetType] /\ sent \in [Handle -> [Id -> Seq(Item)]]
         /\ MaxId \in Nat
BY LibAssumption, Zenon DEF LibInv, LibTypeOK, OtherTypes, NetType

\* A step of handle h, and the values it leaves.
Leaves(h, m, q, p, a, n, s) ==
  /\ msgid' = [msgid EXCEPT ![h] = m] /\ requests' = [requests EXCEPT ![h] = q]
  /\ responses' = [responses EXCEPT ![h] = p] /\ abandoned' = [abandoned EXCEPT ![h] = a]
  /\ net' = [net EXCEPT ![h] = n] /\ sent' = [sent EXCEPT ![h] = s]
  /\ \A g \in Handle : heap'[g] = "unused" => heap[g] = "unused" /\ (g = h => m = 0)

LEMMA StepOK ==
  ASSUME LibInv, NEW h \in Handle, NEW m, NEW q, NEW p, NEW a, NEW n, NEW s,
         HandleOK(m, q, p, a, n, s), OtherTypes', Leaves(h, m, q, p, a, n, s)
  PROVE  LibInv'
<1> USE DEF Leaves
<1>1. /\ m \in 0 .. MaxId /\ q \in SUBSET Id /\ p \in [Id -> Seq(Body)] /\ a \in SUBSET Id
      /\ n \in NetType /\ s \in [Id -> Seq(Item)]
  BY Zenon DEF HandleOK, HandleTypes
<1>2. /\ msgid' \in [Handle -> 0 .. MaxId] /\ requests' \in [Handle -> SUBSET Id]
      /\ responses' \in [Handle -> [Id -> Seq(Body)]] /\ abandoned' \in [Handle -> SUBSET Id]
      /\ net' \in [Handle -> NetType] /\ sent' \in [Handle -> [Id -> Seq(Item)]]
  BY <1>1, LibFacts, Zenon
<1>3. LibTypeOK'
  BY <1>2, Zenon DEF LibTypeOK, OtherTypes, NetType
<1>4. /\ msgid'[h] = m /\ requests'[h] = q /\ responses'[h] = p /\ abandoned'[h] = a
      /\ net'[h] = n /\ sent'[h] = s
  BY LibFacts, Zenon
<1>5. \A g \in Handle \ {h} :
        /\ msgid'[g] = msgid[g] /\ requests'[g] = requests[g] /\ responses'[g] = responses[g]
        /\ abandoned'[g] = abandoned[g] /\ net'[g] = net[g] /\ sent'[g] = sent[g]
  BY LibFacts, Zenon
<1>6. ASSUME NEW g \in Handle PROVE HandleSound(g)'
  <2>1. CASE g = h
    BY <1>4, <2>1, Zenon DEF HandleSound
  <2>2. CASE g # h
    <3>1. HandleSound(g)
      BY ZenonT(40) DEF LibInv
    <3>2. QED
      BY <1>5, <2>2, <3>1, Zenon DEF HandleSound
  <2>3. QED
    BY <2>1, <2>2, Zenon
<1>7. \A g \in Handle : heap'[g] = "unused" => msgid'[g] = 0
  BY <1>4, <1>5 DEF LibInv
<1>8. QED
  BY <1>3, <1>6, <1>7, Zenon DEF LibInv

\* What a step leaves alone.
LEMMA SameAt ==
  ASSUME LibInv, NEW h \in Handle
  PROVE  /\ msgid = [msgid EXCEPT ![h] = msgid[h]] /\ requests = [requests EXCEPT ![h] = requests[h]]
         /\ responses = [responses EXCEPT ![h] = responses[h]]
         /\ abandoned = [abandoned EXCEPT ![h] = abandoned[h]]
         /\ net = [net EXCEPT ![h] = net[h]] /\ sent = [sent EXCEPT ![h] = sent[h]]
BY LibFacts, Zenon

LEMMA LibFrame == LibInv /\ UNCHANGED libVars => LibInv'
BY Zenon DEF LibInv, LibTypeOK, HandleSound, libVars

LEMMA InitializeLib ==
  ASSUME LibInv, NEW h \in Handle, NEW limit \in BOOLEAN, ldap_initialize(h, limit)
  PROVE  LibInv'
<1>1. OtherTypes'
  BY LibFacts DEF ldap_initialize, OtherTypes
<1>2. HandleSound(h)
  BY DEF LibInv
<1>3. \A g \in Handle : heap'[g] = "unused" => heap[g] = "unused" /\ (g = h => msgid[h] = 0)
  BY LibFacts DEF ldap_initialize, OtherTypes
<1>4. UNCHANGED <<msgid, requests, responses, abandoned, net, sent>>
  BY DEF ldap_initialize
<1>5. Leaves(h, msgid[h], requests[h], responses[h], abandoned[h], net[h], sent[h])
  BY <1>3, <1>4, SameAt DEF Leaves
<1>6. QED
  BY <1>1, <1>2, <1>5, StepOK, Zenon DEF HandleSound

LEMMA UnbindLib ==
  ASSUME LibInv, NEW h \in Handle, ldap_unbind_ext(h)
  PROVE  LibInv'
<1>1. OtherTypes'
  BY LibFacts, Zenon DEF ldap_unbind_ext, OtherTypes
<1>2. HandleOK(msgid[h], {}, [i \in Id |-> <<>>], {}, Closed, sent[h])
  BY UnbindOK, Zenon DEF LibInv, HandleSound
<1>3. \A g \in Handle : heap'[g] = "unused" => heap[g] = "unused" /\ (g = h => msgid[h] = 0)
  BY LibFacts DEF ldap_unbind_ext, OtherTypes
<1>4. /\ requests' = [requests EXCEPT ![h] = {}]
      /\ responses' = [responses EXCEPT ![h] = [i \in Id |-> <<>>]]
      /\ abandoned' = [abandoned EXCEPT ![h] = {}] /\ net' = [net EXCEPT ![h] = Closed]
      /\ UNCHANGED <<msgid, sent>>
  BY DEF ldap_unbind_ext
<1>5. msgid' = [msgid EXCEPT ![h] = msgid[h]] /\ sent' = [sent EXCEPT ![h] = sent[h]]
  BY <1>4, SameAt
<1>6. Leaves(h, msgid[h], {}, [i \in Id |-> <<>>], {}, Closed, sent[h])
  BY <1>3, <1>4, <1>5, Zenon DEF Leaves
<1>7. QED
  BY <1>1, <1>2, <1>6, StepOK, Zenon

\* A request is sent.
LEMMA SendLib ==
  ASSUME LibInv, LastRef, NEW h \in Handle, NEW kind \in Kinds, ldap_send(h, kind), room(h, 1),
         heap[h] # "unused"
  PROVE  LibInv'
<1> DEFINE m == msgid[h]  w == [id |-> m + 1, kind |-> kind]
           n == IF conn[h] = "none" THEN Opened ELSE net[h]
           n2 == IF n.alive THEN [n EXCEPT !.working = @ \cup {w}] ELSE n
<1>1. m \in Nat /\ m < MaxId /\ m + 1 \in Id /\ MaxId \in Nat
  BY LibFacts, LibAssumption DEF room, Id
<1>2. HandleOK(m, requests[h], responses[h], abandoned[h], n, sent[h])
  <2>1. CASE conn[h] = "none"
    <3>1. requests[h] = {} /\ n \in {Closed, Opened}
      BY <2>1, Zenon DEF LastRef
    <3>2. HandleOK(m, {}, responses[h], abandoned[h], net[h], sent[h])
      BY <3>1, Zenon DEF LibInv, HandleSound
    <3> HIDE DEF m, n
    <3>3. QED
      BY <3>1, <3>2, ResetOK
  <2>2. CASE conn[h] # "none"
    BY <2>2, Zenon DEF LibInv, HandleSound
  <2>3. QED
    BY <2>1, <2>2, Zenon
<1> HIDE DEF n
<1>3. n \in NetType
  BY <1>2, Zenon DEF HandleOK, HandleTypes
<1>4. w \in Operation
  BY <1>1 DEF Operation
<1>5. /\ n2 \in NetType /\ n2.stream = n.stream
      /\ n2.working = n.working \/ n2.working = n.working \cup {w}
  BY <1>3, <1>4, ZenonT(40) DEF NetType
<1> HIDE DEF n2
<1>6. HandleOK(m + 1, requests[h] \cup {m + 1}, responses[h], abandoned[h], n2, sent[h])
  BY <1>1, <1>2, <1>5, SendOK
<1>7. OtherTypes'
  BY LibFacts DEF ldap_send, OtherTypes, setErrno, Codes, Verdicts
<1>8. \A g \in Handle : heap'[g] = "unused" => heap[g] = "unused" /\ (g = h => m + 1 = 0)
  BY DEF ldap_send
<1>9. /\ msgid' = [msgid EXCEPT ![h] = m + 1]
      /\ requests' = [requests EXCEPT ![h] = requests[h] \cup {m + 1}]
      /\ net' = [net EXCEPT ![h] = n2] /\ UNCHANGED <<responses, abandoned, sent>>
  BY DEF ldap_send, n, n2
<1>10. /\ responses' = [responses EXCEPT ![h] = responses[h]]
       /\ abandoned' = [abandoned EXCEPT ![h] = abandoned[h]]
       /\ sent' = [sent EXCEPT ![h] = sent[h]]
  BY <1>9, SameAt
<1>11. Leaves(h, m + 1, requests[h] \cup {m + 1}, responses[h], abandoned[h], n2, sent[h])
  BY <1>8, <1>9, <1>10, Zenon DEF Leaves
<1>12. QED
  BY <1>6, <1>7, <1>11, StepOK, Zenon

\* Message IDs are used up for nothing.
LEMMA IdsLib ==
  ASSUME LibInv, NEW h \in Handle, NEW d \in {0, 1}, d = 0 \/ (room(h, 1) /\ heap[h] # "unused"),
         msgid' = [msgid EXCEPT ![h] = @ + d], OtherTypes',
         UNCHANGED <<heap, requests, responses, abandoned, net, sent>>
  PROVE  LibInv'
<1> DEFINE m == msgid[h]
<1>1. m \in Nat /\ m + d \in 0 .. MaxId /\ m + d >= m
  BY LibFacts DEF room
<1>2. HandleOK(m, requests[h], responses[h], abandoned[h], net[h], sent[h])
  BY Zenon DEF LibInv, HandleSound
<1>3. HandleOK(m + d, requests[h], responses[h], abandoned[h], net[h], sent[h])
  BY <1>1, <1>2, IdsOK
<1>4. \A g \in Handle : heap'[g] = "unused" => heap[g] = "unused" /\ (g = h => m + d = 0)
  BY DEF LibInv
<1>5. /\ requests' = [requests EXCEPT ![h] = requests[h]]
      /\ responses' = [responses EXCEPT ![h] = responses[h]]
      /\ abandoned' = [abandoned EXCEPT ![h] = abandoned[h]]
      /\ net' = [net EXCEPT ![h] = net[h]] /\ sent' = [sent EXCEPT ![h] = sent[h]]
  BY SameAt
<1>6. msgid' = [msgid EXCEPT ![h] = m + d]
  OBVIOUS
<1>7. Leaves(h, m + d, requests[h], responses[h], abandoned[h], net[h], sent[h])
  BY <1>4, <1>5, <1>6, Zenon DEF Leaves
<1>8. QED
  BY <1>3, <1>7, StepOK, Zenon

LEMMA FailLib ==
  ASSUME LibInv, NEW h \in Handle, room(h, 1), heap[h] # "unused",
         ldap_write_fails(h) \/ ldap_open_fails(h, 0) \/ ldap_open_fails(h, 1)
  PROVE  LibInv'
<1>1. PICK d \in {0, 1} : msgid' = [msgid EXCEPT ![h] = @ + d]
  BY DEF ldap_write_fails, ldap_open_fails
<1>2. OtherTypes'
  <2>1. heap' = heap /\ timed' = timed /\ errno' = [errno EXCEPT ![h] = "down"]
    BY Zenon DEF ldap_write_fails, ldap_open_fails, setErrno
  <2>2. \/ UNCHANGED <<conn, refs>>
        \/ conn' = [conn EXCEPT ![h] = "up"] /\ refs' = [refs EXCEPT ![h] = 1]
    BY Zenon DEF ldap_write_fails, ldap_open_fails
  <2>3. OtherTypes
    BY LibFacts
  <2>4. conn' \in [Handle -> {"none", "up", "broken"}] /\ refs' \in [Handle -> Nat]
    BY <2>2, <2>3 DEF OtherTypes
  <2>5. errno' \in [Handle -> Codes]
    BY <2>1, <2>3 DEF OtherTypes, Codes
  <2>6. QED
    BY <2>1, <2>3, <2>4, <2>5, Zenon DEF OtherTypes
<1>3. UNCHANGED <<heap, requests, responses, abandoned, net, sent>>
  BY Zenon DEF ldap_write_fails, ldap_open_fails
<1>4. QED
  BY <1>1, <1>2, <1>3, IdsLib, Zenon

\* ldap_free_connection, for a step that leaves n and the requests q.
LEMMA FreeTypes ==
  ASSUME LibInv, NEW h \in Handle, NEW status \in {"none", "up", "broken"}, NEW n,
         ldap_free_connection(h, status, n)
  PROVE  /\ conn' \in [Handle -> {"none", "up", "broken"}] /\ refs' \in [Handle -> Nat]
         /\ net' = [net EXCEPT ![h] = IF refs[h] <= 1 THEN Closed ELSE n]
<1>1. refs \in [Handle -> Nat] /\ conn \in [Handle -> {"none", "up", "broken"}]
  BY LibFacts DEF OtherTypes
<1>2. refs' \in [Handle -> Nat]
  BY <1>1 DEF ldap_free_connection
<1>3. QED
  BY <1>1, <1>2, Zenon DEF ldap_free_connection

LEMMA FreeOK ==
  ASSUME NEW m, NEW q, NEW p, NEW a, NEW n, NEW s, HandleOK(m, q, p, a, n, s), NEW last,
         last => q = {}
  PROVE  HandleOK(m, q, p, a, IF last THEN Closed ELSE n, s)
<1>1. CASE last
  <2>1. HandleOK(m, {}, p, a, n, s) /\ q = {}
    BY <1>1
  <2>2. HandleOK(m, {}, p, a, Closed, s)
    BY <2>1, ResetOK
  <2>3. QED
    BY <1>1, <2>1, <2>2
<1>2. CASE ~last
  BY <1>2
<1>3. QED
  BY <1>1, <1>2

\* What is left when the next response has been read.
LEMMA ReadFacts ==
  ASSUME LibInv, NEW h \in Handle, readable(h)
  PROVE  /\ net[h] \in NetType /\ net[h].stream # <<>> /\ conn[h] = "up"
         /\ afterRead(h) \in NetType /\ afterRead(h).stream = Tail(net[h].stream)
         /\ afterRead(h).working = net[h].working
         /\ nextMsg(h) = net[h].stream[1] /\ nextMsg(h) \in Message
<1>1. net[h] \in NetType /\ net[h].stream # <<>> /\ net[h].stream \in Seq(Message) /\ conn[h] = "up"
  BY LibFacts, NetFacts DEF readable
<1>2. /\ Tail(net[h].stream) \in Seq(Message)
      /\ Head(net[h].stream) = net[h].stream[1] /\ Head(net[h].stream) \in Message
  BY <1>1, TailFacts
<1>3. QED
  BY <1>1, <1>2, Zenon DEF NetType, afterRead, nextMsg

LEMMA TossLib ==
  ASSUME LibInv, NEW h \in Handle, toss(h)
  PROVE  LibInv'
<1> DEFINE i == nextMsg(h).id  body == nextMsg(h).body
           b == IF IsFinal(body) THEN abandoned[h] \ {i} ELSE abandoned[h]
<1>1. readable(h) /\ (i \in abandoned[h] \/ i \notin requests[h])
  BY Zenon DEF toss
<1>2. /\ net[h].stream # <<>> /\ afterRead(h) \in NetType
      /\ afterRead(h).stream = Tail(net[h].stream) /\ afterRead(h).working = net[h].working
      /\ i = net[h].stream[1].id /\ body = net[h].stream[1].body
  BY <1>1, ReadFacts, Zenon
<1>3. HandleOK(msgid[h], requests[h], responses[h], abandoned[h], net[h], sent[h])
  BY DEF LibInv, HandleSound
<1>4. b = abandoned[h] \/ (b = abandoned[h] \ {i} /\ IsFinal(body))
  BY Zenon
<1>5. /\ abandoned' = [abandoned EXCEPT ![h] = b] /\ net' = [net EXCEPT ![h] = afterRead(h)]
      /\ UNCHANGED <<heap, errno, msgid, timed, requests, responses, conn, refs, sent>>
  BY Zenon DEF toss
<1> HIDE DEF i, body, b
<1>6. HandleOK(msgid[h], requests[h], responses[h], b, afterRead(h), sent[h])
  BY <1>1, <1>2, <1>3, <1>4, TossOK, ZenonT(40)
<1>7. OtherTypes'
  BY <1>5, LibFacts DEF OtherTypes
<1>8. \A g \in Handle : heap'[g] = "unused" => heap[g] = "unused" /\ (g = h => msgid[h] = 0)
  BY <1>5, Zenon DEF LibInv
<1>9. /\ msgid' = [msgid EXCEPT ![h] = msgid[h]] /\ requests' = [requests EXCEPT ![h] = requests[h]]
      /\ responses' = [responses EXCEPT ![h] = responses[h]] /\ sent' = [sent EXCEPT ![h] = sent[h]]
  BY <1>5, SameAt
<1>10. Leaves(h, msgid[h], requests[h], responses[h], b, afterRead(h), sent[h])
  BY <1>5, <1>8, <1>9, Zenon DEF Leaves
<1>11. QED
  BY <1>6, <1>7, <1>10, StepOK, Zenon

\* A response is queued, or it completes a chain and p is left.
LEMMA SettleLib ==
  ASSUME LibInv, LastRef, NEW h \in Handle, expected(h), settle(h, nextMsg(h).body), NEW p,
         HandleOK(msgid[h],
                  IF IsFinal(nextMsg(h).body) THEN requests[h] \ {nextMsg(h).id} ELSE requests[h],
                  p, abandoned[h], afterRead(h), sent[h]),
         responses' = [responses EXCEPT ![h] = p], errno' \in [Handle -> Codes],
         UNCHANGED <<heap, msgid, timed, abandoned, sent>>
  PROVE  LibInv'
<1> DEFINE i == nextMsg(h).id  final == IsFinal(nextMsg(h).body)
           q == IF final THEN requests[h] \ {i} ELSE requests[h]
           last == final /\ refs[h] <= 1
           n == IF last THEN Closed ELSE afterRead(h)
<1>1. readable(h) /\ i \in requests[h] /\ conn[h] = "up"
  BY Zenon DEF expected, readable
<1>2. last => q = {}
  BY <1>1, Zenon DEF LastRef
<1>3. HandleOK(msgid[h], q, p, abandoned[h], n, sent[h])
  <2> HIDE DEF last
  <2>1. HandleOK(msgid[h], q, p, abandoned[h], afterRead(h), sent[h])
    BY Zenon
  <2> HIDE DEF q
  <2>2. QED
    BY <1>2, <2>1, FreeOK, Zenon
<1>4. /\ conn' \in [Handle -> {"none", "up", "broken"}] /\ refs' \in [Handle -> Nat]
      /\ net' = [net EXCEPT ![h] = n]
  <2>1. CASE final
    <3>1. ldap_free_connection(h, "up", afterRead(h))
      BY <2>1, Zenon DEF settle
    <3>2. QED
      BY <2>1, <3>1, FreeTypes, Zenon
  <2>2. CASE ~final
    <3>1. net' = [net EXCEPT ![h] = afterRead(h)] /\ UNCHANGED <<conn, refs>>
      BY <2>2, Zenon DEF settle
    <3>2. QED
      BY <2>2, <3>1, LibFacts, Zenon DEF OtherTypes
  <2>3. QED
    BY <2>1, <2>2, Zenon
<1>5. requests' = [requests EXCEPT ![h] = q]
  BY SameAt, Zenon DEF settle
<1> HIDE DEF q, n
<1>6. OtherTypes'
  BY <1>4, LibFacts, Zenon DEF OtherTypes
<1>7. \A g \in Handle : heap'[g] = "unused" => heap[g] = "unused" /\ (g = h => msgid[h] = 0)
  BY Zenon DEF LibInv
<1>8. /\ msgid' = [msgid EXCEPT ![h] = msgid[h]] /\ sent' = [sent EXCEPT ![h] = sent[h]]
      /\ abandoned' = [abandoned EXCEPT ![h] = abandoned[h]]
  BY SameAt
<1>9. Leaves(h, msgid[h], q, p, abandoned[h], n, sent[h])
  BY <1>4, <1>5, <1>7, <1>8, Zenon DEF Leaves
<1>10. QED
  BY <1>3, <1>6, <1>9, StepOK, Zenon

LEMMA QueueLib ==
  ASSUME LibInv, LastRef, NEW h \in Handle, NEW waited, queue(h, waited)
  PROVE  LibInv'
<1> DEFINE i == nextMsg(h).id  body == nextMsg(h).body
           p == [responses[h] EXCEPT ![i] = Append(@, body)]
           q == IF IsFinal(body) THEN requests[h] \ {i} ELSE requests[h]
<1>1. expected(h) /\ readable(h) /\ i \in requests[h] \ abandoned[h]
  BY Zenon DEF queue, expected
<1>2. /\ net[h].stream # <<>> /\ afterRead(h) \in NetType
      /\ afterRead(h).stream = Tail(net[h].stream) /\ afterRead(h).working = net[h].working
      /\ i = net[h].stream[1].id /\ body = net[h].stream[1].body
  BY <1>1, ReadFacts, Zenon
<1>3. HandleOK(msgid[h], requests[h], responses[h], abandoned[h], net[h], sent[h])
  BY Zenon  DEF LibInv, HandleSound
<1>4. HandleOK(msgid[h], q, p, abandoned[h], afterRead(h), sent[h])
  <2> HIDE DEF i, body
  <2>1. QED
    BY <1>1, <1>2, <1>3, QueueOK, Zenon
<1>5. /\ settle(h, body) /\ responses' = [responses EXCEPT ![h] = p]
      /\ UNCHANGED <<heap, errno, msgid, timed, abandoned, sent>>
  BY DEF queue
<1>6. errno' \in [Handle -> Codes]
  BY <1>5, LibFacts DEF OtherTypes
<1> HIDE DEF p
<1>7. QED
  BY <1>1, <1>4, <1>5, <1>6, SettleLib, Zenon

LEMMA TakeLib ==
  ASSUME LibInv, LastRef, NEW h \in Handle, NEW waited, NEW code \in Codes, take(h, waited, code)
  PROVE  LibInv'
<1> DEFINE i == nextMsg(h).id  body == nextMsg(h).body
           p == [responses[h] EXCEPT ![i] = Append(@, body)]
           p2 == [responses[h] EXCEPT ![i] = <<>>]
           q == IF IsFinal(body) THEN requests[h] \ {i} ELSE requests[h]
<1>1. /\ expected(h) /\ readable(h) /\ i \in requests[h] \ abandoned[h]
      /\ i = waited /\ IsFinal(body)
  BY Zenon DEF take, arrived, expected
<1>2. /\ net[h].stream # <<>> /\ afterRead(h) \in NetType
      /\ afterRead(h).stream = Tail(net[h].stream) /\ afterRead(h).working = net[h].working
      /\ i = net[h].stream[1].id /\ body = net[h].stream[1].body
  BY <1>1, ReadFacts, Zenon
<1>3. /\ HandleOK(msgid[h], requests[h], responses[h], abandoned[h], net[h], sent[h])
      /\ i \in Id /\ responses[h] \in [Id -> Seq(Body)]
  BY <1>1, Zenon DEF LibInv, HandleSound, HandleOK, HandleTypes
<1>4. HandleOK(msgid[h], q, p, abandoned[h], afterRead(h), sent[h])
  <2>1. i = net[h].stream[1].id /\ body = net[h].stream[1].body /\ i \in requests[h] \ abandoned[h]
    BY <1>1, <1>2, Zenon
  <2> HIDE DEF i, body
  <2>2. Queues(requests[h], responses[h], abandoned[h], net[h], q, p, afterRead(h))
    BY <1>2, <2>1, Zenon DEF Queues
  <2> HIDE DEF p, q
  <2>3. QED
    BY <1>3, <2>2, QueuesOK, Zenon
<1>5. p2 = [p EXCEPT ![i] = <<>>] /\ i \notin q
  <2>1. i \notin q
    BY <1>1
  <2> HIDE DEF i, body
  <2>2. QED
    BY <1>3, <2>1, Zenon
<1>6. HandleOK(msgid[h], q, p2, abandoned[h], afterRead(h), sent[h])
  <2> HIDE DEF i, body, p, p2, q
  <2>1. QED
    BY <1>3, <1>4, <1>5, ClearOK, Zenon
<1>7. /\ settle(h, body) /\ responses' = [responses EXCEPT ![h] = p2]
      /\ UNCHANGED <<heap, msgid, timed, abandoned, sent>>
  BY <1>1 DEF take
<1>8. errno' \in [Handle -> Codes]
  BY LibFacts DEF OtherTypes, take, setErrno
<1> HIDE DEF p2
<1>9. QED
  BY <1>1, <1>6, <1>7, <1>8, SettleLib, Zenon

LEMMA ReadErrorLib ==
  ASSUME LibInv, LastRef, NEW h \in Handle, readError(h)
  PROVE  LibInv'
<1> DEFINE n == IF refs[h] <= 1 THEN Closed ELSE net[h]
<1>1. /\ conn[h] = "up" /\ errno' = [errno EXCEPT ![h] = "down"]
      /\ ldap_free_connection(h, "broken", net[h])
      /\ UNCHANGED <<heap, msgid, timed, requests, responses, abandoned, sent>>
  BY Zenon DEF readError, setErrno
<1>2. HandleOK(msgid[h], requests[h], responses[h], abandoned[h], net[h], sent[h])
  BY Zenon DEF LibInv, HandleSound
<1>3. HandleOK(msgid[h], requests[h], responses[h], abandoned[h], n, sent[h])
  <2>1. refs[h] <= 1 => requests[h] = {}
    BY <1>1, Zenon DEF LastRef
  <2>2. QED
    BY <1>2, <2>1, FreeOK, Zenon
<1>4. /\ conn' \in [Handle -> {"none", "up", "broken"}] /\ refs' \in [Handle -> Nat]
      /\ net' = [net EXCEPT ![h] = n]
  BY <1>1, FreeTypes, Zenon
<1> HIDE DEF n
<1>5. OtherTypes'
  BY <1>1, <1>4, LibFacts, Zenon DEF OtherTypes, Codes
<1>6. \A g \in Handle : heap'[g] = "unused" => heap[g] = "unused" /\ (g = h => msgid[h] = 0)
  BY <1>1, Zenon DEF LibInv
<1>7. /\ msgid' = [msgid EXCEPT ![h] = msgid[h]] /\ requests' = [requests EXCEPT ![h] = requests[h]]
      /\ responses' = [responses EXCEPT ![h] = responses[h]]
      /\ abandoned' = [abandoned EXCEPT ![h] = abandoned[h]] /\ sent' = [sent EXCEPT ![h] = sent[h]]
  BY <1>1, SameAt
<1>8. Leaves(h, msgid[h], requests[h], responses[h], abandoned[h], n, sent[h])
  BY <1>4, <1>6, <1>7, Zenon DEF Leaves
<1>9. QED
  BY <1>3, <1>5, <1>8, StepOK, Zenon

\* A whole chain that is queued is not that of a request on the list.
LEMMA WholeIsOver ==
  ASSUME LibInv, NEW h \in Handle, NEW i \in Id, queuedWhole(h, i)
  PROVE  i \notin requests[h]
<1>1. Queued(requests[h], responses[h], abandoned[h])
  BY Zenon DEF LibInv, HandleSound, HandleOK
<1> DEFINE t == responses[h][i]
<1>2. t # <<>> /\ IsFinal(t[Len(t)])
  BY DEF queuedWhole
<1>3. t \notin Seq(Item)
  <2> HIDE DEF t
  <2> SUFFICES ASSUME t \in Seq(Item) PROVE FALSE
    OBVIOUS
  <2>1. Len(t) \in 1 .. Len(t) /\ t[Len(t)] \in Item
    BY <1>2, SeqFacts
  <2>2. QED
    BY <1>2, <2>1, LibAssumption DEF IsFinal, Verdicts
<1>4. QED
  BY <1>1, <1>3, Zenon DEF Queued

LEMMA AbandonLib ==
  ASSUME LibInv, LastRef, NEW h \in Handle, NEW i \in Id, do_abandon(h, i),
         errno' \in [Handle -> Codes], room(h, 1), heap[h] # "unused"
  PROVE  LibInv'
<1> DEFINE p == [responses[h] EXCEPT ![i] = <<>>]
<1>1. HandleOK(msgid[h], requests[h], responses[h], abandoned[h], net[h], sent[h])
  BY DEF LibInv, HandleSound
<1>2. responses' = [responses EXCEPT ![h] = p] /\ UNCHANGED <<heap, timed, sent>>
  BY DEF do_abandon
<1>3. CASE queuedWhole(h, i)
  <2>1. UNCHANGED <<msgid, requests, abandoned, conn, refs, net>>
    BY <1>3, Zenon DEF do_abandon
  <2>2. HandleOK(msgid[h], requests[h], p, abandoned[h], net[h], sent[h])
    BY <1>1, <1>3, WholeIsOver, ClearOK, Zenon
  <2> HIDE DEF p
  <2>3. OtherTypes'
    BY <1>2, <2>1, LibFacts, Zenon DEF OtherTypes
  <2>4. \A g \in Handle : heap'[g] = "unused" => heap[g] = "unused" /\ (g = h => msgid[h] = 0)
    BY <1>2, Zenon DEF LibInv
  <2>5. /\ msgid' = [msgid EXCEPT ![h] = msgid[h]] /\ requests' = [requests EXCEPT ![h] = requests[h]]
        /\ net' = [net EXCEPT ![h] = net[h]]
        /\ abandoned' = [abandoned EXCEPT ![h] = abandoned[h]] /\ sent' = [sent EXCEPT ![h] = sent[h]]
    BY <1>2, <2>1, SameAt
  <2>6. Leaves(h, msgid[h], requests[h], p, abandoned[h], net[h], sent[h])
    BY <1>2, <2>4, <2>5, Zenon DEF Leaves
  <2>7. QED
    BY <2>2, <2>3, <2>6, StepOK, Zenon
<1>4. CASE ~queuedWhole(h, i)
  <2> DEFINE m == IF conn[h] = "none" THEN msgid[h] ELSE msgid[h] + 1
             n == [net[h] EXCEPT !.working = {w \in @ : w.id # i}]
             q == requests[h] \ {i}
             last == i \in requests[h] /\ refs[h] <= 1
             n2 == IF last THEN Closed ELSE n
  <2>1. m \in 0 .. MaxId /\ m >= msgid[h]
    BY LibFacts DEF room
  <2>2. net[h] \in NetType
    BY LibFacts
  <2>3. n \in NetType /\ n.stream = net[h].stream /\ n.working \subseteq net[h].working
    BY <2>2 DEF NetType
  <2> HIDE DEF n
  <2>4. HandleOK(msgid[h], q, p, abandoned[h] \cup {i}, n, sent[h])
    BY <1>1, <2>3, AbandonOK, Zenon
  <2>5. last => q = {}
    BY Zenon DEF LastRef
  <2>6. HandleOK(msgid[h], q, p, abandoned[h] \cup {i}, n2, sent[h])
    <3> HIDE DEF q, p, last
    <3>1. QED
      BY <2>4, <2>5, FreeOK, Zenon
  <2>7. HandleOK(m, q, p, abandoned[h] \cup {i}, n2, sent[h])
    <3> HIDE DEF q, p, n2, m
    <3>1. QED
      BY <2>1, <2>6, IdsOK
  <2>8. /\ msgid' = [msgid EXCEPT ![h] = m] /\ requests' = [requests EXCEPT ![h] = q]
        /\ abandoned' = [abandoned EXCEPT ![h] = abandoned[h] \cup {i}]
    BY <1>4, Zenon DEF do_abandon
  <2>9. /\ conn' \in [Handle -> {"none", "up", "broken"}] /\ refs' \in [Handle -> Nat]
        /\ net' = [net EXCEPT ![h] = n2]
    <3>1. CASE i \in requests[h]
      <4>1. ldap_free_connection(h, conn[h], n) /\ conn[h] \in {"none", "up", "broken"}
        BY <1>4, <3>1, LibFacts, Zenon DEF do_abandon, n, OtherTypes
      <4>2. QED
        BY <3>1, <4>1, FreeTypes
    <3>2. CASE i \notin requests[h]
      <4>1. net' = [net EXCEPT ![h] = n] /\ UNCHANGED <<conn, refs>>
        BY <1>4, <3>2, Zenon DEF do_abandon, n
      <4>2. QED
        BY <3>2, <4>1, LibFacts, Zenon DEF OtherTypes
    <3>3. QED
      BY <3>1, <3>2, Zenon
  <2> HIDE DEF n2, q, p
  <2>10. OtherTypes'
    BY <1>2, <2>9, LibFacts, Zenon DEF OtherTypes
  <2>11. \A g \in Handle : heap'[g] = "unused" => heap[g] = "unused" /\ (g = h => m = 0)
    BY <1>2, Zenon
  <2>12. sent' = [sent EXCEPT ![h] = sent[h]]
    BY <1>2, SameAt
  <2> HIDE DEF m
  <2>13. Leaves(h, m, q, p, abandoned[h] \cup {i}, n2, sent[h])
    BY <1>2, <2>8, <2>9, <2>11, <2>12, Zenon DEF Leaves
  <2>14. QED
    BY <2>7, <2>10, <2>13, StepOK, ZenonT(40)
<1>5. QED
  BY <1>3, <1>4, Zenon

\* A missing connection is opened by a SASL step that fails.
LEMMA OpenLib ==
  ASSUME LibInv, LastRef, NEW h \in Handle, setErrno(h, "error"),
         conn' = [conn EXCEPT ![h] = IF conn[h] = "none" THEN "up" ELSE @],
         refs' = [refs EXCEPT ![h] = IF conn[h] = "none" THEN 1 ELSE @],
         net' = [net EXCEPT ![h] = IF conn[h] = "none" THEN Opened ELSE @],
         UNCHANGED <<heap, msgid, timed, requests, responses, abandoned, sent>>
  PROVE  LibInv'
<1> DEFINE n == IF conn[h] = "none" THEN Opened ELSE net[h]
<1>1. HandleOK(msgid[h], requests[h], responses[h], abandoned[h], net[h], sent[h])
  BY Zenon DEF LibInv, HandleSound
<1>2. HandleOK(msgid[h], requests[h], responses[h], abandoned[h], n, sent[h])
  <2>1. CASE conn[h] = "none"
    <3>1. requests[h] = {} /\ n = Opened
      BY <2>1, Zenon DEF LastRef
    <3>2. HandleOK(msgid[h], {}, responses[h], abandoned[h], Opened, sent[h])
      BY <1>1, <3>1, ResetOK, Zenon
    <3>3. QED
      BY <3>1, <3>2, Zenon
  <2>2. CASE conn[h] # "none"
    BY <1>1, <2>2, Zenon
  <2>3. QED
    BY <2>1, <2>2, Zenon
<1>3. net' = [net EXCEPT ![h] = n]
  BY Zenon
<1>4. OtherTypes'
  BY LibFacts, Zenon DEF OtherTypes, setErrno, Codes, Verdicts
<1> HIDE DEF n
<1>5. \A g \in Handle : heap'[g] = "unused" => heap[g] = "unused" /\ (g = h => msgid[h] = 0)
  BY Zenon DEF LibInv
<1>6. /\ msgid' = [msgid EXCEPT ![h] = msgid[h]] /\ requests' = [requests EXCEPT ![h] = requests[h]]
      /\ responses' = [responses EXCEPT ![h] = responses[h]]
      /\ abandoned' = [abandoned EXCEPT ![h] = abandoned[h]] /\ sent' = [sent EXCEPT ![h] = sent[h]]
  BY SameAt
<1>7. Leaves(h, msgid[h], requests[h], responses[h], abandoned[h], n, sent[h])
  BY <1>3, <1>5, <1>6, Zenon DEF Leaves
<1>8. QED
  BY <1>2, <1>4, <1>7, StepOK, Zenon

\* Only the other end of the connection changes.
LEMMA WireLib ==
  ASSUME LibInv, NEW h \in Handle, NEW n, net' = [net EXCEPT ![h] = n],
         NEW s, sent' = [sent EXCEPT ![h] = s],
         HandleOK(msgid[h], requests[h], responses[h], abandoned[h], n, s),
         UNCHANGED <<heap, errno, msgid, timed, requests, responses, abandoned, conn, refs>>
  PROVE  LibInv'
<1>1. OtherTypes'
  BY LibFacts, Zenon DEF OtherTypes
<1>2. \A g \in Handle : heap'[g] = "unused" => heap[g] = "unused" /\ (g = h => msgid[h] = 0)
  BY Zenon DEF LibInv
<1>3. /\ msgid' = [msgid EXCEPT ![h] = msgid[h]] /\ requests' = [requests EXCEPT ![h] = requests[h]]
      /\ responses' = [responses EXCEPT ![h] = responses[h]]
      /\ abandoned' = [abandoned EXCEPT ![h] = abandoned[h]]
  BY SameAt
<1>4. Leaves(h, msgid[h], requests[h], responses[h], abandoned[h], n, s)
  BY <1>2, <1>3, Zenon DEF Leaves
<1>5. QED
  BY <1>1, <1>4, StepOK, Zenon

LEMMA ItemLib ==
  ASSUME LibInv, NEW h \in Handle, NEW w \in net[h].working, NEW item \in Item, serverItem(h, w, item)
  PROVE  LibInv'
<1> DEFINE x == [id |-> w.id, body |-> item]
           n == [net[h] EXCEPT !.stream = Append(@, x)]
           s == [sent[h] EXCEPT ![w.id] = Append(@, item)]
<1>1. /\ net[h] \in NetType /\ net[h].stream \in Seq(Message) /\ w.id \in Id
      /\ HandleOK(msgid[h], requests[h], responses[h], abandoned[h], net[h], sent[h])
  BY LibFacts, NetFacts, Zenon DEF LibInv, HandleSound
<1>2. Append(net[h].stream, x) \in Seq(Message)
  <2>1. x \in Message
    BY <1>1, Zenon DEF Message, Body
  <2> HIDE DEF x
  <2>2. QED
    BY <1>1, <2>1, AppendFacts, ZenonT(40)
<1>3. n \in NetType /\ n.working = net[h].working /\ n.stream = Append(net[h].stream, x)
  <2> HIDE DEF x
  <2>1. QED
    BY <1>1, <1>2, Zenon DEF NetType
<1>4. /\ net' = [net EXCEPT ![h] = n] /\ sent' = [sent EXCEPT ![h] = s]
      /\ UNCHANGED <<heap, errno, msgid, timed, requests, responses, abandoned, conn, refs>>
  BY DEF serverItem, serverSends
<1> HIDE DEF n
<1>5. HandleOK(msgid[h], requests[h], responses[h], abandoned[h], n, s)
  BY <1>1, <1>3, ItemOK, ZenonT(40)
<1> HIDE DEF s
<1>6. QED
  BY <1>4, <1>5, WireLib, Zenon

\* The server's side after it has answered w with x.
Answering(n, w, x, n2) ==
  \/ n2 = [[n EXCEPT !.working = @ \ {w}] EXCEPT !.stream = Append(@, x)]
  \/ \E b \in BOOLEAN :
       n2 = [[[n EXCEPT !.working = @ \ {w}] EXCEPT !.auth = b] EXCEPT !.stream = Append(@, x)]

Ended(n, w, x, n2) ==
  n2 \in NetType /\ n2.working = n.working \ {w} /\ n2.stream = Append(n.stream, x)

LEMMA NetShape ==
  ASSUME NEW n \in NetType, NEW w, NEW x \in Message, NEW n2, Answering(n, w, x, n2)
  PROVE  Ended(n, w, x, n2)
<1>1. n.stream \in Seq(Message) /\ n.working \in SUBSET Operation
  BY Zenon DEF NetType
<1> DEFINE s == n.stream  t == Append(s, x)
<1>2. t \in Seq(Message)
  <2> HIDE DEF s
  <2>1. QED
    BY <1>1, AppendFacts DEF s
<1> HIDE DEF t
<1>3. PICK b \in BOOLEAN :
        \/ n2 = [[n EXCEPT !.working = @ \ {w}] EXCEPT !.stream = t]
        \/ n2 = [[[n EXCEPT !.working = @ \ {w}] EXCEPT !.auth = b] EXCEPT !.stream = t]
  BY Zenon DEF t, NetType, Answering
<1>4. n2 \in NetType /\ n2.working = n.working \ {w} /\ n2.stream = t
  BY <1>2, <1>3, Zenon DEF NetType
<1>5. QED
  BY <1>4 DEF t, Ended

LEMMA DoneLib ==
  ASSUME LibInv, NEW h \in Handle, NEW w \in net[h].working, NEW v \in Verdicts, serverDone(h, w, v)
  PROVE  LibInv'
<1> DEFINE x == [id |-> w.id, body |-> v]
<1>1. /\ net[h] \in NetType /\ w.id \in Id
      /\ HandleOK(msgid[h], requests[h], responses[h], abandoned[h], net[h], sent[h])
  BY LibFacts, NetFacts, Zenon DEF LibInv, HandleSound
<1>2. x \in Message
  BY <1>1, Zenon DEF Message, Body
<1>3. (v = "success") \in BOOLEAN
  OBVIOUS
<1>4. PICK n : /\ Answering(net[h], w, x, n)
               /\ v = "more" => room(h, 1)
               /\ net' = [net EXCEPT ![h] = n]
  BY <1>3, Zenon DEF serverDone, serverSends, Answering
<1>5. n \in NetType /\ n.working = net[h].working \ {w} /\ n.stream = Append(net[h].stream, x)
  <2> HIDE DEF x
  <2>1. net[h] \in NetType /\ Answering(net[h], w, x, n)
    BY <1>1, <1>4
  <2>2. Ended(net[h], w, x, n)
    BY <1>2, <2>1, NetShape, Zenon
  <2>3. QED
    BY <2>2, Zenon DEF Ended
<1>6. v = "more" => msgid[h] < MaxId
  BY <1>4, LibFacts, RoomLeft, Zenon DEF room
<1>7. HandleOK(msgid[h], requests[h], responses[h], abandoned[h], n, sent[h])
  BY <1>1, <1>5, <1>6, DoneOK, Zenon
<1>8. /\ sent' = [sent EXCEPT ![h] = sent[h]]
      /\ UNCHANGED <<heap, errno, msgid, timed, requests, responses, abandoned, conn, refs>>
  BY SameAt DEF serverDone
<1>9. QED
  BY <1>4, <1>7, <1>8, WireLib, Zenon

LEMMA DroppedLib ==
  ASSUME LibInv, NEW h \in Handle, dropped(h)
  PROVE  LibInv'
<1>1. /\ net[h] \in NetType /\ net[h].stream \in Seq(Message)
      /\ HandleOK(msgid[h], requests[h], responses[h], abandoned[h], net[h], sent[h])
  BY LibFacts, NetFacts, Zenon DEF LibInv, HandleSound
<1>2. PICK c \in 0 .. Len(net[h].stream) :
        net' = [net EXCEPT ![h] = [Closed EXCEPT !.stream = SubSeq(net[h].stream, 1, c)]]
  BY Zenon DEF dropped
<1> DEFINE t == SubSeq(net[h].stream, 1, c)  n == [Closed EXCEPT !.stream = t]
<1>3. t \in Seq(Message)
  BY <1>1, CutFacts, Zenon
<1>4. n \in NetType /\ n.working = {} /\ n.stream = t
  <2> HIDE DEF t
  <2>1. QED
    BY <1>3, Zenon DEF Closed, NetType
<1>5. net' = [net EXCEPT ![h] = n]
  BY <1>2, Zenon
<1> HIDE DEF n
<1>6. HandleOK(msgid[h], requests[h], responses[h], abandoned[h], n, sent[h])
  BY <1>1, <1>4, CutOK, Zenon
<1>7. /\ sent' = [sent EXCEPT ![h] = sent[h]]
      /\ UNCHANGED <<heap, errno, msgid, timed, requests, responses, abandoned, conn, refs>>
  BY SameAt DEF dropped
<1>8. QED
  BY <1>5, <1>6, <1>7, WireLib, Zenon

-------------------------------------------------------------------------------
(* What the proxies rely on: an operation that the server has finished stays  *)
(* finished, and nothing more is sent for it.                                 *)

Over(h, i) == i <= msgid[h] /\ \A w \in net[h].working : w.id # i

Kept ==
  \A h \in Handle, i \in Id : Over(h, i) => Over(h, i)' /\ sent'[h][i] = sent[h][i]

LEMMA KeptFrame == LibInv /\ UNCHANGED <<msgid, net, sent>> => Kept
BY Zenon DEF Kept, Over

LEMMA KeptNet ==
  ASSUME LibInv, NEW h \in Handle, NEW n, net' = [net EXCEPT ![h] = n],
         \A w \in n.working : w \in net[h].working \/ (w.id \in Id /\ w.id > msgid[h]),
         \A g \in Handle : msgid'[g] \in Nat /\ msgid'[g] >= msgid[g], UNCHANGED sent
  PROVE  Kept
<1> SUFFICES ASSUME NEW g \in Handle, NEW i \in Id, Over(g, i)
             PROVE  Over(g, i)'
  BY Zenon DEF Kept
<1>1. i \in Nat /\ msgid[g] \in Nat /\ i <= msgid'[g]
  <2>1. i \in Nat /\ msgid[g] \in Nat /\ i <= msgid[g] /\ msgid'[g] \in Nat /\ msgid'[g] >= msgid[g]
    BY LibFacts DEF Id, Over
  <2>2. QED
    BY <2>1
<1>2. net'[g] = IF g = h THEN n ELSE net[g]
  BY LibFacts, Zenon
<1>3. \A w \in net'[g].working : w.id # i
  <2>1. CASE g = h
    <3> SUFFICES ASSUME NEW w \in n.working PROVE w.id # i
      BY <1>2, <2>1, Zenon
    <3>1. CASE w \in net[h].working
      BY <2>1, <3>1, Zenon DEF Over
    <3>2. CASE w.id \in Id /\ w.id > msgid[h]
      <4>1. w.id \in Nat /\ i <= msgid[h]
        BY <2>1, <3>2 DEF Over, Id
      <4>2. QED
        BY <1>1, <2>1, <3>2, <4>1, Apart, Zenon
    <3>3. QED
      BY <3>1, <3>2, Zenon
  <2>2. CASE g # h
    BY <1>2, <2>2 DEF Over
  <2>3. QED
    BY <2>1, <2>2, Zenon
<1>4. QED
  BY <1>1, <1>3, Zenon DEF Over

\* Steps in which the server gets nothing new to do.
LEMMA KeptFewer ==
  ASSUME LibInv, LibInv', NEW h \in Handle, NEW n, net' = [net EXCEPT ![h] = n],
         n.working \subseteq net[h].working, UNCHANGED <<msgid, sent>>
  PROVE  Kept
<1>1. \A g \in Handle : msgid'[g] \in Nat /\ msgid'[g] >= msgid[g]
  BY LibFacts
<1>2. \A w \in n.working : w \in net[h].working \/ (w.id \in Id /\ w.id > msgid[h])
  OBVIOUS
<1>3. QED
  BY <1>1, <1>2, KeptNet, Zenon

LEMMA KeptIds ==
  ASSUME LibInv, NEW h \in Handle, NEW k \in {0, 1}, msgid' = [msgid EXCEPT ![h] = @ + k],
         UNCHANGED <<net, sent>>
  PROVE  Kept
<1>1. \A g \in Handle : msgid'[g] \in Nat /\ msgid'[g] >= msgid[g]
  BY LibFacts
<1>2. net' = [net EXCEPT ![h] = net[h]]
  BY SameAt, Zenon
<1>3. \A w \in net[h].working : w \in net[h].working \/ (w.id \in Id /\ w.id > msgid[h])
  OBVIOUS
<1>4. QED
  BY <1>1, <1>2, <1>3, KeptNet, Zenon

LEMMA KeptFree ==
  ASSUME LibInv, LibInv', NEW h \in Handle, NEW c, NEW n, ldap_free_connection(h, c, n),
         n.working \subseteq net[h].working, UNCHANGED <<msgid, sent>>
  PROVE  Kept
<1> DEFINE n2 == IF refs[h] <= 1 THEN Closed ELSE n
<1>1. net' = [net EXCEPT ![h] = n2]
  BY Zenon DEF ldap_free_connection
<1>2. n2.working \subseteq net[h].working
  BY Zenon DEF Closed
<1> HIDE DEF n2
<1>3. QED
  BY <1>1, <1>2, KeptFewer, Zenon

LEMMA KeptSend ==
  ASSUME LibInv, LibInv', NEW h \in Handle, NEW kind \in Kinds, ldap_send(h, kind)
  PROVE  Kept /\ msgid'[h] = msgid[h] + 1 /\ msgid'[h] \in Id
<1> DEFINE id == msgid[h] + 1
           n == IF conn[h] = "none" THEN Opened ELSE net[h]
           n2 == IF n.alive THEN [n EXCEPT !.working = @ \cup {[id |-> id, kind |-> kind]}] ELSE n
<1>1. net' = [net EXCEPT ![h] = n2] /\ msgid' = [msgid EXCEPT ![h] = id] /\ UNCHANGED sent
  BY Zenon DEF ldap_send
<1>2. msgid[h] \in Nat /\ msgid'[h] = id /\ id \in Id /\ id \in Nat /\ id > msgid[h]
  <2>1. msgid[h] \in 0 .. MaxId /\ msgid'[h] = id /\ MaxId \in Nat
    BY <1>1, LibFacts, Zenon
  <2>2. msgid'[h] \in 0 .. MaxId
    BY Zenon DEF LibInv, LibTypeOK
  <2>3. QED
    BY <2>1, <2>2 DEF Id
<1>3. n \in NetType /\ n.working \subseteq net[h].working
  <2>1. net[h] \in NetType
    BY LibFacts
  <2>2. Opened \in NetType /\ Opened.working = {}
    BY EmptyFacts, Zenon DEF NetType, Opened, Closed
  <2>3. QED
    BY <2>1, <2>2, Zenon
<1>4. \A w \in n2.working : w \in net[h].working \/ (w.id \in Id /\ w.id > msgid[h])
  <2> HIDE DEF id, n
  <2>1. n2.working \subseteq n.working \cup {[id |-> id, kind |-> kind]}
    BY <1>3 DEF NetType
  <2>2. QED
    BY <1>2, <1>3, <2>1
<1>5. \A g \in Handle : msgid'[g] \in Nat /\ msgid'[g] >= msgid[g]
  BY <1>1, <1>2, LibFacts
<1> HIDE DEF n2
<1>6. Kept
  BY <1>1, <1>4, <1>5, KeptNet, Zenon
<1>7. QED
  BY <1>2, <1>6

LEMMA KeptFail ==
  ASSUME LibInv, LibInv', NEW h \in Handle,
         ldap_write_fails(h) \/ ldap_open_fails(h, 0) \/ ldap_open_fails(h, 1)
  PROVE  Kept
<1>1. PICK k \in {0, 1} : msgid' = [msgid EXCEPT ![h] = @ + k]
  BY Zenon DEF ldap_write_fails, ldap_open_fails
<1>2. UNCHANGED <<net, sent>>
  BY Zenon DEF ldap_write_fails, ldap_open_fails
<1>3. QED
  BY <1>1, <1>2, KeptIds, Zenon

LEMMA KeptRead ==
  ASSUME LibInv, LibInv', NEW h \in Handle, NEW i, NEW code, toss(h) \/ queue(h, i) \/ take(h, i, code)
  PROVE  Kept /\ UNCHANGED msgid
<1>1. afterRead(h).working = net[h].working
  BY LibFacts, Zenon DEF afterRead, NetType
<1>2. UNCHANGED <<msgid, sent>>
  BY DEF toss, queue, take
<1>3. CASE net' = [net EXCEPT ![h] = afterRead(h)]
  <2>1. afterRead(h).working \subseteq net[h].working
    BY <1>1
  <2>2. QED
    BY <1>2, <1>3, <2>1, KeptFewer, Zenon
<1>4. CASE ldap_free_connection(h, "up", afterRead(h))
  <2>1. afterRead(h).working \subseteq net[h].working
    BY <1>1
  <2>2. QED
    BY <1>2, <1>4, <2>1, KeptFree, Zenon
<1>5. QED
  BY <1>3, <1>4 DEF toss, queue, take, settle

LEMMA KeptAbandon ==
  ASSUME LibInv, LibInv', NEW h \in Handle, NEW i, do_abandon(h, i)
  PROVE  Kept
<1>1. CASE queuedWhole(h, i)
  BY <1>1, KeptFrame DEF do_abandon
<1>2. CASE ~queuedWhole(h, i)
  <2> DEFINE n == [net[h] EXCEPT !.working = {w \in @ : w.id # i}]
             n2 == IF refs[h] <= 1 THEN Closed ELSE n
  <2>1. n.working \subseteq net[h].working /\ n2.working \subseteq net[h].working
    BY LibFacts DEF NetType, Closed
  <2>2. net' = [net EXCEPT ![h] = n] \/ net' = [net EXCEPT ![h] = n2]
    BY <1>2, Zenon DEF do_abandon, ldap_free_connection
  <2>3. \A g \in Handle : msgid'[g] \in Nat /\ msgid'[g] >= msgid[g]
    <3>1. msgid' = [msgid EXCEPT ![h] = IF conn[h] = "none" THEN @ ELSE @ + 1]
      BY <1>2 DEF do_abandon
    <3>2. QED
      BY <3>1, LibFacts
  <2>4. UNCHANGED sent
    BY DEF do_abandon
  <2>5. /\ \A w \in n.working : w \in net[h].working \/ (w.id \in Id /\ w.id > msgid[h])
        /\ \A w \in n2.working : w \in net[h].working \/ (w.id \in Id /\ w.id > msgid[h])
    BY <2>1, Zenon
  <2> HIDE DEF n, n2
  <2>6. QED
    BY <2>2, <2>3, <2>4, <2>5, KeptNet, Zenon
<1>3. QED
  BY <1>1, <1>2

LEMMA KeptItem ==
  ASSUME LibInv, NEW h \in Handle, NEW w \in net[h].working, NEW item, serverItem(h, w, item)
  PROVE  Kept
<1> DEFINE n == [net[h] EXCEPT !.stream = Append(@, [id |-> w.id, body |-> item])]
<1>1. /\ net' = [net EXCEPT ![h] = n] /\ UNCHANGED msgid
      /\ sent' = [sent EXCEPT ![h] = [sent[h] EXCEPT ![w.id] = Append(@, item)]]
  BY DEF serverItem, serverSends
<1>2. n.working = net[h].working
  BY LibFacts, Zenon DEF NetType
<1> HIDE DEF n
<1>3. \A g \in Handle : net'[g].working = net[g].working
  BY <1>1, <1>2, LibFacts, Zenon
<1>4. \A g \in Handle, i \in Id : sent'[g][i] = sent[g][i] \/ (g = h /\ i = w.id)
  BY <1>1, LibFacts
<1>5. QED
  BY <1>1, <1>3, <1>4, Zenon DEF Kept, Over

LEMMA KeptDone ==
  ASSUME LibInv, LibInv', NEW h \in Handle, NEW w \in net[h].working, NEW v \in Verdicts,
         serverDone(h, w, v)
  PROVE  Kept
<1> DEFINE x == [id |-> w.id, body |-> v]
<1>1. net[h] \in NetType /\ w.id \in Id /\ (v = "success") \in BOOLEAN
  BY LibFacts, NetFacts, Zenon
<1>2. x \in Message
  BY <1>1 DEF Message, Body
<1>3. PICK n : Answering(net[h], w, x, n) /\ net' = [net EXCEPT ![h] = n]
  BY <1>1, Zenon DEF serverDone, serverSends, Answering
<1> HIDE DEF x
<1>4. Ended(net[h], w, x, n)
  BY <1>1, <1>2, <1>3, NetShape, Zenon
<1>5. n.working \subseteq net[h].working
  BY <1>4, Zenon DEF Ended
<1>6. UNCHANGED <<msgid, sent>>
  BY DEF serverDone
<1>7. QED
  BY <1>3, <1>5, <1>6, KeptFewer, Zenon

LEMMA KeptDropped ==
  ASSUME LibInv, LibInv', NEW h \in Handle, dropped(h)
  PROVE  Kept
<1>1. PICK c : net' = [net EXCEPT ![h] = [Closed EXCEPT !.stream = c]]
  BY Zenon DEF dropped
<1> DEFINE n == [Closed EXCEPT !.stream = c]
<1>2. n.working \subseteq net[h].working
  BY DEF Closed
<1>3. UNCHANGED <<msgid, sent>>
  BY DEF dropped
<1> HIDE DEF n
<1>4. QED
  BY <1>1, <1>2, <1>3, KeptFewer, Zenon DEF n

-------------------------------------------------------------------------------
(* The proxies. *)

OpAt(g, j) == [h |-> g, id |-> j]

LEMMA OpShape ==
  ASSUME NEW g \in Handle, NEW j \in Id
  PROVE  OpAt(g, j) \in Ops /\ OpAt(g, j).h = g /\ OpAt(g, j).id = j
BY DEF Ops, OpAt

ProxyTypes ==
  /\ ld \in Handle \cup {Null}
  /\ bound \in BOOLEAN
  /\ wait \in Waits \cup {Null}
  /\ messageId \in [Req -> 0 .. MaxId]
  /\ message \in [Req -> Seq(Item) \cup {Null}]
  /\ results \in [Req -> Seq(Item) \cup {Null}]
  /\ freed \in [Req -> Nat]
  /\ gone \subseteq Req
  /\ aborted \in BOOLEAN
  /\ op \in [Req -> Ops \cup {Null}]
  /\ taken \subseteq Req
  /\ calls \in [Req -> Seq(Callback)]

\* The JavaScript thread waits for the last message ID that its handle has
\* given out, on behalf of a request that has not been answered, and there is
\* an ID left for what may have to be sent after it.
WaitOK ==
  /\ ld \in Handle => heap[ld] # "unused"
  /\ wait # Null =>
       /\ ld \in Handle /\ calls[wait.req] = <<>>
       /\ wait.how = "starttls" => msgid[ld] = 0
       /\ wait.how \in {"step", "sync", "mechs"} => room(ld, 1)
       /\ listening => /\ wait.id = msgid[ld] /\ wait.id \in Id
                       /\ op[wait.req] = [h |-> ld, id |-> wait.id]

\* Who owns the chain of r.
Owned(r) ==
  /\ calls[r] = <<>> => r \notin taken
  /\ r \notin taken => message[r] = Null /\ results[r] = Null /\ freed[r] = 0
  /\ r \in taken => \/ message[r] # Null /\ results[r] = Null /\ freed[r] = 0
                    \/ message[r] = Null /\ results[r] # Null /\ freed[r] = 0
                    \/ message[r] = Null /\ results[r] = Null /\ freed[r] = 1

\* The operation whose result r was given is over.
Received(r) ==
  \A i \in DOMAIN calls[r] : calls[r][i].result # Null =>
    /\ op[r] \in Ops /\ Over(op[r].h, op[r].id)
    /\ calls[r][i].result = sent[op[r].h][op[r].id]

ProxyInv == ProxyTypes /\ WaitOK /\ \A r \in Req : Owned(r) /\ Received(r)

\* What a step of the library leaves of it for the proxies.
LibStep ==
  /\ LibInv /\ LibInv' /\ Kept
  /\ \A h \in Handle : heap'[h] = "unused" => heap[h] = "unused"

LEMMA ReceivedKept ==
  ASSUME Kept, NEW r, Received(r), op'[r] = op[r], calls'[r] = calls[r]
  PROVE  Received(r)'
<1> SUFFICES ASSUME NEW i \in DOMAIN calls[r], calls[r][i].result # Null
             PROVE  /\ op[r] \in Ops /\ Over(op[r].h, op[r].id)'
                    /\ calls[r][i].result = sent'[op[r].h][op[r].id]
  BY Zenon DEF Received, Over
<1>1. /\ op[r] \in Ops /\ Over(op[r].h, op[r].id)
      /\ calls[r][i].result = sent[op[r].h][op[r].id]
  BY Zenon DEF Received
<1>2. op[r].h \in Handle /\ op[r].id \in Id
  BY <1>1 DEF Ops
<1>3. QED
  BY <1>1, <1>2, Zenon DEF Kept

LEMMA FireFacts ==
  ASSUME calls \in [Req -> Seq(Callback)], NEW r \in Req, calls[r] = <<>>, NEW c \in Callback,
         fire(r, <<c>>) \/ fire(r, <<c, c>>)
  PROVE  /\ calls' \in [Req -> Seq(Callback)] /\ calls'[r] # <<>>
         /\ \A i \in DOMAIN calls'[r] : calls'[r][i] = c
         /\ \A q \in Req \ {r} : calls'[q] = calls[q]
<1>1. PICK t : /\ t = <<>> \o <<c>> \/ t = <<>> \o <<c, c>>
               /\ calls' = [calls EXCEPT ![r] = t]
  BY Zenon DEF fire
<1>2. t \in Seq(Callback) /\ t # <<>> /\ \A i \in DOMAIN t : t[i] = c
  BY <1>1, FirstCalls, Zenon
<1>3. calls' \in [Req -> Seq(Callback)] /\ calls'[r] = t /\ \A q \in Req \ {r} : calls'[q] = calls[q]
  BY <1>1, <1>2, Zenon
<1>4. QED
  BY <1>2, <1>3

LEMMA ToldFacts ==
  ASSUME NEW code \in Codes PROVE Told(code) \in Callback /\ Told(code).result = Null
BY Zenon DEF Told, Callback

\* Nothing happens to the requests.
LEMMA AsideProxy ==
  ASSUME ProxyInv, LibStep, UNCHANGED proxyVars, wait # Null => msgid'[ld] = msgid[ld]
  PROVE  ProxyInv'
<1>1. UNCHANGED <<ld, bound, wait, messageId, message, results, freed, gone, taken, aborted, op, calls>>
  BY Zenon DEF proxyVars, memVars
<1>2. ProxyTypes'
  BY <1>1, Zenon DEF ProxyInv, ProxyTypes
<1>3. WaitOK'
  BY <1>1 DEF ProxyInv, WaitOK, LibStep, listening, room
<1>4. ASSUME NEW r \in Req PROVE Owned(r)' /\ Received(r)'
  <2>1. Owned(r)'
    BY <1>1, Zenon DEF ProxyInv, Owned
  <2>2. Received(r)'
    BY <1>1, ReceivedKept DEF ProxyInv, LibStep
  <2>3. QED
    BY <2>1, <2>2, Zenon
<1>5. QED
  BY <1>2, <1>3, <1>4, Zenon DEF ProxyInv

\* r is answered without a chain.
LEMMA ToldProxy ==
  ASSUME ProxyInv, Kept, NEW r \in Req, calls[r] = <<>>, NEW code \in Codes,
         fire(r, <<Told(code)>>) \/ fire(r, <<Told(code), Told(code)>>),
         UNCHANGED <<message, results, freed, taken, op>>
  PROVE  /\ calls' \in [Req -> Seq(Callback)]
         /\ \A q \in Req : Owned(q)' /\ Received(q)'
<1>1. /\ calls' \in [Req -> Seq(Callback)] /\ calls'[r] # <<>>
      /\ \A i \in DOMAIN calls'[r] : calls'[r][i].result = Null
      /\ \A q \in Req \ {r} : calls'[q] = calls[q]
  BY FireFacts, ToldFacts DEF ProxyInv, ProxyTypes
<1>2. ASSUME NEW q \in Req PROVE Owned(q)'
  BY <1>1, Zenon DEF ProxyInv, Owned
<1>3. ASSUME NEW q \in Req PROVE Received(q)'
  <2>1. CASE q = r
    BY <1>1, <2>1, Zenon DEF Received
  <2>2. CASE q # r
    BY <1>1, <2>2, ReceivedKept, Zenon DEF ProxyInv
  <2>3. QED
    BY <2>1, <2>2, Zenon
<1>4. QED
  BY <1>1, <1>2, <1>3, Zenon

LEMMA AnswerProxy ==
  ASSUME ProxyInv, LibStep, NEW r \in Req, start(r), NEW code \in Codes,
         answerNow(r, <<Told(code)>>) \/ answerNow(r, <<Told(code), Told(code)>>),
         ld' \in Handle \cup {Null}, ld' \in Handle => heap'[ld'] # "unused"
  PROVE  ProxyInv'
<1>1. /\ UNCHANGED <<bound, wait, messageId, message, results, freed, gone, taken, aborted, op>>
      /\ wait = Null /\ calls[r] = <<>>
      /\ fire(r, <<Told(code)>>) \/ fire(r, <<Told(code), Told(code)>>)
  BY Zenon DEF answerNow, memVars, start, JsIdle
<1>2. /\ calls' \in [Req -> Seq(Callback)]
      /\ \A q \in Req : Owned(q)' /\ Received(q)'
  BY <1>1, ToldProxy, Zenon DEF LibStep
<1>3. ProxyTypes'
  BY <1>1, <1>2, ZenonT(40) DEF ProxyInv, ProxyTypes
<1>4. WaitOK'
  BY <1>1, Zenon DEF WaitOK
<1>5. QED
  BY <1>2, <1>3, <1>4, Zenon DEF ProxyInv

LEMMA FinishProxy ==
  ASSUME ProxyInv, LibStep, wait # Null, NEW code \in Codes, finish(wait.req, <<Told(code)>>),
         bound' \in BOOLEAN, UNCHANGED memVars
  PROVE  ProxyInv'
<1>1. wait.req \in Req /\ calls[wait.req] = <<>> /\ ld \in Handle
  BY Zenon DEF ProxyInv, ProxyTypes, Waits, WaitOK
<1>2. /\ UNCHANGED <<ld, messageId, message, results, freed, gone, taken, aborted, op>>
      /\ wait' = Null /\ fire(wait.req, <<Told(code)>>)
  BY DEF finish, memVars
<1>3. /\ calls' \in [Req -> Seq(Callback)]
      /\ \A q \in Req : Owned(q)' /\ Received(q)'
  BY <1>1, <1>2, ToldProxy, Zenon DEF LibStep
<1>4. ProxyTypes'
  BY <1>2, <1>3, Zenon DEF ProxyInv, ProxyTypes
<1>5. WaitOK'
  BY <1>2, Zenon DEF ProxyInv, WaitOK, LibStep
<1>6. QED
  BY <1>3, <1>4, <1>5, Zenon DEF ProxyInv

\* The requests whose state does not change.
LEMMA SameRequests ==
  ASSUME ProxyInv, Kept, UNCHANGED <<calls, message, results, freed, taken>>,
         \A r \in Req : op'[r] = op[r] \/ calls[r] = <<>>
  PROVE  \A r \in Req : Owned(r)' /\ Received(r)'
<1> SUFFICES ASSUME NEW r \in Req PROVE Owned(r)' /\ Received(r)'
  BY ZenonT(40)
<1>1. Owned(r)'
  BY DEF ProxyInv, Owned
<1>2. CASE op'[r] = op[r]
  BY <1>1, <1>2, ReceivedKept, Zenon DEF ProxyInv
<1>3. CASE calls[r] = <<>>
  BY <1>1, <1>3, EmptyFacts, Zenon DEF Received
<1>4. QED
  BY <1>2, <1>3, Zenon

\* The script starts a call that sends nothing at once.
LEMMA BeginProxy ==
  ASSUME ProxyInv, LibStep, NEW r \in Req, start(r), NEW how \in {"starttls", "step"},
         NEW limit \in BOOLEAN, wait' = [req |-> r, how |-> how, id |-> 0, timed |-> limit],
         ld' \in Handle, heap'[ld'] # "unused",
         how = "starttls" => msgid'[ld'] = 0, how = "step" => msgid'[ld'] + 1 <= MaxId,
         UNCHANGED <<bound, messageId, memVars, aborted, op, calls>>
  PROVE  ProxyInv'
<1>1. UNCHANGED <<bound, messageId, message, results, freed, gone, taken, aborted, op, calls>>
  BY DEF memVars
<1>2. /\ wait' \in Waits /\ wait'.req = r /\ wait'.how = how /\ how # "sync" /\ how # "mechs"
  BY Zenon DEF Waits, Calls
<1>3. ProxyTypes'
  BY <1>1, <1>2, Zenon DEF ProxyInv, ProxyTypes
<1>4. ~listening'
  BY <1>2 DEF listening
<1>5. WaitOK'
  BY <1>1, <1>2, <1>4, Zenon DEF WaitOK, room, start
<1>6. \A q \in Req : Owned(q)' /\ Received(q)'
  BY <1>1, SameRequests, Zenon DEF LibStep
<1>7. QED
  BY <1>3, <1>5, <1>6, Zenon DEF ProxyInv

\* A request is sent.
LEMMA ListenProxy ==
  ASSUME ProxyInv, LibStep, NEW r \in Req, calls[r] = <<>>, ld \in Handle,
         NEW how \in Calls \ {"starttls", "options", "step"}, NEW limit \in BOOLEAN, listen(r, how, limit),
         msgid'[ld] = msgid[ld] + 1, msgid'[ld] \in Id,
         how \in {"sync", "mechs"} => msgid'[ld] + 1 <= MaxId
  PROVE  ProxyInv'
<1> DEFINE id == msgid[ld] + 1
<1>1. /\ UNCHANGED <<ld, bound, message, results, freed, gone, taken, aborted, calls>>
      /\ wait' = [req |-> r, how |-> how, id |-> id, timed |-> limit]
      /\ op' = [op EXCEPT ![r] = [h |-> ld, id |-> id]]
      /\ messageId' = [messageId EXCEPT ![r] = IF how = "async" THEN id ELSE @]
  BY Zenon DEF listen, memVars
<1>2. id = msgid'[ld] /\ id \in Id /\ id \in Nat /\ id \in 0 .. MaxId
  BY LibAssumption DEF Id
<1> HIDE DEF id
<1>3. /\ wait' \in Waits /\ wait'.req = r /\ wait'.how = how /\ wait'.id = id
      /\ how # "starttls" /\ how # "options" /\ how # "step" /\ how \in Calls
  BY <1>1, <1>2, Zenon DEF Waits
<1>4. /\ op' \in [Req -> Ops \cup {Null}] /\ op'[r] = [h |-> ld, id |-> id]
      /\ \A q \in Req : op'[q] = op[q] \/ calls[q] = <<>>
      /\ messageId' \in [Req -> 0 .. MaxId]
  BY <1>1, <1>2, Zenon DEF ProxyInv, ProxyTypes, Ops
<1>5. ProxyTypes'
  BY <1>1, <1>3, <1>4, Zenon DEF ProxyInv, ProxyTypes
<1>6. WaitOK'
  <2>1. heap'[ld] # "unused"
    BY Zenon DEF ProxyInv, WaitOK, LibStep
  <2>2. QED
    BY <1>1, <1>2, <1>3, <1>4, <2>1, Zenon DEF WaitOK, room
<1>7. \A q \in Req : Owned(q)' /\ Received(q)'
  BY <1>1, <1>4, SameRequests, Zenon DEF LibStep
<1>8. QED
  BY <1>5, <1>6, <1>7, Zenon DEF ProxyInv

LEMMA GoOnProxy ==
  ASSUME ProxyInv, LibStep, wait # Null, NEW how \in {"options", "step"}, goOn(how),
         how = "step" => msgid'[ld] + 1 <= MaxId
  PROVE  ProxyInv'
<1>1. /\ UNCHANGED <<ld, bound, messageId, message, results, freed, gone, taken, aborted, op, calls>>
      /\ wait' = [wait EXCEPT !.how = how]
  BY Zenon DEF goOn, memVars
<1>2. wait \in Waits
  BY DEF ProxyInv, ProxyTypes
<1>3. /\ wait' \in Waits /\ wait'.req = wait.req /\ wait'.how = how
      /\ how # "sync" /\ how # "mechs" /\ how # "starttls"
  BY <1>1, <1>2, Zenon DEF Waits, Calls
<1>4. ProxyTypes'
  BY <1>1, <1>3, Zenon DEF ProxyInv, ProxyTypes
<1>5. ~listening'
  BY <1>3 DEF listening
<1>6. WaitOK'
  BY <1>1, <1>3, <1>5, Zenon DEF ProxyInv, WaitOK, LibStep, room
<1>7. \A q \in Req : Owned(q)' /\ Received(q)'
  BY <1>1, SameRequests, Zenon DEF LibStep
<1>8. QED
  BY <1>4, <1>6, <1>7, Zenon DEF ProxyInv

\* A chain that is complete is what the server sent, and the server is through
\* with its request.
LEMMA ChainFacts ==
  ASSUME LibInv, NEW h \in Handle, NEW i, arrived(h, i)
  PROVE  /\ i \in Id /\ responses[h][i] \in Seq(Item) /\ responses[h][i] = sent[h][i]
         /\ Over(h, i) /\ nextMsg(h).body \in Verdicts
         /\ nextMsg(h).body = "more" => i < MaxId
<1>1. readable(h) /\ i \in requests[h] \ abandoned[h] /\ i = nextMsg(h).id /\ IsFinal(nextMsg(h).body)
  BY DEF arrived, expected
<1>2. /\ net[h].stream # <<>> /\ i = net[h].stream[1].id
      /\ nextMsg(h).body = net[h].stream[1].body
  BY <1>1, ReadFacts, Zenon
<1>3. /\ HandleOK(msgid[h], requests[h], responses[h], abandoned[h], net[h], sent[h])
      /\ net[h] \in NetType /\ i \in Id
  BY <1>1, LibFacts, Zenon DEF LibInv, HandleSound
<1>4. 1 \in 1 .. Len(net[h].stream) /\ DOMAIN net[h].stream = 1 .. Len(net[h].stream) /\ 1 - 1 = 0
  <2>1. net[h].stream \in Seq(Message)
    BY <1>3, Zenon DEF NetType
  <2>2. Len(net[h].stream) \in Nat \ {0} /\ DOMAIN net[h].stream = 1 .. Len(net[h].stream)
    BY <1>2, <2>1, SeqFacts, Zenon
  <2>3. QED
    BY <2>2, FirstPlace, Zenon
<1>5. responses[h][i] \in Seq(Item) /\ sent[h][i] \in Seq(Item)
  BY <1>1, <1>3, LibFacts, Zenon DEF HandleOK, Queued
<1>6. /\ Len(responses[h][i]) = Len(sent[h][i])
      /\ \A k \in 1 .. Len(responses[h][i]) : responses[h][i][k] = sent[h][i][k]
  <2>1. PICK g : Counts(g, i, responses[h], net[h], sent[h])
    BY <1>1, <1>3, Zenon DEF HandleOK, Flows
  <2>2. g[0] = Len(responses[h][i]) /\ g[1] = g[0] /\ g[1] = Len(sent[h][i])
    BY <1>1, <1>2, <1>4, <2>1, Zenon DEF Counts
  <2>3. \A k \in 1 .. Len(responses[h][i]) : responses[h][i][k] = sent[h][i][k]
    BY <1>1, <1>3, Zenon DEF HandleOK, Flows
  <2>4. QED
    BY <2>2, <2>3, Zenon
<1>7. responses[h][i] = sent[h][i]
  BY <1>5, <1>6, SameSeq, Zenon
<1>8. Over(h, i)
  BY <1>1, <1>2, <1>3, <1>4, Zenon DEF HandleOK, Given, Ending, Over
<1>9. nextMsg(h).body = "more" => i < MaxId
  BY <1>2, <1>3, <1>4, Zenon DEF HandleOK, Ending
<1>10. QED
  BY <1>1, <1>3, <1>5, <1>7, <1>8, <1>9, Zenon DEF IsFinal

\* A search is answered with its chain.
LEMMA SearchProxy ==
  ASSUME ProxyInv, LibStep, listening, NEW code \in Codes, NEW chain \in Seq(Item),
         searchDone(wait.req, code, chain), chain = sent[ld][wait.id], Over(ld, wait.id)
  PROVE  ProxyInv'
<1> DEFINE r == wait.req
           c == [code |-> code, result |-> IF code = "success" THEN chain ELSE Null]
<1>1. /\ r \in Req /\ calls[r] = <<>> /\ ld \in Handle /\ wait.id \in Id
      /\ op[r] = [h |-> ld, id |-> wait.id]
  BY Zenon DEF listening, ProxyInv, ProxyTypes, Waits, WaitOK
<1>2. c \in Callback
  BY Zenon DEF Callback
<1>3. /\ taken' = taken \cup {r}
      /\ message' = [message EXCEPT ![r] = IF code = "success" THEN Null ELSE chain]
      /\ results' = [results EXCEPT ![r] = IF code = "success" THEN chain ELSE @]
      /\ wait' = Null /\ fire(r, <<c>>)
      /\ UNCHANGED <<ld, bound, messageId, aborted, op, freed, gone>>
  BY Zenon DEF searchDone, finish
<1> HIDE DEF r
<1>4. /\ calls' \in [Req -> Seq(Callback)] /\ calls'[r] # <<>>
      /\ \A i \in DOMAIN calls'[r] : calls'[r][i] = c
      /\ \A q \in Req \ {r} : calls'[q] = calls[q]
  <2> HIDE DEF c
  <2>1. QED
    BY <1>1, <1>2, <1>3, FireFacts, Zenon DEF ProxyInv, ProxyTypes
<1>5. ProxyTypes'
  BY <1>1, <1>3, <1>4, Zenon DEF ProxyInv, ProxyTypes
<1>6. WaitOK'
  BY <1>3, Zenon DEF ProxyInv, WaitOK, LibStep
<1>7. ASSUME NEW q \in Req PROVE Owned(q)'
  <2>1. CASE q = r
    <3>1. message[r] = Null /\ results[r] = Null /\ freed[r] = 0
      BY <1>1, Zenon DEF ProxyInv, Owned
    <3>2. chain # Null
      BY NullAssumption, Zenon
    <3>3. QED
      BY <1>1, <1>3, <1>4, <2>1, <3>1, <3>2, Zenon DEF ProxyInv, ProxyTypes, Owned
  <2>2. CASE q # r
    BY <1>1, <1>3, <1>4, <2>2, Zenon DEF ProxyInv, ProxyTypes, Owned
  <2>3. QED
    BY <2>1, <2>2, Zenon
<1>8. ASSUME NEW q \in Req PROVE Received(q)'
  <2>1. CASE q = r
    <3>1. PICK g \in Handle, j \in Id : g = ld /\ j = wait.id
      BY <1>1, Zenon
    <3>2. Over(g, j)' /\ sent'[g][j] = sent[g][j]
      BY <3>1, Zenon DEF LibStep, Kept
    <3>3. op'[r] \in Ops /\ op'[r].h = g /\ op'[r].id = j
      <4>1. op'[r] = OpAt(g, j)
        BY <1>1, <1>3, <3>1, Zenon DEF OpAt
      <4>2. g \in Handle /\ j \in Id
        BY Zenon
      <4>3. OpAt(g, j) \in Ops /\ OpAt(g, j).h = g /\ OpAt(g, j).id = j
        BY <4>2, OpShape, Zenon
      <4>4. QED
        BY <4>1, <4>3, Zenon
    <3>4. c.result \in {chain, Null} /\ chain = sent'[g][j]
      BY <3>1, <3>2, Zenon
    <3> HIDE DEF c
    <3>5. QED
      BY <1>4, <2>1, <3>2, <3>3, <3>4, Zenon DEF Received, Over
  <2>2. CASE q # r
    BY <1>3, <1>4, <2>2, ReceivedKept, Zenon DEF ProxyInv, LibStep
  <2>3. QED
    BY <2>1, <2>2, Zenon
<1>9. QED
  BY <1>5, <1>6, <1>7, <1>8, Zenon DEF ProxyInv

LEMMA DestroyProxy ==
  ASSUME ProxyInv, LibStep, NEW r \in Req, destroyRequest(r) \/ destroyResult(r)
  PROVE  ProxyInv'
<1>1. UNCHANGED <<heap, errno, msgid, ld, bound, wait, messageId, taken, aborted, op, calls>>
  BY Zenon DEF destroyRequest, destroyResult, libVars
<1>2. /\ gone' \subseteq Req
      /\ \/ /\ calls[r] # <<>> /\ UNCHANGED results /\ message' = [message EXCEPT ![r] = Null]
            /\ freed' = [freed EXCEPT ![r] = IF message[r] # Null THEN @ + 1 ELSE @]
         \/ /\ results[r] # Null /\ UNCHANGED message /\ results' = [results EXCEPT ![r] = Null]
            /\ freed' = [freed EXCEPT ![r] = @ + 1]
  BY Zenon DEF destroyRequest, destroyResult, ProxyInv, ProxyTypes
<1>3. ProxyTypes'
  <2>1. /\ message \in [Req -> Seq(Item) \cup {Null}] /\ results \in [Req -> Seq(Item) \cup {Null}]
        /\ freed \in [Req -> Nat] /\ Null \in Seq(Item) \cup {Null}
    BY Zenon DEF ProxyInv, ProxyTypes
  <2>2. message' \in [Req -> Seq(Item) \cup {Null}] /\ results' \in [Req -> Seq(Item) \cup {Null}]
    <3>1. CASE message' = [message EXCEPT ![r] = Null] /\ UNCHANGED results
      BY <2>1, <3>1, Zenon
    <3>2. CASE results' = [results EXCEPT ![r] = Null] /\ UNCHANGED message
      BY <2>1, <3>2, Zenon
    <3>3. QED
      BY <1>2, <3>1, <3>2, Zenon
  <2>3. freed' \in [Req -> Nat]
    <3>1. PICK f : f \in {freed[r], freed[r] + 1} /\ freed' = [freed EXCEPT ![r] = f]
      BY <1>2, Zenon
    <3>2. f \in Nat
      BY <2>1, <3>1, Bumped, Zenon
    <3>3. QED
      BY <2>1, <3>1, <3>2, Zenon
  <2>4. QED
    BY <1>1, <1>2, <2>2, <2>3, Zenon DEF ProxyInv, ProxyTypes
<1>4. WaitOK'
  BY <1>1, Zenon DEF ProxyInv, WaitOK, listening, room
<1>5. ASSUME NEW q \in Req PROVE Owned(q)'
  <2>1. Owned(q)
    BY Zenon DEF ProxyInv
  <2>2. CASE q = r
    BY <1>1, <1>2, <2>1, <2>2 DEF ProxyInv, ProxyTypes, Owned
  <2>3. CASE q # r
    BY <1>1, <1>2, <2>1, <2>3, Zenon DEF ProxyInv, ProxyTypes, Owned
  <2>4. QED
    BY <2>2, <2>3, Zenon
<1>6. ASSUME NEW q \in Req PROVE Received(q)'
  BY <1>1, ReceivedKept, Zenon DEF ProxyInv, LibStep
<1>7. QED
  BY <1>3, <1>4, <1>5, <1>6, Zenon DEF ProxyInv

\* The handle is forgotten.
LEMMA DisconnectProxy ==
  ASSUME ProxyInv, LibStep, wait = Null, ld' = Null, bound' \in BOOLEAN,
         UNCHANGED <<wait, messageId, memVars, aborted, op, calls>>
  PROVE  ProxyInv'
<1>1. UNCHANGED <<wait, messageId, message, results, freed, gone, taken, aborted, op, calls>>
  BY Zenon DEF memVars
<1>2. ProxyTypes'
  BY <1>1, Zenon DEF ProxyInv, ProxyTypes
<1>3. WaitOK'
  BY <1>1, LibAssumption, Zenon DEF WaitOK
<1>4. \A r \in Req : Owned(r)' /\ Received(r)'
  BY <1>1, SameRequests, Zenon DEF LibStep
<1>5. QED
  BY <1>2, <1>3, <1>4, Zenon DEF ProxyInv

-------------------------------------------------------------------------------
(* The actions. *)

IosInv == LibInv /\ ProxyInv

\* What is needed of the reference count.
LEMMA FrameStep ==
  ASSUME LibInv, UNCHANGED libVars PROVE LibStep
BY LibFrame, KeptFrame, Zenon DEF libVars, LibStep

LEMMA SendStepIos ==
  ASSUME IosInv, LastRef, ld \in Handle, NEW kind \in Kinds, msgid[ld] + 1 <= MaxId,
         ldap_send(ld, kind), UNCHANGED ld
  PROVE  LibStep /\ msgid'[ld] = msgid[ld] + 1 /\ msgid'[ld] \in Id
<1>1. heap[ld] # "unused"
  BY Zenon DEF IosInv, ProxyInv, WaitOK
<1>2. LibInv'
  BY <1>1, SendLib, Zenon DEF IosInv, room
<1>3. Kept /\ msgid'[ld] = msgid[ld] + 1 /\ msgid'[ld] \in Id
  BY <1>2, KeptSend, Zenon DEF IosInv
<1>4. UNCHANGED heap
  BY DEF ldap_send
<1>5. QED
  BY <1>2, <1>3, <1>4, Zenon DEF LibStep, IosInv

LEMMA FailStepIos ==
  ASSUME IosInv, LastRef, ld \in Handle, msgid[ld] + 1 <= MaxId,
         ldap_write_fails(ld) \/ ldap_open_fails(ld, 0) \/ ldap_open_fails(ld, 1)
  PROVE  LibStep
<1>1. heap[ld] # "unused"
  BY Zenon DEF IosInv, ProxyInv, WaitOK
<1>2. LibInv'
  BY <1>1, FailLib, Zenon DEF IosInv, room
<1>3. Kept
  BY <1>2, KeptFail, ZenonT(40) DEF IosInv
<1>4. UNCHANGED heap
  BY Zenon DEF ldap_write_fails, ldap_open_fails
<1>5. QED
  BY <1>2, <1>3, <1>4, Zenon DEF LibStep, IosInv

LEMMA AbandonStepIos ==
  ASSUME IosInv, LastRef, ld \in Handle, NEW i \in Id, do_abandon(ld, i),
         errno' \in [Handle -> Codes], room(ld, 1)
  PROVE  LibStep
<1>1. heap[ld] # "unused"
  BY DEF IosInv, ProxyInv, WaitOK
<1>2. LibInv'
  BY <1>1, AbandonLib, Zenon DEF IosInv
<1>3. Kept
  BY <1>2, KeptAbandon, Zenon DEF IosInv
<1>4. UNCHANGED heap
  BY Zenon DEF do_abandon
<1>5. QED
  BY <1>2, <1>3, <1>4, Zenon DEF LibStep, IosInv

LEMMA InitializeStepIos ==
  ASSUME LibInv, NEW h \in Handle, NEW limit \in BOOLEAN, ldap_initialize(h, limit)
  PROVE  LibStep /\ heap'[h] = "live" /\ msgid'[h] = 0
<1>1. LibInv'
  BY InitializeLib, Zenon
<1>2. /\ heap' = [heap EXCEPT ![h] = "live"] /\ heap[h] = "unused" /\ UNCHANGED <<msgid, net, sent>>
  BY DEF ldap_initialize
<1>3. heap'[h] = "live" /\ (\A g \in Handle : heap'[g] = "unused" => heap[g] = "unused")
  BY <1>2, LibFacts, Zenon DEF OtherTypes
<1>4. QED
  BY <1>1, <1>2, <1>3, KeptFrame, Zenon DEF LibStep, LibInv

LEMMA SentIos ==
  ASSUME IosInv, LastRef, NEW r \in Req, calls[r] = <<>>, ld \in Handle, NEW kind \in Kinds,
         NEW how \in Calls \ {"starttls", "options", "step"}, NEW limit \in BOOLEAN,
         ldap_send(ld, kind), listen(r, how, limit), room(ld, 1),
         how \in {"sync", "mechs"} => room(ld, 2)
  PROVE  IosInv'
<1>1. msgid[ld] \in 0 .. MaxId
  BY LibFacts, Zenon DEF IosInv
<1>2. LibStep /\ msgid'[ld] = msgid[ld] + 1 /\ msgid'[ld] \in Id
  BY SendStepIos, Zenon DEF room, listen
<1>3. how \in {"sync", "mechs"} => msgid'[ld] + 1 <= MaxId
  BY <1>1, <1>2, RoomForTwo, Zenon DEF room
<1>4. ProxyInv'
  BY <1>2, <1>3, ListenProxy, Zenon DEF IosInv
<1>5. QED
  BY <1>2, <1>4, Zenon DEF IosInv, LibStep

LEMMA NotSentIos ==
  ASSUME IosInv, LastRef, NEW r \in Req, start(r), ld \in Handle, notSent(r), room(ld, 1)
  PROVE  IosInv'
<1>1. LibStep
  BY FailStepIos, Zenon DEF notSent, room
<1>2. /\ answerNow(r, <<Told("down")>>) /\ "down" \in Codes
      /\ ld' \in Handle \cup {Null} /\ (ld' \in Handle => heap'[ld'] # "unused")
  BY <1>1, Zenon DEF notSent, Codes, IosInv, ProxyInv, WaitOK, LibStep
<1>3. ProxyInv'
  BY <1>1, <1>2, AnswerProxy, Zenon DEF IosInv
<1>4. QED
  BY <1>1, <1>3, Zenon DEF IosInv, LibStep

LEMMA AbortIos ==
  ASSUME IosInv, abort PROVE IosInv'
<1>1. LibStep
  BY FrameStep, Zenon DEF abort, IosInv
<1>2. UNCHANGED <<ld, bound, wait, messageId, message, results, freed, gone, taken, op, calls, heap, msgid>>
      /\ aborted' = TRUE
  BY Zenon DEF abort, memVars, libVars
<1>3. ProxyTypes'
  BY <1>2, Zenon DEF IosInv, ProxyInv, ProxyTypes
<1>4. WaitOK'
  BY <1>2, Zenon DEF IosInv, ProxyInv, WaitOK, listening, room
<1>5. \A r \in Req : Owned(r)' /\ Received(r)'
  BY <1>1, <1>2, SameRequests, Zenon DEF IosInv, LibStep
<1>6. QED
  BY <1>1, <1>3, <1>4, <1>5, Zenon DEF IosInv, ProxyInv, LibStep

LEMMA ConnectIos ==
  ASSUME IosInv, NEW r \in Req, connect(r) PROVE IosInv'
<1>1. start(r) /\ {"success", "error"} \subseteq Codes
  BY DEF connect, Codes, Verdicts
<1>2. ASSUME NEW h \in Handle, NEW limit \in BOOLEAN, ldap_initialize(h, limit), ld' = h,
             answerNow(r, <<Told("success")>>)
      PROVE  IosInv'
  <2>1. LibStep /\ heap'[ld'] # "unused" /\ ld' \in Handle \cup {Null}
    BY <1>2, InitializeStepIos, Zenon DEF IosInv
  <2>2. ProxyInv'
    BY <1>1, <1>2, <2>1, AnswerProxy, Zenon DEF IosInv
  <2>3. QED
    BY <2>1, <2>2, Zenon DEF IosInv, LibStep
<1>3. ASSUME NEW h \in Handle, ldap_initialize(h, FALSE), ld' = h,
             wait' = [req |-> r, how |-> "starttls", id |-> 0, timed |-> FALSE],
             UNCHANGED <<bound, messageId, memVars, aborted, op, calls>>
      PROVE  IosInv'
  <2>1. LibStep /\ heap'[ld'] # "unused" /\ ld' \in Handle /\ msgid'[ld'] = 0
    BY <1>3, InitializeStepIos, Zenon DEF IosInv
  <2>2. ProxyInv'
    BY <1>1, <1>3, <2>1, BeginProxy, Zenon DEF IosInv
  <2>3. QED
    BY <2>1, <2>2, Zenon DEF IosInv, LibStep
<1>4. CASE answerNow(r, <<Told("error")>>) /\ UNCHANGED <<ld, libVars>>
  <2>1. LibStep /\ UNCHANGED heap
    BY <1>4, FrameStep, Zenon DEF IosInv, libVars
  <2>2. ld' \in Handle \cup {Null} /\ (ld' \in Handle => heap'[ld'] # "unused")
    BY <1>4, <2>1, Zenon DEF IosInv, ProxyInv, ProxyTypes, WaitOK
  <2>3. ProxyInv'
    BY <1>1, <1>4, <2>1, <2>2, AnswerProxy, Zenon DEF IosInv
  <2>4. QED
    BY <2>1, <2>3, Zenon DEF IosInv, LibStep
<1>5. QED
  BY <1>2, <1>3, <1>4, ZenonT(40) DEF connect

LEMMA BindIos ==
  ASSUME IosInv, LastRef, NEW r \in Req, simpleBind(r) \/ saslBind(r) PROVE IosInv'
<1>1. start(r) /\ calls[r] = <<>>
  BY Zenon DEF simpleBind, saslBind, start
<1>2. CASE abort
  BY <1>2, AbortIos, Zenon
<1>3. CASE ~abort
  <2>1. ld \in Handle /\ timed[ld] \in BOOLEAN /\ room(ld, 1)
    <3>1. ld # Null /\ (room(ld, 1) \/ room(ld, 2))
      BY <1>3, Zenon DEF simpleBind, saslBind
    <3>2. ld \in Handle
      BY <3>1, Zenon DEF IosInv, ProxyInv, ProxyTypes
    <3>3. QED
      BY <3>1, <3>2, LibFacts DEF IosInv, OtherTypes, room
  <2>2. CASE notSent(r)
    BY <1>1, <2>1, <2>2, NotSentIos, Zenon
  <2>3. CASE ldap_send(ld, "bind") /\ listen(r, "simple", timed[ld])
    BY <1>1, <2>1, <2>3, SentIos, Zenon DEF Calls, Kinds
  <2>4. CASE room(ld, 2) /\ ldap_send(ld, "search") /\ listen(r, "mechs", timed[ld])
    BY <1>1, <2>1, <2>4, SentIos, Zenon DEF Calls, Kinds
  <2>5. CASE /\ wait' = [req |-> r, how |-> "step", id |-> 0, timed |-> timed[ld]]
             /\ UNCHANGED <<libVars, ld, bound, messageId, memVars, aborted, op, calls>>
    <3>1. LibStep /\ UNCHANGED <<heap, msgid, ld>>
      BY <2>5, FrameStep, Zenon DEF IosInv, libVars
    <3>2. ld' \in Handle /\ heap'[ld'] # "unused" /\ msgid'[ld'] + 1 <= MaxId
      BY <2>1, <3>1, Zenon DEF IosInv, ProxyInv, WaitOK, room
    <3>3. ProxyInv'
      BY <1>1, <2>1, <2>5, <3>1, <3>2, BeginProxy, Zenon DEF IosInv
    <3>4. QED
      BY <3>1, <3>3, Zenon DEF IosInv, LibStep
  <2>6. QED
    BY <1>3, <2>2, <2>3, <2>4, <2>5, ZenonT(40) DEF simpleBind, saslBind
<1>4. QED
  BY <1>2, <1>3, Zenon

LEMMA SearchIos ==
  ASSUME IosInv, LastRef, NEW r \in Req, search(r) PROVE IosInv'
<1>1. start(r) /\ calls[r] = <<>> /\ "error" \in Codes
  BY Zenon DEF search, start, Codes, Verdicts
<1>2. ASSUME isBound PROVE ld \in Handle /\ timed[ld] \in BOOLEAN /\ errno[ld] \in Codes /\ heap[ld] # "unused"
  BY <1>2, LibFacts, Zenon DEF isBound, IosInv, ProxyInv, ProxyTypes, WaitOK, OtherTypes
<1>3. ASSUME NEW code \in Codes, LibStep, UNCHANGED <<ld, heap>>,
             answerNow(r, <<Told(code)>>) \/ answerNow(r, <<Told(code), Told(code)>>)
      PROVE  IosInv'
  <2>1. ld' \in Handle \cup {Null} /\ (ld' \in Handle => heap'[ld'] # "unused")
    BY <1>3, Zenon DEF IosInv, ProxyInv, ProxyTypes, WaitOK
  <2>2. ProxyInv'
    BY <1>1, <1>3, <2>1, AnswerProxy, Zenon DEF IosInv
  <2>3. QED
    BY <1>3, <2>2, Zenon DEF IosInv, LibStep
<1>4. CASE searchUnbound(r)
  <2>1. LibStep /\ UNCHANGED <<ld, heap>>
    BY <1>4, FrameStep, Zenon DEF searchUnbound, IosInv, libVars
  <2>2. QED
    BY <1>1, <1>3, <1>4, <2>1, Zenon DEF searchUnbound
<1>5. ASSUME NEW async \in BOOLEAN, searchZeroLimit(r, async) PROVE IosInv'
  <2>1. LibStep /\ UNCHANGED <<ld, heap>>
    BY <1>5, FrameStep, Zenon DEF searchZeroLimit, IosInv, libVars
  <2>2. PICK code \in Codes : answerNow(r, <<Told(code)>>)
    BY <1>1, <1>2, <1>5, Zenon DEF searchZeroLimit
  <2>3. QED
    BY <1>3, <2>1, <2>2, Zenon
<1>6. CASE searchBadFilter(r)
  <2>1. ld \in Handle /\ heap[ld] # "unused" /\ room(ld, 1) /\ 1 \in {0, 1}
    BY <1>2, <1>6, Zenon DEF searchBadFilter
  <2>2. /\ msgid' = [msgid EXCEPT ![ld] = @ + 1] /\ errno' = [errno EXCEPT ![ld] = "error"]
        /\ UNCHANGED <<ld, heap, timed, requests, responses, abandoned, conn, refs, net, sent>>
        /\ answerNow(r, <<Told("error")>>)
    BY <1>6 DEF searchBadFilter, setErrno
  <2>3. OtherTypes'
    BY <1>1, <2>2, LibFacts, Zenon DEF IosInv, OtherTypes
  <2>4. LibInv'
    BY <2>1, <2>2, <2>3, IdsLib, Zenon DEF IosInv
  <2>5. Kept
    BY <2>1, <2>2, KeptIds, Zenon DEF IosInv
  <2>6. LibStep
    BY <2>2, <2>4, <2>5, Zenon DEF LibStep, IosInv
  <2>7. QED
    BY <1>1, <1>3, <2>2, <2>6, Zenon
<1>7. CASE searchSend(r)
  <2>1. ld \in Handle /\ timed[ld] \in BOOLEAN
    BY <1>2, <1>7, Zenon DEF searchSend
  <2>2. CASE room(ld, 1) /\ notSent(r)
    BY <1>1, <2>1, <2>2, NotSentIos, Zenon
  <2>3. ASSUME NEW limit \in BOOLEAN, room(ld, 2), ldap_send(ld, "search"), listen(r, "sync", limit)
        PROVE  IosInv'
    <3>1. room(ld, 1)
      BY <2>1, <2>3, LibFacts DEF IosInv, room
    <3>2. QED
      BY <1>1, <2>1, <2>3, <3>1, SentIos, Zenon DEF Calls, Kinds
  <2>4. CASE room(ld, 1) /\ ldap_send(ld, "search") /\ listen(r, "async", timed[ld])
    BY <1>1, <2>1, <2>4, SentIos, Zenon DEF Calls, Kinds
  <2>5. QED
    BY <1>7, <2>2, <2>3, <2>4, Zenon DEF searchSend
<1>8. QED
  BY <1>4, <1>5, <1>6, <1>7, Zenon DEF search

LEMMA AbandonIos ==
  ASSUME IosInv, LastRef, NEW r \in Req, abandon(r) PROVE IosInv'
<1>1. CASE abort
  BY <1>1, AbortIos, Zenon
<1>2. CASE ~abort
  <2>1. ld \in Handle /\ messageId[r] \in Id /\ wait = Null
    <3>1. ld # Null /\ messageId[r] # 0 /\ wait = Null
      BY <1>2, Zenon DEF abandon, JsIdle
    <3>2. ld \in Handle /\ messageId[r] \in 0 .. MaxId
      BY <3>1 DEF IosInv, ProxyInv, ProxyTypes
    <3>3. QED
      BY <3>1, <3>2, LibAssumption DEF Id
  <2>2. /\ room(ld, 1) /\ do_abandon(ld, messageId[r]) /\ UNCHANGED proxyVars
        /\ \E code \in abandonCodes(ld, messageId[r]) : setErrno(ld, code)
    BY <1>2, Zenon DEF abandon
  <2>3. errno' \in [Handle -> Codes]
    BY <2>1, <2>2, LibFacts, Zenon DEF IosInv, OtherTypes, setErrno, abandonCodes, Codes, Verdicts
  <2>4. LibStep
    BY <2>1, <2>2, <2>3, AbandonStepIos, Zenon
  <2>5. ProxyInv'
    BY <2>1, <2>2, <2>4, AsideProxy, Zenon DEF IosInv
  <2>6. QED
    BY <2>4, <2>5, Zenon DEF IosInv, LibStep
<1>3. QED
  BY <1>1, <1>2, Zenon

LEMMA DisconnectIos ==
  ASSUME IosInv, disconnect PROVE IosInv'
<1>1. /\ wait = Null /\ ld \in Handle /\ ld' = Null /\ bound' \in BOOLEAN
      /\ UNCHANGED <<wait, messageId, memVars, aborted, op, calls>>
  BY Zenon DEF disconnect, JsIdle, IosInv, ProxyInv, ProxyTypes
<1>2. LibStep
  <2>1. CASE UNCHANGED libVars
    BY <2>1, FrameStep, Zenon DEF IosInv
  <2>2. CASE ldap_unbind_ext(ld)
    <3>1. LibInv'
      BY <1>1, <2>2, UnbindLib, Zenon DEF IosInv
    <3>2. /\ net' = [net EXCEPT ![ld] = Closed] /\ UNCHANGED <<msgid, sent>>
          /\ heap' = [heap EXCEPT ![ld] = "freed"]
      BY <2>2, Zenon DEF ldap_unbind_ext
    <3>3. Closed.working \subseteq net[ld].working
      BY DEF Closed
    <3>4. Kept
      BY <1>1, <3>1, <3>2, <3>3, KeptFewer, Zenon DEF IosInv
    <3>5. \A h \in Handle : heap'[h] = "unused" => heap[h] = "unused"
      BY <3>2, LibFacts, Zenon DEF IosInv, OtherTypes
    <3>6. QED
      BY <3>1, <3>4, <3>5, Zenon DEF LibStep, IosInv
  <2>3. QED
    BY <2>1, <2>2, Zenon DEF disconnect
<1>3. ProxyInv'
  BY <1>1, <1>2, DisconnectProxy, Zenon DEF IosInv
<1>4. QED
  BY <1>2, <1>3, Zenon DEF IosInv, LibStep

LEMMA EnvironmentIos ==
  ASSUME IosInv, Environment \/ Destroy \/ UNCHANGED vars PROVE IosInv'
<1>1. CASE Environment
  <2>1. PICK h \in Handle : itemSent(h) \/ verdictSent(h) \/ linkDropped(h)
    BY <1>1, Zenon DEF Environment
  <2>2. UNCHANGED <<proxyVars, heap, msgid>>
    BY <2>1, Zenon DEF itemSent, verdictSent, linkDropped, serverItem, serverDone, dropped
  <2>3. LibInv' /\ Kept
    <3>1. CASE itemSent(h)
      BY <3>1, ItemLib, KeptItem, Zenon DEF itemSent, IosInv
    <3>2. CASE verdictSent(h)
      BY <3>2, DoneLib, KeptDone, Zenon DEF verdictSent, IosInv
    <3>3. CASE linkDropped(h)
      BY <3>3, DroppedLib, KeptDropped, Zenon DEF linkDropped, IosInv
    <3>4. QED
      BY <2>1, <3>1, <3>2, <3>3, Zenon
  <2>4. LibStep
    BY <2>2, <2>3, Zenon DEF LibStep, IosInv
  <2>5. ProxyInv'
    BY <2>2, <2>4, AsideProxy, Zenon DEF IosInv
  <2>6. QED
    BY <2>3, <2>5, Zenon DEF IosInv
<1>2. CASE Destroy
  <2>1. PICK r \in Req : destroyRequest(r) \/ destroyResult(r)
    BY <1>2, Zenon DEF Destroy
  <2>2. LibStep
    BY <2>1, FrameStep, Zenon DEF destroyRequest, destroyResult, IosInv
  <2>3. QED
    BY <2>1, <2>2, DestroyProxy, Zenon DEF IosInv, LibStep
<1>3. CASE UNCHANGED vars
  <2>1. LibStep /\ UNCHANGED <<proxyVars, msgid>>
    BY <1>3, FrameStep, Zenon DEF vars, libVars, IosInv
  <2>2. QED
    BY <2>1, AsideProxy, Zenon DEF IosInv, LibStep
<1>4. QED
  BY <1>1, <1>2, <1>3, Zenon

LEMMA WaitFacts ==
  ASSUME IosInv, wait # Null
  PROVE  /\ wait \in Waits /\ wait.req \in Req /\ wait.timed \in BOOLEAN /\ ld \in Handle
         /\ calls[wait.req] = <<>> /\ heap[ld] # "unused"
         /\ msgid[ld] \in 0 .. MaxId /\ MaxId \in Nat \ {0}
         /\ {"success", "error", "more", "timeout", "down"} = Codes
<1>1. wait \in Waits /\ ld \in Handle /\ calls[wait.req] = <<>> /\ heap[ld] # "unused"
  BY Zenon DEF IosInv, ProxyInv, ProxyTypes, WaitOK
<1>2. wait.req \in Req /\ wait.timed \in BOOLEAN
  BY <1>1 DEF Waits
<1>3. QED
  BY <1>1, <1>2, LibFacts, LibAssumption, Zenon DEF IosInv, Codes, Verdicts

LEMMA LookIos ==
  ASSUME IosInv, LastRef, keepLooking PROVE IosInv'
<1>1. ld \in Handle /\ UNCHANGED proxyVars /\ (toss(ld) \/ queue(ld, wait.id))
  BY WaitFacts, Zenon DEF keepLooking, listening
<1>2. LibInv'
  BY <1>1, TossLib, QueueLib, Zenon DEF IosInv
<1>3. Kept /\ UNCHANGED msgid
  BY <1>1, <1>2, KeptRead, Zenon DEF IosInv
<1>4. UNCHANGED heap
  BY <1>1 DEF toss, queue
<1>5. LibStep
  BY <1>2, <1>3, <1>4, Zenon DEF LibStep, IosInv
<1>6. ProxyInv'
  BY <1>1, <1>3, <1>5, AsideProxy, Zenon DEF IosInv
<1>7. QED
  BY <1>2, <1>6, Zenon DEF IosInv

LEMMA CodesFacts ==
  ASSUME NEW how, NEW verdict \in Verdicts, NEW chain, NEW code \in codesFor(how, verdict, chain)
  PROVE  /\ code \in Codes /\ (code = "more" => verdict = "more")
         /\ code = "success" => verdict = "success"
BY Zenon DEF codesFor, Codes, Verdicts

LEMMA AnsweredIos ==
  ASSUME IosInv, LastRef, answered PROVE IosInv'
<1> DEFINE chain == responses[ld][wait.id]
<1>1. listening /\ wait # Null /\ arrived(ld, wait.id)
  BY Zenon DEF answered, listening
<1>2. /\ wait \in Waits /\ wait.req \in Req /\ wait.timed \in BOOLEAN /\ ld \in Handle
      /\ MaxId \in Nat /\ msgid[ld] \in Nat
  BY <1>1, WaitFacts
<1>3. /\ wait.id \in Id /\ chain \in Seq(Item) /\ chain = sent[ld][wait.id]
      /\ Over(ld, wait.id) /\ nextMsg(ld).body \in Verdicts
      /\ nextMsg(ld).body = "more" => wait.id < MaxId
  BY <1>1, <1>2, ChainFacts, ZenonT(40) DEF IosInv
<1>4. wait.id = msgid[ld] /\ (wait.how = "mechs" => room(ld, 1))
  BY <1>1 DEF IosInv, ProxyInv, WaitOK
<1>5. PICK code \in codesFor(wait.how, nextMsg(ld).body, chain) :
     /\ take(ld, wait.id, code)
     /\ \/ wait.how = "simple" /\ bindDone(wait.req, code)
        \/ wait.how = "sasl" /\ code # "more" /\ bindDone(wait.req, code)
        \/ wait.how = "sasl" /\ code = "more" /\ goOn("step")
        \/ wait.how = "mechs" /\ code = "success" /\ goOn("step")
        \/ wait.how = "tls" /\ goOn("options")
        \/ /\ wait.how = "mechs"
           /\ code # "success"
           /\ finish(wait.req, <<Told(code)>>)
           /\ UNCHANGED <<bound, memVars>>
        \/ wait.how \in {"sync", "async"} /\ searchDone(wait.req, code, chain)
  BY Zenon DEF answered
<1>6. code \in Codes /\ (code = "more" => wait.id < MaxId)
  <2>1. code \in codesFor(wait.how, nextMsg(ld).body, chain)
    BY <1>5, Zenon
  <2> HIDE DEF chain
  <2>2. PICK v \in Verdicts : v = nextMsg(ld).body
    BY <1>3, Zenon
  <2>3. code \in Codes /\ (code = "more" => v = "more")
    BY <2>1, <2>2, CodesFacts, Zenon
  <2>4. QED
    BY <1>3, <2>2, <2>3, Zenon
<1>7. LibInv'
  BY <1>2, <1>5, <1>6, TakeLib, Zenon DEF IosInv
<1>8. Kept /\ UNCHANGED msgid
  BY <1>2, <1>5, <1>7, KeptRead, Zenon DEF IosInv
<1>9. UNCHANGED heap
  BY <1>5, Zenon DEF take
<1>10. LibStep
  BY <1>7, <1>8, <1>9, Zenon DEF LibStep, IosInv
<1> HIDE DEF chain
<1>11. CASE bindDone(wait.req, code)
  <2>1. /\ finish(wait.req, <<Told(code)>>) /\ UNCHANGED memVars
        /\ bound' = (bound \/ code = "success")
    BY <1>11, Zenon DEF bindDone
  <2>2. bound' \in BOOLEAN
    BY <2>1, Zenon DEF IosInv, ProxyInv, ProxyTypes
  <2>3. QED
    BY <1>1, <1>6, <1>7, <1>10, <2>1, <2>2, FinishProxy, Zenon DEF IosInv
<1>12. CASE goOn("step") /\ (code = "more" \/ wait.how = "mechs")
  <2>1. msgid'[ld] + 1 <= MaxId
    BY <1>2, <1>3, <1>4, <1>6, <1>8, <1>12 DEF room, Id
  <2>2. QED
    BY <1>1, <1>7, <1>10, <1>12, <2>1, GoOnProxy, ZenonT(40) DEF IosInv
<1>13. CASE goOn("options")
  BY <1>1, <1>7, <1>10, <1>13, GoOnProxy, Zenon DEF IosInv
<1>14. CASE finish(wait.req, <<Told(code)>>) /\ UNCHANGED <<bound, memVars>>
  <2>1. bound' \in BOOLEAN
    BY <1>14, Zenon DEF IosInv, ProxyInv, ProxyTypes
  <2>2. QED
    BY <1>1, <1>6, <1>7, <1>10, <1>14, <2>1, FinishProxy, Zenon DEF IosInv
<1>15. CASE searchDone(wait.req, code, chain)
  BY <1>1, <1>3, <1>6, <1>7, <1>10, <1>15, SearchProxy, Zenon DEF IosInv
<1>16. QED
  BY <1>5, <1>11, <1>12, <1>13, <1>14, <1>15, Zenon

LEMMA LostIos ==
  ASSUME IosInv, LastRef, lost PROVE IosInv'
<1>1. wait # Null /\ readError(ld)
  BY Zenon DEF lost, listening
<1>2. ld \in Handle /\ "down" \in Codes
  BY <1>1, WaitFacts, Zenon
<1>3. LibInv'
  BY <1>1, <1>2, ReadErrorLib, Zenon DEF IosInv
<1>4. ldap_free_connection(ld, "broken", net[ld]) /\ UNCHANGED <<heap, msgid, sent>>
  BY <1>1, Zenon DEF readError
<1>5. Kept
  <2>1. net[ld].working \subseteq net[ld].working
    BY Zenon
  <2>2. QED
    BY <1>2, <1>3, <1>4, <2>1, KeptFree, ZenonT(40) DEF IosInv
<1>6. LibStep
  BY <1>3, <1>4, <1>5, Zenon DEF LibStep, IosInv
<1>7. CASE goOn("options")
  BY <1>1, <1>3, <1>6, <1>7, GoOnProxy, Zenon DEF IosInv
<1>8. CASE finish(wait.req, <<Told("down")>>) /\ UNCHANGED <<bound, memVars>>
  <2>1. bound' \in BOOLEAN
    BY <1>8, Zenon DEF IosInv, ProxyInv, ProxyTypes
  <2>2. QED
    BY <1>1, <1>2, <1>3, <1>6, <1>8, <2>1, FinishProxy, Zenon DEF IosInv
<1>9. QED
  BY <1>7, <1>8, Zenon DEF lost

LEMMA TimedOutIos ==
  ASSUME IosInv, LastRef, timedOut PROVE IosInv'
<1>1. listening /\ wait # Null /\ errno' = [errno EXCEPT ![ld] = "timeout"]
  BY Zenon DEF timedOut, listening, setErrno
<1>2. ld \in Handle /\ "timeout" \in Codes
  BY <1>1, WaitFacts, Zenon
<1>3. errno' \in [Handle -> Codes]
  BY <1>1, <1>2, LibFacts, Zenon DEF IosInv, OtherTypes
<1>4. LibStep
  <2>1. CASE wait.how = "sync"
    <3>1. wait.id \in Id /\ room(ld, 1)
      BY <1>1, <2>1, Zenon DEF IosInv, ProxyInv, WaitOK
    <3>2. do_abandon(ld, wait.id)
      BY <2>1 DEF timedOut
    <3>3. QED
      BY <1>2, <1>3, <3>1, <3>2, AbandonStepIos, Zenon
  <2>2. CASE wait.how # "sync"
    <3>1. UNCHANGED <<heap, msgid, timed, requests, responses, abandoned, conn, refs, net, sent>>
      BY <2>2, Zenon DEF timedOut
    <3>2. OtherTypes' /\ 0 \in {0, 1} /\ 0 = 0
      BY <1>3, <3>1, LibFacts, Zenon DEF IosInv, OtherTypes
    <3>3. msgid' = [msgid EXCEPT ![ld] = @ + 0]
      <4>1. msgid[ld] + 0 = msgid[ld]
        BY <1>2, LibFacts DEF IosInv
      <4>2. msgid = [msgid EXCEPT ![ld] = msgid[ld]]
        BY <1>2, SameAt, Zenon DEF IosInv
      <4>3. QED
        BY <3>1, <4>1, <4>2, Zenon
    <3>4. LibInv'
      BY <1>2, <3>1, <3>2, <3>3, IdsLib, Zenon DEF IosInv
    <3>5. QED
      BY <3>1, <3>4, KeptFrame, Zenon DEF LibStep, IosInv
  <2>3. QED
    BY <2>1, <2>2, Zenon
<1>5. finish(wait.req, <<Told("timeout")>>) /\ UNCHANGED <<bound, memVars>>
  BY Zenon DEF timedOut
<1>6. bound' \in BOOLEAN
  BY <1>5 DEF IosInv, ProxyInv, ProxyTypes
<1>7. ProxyInv'
  BY <1>1, <1>2, <1>4, <1>5, <1>6, FinishProxy, Zenon DEF IosInv
<1>8. QED
  BY <1>4, <1>7, Zenon DEF IosInv, LibStep

LEMMA SaslStepIos ==
  ASSUME IosInv, LastRef, saslStep PROVE IosInv'
<1>1. wait # Null /\ wait.how = "step"
  BY Zenon DEF saslStep
<1>2. /\ ld \in Handle /\ wait.req \in Req /\ calls[wait.req] = <<>> /\ wait.timed \in BOOLEAN
      /\ "down" \in Codes /\ "error" \in Codes /\ room(ld, 1)
  BY <1>1, WaitFacts, Zenon DEF IosInv, ProxyInv, WaitOK
<1>3. ASSUME LibStep, NEW code \in Codes, finish(wait.req, <<Told(code)>>), UNCHANGED <<bound, memVars>>
      PROVE  IosInv'
  <2>1. bound' \in BOOLEAN
    BY <1>3 DEF IosInv, ProxyInv, ProxyTypes
  <2>2. ProxyInv'
    BY <1>1, <1>3, <2>1, FinishProxy, Zenon DEF IosInv
  <2>3. QED
    BY <1>3, <2>2, Zenon DEF IosInv, LibStep
<1>4. CASE ldap_send(ld, "bind") /\ listen(wait.req, "sasl", wait.timed)
  BY <1>2, <1>4, SentIos, Zenon DEF Calls, Kinds
<1>5. CASE /\ ldap_open_fails(ld, 0) \/ ldap_write_fails(ld)
           /\ finish(wait.req, <<Told("down")>>)
           /\ UNCHANGED <<bound, memVars>>
  <2>1. LibStep
    BY <1>2, <1>5, FailStepIos, Zenon DEF room
  <2>2. QED
    BY <1>2, <1>3, <1>5, <2>1, Zenon
<1>6. CASE /\ setErrno(ld, "error")
           /\ conn' = [conn EXCEPT ![ld] = IF conn[ld] = "none" THEN "up" ELSE @]
           /\ refs' = [refs EXCEPT ![ld] = IF conn[ld] = "none" THEN 1 ELSE @]
           /\ net' = [net EXCEPT ![ld] = IF conn[ld] = "none" THEN Opened ELSE @]
           /\ finish(wait.req, <<Told("error")>>)
           /\ UNCHANGED <<heap, msgid, timed, requests, responses, abandoned, sent, bound, memVars>>
  <2>1. LibInv'
    BY <1>2, <1>6, OpenLib, Zenon DEF IosInv
  <2> DEFINE n == IF conn[ld] = "none" THEN Opened ELSE net[ld]
  <2>2. net' = [net EXCEPT ![ld] = n] /\ n.working \subseteq net[ld].working
    BY <1>6 DEF Opened, Closed
  <2> HIDE DEF n
  <2>3. Kept
    BY <1>2, <1>6, <2>1, <2>2, KeptFewer, Zenon DEF IosInv
  <2>4. LibStep
    BY <1>6, <2>1, <2>3, Zenon DEF LibStep, IosInv
  <2>5. QED
    BY <1>2, <1>3, <1>6, <2>4, Zenon
<1>7. QED
  BY <1>4, <1>5, <1>6, Zenon DEF saslStep

LEMMA TlsIos ==
  ASSUME IosInv, LastRef, startTLS \/ setLimits PROVE IosInv'
<1>1. wait # Null
  BY Zenon DEF startTLS, setLimits
<1>2. /\ ld \in Handle /\ wait.req \in Req /\ calls[wait.req] = <<>> /\ wait.timed \in BOOLEAN
      /\ "success" \in Codes
  BY <1>1, WaitFacts, Zenon
<1>3. CASE startTLS
  <2>1. msgid[ld] = 0 /\ room(ld, 1)
    <3>1. wait.how = "starttls" /\ WaitOK
      BY <1>3, Zenon DEF startTLS, IosInv, ProxyInv
    <3>2. msgid[ld] = 0
      BY <1>1, <3>1, Zenon DEF WaitOK
    <3>3. QED
      BY <3>2, LibAssumption DEF room
  <2>2. CASE ldap_send(ld, "extended") /\ listen(wait.req, "tls", FALSE)
    BY <1>2, <2>1, <2>2, SentIos, Zenon DEF Calls, Kinds
  <2>3. CASE (ldap_open_fails(ld, 1) \/ ldap_write_fails(ld)) /\ goOn("options")
    <3>1. LibStep
      BY <1>2, <2>1, <2>3, FailStepIos, Zenon DEF room
    <3>2. QED
      BY <1>1, <2>3, <3>1, GoOnProxy, Zenon DEF IosInv, LibStep
  <2>4. QED
    BY <1>3, <2>2, <2>3, Zenon DEF startTLS
<1>4. CASE setLimits
  <2>1. PICK limit \in BOOLEAN : timed' = [timed EXCEPT ![ld] = limit]
    BY <1>4, Zenon DEF setLimits
  <2>2. /\ UNCHANGED <<heap, errno, msgid, requests, responses, abandoned, conn, refs, net, sent>>
        /\ UNCHANGED <<bound, memVars>> /\ finish(wait.req, <<Told("success")>>)
    BY <1>4, Zenon DEF setLimits
  <2>3. LibInv'
    <3>1. timed' \in [Handle -> BOOLEAN]
      BY <1>2, <2>1, LibFacts, Zenon DEF IosInv, OtherTypes
    <3>2. QED
      BY <2>2, <3>1, Zenon DEF IosInv, LibInv, LibTypeOK, HandleSound
  <2>4. LibStep
    BY <2>2, <2>3, KeptFrame, Zenon DEF LibStep, IosInv
  <2>5. bound' \in BOOLEAN
    BY <2>2, Zenon DEF IosInv, ProxyInv, ProxyTypes
  <2>6. QED
    BY <1>1, <1>2, <2>2, <2>3, <2>4, <2>5, FinishProxy, Zenon DEF IosInv
<1>5. QED
  BY <1>3, <1>4, Zenon

\* Every step keeps the library and the proxies sound.
LEMMA IosStep ==
  ASSUME IosInv, LastRef, [Next]_vars PROVE IosInv'
<1>1. CASE Waiting
  BY <1>1, LookIos, AnsweredIos, LostIos, TimedOutIos, SaslStepIos, TlsIos, Zenon DEF Waiting
<1>2. ASSUME NEW r \in Req, Script(r) PROVE IosInv'
  BY <1>2, ConnectIos, BindIos, SearchIos, AbandonIos, Zenon DEF Script
<1>3. QED
  BY <1>1, <1>2, DisconnectIos, EnvironmentIos, Zenon DEF Next

LEMMA IosStart == Init => IosInv
<1> SUFFICES ASSUME Init PROVE IosInv
  OBVIOUS
<1>1. LibInit
  BY DEF Init
<1>2. LibTypeOK
  <2>1. /\ 0 \in 0 .. MaxId /\ "success" \in Codes /\ {} \in SUBSET Id
        /\ <<>> \in Seq(Item) /\ <<>> \in Seq(Body) /\ 0 \in Nat
    <3>1. 0 \in Nat /\ 0 \in 0 .. MaxId
      BY IdNat
    <3>2. <<>> \in Seq(Item) /\ <<>> \in Seq(Body)
      BY EmptyFacts, Zenon
    <3>3. "success" \in Codes
      BY Zenon DEF Codes, Verdicts
    <3>4. QED
      BY <3>1, <3>2, <3>3, Zenon
  <2>2. [i \in Id |-> <<>>] \in [Id -> Seq(Body)] /\ [i \in Id |-> <<>>] \in [Id -> Seq(Item)]
    BY <2>1, Zenon
  <2>3. Closed \in NetType
    BY EmptyFacts DEF Closed, NetType
  <2>4. QED
    BY <1>1, <2>1, <2>2, <2>3, Zenon DEF LibInit, LibTypeOK, NetType
<1>3. ASSUME NEW h \in Handle PROVE HandleSound(h)
  <2>1. /\ msgid[h] = 0 /\ requests[h] = {} /\ responses[h] = [i \in Id |-> <<>>]
        /\ abandoned[h] = {} /\ net[h] = Closed /\ sent[h] = [i \in Id |-> <<>>]
    BY <1>1, Zenon DEF LibInit
  <2>2. HandleTypes(msgid[h], requests[h], responses[h], abandoned[h], net[h], sent[h])
    BY <1>2, ZenonT(40) DEF LibTypeOK, HandleTypes, NetType
  <2>3. net[h].stream = <<>> /\ net[h].working = {} /\ DOMAIN net[h].stream = {}
    BY <2>1 DEF Closed
  <2>4. QED
    BY <2>1, <2>2, <2>3, Zenon DEF HandleSound, HandleOK, Given, Ending, Queued, Flows
<1>4. LibInv
  BY <1>1, <1>2, <1>3, Zenon DEF LibInv, LibInit
<1>5. ProxyTypes
  <2>1. 0 \in 0 .. MaxId /\ <<>> \in Seq(Callback) /\ 0 \in Nat
    BY EmptyFacts, LibAssumption
  <2>2. messageId \in [Req -> 0 .. MaxId] /\ freed \in [Req -> Nat] /\ calls \in [Req -> Seq(Callback)]
    BY <2>1, Zenon DEF Init
  <2>3. QED
    BY <2>2, Zenon DEF Init, ProxyTypes
<1>6. WaitOK
  BY LibAssumption, Zenon DEF Init, WaitOK
<1>7. \A r \in Req : Owned(r) /\ Received(r)
  BY EmptyFacts, Zenon DEF Init, Owned, Received
<1>8. QED
  BY <1>4, <1>5, <1>6, <1>7, Zenon DEF IosInv, ProxyInv

\* What the invariant means for the properties of the library and of the proxies.
LEMMA IosTyped == IosInv => TypeOK
BY Zenon DEF IosInv, LibInv, ProxyInv, ProxyTypes, TypeOK

LEMMA IosQueues == IosInv => QueueIsOurs
<1>1. ASSUME IosInv, NEW h \in Handle, NEW id \in Id, responses[h][id] # <<>>
      PROVE  id \notin abandoned[h] /\ (queuedWhole(h, id) <=> id \notin requests[h])
  <2> DEFINE chain == responses[h][id]
  <2>1. /\ id \in abandoned[h] => chain = <<>>
        /\ id \in requests[h] => chain \in Seq(Item)
        /\ id \notin requests[h] /\ chain # <<>> => IsFinal(chain[Len(chain)])
    BY <1>1, Zenon DEF IosInv, LibInv, HandleSound, HandleOK, Queued
  <2>2. ASSUME chain \in Seq(Item) PROVE ~IsFinal(chain[Len(chain)])
    <3>1. chain[Len(chain)] \in Item
      BY <1>1, <2>2, SeqFacts
    <3>2. QED
      BY <3>1, LibAssumption, Zenon DEF IsFinal, Verdicts
  <2>3. QED
    BY <1>1, <2>1, <2>2, Zenon DEF queuedWhole
<1>2. QED
  BY <1>1, Zenon DEF QueueIsOurs

LEMMA IosReceived == IosInv => ResultIntegrity
BY Zenon DEF IosInv, ProxyInv, Received, ResultIntegrity
===============================================================================
