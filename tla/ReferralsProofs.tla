----------------------------- MODULE ReferralsProofs -----------------------------
(***************************************************************************)
(* What is proved of Referrals, for any servers, DNs, lists and limits:    *)
(* the search is answered last, because its count covers its children, a   *)
(* connection is held as long as a request or a chase uses it, and the     *)
(* nesting of references is bounded.                                       *)
(***************************************************************************)
EXTENDS Referrals, FiniteSetTheorems, TLAPS

-------------------------------------------------------------------------------
(* Sequences. *)

\* What the proofs need of sequences, of their elements and their lengths.
LEMMA LenProperties ==
  ASSUME NEW S, NEW seq \in Seq(S)
  PROVE  Len(seq) \in Nat /\ seq \in [1 .. Len(seq) -> S] /\ DOMAIN seq = 1 .. Len(seq)
OBVIOUS

LEMMA ElementOfSeq ==
  ASSUME NEW S, NEW seq \in Seq(S), NEW n \in 1 .. Len(seq)
  PROVE  seq[n] \in S
OBVIOUS

LEMMA EmptySeq ==
  ASSUME NEW S
  PROVE  /\ <<>> \in Seq(S) /\ Len(<<>>) = 0
         /\ \A seq \in Seq(S) : seq # <<>> => Len(seq) \in Nat \ {0}
OBVIOUS

LEMMA LastOfSeq ==
  ASSUME NEW S, NEW seq \in Seq(S), seq # <<>>
  PROVE  Len(seq) \in Nat \ {0} /\ Len(seq) \in DOMAIN seq /\ seq[Len(seq)] \in S
OBVIOUS

LEMMA OneDeeper ==
  ASSUME NEW a \in Nat, NEW b \in Nat, NEW c \in Nat, NEW l \in Nat, a <= b, b <= c, a < l
  PROVE  a + 1 <= c + 1 /\ a + 1 <= l
OBVIOUS

LEMMA ExceptSeq ==
  ASSUME NEW S, NEW seq \in Seq(S), NEW i \in 1 .. Len(seq), NEW e \in S
  PROVE  /\ [seq EXCEPT ![i] = e] \in Seq(S) /\ Len([seq EXCEPT ![i] = e]) = Len(seq)
         /\ \A j \in 1 .. Len(seq) : [seq EXCEPT ![i] = e][j] = IF j = i THEN e ELSE seq[j]
OBVIOUS

LEMMA AppendProperties ==
  ASSUME NEW S, NEW seq \in Seq(S), NEW elt \in S
  PROVE  /\ Append(seq, elt) \in Seq(S) /\ Append(seq, elt) # <<>>
         /\ Len(Append(seq, elt)) = Len(seq) + 1
         /\ \A i \in 1 .. Len(seq) : Append(seq, elt)[i] = seq[i]
         /\ Append(seq, elt)[Len(seq) + 1] = elt
OBVIOUS

LEMMA SubSeqProperties ==
  ASSUME NEW S, NEW s, NEW m \in Int, NEW n \in Int, \A i \in m .. n : s[i] \in S
  PROVE  /\ SubSeq(s, m, n) \in Seq(S)
         /\ Len(SubSeq(s, m, n)) = IF m <= n THEN n - m + 1 ELSE 0
         /\ \A i \in 1 .. n - m + 1 : SubSeq(s, m, n)[i] = s[m + i - 1]
OBVIOUS

LEMMA HeadTailProperties ==
  ASSUME NEW S, NEW s \in Seq(S), s # <<>>
  PROVE  /\ Head(s) \in S /\ Tail(s) \in Seq(S) /\ Len(Tail(s)) = Len(s) - 1
         /\ \A i \in 1 .. Len(Tail(s)) : Tail(s)[i] = s[i + 1]
OBVIOUS

-------------------------------------------------------------------------------
(* The inductive invariant. *)

Urls == [server : Server, dn : Dn]
UrlLists == Seq(Urls \cup {BadUrl})
Requests ==
  [conn : Server \cup {Gone}, dn : Dn, status : {"INPROGRESS", "COMPLETED"},
   parentcnt : Nat, hops : Nat, referred : BOOLEAN]
Chases ==
  [lr : Nat, from : Nat, sref : BOOLEAN, whole : UrlLists, list : UrlLists,
   at : {"try", "bind", "end"}, count : Int]
Waiters == [list : UrlLists, from : Nat]

Types ==
  /\ req \in Seq(Requests) /\ Len(req) >= 1
  /\ outrefcnt \in Int
  /\ stack \in Seq(Chases)
  /\ queue \in [Server -> Seq(Waiters)]
  /\ done \in BOOLEAN

\* A request whose references may be followed.
mayRefer(i) == i \in DOMAIN req /\ req[i].hops < HopLimit

\* What a chase works with is there, and all but the innermost one wait for
\* a bind.
ChaseInv(k) ==
  LET f == stack[k] IN
  /\ f.lr \in DOMAIN req
  /\ mayRefer(f.from)
  /\ k # Len(stack) => f.at = "bind"
  /\ f.at = "bind" => f.list # <<>> /\ f.list[1] # BadUrl

\* A referral is handled once, while its request is in progress.
ReferralInv(k) ==
  ~stack[k].sref =>
    /\ req[stack[k].lr].status # "COMPLETED"
    /\ \A j \in DOMAIN stack : j # k /\ ~stack[j].sref => stack[j].lr # stack[k].lr

StackInv == \A k \in DOMAIN stack : ChaseInv(k) /\ ReferralInv(k)

QueueInv == \A s \in Server : \A j \in DOMAIN queue[s] : mayRefer(queue[s][j].from)

\* A request's count, which the limit is compared with, bounds its depth.
HopInv ==
  \A i \in DOMAIN req :
    /\ req[i].parentcnt <= req[1].parentcnt
    /\ req[i].hops <= req[i].parentcnt
    /\ req[i].hops <= HopLimit

Inv == Types /\ StackInv /\ QueueInv /\ HopInv /\ CountCovers /\ DoneIsLast

\* The requests that server s has still to answer, and where a chase that waits
\* for a bind wants to go.
using(s) == {i \in inProgress : req[i].conn = s}
goal(k) == stack[k].list[1].server

\* A request is on a bound connection, or has been answered.
ReqHeld ==
  \A i \in DOMAIN req :
    IF req[i].conn = Gone THEN req[i].status = "COMPLETED" ELSE conn[req[i].conn] = "up"

\* lconn_refcnt covers the requests on the connection.
RefsCover == \A s \in Server : refs[s] >= Cardinality(using(s))

StackHeld == \A k \in DOMAIN stack : req[stack[k].lr].conn # Gone

\* No two chases wait for the same bind.
BindsHeld ==
  \A k \in binds :
    /\ goal(k) \in Server /\ conn[goal(k)] = "binding"
    /\ \A j \in binds : j # k => goal(j) # goal(k)

HeldInv ==
  /\ conn \in [Server -> {"none", "binding", "up"}] /\ refs \in [Server -> Int]
  /\ ReqHeld /\ RefsCover /\ StackHeld /\ BindsHeld

-------------------------------------------------------------------------------
(* Counting. *)

kids == inProgress \ {1}

LEMMA Finite ==
  ASSUME Types
  PROVE  /\ IsFiniteSet(kids) /\ IsFiniteSet(binds)
         /\ Cardinality(kids) \in Nat /\ Cardinality(binds) \in Nat
<1>1. DOMAIN req = 1 .. Len(req) /\ Len(req) \in Nat /\ DOMAIN stack = 1 .. Len(stack) /\ Len(stack) \in Nat
  BY DEF Types
<1>2. IsFiniteSet(DOMAIN req) /\ IsFiniteSet(DOMAIN stack)
  BY <1>1, FS_Interval
<1>3. kids \in SUBSET DOMAIN req /\ binds \in SUBSET DOMAIN stack
  BY DEF kids, inProgress, binds
<1>4. IsFiniteSet(kids) /\ IsFiniteSet(binds)
  BY <1>2, <1>3, FS_Subset
<1>5. QED
  BY <1>4, FS_CardinalityType

\* The same in the next state.
LEMMA FiniteNext ==
  ASSUME Types'
  PROVE  Cardinality(kids') \in Nat /\ Cardinality(binds') \in Nat
<1>1. DOMAIN req' = 1 .. Len(req') /\ Len(req') \in Nat /\ DOMAIN stack' = 1 .. Len(stack') /\ Len(stack') \in Nat
  BY DEF Types
<1>2. IsFiniteSet(DOMAIN req') /\ IsFiniteSet(DOMAIN stack')
  BY <1>1, FS_Interval
<1>3. kids' \in SUBSET DOMAIN req' /\ binds' \in SUBSET DOMAIN stack'
  BY DEF kids, inProgress, binds
<1>4. QED
  BY <1>2, <1>3, FS_Subset, FS_CardinalityType

\* The innermost chase becomes f.
LEMMA TopBinds ==
  ASSUME Types, stack # <<>>, NEW f \in Chases, setTop(f)
  PROVE  /\ stack' \in Seq(Chases) /\ Len(stack') = Len(stack) /\ stack' # <<>>
         /\ \A k \in 1 .. Len(stack) : stack'[k] = IF k = Len(stack) THEN f ELSE stack[k]
         /\ Len(stack) \in Nat \ {0} /\ DOMAIN stack = 1 .. Len(stack)
         /\ DOMAIN stack' = 1 .. Len(stack)
         /\ f.at = top.at => Cardinality(binds') = Cardinality(binds)
         /\ f.at # "bind" /\ top.at # "bind" => Cardinality(binds') = Cardinality(binds)
         /\ f.at = "bind" /\ top.at # "bind" => Cardinality(binds') = Cardinality(binds) + 1
         /\ f.at # "bind" /\ top.at = "bind" => Cardinality(binds') = Cardinality(binds) - 1
<1> DEFINE n == Len(stack)
<1>1. n \in Nat \ {0} /\ DOMAIN stack = 1 .. n
  BY EmptySeq, LenProperties DEF Types
<1>2. /\ stack' \in Seq(Chases) /\ Len(stack') = n
      /\ \A k \in 1 .. n : stack'[k] = IF k = n THEN f ELSE stack[k]
  BY <1>1, ExceptSeq DEF Types, setTop
<1>3. DOMAIN stack' = 1 .. n /\ stack' # <<>>
  BY <1>1, <1>2, LenProperties, EmptySeq, Zenon
<1>4. ASSUME f.at = "bind" PROVE binds' = binds \cup {n}
  <2>1. \A k \in 1 .. n : stack'[k].at = "bind" <=> k = n \/ stack[k].at = "bind"
    BY <1>1, <1>2, <1>4, Zenon
  <2>2. n \in 1 .. n
    BY <1>1
  <2>3. QED
    BY <1>1, <1>3, <2>1, <2>2, Zenon DEF binds
<1>5. f.at # "bind" => binds' = binds \ {n}
  BY <1>1, <1>2, <1>3, Zenon DEF binds
<1>6. n \in binds <=> top.at = "bind"
  BY <1>1 DEF binds, top
<1>7. IsFiniteSet(binds)
  BY Finite
<1>8. Cardinality(binds \cup {n}) = IF n \in binds THEN Cardinality(binds) ELSE Cardinality(binds) + 1
  BY <1>7, FS_AddElement, Zenon
<1>9. Cardinality(binds \ {n}) = IF n \in binds THEN Cardinality(binds) - 1 ELSE Cardinality(binds)
  BY <1>7, FS_RemoveElement, Zenon
<1>10. QED
  BY <1>1, <1>2, <1>3, <1>4, <1>5, <1>6, <1>8, <1>9, Zenon

-------------------------------------------------------------------------------
(* Who uses a connection. *)

\* What finite sets of requests count.
LEMMA UsersFinite ==
  ASSUME Types, NEW T, T \subseteq DOMAIN req
  PROVE  IsFiniteSet(T) /\ Cardinality(T) \in Nat /\ (Cardinality(T) = 0 => T = {})
<1>1. IsFiniteSet(DOMAIN req) /\ T \in SUBSET DOMAIN req
  BY LenProperties, FS_Interval DEF Types
<1>2. IsFiniteSet(T)
  BY <1>1, FS_Subset
<1>3. QED
  BY <1>2, FS_CardinalityType, FS_EmptySet

LEMMA ReqConn ==
  ASSUME Types
  PROVE  \A i \in DOMAIN req : req[i].conn \in Server \cup {Gone}
<1>1. \A i \in DOMAIN req : req[i] \in Requests
  BY LenProperties, ElementOfSeq DEF Types
<1>2. QED
  BY <1>1 DEF Requests

\* The innermost chase goes on and does not wait for a bind.
topMoves ==
  /\ DOMAIN stack' = DOMAIN stack
  /\ \A k \in DOMAIN stack :
       /\ stack'[k].lr = stack[k].lr
       /\ IF k = Len(stack) THEN stack'[k].at # "bind" ELSE stack'[k] = stack[k]

LEMMA BindsMove ==
  ASSUME topMoves
  PROVE  binds' = binds \ {Len(stack)} /\ \A k \in binds' : goal(k)' = goal(k)
<1>1. \A k \in DOMAIN stack : k # Len(stack) => stack'[k] = stack[k]
  BY DEF topMoves
<1>2. binds' = binds \ {Len(stack)}
  BY <1>1, Zenon DEF topMoves, binds
<1>3. QED
  BY <1>1, <1>2, Zenon DEF binds, goal

\* A step of the innermost chase that leaves the connections alone.
LEMMA HeldTop ==
  ASSUME HeldInv, topMoves, UNCHANGED <<req, conn, refs>>
  PROVE  HeldInv'
<1>1. binds' \subseteq binds /\ \A k \in binds' : goal(k)' = goal(k)
  BY BindsMove
<1>2. BindsHeld'
  BY <1>1, Zenon DEF HeldInv, BindsHeld
<1>3. StackHeld'
  BY Zenon DEF HeldInv, StackHeld, topMoves
<1>4. ReqHeld' /\ RefsCover'
  BY Zenon DEF HeldInv, ReqHeld, RefsCover, using, inProgress
<1>5. QED
  BY <1>2, <1>3, <1>4, Zenon DEF HeldInv

\* A bind is refused, and its connection is freed.
LEMMA HeldFails ==
  ASSUME HeldInv, topMoves, UNCHANGED <<req, refs>>, Types, Len(stack) \in binds,
         conn' = [conn EXCEPT ![goal(Len(stack))] = "none"]
  PROVE  HeldInv'
<1>1. PICK s \in Server : s = goal(Len(stack)) /\ conn[s] = "binding"
  BY DEF HeldInv, BindsHeld
<1>2. /\ conn \in [Server -> {"none", "binding", "up"}] /\ conn' = [conn EXCEPT ![s] = "none"]
      /\ conn' \in [Server -> {"none", "binding", "up"}]
      /\ \A t : t # s /\ t \in Server => conn'[t] = conn[t]
  BY <1>1 DEF HeldInv
<1>3. binds' = binds \ {Len(stack)} /\ \A k \in binds' : goal(k)' = goal(k)
  BY BindsMove
<1>4. \A k \in binds' : goal(k) \in Server /\ goal(k) # s /\ conn[goal(k)] = "binding"
  BY <1>1, <1>3 DEF HeldInv, BindsHeld
<1>5. \A k \in binds' : \A j \in binds' : j # k => goal(j) # goal(k)
  BY <1>3 DEF HeldInv, BindsHeld
<1>6. BindsHeld'
  BY <1>2, <1>3, <1>4, <1>5 DEF BindsHeld
<1>7. ReqHeld'
  <2>1. \A i \in DOMAIN req : req[i].conn \in Server \cup {Gone}
    BY ReqConn
  <2>2. QED
    BY <1>1, <1>2, <2>1 DEF HeldInv, ReqHeld
<1>8. StackHeld' /\ RefsCover'
  BY Zenon DEF HeldInv, StackHeld, topMoves, RefsCover, using, inProgress
<1>9. QED
  BY <1>2, <1>6, <1>7, <1>8, Zenon DEF HeldInv

\* A connection is opened, and the innermost chase waits for its bind.
LEMMA HeldOpens ==
  ASSUME HeldInv, Types, UNCHANGED <<req, refs>>, NEW s \in Server, conn[s] = "none",
         conn' = [conn EXCEPT ![s] = "binding"],
         DOMAIN stack' = DOMAIN stack, Len(stack) \in DOMAIN stack, stack[Len(stack)].at # "bind",
         \A k \in DOMAIN stack : stack'[k].lr = stack[k].lr,
         \A k \in DOMAIN stack : k # Len(stack) => stack'[k] = stack[k],
         stack'[Len(stack)].list[1].server = s
  PROVE  HeldInv'
<1>1. /\ conn' \in [Server -> {"none", "binding", "up"}] /\ conn'[s] = "binding"
      /\ \A t \in Server : t # s => conn'[t] = conn[t]
  BY DEF HeldInv
<1>2. /\ binds' \subseteq binds \cup {Len(stack)} /\ Len(stack) \notin binds
      /\ \A k \in binds : goal(k)' = goal(k)
  BY Zenon DEF binds, goal
<1>3. \A k \in binds : goal(k)' \in Server /\ goal(k)' # s /\ conn[goal(k)'] = "binding"
  BY <1>2 DEF HeldInv, BindsHeld
<1>4. goal(Len(stack))' = s
  BY DEF goal
<1>5. BindsHeld'
  <2>1. ASSUME NEW k \in binds' PROVE goal(k)' \in Server /\ conn'[goal(k)'] = "binding"
    <3>1. CASE k \in binds
      BY <1>1, <1>3, <3>1
    <3>2. CASE k = Len(stack)
      BY <1>1, <1>4, <3>2
    <3>3. QED
      BY <1>2, <2>1, <3>1, <3>2
  <2>2. ASSUME NEW k \in binds', NEW j \in binds', j # k PROVE goal(j)' # goal(k)'
    <3>1. CASE k \in binds /\ j \in binds
      BY <1>2, <2>2, <3>1 DEF HeldInv, BindsHeld
    <3>2. CASE k = Len(stack) \/ j = Len(stack)
      BY <1>2, <1>3, <1>4, <2>2, <3>2
    <3>3. QED
      BY <1>2, <2>2, <3>1, <3>2, Zenon
  <2>3. QED
    BY <2>1, <2>2, Zenon DEF BindsHeld
<1>6. ReqHeld'
  <2>1. \A i \in DOMAIN req : req[i].conn \in Server \cup {Gone}
    BY ReqConn
  <2>2. QED
    BY <1>1, <2>1 DEF HeldInv, ReqHeld
<1>7. StackHeld' /\ RefsCover'
  BY Zenon DEF HeldInv, StackHeld, RefsCover, using, inProgress
<1>8. QED
  BY <1>1, <1>5, <1>6, <1>7, Zenon DEF HeldInv

\* A request is sent to server s.
sent(s) ==
  /\ s \in Server /\ refs' = [refs EXCEPT ![s] = refs[s] + 1]
  /\ \E n \in Nat :
       /\ DOMAIN req = 1 .. n /\ DOMAIN req' = 1 .. n + 1
       /\ \A i \in 1 .. n : req'[i].conn = req[i].conn /\ req'[i].status = req[i].status
       /\ req'[n + 1].conn = s /\ req'[n + 1].status = "INPROGRESS"

LEMMA RefsSend ==
  ASSUME HeldInv, Types, NEW s, sent(s)
  PROVE  RefsCover' /\ refs' \in [Server -> Int]
<1>1. PICK n \in Nat :
       /\ DOMAIN req = 1 .. n /\ DOMAIN req' = 1 .. n + 1
       /\ \A i \in 1 .. n : req'[i].conn = req[i].conn /\ req'[i].status = req[i].status
       /\ req'[n + 1].conn = s /\ req'[n + 1].status = "INPROGRESS"
  BY DEF sent
<1>2. /\ refs \in [Server -> Int] /\ s \in Server /\ refs' = [refs EXCEPT ![s] = refs[s] + 1]
      /\ refs' \in [Server -> Int]
  BY DEF HeldInv, sent
<1>3. \A i : i \in 1 .. n + 1 <=> i \in 1 .. n \/ i = n + 1
  BY <1>1
<1>4. n + 1 \notin 1 .. n
  BY <1>1
<1>5. ASSUME NEW t \in Server PROVE refs'[t] >= Cardinality(using(t)')
  <2>1. using(t) \subseteq DOMAIN req /\ n + 1 \notin using(t)
    BY <1>1, <1>4 DEF using, inProgress
  <2>2. IsFiniteSet(using(t)) /\ Cardinality(using(t)) \in Nat /\ refs[t] >= Cardinality(using(t))
    BY <2>1, UsersFinite DEF HeldInv, RefsCover
  <2>3. CASE t = s
    <3>0. n + 1 \in using(t)' /\ \A i \in 1 .. n : i \in using(t)' <=> i \in using(t)
      <4>1. n + 1 \in DOMAIN req'
        BY <1>1
      <4>2. QED
        BY <1>1, <1>3, <2>3, <4>1 DEF using, inProgress
    <3>1. using(t)' = using(t) \cup {n + 1}
      <4>1. using(t)' \subseteq 1 .. n + 1 /\ using(t) \subseteq 1 .. n
        BY <1>1 DEF using, inProgress
      <4>2. QED
        BY <1>3, <3>0, <4>1, Zenon
    <3>2. Cardinality(using(t)') = Cardinality(using(t)) + 1
      BY <2>1, <2>2, <3>1, FS_AddElement, Zenon
    <3>3. refs'[t] = refs[t] + 1 /\ refs[t] \in Int
      BY <1>2, <2>3
    <3>4. QED
      BY <2>2, <3>2, <3>3
  <2>4. CASE t # s
    <3>1. using(t)' = using(t)
      BY <1>1, <1>3, <1>4, <2>4, Zenon DEF using, inProgress
    <3>2. QED
      BY <1>2, <2>2, <2>4, <3>1
  <2>5. QED
    BY <2>3, <2>4
<1>6. QED
  BY <1>2, <1>5 DEF RefsCover

\* It is sent on a bound connection, or on the one whose bind has just been
\* answered.
LEMMA HeldSend ==
  ASSUME HeldInv, Types, StackInv, topMoves, NEW s, sent(s),
         \/ conn[s] = "up" /\ UNCHANGED conn
         \/ Len(stack) \in binds /\ s = goal(Len(stack)) /\ conn' = [conn EXCEPT ![s] = "up"]
  PROVE  HeldInv'
<1>1. PICK n \in Nat :
       /\ DOMAIN req = 1 .. n /\ DOMAIN req' = 1 .. n + 1
       /\ \A i \in 1 .. n : req'[i].conn = req[i].conn /\ req'[i].status = req[i].status
       /\ req'[n + 1].conn = s /\ req'[n + 1].status = "INPROGRESS"
  BY DEF sent
<1>2. /\ s \in Server /\ conn' \in [Server -> {"none", "binding", "up"}] /\ conn'[s] = "up"
      /\ \A t \in Server : t # s => conn'[t] = conn[t]
  BY DEF HeldInv, sent
<1>3. \A i : i \in 1 .. n + 1 => i \in 1 .. n \/ i = n + 1
  BY <1>1
<1>4. ReqHeld'
  <2>1. \A i \in DOMAIN req : req[i].conn \in Server \cup {Gone}
    BY ReqConn
  <2>2. s # Gone
    BY <1>2, RefsAssumption
  <2>3. QED
    BY <1>1, <1>2, <1>3, <2>1, <2>2 DEF HeldInv, ReqHeld
<1>5. StackHeld'
  <2>1. \A k \in DOMAIN stack : stack[k].lr \in 1 .. n
    BY <1>1 DEF StackInv, ChaseInv
  <2>2. QED
    BY <1>1, <2>1 DEF HeldInv, StackHeld, topMoves
<1>6. binds' = binds \ {Len(stack)} /\ \A k \in binds' : goal(k)' = goal(k)
  BY BindsMove
<1>7. \A k \in binds' : goal(k) \in Server /\ goal(k) # s /\ conn[goal(k)] = "binding"
  BY <1>6 DEF HeldInv, BindsHeld
<1>8. \A k \in binds' : \A j \in binds' : j # k => goal(j) # goal(k)
  BY <1>6 DEF HeldInv, BindsHeld
<1>9. BindsHeld'
  BY <1>2, <1>6, <1>7, <1>8 DEF BindsHeld
<1>10. QED
  BY <1>2, <1>4, <1>5, <1>9, RefsSend, Zenon DEF HeldInv

\* A chase begins for a request in progress.
LEMMA HeldPush ==
  ASSUME HeldInv, UNCHANGED <<req, conn, refs>>, NEW i \in DOMAIN req, req[i].status # "COMPLETED",
         NEW n \in Nat, DOMAIN stack = 1 .. n, DOMAIN stack' = 1 .. n + 1,
         \A k \in 1 .. n : stack'[k] = stack[k], stack'[n + 1].lr = i, stack'[n + 1].at = "try"
  PROVE  HeldInv'
<1>1. \A k \in 1 .. n + 1 : k \in 1 .. n \/ k = n + 1
  OBVIOUS
<1>2. req[i].conn # Gone
  BY DEF HeldInv, ReqHeld
<1>3. StackHeld'
  BY <1>1, <1>2 DEF HeldInv, StackHeld
<1>4. binds' = binds /\ \A k \in binds : goal(k)' = goal(k)
  BY <1>1 DEF binds, goal
<1>5. BindsHeld'
  BY <1>4 DEF HeldInv, BindsHeld
<1>6. ReqHeld' /\ RefsCover'
  BY Zenon DEF HeldInv, ReqHeld, RefsCover, using, inProgress
<1>7. QED
  BY <1>3, <1>5, <1>6, Zenon DEF HeldInv

\* What a message that is handled may do to the connections: its server's one
\* is freed only if no request and no chase uses it.
LEMMA HeldHandled ==
  ASSUME HeldInv, Types, NEW s \in Server, conn[s] = "up",
         NEW q, DOMAIN q = DOMAIN req, \A j \in DOMAIN req : q[j] \in Requests /\ q[j].conn = req[j].conn,
         \A j \in DOMAIN req : req[j].status = "COMPLETED" => q[j].status = "COMPLETED",
         NEW r \in [Server -> Int],
         \A t \in Server : r[t] >= Cardinality({j \in DOMAIN req : q[j].status # "COMPLETED" /\ q[j].conn = t}),
         NEW st, handled(s, q, r, st), StackInv,
         \A k \in DOMAIN st : k \in DOMAIN stack /\ st[k] = stack[k]
  PROVE  HeldInv'
<1> DEFINE users(t) == {j \in DOMAIN req : q[j].status # "COMPLETED" /\ q[j].conn = t}
<1>1. PICK free \in BOOLEAN :
        /\ free => r[s] <= 0 /\ \A k \in DOMAIN st : req[st[k].lr].conn # s
        /\ conn' = IF free THEN [conn EXCEPT ![s] = "none"] ELSE conn
        /\ req' = [j \in DOMAIN req |-> IF free /\ q[j].conn = s THEN [q[j] EXCEPT !.conn = Gone] ELSE q[j]]
        /\ stack' = st /\ refs' = r
  BY Zenon DEF handled
<1>2. free => users(s) = {}
  <2>1. users(s) \subseteq DOMAIN req /\ r[s] \in Int /\ r[s] >= Cardinality(users(s))
    BY Zenon
  <2>0. free => r[s] <= 0
    BY <1>1
  <2> HIDE DEF users
  <2>2. Cardinality(users(s)) \in Nat /\ (Cardinality(users(s)) = 0 => users(s) = {})
    BY <2>1, UsersFinite, Zenon
  <2>3. QED
    BY <2>0, <2>1, <2>2
<1>3. ASSUME NEW j \in DOMAIN req
      PROVE  /\ req'[j].conn = IF free /\ req[j].conn = s THEN Gone ELSE req[j].conn
             /\ req'[j].status = q[j].status
  BY <1>1, Zenon DEF Requests
<1>4. DOMAIN req' = DOMAIN req
  BY <1>1, Zenon
<1>5. s # Gone /\ \A j \in DOMAIN req : req[j].conn \in Server \cup {Gone}
  BY ReqConn, RefsAssumption
<1>6. /\ conn' \in [Server -> {"none", "binding", "up"}] /\ (~free => conn'[s] = "up")
      /\ \A t \in Server : t # s => conn'[t] = conn[t]
  BY <1>1 DEF HeldInv
<1>7. ReqHeld'
  <2>1. ASSUME NEW j \in DOMAIN req, req'[j].conn = Gone PROVE req'[j].status = "COMPLETED"
    <3>1. CASE free /\ req[j].conn = s
      <4>1. j \notin users(s)
        BY <1>2, <3>1, Zenon
      <4>2. QED
        BY <1>3, <2>1, <3>1, <4>1
    <3>2. CASE ~(free /\ req[j].conn = s)
      BY <1>3, <2>1, <3>2, Zenon DEF HeldInv, ReqHeld
    <3>3. QED
      BY <3>1, <3>2
  <2>2. ASSUME NEW j \in DOMAIN req, req'[j].conn # Gone PROVE conn'[req'[j].conn] = "up"
    <3>1. req'[j].conn = req[j].conn /\ (free => req[j].conn # s) /\ req[j].conn \in Server
      BY <1>3, <1>5, <2>2, Zenon
    <3>2. conn[req[j].conn] = "up"
      BY <1>5, <3>1, <2>2, Zenon DEF HeldInv, ReqHeld
    <3>3. QED
      BY <1>6, <3>1, <3>2, Zenon
  <2>3. QED
    BY <1>4, <2>1, <2>2, Zenon DEF ReqHeld
<1>8. StackHeld'
  <2>1. SUFFICES ASSUME NEW k \in DOMAIN st PROVE req'[st[k].lr].conn # Gone
    BY <1>1 DEF StackHeld
  <2>2. k \in DOMAIN stack /\ st[k] = stack[k] /\ stack[k].lr \in DOMAIN req
    BY <2>1 DEF StackInv, ChaseInv
  <2>3. req[stack[k].lr].conn # Gone
    BY <2>2 DEF HeldInv, StackHeld
  <2>4. free => req[stack[k].lr].conn # s
    BY <1>1, <2>2
  <2>5. QED
    BY <1>3, <2>2, <2>3, <2>4, Zenon
<1>9. BindsHeld'
  <2>1. \A k \in binds' : k \in binds /\ goal(k)' = goal(k)
    BY <1>1 DEF binds, goal
  <2>2. \A k \in binds : goal(k) \in Server /\ goal(k) # s /\ conn[goal(k)] = "binding"
    BY DEF HeldInv, BindsHeld
  <2>3. \A k, j \in binds : j # k => goal(j) # goal(k)
    BY DEF HeldInv, BindsHeld
  <2>4. QED
    BY <1>6, <2>1, <2>2, <2>3 DEF BindsHeld
<1>10. RefsCover'
  <2>1. ASSUME NEW t \in Server PROVE refs'[t] >= Cardinality(using(t)')
    <3>1. using(t)' = users(t)
      <4>1. ASSUME NEW j \in DOMAIN req
            PROVE  (req'[j].status # "COMPLETED" /\ req'[j].conn = t) <=> (q[j].status # "COMPLETED" /\ q[j].conn = t)
        <5>1. CASE free /\ req[j].conn = s
          <6>1. q[j].status = "COMPLETED"
            BY <1>2, <5>1
          <6>2. QED
            BY <1>3, <6>1
        <5>2. CASE ~(free /\ req[j].conn = s)
          BY <1>3, <5>2
        <5>3. QED
          BY <5>1, <5>2
      <4>2. QED
        BY <1>4, <4>1, Zenon DEF using, inProgress
    <3>2. QED
      BY <1>1, <3>1, Zenon
  <2>2. QED
    BY <2>1 DEF RefsCover
<1>11. QED
  BY <1>1, <1>6, <1>7, <1>8, <1>9, <1>10, Zenon DEF HeldInv

-------------------------------------------------------------------------------
(* Steps of the innermost chase. *)

\* The requests there are stay what they are; others may be added.
reqsKept ==
  /\ DOMAIN req \subseteq DOMAIN req'
  /\ \A i \in DOMAIN req : req'[i].status = req[i].status /\ req'[i].hops = req[i].hops

\* f continues the innermost chase.
continuesTop(f) ==
  /\ f \in Chases
  /\ f.lr = top.lr /\ f.sref = top.sref
  /\ mayRefer(f.from)
  /\ f.at = "bind" => f.list # <<>> /\ f.list[1] # BadUrl

LEMMA TopStack ==
  ASSUME Inv, stack # <<>>, NEW f, continuesTop(f), setTop(f), reqsKept
  PROVE  StackInv'
<1>1. /\ Len(stack') = Len(stack) /\ Len(stack) \in Nat \ {0}
      /\ DOMAIN stack = 1 .. Len(stack) /\ DOMAIN stack' = 1 .. Len(stack)
      /\ \A k \in 1 .. Len(stack) : stack'[k] = IF k = Len(stack) THEN f ELSE stack[k]
  BY TopBinds DEF Inv, continuesTop
<1>2. \A k \in DOMAIN stack : stack'[k].lr = stack[k].lr /\ stack'[k].sref = stack[k].sref
  BY <1>1, Zenon DEF continuesTop, top
<1>3. \A i : mayRefer(i) => mayRefer(i)'
  BY DEF mayRefer, reqsKept
<1>4. ASSUME NEW k \in DOMAIN stack PROVE ChaseInv(k)'
  <2>1. ChaseInv(k)
    BY DEF Inv, StackInv
  <2>2. stack'[k].lr \in DOMAIN req'
    BY <1>2, <2>1 DEF ChaseInv, reqsKept
  <2>3. CASE k = Len(stack)
    BY <1>1, <1>3, <2>2, <2>3, Zenon DEF ChaseInv, continuesTop
  <2>4. CASE k # Len(stack)
    BY <1>1, <1>3, <2>1, <2>2, <2>4, Zenon DEF ChaseInv
  <2>5. QED
    BY <2>3, <2>4
<1>5. ASSUME NEW k \in DOMAIN stack PROVE ReferralInv(k)'
  <2>1. ChaseInv(k) /\ ReferralInv(k)
    BY DEF Inv, StackInv
  <2>2. stack[k].lr \in DOMAIN req
    BY <2>1 DEF ChaseInv
  <2>3. req'[stack[k].lr].status = req[stack[k].lr].status
    BY <2>2 DEF reqsKept
  <2>4. QED
    BY <1>1, <1>2, <2>1, <2>3, Zenon DEF ReferralInv
<1>6. QED
  BY <1>1, <1>4, <1>5, Zenon DEF StackInv

LEMMA TopMoves ==
  ASSUME Inv, stack # <<>>, NEW f, continuesTop(f), f.at # "bind", setTop(f)
  PROVE  topMoves
<1>1. /\ DOMAIN stack = 1 .. Len(stack) /\ DOMAIN stack' = 1 .. Len(stack)
      /\ \A k \in 1 .. Len(stack) : stack'[k] = IF k = Len(stack) THEN f ELSE stack[k]
  BY TopBinds DEF Inv, continuesTop
<1>2. QED
  BY <1>1, Zenon DEF topMoves, continuesTop, top

\* A step of the innermost chase that sends nothing.
LEMMA TopStep ==
  ASSUME Inv, stack # <<>>, NEW f, continuesTop(f), setTop(f), UNCHANGED <<req, done>>,
         outrefcnt' \in Int, queue' \in [Server -> Seq(Waiters)], QueueInv',
         outrefcnt' - Cardinality(binds') = outrefcnt - Cardinality(binds)
  PROVE  Inv'
<1>1. StackInv'
  BY TopStack DEF reqsKept
<1>2. stack' \in Seq(Chases)
  BY TopBinds DEF Inv, continuesTop
<1>3. Types'
  BY <1>2 DEF Inv, Types
<1>4. HopInv'
  BY DEF Inv, HopInv
<1>5. ~done /\ DoneIsLast'
  BY DEF Inv, DoneIsLast
<1>6. /\ Cardinality(binds) \in Nat /\ Cardinality(binds') \in Nat
      /\ Cardinality(kids) \in Nat /\ kids' = kids
  BY <1>3, Finite, FiniteNext DEF Inv, kids, inProgress
<1>7. outrefcnt >= Cardinality(kids) + Cardinality(binds) /\ outrefcnt \in Int
  BY DEF Inv, CountCovers, Types, kids
<1>8. outrefcnt' >= Cardinality(kids') + Cardinality(binds')
  BY <1>6, <1>7
<1>9. CountCovers'
  BY <1>8 DEF CountCovers, kids
<1>10. QED
  BY <1>1, <1>3, <1>4, <1>5, <1>9 DEF Inv

-------------------------------------------------------------------------------
(* A child is sent. *)

LEMMA Appended ==
  ASSUME NEW S, NEW q \in Seq(S), NEW e \in S, NEW p, p = Append(q, e)
  PROVE  /\ p \in Seq(S) /\ Len(p) = Len(q) + 1 /\ DOMAIN p = 1 .. Len(q) + 1
         /\ p[Len(q) + 1] = e /\ \A i \in 1 .. Len(q) : p[i] = q[i]
BY AppendProperties, LenProperties

\* The first request becomes e.
LEMMA FirstChanged ==
  ASSUME NEW p \in Seq(Requests), Len(p) >= 1, NEW e \in Requests, NEW q, q = [p EXCEPT ![1] = e]
  PROVE  /\ q \in Seq(Requests) /\ Len(q) = Len(p) /\ Len(p) \in Nat \ {0}
         /\ DOMAIN p = 1 .. Len(p) /\ DOMAIN q = 1 .. Len(p)
         /\ \A i \in 1 .. Len(p) : p[i] \in Requests /\ q[i] = IF i = 1 THEN e ELSE p[i]
<1>1. Len(p) \in Nat \ {0} /\ DOMAIN p = 1 .. Len(p)
  BY LenProperties
<1>2. 1 \in 1 .. Len(p) /\ \A i \in 1 .. Len(p) : p[i] \in Requests
  BY <1>1, ElementOfSeq
<1>3. /\ q \in Seq(Requests) /\ Len(q) = Len(p)
      /\ \A i \in 1 .. Len(p) : q[i] = IF i = 1 THEN e ELSE p[i]
  BY <1>2, ExceptSeq
<1>4. QED
  BY <1>1, <1>2, <1>3

\* The requests p become q: r is added, and the search counts n of them.
adds(p, r, n, q) == q = Append([p EXCEPT ![1].parentcnt = n], r)

LEMMA ChildSent ==
  ASSUME NEW p \in Seq(Requests), Len(p) >= 1, NEW r \in Requests, NEW n \in Nat,
         NEW q, adds(p, r, n, q)
  PROVE  /\ q \in Seq(Requests) /\ Len(p) \in Nat \ {0} /\ Len(q) = Len(p) + 1
         /\ DOMAIN p = 1 .. Len(p) /\ DOMAIN q = 1 .. Len(p) + 1
         /\ q[Len(p) + 1] = r
         /\ \A i \in 1 .. Len(p) :
              /\ p[i] \in Requests
              /\ q[i].status = p[i].status /\ q[i].hops = p[i].hops /\ q[i].conn = p[i].conn
              /\ q[i].parentcnt = IF i = 1 THEN n ELSE p[i].parentcnt
<1>1. PICK e : e = [p[1] EXCEPT !.parentcnt = n]
  BY Zenon
<1>2. p[1] \in Requests
  BY LenProperties, ElementOfSeq
<1>3. /\ e \in Requests /\ e.status = p[1].status /\ e.hops = p[1].hops /\ e.parentcnt = n
      /\ e.conn = p[1].conn
  BY <1>1, <1>2, Zenon DEF Requests
<1>4. PICK c : c = [p EXCEPT ![1] = e]
  BY Zenon
<1>5. /\ c \in Seq(Requests) /\ Len(c) = Len(p) /\ Len(p) \in Nat \ {0}
      /\ DOMAIN p = 1 .. Len(p)
      /\ \A i \in 1 .. Len(p) : p[i] \in Requests /\ c[i] = IF i = 1 THEN e ELSE p[i]
  <2>1. e \in Requests
    BY <1>3
  <2>2. QED
    BY <1>4, <2>1, FirstChanged, Zenon
<1>6. q = Append(c, r)
  BY <1>1, <1>4 DEF adds
<1>7. /\ q \in Seq(Requests) /\ Len(q) = Len(c) + 1 /\ DOMAIN q = 1 .. Len(c) + 1
      /\ q[Len(c) + 1] = r /\ \A i \in 1 .. Len(c) : q[i] = c[i]
  BY <1>5, <1>6, Appended
<1>8. QED
  BY <1>3, <1>5, <1>7

\* What the innermost chase becomes.
LEMMA ChaseEnds ==
  ASSUME NEW c \in Chases, NEW k \in Int, NEW f, f = [c EXCEPT !.at = "end", !.count = k]
  PROVE  f \in Chases /\ f.lr = c.lr /\ f.sref = c.sref /\ f.from = c.from /\ f.at = "end"
BY Zenon DEF Chases

LEMMA ChaseGoesOn ==
  ASSUME NEW c \in Chases, NEW w \in Waiters, NEW f,
         f = Chase(c.lr, w.from, c.sref, w.list, c.count + 1)
  PROVE  f \in Chases /\ f.lr = c.lr /\ f.sref = c.sref /\ f.from = w.from /\ f.at = "try"
BY DEF Chase, Chases, Waiters

LEMMA SendStep ==
  ASSUME Inv, stack # <<>>, top.list # <<>>, url # BadUrl, send(url.server),
         outrefcnt' = (IF top.at = "bind" THEN outrefcnt ELSE outrefcnt + 1), UNCHANGED done
  PROVE  Inv' /\ topMoves /\ sent(url.server)
<1> DEFINE m == Len(req)  n == req[1].parentcnt + 1  s == url.server  waits == queue[s]
           dn == IF url.dn = NoDn /\ ~top.sref THEN req[1].dn ELSE url.dn
           r == Request(s, dn, n, req[top.from].hops + 1)
           w == waits[Len(waits)]
           f == IF waits = <<>> THEN [top EXCEPT !.at = "end", !.count = top.count + 1]
                ELSE Chase(top.lr, w.from, top.sref, w.list, top.count + 1)
<1>1. Len(stack) \in DOMAIN stack /\ top \in Chases
  BY EmptySeq, LenProperties DEF Inv, Types, top
<1>2. ChaseInv(Len(stack)) /\ mayRefer(top.from)
  BY <1>1 DEF Inv, StackInv, ChaseInv, top
<1>3. url \in Urls /\ s \in Server
  <2>1. top.list \in UrlLists
    BY <1>1 DEF Chases
  <2>2. url \in Urls \cup {BadUrl}
    BY <2>1, EmptySeq, ElementOfSeq DEF UrlLists, url
  <2>3. QED
    BY <2>2 DEF Urls
<1>4. /\ 1 \in DOMAIN req /\ req[1] \in Requests /\ n \in Nat
      /\ req[top.from] \in Requests /\ top.from \in DOMAIN req
  <2>1. 1 \in DOMAIN req /\ top.from \in DOMAIN req
    BY <1>2, LenProperties DEF Inv, Types, mayRefer
  <2>2. req[1] \in Requests /\ req[top.from] \in Requests
    BY <2>1, LenProperties, Zenon DEF Inv, Types
  <2>3. QED
    BY <2>1, <2>2 DEF Requests
<1>5. r \in Requests
  BY <1>3, <1>4 DEF Request, Requests, Urls
<1>6. adds(req, r, n, req')
  BY Zenon DEF send, adds
<1>7. /\ req' \in Seq(Requests) /\ m \in Nat \ {0} /\ Len(req') = m + 1
      /\ DOMAIN req = 1 .. m /\ DOMAIN req' = 1 .. m + 1
      /\ req'[m + 1] = r
      /\ \A i \in 1 .. m :
           /\ req[i] \in Requests
           /\ req'[i].status = req[i].status /\ req'[i].hops = req[i].hops /\ req'[i].conn = req[i].conn
           /\ req'[i].parentcnt = IF i = 1 THEN n ELSE req[i].parentcnt
  <2>1. req \in Seq(Requests) /\ Len(req) >= 1
    BY Zenon DEF Inv, Types
  <2>2. PICK c \in Requests, k \in Nat : c = r /\ k = n /\ adds(req, c, k, req')
    BY <1>4, <1>5, <1>6, Zenon
  <2>3. /\ req' \in Seq(Requests) /\ Len(req) \in Nat \ {0} /\ Len(req') = Len(req) + 1
        /\ DOMAIN req = 1 .. Len(req) /\ DOMAIN req' = 1 .. Len(req) + 1
        /\ req'[Len(req) + 1] = c
        /\ \A i \in 1 .. Len(req) :
             /\ req[i] \in Requests
             /\ req'[i].status = req[i].status /\ req'[i].hops = req[i].hops /\ req'[i].conn = req[i].conn
             /\ req'[i].parentcnt = IF i = 1 THEN k ELSE req[i].parentcnt
    BY <2>1, <2>2, ChildSent
  <2>4. QED
    BY <2>2, <2>3
<1>8. reqsKept
  BY <1>7 DEF reqsKept
<1>9. waits \in Seq(Waiters) /\ \A j \in DOMAIN waits : mayRefer(waits[j].from)
  BY <1>3, SMTT(30) DEF Inv, Types, QueueInv
<1>10. waits # <<>> => w \in Waiters /\ mayRefer(w.from) /\ Len(waits) \in Nat \ {0}
  BY <1>9, LastOfSeq, Zenon
<1>11. continuesTop(f) /\ f.at # "bind"
  <2>1. CASE waits = <<>>
    <3>1. f = [top EXCEPT !.at = "end", !.count = top.count + 1]
      BY <2>1
    <3> HIDE DEF f
    <3>2. f \in Chases /\ f.lr = top.lr /\ f.sref = top.sref /\ f.from = top.from /\ f.at = "end"
      <4>1. top.count + 1 \in Int
        BY <1>1 DEF Chases
      <4>2. QED
        BY <1>1, <3>1, <4>1, ChaseEnds, ZenonT(30)
    <3>3. QED
      BY <1>2, <3>2 DEF continuesTop
  <2>2. CASE waits # <<>>
    <3>1. f = Chase(top.lr, w.from, top.sref, w.list, top.count + 1)
      BY <2>2
    <3>2. w \in Waiters /\ mayRefer(w.from)
      BY <1>10, <2>2
    <3> HIDE DEF f, w
    <3>3. f \in Chases /\ f.lr = top.lr /\ f.sref = top.sref /\ f.from = w.from /\ f.at = "try"
      BY <1>1, <3>1, <3>2, ChaseGoesOn, Zenon
    <3>4. QED
      BY <3>2, <3>3 DEF continuesTop
  <2>3. QED
    BY <2>1, <2>2
<1>12. setTop(f)
  BY Zenon DEF send, setTop, end
<1>13. StackInv'
  BY <1>8, <1>11, <1>12, TopStack, Zenon
<1>14. /\ queue' \in [Server -> Seq(Waiters)]
       /\ \A t \in Server : \A j \in DOMAIN queue'[t] : j \in DOMAIN queue[t] /\ queue'[t][j] = queue[t][j]
  <2>1. CASE waits = <<>>
    BY <2>1 DEF send, Inv, Types
  <2>2. CASE waits # <<>>
    <3> DEFINE l == Len(waits)  rest == SubSeq(waits, 1, l - 1)
    <3>1. l \in Nat \ {0} /\ DOMAIN waits = 1 .. l /\ \A j \in 1 .. l : waits[j] \in Waiters
      BY <1>9, <1>10, <2>2, LenProperties, Zenon
    <3>2. /\ rest \in Seq(Waiters) /\ Len(rest) = l - 1
          /\ \A j \in 1 .. l - 1 : rest[j] = waits[j]
      BY <3>1, SubSeqProperties
    <3>3. DOMAIN rest = 1 .. l - 1
      BY <3>2, LenProperties, Zenon
    <3>4. queue' = [queue EXCEPT ![s] = rest] /\ queue \in [Server -> Seq(Waiters)]
      BY <2>2 DEF send, Inv, Types
    <3> HIDE DEF rest, l
    <3>5. QED
      BY <1>3, <3>1, <3>2, <3>3, <3>4
  <2>3. QED
    BY <2>1, <2>2, Zenon
<1>15. QueueInv'
  <2>1. \A i : mayRefer(i) => mayRefer(i)'
    BY <1>8, Zenon DEF mayRefer, reqsKept
  <2>2. QED
    BY <1>14, <2>1, Zenon DEF Inv, QueueInv
<1>16. Types'
  <2>1. stack' \in Seq(Chases)
    BY <1>11, <1>12, TopBinds, Zenon DEF Inv, continuesTop
  <2>2. outrefcnt' \in Int /\ done' \in BOOLEAN
    BY DEF Inv, Types
  <2>3. Len(req') >= 1
    BY <1>7
  <2>4. QED
    BY <1>7, <1>14, <2>1, <2>2, <2>3 DEF Types
<1>17. HopInv'
  <2>1. /\ req[1].parentcnt \in Nat /\ req[top.from].hops \in Nat /\ HopLimit \in Nat
        /\ \A i \in 1 .. m : req[i].hops \in Nat /\ req[i].parentcnt \in Nat
    BY <1>4, <1>7, RefsAssumption, Zenon DEF Requests
  <2>2. /\ req[top.from].hops <= req[top.from].parentcnt
        /\ req[top.from].parentcnt <= req[1].parentcnt
        /\ req[top.from].hops < HopLimit
    BY <1>2, <1>4 DEF Inv, HopInv, mayRefer
  <2>3. req[top.from].parentcnt \in Nat
    BY <1>4 DEF Requests
  <2>4. r.parentcnt = n /\ r.hops = req[top.from].hops + 1
    BY DEF Request
  <2>5. r.hops <= n /\ r.hops <= HopLimit
    <3>1. PICK h \in Nat : h = req[top.from].hops
      BY <2>1, Zenon
    <3>2. h + 1 <= req[1].parentcnt + 1 /\ h + 1 <= HopLimit
      BY <2>1, <2>2, <2>3, <3>1, OneDeeper, Zenon
    <3>3. QED
      BY <2>4, <3>1, <3>2, Zenon
  <2>6. req'[1].parentcnt = n
    BY <1>7
  <2>7. ASSUME NEW i \in 1 .. m
        PROVE  req'[i].parentcnt <= n /\ req'[i].hops <= req'[i].parentcnt /\ req'[i].hops <= HopLimit
    <3>1. req[i].parentcnt <= req[1].parentcnt /\ req[i].hops <= req[i].parentcnt /\ req[i].hops <= HopLimit
      BY <1>7 DEF Inv, HopInv
    <3>2. QED
      BY <1>7, <2>1, <3>1
  <2>8. QED
    BY <1>4, <1>7, <2>4, <2>5, <2>6, <2>7 DEF HopInv
<1>18. CountCovers'
  <2>1. kids' = kids \cup {m + 1} /\ m + 1 \notin kids
    <3>1. \A i \in 1 .. m : i \in kids' <=> i \in kids
      BY <1>7 DEF kids, inProgress
    <3>2. m + 1 \in kids'
      <4>1. m + 1 \in DOMAIN req' /\ m + 1 # 1
        BY <1>7
      <4>2. req'[m + 1].status = "INPROGRESS"
        BY <1>7 DEF Request
      <4>3. QED
        BY <4>1, <4>2, Zenon DEF kids, inProgress
    <3>3. kids \subseteq 1 .. m /\ kids' \subseteq 1 .. m + 1
      BY <1>7, Zenon DEF kids, inProgress
    <3>4. m + 1 \notin 1 .. m /\ \A i \in 1 .. m + 1 : i \in 1 .. m \/ i = m + 1
      BY <1>7
    <3>5. QED
      BY <3>1, <3>2, <3>3, <3>4, Zenon
  <2>2. IsFiniteSet(kids) /\ Cardinality(kids) \in Nat /\ Cardinality(binds) \in Nat
    BY Finite DEF Inv
  <2>3. Cardinality(kids') = Cardinality(kids) + 1
    BY <2>1, <2>2, FS_AddElement, Zenon
  <2>4. Cardinality(binds') = IF top.at = "bind" THEN Cardinality(binds) - 1 ELSE Cardinality(binds)
    BY <1>11, <1>12, TopBinds, Zenon DEF Inv, continuesTop
  <2>5. outrefcnt \in Int /\ outrefcnt >= Cardinality(kids) + Cardinality(binds)
    BY DEF Inv, Types, CountCovers, kids
  <2>6. outrefcnt' >= Cardinality(kids') + Cardinality(binds')
    BY <2>2, <2>3, <2>4, <2>5
  <2>7. QED
    BY <2>6 DEF CountCovers, kids
<1>19. DoneIsLast'
  BY Zenon DEF Inv, DoneIsLast
<1>20. topMoves
  BY <1>11, <1>12, TopMoves, Zenon
<1>21. sent(s)
  <2>1. r.conn = s /\ r.status = "INPROGRESS"
    BY Zenon DEF Request
  <2>2. refs' = [refs EXCEPT ![s] = refs[s] + 1]
    BY DEF send
  <2> HIDE DEF r, s
  <2>3. QED
    BY <1>3, <1>7, <2>1, <2>2, Zenon DEF sent
<1>22. QED
  BY <1>20, <1>21, <1>13, <1>15, <1>16, <1>17, <1>18, <1>19, Zenon DEF Inv

-------------------------------------------------------------------------------
(* The ways through a turn of the loop that send nothing. *)

LEMMA TopFacts ==
  ASSUME Inv, stack # <<>>
  PROVE  /\ top \in Chases /\ top.list \in UrlLists /\ top.whole \in UrlLists /\ top.from \in Nat
         /\ mayRefer(top.from)
         /\ Cardinality(binds) \in Nat /\ outrefcnt \in Int
<1>1. Len(stack) \in DOMAIN stack /\ top \in Chases
  BY EmptySeq, LenProperties DEF Inv, Types, top
<1>2. mayRefer(top.from)
  BY <1>1 DEF Inv, StackInv, ChaseInv, top
<1>3. Cardinality(binds) \in Nat /\ outrefcnt \in Int
  BY Finite DEF Inv, Types
<1>4. QED
  BY <1>1, <1>2, <1>3 DEF Chases

LEMMA BindFacts ==
  ASSUME Inv, stack # <<>>, top.at = "bind"
  PROVE  top.list # <<>> /\ url # BadUrl
<1>1. Len(stack) \in DOMAIN stack
  BY EmptySeq, LenProperties DEF Inv, Types
<1>2. QED
  BY <1>1 DEF Inv, StackInv, ChaseInv, top, url

\* The chase ends; a list may have been queued.
LEMMA EndStep ==
  ASSUME Inv, stack # <<>>, top.at = "try", NEW k \in Int, end(k), UNCHANGED <<req, outrefcnt, done>>,
         queue' \in [Server -> Seq(Waiters)], QueueInv'
  PROVE  Inv' /\ topMoves
<1>1. PICK f : f = [top EXCEPT !.at = "end", !.count = k]
  OBVIOUS
<1>2. top \in Chases /\ mayRefer(top.from) /\ outrefcnt \in Int
  BY TopFacts
<1>3. f \in Chases /\ f.lr = top.lr /\ f.sref = top.sref /\ f.from = top.from /\ f.at = "end"
  BY <1>1, <1>2, Zenon DEF Chases
<1>4. continuesTop(f) /\ setTop(f)
  BY <1>1, <1>2, <1>3, Zenon DEF continuesTop, end
<1>5. Cardinality(binds') = Cardinality(binds)
  BY <1>3, <1>4, TopBinds, Zenon DEF Inv
<1>6. QED
  BY <1>2, <1>3, <1>4, <1>5, TopStep, TopMoves, Zenon

LEMMA QueueKept ==
  ASSUME Inv, UNCHANGED <<req, queue>>
  PROVE  queue' \in [Server -> Seq(Waiters)] /\ QueueInv'
BY DEF Inv, Types, QueueInv, mayRefer

\* The next alternative's turn, after this one was skipped or its bind failed.
LEMMA ChaseSkips ==
  ASSUME NEW c \in Chases, c.list # <<>>, NEW f, f = [c EXCEPT !.list = Tail(c.list), !.at = "try"]
  PROVE  f \in Chases /\ f.lr = c.lr /\ f.sref = c.sref /\ f.from = c.from /\ f.at = "try"
<1>1. Tail(c.list) \in UrlLists
  BY HeadTailProperties DEF Chases, UrlLists
<1>2. QED
  BY <1>1, Zenon DEF Chases

LEMMA SkipStep ==
  ASSUME Inv, stack # <<>>, top.list # <<>>, UNCHANGED <<req, done>>,
         setTop([top EXCEPT !.list = Tail(top.list), !.at = "try"]),
         outrefcnt' = (IF top.at = "bind" THEN outrefcnt - 1 ELSE outrefcnt),
         queue' \in [Server -> Seq(Waiters)], QueueInv'
  PROVE  Inv' /\ topMoves
<1>1. PICK f : f = [top EXCEPT !.list = Tail(top.list), !.at = "try"]
  OBVIOUS
<1>2. top \in Chases /\ mayRefer(top.from) /\ outrefcnt \in Int /\ Cardinality(binds) \in Nat
  BY TopFacts
<1>3. f \in Chases /\ f.lr = top.lr /\ f.sref = top.sref /\ f.from = top.from /\ f.at = "try"
  BY <1>1, <1>2, ChaseSkips, Zenon
<1>4. continuesTop(f) /\ setTop(f)
  BY <1>1, <1>2, <1>3, Zenon DEF continuesTop
<1>5. Cardinality(binds') = IF top.at = "bind" THEN Cardinality(binds) - 1 ELSE Cardinality(binds)
  BY <1>3, <1>4, TopBinds DEF Inv
<1>6. outrefcnt' \in Int /\ outrefcnt' - Cardinality(binds') = outrefcnt - Cardinality(binds)
  BY <1>2, <1>5
<1>7. QED
  BY <1>3, <1>4, <1>6, TopStep, TopMoves

LEMMA SkipsTry ==
  ASSUME Inv, stack # <<>>, top.at = "try", skip
  PROVE  setTop([top EXCEPT !.list = Tail(top.list), !.at = "try"])
<1>1. top \in Chases
  BY TopFacts
<1>2. [top EXCEPT !.list = Tail(top.list)] = [top EXCEPT !.list = Tail(top.list), !.at = "try"]
  BY <1>1, Zenon DEF Chases
<1>3. QED
  BY <1>2 DEF skip

\* A connection is opened.
LEMMA OpenStep ==
  ASSUME Inv, tryOpen
  PROVE  Inv' /\ (HeldInv => HeldInv')
<1>1. PICK f : f = [top EXCEPT !.at = "bind"]
  BY Zenon
<1>2. /\ stack # <<>> /\ top.at = "try" /\ top.list # <<>> /\ top.list[1] # BadUrl /\ setTop(f)
      /\ outrefcnt' = outrefcnt + 1 /\ UNCHANGED <<req, queue, done>>
  BY <1>1 DEF tryOpen, trying, url
<1>3. top \in Chases /\ mayRefer(top.from) /\ outrefcnt \in Int /\ Cardinality(binds) \in Nat
  BY <1>2, TopFacts
<1>4. /\ f \in Chases /\ f.lr = top.lr /\ f.sref = top.sref /\ f.from = top.from
      /\ f.at = "bind" /\ f.list = top.list
  BY <1>1, <1>3 DEF Chases
<1>5. continuesTop(f)
  BY <1>2, <1>3, <1>4, Zenon DEF continuesTop
<1>6. Cardinality(binds') = Cardinality(binds) + 1
  BY <1>2, <1>4, TopBinds DEF Inv
<1>7. outrefcnt' \in Int /\ outrefcnt' - Cardinality(binds') = outrefcnt - Cardinality(binds)
  BY <1>2, <1>3, <1>6
<1>8. Inv'
  BY <1>2, <1>5, <1>7, QueueKept, TopStep, Zenon
<1>9. ASSUME HeldInv PROVE HeldInv'
  <2>1. PICK s \in Server : s = top.list[1].server
    <3>1. top.list \in UrlLists
      BY <1>2, TopFacts
    <3>2. top.list[1] \in Urls
      BY <1>2, <3>1, EmptySeq, ElementOfSeq DEF UrlLists
    <3>3. QED
      BY <3>2 DEF Urls
  <2>2. conn[s] = "none" /\ conn' = [conn EXCEPT ![s] = "binding"] /\ UNCHANGED refs
    BY <2>1 DEF tryOpen, url
  <2>3. /\ Len(stack) \in DOMAIN stack /\ DOMAIN stack' = DOMAIN stack
        /\ \A k \in DOMAIN stack : stack'[k] = IF k = Len(stack) THEN f ELSE stack[k]
    BY <1>2, <1>4, TopBinds DEF Inv
  <2>4. /\ stack[Len(stack)].at # "bind" /\ stack'[Len(stack)].list[1].server = s
        /\ \A k \in DOMAIN stack : stack'[k].lr = stack[k].lr
        /\ \A k \in DOMAIN stack : k # Len(stack) => stack'[k] = stack[k]
    BY <1>2, <1>4, <2>1, <2>3, Zenon DEF top
  <2>5. QED
    BY <1>2, <1>9, <2>2, <2>3, <2>4, HeldOpens, Zenon DEF Inv
<1>10. QED
  BY <1>8, <1>9

\* A list waits for a connection.
LEMMA QueueStep ==
  ASSUME Inv, tryQueue
  PROVE  Inv' /\ topMoves
<1> DEFINE s == url.server  w == [list |-> top.whole, from |-> top.from]
<1>1. /\ stack # <<>> /\ top.at = "try" /\ top.list # <<>> /\ url # BadUrl
      /\ end(1) /\ UNCHANGED <<req, outrefcnt, done>>
      /\ queue' = [queue EXCEPT ![s] = Append(queue[s], w)]
  BY DEF tryQueue, trying
<1>2. top.list \in UrlLists /\ top.whole \in UrlLists /\ top.from \in Nat /\ mayRefer(top.from)
  BY <1>1, TopFacts
<1>3. w \in Waiters
  BY <1>2 DEF Waiters
<1>4. queue \in [Server -> Seq(Waiters)]
  BY DEF Inv, Types
<1>5. ASSUME s \in Server
      PROVE  /\ queue'[s] \in Seq(Waiters) /\ DOMAIN queue'[s] = 1 .. Len(queue[s]) + 1
             /\ \A j \in DOMAIN queue'[s] : mayRefer(queue'[s][j].from)
  <2>1. PICK p : p = Append(queue[s], w)
    BY Zenon
  <2>2. queue[s] \in Seq(Waiters) /\ queue'[s] = p
    BY <1>1, <1>4, <1>5, <2>1, Zenon
  <2>3. DOMAIN queue[s] = 1 .. Len(queue[s]) /\ Len(queue[s]) \in Nat
    BY <2>2, LenProperties, Zenon
  <2>4. /\ p \in Seq(Waiters) /\ DOMAIN p = 1 .. Len(queue[s]) + 1
        /\ p[Len(queue[s]) + 1] = w /\ \A i \in 1 .. Len(queue[s]) : p[i] = queue[s][i]
    <3> HIDE DEF w
    <3>1. QED
      BY <1>3, <2>1, <2>2, Appended
  <2>5. \A i \in 1 .. Len(queue[s]) : mayRefer(queue[s][i].from)
    BY <1>5, <2>3 DEF Inv, QueueInv
  <2>6. mayRefer(w.from)
    BY <1>2
  <2> HIDE DEF w
  <2>7. ASSUME NEW j \in 1 .. Len(queue[s]) + 1 PROVE mayRefer(p[j].from)
    <3>1. j \in 1 .. Len(queue[s]) \/ j = Len(queue[s]) + 1
      BY <2>3
    <3>2. QED
      BY <2>4, <2>5, <2>6, <3>1, Zenon
  <2>8. QED
    BY <2>2, <2>4, <2>7
<1>6. queue' \in [Server -> Seq(Waiters)]
  BY <1>1, <1>4, <1>5, Zenon
<1>7. \A i : mayRefer(i)' <=> mayRefer(i)
  BY <1>1 DEF mayRefer
<1>8. \A t \in Server : \A j \in DOMAIN queue'[t] : mayRefer(queue'[t][j].from)
  <2>1. ASSUME NEW t \in Server, t # s PROVE queue'[t] = queue[t]
    BY <1>1, <1>4, <2>1
  <2>2. \A t \in Server : \A j \in DOMAIN queue[t] : mayRefer(queue[t][j].from)
    BY DEF Inv, QueueInv
  <2>3. QED
    BY <1>5, <2>1, <2>2, Zenon
<1>9. QueueInv'
  BY <1>7, <1>8, Zenon DEF QueueInv
<1>10. QED
  BY <1>1, <1>6, <1>9, EndStep

-------------------------------------------------------------------------------
(* Messages. *)

\* A list of references arrives and a chase begins.
LEMMA PushStep ==
  ASSUME Inv, NEW i \in DOMAIN req, open(i), NEW sref \in BOOLEAN, NEW l \in RefLists,
         req[i].parentcnt < HopLimit, stack' = Append(stack, Chase(i, i, sref, l, 0)),
         UNCHANGED <<req, outrefcnt, conn, refs, queue, done>>
  PROVE  Inv' /\ (HeldInv => HeldInv')
<1>0. PICK n \in Nat : n = Len(stack)
  BY LenProperties DEF Inv, Types
<1>1. PICK c : c = Chase(i, i, sref, l, 0)
  OBVIOUS
<1>2. i \in Nat /\ req[i] \in Requests
  BY LenProperties, ElementOfSeq DEF Inv, Types
<1>3. mayRefer(i)
  <2>1. req[i].hops \in Nat /\ req[i].parentcnt \in Nat /\ HopLimit \in Nat
    BY <1>2, RefsAssumption, Zenon DEF Requests
  <2>2. QED
    BY <2>1 DEF Inv, HopInv, mayRefer
<1>4. c \in Chases /\ c.lr = i /\ c.from = i /\ c.sref = sref /\ c.at = "try"
  BY <1>1, <1>2, RefsAssumption DEF Chase, Chases, UrlLists, Urls
<1>5. stack \in Seq(Chases) /\ n \in Nat /\ DOMAIN stack = 1 .. n
  BY <1>0, LenProperties, Zenon DEF Inv, Types
<1>6. /\ stack' \in Seq(Chases) /\ Len(stack') = n + 1 /\ DOMAIN stack' = 1 .. n + 1
      /\ stack'[n + 1] = c /\ \A k \in 1 .. n : stack'[k] = stack[k]
  BY <1>0, <1>1, <1>4, <1>5, Appended
<1>7. \A k \in 1 .. n + 1 : k \in 1 .. n \/ k = n + 1
  BY <1>5
<1>8. \A k \in 1 .. n : stack[k].at = "bind"
  <2>1. \A k \in 1 .. n : k # n => stack[k].at = "bind"
    BY <1>0, <1>5, Zenon DEF Inv, StackInv, ChaseInv
  <2>2. stack # <<>> => stack[n].at = "bind"
    BY <1>0, Zenon DEF open, waiting, top
  <2>3. n # 0 => stack # <<>>
    BY <1>0, EmptySeq, Zenon
  <2>4. \A k \in 1 .. n : n # 0
    BY <1>5
  <2>5. QED
    BY <2>1, <2>2, <2>3, <2>4, Zenon
<1>9. ~done /\ req[i].status # "COMPLETED" /\ \A k \in 1 .. n : ~stack[k].sref => stack[k].lr # i
  BY <1>5 DEF open, waiting
<1>10. \A j : mayRefer(j)' <=> mayRefer(j)
  BY DEF mayRefer
<1>11. \A k \in 1 .. n : ChaseInv(k) /\ ReferralInv(k)
  BY <1>5, Zenon DEF Inv, StackInv
<1>12. ASSUME NEW k \in 1 .. n PROVE ChaseInv(k)' /\ ReferralInv(k)'
  <2>1. stack'[k] = stack[k] /\ stack[k].at = "bind" /\ ChaseInv(k) /\ ReferralInv(k)
    BY <1>6, <1>8, <1>11
  <2>2. ChaseInv(k)'
    BY <1>10, <2>1, Zenon DEF ChaseInv
  <2>3. ReferralInv(k)'
    <3>1. ASSUME ~stack[k].sref, NEW j \in 1 .. n + 1, j # k, ~stack'[j].sref
          PROVE  stack'[j].lr # stack[k].lr
      <4>1. CASE j \in 1 .. n
        BY <1>5, <1>6, <2>1, <3>1, <4>1, Zenon DEF ReferralInv
      <4>2. CASE j = n + 1
        BY <1>4, <1>6, <1>9, <3>1, <4>2, Zenon
      <4>3. QED
        BY <1>7, <4>1, <4>2, Zenon
    <3>2. ~stack[k].sref => req'[stack'[k].lr].status # "COMPLETED"
      BY <2>1, Zenon DEF ReferralInv
    <3>3. QED
      BY <1>6, <2>1, <3>1, <3>2, Zenon DEF ReferralInv
  <2>4. QED
    BY <2>2, <2>3, Zenon
<1>13. ChaseInv(n + 1)'
  BY <1>3, <1>4, <1>6, <1>10, Zenon DEF ChaseInv
<1>14. ReferralInv(n + 1)'
  BY <1>4, <1>5, <1>6, <1>7, <1>9, Zenon DEF ReferralInv
<1>15. StackInv'
  BY <1>6, <1>7, <1>12, <1>13, <1>14, Zenon DEF StackInv
<1>16. Types' /\ HopInv' /\ QueueInv' /\ DoneIsLast'
  BY <1>6, <1>9, QueueKept, Zenon DEF Inv, Types, HopInv, DoneIsLast
<1>17. kids' = kids
  BY Zenon DEF kids, inProgress
<1>18. binds' = binds
  BY <1>4, <1>5, <1>6, <1>7 DEF binds
<1>19. CountCovers'
  BY <1>17, <1>18, Zenon DEF Inv, CountCovers, kids
<1>20. HeldInv => HeldInv'
  BY <1>4, <1>5, <1>6, <1>9, HeldPush, Zenon
<1>21. QED
  BY <1>15, <1>16, <1>19, <1>20, Zenon DEF Inv

\* What a message that is handled may change: request i, if it is one, is
\* complete, and the stack becomes st.
settled(i, st) ==
  /\ req' \in Seq(Requests) /\ Len(req') = Len(req)
  /\ \A j \in DOMAIN req :
       /\ req'[j].hops = req[j].hops /\ req'[j].parentcnt = req[j].parentcnt
       /\ req'[j].status = IF j = i THEN "COMPLETED" ELSE req[j].status
  /\ queue' \in [Server -> Seq(Waiters)]
  /\ \A s \in Server : queue'[s] = queue[s] \/ queue'[s] = <<>>
  /\ stack' = st

\* The requests q become req' and s may lose its connection.
LEMMA Handled ==
  ASSUME Inv, NEW i, NEW q \in Seq(Requests), Len(q) = Len(req),
         \A j \in DOMAIN req :
           /\ q[j].hops = req[j].hops /\ q[j].parentcnt = req[j].parentcnt
           /\ q[j].status = IF j = i THEN "COMPLETED" ELSE req[j].status,
         NEW s, NEW r, NEW st, handled(s, q, r, st)
  PROVE  settled(i, st)
<1> DEFINE m == Len(req)
<1>1. m \in Nat /\ DOMAIN req = 1 .. m /\ DOMAIN q = 1 .. m /\ \A j \in 1 .. m : q[j] \in Requests
  BY LenProperties DEF Inv, Types
<1>2. PICK free \in BOOLEAN :
        /\ req' = [j \in 1 .. m |-> IF free /\ q[j].conn = s THEN [q[j] EXCEPT !.conn = Gone] ELSE q[j]]
        /\ queue' = IF free THEN [queue EXCEPT ![s] = <<>>] ELSE queue
        /\ stack' = st
  BY <1>1, Zenon DEF handled
<1>3. ASSUME NEW j \in 1 .. m
      PROVE  /\ req'[j] \in Requests
             /\ req'[j].hops = q[j].hops /\ req'[j].parentcnt = q[j].parentcnt /\ req'[j].status = q[j].status
  <2>1. q[j] \in Requests
    BY <1>1
  <2>2. req'[j] = q[j] \/ req'[j] = [q[j] EXCEPT !.conn = Gone]
    BY <1>2
  <2>3. QED
    BY <2>1, <2>2, Zenon DEF Requests
<1>4. req' \in [1 .. m -> Requests]
  BY <1>2, <1>3, Zenon
<1>5. req' \in Seq(Requests) /\ Len(req') = m
  BY <1>1, <1>4
<1>6. queue \in [Server -> Seq(Waiters)] /\ <<>> \in Seq(Waiters)
  BY EmptySeq DEF Inv, Types
<1>7. queue' \in [Server -> Seq(Waiters)] /\ \A t \in Server : queue'[t] = queue[t] \/ queue'[t] = <<>>
  BY <1>2, <1>6, Zenon
<1>8. QED
  BY <1>1, <1>2, <1>3, <1>5, <1>7, Zenon DEF settled

\* A message is handled while all chases wait for binds, or by the innermost
\* chase as it returns.
below(st) ==
  \/ st = stack /\ \A k \in DOMAIN stack : stack[k].at = "bind"
  \/ st = popped /\ stack # <<>> /\ top.at = "end"

LEMMA Below ==
  ASSUME Inv, NEW st, below(st), stack' = st
  PROVE  /\ stack' \in Seq(Chases) /\ binds' = DOMAIN stack' /\ binds' = binds
         /\ \A k \in DOMAIN stack' : k \in DOMAIN stack /\ stack'[k] = stack[k] /\ stack[k].at = "bind"
<1>1. PICK n \in Nat : n = Len(stack) /\ DOMAIN stack = 1 .. n /\ stack \in Seq(Chases)
  BY LenProperties, Zenon DEF Inv, Types
<1>2. CASE st = stack /\ \A k \in DOMAIN stack : stack[k].at = "bind"
  <2>1. stack' = stack
    BY <1>2
  <2>2. binds = DOMAIN stack /\ binds' = DOMAIN stack
    BY <1>2, <2>1, Zenon DEF binds
  <2>3. QED
    BY <1>1, <1>2, <2>1, <2>2, Zenon
<1>3. CASE st = popped /\ stack # <<>> /\ top.at = "end"
  <2>1. n \in Nat \ {0} /\ \A k \in 1 .. n : stack[k] \in Chases
    BY <1>1, <1>3, EmptySeq, ElementOfSeq
  <2>2. PICK p : p = SubSeq(stack, 1, n - 1)
    BY Zenon
  <2>3. p \in Seq(Chases) /\ Len(p) = n - 1 /\ \A k \in 1 .. n - 1 : p[k] = stack[k]
    BY <2>1, <2>2, SubSeqProperties
  <2>4. DOMAIN p = 1 .. n - 1
    BY <2>3, LenProperties
  <2>5. stack' = p
    BY <1>1, <1>3, <2>2, Zenon DEF popped
  <2>6. stack[n].at # "bind" /\ \A k \in 1 .. n - 1 : stack[k].at = "bind"
    <3>1. stack[n].at = "end"
      BY <1>1, <1>3, Zenon DEF top
    <3>2. \A k \in 1 .. n : k # n => stack[k].at = "bind"
      BY <1>1, Zenon DEF Inv, StackInv, ChaseInv
    <3>3. QED
      BY <2>1, <3>1, <3>2
  <2>7. binds' = 1 .. n - 1
    BY <2>3, <2>4, <2>5, <2>6, Zenon DEF binds
  <2>8. binds = 1 .. n - 1
    BY <1>1, <2>1, <2>6 DEF binds
  <2>9. QED
    BY <1>1, <2>1, <2>3, <2>4, <2>5, <2>6, <2>7, <2>8
<1>4. QED
  BY <1>2, <1>3 DEF below

LEMMA SettledStep ==
  ASSUME Inv, NEW i, NEW st, settled(i, st), below(st),
         \A k \in DOMAIN st : ~st[k].sref => st[k].lr # i,
         outrefcnt' = outrefcnt \/ (outrefcnt' = outrefcnt - 1 /\ i \in kids),
         done' \in BOOLEAN, done' => outrefcnt' <= 0 /\ inProgress' = {}
  PROVE  Inv'
<1>1. /\ stack' \in Seq(Chases) /\ binds' = DOMAIN stack' /\ binds' = binds
      /\ \A k \in DOMAIN stack' : k \in DOMAIN stack /\ stack'[k] = stack[k] /\ stack[k].at = "bind"
  BY Below, Zenon DEF settled
<1>2. DOMAIN req' = DOMAIN req
  BY LenProperties, Zenon DEF Inv, Types, settled
<1>3. \A j : mayRefer(j)' <=> mayRefer(j)
  BY <1>2, Zenon DEF mayRefer, settled
<1>4. Types'
  BY <1>1 DEF Inv, Types, settled
<1>5. ASSUME NEW k \in DOMAIN stack' PROVE ChaseInv(k)' /\ ReferralInv(k)'
  <2>1. k \in DOMAIN stack /\ stack'[k] = stack[k] /\ stack[k].at = "bind" /\ ChaseInv(k) /\ ReferralInv(k)
    BY <1>1, <1>5, Zenon DEF Inv, StackInv
  <2>2. ChaseInv(k)'
    BY <1>2, <1>3, <2>1, Zenon DEF ChaseInv
  <2>3. stack[k].lr \in DOMAIN req
    BY <2>1, Zenon DEF ChaseInv
  <2>4. ~stack[k].sref => req'[stack[k].lr].status = req[stack[k].lr].status
    BY <1>5, <2>1, <2>3, Zenon DEF settled
  <2>5. ReferralInv(k)'
    BY <1>1, <2>1, <2>4, Zenon DEF ReferralInv
  <2>6. QED
    BY <2>2, <2>5, Zenon
<1>6. StackInv'
  BY <1>5 DEF StackInv
<1>7. QueueInv'
  <2>1. ASSUME NEW s \in Server, NEW j \in DOMAIN queue'[s] PROVE mayRefer(queue'[s][j].from)
    <3>1. queue'[s] # <<>>
      BY <2>1
    <3>2. QED
      BY <2>1, <3>1, Zenon DEF settled, Inv, QueueInv
  <2>2. QED
    BY <1>3, <2>1, Zenon DEF QueueInv
<1>8. HopInv'
  <2>1. 1 \in DOMAIN req
    BY LenProperties DEF Inv, Types
  <2>2. QED
    BY <1>2, <2>1 DEF Inv, HopInv, settled
<1>9. kids' = kids \ {i}
  BY <1>2, Zenon DEF kids, inProgress, settled
<1>10. /\ IsFiniteSet(kids) /\ Cardinality(kids) \in Nat /\ Cardinality(binds) \in Nat
       /\ outrefcnt \in Int /\ outrefcnt >= Cardinality(kids) + Cardinality(binds)
  BY Finite, Zenon DEF Inv, Types, CountCovers, kids
<1>11. Cardinality(kids') = IF i \in kids THEN Cardinality(kids) - 1 ELSE Cardinality(kids)
  BY <1>9, <1>10, FS_RemoveElement, Zenon
<1>12. outrefcnt' >= Cardinality(kids') + Cardinality(binds')
  BY <1>1, <1>10, <1>11
<1>13. CountCovers'
  BY <1>12, Zenon DEF CountCovers, kids
<1>14. DoneIsLast'
  <2>1. SUFFICES ASSUME done' PROVE stack' = <<>>
    BY Zenon DEF DoneIsLast
  <2>2. Cardinality(binds') = 0
    BY <1>1, <1>4, <1>10, <1>12, <2>1, FiniteNext DEF Types
  <2>3. IsFiniteSet(binds)
    BY Finite, Zenon DEF Inv
  <2>4. DOMAIN stack' = {}
    BY <1>1, <2>2, <2>3, FS_EmptySet, Zenon
  <2>5. QED
    BY <1>1, <2>4, EmptySeq, LenProperties
<1>15. QED
  BY <1>4, <1>6, <1>7, <1>8, <1>13, <1>14, Zenon DEF Inv

\* Request i becomes e.
LEMMA RequestChanged ==
  ASSUME NEW p \in Seq(Requests), NEW i \in DOMAIN p, NEW e \in Requests,
         e.hops = p[i].hops, e.parentcnt = p[i].parentcnt, e.conn = p[i].conn, e.status = "COMPLETED",
         NEW q, q = [p EXCEPT ![i] = e]
  PROVE  /\ q \in Seq(Requests) /\ Len(q) = Len(p) /\ DOMAIN q = DOMAIN p
         /\ \A j \in DOMAIN p :
              /\ q[j].hops = p[j].hops /\ q[j].parentcnt = p[j].parentcnt /\ q[j].conn = p[j].conn
              /\ q[j].status = IF j = i THEN "COMPLETED" ELSE p[j].status
<1>1. DOMAIN p = 1 .. Len(p) /\ i \in 1 .. Len(p)
  BY LenProperties
<1>2. /\ q \in Seq(Requests) /\ Len(q) = Len(p)
      /\ \A j \in 1 .. Len(p) : q[j] = IF j = i THEN e ELSE p[j]
  BY <1>1, ExceptSeq
<1>3. DOMAIN q = 1 .. Len(p)
  BY <1>2, LenProperties
<1>4. QED
  BY <1>1, <1>2, <1>3, Zenon

\* The requests p become q as request i is completed.
completes(p, i, q) ==
  \/ q = [p EXCEPT ![i].status = "COMPLETED"]
  \/ q = [p EXCEPT ![i].status = "COMPLETED", ![i].referred = TRUE]

LEMMA Completed ==
  ASSUME NEW p \in Seq(Requests), NEW i \in DOMAIN p, NEW q, completes(p, i, q)
  PROVE  /\ q \in Seq(Requests) /\ Len(q) = Len(p) /\ DOMAIN q = DOMAIN p
         /\ \A j \in DOMAIN p :
              /\ q[j].hops = p[j].hops /\ q[j].parentcnt = p[j].parentcnt /\ q[j].conn = p[j].conn
              /\ q[j].status = IF j = i THEN "COMPLETED" ELSE p[j].status
<1>1. p[i] \in Requests /\ DOMAIN p = 1 .. Len(p)
  BY LenProperties, ElementOfSeq, Zenon
<1>2. CASE q = [p EXCEPT ![i].status = "COMPLETED"]
  <2>1. PICK e : e = [p[i] EXCEPT !.status = "COMPLETED"]
    BY Zenon
  <2>2. /\ e \in Requests /\ e.hops = p[i].hops /\ e.parentcnt = p[i].parentcnt
        /\ e.conn = p[i].conn /\ e.status = "COMPLETED"
    BY <1>1, <2>1, Zenon DEF Requests
  <2>3. q = [p EXCEPT ![i] = e]
    BY <1>2, <2>1
  <2>4. QED
    BY <2>2, <2>3, RequestChanged
<1>3. CASE q = [p EXCEPT ![i].status = "COMPLETED", ![i].referred = TRUE]
  <2>1. PICK e : e = [[p[i] EXCEPT !.status = "COMPLETED"] EXCEPT !.referred = TRUE]
    OBVIOUS
  <2>2. /\ e \in Requests /\ e.hops = p[i].hops /\ e.parentcnt = p[i].parentcnt
        /\ e.conn = p[i].conn /\ e.status = "COMPLETED"
    BY <1>1, <2>1, Zenon DEF Requests
  <2>3. q = [p EXCEPT ![i] = e]
    BY <1>1, <1>3, <2>1, Zenon
  <2>4. QED
    BY <2>2, <2>3, RequestChanged
<1>4. QED
  BY <1>2, <1>3 DEF completes

\* The connections as request i is completed and the count of its server falls,
\* or stays as it is.
LEMMA HeldCompletes ==
  ASSUME Inv, HeldInv, NEW i \in DOMAIN req, NEW q, completes(req, i, q), req[i].status # "COMPLETED",
         NEW st, below(st), NEW r, handled(req[i].conn, q, r, st),
         r = refs \/ r = [refs EXCEPT ![req[i].conn] = refs[req[i].conn] - 1]
  PROVE  HeldInv'
<1>1. /\ q \in Seq(Requests) /\ DOMAIN q = DOMAIN req
      /\ \A j \in DOMAIN req :
           q[j].conn = req[j].conn /\ q[j].status = IF j = i THEN "COMPLETED" ELSE req[j].status
  BY Completed DEF Inv, Types
<1>2. \A j \in DOMAIN req : q[j] \in Requests
  BY <1>1, ElementOfSeq, LenProperties, Zenon
<1>3. PICK s \in Server : s = req[i].conn /\ conn[s] = "up"
  BY ReqConn, Zenon DEF Inv, HeldInv, ReqHeld
<1>4. refs \in [Server -> Int] /\ r \in [Server -> Int]
  BY <1>3 DEF HeldInv
<1>5. ASSUME NEW t \in Server
      PROVE  r[t] >= Cardinality({j \in DOMAIN req : q[j].status # "COMPLETED" /\ q[j].conn = t})
  <2> DEFINE users == {j \in DOMAIN req : q[j].status # "COMPLETED" /\ q[j].conn = t}
  <2>1. using(t) \subseteq DOMAIN req
    BY Zenon DEF using, inProgress
  <2>2. IsFiniteSet(using(t)) /\ Cardinality(using(t)) \in Nat /\ refs[t] >= Cardinality(using(t))
    BY <2>1, UsersFinite DEF Inv, HeldInv, RefsCover
  <2>3. users = using(t) \ {i}
    BY <1>1, Zenon DEF using, inProgress
  <2>4. i \in using(t) <=> t = s
    BY <1>3, Zenon DEF using, inProgress
  <2>5. Cardinality(users) = IF t = s THEN Cardinality(using(t)) - 1 ELSE Cardinality(using(t))
    BY <2>2, <2>3, <2>4, FS_RemoveElement, Zenon
  <2> HIDE DEF users
  <2>6. r[t] = refs[t] \/ (t = s /\ r[t] = refs[t] - 1)
    BY <1>3, <1>4
  <2>7. r[t] >= Cardinality(users)
    BY <1>4, <2>2, <2>5, <2>6
  <2>8. QED
    BY <2>7, Zenon DEF users
<1>6. \A k \in DOMAIN st : k \in DOMAIN stack /\ st[k] = stack[k]
  <2>1. stack' = st
    BY Zenon DEF handled
  <2>2. QED
    BY <2>1, Below, Zenon
<1>7. Types /\ StackInv /\ handled(s, q, r, st)
  BY <1>3, Zenon DEF Inv
<1>8. /\ DOMAIN q = DOMAIN req
      /\ \A j \in DOMAIN req : q[j] \in Requests /\ q[j].conn = req[j].conn
      /\ \A j \in DOMAIN req : req[j].status = "COMPLETED" => q[j].status = "COMPLETED"
  BY <1>1, <1>2, Zenon
<1>9. conn[s] = "up" /\ r \in [Server -> Int]
  BY <1>3, <1>4
<1>10. QED
  BY <1>5, <1>6, <1>7, <1>8, <1>9, HeldHandled, ZenonT(30)

\* The connections as a chase of a search reference returns.
LEMMA HeldReturns ==
  ASSUME Inv, HeldInv, NEW i \in DOMAIN req, req[i].conn # Gone, NEW st, below(st),
         handled(req[i].conn, req, refs, st)
  PROVE  HeldInv'
<1>1. \A j \in DOMAIN req : req[j] \in Requests
  BY ElementOfSeq, LenProperties, Zenon DEF Inv, Types
<1>2. PICK s \in Server : s = req[i].conn /\ conn[s] = "up"
  BY ReqConn DEF Inv, HeldInv, ReqHeld
<1>3. \A t \in Server : refs[t] >= Cardinality({j \in DOMAIN req : req[j].status # "COMPLETED" /\ req[j].conn = t})
  <2>1. \A t \in Server : using(t) = {j \in DOMAIN req : req[j].status # "COMPLETED" /\ req[j].conn = t}
    BY Zenon DEF using, inProgress
  <2>2. QED
    BY <2>1, Zenon DEF HeldInv, RefsCover
<1>4. \A k \in DOMAIN st : k \in DOMAIN stack /\ st[k] = stack[k]
  <2>1. stack' = st
    BY DEF handled
  <2>2. QED
    BY <2>1, Below
<1>5. Types /\ StackInv /\ handled(s, req, refs, st) /\ refs \in [Server -> Int]
  BY <1>2, Zenon DEF Inv, HeldInv
<1>6. QED
  BY <1>1, <1>2, <1>3, <1>4, <1>5, HeldHandled, Zenon

LEMMA CompleteStep ==
  ASSUME Inv, NEW i \in DOMAIN req, req[i].status # "COMPLETED", NEW st, below(st),
         \A k \in DOMAIN st : ~st[k].sref => st[k].lr # i, complete(i, st)
  PROVE  Inv' /\ (HeldInv => HeldInv')
<1>1. PICK q : q = [req EXCEPT ![i].status = "COMPLETED"]
  BY Zenon
<1>2. req \in Seq(Requests) /\ completes(req, i, q)
  BY <1>1, Zenon DEF Inv, Types, completes
<1>3. /\ q \in Seq(Requests) /\ Len(q) = Len(req) /\ DOMAIN q = DOMAIN req
      /\ \A j \in DOMAIN req :
           /\ q[j].hops = req[j].hops /\ q[j].parentcnt = req[j].parentcnt
           /\ q[j].status = IF j = i THEN "COMPLETED" ELSE req[j].status
  BY <1>2, Completed
<1>4. PICK r : handled(req[i].conn, q, r, st) /\ r = [refs EXCEPT ![req[i].conn] = refs[req[i].conn] - 1]
  BY <1>1, Zenon DEF complete
<1>5. settled(i, st)
  BY <1>3, <1>4, Handled, Zenon
<1>6. outrefcnt' = outrefcnt \/ (outrefcnt' = outrefcnt - 1 /\ i \in kids)
  BY DEF complete, kids, inProgress
<1>7. done' = (outrefcnt' <= 0 /\ \A j \in DOMAIN q : q[j].status = "COMPLETED")
  BY <1>1 DEF complete
<1>8. done' \in BOOLEAN
  BY <1>7, Zenon
<1>9. DOMAIN req' = DOMAIN req
  BY <1>2, <1>5, LenProperties, Zenon DEF settled
<1>10. ASSUME done' PROVE outrefcnt' <= 0 /\ inProgress' = {}
  <2>1. outrefcnt' <= 0 /\ \A j \in DOMAIN req : q[j].status = "COMPLETED"
    BY <1>3, <1>7, <1>10, Zenon
  <2>2. \A j \in DOMAIN req' : req'[j].status = "COMPLETED"
    BY <1>3, <1>5, <1>9, <2>1, Zenon DEF settled
  <2>3. QED
    BY <2>1, <2>2 DEF inProgress
<1>11. Inv'
  BY <1>5, <1>6, <1>8, <1>10, SettledStep, Zenon
<1>12. HeldInv => HeldInv'
  BY <1>2, <1>4, HeldCompletes, Zenon
<1>13. QED
  BY <1>11, <1>12

\* A chase has returned.
LEMMA ChasedStep ==
  ASSUME Inv, chased
  PROVE  Inv' /\ (HeldInv => HeldInv')
<1>1. stack # <<>> /\ top.at = "end" /\ below(popped)
  BY DEF chased, below
<1>2. PICK n \in Nat : n = Len(stack) /\ n \in DOMAIN stack /\ top = stack[n]
  BY <1>1, EmptySeq, LenProperties DEF Inv, Types, top
<1>3. PICK i : i = top.lr
  BY Zenon
<1>4. i \in DOMAIN req
  BY <1>2, <1>3, Zenon DEF Inv, StackInv, ChaseInv
<1>5. \A k \in DOMAIN popped : k \in DOMAIN stack /\ k # n /\ popped[k] = stack[k]
  <2>1. DOMAIN stack = 1 .. n /\ \A k \in 1 .. n : stack[k] \in Chases
    BY <1>2, LenProperties, ElementOfSeq, Zenon DEF Inv, Types
  <2>2. PICK p : p = SubSeq(stack, 1, n - 1)
    BY Zenon
  <2>3. p \in Seq(Chases) /\ Len(p) = (IF 1 <= n - 1 THEN n - 1 ELSE 0) /\ \A k \in 1 .. n - 1 : p[k] = stack[k]
    BY <2>1, <2>2, SubSeqProperties
  <2>4. DOMAIN p = 1 .. n - 1
    BY <1>2, <2>1, <2>3, LenProperties
  <2>5. popped = p
    BY <1>2, <2>2, Zenon DEF popped
  <2>6. QED
    BY <2>1, <2>3, <2>4, <2>5
<1>6. ASSUME ~top.sref
      PROVE  req[i].status # "COMPLETED" /\ \A k \in DOMAIN popped : ~popped[k].sref => popped[k].lr # i
  BY <1>2, <1>3, <1>5, <1>6, Zenon DEF Inv, StackInv, ReferralInv
<1>7. req \in Seq(Requests)
  BY DEF Inv, Types
<1>8. UNCHANGED done => done' \in BOOLEAN /\ ~done'
  BY <1>1 DEF Inv, Types, DoneIsLast
<1>9. CASE top.sref /\ handled(req[i].conn, req, refs, popped) /\ UNCHANGED <<outrefcnt, done>>
  <2>1. 0 \notin DOMAIN req
    BY <1>7, LenProperties
  <2>2. settled(0, popped)
    BY <1>7, <1>9, <2>1, Handled, Zenon
  <2>3. \A k \in DOMAIN popped : popped[k].lr # 0
    BY <1>5, <2>1 DEF Inv, StackInv, ChaseInv
  <2>4. QED
    <3>1. outrefcnt' = outrefcnt /\ done' \in BOOLEAN /\ ~done'
      BY <1>8, <1>9
    <3>2. Inv'
      BY <1>1, <2>2, <2>3, <3>1, SettledStep, Zenon
    <3>3. ASSUME HeldInv PROVE HeldInv'
      <4>1. req[i].conn # Gone
        BY <1>2, <1>3, <3>3, Zenon DEF HeldInv, StackHeld
      <4>2. QED
        BY <1>1, <1>4, <1>9, <3>3, <4>1, HeldReturns, Zenon
    <3>4. QED
      BY <3>2, <3>3
<1>10. CASE /\ ~top.sref /\ UNCHANGED <<outrefcnt, done>>
            /\ handled(req[i].conn, [req EXCEPT ![i].status = "COMPLETED", ![i].referred = TRUE], refs, popped)
  <2>1. PICK q : q = [req EXCEPT ![i].status = "COMPLETED", ![i].referred = TRUE]
    BY Zenon
  <2>2. /\ q \in Seq(Requests) /\ Len(q) = Len(req)
        /\ \A j \in DOMAIN req :
             /\ q[j].hops = req[j].hops /\ q[j].parentcnt = req[j].parentcnt
             /\ q[j].status = IF j = i THEN "COMPLETED" ELSE req[j].status
    <3>1. completes(req, i, q)
      BY <2>1, SMTT(30) DEF completes
    <3>2. QED
      BY <1>4, <1>7, <3>1, Completed
  <2>3. handled(req[i].conn, q, refs, popped)
    BY <1>10, <2>1, Zenon
  <2>4. settled(i, popped)
    BY <2>2, <2>3, Handled, Zenon
  <2>5. QED
    <3>1. outrefcnt' = outrefcnt /\ done' \in BOOLEAN /\ ~done'
      BY <1>8, <1>10
    <3>2. Inv'
      BY <1>1, <1>6, <1>10, <2>4, <3>1, SettledStep, Zenon
    <3>3. completes(req, i, q) /\ req[i].status # "COMPLETED"
      BY <1>6, <1>10, <2>1, Zenon DEF completes
    <3>4. HeldInv => HeldInv'
      BY <1>1, <1>4, <2>3, <3>3, HeldCompletes, Zenon
    <3>5. QED
      BY <3>2, <3>4
<1>11. CASE ~top.sref /\ complete(i, popped)
  BY <1>1, <1>4, <1>6, <1>11, CompleteStep, Zenon
<1>12. QED
  BY <1>3, <1>9, <1>10, <1>11, Zenon DEF chased

\* A result, or a list of references.
LEMMA OpenBelow ==
  ASSUME Inv, NEW i \in DOMAIN req, open(i)
  PROVE  below(stack) /\ req[i].status # "COMPLETED" /\ \A k \in DOMAIN stack : ~stack[k].sref => stack[k].lr # i
<1>1. PICK n \in Nat : n = Len(stack) /\ DOMAIN stack = 1 .. n
  BY LenProperties, Zenon DEF Inv, Types
<1>2. ASSUME NEW k \in DOMAIN stack PROVE stack[k].at = "bind"
  <2>1. stack # <<>>
    BY <1>2
  <2>2. stack[n].at = "bind"
    BY <1>1, <2>1, Zenon DEF open, waiting, top
  <2>3. k # n => stack[k].at = "bind"
    BY <1>1, <1>2, Zenon DEF Inv, StackInv, ChaseInv
  <2>4. QED
    BY <2>2, <2>3
<1>3. QED
  BY <1>2 DEF below, open

LEMMA ResultStep ==
  ASSUME Inv, NEW i \in DOMAIN req, readResult(i)
  PROVE  Inv' /\ (HeldInv => HeldInv')
<1>1. open(i) /\ complete(i, stack)
  BY DEF readResult
<1>2. QED
  BY <1>1, OpenBelow, CompleteStep, Zenon

LEMMA StutterStep ==
  ASSUME Inv, UNCHANGED <<req, outrefcnt, conn, refs, queue, stack, done>>
  PROVE  Inv' /\ (HeldInv => HeldInv')
<1>1. Types' /\ HopInv' /\ DoneIsLast' /\ CountCovers'
  BY Zenon DEF Inv, Types, HopInv, DoneIsLast, CountCovers, inProgress, binds
<1>2. StackInv'
  BY DEF Inv, StackInv, ChaseInv, ReferralInv, mayRefer
<1>3. HeldInv => HeldInv'
  <2>1. SUFFICES ASSUME HeldInv PROVE HeldInv'
    OBVIOUS
  <2>2. ReqHeld' /\ StackHeld'
    BY <2>1, Zenon DEF HeldInv, ReqHeld, StackHeld
  <2>3. RefsCover' /\ BindsHeld'
    BY <2>1 DEF HeldInv, RefsCover, BindsHeld, using, inProgress, binds, goal
  <2>4. QED
    BY <2>1, <2>2, <2>3, Zenon DEF HeldInv
<1>4. QED
  BY <1>1, <1>2, <1>3, QueueKept, Zenon DEF Inv

LEMMA RefsStep ==
  ASSUME Inv, NEW i \in DOMAIN req, NEW sref \in BOOLEAN, NEW l \in RefLists, readRefs(i, sref, l)
  PROVE  Inv' /\ (HeldInv => HeldInv')
<1>1. open(i)
  BY Zenon DEF readRefs
<1>2. CASE req[i].parentcnt < HopLimit
  <2>1. stack' = Append(stack, Chase(i, i, sref, l, 0)) /\ UNCHANGED <<req, outrefcnt, conn, refs, queue, done>>
    BY <1>2, Zenon DEF readRefs, conns
  <2>2. QED
    BY <1>1, <1>2, <2>1, PushStep, Zenon
<1>3. CASE ~(req[i].parentcnt < HopLimit) /\ sref
  <2>1. UNCHANGED <<req, outrefcnt, conn, refs, queue, stack, done>>
    BY <1>3, Zenon DEF readRefs, conns
  <2>2. QED
    BY <2>1, StutterStep, Zenon
<1>4. CASE ~(req[i].parentcnt < HopLimit) /\ ~sref
  <2>1. complete(i, stack)
    BY <1>4, Zenon DEF readRefs
  <2>2. QED
    BY <1>1, <2>1, OpenBelow, CompleteStep, Zenon
<1>5. QED
  BY <1>2, <1>3, <1>4, Zenon

\* The chase that waits for the bind that has been answered.
LEMMA TopBound ==
  ASSUME Inv, stack # <<>>, top.at = "bind"
  PROVE  Len(stack) \in binds /\ url.server = goal(Len(stack))
<1>1. Len(stack) \in DOMAIN stack
  BY EmptySeq, LenProperties DEF Inv, Types
<1>2. QED
  BY <1>1, Zenon DEF binds, goal, top, url

\* Any step of the library.
LEMMA LibraryStep ==
  ASSUME Inv, Library
  PROVE  Inv' /\ (HeldInv => HeldInv')
<1>1. CASE tryBad
  <2>1. stack # <<>> /\ top.at = "try" /\ end(-1) /\ UNCHANGED <<req, outrefcnt, conn, refs, queue, done>>
    BY <1>1, Zenon DEF tryBad, trying, conns
  <2>2. QED
    BY <2>1, QueueKept, EndStep, HeldTop
<1>2. CASE tryNone
  <2>1. stack # <<>> /\ top.at = "try" /\ end(-1) /\ UNCHANGED <<req, outrefcnt, conn, refs, queue, done>>
    BY <1>2 DEF tryNone, conns
  <2>2. QED
    BY <2>1, QueueKept, EndStep, HeldTop
<1>3. CASE tryLoop \/ tryOpenFails
  <2>1. /\ stack # <<>> /\ top.at = "try" /\ top.list # <<>> /\ skip
        /\ UNCHANGED <<req, outrefcnt, conn, refs, queue, done>>
    BY <1>3 DEF tryLoop, tryOpenFails, trying, conns
  <2>2. setTop([top EXCEPT !.list = Tail(top.list), !.at = "try"])
    BY <2>1, SkipsTry, Zenon
  <2>3. queue' \in [Server -> Seq(Waiters)] /\ QueueInv'
    BY <2>1, QueueKept, Zenon
  <2>4. outrefcnt' = (IF top.at = "bind" THEN outrefcnt - 1 ELSE outrefcnt) /\ UNCHANGED <<req, done>>
    BY <2>1
  <2>5. QED
    BY <2>1, <2>2, <2>3, <2>4, SkipStep, HeldTop, Zenon
<1>4. CASE tryQueue
  <2>1. UNCHANGED <<req, conn, refs>>
    BY <1>4, Zenon DEF tryQueue
  <2>2. QED
    BY <1>4, <2>1, QueueStep, HeldTop, Zenon
<1>5. CASE trySend
  <2>1. /\ stack # <<>> /\ top.at = "try" /\ top.list # <<>> /\ url # BadUrl /\ send(url.server)
        /\ outrefcnt' = outrefcnt + 1 /\ UNCHANGED done
    BY <1>5, Zenon DEF trySend, trying
  <2>2. Inv' /\ topMoves /\ sent(url.server)
    BY <2>1, SendStep, Zenon
  <2>3. conn[url.server] = "up" /\ UNCHANGED conn
    BY <1>5 DEF trySend
  <2>4. PICK s : s = url.server
    OBVIOUS
  <2>5. sent(s) /\ conn[s] = "up" /\ UNCHANGED conn
    BY <2>2, <2>3, <2>4, Zenon
  <2>6. QED
    BY <2>2, <2>5, HeldSend, Zenon DEF Inv
<1>6. CASE tryOpen
  BY <1>6, OpenStep, Zenon
<1>7. CASE bindOk
  <2>1. stack # <<>> /\ top.at = "bind" /\ send(url.server) /\ UNCHANGED <<outrefcnt, done>>
    BY <1>7 DEF bindOk, binding
  <2>2. top.list # <<>> /\ url # BadUrl
    BY <2>1, BindFacts
  <2>3. Inv' /\ topMoves /\ sent(url.server)
    BY <2>1, <2>2, SendStep, Zenon
  <2>4. Len(stack) \in binds /\ url.server = goal(Len(stack))
    BY <2>1, TopBound, Zenon
  <2>5. conn' = [conn EXCEPT ![url.server] = "up"]
    BY <1>7 DEF bindOk
  <2>6. PICK s : s = url.server
    OBVIOUS
  <2>7. sent(s) /\ s = goal(Len(stack)) /\ conn' = [conn EXCEPT ![s] = "up"]
    BY <2>3, <2>4, <2>5, <2>6, Zenon
  <2>8. QED
    BY <2>3, <2>4, <2>7, HeldSend, Zenon DEF Inv
<1>8. CASE bindFails
  <2>1. /\ stack # <<>> /\ top.at = "bind" /\ outrefcnt' = outrefcnt - 1 /\ UNCHANGED <<req, done>>
        /\ setTop([top EXCEPT !.list = Tail(top.list), !.at = "try"])
        /\ queue' = [queue EXCEPT ![url.server] = <<>>]
    BY <1>8 DEF bindFails, binding
  <2>2. top.list # <<>>
    BY <2>1, BindFacts
  <2>3. queue' \in [Server -> Seq(Waiters)] /\ \A s \in Server : queue'[s] = queue[s] \/ queue'[s] = <<>>
    BY <2>1, EmptySeq, Zenon DEF Inv, Types
  <2>4. QueueInv'
    BY <2>1, <2>3 DEF Inv, QueueInv, mayRefer
  <2>5. Inv' /\ topMoves
    BY <2>1, <2>2, <2>3, <2>4, SkipStep, Zenon
  <2>6. Len(stack) \in binds /\ url.server = goal(Len(stack))
    BY <2>1, TopBound
  <2>7. conn' = [conn EXCEPT ![goal(Len(stack))] = "none"] /\ UNCHANGED <<req, refs>>
    BY <1>8, <2>6, Zenon DEF bindFails
  <2>8. QED
    BY <2>5, <2>6, <2>7, HeldFails, Zenon DEF Inv
<1>9. CASE chased
  BY <1>9, ChasedStep
<1>10. QED
  BY <1>1, <1>2, <1>3, <1>4, <1>5, <1>6, <1>7, <1>8, <1>9, Zenon DEF Library

LEMMA InitInv ==
  ASSUME Init
  PROVE  Inv
<1>1. PICK dn \in Dn : req = <<Request(Home, dn, 0, 0)>>
  BY DEF Init
<1>2. PICK r : r = Request(Home, dn, 0, 0)
  BY Zenon
<1>3. r \in Requests /\ r.hops = 0 /\ r.parentcnt = 0
  BY <1>2, RefsAssumption, Zenon DEF Request, Requests
<1>4. req \in Seq(Requests) /\ Len(req) = 1 /\ DOMAIN req = {1} /\ req[1] = r
  BY <1>1, <1>2, <1>3
<1>5. stack = <<>> /\ DOMAIN stack = {} /\ stack \in Seq(Chases) /\ outrefcnt = 0 /\ done = FALSE
  BY DEF Init
<1>6. queue \in [Server -> Seq(Waiters)] /\ \A s \in Server : DOMAIN queue[s] = {}
  BY DEF Init
<1>7. Types /\ StackInv /\ QueueInv /\ DoneIsLast
  <2>1. Len(req) >= 1 /\ outrefcnt \in Int
    BY <1>4, <1>5
  <2>2. Types
    BY <1>4, <1>5, <1>6, <2>1, Zenon DEF Types
  <2>3. StackInv /\ QueueInv /\ DoneIsLast
    BY <1>5, <1>6, Zenon DEF StackInv, QueueInv, DoneIsLast
  <2>4. QED
    BY <2>2, <2>3
<1>8. HopInv
  BY <1>3, <1>4, RefsAssumption DEF HopInv
<1>9. inProgress \ {1} = {} /\ binds = {}
  BY <1>4, <1>5, Zenon DEF inProgress, binds
<1>10. CountCovers
  BY <1>5, <1>9, FS_EmptySet DEF CountCovers
<1>11. QED
  BY <1>7, <1>8, <1>10, Zenon DEF Inv

LEMMA InitHeld ==
  ASSUME Init
  PROVE  HeldInv
<1>1. PICK dn \in Dn : req = <<Request(Home, dn, 0, 0)>>
  BY DEF Init
<1>2. PICK r : r = Request(Home, dn, 0, 0)
  OBVIOUS
<1>3. r.conn = Home /\ r.status = "INPROGRESS"
  BY <1>2 DEF Request
<1>4. DOMAIN req = {1} /\ req[1] = r
  BY <1>1, <1>2
<1>5. stack = <<>> /\ DOMAIN stack = {}
  BY DEF Init
<1>6. /\ conn \in [Server -> {"none", "binding", "up"}] /\ refs \in [Server -> Int]
      /\ Home \in Server /\ Gone # Home /\ conn[Home] = "up" /\ refs[Home] = 1
      /\ \A s \in Server : s # Home => refs[s] = 0
  BY RefsAssumption DEF Init
<1>7. ReqHeld /\ StackHeld /\ BindsHeld
  BY <1>3, <1>4, <1>5, <1>6, Zenon DEF ReqHeld, StackHeld, BindsHeld, binds
<1>8. \A s \in Server : using(s) = IF s = Home THEN {1} ELSE {}
  BY <1>3, <1>4, Zenon DEF using, inProgress
<1>9. Cardinality({1}) = 1 /\ Cardinality({}) = 0
  BY FS_Singleton, FS_EmptySet, Zenon
<1>10. RefsCover
  BY <1>6, <1>8, <1>9 DEF RefsCover
<1>11. QED
  BY <1>6, <1>7, <1>10, Zenon DEF HeldInv

LEMMA InvInductive == Inv /\ [Next]_vars => Inv' /\ (HeldInv => HeldInv')
<1> SUFFICES ASSUME Inv, [Next]_vars PROVE Inv' /\ (HeldInv => HeldInv')
  OBVIOUS
<1>1. CASE \E i \in DOMAIN req : readResult(i)
  BY <1>1, ResultStep, Zenon
<1>2. CASE \E i \in DOMAIN req, sref \in BOOLEAN, l \in RefLists : readRefs(i, sref, l)
  BY <1>2, RefsStep
<1>3. CASE \E s \in Server, answer \in {"ok", "refused"} : readBind(s, answer)
  <2>1. UNCHANGED <<req, outrefcnt, conn, refs, queue, stack, done>>
    BY <1>3 DEF readBind
  <2>2. QED
    BY <2>1, StutterStep, Zenon
<1>4. CASE Library
  BY <1>4, LibraryStep, Zenon
<1>5. CASE UNCHANGED vars
  <2>1. UNCHANGED <<req, outrefcnt, conn, refs, queue, stack, done>>
    BY <1>5 DEF vars, conns
  <2>2. QED
    BY <2>1, StutterStep
<1>6. QED
  BY <1>1, <1>2, <1>3, <1>4, <1>5 DEF Next

-------------------------------------------------------------------------------
(* The theorems. *)

\* lr_outrefcnt never falls short of the children in progress and of those that
\* will be sent when their connection is bound.
THEOREM ChildrenCounted == Spec => []CountCovers
<1>1. Inv => CountCovers
  BY Zenon DEF Inv
<1>2. QED
  BY <1>1, InitInv, InvInductive, PTL DEF Spec

\* try_read1msg answers the search only when all of its children have been
\* answered and no chase is under way, because lr_outrefcnt covers them.
THEOREM AnsweredLast == Spec => []DoneIsLast
<1>1. Inv => DoneIsLast
  BY Zenon DEF Inv
<1>2. QED
  BY <1>1, InitInv, InvInductive, PTL DEF Spec

\* ldap_chase_v3referrals follows no reference more than ld_refhoplimit
\* references away from the search.
THEOREM NestingLimited == Spec => []NestingBounded
<1>1. Inv => NestingBounded
  BY DEF Inv, HopInv, NestingBounded
<1>2. QED
  BY <1>1, InitInv, InvInductive, PTL DEF Spec

\* lconn_refcnt and the references of the calls under way keep a connection as
\* long as a request or a chase uses it, and no request is sent on one whose
\* bind has not been answered.
THEOREM ConnectionsKept == Spec => []ConnectionsHeld
<1>1. Inv /\ HeldInv => ConnectionsHeld
  <2>1. SUFFICES ASSUME Inv, HeldInv PROVE ConnectionsHeld
    OBVIOUS
  <2>2. \A i \in inProgress : conn[req[i].conn] = "up"
    BY <2>1, Zenon DEF HeldInv, ReqHeld, inProgress
  <2>3. \A k \in DOMAIN stack : req[stack[k].lr].conn # Gone
    BY <2>1 DEF HeldInv, StackHeld
  <2>4. \A k \in binds : conn[stack[k].list[1].server] = "binding"
    BY <2>1, Zenon DEF HeldInv, BindsHeld, goal
  <2>5. QED
    BY <2>2, <2>3, <2>4, Zenon DEF ConnectionsHeld
<1>2. QED
  BY <1>1, InitInv, InitHeld, InvInductive, PTL DEF Spec
===============================================================================
