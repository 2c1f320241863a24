------------------------------- MODULE IosCareful --------------------------------
(***************************************************************************)
(* The careful application of CarefulNext: that the answers it waits for   *)
(* are heard and that it is bound when the server says so, for any number  *)
(* of requests, handles, message IDs and items.                            *)
(*                                                                         *)
(* CareInv is the invariant: which operations its requests have sent and   *)
(* what has been marked as abandoned, what is waited for, and how the      *)
(* session looks from the server's end while a bind is under way and after *)
(* it.  One lemma for each step shows that it is kept, under the invariant *)
(* of IosLdapSteps.                                                        *)
(***************************************************************************)
EXTENDS IosLdapSteps

-------------------------------------------------------------------------------
(* The careful application: its answers are heard. *)

\* Only IDs that were given out are marked as abandoned.
Marked == \A h \in Handle : \A i \in abandoned[h] : i <= msgid[h]

\* What r has sent, and that nothing is forgotten while r is waited for.
SentOf(r) ==
  /\ op[r] # Null => op[r].id <= msgid[op[r].h]
  /\ messageId[r] # 0 => op[r] \in Ops /\ op[r].id = messageId[r]
  /\ calls[r] = <<>> /\ op[r] # Null => wait # Null /\ wait.req = r
  /\ calls[r] = <<>> /\ messageId[r] # 0 => wait # Null /\ wait.req = r /\ wait.how = "async"

\* No two requests have sent the same operation.
Distinct == \A r, q \in Req : op[r] # Null /\ op[r] = op[q] => r = q

\* What is waited for is outstanding and its connection has not been given up.
Heard == listening => wait.id \in requests[ld] \ abandoned[ld] /\ conn[ld] = "up"

\* A step gives out IDs and marks only what has been given out.
IdsKept ==
  \A g \in Handle : /\ msgid[g] <= msgid'[g]
                    /\ \A i \in abandoned'[g] : i \in abandoned[g] \/ i <= msgid'[g]

LEMMA NewId ==
  ASSUME NEW m \in Nat, NEW i, i = m + 1
  PROVE  i \in Nat /\ i > m /\ i >= m
OBVIOUS

LEMMA SameId ==
  ASSUME NEW m \in Nat
  PROVE  m >= m /\ m <= m
OBVIOUS

LEMMA OnlyId ==
  ASSUME NEW m \in Nat, NEW i \in Nat, m <= i, m >= i
  PROVE  m = i
OBVIOUS

LEMMA IdsAt ==
  ASSUME LibInv, LibInv', NEW h \in Handle, NEW m, msgid' = [msgid EXCEPT ![h] = m], m >= msgid[h],
         NEW a, abandoned' = [abandoned EXCEPT ![h] = a],
         \A i \in a : i \in abandoned[h] \/ i <= m
  PROVE  IdsKept
<1>1. /\ msgid \in [Handle -> 0 .. MaxId] /\ abandoned \in [Handle -> SUBSET Id] /\ MaxId \in Nat
  BY LibFacts
<1>2. \A g \in Handle : msgid[g] \in Nat
  BY <1>1
<1>3. QED
  BY <1>1, <1>2 DEF IdsKept

LEMMA IdsSame ==
  ASSUME LibInv, UNCHANGED <<msgid, abandoned>>
  PROVE  IdsKept
<1>1. msgid \in [Handle -> 0 .. MaxId] /\ MaxId \in Nat
  BY LibFacts
<1>2. QED
  BY <1>1 DEF IdsKept

LEMMA MarkedKept ==
  ASSUME LibInv, LibInv', Marked, IdsKept
  PROVE  Marked'
<1>1. /\ msgid \in [Handle -> 0 .. MaxId] /\ MaxId \in Nat /\ msgid' \in [Handle -> 0 .. MaxId]
      /\ abandoned \in [Handle -> SUBSET Id] /\ abandoned' \in [Handle -> SUBSET Id]
  BY LibFacts, Zenon DEF LibInv, LibTypeOK
<1>2. SUFFICES ASSUME NEW h \in Handle, NEW i \in abandoned'[h] PROVE i <= msgid'[h]
  BY DEF Marked
<1>3. msgid[h] \in Nat /\ msgid'[h] \in Nat /\ i \in Nat
  BY <1>1 DEF Id
<1>4. msgid[h] <= msgid'[h] /\ (i \in abandoned[h] \/ i <= msgid'[h])
  BY DEF IdsKept
<1>5. i \in abandoned[h] => i <= msgid[h]
  BY DEF Marked
<1>6. QED
  BY <1>3, <1>4, <1>5

\* A request that was waited for still is, or has been answered.
Followed(r) ==
  calls'[r] = <<>> =>
    /\ calls[r] = <<>>
    /\ wait # Null /\ wait.req = r =>
         wait' # Null /\ wait'.req = r /\ (wait.how = "async" => wait'.how = "async")

OpsInv == (\A r \in Req : SentOf(r)) /\ Distinct

LEMMA OpsOf ==
  ASSUME IosInv, NEW r \in Req
  PROVE  /\ op[r] \in Ops \cup {Null} /\ messageId[r] \in 0 .. MaxId
         /\ op[r] # Null => op[r].h \in Handle /\ op[r].id \in Nat /\ msgid[op[r].h] \in Nat
<1>1. op \in [Req -> Ops \cup {Null}] /\ messageId \in [Req -> 0 .. MaxId]
  BY DEF IosInv, ProxyInv, ProxyTypes
<1>2. msgid \in [Handle -> 0 .. MaxId] /\ MaxId \in Nat
  BY LibFacts DEF IosInv
<1>3. QED
  BY <1>1, <1>2 DEF Ops, Id

LEMMA SameOps ==
  ASSUME IosInv, IosInv', OpsInv, IdsKept, UNCHANGED <<op, messageId>>, \A r \in Req : Followed(r)
  PROVE  OpsInv'
<1>1. ASSUME NEW r \in Req PROVE SentOf(r)'
  <2>1. op'[r] # Null => op'[r].id <= msgid'[op'[r].h]
    <3>1. SUFFICES ASSUME op[r] # Null PROVE op[r].id <= msgid'[op[r].h]
      BY Zenon
    <3>2. PICK h : h = op[r].h
      BY Zenon
    <3>3. h \in Handle /\ op[r].id \in Nat /\ msgid[h] \in Nat /\ op[r].id <= msgid[h]
      BY <3>1, <3>2, OpsOf, Zenon DEF OpsInv, SentOf
    <3>4. msgid'[h] \in Nat /\ msgid[h] <= msgid'[h]
      BY <3>3, LibAssumption DEF IdsKept, IosInv, LibInv, LibTypeOK
    <3>5. QED
      BY <3>2, <3>3, <3>4
  <2>2. QED
    BY <2>1, Zenon DEF OpsInv, SentOf, Followed
<1>2. Distinct'
  BY Zenon DEF OpsInv, Distinct
<1>3. QED
  BY <1>1, <1>2, Zenon DEF OpsInv

LEMMA ListenOps ==
  ASSUME IosInv, OpsInv, IdsKept, ld \in Handle, NEW r \in Req, calls[r] = <<>>, NEW how \in Calls, NEW limit \in BOOLEAN,
         wait = Null \/ (wait.req = r /\ wait.how # "async" /\ how # "async"),
         listen(r, how, limit), msgid'[ld] = msgid[ld] + 1, IosInv'
  PROVE  OpsInv'
<1> DEFINE id == msgid[ld] + 1
<1>1. /\ wait' = [req |-> r, how |-> how, id |-> id, timed |-> limit]
      /\ op' = [op EXCEPT ![r] = [h |-> ld, id |-> id]]
      /\ messageId' = [messageId EXCEPT ![r] = IF how = "async" THEN id ELSE @]
      /\ UNCHANGED calls
  BY Zenon DEF listen
<1>2. op \in [Req -> Ops \cup {Null}] /\ messageId \in [Req -> 0 .. MaxId]
  BY DEF IosInv, ProxyInv, ProxyTypes
<1>3. msgid[ld] \in Nat /\ id \in Nat
  BY LibFacts DEF IosInv
<1>4. messageId[r] = 0
  BY DEF OpsInv, SentOf
<1>5. wait' # Null /\ wait'.req = r /\ wait'.how = how
  <2>1. wait' \in Waits /\ wait'.req = r /\ wait'.how = how
    BY <1>1, <1>3, Zenon DEF Waits
  <2>2. QED
    BY <2>1, NullAssumption, Zenon
<1>6. ASSUME NEW q \in Req \ {r} PROVE /\ SentOf(q)'
                                       /\ op[q] # Null => op[q] # op'[r]
  <2>1. op'[q] = op[q] /\ messageId'[q] = messageId[q] /\ calls'[q] = calls[q] /\ q # r
    BY <1>1, <1>2, Zenon
  <2>2. calls[q] = <<>> => op[q] = Null /\ messageId[q] = 0
    BY Zenon DEF OpsInv, SentOf
  <2>3. ASSUME op[q] # Null PROVE op[q].id <= msgid'[op[q].h] /\ op[q] # op'[r]
    <3>1. PICK h : h = op[q].h
      BY Zenon
    <3>2. h \in Handle /\ op[q].id \in Nat /\ msgid[h] \in Nat /\ op[q].id <= msgid[h]
      BY <2>3, <3>1, OpsOf, Zenon DEF OpsInv, SentOf
    <3>3. msgid'[h] \in Nat /\ msgid[h] <= msgid'[h]
      BY <3>2, LibAssumption DEF IdsKept, IosInv, LibInv, LibTypeOK
    <3>4. op'[r] = [h |-> ld, id |-> id]
      BY <1>1, <1>2, Zenon
    <3>5. op[q] # op'[r]
      BY <1>3, <3>1, <3>2, <3>4
    <3>6. QED
      BY <3>1, <3>2, <3>3, <3>5
  <2>4. QED
    BY <2>1, <2>2, <2>3, Zenon DEF OpsInv, SentOf
<1>7. SentOf(r)'
  <2>1. op'[r] = [h |-> ld, id |-> id] /\ messageId'[r] = IF how = "async" THEN id ELSE 0
    BY <1>1, <1>2, <1>4, Zenon
  <2>2. op'[r].h = ld /\ op'[r].id = id /\ op'[r] \in Ops
    <3>1. id \in Id
      BY <1>3, LibAssumption DEF IosInv, LibInv, LibTypeOK, Id
    <3>2. QED
      BY <2>1, <3>1 DEF Ops
  <2>3. QED
    BY <1>3, <1>5, <2>1, <2>2 DEF SentOf
<1>8. Distinct'
  BY <1>1, <1>2, <1>6, Zenon DEF OpsInv, Distinct
<1>9. QED
  BY <1>6, <1>7, <1>8, Zenon DEF OpsInv

-------------------------------------------------------------------------------
(* The careful application: it is bound when the server says so. *)

\* The other end of a session: no bind is under way, and it is authenticated.
NetSession(n) == (\A w \in n.working : w.kind # "bind") /\ (n.alive => n.auth)

\* The other end while bind i is waited for: its answer is the last word.
BindFlow(n, i) ==
  /\ \A w \in n.working : w.id = i => w.kind = "bind"
  /\ \A k \in DOMAIN n.stream : n.stream[k].id = i =>
       /\ \A w \in n.working : w.kind # "bind"
       /\ n.alive => (n.auth <=> n.stream[k].body = "success")

\* The server gets nothing new to do and the session stays what it is.
Calmer(n, n2) ==
  n2.working \subseteq n.working /\ (n2.alive => n.alive /\ n2.auth = n.auth)

LEMMA SessionCalmer ==
  ASSUME NEW n, NEW n2, NetSession(n), Calmer(n, n2) PROVE NetSession(n2)
BY DEF NetSession, Calmer

LEMMA FlowCalmer ==
  ASSUME NEW n, NEW n2, NEW i, BindFlow(n, i), Calmer(n, n2),
         \A k \in DOMAIN n2.stream : n2.stream[k].id = i =>
           \E j \in DOMAIN n.stream : n.stream[j] = n2.stream[k]
  PROVE  BindFlow(n2, i)
BY DEF BindFlow, Calmer

LEMMA FlowRead ==
  ASSUME NEW n \in NetType, NEW n2 \in NetType, NEW i, n.stream # <<>>, n2.stream = Tail(n.stream),
         Calmer(n, n2), BindFlow(n, i)
  PROVE  BindFlow(n2, i)
<1>1. n.stream \in Seq(Message) /\ DOMAIN n.stream = 1 .. Len(n.stream) /\ DOMAIN n2.stream = 1 .. Len(n2.stream)
  BY NetFacts, Zenon
<1>2. /\ Len(n2.stream) = Len(n.stream) - 1 /\ Len(n.stream) \in Nat \ {0}
      /\ \A k \in 1 .. Len(n2.stream) : n2.stream[k] = n.stream[k + 1]
  BY <1>1, TailFacts, Zenon
<1>3. \A k \in DOMAIN n2.stream : k + 1 \in DOMAIN n.stream /\ n.stream[k + 1] = n2.stream[k]
  BY <1>1, <1>2
<1>4. QED
  BY <1>3, FlowCalmer, Zenon

\* A request that has nothing to do with it is answered, or i itself is.
LEMMA FlowAnswer ==
  ASSUME NEW n \in NetType, NEW n2 \in NetType, NEW i, BindFlow(n, i), NEW x \in Message,
         n2.stream = Append(n.stream, x), n2.working \subseteq n.working,
         \/ x.id # i /\ Calmer(n, n2)
         \/ x.id # i /\ \E w \in n.working : w.kind = "bind"
         \/ /\ x.id = i /\ \E w \in n.working : w.kind = "bind"
            /\ \A w \in n2.working : w.kind # "bind"
            /\ n2.auth <=> x.body = "success"
  PROVE  BindFlow(n2, i)
<1>1. n.stream \in Seq(Message) /\ DOMAIN n.stream = 1 .. Len(n.stream) /\ DOMAIN n2.stream = 1 .. Len(n2.stream)
  BY NetFacts, Zenon
<1>2. /\ Len(n2.stream) = Len(n.stream) + 1 /\ Len(n.stream) \in Nat
      /\ \A k \in 1 .. Len(n.stream) : n2.stream[k] = n.stream[k]
      /\ n2.stream[Len(n.stream) + 1] = x
  BY <1>1, AppendFacts, SeqFacts
<1>3. ASSUME NEW k \in DOMAIN n2.stream
      PROVE  n2.stream[k] = x \/ (k \in DOMAIN n.stream /\ n2.stream[k] = n.stream[k])
  <2>1. k = Len(n.stream) + 1 \/ k \in 1 .. Len(n.stream)
    BY <1>1, <1>2
  <2>2. QED
    BY <1>1, <1>2, <2>1, Zenon
<1>4. CASE x.id # i /\ Calmer(n, n2)
  <2>1. \A k \in DOMAIN n2.stream : n2.stream[k].id = i =>
          \E j \in DOMAIN n.stream : n.stream[j] = n2.stream[k]
    BY <1>3, <1>4, Zenon
  <2>2. QED
    BY <1>4, <2>1, FlowCalmer, Zenon
<1>5. CASE \E w \in n.working : w.kind = "bind"
  <2>1. \A k \in DOMAIN n.stream : n.stream[k].id # i
    BY <1>5, Zenon DEF BindFlow
  <2>2. \A k \in DOMAIN n2.stream : n2.stream[k].id = i => n2.stream[k] = x /\ x.id = i
    BY <1>3, <2>1, Zenon
  <2>3. \A w \in n2.working : w.id = i => w.kind = "bind"
    BY DEF BindFlow
  <2>4. CASE x.id # i
    BY <2>2, <2>3, <2>4, Zenon DEF BindFlow
  <2>5. CASE /\ \A w \in n2.working : w.kind # "bind"
             /\ n2.auth <=> x.body = "success"
    BY <2>2, <2>3, <2>5, Zenon DEF BindFlow
  <2>6. QED
    BY <2>4, <2>5, Zenon
<1>6. QED
  BY <1>4, <1>5, Zenon

\* The link is lost.
LEMMA FlowCut ==
  ASSUME NEW n2 \in NetType, NEW i, n2.working = {}, ~n2.alive PROVE BindFlow(n2, i) /\ NetSession(n2)
BY DEF BindFlow, NetSession

\* Bind i is sent.
LEMMA FlowSent ==
  ASSUME NEW n \in NetType, NEW n2 \in NetType, NEW i, \A k \in DOMAIN n.stream : n.stream[k].id # i,
         \A w \in n.working : w.id # i, n2.stream = n.stream,
         n2.working = n.working \/ n2.working = n.working \cup {[id |-> i, kind |-> "bind"]}
  PROVE  BindFlow(n2, i)
BY DEF BindFlow

\* r has been told that it timed out, and so may be abandoned.
timedOutReq(r) == calls[r] # <<>> /\ calls[r][1].code = "timeout"

\* No request that may be abandoned has sent operation i of h.
Untouched(h, i) == \A r \in Req : op[r] = [h |-> h, id |-> i] => ~timedOutReq(r)

\* The session of a connection that is bound.  A link that is lost leaves the
\* request that noticed it, which is never abandoned.
Session ==
  /\ conn[ld] # "none" /\ NetSession(net[ld])
  /\ conn[ld] = "broken" => \E i \in requests[ld] : Untouched(ld, i)

Searching == wait # Null => wait.how \in {"sync", "async"}

Binding == wait # Null /\ wait.how \in {"simple", "sasl"} => BindFlow(net[ld], wait.id)

BoundInv == (ld = Null => ~bound) /\ (bound => Session /\ Searching) /\ Binding

CareInv == Marked /\ OpsInv /\ Heard /\ BoundInv

\* A connection that a request uses is not closed.
LEMMA FreeKeeps ==
  ASSUME LibInv, LastRef, NEW h \in Handle, NEW status, NEW n, ldap_free_connection(h, status, n),
         \/ conn[h] = "up" /\ requests[h] # {}
         \/ \E i, j \in requests[h] : i # j
  PROVE  conn'[h] = status /\ net'[h] = n /\ \A g \in Handle \ {h} : conn'[g] = conn[g] /\ net'[g] = net[g]
<1>1. ~(refs[h] <= 1)
  BY DEF LastRef
<1>2. conn' = [conn EXCEPT ![h] = status] /\ net' = [net EXCEPT ![h] = n]
  BY <1>1, Zenon DEF ldap_free_connection
<1>3. QED
  BY <1>2, LibFacts, Zenon DEF OtherTypes

\* Reading a response.
LEMMA SettleKeeps ==
  ASSUME LibInv, LastRef, NEW h \in Handle, expected(h), settle(h, nextMsg(h).body)
  PROVE  /\ conn'[h] = "up" /\ net'[h] = afterRead(h)
         /\ \A i \in requests[h] : i # nextMsg(h).id => i \in requests'[h]
         /\ ~IsFinal(nextMsg(h).body) => requests'[h] = requests[h]
<1>1. readable(h) /\ conn[h] = "up" /\ nextMsg(h).id \in requests[h]
  BY DEF expected, readable
<1>2. CASE IsFinal(nextMsg(h).body)
  <2>1. /\ ldap_free_connection(h, "up", afterRead(h))
        /\ requests' = [requests EXCEPT ![h] = @ \ {nextMsg(h).id}]
    BY <1>2, Zenon DEF settle
  <2>2. conn'[h] = "up" /\ net'[h] = afterRead(h)
    BY <1>1, <2>1, FreeKeeps, Zenon
  <2>3. requests'[h] = requests[h] \ {nextMsg(h).id}
    BY <2>1, LibFacts, Zenon
  <2>4. QED
    BY <1>2, <2>2, <2>3, Zenon
<1>3. CASE ~IsFinal(nextMsg(h).body)
  <2>1. net' = [net EXCEPT ![h] = afterRead(h)] /\ UNCHANGED <<requests, conn, refs>>
    BY <1>3, Zenon DEF settle
  <2>2. QED
    BY <1>1, <1>3, <2>1, LibFacts, Zenon
<1>4. QED
  BY <1>2, <1>3, Zenon

LEMMA ReadCalmer ==
  ASSUME LibInv, NEW h \in Handle, readable(h)
  PROVE  Calmer(net[h], afterRead(h)) /\ \A i : BindFlow(net[h], i) => BindFlow(afterRead(h), i)
<1>1. /\ net[h] \in NetType /\ net[h].stream # <<>>
      /\ afterRead(h) \in NetType /\ afterRead(h).stream = Tail(net[h].stream)
      /\ afterRead(h).working = net[h].working
  BY ReadFacts, Zenon
<1>2. afterRead(h).alive = net[h].alive /\ afterRead(h).auth = net[h].auth
  BY <1>1, Zenon DEF afterRead, NetType
<1>3. Calmer(net[h], afterRead(h))
  BY <1>1, <1>2, Zenon DEF Calmer
<1>4. QED
  BY <1>1, <1>3, FlowRead, Zenon

\* A request is abandoned.
LEMMA AbandonKeeps ==
  ASSUME LibInv, LastRef, NEW h \in Handle, NEW i, do_abandon(h, i), conn[h] # "none",
         conn[h] = "broken" => \E j \in requests[h] : j # i
  PROVE  /\ conn'[h] = conn[h] /\ Calmer(net[h], net'[h])
         /\ \A j \in requests[h] : j # i => j \in requests'[h]
<1>1. CASE queuedWhole(h, i)
  BY <1>1, Zenon DEF do_abandon, Calmer
<1>2. CASE ~queuedWhole(h, i)
  <2> DEFINE n == [net[h] EXCEPT !.working = {w \in @ : w.id # i}]
  <2>1. /\ requests' = [requests EXCEPT ![h] = @ \ {i}]
        /\ IF i \in requests[h] THEN ldap_free_connection(h, conn[h], n)
           ELSE net' = [net EXCEPT ![h] = n] /\ UNCHANGED <<conn, refs>>
    BY <1>2, Zenon DEF do_abandon
  <2>2. Calmer(net[h], n)
    <3>1. net[h] \in NetType
      BY LibFacts
    <3>2. n.working \subseteq net[h].working /\ n.alive = net[h].alive /\ n.auth = net[h].auth
      BY <3>1, Zenon DEF NetType
    <3>3. QED
      BY <3>2, Zenon DEF Calmer
  <2> HIDE DEF n
  <2>3. requests'[h] = requests[h] \ {i}
    BY <2>1, LibFacts, Zenon
  <2>4. conn'[h] = conn[h] /\ net'[h] = n
    <3>1. CASE i \in requests[h]
      <4>1. conn[h] \in {"none", "up", "broken"}
        BY LibFacts, Zenon DEF OtherTypes
      <4>2. (conn[h] = "up" /\ requests[h] # {}) \/ \E k, j \in requests[h] : k # j
        BY <3>1, <4>1, Zenon
      <4>3. QED
        BY <2>1, <3>1, <4>2, FreeKeeps, Zenon
    <3>2. CASE i \notin requests[h]
      BY <2>1, <3>2, LibFacts, Zenon
    <3>3. QED
      BY <3>1, <3>2, Zenon
  <2>5. QED
    BY <2>2, <2>3, <2>4, Zenon
<1>3. QED
  BY <1>1, <1>2, Zenon

-------------------------------------------------------------------------------
(* What the steps of the careful application have in common. *)

\* The callback that ends a request.
LEMMA Fired ==
  ASSUME IosInv, NEW r \in Req, calls[r] = <<>>, NEW c \in Callback, fire(r, <<c>>) \/ fire(r, <<c, c>>)
  PROVE  /\ calls'[r] # <<>> /\ \A q \in Req \ {r} : calls'[q] = calls[q]
         /\ c.code # "timeout" => ~timedOutReq(r)'
<1>1. calls \in [Req -> Seq(Callback)]
  BY DEF IosInv, ProxyInv, ProxyTypes
<1>2. /\ calls' \in [Req -> Seq(Callback)] /\ calls'[r] # <<>>
      /\ \A i \in DOMAIN calls'[r] : calls'[r][i] = c
      /\ \A q \in Req \ {r} : calls'[q] = calls[q]
  BY <1>1, FireFacts, Zenon
<1>3. 1 \in DOMAIN calls'[r]
  <2>1. calls'[r] \in Seq(Callback)
    BY <1>2, Zenon
  <2>2. Len(calls'[r]) \in Nat \ {0} /\ DOMAIN calls'[r] = 1 .. Len(calls'[r])
    BY <1>2, <2>1, SeqFacts, Zenon
  <2>3. QED
    BY <2>2
<1>4. calls'[r][1] = c
  BY <1>2, <1>3, Zenon
<1>5. QED
  BY <1>2, <1>4, Zenon DEF timedOutReq

LEMMA UntouchedKept ==
  ASSUME NEW h \in Handle, NEW i \in Id, Untouched(h, i), UNCHANGED op,
         \A q \in Req : calls'[q] = calls[q] \/ op[q] = Null
  PROVE  Untouched(h, i)'
<1>1. [h |-> h, id |-> i] \in Ops
  BY DEF Ops
<1>2. [h |-> h, id |-> i] # Null
  BY <1>1, NullAssumption, Zenon
<1>3. QED
  BY <1>2, Zenon DEF Untouched, timedOutReq

\* What a session needs of a step that leaves its requests alone.
SessionSpared ==
  conn'[ld] = conn[ld] /\ Calmer(net[ld], net'[ld]) /\ requests[ld] \subseteq requests'[ld]

LEMMA SessionStays ==
  ASSUME IosInv, ld \in Handle, Session, UNCHANGED <<ld, op>>, SessionSpared,
         \A q \in Req : calls'[q] = calls[q] \/ op[q] = Null
  PROVE  Session'
<1>1. NetSession(net'[ld])
  BY SessionCalmer, Zenon DEF Session, SessionSpared
<1>2. ASSUME conn[ld] = "broken" PROVE \E i \in requests'[ld] : Untouched(ld, i)'
  <2>1. PICK i \in requests[ld] : Untouched(ld, i)
    BY <1>2, Zenon DEF Session
  <2>2. PICK h \in Handle : h = ld
    OBVIOUS
  <2>3. i \in Id /\ i \in requests'[ld]
    BY LibFacts, <2>2, Zenon DEF IosInv, SessionSpared
  <2>4. Untouched(h, i)'
    BY <2>1, <2>2, <2>3, UntouchedKept, Zenon
  <2>5. QED
    BY <2>2, <2>3, <2>4, Zenon DEF Untouched, timedOutReq
<1>3. QED
  BY <1>1, <1>2, Zenon DEF Session, SessionSpared

\* A request is answered at once.
LEMMA AnswerCare ==
  ASSUME IosInv, IosInv', CareInv, IdsKept, NEW r \in Req, start(r), NEW code \in Codes,
         answerNow(r, <<Told(code)>>) \/ answerNow(r, <<Told(code), Told(code)>>),
         ~bound \/ (UNCHANGED ld /\ SessionSpared)
  PROVE  CareInv'
<1>1. /\ wait = Null /\ calls[r] = <<>> /\ UNCHANGED <<bound, wait, messageId, op>>
      /\ fire(r, <<Told(code)>>) \/ fire(r, <<Told(code), Told(code)>>)
  BY Zenon DEF start, JsIdle, answerNow
<1>2. calls'[r] # <<>> /\ \A q \in Req \ {r} : calls'[q] = calls[q]
  BY <1>1, Fired, ToldFacts, Zenon
<1>3. op[r] = Null
  BY <1>1, Zenon DEF CareInv, OpsInv, SentOf
<1>4. Marked'
  BY MarkedKept, Zenon DEF CareInv, IosInv
<1>5. \A q \in Req : Followed(q)
  BY <1>1, <1>2, Zenon DEF Followed
<1>6. OpsInv'
  BY <1>1, <1>5, SameOps, Zenon DEF CareInv
<1>7. Heard' /\ Binding' /\ Searching'
  BY <1>1, Zenon DEF Heard, listening, Binding, Searching
<1>8. ASSUME bound PROVE ld' # Null /\ Session'
  <2>1. ld \in Handle /\ Session
    BY <1>8, Zenon DEF CareInv, BoundInv, IosInv, ProxyInv, ProxyTypes
  <2>2. Session'
    BY <1>1, <1>2, <1>3, <1>8, <2>1, SessionStays, Zenon
  <2>3. QED
    BY <1>8, <2>1, <2>2, LibAssumption, Zenon
<1>9. QED
  BY <1>1, <1>4, <1>6, <1>7, <1>8, Zenon DEF CareInv, BoundInv

\* The request that is waited for is answered.
LEMMA FinishCare ==
  ASSUME IosInv, IosInv', CareInv, IdsKept, wait # Null, NEW c \in Callback, finish(wait.req, <<c>>),
         bound' => Session'
  PROVE  CareInv'
<1>1. /\ wait.req \in Req /\ calls[wait.req] = <<>> /\ ld \in Handle
      /\ wait' = Null /\ UNCHANGED <<ld, messageId, op>> /\ fire(wait.req, <<c>>)
  BY WaitFacts, Zenon DEF finish
<1>2. calls'[wait.req] # <<>> /\ \A q \in Req \ {wait.req} : calls'[q] = calls[q]
  BY <1>1, Fired, Zenon
<1>3. Marked'
  BY MarkedKept, Zenon DEF CareInv, IosInv
<1>4. \A q \in Req : Followed(q)
  BY <1>1, <1>2, Zenon DEF Followed
<1>5. OpsInv'
  BY <1>1, <1>4, SameOps, Zenon DEF CareInv
<1>6. Heard' /\ Binding' /\ Searching' /\ ld' # Null
  BY <1>1, LibAssumption, Zenon DEF Heard, listening, Binding, Searching
<1>7. QED
  BY <1>3, <1>5, <1>6, Zenon DEF CareInv, BoundInv

\* A call goes on, or begins, without listening.
LEMMA QuietCare ==
  ASSUME IosInv, IosInv', CareInv, IdsKept, ~bound, UNCHANGED <<bound, messageId, op, calls>>,
         wait' # Null, wait'.how \in {"starttls", "options", "step"},
         wait = Null \/ (wait'.req = wait.req /\ wait.how # "async")
  PROVE  CareInv'
<1>1. Marked'
  BY MarkedKept, Zenon DEF CareInv, IosInv
<1>2. \A q \in Req : Followed(q)
  BY DEF Followed
<1>3. OpsInv'
  BY <1>2, SameOps, Zenon DEF CareInv
<1>4. Heard' /\ Binding'
  BY DEF Heard, listening, Binding
<1>5. QED
  BY <1>1, <1>3, <1>4, Zenon DEF CareInv, BoundInv

\* The other end after request i of some kind has been sent.
Asked(n, i, kind, n2) ==
  /\ n2.stream = n.stream /\ n2.alive = n.alive /\ n2.auth = n.auth
  /\ n2.working = n.working \/ n2.working = n.working \cup {[id |-> i, kind |-> kind]}

LEMMA SentNet ==
  ASSUME LibInv, LibInv', NEW h \in Handle, NEW kind \in Kinds, ldap_send(h, kind)
  PROVE  /\ conn'[h] = "up" /\ requests'[h] = requests[h] \cup {msgid[h] + 1}
         /\ msgid'[h] = msgid[h] + 1 /\ UNCHANGED abandoned
         /\ \E n \in NetType : /\ n = net[h] \/ (n = Opened /\ conn[h] = "none")
                               /\ Asked(n, msgid[h] + 1, kind, net'[h])
<1>1. PICK n : n = IF conn[h] = "none" THEN Opened ELSE net[h]
  BY Zenon
<1>2. PICK i : i = msgid[h] + 1
  BY Zenon
<1>3. n \in NetType /\ (n = net[h] \/ (n = Opened /\ conn[h] = "none"))
  <2>1. Opened \in NetType
    BY EmptyFacts, Zenon DEF Opened, Closed, NetType
  <2>2. QED
    BY <1>1, <2>1, LibFacts, Zenon
<1>4. /\ msgid' = [msgid EXCEPT ![h] = i] /\ conn' = [conn EXCEPT ![h] = "up"]
      /\ requests' = [requests EXCEPT ![h] = @ \cup {i}] /\ UNCHANGED abandoned
      /\ net' = [net EXCEPT ![h] = IF n.alive
           THEN [n EXCEPT !.working = @ \cup {[id |-> i, kind |-> kind]}] ELSE n]
  BY <1>1, <1>2, Zenon DEF ldap_send
<1>5. net'[h] = IF n.alive THEN [n EXCEPT !.working = @ \cup {[id |-> i, kind |-> kind]}] ELSE n
  BY <1>4, LibFacts, Zenon
<1>6. Asked(n, i, kind, net'[h])
  <2>1. CASE ~n.alive
    BY <1>5, <2>1, Zenon DEF Asked
  <2>2. CASE n.alive
    BY <1>3, <1>5, <2>2, Zenon DEF Asked, NetType
  <2>3. QED
    BY <2>1, <2>2, Zenon
<1>7. QED
  BY <1>2, <1>3, <1>4, <1>6, LibFacts, Zenon DEF OtherTypes

\* What was given out before is none of what is sent now.
LEMMA GivenBefore ==
  ASSUME NEW m \in Nat, NEW rq, NEW rs, NEW n \in NetType, NEW s, NEW i \in Nat, i > m,
         Given(m, rq, rs, n, s)
  PROVE  (\A k \in DOMAIN n.stream : n.stream[k].id # i) /\ (\A w \in n.working : w.id # i)
BY NetFacts DEF Given

\* A request is sent and waited for.
LEMMA SendCare ==
  ASSUME IosInv, IosInv', CareInv, NEW r \in Req, calls[r] = <<>>, ld \in Handle, NEW kind \in Kinds,
         NEW how \in Calls \ {"starttls", "options", "step"}, NEW limit \in BOOLEAN,
         ldap_send(ld, kind), listen(r, how, limit),
         wait = Null \/ (wait.req = r /\ wait.how # "async" /\ how # "async"),
         bound => how \in {"sync", "async"} /\ kind # "bind",
         how \in {"simple", "sasl"} => kind = "bind"
  PROVE  CareInv'
<1>1. /\ conn'[ld] = "up" /\ requests'[ld] = requests[ld] \cup {msgid[ld] + 1}
      /\ msgid'[ld] = msgid[ld] + 1 /\ UNCHANGED abandoned
  BY SentNet, Zenon DEF IosInv
<1>2. PICK n \in NetType : /\ n = net[ld] \/ (n = Opened /\ conn[ld] = "none")
                           /\ Asked(n, msgid[ld] + 1, kind, net'[ld])
  BY SentNet, Zenon DEF IosInv
<1>3. PICK i : i = msgid[ld] + 1
  BY Zenon
<1>4. i \in Nat /\ msgid[ld] \in Nat /\ i > msgid[ld] /\ net'[ld] \in NetType /\ i = msgid'[ld]
  <2>1. msgid[ld] \in Nat
    BY LibFacts, IdNat, Zenon DEF IosInv
  <2>2. net' \in [Handle -> NetType]
    BY Zenon DEF IosInv, LibInv, LibTypeOK, NetType
  <2>3. i \in Nat /\ i > msgid[ld]
    BY <1>3, <2>1, NewId, Zenon
  <2>4. QED
    BY <1>1, <1>3, <2>1, <2>2, <2>3, Zenon
<1>5. /\ UNCHANGED <<ld, bound, calls>>
      /\ wait' = [req |-> r, how |-> how, id |-> i, timed |-> limit]
  BY <1>3, Zenon DEF listen
<1>6. wait' \in Waits /\ wait'.id = i /\ wait'.how = how
  BY <1>4, <1>5, Zenon DEF Waits
<1>7. wait' # Null
  BY <1>6, NullAssumption, Zenon
<1>8. IdsKept
  <2>1. msgid' = [msgid EXCEPT ![ld] = i] /\ abandoned' = [abandoned EXCEPT ![ld] = abandoned[ld]]
    BY <1>3, SameAt, Zenon DEF ldap_send, IosInv
  <2>2. i >= msgid[ld] /\ \A j \in abandoned[ld] : j \in abandoned[ld] \/ j <= i
    BY <1>4
  <2>3. QED
    BY <2>1, <2>2, IdsAt, Zenon DEF IosInv
<1>9. Marked'
  BY <1>8, MarkedKept, Zenon DEF CareInv, IosInv
<1>10. OpsInv'
  <2>1. OpsInv /\ how \in Calls /\ msgid'[ld] = msgid[ld] + 1
    BY <1>1, Zenon DEF CareInv
  <2>2. QED
    BY <1>8, <2>1, ListenOps, Zenon
<1>11. Heard'
  <2>1. i \notin abandoned[ld]
    BY <1>4 DEF CareInv, Marked
  <2>2. QED
    BY <1>1, <1>3, <1>5, <1>6, <2>1, Zenon DEF Heard
<1>12. Binding'
  <2>1. SUFFICES ASSUME how \in {"simple", "sasl"} PROVE BindFlow(net'[ld], i)
    BY <1>5, <1>6, Zenon DEF Binding
  <2>2. (\A k \in DOMAIN n.stream : n.stream[k].id # i) /\ (\A w \in n.working : w.id # i)
    <3>1. CASE n = Opened
      BY <3>1 DEF Opened, Closed
    <3>2. CASE n = net[ld]
      <4>1. Given(msgid[ld], requests[ld], responses[ld], n, sent[ld])
        BY <3>2, Zenon DEF IosInv, LibInv, HandleSound, HandleOK
      <4>2. msgid[ld] \in Nat /\ i \in Nat /\ i > msgid[ld]
        BY <1>4, Zenon
      <4>3. QED
        BY <4>1, <4>2, GivenBefore, Zenon
    <3>3. QED
      BY <1>2, <3>1, <3>2, Zenon
  <2>3. /\ net'[ld].stream = n.stream
        /\ \/ net'[ld].working = n.working
           \/ net'[ld].working = n.working \cup {[id |-> i, kind |-> "bind"]}
    BY <1>2, <1>3, <2>1, Zenon DEF Asked
  <2>4. QED
    BY <1>4, <2>2, <2>3, FlowSent, Zenon
<1>13. ASSUME bound PROVE Session' /\ Searching'
  <2>1. NetSession(n) /\ how \in {"sync", "async"} /\ kind # "bind"
    BY <1>2, <1>13, Zenon DEF CareInv, BoundInv, Session
  <2>2. NetSession(net'[ld])
    BY <1>2, <2>1 DEF NetSession, Asked
  <2>3. QED
    BY <1>1, <1>5, <1>6, <2>1, <2>2, Zenon DEF Session, Searching
<1>14. QED
  BY <1>5, <1>9, <1>10, <1>11, <1>12, <1>13, LibAssumption, Zenon DEF CareInv, BoundInv

-------------------------------------------------------------------------------
(* The steps of the careful application. *)

LEMMA CalmerSame == ASSUME NEW n PROVE Calmer(n, n)
BY DEF Calmer

\* Sending fails.
LEMMA FailCare ==
  ASSUME IosInv, IosInv', ld \in Handle,
         ldap_write_fails(ld) \/ ldap_open_fails(ld, 0) \/ ldap_open_fails(ld, 1)
  PROVE  IdsKept /\ (conn[ld] # "none" => SessionSpared)
<1>1. msgid[ld] \in Nat
  BY LibFacts DEF IosInv
<1>2. PICK m : m \in {msgid[ld] + 0, msgid[ld] + 1} /\ msgid' = [msgid EXCEPT ![ld] = m]
  BY Zenon DEF ldap_write_fails, ldap_open_fails
<1>3. m >= msgid[ld] /\ \A j \in abandoned[ld] : j \in abandoned[ld] \/ j <= m
  BY <1>1, <1>2
<1>4. abandoned' = [abandoned EXCEPT ![ld] = abandoned[ld]] /\ UNCHANGED <<requests, net>>
  BY SameAt, Zenon DEF ldap_write_fails, ldap_open_fails, IosInv
<1>5. IdsKept
  BY <1>2, <1>3, <1>4, IdsAt, Zenon DEF IosInv
<1>6. conn[ld] # "none" => UNCHANGED conn
  BY DEF ldap_write_fails, ldap_open_fails
<1>7. QED
  BY <1>4, <1>5, <1>6, CalmerSame, Zenon DEF SessionSpared

LEMMA NotSentCare ==
  ASSUME IosInv, IosInv', CareInv, NEW r \in Req, start(r), ld \in Handle, notSent(r)
  PROVE  CareInv'
<1>1. /\ UNCHANGED ld /\ answerNow(r, <<Told("down")>>) /\ "down" \in Codes
      /\ ldap_write_fails(ld) \/ ldap_open_fails(ld, 1)
  BY Zenon DEF notSent, Codes
<1>2. IdsKept /\ (conn[ld] # "none" => SessionSpared)
  BY <1>1, FailCare, Zenon
<1>3. bound => conn[ld] # "none"
  BY DEF CareInv, BoundInv, Session
<1>4. QED
  BY <1>1, <1>2, <1>3, AnswerCare, Zenon

LEMMA ConnectCare ==
  ASSUME IosInv, IosInv', CareInv, NEW r \in Req, ld = Null, connect(r) PROVE CareInv'
<1>1. start(r) /\ ~bound /\ wait = Null /\ "success" \in Codes /\ "error" \in Codes
  BY Zenon DEF connect, start, JsIdle, CareInv, BoundInv, Codes, Verdicts
<1>2. UNCHANGED <<msgid, abandoned>>
  BY DEF connect, ldap_initialize, libVars
<1>3. IdsKept
  BY <1>2, IdsSame, Zenon DEF IosInv
<1>4. CASE answerNow(r, <<Told("success")>>)
  BY <1>1, <1>3, <1>4, AnswerCare, Zenon
<1>5. CASE answerNow(r, <<Told("error")>>)
  BY <1>1, <1>3, <1>5, AnswerCare, Zenon
<1>6. CASE /\ wait' = [req |-> r, how |-> "starttls", id |-> 0, timed |-> FALSE]
           /\ UNCHANGED <<bound, messageId, memVars, aborted, op, calls>>
  <2>1. wait' \in Waits /\ wait'.how = "starttls"
    BY <1>6, Zenon DEF Waits, Calls
  <2>2. wait' # Null
    BY <2>1, NullAssumption, Zenon
  <2>3. QED
    BY <1>1, <1>3, <1>6, <2>1, <2>2, QuietCare, Zenon
<1>7. QED
  BY <1>4, <1>5, <1>6, Zenon DEF connect

LEMMA BindCare ==
  ASSUME IosInv, IosInv', CareInv, NEW r \in Req, ld # Null, ~bound, simpleBind(r) \/ saslBind(r)
  PROVE  CareInv'
<1>1. start(r) /\ wait = Null /\ calls[r] = <<>> /\ ld \in Handle
  BY Zenon DEF simpleBind, saslBind, start, JsIdle, IosInv, ProxyInv, ProxyTypes
<1>2. timed[ld] \in BOOLEAN
  BY <1>1, LibFacts, Zenon DEF IosInv, OtherTypes
<1>3. CASE notSent(r)
  BY <1>1, <1>3, NotSentCare, Zenon
<1>4. CASE ldap_send(ld, "bind") /\ listen(r, "simple", timed[ld])
  BY <1>1, <1>2, <1>4, SendCare, Zenon DEF Calls, Kinds
<1>5. CASE ldap_send(ld, "search") /\ listen(r, "mechs", timed[ld])
  BY <1>1, <1>2, <1>5, SendCare, Zenon DEF Calls, Kinds
<1>6. CASE /\ wait' = [req |-> r, how |-> "step", id |-> 0, timed |-> timed[ld]]
           /\ UNCHANGED <<libVars, ld, bound, messageId, memVars, aborted, op, calls>>
  <2>1. wait' \in Waits /\ wait'.how = "step" /\ UNCHANGED <<msgid, abandoned>>
    BY <1>2, <1>6, Zenon DEF Waits, Calls, libVars
  <2>2. wait' # Null
    BY <2>1, NullAssumption, Zenon
  <2>3. IdsKept
    BY <2>1, IdsSame, Zenon DEF IosInv
  <2>4. QED
    BY <1>1, <1>6, <2>1, <2>2, <2>3, QuietCare, Zenon
<1>7. QED
  BY <1>3, <1>4, <1>5, <1>6, Zenon DEF simpleBind, saslBind

LEMMA SearchCare ==
  ASSUME IosInv, IosInv', CareInv, NEW r \in Req, search(r) PROVE CareInv'
<1>1. start(r) /\ wait = Null /\ calls[r] = <<>> /\ "error" \in Codes
  BY Zenon DEF search, start, JsIdle, Codes, Verdicts
<1>2. ASSUME isBound
      PROVE  ld \in Handle /\ timed[ld] \in BOOLEAN /\ errno[ld] \in Codes /\ msgid[ld] \in Nat
  BY <1>2, LibFacts DEF isBound, IosInv, ProxyInv, ProxyTypes, OtherTypes
<1>3. UNCHANGED <<requests, net, conn>> => SessionSpared
  BY CalmerSame, Zenon DEF SessionSpared
<1>4. CASE searchUnbound(r)
  <2>1. UNCHANGED <<ld, msgid, abandoned, requests, net, conn>>
    BY <1>4, Zenon DEF searchUnbound, libVars
  <2>2. IdsKept
    BY <2>1, IdsSame, Zenon DEF IosInv
  <2>3. QED
    BY <1>1, <1>3, <1>4, <2>1, <2>2, AnswerCare, Zenon DEF searchUnbound
<1>5. ASSUME NEW async \in BOOLEAN, searchZeroLimit(r, async) PROVE CareInv'
  <2>1. UNCHANGED <<ld, msgid, abandoned, requests, net, conn>>
    BY <1>5, Zenon DEF searchZeroLimit, libVars
  <2>2. IdsKept
    BY <2>1, IdsSame, Zenon DEF IosInv
  <2>3. PICK code \in Codes : answerNow(r, <<Told(code)>>)
    BY <1>1, <1>2, <1>5, Zenon DEF searchZeroLimit
  <2>4. QED
    BY <1>1, <1>3, <2>1, <2>2, <2>3, AnswerCare, Zenon
<1>6. CASE searchBadFilter(r)
  <2>1. /\ UNCHANGED <<ld, requests, abandoned, net, conn>> /\ answerNow(r, <<Told("error")>>)
        /\ msgid' = [msgid EXCEPT ![ld] = msgid[ld] + 1] /\ ld \in Handle /\ msgid[ld] \in Nat
    BY <1>2, <1>6, Zenon DEF searchBadFilter
  <2>2. /\ msgid[ld] + 1 >= msgid[ld] /\ \A j \in abandoned[ld] : j \in abandoned[ld] \/ j <= msgid[ld] + 1
        /\ abandoned' = [abandoned EXCEPT ![ld] = abandoned[ld]]
    BY <2>1, SameAt DEF IosInv
  <2>3. IdsKept
    BY <2>1, <2>2, IdsAt, Zenon DEF IosInv
  <2>4. QED
    BY <1>1, <1>3, <2>1, <2>3, AnswerCare, Zenon
<1>7. CASE searchSend(r)
  <2>1. ld \in Handle /\ timed[ld] \in BOOLEAN
    BY <1>2, <1>7, Zenon DEF searchSend
  <2>2. CASE notSent(r)
    BY <1>1, <2>1, <2>2, NotSentCare, Zenon
  <2>3. ASSUME NEW limit \in BOOLEAN, ldap_send(ld, "search"), listen(r, "sync", limit)
        PROVE  CareInv'
    BY <1>1, <2>1, <2>3, SendCare, Zenon DEF Calls, Kinds
  <2>4. CASE ldap_send(ld, "search") /\ listen(r, "async", timed[ld])
    BY <1>1, <2>1, <2>4, SendCare, Zenon DEF Calls, Kinds
  <2>5. QED
    BY <1>7, <2>2, <2>3, <2>4, Zenon DEF searchSend
<1>8. QED
  BY <1>4, <1>5, <1>6, <1>7, Zenon DEF search

LEMMA AbandonIds ==
  ASSUME IosInv, IosInv', ld \in Handle, NEW i \in Nat, i <= msgid[ld], do_abandon(ld, i)
  PROVE  IdsKept
<1>1. CASE queuedWhole(ld, i)
  BY <1>1, IdsSame, Zenon DEF do_abandon, IosInv
<1>2. CASE ~queuedWhole(ld, i)
  <2>1. msgid[ld] \in Nat
    BY LibFacts DEF IosInv
  <2>2. PICK m : m \in {msgid[ld], msgid[ld] + 1} /\ msgid' = [msgid EXCEPT ![ld] = m]
    BY <1>2, Zenon DEF do_abandon
  <2>3. m >= msgid[ld] /\ \A j \in abandoned[ld] \cup {i} : j \in abandoned[ld] \/ j <= m
    BY <2>1, <2>2
  <2>4. abandoned' = [abandoned EXCEPT ![ld] = abandoned[ld] \cup {i}]
    BY <1>2, Zenon DEF do_abandon
  <2>5. QED
    BY <2>2, <2>3, <2>4, IdsAt, Zenon DEF IosInv
<1>3. QED
  BY <1>1, <1>2, Zenon

\* Nothing happens to the requests.
LEMMA AsideCare ==
  ASSUME IosInv, IosInv', CareInv, IdsKept, UNCHANGED <<wait, op, messageId, calls>>
  PROVE  Marked' /\ OpsInv'
<1>1. Marked'
  BY MarkedKept, Zenon DEF CareInv, IosInv
<1>2. \A q \in Req : Followed(q)
  BY Zenon DEF Followed
<1>3. QED
  BY <1>1, <1>2, SameOps, Zenon DEF CareInv

LEMMA AbandonCare ==
  ASSUME IosInv, IosInv', LastRef, CareInv, NEW r \in Req, ownTimeout(r), abandon(r) PROVE CareInv'
<1>1. /\ op[r] # Null /\ op[r].h = ld /\ timedOutReq(r) /\ messageId[r] # 0 /\ wait = Null
  BY DEF ownTimeout, timedOutReq, abandon, JsIdle
<1>2. PICK i : i = messageId[r]
  BY Zenon
<1>3. op[r] \in Ops /\ op[r].id = i /\ op[r].id <= msgid[op[r].h]
  BY <1>1, <1>2, Zenon DEF CareInv, OpsInv, SentOf
<1>4. ld \in Handle /\ i \in Nat /\ i <= msgid[ld] /\ op[r] = [h |-> ld, id |-> i]
  BY <1>1, <1>3 DEF Ops, Id
<1>5. do_abandon(ld, i) /\ UNCHANGED <<ld, bound, wait, messageId, op, calls>>
  BY <1>2, <1>4, LibAssumption, Zenon DEF abandon, proxyVars
<1>6. IdsKept
  BY <1>4, <1>5, AbandonIds, Zenon
<1>7. Marked' /\ OpsInv'
  BY <1>5, <1>6, AsideCare, Zenon
<1>8. Heard' /\ Binding' /\ Searching'
  BY <1>1, <1>5, Zenon DEF Heard, listening, Binding, Searching
<1>9. ASSUME bound PROVE Session'
  <2>1. Session
    BY <1>9, Zenon DEF CareInv, BoundInv
  <2>2. ASSUME NEW j, Untouched(ld, j) PROVE j # i
    BY <1>1, <1>4, <2>2, Zenon DEF Untouched
  <2>3. conn[ld] # "none" /\ (conn[ld] = "broken" => \E j \in requests[ld] : j # i)
    BY <2>1, <2>2, Zenon DEF Session
  <2>4. /\ conn'[ld] = conn[ld] /\ Calmer(net[ld], net'[ld])
        /\ \A j \in requests[ld] : j # i => j \in requests'[ld]
    BY <1>4, <1>5, <2>3, AbandonKeeps, Zenon DEF IosInv
  <2>5. NetSession(net'[ld])
    BY <2>1, <2>4, SessionCalmer, Zenon DEF Session
  <2>6. ASSUME conn[ld] = "broken" PROVE \E j \in requests'[ld] : Untouched(ld, j)'
    <3>1. PICK j \in requests[ld] : Untouched(ld, j)
      BY <2>1, <2>6, Zenon DEF Session
    <3>2. j \in requests'[ld]
      BY <2>2, <2>4, <3>1, Zenon
    <3>3. Untouched(ld, j)'
      BY <1>5, <3>1, Zenon DEF Untouched, timedOutReq
    <3>4. QED
      BY <3>2, <3>3, Zenon
  <2>7. QED
    BY <1>5, <2>3, <2>4, <2>5, <2>6, Zenon DEF Session
<1>10. QED
  BY <1>4, <1>5, <1>7, <1>8, <1>9, LibAssumption, Zenon DEF CareInv, BoundInv

LEMMA DisconnectCare ==
  ASSUME IosInv, IosInv', CareInv, bound, disconnect PROVE CareInv'
<1>1. /\ wait = Null /\ ld \in Handle /\ ld' = Null /\ ~bound'
      /\ UNCHANGED <<wait, messageId, op, calls>> /\ ldap_unbind_ext(ld)
  BY Zenon DEF disconnect, JsIdle, IosInv, ProxyInv, ProxyTypes
<1>2. IdsKept
  <2>1. PICK a : a = {}
    BY Zenon
  <2>2. msgid' = [msgid EXCEPT ![ld] = msgid[ld]] /\ abandoned' = [abandoned EXCEPT ![ld] = a]
    BY <1>1, <2>1, SameAt, Zenon DEF ldap_unbind_ext, IosInv
  <2>3. msgid[ld] >= msgid[ld] /\ \A j \in a : j \in abandoned[ld] \/ j <= msgid[ld]
    <3>1. msgid[ld] \in Nat
      BY <1>1, LibFacts, IdNat, Zenon DEF IosInv
    <3>2. QED
      BY <2>1, <3>1, SameId, Zenon
  <2>4. QED
    BY <1>1, <2>2, <2>3, IdsAt, Zenon DEF IosInv
<1>3. Marked' /\ OpsInv'
  BY <1>1, <1>2, AsideCare, Zenon
<1>4. Heard' /\ Binding'
  BY <1>1, Zenon DEF Heard, listening, Binding
<1>5. QED
  BY <1>1, <1>3, <1>4, Zenon DEF CareInv, BoundInv

\* The facts about the request that is listened for.
LEMMA ListenFacts ==
  ASSUME IosInv, CareInv, listening
  PROVE  /\ wait # Null /\ wait.req \in Req /\ ld \in Handle /\ calls[wait.req] = <<>>
         /\ wait.id = msgid[ld] /\ wait.id \in Id /\ op[wait.req] = [h |-> ld, id |-> wait.id]
         /\ wait.id \in requests[ld] \ abandoned[ld] /\ conn[ld] = "up"
         /\ bound => wait.how \in {"sync", "async"} /\ NetSession(net[ld])
         /\ wait.how \in {"simple", "sasl"} => BindFlow(net[ld], wait.id)
<1>1. wait # Null
  BY Zenon DEF listening
<1>2. /\ wait.req \in Req /\ ld \in Handle /\ calls[wait.req] = <<>>
      /\ wait.id = msgid[ld] /\ wait.id \in Id /\ op[wait.req] = [h |-> ld, id |-> wait.id]
  BY <1>1, WaitFacts, Zenon DEF IosInv, ProxyInv, WaitOK
<1>3. QED
  BY <1>1, <1>2, Zenon DEF CareInv, Heard, BoundInv, Session, Searching, Binding

LEMMA LookCare ==
  ASSUME IosInv, IosInv', LastRef, CareInv, keepLooking PROVE CareInv'
<1>1. /\ listening /\ (toss(ld) \/ queue(ld, wait.id))
      /\ UNCHANGED <<ld, bound, wait, messageId, op, calls>>
  BY Zenon DEF keepLooking, proxyVars
<1>2. /\ wait # Null /\ ld \in Handle /\ conn[ld] = "up"
      /\ wait.id \in requests[ld] \ abandoned[ld]
  BY <1>1, ListenFacts, Zenon
<1>3. /\ conn'[ld] = "up" /\ net'[ld] = afterRead(ld) /\ readable(ld)
      /\ wait.id \in requests'[ld] \ abandoned'[ld] /\ IdsKept
  <2>1. CASE toss(ld)
    <3>1. /\ readable(ld) /\ net' = [net EXCEPT ![ld] = afterRead(ld)]
          /\ UNCHANGED <<msgid, requests, conn>>
      BY <2>1, Zenon DEF toss
    <3>2. PICK a : a \subseteq abandoned[ld] /\ abandoned' = [abandoned EXCEPT ![ld] = a]
      BY <2>1, Zenon DEF toss
    <3>3. abandoned'[ld] = a /\ net'[ld] = afterRead(ld)
      BY <1>2, <3>1, <3>2, LibFacts, Zenon DEF IosInv
    <3>4. msgid' = [msgid EXCEPT ![ld] = msgid[ld]] /\ msgid[ld] >= msgid[ld]
      <4>1. msgid[ld] \in Nat
        BY <1>2, LibFacts, IdNat, Zenon DEF IosInv
      <4>2. msgid' = [msgid EXCEPT ![ld] = msgid[ld]]
        BY <1>2, <3>1, SameAt, Zenon DEF IosInv
      <4>3. QED
        BY <4>1, <4>2, SameId, Zenon
    <3>5. IdsKept
      <4>1. \A j \in a : j \in abandoned[ld] \/ j <= msgid[ld]
        BY <3>2, Zenon
      <4>2. QED
        BY <1>2, <3>2, <3>4, <4>1, IdsAt, Zenon DEF IosInv
    <3>6. QED
      BY <1>2, <3>1, <3>2, <3>3, <3>5, Zenon
  <2>2. CASE queue(ld, wait.id)
    <3>1. /\ expected(ld) /\ settle(ld, nextMsg(ld).body) /\ UNCHANGED <<msgid, abandoned>>
          /\ ~(nextMsg(ld).id = wait.id /\ IsFinal(nextMsg(ld).body)) /\ readable(ld)
      BY <2>2, Zenon DEF queue, expected
    <3>2. /\ conn'[ld] = "up" /\ net'[ld] = afterRead(ld)
          /\ \A i \in requests[ld] : i # nextMsg(ld).id => i \in requests'[ld]
          /\ ~IsFinal(nextMsg(ld).body) => requests'[ld] = requests[ld]
      BY <1>2, <3>1, SettleKeeps, Zenon DEF IosInv
    <3>3. IdsKept
      BY <3>1, IdsSame, Zenon DEF IosInv
    <3>4. QED
      BY <1>2, <3>1, <3>2, <3>3, Zenon
  <2>3. QED
    BY <1>1, <2>1, <2>2, Zenon
<1>4. Marked' /\ OpsInv'
  BY <1>1, <1>3, AsideCare, Zenon
<1>5. /\ Calmer(net[ld], afterRead(ld))
      /\ BindFlow(net[ld], wait.id) => BindFlow(afterRead(ld), wait.id)
  BY <1>2, <1>3, ReadCalmer, Zenon DEF IosInv
<1>6. Heard' /\ Binding'
  BY <1>1, <1>3, <1>5, Zenon DEF Heard, Binding, CareInv, BoundInv
<1>7. ASSUME bound PROVE Session' /\ Searching'
  <2>1. NetSession(net[ld]) /\ Searching
    BY <1>7, Zenon DEF CareInv, BoundInv, Session
  <2>2. NetSession(net'[ld])
    BY <1>3, <1>5, <2>1, SessionCalmer, Zenon
  <2>3. QED
    BY <1>1, <1>3, <2>1, <2>2, Zenon DEF Session, Searching
<1>8. QED
  BY <1>1, <1>4, <1>6, <1>7, Zenon DEF CareInv, BoundInv

LEMMA AnsweredCare ==
  ASSUME IosInv, IosInv', LastRef, CareInv, answered PROVE CareInv'
<1> DEFINE chain == responses[ld][wait.id]
<1>1. listening /\ arrived(ld, wait.id)
  BY Zenon DEF answered
<1>2. /\ wait # Null /\ wait.req \in Req /\ ld \in Handle /\ conn[ld] = "up"
      /\ bound => wait.how \in {"sync", "async"} /\ NetSession(net[ld])
      /\ wait.how \in {"simple", "sasl"} => BindFlow(net[ld], wait.id)
  BY <1>1, ListenFacts, Zenon
<1>3. chain \in Seq(Item) /\ nextMsg(ld).body \in Verdicts
  BY <1>1, <1>2, ChainFacts, Zenon DEF IosInv
<1>4. PICK code \in codesFor(wait.how, nextMsg(ld).body, chain) :
     /\ take(ld, wait.id, code)
     /\ \/ wait.how \in {"simple", "sasl"} /\ bindDone(wait.req, code)
        \/ wait.how = "sasl" /\ goOn("step")
        \/ wait.how = "mechs" /\ goOn("step")
        \/ wait.how = "tls" /\ goOn("options")
        \/ /\ wait.how = "mechs"
           /\ finish(wait.req, <<Told(code)>>)
           /\ UNCHANGED <<bound, memVars>>
        \/ wait.how \in {"sync", "async"} /\ searchDone(wait.req, code, chain)
  <2>1. "simple" \in {"simple", "sasl"} /\ "sasl" \in {"simple", "sasl"}
    OBVIOUS
  <2>2. QED
    BY <2>1, Zenon DEF answered
<1>5. code \in Codes /\ (code = "success" => nextMsg(ld).body = "success")
  <2>1. code \in codesFor(wait.how, nextMsg(ld).body, chain)
    BY <1>4, Zenon
  <2> HIDE DEF chain
  <2>2. QED
    BY <1>3, <2>1, CodesFacts, Zenon
<1>6. /\ conn'[ld] = "up" /\ net'[ld] = afterRead(ld) /\ UNCHANGED <<msgid, abandoned>>
  <2>1. expected(ld) /\ settle(ld, nextMsg(ld).body) /\ UNCHANGED <<msgid, abandoned>>
    BY <1>1, <1>4, Zenon DEF take, arrived
  <2>2. QED
    BY <1>2, <2>1, SettleKeeps, Zenon DEF IosInv
<1>7. IdsKept
  BY <1>6, IdsSame, Zenon DEF IosInv
<1>8. readable(ld) /\ Calmer(net[ld], net'[ld])
  <2>1. readable(ld)
    BY <1>1, Zenon DEF arrived, expected
  <2>2. QED
    BY <1>2, <1>6, <2>1, ReadCalmer, Zenon DEF IosInv
<1>9. bound => NetSession(net'[ld])
  BY <1>2, <1>8, SessionCalmer, Zenon
<1> HIDE DEF chain
<1>10. CASE wait.how \in {"simple", "sasl"} /\ bindDone(wait.req, code)
  <2>1. ~bound /\ finish(wait.req, <<Told(code)>>) /\ bound' = (bound \/ code = "success") /\ ld' = ld
    BY <1>2, <1>10, Zenon DEF bindDone, finish
  <2>2. ASSUME bound' PROVE Session'
    <3>1. nextMsg(ld).body = "success"
      BY <1>5, <2>1, <2>2, Zenon
    <3>2. /\ net[ld] \in NetType /\ net[ld].stream # <<>> /\ nextMsg(ld) = net[ld].stream[1]
      BY <1>2, <1>8, ReadFacts, Zenon DEF IosInv
    <3>3. 1 \in DOMAIN net[ld].stream
      <4>1. net[ld].stream \in Seq(Message)
        BY <3>2, NetFacts, Zenon
      <4>2. QED
        BY <3>2, <4>1, SeqFacts
    <3>4. net[ld].stream[1].id = wait.id
      BY <1>1, <3>2, Zenon DEF arrived
    <3>5. NetSession(net[ld])
      BY <1>2, <1>10, <3>1, <3>2, <3>3, <3>4, Zenon DEF BindFlow, NetSession
    <3>6. NetSession(net'[ld])
      BY <1>8, <3>5, SessionCalmer, Zenon
    <3>7. QED
      BY <1>6, <2>1, <3>6, Zenon DEF Session
  <2>3. QED
    BY <1>2, <1>5, <1>7, <2>1, <2>2, FinishCare, ToldFacts, Zenon
<1>11. ASSUME NEW how \in {"step", "options"}, goOn(how), wait.how \in {"sasl", "mechs", "tls"}
       PROVE  CareInv'
  <2>1. /\ wait' = [wait EXCEPT !.how = how] /\ UNCHANGED <<ld, bound, messageId, op, calls>>
        /\ ~bound /\ wait.how # "async" /\ how \in Calls
    BY <1>2, <1>11, Zenon DEF goOn, Calls
  <2>2. wait \in Waits
    BY <1>2, WaitFacts, Zenon
  <2>3. wait' \in Waits /\ wait'.how = how /\ wait'.req = wait.req
    BY <2>1, <2>2, Zenon DEF Waits
  <2>4. wait' # Null
    BY <2>3, NullAssumption, Zenon
  <2>5. QED
    BY <1>7, <1>11, <2>1, <2>3, <2>4, QuietCare, Zenon
<1>12. CASE wait.how = "mechs" /\ finish(wait.req, <<Told(code)>>) /\ UNCHANGED <<bound, memVars>>
  <2>1. ~bound'
    BY <1>2, <1>12, Zenon
  <2>2. QED
    BY <1>2, <1>5, <1>7, <1>12, <2>1, FinishCare, ToldFacts, Zenon
<1>13. CASE wait.how \in {"sync", "async"} /\ searchDone(wait.req, code, chain)
  <2> DEFINE c == [code |-> code, result |-> IF code = "success" THEN chain ELSE Null]
  <2>1. finish(wait.req, <<c>>) /\ UNCHANGED <<ld, bound>>
    BY <1>13, Zenon DEF searchDone, finish
  <2>2. c \in Callback
    BY <1>3, <1>5, Zenon DEF Callback, chain
  <2>3. bound' => Session'
    BY <1>6, <1>9, <2>1, Zenon DEF Session
  <2> HIDE DEF c
  <2>4. QED
    BY <1>2, <1>7, <2>1, <2>2, <2>3, FinishCare, Zenon
<1>14. QED
  BY <1>4, <1>10, <1>11, <1>12, <1>13, Zenon

LEMMA LostCare ==
  ASSUME IosInv, IosInv', LastRef, CareInv, lost PROVE CareInv'
<1>1. listening /\ readError(ld)
  BY Zenon DEF lost
<1>2. /\ wait # Null /\ wait.req \in Req /\ ld \in Handle /\ conn[ld] = "up" /\ wait.id \in Id
      /\ calls[wait.req] = <<>> /\ op[wait.req] = [h |-> ld, id |-> wait.id]
      /\ wait.id \in requests[ld] \ abandoned[ld]
      /\ bound => wait.how \in {"sync", "async"} /\ NetSession(net[ld])
  BY <1>1, ListenFacts, Zenon
<1>3. conn'[ld] = "broken" /\ net'[ld] = net[ld] /\ UNCHANGED <<msgid, abandoned, requests>>
  <2>1. ldap_free_connection(ld, "broken", net[ld]) /\ UNCHANGED <<msgid, abandoned, requests>>
    BY <1>1, Zenon DEF readError
  <2>2. QED
    BY <1>2, <2>1, FreeKeeps DEF IosInv
<1>4. IdsKept
  BY <1>3, IdsSame, Zenon DEF IosInv
<1>5. CASE wait.how = "tls" /\ goOn("options")
  <2>1. /\ wait' = [wait EXCEPT !.how = "options"] /\ UNCHANGED <<ld, bound, messageId, op, calls>>
        /\ ~bound /\ wait.how # "async" /\ "options" \in Calls
    BY <1>2, <1>5, Zenon DEF goOn, Calls
  <2>2. wait \in Waits
    BY <1>2, WaitFacts, Zenon
  <2>3. wait' \in Waits /\ wait'.how = "options" /\ wait'.req = wait.req
    BY <2>1, <2>2, Zenon DEF Waits
  <2>4. wait' # Null
    BY <2>3, NullAssumption, Zenon
  <2>5. QED
    BY <1>4, <2>1, <2>3, <2>4, QuietCare, Zenon
<1>6. CASE finish(wait.req, <<Told("down")>>) /\ UNCHANGED <<bound, memVars>>
  <2>1. PICK r \in Req, h \in Handle, i \in Id : r = wait.req /\ h = ld /\ i = wait.id
    BY <1>2, Zenon
  <2>2. PICK c \in Callback : c = Told("down") /\ c.code = "down"
    <3>1. Told("down") \in Callback /\ Told("down").code = "down"
      BY Zenon DEF Told, Callback, Codes
    <3>2. QED
      BY <3>1, Zenon
  <2>3. fire(r, <<c>>) /\ UNCHANGED <<ld, op>> /\ finish(wait.req, <<c>>)
    BY <1>6, <2>1, <2>2, Zenon DEF finish
  <2>4. ~timedOutReq(r)'
    BY <1>2, <2>1, <2>2, <2>3, Fired, Zenon
  <2>5. op[r] = [h |-> h, id |-> i] /\ op[r] # Null
    <3>1. op[r] = [h |-> h, id |-> i] /\ op[r] \in Ops
      BY <1>2, <2>1 DEF Ops
    <3>2. QED
      BY <3>1, NullAssumption, Zenon
  <2>6. Untouched(h, i)'
    <3>1. \A q \in Req : op[q] = op[r] => q = r
      BY <2>5, Zenon DEF CareInv, OpsInv, Distinct
    <3>2. QED
      BY <2>3, <2>4, <2>5, <3>1, Zenon DEF Untouched
  <2>7. ASSUME bound' PROVE Session'
    <3>1. NetSession(net'[ld'])
      BY <1>2, <1>3, <1>6, <2>3, <2>7, Zenon
    <3>2. i \in requests'[h] /\ Untouched(h, i)' /\ h = ld'
      BY <1>2, <1>3, <2>1, <2>3, <2>6, Zenon
    <3>3. QED
      BY <1>3, <2>3, <3>1, <3>2, Zenon DEF Session, Untouched, timedOutReq
  <2>8. QED
    BY <1>2, <1>4, <2>3, <2>7, FinishCare, Zenon
<1>7. QED
  BY <1>5, <1>6, Zenon DEF lost

LEMMA TimedOutCare ==
  ASSUME IosInv, IosInv', LastRef, CareInv, timedOut PROVE CareInv'
<1>1. listening /\ finish(wait.req, <<Told("timeout")>>) /\ UNCHANGED <<bound, memVars>>
  BY Zenon DEF timedOut
<1>2. /\ wait # Null /\ ld \in Handle /\ conn[ld] = "up" /\ wait.id \in Id /\ wait.id = msgid[ld]
      /\ bound => wait.how \in {"sync", "async"} /\ NetSession(net[ld])
  BY <1>1, ListenFacts, Zenon
<1>3. Told("timeout") \in Callback /\ UNCHANGED ld
  BY <1>1, ToldFacts, Zenon DEF Codes, finish
<1>4. IdsKept /\ conn'[ld] = "up" /\ Calmer(net[ld], net'[ld])
  <2>1. CASE wait.how = "sync"
    <3>1. do_abandon(ld, wait.id)
      BY <2>1, Zenon DEF timedOut
    <3>2. wait.id \in Nat /\ wait.id <= msgid[ld]
      BY <1>2 DEF Id
    <3>3. IdsKept
      BY <1>2, <3>1, <3>2, AbandonIds, Zenon
    <3>4. QED
      BY <1>2, <3>1, <3>3, AbandonKeeps, Zenon DEF IosInv
  <2>2. CASE wait.how # "sync"
    <3>1. UNCHANGED <<msgid, abandoned, conn, net>>
      BY <2>2, Zenon DEF timedOut
    <3>2. QED
      BY <1>2, <3>1, IdsSame, CalmerSame, Zenon DEF IosInv
  <2>3. QED
    BY <2>1, <2>2, Zenon
<1>5. ASSUME bound' PROVE Session'
  <2>1. NetSession(net'[ld])
    BY <1>1, <1>2, <1>4, <1>5, SessionCalmer, Zenon
  <2>2. QED
    BY <1>3, <1>4, <2>1, Zenon DEF Session
<1>6. QED
  BY <1>1, <1>2, <1>3, <1>4, <1>5, FinishCare, Zenon

LEMMA SaslStepCare ==
  ASSUME IosInv, IosInv', CareInv, saslStep PROVE CareInv'
<1>1. wait # Null /\ wait.how = "step"
  BY Zenon DEF saslStep
<1>2. ld \in Handle /\ wait.req \in Req /\ calls[wait.req] = <<>> /\ wait.timed \in BOOLEAN /\ ~bound
  BY <1>1, WaitFacts, Zenon DEF CareInv, BoundInv, Searching
<1>3. Told("down") \in Callback /\ Told("error") \in Callback
  BY ToldFacts, Zenon DEF Codes, Verdicts
<1>4. CASE ldap_send(ld, "bind") /\ listen(wait.req, "sasl", wait.timed)
  BY <1>1, <1>2, <1>4, SendCare, Zenon DEF Calls, Kinds
<1>5. CASE /\ ldap_open_fails(ld, 0) \/ ldap_write_fails(ld)
           /\ finish(wait.req, <<Told("down")>>)
           /\ UNCHANGED <<bound, memVars>>
  <2>1. IdsKept
    BY <1>2, <1>5, FailCare, Zenon
  <2>2. QED
    BY <1>1, <1>2, <1>3, <1>5, <2>1, FinishCare, Zenon
<1>6. CASE finish(wait.req, <<Told("error")>>) /\ UNCHANGED <<msgid, abandoned, bound>>
  <2>1. IdsKept
    BY <1>6, IdsSame, Zenon DEF IosInv
  <2>2. QED
    BY <1>1, <1>2, <1>3, <1>6, <2>1, FinishCare, Zenon
<1>7. QED
  BY <1>4, <1>5, <1>6, Zenon DEF saslStep

LEMMA TlsCare ==
  ASSUME IosInv, IosInv', CareInv, startTLS \/ setLimits PROVE CareInv'
<1>1. wait # Null /\ wait.how \in {"starttls", "options"}
  BY Zenon DEF startTLS, setLimits
<1>2. ld \in Handle /\ wait.req \in Req /\ calls[wait.req] = <<>> /\ wait \in Waits /\ ~bound
  BY <1>1, WaitFacts, Zenon DEF CareInv, BoundInv, Searching
<1>3. CASE ldap_send(ld, "extended") /\ listen(wait.req, "tls", FALSE)
  BY <1>1, <1>2, <1>3, SendCare, Zenon DEF Calls, Kinds
<1>4. CASE (ldap_open_fails(ld, 1) \/ ldap_write_fails(ld)) /\ goOn("options")
  <2>1. IdsKept
    BY <1>2, <1>4, FailCare, Zenon
  <2>2. /\ wait' = [wait EXCEPT !.how = "options"] /\ UNCHANGED <<ld, bound, messageId, op, calls>>
        /\ wait.how # "async" /\ "options" \in Calls
    BY <1>1, <1>4, Zenon DEF goOn, Calls
  <2>3. wait' \in Waits /\ wait'.how = "options" /\ wait'.req = wait.req
    BY <1>2, <2>2, Zenon DEF Waits
  <2>4. wait' # Null
    BY <2>3, NullAssumption, Zenon
  <2>5. QED
    BY <1>2, <2>1, <2>2, <2>3, <2>4, QuietCare, Zenon
<1>5. CASE finish(wait.req, <<Told("success")>>) /\ UNCHANGED <<msgid, abandoned, bound>>
  <2>1. IdsKept /\ Told("success") \in Callback
    BY <1>5, IdsSame, ToldFacts, Zenon DEF IosInv, Codes, Verdicts
  <2>2. QED
    BY <1>1, <1>2, <1>5, <2>1, FinishCare, Zenon
<1>6. QED
  BY <1>3, <1>4, <1>5, Zenon DEF startTLS, setLimits

\* The server answers, or the link is lost.
LEMMA ItemFlow ==
  ASSUME LibInv, LibInv', NEW h \in Handle, NEW w \in net[h].working, NEW item \in Item,
         serverItem(h, w, item), NEW i
  PROVE  /\ NetSession(net[h]) => NetSession(net'[h])
         /\ BindFlow(net[h], i) => BindFlow(net'[h], i)
<1>1. PICK n \in NetType, n2 \in NetType : n = net[h] /\ n2 = net'[h]
  BY LibFacts, Zenon DEF LibInv, LibTypeOK, NetType
<1>2. PICK x \in Message : x = [id |-> w.id, body |-> item]
  BY <1>1, NetFacts, Zenon DEF Message, Body
<1>3. w.kind = "search" /\ n2 = [n EXCEPT !.stream = Append(@, x)]
  <2>1. w.kind = "search" /\ net' = [net EXCEPT ![h] = [net[h] EXCEPT !.stream = Append(@, x)]]
    BY <1>2, Zenon DEF serverItem, serverSends
  <2>2. QED
    BY <1>1, <2>1, LibFacts, Zenon
<1>4. n2.stream = Append(n.stream, x) /\ n2.working = n.working /\ n2.alive = n.alive /\ n2.auth = n.auth
  BY <1>3, Zenon DEF NetType
<1>5. Calmer(n, n2) /\ x.id = w.id
  BY <1>2, <1>4, Zenon DEF Calmer
<1>6. BindFlow(n, i) => x.id # i
  BY <1>1, <1>3, <1>5, Zenon DEF BindFlow
<1>7. BindFlow(n, i) => BindFlow(n2, i)
  BY <1>4, <1>5, <1>6, FlowAnswer, Zenon
<1>8. QED
  BY <1>1, <1>5, <1>7, SessionCalmer, Zenon

LEMMA VerdictFlow ==
  ASSUME LibInv, LibInv', NEW h \in Handle, NEW w \in net[h].working, NEW v \in Verdicts,
         serverDone(h, w, v), NEW i, i = msgid[h]
  PROVE  /\ NetSession(net[h]) => NetSession(net'[h])
         /\ BindFlow(net[h], i) => BindFlow(net'[h], i)
<1>1. PICK n \in NetType, n2 \in NetType : n = net[h] /\ n2 = net'[h]
  BY LibFacts, Zenon DEF LibInv, LibTypeOK, NetType
<1>2. PICK x \in Message : x = [id |-> w.id, body |-> v]
  BY <1>1, NetFacts, Zenon DEF Message, Body
<1>3. x.id = w.id /\ x.body = v
  BY <1>2, Zenon
<1>4. CASE w.kind # "bind"
  <2>1. n2 = [[n EXCEPT !.working = @ \ {w}] EXCEPT !.stream = Append(@, x)]
    <3>1. net' = [net EXCEPT ![h] = [[net[h] EXCEPT !.working = @ \ {w}] EXCEPT !.stream = Append(@, x)]]
      BY <1>2, <1>4, Zenon DEF serverDone, serverSends
    <3>2. QED
      BY <1>1, <3>1, LibFacts, Zenon
  <2>2. /\ n2.stream = Append(n.stream, x) /\ n2.working = n.working \ {w}
        /\ n2.alive = n.alive /\ n2.auth = n.auth
    BY <2>1, Zenon DEF NetType
  <2>3. Calmer(n, n2)
    BY <2>2, Zenon DEF Calmer
  <2>4. BindFlow(n, i) => x.id # i
    BY <1>1, <1>3, <1>4, Zenon DEF BindFlow
  <2>5. BindFlow(n, i) => BindFlow(n2, i)
    BY <2>2, <2>3, <2>4, FlowAnswer, Zenon
  <2>6. QED
    BY <1>1, <2>3, <2>5, SessionCalmer, Zenon
<1>5. CASE w.kind = "bind"
  <2>1. PICK b \in BOOLEAN : b <=> v = "success"
    BY Zenon
  <2>2. /\ n2 = [[[n EXCEPT !.working = @ \ {w}] EXCEPT !.auth = (v = "success")] EXCEPT !.stream = Append(@, x)]
        /\ \A o \in n.working : o.kind = "bind" => o.id >= w.id
    <3>1. /\ net' = [net EXCEPT ![h] = [[[net[h] EXCEPT !.working = @ \ {w}] EXCEPT !.auth = (v = "success")]
                                         EXCEPT !.stream = Append(@, x)]]
          /\ \A o \in net[h].working : o.kind = "bind" => o.id >= w.id
      BY <1>2, <1>5, Zenon DEF serverDone, serverSends
    <3>2. QED
      BY <1>1, <3>1, LibFacts, Zenon
  <2>3. n2.stream = Append(n.stream, x) /\ n2.working = n.working \ {w} /\ (n2.auth <=> v = "success")
    BY <2>2, Zenon DEF NetType
  <2>4. ASSUME x.id = i PROVE \A o \in n2.working : o.kind # "bind"
    <3>1. /\ Given(msgid[h], requests[h], responses[h], n, sent[h]) /\ Ending(n)
      BY <1>1, Zenon DEF LibInv, HandleSound, HandleOK
    <3>2. \A o \in n.working : o.id <= i /\ o.id \in Nat /\ i \in Nat
      <4>1. i \in Nat
        BY LibFacts, IdNat, Zenon
      <4>2. \A o \in n.working : o.id <= i
        BY <1>1, <3>1, Zenon DEF Given
      <4>3. \A o \in n.working : o.id \in Nat
        BY NetFacts, Zenon
      <4>4. QED
        BY <4>1, <4>2, <4>3, Zenon
    <3>3. \A o \in n.working : o.kind = "bind" => o.id = w.id
      <4>1. w.id = i
        BY <1>3, <2>4, Zenon
      <4>2. \A o \in n.working : o.kind = "bind" => o.id >= i
        BY <2>2, <4>1, Zenon
      <4>3. QED
        BY <3>2, <4>1, <4>2, OnlyId, Zenon
    <3>4. \A o \in n.working : o.id = w.id => o = w
      BY <1>1, <3>1, Zenon DEF Ending
    <3>5. QED
      BY <2>3, <3>3, <3>4, Zenon
  <2>5. BindFlow(n, i) => BindFlow(n2, i)
    <3>1. w \in n.working /\ n2.working \subseteq n.working
      BY <1>1, <2>3, Zenon
    <3>2. CASE x.id # i
      BY <1>5, <2>3, <3>1, <3>2, FlowAnswer, Zenon
    <3>3. CASE x.id = i
      BY <1>3, <1>5, <2>3, <2>4, <3>1, <3>3, FlowAnswer, Zenon
    <3>4. QED
      BY <3>2, <3>3, Zenon
  <2>6. ~NetSession(net[h])
    BY <1>5, Zenon DEF NetSession
  <2>7. QED
    BY <1>1, <2>5, <2>6, Zenon
<1>6. QED
  BY <1>4, <1>5, Zenon

LEMMA EnvironmentCare ==
  ASSUME IosInv, IosInv', CareInv, Environment PROVE CareInv'
<1>1. PICK h \in Handle : itemSent(h) \/ verdictSent(h) \/ linkDropped(h)
  BY DEF Environment
<1>2. UNCHANGED <<ld, bound, wait, messageId, op, calls, msgid, requests, abandoned, conn>>
  BY <1>1, Zenon DEF itemSent, verdictSent, linkDropped, serverItem, serverDone, dropped, proxyVars
<1>3. \A g \in Handle \ {h} : net'[g] = net[g]
  <2>1. PICK n : net' = [net EXCEPT ![h] = n]
    BY <1>1, Zenon DEF itemSent, verdictSent, linkDropped, serverItem, serverDone, dropped, serverSends
  <2>2. QED
    BY <2>1, LibFacts, Zenon DEF IosInv
<1>4. ASSUME NEW i, i = msgid[h]
      PROVE  /\ NetSession(net[h]) => NetSession(net'[h])
             /\ BindFlow(net[h], i) => BindFlow(net'[h], i)
  <2>1. CASE itemSent(h)
    BY <2>1, ItemFlow, Zenon DEF itemSent, IosInv
  <2>2. CASE verdictSent(h)
    BY <1>4, <2>2, VerdictFlow, Zenon DEF verdictSent, IosInv
  <2>3. CASE linkDropped(h)
    <3>1. PICK k \in 0 .. Len(net[h].stream) :
            net' = [net EXCEPT ![h] = [Closed EXCEPT !.stream = SubSeq(net[h].stream, 1, k)]]
      BY <2>3, Zenon DEF linkDropped, dropped
    <3>2. net'[h] = [Closed EXCEPT !.stream = SubSeq(net[h].stream, 1, k)]
      BY <3>1, LibFacts, Zenon DEF IosInv
    <3>3. net'[h].working = {} /\ ~net'[h].alive /\ net'[h] \in NetType
      BY <3>2, Zenon DEF Closed, IosInv, LibInv, LibTypeOK, NetType
    <3>4. QED
      BY <3>3, FlowCut, Zenon
  <2>4. QED
    BY <1>1, <2>1, <2>2, <2>3, Zenon
<1>5. IdsKept
  BY <1>2, IdsSame, Zenon DEF IosInv
<1>6. Marked' /\ OpsInv'
  BY <1>2, <1>5, AsideCare, Zenon
<1>7. Heard' /\ (Searching => Searching')
  BY <1>2, Zenon DEF Heard, listening, CareInv, Searching
<1>8. Binding'
  <2>1. SUFFICES ASSUME wait # Null, wait.how \in {"simple", "sasl"} PROVE BindFlow(net'[ld], wait.id)
    BY <1>2, Zenon DEF Binding
  <2>2. listening
    BY <2>1, Zenon DEF listening
  <2>3. BindFlow(net[ld], wait.id) /\ wait.id = msgid[ld] /\ ld \in Handle
    BY <2>1, <2>2, ListenFacts, Zenon
  <2>4. QED
    BY <1>3, <1>4, <2>3, Zenon
<1>9. ASSUME bound PROVE Session'
  <2>1. Session /\ ld \in Handle
    BY <1>9, Zenon DEF CareInv, BoundInv, IosInv, ProxyInv, ProxyTypes
  <2>2. NetSession(net'[ld])
    BY <1>3, <1>4, <2>1, Zenon DEF Session
  <2>3. QED
    BY <1>2, <2>1, <2>2, Zenon DEF Session, Untouched, timedOutReq
<1>10. QED
  BY <1>2, <1>6, <1>7, <1>8, <1>9, Zenon DEF CareInv, BoundInv

\* Nothing happens to the connection.
LEMMA FrameCare ==
  ASSUME IosInv, IosInv', CareInv, Destroy \/ UNCHANGED vars PROVE CareInv'
<1>1. UNCHANGED <<ld, bound, wait, messageId, op, calls, msgid, requests, abandoned, conn, net>>
  BY Zenon DEF Destroy, destroyRequest, destroyResult, vars, libVars, proxyVars
<1>2. IdsKept
  BY <1>1, IdsSame, Zenon DEF IosInv
<1>3. Marked' /\ OpsInv'
  BY <1>1, <1>2, AsideCare, Zenon
<1>4. Heard' /\ BoundInv'
  BY <1>1, Zenon DEF CareInv, Heard, listening, BoundInv, Session, Searching, Binding, Untouched, timedOutReq
<1>5. QED
  BY <1>3, <1>4, Zenon DEF CareInv

LEMMA CareStep ==
  ASSUME IosInv, IosInv', LastRef, CareInv, [CarefulNext]_vars PROVE CareInv'
<1>1. CASE Waiting
  BY <1>1, LookCare, AnsweredCare, LostCare, TimedOutCare, SaslStepCare, TlsCare, Zenon DEF Waiting
<1>2. ASSUME NEW r \in Req, sessionScript(r) PROVE CareInv'
  BY <1>2, ConnectCare, BindCare, SearchCare, Zenon DEF sessionScript
<1>3. QED
  BY <1>1, <1>2, AbandonCare, DisconnectCare, EnvironmentCare, FrameCare, Zenon DEF CarefulNext

LEMMA CareStart == Init => CareInv
<1> SUFFICES ASSUME Init PROVE CareInv
  BY Zenon
<1>1. Marked
  BY Zenon DEF Init, LibInit, Marked
<1>2. OpsInv
  BY Zenon DEF Init, OpsInv, SentOf, Distinct
<1>3. Heard /\ BoundInv
  BY Zenon DEF Init, Heard, listening, BoundInv, Binding
<1>4. QED
  BY <1>1, <1>2, <1>3, Zenon DEF CareInv

\* CarefulNext only takes steps of Next.
LEMMA CarefulIsNext == [CarefulNext]_vars => [Next]_vars
BY Zenon DEF CarefulNext, Next, sessionScript, Script

LEMMA CareMeans ==
  ASSUME CareInv PROVE AnswersHeard /\ BoundIsAuthenticated
BY DEF CareInv, Heard, AnswersHeard, BoundInv, Session, NetSession, BoundIsAuthenticated, isBound
===============================================================================
