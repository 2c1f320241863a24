------------------------------ MODULE IosLdapProofs ------------------------------
(***************************************************************************)
(* What is proved of IosLdap and of the library below it, for any number   *)
(* of requests, handles, message IDs and items.                            *)
(***************************************************************************)
EXTENDS IosLdap, FiniteSetTheorems, TLAPS

-------------------------------------------------------------------------------
(* The reference count of a handle's connection. *)

\* The part of the library's state that the count depends on.
refVars == <<msgid, requests, conn, refs>>

RefTypes ==
  /\ msgid \in [Handle -> Nat]
  /\ requests \in [Handle -> SUBSET Nat]
  /\ conn \in [Handle -> {"none", "up", "broken"}]
  /\ refs \in [Handle -> Nat]

\* A new request never has the ID of an outstanding one.
IdsGiven == \A h \in Handle : requests[h] \subseteq 1 .. msgid[h]

RefInv == RefTypes /\ IdsGiven /\ ConnRefs

\* How many requests there are after one more and after one less.
LEMMA Counting ==
  ASSUME NEW m \in Nat, NEW q, q \subseteq 1 .. m
  PROVE  /\ Cardinality(q) \in Nat
         /\ Cardinality({}) = 0
         /\ Cardinality(q) = 0 <=> q = {}
         /\ Cardinality(q \cup {m + 1}) = Cardinality(q) + 1
         /\ \A i \in q : Cardinality(q \ {i}) = Cardinality(q) - 1
<1>1. IsFiniteSet(1 .. m)
  BY FS_Interval
<1>2. IsFiniteSet(q)
  BY <1>1, FS_Subset, Zenon
<1>3. m + 1 \notin q
  OBVIOUS
<1>4. Cardinality(q) \in Nat /\ (Cardinality(q) = 0 <=> q = {}) /\ Cardinality({}) = 0
  BY <1>2, FS_CardinalityType, FS_EmptySet, Zenon
<1>5. Cardinality(q \cup {m + 1}) = Cardinality(q) + 1
  BY <1>2, <1>3, FS_AddElement
<1>6. \A i \in q : Cardinality(q \ {i}) = Cardinality(q) - 1
  BY <1>2, FS_RemoveElement
<1>7. QED
  BY <1>4, <1>5, <1>6

\* A step of handle h, and what it must establish for h.
LEMMA OneHandle ==
  ASSUME RefInv, RefTypes', NEW h \in Handle,
         \A g \in Handle \ {h} : /\ msgid'[g] = msgid[g] /\ requests'[g] = requests[g]
                                 /\ conn'[g] = conn[g] /\ refs'[g] = refs[g],
         requests'[h] \subseteq 1 .. msgid'[h],
         LET n == Cardinality(requests'[h]) IN
           \/ conn'[h] = "none" /\ n = 0 /\ refs'[h] = 0
           \/ conn'[h] = "up" /\ refs'[h] = n + 1
           \/ conn'[h] = "broken" /\ n > 0 /\ refs'[h] = n
  PROVE  RefInv'
<1>1. IdsGiven'
  BY DEF RefInv, IdsGiven
<1>2. ConnRefs'
  BY DEF RefInv, ConnRefs
<1>3. QED
  BY <1>1, <1>2 DEF RefInv

LEMMA RefFrame == RefInv /\ UNCHANGED refVars => RefInv'
BY DEF RefInv, RefTypes, IdsGiven, ConnRefs, refVars

LEMMA SendRefs ==
  ASSUME RefInv, NEW h \in Handle, NEW kind, ldap_send(h, kind)
  PROVE  RefInv'
<1> DEFINE q == requests[h]  m == msgid[h]
<1>1. m \in Nat /\ q \subseteq 1 .. m
  BY DEF RefInv, RefTypes, IdsGiven
<1>2. /\ Cardinality(q) \in Nat /\ Cardinality(q \cup {m + 1}) = Cardinality(q) + 1
  BY <1>1, Counting
<1>3. RefTypes'
  BY <1>1 DEF RefInv, RefTypes, ldap_send
<1>4. /\ msgid'[h] = m + 1 /\ requests'[h] = q \cup {m + 1} /\ conn'[h] = "up"
      /\ refs'[h] = IF conn[h] = "none" THEN 2 ELSE refs[h] + 1
      /\ \A g \in Handle \ {h} : /\ msgid'[g] = msgid[g] /\ requests'[g] = requests[g]
                                 /\ conn'[g] = conn[g] /\ refs'[g] = refs[g]
  BY <1>1 DEF RefInv, RefTypes, ldap_send
<1>5. requests'[h] \subseteq 1 .. msgid'[h]
  BY <1>1, <1>4
<1>6. refs'[h] = Cardinality(requests'[h]) + 1
  <2>1. conn[h] # "broken"
    BY DEF ldap_send
  <2>2. \/ conn[h] = "none" /\ Cardinality(q) = 0
        \/ conn[h] = "up" /\ refs[h] = Cardinality(q) + 1
    BY <2>1 DEF RefInv, ConnRefs
  <2>3. QED
    BY <1>2, <1>4, <2>2
<1>7. QED
  BY <1>3, <1>4, <1>5, <1>6, OneHandle, Zenon

\* Steps that leave the requests alone: one that only uses up message IDs, and
\* one that opens a connection that is missing.
LEMMA IdsRefs ==
  ASSUME RefInv, NEW h \in Handle, NEW n \in Nat, msgid' = [msgid EXCEPT ![h] = @ + n],
         UNCHANGED requests,
         \/ UNCHANGED <<conn, refs>>
         \/ /\ conn[h] = "none"
            /\ conn' = [conn EXCEPT ![h] = "up"]
            /\ refs' = [refs EXCEPT ![h] = 1]
  PROVE  RefInv'
<1> DEFINE q == requests[h]  m == msgid[h]
<1>1. m \in Nat /\ q \subseteq 1 .. m
  BY DEF RefInv, RefTypes, IdsGiven
<1>2. Cardinality(q) \in Nat
  BY <1>1, Counting, Zenon
<1>3. RefTypes'
  BY <1>1 DEF RefInv, RefTypes
<1>4. /\ msgid'[h] = m + n /\ requests'[h] = q
      /\ \A g \in Handle \ {h} : /\ msgid'[g] = msgid[g] /\ requests'[g] = requests[g]
                                 /\ conn'[g] = conn[g] /\ refs'[g] = refs[g]
  BY <1>1 DEF RefInv, RefTypes
<1>5. requests'[h] \subseteq 1 .. msgid'[h]
  BY <1>1, <1>4
<1>6. CASE UNCHANGED <<conn, refs>>
  BY <1>3, <1>4, <1>5, <1>6, OneHandle DEF RefInv, ConnRefs
<1>7. CASE conn[h] = "none" /\ conn'[h] = "up" /\ refs'[h] = 1
  <2>1. Cardinality(q) = 0
    BY <1>7 DEF RefInv, ConnRefs
  <2>2. refs'[h] = Cardinality(requests'[h]) + 1
    BY <1>4, <1>7, <2>1
  <2>3. QED
    BY <1>3, <1>4, <1>5, <1>7, <2>2, OneHandle
<1>8. QED
  BY <1>6, <1>7 DEF RefInv, RefTypes

\* ldap_free_connection for a request that is taken off the list.
LEMMA DropRefs ==
  ASSUME RefInv, NEW h \in Handle, NEW i \in requests[h], NEW m \in Nat, m >= msgid[h], NEW n,
         requests' = [requests EXCEPT ![h] = @ \ {i}], msgid' = [msgid EXCEPT ![h] = m],
         ldap_free_connection(h, conn[h], n)
  PROVE  RefInv'
<1> DEFINE q == requests[h]
<1>1. msgid[h] \in Nat /\ q \subseteq 1 .. msgid[h]
  BY DEF RefInv, RefTypes, IdsGiven
<1>2. /\ Cardinality(q) \in Nat /\ Cardinality(q) # 0
      /\ Cardinality(q \ {i}) = Cardinality(q) - 1
  <2>1. q # {}
    OBVIOUS
  <2>2. QED
    BY <1>1, <2>1, Counting, Zenon
<1>3. /\ refs' = [refs EXCEPT ![h] = IF refs[h] <= 1 THEN 0 ELSE @ - 1]
      /\ conn' = [conn EXCEPT ![h] = IF refs[h] <= 1 THEN "none" ELSE conn[h]]
  BY DEF ldap_free_connection
<1>4. RefTypes'
  BY <1>3 DEF RefInv, RefTypes
<1>5. /\ msgid'[h] = m /\ requests'[h] = q \ {i}
      /\ refs'[h] = IF refs[h] <= 1 THEN 0 ELSE refs[h] - 1
      /\ conn'[h] = IF refs[h] <= 1 THEN "none" ELSE conn[h]
      /\ \A g \in Handle \ {h} : /\ msgid'[g] = msgid[g] /\ requests'[g] = requests[g]
                                 /\ conn'[g] = conn[g] /\ refs'[g] = refs[g]
  BY <1>3 DEF RefInv, RefTypes
<1>6. requests'[h] \subseteq 1 .. msgid'[h]
  BY <1>1, <1>5
<1>7. \/ conn[h] = "up" /\ refs[h] = Cardinality(q) + 1
      \/ conn[h] = "broken" /\ refs[h] = Cardinality(q)
  BY <1>2 DEF RefInv, ConnRefs
<1>8. LET k == Cardinality(requests'[h]) IN
      \/ conn'[h] = "none" /\ k = 0 /\ refs'[h] = 0
      \/ conn'[h] = "up" /\ refs'[h] = k + 1
      \/ conn'[h] = "broken" /\ k > 0 /\ refs'[h] = k
  <2> DEFINE c == Cardinality(q)
  <2>1. c \in Nat /\ c > 0 /\ Cardinality(requests'[h]) = c - 1
    BY <1>2, <1>5
  <2> HIDE DEF c
  <2>2. CASE conn[h] = "up" /\ refs[h] = c + 1
    <3>1. ~(refs[h] <= 1) /\ refs[h] - 1 = (c - 1) + 1
      BY <2>1, <2>2
    <3>2. QED
      BY <1>5, <2>1, <2>2, <3>1
  <2>3. CASE conn[h] = "broken" /\ refs[h] = c
    <3>1. CASE c = 1
      BY <1>5, <2>1, <2>3, <3>1
    <3>2. CASE c # 1
      <4>1. ~(refs[h] <= 1) /\ c - 1 > 0
        BY <2>1, <2>3, <3>2
      <4>2. QED
        BY <1>5, <2>1, <2>3, <4>1
    <3>3. QED
      BY <3>1, <3>2
  <2>4. QED
    BY <1>7, <2>2, <2>3 DEF c
<1>9. QED
  BY <1>4, <1>5, <1>6, <1>8, OneHandle, Zenon

LEMMA ReadErrorRefs ==
  ASSUME RefInv, NEW h \in Handle, readError(h)
  PROVE  RefInv'
<1> DEFINE q == requests[h]
<1>1. msgid[h] \in Nat /\ q \subseteq 1 .. msgid[h]
  BY DEF RefInv, RefTypes, IdsGiven
<1>2. Cardinality(q) \in Nat
  BY <1>1, Counting, Zenon
<1>3. /\ refs' = [refs EXCEPT ![h] = IF refs[h] <= 1 THEN 0 ELSE @ - 1]
      /\ conn' = [conn EXCEPT ![h] = IF refs[h] <= 1 THEN "none" ELSE "broken"]
      /\ conn[h] = "up" /\ UNCHANGED <<msgid, requests>>
  BY DEF readError, ldap_free_connection
<1>4. RefTypes'
  BY <1>3 DEF RefInv, RefTypes
<1>5. /\ refs'[h] = IF refs[h] <= 1 THEN 0 ELSE refs[h] - 1
      /\ conn'[h] = IF refs[h] <= 1 THEN "none" ELSE "broken"
      /\ \A g \in Handle \ {h} : /\ msgid'[g] = msgid[g] /\ requests'[g] = requests[g]
                                 /\ conn'[g] = conn[g] /\ refs'[g] = refs[g]
  BY <1>3 DEF RefInv, RefTypes
<1>6. refs[h] = Cardinality(q) + 1
  BY <1>3 DEF RefInv, ConnRefs
<1>7. QED
  BY <1>1, <1>2, <1>3, <1>4, <1>5, <1>6, OneHandle

LEMMA UnbindRefs ==
  ASSUME RefInv, NEW h \in Handle, ldap_unbind_ext(h)
  PROVE  RefInv'
<1>1. /\ requests' = [requests EXCEPT ![h] = {}] /\ conn' = [conn EXCEPT ![h] = "none"]
      /\ refs' = [refs EXCEPT ![h] = 0] /\ UNCHANGED msgid
  BY DEF ldap_unbind_ext
<1>2. Cardinality({}) = 0
  BY FS_EmptySet
<1>3. RefTypes'
  BY <1>1 DEF RefInv, RefTypes
<1>4. /\ requests'[h] = {} /\ conn'[h] = "none" /\ refs'[h] = 0
      /\ \A g \in Handle \ {h} : /\ msgid'[g] = msgid[g] /\ requests'[g] = requests[g]
                                 /\ conn'[g] = conn[g] /\ refs'[g] = refs[g]
  BY <1>1 DEF RefInv, RefTypes
<1>5. QED
  BY <1>2, <1>3, <1>4, OneHandle, Zenon

\* A response that is queued or returned ends its request if it is final.
LEMMA SettleRefs ==
  ASSUME RefInv, NEW h \in Handle, expected(h), NEW body, settle(h, body), UNCHANGED msgid
  PROVE  RefInv'
<1>1. CASE IsFinal(body)
  <2>1. /\ nextMsg(h).id \in requests[h] /\ conn[h] = "up"
        /\ requests' = [requests EXCEPT ![h] = @ \ {nextMsg(h).id}]
        /\ ldap_free_connection(h, conn[h], afterRead(h))
    BY <1>1 DEF settle, expected, readable
  <2>2. msgid' = [msgid EXCEPT ![h] = msgid[h]] /\ msgid[h] \in Nat /\ msgid[h] >= msgid[h]
    BY DEF RefInv, RefTypes
  <2>3. QED
    BY <2>1, <2>2, DropRefs, Zenon
<1>2. CASE ~IsFinal(body)
  BY <1>2, RefFrame DEF settle, refVars
<1>3. QED
  BY <1>1, <1>2

LEMMA AbandonRefs ==
  ASSUME RefInv, NEW h \in Handle, NEW id, do_abandon(h, id)
  PROVE  RefInv'
<1>1. CASE queuedWhole(h, id)
  BY <1>1, RefFrame DEF do_abandon, refVars
<1>2. CASE ~queuedWhole(h, id)
  <2> DEFINE m == IF conn[h] = "none" THEN msgid[h] ELSE msgid[h] + 1
  <2>1. m \in Nat /\ m >= msgid[h] /\ msgid[h] \in Nat
    BY DEF RefInv, RefTypes
  <2>2. /\ msgid' = [msgid EXCEPT ![h] = m]
        /\ requests' = [requests EXCEPT ![h] = @ \ {id}]
    BY <1>2 DEF do_abandon
  <2>3. CASE id \in requests[h]
    <3>1. PICK n : ldap_free_connection(h, conn[h], n)
      BY <1>2, <2>3 DEF do_abandon
    <3>2. QED
      BY <2>1, <2>2, <2>3, <3>1, DropRefs, Zenon
  <2>4. CASE id \notin requests[h]
    <3>1. UNCHANGED <<conn, refs>>
      BY <1>2, <2>4 DEF do_abandon
    <3>2. UNCHANGED requests
      BY <2>2, <2>4 DEF RefInv, RefTypes
    <3>3. \E n \in Nat : msgid' = [msgid EXCEPT ![h] = @ + n]
      <4>1. CASE conn[h] = "none"
        <5>1. m = msgid[h] + 0 /\ 0 \in Nat
          BY <2>1, <4>1
        <5>2. QED
          BY <2>2, <5>1, Zenon
      <4>2. CASE conn[h] # "none"
        <5>1. m = msgid[h] + 1 /\ 1 \in Nat
          BY <4>2
        <5>2. QED
          BY <2>2, <5>1, Zenon
      <4>3. QED
        BY <4>1, <4>2
    <3>4. QED
      BY <3>1, <3>2, <3>3, IdsRefs, Zenon
  <2>5. QED
    BY <2>3, <2>4
<1>3. QED
  BY <1>1, <1>2

\* A request that cannot be sent.
LEMMA FailRefs ==
  ASSUME RefInv, NEW h \in Handle,
         ldap_write_fails(h) \/ ldap_open_fails(h, 0) \/ ldap_open_fails(h, 1)
  PROVE  RefInv'
<1>1. ASSUME NEW n \in {0, 1}, ldap_open_fails(h, n) PROVE RefInv'
  <2>1. msgid' = [msgid EXCEPT ![h] = @ + n] /\ UNCHANGED <<requests, conn, refs>> /\ n \in Nat
    BY <1>1 DEF ldap_open_fails
  <2>2. QED
    BY <2>1, IdsRefs, Zenon
<1>2. CASE ldap_write_fails(h)
  <2>1. /\ msgid' = [msgid EXCEPT ![h] = @ + 1] /\ UNCHANGED requests /\ 1 \in Nat
        /\ \/ UNCHANGED <<conn, refs>>
           \/ /\ conn[h] = "none"
              /\ conn' = [conn EXCEPT ![h] = "up"]
              /\ refs' = [refs EXCEPT ![h] = 1]
    BY <1>2 DEF ldap_write_fails
  <2>2. QED
    BY <2>1, IdsRefs, Zenon
<1>3. QED
  BY <1>1, <1>2

-------------------------------------------------------------------------------
(* The sessions of the proxies. *)

\* The JavaScript thread waits only on a handle that exists, and only for a
\* request that has not been answered.
WaitInv ==
  /\ ld \in Handle \cup {Null}
  /\ timed \in [Handle -> BOOLEAN]
  /\ calls = [r \in Req |-> calls[r]]
  /\ wait # Null => ld \in Handle /\ wait \in Waits /\ calls[wait.req] = <<>>

\* The ways a step can concern the requests: none, ...
aside == UNCHANGED <<wait, calls>> /\ (wait # Null => ld' = ld)

\* ... r is issued and waited for, ...
begins(r) ==
  /\ wait = Null /\ calls[r] = <<>>
  /\ wait' \in Waits /\ wait'.req = r /\ ld' \in Handle /\ UNCHANGED calls

\* ... the library goes on with the request that is waited for, ...
continues ==
  /\ wait # Null
  /\ wait' \in Waits /\ wait'.req = wait.req /\ UNCHANGED <<ld, calls>>

\* ... or r is answered, at once or after a wait.
answers(r) ==
  /\ calls[r] = <<>> /\ (wait # Null => wait.req = r)
  /\ wait' = Null /\ calls' = [q \in Req |-> calls'[q]]
  /\ calls'[r] # <<>> /\ \A q \in Req \ {r} : calls'[q] = calls[q]

RequestStep == aside \/ continues \/ \E r \in Req : begins(r) \/ answers(r)

LEMMA FirstCallbacks ==
  ASSUME NEW c PROVE <<>> \o <<c>> # <<>> /\ <<>> \o <<c, c>> # <<>>
<1>1. <<>> \in Seq({c}) /\ <<c>> \in Seq({c}) /\ <<c, c>> \in Seq({c})
  OBVIOUS
<1>2. Len(<<>> \o <<c>>) = 1 /\ Len(<<>> \o <<c, c>>) = 2 /\ Len(<<>>) = 0
  BY <1>1
<1>3. QED
  BY <1>2

LEMMA FireAnswers ==
  ASSUME WaitInv, NEW r \in Req, calls[r] = <<>>, wait # Null => wait.req = r,
         NEW c, fire(r, <<c>>) \/ fire(r, <<c, c>>), wait' = Null
  PROVE  answers(r)
<1>1. PICK cs : calls' = [calls EXCEPT ![r] = @ \o cs] /\ <<>> \o cs # <<>>
  BY FirstCallbacks DEF fire
<1>2. calls = [q \in Req |-> calls[q]]
  BY DEF WaitInv
<1>3. calls' = [q \in Req |-> calls'[q]] /\ calls'[r] # <<>>
  BY <1>1, <1>2, Zenon
<1>4. \A q \in Req \ {r} : calls'[q] = calls[q]
  BY <1>1, <1>2
<1>5. QED
  BY <1>3, <1>4 DEF answers

\* A request that is answered when it is issued, and one after a wait.
LEMMA AnswerNow ==
  ASSUME WaitInv, NEW r \in Req, start(r), NEW c,
         answerNow(r, <<c>>) \/ answerNow(r, <<c, c>>)
  PROVE  answers(r)
BY FireAnswers DEF start, JsIdle, answerNow

LEMMA Finish ==
  ASSUME WaitInv, wait # Null, NEW c, finish(wait.req, <<c>>)
  PROVE  answers(wait.req) /\ wait.req \in Req
BY FireAnswers, Zenon DEF WaitInv, Waits, finish

LEMMA Listen ==
  ASSUME WaitInv, RefInv, NEW r \in Req, ld \in Handle, NEW how \in Calls, NEW limit \in BOOLEAN,
         listen(r, how, limit), calls[r] = <<>>, wait # Null => wait.req = r
  PROVE  RequestStep
<1>1. msgid[ld] + 1 \in Nat
  BY DEF RefInv, RefTypes
<1>2. wait' \in Waits /\ wait'.req = r /\ UNCHANGED <<ld, calls>>
  BY <1>1 DEF listen, Waits
<1>3. QED
  BY <1>2 DEF RequestStep, begins, continues

LEMMA GoOn ==
  ASSUME WaitInv, wait # Null, NEW how \in Calls, goOn(how)
  PROVE  RequestStep
BY DEF WaitInv, Waits, goOn, RequestStep, continues

-------------------------------------------------------------------------------
(* The steps. *)

SessionTypes == ld \in Handle \cup {Null} /\ timed \in [Handle -> BOOLEAN]

\* What each action is shown to do.
GoodStep == RefInv' /\ SessionTypes' /\ RequestStep

LEMMA NotSentStep ==
  ASSUME WaitInv, RefInv, NEW r \in Req, start(r), ld \in Handle, notSent(r)
  PROVE  GoodStep
<1>1. RefInv'
  BY FailRefs DEF notSent
<1>2. RequestStep
  BY AnswerNow, Zenon DEF notSent, RequestStep
<1>3. SessionTypes'
  BY Zenon DEF SessionTypes, WaitInv, notSent, ldap_open_fails, ldap_write_fails
<1>4. QED
  BY <1>1, <1>2, <1>3 DEF GoodStep

\* A request that is sent when it is issued.
LEMMA SendStep ==
  ASSUME WaitInv, RefInv, NEW r \in Req, start(r), ld \in Handle, NEW kind, NEW how \in Calls,
         NEW limit \in BOOLEAN, ldap_send(ld, kind), listen(r, how, limit)
  PROVE  GoodStep
<1>1. RefInv'
  BY SendRefs
<1>2. RequestStep
  BY Listen DEF start, JsIdle
<1>3. SessionTypes'
  BY Zenon DEF SessionTypes, WaitInv, ldap_send, listen
<1>4. QED
  BY <1>1, <1>2, <1>3 DEF GoodStep

LEMMA AbortStep == WaitInv /\ RefInv /\ abort => GoodStep
<1> SUFFICES ASSUME WaitInv, RefInv, abort PROVE GoodStep
  OBVIOUS
<1>1. UNCHANGED <<libVars, ld, wait, calls>>
  BY DEF abort
<1>2. RefInv'
  BY <1>1, RefFrame DEF libVars, refVars
<1>3. QED
  BY <1>1, <1>2 DEF GoodStep, SessionTypes, WaitInv, RequestStep, aside, libVars

LEMMA ConnectStep ==
  ASSUME WaitInv, RefInv, NEW r \in Req, connect(r)
  PROVE  GoodStep
<1>1. start(r)
  BY DEF connect
<1>2. ASSUME NEW h \in Handle, NEW limit \in BOOLEAN, ldap_initialize(h, limit)
      PROVE  RefInv' /\ timed' \in [Handle -> BOOLEAN]
  <2>1. timed' = [timed EXCEPT ![h] = limit] /\ UNCHANGED refVars
    BY <1>2 DEF ldap_initialize, refVars
  <2>2. QED
    BY <1>2, <2>1, RefFrame DEF WaitInv
<1>3. ASSUME NEW h \in Handle, NEW limit \in BOOLEAN, ldap_initialize(h, limit), ld' = h,
             answerNow(r, <<Told("success")>>)
      PROVE  GoodStep
  BY <1>1, <1>2, <1>3, AnswerNow, Zenon DEF GoodStep, SessionTypes, RequestStep
<1>4. ASSUME NEW h \in Handle, ldap_initialize(h, FALSE), ld' = h,
             wait' = [req |-> r, how |-> "starttls", id |-> 0, timed |-> FALSE], UNCHANGED calls
      PROVE  GoodStep
  <2>1. wait' \in Waits /\ wait'.req = r
    BY <1>4 DEF Waits, Calls
  <2>2. begins(r)
    BY <1>1, <1>4, <2>1 DEF begins, start, JsIdle
  <2>3. QED
    BY <1>2, <1>4, <2>2, Zenon DEF GoodStep, SessionTypes, RequestStep
<1>5. CASE answerNow(r, <<Told("error")>>) /\ UNCHANGED <<ld, libVars>>
  <2>1. RefInv' /\ SessionTypes'
    BY <1>5, RefFrame DEF libVars, refVars, SessionTypes, WaitInv
  <2>2. QED
    BY <1>1, <1>5, <2>1, AnswerNow, Zenon DEF GoodStep, RequestStep
<1>6. QED
  BY <1>3, <1>4, <1>5, Zenon DEF connect

LEMMA BindStep ==
  ASSUME WaitInv, RefInv, NEW r \in Req, simpleBind(r) \/ saslBind(r)
  PROVE  GoodStep
<1>1. start(r)
  BY DEF simpleBind, saslBind
<1>2. CASE abort
  BY <1>2, AbortStep
<1>3. CASE ~abort
  <2>1. ld \in Handle /\ timed[ld] \in BOOLEAN
    BY <1>3 DEF simpleBind, saslBind, WaitInv
  <2>2. CASE notSent(r)
    BY <1>1, <2>1, <2>2, NotSentStep
  <2>3. CASE ldap_send(ld, "bind") /\ listen(r, "simple", timed[ld])
    BY <1>1, <2>1, <2>3, SendStep DEF Calls
  <2>4. CASE ldap_send(ld, "search") /\ listen(r, "mechs", timed[ld])
    BY <1>1, <2>1, <2>4, SendStep DEF Calls
  <2>5. CASE /\ wait' = [req |-> r, how |-> "step", id |-> 0, timed |-> timed[ld]]
             /\ UNCHANGED <<libVars, ld, calls>>
    <3>1. wait' \in Waits /\ wait'.req = r
      BY <2>1, <2>5 DEF Waits, Calls
    <3>2. begins(r)
      BY <1>1, <2>1, <2>5, <3>1 DEF begins, start, JsIdle
    <3>3. RefInv' /\ SessionTypes'
      BY <2>5, RefFrame DEF libVars, refVars, SessionTypes, WaitInv
    <3>4. QED
      BY <3>2, <3>3 DEF GoodStep, RequestStep
  <2>6. QED
    BY <1>3, <2>2, <2>3, <2>4, <2>5 DEF simpleBind, saslBind
<1>4. QED
  BY <1>2, <1>3

LEMMA SearchStep ==
  ASSUME WaitInv, RefInv, NEW r \in Req, search(r)
  PROVE  GoodStep
<1>1. start(r)
  BY DEF search
<1>2. ASSUME NEW c, answerNow(r, <<c>>) \/ answerNow(r, <<c, c>>), UNCHANGED <<ld, libVars>>
      PROVE  GoodStep
  <2>1. RefInv' /\ SessionTypes'
    BY <1>2, RefFrame DEF libVars, refVars, SessionTypes, WaitInv
  <2>2. QED
    BY <1>1, <1>2, <2>1, AnswerNow DEF GoodStep, RequestStep
<1>3. CASE searchUnbound(r) \/ \E async \in BOOLEAN : searchZeroLimit(r, async)
  BY <1>2, <1>3, Zenon DEF searchUnbound, searchZeroLimit
<1>4. ASSUME isBound PROVE ld \in Handle /\ timed[ld] \in BOOLEAN
  BY <1>4 DEF isBound, WaitInv
<1>5. CASE searchBadFilter(r)
  <2>1. ld \in Handle
    BY <1>4, <1>5 DEF searchBadFilter
  <2>2. /\ msgid' = [msgid EXCEPT ![ld] = @ + 1] /\ 1 \in Nat
        /\ UNCHANGED <<requests, conn, refs, ld, timed>>
    BY <1>5 DEF searchBadFilter
  <2>3. RefInv'
    BY <2>1, <2>2, IdsRefs, Zenon
  <2>4. SessionTypes'
    BY <2>2 DEF SessionTypes, WaitInv
  <2>5. RequestStep
    BY <1>1, <1>5, AnswerNow, Zenon DEF searchBadFilter, RequestStep
  <2>6. QED
    BY <2>3, <2>4, <2>5 DEF GoodStep
<1>6. CASE searchSend(r)
  <2>1. ld \in Handle /\ timed[ld] \in BOOLEAN
    BY <1>4, <1>6 DEF searchSend
  <2>2. CASE notSent(r)
    BY <1>1, <2>1, <2>2, NotSentStep
  <2>3. ASSUME NEW limit \in BOOLEAN, ldap_send(ld, "search"), listen(r, "sync", limit)
        PROVE  GoodStep
    BY <1>1, <2>1, <2>3, SendStep DEF Calls
  <2>4. CASE ldap_send(ld, "search") /\ listen(r, "async", timed[ld])
    BY <1>1, <2>1, <2>4, SendStep DEF Calls
  <2>5. QED
    BY <1>6, <2>2, <2>3, <2>4 DEF searchSend
<1>7. QED
  BY <1>3, <1>5, <1>6 DEF search

\* The steps of the call that the JavaScript thread is in.
LEMMA SentAgain ==
  ASSUME WaitInv, RefInv, wait # Null, NEW kind, NEW how \in Calls, NEW limit \in BOOLEAN,
         ldap_send(ld, kind), listen(wait.req, how, limit)
  PROVE  GoodStep
<1>1. ld \in Handle /\ wait.req \in Req /\ calls[wait.req] = <<>>
  BY DEF WaitInv, Waits
<1>2. RefInv' /\ RequestStep
  BY <1>1, SendRefs, Listen
<1>3. SessionTypes'
  BY Zenon DEF SessionTypes, WaitInv, ldap_send, listen
<1>4. QED
  BY <1>2, <1>3 DEF GoodStep

LEMMA StartTLSStep == WaitInv /\ RefInv /\ startTLS => GoodStep
<1> SUFFICES ASSUME WaitInv, RefInv, startTLS PROVE GoodStep
  OBVIOUS
<1>1. wait # Null /\ ld \in Handle
  BY DEF startTLS, WaitInv
<1>2. CASE ldap_send(ld, "extended") /\ listen(wait.req, "tls", FALSE)
  BY <1>1, <1>2, SentAgain, Zenon DEF Calls
<1>3. CASE (ldap_open_fails(ld, 1) \/ ldap_write_fails(ld)) /\ goOn("options")
  <2>1. RefInv' /\ RequestStep
    BY <1>1, <1>3, FailRefs, GoOn DEF Calls
  <2>2. SessionTypes'
    BY Zenon, <1>3 DEF SessionTypes, WaitInv, ldap_open_fails, ldap_write_fails, goOn
  <2>3. QED
    BY <2>1, <2>2 DEF GoodStep
<1>4. QED
  BY <1>2, <1>3, Zenon DEF startTLS

LEMMA SetLimitsStep == WaitInv /\ RefInv /\ setLimits => GoodStep
<1> SUFFICES ASSUME WaitInv, RefInv, setLimits PROVE GoodStep
  OBVIOUS
<1>1. wait # Null /\ finish(wait.req, <<Told("success")>>) /\ UNCHANGED refVars
  BY DEF setLimits, refVars
<1>2. RefInv' /\ RequestStep
  BY <1>1, RefFrame, Finish DEF RequestStep
<1>3. SessionTypes'
  BY Zenon DEF SessionTypes, WaitInv, setLimits, finish
<1>4. QED
  BY <1>2, <1>3 DEF GoodStep

LEMMA SaslStepStep == WaitInv /\ RefInv /\ saslStep => GoodStep
<1> SUFFICES ASSUME WaitInv, RefInv, saslStep PROVE GoodStep
  OBVIOUS
<1>1. wait # Null /\ ld \in Handle /\ wait.timed \in BOOLEAN
  BY DEF saslStep, WaitInv, Waits
<1>2. CASE ldap_send(ld, "bind") /\ listen(wait.req, "sasl", wait.timed)
  BY <1>1, <1>2, SentAgain DEF Calls
<1>3. CASE (ldap_open_fails(ld, 0) \/ ldap_write_fails(ld)) /\ finish(wait.req, <<Told("down")>>)
  <2>1. RefInv' /\ RequestStep
    BY <1>1, <1>3, FailRefs, Finish DEF RequestStep
  <2>2. SessionTypes'
    BY Zenon, <1>3 DEF SessionTypes, WaitInv, ldap_open_fails, ldap_write_fails, finish
  <2>3. QED
    BY <2>1, <2>2 DEF GoodStep
<1>4. CASE LET opened == conn[ld] = "none" IN
           /\ conn' = [conn EXCEPT ![ld] = IF opened THEN "up" ELSE @]
           /\ refs' = [refs EXCEPT ![ld] = IF opened THEN 1 ELSE @]
           /\ finish(wait.req, <<Told("error")>>)
           /\ UNCHANGED <<msgid, timed, requests>>
  <2>1. msgid' = [msgid EXCEPT ![ld] = @ + 0] /\ 0 \in Nat
    BY <1>1, <1>4 DEF RefInv, RefTypes
  <2>2. \/ UNCHANGED <<conn, refs>>
        \/ /\ conn[ld] = "none"
           /\ conn' = [conn EXCEPT ![ld] = "up"]
           /\ refs' = [refs EXCEPT ![ld] = 1]
    BY <1>1, <1>4, Zenon DEF RefInv, RefTypes
  <2>3. RefInv'
    BY <1>1, <1>4, <2>1, <2>2, IdsRefs, Zenon
  <2>4. SessionTypes' /\ RequestStep
    BY <1>1, <1>4, Finish DEF SessionTypes, WaitInv, finish, RequestStep
  <2>5. QED
    BY <2>3, <2>4 DEF GoodStep
<1>5. QED
  BY <1>2, <1>3, <1>4 DEF saslStep

LEMMA KeepLookingStep == WaitInv /\ RefInv /\ keepLooking => GoodStep
<1> SUFFICES ASSUME WaitInv, RefInv, keepLooking PROVE GoodStep
  OBVIOUS
<1>1. ld \in Handle /\ UNCHANGED proxyVars
  BY DEF keepLooking, listening, WaitInv
<1>2. CASE toss(ld)
  <2>1. UNCHANGED refVars /\ UNCHANGED timed
    BY <1>2 DEF toss, refVars
  <2>2. QED
    BY <1>1, <2>1, RefFrame
    DEF GoodStep, SessionTypes, WaitInv, RequestStep, aside, proxyVars
<1>3. CASE queue(ld, wait.id)
  <2>1. expected(ld) /\ settle(ld, nextMsg(ld).body) /\ UNCHANGED <<msgid, timed>>
    BY <1>3 DEF queue
  <2>2. RefInv'
    BY <1>1, <2>1, SettleRefs
  <2>3. QED
    BY <1>1, <2>1, <2>2 DEF GoodStep, SessionTypes, WaitInv, RequestStep, aside, proxyVars
<1>4. QED
  BY <1>2, <1>3 DEF keepLooking

LEMMA AnsweredStep == WaitInv /\ RefInv /\ answered => GoodStep
<1> SUFFICES ASSUME WaitInv, RefInv, answered PROVE GoodStep
  OBVIOUS
<1> DEFINE chain == responses[ld][wait.id]
<1>1. wait # Null /\ ld \in Handle
  BY DEF answered, listening, WaitInv
<1>2. PICK code \in codesFor(wait.how, nextMsg(ld).body, chain) :
        /\ take(ld, wait.id, code)
        /\ \/ bindDone(wait.req, code)
           \/ goOn("step")
           \/ goOn("options")
           \/ finish(wait.req, <<Told(code)>>)
           \/ searchDone(wait.req, code, chain)
  BY DEF answered
<1>3. expected(ld) /\ settle(ld, nextMsg(ld).body) /\ UNCHANGED <<msgid, timed>>
  BY <1>2 DEF take, arrived
<1>4. RefInv'
  BY <1>1, <1>3, SettleRefs
<1>5. CASE goOn("step") \/ goOn("options")
  <2>1. RequestStep
    BY <1>1, <1>5, GoOn DEF Calls
  <2>2. QED
    BY <1>3, <1>4, <1>5, <2>1 DEF GoodStep, SessionTypes, WaitInv, goOn
<1>6. CASE \E c : finish(wait.req, <<c>>)
  <2>1. RequestStep
    BY <1>1, <1>6, Finish DEF RequestStep
  <2>2. QED
    BY <1>3, <1>4, <1>6, <2>1 DEF GoodStep, SessionTypes, WaitInv, finish
<1>7. QED
  BY <1>2, <1>5, <1>6, Zenon DEF bindDone, searchDone

LEMMA LostStep == WaitInv /\ RefInv /\ lost => GoodStep
<1> SUFFICES ASSUME WaitInv, RefInv, lost PROVE GoodStep
  OBVIOUS
<1>1. wait # Null /\ ld \in Handle /\ readError(ld)
  BY DEF lost, listening, WaitInv
<1>2. RefInv' /\ UNCHANGED timed
  BY <1>1, ReadErrorRefs DEF readError
<1>3. CASE goOn("options")
  <2>1. RequestStep
    BY <1>1, <1>3, GoOn DEF Calls
  <2>2. QED
    BY <1>2, <1>3, <2>1 DEF GoodStep, SessionTypes, WaitInv, goOn
<1>4. CASE finish(wait.req, <<Told("down")>>)
  <2>1. RequestStep
    BY <1>1, <1>4, Finish DEF RequestStep
  <2>2. QED
    BY <1>2, <1>4, <2>1 DEF GoodStep, SessionTypes, WaitInv, finish
<1>5. QED
  BY <1>3, <1>4 DEF lost

LEMMA TimedOutStep == WaitInv /\ RefInv /\ timedOut => GoodStep
<1> SUFFICES ASSUME WaitInv, RefInv, timedOut PROVE GoodStep
  OBVIOUS
<1>1. wait # Null /\ ld \in Handle /\ finish(wait.req, <<Told("timeout")>>)
  BY DEF timedOut, listening, WaitInv
<1>2. RefInv'
  <2>1. CASE do_abandon(ld, wait.id)
    BY <1>1, <2>1, AbandonRefs
  <2>2. CASE UNCHANGED <<msgid, requests, conn, refs>>
    BY <2>2, RefFrame DEF refVars
  <2>3. QED
    BY <2>1, <2>2 DEF timedOut
<1>3. UNCHANGED timed
  BY DEF timedOut, do_abandon
<1>4. RequestStep
  BY <1>1, Finish DEF RequestStep
<1>5. QED
  BY <1>1, <1>2, <1>3, <1>4 DEF GoodStep, SessionTypes, WaitInv, finish

LEMMA AbandonStep ==
  ASSUME WaitInv, RefInv, NEW r \in Req, abandon(r)
  PROVE  GoodStep
<1>1. CASE abort
  BY <1>1, AbortStep
<1>2. CASE ld # Null /\ do_abandon(ld, messageId[r]) /\ UNCHANGED proxyVars
  <2>1. RefInv'
    BY <1>2, AbandonRefs DEF WaitInv
  <2>2. UNCHANGED <<ld, wait, calls, timed>>
    BY <1>2 DEF proxyVars, do_abandon
  <2>3. QED
    BY <2>1, <2>2 DEF GoodStep, SessionTypes, WaitInv, RequestStep, aside
<1>3. QED
  BY <1>1, <1>2 DEF abandon

LEMMA DisconnectStep == WaitInv /\ RefInv /\ disconnect => GoodStep
<1> SUFFICES ASSUME WaitInv, RefInv, disconnect PROVE GoodStep
  OBVIOUS
<1>1. ld \in Handle /\ wait = Null /\ ld' = Null /\ UNCHANGED <<wait, calls>>
  BY DEF disconnect, JsIdle, WaitInv
<1>2. RefInv' /\ UNCHANGED timed
  <2>1. CASE ldap_unbind_ext(ld)
    BY <1>1, <2>1, UnbindRefs, Zenon DEF ldap_unbind_ext
  <2>2. CASE UNCHANGED libVars
    BY <2>2, RefFrame, SMTT(30) DEF libVars, refVars
  <2>3. QED
    BY <2>1, <2>2 DEF disconnect
<1>3. QED
  BY <1>1, <1>2 DEF GoodStep, SessionTypes, WaitInv, RequestStep, aside

\* The destruction of proxies, the server and the network.
LEMMA OtherStep ==
  ASSUME WaitInv, RefInv, Destroy \/ Environment \/ UNCHANGED vars
  PROVE  GoodStep
<1>1. UNCHANGED refVars /\ UNCHANGED <<ld, wait, calls, timed>>
  <2>1. CASE Destroy
    BY <2>1 DEF Destroy, destroyRequest, destroyResult, libVars, refVars
  <2>2. ASSUME NEW h \in Handle, itemSent(h) \/ verdictSent(h) \/ linkDropped(h)
        PROVE  UNCHANGED refVars /\ UNCHANGED <<ld, wait, calls, timed>>
    <3>1. UNCHANGED proxyVars
      BY <2>2 DEF itemSent, verdictSent, linkDropped
    <3>2. UNCHANGED <<msgid, requests, conn, refs, timed>>
      BY <2>2, Zenon DEF itemSent, verdictSent, linkDropped, serverItem, serverDone, dropped
    <3>3. QED
      BY <3>1, <3>2 DEF proxyVars, refVars
  <2>3. CASE UNCHANGED vars
    BY <2>3 DEF vars, libVars, proxyVars, refVars
  <2>4. QED
    BY <2>1, <2>2, <2>3, SMTT(30) DEF Environment
<1>2. QED
  BY <1>1, RefFrame, SMTT(30) DEF GoodStep, SessionTypes, WaitInv, RequestStep, aside

LEMMA EveryStep == WaitInv /\ RefInv /\ [Next]_vars => GoodStep
<1> SUFFICES ASSUME WaitInv, RefInv, [Next]_vars PROVE GoodStep
  OBVIOUS
<1>1. ASSUME NEW r \in Req, Script(r) PROVE GoodStep
  BY <1>1, ConnectStep, BindStep, SearchStep, AbandonStep DEF Script
<1>2. CASE Waiting
  BY <1>2, KeepLookingStep, AnsweredStep, LostStep, TimedOutStep, SaslStepStep, StartTLSStep,
     SetLimitsStep DEF Waiting
<1>3. QED
  BY <1>1, <1>2, DisconnectStep, OtherStep DEF Next

\* The ways a step can concern the requests keep WaitInv ...
LEMMA WaitKept == WaitInv /\ SessionTypes' /\ RequestStep => WaitInv'
<1> SUFFICES ASSUME WaitInv, SessionTypes', RequestStep PROVE WaitInv'
  OBVIOUS
<1> USE DEF SessionTypes, WaitInv
<1>1. CASE aside
  BY <1>1 DEF aside
<1>2. CASE continues
  BY <1>2 DEF continues
<1>3. ASSUME NEW r \in Req, begins(r) PROVE WaitInv'
  BY <1>3 DEF begins
<1>4. ASSUME NEW r \in Req, answers(r) PROVE WaitInv'
  BY <1>4 DEF answers
<1>5. QED
  BY <1>1, <1>2, <1>3, <1>4 DEF RequestStep

\* ... and are steps of the contract.
LEMMA ContractKept ==
  ASSUME WaitInv, RequestStep
  PROVE  [Contract!Next]_([r \in Req |-> told(r)])
<1> DEFINE told0 == [r \in Req |-> told(r)]
<1>1. Null \notin Waits
  BY NullAssumption
<1>2. CASE aside
  BY <1>2 DEF aside, told
<1>3. CASE continues
  <2>1. \A q \in Req : told(q)' = told(q)
    BY <1>1, <1>3 DEF continues, told
  <2>2. QED
    BY <2>1
<1>4. ASSUME NEW r \in Req, begins(r) PROVE Contract!Next
  <2>1. told(r) = "none" /\ told(r)' = "pending"
    BY <1>1, <1>4 DEF begins, told
  <2>2. \A q \in Req \ {r} : told(q)' = told(q)
    BY <1>1, <1>4 DEF begins, told
  <2>3. told0' = [told0 EXCEPT ![r] = "pending"]
    BY <2>1, <2>2, Zenon
  <2>4. QED
    BY <2>1, <2>3, Zenon DEF Contract!Next, Contract!Issue
<1>5. ASSUME NEW r \in Req, answers(r) PROVE Contract!Next
  <2>1. told(r) \in {"none", "pending"} /\ told(r)' \in {"success", "error"}
    BY <1>5 DEF answers, told
  <2>2. \A q \in Req \ {r} : told(q)' = told(q)
    BY <1>5 DEF answers, told
  <2>3. told0' = [told0 EXCEPT ![r] = told(r)']
    BY <2>2, Zenon
  <2>4. Contract!Answer(r, told(r)')
    BY <2>1, <2>3 DEF Contract!Answer
  <2>5. QED
    BY <2>1, <2>4 DEF Contract!Next, Contract!Final
<1>6. QED
  BY <1>2, <1>3, <1>4, <1>5 DEF RequestStep

LEMMA InitHolds == Init => WaitInv /\ RefInv
<1> SUFFICES ASSUME Init PROVE WaitInv /\ RefInv
  OBVIOUS
<1>1. WaitInv
  BY Zenon DEF Init, LibInit, WaitInv
<1>2. /\ msgid = [h \in Handle |-> 0] /\ requests = [h \in Handle |-> {}]
      /\ conn = [h \in Handle |-> "none"] /\ refs = [h \in Handle |-> 0]
  BY DEF Init, LibInit
<1>3. RefTypes /\ IdsGiven
  BY <1>2 DEF RefTypes, IdsGiven
<1>4. ConnRefs
  BY <1>2, FS_EmptySet DEF ConnRefs
<1>5. QED
  BY <1>1, <1>3, <1>4 DEF RefInv

\* A connection without a reference, or with the last one, is used by no
\* request, or by one.
LEMMA RefsLast ==
  ASSUME RefInv, NEW h \in Handle
  PROVE  /\ conn[h] = "none" => requests[h] = {}
         /\ conn[h] = "up" /\ refs[h] <= 1 => requests[h] = {}
         /\ refs[h] <= 1 => \A i \in requests[h] : requests[h] = {i}
<1> DEFINE q == requests[h]  n == Cardinality(q)
<1>1. msgid[h] \in Nat /\ q \subseteq 1 .. msgid[h]
  BY DEF RefInv, RefTypes, IdsGiven
<1>2. \/ conn[h] = "none" /\ n = 0 /\ refs[h] = 0
      \/ conn[h] = "up" /\ refs[h] = n + 1
      \/ conn[h] = "broken" /\ n > 0 /\ refs[h] = n
  BY DEF RefInv, ConnRefs
<1> HIDE DEF q
<1>3. n \in Nat /\ (n = 0 <=> q = {}) /\ \A i \in q : Cardinality(q \ {i}) = n - 1
  BY <1>1, Counting
<1>4. ASSUME refs[h] <= 1, NEW i \in q PROVE q = {i}
  <2>1. n = 1
    BY <1>2, <1>3, <1>4 DEF n
  <2>2. Cardinality(q \ {i}) = 0 /\ q \ {i} \subseteq 1 .. msgid[h]
    BY <1>1, <1>3, <2>1
  <2>3. q \ {i} = {}
    BY <1>1, <2>2, Counting
  <2>4. QED
    BY <2>3
<1>5. (conn[h] = "none" => q = {}) /\ (conn[h] = "up" /\ refs[h] <= 1 => q = {})
  BY <1>2, <1>3 DEF n
<1>6. QED
  BY <1>4, <1>5 DEF q

\* One owner at a time.
LEMMA OwnersCounted ==
  ASSUME \A r \in Req :
           \/ r \notin taken /\ message[r] = Null /\ results[r] = Null /\ freed[r] = 0
           \/ r \in taken /\ message[r] # Null /\ results[r] = Null /\ freed[r] = 0
           \/ r \in taken /\ message[r] = Null /\ results[r] # Null /\ freed[r] = 0
           \/ r \in taken /\ message[r] = Null /\ results[r] = Null /\ freed[r] = 1
  PROVE  OneOwner
<1> SUFFICES ASSUME NEW r \in Req
             PROVE  LET holders == {p \in {"request", "result"} :
                                      (IF p = "request" THEN message ELSE results)[r] # Null} IN
                    Cardinality(holders) + freed[r] = IF r \in taken THEN 1 ELSE 0
  BY DEF OneOwner
<1> DEFINE S == {p \in {"request", "result"} :
                  (IF p = "request" THEN message ELSE results)[r] # Null}
<1>1. /\ message[r] = Null /\ results[r] = Null => S = {}
      /\ message[r] # Null /\ results[r] = Null => S = {"request"}
      /\ message[r] = Null /\ results[r] # Null => S = {"result"}
  OBVIOUS
<1> HIDE DEF S
<1>2. Cardinality({}) = 0 /\ Cardinality({"request"}) = 1 /\ Cardinality({"result"}) = 1
  BY FS_EmptySet, FS_Singleton
<1>3. Cardinality(S) + freed[r] = IF r \in taken THEN 1 ELSE 0
  BY <1>1, <1>2
<1>4. QED
  BY <1>3 DEF S

-------------------------------------------------------------------------------
(* The theorems. *)

\* lconn_refcnt is right in every reachable state, however requests, time-outs,
\* abandons, read errors and failed writes follow each other: the library never
\* closes a connection a request still uses, and never keeps one for nothing.
THEOREM RefsCounted == Spec => []ConnRefs
<1>1. WaitInv /\ RefInv /\ [Next]_vars => WaitInv' /\ RefInv'
  BY EveryStep, WaitKept DEF GoodStep
<1>2. RefInv => ConnRefs
  BY DEF RefInv
<1>3. QED
  BY InitHolds, <1>1, <1>2, PTL DEF Spec

\* The iOS request proxies implement RequestContract: an answer is final.
THEOREM IosContractImplemented == Spec => ImplementsContract
<1>1. WaitInv /\ RefInv /\ [Next]_vars => WaitInv' /\ RefInv'
  BY EveryStep, WaitKept DEF GoodStep
<1>2. WaitInv /\ RefInv /\ [Next]_vars => [Contract!Next]_([r \in Req |-> told(r)])
  BY EveryStep, ContractKept DEF GoodStep
<1>3. Init => Contract!Init
  BY Zenon DEF Init, Contract!Init, told
<1>4. QED
  BY InitHolds, <1>1, <1>2, <1>3, PTL DEF Spec, ImplementsContract, Contract!Spec

-------------------------------------------------------------------------------
(* The careful application. *)

HandleInv ==
  /\ ld \in Handle \cup {Null}
  /\ heap = [h \in Handle |-> heap[h]]
  /\ NoHandleLeft

\* Only ldap_initialize and ldap_unbind_ext change which handles are live.
LEMMA HeapKept ==
  ASSUME \/ \E r \in Req : simpleBind(r) \/ saslBind(r) \/ search(r) \/ abandon(r)
         \/ Waiting \/ Destroy \/ Environment
  PROVE  UNCHANGED <<heap, ld>>
<1>1. ASSUME NEW h, NEW k, ldap_send(h, k) PROVE UNCHANGED heap
  BY <1>1 DEF ldap_send
<1>2. ASSUME NEW h, NEW n, ldap_open_fails(h, n) \/ ldap_write_fails(h) PROVE UNCHANGED heap
  BY <1>2 DEF ldap_open_fails, ldap_write_fails
<1>3. ASSUME NEW q, notSent(q) PROVE UNCHANGED <<heap, ld>>
  BY <1>2, <1>3 DEF notSent
<1>4. ASSUME NEW q, NEW how, NEW limit, listen(q, how, limit) PROVE UNCHANGED ld
  BY <1>4 DEF listen
<1>5. ASSUME abort PROVE UNCHANGED <<heap, ld>>
  BY <1>5 DEF abort, libVars
<1>6. ASSUME NEW h, NEW i, do_abandon(h, i) PROVE UNCHANGED heap
  BY <1>6 DEF do_abandon
<1>7. ASSUME NEW r \in Req, simpleBind(r) \/ saslBind(r) PROVE UNCHANGED <<heap, ld>>
  BY <1>1, <1>3, <1>4, <1>5, <1>7 DEF simpleBind, saslBind, libVars
<1>8. ASSUME NEW r \in Req, search(r) PROVE UNCHANGED <<heap, ld>>
  BY <1>1, <1>3, <1>4, <1>8, Zenon
  DEF search, searchUnbound, searchBadFilter, searchSend, searchZeroLimit, libVars
<1>9. ASSUME NEW r \in Req, abandon(r) PROVE UNCHANGED <<heap, ld>>
  BY <1>5, <1>6, <1>9 DEF abandon, proxyVars
<1>10. CASE Waiting
  <2>1. ASSUME NEW q, NEW cs, finish(q, cs) PROVE UNCHANGED ld
    BY <2>1 DEF finish
  <2>2. ASSUME NEW how, goOn(how) PROVE UNCHANGED ld
    BY <2>2 DEF goOn
  <2>3. CASE keepLooking
    BY <2>3 DEF keepLooking, toss, queue, proxyVars
  <2>4. CASE answered
    <3>1. UNCHANGED heap
      BY <2>4 DEF answered, take
    <3>2. UNCHANGED ld
      BY <2>1, <2>2, <2>4, Zenon DEF answered, bindDone, searchDone
    <3>3. QED
      BY <3>1, <3>2, SMTT(30)
  <2>5. CASE lost
    BY <2>1, <2>2, <2>5 DEF lost, readError
  <2>6. CASE timedOut
    BY <1>6, <2>1, <2>6 DEF timedOut
  <2>7. CASE saslStep
    BY <1>1, <1>2, <1>4, <2>1, <2>7 DEF saslStep
  <2>8. CASE startTLS
    BY <1>1, <1>2, <1>4, <2>2, <2>8, Zenon DEF startTLS
  <2>9. CASE setLimits
    BY <2>1, <2>9 DEF setLimits
  <2>10. QED
    BY <1>10, <2>3, <2>4, <2>5, <2>6, <2>7, <2>8, <2>9 DEF Waiting
<1>11. CASE Destroy
  BY <1>11, Zenon DEF Destroy, destroyRequest, destroyResult, libVars
<1>12. CASE Environment
  BY <1>12, Zenon DEF Environment, itemSent, verdictSent, linkDropped, serverItem, serverDone, dropped,
               proxyVars
<1>13. QED
  BY <1>7, <1>8, <1>9, <1>10, <1>11, <1>12

LEMMA HandleStep == HandleInv /\ [CarefulNext]_vars => HandleInv'
<1> SUFFICES ASSUME HandleInv, [CarefulNext]_vars PROVE HandleInv'
  OBVIOUS
<1> USE DEF HandleInv, NoHandleLeft
<1>1. CASE UNCHANGED <<heap, ld>>
  BY <1>1
<1>2. ASSUME NEW r \in Req, ld = Null, connect(r) PROVE HandleInv'
  <2>1. CASE UNCHANGED <<heap, ld>>
    BY <1>1, <2>1
  <2>2. ASSUME NEW h \in Handle, heap' = [heap EXCEPT ![h] = "live"], ld' = h PROVE HandleInv'
    <3>1. \A g \in Handle : heap[g] # "live"
      BY <1>2, LibAssumption
    <3>2. QED
      BY <2>2, <3>1
  <2>3. QED
    BY <1>2, <2>1, <2>2 DEF connect, ldap_initialize, libVars
<1>3. CASE bound /\ disconnect
  <2>1. ld \in Handle /\ heap' = [heap EXCEPT ![ld] = "freed"] /\ ld' = Null
    BY <1>3 DEF disconnect, ldap_unbind_ext
  <2>2. \A g \in Handle : heap'[g] # "live"
    BY <2>1
  <2>3. QED
    BY <2>1, <2>2
<1>4. CASE Waiting \/ Destroy \/ Environment \/ UNCHANGED vars
  <2>1. CASE UNCHANGED vars
    BY <1>1, <2>1 DEF vars, libVars, proxyVars
  <2>2. QED
    BY <1>1, <1>4, <2>1, HeapKept
<1>5. ASSUME NEW r \in Req, sessionScript(r) \/ (ownTimeout(r) /\ abandon(r)) PROVE HandleInv'
  BY <1>1, <1>2, <1>5, HeapKept DEF sessionScript
<1>6. QED
  BY <1>3, <1>4, <1>5 DEF CarefulNext

\* An application that connects only when it is disconnected and disconnects
\* only when it is bound never leaves a live handle behind: NoHandleLeft.
THEOREM CarefulHandles == CarefulSpec => []NoHandleLeft
<1>1. Init => HandleInv
  BY DEF Init, LibInit, HandleInv, NoHandleLeft
<1>2. HandleInv => NoHandleLeft
  BY DEF HandleInv
<1>3. QED
  BY <1>1, <1>2, HandleStep, PTL DEF CarefulSpec
===============================================================================
