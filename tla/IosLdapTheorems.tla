----------------------------- MODULE IosLdapTheorems -----------------------------
(***************************************************************************)
(* The safety of the iOS connection and its requests, for any number of    *)
(* requests, handles, message IDs and items: the invariants of             *)
(* IosLdapSteps (the messages and the proxies), IosLdapProofs (references  *)
(* and waits) and IosCareful (the careful application) hold together.      *)
(*                                                                         *)
(* They need each other.  What IosLdapSteps shows of a step it shows under *)
(* LastRef, which says when ldap_free_connection closes a connection and   *)
(* follows from the references that IosLdapProofs counts.                  *)
(***************************************************************************)
EXTENDS IosCareful, IosLdapProofs

LEMMA RefsAreLast == RefInv => LastRef
BY RefsLast, Zenon DEF LastRef

SessionInv == WaitInv /\ RefInv /\ IosInv

LEMMA SessionKept == SessionInv /\ [Next]_vars => SessionInv'
<1> SUFFICES ASSUME SessionInv, [Next]_vars PROVE SessionInv'
  BY Zenon
<1>1. WaitInv /\ RefInv /\ IosInv /\ LastRef
  BY RefsAreLast, Zenon DEF SessionInv
<1>2. RefInv' /\ SessionTypes' /\ RequestStep
  BY <1>1, EveryStep, Zenon DEF GoodStep
<1>3. WaitInv'
  BY <1>1, <1>2, WaitKept, Zenon
<1>4. IosInv'
  BY <1>1, IosStep, Zenon
<1>5. QED
  BY <1>2, <1>3, <1>4, Zenon DEF SessionInv

LEMMA SessionStart == Init => SessionInv
BY InitHolds, IosStart, Zenon DEF SessionInv

\* Every field of the proxies and of the library has its type.
THEOREM IosTypes == Spec => []TypeOK
<1>1. SessionInv => TypeOK
  BY IosTyped, Zenon DEF SessionInv
<1>2. QED
  BY <1>1, SessionKept, SessionStart, PTL DEF Spec

\* ld_responses holds an unfinished chain only for an outstanding request, a
\* finished one only for a request that is no longer on the list, and nothing
\* for an abandoned message ID.
THEOREM QueuesOwned == Spec => []QueueIsOurs
<1>1. SessionInv => QueueIsOurs
  BY IosQueues, Zenon DEF SessionInv
<1>2. QED
  BY <1>1, SessionKept, SessionStart, PTL DEF Spec

\* The chain a search received has one owner until it is freed, and it is
\* freed once.
THEOREM ChainsOwned == Spec => []OneOwner
<1>1. ASSUME SessionInv PROVE OneOwner
  <2>1. \A r \in Req : Owned(r)
    BY <1>1, Zenon DEF SessionInv, IosInv, ProxyInv
  <2>2. QED
    BY <2>1, OwnersCounted, Zenon DEF Owned
<1>2. QED
  BY <1>1, SessionKept, SessionStart, PTL DEF Spec

\* A search hands over exactly what the server sent for it, in order, whatever
\* other answers, late, tossed or queued, were read in between.
THEOREM ResultsIntact == Spec => []ResultIntegrity
<1>1. SessionInv => ResultIntegrity
  BY IosReceived, Zenon DEF SessionInv
<1>2. QED
  BY <1>1, SessionKept, SessionStart, PTL DEF Spec

-------------------------------------------------------------------------------
(* The careful application. *)

CarefulInv == SessionInv /\ CareInv

LEMMA CarefulKept == CarefulInv /\ [CarefulNext]_vars => CarefulInv'
<1> SUFFICES ASSUME CarefulInv, [CarefulNext]_vars PROVE CarefulInv'
  BY Zenon
<1>1. SessionInv /\ CareInv /\ [Next]_vars
  BY CarefulIsNext, Zenon DEF CarefulInv
<1>2. SessionInv'
  BY <1>1, SessionKept, Zenon
<1>3. IosInv /\ IosInv' /\ LastRef
  BY <1>1, <1>2, RefsAreLast, Zenon DEF SessionInv
<1>4. CareInv'
  BY <1>1, <1>3, CareStep, Zenon
<1>5. QED
  BY <1>2, <1>4, Zenon DEF CarefulInv

LEMMA CarefulStart == Init => CarefulInv
BY SessionStart, CareStart, Zenon DEF CarefulInv

\* An application that connects when it is not connected, binds when it is
\* connected and not bound, disconnects when it is bound and abandons only a
\* search of this connection that timed out is always heard: the request that
\* sendRequest waits for is outstanding and none of its answers is thrown away.
THEOREM AnswersAreHeard == CarefulSpec => []AnswersHeard
<1>1. CarefulInv => AnswersHeard
  BY CareMeans, Zenon DEF CarefulInv
<1>2. QED
  BY <1>1, CarefulKept, CarefulStart, PTL DEF CarefulSpec

\* For the same application isBound is what the server thinks of the session
\* as long as its connection holds, also after time-outs, abandons and answers
\* that come late.
THEOREM BoundIsGenuine == CarefulSpec => []BoundIsAuthenticated
<1>1. CarefulInv => BoundIsAuthenticated
  BY CareMeans, Zenon DEF CarefulInv
<1>2. QED
  BY <1>1, CarefulKept, CarefulStart, PTL DEF CarefulSpec
===============================================================================
