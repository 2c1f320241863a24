---------------------------- MODULE RequestContract ----------------------------
(***************************************************************************)
(* What every ti.ldap request promises its caller, on either platform: a   *)
(* request that was issued ends in at most one of two ways, it succeeds or *)
(* it fails, and once the application has been told which, that answer     *)
(* never changes.  How often the callback runs, on which thread, and what  *)
(* happens on the wire in between are left to the implementations.         *)
(***************************************************************************)
CONSTANT Req

VARIABLE outcome

Final == {"success", "error"}

Init == outcome = [r \in Req |-> "none"]

\* The request is under way and the application has not been told anything.
Issue(r) ==
  /\ outcome[r] = "none"
  /\ outcome' = [outcome EXCEPT ![r] = "pending"]

\* The application is told how the request ended.  A synchronous request is
\* issued and answered in one step.
Answer(r, o) ==
  /\ outcome[r] \in {"none", "pending"}
  /\ outcome' = [outcome EXCEPT ![r] = o]

Next == \E r \in Req : Issue(r) \/ \E o \in Final : Answer(r, o)

Spec == Init /\ [][Next]_outcome
===============================================================================
