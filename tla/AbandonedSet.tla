------------------------------ MODULE AbandonedSet ------------------------------
(***************************************************************************)
(* What ld_abandoned promises its users, do_abandon and try_read1msg: it   *)
(* is a set of message IDs.  LibLdap uses it as this set; AbandonedList    *)
(* is the sorted array that implements it.                                 *)
(***************************************************************************)
CONSTANT Ids

VARIABLES
  abandoned,  \* the IDs whose answers are to be tossed
  answer      \* what the last ldap_abandoned said

vars == <<abandoned, answer>>

Init == abandoned = {} /\ answer = FALSE

Add(id) == abandoned' = abandoned \cup {id} /\ UNCHANGED answer
Remove(id) == abandoned' = abandoned \ {id} /\ UNCHANGED answer
Ask(id) == answer' = (id \in abandoned) /\ UNCHANGED abandoned

Next == \E id \in Ids : Add(id) \/ Remove(id) \/ Ask(id)

Spec == Init /\ [][Next]_vars
===============================================================================
