------------------------------ MODULE AbandonedList ------------------------------
(***************************************************************************)
(* The list of abandoned message IDs of the OpenLDAP library: a sorted     *)
(* array, searched by bisection.  Three callers use it under the mutex     *)
(* ld_abandon_mutex: do_abandon adds an ID, ldap_abandoned asks for one    *)
(* and ldap_mark_abandoned takes one off.  A call is a sequence of steps:  *)
(* the comparisons with the ends, one step per turn of the loop, and what  *)
(* the caller does with the place that was found.                          *)
(***************************************************************************)
EXTENDS Integers

CONSTANT Ids  \* message IDs

ASSUME IdsAssumption == Ids \subseteq Nat

VARIABLES
  v, n,             \* ld_abandoned, ld_nabandoned: v is indexed from 0 to n - 1
  caller,           \* whose call is under way, "none" if there is none
  pc,               \* "enter", "loop" or "found" of ldap_int_bisect_find
  id,               \* the ID it looks for
  begin, end, pos,  \* its local variables; pos is also its result *idxp
  rc,               \* 1 if the ID is in the array
  answer            \* what the last ldap_abandoned returned

list == <<v, n>>
call == <<caller, id>>
locals == <<begin, end, pos, rc>>
vars == <<list, call, pc, locals, answer>>

Callers == {"do_abandon", "ldap_abandoned", "ldap_mark_abandoned"}

Init ==
  /\ n = 0 /\ v = [i \in 0 .. -1 |-> 0]
  /\ caller = "none" /\ id = 0
  /\ pc = "enter"
  /\ begin = 0 /\ end = 0 /\ pos = 0 /\ rc = 0
  /\ answer = FALSE

\* A caller takes the mutex.
ldap_int_bisect_find(c, x) ==
  /\ caller = "none"
  /\ caller' = c /\ id' = x
  /\ pc' = "enter"
  /\ begin' = 0 /\ end' = n - 1 /\ rc' = 0
  /\ UNCHANGED <<list, pos, answer>>

-------------------------------------------------------------------------------
(* ldap_int_bisect_find. *)

\* The array is empty or begins with a greater ID.
below == n > 0 => id < v[begin]

\* Mutant: an ID equal to the last one counts as beyond it.
compareEnds_eager ==
  /\ caller # "none" /\ pc = "enter"
  /\ IF below THEN pos' = 0 /\ pc' = "found"
     ELSE IF id >= v[end] THEN pos' = n /\ pc' = "found"
     ELSE pc' = "loop" /\ UNCHANGED pos
  /\ UNCHANGED <<list, call, begin, end, rc, answer>>

\* An ID outside the array's range has its place at an end of it.
compareEnds ==
  /\ caller # "none" /\ pc = "enter"
  /\ IF below THEN pos' = 0 /\ pc' = "found"
     ELSE IF id > v[end] THEN pos' = n /\ pc' = "found"
     ELSE pc' = "loop" /\ UNCHANGED pos
  /\ UNCHANGED <<list, call, begin, end, rc, answer>>

\* Mutant: begin = pos++.
bisect_stuck ==
  LET mid == (begin + end) \div 2 IN
  /\ caller # "none" /\ pc = "loop"
  /\ \/ id < v[mid] /\ end' = mid - 1 /\ pos' = mid /\ UNCHANGED <<begin, rc>>
     \/ id > v[mid] /\ begin' = mid /\ pos' = mid + 1 /\ UNCHANGED <<end, rc>>
     \/ id = v[mid] /\ rc' = 1 /\ pos' = mid /\ UNCHANGED <<begin, end>>
  /\ pc' = IF rc' = 0 /\ end' >= begin' THEN "loop" ELSE "found"
  /\ UNCHANGED <<list, call, answer>>

\* Mutant: pos is not moved behind the smaller ID.
bisect_before ==
  LET mid == (begin + end) \div 2 IN
  /\ caller # "none" /\ pc = "loop"
  /\ \/ id < v[mid] /\ end' = mid - 1 /\ pos' = mid /\ UNCHANGED <<begin, rc>>
     \/ id > v[mid] /\ begin' = mid + 1 /\ pos' = mid /\ UNCHANGED <<end, rc>>
     \/ id = v[mid] /\ rc' = 1 /\ pos' = mid /\ UNCHANGED <<begin, end>>
  /\ pc' = IF rc' = 0 /\ end' >= begin' THEN "loop" ELSE "found"
  /\ UNCHANGED <<list, call, answer>>

\* One turn of the loop.
bisect ==
  LET mid == (begin + end) \div 2 IN
  /\ caller # "none" /\ pc = "loop"
  /\ \/ id < v[mid] /\ end' = mid - 1 /\ pos' = mid /\ UNCHANGED <<begin, rc>>
     \/ id > v[mid] /\ begin' = mid + 1 /\ pos' = mid + 1 /\ UNCHANGED <<end, rc>>
     \/ id = v[mid] /\ rc' = 1 /\ pos' = mid /\ UNCHANGED <<begin, end>>
  /\ pc' = IF rc' = 0 /\ end' >= begin' THEN "loop" ELSE "found"
  /\ UNCHANGED <<list, call, answer>>

-------------------------------------------------------------------------------
(* What the callers do with the place. *)

\* The caller gives the mutex back.
return(c) ==
  /\ caller = c /\ pc = "found"
  /\ caller' = "none"
  /\ UNCHANGED <<pc, id, locals>>

\* ldap_int_bisect_insert, which do_abandon calls unless the ID is there: the
\* IDs from pos on move up by one.  When the array cannot grow, its error
\* code is ignored and the ID is not recorded.
ldap_int_bisect_insert ==
  /\ return("do_abandon")
  /\ \/ /\ rc = 0
        /\ n' = n + 1
        /\ v' = [i \in 0 .. n |-> IF i < pos THEN v[i] ELSE IF i = pos THEN id ELSE v[i - 1]]
     \/ UNCHANGED list
  /\ UNCHANGED answer

\* ldap_int_bisect_delete, which ldap_mark_abandoned calls if the ID is
\* there: the IDs behind pos move down by one.
ldap_int_bisect_delete ==
  /\ return("ldap_mark_abandoned")
  /\ IF rc = 1
     THEN /\ n' = n - 1
          /\ v' = [i \in 0 .. n - 2 |-> IF i < pos THEN v[i] ELSE v[i + 1]]
     ELSE UNCHANGED list
  /\ UNCHANGED answer

ldap_abandoned ==
  /\ return("ldap_abandoned")
  /\ answer' = (rc = 1)
  /\ UNCHANGED list

Step ==
  \/ compareEnds \/ bisect
  \/ ldap_int_bisect_insert \/ ldap_int_bisect_delete \/ ldap_abandoned

Next ==
  \/ \E c \in Callers, x \in Ids : ldap_int_bisect_find(c, x)
  \/ Step

Spec == Init /\ [][Next]_vars

\* A thread that holds the mutex goes on.
FairSpec == Spec /\ WF_vars(Step)

-------------------------------------------------------------------------------
(* Properties. *)

Places == 0 .. n - 1

\* Every variable has its type.
TypeOK ==
  /\ n \in Nat /\ v \in [Places -> Ids]
  /\ caller \in Callers \cup {"none"} /\ pc \in {"enter", "loop", "found"}
  /\ caller # "none" => id \in Ids
  /\ begin \in Int /\ end \in Int /\ pos \in Int /\ rc \in {0, 1}
  /\ answer \in BOOLEAN

\* The array is sorted and holds no ID twice.
Sorted == \A i, j \in Places : i < j => v[i] < v[j]

\* While the loop runs, the ID can only be between begin and end.
Bracketed ==
  /\ 0 <= begin /\ begin <= end /\ end < n
  /\ \A i \in Places : (i < begin => v[i] < id) /\ (i > end => id < v[i])

\* After it, pos is the ID's place or, if it is not there, the place before
\* which it belongs, possibly behind the last one.
Located ==
  IF rc = 1 THEN pos \in Places /\ v[pos] = id
  ELSE /\ pos \in 0 .. n
       /\ \A i \in Places : (i < pos => v[i] < id) /\ (i >= pos => id < v[i])

\* Bisection finds an ID wherever it is in the array, and otherwise the one
\* place where it can be inserted; the array stays sorted, and the assertions
\* of insert and delete hold.  This is inductive.
ListInv ==
  /\ TypeOK
  /\ Sorted
  /\ caller # "none" =>
       /\ pc = "enter" => begin = 0 /\ end = n - 1 /\ rc = 0
       /\ pc = "loop" => Bracketed /\ rc = 0
       /\ pc = "found" => Located

\* The array is the set of its IDs: what the three callers do to it and learn
\* from it is what they would do to and learn from the set of abandoned IDs.
Set == INSTANCE AbandonedSet WITH abandoned <- {v[i] : i \in Places}
ImplementsSet == Set!Spec

\* The bisection ends, and with it the caller's hold on the mutex.
CallEnds == (caller # "none") ~> (caller = "none")
===============================================================================
