--------------------------------- MODULE Cursor ---------------------------------
(***************************************************************************)
(* What the documentation promises of firstEntry and nextEntry, and of     *)
(* firstAttribute and nextAttribute: "first" starts over, "next" goes on,  *)
(* and null says that nothing is left.  A cursor that was never started    *)
(* has nothing left.                                                       *)
(***************************************************************************)
EXTENDS Sequences

CONSTANTS
  Cur,    \* cursors: one of the search result, one of each entry object
  Null

VARIABLES
  items,   \* what each cursor runs over
  rest,    \* what it has not handed out yet
  answer   \* the last call, "first", "next" or another, and the value it returned

Init == rest = [c \in Cur |-> <<>>] /\ answer = [to |-> "none", value |-> Null]

keeps(d) == items'[d] = items[d] /\ rest'[d] = rest[d]

\* c answers a call with the head of s.  An entry that is handed out comes
\* with a cursor of its own, which has not been started.
take(to, c, s) ==
  /\ answer'.to = to
  /\ items'[c] = items[c]
  /\ \/ /\ s = <<>>
        /\ answer'.value = Null
        /\ rest'[c] = <<>>
        /\ \A d \in Cur \ {c} : keeps(d)
     \/ /\ s # <<>>
        /\ answer'.value = Head(s)
        /\ rest'[c] = Tail(s)
        /\ \E new \in Cur :
             /\ new # c => rest'[new] = <<>>
             /\ \A d \in Cur \ {c, new} : keeps(d)

First(c) == take("first", c, items[c])
Following(c) == take("next", c, rest[c])

\* Every other method leaves the cursors alone.
Look == answer'.to = "other" /\ UNCHANGED <<items, rest>>

\* The objects of some cursors are gone, and the cursors with them.
Close(gone) ==
  /\ answer' = answer
  /\ \A c \in gone : rest'[c] = <<>>
  /\ \A d \in Cur \ gone : keeps(d)

Next ==
  \/ Look
  \/ \E c \in Cur : First(c) \/ Following(c)
  \/ \E gone \in SUBSET Cur : Close(gone)

Spec == Init /\ [][Next]_<<items, rest, answer>>
===============================================================================
