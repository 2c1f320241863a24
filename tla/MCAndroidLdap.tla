----------------------------- MODULE MCAndroidLdap -----------------------------
(***************************************************************************)
(* AndroidLdap for TLC.  A run either starts from Init, or where the races *)
(* begin: after a connect and a bind that succeeded and whose callbacks    *)
(* have run (BoundInit), a state every behaviour to a search passes.  For   *)
(* liveness, where symmetry is unsound, requests are numbered and used in  *)
(* order: request proxies are alike until they are used.                   *)
(***************************************************************************)
EXTENDS AndroidLdap, TLC

CONSTANT first    \* the LDAPConnection that exists in BoundInit

BoundInit ==
  /\ ld = first
  /\ bound = TRUE
  /\ link = [h \in Handle |-> IF h = first THEN "open" ELSE "unused"]
  /\ timeLimit = TRUE
  /\ timed = [h \in Handle |-> h = first]
  /\ auth = [h \in Handle |-> h = first]
  /\ nextId = [h \in Handle |-> IF h = first THEN 2 ELSE 1]
  /\ phase = [r \in Req |-> "new"]
  /\ op = [r \in Req |-> Null]
  /\ asyncId = [r \in Req |-> Null]
  /\ lists = [r \in Req |-> None]
  /\ returned = [r \in Req |-> FALSE]
  /\ armed = [r \in Req |-> FALSE]
  /\ acceptors = {}
  /\ reader = [h \in Handle |-> Null]
  /\ stream = [h \in Handle |-> <<>>]
  /\ working = {}
  /\ served = [r \in Req |-> None]
  /\ calls = [r \in Req |-> <<>>]
  /\ threw = {}

BoundSpec == BoundInit /\ [][Steps]_vars

turn(r) == \A q \in Req : q < r => phase[q] # "new"

OrderedCareful ==
  \/ \E r \in Req : turn(r) /\ CarefulScript(r)
  \/ \E positive \in BOOLEAN : setTimeLimit(positive)
  \/ disconnect \/ Threads \/ Environment

OrderedCarefulSpec == Init /\ [][OrderedCareful]_vars /\ Fairness

Symmetry == Permutations(Req)
===============================================================================
