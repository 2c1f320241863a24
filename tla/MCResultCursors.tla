---------------------------- MODULE MCResultCursors ----------------------------
(***************************************************************************)
(* ResultCursors for TLC: entries without attributes, and with one that    *)
(* has a value and one that has none, as a search for types only returns.  *)
(***************************************************************************)
EXTENDS ResultCursors, TLC

Lists == {<<>>, <<1, 0>>}

Symmetry == Permutations(Proxy)
===============================================================================
