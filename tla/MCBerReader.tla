------------------------------ MODULE MCBerReader ------------------------------
(***************************************************************************)
(* BerReader for TLC: the shortest messages there can be, and longer ones, *)
(* with every form of tag and length.                                      *)
(***************************************************************************)
EXTENDS BerReader

Messages == {m \in [tag : {1, 2, 4}, ext : {0, 1, 4}, len : 1 .. 9] : Size(m) \in {7, 8, 9, 11, 13}}
===============================================================================
