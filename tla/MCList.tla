------------------------------- MODULE MCList -------------------------------
(* Three node addresses, two data pointers (so a list can hold the same   *)
(* pointer twice), indices up to one past the longest list.  NullPtr is  *)
(* NULL, both as a node pointer and as a free_func.                       *)
EXTENDS List

CONSTANTS n1, n2, n3, d1, d2, fn, NullPtr

MCNodes == {n1, n2, n3}
MCData == {d1, d2}
MCFreeFuncs == {fn}
MCFreeFuncsWithNull == {fn, NullPtr}
MCMaxIndex == 3
=============================================================================
