---------------------------- MODULE MCOwnBorrow ----------------------------
(* Small instances of OwnBorrow: interchangeable names. *)
EXTENDS OwnBorrow, TLC

Symmetry == Permutations(Names)
=============================================================================
