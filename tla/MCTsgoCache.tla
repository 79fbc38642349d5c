----------------------------- MODULE MCTsgoCache -----------------------------
(* TsgoCache on two processes, which are interchangeable (no liveness under  *)
(* symmetry: the runs with Answers do not use it).                           *)
EXTENDS TsgoCache, TLC

CONSTANTS p1, p2, exe, lib

MCProcs == {p1, p2}
MCLibs == {lib}
=============================================================================
