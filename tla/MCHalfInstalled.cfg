SPECIFICATION Spec
CONSTANTS
  p1 = p1  p2 = p2  exe = exe  lib = lib
  Procs <- MCProcs
  Exe = exe
  Libs <- MCLibs
  MaxStarts = 3
  MaxKills = 1
  MaxFaults = 1
CHECK_DEADLOCK FALSE
INVARIANT FoundIsComplete
