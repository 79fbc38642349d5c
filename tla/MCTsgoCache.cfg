SPECIFICATION Spec
CONSTANTS
  p1 = p1  p2 = p2  exe = exe  lib = lib
  Procs <- MCProcs
  Exe = exe
  Libs <- MCLibs
  MaxStarts = 3
  MaxKills = 1
  MaxFaults = 1
INVARIANTS CacheTypeOK NothingHalfDone InstalledIsComplete QuietIsComplete
PROPERTIES Answers
CHECK_DEADLOCK FALSE
