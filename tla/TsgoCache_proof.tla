--------------------------- MODULE TsgoCache_proof ---------------------------
(***************************************************************************)
(* Whatever number of processes share the compiler cache, and whatever     *)
(* fails or is killed: what TsgoCache promises of the cache directory as   *)
(* long as downloads do not overlap.  The invariant says how far the one   *)
(* download has got: entry by entry in staging, child by child in cache.   *)
(***************************************************************************)
EXTENDS TsgoCache, TLAPS

Whole(dir, S) == \A f \in S : IsWhole(f, dir[f])

\* What is not moved yet, the child at hand included.
Unmoved(p) == IF pc[p] = "move" THEN todo[p] ELSE todo[p] \cup {file[p]}

BeforeMove == {"clean", "stage", "fetch", "unpack", "write", "chmod", "list"}

\* How far process p has got, if it is downloading.
Doing(p) ==
  /\ pc[p] \in BeforeMove => ~In(cache, Exe)
  /\ pc[p] \in {"stage", "fetch"} => \A f \in Files : ~In(staging, f)
  /\ pc[p] = "unpack" => \A f \in Files \ todo[p] : staging[f].got = "whole"
  /\ pc[p] = "write" =>
       /\ staging[file[p]] = [by |-> p, got |-> "part"]
       /\ \A f \in Files \ (todo[p] \cup {file[p]}) : staging[f].got = "whole"
  /\ pc[p] = "chmod" => \A f \in Files : staging[f].got = "whole"
  /\ pc[p] = "list" => Whole(staging, Files)
  /\ pc[p] \in {"move", "replace", "copy"} =>
       Whole(staging, Unmoved(p)) /\ Whole(cache, Files \ Unmoved(p))
  /\ pc[p] \in {"replace", "copy"} => file[p] \notin todo[p]
  /\ pc[p] = "replace" => ~In(cache, file[p])
  /\ pc[p] = "copy" => cache[file[p]] = [by |-> p, got |-> "part"]
  /\ pc[p] \in {"sweep", "recheck"} => Complete

Quiet == \A p \in Procs : ~Downloading(p)

\* One download at a time, and where it stands; what an installation leaves.
Progress ==
  alone =>
    /\ \A p, q \in Procs : Downloading(p) /\ Downloading(q) => p = q
    /\ \A p \in Procs : Doing(p)
    /\ ~copied => \A f \in Files : In(cache, f) => IsWhole(f, cache[f])
    /\ \A p \in Procs : pc[p] = "installed" => Complete /\ Quiet
    /\ ~copied /\ kills = 0 /\ In(cache, Exe) /\ Quiet => Complete

StagingGone == ~stagingDir => \A f \in Files : ~In(staging, f)

IInv == CacheTypeOK /\ StagingGone /\ Progress

-----------------------------------------------------------------------------
LEMMA Constants ==
  /\ Exe \in Files
  /\ NoFile \in Content /\ Empty \in [Files -> Content]
  /\ \A p \in Procs : [by |-> p, got |-> "part"] \in Content
<1>1. Exe \in Files
  BY DEF Files
<1>2. NoFile \in Content
  BY DEF NoFile, Content, Nobody
<1>3. \A p \in Procs : [by |-> p, got |-> "part"] \in Content
  BY DEF Content
<1> QED BY <1>1, <1>2, <1>3 DEF Empty

\* What finishing an entry, or being killed, does to a directory: nobody's
\* file comes or goes, and a whole one stays whole.
LEMMA Rewritten ==
  ASSUME NEW dir \in [Files -> Content], NEW p \in Procs, file \in [Procs -> Files]
  PROVE  /\ Finished(dir, p) \in [Files -> Content]
         /\ Orphaned(dir, p) \in [Files -> Content]
         /\ \A f \in Files : In(Finished(dir, p), f) <=> In(dir, f)
         /\ \A f \in Files : IsWhole(f, dir[f]) => Finished(dir, p)[f] = dir[f]
         /\ \A f \in Files : dir[f].got = "whole" => Finished(dir, p)[f] = dir[f]
         /\ \A f \in Files : Orphaned(dir, p)[f].got = dir[f].got
         /\ \A f \in Files, q \in Procs \ {p} :
              dir[f] = [by |-> q, got |-> "part"] => Orphaned(dir, p)[f] = dir[f]
<1>1. \A f \in Files : dir[f] \in Content
  OBVIOUS
<1>2. \A c \in Content : /\ [c EXCEPT !.got = "whole"] \in Content
                         /\ [c EXCEPT !.by = Nobody] \in Content
                         /\ [c EXCEPT !.by = Nobody].got = c.got
                         /\ [c EXCEPT !.got = "whole"].got = "whole"
  BY DEF Content
<1>3. \A f \in Files : Finished(dir, p)[f] \in Content /\ Orphaned(dir, p)[f] \in Content
  BY <1>1, <1>2 DEF Finished, Orphaned
<1>4. /\ Finished(dir, p) \in [Files -> Content]
      /\ Orphaned(dir, p) \in [Files -> Content]
  BY <1>3 DEF Finished, Orphaned
<1>5. \A f \in Files : In(Finished(dir, p), f) <=> In(dir, f)
  BY <1>1, <1>2 DEF Finished, In
<1>6. \A f \in Files : IsWhole(f, dir[f]) => Finished(dir, p)[f] = dir[f]
  BY <1>1 DEF Finished, IsWhole
<1>7. \A f \in Files : dir[f].got = "whole" => Finished(dir, p)[f] = dir[f]
  BY <1>1 DEF Finished
<1>8. \A f \in Files : Orphaned(dir, p)[f].got = dir[f].got
  BY <1>1, <1>2 DEF Orphaned
<1>9. ASSUME NEW f \in Files, NEW q \in Procs \ {p}, dir[f] = [by |-> q, got |-> "part"]
      PROVE  Orphaned(dir, p)[f] = dir[f]
  <2>1. [by |-> q, got |-> "part"] # [by |-> p, got |-> "part"]
    <3>1. [by |-> q, got |-> "part"].by # [by |-> p, got |-> "part"].by
      OBVIOUS
    <3> QED BY <3>1
  <2> QED BY <1>9, <2>1 DEF Orphaned
<1> QED BY <1>4, <1>5, <1>6, <1>7, <1>8, <1>9

LEMMA InitIInv == Init => IInv
<1> SUFFICES ASSUME Init PROVE IInv
  OBVIOUS
<1>1. 0 \in 0 .. MaxStarts /\ 0 \in 0 .. MaxKills /\ 0 \in 0 .. MaxFaults
  BY CacheAssumption
<1>2. CacheTypeOK
  BY <1>1, Constants DEF Init, CacheTypeOK, Steps
<1>3. \A f \in Files : ~In(staging, f) /\ ~In(cache, f)
  BY DEF Init, Empty, In, NoFile
<1>4. \A p \in Procs : pc[p] = "idle"
  BY DEF Init
<1>5. StagingGone /\ Progress
  BY <1>3, <1>4, Constants DEF StagingGone, Progress, Doing, Downloading, Over, BeforeMove, Quiet
<1> QED BY <1>2, <1>5 DEF IInv

-----------------------------------------------------------------------------
\* Every step keeps the types.
LEMMA NextType ==
  ASSUME CacheTypeOK, [Next]_vars
  PROVE  CacheTypeOK'
<1> USE CacheAssumption DEF CacheTypeOK
<1>1. CASE UNCHANGED vars
  BY <1>1 DEF vars
<1> SUFFICES ASSUME NEW p \in Procs,
                    Start(p) \/ Run(p) \/ RenameRefused(p) \/ Fault(p) \/ Kill(p)
             PROVE  CacheTypeOK'
  BY <1>1 DEF Next
<1>2. /\ Finished(staging, p) \in [Files -> Content] /\ Finished(cache, p) \in [Files -> Content]
      /\ Orphaned(staging, p) \in [Files -> Content] /\ Orphaned(cache, p) \in [Files -> Content]
  BY Rewritten
<1>3. \A step \in Steps : [pc EXCEPT ![p] = step] \in [Procs -> Steps]
  OBVIOUS
<1>4. CASE Start(p)
  BY <1>3, <1>4 DEF Start, Goto, Steps, disk
<1>5. CASE Find(p) \/ Miss(p)
  BY <1>3, <1>5 DEF Find, Miss, Goto, Steps, disk, budget
<1>6. CASE Clean(p)
  BY <1>3, <1>6, Constants DEF Clean, Goto, Steps, budget
<1>18. CASE Stage(p) \/ Fetch(p)
  BY <1>3, <1>18 DEF Stage, Fetch, Goto, Steps, disk, budget
<1>7. CASE OpenEntry(p)
  BY <1>3, <1>7, Constants DEF OpenEntry, Goto, Steps, budget
<1>8. CASE ClearTarget(p)
  BY <1>3, <1>8, Constants DEF ClearTarget, Goto, Steps, budget
<1>9. CASE WriteEntry(p)
  BY <1>2, <1>3, <1>9 DEF WriteEntry, Goto, Steps, budget
<1>10. CASE Kill(p)
  BY <1>2, <1>3, <1>10 DEF Kill, Goto, Steps
<1>11. CASE MakeRunnable(p)
  <2>1. [staging[Exe] EXCEPT !.got = "runnable"] \in Content
    BY Constants DEF Content
  <2> QED BY <1>3, <1>11, <2>1, Constants DEF MakeRunnable, Goto, Steps, budget
<1>12. CASE AllUnpacked(p) \/ AllMoved(p) \/ Sweep(p) \/ Recheck(p)
  BY <1>3, <1>12, Constants DEF AllUnpacked, AllMoved, Sweep, Recheck, Goto, Steps, disk, budget
<1>13. CASE ListStaging(p)
  BY <1>3, <1>13 DEF ListStaging, Goto, Steps, disk, budget
<1>14. CASE Rename(p)
  BY <1>3, <1>14, Constants DEF Rename, Goto, Steps, budget
<1>15. CASE CopyOver(p)
  BY <1>3, <1>15, Constants DEF CopyOver, Goto, Steps, budget
<1>16. CASE RenameRefused(p)
  BY <1>3, <1>16, Constants DEF RenameRefused, Goto, Steps
<1>17. CASE Fault(p)
  BY <1>3, <1>17 DEF Fault, Goto, Steps, disk
<1> QED BY <1>4, <1>5, <1>6, <1>7, <1>8, <1>9, <1>10, <1>11, <1>12, <1>13, <1>14, <1>15, <1>16,
           <1>17, <1>18 DEF Run

-----------------------------------------------------------------------------
\* Nothing is put where there is no staging directory.
LEMMA NextStaging ==
  ASSUME CacheTypeOK, StagingGone, [Next]_vars
  PROVE  StagingGone'
<1> USE DEF CacheTypeOK, StagingGone
<1>1. CASE UNCHANGED vars
  BY <1>1 DEF vars, In
<1> SUFFICES ASSUME NEW p \in Procs,
                    Start(p) \/ Run(p) \/ RenameRefused(p) \/ Fault(p) \/ Kill(p),
                    ~stagingDir', NEW f \in Files
             PROVE  ~In(staging, f)'
  BY <1>1 DEF Next
<1>2. CASE Start(p) \/ Find(p) \/ Miss(p) \/ Fetch(p) \/ Fault(p)
  BY <1>2 DEF Start, Find, Miss, Fetch, Fault, disk, In
<1>3. CASE AllUnpacked(p) \/ AllMoved(p) \/ Recheck(p) \/ ListStaging(p) \/ ClearTarget(p) \/ RenameRefused(p)
  BY <1>3 DEF AllUnpacked, AllMoved, Recheck, ListStaging, ClearTarget, RenameRefused, disk, In
<1>4. CASE Clean(p) \/ Sweep(p)
  BY <1>4 DEF Clean, Sweep, In, Empty, NoFile
<1>5. CASE Stage(p) \/ OpenEntry(p)
  BY <1>5 DEF Stage, OpenEntry
<1>6. CASE WriteEntry(p)
  BY <1>6, Rewritten DEF WriteEntry, In
<1>7. CASE Kill(p)
  BY <1>7, Rewritten DEF Kill, In
<1>8. CASE MakeRunnable(p)
  BY <1>8, Constants DEF MakeRunnable, In
<1>9. CASE Rename(p) \/ CopyOver(p)
  BY <1>9 DEF Rename, CopyOver, In, NoFile
<1> QED BY <1>2, <1>3, <1>4, <1>5, <1>6, <1>7, <1>8, <1>9 DEF Run

-----------------------------------------------------------------------------
\* What a step of the one download has to show.
LEMMA Step ==
  ASSUME CacheTypeOK, Progress, alone,
         NEW p \in Procs, Downloading(p),
         NEW step \in Steps, Goto(p, step),
         Doing(p)',
         ~copied' => \A f \in Files : In(cache, f)' => IsWhole(f, cache'[f]),
         step \in Over => (~copied' /\ kills' = 0 /\ In(cache, Exe)' => Complete'),
         step = "installed" => Complete',
         step # "look"
  PROVE  Progress'
<1> USE DEF CacheTypeOK
<1>1. \A q \in Procs \ {p} : ~Downloading(q) /\ pc[q] # "installed" /\ pc'[q] = pc[q]
  BY DEF Progress, Quiet, Goto
<1>2. \A q \in Procs \ {p} : ~Downloading(q)' /\ pc'[q] # "installed"
  BY <1>1 DEF Downloading
<1>3. pc'[p] = step
  BY DEF Goto
<1>4. \A q \in Procs : Doing(q)'
  BY <1>2 DEF Doing, Downloading, Over, BeforeMove
<1>5. \A q, r \in Procs : Downloading(q)' /\ Downloading(r)' => q = r
  BY <1>2
<1>6. \A q \in Procs : pc'[q] = "installed" => Complete' /\ Quiet'
  <2> SUFFICES ASSUME NEW q \in Procs, pc'[q] = "installed"
               PROVE  Complete' /\ Quiet'
    OBVIOUS
  <2>1. q = p /\ step = "installed"
    BY <1>2, <1>3
  <2>2. ~Downloading(p)'
    BY <1>3, <2>1 DEF Downloading, Over
  <2> QED BY <1>2, <2>1, <2>2 DEF Quiet
<1>7. ~copied' /\ kills' = 0 /\ In(cache, Exe)' /\ Quiet' => Complete'
  BY <1>3 DEF Quiet, Downloading
<1> QED BY <1>4, <1>5, <1>6, <1>7 DEF Progress

\* The disk and everybody's download stay as they are.
LEMMA Aside ==
  ASSUME CacheTypeOK, Progress, UNCHANGED <<disk, todo, file, alone, copied, kills>>,
         NEW p \in Procs, ~Downloading(p),
         NEW step \in Over \cup {"look"}, Goto(p, step), step # "installed"
  PROVE  Progress'
<1> USE DEF CacheTypeOK
<1>1. SUFFICES ASSUME alone PROVE Progress'
  BY DEF Progress
<1>2. \A q \in Procs \ {p} : pc'[q] = pc[q]
  BY DEF Goto
<1>3. pc'[p] = step
  BY DEF Goto, Over, Steps
<1>4. \A q \in Procs : Downloading(q)' <=> Downloading(q)
  BY <1>2, <1>3 DEF Downloading, Over
<1>5. \A q \in Procs : Doing(q)'
  <2> SUFFICES ASSUME NEW q \in Procs PROVE Doing(q)'
    OBVIOUS
  <2>1. CASE q = p
    BY <1>3, <2>1 DEF Doing, Over, BeforeMove
  <2>2. CASE q # p
    BY <1>1, <1>2, <2>2 DEF Progress, Doing, Whole, Unmoved, Complete, In, IsWhole, disk
  <2> QED BY <2>1, <2>2
<1>6. Complete' <=> Complete
  BY DEF Complete, IsWhole, disk
<1>7. Quiet' <=> Quiet
  BY <1>4 DEF Quiet
<1>8. \A f \in Files : (In(cache, f)' <=> In(cache, f)) /\ cache'[f] = cache[f]
  BY DEF In, disk
<1> QED BY <1>1, <1>2, <1>3, <1>4, <1>5, <1>6, <1>7, <1>8, Constants DEF Progress, IsWhole

-----------------------------------------------------------------------------
\* Up to the moving, nothing in the cache changes but what a dead process left.
LEMMA Unpacking ==
  ASSUME CacheTypeOK, StagingGone, Progress, alone, NEW p \in Procs,
         \/ Clean(p) \/ Stage(p) \/ Fetch(p) \/ OpenEntry(p) \/ WriteEntry(p)
         \/ AllUnpacked(p) \/ MakeRunnable(p) \/ ListStaging(p) \/ Fault(p)
  PROVE  Progress'
<1> USE DEF CacheTypeOK
<1>1. Downloading(p) /\ pc[p] \in BeforeMove
  BY DEF Clean, Stage, Fetch, OpenEntry, WriteEntry, AllUnpacked, MakeRunnable, ListStaging, Fault,
         Downloading, Over, BeforeMove
<1>2. Doing(p) /\ ~In(cache, Exe)
  BY <1>1 DEF Progress, Doing
<1>3. ~copied => \A f \in Files : In(cache, f) => IsWhole(f, cache[f])
  BY DEF Progress
<1>4. ASSUME UNCHANGED <<cache, copied>>, NEW step \in Steps, step \notin {"look", "installed"},
             Goto(p, step), Doing(p)'
      PROVE  Progress'
  <2>1. ~In(cache, Exe)'
    BY <1>2, <1>4 DEF In
  <2>2. ~copied' => \A f \in Files : In(cache, f)' => IsWhole(f, cache'[f])
    BY <1>3, <1>4 DEF In
  <2> QED BY <1>1, <1>4, <2>1, <2>2, Step
<1>5. ASSUME NEW step \in {"failed", "stage", "fetch", "unpack", "write", "chmod", "list", "move"}
      PROVE  step \in Steps /\ step \notin {"look", "installed"}
  BY DEF Steps
<1>6. CASE Clean(p)
  <2>1. ~In(cache, Exe)' /\ \A f \in Files : ~In(staging, f)'
    BY <1>2, <1>6 DEF Clean, In, Empty, NoFile
  <2>2. pc'[p] \in {"stage", "failed"}
    BY <1>6 DEF Clean, Goto
  <2>3. Doing(p)'
    BY <2>1, <2>2 DEF Doing, BeforeMove
  <2>4. PICK step \in {"stage", "failed"} : Goto(p, step)
    BY <1>6 DEF Clean
  <2> QED BY <1>4, <1>5, <1>6, <2>3, <2>4 DEF Clean
<1>7. CASE Stage(p)
  <2>1. Goto(p, "fetch") /\ UNCHANGED <<staging, cache, copied>>
    BY <1>7 DEF Stage
  <2>2. pc'[p] = "fetch"
    BY <2>1 DEF Goto
  <2>3. Doing(p)'
    BY <1>2, <1>7, <2>1, <2>2 DEF Doing, BeforeMove, Stage, In
  <2> QED BY <1>4, <1>5, <2>1, <2>3
<1>8. CASE Fetch(p)
  <2>1. Goto(p, "unpack") /\ UNCHANGED <<staging, cache, copied>> /\ todo'[p] = Files
    BY <1>8 DEF Fetch, disk
  <2>2. pc'[p] = "unpack"
    BY <2>1 DEF Goto
  <2>3. Doing(p)'
    BY <1>2, <2>1, <2>2 DEF Doing, BeforeMove, In
  <2> QED BY <1>4, <1>5, <2>1, <2>3
<1>9. CASE OpenEntry(p)
  <2>1. PICK f \in todo[p] : /\ staging' = [staging EXCEPT ![f] = [by |-> p, got |-> "part"]]
                             /\ file' = [file EXCEPT ![p] = f]
                             /\ todo' = [todo EXCEPT ![p] = @ \ {f}]
    BY <1>9 DEF OpenEntry
  <2>2. Goto(p, "write") /\ UNCHANGED <<cache, copied>>
    BY <1>9 DEF OpenEntry
  <2>3. pc'[p] = "write" /\ file'[p] = f /\ todo'[p] = todo[p] \ {f} /\ f \in Files
    BY <2>1, <2>2 DEF Goto
  <2>4. \A g \in Files \ todo[p] : staging[g].got = "whole"
    BY <1>2, <1>9 DEF Doing, OpenEntry
  <2>5. Doing(p)'
    BY <1>2, <2>1, <2>2, <2>3, <2>4 DEF Doing, BeforeMove, In
  <2> QED BY <1>4, <1>5, <2>2, <2>5
<1>10. CASE WriteEntry(p)
  <2>1. Goto(p, "unpack") /\ UNCHANGED <<todo, file, copied>>
    BY <1>10 DEF WriteEntry
  <2>2. pc'[p] = "unpack" /\ todo'[p] = todo[p]
    BY <2>1 DEF Goto
  <2>3. /\ staging[file[p]] = [by |-> p, got |-> "part"]
        /\ \A f \in Files \ (todo[p] \cup {file[p]}) : staging[f].got = "whole"
    BY <1>2, <1>10 DEF Doing, WriteEntry
  <2>4. staging'[file[p]].got = "whole"
    BY <1>10, <2>3 DEF WriteEntry, Finished
  <2>5. \A f \in Files \ todo[p] : staging'[f].got = "whole"
    <3>1. staging' = Finished(staging, p)
      BY <1>10 DEF WriteEntry
    <3>2. \A f \in Files : staging[f].got = "whole" => staging'[f] = staging[f]
      BY <3>1, Rewritten
    <3>3. \A f \in Files \ (todo[p] \cup {file[p]}) : staging'[f].got = "whole"
      BY <2>3, <3>2
    <3> QED BY <2>4, <3>3
  <2>6. ~In(cache, Exe)'
    BY <1>2, <1>10, Rewritten, Constants DEF WriteEntry, In
  <2>7. ~copied' => \A f \in Files : In(cache, f)' => IsWhole(f, cache'[f])
    BY <1>3, <1>10, Rewritten DEF WriteEntry, In
  <2>8. Doing(p)'
    BY <2>2, <2>5, <2>6 DEF Doing, BeforeMove
  <2> QED BY <1>1, <1>5, <2>1, <2>6, <2>7, <2>8, Step
<1>11. CASE AllUnpacked(p)
  <2>1. Goto(p, "chmod") /\ UNCHANGED <<staging, cache, copied>>
    BY <1>11 DEF AllUnpacked, disk
  <2>2. pc'[p] = "chmod"
    BY <2>1 DEF Goto
  <2>3. Doing(p)'
    BY <1>2, <1>11, <2>1, <2>2 DEF Doing, BeforeMove, AllUnpacked, In
  <2> QED BY <1>4, <1>5, <2>1, <2>3
<1>12. CASE MakeRunnable(p)
  <2>1. Goto(p, "list") /\ UNCHANGED <<cache, copied>>
    BY <1>12 DEF MakeRunnable
  <2>2. pc'[p] = "list"
    BY <2>1 DEF Goto
  <2>3. \A f \in Files : staging[f].got = "whole"
    BY <1>2, <1>12 DEF Doing, MakeRunnable
  <2>4. Whole(staging, Files)'
    BY <1>12, <2>3, Constants DEF MakeRunnable, Whole, IsWhole, Content
  <2>5. Doing(p)'
    BY <1>2, <2>1, <2>2, <2>4 DEF Doing, BeforeMove, In
  <2> QED BY <1>4, <1>5, <2>1, <2>5
<1>13. CASE ListStaging(p)
  <2>1. UNCHANGED <<staging, cache, copied>> /\ Whole(staging, Files)
    BY <1>2, <1>13 DEF ListStaging, disk, Doing
  <2>2. CASE stagingDir
    <3>1. Goto(p, "move") /\ todo'[p] = Files
      BY <1>13, <2>1, <2>2 DEF ListStaging, Whole, IsWhole, In
    <3>2. pc'[p] = "move"
      BY <3>1 DEF Goto
    <3>3. Doing(p)'
      BY <2>1, <3>1, <3>2 DEF Doing, BeforeMove, Unmoved, Whole
    <3> QED BY <1>4, <1>5, <2>1, <3>1, <3>3
  <2>3. CASE ~stagingDir
    <3>1. Goto(p, "failed")
      BY <1>13, <2>3 DEF ListStaging
    <3>2. pc'[p] = "failed"
      BY <3>1 DEF Goto
    <3>3. Doing(p)'
      BY <3>2 DEF Doing, BeforeMove
    <3> QED BY <1>4, <1>5, <2>1, <3>1, <3>3
  <2> QED BY <2>2, <2>3
<1>14. CASE Fault(p)
  <2>1. Goto(p, "failed") /\ UNCHANGED <<cache, copied>>
    BY <1>14 DEF Fault, disk
  <2>2. pc'[p] = "failed"
    BY <2>1 DEF Goto
  <2>3. Doing(p)'
    BY <2>2 DEF Doing, BeforeMove
  <2> QED BY <1>4, <1>5, <2>1, <2>3
<1> QED BY <1>6, <1>7, <1>8, <1>9, <1>10, <1>11, <1>12, <1>13, <1>14

\* Moving: what is moved is whole, what is not is whole in staging.
LEMMA Moving ==
  ASSUME CacheTypeOK, StagingGone, Progress, alone, NEW p \in Procs,
         \/ ClearTarget(p) \/ Rename(p) \/ RenameRefused(p) \/ CopyOver(p)
         \/ AllMoved(p) \/ Sweep(p) \/ Recheck(p)
  PROVE  Progress'
<1> USE DEF CacheTypeOK
<1>1. Downloading(p)
  BY DEF ClearTarget, Rename, RenameRefused, CopyOver, AllMoved, Sweep, Recheck, Downloading, Over
<1>2. Doing(p)
  BY DEF Progress
<1>3. ~copied => \A f \in Files : In(cache, f) => IsWhole(f, cache[f])
  BY DEF Progress
<1>4. ASSUME NEW step \in {"move", "replace", "copy", "sweep", "recheck"}, Goto(p, step), Doing(p)',
             ~copied' => \A f \in Files : In(cache, f)' => IsWhole(f, cache'[f])
      PROVE  Progress'
  <2>1. step \in Steps /\ step \notin Over \cup {"look", "installed"}
    BY DEF Steps, Over
  <2> QED BY <1>1, <1>4, <2>1, Step
<1>5. CASE ClearTarget(p)
  <2>1. PICK f \in todo[p] : /\ file' = [file EXCEPT ![p] = f]
                             /\ todo' = [todo EXCEPT ![p] = @ \ {f}]
                             /\ cache' = [cache EXCEPT ![f] = NoFile]
    BY <1>5 DEF ClearTarget
  <2>2. Goto(p, "replace") /\ UNCHANGED <<staging, copied>> /\ pc[p] = "move"
    BY <1>5 DEF ClearTarget
  <2>3. /\ pc'[p] = "replace" /\ file'[p] = f /\ todo'[p] = todo[p] \ {f}
        /\ f \in Files /\ cache'[f] = NoFile
        /\ \A g \in Files \ {f} : cache'[g] = cache[g]
    BY <2>1, <2>2 DEF Goto
  <2>4. Whole(staging, todo[p]) /\ Whole(cache, Files \ todo[p])
    BY <1>2, <2>2 DEF Doing, Unmoved
  <2>5. Unmoved(p)' = todo[p]
    BY <2>3 DEF Unmoved
  <2>6. Whole(staging, Unmoved(p))' /\ Whole(cache, Files \ Unmoved(p))'
    BY <2>2, <2>3, <2>4, <2>5 DEF Whole
  <2>7. ~In(cache, f)'
    BY <2>3 DEF In, NoFile
  <2>8. Doing(p)'
    BY <2>3, <2>6, <2>7 DEF Doing, BeforeMove
  <2>9. ~copied' => \A g \in Files : In(cache, g)' => IsWhole(g, cache'[g])
    BY <1>3, <2>2, <2>3, <2>7 DEF In
  <2> QED BY <1>4, <2>2, <2>8, <2>9
<1>6. ASSUME pc[p] \in {"replace", "copy"}, Goto(p, "move"), todo' = todo,
             cache'[file[p]] = staging[file[p]],
             \A f \in Files \ {file[p]} : cache'[f] = cache[f] /\ staging'[f] = staging[f],
             ~copied' => ~copied
      PROVE  Progress'
  <2>1. pc'[p] = "move" /\ todo'[p] = todo[p]
    BY <1>6 DEF Goto
  <2>2. /\ Whole(staging, todo[p] \cup {file[p]}) /\ Whole(cache, Files \ (todo[p] \cup {file[p]}))
        /\ file[p] \notin todo[p]
    BY <1>2, <1>6 DEF Doing, Unmoved
  <2>3. Whole(staging, Unmoved(p))'
    BY <1>6, <2>1, <2>2 DEF Whole, Unmoved
  <2>4. IsWhole(file[p], cache'[file[p]])
    BY <1>6, <2>2 DEF Whole
  <2>5. Whole(cache, Files \ Unmoved(p))'
    BY <1>6, <2>1, <2>2, <2>4 DEF Whole, Unmoved
  <2>6. Doing(p)'
    BY <2>1, <2>3, <2>5 DEF Doing, BeforeMove
  <2>7. ~copied' => \A f \in Files : In(cache, f)' => IsWhole(f, cache'[f])
    BY <1>3, <1>6, <2>4 DEF In
  <2> QED BY <1>4, <1>6, <2>6, <2>7
<1>7. CASE Rename(p)
  <2>1. In(staging, file[p])
    BY <1>2, <1>7 DEF Rename, Doing, Unmoved, Whole, IsWhole, In
  <2>2. /\ cache' = [cache EXCEPT ![file[p]] = staging[file[p]]]
        /\ staging' = [staging EXCEPT ![file[p]] = NoFile]
        /\ Goto(p, "move") /\ UNCHANGED <<todo, copied>> /\ pc[p] = "replace"
    BY <1>7, <2>1 DEF Rename
  <2> QED BY <1>6, <2>2
<1>8. CASE CopyOver(p)
  <2>1. In(staging, file[p]) /\ cache[file[p]] = [by |-> p, got |-> "part"]
    BY <1>2, <1>8 DEF CopyOver, Doing, Unmoved, Whole, IsWhole, In
  <2>2. /\ cache' = [cache EXCEPT ![file[p]] = staging[file[p]]]
        /\ staging' = [staging EXCEPT ![file[p]] = NoFile]
        /\ Goto(p, "move") /\ UNCHANGED <<todo, copied>> /\ pc[p] = "copy"
    BY <1>8, <2>1 DEF CopyOver
  <2> QED BY <1>6, <2>2
<1>9. CASE RenameRefused(p)
  <2>1. /\ pc[p] = "replace" /\ Goto(p, "copy") /\ UNCHANGED <<staging, todo, file>> /\ copied'
        /\ cache' = [cache EXCEPT ![file[p]] = [by |-> p, got |-> "part"]]
    BY <1>9 DEF RenameRefused
  <2>2. /\ pc'[p] = "copy" /\ todo'[p] = todo[p] /\ file'[p] = file[p]
        /\ cache'[file[p]] = [by |-> p, got |-> "part"]
        /\ \A f \in Files \ {file[p]} : cache'[f] = cache[f]
    BY <2>1 DEF Goto
  <2>3. /\ Whole(staging, todo[p] \cup {file[p]}) /\ Whole(cache, Files \ (todo[p] \cup {file[p]}))
        /\ file[p] \notin todo[p]
    BY <1>2, <2>1 DEF Doing, Unmoved
  <2>4. Doing(p)'
    BY <2>1, <2>2, <2>3 DEF Doing, BeforeMove, Unmoved, Whole
  <2> QED BY <1>4, <2>1, <2>4
<1>10. CASE AllMoved(p)
  <2>1. Goto(p, "sweep") /\ UNCHANGED <<cache, copied>> /\ Complete
    BY <1>2, <1>10 DEF AllMoved, disk, Doing, Unmoved, Whole, Complete
  <2>2. pc'[p] = "sweep"
    BY <2>1 DEF Goto
  <2>3. Doing(p)'
    BY <2>1, <2>2 DEF Doing, BeforeMove, Complete
  <2> QED BY <1>3, <1>4, <2>1, <2>3 DEF In
<1>11. CASE Sweep(p)
  <2>1. Goto(p, "recheck") /\ UNCHANGED <<cache, copied>> /\ Complete
    BY <1>2, <1>11 DEF Sweep, Doing
  <2>2. pc'[p] = "recheck"
    BY <2>1 DEF Goto
  <2>3. Doing(p)'
    BY <2>1, <2>2 DEF Doing, BeforeMove, Complete
  <2> QED BY <1>3, <1>4, <2>1, <2>3 DEF In
<1>12. CASE Recheck(p)
  <2>1. UNCHANGED <<cache, copied>> /\ Complete
    BY <1>2, <1>12 DEF Recheck, disk, Doing
  <2>2. Goto(p, "installed")
    BY <1>12, <2>1, Constants DEF Recheck, Complete, IsWhole, In
  <2>3. pc'[p] = "installed" /\ Complete'
    BY <2>1, <2>2 DEF Goto, Steps, Complete
  <2>4. Doing(p)'
    BY <2>3 DEF Doing, BeforeMove
  <2>5. ~copied' => \A f \in Files : In(cache, f)' => IsWhole(f, cache'[f])
    BY <1>3, <2>1 DEF In
  <2>6. "installed" \in Steps
    BY DEF Steps
  <2> QED BY <1>1, <2>2, <2>3, <2>4, <2>5, <2>6, Step
<1> QED BY <1>5, <1>7, <1>8, <1>9, <1>10, <1>11, <1>12

\* Looking: a process that begins to download finds nobody else at it.
LEMMA Looking ==
  ASSUME CacheTypeOK, StagingGone, Progress, NEW p \in Procs,
         Start(p) \/ Find(p) \/ Miss(p)
  PROVE  Progress'
<1> USE DEF CacheTypeOK
<1>1. ~Downloading(p)
  BY DEF Start, Find, Miss, Downloading
<1>2. CASE Start(p)
  BY <1>1, <1>2, Aside DEF Start, disk
<1>3. CASE Find(p)
  <2>1. Goto(p, "found") /\ UNCHANGED <<disk, todo, file, alone, copied, kills>>
    BY <1>3 DEF Find, budget
  <2> QED BY <1>1, <2>1, Aside DEF Over
<1>4. CASE Miss(p)
  <2>1. /\ pc[p] = "look" /\ ~In(cache, Exe) /\ UNCHANGED <<staging, cache, copied>>
        /\ Goto(p, IF stagingDir THEN "clean" ELSE "stage")
        /\ alone' = (alone /\ \A q \in Procs \ {p} : ~Downloading(q))
    BY <1>4 DEF Miss, disk
  <2>2. SUFFICES ASSUME alone' PROVE Progress'
    BY DEF Progress
  <2>3. alone /\ \A q \in Procs \ {p} : ~Downloading(q)
    BY <2>1, <2>2
  <2>4. \A q \in Procs \ {p} : pc'[q] = pc[q] /\ pc[q] # "installed"
    BY <2>1, <2>3, Constants DEF Goto, Progress, Complete, IsWhole, In
  <2>5. pc'[p] \in {"clean", "stage"} /\ (pc'[p] = "stage" => ~stagingDir)
    BY <2>1 DEF Goto
  <2>6. \A q \in Procs \ {p} : ~Downloading(q)' /\ pc'[q] # "installed"
    BY <2>3, <2>4 DEF Downloading
  <2>7. Doing(p)'
    BY <2>1, <2>5 DEF Doing, BeforeMove, StagingGone, In
  <2>8. \A q \in Procs : Doing(q)'
    BY <2>6, <2>7 DEF Doing, Downloading, Over, BeforeMove
  <2>9. Downloading(p)' /\ pc'[p] # "installed"
    BY <2>5 DEF Downloading, Over
  <2>10. ~copied' => \A f \in Files : In(cache, f)' => IsWhole(f, cache'[f])
    BY <2>1, <2>3 DEF Progress, In
  <2> QED BY <2>6, <2>8, <2>9, <2>10 DEF Progress, Quiet
<1> QED BY <1>2, <1>3, <1>4

\* Dying: no file of anybody else, and nothing complete, is touched.
LEMMA Dying ==
  ASSUME CacheTypeOK, Progress, alone, NEW p \in Procs, Kill(p)
  PROVE  Progress'
<1> USE DEF CacheTypeOK
<1>1. /\ Goto(p, "idle") /\ UNCHANGED <<stagingDir, todo, file, copied>>
      /\ staging' = Orphaned(staging, p) /\ cache' = Orphaned(cache, p)
      /\ kills' = kills + 1
  BY DEF Kill
<1>2. kills' # 0
  BY <1>1, CacheAssumption
<1>3. \A f \in Files : staging'[f].got = staging[f].got /\ cache'[f].got = cache[f].got
  BY <1>1, Rewritten
<1>4. \A f \in Files : /\ In(staging, f)' <=> In(staging, f)
                       /\ In(cache, f)' <=> In(cache, f)
                       /\ IsWhole(f, staging'[f]) <=> IsWhole(f, staging[f])
                       /\ IsWhole(f, cache'[f]) <=> IsWhole(f, cache[f])
  BY <1>3 DEF In, IsWhole
<1>5. pc'[p] = "idle" /\ \A q \in Procs \ {p} : pc'[q] = pc[q]
  BY <1>1 DEF Goto, Steps
<1>6. ~Downloading(p)' /\ \A q \in Procs \ {p} : Downloading(q)' <=> Downloading(q)
  BY <1>5 DEF Downloading, Over
<1>7. \A q \in Procs : Doing(q)'
  <2> SUFFICES ASSUME NEW q \in Procs PROVE Doing(q)'
    OBVIOUS
  <2>1. CASE q = p
    BY <1>5, <2>1 DEF Doing, BeforeMove
  <2>2. CASE q # p
    <3>1. Doing(q) /\ pc'[q] = pc[q] /\ todo'[q] = todo[q] /\ file'[q] = file[q]
      BY <1>1, <1>5, <2>2 DEF Progress
    <3>2. /\ staging[file[q]] = [by |-> q, got |-> "part"] => staging'[file[q]] = staging[file[q]]
          /\ cache[file[q]] = [by |-> q, got |-> "part"] => cache'[file[q]] = cache[file[q]]
      <4>1. file[q] \in Files /\ q \in Procs \ {p}
        BY <2>2
      <4>2. [by |-> q, got |-> "part"] # [by |-> p, got |-> "part"]
        BY <4>1
      <4>3. staging'[file[q]] = IF staging[file[q]] = [by |-> p, got |-> "part"]
                                THEN [staging[file[q]] EXCEPT !.by = Nobody] ELSE staging[file[q]]
        BY <1>1, <4>1 DEF Orphaned
      <4>4. cache'[file[q]] = IF cache[file[q]] = [by |-> p, got |-> "part"]
                              THEN [cache[file[q]] EXCEPT !.by = Nobody] ELSE cache[file[q]]
        BY <1>1, <4>1 DEF Orphaned
      <4> QED BY <4>2, <4>3, <4>4
    <3>3. Unmoved(q)' = Unmoved(q) /\ Unmoved(q) \subseteq Files
      BY <3>1 DEF Unmoved
    <3>4. Complete' <=> Complete
      BY <1>4 DEF Complete
    <3>5. \A S \in SUBSET Files : /\ Whole(staging, S)' <=> Whole(staging, S)
                                  /\ Whole(cache, S)' <=> Whole(cache, S)
      BY <1>4 DEF Whole
    <3>6. /\ Whole(staging, Unmoved(q))' <=> Whole(staging, Unmoved(q))
          /\ Whole(cache, Files \ Unmoved(q))' <=> Whole(cache, Files \ Unmoved(q))
          /\ Whole(staging, Files)' <=> Whole(staging, Files)
      BY <1>4, <3>3 DEF Whole
    <3> QED BY <1>3, <1>4, <3>1, <3>2, <3>4, <3>6, Constants DEF Doing
  <2> QED BY <2>1, <2>2
<1>8. ~copied' => \A f \in Files : In(cache, f)' => IsWhole(f, cache'[f])
  BY <1>1, <1>4 DEF Progress
<1>9. \A q \in Procs : pc'[q] = "installed" => Complete' /\ Quiet'
  BY <1>4, <1>5, <1>6 DEF Progress, Complete, Quiet
<1> QED BY <1>2, <1>6, <1>7, <1>8, <1>9 DEF Progress

-----------------------------------------------------------------------------
LEMMA NextIInv == IInv /\ [Next]_vars => IInv'
<1> SUFFICES ASSUME IInv, [Next]_vars PROVE IInv'
  OBVIOUS
<1>1. SUFFICES Progress'
  BY NextType, NextStaging DEF IInv
<1>2. CASE UNCHANGED vars
  BY <1>2 DEF vars, IInv, Progress, Doing, Downloading, Whole, Unmoved, Complete, In, IsWhole, Quiet
<1>3. CASE Next
  <2>1. PICK p \in Procs : Start(p) \/ Run(p) \/ RenameRefused(p) \/ Fault(p) \/ Kill(p)
    BY <1>3 DEF Next
  <2>2. CASE Start(p) \/ Find(p) \/ Miss(p)
    BY <2>2, Looking DEF IInv
  <2>3. CASE ~(Start(p) \/ Find(p) \/ Miss(p)) /\ alone
    BY <2>1, <2>3, Unpacking, Moving, Dying DEF IInv, Run
  <2>4. CASE ~(Start(p) \/ Find(p) \/ Miss(p)) /\ ~alone
    <3>1. UNCHANGED alone
      BY <2>1, <2>4 DEF Run, Clean, Stage, Fetch, OpenEntry, WriteEntry, AllUnpacked, MakeRunnable,
         ListStaging, ClearTarget, Rename, RenameRefused, CopyOver, AllMoved, Sweep, Recheck, Fault, Kill
    <3> QED BY <2>4, <3>1 DEF Progress
  <2> QED BY <2>2, <2>3, <2>4
<1> QED BY <1>2, <1>3

LEMMA Always == Spec => []IInv
<1>1. Init => IInv
  BY InitIInv
<1>2. IInv /\ [Next]_vars => IInv'
  BY NextIInv
<1> QED BY <1>1, <1>2, PTL DEF Spec

\* Every variable keeps to its values, however many processes there are.
THEOREM CacheTyped == Spec => []CacheTypeOK
<1>1. IInv => CacheTypeOK
  BY DEF IInv
<1> QED BY <1>1, Always, PTL

\* As long as downloads do not overlap and renames work, no file that is not
\* complete is ever in the cache (bundle.rs 70-143).
THEOREM CacheIsWhole == Spec => []NothingHalfDone
<1>1. IInv => NothingHalfDone
  BY DEF IInv, Progress, NothingHalfDone
<1> QED BY <1>1, Always, PTL

\* Who downloaded and was given an executable has all of the compiler, also
\* after failed and killed attempts, and after copies where renames failed.
THEOREM InstalledHasAll == Spec => []InstalledIsComplete
<1>1. IInv => InstalledIsComplete
  BY DEF IInv, Progress, InstalledIsComplete
<1> QED BY <1>1, Always, PTL

\* Without kills, an executable in the cache when nobody is downloading has
\* its libraries: what fails and is tried again leaves no half compiler.
THEOREM QuietHasAll == Spec => []QuietIsComplete
<1>1. IInv => QuietIsComplete
  BY DEF IInv, Progress, QuietIsComplete, Quiet
<1> QED BY <1>1, Always, PTL
=============================================================================
