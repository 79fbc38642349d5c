------------------------------ MODULE TsgoCache ------------------------------
(****************************************************************************)
(* crates/pragmajs/src/bundle.rs: the TypeScript compiler that every         *)
(* pragmajs process on a machine shares.  A process that finds no executable *)
(* in the cache directory downloads the package into a staging directory     *)
(* inside the cache and moves its files over one by one.                     *)
(*                                                                           *)
(* Processes interleave at every call of the file system, may be killed      *)
(* between any two of them, and any download or entry may fail.  A file is   *)
(* known by who writes it and how far it has got, so that two processes that *)
(* extract to one path, or a rename of a file still being written, come out  *)
(* as on a Unix file system.                                                 *)
(****************************************************************************)
EXTENDS Naturals, FiniteSets

CONSTANTS Procs,        \* processes
          Exe,          \* the executable, tsgo or tsgo.exe
          Libs,         \* the rest of package/lib: the lib.*.d.ts files
          MaxStarts,    \* bound: invocations in a behaviour
          MaxKills,     \* bound: processes killed in a behaviour
          MaxFaults     \* bound: failing downloads, entries and renames

Files == Libs \cup {Exe}

ASSUME CacheAssumption ==
  /\ Exe \notin Libs
  /\ IsFiniteSet(Procs) /\ IsFiniteSet(Libs)
  /\ MaxStarts \in Nat /\ MaxKills \in Nat /\ MaxFaults \in Nat

NoFile  == [by |-> "nobody", got |-> "nothing"]
Nobody  == "nobody"

\* "part" is a file still being written, "whole" a complete one; only the
\* executable is made "runnable" (mode 755), on top of being whole.
Content == [by : Procs \cup {Nobody}, got : {"nothing", "part", "whole", "runnable"}]

Steps == {"idle",       \* not running
          "look",       \* bundled_tsgo: is the executable cached?
          "clean",      \* staging exists: remove it
          "stage",      \* create the staging directory
          "fetch",      \* the request
          "unpack",     \* the next entry of the archive
          "write",      \* an entry being written
          "chmod", "list",
          "move",       \* the next child of the staging directory
          "replace",    \* what was at its destination is gone
          "copy",       \* rename refused: copying instead
          "sweep", "recheck",
          "found",      \* Ok, from the cache
          "installed",  \* Ok, after a download of its own
          "failed"}     \* Err

Over == {"idle", "found", "installed", "failed"}

VARIABLES
  staging,     \* Files -> Content: what .staging holds
  stagingDir,  \* whether .staging exists
  cache,       \* Files -> Content: what the cache directory holds
  pc,          \* Procs -> Steps
  todo,        \* Procs -> entries not yet unpacked, or children not yet moved
  file,        \* Procs -> the entry or child at hand
  alone,       \* history: no two downloads have overlapped so far
  copied,      \* history: some rename has been refused
  starts, kills, faults

vars == <<staging, stagingDir, cache, pc, todo, file, alone, copied,
          starts, kills, faults>>
disk == <<staging, stagingDir, cache>>
budget == <<starts, kills, faults>>

Empty == [f \in Files |-> NoFile]
In(dir, f) == dir[f].got # "nothing"
IsWhole(f, c) == c.got = IF f = Exe THEN "runnable" ELSE "whole"
Complete == \A f \in Files : IsWhole(f, cache[f])
Downloading(p) == pc[p] \notin Over \cup {"look"}

Init ==
  /\ staging = Empty /\ stagingDir = FALSE /\ cache = Empty
  /\ pc = [p \in Procs |-> "idle"]
  /\ todo = [p \in Procs |-> {}]
  /\ file = [p \in Procs |-> Exe]
  /\ alone = TRUE /\ copied = FALSE
  /\ starts = 0 /\ kills = 0 /\ faults = 0

Goto(p, step) == pc' = [pc EXCEPT ![p] = step]

----------------------------------------------------------------------------
\* discover_compiler asks for the executable.
Start(p) ==
  /\ pc[p] \in Over /\ starts < MaxStarts
  /\ starts' = starts + 1
  /\ Goto(p, "look")
  /\ UNCHANGED <<disk, todo, file, alone, copied, kills, faults>>

\* cached_tsgo: the executable is taken for the whole compiler.
Find(p) ==
  /\ pc[p] = "look" /\ In(cache, Exe)
  /\ Goto(p, "found")
  /\ UNCHANGED <<disk, todo, file, alone, copied, budget>>

\* download_and_extract begins; what is left in staging is somebody's.
Miss(p) ==
  /\ pc[p] = "look" /\ ~In(cache, Exe)
  /\ Goto(p, IF stagingDir THEN "clean" ELSE "stage")
  /\ alone' = (alone /\ \A q \in Procs \ {p} : ~Downloading(q))
  /\ UNCHANGED <<disk, todo, file, copied, budget>>

\* mutation: a staging directory that is gone is waited for.
CleanStubbornly(p) ==
  /\ pc[p] = "clean"
  /\ Goto(p, IF stagingDir THEN "stage" ELSE "clean")
  /\ staging' = Empty /\ stagingDir' = FALSE
  /\ UNCHANGED <<cache, todo, file, alone, copied, budget>>

\* remove_dir_all(staging); it fails when somebody else removed it meanwhile.
Clean(p) ==
  /\ pc[p] = "clean"
  /\ Goto(p, IF stagingDir THEN "stage" ELSE "failed")
  /\ staging' = Empty /\ stagingDir' = FALSE
  /\ UNCHANGED <<cache, todo, file, alone, copied, budget>>

Stage(p) ==
  /\ pc[p] = "stage"
  /\ stagingDir' = TRUE
  /\ Goto(p, "fetch")
  /\ UNCHANGED <<staging, cache, todo, file, alone, copied, budget>>

\* mutation: entries outside package/lib are not skipped.
FetchEverything(p) ==
  /\ pc[p] = "fetch"
  /\ todo' = [todo EXCEPT ![p] = Files \cup {"package.json"}]
  /\ Goto(p, "unpack")
  /\ UNCHANGED <<disk, file, alone, copied, budget>>

Fetch(p) ==
  /\ pc[p] = "fetch"
  /\ todo' = [todo EXCEPT ![p] = Files]
  /\ Goto(p, "unpack")
  /\ UNCHANGED <<disk, file, alone, copied, budget>>

\* mutation: entries are unpacked where they will be used.
OpenEntryInPlace(p) ==
  /\ pc[p] = "unpack"
  /\ \E f \in todo[p] :
       /\ cache' = [cache EXCEPT ![f] = [by |-> p, got |-> "part"]]
       /\ file' = [file EXCEPT ![p] = f]
       /\ todo' = [todo EXCEPT ![p] = @ \ {f}]
  /\ Goto(p, "write")
  /\ UNCHANGED <<staging, stagingDir, alone, copied, budget>>

\* The next entry: its parent directory is made if need be, the path is
\* opened anew.  What another process was writing there loses its name.
OpenEntry(p) ==
  /\ pc[p] = "unpack"
  /\ \E f \in todo[p] :
       /\ staging' = [staging EXCEPT ![f] = [by |-> p, got |-> "part"]]
       /\ file' = [file EXCEPT ![p] = f]
       /\ todo' = [todo EXCEPT ![p] = @ \ {f}]
  /\ stagingDir' = TRUE
  /\ Goto(p, "write")
  /\ UNCHANGED <<cache, alone, copied, budget>>

\* The entry is complete, wherever its file is by now.
Finished(dir, p) ==
  [f \in Files |-> IF f = file[p] /\ dir[f] = [by |-> p, got |-> "part"]
                     THEN [dir[f] EXCEPT !.got = "whole"] ELSE dir[f]]

WriteEntry(p) ==
  /\ pc[p] = "write"
  /\ staging' = Finished(staging, p)
  /\ cache' = Finished(cache, p)
  /\ Goto(p, "unpack")
  /\ UNCHANGED <<stagingDir, todo, file, alone, copied, budget>>

\* mutation: an entry that cannot be read ends the archive.
UnpackedSome(p) ==
  /\ pc[p] = "unpack"
  /\ Goto(p, "chmod")
  /\ UNCHANGED <<disk, todo, file, alone, copied, budget>>

AllUnpacked(p) ==
  /\ pc[p] = "unpack" /\ todo[p] = {}
  /\ Goto(p, "chmod")
  /\ UNCHANGED <<disk, todo, file, alone, copied, budget>>

\* set_permissions, if the executable is there.
MakeRunnable(p) ==
  /\ pc[p] = "chmod"
  /\ staging' = IF staging[Exe].got = "whole"
                  THEN [staging EXCEPT ![Exe].got = "runnable"] ELSE staging
  /\ Goto(p, "list")
  /\ UNCHANGED <<stagingDir, cache, todo, file, alone, copied, budget>>

\* read_dir(staging), in the order the file system gives it
ListStaging(p) ==
  /\ pc[p] = "list"
  /\ IF stagingDir
       THEN /\ todo' = [todo EXCEPT ![p] = {f \in Files : In(staging, f)}]
            /\ Goto(p, "move")
       ELSE /\ Goto(p, "failed")
            /\ UNCHANGED todo
  /\ UNCHANGED <<disk, file, alone, copied, budget>>

\* The next child: what stands at its destination is removed first.
ClearTarget(p) ==
  /\ pc[p] = "move"
  /\ \E f \in todo[p] :
       /\ file' = [file EXCEPT ![p] = f]
       /\ todo' = [todo EXCEPT ![p] = @ \ {f}]
       /\ cache' = [cache EXCEPT ![f] = NoFile]
  /\ Goto(p, "replace")
  /\ UNCHANGED <<staging, stagingDir, alone, copied, budget>>

\* rename; without its source the fallback copy fails as well.
Rename(p) ==
  /\ pc[p] = "replace"
  /\ IF In(staging, file[p])
       THEN /\ cache' = [cache EXCEPT ![file[p]] = staging[file[p]]]
            /\ staging' = [staging EXCEPT ![file[p]] = NoFile]
            /\ Goto(p, "move")
       ELSE /\ Goto(p, "failed")
            /\ UNCHANGED <<staging, cache>>
  /\ UNCHANGED <<stagingDir, todo, file, alone, copied, budget>>

\* rename refused: copy_recursive starts on the destination.
RenameRefused(p) ==
  /\ pc[p] = "replace" /\ faults < MaxFaults
  /\ In(staging, file[p])
  /\ cache' = [cache EXCEPT ![file[p]] = [by |-> p, got |-> "part"]]
  /\ faults' = faults + 1
  /\ copied' = TRUE
  /\ Goto(p, "copy")
  /\ UNCHANGED <<staging, stagingDir, todo, file, alone, starts, kills>>

\* The copy is as good as its source; then the source is removed.
CopyOver(p) ==
  /\ pc[p] = "copy"
  /\ IF In(staging, file[p])
       THEN /\ cache' = [cache EXCEPT ![file[p]] =
                           IF @ = [by |-> p, got |-> "part"] THEN staging[file[p]] ELSE @]
            /\ staging' = [staging EXCEPT ![file[p]] = NoFile]
            /\ Goto(p, "move")
       ELSE /\ Goto(p, "failed")
            /\ UNCHANGED <<staging, cache>>
  /\ UNCHANGED <<stagingDir, todo, file, alone, copied, budget>>

\* mutation: the executable's move ends the moving.
MovedSome(p) ==
  /\ pc[p] = "move"
  /\ Goto(p, "sweep")
  /\ UNCHANGED <<disk, todo, file, alone, copied, budget>>

AllMoved(p) ==
  /\ pc[p] = "move" /\ todo[p] = {}
  /\ Goto(p, "sweep")
  /\ UNCHANGED <<disk, todo, file, alone, copied, budget>>

\* remove_dir_all(staging).ok()
Sweep(p) ==
  /\ pc[p] = "sweep"
  /\ staging' = Empty /\ stagingDir' = FALSE
  /\ Goto(p, "recheck")
  /\ UNCHANGED <<cache, todo, file, alone, copied, budget>>

\* bundled_tsgo looks once more before it answers.
Recheck(p) ==
  /\ pc[p] = "recheck"
  /\ Goto(p, IF In(cache, Exe) THEN "installed" ELSE "failed")
  /\ UNCHANGED <<disk, todo, file, alone, copied, budget>>

\* The network or an entry fails; the staging directory stays as it is.
Fault(p) ==
  /\ pc[p] \in {"fetch", "unpack", "write"} /\ faults < MaxFaults
  /\ faults' = faults + 1
  /\ Goto(p, "failed")
  /\ UNCHANGED <<disk, todo, file, alone, copied, starts, kills>>

\* The process is killed; a file it was writing stays as it is for good.
Orphaned(dir, p) ==
  [f \in Files |-> IF dir[f] = [by |-> p, got |-> "part"]
                     THEN [dir[f] EXCEPT !.by = Nobody] ELSE dir[f]]

Kill(p) ==
  /\ pc[p] \notin Over /\ kills < MaxKills
  /\ kills' = kills + 1
  /\ Goto(p, "idle")
  /\ staging' = Orphaned(staging, p)
  /\ cache' = Orphaned(cache, p)
  /\ UNCHANGED <<stagingDir, todo, file, alone, copied, starts, faults>>

----------------------------------------------------------------------------
Run(p) ==
  \/ Find(p) \/ Miss(p) \/ Clean(p) \/ Stage(p) \/ Fetch(p)
  \/ OpenEntry(p) \/ WriteEntry(p) \/ AllUnpacked(p) \/ MakeRunnable(p)
  \/ ListStaging(p) \/ ClearTarget(p) \/ Rename(p) \/ CopyOver(p)
  \/ AllMoved(p) \/ Sweep(p) \/ Recheck(p)

Next == \E p \in Procs :
          Start(p) \/ Run(p) \/ RenameRefused(p) \/ Fault(p) \/ Kill(p)

\* A process that runs keeps running; nothing makes it start, fail or die.
Spec == Init /\ [][Next]_vars /\ \A p \in Procs : WF_vars(Run(p))

----------------------------------------------------------------------------
(* Properties *)

\* Every variable has the values it is declared for.
CacheTypeOK ==
  /\ staging \in [Files -> Content] /\ cache \in [Files -> Content]
  /\ stagingDir \in BOOLEAN /\ alone \in BOOLEAN /\ copied \in BOOLEAN
  /\ pc \in [Procs -> Steps]
  /\ todo \in [Procs -> SUBSET Files]
  /\ file \in [Procs -> Files]
  /\ starts \in 0 .. MaxStarts /\ kills \in 0 .. MaxKills /\ faults \in 0 .. MaxFaults

\* Killed downloads leave half a file in the staging directory, and never in
\* the cache: as long as downloads do not overlap and renames work, whatever
\* file is in the cache is complete and the executable can be executed.
NothingHalfDone ==
  alone /\ ~copied => \A f \in Files : In(cache, f) => IsWhole(f, cache[f])

\* A process that downloaded and got its executable has the libraries too,
\* whatever failed in earlier attempts, and so has everybody after it.
InstalledIsComplete ==
  alone /\ (\E p \in Procs : pc[p] = "installed") => Complete

\* Only a process killed between two moves can leave an executable without its
\* libraries: failing downloads and entries, and the retries after them, leave
\* nothing that a later start would take for a compiler.
QuietIsComplete ==
  alone /\ ~copied /\ kills = 0 /\ In(cache, Exe) /\ (\A p \in Procs : ~Downloading(p))
    => Complete

\* Whoever asks gets an answer or is killed, however processes interleave.
Answers == \A p \in Procs : pc[p] = "look" ~> pc[p] \in Over

\* What bundle.rs:1 calls the cached compiler, and callers take it for: an
\* executable that is found has its libraries beside it.
FoundIsComplete == alone /\ (\E p \in Procs : pc[p] = "found") => Complete
=============================================================================
