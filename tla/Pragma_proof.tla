---------------------------- MODULE Pragma_proof ----------------------------
(****************************************************************************)
(* The combined check and one analysis of the compiler session, for every    *)
(* set of texts, facts about them, arguments, machines, projects and bounds:  *)
(* how far an analysis has got says what it has established, and how far main *)
(* has got says what became of its verdicts.                                  *)
(****************************************************************************)
EXTENDS Pragma, TLAPS

\* The stages of an analysis, from the moment each guard has been passed.
Ending == {"release", "close", "rematch", "report", "answered"}
Asking == {"initialize", "require", "program", "scanBefore", "types", "symbols",
           "render", "diagnose", "scanAfter"}

\* The questions have come as far as one of the stages, none has failed.
Reached(stages) == stage \in stages \/ (stage \in Ending /\ outcome = "ok")
Configured == Reached(Asking)
Accepted == Reached(Asking \ {"initialize", "require"})
Scanned == Reached({"types", "symbols", "render", "diagnose", "scanAfter"})
Replied == Reached({"scanAfter"})

\* Who holds a compiler, and what has been given back.
Held ==
  /\ stage \in {"idle", "match", "scan", "spawn"} => compiler = "none"
  /\ stage \in Opened => compiler \in {"up", "dead"}
  /\ stage \in {"rematch", "report", "answered"} => compiler = "gone"
  /\ stage = "refused" => compiler \in {"none", "gone"}
  /\ stage \in {"close", "rematch", "report", "answered"} =>
       snapshot = "released" \/ "release" \in giveBack
  /\ stage = "answered" => giveBack = {}

\* What the guards have established of the project, as long as it is not edited.
Guarded ==
  /\ stage \in Opened /\ ~touched => project = loaded.flaws
  /\ Configured /\ ~touched => options = loaded.flaws \cap ConfigFlaws
  /\ Accepted => options = {} /\ "otherConfig" \notin loaded.flaws
  /\ Scanned /\ ~touched => "suppressed" \notin loaded.flaws

\* What they have established of the text, if no text comes back.
Matched ==
  /\ stage \notin {"idle", "match", "refused"} => request \in earlier
  /\ stage \notin {"idle", "match", "scan", "refused"} => request \notin Suppressing
  /\ stage \in Opened \cup {"rematch"} /\ text = request => loaded.text = request
  /\ stage \in {"report", "answered"} => loaded.text = request

\* The reply is about what the compiler loaded, and complete when it is given.
Told ==
  /\ Replied => reply = [about |-> loaded.text, errors |-> loaded.text \in Mistyped]
  /\ stage \in {"report", "answered"} => outcome = "ok"

SessionInv == SessionTypeOK /\ Held /\ Guarded /\ (~Recur => Matched) /\ Told

-----------------------------------------------------------------------------
(* main *)

\* The current file has been read and not yet been judged.
Reading == {"annotations", "discover", "session", "untyped", "verdict"}

\* Which analysis goes with which step of main.
Attached ==
  /\ pc \in {"arguments", "collect", "annotations", "discover", "untyped"} => stage = "idle"
  /\ pc = "session" => stage # "idle" /\ request = source
  /\ pc = "verdict" => stage \in {"idle", "answered"} /\ (stage = "answered" => request = source)
  /\ pc \in Reading => source \in Texts /\ left > 0
  /\ pc = "read" => left > 0
  /\ pc = "done" <=> exit # 9

\* Options that a platform was given for are the platform's.
Chosen ==
  /\ \A a \in given : Known(a)
  /\ pc = "arguments" => ran = NothingRan
  /\ "--platform" \in Flags /\ (ran # NothingRan \/ pc \notin {"arguments", "done"}) =>
       /\ opts.runtime = Settings(Value("--platform")).runtime
       /\ opts.target = Settings(Value("--platform")).target
  /\ ran.own \in {"no", opts.runtime} /\ (ran.rt = "no" \/ ran.rt = Environment(source))

\* What the current file's objections have become: a text whose annotations
\* cannot be read is not analysed, and one that is objected to has failed.
Judged ==
  /\ pc \in {"discover", "session"} => ~(IncludesRt /\ Facts[source].garbled) /\ rtErrors = {}
  /\ pc = "untyped" => rtErrors = IF IncludesRt /\ Facts[source].garbled THEN {"annotation"} ELSE {}
  /\ pc = "verdict" /\ Objectionable(source) => Failed
  /\ pc = "verdict" /\ stage = "answered" /\ IncludesRt /\ reply.errors => Failed
  /\ compilerSaid => rtErrors \subseteq {"compiler"} /\ pc \in {"verdict", "read", "done"}

\* No objection is lost: it has been counted, or is about the current file.
Counted ==
  /\ pc \in {"arguments", "collect"} => ~objection
  /\ objection => ~ok \/ exit \notin {0, 9} \/ command = "build"
                  \/ (pc \in Reading /\ Objectionable(source))
  /\ exit = 0 /\ command = "check" => left = 0 /\ ok
  /\ written # NoText => pc = "done" /\ BuiltIsAccepted

PragmaInv == PragmaTypeOK /\ SessionInv /\ Attached /\ Chosen /\ Judged /\ Counted

-----------------------------------------------------------------------------
(* The session *)

\* An analysis is set up from nothing, on a file just read.
LEMMA Afresh ==
  ASSUME SessionInv, NoSession, text' \in Texts, earlier' = {text'},
         project' \in Projects, touched' = FALSE, edits' = edits
  PROVE  SessionInv'
<1> USE SessionAssumption DEF SessionInv
<1>1. SessionTypeOK'
  BY DEF NoSession, SessionTypeOK, Stages, NoLoad, NoReply
<1>2. Held' /\ Guarded' /\ Matched' /\ Told'
  BY DEF NoSession, Held, Guarded, Matched, Told, Opened, Configured, Accepted, Scanned,
         Replied, Reached, Asking, Ending
<1> QED BY <1>1, <1>2

\* The first state has no analysis either.
LEMMA SessionStart == SessionInit => SessionInv
<1> SUFFICES ASSUME SessionInit PROVE SessionInv
  OBVIOUS
<1> USE SessionAssumption DEF SessionInit
<1>1. SessionTypeOK
  <2>1. project \subseteq Flaws
    BY SMT DEF Flaws
  <2>2. /\ loaded \in [text : Texts \cup {NoText}, flaws : SUBSET Flaws]
        /\ reply \in [about : Texts \cup {NoText}, errors : BOOLEAN]
    BY DEF NoLoad, NoReply
  <2>3. earlier \subseteq Texts /\ text \in earlier
    OBVIOUS
  <2>4. touched \in BOOLEAN
    OBVIOUS
  <2>6. edits \in 0 .. MaxEdits
    OBVIOUS
  <2>5. options \subseteq ConfigFlaws /\ giveBack \subseteq {"release", "close"}
    OBVIOUS
  <2> QED BY <2>1, <2>2, <2>3, <2>4, <2>5, <2>6 DEF SessionTypeOK, Stages
<1>2. Held /\ Guarded /\ Matched /\ Told
  BY DEF Held, Guarded, Matched, Told, Opened, Configured, Accepted, Scanned,
         Replied, Reached, Asking, Ending
<1> QED BY <1>1, <1>2 DEF SessionInv

\* The session's invariant reads the session's variables only.
LEMMA SessionAlone == SessionInv /\ UNCHANGED sessionVars => SessionInv'
BY DEF SessionInv, sessionVars, world, session, SessionTypeOK, Held, Guarded, Matched, Told,
       Configured, Accepted, Scanned, Replied, Reached

\* Every step of an analysis keeps what the steps before it established.
LEMMA AnalyzeStep == SessionInv /\ Analyze => SessionInv'
<1> SUFFICES ASSUME SessionInv, Analyze PROVE SessionInv'
  OBVIOUS
<1> USE SessionAssumption DEF SessionInv, SessionTypeOK, Stages, world, Held, Guarded, Matched,
        Told, Opened, Configured, Accepted, Scanned, Replied, Reached, Asking, Ending
<1>1. CASE Match
  BY <1>1 DEF Match
<1>2. CASE Scan
  BY <1>2 DEF Scan
<1>3. CASE Spawn
  BY <1>3 DEF Spawn
<1>4. CASE SpawnFails
  BY <1>4 DEF SpawnFails, Refuse
<1>5. CASE ParseConfig
  BY <1>5 DEF ParseConfig, Asked, ConfigFlaws
<1>6. CASE Initialize \/ ProgramFiles \/ QueryTypes \/ QuerySymbols \/ RenderTypes
  <2>1. CASE Initialize
    BY <2>1 DEF Initialize, Asked
  <2>2. CASE ProgramFiles
    BY <2>2 DEF ProgramFiles, Asked
  <2>3. CASE QueryTypes
    BY <2>3 DEF QueryTypes, Asked
  <2>4. CASE QuerySymbols
    BY <2>4 DEF QuerySymbols, Asked
  <2>5. CASE RenderTypes
    BY <2>5 DEF RenderTypes, Asked
  <2> QED BY <1>6, <2>1, <2>2, <2>3, <2>4, <2>5
<1>7. CASE RequireProject
  <2>1. SessionTypeOK'
    BY <1>7 DEF RequireProject, Fails
  <2>2. Held' /\ Told'
    BY <1>7 DEF RequireProject, Fails
  <2>3. Guarded' /\ (~Recur => Matched')
    BY <1>7 DEF RequireProject, Fails
  <2> QED BY <2>1, <2>2, <2>3
<1>8. CASE ScanProgram("scanBefore", "types")
  <2>1. SessionTypeOK'
    BY <1>8 DEF ScanProgram, ProgramSuppresses, Fails
  <2>2. Held' /\ Told'
    BY <1>8 DEF ScanProgram, ProgramSuppresses, Fails
  <2>3. Guarded' /\ (~Recur => Matched')
    BY <1>8 DEF ScanProgram, ProgramSuppresses, Fails
  <2> QED BY <2>1, <2>2, <2>3
<1>9. CASE QueryDiagnostics
  BY <1>9 DEF QueryDiagnostics, Asked
<1>10. CASE ScanProgram("scanAfter", "release")
  <2>1. SessionTypeOK'
    BY <1>10 DEF ScanProgram, ProgramSuppresses, Fails
  <2>2. Held' /\ Told'
    BY <1>10 DEF ScanProgram, ProgramSuppresses, Fails
  <2>3. Guarded' /\ (~Recur => Matched')
    BY <1>10 DEF ScanProgram, ProgramSuppresses, Fails
  <2> QED BY <2>1, <2>2, <2>3
<1>11. CASE Refused
  BY <1>11 DEF Refused, Fails
<1>12. CASE Release
  <2>1. \/ compiler = "up" /\ snapshot' = "released" /\ UNCHANGED giveBack
        \/ giveBack' = giveBack \cup {"release"} /\ UNCHANGED snapshot
    BY <1>12 DEF Release
  <2>2. SessionTypeOK'
    <3>1. giveBack' \subseteq {"release", "close"} /\ snapshot' \in {"none", "held", "released"}
      BY <2>1
    <3> QED BY <1>12, <3>1 DEF Release
  <2>3. Held'
    BY <1>12, <2>1 DEF Release
  <2>4. Guarded' /\ (~Recur => Matched') /\ Told'
    BY <1>12 DEF Release
  <2> QED BY <2>2, <2>3, <2>4
<1>13. CASE Close
  <2>1. SessionTypeOK'
    BY <1>13 DEF Close
  <2>2. Held'
    BY <1>13 DEF Close
  <2>3. Guarded' /\ (~Recur => Matched') /\ Told'
    BY <1>13 DEF Close
  <2> QED BY <2>1, <2>2, <2>3
<1>14. CASE Rematch
  BY <1>14 DEF Rematch
<1>15. CASE Report
  BY <1>15 DEF Report
<1> QED BY <1>1, <1>2, <1>3, <1>4, <1>5, <1>6, <1>7, <1>8, <1>9, <1>10, <1>11, <1>12,
           <1>13, <1>14, <1>15 DEF Analyze

\* A request is made from nothing.
LEMMA AskStep == ASSUME SessionInv, NEW t \in Texts, Ask(t) PROVE SessionInv'
BY SessionAssumption
   DEF Ask, SessionInv, SessionTypeOK, Stages, world, Held, Guarded, Matched,
       Told, Opened, Configured, Accepted, Scanned, Replied, Reached, Asking, Ending

\* Edits and the compiler's death undo nothing of it.
LEMMA WorldStep == SessionInv /\ World => SessionInv'
<1> SUFFICES ASSUME SessionInv, World PROVE SessionInv'
  OBVIOUS
<1> USE SessionAssumption DEF SessionInv, SessionTypeOK, Held, Guarded, Matched, world, session,
        Told, Opened, Configured, Accepted, Scanned, Replied, Reached
<1>1. CASE EditText
  <2>1. PICK t \in Texts \ {text} : /\ Recur \/ t \notin earlier
                                   /\ text' = t /\ earlier' = earlier \cup {t}
    BY <1>1 DEF EditText
  <2>2. SessionTypeOK'
    BY <1>1, <2>1 DEF EditText
  <2>3. Held' /\ Guarded' /\ Told'
    BY <1>1 DEF EditText, Opened
  <2>4. ~Recur => Matched'
    BY <1>1, <2>1 DEF EditText, Opened
  <2> QED BY <2>2, <2>3, <2>4
<1>2. CASE EditProject
  <2>1. project' \subseteq Flaws
    BY <1>2 DEF EditProject
  <2>2. SessionTypeOK'
    BY <1>2, <2>1 DEF EditProject
  <2>3. Held' /\ Told'
    BY <1>2 DEF EditProject, Ending, Asking, Opened
  <2>4. Guarded'
    BY <1>2 DEF EditProject, Ending, Asking, Opened
  <2>5. ~Recur => Matched'
    BY <1>2 DEF EditProject
  <2> QED BY <2>2, <2>3, <2>4, <2>5
<1>3. CASE CompilerDies
  BY <1>3 DEF CompilerDies, Ending, Asking
<1> QED BY <1>1, <1>2, <1>3 DEF World

-----------------------------------------------------------------------------
(* What is said of a text and of the options *)

\* A platform that was given is one, and has settings.
LEMMA PlatformGiven ==
  ASSUME \A a \in given : Known(a), "--platform" \in Flags
  PROVE  /\ Value("--platform") \in Platforms
         /\ Settings(Value("--platform")).runtime \in Runtimes
         /\ Settings(Value("--platform")).target \in Platforms
<1>1. PICK a \in given : a.flag = "--platform"
  BY DEF Flags
<1>2. /\ (CHOOSE b \in given : b.flag = "--platform") \in given
      /\ (CHOOSE b \in given : b.flag = "--platform").flag = "--platform"
  BY <1>1
<1>3. Value("--platform") \in Platforms
  BY <1>2 DEF Value, Known, Values
<1> QED BY <1>3 DEF Settings, Runtimes, Platforms

\* An environment is a platform or a conflict of two.
LEMMA EnvironmentIs ==
  ASSUME PragmaTypeOK, NEW t \in Texts
  PROVE  Environment(t) \in Platforms \cup {"conflict"}
<1>1. Facts[t].markers \subseteq Platforms
  BY PragmaAssumption DEF TextFacts
<1>2. Candidates(t) \subseteq Platforms
  BY <1>1 DEF Candidates
<1>3. opts.target \in Platforms \cup {"auto"}
  BY DEF PragmaTypeOK
<1>4. Candidates(t) # {} => (CHOOSE e \in Candidates(t) : TRUE) \in Candidates(t)
  OBVIOUS
<1> QED BY <1>2, <1>3, <1>4 DEF Environment, Platforms

\* What the operators read, and nothing else changes them.
LEMMA Unread ==
  /\ UNCHANGED given => Flags' = Flags /\ Value("--platform")' = Value("--platform")
  /\ UNCHANGED <<opts, source>> => Environment(source)' = Environment(source)
  /\ UNCHANGED opts =>
       /\ IncludesOwn' = IncludesOwn /\ IncludesRt' = IncludesRt
       /\ \A t : Objectionable(t)' = Objectionable(t)
<1>1. UNCHANGED given => Flags' = Flags /\ Value("--platform")' = Value("--platform")
  BY DEF Flags, Value
<1>2. UNCHANGED <<opts, source>> => Environment(source)' = Environment(source)
  BY DEF Environment, Candidates
<1>3. UNCHANGED opts => IncludesOwn' = IncludesOwn /\ IncludesRt' = IncludesRt
  BY DEF IncludesOwn, IncludesRt
<1>4. UNCHANGED opts => \A t : Objectionable(t)' = Objectionable(t)
  BY DEF Objectionable, IncludesOwn, IncludesRt
<1> QED BY <1>1, <1>2, <1>3, <1>4

\* What the checkers find is of the kinds they have; a text that is objected to
\* has findings, whoever computed the types.
LEMMA FindingsAre ==
  ASSUME NEW t \in Texts, NEW typed \in BOOLEAN
  PROVE  /\ OwnFindings(t, typed) \subseteq {"omitted", "finding"}
         /\ Facts[t].ownBad => OwnFindings(t, typed) # {}
         /\ RtFindings(t, typed) \subseteq {"omitted", "environment", "finding"}
         /\ Facts[t].rtBad => RtFindings(t, typed) # {}
BY DEF OwnFindings, RtFindings

-----------------------------------------------------------------------------
(* The command line *)

\* How many files may be left.
LEMMA Lefts == MaxFiles \in Nat /\ \A n \in 0 .. MaxFiles : n \in 0 .. MaxFiles \cup {1}
<1>1. MaxFiles \in Nat
  BY PragmaAssumption
<1> QED BY <1>1


\* A step that leaves a command line, a file's preludes and its text alone
\* keeps what was chosen, if it does not end the reading of the command line.
LEMMA StillChosen ==
  ASSUME Chosen, UNCHANGED <<given, opts, ran, source>>, pc \notin {"arguments", "done"},
         pc' # "arguments"
  PROVE  Chosen'
BY Unread DEF Chosen

\* The options stay options, whatever is read next.
LEMMA ArgumentStep == PragmaInv /\ Argument => PragmaInv'
<1> SUFFICES ASSUME PragmaInv, Argument PROVE PragmaInv'
  OBVIOUS
<1> USE DEF PragmaInv
<1>1. PICK a \in Arguments :
        \/ /\ a.flag = "path" \/ a.flag \notin Flags
           /\ Known(a)
           /\ given' = given \cup {a}
           /\ opts' = CASE a.flag = "--checker" -> [opts EXCEPT !.checker = a.value]
                        [] a.flag = "--runtime" -> [opts EXCEPT !.runtime = a.value]
                        [] a.flag = "--target"  -> [opts EXCEPT !.target = a.value]
                        [] OTHER -> opts
           /\ UNCHANGED <<pc, exit>>
        \/ UsageError /\ UNCHANGED <<given, opts>>
  BY DEF Argument
<1>2. /\ pc = "arguments" /\ stage = "idle"
      /\ UNCHANGED <<sessionVars, command, left, source, rtErrors, ownErrors,
                     compilerSaid, ran, objection, written, ok>>
  BY DEF Argument, Attached
<1>3. SessionInv'
  BY <1>2, SessionAlone
<1>4. /\ (pc' = "arguments" /\ exit' = exit) \/ (pc' = "done" /\ exit' = 2)
      /\ given' \subseteq Arguments /\ \A b \in given' : Known(b)
  BY <1>1, <1>2 DEF UsageError, PragmaTypeOK, Chosen
<1>5. opts' \in [checker : {"all", "own", "rt"}, runtime : Runtimes,
                 target : Platforms \cup {"auto"}, compiler : {"auto", "off", "on"}]
  BY <1>1 DEF PragmaTypeOK, Known, Values
<1>6. PragmaTypeOK'
  BY <1>2, <1>3, <1>4, <1>5 DEF PragmaTypeOK, SessionInv
<1>7. ran = NothingRan /\ ~objection /\ written = NoText /\ ~compilerSaid
  BY <1>2 DEF Chosen, Counted, Judged
<1>8. Attached' /\ Chosen' /\ Judged' /\ Counted'
  BY <1>2, <1>4, <1>7 DEF Attached, Chosen, NothingRan, Judged, Counted, Reading, sessionVars, session
<1> QED BY <1>3, <1>6, <1>8

\* A platform's settings are those of both checkers, or the command is refused.
LEMMA EndOfArgumentsStep == PragmaInv /\ EndOfArguments => PragmaInv'
<1> SUFFICES ASSUME PragmaInv, EndOfArguments PROVE PragmaInv'
  OBVIOUS
<1> USE DEF PragmaInv
<1>1. /\ pc = "arguments" /\ stage = "idle"
      /\ UNCHANGED <<sessionVars, command, given, source, rtErrors, ownErrors,
                     compilerSaid, ran, objection, written, ok>>
  BY DEF EndOfArguments, Attached
<1>2. SessionInv'
  BY <1>1, SessionAlone
<1>3. ran = NothingRan /\ ~objection /\ written = NoText /\ ~compilerSaid
  BY <1>1 DEF Chosen, Counted, Judged
<1>4. CASE UsageError /\ UNCHANGED <<opts, left>>
  <2>1. PragmaTypeOK'
    BY <1>1, <1>2, <1>4 DEF UsageError, PragmaTypeOK, SessionInv
  <2> QED BY <1>1, <1>2, <1>3, <1>4, <2>1
          DEF UsageError, Attached, Chosen, NothingRan, Judged, Counted, Reading, sessionVars, session
<1>5. CASE /\ opts' = [WithPlatform(opts) EXCEPT !.compiler = CompilerMode]
           /\ pc' = IF command = "check" THEN "collect" ELSE "read"
           /\ left' = IF command = "build" THEN 1 ELSE 0
           /\ UNCHANGED exit
  <2>1. "--platform" \in Flags => /\ Settings(Value("--platform")).runtime \in Runtimes
                                  /\ Settings(Value("--platform")).target \in Platforms
    BY PlatformGiven DEF Chosen
  <2>2. WithPlatform(opts) \in [checker : {"all", "own", "rt"}, runtime : Runtimes,
               target : Platforms \cup {"auto"}, compiler : {"auto", "off", "on"}]
    BY <2>1 DEF WithPlatform, PragmaTypeOK
  <2>3. CompilerMode \in {"auto", "off", "on"}
    BY DEF CompilerMode
  <2>4. opts' \in [checker : {"all", "own", "rt"}, runtime : Runtimes,
                   target : Platforms \cup {"auto"}, compiler : {"auto", "off", "on"}]
    BY <1>5, <2>2, <2>3
  <2>5. "--platform" \in Flags => /\ opts'.runtime = Settings(Value("--platform")).runtime
                                  /\ opts'.target = Settings(Value("--platform")).target
    BY <1>5, <2>2 DEF WithPlatform, PragmaTypeOK
  <2>6. pc' \in {"collect", "read"} /\ (pc' = "read" <=> command = "build") /\ left' \in {0, 1}
        /\ (pc' = "read" => left' = 1) /\ exit = 9 /\ exit' = 9
    BY <1>1, <1>5 DEF PragmaTypeOK, Attached
  <2>12. left' \in 0 .. MaxFiles \cup {1}
    BY <2>6, Lefts
  <2>7. PragmaTypeOK'
    BY <1>1, <1>2, <2>4, <2>6, <2>12 DEF PragmaTypeOK, SessionInv
  <2>8. Chosen'
    BY <1>1, <1>3, <2>5, <2>6, Unread DEF Chosen, NothingRan
  <2>9. Attached'
    BY <1>1, <2>6 DEF Attached, Reading, sessionVars, session
  <2>10. Judged'
    BY <1>1, <1>3, <2>6 DEF Judged
  <2>11. Counted'
    BY <1>1, <1>3, <2>6 DEF Counted
  <2> QED BY <1>2, <2>7, <2>8, <2>9, <2>10, <2>11
<1> QED BY <1>4, <1>5 DEF EndOfArguments

-----------------------------------------------------------------------------
(* The files *)

\* How many files there are to be checked; none is an error.
LEMMA CollectStep == PragmaInv /\ Collect => PragmaInv'
<1> SUFFICES ASSUME PragmaInv, Collect PROVE PragmaInv'
  OBVIOUS
<1> USE DEF PragmaInv
<1>1. /\ pc = "collect"
      /\ UNCHANGED <<sessionVars, command, given, opts, source, rtErrors, ownErrors,
                     compilerSaid, ran, objection, written, ok>>
  BY DEF Collect
<1>2. PICK n \in 0 .. MaxFiles :
        /\ left' = n
        /\ IF n = 0 THEN Exit(1) ELSE pc' = "read" /\ UNCHANGED exit
  BY DEF Collect
<1>3. SessionInv'
  BY <1>1, SessionAlone
<1>4. left' \in 0 .. MaxFiles \cup {1} /\ (pc' = "read" => left' > 0)
  BY <1>2, Lefts DEF Exit
<1>5. \/ pc' = "done" /\ exit' = 1
      \/ pc' = "read" /\ exit' = exit
  BY <1>2 DEF Exit
<1>6. PragmaTypeOK'
  BY <1>1, <1>3, <1>4, <1>5 DEF PragmaTypeOK, SessionInv
<1>7. Attached'
  BY <1>1, <1>4, <1>5 DEF Attached, Reading, sessionVars, session
<1>8. Chosen'
  BY <1>1, <1>5, StillChosen
<1>9. Judged' /\ Counted'
  BY <1>1, <1>5 DEF Judged, Counted, Reading, Attached
<1> QED BY <1>3, <1>6, <1>7, <1>8, <1>9

\* Each file starts with no analysis, no findings and no checker run.
LEMMA ReadFileStep == PragmaInv /\ ReadFile => PragmaInv'
<1> SUFFICES ASSUME PragmaInv, ReadFile PROVE PragmaInv'
  OBVIOUS
<1> USE DEF PragmaInv
<1>1. PICK t \in Texts : /\ text' = t /\ earlier' = {t} /\ source' = t
                         /\ objection' = (objection \/ Objectionable(t))
  BY DEF ReadFile
<1>2. /\ pc = "read" /\ left > 0 /\ pc' = "annotations"
      /\ rtErrors' = {} /\ ownErrors' = {} /\ compilerSaid' = FALSE /\ ran' = NothingRan
      /\ project' \in Projects /\ touched' = FALSE
      /\ NoSession
      /\ UNCHANGED <<edits, command, given, opts, left, written, ok, exit>>
  BY DEF ReadFile
<1>3. SessionInv'
  BY <1>1, <1>2, Afresh
<1>4. objection' \in BOOLEAN
  BY <1>1 DEF PragmaTypeOK
<1>5. PragmaTypeOK'
  BY <1>1, <1>2, <1>3, <1>4 DEF PragmaTypeOK, SessionInv, NothingRan
<1>6. Attached'
  BY <1>1, <1>2 DEF Attached, NoSession, Reading
<1>7. Chosen'
  BY <1>1, <1>2, Unread DEF Chosen, NothingRan
<1>8. Judged'
  BY <1>1, <1>2 DEF Judged
<1>9. objection' => objection \/ Objectionable(source)'
  BY <1>1, <1>2, Unread
<1>10. Counted'
  BY <1>1, <1>2, <1>9 DEF Counted, Attached, Reading
<1> QED BY <1>3, <1>5, <1>6, <1>7, <1>8, <1>10

\* A file that cannot be read ends the run.
LEMMA ReadFailsStep == PragmaInv /\ ReadFails => PragmaInv'
<1> SUFFICES ASSUME PragmaInv, ReadFails PROVE PragmaInv'
  OBVIOUS
<1> USE DEF PragmaInv
<1>1. /\ pc = "read" /\ pc' = "done" /\ exit' = 1
      /\ UNCHANGED <<sessionVars, command, given, opts, left, source, rtErrors, ownErrors,
                     compilerSaid, ran, objection, written, ok>>
  BY DEF ReadFails, Exit
<1>2. SessionInv'
  BY <1>1, SessionAlone
<1>3. PragmaTypeOK'
  BY <1>1, <1>2 DEF PragmaTypeOK, SessionInv
<1>4. Attached'
  BY <1>1 DEF Attached, Reading
<1>5. Chosen'
  BY <1>1, StillChosen
<1>6. Judged' /\ Counted'
  BY <1>1 DEF Judged, Counted, Reading
<1> QED BY <1>2, <1>3, <1>4, <1>5, <1>6

\* Annotations that cannot be read keep a file from the compiler.
LEMMA AnnotationsStep == PragmaInv /\ Annotations => PragmaInv'
<1> SUFFICES ASSUME PragmaInv, Annotations PROVE PragmaInv'
  OBVIOUS
<1> USE DEF PragmaInv
<1>1. /\ pc = "annotations" /\ pc' \in {"untyped", "discover"}
      /\ rtErrors' = IF IncludesRt /\ Facts[source].garbled THEN {"annotation"} ELSE {}
      /\ IncludesRt /\ Facts[source].garbled => pc' = "untyped"
      /\ UNCHANGED <<sessionVars, command, given, opts, left, source, ownErrors,
                     compilerSaid, ran, objection, written, ok, exit>>
  BY DEF Annotations
<1>2. SessionInv'
  BY <1>1, SessionAlone
<1>3. PragmaTypeOK'
  BY <1>1, <1>2 DEF PragmaTypeOK, SessionInv
<1>4. Attached'
  BY <1>1 DEF Attached, Reading, sessionVars, session
<1>5. Chosen'
  BY <1>1, StillChosen
<1>6. Judged'
  BY <1>1, Unread DEF Judged
<1>7. Counted'
  BY <1>1, Unread DEF Counted, Reading
<1> QED BY <1>2, <1>3, <1>4, <1>5, <1>6, <1>7

-----------------------------------------------------------------------------
(* One file *)

\* An analysis is asked for about the text that was read, or the file is
\* checked without one, or the run is over.
LEMMA DiscoverStep == PragmaInv /\ Discover => PragmaInv'
<1> SUFFICES ASSUME PragmaInv, Discover PROVE PragmaInv'
  OBVIOUS
<1> USE DEF PragmaInv
<1>1. /\ pc = "discover" /\ source \in Texts /\ left > 0 /\ stage = "idle" /\ exit = 9
      /\ UNCHANGED <<command, given, opts, left, source, rtErrors, ownErrors,
                     compilerSaid, ran, objection, written, ok>>
  BY DEF Discover, Attached, Reading, PragmaTypeOK
<1>2. \/ Ask(source) /\ pc' = "session" /\ exit' = exit
      \/ UNCHANGED sessionVars /\ pc' = "untyped" /\ exit' = exit
      \/ UNCHANGED sessionVars /\ pc' = "done" /\ exit' = 1
  BY DEF Discover, Exit
<1>3. SessionInv'
  BY <1>1, <1>2, AskStep, SessionAlone
<1>4. PragmaTypeOK'
  BY <1>1, <1>2, <1>3 DEF PragmaTypeOK, SessionInv
<1>5. Attached'
  BY <1>1, <1>2 DEF Attached, Reading, sessionVars, session, Ask
<1>6. Chosen'
  BY <1>1, <1>2, StillChosen
<1>7. Judged'
  BY <1>1, <1>2, Unread DEF Judged
<1>8. Counted'
  BY <1>1, <1>2, Unread DEF Counted, Reading
<1> QED BY <1>3, <1>4, <1>5, <1>6, <1>7, <1>8

\* An analysis under way changes nothing of main, and does not end as idle.
LEMMA SessionStep == PragmaInv /\ Session => PragmaInv'
<1> SUFFICES ASSUME PragmaInv, Session PROVE PragmaInv'
  OBVIOUS
<1> USE DEF PragmaInv
<1>1. /\ pc = "session" /\ Analyze /\ UNCHANGED local
  BY DEF Session
<1>2. SessionInv'
  BY <1>1, AnalyzeStep
<1>3. stage' # "idle" /\ request' = request
  BY <1>1 DEF Attached, Analyze, Match, Scan, Spawn, SpawnFails, Refuse, ParseConfig, Asked,
              Initialize, RequireProject, Fails, ProgramFiles, ScanProgram, QueryTypes,
              QuerySymbols, RenderTypes, QueryDiagnostics, Refused, Release, Close, Rematch, Report
<1>4. PragmaTypeOK'
  BY <1>1, <1>2 DEF local, PragmaTypeOK, SessionInv
<1>5. Attached'
  BY <1>1, <1>3 DEF local, Attached, Reading
<1>6. Chosen'
  BY <1>1, StillChosen DEF local
<1>7. Judged'
  BY <1>1, Unread DEF local, Judged
<1>8. Counted'
  BY <1>1, Unread DEF local, Counted, Reading
<1> QED BY <1>2, <1>4, <1>5, <1>6, <1>7, <1>8

\* An analysis that is refused ends the run.
LEMMA SessionFailsStep == PragmaInv /\ SessionFails => PragmaInv'
<1> SUFFICES ASSUME PragmaInv, SessionFails PROVE PragmaInv'
  OBVIOUS
<1> USE DEF PragmaInv
<1>1. /\ pc = "session" /\ pc' = "done" /\ exit' = 1
      /\ UNCHANGED <<sessionVars, command, given, opts, left, source, rtErrors, ownErrors,
                     compilerSaid, ran, objection, written, ok>>
  BY DEF SessionFails, Exit
<1>2. SessionInv'
  BY <1>1, SessionAlone
<1>3. PragmaTypeOK'
  BY <1>1, <1>2 DEF PragmaTypeOK, SessionInv
<1>4. Attached'
  BY <1>1 DEF Attached, Reading
<1>5. Chosen'
  BY <1>1, StillChosen
<1>6. Judged' /\ Counted'
  BY <1>1 DEF Judged, Counted, Reading
<1> QED BY <1>2, <1>3, <1>4, <1>5, <1>6

\* The world goes on beside main, while a file is being checked.
LEMMA BesideStep == PragmaInv /\ Beside => PragmaInv'
<1> SUFFICES ASSUME PragmaInv, Beside PROVE PragmaInv'
  OBVIOUS
<1> USE DEF PragmaInv
<1>1. /\ pc \notin {"arguments", "collect", "read", "done"} /\ World /\ UNCHANGED local
  BY DEF Beside
<1>2. SessionInv'
  BY <1>1, WorldStep
<1>3. stage' = stage /\ request' = request /\ reply' = reply
  BY <1>1 DEF World, EditText, EditProject, CompilerDies, session
<1>4. PragmaTypeOK'
  BY <1>1, <1>2 DEF local, PragmaTypeOK, SessionInv
<1>5. Attached'
  BY <1>1, <1>3 DEF local, Attached, Reading
<1>6. Chosen'
  BY <1>1, StillChosen DEF local
<1>7. Judged'
  BY <1>1, <1>3, Unread DEF local, Judged, Failed
<1>8. written = NoText /\ exit # 0
  BY <1>1 DEF Counted, Attached, PragmaTypeOK
<1>9. Counted'
  BY <1>1, <1>8, Unread DEF local, Counted, Reading
<1> QED BY <1>2, <1>4, <1>5, <1>6, <1>7, <1>9

\* Without a compiler both checkers are run on the text that was read, the
\* refinement checker only if it could read the annotations.
LEMMA WithoutCompilerStep == PragmaInv /\ WithoutCompiler => PragmaInv'
<1> SUFFICES ASSUME PragmaInv, WithoutCompiler PROVE PragmaInv'
  OBVIOUS
<1> USE DEF PragmaInv
<1>1. /\ pc = "untyped" /\ pc' = "verdict" /\ source \in Texts /\ left > 0 /\ stage = "idle"
      /\ exit = 9 /\ ~compilerSaid
      /\ UNCHANGED <<sessionVars, command, given, opts, left, source, compilerSaid,
                     objection, written, ok, exit>>
  BY DEF WithoutCompiler, Attached, Reading, Judged
<1>2. /\ ownErrors' = IF IncludesOwn THEN OwnFindings(source, FALSE) ELSE {}
      /\ rtErrors' = IF IncludesRt /\ rtErrors = {} THEN RtFindings(source, FALSE) ELSE rtErrors
      /\ ran' = [own |-> IF IncludesOwn THEN opts.runtime ELSE "no",
                 rt |-> IF IncludesRt /\ rtErrors = {} THEN Environment(source) ELSE "no"]
  BY DEF WithoutCompiler
<1>3. SessionInv'
  BY <1>1, SessionAlone
<1>4. /\ OwnFindings(source, FALSE) \subseteq {"omitted", "finding"}
      /\ Facts[source].ownBad => OwnFindings(source, FALSE) # {}
      /\ RtFindings(source, FALSE) \subseteq {"omitted", "environment", "finding"}
      /\ Facts[source].rtBad => RtFindings(source, FALSE) # {}
  BY <1>1, FindingsAre
<1>5. Environment(source) \in Platforms \cup {"conflict"} /\ opts.runtime \in Runtimes
  BY <1>1, EnvironmentIs DEF PragmaTypeOK
<1>6. PragmaTypeOK'
  <2>1. ran' \in [own : Runtimes \cup {"no"}, rt : Platforms \cup {"no", "conflict"}]
    BY <1>2, <1>5
  <2>2. /\ rtErrors' \subseteq {"annotation", "compiler", "omitted", "environment", "finding"}
        /\ ownErrors' \subseteq {"omitted", "finding"}
    BY <1>2, <1>4 DEF PragmaTypeOK
  <2> QED BY <1>1, <1>3, <2>1, <2>2 DEF PragmaTypeOK, SessionInv
<1>7. Attached'
  BY <1>1 DEF Attached, Reading, sessionVars, session
<1>8. Chosen'
  BY <1>1, <1>2, Unread DEF Chosen
<1>9. Judged'
  <2>1. Objectionable(source) => Failed'
    BY <1>1, <1>2, <1>4 DEF Objectionable, Failed, Judged
  <2> QED BY <1>1, <2>1, Unread DEF Judged, sessionVars, session
<1>10. Counted'
  BY <1>1, Unread DEF Counted, Reading
<1> QED BY <1>3, <1>6, <1>7, <1>8, <1>9, <1>10

\* With one, the refinement checker is run if the compiler has no errors.
LEMMA WithCompilerStep == PragmaInv /\ WithCompiler => PragmaInv'
<1> SUFFICES ASSUME PragmaInv, WithCompiler PROVE PragmaInv'
  OBVIOUS
<1> USE DEF PragmaInv
<1>1. /\ pc = "session" /\ stage = "answered" /\ request = source /\ pc' = "verdict"
      /\ source \in Texts /\ left > 0 /\ exit = 9
      /\ ~(IncludesRt /\ Facts[source].garbled)
      /\ compilerSaid' = reply.errors
      /\ UNCHANGED <<sessionVars, command, given, opts, left, source, objection,
                     written, ok, exit>>
  BY DEF WithCompiler, Attached, Reading, Judged
<1>2. /\ ownErrors' = IF IncludesOwn THEN OwnFindings(source, TRUE) ELSE {}
      /\ rtErrors' = IF ~IncludesRt THEN {}
                     ELSE IF reply.errors THEN {"compiler"} ELSE RtFindings(source, TRUE)
      /\ ran' = [own |-> IF IncludesOwn THEN opts.runtime ELSE "no",
                 rt |-> IF IncludesRt /\ ~reply.errors THEN Environment(source) ELSE "no"]
  BY DEF WithCompiler
<1>3. SessionInv'
  BY <1>1, SessionAlone
<1>4. /\ OwnFindings(source, TRUE) \subseteq {"omitted", "finding"}
      /\ Facts[source].ownBad => OwnFindings(source, TRUE) # {}
      /\ RtFindings(source, TRUE) \subseteq {"omitted", "environment", "finding"}
      /\ Facts[source].rtBad => RtFindings(source, TRUE) # {}
  BY <1>1, FindingsAre
<1>5. Environment(source) \in Platforms \cup {"conflict"} /\ opts.runtime \in Runtimes
  BY <1>1, EnvironmentIs DEF PragmaTypeOK
<1>6. PragmaTypeOK'
  <2>1. ran' \in [own : Runtimes \cup {"no"}, rt : Platforms \cup {"no", "conflict"}]
    BY <1>2, <1>5
  <2>2. /\ rtErrors' \subseteq {"annotation", "compiler", "omitted", "environment", "finding"}
        /\ ownErrors' \subseteq {"omitted", "finding"}
    BY <1>2, <1>4
  <2>3. compilerSaid' \in BOOLEAN
    BY <1>1 DEF SessionInv, SessionTypeOK
  <2> QED BY <1>1, <1>3, <2>1, <2>2, <2>3 DEF PragmaTypeOK, SessionInv
<1>7. Attached'
  BY <1>1 DEF Attached, Reading, sessionVars, session
<1>8. Chosen'
  BY <1>1, <1>2, Unread DEF Chosen
<1>9. Judged'
  <2>1. Objectionable(source) => Failed'
    BY <1>1, <1>2, <1>4 DEF Objectionable, Failed
  <2>2. reply.errors => rtErrors' \subseteq {"compiler"} /\ (IncludesRt => Failed')
    BY <1>1, <1>2 DEF Failed
  <2>3. reply' = reply
    BY <1>1 DEF sessionVars, session
  <2> QED BY <1>1, <2>1, <2>2, <2>3, Unread DEF Judged
<1>10. Counted'
  BY <1>1, Unread DEF Counted, Reading
<1> QED BY <1>3, <1>6, <1>7, <1>8, <1>9, <1>10

\* A verdict stands: an objection has failed the file, and the file the run.
LEMMA CheckedStep == PragmaInv /\ Checked => PragmaInv'
<1> SUFFICES ASSUME PragmaInv, Checked PROVE PragmaInv'
  OBVIOUS
<1> USE DEF PragmaInv
<1>1. /\ pc = "verdict" /\ command = "check" /\ source \in Texts /\ left > 0 /\ exit = 9
      /\ UNCHANGED <<sessionVars, command, given, opts, source, rtErrors, ownErrors,
                     compilerSaid, ran, objection, written>>
  BY DEF Checked, Attached, Reading
<1>2. /\ ok' = (ok /\ ~Failed)
      /\ left' = left - 1
      /\ IF left = 1 THEN pc' = "done" /\ exit' = IF ok /\ ~Failed THEN 0 ELSE 1
                     ELSE pc' = "read" /\ exit' = exit
  BY DEF Checked, Exit
<1>3. SessionInv'
  BY <1>1, SessionAlone
<1>4. left' \in 0 .. MaxFiles \cup {1} /\ (pc' = "read" => left' > 0) /\ (left = 1 => left' = 0)
  <2>1. left \in 0 .. MaxFiles \cup {1}
    BY DEF PragmaTypeOK
  <2> QED BY <1>1, <1>2, <2>1, Lefts
<1>5. /\ pc' \in {"done", "read"} /\ (pc' = "done" <=> left = 1)
      /\ pc' = "done" => exit' \in {0, 1} /\ (exit' = 0 => ok')
      /\ pc' = "read" => exit' = 9
  <2>1. CASE left = 1 /\ ok /\ ~Failed
    BY <1>2, <2>1
  <2>2. CASE left = 1 /\ ~(ok /\ ~Failed)
    BY <1>2, <2>2
  <2>3. CASE left # 1
    BY <1>1, <1>2, <2>3
  <2> QED BY <2>1, <2>2, <2>3
<1>12. ok' \in BOOLEAN
  BY <1>2
<1>6. PragmaTypeOK'
  BY <1>1, <1>3, <1>4, <1>5, <1>12 DEF PragmaTypeOK, SessionInv
<1>7. Attached'
  BY <1>1, <1>4, <1>5 DEF Attached, Reading
<1>8. Chosen'
  BY <1>1, <1>5, StillChosen
<1>9. Judged'
  BY <1>1, <1>5 DEF Judged
<1>10. objection => ~ok'
  BY <1>1, <1>2 DEF Counted, Judged
<1>11. Counted'
  BY <1>1, <1>4, <1>5, <1>10 DEF Counted, Reading
<1> QED BY <1>3, <1>6, <1>7, <1>8, <1>9, <1>11

\* What is built is the text that was judged.
LEMMA BuiltStep == PragmaInv /\ Built => PragmaInv'
<1> SUFFICES ASSUME PragmaInv, Built PROVE PragmaInv'
  OBVIOUS
<1> USE DEF PragmaInv
<1>1. /\ pc = "verdict" /\ command = "build" /\ source \in Texts /\ pc' = "done"
      /\ UNCHANGED <<sessionVars, command, given, opts, left, source, rtErrors, ownErrors,
                     compilerSaid, ran, objection, ok>>
  BY DEF Built, Attached, Reading, Exit
<1>2. \/ ~Failed /\ written' = source /\ exit' = 0
      \/ written' = written /\ exit' = 1
  BY DEF Built, Exit
<1>3. SessionInv'
  BY <1>1, SessionAlone
<1>4. PragmaTypeOK'
  BY <1>1, <1>2, <1>3 DEF PragmaTypeOK, SessionInv
<1>5. Attached'
  BY <1>1, <1>2 DEF Attached, Reading
<1>6. Chosen'
  BY <1>1, StillChosen
<1>7. Judged'
  BY <1>1 DEF Judged
<1>8. written = NoText
  BY <1>1 DEF Counted
<1>9. ~Failed => ~Objectionable(source)
  BY <1>1 DEF Judged
<1>10. ~Failed /\ IncludesRt /\ compiler = "gone" /\ ~Recur => source \notin Mistyped
  <2> SUFFICES ASSUME ~Failed, IncludesRt, compiler = "gone", ~Recur
               PROVE  source \notin Mistyped
    OBVIOUS
  <2>1. stage = "answered" /\ request = source
    BY <1>1 DEF Attached, SessionInv, Held
  <2>2. ~reply.errors
    BY <1>1, <2>1 DEF Judged
  <2>3. loaded.text = source
    BY <2>1 DEF SessionInv, Matched
  <2>4. reply = [about |-> loaded.text, errors |-> loaded.text \in Mistyped]
    BY <2>1 DEF SessionInv, Told, Replied, Reached, Ending
  <2>5. reply.errors <=> loaded.text \in Mistyped
    BY <2>4
  <2> QED BY <2>2, <2>3, <2>5
<1>11. written' # NoText => BuiltIsAccepted'
  BY <1>1, <1>2, <1>8, <1>9, <1>10, Unread DEF BuiltIsAccepted, sessionVars, session
<1>12. Counted'
  BY <1>1, <1>2, <1>11 DEF Counted
<1> QED BY <1>3, <1>4, <1>5, <1>6, <1>7, <1>12

-----------------------------------------------------------------------------
(* The invariant and what follows from it *)

\* It holds before an argument is read.
LEMMA Start == Init => PragmaInv
<1> SUFFICES ASSUME Init PROVE PragmaInv
  OBVIOUS
<1> USE DEF Init
<1>1. SessionInv
  BY SessionStart
<1>2. opts \in [checker : {"all", "own", "rt"}, runtime : Runtimes,
                target : Platforms \cup {"auto"}, compiler : {"auto", "off", "on"}]
  BY DEF DefaultOptions, Runtimes
<1>3. left \in 0 .. MaxFiles \cup {1}
  BY Lefts
<1>4. compilerSaid \in BOOLEAN /\ objection \in BOOLEAN /\ ok \in BOOLEAN
  OBVIOUS
<1>5. exit \in {0, 1, 2, 9}
  OBVIOUS
<1>6. ran \in [own : Runtimes \cup {"no"}, rt : Platforms \cup {"no", "conflict"}]
  BY DEF NothingRan
<1>7. PragmaTypeOK
  BY <1>1, <1>2, <1>3, <1>4, <1>5, <1>6 DEF PragmaTypeOK, SessionInv
<1>8. Attached /\ Chosen /\ Judged /\ Counted
  BY DEF SessionInit, Attached, Reading, Chosen, NothingRan, Judged, Counted
<1> QED BY <1>1, <1>7, <1>8 DEF PragmaInv

\* Every step of the session and of main preserves it.
LEMMA StepInv == PragmaInv /\ [Next]_vars => PragmaInv'
<1> SUFFICES ASSUME PragmaInv, [Next]_vars PROVE PragmaInv'
  OBVIOUS
<1>1. CASE Argument
  BY <1>1, ArgumentStep
<1>2. CASE Program
  BY <1>2, EndOfArgumentsStep, CollectStep, ReadFileStep, ReadFailsStep, AnnotationsStep,
     DiscoverStep, SessionStep, SessionFailsStep, WithoutCompilerStep, WithCompilerStep,
     CheckedStep, BuiltStep DEF Program
<1>3. CASE Beside
  BY <1>3, BesideStep
<1>4. CASE UNCHANGED vars
  <2> USE <1>4 DEF PragmaInv, vars, local
  <2>1. SessionInv'
    BY SessionAlone
  <2>2. PragmaTypeOK'
    BY <2>1 DEF PragmaTypeOK, SessionInv
  <2>3. Attached'
    BY DEF Attached, sessionVars, session
  <2>4. Chosen'
    BY Unread DEF Chosen
  <2>5. Judged'
    BY Unread DEF Judged, Failed, sessionVars, session
  <2>6. Counted'
    BY Unread DEF Counted, BuiltIsAccepted, sessionVars, session
  <2> QED BY <2>1, <2>2, <2>3, <2>4, <2>5, <2>6
<1> QED BY <1>1, <1>2, <1>3, <1>4 DEF Next

\* So it holds in every state of every run of the command.
LEMMA Always == Spec => []PragmaInv
<1>1. Init => PragmaInv
  BY Start
<1>2. PragmaInv /\ [Next]_vars => PragmaInv'
  BY StepInv
<1> QED BY <1>1, <1>2, PTL DEF Spec

\* The types of the command line, the files and the session.
THEOREM PragmaTyped == Spec => []PragmaTypeOK
<1>1. PragmaInv => PragmaTypeOK
  BY DEF PragmaInv
<1> QED BY <1>1, Always, PTL

\* The types the checkers use are those of the text they check, though the file
\* may be edited while the compiler computes them.
THEOREM TypesOfTheText == Spec => []AnswersTheText
<1>1. PragmaInv => AnswersTheText
  BY DEF PragmaInv, SessionInv, AnswersTheText, Matched, Told, Replied, Reached, Ending
<1> QED BY <1>1, Always, PTL

\* An answer is about a project that passed every guard, on what the compiler
\* had loaded and not on what was on disk when the guard looked.
THEOREM AnswersAreSound == Spec => []SoundProject
<1>1. PragmaInv => SoundProject
  <2> SUFFICES ASSUME PragmaInv, stage = "answered", ~touched
               PROVE  loaded.flaws = {} /\ (~Recur => loaded.text \notin Suppressing)
    BY DEF SoundProject
  <2> USE DEF PragmaInv, SessionInv
  <2>1. outcome = "ok"
    BY DEF Told
  <2>2. /\ options = loaded.flaws \cap ConfigFlaws /\ options = {}
        /\ "otherConfig" \notin loaded.flaws /\ "suppressed" \notin loaded.flaws
    BY <2>1 DEF Guarded, Configured, Accepted, Scanned, Reached, Ending
  <2>3. loaded.flaws \subseteq Flaws
    BY DEF SessionTypeOK
  <2>4. loaded.flaws = {}
    BY <2>2, <2>3 DEF ConfigFlaws
  <2>5. ~Recur => loaded.text \notin Suppressing
    BY DEF Matched
  <2> QED BY <2>4, <2>5
<1> QED BY <1>1, Always, PTL

\* No analysis leaves a compiler behind, however it ends.
THEOREM NoCompilerLeft == Spec => []SessionGivenBack
<1>1. PragmaInv => SessionGivenBack
  BY DEF PragmaInv, SessionInv, SessionGivenBack, Held
<1> QED BY <1>1, Always, PTL

\* One platform decides the preludes of both checkers.
THEOREM PlatformDecides == Spec => []OnePlatform
<1>1. PragmaInv => OnePlatform
  <2> SUFFICES ASSUME PragmaInv, "--platform" \in Flags, pc \in {"verdict", "done"}
               PROVE  /\ ran.own \in {"no", Settings(Value("--platform")).runtime}
                      /\ ran.rt \in {"no", Settings(Value("--platform")).target}
    BY DEF OnePlatform
  <2> USE DEF PragmaInv
  <2>1. CASE ran = NothingRan
    BY <2>1 DEF NothingRan
  <2>2. CASE ran # NothingRan
    <3>1. /\ opts.runtime = Settings(Value("--platform")).runtime
          /\ opts.target = Settings(Value("--platform")).target
      BY <2>2 DEF Chosen
    <3>2. Settings(Value("--platform")).target \in Platforms
      BY PlatformGiven DEF Chosen
    <3>3. Environment(source) = opts.target
      BY <3>1, <3>2 DEF Environment, Platforms
    <3> QED BY <3>1, <3>3 DEF Chosen
  <2> QED BY <2>1, <2>2
<1> QED BY <1>1, Always, PTL

\* Exit code 0 speaks for every file.
THEOREM ZeroIsAll == Spec => []ZeroMeansAll
<1>1. PragmaInv => ZeroMeansAll
  BY DEF PragmaInv, ZeroMeansAll, Counted, Attached, Reading
<1> QED BY <1>1, Always, PTL

\* What is built was accepted, by the checkers and by the compiler.
THEOREM BuildsAreAccepted == Spec => []BuiltIsAccepted
<1>1. PragmaInv => BuiltIsAccepted
  BY DEF PragmaInv, Counted, BuiltIsAccepted
<1> QED BY <1>1, Always, PTL

\* The compiler's errors hide the verifier's, which would rest on wrong types.
THEOREM CompilerErrorsFirst == Spec => []CompilerErrorsAlone
<1>1. PragmaInv => CompilerErrorsAlone
  BY DEF PragmaInv, Judged, CompilerErrorsAlone
<1> QED BY <1>1, Always, PTL
=============================================================================
