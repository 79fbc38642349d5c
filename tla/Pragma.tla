------------------------------- MODULE Pragma -------------------------------
(****************************************************************************)
(* crates/pragmajs: the command line and the combined check.  Arguments are  *)
(* read, files collected; each file is read once, both checkers are run on   *)
(* that text, with the compiler's types where they are needed, and `build`   *)
(* writes what was accepted.  The compiler's part is CorsaSession; this      *)
(* module is its only caller.                                                *)
(*                                                                           *)
(* What the checkers say of a text is a constant of the text; which of them  *)
(* run, on which text, with whose types and which platform, and what becomes *)
(* of their verdicts is the module's subject.                                *)
(****************************************************************************)
EXTENDS CorsaSession, FiniteSets

CONSTANTS Facts,     \* Texts -> what the parser and the checkers find in them
          Arguments, \* the command line's possible arguments
          Machines,  \* what a file may find installed: sets of Equipment
          MaxFiles   \* bound: files below the paths of a command line

Platforms == {"ecmascript", "browser", "node", "deno", "bun"}
Runtimes == {"none", "node", "deno", "bun"}
Equipment == {"CORSA_BIN", "cached", "PATH", "download",  \* where a compiler may be
              "tsconfig", "temp",                       \* a config above, a writable temp
              "--corsa", "--tsconfig"}                  \* files named by options exist

TextFacts == [broken : BOOLEAN,    \* parse diagnostics
              garbled : BOOLEAN,   \* /*#rt annotations that do not parse
              ownOmits : BOOLEAN, rtOmits : BOOLEAN,  \* annotations without a type
              ownBad : BOOLEAN, rtBad : BOOLEAN,      \* findings
              markers : SUBSET (Platforms \ {"ecmascript"})]

ASSUME PragmaAssumption ==
  /\ Facts \in [Texts -> TextFacts]
  /\ Arguments \subseteq [flag : {"--checker", "--platform", "--runtime", "--target",
                                  "--corsa", "--tsconfig", "--no-corsa", "path"},
                          value : {"all", "own", "rt", ""} \cup Platforms \cup {"none", "auto"}]
  /\ Machines \subseteq SUBSET Equipment
  /\ MaxFiles \in Nat

VARIABLES
  pc,        \* where main is
  command,   \* "check" or "build"
  given,     \* the arguments read so far
  opts,      \* CheckOptions
  left,      \* files still to be checked
  source,    \* the text read from the current file
  rtErrors,  \* CombinedCheck.rt: kinds of entries
  ownErrors, \* CombinedCheck.own
  compilerSaid, \* CombinedCheck.compiler_diagnostics has an error
  ran,       \* history: checkers run on the current file, with which prelude
  objection, \* history: a text read so far is one the chosen checkers object to
  written,   \* what build wrote
  ok, exit   \* main's verdict so far, the exit code (9: still running)

local == <<pc, command, given, opts, left, source, rtErrors, ownErrors,
           compilerSaid, ran, objection, written, ok, exit>>
vars == <<sessionVars, local>>

DefaultOptions == [checker |-> "all", runtime |-> "node", target |-> "auto", compiler |-> "auto"]
NothingRan == [own |-> "no", rt |-> "no"]

Init ==
  /\ SessionInit /\ text = (CHOOSE t \in Texts : TRUE) /\ project = {}
  /\ pc = "arguments" /\ command \in {"check", "build"}
  /\ given = {} /\ opts = DefaultOptions
  /\ left = 0 /\ source = NoText
  /\ rtErrors = {} /\ ownErrors = {} /\ compilerSaid = FALSE
  /\ ran = NothingRan /\ objection = FALSE /\ written = NoText
  /\ ok = TRUE /\ exit = 9

----------------------------------------------------------------------------
(* parse_args, parse_options *)

Flags == {a.flag : a \in given}
Value(flag) == (CHOOSE a \in given : a.flag = flag).value
UsageError == pc' = "done" /\ exit' = 2

\* What a flag may be given (parse_checker, PlatformProfile::parse,
\* Runtime::parse, parse_target); that a path is given is all that matters.
Values(flag) ==
  CASE flag = "--checker"  -> {"all", "own", "rt"}
    [] flag = "--platform" -> Platforms
    [] flag = "--runtime"  -> Runtimes
    [] flag = "--target"   -> Platforms \cup {"auto"}
    [] OTHER -> {""}
Known(a) == a.value \in Values(a.flag)

\* One turn of parse_options' loop: every flag but a path at most once.
Argument ==
  /\ pc = "arguments"
  /\ \E a \in Arguments :
       \/ /\ a.flag = "path" \/ a.flag \notin Flags
          /\ Known(a)
          /\ given' = given \cup {a}
          /\ opts' = CASE a.flag = "--checker" -> [opts EXCEPT !.checker = a.value]
                       [] a.flag = "--runtime" -> [opts EXCEPT !.runtime = a.value]
                       [] a.flag = "--target"  -> [opts EXCEPT !.target = a.value]
                       [] OTHER -> opts
          /\ UNCHANGED <<pc, exit>>
       \/ /\ (a.flag # "path" /\ a.flag \in Flags) \/ ~Known(a)
          /\ UsageError
          /\ UNCHANGED <<given, opts>>
  /\ UNCHANGED <<sessionVars, command, left, source, rtErrors, ownErrors,
                 compilerSaid, ran, objection, written, ok>>

Conflicting ==
  \/ "--no-corsa" \in Flags /\ Flags \cap {"--corsa", "--tsconfig"} # {}
  \/ "--platform" \in Flags /\ Flags \cap {"--runtime", "--target"} # {}

\* mutation: every platform is a runtime.
SettingsAlike(platform) == [runtime |-> platform, target |-> platform]

\* PlatformProfile::settings
Settings(platform) ==
  [runtime |-> IF platform \in Runtimes THEN platform ELSE "none", target |-> platform]

CompilerMode ==
  IF "--no-corsa" \in Flags THEN "off"
  ELSE IF Flags \cap {"--corsa", "--tsconfig"} = {} THEN "auto" ELSE "on"

WithPlatform(o) ==
  IF "--platform" \in Flags
    THEN [o EXCEPT !.runtime = Settings(Value("--platform")).runtime,
                   !.target = Settings(Value("--platform")).target]
    ELSE o

\* mutation: a platform fills in what no option has set.
EndOfArgumentsLenient ==
  /\ pc = "arguments"
  /\ "path" \in Flags
  /\ opts' = [(IF Flags \cap {"--runtime", "--target"} = {} THEN WithPlatform(opts) ELSE opts)
               EXCEPT !.compiler = CompilerMode]
  /\ pc' = IF command = "check" THEN "collect" ELSE "read"
  /\ left' = IF command = "build" THEN 1 ELSE 0
  /\ UNCHANGED exit
  /\ UNCHANGED <<sessionVars, command, given, source, rtErrors, ownErrors,
                 compilerSaid, ran, objection, written, ok>>

\* After the loop: conflicts, the platform's settings, the compiler's mode;
\* check wants a path, build an input and an output.
EndOfArguments ==
  /\ pc = "arguments"
  /\ IF Conflicting \/ "path" \notin Flags
       THEN UsageError /\ UNCHANGED <<opts, left>>
       ELSE /\ opts' = [WithPlatform(opts) EXCEPT !.compiler = CompilerMode]
            /\ pc' = IF command = "check" THEN "collect" ELSE "read"
            /\ left' = IF command = "build" THEN 1 ELSE 0
            /\ UNCHANGED exit
  /\ UNCHANGED <<sessionVars, command, given, source, rtErrors, ownErrors,
                 compilerSaid, ran, objection, written, ok>>

----------------------------------------------------------------------------
(* run_check, run_build *)

Exit(code) == pc' = "done" /\ exit' = code

\* collect_js_ts_files: whatever was found, a JavaScript or TypeScript path that
\* is missing included; a directory that cannot be read, or no file at all, ends it.
Collect ==
  /\ pc = "collect"
  /\ \E n \in 0 .. MaxFiles :
       /\ left' = n
       /\ IF n = 0 THEN Exit(1) ELSE pc' = "read" /\ UNCHANGED exit
  /\ UNCHANGED <<sessionVars, command, given, opts, source, rtErrors, ownErrors,
                 compilerSaid, ran, objection, written, ok>>

IncludesOwn == opts.checker \in {"all", "own"}
IncludesRt == opts.checker \in {"all", "rt"}

\* What the chosen checkers would say of a text, for the properties.
Objectionable(t) ==
  \/ Facts[t].broken
  \/ IncludesOwn /\ Facts[t].ownBad
  \/ IncludesRt /\ (Facts[t].rtBad \/ Facts[t].garbled)

\* read_to_string and parse.  What the next file holds and which project it
\* belongs to is anybody's choice.
ReadFile ==
  /\ pc = "read" /\ left > 0
  /\ \E t \in Texts : /\ text' = t /\ earlier' = {t} /\ source' = t
                      /\ objection' = (objection \/ Objectionable(t))
  /\ pc' = "annotations"
  /\ rtErrors' = {} /\ ownErrors' = {} /\ compilerSaid' = FALSE /\ ran' = NothingRan
  /\ project' \in Projects /\ touched' = FALSE
  /\ NoSession
  /\ UNCHANGED <<edits, command, given, opts, left, written, ok, exit>>

ReadFails ==
  /\ pc = "read" /\ left > 0
  /\ Exit(1)
  /\ UNCHANGED <<sessionVars, command, given, opts, left, source, rtErrors, ownErrors,
                 compilerSaid, ran, objection, written, ok>>

\* check_parsed_using: the refinement annotations, then whether the compiler
\* is needed (should_resolve_compiler).
Annotations ==
  /\ pc = "annotations"
  /\ LET garbled == IncludesRt /\ Facts[source].garbled
         wanted == \/ IncludesRt
                   \/ IncludesOwn /\ Facts[source].ownOmits
                   \/ opts.compiler = "on"
     IN /\ rtErrors' = IF garbled THEN {"annotation"} ELSE {}
        /\ pc' = IF garbled \/ ~wanted \/ opts.compiler = "off" THEN "untyped" ELSE "discover"
  /\ UNCHANGED <<sessionVars, command, given, opts, left, source, ownErrors,
                 compilerSaid, ran, objection, written, ok, exit>>

\* compiler_for_file: in auto mode a file without a compiler or a project is
\* checked without; an option that names one makes that an error.
HasCompiler(machine) == IF "--corsa" \in Flags THEN "--corsa" \in machine
               ELSE machine \cap {"CORSA_BIN", "cached", "PATH", "download"} # {}
HasProject(machine) == IF "--tsconfig" \in Flags THEN "--tsconfig" \in machine
              ELSE machine \cap {"tsconfig", "temp"} # {}

Discover ==
  /\ pc = "discover"
  /\ \E machine \in Machines :
       \/ /\ HasCompiler(machine) /\ HasProject(machine)
          /\ Ask(source)
          /\ pc' = "session"
          /\ UNCHANGED exit
       \/ /\ ~(HasCompiler(machine) /\ HasProject(machine))
          /\ UNCHANGED sessionVars
          /\ IF opts.compiler = "auto" THEN pc' = "untyped" /\ UNCHANGED exit ELSE Exit(1)
  /\ UNCHANGED <<command, given, opts, left, source, rtErrors, ownErrors,
                 compilerSaid, ran, objection, written, ok>>

\* The provider at work, and the world beside it.
Session == pc = "session" /\ Analyze /\ UNCHANGED local
Beside == pc \notin {"arguments", "collect", "read", "done"} /\ World /\ UNCHANGED local

\* mutation: a failed analysis is tried again.
SessionRetried ==
  /\ pc = "session" /\ stage = "refused"
  /\ pc' = "discover" /\ NoSession
  /\ UNCHANGED <<world, touched>>
  /\ UNCHANGED <<command, given, opts, left, source, rtErrors, ownErrors,
                 compilerSaid, ran, objection, written, ok, exit>>

\* An analysis that fails ends the whole run.
SessionFails ==
  /\ pc = "session" /\ stage = "refused"
  /\ Exit(1)
  /\ UNCHANGED <<sessionVars, command, given, opts, left, source, rtErrors, ownErrors,
                 compilerSaid, ran, objection, written, ok>>

\* detect_environment_from_program: Bun and Deno have Node's markers too.
Candidates(t) ==
  IF Facts[t].markers \cap {"bun", "deno"} # {} THEN Facts[t].markers \ {"node"}
  ELSE Facts[t].markers

\* registry_for_program
Environment(t) ==
  IF opts.target # "auto" THEN opts.target
  ELSE IF Candidates(t) = {} THEN "ecmascript"
  ELSE IF Cardinality(Candidates(t)) > 1 THEN "conflict"
  ELSE CHOOSE e \in Candidates(t) : TRUE

OwnFindings(t, typed) ==
  (IF Facts[t].ownBad THEN {"finding"} ELSE {})
  \cup (IF Facts[t].ownOmits /\ ~typed THEN {"omitted"} ELSE {})

\* fill_omitted_bases, then verify_program_with_features
RtFindings(t, typed) ==
  (IF Facts[t].rtOmits /\ ~typed THEN {"omitted"} ELSE {})
  \cup (IF Environment(t) = "conflict" THEN {"environment"}
        ELSE IF Facts[t].rtBad THEN {"finding"} ELSE {})

\* mutation: the refinement checker runs on a file whose annotations it could
\* not read.
WithoutCompilerRegardless ==
  /\ pc = "untyped"
  /\ ownErrors' = IF IncludesOwn THEN OwnFindings(source, FALSE) ELSE {}
  /\ rtErrors' = IF IncludesRt THEN RtFindings(source, FALSE) ELSE rtErrors
  /\ ran' = [own |-> IF IncludesOwn THEN opts.runtime ELSE "no",
             rt |-> IF IncludesRt THEN Environment(source) ELSE "no"]
  /\ pc' = "verdict"
  /\ UNCHANGED <<sessionVars, command, given, opts, left, source, compilerSaid,
                 objection, written, ok, exit>>

\* check_without_compiler
WithoutCompiler ==
  /\ pc = "untyped"
  /\ ownErrors' = IF IncludesOwn THEN OwnFindings(source, FALSE) ELSE {}
  /\ LET verifies == IncludesRt /\ rtErrors = {}
     IN /\ rtErrors' = IF verifies THEN RtFindings(source, FALSE) ELSE rtErrors
        /\ ran' = [own |-> IF IncludesOwn THEN opts.runtime ELSE "no",
                   rt |-> IF verifies THEN Environment(source) ELSE "no"]
  /\ pc' = "verdict"
  /\ UNCHANGED <<sessionVars, command, given, opts, left, source, compilerSaid,
                 objection, written, ok, exit>>

\* mutation: the verifier's findings are added to the compiler's errors.
WithCompilerUngated ==
  /\ pc = "session" /\ stage = "answered"
  /\ compilerSaid' = reply.errors
  /\ ownErrors' = IF IncludesOwn THEN OwnFindings(source, TRUE) ELSE {}
  /\ rtErrors' = (IF IncludesRt THEN RtFindings(source, TRUE) ELSE {})
                 \cup (IF IncludesRt /\ reply.errors THEN {"compiler"} ELSE {})
  /\ ran' = [own |-> IF IncludesOwn THEN opts.runtime ELSE "no",
             rt |-> IF IncludesRt THEN Environment(source) ELSE "no"]
  /\ pc' = "verdict"
  /\ UNCHANGED <<sessionVars, command, given, opts, left, source, objection,
                 written, ok, exit>>

\* check_with_compiler; check_with_program_and_hints stops at the compiler's
\* errors before it fills types in or verifies.
WithCompiler ==
  /\ pc = "session" /\ stage = "answered"
  /\ compilerSaid' = reply.errors
  /\ ownErrors' = IF IncludesOwn THEN OwnFindings(source, TRUE) ELSE {}
  /\ rtErrors' = IF ~IncludesRt THEN {}
                 ELSE IF reply.errors THEN {"compiler"} ELSE RtFindings(source, TRUE)
  /\ ran' = [own |-> IF IncludesOwn THEN opts.runtime ELSE "no",
             rt |-> IF IncludesRt /\ ~reply.errors THEN Environment(source) ELSE "no"]
  /\ pc' = "verdict"
  /\ UNCHANGED <<sessionVars, command, given, opts, left, source, objection,
                 written, ok, exit>>

\* CombinedCheck::failed
Failed == Facts[source].broken \/ ownErrors # {} \/ rtErrors # {}

\* mutation: the last file decides.
CheckedLast ==
  /\ pc = "verdict" /\ command = "check"
  /\ ok' = ~Failed
  /\ left' = left - 1
  /\ IF left = 1 THEN Exit(IF Failed THEN 1 ELSE 0) ELSE pc' = "read" /\ UNCHANGED exit
  /\ UNCHANGED <<sessionVars, command, given, opts, source, rtErrors, ownErrors,
                 compilerSaid, ran, objection, written>>

Checked ==
  /\ pc = "verdict" /\ command = "check"
  /\ ok' = (ok /\ ~Failed)
  /\ left' = left - 1
  /\ IF left = 1 THEN Exit(IF ok /\ ~Failed THEN 0 ELSE 1) ELSE pc' = "read" /\ UNCHANGED exit
  /\ UNCHANGED <<sessionVars, command, given, opts, source, rtErrors, ownErrors,
                 compilerSaid, ran, objection, written>>

\* mutation: the output is made from the file, read once more.
BuiltFromDisk ==
  /\ pc = "verdict" /\ command = "build"
  /\ \/ ~Failed /\ written' = text /\ Exit(0)
     \/ UNCHANGED written /\ Exit(1)
  /\ UNCHANGED <<sessionVars, command, given, opts, left, source, rtErrors, ownErrors,
                 compilerSaid, ran, objection, ok>>

\* emit_source and fs::write: what is written comes from the text that was
\* checked, not from the file as it is by now.
Built ==
  /\ pc = "verdict" /\ command = "build"
  /\ \/ ~Failed /\ written' = source /\ Exit(0)
     \/ UNCHANGED written /\ Exit(1)    \* rejected, or the output cannot be written
  /\ UNCHANGED <<sessionVars, command, given, opts, left, source, rtErrors, ownErrors,
                 compilerSaid, ran, objection, ok>>

----------------------------------------------------------------------------
Program ==
  \/ EndOfArguments \/ Collect \/ ReadFile \/ ReadFails \/ Annotations \/ Discover
  \/ Session \/ SessionFails \/ WithoutCompiler \/ WithCompiler \/ Checked \/ Built

Next == Argument \/ Program \/ Beside

\* The program runs on; the compiler answers or fails, the world owes nothing.
Spec == Init /\ [][Next]_vars /\ WF_vars(Program)

----------------------------------------------------------------------------
(* Properties *)

PragmaTypeOK ==
  /\ SessionTypeOK
  /\ pc \in {"arguments", "collect", "read", "annotations", "discover", "session",
             "untyped", "verdict", "done"}
  /\ command \in {"check", "build"} /\ given \subseteq Arguments
  /\ opts \in [checker : {"all", "own", "rt"}, runtime : Runtimes,
               target : Platforms \cup {"auto"}, compiler : {"auto", "off", "on"}]
  /\ left \in 0 .. MaxFiles \cup {1} /\ source \in Texts \cup {NoText}
  /\ rtErrors \subseteq {"annotation", "compiler", "omitted", "environment", "finding"}
  /\ ownErrors \subseteq {"omitted", "finding"}
  /\ compilerSaid \in BOOLEAN /\ objection \in BOOLEAN /\ ok \in BOOLEAN /\ exit \in {0, 1, 2, 9}
  /\ ran \in [own : Runtimes \cup {"no"}, rt : Platforms \cup {"no", "conflict"}]
  /\ written \in Texts \cup {NoText}

\* A platform chosen as one is used as one: whichever checkers run use its
\* preludes, in whatever order the options came (PlatformProfile).
OnePlatform ==
  "--platform" \in Flags /\ pc \in {"verdict", "done"} =>
    /\ ran.own \in {"no", Settings(Value("--platform")).runtime}
    /\ ran.rt \in {"no", Settings(Value("--platform")).target}

\* Exit code 0 of `check` means that no file of all those collected holds
\* anything the chosen checkers object to.
ZeroMeansAll ==
  exit = 0 /\ command = "check" => left = 0 /\ ~objection

\* Nothing is built from a text the selected checkers do not accept, whatever
\* became of the file, the project or the compiler while it was checked.
BuiltIsAccepted ==
  written # NoText =>
    /\ ~Objectionable(written)
    /\ IncludesRt /\ compiler = "gone" /\ ~Recur => written \notin Mistyped

\* refinement_diagnostics (lib.rs 227-245): when the compiler reported an
\* error, every refinement entry is that error.
CompilerErrorsAlone == compilerSaid => rtErrors \subseteq {"compiler"}

\* Every run ends with an exit code, however often the compiler fails.
Ends == pc # "arguments" ~> exit # 9
=============================================================================
