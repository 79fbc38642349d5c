---------------------------- MODULE CorsaSession ----------------------------
(****************************************************************************)
(* crates/corsa/src/lib.rs: one analysis of one source text.  The provider   *)
(* compares the text with the file on disk, starts the TypeScript compiler   *)
(* on the project, validates what the compiler says about the project, asks  *)
(* its questions, and gives the session back before it answers.              *)
(*                                                                           *)
(* While this goes on the file and the project may be edited, and the        *)
(* compiler may die or refuse any request.  The compiler is external: it     *)
(* reads the file and the project when the session is started (its snapshot) *)
(* and reads the configuration again when asked to parse it.                 *)
(****************************************************************************)
EXTENDS Naturals

CONSTANTS Texts,       \* contents the source file may have
          Suppressing, \* those with @ts-nocheck, @ts-ignore, @ts-expect-error
          Mistyped,    \* those the compiler reports an error for
          Projects,    \* the flaws a project may start out with
          Recur,       \* whether an edit may bring an earlier text back
          MaxEdits     \* bound: edits of the file, and of the project

\* What may be wrong with a project: the session resolved another
\* configuration, the file is not in it, an option is unsound, or another
\* implementation file of the program suppresses diagnostics.
Flaws == {"otherConfig", "outside", "noCheck", "looseNulls", "uncheckedJs", "suppressed"}
ConfigFlaws == Flaws \ {"otherConfig", "suppressed"}

NoText == "no text"

ASSUME SessionAssumption ==
  /\ Suppressing \subseteq Texts /\ Mistyped \subseteq Texts /\ NoText \notin Texts
  /\ Projects \subseteq SUBSET Flaws
  /\ Recur \in BOOLEAN /\ MaxEdits \in Nat

Stages == {"idle", "match", "scan", "spawn", "config", "initialize", "require",
           "program", "scanBefore", "types", "symbols", "render", "diagnose",
           "scanAfter", "release", "close", "rematch", "report",
           "answered", "refused"}
Opened == {"config", "initialize", "require", "program", "scanBefore", "types",
           "symbols", "render", "diagnose", "scanAfter", "release", "close"}

VARIABLES
  text,        \* what the file holds
  earlier,     \* the texts it has held
  project,     \* the project's flaws
  edits,       \* edits so far
  touched,     \* history: the project was edited while a session was open
  stage,       \* where analyze is
  request,     \* CompilerTypeRequest.source
  compiler,    \* "none", "up", "dead" or "gone"
  snapshot,    \* "none", "held" or "released"
  loaded,      \* what the compiler read when the session was started
  options,     \* what parse_config_file returned
  outcome,     \* of the questions: "ok" or what failed
  giveBack,    \* what failed of release and close
  reply        \* the analysis: the text its types are about, its errors

session == <<stage, request, compiler, snapshot, loaded, options, outcome, giveBack, reply>>
world == <<text, earlier, project, edits>>
sessionVars == <<world, touched, session>>

NoReply == [about |-> NoText, errors |-> FALSE]
NoLoad == [text |-> NoText, flaws |-> {}]

SessionInit ==
  /\ text \in Texts
  /\ earlier = {text}
  /\ project \in Projects
  /\ edits = 0 /\ touched = FALSE
  /\ stage = "idle" /\ request = NoText
  /\ compiler = "none" /\ snapshot = "none"
  /\ loaded = NoLoad /\ options = {}
  /\ outcome = "ok" /\ giveBack = {} /\ reply = NoReply

\* An analysis starts from nothing: no session outlives the call it was for.
NoSession ==
  /\ stage' = "idle" /\ request' = NoText
  /\ compiler' = "none" /\ snapshot' = "none"
  /\ loaded' = NoLoad /\ options' = {}
  /\ outcome' = "ok" /\ giveBack' = {} /\ reply' = NoReply

----------------------------------------------------------------------------
(* The world *)

EditText ==
  /\ edits < MaxEdits
  /\ \E t \in Texts \ {text} :
       /\ Recur \/ t \notin earlier
       /\ text' = t
       /\ earlier' = earlier \cup {t}
  /\ edits' = edits + 1
  /\ UNCHANGED <<project, touched, session>>

EditProject ==
  /\ edits < MaxEdits
  /\ \E f \in Flaws : project' = IF f \in project THEN project \ {f} ELSE project \cup {f}
  /\ edits' = edits + 1
  /\ touched' = (touched \/ compiler \in {"up", "dead"})
  /\ UNCHANGED <<text, earlier, session>>

CompilerDies ==
  /\ compiler = "up"
  /\ compiler' = "dead"
  /\ UNCHANGED <<world, touched, stage, request, snapshot, loaded, options, outcome,
                 giveBack, reply>>

----------------------------------------------------------------------------
(* Before the session *)

Refuse == /\ stage' = "refused"
          /\ UNCHANGED <<world, touched, request, compiler, snapshot, loaded, options,
                         outcome, giveBack, reply>>

\* analyze: the caller asks about text t.  Paths are validated; a path that is
\* relative, missing or not UTF-8 refuses the request like the rest.
Ask(t) ==
  /\ stage = "idle"
  /\ request' = t
  /\ stage' = "match"
  /\ UNCHANGED <<world, touched, compiler, snapshot, loaded, options, outcome, giveBack, reply>>

\* ensure_source_matches
Match ==
  /\ stage = "match"
  /\ \/ text = request /\ stage' = "scan"
     \/ text # request /\ stage' = "refused"
  /\ UNCHANGED <<world, touched, request, compiler, snapshot, loaded, options, outcome,
                 giveBack, reply>>

\* reject_diagnostic_suppression on the request, then the offsets: those to be
\* called or defined are among those queried, and lie on character boundaries.
Scan ==
  /\ stage = "scan"
  /\ stage' = IF request \in Suppressing THEN "refused" ELSE "spawn"
  /\ UNCHANGED <<world, touched, request, compiler, snapshot, loaded, options, outcome,
                 giveBack, reply>>

\* ProjectSession::spawn
Spawn ==
  /\ stage = "spawn"
  /\ stage' = "config"
  /\ compiler' = "up" /\ snapshot' = "held"
  /\ loaded' = [text |-> text, flaws |-> project]
  /\ UNCHANGED <<world, touched, request, options, outcome, giveBack, reply>>

SpawnFails == stage = "spawn" /\ Refuse

----------------------------------------------------------------------------
(* The questions *)

\* A step of the async block: on an error the rest of the block is skipped and
\* the session is given back.
Asked(from, to) ==
  /\ stage = from /\ compiler = "up"
  /\ stage' = to
  /\ UNCHANGED <<world, touched, request, compiler, snapshot, loaded, outcome, giveBack>>

Fails(from, why) ==
  /\ stage = from
  /\ stage' = "release"
  /\ outcome' = why
  /\ UNCHANGED <<world, touched, request, compiler, snapshot, loaded, options, giveBack, reply>>

ParseConfig ==
  /\ Asked("config", "initialize")
  /\ options' = project \cap ConfigFlaws
  /\ UNCHANGED reply

Initialize == Asked("initialize", "require") /\ UNCHANGED <<options, reply>>

\* mutation: whichever configuration the session resolved will do.
RequireAnyProject ==
  \/ /\ options = {}
     /\ stage = "require" /\ stage' = "program"
     /\ UNCHANGED <<world, touched, request, compiler, snapshot, loaded, options, outcome,
                    giveBack, reply>>
  \/ /\ options # {}
     /\ Fails("require", "project")

\* require_resolved_project_config, require_source_in_project,
\* validate_sound_compiler_options
RequireProject ==
  \/ /\ "otherConfig" \notin loaded.flaws /\ options = {}
     /\ stage = "require" /\ stage' = "program"
     /\ UNCHANGED <<world, touched, request, compiler, snapshot, loaded, options, outcome,
                    giveBack, reply>>
  \/ /\ "otherConfig" \in loaded.flaws \/ options # {}
     /\ Fails("require", "project")

ProgramFiles == Asked("program", "scanBefore") /\ UNCHANGED <<options, reply>>

\* reject_program_diagnostic_suppression: every implementation file of the
\* program, this one included, is read from disk.
ProgramSuppresses == "suppressed" \in project \/ text \in Suppressing

ScanProgram(from, to) ==
  \/ /\ ~ProgramSuppresses
     /\ stage = from /\ stage' = to
     /\ UNCHANGED <<world, touched, request, compiler, snapshot, loaded, options, outcome,
                    giveBack, reply>>
  \/ ProgramSuppresses /\ Fails(from, "suppression")

\* query_session: types, symbols and their aliases, signatures and renderings;
\* a reply of another length than the request fails like a refused request.
QueryTypes == Asked("types", "symbols") /\ UNCHANGED <<options, reply>>
QuerySymbols == Asked("symbols", "render") /\ UNCHANGED <<options, reply>>
RenderTypes == Asked("render", "diagnose") /\ UNCHANGED <<options, reply>>

QueryDiagnostics ==
  /\ Asked("diagnose", "scanAfter")
  /\ reply' = [about |-> loaded.text, errors |-> loaded.text \in Mistyped]
  /\ UNCHANGED options

Refused == \E from \in {"config", "initialize", "program", "types", "symbols", "render",
                        "diagnose"} : Fails(from, "compiler")

----------------------------------------------------------------------------
(* Giving the session back *)

\* mutation: a session that failed its questions is not closed.
ReleaseUnlessFailed ==
  /\ stage = "release"
  /\ stage' = IF outcome = "ok" THEN "close" ELSE "rematch"
  /\ \/ compiler = "up" /\ snapshot' = "released" /\ UNCHANGED giveBack
     \/ giveBack' = giveBack \cup {"release"} /\ UNCHANGED snapshot
  /\ UNCHANGED <<world, touched, request, compiler, loaded, options, outcome, reply>>

\* snapshot().release(): tried whatever the questions came to.
Release ==
  /\ stage = "release"
  /\ stage' = "close"
  /\ \/ compiler = "up" /\ snapshot' = "released" /\ UNCHANGED giveBack
     \/ giveBack' = giveBack \cup {"release"} /\ UNCHANGED snapshot
  /\ UNCHANGED <<world, touched, request, compiler, loaded, options, outcome, reply>>

\* close(): tried whatever the release came to; the handle is gone after it.
Close ==
  /\ stage = "close"
  /\ stage' = "rematch"
  /\ \/ compiler = "up" /\ UNCHANGED giveBack
     \/ giveBack' = giveBack \cup {"close"}
  /\ compiler' = "gone"
  /\ UNCHANGED <<world, touched, request, snapshot, loaded, options, outcome, reply>>

\* mutation: the text is compared only before the session.
RematchOnce ==
  /\ stage = "rematch"
  /\ stage' = IF outcome = "ok" THEN "report" ELSE "refused"
  /\ UNCHANGED <<world, touched, request, compiler, snapshot, loaded, options, outcome,
                 giveBack, reply>>

\* A failure of the questions comes first, then a text that changed.
Rematch ==
  /\ stage = "rematch"
  /\ stage' = IF outcome = "ok" /\ text = request THEN "report" ELSE "refused"
  /\ UNCHANGED <<world, touched, request, compiler, snapshot, loaded, options, outcome,
                 giveBack, reply>>

\* mutation: what failed while giving back is forgotten.
ReportAnyway ==
  /\ stage = "report"
  /\ stage' = "answered"
  /\ UNCHANGED <<world, touched, request, compiler, snapshot, loaded, options, outcome,
                 giveBack, reply>>

Report ==
  /\ stage = "report"
  /\ stage' = IF giveBack = {} THEN "answered" ELSE "refused"
  /\ UNCHANGED <<world, touched, request, compiler, snapshot, loaded, options, outcome,
                 giveBack, reply>>

----------------------------------------------------------------------------
Analyze ==
  \/ Match \/ Scan \/ Spawn \/ SpawnFails
  \/ ParseConfig \/ Initialize \/ RequireProject
  \/ ProgramFiles \/ ScanProgram("scanBefore", "types")
  \/ QueryTypes \/ QuerySymbols \/ RenderTypes \/ QueryDiagnostics
  \/ ScanProgram("scanAfter", "release")
  \/ Refused
  \/ Release \/ Close \/ Rematch \/ Report

World == EditText \/ EditProject \/ CompilerDies

----------------------------------------------------------------------------
(* Properties *)

SessionTypeOK ==
  /\ text \in Texts /\ earlier \subseteq Texts /\ text \in earlier
  /\ project \subseteq Flaws /\ edits \in 0 .. MaxEdits /\ touched \in BOOLEAN
  /\ stage \in Stages /\ request \in Texts \cup {NoText}
  /\ compiler \in {"none", "up", "dead", "gone"}
  /\ snapshot \in {"none", "held", "released"}
  /\ loaded \in [text : Texts \cup {NoText}, flaws : SUBSET Flaws]
  /\ options \subseteq ConfigFlaws
  /\ outcome \in {"ok", "project", "suppression", "compiler"}
  /\ giveBack \subseteq {"release", "close"}
  /\ reply \in [about : Texts \cup {NoText}, errors : BOOLEAN]

\* The types of an answer were computed from the very text that was asked
\* about, however the file was edited meanwhile, unless a text came back
\* between the two comparisons.
AnswersTheText == stage = "answered" /\ ~Recur => reply.about = request

\* The guards hold of what the compiler loaded, not only of what was on disk
\* when they ran: an answer is about a project without flaws, unless the
\* project was edited while the session was open.
SoundProject ==
  stage = "answered" /\ ~touched => loaded.flaws = {} /\ (~Recur => loaded.text \notin Suppressing)

\* However an analysis ends, its session was closed first; it answers only if
\* the compiler confirmed both the release and the close.
SessionGivenBack ==
  /\ stage \in {"answered", "refused", "idle"} => compiler \notin {"up", "dead"}
  /\ stage = "answered" => snapshot = "released" /\ compiler = "gone"
=============================================================================
