------------------------------ MODULE MCPragma ------------------------------
(* Pragma on one text for each thing a checker, the compiler or the scan for *)
(* suppressions may object to.                                               *)
EXTENDS Pragma, TLC

CONSTANTS clean, nochecked, mistyped, omitting, moved, garbling

MCTexts == {clean, nochecked, mistyped, omitting, moved, garbling}

Plain == [broken |-> FALSE, garbled |-> FALSE, ownOmits |-> FALSE, rtOmits |-> FALSE,
          ownBad |-> FALSE, rtBad |-> FALSE, markers |-> {}]

\* The mistyped text also fails the refinement checker, so that the order of
\* the two shows; the garbled one has markers of two environments.
MCFacts ==
  (clean     :> [Plain EXCEPT !.markers = {"node", "bun"}]) @@
  (nochecked :> Plain) @@
  (mistyped  :> [Plain EXCEPT !.rtBad = TRUE]) @@
  (omitting  :> [Plain EXCEPT !.ownOmits = TRUE, !.rtOmits = TRUE, !.markers = {"bun", "deno"}]) @@
  (moved     :> [Plain EXCEPT !.ownBad = TRUE]) @@
  (garbling  :> [Plain EXCEPT !.garbled = TRUE, !.broken = TRUE])

Given(f, v) == [flag |-> f, value |-> v]
MCArguments ==
  {Given("--checker", "own"), Given("--checker", "rt"),
   Given("--platform", "browser"), Given("--platform", "auto"), Given("--target", "deno"),
   Given("--corsa", ""), Given("--no-corsa", ""), Given("path", "")}

MCMachines == {{"cached", "temp", "--corsa"}, {"tsconfig"}}
MCProjects == {{}, {"otherConfig"}, {"suppressed"}}
=============================================================================
