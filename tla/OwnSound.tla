------------------------------ MODULE OwnSound ------------------------------
(***************************************************************************)
(* The ownership checker against the programs it checks: a program is read *)
(* and checked (OwnCheck); when the checker has reached its end and has    *)
(* reported nothing, the program is executed (OwnRun).                     *)
(***************************************************************************)
EXTENDS OwnCheck

CONSTANT MaxTurns

VARIABLES ip, env, heap, stack, comp, turns, faults

R == INSTANCE OwnRun

rvars == <<ip, env, heap, stack, comp, turns, faults>>

vars == <<cvars, rvars>>

Idle == stack = <<>> /\ ip = 0

Init == CInit /\ ip = 0 /\ env = <<>> /\ heap = <<>> /\ stack = <<>>
        /\ comp = "normal" /\ turns = 0 /\ faults = {}

Checking == Check /\ UNCHANGED rvars
Starting == frames = <<>> /\ chk.diags = {} /\ Idle /\ R!Start /\ UNCHANGED cvars
Executing == R!Execute /\ UNCHANGED cvars

Next == Checking \/ Starting \/ Executing

Spec == Init /\ [][Next]_vars

\* The checker is a sequential program: it keeps running.
FairSpec == Spec /\ WF_vars(Checking)

-----------------------------------------------------------------------------
(* Properties *)

\* A switch with a default whose last clause, empty, is the way out of it: the
\* checker compares neither the table of that clause nor the one of no clause.
EmptyWayOut ==
    \E i \in 1 .. Len(prog) : /\ prog[i].op = "switch"
                              /\ R!Middle(i, {"default"}) # {}
                              /\ prog[R!CloseOf(i) - 1].op \in {"case", "default"}

NoLeak == "Leak" \notin faults

\* A program the checker accepts consumes every unique value on every path,
\* unless it may leave a switch through an empty clause.
ConsumedOnEveryPath == NoLeak \/ EmptyWayOut

\* ... never touches a value that was moved away, unless an exception is
\* caught (implementation-journey.md leaves throw and catch out of the control
\* flow the checker knows) ...
NoUseAfterMove == ~(Has("throw") /\ Has("catch")) => "UseAfterMove" \notin faults

\* ... and a borrow neither gives the value away nor outlives it.
BorrowsAreSafe == faults \cap {"ConsumedThroughBorrow", "DanglingBorrow"} = {}
=============================================================================
