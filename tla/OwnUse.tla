------------------------------- MODULE OwnUse -------------------------------
(***************************************************************************)
(* The ownership checker and the program it checks, statement by statement *)
(* (crates/own/src/check.rs, and OwnEval for what the statements do): the  *)
(* program is written as it is checked, from a pool of statements, for as  *)
(* long as nothing is reported.                                            *)
(***************************************************************************)
EXTENDS OwnExpr

CONSTANTS Pool,   \* the statements programs are written with
          Rounds  \* loop rounds of a run

\* What the checker and a run make of a statement in a function that returns
\* ret.  The configuration gives them Verdict and Outcomes: as parameters, TLC's
\* cost statistics do not unfold every case of every expression in them.
CONSTANTS Checked(_, _, _), Performed(_, _, _)

VARIABLES chk,    \* the Checker
          world,  \* what the running function holds
          done    \* the program is complete, or refused

vars == <<chk, world, done>>

E == INSTANCE OwnEval

CheckerState == [tbl : [Names -> VarEntry], bindings : Seq(ScopeBinding), marks : Seq(Nat), depth : Nat,
                 diags : SUBSET RuleKind, untyped : SUBSET Names, opaque : SUBSET Names,
                 suppress : Names \cup {NoName}, ret : {"None", "Unique"}, bodies : {{}}]
World == [slot : [Names -> E!CellState], faults : SUBSET E!Hazards, ret : {"None", "Unique"}, ended : BOOLEAN]

\* What the function is declared to return matters where it returns.
Verdict(s, ret, d) ==
    LET begun == [s EXCEPT !.ret = ret]
    IN  [CheckStatement(begun, d) EXCEPT !.ret = "None", !.bodies = {}]
Outcomes(w, ret, d) ==
    LET begun == [w EXCEPT !.ret = ret]
    IN  E!Perform(begun, d)

\* The names a statement needs, and those it declares in its scope or in a
\* block of its own.
Needs == [d \in Pool |-> E!FreeIn(d) \cap Names]
RECURSIVE DeclaredIn(_)
DeclaredIn(d) == (IF d.op \in E!Binders THEN {d.x} ELSE {}) \cup
                 IF d.op \in {"fn", "arrow", "function"} THEN {}
                 ELSE UNION {DeclaredIn(k) : k \in ToSet(d.kids)}
Makes == [d \in Pool |-> DeclaredIn(d) \cap Names]
\* The name whose value an assignment moves.
Moved == [d \in Pool |-> IF d.op = "expr" /\ d.kids[1].op = "set" THEN MoveSource(d.kids[1]) ELSE NoName]

\* The statement can be written here: its names are declared, it declares
\* names that are not, and only once (OwnSound's programs shadow names), and
\* it assigns to a name only what another held (see "departures", README).
Writable(d) ==
    /\ \A n \in Needs[d] \ Makes[d] : world.slot[n].st # "none"
    /\ \A n \in Makes[d] : world.slot[n].st = "none"
    /\ d.op \in Declarations => d.x \notin Needs[d]
    /\ Moved[d] # NoName => world.slot[Moved[d]].st # "plain"

Started == [tbl |-> [n \in Names |-> NoEntry], bindings |-> <<>>, marks |-> <<>>, depth |-> 0,
            diags |-> {}, untyped |-> {}, opaque |-> {}, suppress |-> NoName,
            ret |-> "None", bodies |-> {}]

Init == chk = PushScope(Started) /\ world = E!Outset /\ done = FALSE

Statement(d, ret) ==
    /\ Writable(d)
    /\ chk' = Checked(chk, ret, d)
    /\ IF chk'.diags # {} THEN done' = TRUE /\ UNCHANGED world
       ELSE world' \in Performed(world, ret, d) /\ done' = world'.ended

Step == /\ ~done
        /\ \E d \in Pool : \E ret \in IF d.op = "return" THEN {"None", "Unique"} ELSE {"None"} :
               Statement(d, ret)

\* check_program and check_function end by popping the outermost scope.
Finish == /\ ~done
          /\ chk' = PopScope(chk) /\ world' = E!Leave(world, Names) /\ done' = TRUE

Next == Step \/ Finish
Spec == Init /\ [][Next]_vars

-----------------------------------------------------------------------------
(* Properties                                                              *)

\* The checker's and the run's fields have their types.
UseTypeOK ==
    /\ chk \in CheckerState /\ chk.depth = 0 /\ chk.suppress = NoName
    /\ chk.marks = IF done /\ chk.marks = <<>> THEN <<>> ELSE <<0>>
    /\ world \in World

Accepted == chk.diags = {}
Faultless(hazards) == Accepted => world.faults \cap hazards = {}

\* In a program without reports, whatever calls, operators and closures its
\* expressions nest, no owned value is used after it was handed over, taken
\* through a borrow, or read through a borrow that it outlived.
NothingUsedTwice == Faultless({"UseAfterMove", "ConsumedThroughBorrow", "DanglingBorrow"})

\* No unique value is forgotten: neither one that a name holds when it leaves
\* its scope or is overwritten, nor the result of a call that nobody keeps.
NothingForgotten == Faultless({"Leak", "Lost"})

\* A call never gets the same value twice if it writes to it or takes it.
NothingAliased == Faultless({"AliasedWrite"})

\* A nested function, which may run at any time, uses no owned name of the
\* function around it.
NothingCaptured == Faultless({"Captured"})

\* The table tells the truth: what a name holds, has given away or borrows is
\* what its row says, through every expression that moves values.
TableIsTrue == Accepted /\ ~done => \A n \in Names :
    LET c == world.slot[n]
        e == chk.tbl[n]
    IN  /\ c.st = "own" => e.kind \in Owning /\ e.state # "Consumed" /\ (c.kind = "Unique" => e.kind = "Unique")
        /\ c.st = "gone" => e.state = "Consumed"
        /\ c.st = "ref" => e.kind \in Refs /\ chk.tbl[c.of].state \in Lent
        /\ c.st # "dead"
=============================================================================
