------------------------------ MODULE OwnCheck ------------------------------
(***************************************************************************)
(* Checker::check_stmt over whole function bodies with control flow        *)
(* (crates/own/src/check.rs).  A program is a sequence of tokens, one per  *)
(* simple statement, opening or closing of a construct; it is written one  *)
(* token ahead of the checker, so that every program its fragment allows is *)
(* explored.  The recursion of check_stmt is the stack "frames", and each  *)
(* frame keeps what the handler keeps in its local variables.              *)
(***************************************************************************)
EXTENDS OwnTable

CONSTANTS Fragments, \* the sublanguages programs are written in
          MaxRules   \* bound on the rules reported before the walk is cut off

\* A fragment: the operations of its programs, whether an inner scope may
\* reuse a visible name, and bounds on tokens, on open constructs and on
\* nested try statements with a finalizer.
ASSUME OwnCheckAssumption == MaxRules \in Nat /\ Fragments # {} /\
    \A f \in Fragments :
        f \in [ops : SUBSET STRING, shadowing : BOOLEAN, tokens : Nat, nest : Nat, finalizers : Nat]

VARIABLES fragment,\* the fragment the program is written in
          prog,    \* the tokens read so far
          pc,      \* the token being checked
          chk,     \* the Checker's table, scopes, loop depth and diagnostics
          frames,  \* open constructs, outermost first
          tries,   \* Checker.try_finally_depth
          pending  \* Checker.pending_finally: a snapshot per open try-finally

cvars == <<fragment, prog, pc, chk, frames, tries, pending>>

NoTable == [n \in Names |-> NoEntry]
None == [some |-> FALSE, tbl |-> NoTable]
Some(t) == [some |-> TRUE, tbl |-> t]

Token(op, x, y, k) == [op |-> op, x |-> x, y |-> y, k |-> k]

\* A frame: the construct's part being read, the position of its token, the
\* names JavaScript declares in it, whether its statements surely exit
\* (stmts_exit), the tables kept, and the snapshot for a finalizer.
Frame(part, i) == [part |-> part, at |-> i, bound |-> {}, exits |-> FALSE,
                    base |-> NoTable, tables |-> <<>>, k |-> "", exiting |-> None]

Top == frames[Len(frames)]
Below == SubSeq(frames, 1, Len(frames) - 1)
Reading == Top.part
Visible == UNION {frames[i].bound : i \in 1 .. Len(frames)}

\* A frame that replaces the innermost one, or that opens above it.
Swap(f) == frames' = Append(Below, f)
Push(f) == frames' = Append(frames, f)
\* Leaving the innermost frame: "exits" tells whether its construct exits.
Leave(exits) ==
    frames' = [Below EXCEPT ![Len(frames) - 1].exits = @ \/ exits]

-----------------------------------------------------------------------------
(* The handlers.  Each takes the token; pc moves on unless said otherwise. *)

Here == Len(frames) > 0 /\ Cardinality(chk.diags) <= MaxRules
Advance == pc' = pc + 1
Flow == UNCHANGED <<tries, pending>>

\* Statements that only touch the table.
Straight(t, s) == /\ chk' = s /\ Advance /\ Flow
                  /\ UNCHANGED frames

\* Declarations also bind their name, tracked or not.
Binds(n, s) == /\ chk' = s /\ Advance /\ Flow
               /\ frames' = [frames EXCEPT ![Len(frames)].bound = @ \cup {n}]

Simple(t) ==
    \/ /\ t.op = "declare" /\ Binds(t.x, AddFromType(chk, t.x, t.k))
    \/ /\ t.op = "plain"   /\ Binds(t.x, chk)
    \/ /\ t.op = "move"    /\ Binds(t.x, DeclareMoved(chk, t.x, t.y))
    \/ /\ t.op = "borrow"  /\ Binds(t.y, BeginBorrow(chk, t.x, t.y, t.k))
    \/ /\ t.op = "clone"   /\ Binds(t.y, DoClone(chk, t.x, t.y))
    \/ /\ t.op = "consume" /\ Straight(t, ApplyApps(chk, t.x, Move))
    \/ /\ t.op = "read"    /\ Straight(t, ApplyApps(chk, t.x, [NoApps EXCEPT !.read = 1]))
    \/ /\ t.op = "assign"  /\ Straight(t, AssignStatement(chk, t.x, t.y))

\* c && f(x): the right operand may not run; its table is kept.
LogicalRight(t) ==
    /\ t.op = "and"
    /\ LET after == ApplyApps(chk, t.x, Move)
       IN  Straight(t, Compare(after, chk.tbl, after.tbl))

\* require_on_exit: inside a try with a finalizer the table is put aside for
\* it, in every slot that has none yet; outside, uniques must be consumed.
ReturnOrThrow(t) ==
    /\ t.op \in {"return", "throw"}
    /\ LET s == IF t.op = "return" /\ t.x # NoName THEN ReturnArgument(chk, t.x) ELSE chk
       IN  IF tries > 0
           THEN /\ chk' = s
                /\ pending' = [i \in 1 .. Len(pending) |->
                                 IF pending[i].some THEN pending[i] ELSE Some(s.tbl)]
           ELSE chk' = RequireConsumed(s) /\ UNCHANGED pending
    /\ frames' = [frames EXCEPT ![Len(frames)].exits = TRUE]
    /\ Advance /\ UNCHANGED tries

\* break and continue fall in check_stmt's catch-all arm.
BreakOrContinue(t) ==
    /\ t.op \in {"break", "continue"}
    /\ frames' = [frames EXCEPT ![Len(frames)].exits = TRUE]
    /\ Advance /\ Flow /\ UNCHANGED chk

Open(t) ==
    /\ t.op \in {"block", "if", "while", "switch", "try"}
    /\ CASE t.op = "block" ->
              chk' = PushScope(chk) /\ Push(Frame("block", pc)) /\ Flow
         [] t.op = "if" ->
              chk' = PushScope(chk) /\ Push([Frame("then", pc) EXCEPT !.base = chk.tbl]) /\ Flow
         [] t.op = "while" ->
              /\ chk' = [PushScope(chk) EXCEPT !.depth = @ + 1]
              /\ Push(Frame("while", pc)) /\ Flow
         [] t.op = "switch" ->
              chk' = chk /\ Push([Frame("switch", pc) EXCEPT !.base = chk.tbl]) /\ Flow
         [] t.op = "try" ->
              /\ chk' = PushScope(chk)
              /\ Push([Frame("try", pc) EXCEPT !.base = chk.tbl, !.k = t.k])
              /\ IF t.k = "catch" THEN Flow
                 ELSE tries' = tries + 1 /\ pending' = Append(pending, None)
    /\ Advance

ThenTableEarly == chk.tbl  \* mutation: taken before the branch's scope is popped
\* What the first branch leaves behind, for the comparison with the second.
ThenTable == PopScope(chk).tbl

Else(t) ==
    /\ t.op = "else" /\ Reading = "then"
    /\ LET r == PopScope(chk)
       IN  /\ chk' = PushScope([r EXCEPT !.tbl = Top.base])
           /\ Swap([Top EXCEPT !.part = "else", !.at = pc, !.tables = <<ThenTable>>, !.bound = {},
                               !.k = IF Top.exits THEN "exits" ELSE "", !.exits = FALSE])
    /\ Advance /\ Flow

\* A case or default clause is checked from the table the switch began with, in
\* its own scope.  A clause without statements leaves no table behind (popping
\* its scope, which the code does not open, changes nothing) and may fall through.
EmptyClause == pc = Top.at + 1

ClauseDone ==
    LET r == PopScope(chk)
    IN  [s |-> r, tables |-> IF EmptyClause THEN Top.tables ELSE Append(Top.tables, r.tbl)]

\* Closing a clause that another one follows reports fall-through.
FallThrough(s) == IF Top.exits \/ EmptyClause THEN s ELSE Emit(s, "UnmappedConstruct")

Clause(t) ==
    /\ t.op \in {"case", "default"}
    /\ \/ /\ Reading = "switch"
          /\ chk' = PushScope(chk)
          /\ Swap([Top EXCEPT !.part = "case", !.at = pc, !.k = t.op])
       \/ /\ Reading = "case" /\ ~(t.op = "default" /\ Top.k = "default")
          /\ LET d == ClauseDone
                 s == FallThrough(d.s)
             IN  /\ chk' = PushScope([s EXCEPT !.tbl = Top.base])
                 /\ Swap([Top EXCEPT !.at = pc, !.tables = d.tables, !.exits = FALSE, !.bound = {},
                                     !.k = IF t.op = "default" THEN t.op ELSE @])
    /\ Advance /\ Flow

Catch(t) ==
    /\ t.op = "catch" /\ Reading = "try" /\ Top.k \in {"catch", "both"}
    /\ LET r == PopScope(chk)
       IN  /\ chk' = PushScope([r EXCEPT !.tbl = Top.base])
           /\ Swap([Top EXCEPT !.part = "catch", !.at = pc, !.tables = <<r.tbl>>, !.bound = {},
                               !.exits = FALSE])
    /\ Advance /\ Flow

CatchDoneOpen ==  \* mutation: the handler's scope stays open
    [Compare(chk, Top.tables[1], chk.tbl) EXCEPT !.tbl = Top.tables[1]]
\* The end of the handler: its table must agree with the block's, which is kept.
CatchDone ==
    LET r == PopScope(chk)
    IN  [Compare(r, Top.tables[1], r.tbl) EXCEPT !.tbl = Top.tables[1]]

\* The finalizer is first checked from the table put aside by an exit in the
\* try statement, if there is one.
Finally(t) ==
    /\ t.op = "finally"
    /\ \/ Reading = "try" /\ Top.k = "finally"
       \/ Reading = "catch" /\ Top.k = "both"
    /\ LET s       == IF Reading = "try" THEN PopScope(chk) ELSE CatchDone
           exiting == pending[Len(pending)]
       IN  /\ chk' = PushScope(IF exiting.some THEN [s EXCEPT !.tbl = exiting.tbl] ELSE s)
           /\ Swap([Frame("finally", pc) EXCEPT !.base = s.tbl, !.exiting = exiting])
           /\ pending' = SubSeq(pending, 1, Len(pending) - 1)
    /\ tries' = tries - 1
    /\ Advance

DiffersNever(saved, fallthrough) == FALSE  \* mutation: one round only
\* Must the finalizer be checked again, from the fall-through table?
Differs(saved, fallthrough) ==
    \E n \in Names : /\ saved[n].kind # "None" /\ fallthrough[n].kind # "None"
                     /\ saved[n].state # fallthrough[n].state

SecondRoundKept == Top  \* mutation: the snapshot is kept
\* The second round has no snapshot, and so no third round.
SecondRound == [Frame("finally", Top.at) EXCEPT !.k = "again"]

FinallyDone ==
    LET r == PopScope(chk)
        again == Top.exiting.some /\ Differs(Top.exiting.tbl, Top.base)
        s == IF Top.exiting.some /\ tries = 0 THEN RequireConsumed(r) ELSE r
    IN  /\ pending' = IF Top.exiting.some
                      THEN [i \in 1 .. Len(pending) |->
                              IF pending[i].some THEN Some(r.tbl) ELSE pending[i]]
                      ELSE pending
        /\ IF again
           THEN /\ chk' = PushScope([s EXCEPT !.tbl = Top.base])
                /\ Swap(SecondRound)
                /\ pc' = Top.at + 1
           ELSE chk' = s /\ Leave(FALSE) /\ Advance
        /\ UNCHANGED tries

\* mutation: a switch is taken to enter one of its clauses
SwitchTablesEntered == ClauseDone.tables
\* The tables of a switch: one per non-empty clause, and the one of no clause
\* unless there is a default, be it empty.
SwitchTables == LET d == ClauseDone
                IN  IF Top.k = "default" THEN d.tables ELSE Append(d.tables, Top.base)

LoopDone == [PopScope(chk) EXCEPT !.depth = @ - 1]

End(t) ==
    /\ t.op = "end"
    /\ CASE Reading = "block" ->
              chk' = PopScope(chk) /\ Leave(Top.exits) /\ Advance /\ Flow
         [] Reading = "then" ->
              /\ LET r == PopScope(chk) IN chk' = Compare(r, r.tbl, Top.base)
              /\ Leave(FALSE) /\ Advance /\ Flow
         [] Reading = "else" ->
              /\ LET r == PopScope(chk)
                 IN  chk' = [Compare(r, Top.tables[1], r.tbl) EXCEPT !.tbl = Top.tables[1]]
              /\ Leave(Top.exits /\ Top.k = "exits") /\ Advance /\ Flow
         [] Reading = "while" ->
              chk' = LoopDone /\ Leave(FALSE) /\ Advance /\ Flow
         [] Reading = "case" ->
              /\ LET ts == SwitchTables
                     agree == \A i \in 1 .. Len(ts) - 1 : Agree(ts[i], ts[i + 1])
                     r == IF ts = <<>> THEN ClauseDone.s ELSE [ClauseDone.s EXCEPT !.tbl = ts[1]]
                 IN  chk' = IF agree THEN r ELSE Emit(r, "BranchInconsistent")
              /\ Leave(FALSE) /\ Advance /\ Flow
         [] Reading = "switch" ->
              chk' = chk /\ Leave(FALSE) /\ Advance /\ Flow
         [] Reading = "catch" /\ Top.k = "catch" ->
              chk' = CatchDone /\ Leave(FALSE) /\ Advance /\ Flow
         [] Reading = "finally" -> FinallyDone
         [] OTHER -> FALSE

\* check_program and check_function end by popping the outermost scope.
Eof(t) ==
    /\ t.op = "eof" /\ Len(frames) = 1
    /\ chk' = PopScope(chk) /\ frames' = <<>> /\ Advance /\ Flow

Step(t) ==
    \/ Simple(t) \/ LogicalRight(t) \/ ReturnOrThrow(t) \/ BreakOrContinue(t)
    \/ Open(t) \/ Else(t) \/ Clause(t) \/ Catch(t) \/ Finally(t) \/ End(t) \/ Eof(t)

-----------------------------------------------------------------------------
(* The programs. *)

Bodies == {"then", "else", "while", "block", "case", "try", "catch", "finally", "body"}

\* The names mentioned since the innermost part began: JavaScript hoists, so a
\* name already used here cannot be declared here.
Mentioned == {prog[i].x : i \in (Top.at + 1) .. (pc - 1)} \cup
             {prog[i].y : i \in (Top.at + 1) .. (pc - 1)}
Declarable == {n \in Names : IF fragment.shadowing THEN n \notin Top.bound \cup Mentioned
                             ELSE n \notin Visible}

Inside(parts) == \E i \in 1 .. Len(frames) : frames[i].part \in parts

\* Two different names, the second one new: an initialiser cannot mention the
\* name it declares.
Statements ==
    [op : {"declare"}, x : Declarable, y : {NoName}, k : Owning] \cup
    [op : {"plain"}, x : Declarable, y : {NoName}, k : {""}] \cup
    {t \in [op : {"move"}, x : Declarable, y : Visible, k : {""}] \cup
           [op : {"borrow"}, x : Visible, y : Declarable, k : Modes] \cup
           [op : {"clone"}, x : Visible, y : Declarable, k : {""}] : t.x # t.y} \cup
    [op : {"assign"}, x : Visible, y : Visible, k : {""}] \cup
    [op : {"consume", "read", "and"}, x : Visible, y : {NoName}, k : {""}] \cup
    [op : {"return"}, x : Visible \cup {NoName}, y : {NoName}, k : {""}] \cup
    [op : {"throw"} \cup (IF Inside({"while", "case"}) THEN {"break"} ELSE {})
                   \cup (IF Inside({"while"}) THEN {"continue"} ELSE {}),
     x : {NoName}, y : {NoName}, k : {""}] \cup
    IF Len(frames) > fragment.nest THEN {}
    ELSE {Token(op, NoName, NoName, "") : op \in {"block", "if", "while", "switch"}} \cup
         {Token("try", NoName, NoName, k) :
             k \in {"catch"} \cup IF Len(pending) < fragment.finalizers THEN {"finally", "both"} ELSE {}}

\* The tokens that close a part or open the next one.
Closers == {Token(op, NoName, NoName, "") :
               op \in {"else", "case", "default", "catch", "finally", "end", "eof"}}

\* Statements that could never run, after a jump, are not written.
Readable ==
    {t \in Closers \cup (IF Reading \in Bodies /\ ~Top.exits THEN Statements ELSE {}) :
        t.op \in fragment.ops}

\* The tokens that still have to come for the open constructs to close.
Owes(f) ==
    CASE f.part = "try" /\ f.k = "both" -> 3
      [] f.part = "try" /\ f.k # "both" -> 2
      [] f.part = "catch" /\ f.k = "both" -> 2
      [] f.part = "finally" /\ f.k = "again" -> 0
      [] OTHER -> 1
Owed == Cardinality({x \in (1 .. Len(frames)) \X (1 .. 3) : x[2] <= Owes(frames[x[1]])})

CInit ==
    /\ fragment \in Fragments
    /\ prog = <<>> /\ pc = 1
    /\ chk = PushScope(Empty)
    /\ frames = <<Frame("body", 0)>>
    /\ tries = 0 /\ pending = <<>>

\* Read one more token, or check a token again in a finalizer's second round.
Check ==
    /\ Here /\ UNCHANGED fragment
    /\ IF pc <= Len(prog) THEN Step(prog[pc]) /\ UNCHANGED prog
       ELSE \E t \in Readable : /\ Step(t)
                                /\ prog' = Append(prog, t)
                                /\ Len(prog') + Owed' <= fragment.tokens

-----------------------------------------------------------------------------
(* Properties *)

Words == {"declare", "plain", "move", "borrow", "clone", "consume", "read", "assign", "and",
          "return", "throw", "break", "continue", "block", "if", "else", "while",
          "switch", "case", "default", "try", "catch", "finally", "end", "eof"}
Tokens == [op : Words, x : Names \cup {NoName}, y : Names \cup {NoName},
           k : Owning \cup Modes \cup {"", "catch", "finally", "both"}]

\* The checker's fields have their types.
CheckTypeOK ==
    /\ prog \in Seq(Tokens) /\ pc \in 1 .. Len(prog) + 1
    /\ chk \in Checker
    /\ tries \in Nat
    /\ \A i \in 1 .. Len(pending) : pending[i].tbl \in [Names -> VarEntry]
    /\ \A i \in 1 .. Len(frames) : frames[i].base \in [Names -> VarEntry]

Count(parts) == Cardinality({i \in 1 .. Len(frames) : frames[i].part \in parts})

\* Every handler gives back what it took: between two statements loop_depth
\* counts the open loops, try_finally_depth and pending_finally the open try
\* statements whose finalizer was not reached, and there is one scope per
\* open construct (a switch has scopes only for its clauses).
Balanced ==
    /\ chk.depth = Count({"while"})
    /\ tries = Len(pending)
    /\ tries = Cardinality({i \in 1 .. Len(frames) :
                   \/ frames[i].part = "try" /\ frames[i].k # "catch"
                   \/ frames[i].part = "catch" /\ frames[i].k = "both"})
    /\ Len(chk.marks) = Len(frames) - Count({"switch"})

Has(op) == \E i \in 1 .. Len(prog) : prog[i].op = op

\* Between statements, the table holds a row for exactly the names the open
\* scopes bind, whichever branch's table was kept (check_stmt's self.tbl = ...).
\* A finalizer breaks this: it starts from the table of an inner return.
ScopesCoverTable == ~Has("finally") =>
    TrackedNames(chk) = {chk.bindings[i].name : i \in 1 .. Len(chk.bindings)}

\* The walk ends, although a finalizer may be walked twice.
Walked == <>(frames = <<>> \/ Cardinality(chk.diags) > MaxRules)
=============================================================================
