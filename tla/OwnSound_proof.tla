--------------------------- MODULE OwnSound_proof ---------------------------
(***************************************************************************)
(* The checker against the programs it checks.  Where control flow is      *)
(* blocks, conditionals, loops and early exits, names are not shadowed or  *)
(* assigned to and no borrow is cloned (Structured), an accepted program   *)
(* consumes its unique values on every path, uses none after its move, and *)
(* its borrows neither give a value away nor outlive it: for every set of  *)
(* names, every length and nesting of the programs and every number of     *)
(* loop rounds.  The proof relates two machines that never run together:   *)
(* the checker, whose states before each token make a walk over the        *)
(* program (TraceInv), and the program that runs over those tokens         *)
(* afterwards, skipping some and repeating others (ExecInv).               *)
(***************************************************************************)
EXTENDS OwnCheck_proof

(* Reports are not withdrawn. *)

\* Reporting a rule.
LEMMA EmitReports == ASSUME NEW s \in Checker, NEW rule PROVE s.diags \subseteq Emit(s, rule).diags
BY DEF Emit, Checker

\* Comparing two tables.
LEMMA CompareReports ==
    ASSUME NEW s \in Checker, NEW t, NEW u PROVE s.diags \subseteq Compare(s, t, u).diags
BY EmitReports DEF Compare

\* A use of a name.
LEMMA UseReports ==
    ASSUME NEW s \in Checker, NEW n \in Names, NEW a
    PROVE  s.diags \subseteq ApplyApps(s, n, a).diags
<1>1. ASSUME NEW m, NEW b PROVE s.diags \subseteq ApplyOwned(s, m, b).diags
  <2>1. [s EXCEPT !.tbl[m].state = "Consumed"].diags = s.diags
    BY DEF Checker
  <2>2. s.diags \subseteq ConsumeOnce(s, m).diags
    BY <2>1, EmitReports DEF ConsumeOnce
  <2> QED BY <2>2, EmitReports DEF ApplyOwned
<1> QED BY <1>1 DEF ApplyApps

\* check_var_decl of a moved name.
LEMMA DeclareMovedReports ==
    ASSUME NEW s \in Checker, NEW n, NEW src \in Names
    PROVE  s.diags \subseteq DeclareMoved(s, n, src).diags
<1> DEFINE q == MoveOut(s, src)
<1>1. q \in Checker /\ s.diags \subseteq q.diags
  BY ApplyAppsKeeps, UseReports DEF MoveOut, Keeps
<1> HIDE DEF q
<1>2. q.diags \subseteq Emit(q, "BorrowEscape").diags
  BY <1>1, EmitReports
<1>3. \A e : AddVar(q, n, e).diags = q.diags
  BY <1>1, AddReports
<1> QED BY <1>1, <1>2, <1>3 DEF DeclareMoved, q

\* begin_borrow.
LEMMA BeginBorrowReports ==
    ASSUME NEW s \in Checker, NEW o \in Names, NEW a, NEW mode \in Modes
    PROVE  s.diags \subseteq BeginBorrow(s, o, a, mode).diags
<1> DEFINE l == Lend(s.tbl[o], mode)
           lent == [s EXCEPT !.tbl[o] = l]
<1>1. l \in VarEntry
  BY RowFields, LendRow
<1>2. lent \in Checker /\ lent.diags = s.diags
  <2> HIDE DEF l
  <2> QED BY <1>1, SetRow
<1>3. \A e : AddVar(lent, a, e).diags = s.diags
  <2> HIDE DEF lent
  <2> QED BY <1>2, AddReports
<1> QED BY <1>3, EmitReports DEF BeginBorrow

\* do_clone.
LEMMA DoCloneReports ==
    ASSUME NEW s \in Checker, NEW o, NEW a
    PROVE  s.diags \subseteq DoClone(s, o, a).diags
BY EmitReports, AddReports DEF DoClone

\* The expression statement "dst = src".
LEMMA AssignReports ==
    ASSUME NEW s \in Checker, NEW dst \in Names, NEW src \in Names
    PROVE  s.diags \subseteq AssignStatement(s, dst, src).diags
<1> DEFINE moved == MoveOut(s, src)
           checked == IF s.tbl[src].kind \in Refs THEN Emit(moved, "BorrowEscape") ELSE moved
           new(kind) == Fresh(kind, checked.depth, NoName)
<1>1. moved \in Checker /\ s.diags \subseteq moved.diags
  BY ApplyAppsKeeps, UseReports DEF MoveOut, Keeps
<1>2. checked \in Checker /\ s.diags \subseteq checked.diags
  <2> HIDE DEF moved
  <2>1. Emit(moved, "BorrowEscape") \in Checker
    BY <1>1, EmitRests DEF Rests, RuleKind
  <2> QED BY <1>1, <2>1, EmitReports
<1> HIDE DEF checked
<1>3. ASSUME NEW kind PROVE s.diags \subseteq FinishTransfer(checked, dst, kind).diags
  <2> DEFINE gone == RemoveVar(checked, dst)
  <2>1. gone \in Checker /\ checked.diags \subseteq gone.diags
    BY <1>2, RemoveVarFrame
  <2> HIDE DEF gone
  <2>2. [gone EXCEPT !.tbl[dst] = new(kind)].diags = gone.diags
    BY <2>1 DEF Checker
  <2>3. AddVar(checked, dst, new(kind)).diags = checked.diags
    BY <1>2, AddReports
  <2> QED BY <1>2, <2>1, <2>2, <2>3 DEF FinishTransfer, gone
<1> QED BY <1>2, <1>3 DEF AssignStatement, checked

\* Statements that only touch the table.
LEMMA SimpleReports ==
    ASSUME CheckInv, Here, NEW t \in TokenType, Simple(t)
    PROVE  chk.diags \subseteq chk'.diags
<1>1. chk \in Checker /\ (t.op \in NamesOne => t.x \in Names) /\ (t.op \in NamesTwo => t.y \in Names)
      /\ (t.op = "borrow" => t.k \in Modes)
  BY TopFrame, TokenFields
<1>2. CASE t.op \in {"declare", "plain"}
  <2>1. chk.diags \subseteq AddFromType(chk, t.x, t.k).diags
    BY <1>1, AddReports DEF AddFromType
  <2> QED BY <1>2, <2>1 DEF Simple, Binds
<1>3. CASE t.op = "move"
  <2>1. t.y \in Names /\ chk' = DeclareMoved(chk, t.x, t.y)
    BY <1>1, <1>3 DEF Simple, Binds, NamesTwo
  <2> QED BY <1>1, <2>1, DeclareMovedReports
<1>4. CASE t.op = "borrow"
  <2>1. t.x \in Names /\ t.k \in Modes /\ chk' = BeginBorrow(chk, t.x, t.y, t.k)
    BY <1>1, <1>4 DEF Simple, Binds, NamesOne
  <2> QED BY <1>1, <2>1, BeginBorrowReports
<1>5. CASE t.op = "clone"
  <2>1. chk' = DoClone(chk, t.x, t.y)
    BY <1>5 DEF Simple, Binds
  <2> QED BY <1>1, <2>1, DoCloneReports
<1>6. CASE t.op \in {"consume", "read"}
  <2>1. t.x \in Names /\ \E a : chk' = ApplyApps(chk, t.x, a)
    BY <1>1, <1>6 DEF Simple, Straight, NamesOne
  <2> QED BY <1>1, <2>1, UseReports
<1>7. CASE t.op = "assign"
  <2>1. t.x \in Names /\ t.y \in Names /\ chk' = AssignStatement(chk, t.x, t.y)
    BY <1>1, <1>7 DEF Simple, Straight, NamesOne, NamesTwo
  <2> QED BY <1>1, <2>1, AssignReports
<1> QED BY <1>2, <1>3, <1>4, <1>5, <1>6, <1>7 DEF Simple

\* c && f(x).
LEMMA LogicalRightReports ==
    ASSUME CheckInv, Here, NEW t \in TokenType, LogicalRight(t)
    PROVE  chk.diags \subseteq chk'.diags
<1> DEFINE after == ApplyApps(chk, t.x, Move)
<1>1. chk \in Checker /\ t.x \in Names
  BY TopFrame, TokenFields DEF LogicalRight, NamesOne
<1>2. after \in Checker /\ chk.diags \subseteq after.diags
  BY <1>1, ApplyAppsKeeps, UseReports DEF Keeps
<1>3. chk' = Compare(after, chk.tbl, after.tbl)
  BY DEF LogicalRight, Straight
<1> HIDE DEF after
<1> QED BY <1>2, <1>3, CompareReports

\* The end of a function.
LEMMA RequireReports ==
    ASSUME NEW s \in Checker PROVE s.diags \subseteq RequireConsumed(s).diags
BY DEF RequireConsumed, Checker

\* return and throw.
LEMMA ReturnOrThrowReports ==
    ASSUME CheckInv, Here, NEW t \in TokenType, ReturnOrThrow(t)
    PROVE  chk.diags \subseteq chk'.diags
<1> DEFINE s == Returned(t)
           told == IF chk.tbl[t.x].kind \in Refs THEN Emit(chk, "BorrowEscape") ELSE chk
<1>1. chk \in Checker /\ t.x \in Names \cup {NoName} /\ s \in Checker
  BY ReturnedKeeps, TokenFields
<1>2. told \in Checker /\ chk.diags \subseteq told.diags
  BY <1>1, EmitReports, EmitRests DEF Rests, RuleKind
<1>3. chk.diags \subseteq s.diags
  <2>1. t.x \in Names => told.diags \subseteq ApplyApps(told, t.x, Move).diags
    <3> HIDE DEF told
    <3> QED BY <1>2, UseReports
  <2> QED BY <1>1, <1>2, <2>1 DEF Returned, ReturnArgument, MoveOut
<1>4. chk' \in {s, RequireConsumed(s)}
  BY DEF ReturnOrThrow, Returned
<1> HIDE DEF s
<1> QED BY <1>1, <1>3, <1>4, RequireReports

\* The end of a scope.
LEMMA PopReports ==
    ASSUME CheckInv, Here, Top.part # "switch"
    PROVE  PopScope(chk) \in Checker /\ chk.diags \subseteq PopScope(chk).diags
<1>1. chk \in Checker /\ Len(chk.marks) > 0 /\ Scoped(chk)
  BY TopFrame, TopPopped DEF CheckInv, Fits
<1>2. Len(chk.marks) \in 1 .. Len(chk.marks)
  BY <1>1, LenProperties DEF Checker
<1>3. chk.marks[Len(chk.marks)] <= Len(chk.bindings)
  BY <1>1, <1>2 DEF Scoped
<1> QED BY <1>1, <1>3, PopScopeFrame

\* A scope is opened, from some branch's table.
LEMMA PushReports ==
    ASSUME NEW s \in Checker, NEW t
    PROVE  /\ PushScope(s).diags = s.diags
           /\ PushScope([s EXCEPT !.tbl = t]).diags = s.diags
BY DEF PushScope, Checker

\* A table is kept after the rules are reported.
LEMMA KeptReports ==
    ASSUME NEW s \in Checker, NEW t PROVE [s EXCEPT !.tbl = t].diags = s.diags
BY DEF Checker

\* The tokens that open or go on with a construct.
LEMMA PartReports ==
    ASSUME CheckInv, Here, NEW t, Open(t) \/ Else(t) \/ Clause(t) \/ Catch(t) \/ Finally(t)
    PROVE  chk.diags \subseteq chk'.diags
<1> DEFINE r == PopScope(chk)
<1>1. chk \in Checker /\ (Top.part # "switch" => r \in Checker /\ chk.diags \subseteq r.diags)
  BY TopFrame, PopReports
<1>2. CASE Open(t)
  <2>1. PushScope(chk).diags = chk.diags /\ PushScope(chk) \in Checker
    BY <1>1, PushReports, PushScopeFrame
  <2>2. [PushScope(chk) EXCEPT !.depth = @ + 1].diags = chk.diags
    BY <2>1 DEF Checker
  <2>3. chk' \in {chk, PushScope(chk), [PushScope(chk) EXCEPT !.depth = @ + 1]}
    BY <1>2 DEF Open
  <2> QED BY <2>1, <2>2, <2>3
<1>3. CASE Else(t) \/ Catch(t)
  <2>1. Top.part # "switch" /\ chk' = PushScope([r EXCEPT !.tbl = Top.base])
    BY <1>3 DEF Else, Catch, Reading
  <2> HIDE DEF r
  <2> QED BY <1>1, <2>1, PushReports
<1>4. CASE Clause(t)
  <2>1. CASE Top.part = "switch"
    <3>1. chk' = PushScope(chk)
      BY <1>4, <2>1 DEF Clause, Reading
    <3> QED BY <1>1, <3>1, PushReports
  <2>2. CASE Top.part # "switch"
    <3> DEFINE s == FallThrough(r)
    <3>1. chk' = PushScope([s EXCEPT !.tbl = Top.base])
      BY <1>4, <2>2 DEF Clause, Reading, ClauseDone
    <3>2. s \in Checker /\ r.diags \subseteq s.diags
      <4> HIDE DEF r
      <4> QED BY <1>1, <2>2, FallThroughRests, EmitReports DEF Rests, FallThrough
    <3> HIDE DEF s, r
    <3> QED BY <1>1, <2>2, <3>1, <3>2, PushReports
  <2> QED BY <2>1, <2>2
<1>5. CASE Finally(t)
  <2> DEFINE s == IF Reading = "try" THEN PopScope(chk) ELSE CatchDone
             x == pending[Len(pending)]
  <2>1. Top.part # "switch"
    BY <1>5 DEF Finally, Reading
  <2>2. s \in Checker /\ chk.diags \subseteq s.diags
    <3>1. CASE Reading = "try"
      BY <1>1, <2>1, <3>1
    <3>2. CASE Reading # "try"
      <4>1. Top.part = "catch"
        BY <1>5, <3>2 DEF Finally, Reading
      <4> DEFINE c == Compare(r, Top.tables[1], r.tbl)
      <4>2. c \in Checker /\ r.diags \subseteq c.diags
        <5> HIDE DEF r
        <5> QED BY <1>1, <2>1, CompareRests, CompareReports DEF Rests
      <4>3. CatchDone = [c EXCEPT !.tbl = Top.tables[1]] /\ CatchDone \in Checker
        BY <4>1, CatchDoneRests DEF CatchDone
      <4> HIDE DEF c, r
      <4> QED BY <1>1, <2>1, <3>2, <4>2, <4>3, KeptReports
    <3> QED BY <3>1, <3>2
  <2>3. chk' = PushScope(IF x.some THEN [s EXCEPT !.tbl = x.tbl] ELSE s)
    BY <1>5 DEF Finally
  <2> HIDE DEF s, x
  <2> QED BY <2>2, <2>3, PushReports
<1> QED BY <1>2, <1>3, <1>4, <1>5

\* The tokens that close one.
LEMMA EndReports ==
    ASSUME CheckInv, Here, NEW t, End(t) \/ Eof(t)
    PROVE  chk.diags \subseteq chk'.diags
<1> DEFINE r == PopScope(chk)
           c(t1, t2) == Compare(r, t1, t2)
<1> SUFFICES ASSUME Top.part # "switch" PROVE chk.diags \subseteq chk'.diags
  <2>1. ASSUME Top.part = "switch" PROVE chk' = chk
    BY <2>1, TopFrame DEF End, Eof, Reading, CheckInv, Fits, Top
  <2> QED BY <2>1
<1>2. r \in Checker /\ chk.diags \subseteq r.diags
  BY PopReports
<1>3. \A t1, t2 : c(t1, t2) \in Checker /\ r.diags \subseteq c(t1, t2).diags
  <2> HIDE DEF r
  <2> QED BY <1>2, CompareRests, CompareReports DEF Rests
<1>4. CASE Eof(t)
  BY <1>2, <1>4 DEF Eof
<1>5. CASE End(t) /\ Reading = "block"
  BY <1>2, <1>5 DEF End
<1>6. CASE End(t) /\ Reading = "then"
  <2>1. chk' = c(r.tbl, Top.base)
    BY <1>6 DEF End
  <2> HIDE DEF c, r
  <2> QED BY <1>2, <1>3, <2>1
<1>7. CASE End(t) /\ Reading = "else"
  <2>1. chk' = [c(Top.tables[1], r.tbl) EXCEPT !.tbl = Top.tables[1]]
    BY <1>7 DEF End
  <2> HIDE DEF c, r
  <2> QED BY <1>2, <1>3, <2>1, KeptReports
<1>8. CASE End(t) /\ Reading = "while"
  <2>1. chk' = [r EXCEPT !.depth = @ - 1]
    BY <1>8 DEF End, LoopDone
  <2>2. chk'.diags = r.diags
    <3> HIDE DEF r
    <3> QED BY <1>2, <2>1 DEF Checker
  <2> QED BY <1>2, <2>2
<1>9. CASE End(t) /\ Reading = "case"
  <2> DEFINE s == FallThrough(r)
             k(v) == [r EXCEPT !.tbl = v]
  <2>1. \E v : chk' = k(v) \/ chk' = Emit(k(v), "BranchInconsistent")
    <3> DEFINE ts == SwitchTables
               agree == \A i \in 1 .. Len(ts) - 1 : Agree(ts[i], ts[i + 1])
               q == IF ts = <<>> THEN r ELSE k(ts[1])
    <3>1. chk' = IF agree THEN q ELSE Emit(q, "BranchInconsistent")
      BY <1>9 DEF End, ClauseDone
    <3>2. r = k(r.tbl)
      <4> HIDE DEF r
      <4> QED BY <1>2 DEF Checker
    <3>3. \E v : q = k(v)
      BY <3>2
    <3> HIDE DEF agree, q, k
    <3> QED BY <3>1, <3>3
  <2>2. PICK v : chk' = k(v) \/ chk' = Emit(k(v), "BranchInconsistent")
    BY <2>1
  <2>3. k(v).diags = r.diags /\ Emit(k(v), "BranchInconsistent").diags = r.diags \cup {"BranchInconsistent"}
    <3> HIDE DEF r
    <3> QED BY <1>2 DEF Checker, Emit
  <2> QED BY <1>2, <2>2, <2>3
<1>10. CASE End(t) /\ Reading = "catch"
  <2>1. chk' = [c(Top.tables[1], r.tbl) EXCEPT !.tbl = Top.tables[1]]
    BY <1>10 DEF End, CatchDone
  <2> HIDE DEF c, r
  <2> QED BY <1>2, <1>3, <2>1, KeptReports
<1>11. CASE End(t) /\ Reading = "finally"
  <2> DEFINE s == IF Top.exiting.some /\ tries = 0 THEN RequireConsumed(r) ELSE r
  <2>1. chk' = s \/ chk' = PushScope([s EXCEPT !.tbl = Top.base])
    BY <1>11 DEF End, FinallyDone
  <2>2. s \in Checker /\ r.diags \subseteq s.diags
    <3> HIDE DEF r
    <3> QED BY <1>2, RequireConsumedKeeps, RequireReports DEF Keeps
  <2> HIDE DEF s, r
  <2> QED BY <1>2, <2>1, <2>2, PushReports
<1> QED BY <1>4, <1>5, <1>6, <1>7, <1>8, <1>9, <1>10, <1>11 DEF End, Reading

\* Every token.
LEMMA StepReports ==
    ASSUME CheckInv, Here, NEW t \in TokenType, Step(t)
    PROVE  chk.diags \subseteq chk'.diags
<1>1. CASE BreakOrContinue(t)
  BY <1>1 DEF BreakOrContinue
<1> QED BY <1>1, SimpleReports, LogicalRightReports, ReturnOrThrowReports, PartReports, EndReports
        DEF Step

\* A rule once reported stays reported, whatever table a handler goes back to:
\* restoring self.tbl never restores the diagnostics.
ReportsStay == [][chk.diags \subseteq chk'.diags]_vars

\* So it is for every program of every fragment.
THEOREM NothingWithdrawn == Spec => ReportsStay
<1>1. CheckInv /\ [Next]_vars => [chk.diags \subseteq chk'.diags]_vars
  <2> SUFFICES ASSUME CheckInv, [Next]_vars PROVE chk.diags \subseteq chk'.diags
    OBVIOUS
  <2>1. CASE Check
    <3>1. Here /\ \E t \in TokenType : Step(t)
      BY <2>1, TokenRead
    <3> QED BY <3>1, StepReports
  <2>2. CASE UNCHANGED cvars
    BY <2>2 DEF cvars
  <2> QED BY <2>1, <2>2 DEF Next, Checking, Starting, Executing, vars
<1> QED BY <1>1, CheckAlways, PTL DEF Spec, ReportsStay

-----------------------------------------------------------------------------
(* What an accepted statement does to the table.  ops are the operations   *)
(* the program is written with.                                            *)

\* Such a program borrows.
Borrows(ops) == "borrow" \in ops

\* A borrow knows what it borrows from.
Sourced(c, ops) ==
    \A n \in Names : c.tbl[n].kind \in Refs => Borrows(ops) /\ c.tbl[n].owner # NoName

\* A checker that has reported nothing, on the way through such a program.
Accepted(c, ops) ==
    /\ c \in Checker /\ c.diags = {} /\ Book(c) /\ Sourced(c, ops)
    /\ \A n \in Names : Tracked(c, n) => c.tbl[n].loop_depth <= c.depth

\* The value of n was moved out.
Gone(c, n) == c.tbl[n].state = "Consumed"

\* The value of n can be moved out here.
Movable(c, n) ==
    c.tbl[n].kind \in Owning /\ c.tbl[n].state = "Unconsumed" /\ c.tbl[n].loop_depth = c.depth

\* n has the same row before and after, but for its state and its counters.
SameRow(c, r, n) ==
    /\ r.tbl[n].kind = c.tbl[n].kind /\ r.tbl[n].owner = c.tbl[n].owner
    /\ r.tbl[n].loop_depth = c.tbl[n].loop_depth

\* n is the owner of a value of that kind.
Owns(r, n, kind) == r.tbl[n].kind = kind

\* Between c and r the names in "new" get a row, and the values of those in
\* "gone" are moved out.
Changes(c, r, new, gone, ops) ==
    /\ Accepted(r, ops) /\ r.marks = c.marks /\ r.depth = c.depth
    /\ \A n \in new : n \in Names /\ ~Tracked(c, n) /\ Tracked(r, n) /\ ~Gone(r, n)
                      /\ r.tbl[n].loop_depth = c.depth
    /\ \A n \in gone : n \in Names /\ Movable(c, n)
    /\ \A n \in Names \ new : SameRow(c, r, n) /\ (Gone(r, n) <=> Gone(c, n) \/ n \in gone)
    /\ Len(r.bindings) >= Len(c.bindings)
    /\ \A i \in 1 .. Len(c.bindings) : r.bindings[i] = c.bindings[i]
    /\ \A i \in 1 .. Len(r.bindings) : i > Len(c.bindings) => r.bindings[i].name \in new

\* Nothing is changed.
LEMMA Unchanged == ASSUME NEW ops, NEW c, Accepted(c, ops) PROVE Changes(c, c, {}, {}, ops)
<1>1. Len(c.bindings) \in Nat
  BY BindingsLength DEF Accepted
<1> QED BY <1>1 DEF Changes, SameRow

\* Uses that report nothing move values out.
LEMMA UseChanges ==
    ASSUME NEW ops, NEW c, Accepted(c, ops), NEW r, NEW S, UsedAs(c, r, S, {}),
           \A n \in S : n \in Names /\ Movable(c, n)
    PROVE  Changes(c, r, {}, S, ops)
<1>1. c \in Checker /\ Keeps(c, r) /\ r \in Checker /\ Book(r) /\ r.diags = {}
  <2>1. c \in Checker /\ Book(c) /\ r \in Checker /\ r.diags = {}
    BY DEF Accepted, UsedAs
  <2>2. Keeps(c, r)
    BY <2>1, UsedKeeps
  <2> QED BY <2>1, <2>2, KeepsBook
<1>2. \A n \in Names : SameRow(c, r, n) /\ (Gone(r, n) <=> Gone(c, n) \/ n \in S)
  <2> TAKE n \in Names
  <2>1. r.tbl[n] = IF n \in S THEN [c.tbl[n] EXCEPT !.state = "Consumed"] ELSE c.tbl[n]
    BY DEF UsedAs
  <2>2. c.tbl[n] \in VarEntry
    BY <1>1, RowFields
  <2>3. CASE n \in S
    <3>1. /\ r.tbl[n].state = "Consumed" /\ r.tbl[n].kind = c.tbl[n].kind
          /\ r.tbl[n].owner = c.tbl[n].owner /\ r.tbl[n].loop_depth = c.tbl[n].loop_depth
      BY <2>1, <2>2, <2>3 DEF VarEntry
    <3> QED BY <2>3, <3>1 DEF SameRow, Gone
  <2>4. CASE n \notin S
    BY <2>1, <2>4 DEF SameRow, Gone
  <2> QED BY <2>3, <2>4
<1>3. Sourced(r, ops) /\ \A n \in Names : Tracked(r, n) => r.tbl[n].loop_depth <= r.depth
  BY <1>2 DEF Accepted, Sourced, SameRow, Tracked, UsedAs
<1>4. Len(c.bindings) \in Nat
  BY <1>1, BindingsLength
<1> QED BY <1>1, <1>2, <1>3, <1>4 DEF Changes, Accepted, UsedAs

\* A row for a name that had none.
LEMMA AddChanges ==
    ASSUME NEW ops, NEW c, Accepted(c, ops), NEW n \in Names, ~Tracked(c, n), NEW kind \in Owning,
           NEW r, r = AddVar(c, n, Fresh(kind, c.depth, NoName))
    PROVE  Changes(c, r, {n}, {}, ops) /\ Owns(r, n, kind)
<1> DEFINE e == Fresh(kind, c.depth, NoName)
<1>0. r = AddVar(c, n, e)
  OBVIOUS
<1>1. c \in Checker /\ Book(c) /\ c.depth \in Nat /\ kind \in OwnKind
  BY DEF Accepted, Checker, OwnKind
<1>2. Book(r)
  BY <1>0, <1>1, AddOwnerBook
<1>3. e \in VarEntry /\ e.kind = kind /\ e.owner = NoName /\ e.loop_depth = c.depth /\ e.state = "Unconsumed"
  <2>1. e \in VarEntry
    BY <1>1, FreshRow
  <2> QED BY <2>1 DEF Fresh
<1> HIDE DEF e
<1>4. /\ r \in Checker /\ r.marks = c.marks /\ r.depth = c.depth /\ r.diags = c.diags
      /\ \A m \in Names : r.tbl[m] = IF m = n THEN e ELSE c.tbl[m]
      /\ r.bindings = Append(c.bindings, [name |-> n, shadowed |-> c.tbl[n]])
  BY <1>0, <1>1, <1>3, RowAdded
<1>5. /\ Len(c.bindings) \in Nat /\ Len(r.bindings) = Len(c.bindings) + 1
      /\ \A i \in 1 .. Len(c.bindings) : r.bindings[i] = c.bindings[i]
      /\ r.bindings[Len(c.bindings) + 1].name = n
  BY <1>1, <1>4, BindingsLength, AppendProperties DEF Checker
<1>6. "None" \notin Owning /\ Owning \cap Refs = {}
  BY DEF Owning, Refs
<1>7. \A m \in Names \ {n} : r.tbl[m] = c.tbl[m]
  BY <1>4
<1>8. r.tbl[n] = e
  BY <1>4
<1>9. Accepted(r, ops)
  <2>1. Sourced(r, ops)
    BY <1>3, <1>6, <1>7, <1>8 DEF Accepted, Sourced
  <2>2. \A m \in Names : Tracked(r, m) => r.tbl[m].loop_depth <= r.depth
    BY <1>1, <1>3, <1>4, <1>7, <1>8 DEF Accepted, Tracked
  <2> QED BY <1>2, <1>4, <2>1, <2>2 DEF Accepted
<1>10. Tracked(r, n) /\ ~Gone(r, n)
  BY <1>3, <1>6, <1>8 DEF Tracked, Gone
<1>11. \A m \in Names \ {n} : SameRow(c, r, m) /\ (Gone(r, m) <=> Gone(c, m))
  BY <1>7 DEF SameRow, Gone
<1>12. \A i \in 1 .. Len(r.bindings) : i > Len(c.bindings) => r.bindings[i].name = n
  BY <1>5
<1>13. Changes(c, r, {n}, {}, ops)
  BY <1>3, <1>4, <1>5, <1>8, <1>9, <1>10, <1>11, <1>12 DEF Changes
<1> QED BY <1>3, <1>8, <1>13 DEF Owns

\* First values are moved out, then a row is added.
LEMMA ChangesTwice ==
    ASSUME NEW ops, NEW c \in Checker, NEW q, NEW r, NEW new, NEW gone,
           Changes(c, q, {}, gone, ops), Changes(q, r, new, {}, ops)
    PROVE  Changes(c, r, new, gone, ops)
<1>1. \A n \in Names : SameRow(c, q, n)
  BY DEF Changes
<1>2. Len(c.bindings) \in Nat /\ Len(q.bindings) \in Nat /\ Len(r.bindings) \in Nat
  BY BindingsLength DEF Changes, Accepted
<1>3. /\ Len(q.bindings) >= Len(c.bindings)
      /\ \A i \in 1 .. Len(q.bindings) : i <= Len(c.bindings)
  BY <1>2 DEF Changes
<1>4. Len(q.bindings) = Len(c.bindings)
  BY <1>2, <1>3
<1>5. \A n \in new : n \in Names /\ ~Tracked(c, n) /\ Tracked(r, n) /\ ~Gone(r, n)
                    /\ r.tbl[n].loop_depth = c.depth
  BY <1>1 DEF Changes, SameRow, Tracked
<1>6. \A n \in Names \ new : SameRow(c, r, n) /\ (Gone(r, n) <=> Gone(c, n) \/ n \in gone)
  BY <1>1 DEF Changes, SameRow
<1> QED BY <1>2, <1>4, <1>5, <1>6 DEF Changes

\* Whatever the links keep to, the last one is in it.
LEMMA LinksStay ==
    ASSUME NEW s, NEW G \in SUBSET Names, NEW n \in G, \A m \in G : Link(s, m) \in G
    PROVE  Root(s, n) \in G
<1> DEFINE K == Cardinality(Names)
<1>1. K \in Nat
  BY NamesAssumption, FS_CardinalityType
<1>2. PICK link : /\ link = [i \in 0 .. K |-> IF i = 0 THEN n ELSE Link(s, link[i - 1])]
                  /\ OwnerLink(s, n, K) = link[K]
  BY <1>1, LinkRounds
<1> DEFINE T == {i \in 0 .. K : link[i] \notin G}
<1>3. SUFFICES ASSUME T # {} PROVE FALSE
  BY <1>1, <1>2 DEF Root
<1>4. PICK m \in T : \A i \in T : m <= i
  <2>1. T \subseteq Nat
    OBVIOUS
  <2> QED BY <2>1, <1>3, Least
<1>5. m # 0
  BY <1>1, <1>2
<1>6. m \in 0 .. K /\ m - 1 \in 0 .. K
  BY <1>1, <1>5
<1>7. m - 1 \notin T
  BY <1>4, <1>6
<1>8. link[m] = Link(s, link[m - 1])
  BY <1>2, <1>5, <1>6
<1> QED BY <1>4, <1>6, <1>7, <1>8

\* A borrow leads to an owning name, which is on loan or given up.
LEMMA RootOwns ==
    ASSUME NEW ops, NEW c, Accepted(c, ops), NEW n \in Names, c.tbl[n].kind \in Refs
    PROVE  /\ Tracked(c, Root(c, n)) /\ c.tbl[Root(c, n)].kind \in Owning
           /\ c.tbl[Root(c, n)].state # "Unconsumed"
<1> DEFINE G == {m \in Names : Tracked(c, m)}
<1>1. c \in Checker /\ Book(c) /\ "None" \notin Refs
  BY DEF Accepted, Refs
<1>2. n \in G
  BY <1>1 DEF Tracked
<1>3. ASSUME NEW m \in G PROVE Link(c, m) \in G
  <2>1. CASE c.tbl[m].kind \in Refs
    <3>1. c.tbl[m].owner # NoName /\ Rooted(c, m)
      BY <1>1, <2>1 DEF Accepted, Sourced, Book, Accounts
    <3>2. Tracked(c, c.tbl[m].owner)
      BY <2>1, <3>1 DEF Rooted
    <3> QED BY <2>1, <3>2 DEF Link, Tracked
  <2>2. CASE c.tbl[m].kind \notin Refs
    BY <2>2 DEF Link
  <2> QED BY <2>1, <2>2
<1>4. Root(c, n) \in G
  <2> HIDE DEF G
  <2>1. G \in SUBSET Names
    BY DEF G
  <2> QED BY <1>2, <1>3, <2>1, LinksStay
<1>5. Root(c, n) \in Names /\ Tracked(c, Root(c, n))
  BY <1>4
<1>6. c.tbl[Root(c, n)].kind \notin Refs
  BY <1>1, <1>5, LinksEnd DEF Book
<1>7. c.tbl[Root(c, n)].kind \in Owning
  BY <1>1, <1>5, <1>6, RowFields DEF Tracked, OwnKind
<1> QED BY <1>1, <1>5, <1>7, RootNotUnconsumed

\* What the decision table says of a value moved out.
LEMMA DecideMove ==
    ASSUME NEW state \in VarState
    PROVE  /\ Decide(state, Move) # "ok"
           /\ (Decide(state, Move) = "consume") <=> (state = "Unconsumed")
<1>1. /\ Move.consumed = 1 /\ Move.read = 0 /\ Move.write = 0 /\ Move.path = 0
      /\ Move # NoApps /\ Part(0) = "Zero" /\ Part(1) = "One"
  BY DEF Move, NoApps, Part
<1> HIDE DEF Move
<1>2. CASE state = "Unconsumed"
  <2>1. Decide(state, Move) = "consume"
    BY <1>1, <1>2 DEF Decide
  <2> QED BY <1>2, <2>1
<1>3. CASE state # "Unconsumed"
  <2>1. Decide(state, Move) \in {"ConsumeWhileBorrowed", "UseAfterMove"}
    BY <1>1, <1>3 DEF Decide, VarState
  <2> QED BY <1>3, <2>1
<1> QED BY <1>2, <1>3

\* One look at a name.
Look == [NoApps EXCEPT !.read = 1]

\* What it says of a value looked at.
LEMMA DecideLook ==
    ASSUME NEW state \in VarState
    PROVE  /\ Decide(state, Look) # "consume"
           /\ (Decide(state, Look) = "ok") <=> (state = "Unconsumed")
<1>1. /\ Look.consumed = 0 /\ Look.read = 1 /\ Look.write = 0 /\ Look.path = 0
      /\ Look # NoApps /\ Part(0) = "Zero" /\ Part(1) = "One"
  BY DEF Look, NoApps, Part
<1> HIDE DEF Look
<1>2. CASE state = "Unconsumed"
  <2>1. Decide(state, Look) = "ok"
    BY <1>1, <1>2 DEF Decide
  <2> QED BY <1>2, <2>1
<1>3. CASE state # "Unconsumed"
  <2>1. Decide(state, Look) \in {"MutBorrowConflict", "BorrowAfterMove"}
    BY <1>1, <1>3 DEF Decide, VarState
  <2> QED BY <1>3, <2>1
<1> QED BY <1>2, <1>3

\* An accepted consumption moves the value out, or there is no value.
LEMMA SpendChanges ==
    ASSUME NEW ops, NEW c, Accepted(c, ops), NEW n \in Names, ApplyApps(c, n, Move).diags = {}
    PROVE  \/ Movable(c, n) /\ Changes(c, ApplyApps(c, n, Move), {}, {n}, ops)
           \/ ~Tracked(c, n) /\ ApplyApps(c, n, Move) = c
<1> DEFINE r == ApplyApps(c, n, Move)
           o == Root(c, n)
<1>1. c \in Checker /\ Book(c) /\ c.diags = {}
  BY DEF Accepted
<1>2. UsedAs(c, r, MovedBy(c, n, Move), Says(c, n, Move))
  BY <1>1, UseOf
<1>3. Says(c, n, Move) = {}
  BY <1>1, <1>2 DEF UsedAs
<1>4. ASSUME NEW m \in Names, OwnedSays(c, m, Move) = {}
      PROVE  c.tbl[m].state = "Unconsumed" /\ c.depth = c.tbl[m].loop_depth
  <2>1. c.tbl[m].state \in VarState
    BY <1>1, RowFields
  <2>2. Decide(c.tbl[m].state, Move) # "ok"
        /\ ((Decide(c.tbl[m].state, Move) = "consume") <=> (c.tbl[m].state = "Unconsumed"))
    BY <2>1, DecideMove
  <2> QED BY <1>4, <2>2 DEF OwnedSays
<1>5. CASE c.tbl[n].kind \in Owning
  <2>1. OwnedSays(c, n, Move) = {}
    BY <1>3, <1>5 DEF Says, Owning, Refs
  <2>2. c.tbl[n].state = "Unconsumed" /\ c.depth = c.tbl[n].loop_depth
    BY <1>4, <2>1
  <2>3. MovedBy(c, n, Move) = {n} /\ Movable(c, n)
    BY <1>5, <2>2, DecideMove DEF MovedBy, Movable, VarState
  <2> HIDE DEF r
  <2> QED BY <1>2, <1>3, <2>3, UseChanges DEF r
<1>6. CASE c.tbl[n].kind \in Refs
  <2>1. Tracked(c, o) /\ c.tbl[o].kind \in Owning /\ c.tbl[o].state # "Unconsumed" /\ o \in Names
    BY <1>6, RootOwns DEF Tracked
  <2>2. Move.consumed > 0 /\ c.tbl[n].kind \notin Owning
    BY <1>6 DEF Move, NoApps, Owning, Refs
  <2>3. OwnedSays(c, o, Move) = {}
    BY <1>3, <1>6, <2>1, <2>2 DEF Says
  <2> QED BY <1>4, <2>1, <2>3
<1>7. CASE c.tbl[n].kind \notin Owning \cup Refs
  <2>1. ~Tracked(c, n)
    BY <1>1, <1>7, RowFields DEF Tracked, OwnKind
  <2> QED BY <2>1 DEF ApplyApps
<1> QED BY <1>5, <1>6, <1>7

\* What can be moved out has no live borrow.
LEMMA Unlent ==
    ASSUME NEW ops, NEW c, Accepted(c, ops), NEW n \in Names, Movable(c, n)
    PROVE  \A m \in Names : c.tbl[m].kind \in Refs => c.tbl[m].owner # n
<1>1. n \in TrackedNames(c)
  BY DEF Movable, TrackedNames, Owning
<1>2. Counted(c, n)
  BY <1>1 DEF Accepted, Book, Accounts
<1> QED BY <1>2 DEF Counted, Movable, AliasesIn, Refs

\* let n = src, accepted: the value changes hands, or there is no value.
LEMMA MoveChanges ==
    ASSUME NEW ops, NEW c, Accepted(c, ops), NEW n \in Names, NEW src \in Names, n # src,
           ~Tracked(c, n), NEW r, r = DeclareMoved(c, n, src), r.diags = {}
    PROVE  \/ /\ Movable(c, src) /\ Changes(c, r, {n}, {src}, ops)
              /\ r.tbl[n].kind = c.tbl[src].kind
           \/ ~Tracked(c, src) /\ r = c
<1> DEFINE q == MoveOut(c, src)
           kind == c.tbl[src].kind
<1>1. c \in Checker /\ q \in Checker /\ kind \in OwnKind \cup {"None"}
  BY ApplyAppsKeeps, RowFields DEF Accepted, MoveOut, Keeps
<1>2. CASE kind \in Refs
  <2>1. r = Emit(q, "BorrowEscape")
    BY <1>2 DEF DeclareMoved, Owning, Refs
  <2>2. "BorrowEscape" \in r.diags
    <3> HIDE DEF q
    <3> QED BY <1>1, <2>1 DEF Emit, Checker
  <2> QED BY <2>2
<1>3. CASE kind = "None"
  <2>1. r = q /\ q = c /\ ~Tracked(c, src)
    BY <1>3 DEF DeclareMoved, MoveOut, ApplyApps, Tracked, Owning, Refs
  <2> QED BY <2>1
<1>4. CASE kind \in Owning
  <2>1. r = AddVar(q, n, Fresh(kind, c.depth, NoName))
    BY <1>4 DEF DeclareMoved, Owning, Refs
  <2>2. q.diags = {}
    <3> HIDE DEF q
    <3> QED BY <1>1, <2>1, AddReports
  <2>3. Movable(c, src) /\ Changes(c, q, {}, {src}, ops)
    <3>1. Tracked(c, src)
      BY <1>4 DEF Tracked, Owning
    <3> QED BY <2>2, <3>1, SpendChanges DEF MoveOut
  <2> HIDE DEF q, kind
  <2>4. Accepted(q, ops) /\ ~Tracked(q, n) /\ q.depth = c.depth
    BY <2>3 DEF Changes, SameRow, Tracked
  <2>5. Changes(q, r, {n}, {}, ops) /\ Owns(r, n, kind)
    <3>1. r = AddVar(q, n, Fresh(kind, q.depth, NoName))
      BY <2>1, <2>4 DEF Changes
    <3> QED BY <1>4, <2>4, <3>1, AddChanges
  <2>6. Changes(c, r, {n}, {src}, ops)
    BY <1>1, <2>3, <2>5, ChangesTwice
  <2> QED BY <2>3, <2>5, <2>6 DEF kind, Owns
<1> QED BY <1>1, <1>2, <1>3, <1>4 DEF OwnKind

\* An accepted borrow: the name is new, and what it borrows from has its value.
LEMMA BorrowChanges ==
    ASSUME NEW ops, Borrows(ops), NEW c, Accepted(c, ops), NEW o \in Names, NEW a \in Names,
           o # a, ~Tracked(c, a), NEW mode \in Modes, NEW r, r = BeginBorrow(c, o, a, mode),
           r.diags = {}
    PROVE  /\ Tracked(c, o) /\ ~Gone(c, o) /\ Changes(c, r, {a}, {}, ops)
           /\ r.tbl[a].kind \in Refs /\ r.tbl[a].owner = o
<1> DEFINE v == BorrowVerdict(c, o, mode)
           l == Lend(c.tbl[o], mode)
           lent == [c EXCEPT !.tbl[o] = l]
           kind == IF mode = "Read" THEN "RefRead" ELSE "RefWrite"
           e == Fresh(kind, c.depth, o)
<1>1. c \in Checker /\ Book(c) /\ c.depth \in Nat /\ c.tbl[o] \in VarEntry
  BY RowFields DEF Accepted, Checker
<1>2. v = "ok"
  <2>1. v # "ok" => v \in BeginBorrow(c, o, a, mode).diags
    BY <1>1 DEF BeginBorrow, Emit, Checker
  <2> QED BY <2>1
<1>3. Tracked(c, o) /\ ~Gone(c, o)
  BY <1>2 DEF BorrowVerdict, Gone
<1>4. r = AddVar(lent, a, e)
  BY <1>2 DEF BeginBorrow
<1>5. Book(r)
  BY <1>1, BeginBorrowBook
<1>6. /\ l \in VarEntry /\ l.kind = c.tbl[o].kind /\ l.owner = c.tbl[o].owner
      /\ l.loop_depth = c.tbl[o].loop_depth /\ l.state # "Consumed"
  <2>1. l \in VarEntry
    BY <1>1, LendRow
  <2> QED BY <1>1, <2>1 DEF Lend, VarEntry
<1>7. kind \in Refs /\ kind \in OwnKind \cup {"None"}
  BY DEF Refs, OwnKind
<1>8. e \in VarEntry /\ e.kind = kind /\ e.owner = o /\ e.loop_depth = c.depth /\ e.state = "Unconsumed"
  <2> HIDE DEF kind
  <2>1. e \in VarEntry
    BY <1>1, <1>7, FreshRow
  <2> QED BY <2>1 DEF Fresh
<1> HIDE DEF v, l, e, kind
<1>0. lent = [c EXCEPT !.tbl[o] = l] /\ l \in VarEntry
  BY <1>6
<1> HIDE DEF lent
<1>9. /\ lent \in Checker /\ lent.bindings = c.bindings /\ lent.marks = c.marks
      /\ lent.depth = c.depth /\ lent.diags = c.diags
      /\ \A m \in Names : lent.tbl[m] = IF m = o THEN l ELSE c.tbl[m]
  BY <1>0, <1>1, RowWritten
<1>10. /\ r \in Checker /\ r.marks = c.marks /\ r.depth = c.depth /\ r.diags = {}
       /\ \A m \in Names : r.tbl[m] = IF m = a THEN e ELSE lent.tbl[m]
       /\ r.bindings = Append(c.bindings, [name |-> a, shadowed |-> lent.tbl[a]])
  <2>1. lent \in Checker /\ e \in VarEntry
    BY <1>8, <1>9
  <2>2. /\ r \in Checker /\ r.marks = lent.marks /\ r.depth = lent.depth /\ r.diags = lent.diags
        /\ \A m \in Names : r.tbl[m] = IF m = a THEN e ELSE lent.tbl[m]
        /\ r.bindings = Append(lent.bindings, [name |-> a, shadowed |-> lent.tbl[a]])
    BY <1>4, <2>1, RowAdded
  <2>3. c.diags = {}
    BY DEF Accepted
  <2> QED BY <1>9, <2>2, <2>3
<1>11. /\ Len(c.bindings) \in Nat /\ Len(r.bindings) = Len(c.bindings) + 1
       /\ \A i \in 1 .. Len(c.bindings) : r.bindings[i] = c.bindings[i]
       /\ r.bindings[Len(c.bindings) + 1].name = a
  BY <1>1, <1>10, BindingsLength, AppendProperties DEF Checker
<1>12. \A m \in Names \ {a} : SameRow(c, r, m) /\ (Gone(r, m) <=> Gone(c, m))
  BY <1>3, <1>6, <1>9, <1>10 DEF SameRow, Gone
<1>13. r.tbl[a] = e
  BY <1>10
<1>14. Accepted(r, ops)
  <2>1. Sourced(r, ops)
    <3>1. o # NoName
      BY NamesAssumption
    <3> QED BY <1>8, <1>12, <1>13, <3>1 DEF Accepted, Sourced, SameRow
  <2>2. \A m \in Names : Tracked(r, m) => r.tbl[m].loop_depth <= r.depth
    BY <1>1, <1>8, <1>10, <1>12, <1>13 DEF Accepted, Tracked, SameRow
  <2> QED BY <1>5, <1>10, <2>1, <2>2 DEF Accepted
<1>15. Tracked(r, a) /\ ~Gone(r, a)
  BY <1>7, <1>8, <1>13 DEF Tracked, Gone, Refs
<1>16. \A i \in 1 .. Len(r.bindings) : i > Len(c.bindings) => r.bindings[i].name = a
  BY <1>11
<1>17. Changes(c, r, {a}, {}, ops)
  BY <1>8, <1>10, <1>11, <1>12, <1>13, <1>14, <1>15, <1>16 DEF Changes
<1> QED BY <1>3, <1>7, <1>8, <1>13, <1>17

\* An accepted clone, in a program without borrows: another value, or none.
LEMMA CloneChanges ==
    ASSUME NEW ops, ~Borrows(ops), NEW c, Accepted(c, ops), NEW o \in Names, NEW a \in Names,
           ~Tracked(c, a), NEW r, r = DoClone(c, o, a), r.diags = {}
    PROVE  \/ /\ c.tbl[o].kind \in Owning /\ ~Gone(c, o) /\ Changes(c, r, {a}, {}, ops)
              /\ r.tbl[a].kind = c.tbl[o].kind
           \/ ~Tracked(c, o) /\ r = c
<1>1. c \in Checker /\ \A rule : rule \in Emit(c, rule).diags
  BY DEF Accepted, Checker, Emit
<1>2. CASE ~Tracked(c, o)
  BY <1>2 DEF DoClone
<1>3. CASE Tracked(c, o)
  <2>1. ~Gone(c, o) /\ r = AddVar(c, a, Fresh(c.tbl[o].kind, c.depth, NoName))
    BY <1>1, <1>3 DEF DoClone, Gone
  <2>2. c.tbl[o].kind \in Owning
    <3>1. c.tbl[o].kind \in OwnKind /\ c.tbl[o].kind \notin Refs
      BY <1>1, <1>3, RowFields DEF Tracked, Accepted, Sourced
    <3> QED BY <3>1 DEF OwnKind
  <2>3. Changes(c, r, {a}, {}, ops) /\ Owns(r, a, c.tbl[o].kind)
    BY <2>1, <2>2, AddChanges
  <2> QED BY <2>1, <2>2, <2>3 DEF Owns
<1> QED BY <1>2, <1>3

\* An accepted look: the value is there.
LEMMA LookChanges ==
    ASSUME NEW ops, NEW c, Accepted(c, ops), NEW n \in Names, ApplyApps(c, n, Look).diags = {}
    PROVE  /\ ApplyApps(c, n, Look) = c
           /\ c.tbl[n].kind \in Owning => ~Gone(c, n)
<1> DEFINE v == Decide(c.tbl[n].state, Look)
<1>1. c \in Checker /\ \A rule : rule \in Emit(c, rule).diags
  BY DEF Accepted, Checker, Emit
<1>2. CASE c.tbl[n].kind \in Owning
  <2>1. ApplyApps(c, n, Look) = ApplyOwned(c, n, Look)
    BY <1>2 DEF ApplyApps, Tracked, Owning, Refs
  <2>2. v # "consume" /\ ((v = "ok") <=> (c.tbl[n].state = "Unconsumed"))
    BY <1>1, RowFields, DecideLook
  <2>3. v = "ok"
    BY <1>1, <2>1, <2>2 DEF ApplyOwned
  <2> QED BY <2>1, <2>2, <2>3 DEF ApplyOwned, Gone
<1>3. CASE c.tbl[n].kind \notin Owning
  <2>1. ~(Look.consumed > 0)
    BY DEF Look, NoApps
  <2> QED BY <1>3, <2>1 DEF ApplyApps
<1> QED BY <1>2, <1>3

\* An accepted "c && f(x)" consumes nothing.
LEMMA AndChanges ==
    ASSUME NEW ops, NEW c, Accepted(c, ops), NEW n \in Names,
           Compare(ApplyApps(c, n, Move), c.tbl, ApplyApps(c, n, Move).tbl).diags = {}
    PROVE  /\ ~Tracked(c, n)
           /\ Compare(ApplyApps(c, n, Move), c.tbl, ApplyApps(c, n, Move).tbl) = c
<1> DEFINE q == ApplyApps(c, n, Move)
<1>1. c \in Checker /\ q \in Checker
  BY ApplyAppsKeeps DEF Accepted, Keeps
<1>2. q.diags = {} /\ Agree(c.tbl, q.tbl) /\ Compare(q, c.tbl, q.tbl) = q
  <2> HIDE DEF q
  <2>1. "BranchInconsistent" \in Emit(q, "BranchInconsistent").diags
    BY <1>1 DEF Emit, Checker
  <2> QED BY <2>1 DEF Compare, q
<1>3. CASE Movable(c, n) /\ Changes(c, q, {}, {n}, ops)
  <2>1. q.tbl[n].kind # "None" /\ c.tbl[n].kind # "None"
    BY <1>3 DEF Movable, Changes, SameRow, Owning
  <2>2. q.tbl[n].state = c.tbl[n].state
    BY <1>2, <2>1 DEF Agree
  <2> QED BY <1>3, <2>2 DEF Changes, Gone, Movable
<1>4. CASE ~Tracked(c, n) /\ q = c
  BY <1>2, <1>4
<1> QED BY <1>2, <1>3, <1>4, SpendChanges

\* An accepted exit leaves no unique value.
LEMMA ExitChanges ==
    ASSUME NEW ops, NEW c, Accepted(c, ops), RequireConsumed(c).diags = {}
    PROVE  Forgotten(c) = {} /\ RequireConsumed(c) = c
<1>1. c \in Checker /\ c.diags = {}
  BY DEF Accepted
<1>2. Forgotten(c) = {}
  <2>1. RequireConsumed(c).diags = c.diags \cup IF Forgotten(c) = {} THEN {} ELSE {"UniqueForget"}
    BY <1>1 DEF RequireConsumed, Checker
  <2> QED BY <2>1
<1>3. [n \in Names |-> IF n \in Forgotten(c) THEN [c.tbl[n] EXCEPT !.state = "Consumed"] ELSE c.tbl[n]] = c.tbl
  BY <1>1, <1>2 DEF Checker
<1> DEFINE t == [n \in Names |-> IF n \in Forgotten(c) THEN [c.tbl[n] EXCEPT !.state = "Consumed"] ELSE c.tbl[n]]
<1>4. RequireConsumed(c) = [c EXCEPT !.tbl = t, !.diags = @ \cup {}]
  BY <1>2 DEF RequireConsumed
<1>5. t = c.tbl /\ c.diags \cup {} = c.diags
  BY <1>3
<1> HIDE DEF t
<1> QED BY <1>1, <1>2, <1>4, <1>5 DEF Checker

\* An accepted "return n", up to the exit.
LEMMA ReturnChanges ==
    ASSUME NEW ops, NEW c, Accepted(c, ops), NEW n \in Names, ReturnArgument(c, n).diags = {}
    PROVE  \/ Movable(c, n) /\ Changes(c, ReturnArgument(c, n), {}, {n}, ops)
           \/ ~Tracked(c, n) /\ ReturnArgument(c, n) = c
<1> DEFINE told == Emit(c, "BorrowEscape")
<1>1. CASE c.tbl[n].kind \in Refs
  <2>1. told \in Checker /\ "BorrowEscape" \in told.diags
    BY EmitRests DEF Accepted, Checker, Emit, RuleKind
  <2>2. told.diags \subseteq ApplyApps(told, n, Move).diags
    <3> HIDE DEF told
    <3> QED BY <2>1, UseReports
  <2> HIDE DEF told
  <2> QED BY <1>1, <2>1, <2>2 DEF told, ReturnArgument, MoveOut
<1>2. CASE c.tbl[n].kind \notin Refs
  <2>1. ReturnArgument(c, n) = ApplyApps(c, n, Move)
    BY <1>2 DEF ReturnArgument, MoveOut
  <2> QED BY <2>1, SpendChanges
<1> QED BY <1>1, <1>2

-----------------------------------------------------------------------------
(* What a scope leaves behind.                                             *)

\* Taking the last element away again.
LEMMA FrontOfAppend ==
    ASSUME NEW S, NEW s \in Seq(S), NEW e \in S
    PROVE  /\ Append(s, e) \in Seq(S) /\ Len(Append(s, e)) = Len(s) + 1
           /\ Append(s, e)[Len(s) + 1] = e /\ SubSeq(Append(s, e), 1, Len(s)) = s
           /\ \A i \in 1 .. Len(s) : Append(s, e)[i] = s[i]
<1>1. /\ Append(s, e) \in Seq(S) /\ Len(Append(s, e)) = Len(s) + 1 /\ Len(s) \in Nat
      /\ Append(s, e)[Len(s) + 1] = e /\ \A i \in 1 .. Len(s) : Append(s, e)[i] = s[i]
  BY AppendProperties, LenProperties
<1> DEFINE f == SubSeq(Append(s, e), 1, Len(s))
<1>2. /\ f \in Seq(S) /\ Len(f) = Len(s)
      /\ \A i \in 1 .. Len(s) : f[i] = Append(s, e)[i]
  <2> HIDE DEF f
  <2>1. \A i \in 1 .. Len(s) : Append(s, e)[i] \in S
    BY <1>1, ElementOfSeq
  <2> QED BY <1>1, <2>1, SubSeqProperties DEF f
<1> HIDE DEF f
<1>3. f = s
  BY <1>1, <1>2, SeqEqual
<1> QED BY <1>1, <1>3 DEF f

\* Between a, where a scope was opened, and c, where it is still open: the
\* names in "bound" are its own, and in a loop no older value is moved out.
Inner(a, c, bound, loop) ==
    /\ c.marks = Append(a.marks, Len(a.bindings))
    /\ c.depth = a.depth + IF loop THEN 1 ELSE 0
    /\ Len(c.bindings) >= Len(a.bindings)
    /\ \A i \in 1 .. Len(a.bindings) : c.bindings[i] = a.bindings[i]
    /\ \A i \in 1 .. Len(c.bindings) : i > Len(a.bindings) => c.bindings[i].name \in bound
    /\ \A n \in Names : Tracked(a, n) =>
          /\ n \notin bound /\ SameRow(a, c, n)
          /\ a.tbl[n].loop_depth < c.depth => (Gone(c, n) <=> Gone(a, n))

\* The checker after a scope, or a loop, is opened.
Opened(a, loop) == IF loop THEN [PushScope(a) EXCEPT !.depth = @ + 1] ELSE PushScope(a)

\* The checker after the scope, or the loop, is closed.
Closed(c, loop) == IF loop THEN [PopScope(c) EXCEPT !.depth = @ - 1] ELSE PopScope(c)

\* r has the scopes and the names of a.
Resumes(a, r) ==
    /\ r.bindings = a.bindings /\ r.marks = a.marks /\ r.depth = a.depth
    /\ \A n \in Names : (Tracked(r, n) <=> Tracked(a, n)) /\ (Tracked(a, n) => SameRow(a, r, n))

\* What is left in r has in it the row and the value that it has in c, and no
\* unique value is lost.
Leaves(c, r) ==
    /\ \A n \in Names : Tracked(r, n) => SameRow(c, r, n) /\ (Gone(r, n) <=> Gone(c, n))
    /\ \A n \in Names : c.tbl[n].kind = "Unique" /\ ~Tracked(r, n) => Gone(c, n)

\* Another loop depth.
LEMMA SetDepth ==
    ASSUME NEW s \in Checker, NEW d \in Nat, NEW r, r = [s EXCEPT !.depth = d]
    PROVE  /\ r \in Checker /\ r.depth = d /\ r.tbl = s.tbl
           /\ r.bindings = s.bindings /\ r.marks = s.marks /\ r.diags = s.diags
BY DEF Checker

\* A scope that has just been opened.
LEMMA InnerOpen ==
    ASSUME NEW a \in Checker, NEW loop \in BOOLEAN, NEW c, c = Opened(a, loop)
    PROVE  /\ Inner(a, c, {}, loop) /\ c \in Checker /\ c.diags = a.diags /\ c.tbl = a.tbl
           /\ c.bindings = a.bindings /\ c.depth >= a.depth
<1> DEFINE p == PushScope(a)
<1>1. /\ p \in Checker /\ p.tbl = a.tbl /\ p.bindings = a.bindings /\ p.diags = a.diags
      /\ p.marks = Append(a.marks, Len(a.bindings)) /\ p.depth = a.depth /\ a.depth \in Nat
  BY PushScopeFrame, PushReports DEF Checker
<1>0. c = IF loop THEN [p EXCEPT !.depth = @ + 1] ELSE p
  BY DEF Opened
<1> HIDE DEF p
<1>2. /\ c \in Checker /\ c.tbl = p.tbl /\ c.bindings = p.bindings /\ c.diags = p.diags
      /\ c.marks = p.marks /\ c.depth = a.depth + IF loop THEN 1 ELSE 0
  <2>1. CASE loop
    <3>1. c = [p EXCEPT !.depth = p.depth + 1]
      BY <1>0, <2>1, Zenon
    <3>2. p.depth + 1 \in Nat
      BY <1>1
    <3>3. /\ c \in Checker /\ c.tbl = p.tbl /\ c.bindings = p.bindings /\ c.diags = p.diags
          /\ c.marks = p.marks /\ c.depth = p.depth + 1
      BY <1>1, <3>1, <3>2, SetDepth
    <3> QED BY <1>1, <2>1, <3>3
  <2>2. CASE ~loop
    BY <1>0, <1>1, <2>2
  <2> QED BY <2>1, <2>2
<1>3. Len(a.bindings) \in Nat /\ c.depth >= a.depth
  BY <1>1, <1>2, BindingsLength
<1>4. \A n \in Names : SameRow(a, c, n) /\ (Gone(c, n) <=> Gone(a, n))
  BY <1>1, <1>2 DEF SameRow, Gone
<1> QED BY <1>1, <1>2, <1>3, <1>4 DEF Inner

\* It keeps what the checker knows.
LEMMA OpenAccepted ==
    ASSUME NEW ops, NEW a, Accepted(a, ops), NEW loop \in BOOLEAN, NEW c, c = Opened(a, loop)
    PROVE  Accepted(c, ops)
<1>1. /\ c \in Checker /\ c.diags = a.diags /\ c.tbl = a.tbl /\ c.bindings = a.bindings
      /\ c.depth >= a.depth /\ a \in Checker
  BY InnerOpen DEF Accepted
<1>2. Book(c)
  BY <1>1, SameBook DEF Accepted
<1>3. c.depth \in Nat /\ a.depth \in Nat /\ \A n \in Names : a.tbl[n].loop_depth \in Nat
  BY <1>1, RowFields DEF Checker
<1> QED BY <1>1, <1>2, <1>3 DEF Accepted, Sourced, Tracked

\* An accepted scope, once it is closed.
LEMMA CloseChanges ==
    ASSUME NEW ops, NEW a, NEW c, Accepted(a, ops), Accepted(c, ops), NEW bound, NEW loop \in BOOLEAN,
           Inner(a, c, bound, loop), NEW r, r = Closed(c, loop), r.diags = {}
    PROVE  Accepted(r, ops) /\ Resumes(a, r) /\ Leaves(c, r)
<1> DEFINE q == PopScope(c)
<1>1. /\ a \in Checker /\ c \in Checker /\ Book(a) /\ Book(c)
      /\ Len(a.bindings) \in Nat /\ a.marks \in Seq(Nat) /\ Len(a.marks) \in Nat /\ a.depth \in Nat
  BY BindingsLength, LenProperties DEF Accepted, Checker
<1>2. /\ Len(c.marks) = Len(a.marks) + 1 /\ c.marks[Len(c.marks)] = Len(a.bindings)
      /\ SubSeq(c.marks, 1, Len(c.marks) - 1) = a.marks
  <2>1. c.marks = Append(a.marks, Len(a.bindings))
    BY DEF Inner
  <2>2. /\ Len(c.marks) = Len(a.marks) + 1 /\ c.marks[Len(a.marks) + 1] = Len(a.bindings)
        /\ SubSeq(c.marks, 1, Len(a.marks)) = a.marks
    BY <1>1, <2>1, FrontOfAppend
  <2> QED BY <1>1, <2>2
<1>3. Len(c.marks) > 0 /\ c.marks[Len(c.marks)] <= Len(c.bindings)
  BY <1>1, <1>2, BindingsLength DEF Inner
<1>4. /\ q \in Checker /\ Book(q) /\ Shrinks(c, q)
      /\ Len(q.bindings) = Len(a.bindings) /\ q.marks = a.marks /\ q.depth = c.depth
      /\ \A i \in 1 .. Len(q.bindings) : q.bindings[i] = c.bindings[i]
  BY <1>1, <1>2, <1>3, PopScopeFrame, PopScopeBook, PopScopeShrinks
<1> HIDE DEF q
<1>5. q.bindings = a.bindings
  <2>1. q.bindings \in Seq(ScopeBinding) /\ a.bindings \in Seq(ScopeBinding)
    BY <1>1, <1>4 DEF Checker
  <2>2. \A i \in 1 .. Len(a.bindings) : q.bindings[i] = a.bindings[i]
    BY <1>4 DEF Inner
  <2> QED BY <1>4, <2>1, <2>2, SeqEqual
<1>6. /\ r \in Checker /\ r.tbl = q.tbl /\ r.bindings = q.bindings /\ r.marks = q.marks
      /\ r.depth = a.depth /\ r.diags = q.diags
  <2>1. CASE loop
    <3>1. r = [q EXCEPT !.depth = q.depth - 1] /\ q.depth - 1 = a.depth
      BY <1>1, <1>4, <2>1 DEF Closed, q, Inner
    <3> QED BY <1>1, <1>4, <3>1, SetDepth
  <2>2. CASE ~loop
    <3>1. r = q /\ q.depth = a.depth
      BY <1>1, <1>4, <2>2 DEF Closed, q, Inner
    <3> QED BY <1>4, <3>1
  <2> QED BY <2>1, <2>2
<1>7. Book(r)
  BY <1>4, <1>6, SameBook
<1>8. \A n \in Names : Tracked(r, n) <=> Tracked(a, n)
  BY <1>1, <1>5, <1>6, <1>7 DEF Book, Linked
<1>9. \A n \in Names : Tracked(r, n) => SameRow(c, r, n) /\ (Gone(r, n) <=> Gone(c, n))
  BY <1>4, <1>6 DEF Shrinks, Tracked, SameRow, Gone
<1>10. \A n \in Names : Tracked(a, n) => SameRow(a, r, n)
  BY <1>8, <1>9 DEF Inner, SameRow
<1>11. \A n \in Names : c.tbl[n].kind = "Unique" /\ ~Tracked(r, n) => Gone(c, n)
  BY <1>4, <1>6 DEF Shrinks, Forgotten, Tracked, Gone
<1>12. Accepted(r, ops)
  <2>1. Sourced(r, ops)
    BY <1>9 DEF Accepted, Sourced, Tracked, SameRow, Refs
  <2>2. \A n \in Names : Tracked(r, n) => r.tbl[n].loop_depth <= r.depth
    BY <1>6, <1>8, <1>10 DEF Accepted, SameRow
  <2>3. r \in Checker
    BY <1>6
  <2> QED BY <1>7, <2>1, <2>2, <2>3 DEF Accepted
<1>13. Resumes(a, r)
  BY <1>4, <1>5, <1>6, <1>8, <1>10 DEF Resumes
<1>14. Leaves(c, r)
  BY <1>9, <1>11 DEF Leaves
<1> QED BY <1>12, <1>13, <1>14

\* r shows what c shows: the same rows, with their values or without.
SameView(c, r) ==
    \A n \in Names : /\ Tracked(r, n) <=> Tracked(c, n)
                     /\ Tracked(c, n) => SameRow(c, r, n) /\ (Gone(r, n) <=> Gone(c, n))

\* An older name is not new.
LEMMA OlderTracked ==
    ASSUME NEW a, NEW c, NEW bound, NEW loop, Inner(a, c, bound, loop), NEW n \in Names, Tracked(a, n)
    PROVE  Tracked(c, n) /\ SameRow(a, c, n) /\ n \notin bound
BY DEF Inner, SameRow, Tracked

\* A statement inside a scope.
LEMMA InnerRun ==
    ASSUME NEW ops, NEW a \in Checker, NEW c, NEW bound, NEW loop, Inner(a, c, bound, loop),
           Accepted(c, ops), NEW r, NEW new, NEW gone, Changes(c, r, new, gone, ops)
    PROVE  Inner(a, r, bound \cup new, loop)
<1>1. \A n \in Names : Tracked(a, n) => n \notin new /\ n \notin bound
  BY OlderTracked DEF Changes
<1>2. \A n \in Names : Tracked(a, n) => SameRow(a, r, n)
  BY <1>1, OlderTracked DEF Changes, SameRow
<1>3. \A n \in gone : c.tbl[n].loop_depth = c.depth
  BY DEF Changes, Movable
<1>4. r.depth = c.depth /\ c.depth \in Nat /\ r.marks = c.marks
  BY DEF Changes, Accepted, Checker
<1>5. ASSUME NEW n \in Names, Tracked(a, n), a.tbl[n].loop_depth < r.depth
      PROVE  Gone(r, n) <=> Gone(a, n)
  <2>1. c.tbl[n].loop_depth = a.tbl[n].loop_depth /\ (Gone(c, n) <=> Gone(a, n))
    BY <1>4, <1>5 DEF Inner, SameRow
  <2>2. n \notin gone
    BY <1>3, <1>4, <1>5, <2>1, RowFields
  <2> QED BY <1>1, <1>5, <2>1, <2>2 DEF Changes
<1>6. /\ Len(a.bindings) \in Nat /\ Len(c.bindings) \in Nat /\ Len(r.bindings) \in Nat
      /\ Len(c.bindings) >= Len(a.bindings) /\ Len(r.bindings) >= Len(c.bindings)
  BY BindingsLength DEF Accepted, Changes, Inner
<1>7. \A i \in 1 .. Len(a.bindings) : r.bindings[i] = a.bindings[i]
  BY <1>6 DEF Changes, Inner
<1>8. ASSUME NEW i \in 1 .. Len(r.bindings), i > Len(a.bindings)
      PROVE  r.bindings[i].name \in bound \cup new
  BY <1>6, <1>8 DEF Changes, Inner
<1> QED BY <1>1, <1>2, <1>4, <1>5, <1>6, <1>7, <1>8 DEF Inner

\* A construct inside a scope, opened at b, closed after c.
LEMMA InnerResume ==
    ASSUME NEW a \in Checker, NEW b \in Checker, NEW c \in Checker, NEW bound, NEW loop, Inner(a, b, bound, loop),
           NEW own, NEW inner \in BOOLEAN, Inner(b, c, own, inner),
           NEW r, Resumes(b, r), Leaves(c, r)
    PROVE  Inner(a, r, bound, loop)
<1>1. \A n \in Names : Tracked(a, n) => Tracked(b, n) /\ SameRow(a, b, n) /\ n \notin bound
  BY OlderTracked
<1>2. \A n \in Names : Tracked(a, n) => SameRow(a, r, n)
  BY <1>1 DEF Resumes, SameRow
<1>3. ASSUME NEW n \in Names, Tracked(a, n), a.tbl[n].loop_depth < r.depth
      PROVE  Gone(r, n) <=> Gone(a, n)
  <2>1. b.depth \in Nat /\ c.depth >= b.depth /\ r.depth = b.depth /\ a.tbl[n].loop_depth \in Nat
    <3>1. b.depth \in Nat /\ r.depth = b.depth /\ a.tbl[n].loop_depth \in Nat
      BY RowFields DEF Checker, Resumes
    <3>2. c.depth = b.depth + IF inner THEN 1 ELSE 0
      BY DEF Inner
    <3> QED BY <3>1, <3>2
  <2>2. Gone(b, n) <=> Gone(a, n)
    BY <1>3, <2>1 DEF Inner
  <2>3. b.tbl[n].loop_depth < c.depth
    BY <1>1, <1>3, <2>1 DEF Inner, SameRow
  <2>4. Gone(c, n) <=> Gone(b, n)
    BY <1>1, <1>3, <2>3 DEF Inner
  <2>5. Gone(r, n) <=> Gone(c, n)
    BY <1>1, <1>3 DEF Resumes, Leaves
  <2> QED BY <2>2, <2>4, <2>5
<1>4. r.bindings = b.bindings /\ r.marks = b.marks /\ r.depth = b.depth
  BY DEF Resumes
<1> QED BY <1>1, <1>2, <1>3, <1>4 DEF Inner

\* A loop leaves every value where it found it.
LEMMA LoopView ==
    ASSUME NEW ops, NEW a, NEW c, Accepted(a, ops), NEW bound, Inner(a, c, bound, TRUE),
           NEW r, Resumes(a, r), Leaves(c, r)
    PROVE  SameView(a, r)
<1>1. a.depth \in Nat /\ c.depth = a.depth + 1
  BY DEF Accepted, Checker, Inner
<1>2. \A n \in Names : Tracked(a, n) => a.tbl[n].loop_depth <= a.depth /\ a.tbl[n].loop_depth \in Nat
  BY RowFields DEF Accepted
<1>3. \A n \in Names : Tracked(a, n) => (Gone(c, n) <=> Gone(a, n))
  BY <1>1, <1>2 DEF Inner
<1> QED BY <1>3 DEF SameView, Resumes, Leaves

\* Two ways to the same place, whose tables agree.
LEMMA AgreeView ==
    ASSUME NEW a, NEW r, NEW q, Resumes(a, r), Resumes(a, q), Agree(r.tbl, q.tbl)
    PROVE  SameView(r, q)
<1>1. \A n \in Names : Tracked(r, n) => (Gone(r, n) <=> Gone(q, n))
  BY DEF Resumes, Agree, Gone, Tracked
<1> QED BY <1>1 DEF SameView, Resumes, SameRow

\* A view is of the same names.
LEMMA ResumesView == ASSUME NEW a PROVE Resumes(a, a) /\ SameView(a, a)
BY DEF Resumes, SameView, SameRow

-----------------------------------------------------------------------------
(* The walk over an accepted program: before its i-th token the checker is *)
(* cs[i] and inside the constructs rs[i], outermost first.  Before the     *)
(* first token it has opened the body; cs[0] is the checker as it is made. *)

\* An open construct: where its opening token and the one of its part are,
\* and the names its part has declared.
RoomType == [part : {"body", "block", "then", "else", "while"}, open : Nat, at : Nat,
             bound : SUBSET Names]
Room(part, open, at, bound) == [part |-> part, open |-> open, at |-> at, bound |-> bound]

Inmost(r) == r[Len(r)]
Around(r) == SubSeq(r, 1, Len(r) - 1)
Seen(r) == UNION {r[k].bound : k \in 1 .. Len(r)}

StraightWords == {"declare", "plain", "move", "borrow", "clone", "consume", "read", "and", "return",
                  "throw"}
PartOf(op) == IF op = "if" THEN "then" ELSE op

\* The name a token declares, and those it uses.
Declared(t) == IF t.op \in {"declare", "plain", "move"} THEN {t.x}
               ELSE IF t.op \in {"borrow", "clone"} THEN {t.y} ELSE {}
Used(t) == IF t.op = "move" THEN {t.y}
           ELSE IF t.op \in {"borrow", "clone", "consume", "read", "and"} THEN {t.x}
           ELSE IF t.op = "return" THEN {t.x} \ {NoName} ELSE {}

\* What a straight statement does to the checker.
Does(t, c, r, ops) ==
    /\ t.op = "declare" => t.k \in Owning /\ Changes(c, r, {t.x}, {}, ops) /\ Owns(r, t.x, t.k)
    /\ t.op = "plain" => r = c
    /\ t.op = "move" => \/ /\ Movable(c, t.y) /\ Changes(c, r, {t.x}, {t.y}, ops)
                           /\ Owns(r, t.x, c.tbl[t.y].kind)
                        \/ ~Tracked(c, t.y) /\ r = c
    /\ t.op = "borrow" => /\ Tracked(c, t.x) /\ ~Gone(c, t.x) /\ Changes(c, r, {t.y}, {}, ops)
                          /\ r.tbl[t.y].kind \in Refs /\ r.tbl[t.y].owner = t.x
    /\ t.op = "clone" => \/ /\ c.tbl[t.x].kind \in Owning /\ ~Gone(c, t.x)
                            /\ Changes(c, r, {t.y}, {}, ops) /\ Owns(r, t.y, c.tbl[t.x].kind)
                         \/ ~Tracked(c, t.x) /\ r = c
    /\ t.op = "consume" => \/ Movable(c, t.x) /\ Changes(c, r, {}, {t.x}, ops)
                           \/ ~Tracked(c, t.x) /\ r = c
    /\ t.op = "read" => r = c /\ (c.tbl[t.x].kind \in Owning => ~Gone(c, t.x))
    /\ t.op = "and" => r = c /\ ~Tracked(c, t.x)
    /\ t.op = "return" => /\ Forgotten(r) = {}
                          /\ \/ t.x # NoName /\ Movable(c, t.x) /\ Changes(c, r, {}, {t.x}, ops)
                             \/ (t.x = NoName \/ ~Tracked(c, t.x)) /\ r = c
    /\ t.op = "throw" => Forgotten(r) = {} /\ r = c

\* Each kind of token, from before token i to after it.
Straightly(cs, rs, i, t, ops) ==
    LET T == Inmost(rs[i])
    IN  /\ t.op \in StraightWords
        /\ Used(t) \subseteq Seen(rs[i]) /\ Declared(t) \subseteq Names \ Seen(rs[i])
        /\ Does(t, cs[i], cs[i + 1], ops)
        /\ rs[i + 1] = Append(Around(rs[i]), Room(T.part, T.open, T.at, T.bound \cup Declared(t)))

\* The checker after such a construct is opened, and after it is closed.
Entered(a, T) == Opened(a, T.part = "while")
Quit(c, T) == Closed(c, T.part = "while")

Opening(cs, rs, i, t) ==
    LET U == Room(PartOf(t.op), i, i, {})
    IN  /\ t.op \in {"block", "if", "while"}
        /\ cs[i + 1] = Entered(cs[i], U) /\ rs[i + 1] = Append(rs[i], U)

Elsewise(cs, rs, i, t) ==
    LET T == Inmost(rs[i])
        U == Room("else", T.open, i, {})
    IN  /\ t.op = "else" /\ T.part = "then" /\ Quit(cs[i], T).diags = {}
        /\ cs[i + 1] = Entered(cs[T.open], U) /\ rs[i + 1] = Append(Around(rs[i]), U)

Ending(cs, rs, i, t) ==
    LET T == Inmost(rs[i])
        r == Quit(cs[i], T)
    IN  /\ t.op = "end" /\ T.part # "body" /\ r.diags = {} /\ cs[i + 1].diags = {}
        /\ rs[i + 1] = Around(rs[i])
        /\ T.part # "else" => cs[i + 1] = r
        /\ T.part = "then" => Agree(r.tbl, cs[T.open].tbl)
        /\ T.part = "else" => cs[i + 1] = Quit(cs[T.at], Inmost(rs[T.at])) /\ Agree(cs[i + 1].tbl, r.tbl)

Finishing(cs, rs, i, t) ==
    LET T == Inmost(rs[i])
    IN  /\ t.op = "eof" /\ Len(rs[i]) = 1
        /\ cs[i + 1] = Quit(cs[i], T) /\ cs[i + 1].diags = {} /\ rs[i + 1] = <<>>

Follows(cs, rs, i, t, ops) ==
    /\ Len(rs[i]) > 0
    /\ \/ Straightly(cs, rs, i, t, ops) \/ Opening(cs, rs, i, t) \/ Elsewise(cs, rs, i, t)
       \/ Ending(cs, rs, i, t) \/ Finishing(cs, rs, i, t)

\* How many constructs are open before token i, and the k-th one of them.
Depth(rs, i) == Len(rs[i])
OpenOf(rs, i, k) == rs[i][k].open
AtOf(rs, i, k)   == rs[i][k].at
KindOf(rs, i, k) == rs[i][k].part

\* It is the same one since it was opened, and its part the same since that
\* began.
Lasts(rs, i, k) ==
    LET o == OpenOf(rs, i, k)
        a == AtOf(rs, i, k)
    IN  /\ o < i /\ a < i /\ o <= a
        /\ Depth(rs, o) = k - 1
        /\ \A m \in o + 1 .. i : Depth(rs, m) >= k /\ OpenOf(rs, m, k) = o
        /\ \A m \in a + 1 .. i : KindOf(rs, m, k) = KindOf(rs, i, k) /\ AtOf(rs, m, k) = a
        /\ KindOf(rs, i, k) = "else" => o < a /\ Depth(rs, a) = k /\ KindOf(rs, a, k) = "then"
        /\ KindOf(rs, i, k) # "else" => a = o

\* Inside an open construct, against the checker as it was opened.
Within(a, c, T) == Inner(a, c, T.bound, T.part = "while")

Nested(cs, rs, i) ==
    LET T == Inmost(rs[i])
    IN  rs[i] = Append(rs[T.open], T) /\ Within(cs[T.open], cs[i], T)

\* A name is declared in one open construct.
Apart(r) == \A k, l \in 1 .. Len(r) : k # l => r[k].bound \cap r[l].bound = {}

Placed(cs, rs, i, ops) ==
    /\ Accepted(cs[i], ops)
    /\ \A n \in Names : Tracked(cs[i], n) => n \in Seen(rs[i])
    /\ Apart(rs[i])
    /\ Len(rs[i]) > 0 => Nested(cs, rs, i)
    /\ \A k \in 1 .. Len(rs[i]) : Lasts(rs, i, k)

\* A checker and open constructs before every token.
Paces(cs, rs) == cs \in [Nat -> Checker] /\ rs \in [Nat -> Seq(RoomType)]

\* Between tokens o and j as many constructs are opened, and not closed, as
\* are open after them and not before.
OpenersIn(p, o, j) == {m \in o .. j : p[m].op \in R!Openers}
EndsIn(p, o, j) == {m \in o .. j : p[m].op = "end"}
Measured(rs, p) ==
    \A o, j \in 1 .. Len(p) : o <= j /\ p[j].op # "eof" =>
        Cardinality(OpenersIn(p, o, j)) - Cardinality(EndsIn(p, o, j)) = Depth(rs, j + 1) - Depth(rs, o)

\* Token c closes the construct that token i opens.
Closes(rs, p, i, c) ==
    /\ c \in i + 1 .. Len(p) /\ p[c].op = "end" /\ Depth(rs, c + 1) = Depth(rs, i)
    /\ \A m \in i + 1 .. c : Depth(rs, m) > Depth(rs, i)

\* A construct is open or closed.
Shut(rs, p) ==
    \A i \in 1 .. Len(p) : p[i].op \in R!Openers =>
        \/ \A m \in i + 1 .. Len(p) + 1 : Depth(rs, m) > Depth(rs, i)
        \/ \E c : Closes(rs, p, i, c)

\* The whole walk, over the program p.
Walk(cs, rs, p, ops) ==
    /\ Paces(cs, rs)
    /\ cs[0] = Empty /\ rs[0] = <<>>
    /\ cs[1] = PushScope(Empty) /\ rs[1] = <<Room("body", 0, 0, {})>>
    /\ \A i \in 1 .. Len(p) : Follows(cs, rs, i, p[i], ops)
    /\ \A i \in 0 .. Len(p) + 1 : Placed(cs, rs, i, ops)
    /\ Measured(rs, p) /\ Shut(rs, p)

\* A straight statement runs on with the names it declares.
LEMMA DoesChanges ==
    ASSUME NEW ops, NEW c, Accepted(c, ops), NEW t, t.op \in StraightWords, NEW r, Does(t, c, r, ops)
    PROVE  \E new, gone : new \subseteq Declared(t) /\ Changes(c, r, new, gone, ops)
<1>1. CASE r = c
  <2>1. Changes(c, r, {}, {}, ops)
    BY <1>1, Unchanged
  <2> QED BY <2>1
<1>2. CASE \E new, gone : new \subseteq Declared(t) /\ Changes(c, r, new, gone, ops)
  BY <1>2
<1>3. t.op \in {"declare", "move", "borrow", "clone"} =>
        r = c \/ \E new, gone : new \subseteq Declared(t) /\ Changes(c, r, new, gone, ops)
  BY DEF Does, Declared
<1>4. t.op \notin {"declare", "move", "borrow", "clone"} =>
        r = c \/ \E gone : Changes(c, r, {}, gone, ops)
  BY DEF Does, StraightWords
<1> QED BY <1>1, <1>3, <1>4

\* The innermost of the open constructs, and those around it.
LEMMA TopRoom ==
    ASSUME NEW r \in Seq(RoomType), Len(r) > 0
    PROVE  /\ Len(r) \in Nat /\ Inmost(r) \in RoomType
           /\ Around(r) \in Seq(RoomType) /\ Len(Around(r)) = Len(r) - 1
           /\ \A k \in 1 .. Len(r) - 1 : Around(r)[k] = r[k]
           /\ r = Append(Around(r), Inmost(r))
<1>1. Len(r) \in Nat /\ Len(r) \in 1 .. Len(r)
  BY LenProperties
<1>2. Inmost(r) \in RoomType
  BY <1>1, ElementOfSeq DEF Inmost
<1>3. \A k \in 1 .. Len(r) - 1 : r[k] \in RoomType
  BY <1>1, ElementOfSeq
<1>4. /\ Around(r) \in Seq(RoomType) /\ Len(Around(r)) = Len(r) - 1
      /\ \A k \in 1 .. Len(r) - 1 : Around(r)[k] = r[k]
  <2> DEFINE n == Len(r) - 1
  <2>1. n \in Nat /\ \A k \in 1 .. n : r[k] \in RoomType
    BY <1>1, <1>3
  <2>2. SubSeq(r, 1, n) \in Seq(RoomType)
    BY <2>1, SubSeqProperties
  <2>3. Len(SubSeq(r, 1, n)) = n /\ \A k \in 1 .. n : SubSeq(r, 1, n)[k] = r[k]
    BY <1>1
  <2> QED BY <2>2, <2>3 DEF Around
<1> DEFINE q == Append(Around(r), Inmost(r))
<1>5. /\ q \in Seq(RoomType) /\ Len(q) = Len(r) /\ q[Len(r)] = r[Len(r)]
      /\ \A k \in 1 .. Len(r) - 1 : q[k] = Around(r)[k]
  BY <1>1, <1>2, <1>4, AppendProperties DEF Inmost
<1>6. \A k \in 1 .. Len(r) : q[k] = r[k]
  BY <1>1, <1>4, <1>5
<1> HIDE DEF q
<1>7. q = r
  BY <1>5, <1>6, SeqEqual
<1> QED BY <1>1, <1>2, <1>4, <1>7 DEF q

\* q is r with one more open construct, T.
Builds(r, T, q) ==
    /\ q \in Seq(RoomType) /\ Len(r) \in Nat /\ Len(q) = Len(r) + 1
    /\ q[Len(r) + 1] = T /\ Inmost(q) = T /\ Around(q) = r
    /\ \A k \in 1 .. Len(r) : q[k] = r[k]

\* One more open construct.
LEMMA RoomAdded ==
    ASSUME NEW r \in Seq(RoomType), NEW T \in RoomType, NEW q, q = Append(r, T)
    PROVE  Builds(r, T, q)
<1>1. /\ q \in Seq(RoomType) /\ Len(r) \in Nat /\ Len(q) = Len(r) + 1
      /\ q[Len(r) + 1] = T /\ SubSeq(q, 1, Len(r)) = r
      /\ \A k \in 1 .. Len(r) : q[k] = r[k]
  BY FrontOfAppend, LenProperties
<1>2. Inmost(q) = T /\ Around(q) = r
  BY <1>1 DEF Inmost, Around
<1> QED BY <1>1, <1>2 DEF Builds

\* Its names are seen with the others.
LEMMA SeenAdded ==
    ASSUME NEW r \in Seq(RoomType), NEW T \in RoomType, NEW q, q = Append(r, T)
    PROVE  Seen(q) = Seen(r) \cup T.bound
<1>1. /\ Len(r) \in Nat /\ Len(q) = Len(r) + 1
      /\ q[Len(r) + 1] = T /\ \A k \in 1 .. Len(r) : q[k] = r[k]
  BY RoomAdded DEF Builds
<1>2. ASSUME NEW n PROVE n \in Seen(q) <=> n \in Seen(r) \/ n \in T.bound
  <2>1. n \in Seen(q) <=> \E k \in 1 .. Len(q) : n \in q[k].bound
    BY DEF Seen
  <2>2. n \in Seen(r) <=> \E k \in 1 .. Len(r) : n \in r[k].bound
    BY DEF Seen
  <2>3. 1 .. Len(q) = (1 .. Len(r)) \cup {Len(r) + 1}
    BY <1>1
  <2> QED BY <1>1, <2>1, <2>2, <2>3
<1> QED BY <1>2

\* The fields of a room.
LEMMA RoomFields ==
    ASSUME NEW part \in {"body", "block", "then", "else", "while"}, NEW open \in Nat, NEW at \in Nat,
           NEW bound \in SUBSET Names
    PROVE  /\ Room(part, open, at, bound) \in RoomType
           /\ Room(part, open, at, bound).part = part /\ Room(part, open, at, bound).open = open
           /\ Room(part, open, at, bound).at = at /\ Room(part, open, at, bound).bound = bound
BY DEF Room, RoomType

\* What is known before a token.
LEMMA PaceAt ==
    ASSUME NEW cs, NEW rs, Paces(cs, rs), NEW i \in Nat
    PROVE  cs[i] \in Checker /\ rs[i] \in Seq(RoomType)
BY DEF Paces

\* What is known of the k-th open construct.
LEMMA RoomAt ==
    ASSUME NEW cs, NEW rs, Paces(cs, rs), NEW i \in Nat
    PROVE  /\ Depth(rs, i) \in Nat
           /\ \A k \in 1 .. Depth(rs, i) :
                 /\ rs[i][k] \in RoomType
                 /\ OpenOf(rs, i, k) \in Nat /\ AtOf(rs, i, k) \in Nat
                 /\ KindOf(rs, i, k) \in {"body", "block", "then", "else", "while"}
<1>1. rs[i] \in Seq(RoomType)
  BY PaceAt
<1>2. Depth(rs, i) \in Nat
  BY <1>1, LenProperties DEF Depth
<1>3. \A k \in 1 .. Depth(rs, i) : rs[i][k] \in RoomType
  BY <1>1, ElementOfSeq DEF Depth
<1>4. \A T \in RoomType : T.open \in Nat /\ T.at \in Nat /\ T.part \in {"body", "block", "then", "else", "while"}
  BY DEF RoomType
<1> QED BY <1>2, <1>3, <1>4 DEF OpenOf, AtOf, KindOf

\* The program goes on inside the k-th open construct.
LEMMA LastsOn ==
    ASSUME NEW cs, NEW rs, Paces(cs, rs), NEW i \in Nat, NEW k \in 1 .. Depth(rs, i), Lasts(rs, i, k),
           Depth(rs, i + 1) >= k, OpenOf(rs, i + 1, k) = OpenOf(rs, i, k),
           AtOf(rs, i + 1, k) = AtOf(rs, i, k), KindOf(rs, i + 1, k) = KindOf(rs, i, k)
    PROVE  Lasts(rs, i + 1, k)
<1>1. OpenOf(rs, i, k) \in Nat /\ AtOf(rs, i, k) \in Nat
  BY RoomAt
<1> DEFINE o == OpenOf(rs, i, k)
           a == AtOf(rs, i, k)
           b == KindOf(rs, i, k)
<1>2. \A x \in Nat : \A m \in x + 1 .. i + 1 : m \in x + 1 .. i \/ m = i + 1
  OBVIOUS
<1>3. /\ o < i /\ a < i /\ o <= a
      /\ Depth(rs, o) = k - 1
      /\ \A m \in o + 1 .. i : Depth(rs, m) >= k /\ OpenOf(rs, m, k) = o
      /\ \A m \in a + 1 .. i : KindOf(rs, m, k) = b /\ AtOf(rs, m, k) = a
      /\ b = "else" => o < a /\ Depth(rs, a) = k /\ KindOf(rs, a, k) = "then"
      /\ b # "else" => a = o
  BY DEF Lasts
<1>4. OpenOf(rs, i + 1, k) = o /\ AtOf(rs, i + 1, k) = a /\ KindOf(rs, i + 1, k) = b
  OBVIOUS
<1>5. o \in Nat /\ a \in Nat
  BY <1>1
<1> HIDE DEF o, a, b
<1>6. \A m \in o + 1 .. i + 1 : Depth(rs, m) >= k /\ OpenOf(rs, m, k) = o
  BY <1>2, <1>3, <1>4, <1>5
<1>7. \A m \in a + 1 .. i + 1 : KindOf(rs, m, k) = b /\ AtOf(rs, m, k) = a
  BY <1>2, <1>3, <1>4, <1>5
<1>8. o < i + 1 /\ a < i + 1
  BY <1>3, <1>5
<1> QED BY <1>3, <1>4, <1>6, <1>7, <1>8 DEF Lasts

\* It is opened by token i.
LEMMA LastsNew ==
    ASSUME NEW rs, NEW i \in Nat, NEW k \in Nat, Depth(rs, i) = k - 1,
           Depth(rs, i + 1) = k, OpenOf(rs, i + 1, k) = i, AtOf(rs, i + 1, k) = i,
           KindOf(rs, i + 1, k) # "else"
    PROVE  Lasts(rs, i + 1, k)
<1>1. \A m \in i + 1 .. i + 1 : m = i + 1
  OBVIOUS
<1> QED BY <1>1 DEF Lasts

\* Its second branch begins with token i.
LEMMA LastsElse ==
    ASSUME NEW cs, NEW rs, Paces(cs, rs), NEW i \in Nat, NEW k \in 1 .. Depth(rs, i), Lasts(rs, i, k),
           Depth(rs, i) = k, Depth(rs, i + 1) = k, KindOf(rs, i, k) = "then",
           OpenOf(rs, i + 1, k) = OpenOf(rs, i, k), AtOf(rs, i + 1, k) = i, KindOf(rs, i + 1, k) = "else"
    PROVE  Lasts(rs, i + 1, k)
<1>1. OpenOf(rs, i, k) \in Nat
  BY RoomAt
<1>2. \A o \in Nat : \A m \in o + 1 .. i + 1 : m \in o + 1 .. i \/ m = i + 1
  OBVIOUS
<1> DEFINE o == OpenOf(rs, i, k)
<1>3. /\ o < i /\ Depth(rs, o) = k - 1
      /\ \A m \in o + 1 .. i : Depth(rs, m) >= k /\ OpenOf(rs, m, k) = o
  BY DEF Lasts
<1>4. OpenOf(rs, i + 1, k) = o
  OBVIOUS
<1>5. o \in Nat /\ Depth(rs, i + 1) >= k
  BY <1>1
<1> HIDE DEF o
<1>6. \A m \in o + 1 .. i + 1 : Depth(rs, m) >= k /\ OpenOf(rs, m, k) = o
  BY <1>2, <1>3, <1>4, <1>5
<1>7. \A m \in i + 1 .. i + 1 : m = i + 1
  OBVIOUS
<1>8. o < i + 1 /\ i < i + 1 /\ o <= i
  BY <1>3, <1>5
<1> QED BY <1>3, <1>4, <1>6, <1>7, <1>8 DEF Lasts

\* The outer constructs stay open.
LEMMA LevelsOn ==
    ASSUME NEW cs, NEW rs, Paces(cs, rs), NEW i \in Nat, NEW d \in Nat,
           d <= Depth(rs, i), d <= Depth(rs, i + 1), \A k \in 1 .. d : rs[i + 1][k] = rs[i][k],
           \A k \in 1 .. Depth(rs, i) : Lasts(rs, i, k)
    PROVE  \A k \in 1 .. d : Lasts(rs, i + 1, k)
<1> SUFFICES ASSUME NEW k \in 1 .. d PROVE Lasts(rs, i + 1, k)
  OBVIOUS
<1>1. Depth(rs, i) \in Nat /\ Depth(rs, i + 1) \in Nat
  <2>1. \A m \in Nat : Depth(rs, m) \in Nat
    BY RoomAt
  <2>2. i + 1 \in Nat
    OBVIOUS
  <2> QED BY <2>1, <2>2
<1> DEFINE x == Depth(rs, i)
           y == Depth(rs, i + 1)
<1>2. k \in 1 .. Depth(rs, i) /\ Depth(rs, i + 1) >= k
  <2>1. x \in Nat /\ y \in Nat /\ d <= x /\ d <= y
    BY <1>1
  <2> HIDE DEF x, y
  <2>2. k \in 1 .. x /\ y >= k
    BY <2>1
  <2> QED BY <2>2 DEF x, y
<1>3. /\ OpenOf(rs, i + 1, k) = OpenOf(rs, i, k) /\ AtOf(rs, i + 1, k) = AtOf(rs, i, k)
      /\ KindOf(rs, i + 1, k) = KindOf(rs, i, k)
  <2>1. rs[i + 1][k] = rs[i][k]
    OBVIOUS
  <2> QED BY <2>1, Zenon DEF OpenOf, AtOf, KindOf
<1> QED BY <1>2, <1>3, LastsOn

\* A further construct declares other names.
LEMMA ApartAdded ==
    ASSUME NEW r \in Seq(RoomType), NEW T \in RoomType
    PROVE  Apart(Append(r, T)) <=> Apart(r) /\ T.bound \cap Seen(r) = {}
<1> DEFINE q == Append(r, T)
<1>1. /\ Len(r) \in Nat /\ Len(q) = Len(r) + 1 /\ q[Len(r) + 1] = T
      /\ \A k \in 1 .. Len(r) : q[k] = r[k]
  BY RoomAdded DEF Builds
<1> HIDE DEF q
<1>2. T.bound \cap Seen(r) = {} <=> \A k \in 1 .. Len(r) : T.bound \cap r[k].bound = {}
  BY DEF Seen
<1>3. \A k \in 1 .. Len(q) : k \in 1 .. Len(r) \/ k = Len(r) + 1
  BY <1>1
<1>4. ASSUME Apart(q) PROVE Apart(r) /\ \A k \in 1 .. Len(r) : T.bound \cap r[k].bound = {}
  <2>1. \A k \in 1 .. Len(r) : k \in 1 .. Len(q) /\ Len(r) + 1 \in 1 .. Len(q) /\ k # Len(r) + 1
    BY <1>1
  <2> QED BY <1>1, <1>4, <2>1 DEF Apart
<1>5. ASSUME Apart(r), \A k \in 1 .. Len(r) : T.bound \cap r[k].bound = {} PROVE Apart(q)
  BY <1>1, <1>3, <1>5 DEF Apart
<1> QED BY <1>2, <1>4, <1>5 DEF q

\* A scope may have more names of its own, if they are new.
LEMMA InnerMore ==
    ASSUME NEW a, NEW c, NEW bound, NEW loop, Inner(a, c, bound, loop), NEW more, bound \subseteq more,
           \A n \in more \ bound : ~Tracked(a, n)
    PROVE  Inner(a, c, more, loop)
BY DEF Inner

\* T is the innermost of the d constructs open before token i.
Tops(cs, rs, i, T, d) ==
    /\ T \in RoomType /\ d \in Nat /\ d > 0 /\ T = rs[i][d]
    /\ T.open = OpenOf(rs, i, d) /\ T.at = AtOf(rs, i, d) /\ T.part = KindOf(rs, i, d)
    /\ T.open \in 0 .. i - 1 /\ T.at \in T.open .. i - 1
    /\ Lasts(rs, i, d) /\ Depth(rs, T.open) = d - 1
    /\ Around(rs[i]) = rs[T.open] /\ rs[i] = Append(rs[T.open], T)
    /\ Within(cs[T.open], cs[i], T)
    /\ T.part # "else" => T.at = T.open

\* What is known of it.
LEMMA TopOf ==
    ASSUME NEW ops, NEW cs, NEW rs, Paces(cs, rs), NEW i \in Nat,
           Placed(cs, rs, i, ops), Len(rs[i]) > 0, NEW T, T = Inmost(rs[i])
    PROVE  Tops(cs, rs, i, T, Depth(rs, i))
<1> DEFINE d == Depth(rs, i)
<1>1. d \in Nat /\ d > 0 /\ d \in 1 .. d /\ T = rs[i][d] /\ rs[i] \in Seq(RoomType) /\ T \in RoomType
  <2>1. rs[i] \in Seq(RoomType)
    BY PaceAt
  <2>2. d \in Nat /\ d > 0 /\ T \in RoomType
    BY <2>1, TopRoom DEF Depth
  <2>3. T = rs[i][d]
    BY Zenon DEF Inmost, Depth
  <2>4. d \in 1 .. d
    <3> HIDE DEF d
    <3> QED BY <2>2
  <2> QED BY <2>1, <2>2, <2>3, <2>4
<1>2. T.open = OpenOf(rs, i, d) /\ T.at = AtOf(rs, i, d) /\ T.part = KindOf(rs, i, d)
  BY <1>1, Zenon DEF OpenOf, AtOf, KindOf
<1>3. T.open \in Nat /\ T.at \in Nat
  BY <1>1 DEF RoomType
<1>4. Lasts(rs, i, d) /\ Nested(cs, rs, i)
  BY <1>1 DEF Placed, Depth
<1>5. rs[i] = Append(rs[T.open], T) /\ Within(cs[T.open], cs[i], T)
  BY <1>4 DEF Nested
<1>6. Around(rs[i]) = rs[T.open]
  <2> DEFINE q == rs[T.open]
  <2>1. q \in Seq(RoomType)
    BY <1>3, PaceAt
  <2>2. rs[i] = Append(q, T)
    BY <1>5
  <2> HIDE DEF q
  <2>3. Around(rs[i]) = q
    BY <1>1, <2>1, <2>2, RoomAdded DEF Builds
  <2> QED BY <2>3 DEF q
<1>7. T.open < i /\ T.at < i /\ T.open <= T.at /\ Depth(rs, T.open) = d - 1
      /\ (T.part # "else" => T.at = T.open)
  BY <1>2, <1>4 DEF Lasts
<1>8. T.open \in 0 .. i - 1 /\ T.at \in T.open .. i - 1
  <2>1. \A x \in Nat, y \in Nat : x < i /\ y < i /\ x <= y => x \in 0 .. i - 1 /\ y \in x .. i - 1
    OBVIOUS
  <2> QED BY <1>3, <1>7, <2>1
<1> QED BY <1>1, <1>2, <1>4, <1>5, <1>6, <1>7, <1>8 DEF Tops

\* After a straight statement.
LEMMA PlacedStraight ==
    ASSUME NEW ops, NEW cs, NEW rs, Paces(cs, rs), NEW i \in Nat,
           NEW t, \A m \in 0 .. i : Placed(cs, rs, m, ops), Len(rs[i]) > 0, Straightly(cs, rs, i, t, ops)
    PROVE  Placed(cs, rs, i + 1, ops)
<1>0. Placed(cs, rs, i, ops)
  OBVIOUS
<1>1. PICK T, d : T = Inmost(rs[i]) /\ d = Depth(rs, i)
  OBVIOUS
<1>2. PICK o, q, c, r : o = T.open /\ q = rs[o] /\ c = cs[i] /\ r = cs[i + 1]
  OBVIOUS
<1>3. PICK a, bound : a = cs[o] /\ bound = T.bound \cup Declared(t)
  OBVIOUS
<1>4. PICK U : U = Room(T.part, T.open, T.at, bound)
  OBVIOUS
<1>5. /\ T \in RoomType /\ d \in Nat /\ d > 0 /\ T = rs[i][d]
      /\ T.open = OpenOf(rs, i, d) /\ T.at = AtOf(rs, i, d) /\ T.part = KindOf(rs, i, d)
      /\ o \in 0 .. i - 1 /\ Depth(rs, o) = d - 1 /\ Lasts(rs, i, d)
      /\ Around(rs[i]) = q /\ rs[i] = Append(q, T)
      /\ Within(a, c, T)
  <2>1. Tops(cs, rs, i, T, d)
    BY <1>0, <1>1, TopOf
  <2> QED BY <1>2, <1>3, <2>1 DEF Tops
<1>6. T.part \in {"body", "block", "then", "else", "while"} /\ T.open \in Nat /\ T.at \in Nat
      /\ T.bound \in SUBSET Names
  BY <1>5 DEF RoomType
<1>7. /\ t.op \in StraightWords /\ Does(t, c, r, ops)
      /\ Declared(t) \subseteq Names \ Seen(rs[i]) /\ rs[i + 1] = Append(q, U)
  BY <1>1, <1>2, <1>3, <1>4, <1>5 DEF Straightly
<1>8. U \in RoomType /\ U.part = T.part /\ U.open = o /\ U.at = T.at /\ U.bound = bound
  <2>1. bound \in SUBSET Names
    BY <1>3, <1>6, <1>7
  <2>2. T.open \in Nat /\ T.at \in Nat /\ T.part \in {"body", "block", "then", "else", "while"}
    BY <1>6
  <2> QED BY <1>2, <1>4, <2>1, <2>2, RoomFields
<1>9. q \in Seq(RoomType) /\ a \in Checker /\ Placed(cs, rs, o, ops) /\ Len(q) = d - 1
  BY <1>2, <1>3, <1>5, PaceAt DEF Depth
<1>10. /\ Depth(rs, i + 1) = d /\ rs[i + 1][d] = U /\ Inmost(rs[i + 1]) = U
       /\ \A k \in 1 .. d - 1 : rs[i + 1][k] = q[k] /\ rs[i][k] = q[k]
       /\ Seen(rs[i + 1]) = Seen(q) \cup bound /\ Seen(rs[i]) = Seen(q) \cup T.bound
  <2>1. PICK x, y : x = rs[i] /\ y = rs[i + 1]
    OBVIOUS
  <2>2. y = Append(q, U) /\ x = Append(q, T) /\ q \in Seq(RoomType) /\ T \in RoomType /\ U \in RoomType
    BY <1>5, <1>7, <1>8, <1>9, <2>1
  <2>3. /\ Len(y) = Len(q) + 1 /\ y[Len(q) + 1] = U /\ Inmost(y) = U
        /\ \A k \in 1 .. Len(q) : y[k] = q[k]
    <3>1. Builds(q, U, y)
      BY <2>2, RoomAdded
    <3> QED BY <3>1 DEF Builds
  <2>4. \A k \in 1 .. Len(q) : x[k] = q[k]
    <3>1. Builds(q, T, x)
      BY <2>2, RoomAdded
    <3> QED BY <3>1 DEF Builds
  <2>6. Seen(y) = Seen(q) \cup U.bound /\ Seen(x) = Seen(q) \cup T.bound
    BY <2>2, SeenAdded
  <2>5. Len(q) + 1 = d
    BY <1>5, <1>9
  <2> QED BY <1>8, <1>9, <2>1, <2>3, <2>4, <2>5, <2>6 DEF Depth
<1>11. PICK new, gone : new \subseteq Declared(t) /\ Changes(c, r, new, gone, ops)
  BY <1>0, <1>2, <1>7, DoesChanges DEF Placed
<1>12. Accepted(r, ops)
  BY <1>11 DEF Changes
<1>13. \A n \in Names : Tracked(r, n) => n \in Seen(rs[i + 1])
  <2>1. \A n \in Names : Tracked(r, n) => n \in new \/ Tracked(c, n)
    BY <1>11 DEF Changes, SameRow, Tracked
  <2>2. \A n \in Names : Tracked(c, n) => n \in Seen(rs[i])
    BY <1>0, <1>2 DEF Placed
  <2> QED BY <1>3, <1>10, <1>11, <2>1, <2>2
<1>14. Apart(rs[i + 1])
  <2>1. Apart(q) /\ T.bound \cap Seen(q) = {}
    <3>1. Apart(rs[i])
      BY <1>0 DEF Placed
    <3> QED BY <1>5, <1>9, <3>1, ApartAdded
  <2>2. bound \cap Seen(q) = {}
    BY <1>3, <1>7, <1>10, <2>1
  <2> QED BY <1>7, <1>8, <1>9, <2>1, <2>2, ApartAdded
<1>15. Nested(cs, rs, i + 1)
  <2> DEFINE loop == T.part = "while"
  <2>1. Inner(a, c, bound, loop)
    <3>1. \A n \in bound \ T.bound : ~Tracked(a, n)
      <4>1. \A n \in Names : Tracked(a, n) => n \in Seen(q)
        BY <1>2, <1>3, <1>9 DEF Placed
      <4>2. \A n \in Declared(t) : n \in Names /\ n \notin Seen(q)
        BY <1>7, <1>10
      <4> QED BY <1>3, <4>1, <4>2
    <3>2. Inner(a, c, T.bound, loop)
      BY <1>5 DEF Within
    <3> HIDE DEF loop
    <3> QED BY <1>3, <3>1, <3>2, InnerMore
  <2>2. Inner(a, r, bound \cup new, loop)
    <3>1. Accepted(c, ops)
      BY <1>0, <1>2 DEF Placed
    <3> HIDE DEF loop
    <3> QED BY <1>9, <1>11, <2>1, <3>1, InnerRun
  <2>3. bound \cup new = bound
    BY <1>3, <1>11
  <2>4. Within(cs[U.open], cs[i + 1], U)
    BY <1>2, <1>3, <1>8, <2>2, <2>3 DEF Within
  <2>5. rs[i + 1] = Append(rs[U.open], U)
    BY <1>2, <1>7, <1>8
  <2> QED BY <1>10, <2>4, <2>5 DEF Nested
<1>16. \A k \in 1 .. Depth(rs, i + 1) : Lasts(rs, i + 1, k)
  <2>1. \A k \in 1 .. Depth(rs, i) : Lasts(rs, i, k)
    BY <1>0 DEF Placed, Depth
  <2>2. \A k \in 1 .. d - 1 : Lasts(rs, i + 1, k)
    <3>1. d - 1 \in Nat /\ d - 1 <= Depth(rs, i) /\ d - 1 <= Depth(rs, i + 1)
      BY <1>1, <1>5, <1>10
    <3> QED BY <1>10, <2>1, <3>1, LevelsOn
  <2>3. Lasts(rs, i + 1, d)
    <3>1. OpenOf(rs, i + 1, d) = OpenOf(rs, i, d) /\ AtOf(rs, i + 1, d) = AtOf(rs, i, d)
          /\ KindOf(rs, i + 1, d) = KindOf(rs, i, d)
      BY <1>2, <1>5, <1>8, <1>10 DEF OpenOf, AtOf, KindOf
    <3>2. d \in 1 .. Depth(rs, i) /\ Depth(rs, i + 1) >= d
      BY <1>1, <1>5, <1>10
    <3> QED BY <1>5, <3>1, <3>2, LastsOn
  <2>4. \A k \in 1 .. d : k \in 1 .. d - 1 \/ k = d
    BY <1>5
  <2> QED BY <1>10, <2>2, <2>3, <2>4
<1> QED BY <1>2, <1>12, <1>13, <1>14, <1>15, <1>16 DEF Placed, Depth

\* A construct that has just been opened.
LEMMA EnteredWithin ==
    ASSUME NEW ops, NEW a, Accepted(a, ops), NEW T \in RoomType, T.bound = {}, NEW c, c = Entered(a, T)
    PROVE  Accepted(c, ops) /\ Within(a, c, T) /\ c.tbl = a.tbl
<1>0. a \in Checker
  BY DEF Accepted
<1>1. CASE T.part = "while"
  <2>1. c = Opened(a, TRUE)
    BY <1>1 DEF Entered
  <2>2. Inner(a, c, {}, TRUE) /\ c.tbl = a.tbl
    BY <1>0, <2>1, InnerOpen
  <2>3. Accepted(c, ops)
    BY <2>1, OpenAccepted
  <2>4. Within(a, c, T)
    BY <1>1, <2>2 DEF Within
  <2> QED BY <2>2, <2>3, <2>4
<1>2. CASE T.part # "while"
  <2>1. c = Opened(a, FALSE)
    BY <1>2 DEF Entered
  <2>2. Inner(a, c, {}, FALSE) /\ c.tbl = a.tbl
    BY <1>0, <2>1, InnerOpen
  <2>3. Accepted(c, ops)
    BY <2>1, OpenAccepted
  <2>4. Within(a, c, T)
    BY <1>2, <2>2 DEF Within
  <2> QED BY <2>2, <2>3, <2>4
<1> QED BY <1>1, <1>2

\* One that is closed.
LEMMA QuitChanges ==
    ASSUME NEW ops, NEW a, NEW c, Accepted(a, ops), Accepted(c, ops), NEW T, Within(a, c, T),
           NEW r, r = Quit(c, T), r.diags = {}
    PROVE  Accepted(r, ops) /\ Resumes(a, r) /\ Leaves(c, r)
<1>1. CASE T.part = "while"
  <2>1. r = Closed(c, TRUE) /\ Inner(a, c, T.bound, TRUE)
    BY <1>1 DEF Quit, Within
  <2> QED BY <2>1, CloseChanges
<1>2. CASE T.part # "while"
  <2>1. r = Closed(c, FALSE) /\ Inner(a, c, T.bound, FALSE)
    BY <1>2 DEF Quit, Within
  <2> QED BY <2>1, CloseChanges
<1> QED BY <1>1, <1>2

\* The construct U is opened between tokens i and i + 1.
Opens(cs, rs, i, U) ==
    /\ U \in RoomType /\ U.part # "else" /\ U.open = i /\ U.at = i /\ U.bound = {}
    /\ cs[i + 1] = Entered(cs[i], U) /\ rs[i + 1] = Append(rs[i], U)

\* The token that opens it.
LEMMA OpeningOpens ==
    ASSUME NEW cs, NEW rs, NEW i \in Nat, NEW t, Opening(cs, rs, i, t)
    PROVE  Opens(cs, rs, i, Room(PartOf(t.op), i, i, {}))
<1>1. PICK U : U = Room(PartOf(t.op), i, i, {})
  OBVIOUS
<1>2. cs[i + 1] = Entered(cs[i], U) /\ rs[i + 1] = Append(rs[i], U) /\ t.op \in {"block", "if", "while"}
  BY <1>1 DEF Opening
<1>3. U \in RoomType /\ U.part # "else" /\ U.open = i /\ U.at = i /\ U.bound = {}
  <2>1. PartOf(t.op) \in {"block", "then", "while"}
    BY <1>2 DEF PartOf
  <2> QED BY <1>1, <2>1, RoomFields
<1> QED BY <1>1, <1>2, <1>3 DEF Opens

\* After a construct is opened.
LEMMA PlacedOpen ==
    ASSUME NEW ops, NEW cs, NEW rs, Paces(cs, rs), NEW i \in Nat,
           NEW U, Placed(cs, rs, i, ops), Opens(cs, rs, i, U)
    PROVE  Placed(cs, rs, i + 1, ops)
<1>1. PICK a, c, q, y, d : a = cs[i] /\ c = cs[i + 1] /\ q = rs[i] /\ y = rs[i + 1] /\ d = Depth(rs, i)
  OBVIOUS
<1>3. c = Entered(a, U) /\ y = Append(q, U)
  BY <1>1 DEF Opens
<1>4. U \in RoomType /\ U.part # "else" /\ U.open = i /\ U.at = i /\ U.bound = {}
  BY DEF Opens
<1>5. q \in Seq(RoomType) /\ Accepted(a, ops) /\ Apart(q) /\ d = Len(q) /\ d \in Nat
  BY <1>1, PaceAt, LenProperties DEF Placed, Depth
<1>6. Builds(q, U, y)
  BY <1>3, <1>4, <1>5, RoomAdded
<1>7. /\ Len(y) = d + 1 /\ y[d + 1] = U /\ Inmost(y) = U /\ \A k \in 1 .. d : y[k] = q[k]
  BY <1>5, <1>6 DEF Builds
<1>8. Accepted(c, ops) /\ Within(a, c, U) /\ c.tbl = a.tbl
  BY <1>3, <1>4, <1>5, EnteredWithin
<1>9. \A n \in Names : Tracked(c, n) => n \in Seen(y)
  <2>1. Seen(y) = Seen(q) \cup U.bound
    BY <1>3, <1>4, <1>5, SeenAdded
  <2>2. \A n \in Names : Tracked(c, n) => Tracked(a, n)
    BY <1>8 DEF Tracked
  <2> QED BY <1>1, <2>1, <2>2 DEF Placed
<1>10. Apart(y)
  BY <1>3, <1>4, <1>5, ApartAdded
<1>11. Nested(cs, rs, i + 1)
  BY <1>1, <1>3, <1>4, <1>7, <1>8 DEF Nested
<1>12. \A k \in 1 .. d + 1 : Lasts(rs, i + 1, k)
  <2>1. \A k \in 1 .. Depth(rs, i) : Lasts(rs, i, k)
    BY DEF Placed, Depth
  <2>2. Depth(rs, i + 1) = d + 1
    BY <1>1, <1>7 DEF Depth
  <2>3. \A k \in 1 .. d : Lasts(rs, i + 1, k)
    <3>1. d <= Depth(rs, i) /\ d <= Depth(rs, i + 1)
      BY <1>1, <1>5, <2>2
    <3>2. \A k \in 1 .. d : rs[i + 1][k] = rs[i][k]
      BY <1>1, <1>7
    <3> QED BY <1>5, <2>1, <3>1, <3>2, LevelsOn
  <2>4. Lasts(rs, i + 1, d + 1)
    <3>1. /\ OpenOf(rs, i + 1, d + 1) = i /\ AtOf(rs, i + 1, d + 1) = i
          /\ KindOf(rs, i + 1, d + 1) # "else"
      BY <1>1, <1>4, <1>7 DEF OpenOf, AtOf, KindOf
    <3>2. Depth(rs, i) = (d + 1) - 1 /\ d + 1 \in Nat
      BY <1>1, <1>5
    <3> QED BY <2>2, <3>1, <3>2, LastsNew
  <2>5. \A k \in 1 .. d + 1 : k \in 1 .. d \/ k = d + 1
    BY <1>5
  <2> QED BY <2>3, <2>4, <2>5
<1> QED BY <1>1, <1>7, <1>8, <1>9, <1>10, <1>11, <1>12 DEF Placed

\* After the first branch.
LEMMA PlacedElse ==
    ASSUME NEW ops, NEW cs, NEW rs, Paces(cs, rs), NEW i \in Nat,
           NEW t, \A m \in 0 .. i : Placed(cs, rs, m, ops), Len(rs[i]) > 0, Elsewise(cs, rs, i, t)
    PROVE  Placed(cs, rs, i + 1, ops)
<1>0. Placed(cs, rs, i, ops)
  OBVIOUS
<1>1. PICK T, d : T = Inmost(rs[i]) /\ d = Depth(rs, i)
  OBVIOUS
<1>2. PICK o, U : o = T.open /\ U = Room("else", T.open, i, {})
  OBVIOUS
<1>3. PICK a, c, q, y : a = cs[o] /\ c = cs[i + 1] /\ q = rs[o] /\ y = rs[i + 1]
  OBVIOUS
<1>4. Tops(cs, rs, i, T, d)
  BY <1>0, <1>1, TopOf
<1>5. /\ T \in RoomType /\ d \in Nat /\ d > 0 /\ T = rs[i][d] /\ o \in 0 .. i - 1
      /\ o = OpenOf(rs, i, d) /\ T.part = KindOf(rs, i, d)
      /\ Lasts(rs, i, d) /\ Depth(rs, o) = d - 1
      /\ Around(rs[i]) = q /\ rs[i] = Append(q, T)
  BY <1>2, <1>3, <1>4 DEF Tops
<1>6. c = Entered(a, U) /\ y = Append(q, U) /\ T.part = "then"
  BY <1>1, <1>2, <1>3, <1>5 DEF Elsewise
<1>7. U \in RoomType /\ U.part = "else" /\ U.open = o /\ U.at = i /\ U.bound = {}
  <2>1. o \in Nat
    BY <1>5
  <2> QED BY <1>2, <2>1, RoomFields
<1>8. q \in Seq(RoomType) /\ Accepted(a, ops) /\ Apart(q) /\ Len(q) = d - 1 /\ Placed(cs, rs, o, ops)
  <2>1. o \in Nat /\ Placed(cs, rs, o, ops)
    BY <1>5
  <2> QED BY <1>3, <1>5, <2>1, PaceAt DEF Placed, Depth
<1>9. Builds(q, U, y) /\ Builds(q, T, rs[i])
  BY <1>5, <1>6, <1>7, <1>8, RoomAdded
<1>10. /\ Len(y) = d /\ y[d] = U /\ Inmost(y) = U
       /\ \A k \in 1 .. d - 1 : y[k] = q[k] /\ rs[i][k] = q[k]
  BY <1>5, <1>8, <1>9 DEF Builds
<1>11. Accepted(c, ops) /\ Within(a, c, U) /\ c.tbl = a.tbl
  BY <1>6, <1>7, <1>8, EnteredWithin
<1>12. \A n \in Names : Tracked(c, n) => n \in Seen(y)
  <2>1. Seen(y) = Seen(q) \cup U.bound
    BY <1>6, <1>7, <1>8, SeenAdded
  <2>2. \A n \in Names : Tracked(c, n) => Tracked(a, n)
    BY <1>11 DEF Tracked
  <2> QED BY <1>3, <1>8, <2>1, <2>2 DEF Placed
<1>13. Apart(y)
  BY <1>6, <1>7, <1>8, ApartAdded
<1>14. Nested(cs, rs, i + 1)
  BY <1>3, <1>6, <1>7, <1>10, <1>11 DEF Nested
<1>15. \A k \in 1 .. d : Lasts(rs, i + 1, k)
  <2>1. \A k \in 1 .. Depth(rs, i) : Lasts(rs, i, k)
    BY <1>0 DEF Placed, Depth
  <2>2. Depth(rs, i + 1) = d
    BY <1>3, <1>10 DEF Depth
  <2>3. \A k \in 1 .. d - 1 : Lasts(rs, i + 1, k)
    <3>1. d - 1 \in Nat /\ d - 1 <= Depth(rs, i) /\ d - 1 <= Depth(rs, i + 1)
      BY <1>1, <1>5, <2>2
    <3>2. \A k \in 1 .. d - 1 : rs[i + 1][k] = rs[i][k]
      BY <1>3, <1>10
    <3> QED BY <2>1, <3>1, <3>2, LevelsOn
  <2>4. Lasts(rs, i + 1, d)
    <3>1. /\ OpenOf(rs, i + 1, d) = OpenOf(rs, i, d) /\ AtOf(rs, i + 1, d) = i
          /\ KindOf(rs, i + 1, d) = "else" /\ KindOf(rs, i, d) = "then"
      BY <1>3, <1>5, <1>6, <1>7, <1>10 DEF OpenOf, AtOf, KindOf
    <3>2. Depth(rs, i) = d /\ d \in 1 .. Depth(rs, i)
      BY <1>1, <1>5
    <3> QED BY <1>5, <2>2, <3>1, <3>2, LastsElse
  <2>5. \A k \in 1 .. d : k \in 1 .. d - 1 \/ k = d
    BY <1>5
  <2> QED BY <2>3, <2>4, <2>5
<1> QED BY <1>3, <1>10, <1>11, <1>12, <1>13, <1>14, <1>15 DEF Placed

\* V is the first branch of the conditional whose second one T is.
Paired(cs, rs, i, T, V, d) ==
    T.at \in 1 .. i - 1 /\ Tops(cs, rs, T.at, V, d) /\ V.part = "then" /\ V.open = T.open

\* The end of the first branch, seen from the second.
LEMMA FirstBranch ==
    ASSUME NEW ops, NEW cs, NEW rs, Paces(cs, rs), NEW i \in Nat,
           \A m \in 0 .. i : Placed(cs, rs, m, ops), NEW T, NEW d, Tops(cs, rs, i, T, d),
           T.part = "else", NEW V, V = Inmost(rs[T.at])
    PROVE  Paired(cs, rs, i, T, V, d)
<1>1. PICK j, o : j = T.at /\ o = T.open
  OBVIOUS
<1>2. /\ d \in Nat /\ d > 0 /\ Lasts(rs, i, d) /\ o \in 0 .. i - 1 /\ j \in o .. i - 1
      /\ o = OpenOf(rs, i, d) /\ j = AtOf(rs, i, d) /\ KindOf(rs, i, d) = "else"
  BY <1>1 DEF Tops
<1>3. o < j /\ Depth(rs, j) = d /\ KindOf(rs, j, d) = "then"
  BY <1>2 DEF Lasts
<1>4. OpenOf(rs, j, d) = o
  <2>1. j \in o + 1 .. i
    BY <1>2, <1>3
  <2> QED BY <1>2, <2>1 DEF Lasts
<1>5. j \in Nat /\ j \in 1 .. i - 1 /\ Placed(cs, rs, j, ops)
  BY <1>2, <1>3
<1>6. Tops(cs, rs, j, V, d)
  <2>1. Len(rs[j]) > 0
    BY <1>2, <1>3 DEF Depth
  <2>2. Tops(cs, rs, j, V, Depth(rs, j))
    BY <1>1, <1>5, <2>1, TopOf
  <2> QED BY <1>3, <2>2
<1>7. V.part = "then" /\ V.open = o
  BY <1>3, <1>4, <1>6 DEF Tops
<1> QED BY <1>1, <1>5, <1>6, <1>7 DEF Paired

\* The construct that token i ends, was left by token j.
Left(cs, rs, i, T, j, V, d) ==
    /\ j \in 1 .. i /\ Tops(cs, rs, j, V, d) /\ V.open = T.open /\ cs[i + 1] = Quit(cs[j], V)
    /\ (T.part # "else" => j = i /\ V = T) /\ (T.part = "else" => j = T.at /\ V.part = "then")

\* The branch whose table is kept.
LEMMA LeftBy ==
    ASSUME NEW ops, NEW cs, NEW rs, Paces(cs, rs), NEW i \in Nat,
           NEW t, \A m \in 0 .. i : Placed(cs, rs, m, ops), NEW T, NEW d, Tops(cs, rs, i, T, d),
           T = Inmost(rs[i]), Ending(cs, rs, i, t)
    PROVE  \E j, V : Left(cs, rs, i, T, j, V, d)
<1>1. CASE T.part # "else"
  <2>1. cs[i + 1] = Quit(cs[i], T)
    BY <1>1 DEF Ending
  <2>2. i \in 1 .. i
    BY DEF Tops
  <2>3. Left(cs, rs, i, T, i, T, d)
    BY <1>1, <2>1, <2>2 DEF Left
  <2> QED BY <2>3
<1>2. CASE T.part = "else"
  <2>1. PICK j, V : j = T.at /\ V = Inmost(rs[j])
    OBVIOUS
  <2>2. cs[i + 1] = Quit(cs[j], V)
    BY <1>2, <2>1 DEF Ending
  <2>3. j \in 1 .. i - 1 /\ Tops(cs, rs, j, V, d) /\ V.part = "then" /\ V.open = T.open
    <3>1. V = Inmost(rs[T.at])
      BY <2>1
    <3>2. Paired(cs, rs, i, T, V, d)
      BY <1>2, <3>1, FirstBranch
    <3> QED BY <2>1, <3>2 DEF Paired
  <2>4. j \in 1 .. i
    BY <2>3
  <2>5. Left(cs, rs, i, T, j, V, d)
    BY <1>2, <2>1, <2>2, <2>3, <2>4 DEF Left
  <2> QED BY <2>5
<1> QED BY <1>1, <1>2

\* What is known after a construct whose k-th room from outside is its own.
LEMMA LeftChanges ==
    ASSUME NEW ops, NEW cs, NEW rs, Paces(cs, rs), NEW i \in Nat,
           \A m \in 0 .. i : Placed(cs, rs, m, ops), NEW T, NEW j, NEW V, NEW d, Tops(cs, rs, i, T, d),
           Left(cs, rs, i, T, j, V, d), cs[i + 1].diags = {}
    PROVE  /\ Accepted(cs[i + 1], ops) /\ Resumes(cs[T.open], cs[i + 1]) /\ Leaves(cs[j], cs[i + 1])
           /\ Within(cs[T.open], cs[j], V) /\ j \in 1 .. i
<1>1. PICK a, b, r, o : a = cs[o] /\ b = cs[j] /\ r = cs[i + 1] /\ o = T.open
  OBVIOUS
<1>2. Tops(cs, rs, j, V, d) /\ V.open = o /\ r = Quit(b, V) /\ r.diags = {} /\ j \in 1 .. i
  BY <1>1 DEF Left
<1>3. Within(a, b, V) /\ o \in 0 .. j - 1
  BY <1>1, <1>2 DEF Tops
<1>4. o \in 0 .. i /\ j \in 0 .. i
  BY <1>2, <1>3
<1>5. Accepted(a, ops) /\ Accepted(b, ops)
  BY <1>1, <1>4 DEF Placed
<1>6. Accepted(r, ops) /\ Resumes(a, r) /\ Leaves(b, r)
  BY <1>2, <1>3, <1>5, QuitChanges
<1> QED BY <1>1, <1>2, <1>3, <1>6

\* A construct that ended, inside another.
LEMMA WithinResume ==
    ASSUME NEW a \in Checker, NEW b \in Checker, NEW c \in Checker, NEW S, NEW V,
           Within(a, b, S), Within(b, c, V), NEW r, Resumes(b, r), Leaves(c, r)
    PROVE  Within(a, r, S)
<1>1. CASE S.part = "while"
  <2>1. Inner(a, b, S.bound, TRUE)
    BY <1>1 DEF Within
  <2>2. Inner(a, r, S.bound, TRUE)
    <3>1. CASE V.part = "while"
      <4>1. Inner(b, c, V.bound, TRUE)
        BY <3>1 DEF Within
      <4> QED BY <2>1, <4>1, InnerResume
    <3>2. CASE V.part # "while"
      <4>1. Inner(b, c, V.bound, FALSE)
        BY <3>2 DEF Within
      <4> QED BY <2>1, <4>1, InnerResume
    <3> QED BY <3>1, <3>2
  <2> QED BY <1>1, <2>2 DEF Within
<1>2. CASE S.part # "while"
  <2>1. Inner(a, b, S.bound, FALSE)
    BY <1>2 DEF Within
  <2>2. Inner(a, r, S.bound, FALSE)
    <3>1. CASE V.part = "while"
      <4>1. Inner(b, c, V.bound, TRUE)
        BY <3>1 DEF Within
      <4> QED BY <2>1, <4>1, InnerResume
    <3>2. CASE V.part # "while"
      <4>1. Inner(b, c, V.bound, FALSE)
        BY <3>2 DEF Within
      <4> QED BY <2>1, <4>1, InnerResume
    <3> QED BY <3>1, <3>2
  <2> QED BY <1>2, <2>2 DEF Within
<1> QED BY <1>1, <1>2

\* After a construct.
LEMMA PlacedEnd ==
    ASSUME NEW ops, NEW cs, NEW rs, Paces(cs, rs), NEW i \in Nat,
           NEW t, \A m \in 0 .. i : Placed(cs, rs, m, ops), Len(rs[i]) > 0, Ending(cs, rs, i, t)
    PROVE  Placed(cs, rs, i + 1, ops)
<1>0. Placed(cs, rs, i, ops)
  OBVIOUS
<1>1. PICK T, d : T = Inmost(rs[i]) /\ d = Depth(rs, i)
  OBVIOUS
<1>2. Tops(cs, rs, i, T, d)
  BY <1>0, <1>1, TopOf
<1>3. PICK j, V : Left(cs, rs, i, T, j, V, d)
  BY <1>1, <1>2, LeftBy
<1>4. PICK o, a, b, r, q : o = T.open /\ a = cs[o] /\ b = cs[j] /\ r = cs[i + 1] /\ q = rs[o]
  OBVIOUS
<1>5. /\ T \in RoomType /\ d \in Nat /\ d > 0 /\ o \in 0 .. i - 1 /\ Depth(rs, o) = d - 1
      /\ Around(rs[i]) = q /\ rs[i] = Append(q, T)
  BY <1>2, <1>4 DEF Tops
<1>6. r.diags = {} /\ rs[i + 1] = q
  BY <1>1, <1>4, <1>5 DEF Ending
<1>7. Accepted(r, ops) /\ Resumes(a, r) /\ Leaves(b, r) /\ Within(a, b, V) /\ j \in 1 .. i
  BY <1>2, <1>3, <1>4, <1>6, LeftChanges
<1>8. o \in Nat /\ Placed(cs, rs, o, ops) /\ Placed(cs, rs, j, ops)
  BY <1>5, <1>7
<1>9. q \in Seq(RoomType) /\ Accepted(a, ops) /\ Accepted(b, ops) /\ Apart(q) /\ Len(q) = d - 1
      /\ \A n \in Names : Tracked(a, n) => n \in Seen(q)
  BY <1>4, <1>5, <1>8, PaceAt DEF Placed, Depth
<1>10. \A n \in Names : Tracked(r, n) => n \in Seen(q)
  BY <1>7, <1>9 DEF Resumes
<1>11. ASSUME Len(rs[i + 1]) > 0 PROVE Nested(cs, rs, i + 1)
  <2>1. PICK S : S = Inmost(q)
    OBVIOUS
  <2>2. Tops(cs, rs, o, S, Depth(rs, o))
    BY <1>4, <1>6, <1>8, <1>11, <2>1, TopOf
  <2>3. S.open \in 0 .. o - 1 /\ q = Append(rs[S.open], S) /\ Within(cs[S.open], a, S)
    BY <1>4, <2>2 DEF Tops
  <2>4. cs[S.open] \in Checker
    <3>1. S.open \in Nat
      BY <2>3
    <3> QED BY <3>1, PaceAt
  <2>5. a \in Checker /\ b \in Checker
    BY <1>9 DEF Accepted
  <2>6. Within(cs[S.open], r, S)
    BY <1>7, <2>3, <2>4, <2>5, WithinResume
  <2> QED BY <1>4, <1>6, <2>1, <2>3, <2>6 DEF Nested
<1>12. \A k \in 1 .. d - 1 : Lasts(rs, i + 1, k)
  <2>1. \A k \in 1 .. Depth(rs, i) : Lasts(rs, i, k)
    BY <1>0 DEF Placed, Depth
  <2>2. d - 1 \in Nat /\ d - 1 <= Depth(rs, i) /\ d - 1 <= Depth(rs, i + 1)
    <3>1. Depth(rs, i + 1) = d - 1
      BY <1>6, <1>9 DEF Depth
    <3>2. \A x \in Nat : \A z : x > 0 /\ z = x - 1 => x - 1 \in Nat /\ x - 1 <= x /\ x - 1 <= z
      OBVIOUS
    <3> QED BY <1>1, <1>5, <3>1, <3>2
  <2>3. \A k \in 1 .. d - 1 : rs[i + 1][k] = rs[i][k]
    <3>1. Builds(q, T, rs[i])
      BY <1>5, <1>9, RoomAdded
    <3> QED BY <1>6, <1>9, <3>1 DEF Builds
  <2> QED BY <2>1, <2>2, <2>3, LevelsOn
<1> QED BY <1>4, <1>6, <1>7, <1>9, <1>10, <1>11, <1>12 DEF Placed

\* After the end of the program.
LEMMA PlacedEof ==
    ASSUME NEW ops, NEW cs, NEW rs, Paces(cs, rs), NEW i \in Nat,
           NEW t, \A m \in 0 .. i : Placed(cs, rs, m, ops), Finishing(cs, rs, i, t)
    PROVE  Placed(cs, rs, i + 1, ops) /\ rs[i] = Append(<<>>, Inmost(rs[i]))
<1>0. Placed(cs, rs, i, ops)
  OBVIOUS
<1>1. PICK T, d : T = Inmost(rs[i]) /\ d = Depth(rs, i)
  OBVIOUS
<1>2. Tops(cs, rs, i, T, d) /\ d = 1
  <2>1. Len(rs[i]) = 1 /\ d = 1
    BY <1>1 DEF Finishing, Depth
  <2>2. Len(rs[i]) > 0
    BY <2>1
  <2>3. Tops(cs, rs, i, T, Depth(rs, i))
    BY <1>0, <1>1, <2>2, TopOf
  <2> QED BY <1>1, <2>1, <2>3
<1>3. PICK o, a, b, r, q : o = T.open /\ a = cs[o] /\ b = cs[i] /\ r = cs[i + 1] /\ q = rs[o]
  OBVIOUS
<1>4. /\ T \in RoomType /\ o \in 0 .. i - 1 /\ Depth(rs, o) = 0 /\ Around(rs[i]) = q
      /\ rs[i] = Append(q, T) /\ Within(a, b, T)
  BY <1>2, <1>3 DEF Tops
<1>5. r.diags = {} /\ r = Quit(b, T) /\ rs[i + 1] = <<>>
  BY <1>1, <1>3 DEF Finishing
<1>6. o \in Nat /\ Placed(cs, rs, o, ops)
  BY <1>4
<1>7. q \in Seq(RoomType) /\ Accepted(a, ops) /\ Accepted(b, ops) /\ q = <<>>
      /\ \A n \in Names : Tracked(a, n) => n \in Seen(q)
  <2>1. q \in Seq(RoomType) /\ Len(q) = 0
    BY <1>3, <1>4, <1>6, PaceAt DEF Depth
  <2> QED BY <1>0, <1>3, <1>6, <2>1, EmptySeq DEF Placed
<1>8. Accepted(r, ops) /\ Resumes(a, r)
  BY <1>4, <1>5, <1>7, QuitChanges
<1>9. \A n \in Names : Tracked(r, n) => n \in Seen(q)
  BY <1>7, <1>8 DEF Resumes
<1>10. Apart(<<>>)
  BY DEF Apart
<1> QED BY <1>1, <1>3, <1>4, <1>5, <1>7, <1>8, <1>9, <1>10 DEF Placed

\* A token is followed by a place in the walk.
LEMMA PlacedOn ==
    ASSUME NEW ops, NEW cs, NEW rs, Paces(cs, rs), NEW i \in Nat,
           NEW t, \A m \in 0 .. i : Placed(cs, rs, m, ops), Follows(cs, rs, i, t, ops)
    PROVE  Placed(cs, rs, i + 1, ops)
<1>0. Placed(cs, rs, i, ops) /\ Len(rs[i]) > 0
  BY DEF Follows
<1>1. CASE Straightly(cs, rs, i, t, ops) BY <1>0, <1>1, PlacedStraight
<1>2. CASE Opening(cs, rs, i, t)
  <2>1. PICK U : Opens(cs, rs, i, U)
    BY <1>2, OpeningOpens
  <2> QED BY <1>0, <2>1, PlacedOpen
<1>3. CASE Elsewise(cs, rs, i, t)  BY <1>0, <1>3, PlacedElse
<1>4. CASE Ending(cs, rs, i, t)    BY <1>0, <1>4, PlacedEnd
<1>5. CASE Finishing(cs, rs, i, t) BY <1>5, PlacedEof
<1> QED BY <1>1, <1>2, <1>3, <1>4, <1>5 DEF Follows

\* A checker with no row.
LEMMA EmptyAccepted == ASSUME NEW ops PROVE Accepted(Empty, ops) /\ \A n \in Names : ~Tracked(Empty, n)
<1>1. Empty \in Checker /\ Empty.bindings = <<>> /\ Empty.depth = 0 /\ Empty.diags = {}
  BY NoRow, EmptySeq DEF Empty, Checker
<1>2. \A n \in Names : Empty.tbl[n].kind = "None" /\ Empty.tbl[n].owner = NoName
  BY DEF Empty, NoEntry
<1>3. \A n \in Names : ~Tracked(Empty, n)
  BY <1>2 DEF Tracked
<1>4. Linked(Empty)
  <2>1. Len(Empty.bindings) = 0
    BY <1>1
  <2> QED BY <1>3, <2>1 DEF Linked
<1>5. Accounts(Empty)
  <2>1. \A n, o \in Names : Empty.tbl[n].kind \notin Refs
    BY <1>2 DEF Refs
  <2> QED BY <1>2, <1>3, <2>1 DEF Accounts, TrackedNames, Exclusive, Rooted, AliasesIn, Refs
<1> QED BY <1>1, <1>2, <1>3, <1>4, <1>5 DEF Accepted, Book, Sourced, Refs

\* Before the first token.
LEMMA PlacedFirst ==
    ASSUME NEW ops, NEW cs, NEW rs, Paces(cs, rs), cs[0] = Empty, rs[0] = <<>>,
           cs[1] = PushScope(Empty), rs[1] = <<Room("body", 0, 0, {})>>
    PROVE  Placed(cs, rs, 0, ops) /\ Placed(cs, rs, 1, ops)
<1>1. Placed(cs, rs, 0, ops)
  <2>1. Len(rs[0]) = 0
    BY EmptySeq
  <2>2. Apart(rs[0])
    BY <2>1 DEF Apart
  <2> QED BY <2>1, <2>2, EmptyAccepted DEF Placed
<1>2. PICK U : U = Room("body", 0, 0, {})
  OBVIOUS
<1>3. U \in RoomType /\ U.part = "body" /\ U.open = 0 /\ U.at = 0 /\ U.bound = {}
  BY <1>2, RoomFields
<1>4. Opens(cs, rs, 0, U)
  <2>1. cs[0 + 1] = Entered(cs[0], U)
    BY <1>3 DEF Entered, Opened
  <2>2. rs[0 + 1] = Append(rs[0], U)
    BY <1>2
  <2> QED BY <1>3, <2>1, <2>2 DEF Opens
<1>5. Placed(cs, rs, 0 + 1, ops)
  BY <1>1, <1>4, PlacedOpen
<1> QED BY <1>1, <1>5

\* Two walks that agree up to token i, agree on it.
LEMMA LastsSame ==
    ASSUME NEW rs, NEW sr, NEW i \in Nat, \A m \in 0 .. i : sr[m] = rs[m], NEW k,
           OpenOf(rs, i, k) \in Nat, AtOf(rs, i, k) \in Nat, Lasts(rs, i, k)
    PROVE  Lasts(sr, i, k)
<1>1. \A m \in 0 .. i : /\ Depth(sr, m) = Depth(rs, m) /\ OpenOf(sr, m, k) = OpenOf(rs, m, k)
                        /\ AtOf(sr, m, k) = AtOf(rs, m, k) /\ KindOf(sr, m, k) = KindOf(rs, m, k)
  BY DEF Depth, OpenOf, AtOf, KindOf
<1>2. i \in 0 .. i
  OBVIOUS
<1>3. PICK o, a, b : o = OpenOf(rs, i, k) /\ a = AtOf(rs, i, k) /\ b = KindOf(rs, i, k)
  OBVIOUS
<1>4. /\ o < i /\ a < i /\ o <= a
      /\ Depth(rs, o) = k - 1
      /\ \A m \in o + 1 .. i : Depth(rs, m) >= k /\ OpenOf(rs, m, k) = o
      /\ \A m \in a + 1 .. i : KindOf(rs, m, k) = b /\ AtOf(rs, m, k) = a
      /\ b = "else" => o < a /\ Depth(rs, a) = k /\ KindOf(rs, a, k) = "then"
      /\ b # "else" => a = o
  BY <1>3 DEF Lasts
<1>5. o \in 0 .. i /\ a \in 0 .. i /\ o + 1 .. i \subseteq 0 .. i /\ a + 1 .. i \subseteq 0 .. i
  BY <1>3, <1>4
<1>6. OpenOf(sr, i, k) = o /\ AtOf(sr, i, k) = a /\ KindOf(sr, i, k) = b
  BY <1>1, <1>2, <1>3
<1>7. Depth(sr, o) = k - 1
  BY <1>1, <1>4, <1>5
<1>8. \A m \in o + 1 .. i : Depth(sr, m) >= k /\ OpenOf(sr, m, k) = o
  BY <1>1, <1>4, <1>5
<1>9. \A m \in a + 1 .. i : KindOf(sr, m, k) = b /\ AtOf(sr, m, k) = a
  BY <1>1, <1>4, <1>5
<1>10. b = "else" => o < a /\ Depth(sr, a) = k /\ KindOf(sr, a, k) = "then"
  BY <1>1, <1>4, <1>5
<1> QED BY <1>4, <1>6, <1>7, <1>8, <1>9, <1>10 DEF Lasts

\* So does their place before it.
LEMMA PlacedSame ==
    ASSUME NEW ops, NEW cs, NEW rs, Paces(cs, rs), NEW sc, NEW sr, NEW i \in Nat,
           \A m \in 0 .. i : sc[m] = cs[m] /\ sr[m] = rs[m], Placed(cs, rs, i, ops)
    PROVE  Placed(sc, sr, i, ops)
<1>1. sc[i] = cs[i] /\ sr[i] = rs[i]
  OBVIOUS
<1>2. ASSUME Len(rs[i]) > 0 PROVE Nested(sc, sr, i)
  <2>1. PICK T : T = Inmost(rs[i])
    OBVIOUS
  <2>2. Tops(cs, rs, i, T, Depth(rs, i))
    BY <1>2, <2>1, TopOf
  <2>3. T.open \in 0 .. i - 1 /\ rs[i] = Append(rs[T.open], T) /\ Within(cs[T.open], cs[i], T)
    BY <2>2 DEF Tops
  <2>4. sc[T.open] = cs[T.open] /\ sr[T.open] = rs[T.open]
    <3>1. T.open \in 0 .. i
      BY <2>3
    <3> QED BY <3>1
  <2> QED BY <1>1, <2>1, <2>3, <2>4 DEF Nested
<1>3. ASSUME NEW k \in 1 .. Len(rs[i]) PROVE Lasts(sr, i, k)
  <2>1. Lasts(rs, i, k) /\ k \in 1 .. Depth(rs, i)
    BY <1>3 DEF Placed, Depth
  <2>2. OpenOf(rs, i, k) \in Nat /\ AtOf(rs, i, k) \in Nat
    BY <2>1, RoomAt
  <2> QED BY <2>1, <2>2, LastsSame
<1> QED BY <1>1, <1>2, <1>3 DEF Placed

\* So does what follows it.
LEMMA FollowsSame ==
    ASSUME NEW ops, NEW cs, NEW rs, Paces(cs, rs), NEW sc, NEW sr, NEW i \in Nat, NEW t,
           \A m \in 0 .. i + 1 : sc[m] = cs[m] /\ sr[m] = rs[m], Placed(cs, rs, i, ops),
           Follows(cs, rs, i, t, ops)
    PROVE  Follows(sc, sr, i, t, ops)
<1>1. sc[i] = cs[i] /\ sr[i] = rs[i] /\ sc[i + 1] = cs[i + 1] /\ sr[i + 1] = rs[i + 1]
  OBVIOUS
<1>2. PICK T : T = Inmost(rs[i])
  OBVIOUS
<1>3. Tops(cs, rs, i, T, Depth(rs, i))
  BY <1>2, TopOf DEF Follows
<1>4. T.open \in 0 .. i + 1 /\ T.at \in 0 .. i + 1
  BY <1>3 DEF Tops
<1>5. sc[T.open] = cs[T.open] /\ sc[T.at] = cs[T.at] /\ sr[T.at] = rs[T.at]
  BY <1>4
<1>6. Straightly(cs, rs, i, t, ops) => Straightly(sc, sr, i, t, ops)
  BY <1>1 DEF Straightly
<1>7. Opening(cs, rs, i, t) => Opening(sc, sr, i, t)
  BY <1>1 DEF Opening
<1>8. Elsewise(cs, rs, i, t) => Elsewise(sc, sr, i, t)
  BY <1>1, <1>2, <1>5 DEF Elsewise
<1>9. Ending(cs, rs, i, t) => Ending(sc, sr, i, t)
  BY <1>1, <1>2, <1>5 DEF Ending
<1>10. Finishing(cs, rs, i, t) => Finishing(sc, sr, i, t)
  BY <1>1 DEF Finishing
<1> QED BY <1>1, <1>6, <1>7, <1>8, <1>9, <1>10 DEF Follows

\* How a token changes the number of open constructs.
Rise(t, x, y) ==
    /\ x > 0
    /\ t.op \in R!Openers => y = x + 1
    /\ t.op = "end" => y = x - 1
    /\ t.op = "eof" => x = 1 /\ y = 0
    /\ t.op \notin R!Openers \cup {"end", "eof"} => y = x

\* So does every token of the walk.
LEMMA FollowsRise ==
    ASSUME NEW ops, NEW cs, NEW rs, Paces(cs, rs), NEW i \in Nat, NEW t, Follows(cs, rs, i, t, ops)
    PROVE  Rise(t, Depth(rs, i), Depth(rs, i + 1))
<1>1. PICK q, y, T : q = rs[i] /\ y = rs[i + 1] /\ T = Inmost(rs[i])
  OBVIOUS
<1>2. q \in Seq(RoomType) /\ y \in Seq(RoomType) /\ Len(q) > 0
  <2>1. i + 1 \in Nat
    OBVIOUS
  <2> QED BY <1>1, <2>1, PaceAt DEF Follows
<1>3. Around(q) \in Seq(RoomType) /\ Len(Around(q)) = Len(q) - 1 /\ Len(q) \in Nat
  BY <1>2, TopRoom
<1>4. \A r \in Seq(RoomType) : \A e : Len(Append(r, e)) = Len(r) + 1
  OBVIOUS
<1>5. CASE Straightly(cs, rs, i, t, ops)
  <2>1. PICK e : y = Append(Around(q), e)
    BY <1>1, <1>5 DEF Straightly
  <2>2. Len(y) = Len(q) - 1 + 1
    BY <1>3, <1>4, <2>1
  <2>3. t.op \notin R!Openers \cup {"end", "eof"}
    BY <1>5 DEF Straightly, StraightWords, R!Openers
  <2> QED BY <1>1, <1>2, <1>3, <2>2, <2>3 DEF Rise, Depth
<1>6. CASE Opening(cs, rs, i, t)
  <2>1. PICK e : y = Append(q, e)
    BY <1>1, <1>6 DEF Opening
  <2>2. Len(y) = Len(q) + 1
    BY <1>2, <1>4, <2>1
  <2>3. t.op \in R!Openers /\ t.op # "end" /\ t.op # "eof"
    BY <1>6 DEF Opening, R!Openers
  <2> QED BY <1>1, <1>2, <2>2, <2>3 DEF Rise, Depth
<1>7. CASE Elsewise(cs, rs, i, t)
  <2>1. PICK e : y = Append(Around(q), e)
    BY <1>1, <1>7 DEF Elsewise
  <2>2. Len(y) = Len(q) - 1 + 1
    BY <1>3, <1>4, <2>1
  <2>3. t.op \notin R!Openers \cup {"end", "eof"}
    BY <1>7 DEF Elsewise, R!Openers
  <2> QED BY <1>1, <1>2, <1>3, <2>2, <2>3 DEF Rise, Depth
<1>8. CASE Ending(cs, rs, i, t)
  <2>1. y = Around(q) /\ t.op = "end"
    BY <1>1, <1>8 DEF Ending
  <2>2. t.op \notin R!Openers
    BY <2>1 DEF R!Openers
  <2> QED BY <1>1, <1>2, <1>3, <2>1, <2>2 DEF Rise, Depth
<1>9. CASE Finishing(cs, rs, i, t)
  <2>1. y = <<>> /\ t.op = "eof" /\ Len(q) = 1
    BY <1>1, <1>9 DEF Finishing
  <2>2. t.op \notin R!Openers /\ Len(y) = 0
    BY <2>1, EmptySeq DEF R!Openers
  <2> QED BY <1>1, <2>1, <2>2 DEF Rise, Depth
<1> QED BY <1>5, <1>6, <1>7, <1>8, <1>9 DEF Follows

\* Counting one token more.
LEMMA CountOn ==
    ASSUME NEW p, NEW o \in Nat, NEW j \in Nat, o <= j
    PROVE  /\ Cardinality(OpenersIn(p, o, j)) \in Nat /\ Cardinality(EndsIn(p, o, j)) \in Nat
           /\ Cardinality(OpenersIn(p, o, j + 1))
              = Cardinality(OpenersIn(p, o, j)) + IF p[j + 1].op \in R!Openers THEN 1 ELSE 0
           /\ Cardinality(EndsIn(p, o, j + 1))
              = Cardinality(EndsIn(p, o, j)) + IF p[j + 1].op = "end" THEN 1 ELSE 0
<1>1. IsFiniteSet(o .. j) /\ o .. j + 1 = (o .. j) \cup {j + 1} /\ j + 1 \notin o .. j
  <2>1. o \in Int /\ j \in Int
    OBVIOUS
  <2>2. IsFiniteSet(o .. j)
    BY <2>1, FS_Interval
  <2>3. o .. j + 1 = (o .. j) \cup {j + 1} /\ j + 1 \notin o .. j
    OBVIOUS
  <2> QED BY <2>2, <2>3
<1>2. /\ OpenersIn(p, o, j) \subseteq o .. j /\ EndsIn(p, o, j) \subseteq o .. j
      /\ OpenersIn(p, o, j + 1)
         = IF p[j + 1].op \in R!Openers THEN OpenersIn(p, o, j) \cup {j + 1} ELSE OpenersIn(p, o, j)
      /\ EndsIn(p, o, j + 1)
         = IF p[j + 1].op = "end" THEN EndsIn(p, o, j) \cup {j + 1} ELSE EndsIn(p, o, j)
  BY <1>1 DEF OpenersIn, EndsIn
<1>3. IsFiniteSet(OpenersIn(p, o, j)) /\ IsFiniteSet(EndsIn(p, o, j))
  BY <1>1, <1>2, FS_Subset
<1>4. j + 1 \notin OpenersIn(p, o, j) /\ j + 1 \notin EndsIn(p, o, j)
  BY <1>1, <1>2
<1>5. /\ Cardinality(OpenersIn(p, o, j)) \in Nat /\ Cardinality(EndsIn(p, o, j)) \in Nat
      /\ Cardinality(OpenersIn(p, o, j) \cup {j + 1}) = Cardinality(OpenersIn(p, o, j)) + 1
      /\ Cardinality(EndsIn(p, o, j) \cup {j + 1}) = Cardinality(EndsIn(p, o, j)) + 1
  BY <1>3, <1>4, FS_CardinalityType, FS_AddElement
<1> QED BY <1>2, <1>5

\* Counting one token.
LEMMA CountOne ==
    ASSUME NEW p, NEW o \in Nat
    PROVE  /\ Cardinality(OpenersIn(p, o, o)) = IF p[o].op \in R!Openers THEN 1 ELSE 0
           /\ Cardinality(EndsIn(p, o, o)) = IF p[o].op = "end" THEN 1 ELSE 0
<1>1. o .. o = {o}
  OBVIOUS
<1>2. /\ OpenersIn(p, o, o) = IF p[o].op \in R!Openers THEN {o} ELSE {}
      /\ EndsIn(p, o, o) = IF p[o].op = "end" THEN {o} ELSE {}
  BY <1>1 DEF OpenersIn, EndsIn
<1> QED BY <1>2, FS_EmptySet, FS_Singleton

\* The first N tokens do not end the program.
Unfinished(p, N) == N > 0 => p[N].op # "eof"

\* The count goes on with the walk.
LEMMA MeasuredOn ==
    ASSUME NEW rs, NEW p, NEW N \in Nat, Len(p) = N, Measured(rs, p), NEW sr, NEW w, NEW t, Len(w) = N + 1,
           w[N + 1] = t, \A m \in 1 .. N : w[m] = p[m], \A m \in 1 .. N + 1 : Depth(sr, m) = Depth(rs, m),
           \A m \in 1 .. N + 2 : Depth(sr, m) \in Nat, Rise(t, Depth(sr, N + 1), Depth(sr, N + 2)),
           Unfinished(p, N)
    PROVE  Measured(sr, w)
<1> SUFFICES ASSUME NEW o \in 1 .. N + 1, NEW j \in 1 .. N + 1, o <= j, w[j].op # "eof"
             PROVE  Cardinality(OpenersIn(w, o, j)) - Cardinality(EndsIn(w, o, j))
                    = Depth(sr, j + 1) - Depth(sr, o)
  BY DEF Measured
<1>1. "end" \notin R!Openers
  BY DEF R!Openers
<1>2. \A k \in o .. N : OpenersIn(w, o, k) = OpenersIn(p, o, k) /\ EndsIn(w, o, k) = EndsIn(p, o, k)
  <2>1. \A k \in o .. N : \A m \in o .. k : w[m] = p[m]
    OBVIOUS
  <2> QED BY <2>1 DEF OpenersIn, EndsIn
<1>3. CASE j <= N
  <2>1. j \in 1 .. N /\ o \in 1 .. N /\ p[j].op # "eof" /\ j \in o .. N
    BY <1>3
  <2>2. Cardinality(OpenersIn(p, o, j)) - Cardinality(EndsIn(p, o, j)) = Depth(rs, j + 1) - Depth(rs, o)
    BY <2>1 DEF Measured
  <2>3. Depth(sr, j + 1) = Depth(rs, j + 1) /\ Depth(sr, o) = Depth(rs, o)
    <3>1. j + 1 \in 1 .. N + 1 /\ o \in 1 .. N + 1
      BY <2>1
    <3> QED BY <3>1
  <2> QED BY <1>2, <2>1, <2>2, <2>3
<1>4. PICK x, y, D : x = Depth(sr, N + 1) /\ y = Depth(sr, N + 2) /\ D = Depth(sr, o)
  OBVIOUS
<1>5. x \in Nat /\ y \in Nat /\ D \in Nat /\ Rise(t, x, y)
  <2>1. N + 1 \in 1 .. N + 2 /\ N + 2 \in 1 .. N + 2 /\ o \in 1 .. N + 2
    OBVIOUS
  <2> QED BY <1>4, <2>1
<1>6. CASE j = N + 1 /\ o = N + 1
  <2>1. o \in Nat /\ w[o] = t
    BY <1>6
  <2>2. /\ Cardinality(OpenersIn(w, o, o)) = IF t.op \in R!Openers THEN 1 ELSE 0
        /\ Cardinality(EndsIn(w, o, o)) = IF t.op = "end" THEN 1 ELSE 0
    BY <2>1, CountOne
  <2>3. D = x /\ Depth(sr, j + 1) = y /\ t.op # "eof"
    BY <1>4, <1>6
  <2>4. y - x = (IF t.op \in R!Openers THEN 1 ELSE 0) - IF t.op = "end" THEN 1 ELSE 0
    BY <1>1, <1>5, <2>3 DEF Rise
  <2> QED BY <1>4, <1>6, <2>2, <2>3, <2>4
<1>7. CASE j = N + 1 /\ o <= N
  <2>1. o \in Nat /\ N \in 1 .. N /\ o \in 1 .. N /\ N \in o .. N /\ N > 0
    BY <1>7
  <2>2. PICK a, b : a = Cardinality(OpenersIn(w, o, N)) /\ b = Cardinality(EndsIn(w, o, N))
    OBVIOUS
  <2>3. /\ a \in Nat /\ b \in Nat
        /\ Cardinality(OpenersIn(w, o, N + 1)) = a + IF t.op \in R!Openers THEN 1 ELSE 0
        /\ Cardinality(EndsIn(w, o, N + 1)) = b + IF t.op = "end" THEN 1 ELSE 0
    BY <1>7, <2>1, <2>2, CountOn
  <2>4. a - b = Depth(rs, N + 1) - Depth(rs, o)
    BY <1>2, <2>1, <2>2 DEF Measured, Unfinished
  <2>5. Depth(rs, N + 1) = x /\ Depth(rs, o) = D
    <3>1. N + 1 \in 1 .. N + 1 /\ o \in 1 .. N + 1
      BY <2>1
    <3> QED BY <1>4, <3>1
  <2>6. Depth(sr, j + 1) = y /\ t.op # "eof"
    BY <1>4, <1>7
  <2>7. y - x = (IF t.op \in R!Openers THEN 1 ELSE 0) - IF t.op = "end" THEN 1 ELSE 0
    BY <1>1, <1>5, <2>6 DEF Rise
  <2>8. PICK u, v : u = (IF t.op \in R!Openers THEN 1 ELSE 0) /\ v = (IF t.op = "end" THEN 1 ELSE 0)
    OBVIOUS
  <2>9. u \in Nat /\ v \in Nat /\ y - x = u - v /\ a - b = x - D
    BY <2>4, <2>5, <2>7, <2>8
  <2>10. Cardinality(OpenersIn(w, o, j)) = a + u /\ Cardinality(EndsIn(w, o, j)) = b + v
    BY <1>7, <2>3, <2>8
  <2>11. (a + u) - (b + v) = y - D
    BY <1>5, <2>3, <2>9
  <2> QED BY <1>4, <2>6, <2>10, <2>11
<1>8. j <= N \/ (j = N + 1 /\ o = N + 1) \/ (j = N + 1 /\ o <= N)
  OBVIOUS
<1> QED BY <1>3, <1>6, <1>7, <1>8

\* A construct that was open is open, or closes now.
LEMMA ShutOn ==
    ASSUME NEW rs, NEW p, NEW N \in Nat, Len(p) = N, Shut(rs, p), NEW sr, NEW w, NEW t, Len(w) = N + 1,
           w[N + 1] = t, \A m \in 1 .. N : w[m] = p[m], \A m \in 1 .. N + 1 : Depth(sr, m) = Depth(rs, m),
           \A m \in 1 .. N + 2 : Depth(sr, m) \in Nat, Rise(t, Depth(sr, N + 1), Depth(sr, N + 2)),
           \A m \in 1 .. N : Depth(rs, m) > 0
    PROVE  Shut(sr, w)
<1> SUFFICES ASSUME NEW i \in 1 .. N + 1, w[i].op \in R!Openers
             PROVE  \/ \A m \in i + 1 .. N + 2 : Depth(sr, m) > Depth(sr, i)
                    \/ \E c : Closes(sr, w, i, c)
  <2>1. Len(w) + 1 = N + 2
    OBVIOUS
  <2> QED BY <2>1 DEF Shut
<1>1. "end" \notin R!Openers
  BY DEF R!Openers
<1>2. PICK x, y, D : x = Depth(sr, N + 1) /\ y = Depth(sr, N + 2) /\ D = Depth(sr, i)
  OBVIOUS
<1>3. x \in Nat /\ y \in Nat /\ D \in Nat /\ Rise(t, x, y)
  <2>1. N + 1 \in 1 .. N + 2 /\ N + 2 \in 1 .. N + 2 /\ i \in 1 .. N + 2
    OBVIOUS
  <2> QED BY <1>2, <2>1
<1>4. CASE i = N + 1
  <2>1. y = x + 1 /\ D = x
    BY <1>2, <1>3, <1>4 DEF Rise
  <2>2. \A m \in i + 1 .. N + 2 : m = N + 2
    BY <1>4
  <2> QED BY <1>2, <1>3, <2>1, <2>2
<1>5. CASE i <= N
  <2>1. i \in 1 .. N /\ i \in 1 .. N + 1 /\ p[i].op \in R!Openers /\ Depth(rs, i) = D
    BY <1>2, <1>5
  <2>2. D > 0
    BY <2>1
  <2>3. \A m \in i + 1 .. N + 1 : Depth(sr, m) = Depth(rs, m)
    BY <2>1
  <2>4. CASE \E c : Closes(rs, p, i, c)
    <3>1. PICK c : Closes(rs, p, i, c)
      BY <2>4
    <3>2. c \in i + 1 .. N /\ p[c].op = "end" /\ Depth(rs, c + 1) = D
          /\ \A m \in i + 1 .. c : Depth(rs, m) > D
      BY <2>1, <3>1 DEF Closes
    <3>3. c \in i + 1 .. N + 1 /\ w[c].op = "end" /\ c + 1 \in i + 1 .. N + 1
          /\ \A m \in i + 1 .. c : m \in i + 1 .. N + 1
      BY <2>1, <3>2
    <3>4. Depth(sr, c + 1) = D /\ \A m \in i + 1 .. c : Depth(sr, m) > D
      BY <2>3, <3>2, <3>3
    <3> QED BY <1>2, <3>3, <3>4 DEF Closes
  <2>5. CASE \A m \in i + 1 .. N + 1 : Depth(rs, m) > D
    <3>1. \A m \in i + 1 .. N + 1 : Depth(sr, m) > D
      BY <2>3, <2>5
    <3>2. x > D
      <4>1. N + 1 \in i + 1 .. N + 1
        BY <2>1
      <4> QED BY <1>2, <3>1, <4>1
    <3>3. y > D \/ (t.op = "end" /\ y = D)
      BY <1>1, <1>3, <2>2, <3>2 DEF Rise
    <3>4. CASE y > D
      <4>1. \A m \in i + 1 .. N + 2 : m \in i + 1 .. N + 1 \/ m = N + 2
        BY <2>1
      <4> QED BY <1>2, <3>1, <3>4, <4>1
    <3>5. CASE t.op = "end" /\ y = D
      <4>1. N + 1 \in i + 1 .. N + 1 /\ (N + 1) + 1 = N + 2
        BY <2>1
      <4>2. Closes(sr, w, i, N + 1)
        BY <1>2, <3>1, <3>5, <4>1 DEF Closes
      <4> QED BY <4>2
    <3> QED BY <3>3, <3>4, <3>5
  <2>6. \/ \A m \in i + 1 .. N + 1 : Depth(rs, m) > Depth(rs, i)
        \/ \E c : Closes(rs, p, i, c)
    BY <2>1 DEF Shut
  <2> QED BY <2>1, <2>4, <2>5, <2>6
<1> QED BY <1>4, <1>5

\* The walk goes on to the checker c and the constructs r after N + 1 tokens.
Prolongs(cs, rs, sc, sr, N, c, r) == sc = [cs EXCEPT ![N + 2] = c] /\ sr = [rs EXCEPT ![N + 2] = r]

\* One token more.
LEMMA WalkOn ==
    ASSUME NEW S, NEW p \in Seq(S), NEW N, N = Len(p), NEW t \in S, NEW ops, NEW cs, NEW rs, Walk(cs, rs, p, ops),
           NEW c \in Checker, NEW r \in Seq(RoomType),
           NEW sc, NEW sr, Prolongs(cs, rs, sc, sr, N, c, r),
           Follows(sc, sr, N + 1, t, ops)
    PROVE  Walk(sc, sr, Append(p, t), ops)
<1> DEFINE w == Append(p, t)
<1>1. /\ N \in Nat /\ Len(w) = N + 1 /\ w[N + 1] = t /\ \A m \in 1 .. N : w[m] = p[m]
  BY LenProperties, AppendProperties
<1> HIDE DEF w
<1>2. Paces(cs, rs)
  BY DEF Walk
<1>3. Paces(sc, sr)
  <2>1. N + 2 \in Nat
    BY <1>1
  <2> QED BY <1>2, <2>1 DEF Paces, Prolongs
<1>4. \A m \in Nat : m # N + 2 => sc[m] = cs[m] /\ sr[m] = rs[m]
  BY <1>1, <1>2 DEF Paces, Prolongs
<1>5. \A m \in 0 .. N + 1 : sc[m] = cs[m] /\ sr[m] = rs[m]
  BY <1>1, <1>4
<1>6. ASSUME NEW i \in 0 .. N + 1 PROVE Placed(sc, sr, i, ops)
  <2>1. Placed(cs, rs, i, ops) /\ i \in Nat
    BY <1>1 DEF Walk
  <2>2. \A m \in 0 .. i : sc[m] = cs[m] /\ sr[m] = rs[m]
    <3>1. 0 .. i \subseteq 0 .. N + 1
      BY <1>1
    <3> QED BY <1>5, <3>1
  <2> QED BY <1>2, <2>1, <2>2, PlacedSame
<1>7. Placed(sc, sr, N + 2, ops)
  <2>1. N + 1 \in Nat /\ (N + 1) + 1 = N + 2
    BY <1>1
  <2>2. Placed(sc, sr, (N + 1) + 1, ops)
    BY <1>3, <1>6, <2>1, PlacedOn
  <2> QED BY <2>1, <2>2
<1>8. \A i \in 0 .. (N + 1) + 1 : Placed(sc, sr, i, ops)
  <2>1. \A i \in 0 .. (N + 1) + 1 : i \in 0 .. N + 1 \/ i = N + 2
    BY <1>1
  <2> QED BY <1>6, <1>7, <2>1
<1>9. ASSUME NEW i \in 1 .. N + 1 PROVE Follows(sc, sr, i, w[i], ops)
  <2>1. CASE i \in 1 .. N
    <3>1. Follows(cs, rs, i, p[i], ops)
      BY <2>1 DEF Walk
    <3>2. i \in Nat /\ Placed(cs, rs, i, ops)
      BY <1>1, <2>1 DEF Walk
    <3>3. \A m \in 0 .. i + 1 : sc[m] = cs[m] /\ sr[m] = rs[m]
      <4>1. 0 .. i + 1 \subseteq 0 .. N + 1
        BY <1>1, <2>1
      <4> QED BY <1>5, <4>1
    <3>4. Follows(sc, sr, i, p[i], ops)
      BY <1>2, <3>1, <3>2, <3>3, FollowsSame
    <3> QED BY <1>1, <2>1, <3>4
  <2>2. CASE i = N + 1
    BY <1>1, <2>2
  <2> QED BY <1>1, <2>1, <2>2
<1>10. \A m \in 1 .. N + 1 : Depth(sr, m) = Depth(rs, m)
  <2>1. 1 .. N + 1 \subseteq 0 .. N + 1
    BY <1>1
  <2> QED BY <1>5, <2>1 DEF Depth
<1>11. \A m \in 1 .. N + 2 : Depth(sr, m) \in Nat
  <2>1. \A m \in Nat : Depth(sr, m) \in Nat
    BY <1>3, RoomAt
  <2> QED BY <1>1, <2>1
<1>12. Rise(t, Depth(sr, N + 1), Depth(sr, N + 2))
  <2>1. N + 1 \in Nat /\ (N + 1) + 1 = N + 2
    BY <1>1
  <2>2. Rise(t, Depth(sr, N + 1), Depth(sr, (N + 1) + 1))
    BY <1>3, <2>1, FollowsRise
  <2> QED BY <2>1, <2>2
<1>13. \A m \in 1 .. N : Depth(rs, m) > 0
  BY <1>1 DEF Walk, Follows, Depth
<1>14. Unfinished(p, N)
  <2> SUFFICES ASSUME N > 0, p[N].op = "eof" PROVE FALSE
    BY DEF Unfinished
  <2>1. N \in 1 .. N
    BY <1>1
  <2>2. Rise(p[N], Depth(rs, N), Depth(rs, N + 1))
    BY <1>1, <1>2, <2>1, FollowsRise DEF Walk
  <2>3. Depth(rs, N + 1) = 0
    BY <2>2 DEF Rise
  <2>4. Depth(sr, N + 1) = 0
    <3>1. N + 1 \in 1 .. N + 1
      BY <1>1
    <3> QED BY <1>10, <2>3, <3>1
  <2> QED BY <1>12, <2>4 DEF Rise
<1>15. Measured(sr, w)
  <2>1. Measured(rs, p)
    BY DEF Walk
  <2> QED BY <1>1, <1>10, <1>11, <1>12, <1>14, <2>1, MeasuredOn
<1>16. Shut(sr, w)
  <2>1. Shut(rs, p)
    BY DEF Walk
  <2> QED BY <1>1, <1>10, <1>11, <1>12, <1>13, <2>1, ShutOn
<1>17. sc[0] = Empty /\ sr[0] = <<>> /\ sc[1] = PushScope(Empty) /\ sr[1] = <<Room("body", 0, 0, {})>>
  <2>1. 0 \in 0 .. N + 1 /\ 1 \in 0 .. N + 1
    BY <1>1
  <2> QED BY <1>5, <2>1 DEF Walk
<1>18. Walk(sc, sr, w, ops)
  BY <1>1, <1>3, <1>8, <1>9, <1>15, <1>16, <1>17 DEF Walk
<1> QED BY <1>18 DEF w

\* No token yet.
LEMMA WalkFirst == ASSUME NEW ops PROVE \E cs, rs : Walk(cs, rs, <<>>, ops)
<1> DEFINE U == Room("body", 0, 0, {})
           cs == [m \in Nat |-> IF m = 0 THEN Empty ELSE PushScope(Empty)]
           rs == [m \in Nat |-> IF m = 0 THEN <<>> ELSE <<U>>]
<1>1. Empty \in Checker /\ PushScope(Empty) \in Checker
  BY EmptyAccepted, PushScopeFrame DEF Accepted
<1>2. U \in RoomType
  BY RoomFields
<1>3. <<>> \in Seq(RoomType) /\ <<U>> \in Seq(RoomType)
  BY <1>2
<1> HIDE DEF U
<1>4. cs \in [Nat -> Checker] /\ rs \in [Nat -> Seq(RoomType)]
  BY <1>1, <1>3
<1>5. cs[0] = Empty /\ cs[1] = PushScope(Empty) /\ rs[0] = <<>> /\ rs[1] = <<U>>
  OBVIOUS
<1> HIDE DEF cs, rs
<1>6. Paces(cs, rs)
  BY <1>4 DEF Paces
<1>7. Placed(cs, rs, 0, ops) /\ Placed(cs, rs, 1, ops)
  BY <1>5, <1>6, PlacedFirst DEF U
<1>8. Len(<<>>) = 0
  OBVIOUS
<1>9. \A i \in 0 .. 0 + 1 : i = 0 \/ i = 1
  OBVIOUS
<1>10. Walk(cs, rs, <<>>, ops)
  BY <1>5, <1>6, <1>7, <1>8, <1>9 DEF Walk, Measured, Shut, U
<1> QED BY <1>10

-----------------------------------------------------------------------------
(* The shape of a program that was accepted: where its constructs end and  *)
(* where their second branches begin.                                      *)

\* The walk is over.
Complete(cs, rs, N, ops) ==
    N \in Nat /\ Len(prog) = N /\ Walk(cs, rs, prog, ops) /\ Depth(rs, N + 1) = 0

\* What is known at a token.
LEMMA AtToken ==
    ASSUME NEW ops, NEW cs, NEW rs, NEW N, Complete(cs, rs, N, ops), NEW i \in 1 .. N
    PROVE  /\ i \in Nat /\ Paces(cs, rs) /\ Follows(cs, rs, i, prog[i], ops)
           /\ Rise(prog[i], Depth(rs, i), Depth(rs, i + 1))
           /\ Depth(rs, i) \in Nat /\ Depth(rs, i + 1) \in Nat
           /\ \A m \in 0 .. i + 1 : Placed(cs, rs, m, ops)
<1>1. /\ i \in Nat /\ Paces(cs, rs) /\ Follows(cs, rs, i, prog[i], ops)
      /\ \A m \in 0 .. i + 1 : Placed(cs, rs, m, ops)
  <2>1. 0 .. i + 1 \subseteq 0 .. N + 1
    BY DEF Complete
  <2>2. i \in 1 .. Len(prog) /\ i \in Nat
    BY DEF Complete
  <2> QED BY <2>1, <2>2 DEF Complete, Walk
<1>2. Depth(rs, i) \in Nat /\ Depth(rs, i + 1) \in Nat
  <2>1. \A m \in Nat : Depth(rs, m) \in Nat
    BY <1>1, RoomAt
  <2>2. i + 1 \in Nat
    OBVIOUS
  <2> QED BY <2>1, <2>2
<1>3. Rise(prog[i], Depth(rs, i), Depth(rs, i + 1))
  BY <1>1, FollowsRise
<1> QED BY <1>1, <1>2, <1>3

\* The instance of OwnRun counts as this module does.
LEMMA SameCardinality == \A S : R!Cardinality(S) = Cardinality(S)
BY DEF R!Cardinality, Cardinality

\* The nesting that the program counts is that of the walk.
LEMMA NestDepth ==
    ASSUME NEW ops, NEW cs, NEW rs, NEW N, Complete(cs, rs, N, ops), NEW i \in 1 .. N, NEW j \in i .. N,
           Depth(rs, j + 1) > 0
    PROVE  R!Nest(i, j) = Depth(rs, j + 1) - Depth(rs, i)
<1>1. j \in 1 .. N /\ i \in 1 .. Len(prog) /\ j \in 1 .. Len(prog) /\ i <= j
  BY DEF Complete
<1>2. prog[j].op # "eof"
  <2>1. Rise(prog[j], Depth(rs, j), Depth(rs, j + 1))
    BY <1>1, AtToken
  <2> QED BY <2>1 DEF Rise
<1>3. Measured(rs, prog)
  BY DEF Complete, Walk
<1>4. Cardinality(OpenersIn(prog, i, j)) - Cardinality(EndsIn(prog, i, j)) = Depth(rs, j + 1) - Depth(rs, i)
  BY <1>1, <1>2, <1>3 DEF Measured
<1>5. R!Nest(i, j) = R!Cardinality(OpenersIn(prog, i, j)) - R!Cardinality(EndsIn(prog, i, j))
  BY DEF R!Nest, OpenersIn, EndsIn
<1> QED BY <1>4, <1>5, SameCardinality

\* Where the construct opened at i ends.
LEMMA CloseAt ==
    ASSUME NEW ops, NEW cs, NEW rs, NEW N, Complete(cs, rs, N, ops), NEW i \in 1 .. N,
           NEW c, Closes(rs, prog, i, c)
    PROVE  R!CloseOf(i) = c
<1> DEFINE Q(j) == R!Nest(i, j) = 0 /\ \A m \in i .. j - 1 : R!Nest(i, m) > 0
           E == (i + 1) .. Len(prog)
<1>1. N \in Nat /\ Len(prog) = N
  BY DEF Complete
<1>2. /\ c \in E /\ c \in 1 .. N /\ Depth(rs, c + 1) = Depth(rs, i)
      /\ \A m \in i + 1 .. c : Depth(rs, m) > Depth(rs, i)
  BY <1>1 DEF Closes
<1>3. Depth(rs, i) \in Nat /\ Depth(rs, i) > 0
  BY AtToken DEF Rise
<1>4. ASSUME NEW m \in i .. c - 1 PROVE R!Nest(i, m) > 0
  <2>1. m \in i .. N /\ m \in 1 .. N /\ m + 1 \in i + 1 .. c
    BY <1>1, <1>2
  <2>2. Depth(rs, m + 1) > Depth(rs, i) /\ Depth(rs, m + 1) \in Nat
    BY <1>2, <2>1, AtToken
  <2>3. Depth(rs, m + 1) > 0
    BY <1>3, <2>2
  <2>4. R!Nest(i, m) = Depth(rs, m + 1) - Depth(rs, i)
    BY <2>1, <2>3, NestDepth
  <2> QED BY <1>3, <2>2, <2>4
<1>5. R!Nest(i, c) = 0
  <2>1. c \in i .. N /\ Depth(rs, c + 1) > 0
    BY <1>1, <1>2, <1>3
  <2>2. R!Nest(i, c) = Depth(rs, c + 1) - Depth(rs, i)
    BY <2>1, NestDepth
  <2> QED BY <1>2, <1>3, <2>2
<1>6. Q(c)
  BY <1>4, <1>5
<1>7. ASSUME NEW j \in E, Q(j) PROVE j = c
  <2>1. CASE j < c
    <3>1. j \in i .. c - 1
      BY <1>2, <2>1
    <3>2. R!Nest(i, j) > 0
      BY <1>4, <3>1
    <3> QED BY <1>7, <3>2
  <2>2. CASE c < j
    <3>1. c \in i .. j - 1
      BY <1>2, <2>2
    <3>2. R!Nest(i, c) > 0
      BY <1>7, <3>1
    <3> QED BY <1>5, <3>2
  <2> QED BY <1>2, <2>1, <2>2
<1>8. R!CloseOf(i) = CHOOSE j \in E : Q(j)
  BY DEF R!CloseOf
<1> HIDE DEF Q, E
<1> QED BY <1>2, <1>6, <1>7, <1>8

\* It does end.
LEMMA ClosesOnce ==
    ASSUME NEW ops, NEW cs, NEW rs, NEW N, Complete(cs, rs, N, ops), NEW i \in 1 .. N,
           prog[i].op \in R!Openers
    PROVE  Closes(rs, prog, i, R!CloseOf(i))
<1>1. i \in 1 .. Len(prog) /\ Len(prog) = N /\ N \in Nat /\ Shut(rs, prog) /\ Depth(rs, N + 1) = 0
  BY DEF Complete, Walk
<1>2. Depth(rs, i) > 0 /\ N + 1 \in i + 1 .. N + 1 /\ Depth(rs, i) \in Nat
  BY <1>1, AtToken DEF Rise
<1>3. \E c : Closes(rs, prog, i, c)
  <2>1. \/ \A m \in i + 1 .. Len(prog) + 1 : Depth(rs, m) > Depth(rs, i)
        \/ \E c : Closes(rs, prog, i, c)
    BY <1>1 DEF Shut
  <2> QED BY <1>1, <1>2, <2>1
<1> QED BY <1>3, CloseAt

\* One level below token i, until its construct closes, everything is in it.
LEMMA SameLevel ==
    ASSUME NEW ops, NEW cs, NEW rs, NEW N, Complete(cs, rs, N, ops), NEW i \in 1 .. N, NEW j \in i + 1 .. N,
           \A m \in i + 1 .. j : Depth(rs, m) > Depth(rs, i), Depth(rs, j) = Depth(rs, i) + 1,
           NEW T, T = Inmost(rs[j])
    PROVE  Tops(cs, rs, j, T, Depth(rs, i) + 1) /\ T.open = i
<1>1. j \in 1 .. N /\ Depth(rs, i) \in Nat
  BY AtToken
<1>2. Paces(cs, rs) /\ Placed(cs, rs, j, ops) /\ Len(rs[j]) > 0 /\ j \in Nat
  <2>1. j \in 0 .. j + 1
    BY <1>1
  <2> QED BY <1>1, <2>1, AtToken DEF Follows
<1>3. Tops(cs, rs, j, T, Depth(rs, i) + 1)
  <2>1. Tops(cs, rs, j, T, Depth(rs, j))
    BY <1>2, TopOf
  <2> QED BY <2>1
<1>4. PICK o, D : o = T.open /\ D = Depth(rs, i)
  OBVIOUS
<1>5. D \in Nat /\ o \in 0 .. j - 1 /\ o = OpenOf(rs, j, D + 1) /\ Depth(rs, o) = D /\ Lasts(rs, j, D + 1)
  BY <1>1, <1>3, <1>4 DEF Tops
<1>6. \A m \in o + 1 .. j : Depth(rs, m) >= D + 1
  BY <1>5 DEF Lasts
<1>7. ~(o < i)
  <2>1. o < i => i \in o + 1 .. j
    BY <1>1, <1>5
  <2> QED BY <1>4, <1>5, <1>6, <2>1
<1>8. ~(o > i)
  <2>1. o > i => o \in i + 1 .. j
    BY <1>1, <1>5
  <2> QED BY <1>4, <1>5, <2>1
<1> QED BY <1>3, <1>4, <1>5, <1>7, <1>8

\* The room that token i opens, as it is right after it.
LEMMA RoomOpened ==
    ASSUME NEW ops, NEW cs, NEW rs, NEW N, Complete(cs, rs, N, ops), NEW i \in 1 .. N,
           prog[i].op \in R!Openers
    PROVE  /\ Opening(cs, rs, i, prog[i]) /\ prog[i].op \in {"block", "if", "while"}
           /\ Depth(rs, i + 1) = Depth(rs, i) + 1
           /\ KindOf(rs, i + 1, Depth(rs, i) + 1) = PartOf(prog[i].op)
<1>1. PICK t, U, q, y : t = prog[i] /\ U = Room(PartOf(t.op), i, i, {}) /\ q = rs[i] /\ y = rs[i + 1]
  OBVIOUS
<1>2. i \in Nat /\ Paces(cs, rs) /\ Follows(cs, rs, i, t, ops) /\ Rise(t, Depth(rs, i), Depth(rs, i + 1))
  BY <1>1, AtToken
<1>3. Opening(cs, rs, i, t)
  BY <1>1, <1>2 DEF Follows, Straightly, Elsewise, Ending, Finishing, StraightWords, R!Openers
<1>4. t.op \in {"block", "if", "while"} /\ y = Append(q, U)
  BY <1>1, <1>3 DEF Opening
<1>5. U \in RoomType /\ U.part = PartOf(t.op)
  <2>1. PartOf(t.op) \in {"block", "then", "while"}
    BY <1>4 DEF PartOf
  <2> QED BY <1>1, <1>2, <2>1, RoomFields
<1>6. y[Len(q) + 1] = U
  <2>1. q \in Seq(RoomType)
    BY <1>1, <1>2, PaceAt
  <2>2. Builds(q, U, y)
    BY <1>4, <1>5, <2>1, RoomAdded
  <2> QED BY <2>2 DEF Builds
<1>7. Depth(rs, i + 1) = Depth(rs, i) + 1
  BY <1>1, <1>2 DEF Rise
<1>8. KindOf(rs, i + 1, Depth(rs, i) + 1) = PartOf(t.op)
  BY <1>1, <1>5, <1>6 DEF KindOf, Depth
<1> QED BY <1>1, <1>3, <1>4, <1>7, <1>8

\* The part a construct begins with.
First(part) == IF part = "else" THEN "then" ELSE part

\* The innermost construct before token j began with its first part.
LEMMA FirstKind ==
    ASSUME NEW ops, NEW cs, NEW rs, NEW N, Complete(cs, rs, N, ops), NEW j \in 1 .. N,
           NEW T, NEW d, Tops(cs, rs, j, T, d)
    PROVE  KindOf(rs, T.open + 1, d) = First(T.part)
<1>1. PICK o, a, K : o = T.open /\ a = T.at /\ K = T.part
  OBVIOUS
<1>2. /\ d \in Nat /\ d > 0 /\ o \in 0 .. j - 1 /\ a \in o .. j - 1 /\ Lasts(rs, j, d)
      /\ o = OpenOf(rs, j, d) /\ a = AtOf(rs, j, d) /\ K = KindOf(rs, j, d)
  BY <1>1 DEF Tops
<1>3. CASE K # "else"
  <2>1. a = o /\ o + 1 \in a + 1 .. j
    BY <1>2, <1>3 DEF Lasts
  <2>2. KindOf(rs, o + 1, d) = K
    BY <1>2, <2>1 DEF Lasts
  <2> QED BY <1>1, <1>3, <2>2 DEF First
<1>4. CASE K = "else"
  <2>1. o < a /\ Depth(rs, a) = d /\ KindOf(rs, a, d) = "then" /\ OpenOf(rs, a, d) = o
    <3>1. o < a /\ Depth(rs, a) = d /\ KindOf(rs, a, d) = "then"
      BY <1>2, <1>4 DEF Lasts
    <3>2. a \in o + 1 .. j
      BY <1>2, <3>1
    <3> QED BY <1>2, <3>1, <3>2 DEF Lasts
  <2>2. a \in 0 .. j + 1 /\ a \in Nat
    BY <1>2
  <2>3. Placed(cs, rs, a, ops)
    BY <2>2, AtToken
  <2>4. Lasts(rs, a, d)
    <3>1. d \in 1 .. Len(rs[a])
      BY <1>2, <2>1 DEF Depth
    <3> QED BY <2>3, <3>1 DEF Placed
  <2>5. AtOf(rs, a, d) = o /\ o + 1 \in o + 1 .. a
    <3>1. AtOf(rs, a, d) = o
      BY <2>1, <2>4 DEF Lasts
    <3> QED BY <1>2, <2>1, <3>1
  <2>6. KindOf(rs, o + 1, d) = "then"
    BY <2>1, <2>4, <2>5 DEF Lasts
  <2> QED BY <1>1, <1>4, <2>6 DEF First
<1> QED BY <1>3, <1>4

\* Token i opened the innermost of the d constructs open before token j.
Opener(rs, i, j, d) ==
    /\ i \in 1 .. j - 1 /\ prog[i].op \in R!Openers /\ d = Depth(rs, i) + 1
    /\ \A m \in i + 1 .. j : Depth(rs, m) > Depth(rs, i)

\* A construct other than the body was opened by a token.
LEMMA OpenedBy ==
    ASSUME NEW ops, NEW cs, NEW rs, NEW N, Complete(cs, rs, N, ops), NEW j \in 1 .. N,
           NEW T, NEW d, Tops(cs, rs, j, T, d), T.part # "body"
    PROVE  Opener(rs, T.open, j, d)
<1>1. PICK o : o = T.open
  OBVIOUS
<1>2. d \in Nat /\ d > 0 /\ o \in 0 .. j - 1 /\ o = OpenOf(rs, j, d) /\ Lasts(rs, j, d) /\ Depth(rs, o) = d - 1
  BY <1>1 DEF Tops
<1>3. KindOf(rs, o + 1, d) # "body"
  BY <1>1, FirstKind DEF First
<1>4. o # 0
  <2> SUFFICES ASSUME o = 0 PROVE FALSE
    OBVIOUS
  <2>1. rs[0] = <<>> /\ rs[1] = <<Room("body", 0, 0, {})>>
    BY DEF Complete, Walk
  <2>2. d = 1
    <3>1. Depth(rs, o) = 0
      BY <2>1, EmptySeq DEF Depth
    <3> QED BY <1>2, <3>1
  <2>3. KindOf(rs, 1, 1) = "body"
    BY <2>1 DEF KindOf, Room
  <2> QED BY <1>3, <2>2, <2>3
<1>5. o \in 1 .. j - 1 /\ o \in 1 .. N
  BY <1>2, <1>4 DEF Complete
<1>6. PICK D : D = Depth(rs, o)
  OBVIOUS
<1>7. D \in Nat /\ d = D + 1 /\ \A m \in o + 1 .. j : Depth(rs, m) >= d
  BY <1>2, <1>5, <1>6, AtToken DEF Lasts
<1>8. \A m \in o + 1 .. j : Depth(rs, m) > D
  <2>1. \A m \in o + 1 .. j : Depth(rs, m) \in Nat
    <3>1. \A m \in o + 1 .. j : m \in 1 .. N
      BY <1>5 DEF Complete
    <3> QED BY <3>1, AtToken
  <2> QED BY <1>7, <2>1
<1>9. prog[o].op \in R!Openers
  <2>1. o + 1 \in o + 1 .. j
    BY <1>5
  <2>2. Rise(prog[o], D, Depth(rs, o + 1)) /\ Depth(rs, o + 1) > D
    BY <1>5, <1>6, <1>8, <2>1, AtToken
  <2> QED BY <1>7, <2>2 DEF Rise
<1> QED BY <1>1, <1>5, <1>6, <1>7, <1>8, <1>9 DEF Opener

\* A part ends with its construct, T, at token c, opened by token i.
Shuts(cs, rs, i, c, T) ==
    /\ c \in Nat /\ c > i /\ Tops(cs, rs, c, T, Depth(rs, i) + 1) /\ T.open = i
    /\ T = Inmost(rs[c]) /\ Ending(cs, rs, c, prog[c]) /\ rs[c + 1] = rs[i]

\* How the construct that token i opens ends.
LEMMA ClosePart ==
    ASSUME NEW ops, NEW cs, NEW rs, NEW N, Complete(cs, rs, N, ops), NEW i \in 1 .. N,
           prog[i].op \in R!Openers, NEW c, c = R!CloseOf(i), NEW T, T = Inmost(rs[c])
    PROVE  /\ Shuts(cs, rs, i, c, T) /\ First(T.part) = PartOf(prog[i].op)
           /\ c \in i + 1 .. N /\ Closes(rs, prog, i, c)
<1>1. PICK D : D = Depth(rs, i)
  OBVIOUS
<1>2. Closes(rs, prog, i, c)
  BY ClosesOnce
<1>3. c \in i + 1 .. N /\ c \in 1 .. N /\ prog[c].op = "end" /\ Depth(rs, c + 1) = D
      /\ \A m \in i + 1 .. c : Depth(rs, m) > Depth(rs, i)
  BY <1>1, <1>2 DEF Closes, Complete
<1>4. D \in Nat /\ Rise(prog[c], Depth(rs, c), D) /\ Depth(rs, c) \in Nat
  BY <1>1, <1>3, AtToken
<1>5. Depth(rs, c) = Depth(rs, i) + 1
  BY <1>1, <1>3, <1>4 DEF Rise
<1>6. Tops(cs, rs, c, T, Depth(rs, i) + 1) /\ T.open = i
  BY <1>3, <1>5, SameLevel
<1>7. Ending(cs, rs, c, prog[c])
  <2>1. Follows(cs, rs, c, prog[c], ops)
    BY <1>3, AtToken
  <2> QED BY <1>3, <2>1 DEF Follows, Straightly, Opening, Elsewise, Finishing, StraightWords
<1>8. rs[c + 1] = rs[i]
  <2>1. Around(rs[c]) = rs[i]
    BY <1>6 DEF Tops
  <2> QED BY <1>7, <2>1 DEF Ending
<1>9. Shuts(cs, rs, i, c, T)
  <2>1. c \in Nat /\ c > i
    BY <1>3
  <2> QED BY <1>6, <1>7, <1>8, <2>1 DEF Shuts
<1>10. First(T.part) = PartOf(prog[i].op)
  <2>1. KindOf(rs, i + 1, Depth(rs, i) + 1) = First(T.part)
    BY <1>3, <1>6, FirstKind
  <2> QED BY <2>1, RoomOpened
<1> QED BY <1>2, <1>3, <1>9, <1>10

\* The end of a construct closes the one it is in.
LEMMA EndCloses ==
    ASSUME NEW ops, NEW cs, NEW rs, NEW N, Complete(cs, rs, N, ops), NEW j \in 1 .. N,
           Ending(cs, rs, j, prog[j]), NEW T, T = Inmost(rs[j]), NEW d, Tops(cs, rs, j, T, d)
    PROVE  Opener(rs, T.open, j, d) /\ R!CloseOf(T.open) = j
<1>1. PICK i : i = T.open
  OBVIOUS
<1>2. T.part # "body" /\ prog[j].op = "end"
  BY DEF Ending
<1>3. Opener(rs, i, j, d)
  BY <1>1, <1>2, OpenedBy
<1>4. i \in 1 .. N /\ j \in i + 1 .. N /\ d = Depth(rs, i) + 1
      /\ \A m \in i + 1 .. j : Depth(rs, m) > Depth(rs, i)
  BY <1>3 DEF Opener, Complete
<1>5. Depth(rs, i) \in Nat /\ Rise(prog[j], Depth(rs, j), Depth(rs, j + 1)) /\ Depth(rs, j) \in Nat
  BY <1>4, AtToken
<1>6. Depth(rs, j) = d
  <2>1. j \in Nat /\ Paces(cs, rs) /\ Placed(cs, rs, j, ops) /\ Len(rs[j]) > 0
    <3>1. j \in 0 .. j + 1
      OBVIOUS
    <3> QED BY <3>1, AtToken DEF Follows
  <2>2. Tops(cs, rs, j, T, Depth(rs, j))
    BY <2>1, TopOf
  <2>3. PICK x, y, z : x = Depth(rs, j) /\ y = Depth(rs, T.open) /\ z = d
    OBVIOUS
  <2>4. y = x - 1 /\ y = z - 1 /\ x \in Nat /\ z \in Nat
    BY <2>2, <2>3 DEF Tops
  <2> QED BY <2>3, <2>4
<1>7. Depth(rs, j + 1) = Depth(rs, i)
  BY <1>2, <1>4, <1>5, <1>6 DEF Rise
<1>8. Closes(rs, prog, i, j)
  <2>1. j \in i + 1 .. Len(prog)
    BY <1>4 DEF Complete
  <2> QED BY <1>2, <1>4, <1>7, <2>1 DEF Closes
<1>9. R!CloseOf(i) = j
  BY <1>4, <1>8, CloseAt
<1> QED BY <1>1, <1>3, <1>9

\* The second branch of a construct.
LEMMA ElseAt ==
    ASSUME NEW ops, NEW cs, NEW rs, NEW N, Complete(cs, rs, N, ops), NEW i \in 1 .. N,
           prog[i].op \in R!Openers, NEW j \in R!Middle(i, {"else"}), NEW T, T = Inmost(rs[j])
    PROVE  /\ j \in 1 .. N /\ Elsewise(cs, rs, j, prog[j])
           /\ Tops(cs, rs, j, T, Depth(rs, i) + 1) /\ T.open = i
<1>1. PICK c : c = R!CloseOf(i)
  OBVIOUS
<1>2. Closes(rs, prog, i, c)
  BY <1>1, ClosesOnce
<1>3. c \in i + 1 .. N /\ prog[c].op = "end" /\ \A m \in i + 1 .. c : Depth(rs, m) > Depth(rs, i)
  BY <1>2 DEF Closes, Complete
<1>4. j \in i + 1 .. c /\ prog[j].op = "else" /\ R!Nest(i, j) = 1
  <2>1. R!Middle(i, {"else"}) = {m \in i + 1 .. R!CloseOf(i) : prog[m].op \in {"else"} /\ R!Nest(i, m) = 1}
    BY DEF R!Middle
  <2> QED BY <1>1, <2>1
<1>5. j \in 1 .. N /\ j \in i + 1 .. N /\ j \in i .. N /\ \A m \in i + 1 .. j : m \in i + 1 .. c
  <2>1. j \in Int /\ i \in Nat /\ c \in Int /\ c <= N /\ i + 1 <= j /\ j <= c /\ N \in Nat
    <3>1. N \in Nat
      BY DEF Complete
    <3>2. i \in 1 .. N
      OBVIOUS
    <3> QED BY <1>3, <1>4, <3>1, <3>2
  <2> QED BY <2>1
<1>6. Follows(cs, rs, j, prog[j], ops) /\ Rise(prog[j], Depth(rs, j), Depth(rs, j + 1))
      /\ Depth(rs, i) \in Nat /\ Depth(rs, j) \in Nat
  BY <1>5, AtToken
<1>7. Elsewise(cs, rs, j, prog[j])
  BY <1>4, <1>6 DEF Follows, Straightly, Opening, Ending, Finishing, StraightWords
<1>8. Depth(rs, j + 1) = Depth(rs, j) /\ Depth(rs, j + 1) > 0
  <2>1. prog[j].op \notin R!Openers \cup {"end", "eof"}
    BY <1>4 DEF R!Openers
  <2> QED BY <1>6, <2>1 DEF Rise
<1>9. Depth(rs, j) = Depth(rs, i) + 1
  <2>1. R!Nest(i, j) = Depth(rs, j + 1) - Depth(rs, i)
    BY <1>5, <1>8, NestDepth
  <2> QED BY <1>4, <1>6, <1>8, <2>1
<1>10. \A m \in i + 1 .. j : Depth(rs, m) > Depth(rs, i)
  BY <1>3, <1>5
<1> QED BY <1>5, <1>7, <1>9, <1>10, SameLevel

\* Only a second branch begins a new part.
LEMMA PartBegins ==
    ASSUME NEW ops, NEW cs, NEW rs, NEW N, Complete(cs, rs, N, ops), NEW a \in 1 .. N,
           Depth(rs, a + 1) >= Depth(rs, a),
           KindOf(rs, a + 1, Depth(rs, a)) # KindOf(rs, a, Depth(rs, a))
    PROVE  prog[a].op = "else"
<1>1. PICK q, y, T : q = rs[a] /\ y = rs[a + 1] /\ T = Inmost(rs[a])
  OBVIOUS
<1>2. PICK d : d = Depth(rs, a)
  OBVIOUS
<1>3. Paces(cs, rs) /\ Follows(cs, rs, a, prog[a], ops) /\ Len(q) > 0 /\ a \in Nat /\ d = Len(q)
      /\ Depth(rs, a) \in Nat /\ Rise(prog[a], d, Depth(rs, a + 1))
  BY <1>1, <1>2, AtToken DEF Follows, Depth
<1>4. q \in Seq(RoomType)
  BY <1>1, <1>3, PaceAt
<1>5. /\ d \in Nat /\ T \in RoomType /\ Around(q) \in Seq(RoomType) /\ Len(Around(q)) = d - 1 /\ T = q[d]
  <2>1. /\ Len(q) \in Nat /\ Inmost(q) \in RoomType
        /\ Around(q) \in Seq(RoomType) /\ Len(Around(q)) = Len(q) - 1
    BY <1>3, <1>4, TopRoom
  <2> QED BY <1>1, <1>3, <2>1 DEF Inmost
<1>6. \A r \in Seq(RoomType) : \A e \in RoomType : Append(r, e)[Len(r) + 1] = e
  OBVIOUS
<1>7. T.part \in {"body", "block", "then", "else", "while"} /\ T.open \in Nat /\ T.at \in Nat
      /\ T.bound \in SUBSET Names
  BY <1>5 DEF RoomType
<1>8. ~Straightly(cs, rs, a, prog[a], ops)
  <2> SUFFICES ASSUME Straightly(cs, rs, a, prog[a], ops) PROVE FALSE
    OBVIOUS
  <2>1. PICK bound : bound = T.bound \cup Declared(prog[a])
    OBVIOUS
  <2>2. PICK U : U = Room(T.part, T.open, T.at, bound)
    OBVIOUS
  <2>3. y = Append(Around(q), U) /\ bound \in SUBSET Names
    <3>1. Declared(prog[a]) \subseteq Names
      BY DEF Straightly
    <3> QED BY <1>1, <1>7, <2>1, <2>2, <3>1 DEF Straightly
  <2>4. U \in RoomType /\ U.part = T.part
    BY <1>7, <2>2, <2>3, RoomFields
  <2>5. y[d] = U
    <3>1. Builds(Around(q), U, y)
      BY <1>5, <2>3, <2>4, RoomAdded
    <3>2. y[Len(Around(q)) + 1] = U
      BY <3>1 DEF Builds
    <3> QED BY <1>5, <3>2
  <2>6. KindOf(rs, a + 1, d) = KindOf(rs, a, d)
    BY <1>1, <1>5, <2>4, <2>5 DEF KindOf
  <2> QED BY <1>2, <2>6
<1>9. ~Opening(cs, rs, a, prog[a])
  <2> SUFFICES ASSUME Opening(cs, rs, a, prog[a]) PROVE FALSE
    OBVIOUS
  <2>1. PICK U : Opens(cs, rs, a, U)
    BY <1>3, OpeningOpens
  <2>2. U \in RoomType /\ y = Append(q, U)
    BY <1>1, <2>1 DEF Opens
  <2>3. Builds(q, U, y)
    BY <1>4, <2>2, RoomAdded
  <2>4. y[d] = q[d]
    <3>1. d \in 1 .. Len(q)
      BY <1>3, <1>5
    <3> QED BY <2>3, <3>1 DEF Builds
  <2>5. KindOf(rs, a + 1, d) = KindOf(rs, a, d)
    BY <1>1, <2>4 DEF KindOf
  <2> QED BY <1>2, <2>5
<1>10. ~Ending(cs, rs, a, prog[a]) /\ ~Finishing(cs, rs, a, prog[a])
  <2>1. prog[a].op # "end" /\ prog[a].op # "eof"
    BY <1>2, <1>3, <1>5 DEF Rise
  <2> QED BY <2>1 DEF Ending, Finishing
<1>11. Elsewise(cs, rs, a, prog[a])
  BY <1>3, <1>8, <1>9, <1>10 DEF Follows
<1> QED BY <1>11 DEF Elsewise

\* A conditional with no second branch ends with the first.
LEMMA NoElse ==
    ASSUME NEW ops, NEW cs, NEW rs, NEW N, Complete(cs, rs, N, ops), NEW i \in 1 .. N,
           prog[i].op = "if", R!Middle(i, {"else"}) = {}, NEW c, c = R!CloseOf(i), NEW T, T = Inmost(rs[c])
    PROVE  Shuts(cs, rs, i, c, T) /\ T.part = "then" /\ c \in 1 .. N
<1>1. prog[i].op \in R!Openers /\ PartOf(prog[i].op) = "then"
  BY DEF R!Openers, PartOf
<1>2. /\ Shuts(cs, rs, i, c, T) /\ First(T.part) = "then" /\ c \in i + 1 .. N
      /\ \A m \in i + 1 .. c : Depth(rs, m) > Depth(rs, i)
  BY <1>1, ClosePart DEF Closes
<1>3. T.part # "else"
  <2> SUFFICES ASSUME T.part = "else" PROVE FALSE
    OBVIOUS
  <2>1. PICK a, d, D : a = T.at /\ d = Depth(rs, i) + 1 /\ D = Depth(rs, i)
    OBVIOUS
  <2>2. /\ d \in Nat /\ a = AtOf(rs, c, d) /\ KindOf(rs, c, d) = "else" /\ i = OpenOf(rs, c, d)
        /\ Lasts(rs, c, d)
    BY <1>2, <2>1 DEF Shuts, Tops
  <2>3. i < a /\ Depth(rs, a) = d /\ KindOf(rs, a, d) = "then" /\ a < c
    BY <2>2 DEF Lasts
  <2>4. a \in Nat /\ a \in 1 .. N /\ a \in i .. N /\ a \in i + 1 .. c /\ a + 1 \in a + 1 .. c /\ a + 1 \in i + 1 .. c
    <3>1. a \in Int /\ c \in Int /\ N \in Nat
      <4>1. T.at \in T.open .. c - 1
        BY <1>2 DEF Shuts, Tops
      <4>2. N \in Nat
        BY DEF Complete
      <4> QED BY <1>2, <2>1, <4>1, <4>2
    <3>2. i \in 1 .. N /\ c <= N
      BY <1>2
    <3> QED BY <2>3, <3>1, <3>2
  <2>5. KindOf(rs, a + 1, d) = "else" /\ Depth(rs, a + 1) >= d
    BY <2>2, <2>4 DEF Lasts
  <2>6. prog[a].op = "else"
    BY <2>3, <2>4, <2>5, PartBegins
  <2>7. D \in Nat /\ Rise(prog[a], d, Depth(rs, a + 1))
    BY <2>1, <2>3, <2>4, AtToken
  <2>8. Depth(rs, a + 1) = d
    BY <2>6, <2>7 DEF Rise, R!Openers
  <2>9. R!Nest(i, a) = 1
    <3>1. Depth(rs, a + 1) > 0
      BY <2>1, <2>7, <2>8
    <3>2. R!Nest(i, a) = Depth(rs, a + 1) - Depth(rs, i)
      BY <2>4, <3>1, NestDepth
    <3> QED BY <2>1, <2>7, <2>8, <3>2
  <2>10. a \in R!Middle(i, {"else"})
    <3>1. R!Middle(i, {"else"}) = {m \in i + 1 .. R!CloseOf(i) : prog[m].op \in {"else"} /\ R!Nest(i, m) = 1}
      BY DEF R!Middle
    <3> QED BY <2>4, <2>6, <2>9, <3>1
  <2> QED BY <2>10
<1>4. c \in 1 .. N
  BY <1>2
<1> QED BY <1>2, <1>3, <1>4 DEF First

\* The first branch is left for the end of the second.
LEMMA FromElse ==
    ASSUME NEW ops, NEW cs, NEW rs, NEW N, Complete(cs, rs, N, ops), NEW j \in 1 .. N,
           Elsewise(cs, rs, j, prog[j]), NEW V, V = Inmost(rs[j]), NEW d, Tops(cs, rs, j, V, d),
           NEW c, c = R!CloseOf(V.open), NEW T, T = Inmost(rs[c])
    PROVE  /\ Opener(rs, V.open, j, d) /\ Shuts(cs, rs, V.open, c, T)
           /\ T.part = "else" /\ T.at = j /\ c \in 1 .. N
<1>1. PICK i, D : i = V.open /\ D = Depth(rs, i)
  OBVIOUS
<1>2. V.part = "then" /\ prog[j].op = "else"
  BY DEF Elsewise
<1>3. Opener(rs, i, j, d)
  BY <1>1, <1>2, OpenedBy
<1>4. /\ i \in 1 .. j - 1 /\ i \in 1 .. N /\ prog[i].op \in R!Openers /\ d = D + 1
      /\ \A m \in i + 1 .. j : Depth(rs, m) > D
  BY <1>1, <1>3 DEF Opener, Complete
<1>5. D \in Nat
  BY <1>1, <1>4, AtToken
<1>6. Shuts(cs, rs, i, c, T) /\ c \in i + 1 .. N /\ Closes(rs, prog, i, c)
  BY <1>1, <1>4, ClosePart
<1>7. prog[c].op = "end" /\ Depth(rs, c + 1) = D
  BY <1>1, <1>6 DEF Closes
<1>8. c > j
  <2>1. c # j
    BY <1>2, <1>7
  <2>2. ~(c < j)
    <3>1. c < j => c + 1 \in i + 1 .. j
      BY <1>4, <1>6
    <3> QED BY <1>4, <1>5, <1>7, <3>1
  <2> QED BY <1>6, <2>1, <2>2
<1>9. /\ d \in Nat /\ i = OpenOf(rs, c, d) /\ T.part = KindOf(rs, c, d) /\ T.at = AtOf(rs, c, d)
      /\ Lasts(rs, c, d) /\ T.at \in i .. c - 1
  BY <1>1, <1>4, <1>6 DEF Shuts, Tops
<1>10. KindOf(rs, j, d) = "then" /\ KindOf(rs, j + 1, d) = "else"
  <2>1. KindOf(rs, j, d) = "then"
    BY <1>2 DEF Tops
  <2>2. KindOf(rs, j + 1, d) = "else"
    <3>1. PICK q, U : q = Around(rs[j]) /\ U = Room("else", V.open, j, {})
      OBVIOUS
    <3>2. rs[j + 1] = Append(q, U) /\ U \in RoomType /\ U.part = "else"
      <4>1. rs[j + 1] = Append(q, U)
        BY <3>1 DEF Elsewise
      <4>2. i \in Nat /\ j \in Nat
        BY <1>4
      <4>3. U \in RoomType /\ U.part = "else"
        BY <1>1, <3>1, <4>2, RoomFields
      <4> QED BY <4>1, <4>3
    <3>3. q \in Seq(RoomType) /\ Len(q) = D
      <4>1. q = rs[i] /\ i \in Nat
        BY <1>1, <1>4, <3>1 DEF Tops
      <4>2. Paces(cs, rs)
        BY <1>4, AtToken
      <4> QED BY <1>1, <4>1, <4>2, PaceAt DEF Depth
    <3>4. Builds(q, U, rs[j + 1])
      BY <3>2, <3>3, RoomAdded
    <3>5. rs[j + 1][d] = U
      BY <1>4, <3>3, <3>4 DEF Builds
    <3> QED BY <3>2, <3>5 DEF KindOf
  <2> QED BY <2>1, <2>2
<1>11. PICK a : a = T.at
  OBVIOUS
<1>12. c \in 1 .. N /\ j + 1 \in i + 1 .. c /\ j \in i + 1 .. c /\ a \in Int
  BY <1>4, <1>6, <1>8, <1>9, <1>11
<1>13. T.part = "else"
  <2> SUFFICES ASSUME T.part # "else" PROVE FALSE
    OBVIOUS
  <2>1. a = i
    BY <1>9, <1>11 DEF Lasts
  <2>2. KindOf(rs, j, d) = T.part /\ KindOf(rs, j + 1, d) = T.part
    BY <1>9, <1>11, <1>12, <2>1 DEF Lasts
  <2> QED BY <1>10, <2>2
<1>14. i < a /\ Depth(rs, a) = d /\ KindOf(rs, a, d) = "then"
  BY <1>9, <1>11, <1>13 DEF Lasts
<1>15. ~(a < j)
  <2>1. a < j => j \in a + 1 .. c
    BY <1>12, <1>8
  <2>2. a < j => KindOf(rs, j, d) = "else"
    BY <1>9, <1>11, <1>13, <2>1 DEF Lasts
  <2> QED BY <1>10, <2>2
<1>16. ~(a > j)
  <2> SUFFICES ASSUME a > j PROVE FALSE
    OBVIOUS
  <2>1. a \in 1 .. N /\ a \in Nat /\ a \in 0 .. a + 1 /\ a \in i + 1 .. c /\ j + 1 \in i + 1 .. a
    <3>1. a <= c - 1 /\ c <= N /\ N \in Nat /\ c \in Nat
      <4>1. T.at \in i .. c - 1 /\ c \in i + 1 .. N
        BY <1>6, <1>9
      <4>2. N \in Nat
        BY DEF Complete
      <4> QED BY <1>11, <1>12, <4>1, <4>2
    <3>2. i \in Nat /\ j \in Nat /\ i < j /\ 0 < i
      BY <1>4
    <3> QED BY <1>12, <3>1, <3>2
  <2>2. Placed(cs, rs, a, ops)
    BY <2>1, AtToken
  <2>3. Lasts(rs, a, d) /\ OpenOf(rs, a, d) = i
    <3>1. d \in 1 .. Len(rs[a])
      BY <1>4, <1>5, <1>14 DEF Depth
    <3>2. Lasts(rs, a, d)
      BY <2>2, <3>1 DEF Placed
    <3>3. OpenOf(rs, a, d) = i
      BY <1>9, <2>1 DEF Lasts
    <3> QED BY <3>2, <3>3
  <2>4. KindOf(rs, j + 1, d) = "then"
    BY <1>14, <2>1, <2>3 DEF Lasts
  <2> QED BY <1>10, <2>4
<1>17. a = j
  BY <1>12, <1>15, <1>16
<1> QED BY <1>1, <1>3, <1>6, <1>11, <1>12, <1>13, <1>17

-----------------------------------------------------------------------------
(* The checker takes that walk.                                            *)

\* The operations of structured programs: no assignment, no switch, no jump
\* out of a loop, no exception caught.
Written == StraightWords \cup {"block", "if", "else", "while", "end", "eof"}

\* Their programs: an inner scope does not reuse a visible name, and no borrow
\* is cloned.
Structured == /\ ~fragment.shadowing /\ fragment.ops \subseteq Written
              /\ ~({"borrow", "clone"} \subseteq fragment.ops)

\* The frame of an open construct.  The second branch keeps the table of the
\* first, whose end was accepted.
Meets(f, T, cs, rs) ==
    /\ f.part = T.part /\ f.bound = T.bound
    /\ T.part \in {"then", "else"} => f.base = cs[T.open].tbl
    /\ T.part = "else" => LET q == Quit(cs[T.at], Inmost(rs[T.at]))
                          IN  f.tables[1] = q.tbl /\ q.diags = {}

Mirrors(fs, r, cs, rs) == Len(fs) = Len(r) /\ \A k \in 1 .. Len(r) : Meets(fs[k], r[k], cs, rs)

\* The walk has come to the end of the program read so far.
Traced(cs, rs, p, ops, c, fs) ==
    /\ Walk(cs, rs, p, ops)
    /\ cs[Len(p) + 1] = c /\ Mirrors(fs, rs[Len(p) + 1], cs, rs)

\* The inductive invariant of the checker.
TraceInv ==
    Structured /\ chk.diags = {} => \E cs, rs : Traced(cs, rs, prog, fragment.ops, chk, frames)

\* The walk before and after one more token, i.
Prolonged(cs, rs, sc, sr, i, c, r) ==
    /\ \A m \in 0 .. i : sc[m] = cs[m] /\ sr[m] = rs[m]
    /\ sc[i + 1] = c /\ sr[i + 1] = r

\* It is prolonged by its last element.
LEMMA ProlongsOn ==
    ASSUME NEW cs, NEW rs, Paces(cs, rs), NEW N \in Nat, NEW c \in Checker, NEW r \in Seq(RoomType),
           NEW sc, NEW sr, Prolongs(cs, rs, sc, sr, N, c, r)
    PROVE  Prolonged(cs, rs, sc, sr, N + 1, c, r)
<1>1. N + 2 \in Nat /\ N + 2 = (N + 1) + 1
  OBVIOUS
<1>2. \A m \in Nat : m # N + 2 => sc[m] = cs[m] /\ sr[m] = rs[m]
  BY DEF Paces, Prolongs
<1>3. \A m \in 0 .. N + 1 : m \in Nat /\ m # N + 2
  OBVIOUS
<1>4. sc[N + 2] = c /\ sr[N + 2] = r
  BY <1>1 DEF Paces, Prolongs
<1> QED BY <1>1, <1>2, <1>3, <1>4 DEF Prolonged

\* What a frame stands for does not change.
LEMMA MeetsOn ==
    ASSUME NEW cs, NEW rs, NEW sc, NEW sr, NEW i \in Nat, NEW c, NEW r, Prolonged(cs, rs, sc, sr, i, c, r),
           NEW T, T.open \in 0 .. i, T.at \in 0 .. i, NEW f, Meets(f, T, cs, rs),
           NEW g, g.part = f.part, g.bound = f.bound, g.base = f.base, g.tables = f.tables
    PROVE  Meets(g, T, sc, sr)
<1>1. sc[T.open] = cs[T.open] /\ sc[T.at] = cs[T.at] /\ sr[T.at] = rs[T.at]
  BY DEF Prolonged
<1> QED BY <1>1 DEF Meets

\* Where the open constructs began.
LEMMA RoomsBefore ==
    ASSUME NEW ops, NEW cs, NEW rs, Paces(cs, rs), NEW i \in Nat, Placed(cs, rs, i, ops),
           NEW k \in 1 .. Len(rs[i])
    PROVE  rs[i][k].open \in 0 .. i /\ rs[i][k].at \in 0 .. i
<1>1. k \in 1 .. Depth(rs, i) /\ Lasts(rs, i, k)
  BY DEF Depth, Placed
<1>2. OpenOf(rs, i, k) \in Nat /\ AtOf(rs, i, k) \in Nat /\ OpenOf(rs, i, k) < i /\ AtOf(rs, i, k) < i
  BY <1>1, RoomAt DEF Lasts
<1>3. PICK o, a : o = OpenOf(rs, i, k) /\ a = AtOf(rs, i, k)
  OBVIOUS
<1>4. o \in 0 .. i /\ a \in 0 .. i
  <2>1. o \in Nat /\ a \in Nat /\ o < i /\ a < i
    BY <1>2, <1>3
  <2> QED BY <2>1
<1> QED BY <1>3, <1>4, Zenon DEF OpenOf, AtOf

\* One more frame, for one more construct.
LEMMA MirrorsAdd ==
    ASSUME NEW cs, NEW rs, NEW q \in Seq(RoomType), NEW U \in RoomType, NEW fs, NEW y, y = Append(q, U),
           Len(fs) = Len(q) + 1, \A k \in 1 .. Len(q) : Meets(fs[k], q[k], cs, rs),
           Meets(fs[Len(q) + 1], U, cs, rs)
    PROVE  Mirrors(fs, y, cs, rs)
<1>1. Builds(q, U, y)
  BY RoomAdded
<1>2. /\ Len(q) \in Nat /\ Len(y) = Len(q) + 1 /\ y[Len(q) + 1] = U /\ \A k \in 1 .. Len(q) : y[k] = q[k]
  BY <1>1 DEF Builds
<1>3. \A k \in 1 .. Len(q) + 1 : k \in 1 .. Len(q) \/ k = Len(q) + 1
  BY <1>2
<1> QED BY <1>2, <1>3 DEF Mirrors

\* Before token i the walk is where the checker is: T is the innermost of the
\* open constructs.
Stage(cs, rs, i, T, ops) ==
    /\ i \in Nat /\ Paces(cs, rs) /\ \A m \in 0 .. i : Placed(cs, rs, m, ops)
    /\ cs[i] = chk /\ Len(rs[i]) = Len(frames)
    /\ \A k \in 1 .. Len(frames) : Meets(frames[k], rs[i][k], cs, rs)
    /\ T = Inmost(rs[i]) /\ Tops(cs, rs, i, T, Len(frames))
    /\ Visible = Seen(rs[i])

\* With token t the walk goes on, to the open constructs r.
Goes(cs, rs, i, t, r, ops) ==
    /\ r \in Seq(RoomType)
    /\ \A sc, sr : Prolonged(cs, rs, sc, sr, i, chk', r) =>
          Follows(sc, sr, i, t, ops) /\ Mirrors(frames', r, sc, sr)

\* At the end of the program read so far.
LEMMA StageAt ==
    ASSUME CheckInv, Here, NEW ops, NEW cs, NEW rs, NEW i, i = Len(prog) + 1, Traced(cs, rs, prog, ops, chk, frames)
    PROVE  \E T : Stage(cs, rs, i, T, ops)
<1>1. i \in Nat /\ Len(prog) \in Nat
  BY LenProperties DEF CheckInv
<1>2. Paces(cs, rs) /\ (\A m \in 0 .. i : Placed(cs, rs, m, ops)) /\ cs[i] = chk /\ Mirrors(frames, rs[i], cs, rs)
  BY DEF Traced, Walk
<1>3. Len(rs[i]) = Len(frames) /\ (\A k \in 1 .. Len(frames) : Meets(frames[k], rs[i][k], cs, rs))
      /\ Len(frames) > 0
  BY <1>2 DEF Mirrors, Here
<1>4. PICK T : T = Inmost(rs[i])
  OBVIOUS
<1>5. Tops(cs, rs, i, T, Len(frames))
  <2>1. i \in 0 .. i
    BY <1>1
  <2>2. Tops(cs, rs, i, T, Depth(rs, i))
    BY <1>1, <1>2, <1>3, <1>4, <2>1, TopOf
  <2> QED BY <1>3, <2>2 DEF Depth
<1>6. Visible = Seen(rs[i])
  <2>1. \A k \in 1 .. Len(frames) : frames[k].bound = rs[i][k].bound
    BY <1>3 DEF Meets
  <2> QED BY <1>3, <2>1 DEF Visible, Seen
<1> QED BY <1>1, <1>2, <1>3, <1>4, <1>5, <1>6 DEF Stage

\* Its innermost frame.
LEMMA StageTop ==
    ASSUME CheckInv, Here, NEW ops, NEW cs, NEW rs, NEW i, NEW T, Stage(cs, rs, i, T, ops)
    PROVE  /\ Meets(Top, T, cs, rs) /\ Top.part = T.part /\ Accepted(chk, ops)
           /\ rs[i] \in Seq(RoomType) /\ T \in RoomType /\ T.open \in 0 .. i /\ T.at \in 0 .. i
           /\ Around(rs[i]) \in Seq(RoomType) /\ Len(Around(rs[i])) = Len(frames) - 1
           /\ \A k \in 1 .. Len(frames) - 1 :
                 /\ Meets(frames[k], Around(rs[i])[k], cs, rs)
                 /\ Around(rs[i])[k].open \in 0 .. i /\ Around(rs[i])[k].at \in 0 .. i
<1>1. Len(frames) \in Nat /\ Len(frames) > 0 /\ Len(frames) \in 1 .. Len(frames) /\ Top = frames[Len(frames)]
  BY TopFrame
<1>2. /\ i \in Nat /\ Paces(cs, rs) /\ cs[i] = chk /\ Len(rs[i]) = Len(frames)
      /\ \A k \in 1 .. Len(frames) : Meets(frames[k], rs[i][k], cs, rs)
      /\ T = Inmost(rs[i]) /\ Placed(cs, rs, i, ops)
  BY DEF Stage
<1>3. rs[i] \in Seq(RoomType) /\ T = rs[i][Len(frames)]
  BY <1>2, PaceAt DEF Inmost
<1>4. Meets(Top, T, cs, rs) /\ Top.part = T.part
  BY <1>1, <1>2, <1>3 DEF Meets
<1>5. \A k \in 1 .. Len(frames) : rs[i][k].open \in 0 .. i /\ rs[i][k].at \in 0 .. i
  BY <1>2, RoomsBefore
<1>6. /\ T \in RoomType /\ Around(rs[i]) \in Seq(RoomType) /\ Len(Around(rs[i])) = Len(frames) - 1
      /\ \A k \in 1 .. Len(frames) - 1 : Around(rs[i])[k] = rs[i][k]
  BY <1>1, <1>2, <1>3, TopRoom
<1>7. \A k \in 1 .. Len(frames) - 1 : k \in 1 .. Len(frames)
  BY <1>1
<1>8. Accepted(chk, ops)
  BY <1>2 DEF Placed
<1>9. T.open \in 0 .. i /\ T.at \in 0 .. i
  BY <1>1, <1>3, <1>5
<1>10. \A k \in 1 .. Len(frames) - 1 :
                 /\ Meets(frames[k], Around(rs[i])[k], cs, rs)
                 /\ Around(rs[i])[k].open \in 0 .. i /\ Around(rs[i])[k].at \in 0 .. i
  BY <1>2, <1>5, <1>6, <1>7
<1> QED BY <1>3, <1>4, <1>6, <1>8, <1>9, <1>10

\* The frame g differs from f in the names bound and the exits alone.
Kindred(f, g) == g.part = f.part /\ g.base = f.base /\ g.tables = f.tables

\* The statements bind the names D in the innermost frame.
Deepens(D) ==
    /\ Len(frames') = Len(frames) /\ \A k \in 1 .. Len(frames) - 1 : frames'[k] = frames[k]
    /\ Kindred(Top, frames'[Len(frames)]) /\ frames'[Len(frames)].bound = Top.bound \cup D

\* A straight statement.
LEMMA GoesStraight ==
    ASSUME CheckInv, Here, NEW ops, NEW cs, NEW rs, NEW i, NEW T, Stage(cs, rs, i, T, ops),
           NEW t, t.op \in StraightWords, Used(t) \subseteq Visible, Declared(t) \subseteq Names \ Visible,
           Does(t, chk, chk', ops), Deepens(Declared(t))
    PROVE  \E r : Goes(cs, rs, i, t, r, ops)
<1> DEFINE q == Around(rs[i])
           bound == T.bound \cup Declared(t)
           U == Room(T.part, T.open, T.at, bound)
           r == Append(q, U)
<1>1. Len(frames) \in Nat /\ Len(frames) > 0 /\ i \in Nat
  BY TopFrame DEF Stage
<1>2. /\ Meets(Top, T, cs, rs) /\ T \in RoomType /\ T.open \in 0 .. i /\ T.at \in 0 .. i
      /\ q \in Seq(RoomType) /\ Len(q) = Len(frames) - 1
      /\ \A k \in 1 .. Len(frames) - 1 :
            Meets(frames[k], q[k], cs, rs) /\ q[k].open \in 0 .. i /\ q[k].at \in 0 .. i
  BY StageTop
<1>3. U \in RoomType /\ U.part = T.part /\ U.open = T.open /\ U.at = T.at /\ U.bound = bound
  <2>1. /\ T.part \in {"body", "block", "then", "else", "while"} /\ T.open \in Nat /\ T.at \in Nat
        /\ bound \in SUBSET Names
    BY <1>2 DEF RoomType
  <2> HIDE DEF bound
  <2> QED BY <2>1, RoomFields
<1>4. r \in Seq(RoomType)
  <2> HIDE DEF q, U
  <2> QED BY <1>2, <1>3, AppendProperties
<1>5. ASSUME NEW sc, NEW sr, Prolonged(cs, rs, sc, sr, i, chk', r)
      PROVE  Follows(sc, sr, i, t, ops) /\ Mirrors(frames', r, sc, sr)
  <2>1. sc[i] = chk /\ sr[i] = rs[i] /\ sc[i + 1] = chk' /\ sr[i + 1] = r
    <3>1. i \in 0 .. i
      BY <1>1
    <3> QED BY <1>5, <3>1 DEF Prolonged, Stage
  <2>2. Follows(sc, sr, i, t, ops)
    <3>1. T = Inmost(sr[i]) /\ Visible = Seen(sr[i]) /\ Len(sr[i]) > 0
      BY <1>1, <2>1 DEF Stage
    <3>2. Straightly(sc, sr, i, t, ops)
      BY <2>1, <3>1 DEF Straightly
    <3> QED BY <3>1, <3>2 DEF Follows
  <2>3. \A k \in 1 .. Len(q) : Meets(frames'[k], q[k], sc, sr)
    BY <1>1, <1>2, <1>5, MeetsOn DEF Deepens
  <2>4. Meets(frames'[Len(q) + 1], U, sc, sr)
    <3>1. PICK f, g : f = Top /\ g = frames'[Len(frames)]
      OBVIOUS
    <3>2. sc[T.open] = cs[T.open] /\ sc[T.at] = cs[T.at] /\ sr[T.at] = rs[T.at]
      BY <1>2, <1>5 DEF Prolonged
    <3>3. Kindred(f, g) /\ g.bound = f.bound \cup Declared(t) /\ Len(q) + 1 = Len(frames)
      BY <1>1, <1>2, <3>1 DEF Deepens
    <3>4. Meets(g, U, sc, sr)
      BY <1>2, <1>3, <3>1, <3>2, <3>3 DEF Meets, Kindred
    <3> QED BY <3>1, <3>3, <3>4
  <2> HIDE DEF q, U
  <2>5. Len(frames') = Len(q) + 1
    BY <1>1, <1>2 DEF Deepens
  <2> QED BY <1>2, <1>3, <2>2, <2>3, <2>4, <2>5, MirrorsAdd
<1> QED BY <1>4, <1>5 DEF Goes

\* The names a statement is given: those it declares are new, those it uses
\* are not.
LEMMA StatementNames ==
    ASSUME CheckInv, NEW t \in Readable, ~fragment.shadowing, t.op \in StraightWords
    PROVE  /\ Used(t) \subseteq Visible /\ Declared(t) \subseteq Names \ Visible
           /\ t.op \in {"move", "borrow"} => t.x # t.y
<1>1. Declarable \subseteq Names \ Visible /\ NoName \notin Visible
  <2>1. \A i \in 1 .. Len(frames) : frames[i].bound \subseteq Names
    BY FrameFields DEF CheckInv, Fits
  <2>2. \A n \in Visible : n \in Names
    BY <2>1 DEF Visible
  <2> QED BY <2>2, NamesAssumption DEF Declarable
<1>2. t \in Statements
  <2>1. t \notin Closers
    <3> SUFFICES ASSUME t \in Closers PROVE FALSE
      OBVIOUS
    <3>1. PICK op \in {"else", "case", "default", "catch", "finally", "end", "eof"} :
              t = Token(op, NoName, NoName, "")
      BY DEF Closers
    <3> QED BY <3>1 DEF Token, StraightWords
  <2> QED BY <2>1 DEF Readable
<1>3. CASE t \in [op : {"declare"}, x : Declarable, y : {NoName}, k : Owning]
  BY <1>1, <1>3 DEF Used, Declared
<1>4. CASE t \in [op : {"plain"}, x : Declarable, y : {NoName}, k : {""}]
  BY <1>1, <1>4 DEF Used, Declared
<1>5. CASE t \in [op : {"move"}, x : Declarable, y : Visible, k : {""}] /\ t.x # t.y
  BY <1>1, <1>5 DEF Used, Declared
<1>6. CASE t \in [op : {"borrow"}, x : Visible, y : Declarable, k : Modes] /\ t.x # t.y
  BY <1>1, <1>6 DEF Used, Declared
<1>7. CASE t \in [op : {"clone"}, x : Visible, y : Declarable, k : {""}]
  BY <1>1, <1>7 DEF Used, Declared
<1>8. CASE t \in [op : {"assign"}, x : Visible, y : Visible, k : {""}]
  BY <1>8 DEF StraightWords
<1>9. CASE t \in [op : {"consume", "read", "and"}, x : Visible, y : {NoName}, k : {""}]
  BY <1>1, <1>9 DEF Used, Declared
<1>10. CASE t \in [op : {"return"}, x : Visible \cup {NoName}, y : {NoName}, k : {""}]
  BY <1>1, <1>10 DEF Used, Declared
<1>11. CASE t \in [op : {"throw", "break", "continue"}, x : {NoName}, y : {NoName}, k : {""}]
  BY <1>11 DEF Used, Declared
<1>12. CASE t \in {Token(op, NoName, NoName, "") : op \in {"block", "if", "while", "switch"}}
  <2>1. PICK op \in {"block", "if", "while", "switch"} : t = Token(op, NoName, NoName, "")
    BY <1>12
  <2> QED BY <2>1 DEF Token, StraightWords
<1>13. CASE t \in {Token("try", NoName, NoName, k) : k \in {"catch", "finally", "both"}}
  BY <1>13 DEF Token, StraightWords
<1> QED BY <1>2, <1>3, <1>4, <1>5, <1>6, <1>7, <1>8, <1>9, <1>10, <1>11, <1>12, <1>13 DEF Statements

\* Without a try statement no table is put aside.
LEMMA NoTries ==
    ASSUME CheckInv, Here, NEW ops, NEW cs, NEW rs, NEW i, NEW T, Stage(cs, rs, i, T, ops)
    PROVE  tries = 0
<1>1. frames \in Seq(FrameType) /\ Len(pending) = Amount(frames, OpenTry) /\ tries = Len(pending)
  BY DEF CheckInv, Fits
<1>2. \A k \in 1 .. Len(frames) : frames[k].part \in {"body", "block", "then", "else", "while"}
  <2>1. i \in Nat /\ rs[i] \in Seq(RoomType) /\ Len(rs[i]) = Len(frames)
        /\ \A k \in 1 .. Len(frames) : frames[k].part = rs[i][k].part
    BY PaceAt DEF Stage, Meets
  <2>2. \A k \in 1 .. Len(frames) : rs[i][k] \in RoomType
    BY <2>1, ElementOfSeq
  <2> QED BY <2>1, <2>2 DEF RoomType
<1>3. Tagged(frames, OpenTry) = {}
  BY <1>2 DEF Tagged, Tag, OpenTry
<1> QED BY <1>1, <1>3, FS_EmptySet DEF Amount

\* What a binding of the innermost frame does to it.
LEMMA BindsDeepens ==
    ASSUME CheckInv, Here, NEW n \in Names, NEW s, Binds(n, s)
    PROVE  chk' = s /\ Deepens({n})
<1> DEFINE f == [Top EXCEPT !.bound = @ \cup {n}]
<1>1. /\ Len(frames) \in Nat /\ Len(frames) \in 1 .. Len(frames) /\ frames \in Seq(FrameType)
      /\ Top = frames[Len(frames)] /\ Top \in FrameRecord
  BY TopFrame DEF FrameType
<1>2. Kindred(Top, f) /\ f.bound = Top.bound \cup {n}
  BY <1>1 DEF FrameRecord, Kindred
<1>3. chk' = s /\ frames' = [frames EXCEPT ![Len(frames)] = f]
  BY <1>1 DEF Binds
<1> HIDE DEF f
<1>4. Len(frames') = Len(frames) /\ frames'[Len(frames)] = f
      /\ \A k \in 1 .. Len(frames) - 1 : frames'[k] = frames[k]
  BY <1>1, <1>3
<1> QED BY <1>2, <1>3, <1>4 DEF Deepens

\* A statement that binds nothing.
LEMMA StraightDeepens ==
    ASSUME CheckInv, Here, UNCHANGED frames \/ frames' = [frames EXCEPT ![Len(frames)].exits = TRUE]
    PROVE  Deepens({})
<1>1. /\ Len(frames) \in Nat /\ Len(frames) \in 1 .. Len(frames) /\ frames \in Seq(FrameType)
      /\ Top = frames[Len(frames)] /\ Top \in FrameRecord
  BY TopFrame DEF FrameType
<1>2. CASE UNCHANGED frames
  BY <1>1, <1>2 DEF Deepens, Kindred
<1>3. CASE frames' = [frames EXCEPT ![Len(frames)].exits = TRUE]
  <2> DEFINE f == [Top EXCEPT !.exits = TRUE]
  <2>1. Kindred(Top, f) /\ f.bound = Top.bound
    BY <1>1 DEF FrameRecord, Kindred
  <2>2. frames' = [frames EXCEPT ![Len(frames)] = f]
    BY <1>1, <1>3
  <2> HIDE DEF f
  <2>3. Len(frames') = Len(frames) /\ frames'[Len(frames)] = f
        /\ \A k \in 1 .. Len(frames) - 1 : frames'[k] = frames[k]
    BY <1>1, <2>2
  <2> QED BY <2>1, <2>3 DEF Deepens
<1> QED BY <1>2, <1>3

\* The operations without borrows of clones.
Plainly(ops) == ~({"borrow", "clone"} \subseteq ops)

\* What an accepted straight statement does.
LEMMA StepDoes ==
    ASSUME CheckInv, Here, NEW ops, Plainly(ops), NEW t \in Readable, t.op \in ops, t.op \in StraightWords,
           ~fragment.shadowing, \A n \in Names : Tracked(chk, n) => n \in Visible,
           Accepted(chk, ops), tries = 0, Step(t), chk'.diags = {}
    PROVE  Does(t, chk, chk', ops) /\ Deepens(Declared(t))
<1>1. /\ t \in TokenType /\ (t.op \in NamesOne => t.x \in Names) /\ (t.op \in NamesTwo => t.y \in Names)
      /\ (t.op = "declare" => t.k \in Owning) /\ (t.op = "borrow" => t.k \in Modes) /\ t.x \in Names \cup {NoName}
  BY ReadableTokens, TokenFields
<1>2. /\ Used(t) \subseteq Visible /\ Declared(t) \subseteq Names \ Visible
      /\ t.op \in {"move", "borrow"} => t.x # t.y
  BY StatementNames
<1>3. \A n \in Declared(t) : n \in Names /\ ~Tracked(chk, n)
  BY <1>2
<1>4. CASE t.op = "declare"
  <2>1. Binds(t.x, AddFromType(chk, t.x, t.k)) /\ t.x \in Names /\ Declared(t) = {t.x} /\ t.k \in Owning
    BY <1>1, <1>4 DEF Step, Simple, LogicalRight, ReturnOrThrow, BreakOrContinue, Open, Else, Clause, Catch,
                      Finally, End, Eof, NamesOne, Declared
  <2>2. chk' = AddVar(chk, t.x, Fresh(t.k, chk.depth, NoName)) /\ Deepens({t.x})
    BY <2>1, BindsDeepens DEF AddFromType
  <2>3. Changes(chk, chk', {t.x}, {}, ops) /\ Owns(chk', t.x, t.k)
    BY <1>3, <2>1, <2>2, AddChanges
  <2> QED BY <1>4, <2>1, <2>2, <2>3 DEF Does
<1>5. CASE t.op = "plain"
  <2>1. Binds(t.x, chk) /\ t.x \in Names /\ Declared(t) = {t.x}
    BY <1>1, <1>5 DEF Step, Simple, LogicalRight, ReturnOrThrow, BreakOrContinue, Open, Else, Clause, Catch,
                      Finally, End, Eof, NamesOne, Declared
  <2>2. chk' = chk /\ Deepens({t.x})
    BY <2>1, BindsDeepens
  <2> QED BY <1>5, <2>1, <2>2 DEF Does
<1>6. CASE t.op = "move"
  <2>1. /\ Binds(t.x, DeclareMoved(chk, t.x, t.y)) /\ t.x \in Names /\ t.y \in Names /\ t.x # t.y
        /\ Declared(t) = {t.x}
    BY <1>1, <1>2, <1>6 DEF Step, Simple, LogicalRight, ReturnOrThrow, BreakOrContinue, Open, Else, Clause,
                            Catch, Finally, End, Eof, NamesOne, NamesTwo, Declared
  <2>2. chk' = DeclareMoved(chk, t.x, t.y) /\ Deepens({t.x})
    BY <2>1, BindsDeepens
  <2>3. \/ /\ Movable(chk, t.y) /\ Changes(chk, chk', {t.x}, {t.y}, ops)
           /\ chk'.tbl[t.x].kind = chk.tbl[t.y].kind
        \/ ~Tracked(chk, t.y) /\ chk' = chk
    <3>1. ~Tracked(chk, t.x)
      BY <1>3, <2>1
    <3>2. PICK n, m : n = t.x /\ m = t.y
      OBVIOUS
    <3>3. /\ n \in Names /\ m \in Names /\ n # m /\ ~Tracked(chk, n)
          /\ chk' = DeclareMoved(chk, n, m) /\ chk'.diags = {}
      BY <2>1, <2>2, <3>1, <3>2
    <3>4. PICK r : r = chk'
      OBVIOUS
    <3>5. \/ Movable(chk, m) /\ Changes(chk, r, {n}, {m}, ops) /\ r.tbl[n].kind = chk.tbl[m].kind
          \/ ~Tracked(chk, m) /\ r = chk
      <4>1. r = DeclareMoved(chk, n, m) /\ r.diags = {}
        BY <3>3, <3>4
      <4> QED BY <3>3, <4>1, MoveChanges, Z3
    <3> QED BY <3>2, <3>4, <3>5
  <2> QED BY <1>6, <2>1, <2>2, <2>3 DEF Does, Owns
<1>7. CASE t.op = "borrow"
  <2>1. /\ Binds(t.y, BeginBorrow(chk, t.x, t.y, t.k)) /\ t.x \in Names /\ t.y \in Names /\ t.x # t.y
        /\ Declared(t) = {t.y} /\ t.k \in Modes
    BY <1>1, <1>2, <1>7 DEF Step, Simple, LogicalRight, ReturnOrThrow, BreakOrContinue, Open, Else, Clause,
                            Catch, Finally, End, Eof, NamesOne, Declared
  <2>2. chk' = BeginBorrow(chk, t.x, t.y, t.k) /\ Deepens({t.y})
    BY <2>1, BindsDeepens
  <2>3. Borrows(ops)
    BY <1>7 DEF Borrows
  <2>4. /\ Tracked(chk, t.x) /\ ~Gone(chk, t.x) /\ Changes(chk, chk', {t.y}, {}, ops)
        /\ chk'.tbl[t.y].kind \in Refs /\ chk'.tbl[t.y].owner = t.x
    BY <1>3, <2>1, <2>2, <2>3, BorrowChanges
  <2> QED BY <1>7, <2>1, <2>2, <2>4 DEF Does
<1>8. CASE t.op = "clone"
  <2>1. /\ Binds(t.y, DoClone(chk, t.x, t.y)) /\ t.x \in Names /\ t.y \in Names
        /\ Declared(t) = {t.y}
    BY <1>1, <1>2, <1>8 DEF Step, Simple, LogicalRight, ReturnOrThrow, BreakOrContinue, Open, Else, Clause,
                            Catch, Finally, End, Eof, NamesOne, Declared
  <2>2. chk' = DoClone(chk, t.x, t.y) /\ Deepens({t.y})
    BY <2>1, BindsDeepens
  <2>3. ~Borrows(ops)
    BY <1>8 DEF Borrows, Plainly
  <2>4. \/ /\ chk.tbl[t.x].kind \in Owning /\ ~Gone(chk, t.x) /\ Changes(chk, chk', {t.y}, {}, ops)
           /\ chk'.tbl[t.y].kind = chk.tbl[t.x].kind
        \/ ~Tracked(chk, t.x) /\ chk' = chk
    BY <1>3, <2>1, <2>2, <2>3, CloneChanges
  <2> QED BY <1>8, <2>1, <2>2, <2>4 DEF Does, Owns
<1>9. CASE t.op \in {"consume", "read", "and"}
  <2>1. Declared(t) = {} /\ t.x \in Names
    BY <1>1, <1>9 DEF Declared, NamesOne
  <2>2. Simple(t) \/ LogicalRight(t)
    BY <1>9 DEF Step, ReturnOrThrow, BreakOrContinue, Open, Else, Clause, Catch, Finally, End, Eof
  <2>3. UNCHANGED frames
    BY <1>9, <2>2 DEF Simple, LogicalRight, Straight
  <2>4. CASE t.op = "consume"
    <3>1. chk' = ApplyApps(chk, t.x, Move)
      BY <2>2, <2>4 DEF Simple, LogicalRight, Straight
    <3>2. \/ Movable(chk, t.x) /\ Changes(chk, chk', {}, {t.x}, ops)
          \/ ~Tracked(chk, t.x) /\ chk' = chk
      BY <2>1, <3>1, SpendChanges
    <3> QED BY <2>1, <2>3, <2>4, <3>2, StraightDeepens DEF Does
  <2>5. CASE t.op = "read"
    <3>1. chk' = ApplyApps(chk, t.x, Look)
      BY <2>2, <2>5 DEF Simple, LogicalRight, Straight, Look
    <3>2. chk' = chk /\ (chk.tbl[t.x].kind \in Owning => ~Gone(chk, t.x))
      BY <2>1, <3>1, LookChanges
    <3> QED BY <2>1, <2>3, <2>5, <3>2, StraightDeepens DEF Does
  <2>6. CASE t.op = "and"
    <3>1. chk' = Compare(ApplyApps(chk, t.x, Move), chk.tbl, ApplyApps(chk, t.x, Move).tbl)
      BY <2>2, <2>6 DEF Simple, LogicalRight, Straight
    <3>2. chk' = chk /\ ~Tracked(chk, t.x)
      BY <2>1, <3>1, AndChanges
    <3> QED BY <2>1, <2>3, <2>6, <3>2, StraightDeepens DEF Does
  <2> QED BY <1>9, <2>4, <2>5, <2>6
<1>10. CASE t.op \in {"return", "throw"}
  <2> DEFINE s == Returned(t)
  <2>1. ReturnOrThrow(t)
    BY <1>10 DEF Step, Simple, LogicalRight, BreakOrContinue, Open, Else, Clause, Catch, Finally, End, Eof
  <2>2. chk' = RequireConsumed(s) /\ frames' = [frames EXCEPT ![Len(frames)].exits = TRUE]
    BY <2>1 DEF ReturnOrThrow, Returned
  <2>3. Declared(t) = {} /\ Deepens({})
    BY <1>10, <2>2, StraightDeepens DEF Declared
  <2>4. s \in Checker
    BY <1>1, ReturnedKeeps
  <2>5. s.diags = {}
    <3> HIDE DEF s
    <3>1. s.diags \subseteq RequireConsumed(s).diags
      BY <2>4, RequireReports
    <3> QED BY <2>2, <3>1
  <2>6. CASE t.op = "return" /\ t.x # NoName
    <3>1. t.x \in Names /\ s = ReturnArgument(chk, t.x)
      BY <1>1, <2>6 DEF Returned
    <3>2. \/ Movable(chk, t.x) /\ Changes(chk, s, {}, {t.x}, ops)
          \/ ~Tracked(chk, t.x) /\ s = chk
      BY <2>5, <3>1, ReturnChanges
    <3>3. Accepted(s, ops)
      BY <3>2 DEF Changes
    <3> HIDE DEF s
    <3>4. Forgotten(s) = {} /\ chk' = s
      BY <2>2, <3>3, ExitChanges
    <3> QED BY <2>3, <2>6, <3>2, <3>4 DEF Does
  <2>7. CASE ~(t.op = "return" /\ t.x # NoName)
    <3>1. s = chk
      BY <2>7 DEF Returned
    <3> HIDE DEF s
    <3>2. Forgotten(chk) = {} /\ chk' = chk
      BY <2>2, <3>1, ExitChanges
    <3> QED BY <1>10, <2>3, <2>7, <3>2 DEF Does
  <2> QED BY <2>6, <2>7
<1> QED BY <1>4, <1>5, <1>6, <1>7, <1>8, <1>9, <1>10 DEF StraightWords

\* The frame with which a construct is opened.
Begins(t, f) ==
    /\ f \in FrameType /\ f.part = PartOf(t.op) /\ f.bound = {} /\ (t.op = "if" => f.base = chk.tbl)
    /\ frames' = Append(frames, f) /\ chk' = Opened(chk, t.op = "while")

\* So are a block, a conditional and a loop.
LEMMA OpenBegins ==
    ASSUME CheckInv, Here, NEW t, Open(t), t.op \in {"block", "if", "while"}
    PROVE  \E f : Begins(t, f)
<1> DEFINE g == Frame(PartOf(t.op), pc)
<1>1. pc \in Nat /\ chk.tbl \in Table /\ PartOf(t.op) \in {"block", "then", "while"}
  <2>1. chk.tbl \in Table
    BY TopFrame, TableOf
  <2>2. pc \in Nat
    BY LenProperties DEF CheckInv
  <2> QED BY <2>1, <2>2 DEF PartOf
<1>2. g \in FrameType /\ g.part = PartOf(t.op) /\ g.bound = {}
  <2>1. g.bound = {}
    BY DEF Frame
  <2> HIDE DEF g
  <2>2. PICK p, q : p = PartOf(t.op) /\ q = pc
    OBVIOUS
  <2>3. Frame(p, q) \in FrameType /\ Frame(p, q).part = p
    BY <1>1, <2>2, FrameMade DEF FrameParts, Bodies
  <2> QED BY <2>1, <2>2, <2>3 DEF g
<1>3. CASE t.op = "if"
  <2> DEFINE h == [g EXCEPT !.base = chk.tbl]
  <2>1. frames' = Append(frames, [Frame("then", pc) EXCEPT !.base = chk.tbl]) /\ chk' = PushScope(chk)
    BY <1>3 DEF Open, Push
  <2>2. frames' = Append(frames, h)
    BY <1>3, <2>1 DEF PartOf
  <2> HIDE DEF g
  <2>3. h \in FrameType /\ h.part = g.part /\ h.bound = g.bound /\ h.base = chk.tbl
    BY <1>1, <1>2 DEF FrameType, FrameRecord
  <2> HIDE DEF h
  <2> QED BY <1>2, <1>3, <2>1, <2>2, <2>3 DEF Begins, Opened
<1>4. CASE t.op = "block"
  <2>1. frames' = Append(frames, g) /\ chk' = PushScope(chk)
    BY <1>4 DEF Open, Push, PartOf
  <2> HIDE DEF g
  <2> QED BY <1>2, <1>4, <2>1 DEF Begins, Opened
<1>5. CASE t.op = "while"
  <2>1. frames' = Append(frames, g) /\ chk' = [PushScope(chk) EXCEPT !.depth = @ + 1]
    BY <1>5 DEF Open, Push, PartOf
  <2> HIDE DEF g
  <2> QED BY <1>2, <1>5, <2>1 DEF Begins, Opened
<1> QED BY <1>3, <1>4, <1>5

\* A construct is opened.
LEMMA GoesOpen ==
    ASSUME CheckInv, Here, NEW ops, NEW cs, NEW rs, NEW i, NEW T, Stage(cs, rs, i, T, ops),
           NEW t, Open(t), t.op \in {"block", "if", "while"}
    PROVE  \E r : Goes(cs, rs, i, t, r, ops)
<1> DEFINE q == rs[i]
           U == Room(PartOf(t.op), i, i, {})
           r == Append(q, U)
<1>1. PICK f : Begins(t, f)
  BY OpenBegins
<1>2. /\ i \in Nat /\ Paces(cs, rs) /\ Placed(cs, rs, i, ops) /\ cs[i] = chk
      /\ Len(frames) \in Nat /\ Len(frames) > 0 /\ Len(q) = Len(frames)
      /\ \A k \in 1 .. Len(q) : Meets(frames[k], q[k], cs, rs)
      /\ frames \in Seq(FrameType) /\ q \in Seq(RoomType)
  <2>1. /\ i \in Nat /\ Paces(cs, rs) /\ (\A m \in 0 .. i : Placed(cs, rs, m, ops)) /\ cs[i] = chk
        /\ Len(q) = Len(frames) /\ \A k \in 1 .. Len(frames) : Meets(frames[k], q[k], cs, rs)
    BY DEF Stage
  <2>2. i \in 0 .. i
    BY <2>1
  <2>3. q \in Seq(RoomType)
    BY StageTop
  <2> HIDE DEF q
  <2> QED BY <2>1, <2>2, <2>3, TopFrame
<1>3. /\ U \in RoomType /\ U.part = PartOf(t.op) /\ U.open = i /\ U.at = i /\ U.bound = {}
      /\ U.part \in {"block", "then", "while"} /\ (U.part = "while" <=> t.op = "while")
      /\ (U.part = "then" <=> t.op = "if")
  <2>1. /\ PartOf(t.op) \in {"block", "then", "while"}
        /\ (PartOf(t.op) = "while" <=> t.op = "while") /\ (PartOf(t.op) = "then" <=> t.op = "if")
    BY DEF PartOf
  <2>2. PICK p : p = PartOf(t.op)
    OBVIOUS
  <2>3. {} \in SUBSET Names
    OBVIOUS
  <2>4. /\ Room(p, i, i, {}) \in RoomType /\ Room(p, i, i, {}).part = p /\ Room(p, i, i, {}).open = i
        /\ Room(p, i, i, {}).at = i /\ Room(p, i, i, {}).bound = {}
    BY <1>2, <2>1, <2>2, <2>3, RoomFields
  <2> QED BY <2>1, <2>2, <2>4
<1>4. /\ Len(frames') = Len(frames) + 1 /\ frames'[Len(frames) + 1] = f
      /\ \A k \in 1 .. Len(frames) : frames'[k] = frames[k]
  BY <1>1, <1>2, AppendProperties DEF Begins
<1>5. chk' = Entered(chk, U)
  BY <1>1, <1>3 DEF Begins, Entered
<1> HIDE DEF q
<1>6. r \in Seq(RoomType)
  <2> HIDE DEF U
  <2> QED BY <1>2, <1>3, AppendProperties
<1>7. ASSUME NEW sc, NEW sr, Prolonged(cs, rs, sc, sr, i, chk', r)
      PROVE  Follows(sc, sr, i, t, ops) /\ Mirrors(frames', r, sc, sr)
  <2>1. sc[i] = chk /\ sr[i] = q /\ sc[i + 1] = chk' /\ sr[i + 1] = r
    <3>1. i \in 0 .. i
      BY <1>2
    <3> QED BY <1>2, <1>7, <3>1 DEF Prolonged, q
  <2>2. Follows(sc, sr, i, t, ops)
    <3>1. Opening(sc, sr, i, t)
      BY <1>5, <2>1 DEF Opening
    <3> QED BY <1>2, <2>1, <3>1 DEF Follows
  <2>3. ASSUME NEW k \in 1 .. Len(q)
        PROVE  Meets(frames'[k], q[k], sc, sr)
    <3>1. q[k].open \in 0 .. i /\ q[k].at \in 0 .. i
      BY <1>2, RoomsBefore DEF q
    <3>2. PICK a, b, g : a = q[k] /\ b = frames[k] /\ g = frames'[k]
      OBVIOUS
    <3>3. Meets(b, a, cs, rs) /\ g = b /\ a.open \in 0 .. i /\ a.at \in 0 .. i
      BY <1>2, <1>4, <3>1, <3>2
    <3> QED BY <1>2, <1>7, <3>2, <3>3, MeetsOn
  <2>4. Meets(frames'[Len(q) + 1], U, sc, sr)
    BY <1>1, <1>2, <1>3, <1>4, <2>1 DEF Meets, Begins
  <2> HIDE DEF U
  <2> QED BY <1>2, <1>3, <1>4, <2>2, <2>3, <2>4, MirrorsAdd
<1> QED BY <1>6, <1>7 DEF Goes

\* A checker is its fields.
LEMMA SameChecker ==
    ASSUME NEW a \in Checker, NEW p \in Checker, p.bindings = a.bindings, p.marks = a.marks,
           p.depth = a.depth, p.diags = a.diags
    PROVE  [p EXCEPT !.tbl = a.tbl] = a
BY DEF Checker

\* The end of a branch that the checker accepted: r is the checker after it.
Parts(a, c, T, r, ops) ==
    /\ a \in Checker /\ r = Quit(c, T) /\ Accepted(a, ops) /\ Accepted(r, ops)
    /\ Resumes(a, r) /\ [r EXCEPT !.tbl = a.tbl] = a

\* So it is when the walk is left for what is around it.
LEMMA BranchParts ==
    ASSUME CheckInv, Here, NEW ops, NEW cs, NEW rs, NEW i, NEW T, Stage(cs, rs, i, T, ops),
           NEW r, r = Quit(chk, T), r.diags = {}
    PROVE  Parts(cs[T.open], chk, T, r, ops)
<1>1. /\ i \in Nat /\ Paces(cs, rs) /\ (\A m \in 0 .. i : Placed(cs, rs, m, ops)) /\ cs[i] = chk
      /\ Tops(cs, rs, i, T, Len(frames))
  BY DEF Stage
<1>2. Within(cs[T.open], chk, T) /\ T.open \in 0 .. i - 1
  BY <1>1 DEF Tops
<1>3. PICK a : a = cs[T.open]
  OBVIOUS
<1>4. Accepted(a, ops) /\ a \in Checker
  <2>1. T.open \in 0 .. i
    BY <1>1, <1>2
  <2>2. Placed(cs, rs, T.open, ops)
    BY <1>1, <2>1
  <2> QED BY <1>3, <2>2 DEF Placed, Accepted
<1>5. Accepted(chk, ops) /\ Within(a, chk, T)
  BY <1>2, <1>3, StageTop
<1>6. Accepted(r, ops) /\ Resumes(a, r)
  BY <1>4, <1>5, QuitChanges
<1>7. r \in Checker /\ a.diags = {}
  BY <1>4, <1>6 DEF Accepted
<1>8. [r EXCEPT !.tbl = a.tbl] = a
  BY <1>4, <1>6, <1>7, SameChecker DEF Resumes
<1> QED BY <1>3, <1>4, <1>6, <1>8 DEF Parts

\* The frames around the innermost one, if they stay.
LEMMA AroundMeets ==
    ASSUME CheckInv, Here, NEW ops, NEW cs, NEW rs, NEW i, NEW T, Stage(cs, rs, i, T, ops),
           NEW sc, NEW sr, NEW c, NEW r, Prolonged(cs, rs, sc, sr, i, c, r),
           NEW fs, \A k \in 1 .. Len(frames) - 1 :
                      /\ fs[k].part = Below[k].part /\ fs[k].bound = Below[k].bound
                      /\ fs[k].base = Below[k].base /\ fs[k].tables = Below[k].tables
    PROVE  \A k \in 1 .. Len(frames) - 1 : Meets(fs[k], Around(rs[i])[k], sc, sr)
<1> SUFFICES ASSUME NEW k \in 1 .. Len(frames) - 1
             PROVE  Meets(fs[k], Around(rs[i])[k], sc, sr)
  OBVIOUS
<1>1. PICK f, g, a : f = frames[k] /\ g = fs[k] /\ a = Around(rs[i])[k]
  OBVIOUS
<1>2. Meets(f, a, cs, rs) /\ a.open \in 0 .. i /\ a.at \in 0 .. i /\ i \in Nat
  BY <1>1, StageTop DEF Stage
<1>3. Below[k] = f
  BY <1>1, TopFrame
<1>4. g.part = f.part /\ g.bound = f.bound /\ g.base = f.base /\ g.tables = f.tables
  BY <1>1, <1>3
<1>5. Meets(g, a, sc, sr)
  BY <1>2, <1>4, MeetsOn
<1> QED BY <1>1, <1>5

\* The second branch begins.
LEMMA GoesElse ==
    ASSUME CheckInv, Here, NEW ops, NEW cs, NEW rs, NEW i, NEW T, Stage(cs, rs, i, T, ops),
           NEW t, Else(t), chk'.diags = {}
    PROVE  \E r : Goes(cs, rs, i, t, r, ops)
<1> DEFINE q == Around(rs[i])
           U == Room("else", T.open, i, {})
           r == Append(q, U)
<1>1. PICK p : p = PopScope(chk)
  OBVIOUS
<1>2. PICK f : /\ f.part = "else" /\ f.base = Top.base /\ f.tables = <<p.tbl>> /\ f.bound = {}
               /\ frames' = Append(Below, f) /\ f \in FrameType
  <2> DEFINE k == IF Top.exits THEN "exits" ELSE ""
             f == [Top EXCEPT !.part = "else", !.at = pc, !.tables = <<ThenTable>>, !.bound = {},
                               !.k = k, !.exits = FALSE]
  <2>1. frames' = Append(Below, f)
    BY DEF Else, Swap
  <2>2. Top \in FrameRecord /\ Top.part = "then" /\ pc \in Nat
    BY TopFrame, LenProperties DEF FrameType, Else, Reading, CheckInv
  <2>3. <<ThenTable>> = <<p.tbl>> /\ p.tbl \in Table
    BY <1>1, <2>2, TopPopped DEF ThenTable
  <2>4. <<p.tbl>> \in Seq(Table) /\ Len(<<p.tbl>>) = 1
    BY <2>3
  <2>5. k \in FrameKeys
    BY DEF FrameKeys
  <2>6. PICK kept : kept = <<ThenTable>>
    OBVIOUS
  <2>7. kept \in Seq(Table) /\ Len(kept) > 0 /\ kept = <<p.tbl>>
    BY <2>3, <2>4, <2>6
  <2> HIDE DEF k
  <2>8. f = [Top EXCEPT !.part = "else", !.at = pc, !.tables = kept, !.bound = {}, !.k = k, !.exits = FALSE]
    BY <2>6
  <2> HIDE DEF f
  <2>9. f.part = "else" /\ f.base = Top.base /\ f.tables = kept /\ f.bound = {} /\ f \in FrameType
    BY <2>2, <2>5, <2>7, <2>8 DEF FrameType, FrameRecord, FrameParts, Bodies
  <2> QED BY <2>1, <2>7, <2>9
<1>3. /\ i \in Nat /\ Paces(cs, rs) /\ cs[i] = chk /\ Len(rs[i]) = Len(frames) /\ T = Inmost(rs[i])
      /\ Len(frames) \in Nat /\ Len(frames) > 0 /\ i \in 0 .. i
  BY TopFrame DEF Stage
<1>4. /\ Meets(Top, T, cs, rs) /\ T.part = "then" /\ T \in RoomType /\ T.open \in 0 .. i
      /\ q \in Seq(RoomType) /\ Len(q) = Len(frames) - 1 /\ Top.base = cs[T.open].tbl
  BY StageTop DEF Meets, Else, Reading
<1>5. p = Quit(chk, T) /\ p.diags = {} /\ chk' = PushScope([p EXCEPT !.tbl = Top.base])
  <2>1. p = Quit(chk, T)
    BY <1>1, <1>4 DEF Quit, Closed
  <2>2. chk' = PushScope([p EXCEPT !.tbl = Top.base])
    BY <1>1 DEF Else
  <2>3. p \in Checker
    BY <1>1, PopReports DEF Else, Reading
  <2>4. p.diags = {}
    BY <2>2, <2>3, PushReports
  <2> QED BY <2>1, <2>2, <2>4
<1>6. Parts(cs[T.open], chk, T, p, ops)
  BY <1>5, BranchParts
<1>7. /\ U \in RoomType /\ U.part = "else" /\ U.open = T.open /\ U.at = i /\ U.bound = {}
  <2>1. T.open \in Nat /\ {} \in SUBSET Names
    BY <1>3, <1>4
  <2> QED BY <1>3, <2>1, RoomFields
<1>8. chk' = Entered(cs[T.open], U)
  <2>1. chk' = PushScope(cs[T.open])
    BY <1>4, <1>5, <1>6 DEF Parts
  <2> QED BY <1>7, <2>1 DEF Entered, Opened
<1>9. /\ Len(frames') = Len(q) + 1 /\ frames'[Len(q) + 1] = f
      /\ \A k \in 1 .. Len(q) : frames'[k] = Below[k]
  BY <1>2, <1>3, <1>4, TopFrame, AppendProperties
<1> HIDE DEF q
<1>10. r \in Seq(RoomType)
  <2> HIDE DEF U
  <2> QED BY <1>4, <1>7, AppendProperties
<1>11. ASSUME NEW sc, NEW sr, Prolonged(cs, rs, sc, sr, i, chk', r)
       PROVE  Follows(sc, sr, i, t, ops) /\ Mirrors(frames', r, sc, sr)
  <2>1. /\ sc[i] = chk /\ sr[i] = rs[i] /\ sc[i + 1] = chk' /\ sr[i + 1] = r
        /\ sc[T.open] = cs[T.open]
    BY <1>3, <1>4, <1>11 DEF Prolonged
  <2>2. Follows(sc, sr, i, t, ops)
    <3>1. T = Inmost(sr[i]) /\ Quit(sc[i], T).diags = {} /\ t.op = "else" /\ Around(sr[i]) = q
      BY <1>3, <1>5, <2>1 DEF q, Else
    <3>2. Elsewise(sc, sr, i, t)
      BY <1>4, <1>8, <2>1, <3>1 DEF Elsewise
    <3> QED BY <1>3, <2>1, <3>2 DEF Follows
  <2>3. \A k \in 1 .. Len(q) : Meets(frames'[k], q[k], sc, sr)
    <3>1. \A k \in 1 .. Len(frames) - 1 :
                      /\ frames'[k].part = Below[k].part /\ frames'[k].bound = Below[k].bound
                      /\ frames'[k].base = Below[k].base /\ frames'[k].tables = Below[k].tables
      BY <1>4, <1>9
    <3> QED BY <1>4, <1>11, <3>1, AroundMeets DEF q
  <2>4. Meets(f, U, sc, sr)
    <3>1. Quit(sc[U.at], Inmost(sr[U.at])) = p /\ sc[U.open].tbl = Top.base
      BY <1>3, <1>4, <1>5, <1>7, <2>1
    <3>2. f.tables[1] = p.tbl
      BY <1>2
    <3> QED BY <1>2, <1>5, <1>7, <3>1, <3>2 DEF Meets
  <2> HIDE DEF U
  <2> QED BY <1>4, <1>7, <1>9, <2>2, <2>3, <2>4, MirrorsAdd
<1> QED BY <1>10, <1>11 DEF Goes

\* A comparison that reports nothing: the tables agree.
LEMMA CompareQuiet ==
    ASSUME NEW s \in Checker, NEW t, NEW u, Compare(s, t, u).diags = {}
    PROVE  Agree(t, u) /\ Compare(s, t, u) = s
<1>1. Emit(s, "BranchInconsistent").diags # {}
  BY DEF Emit, Checker
<1> QED BY <1>1 DEF Compare

\* What the end of a construct leaves: p is the checker after its last part.
Ends(cs, rs, i, T, p, c) ==
    /\ p.diags = {}
    /\ T.part # "else" => c = p
    /\ T.part = "then" => Agree(p.tbl, cs[T.open].tbl)
    /\ T.part = "else" => c = Quit(cs[T.at], Inmost(rs[T.at])) /\ Agree(c.tbl, p.tbl)

\* The branch that was left first, seen from the end of the second.
LEMMA FirstParts ==
    ASSUME NEW ops, NEW cs, NEW rs, NEW i, NEW T, Stage(cs, rs, i, T, ops), T.part = "else",
           NEW x, x = Quit(cs[T.at], Inmost(rs[T.at])), x.diags = {}
    PROVE  Accepted(x, ops) /\ Resumes(cs[T.open], x) /\ T.at \in 1 .. i - 1
<1>1. /\ i \in Nat /\ Paces(cs, rs) /\ (\A m \in 0 .. i : Placed(cs, rs, m, ops))
      /\ Tops(cs, rs, i, T, Len(frames))
  BY DEF Stage
<1>2. PICK V : V = Inmost(rs[T.at])
  OBVIOUS
<1>3. Paired(cs, rs, i, T, V, Len(frames))
  BY <1>1, <1>2, FirstBranch
<1>4. /\ T.at \in 1 .. i - 1 /\ V.open = T.open /\ Within(cs[T.open], cs[T.at], V)
      /\ T.open \in 0 .. i - 1
  BY <1>1, <1>3 DEF Paired, Tops
<1>5. PICK a, b : a = cs[T.open] /\ b = cs[T.at]
  OBVIOUS
<1>6. Accepted(a, ops) /\ Accepted(b, ops)
  <2>1. T.open \in 0 .. i /\ T.at \in 0 .. i
    BY <1>1, <1>4
  <2>2. Placed(cs, rs, T.open, ops) /\ Placed(cs, rs, T.at, ops)
    BY <1>1, <2>1
  <2> QED BY <1>5, <2>2 DEF Placed
<1>7. x = Quit(b, V) /\ Within(a, b, V)
  BY <1>2, <1>4, <1>5
<1>8. Accepted(x, ops) /\ Resumes(a, x)
  BY <1>6, <1>7, QuitChanges
<1> QED BY <1>4, <1>5, <1>8

\* How a construct ends.
LEMMA PartEnds ==
    ASSUME CheckInv, Here, NEW ops, NEW cs, NEW rs, NEW i, NEW T, Stage(cs, rs, i, T, ops),
           NEW t, End(t), chk'.diags = {}
    PROVE  /\ T.part # "body" /\ t.op = "end" /\ Ends(cs, rs, i, T, Quit(chk, T), chk')
           /\ \E e \in BOOLEAN : Leave(e)
<1>1. PICK p : p = Quit(chk, T)
  OBVIOUS
<1>2. /\ Top.part = T.part /\ Meets(Top, T, cs, rs) /\ T \in RoomType /\ Reading = Top.part
      /\ Top.exits \in BOOLEAN
  BY StageTop, TopFrame DEF Reading, FrameType, FrameRecord
<1>3. T.part \in {"body", "block", "then", "else", "while"} /\ t.op = "end"
  BY <1>2 DEF RoomType, End
<1>4. ASSUME T.part \in {"block", "then", "else"}
      PROVE  p = PopScope(chk) /\ p \in Checker
  <2>1. p = PopScope(chk)
    BY <1>1, <1>4 DEF Quit, Closed
  <2> QED BY <1>2, <1>4, <2>1, PopReports
<1>5. CASE T.part = "body"
  <2>1. FALSE
    BY <1>2, <1>5 DEF End
  <2> QED BY <2>1
<1>6. CASE T.part = "block"
  <2>1. chk' = PopScope(chk) /\ Leave(Top.exits)
    BY <1>2, <1>6 DEF End
  <2> QED BY <1>1, <1>2, <1>3, <1>4, <1>6, <2>1 DEF Ends
<1>7. CASE T.part = "while"
  <2>1. chk' = LoopDone /\ Leave(FALSE)
    BY <1>2, <1>7 DEF End
  <2>2. chk' = p
    BY <1>1, <1>7, <2>1 DEF LoopDone, Quit, Closed
  <2> QED BY <1>1, <1>3, <1>7, <2>1, <2>2 DEF Ends
<1>8. CASE T.part = "then"
  <2>1. chk' = Compare(PopScope(chk), PopScope(chk).tbl, Top.base) /\ Leave(FALSE)
    BY <1>2, <1>8 DEF End
  <2>2. Agree(p.tbl, Top.base) /\ chk' = p
    <3>1. PICK x, y : x = p.tbl /\ y = Top.base
      OBVIOUS
    <3>2. p \in Checker /\ chk' = Compare(p, x, y) /\ Compare(p, x, y).diags = {}
      BY <1>4, <1>8, <2>1, <3>1
    <3>3. Agree(x, y) /\ Compare(p, x, y) = p
      BY <3>2, CompareQuiet
    <3> QED BY <3>1, <3>2, <3>3
  <2>3. Top.base = cs[T.open].tbl
    BY <1>2, <1>8 DEF Meets
  <2> QED BY <1>1, <1>3, <1>8, <2>1, <2>2, <2>3 DEF Ends
<1>9. CASE T.part = "else"
  <2>1. PICK e : e = (Top.exits /\ Top.k = "exits")
    OBVIOUS
  <2>2. /\ chk' = [Compare(PopScope(chk), Top.tables[1], PopScope(chk).tbl) EXCEPT !.tbl = Top.tables[1]]
        /\ Leave(e)
    BY <1>2, <1>9, <2>1 DEF End
  <2>3. PICK x : x = Quit(cs[T.at], Inmost(rs[T.at]))
    OBVIOUS
  <2>4. Top.tables[1] = x.tbl /\ x.diags = {}
    BY <1>2, <1>9, <2>3 DEF Meets
  <2>5. PICK y, z : y = x.tbl /\ z = p.tbl
    OBVIOUS
  <2>6. p \in Checker /\ chk' = [Compare(p, y, z) EXCEPT !.tbl = y]
    BY <1>4, <1>9, <2>2, <2>4, <2>5
  <2>7. Agree(y, z) /\ Compare(p, y, z) = p
    <3>1. Compare(p, y, z) \in Checker
      BY <2>6, EmitRests DEF Compare, Rests, RuleKind
    <3>2. Compare(p, y, z).diags = {}
      BY <2>6, <3>1, KeptReports
    <3> QED BY <2>6, <3>2, CompareQuiet
  <2>8. p.diags = {}
    <3>1. chk' = [p EXCEPT !.tbl = y]
      BY <2>6, <2>7
    <3> QED BY <2>6, <3>1, KeptReports
  <2>9. chk' = x
    <3>1. Accepted(x, ops) /\ Resumes(cs[T.open], x)
      BY <1>9, <2>3, <2>4, FirstParts
    <3>2. Parts(cs[T.open], chk, T, p, ops)
      BY <1>1, <2>8, BranchParts
    <3>3. PICK a : a = cs[T.open]
      OBVIOUS
    <3>4. Resumes(a, x) /\ Resumes(a, p) /\ x \in Checker
      BY <3>1, <3>2, <3>3 DEF Parts, Accepted
    <3>5. p.bindings = x.bindings /\ p.marks = x.marks /\ p.depth = x.depth /\ p.diags = x.diags
      BY <2>4, <2>8, <3>4 DEF Resumes
    <3>6. [p EXCEPT !.tbl = x.tbl] = x
      BY <2>6, <3>4, <3>5, SameChecker
    <3> QED BY <2>5, <2>6, <2>7, <3>6
  <2>10. e \in BOOLEAN
    BY <2>1, Zenon
  <2>11. Agree(chk'.tbl, p.tbl)
    BY <2>5, <2>7, <2>9
  <2> QED BY <1>1, <1>3, <1>9, <2>2, <2>3, <2>8, <2>9, <2>10, <2>11 DEF Ends
<1> QED BY <1>3, <1>5, <1>6, <1>7, <1>8, <1>9

\* A construct ends.
LEMMA GoesEnd ==
    ASSUME CheckInv, Here, NEW ops, NEW cs, NEW rs, NEW i, NEW T, Stage(cs, rs, i, T, ops),
           NEW t, End(t), chk'.diags = {}
    PROVE  \E r : Goes(cs, rs, i, t, r, ops)
<1> DEFINE r == Around(rs[i])
<1>1. PICK p : p = Quit(chk, T)
  OBVIOUS
<1>2. T.part # "body" /\ t.op = "end" /\ Ends(cs, rs, i, T, p, chk') /\ \E e \in BOOLEAN : Leave(e)
  BY <1>1, PartEnds
<1>3. /\ i \in Nat /\ Paces(cs, rs) /\ cs[i] = chk /\ Len(rs[i]) = Len(frames) /\ T = Inmost(rs[i])
      /\ Len(frames) \in Nat /\ Len(frames) > 0 /\ i \in 0 .. i
  BY TopFrame DEF Stage
<1>4. /\ Top.part = T.part /\ r \in Seq(RoomType) /\ Len(r) = Len(frames) - 1 /\ T.open \in 0 .. i
      /\ T.at \in 0 .. i
  BY StageTop
<1>5. /\ Len(frames') = Len(r)
      /\ \A k \in 1 .. Len(frames) - 1 :
                      /\ frames'[k].part = Below[k].part /\ frames'[k].bound = Below[k].bound
                      /\ frames'[k].base = Below[k].base /\ frames'[k].tables = Below[k].tables
  <2>1. PICK b \in BOOLEAN : frames' = [Below EXCEPT ![Len(frames) - 1].exits = b]
    BY <1>2, <1>4, LeaveExits
  <2>2. Below \in Seq(FrameType) /\ Len(Below) = Len(frames) - 1
    BY TopFrame
  <2>3. Len(frames') = Len(Below) /\ DOMAIN Below = 1 .. Len(frames) - 1
    BY <1>3, <2>1, <2>2
  <2>4. ASSUME NEW k \in 1 .. Len(frames) - 1
        PROVE  /\ frames'[k].part = Below[k].part /\ frames'[k].bound = Below[k].bound
               /\ frames'[k].base = Below[k].base /\ frames'[k].tables = Below[k].tables
    <3>1. Below[k] \in FrameRecord
      <4>1. Below[k] \in FrameType
        BY <2>2, ElementOfSeq
      <4> QED BY <4>1 DEF FrameType
    <3>2. PICK g : g = Below[k]
      OBVIOUS
    <3>3. frames'[k] = g \/ frames'[k] = [g EXCEPT !.exits = b]
      BY <2>1, <2>3, <3>2
    <3> QED BY <3>1, <3>2, <3>3 DEF FrameRecord
  <2> QED BY <1>4, <2>2, <2>3, <2>4
<1> HIDE DEF r
<1>6. ASSUME NEW sc, NEW sr, Prolonged(cs, rs, sc, sr, i, chk', r)
      PROVE  Follows(sc, sr, i, t, ops) /\ Mirrors(frames', r, sc, sr)
  <2>1. /\ sc[i] = chk /\ sr[i] = rs[i] /\ sc[i + 1] = chk' /\ sr[i + 1] = r
        /\ sc[T.open] = cs[T.open] /\ sc[T.at] = cs[T.at] /\ sr[T.at] = rs[T.at]
    BY <1>3, <1>4, <1>6 DEF Prolonged
  <2>2. Follows(sc, sr, i, t, ops)
    <3>1. T = Inmost(sr[i]) /\ Quit(sc[i], T) = p /\ Around(sr[i]) = r
      BY <1>1, <1>3, <2>1 DEF r
    <3>2. Ends(sc, sr, i, T, p, sc[i + 1])
      BY <1>2, <2>1 DEF Ends
    <3>3. Ending(sc, sr, i, t)
      BY <1>2, <2>1, <3>1, <3>2 DEF Ending, Ends
    <3> QED BY <1>3, <2>1, <3>3 DEF Follows
  <2>3. \A k \in 1 .. Len(r) : Meets(frames'[k], r[k], sc, sr)
    BY <1>4, <1>5, <1>6, AroundMeets DEF r
  <2> QED BY <1>5, <2>2, <2>3 DEF Mirrors
<1> QED BY <1>4, <1>6 DEF Goes

\* The program ends.
LEMMA GoesEof ==
    ASSUME CheckInv, Here, NEW ops, NEW cs, NEW rs, NEW i, NEW T, Stage(cs, rs, i, T, ops),
           NEW t, Eof(t), chk'.diags = {}
    PROVE  \E r : Goes(cs, rs, i, t, r, ops)
<1> DEFINE r == <<>>
<1>1. Len(frames) = 1 /\ chk' = PopScope(chk) /\ frames' = <<>> /\ t.op = "eof"
  BY DEF Eof
<1>2. i \in Nat /\ cs[i] = chk /\ Len(rs[i]) = 1 /\ T = Inmost(rs[i]) /\ i \in 0 .. i
  BY <1>1 DEF Stage
<1>3. T.part = "body"
  <2>1. Top = frames[1] /\ frames[1].part = "body"
    BY <1>1, TopFrame DEF CheckInv, Fits
  <2> QED BY <2>1, StageTop
<1>4. chk' = Quit(chk, T)
  BY <1>1, <1>3 DEF Quit, Closed
<1>5. r \in Seq(RoomType) /\ Len(r) = 0 /\ Len(frames') = 0
  BY <1>1
<1>6. ASSUME NEW sc, NEW sr, Prolonged(cs, rs, sc, sr, i, chk', r)
      PROVE  Follows(sc, sr, i, t, ops) /\ Mirrors(frames', r, sc, sr)
  <2>1. sc[i] = chk /\ sr[i] = rs[i] /\ sc[i + 1] = chk' /\ sr[i + 1] = r
    BY <1>2, <1>6 DEF Prolonged
  <2>2. Finishing(sc, sr, i, t)
    BY <1>1, <1>2, <1>4, <2>1 DEF Finishing
  <2>3. Follows(sc, sr, i, t, ops)
    <3>1. Len(sr[i]) > 0
      <4>1. sr[i] = rs[i] /\ Len(rs[i]) = 1
        BY <1>2, <2>1
      <4>2. Len(sr[i]) = 1
        BY <4>1
      <4> QED BY <4>2
    <3> QED BY <2>2, <3>1 DEF Follows
  <2>4. Mirrors(frames', r, sc, sr)
    BY <1>5 DEF Mirrors
  <2> QED BY <2>3, <2>4
<1> QED BY <1>5, <1>6 DEF Goes

\* Every token that the checker accepts.
LEMMA GoesOn ==
    ASSUME CheckInv, Here, Structured, NEW cs, NEW rs, NEW i, NEW T, Stage(cs, rs, i, T, fragment.ops),
           NEW t \in Readable, Step(t), chk'.diags = {}
    PROVE  \E r : Goes(cs, rs, i, t, r, fragment.ops)
<1>1. PICK ops : ops = fragment.ops
  OBVIOUS
<1>2. t.op \in ops /\ t.op \in Written /\ Plainly(ops) /\ ~fragment.shadowing /\ Stage(cs, rs, i, T, ops)
  BY <1>1 DEF Readable, Structured, Plainly
<1>3. CASE t.op \in StraightWords
  <2>1. Accepted(chk, ops) /\ tries = 0
    BY <1>2, StageTop, NoTries
  <2>2. \A n \in Names : Tracked(chk, n) => n \in Visible
    <3>1. i \in Nat /\ (\A m \in 0 .. i : Placed(cs, rs, m, ops)) /\ cs[i] = chk /\ Visible = Seen(rs[i])
      BY <1>2 DEF Stage
    <3>2. Placed(cs, rs, i, ops)
      BY <3>1
    <3> QED BY <3>1, <3>2 DEF Placed
  <2>3. Does(t, chk, chk', ops) /\ Deepens(Declared(t))
    BY <1>2, <1>3, <2>1, <2>2, StepDoes
  <2>4. Used(t) \subseteq Visible /\ Declared(t) \subseteq Names \ Visible
    BY <1>2, <1>3, StatementNames
  <2> QED BY <1>1, <1>2, <1>3, <2>3, <2>4, GoesStraight
<1>4. CASE t.op \in {"block", "if", "while"}
  <2>1. Open(t)
    BY <1>4 DEF Step, Simple, LogicalRight, ReturnOrThrow, BreakOrContinue, Else, Clause, Catch, Finally,
                End, Eof
  <2> QED BY <1>1, <1>2, <1>4, <2>1, GoesOpen
<1>5. CASE t.op = "else"
  <2>1. Else(t)
    BY <1>5 DEF Step, Simple, LogicalRight, ReturnOrThrow, BreakOrContinue, Open, Clause, Catch, Finally,
                End, Eof
  <2> QED BY <1>1, <1>2, <2>1, GoesElse
<1>6. CASE t.op = "end"
  <2>1. End(t)
    BY <1>6 DEF Step, Simple, LogicalRight, ReturnOrThrow, BreakOrContinue, Open, Else, Clause, Catch,
                Finally, Eof
  <2> QED BY <1>1, <1>2, <2>1, GoesEnd
<1>7. CASE t.op = "eof"
  <2>1. Eof(t)
    BY <1>7 DEF Step, Simple, LogicalRight, ReturnOrThrow, BreakOrContinue, Open, Else, Clause, Catch,
                Finally, End
  <2> QED BY <1>1, <1>2, <2>1, GoesEof
<1> QED BY <1>2, <1>3, <1>4, <1>5, <1>6, <1>7 DEF Written

\* The tokens of a walk.
LEMMA FollowsWords ==
    ASSUME NEW ops, NEW cs, NEW rs, NEW i, NEW t, Follows(cs, rs, i, t, ops)
    PROVE  t.op \in Written
BY DEF Follows, Straightly, Opening, Elsewise, Ending, Finishing, Written

\* Before the first token.
LEMMA TraceInit == CInit => TraceInv
<1> SUFFICES ASSUME CInit PROVE TraceInv
  OBVIOUS
<1>1. PICK ops : ops = fragment.ops
  OBVIOUS
<1>2. PICK cs, rs : Walk(cs, rs, <<>>, ops)
  BY WalkFirst
<1>3. prog = <<>> /\ chk = PushScope(Empty) /\ frames = <<Frame("body", 0)>>
  BY DEF CInit
<1>4. cs[1] = PushScope(Empty) /\ rs[1] = <<Room("body", 0, 0, {})>>
  BY <1>2 DEF Walk
<1>5. PICK f, T : f = Frame("body", 0) /\ T = Room("body", 0, 0, {})
  OBVIOUS
<1>6. Meets(f, T, cs, rs)
  BY <1>5 DEF Meets, Frame, Room
<1>7. Mirrors(frames, rs[1], cs, rs)
  <2>1. frames = <<f>> /\ rs[1] = <<T>>
    BY <1>3, <1>4, <1>5
  <2> QED BY <1>6, <2>1 DEF Mirrors
<1>8. Traced(cs, rs, prog, ops, chk, frames)
  BY <1>2, <1>3, <1>4, <1>7 DEF Traced
<1> QED BY <1>1, <1>8 DEF TraceInv

\* Every token goes on with the walk, or is reported.
LEMMA TraceNext == CheckInv /\ CoverInv /\ TraceInv /\ [Next]_vars => TraceInv'
<1> SUFFICES ASSUME CheckInv, CoverInv, TraceInv, [Next]_vars PROVE TraceInv'
  OBVIOUS
<1>1. CASE Check
  <2>1. Here /\ fragment' = fragment
    BY <1>1 DEF Check
  <2> SUFFICES ASSUME Structured, chk'.diags = {}
               PROVE  \E cs, rs : Traced(cs, rs, prog', fragment.ops, chk', frames')
    BY <2>1 DEF TraceInv, Structured
  <2>2. chk.diags = {}
    <3>1. PICK t \in TokenType : Step(t)
      BY <1>1, TokenRead
    <3>2. chk.diags \subseteq chk'.diags
      BY <2>1, <3>1, StepReports
    <3> QED BY <3>2
  <2>3. PICK ops : ops = fragment.ops
    OBVIOUS
  <2>4. PICK cs, rs : Traced(cs, rs, prog, ops, chk, frames)
    BY <2>2, <2>3 DEF TraceInv
  <2>5. Walk(cs, rs, prog, ops) /\ Paces(cs, rs)
    BY <2>4 DEF Traced, Walk
  <2>6. ~Has("finally")
    <3>1. \A k \in 1 .. Len(prog) : prog[k].op \in Written
      BY <2>5, FollowsWords DEF Walk
    <3>2. "finally" \notin Written
      BY DEF Written, StraightWords
    <3> QED BY <3>1, <3>2 DEF Has
  <2>7. PICK N : N = Len(prog)
    OBVIOUS
  <2>8. N \in Nat /\ pc = N + 1 /\ ~(pc <= Len(prog))
    BY <2>6, <2>7, LenProperties DEF CoverInv, CheckInv
  <2>9. PICK t \in Readable : Step(t) /\ prog' = Append(prog, t)
    BY <1>1, <2>8 DEF Check
  <2>10. t \in TokenType /\ prog \in Seq(TokenType)
    BY ReadableTokens DEF CheckInv
  <2>11. PICK T : Stage(cs, rs, N + 1, T, ops)
    BY <2>1, <2>4, <2>7, StageAt
  <2>12. PICK r : Goes(cs, rs, N + 1, t, r, ops)
    BY <2>1, <2>3, <2>9, <2>11, GoesOn
  <2>13. PICK c : c = chk'
    OBVIOUS
  <2>14. c \in Checker /\ r \in Seq(RoomType)
    <3>1. CheckInv'
      BY CheckNext
    <3> QED BY <2>12, <2>13, <3>1 DEF CheckInv, Fits, Goes
  <2>15. PICK sc, sr : Prolongs(cs, rs, sc, sr, N, c, r)
    BY DEF Prolongs
  <2>16. Prolonged(cs, rs, sc, sr, N + 1, c, r)
    BY <2>5, <2>8, <2>14, <2>15, ProlongsOn
  <2>17. Follows(sc, sr, N + 1, t, ops) /\ Mirrors(frames', r, sc, sr)
    BY <2>12, <2>13, <2>16 DEF Goes
  <2>18. Walk(sc, sr, prog', ops)
    BY <2>5, <2>7, <2>8, <2>9, <2>10, <2>14, <2>15, <2>17, WalkOn
  <2>19. Len(prog') + 1 = (N + 1) + 1
    BY <2>7, <2>8, <2>9, <2>10, AppendProperties
  <2>20. sc[(N + 1) + 1] = c /\ sr[(N + 1) + 1] = r
    BY <2>16 DEF Prolonged
  <2>21. Traced(sc, sr, prog', ops, chk', frames')
    BY <2>13, <2>17, <2>18, <2>19, <2>20 DEF Traced
  <2> QED BY <2>3, <2>21
<1>2. CASE UNCHANGED cvars
  <2>1. fragment' = fragment /\ prog' = prog /\ chk' = chk /\ frames' = frames
    BY <1>2 DEF cvars
  <2> QED BY <2>1 DEF TraceInv, Structured
<1> QED BY <1>1, <1>2 DEF Next, Checking, Starting, Executing, vars

\* Every program without finalizers is read once.
LEMMA CoverAlways == Spec => []CoverInv
<1>1. Init => CoverInv
  BY CoverInit DEF Init
<1> QED BY <1>1, CoverNext, CheckAlways, PTL DEF Spec

\* The walk over every accepted program is of that form.
LEMMA TraceAlways == Spec => []TraceInv
<1>1. Init => TraceInv
  BY TraceInit DEF Init
<1> QED BY <1>1, TraceNext, CoverAlways, CheckAlways, PTL DEF Spec

-----------------------------------------------------------------------------
(* What the running program remembers.                                     *)

\* The slots of names and the values made so far.
Slots == [st : {"none", "own", "moved", "ref", "plain"}, val : Nat]
Values == [kind : Owning, held : BOOLEAN]

\* The scopes of the open constructs "rooms", where each name they declare has
\* its slot in f; and the world with those scopes, the values h and no fault.
Cell(room, f, n) == IF n \in room.bound THEN f[n] ELSE R!Unbound
Picture(rooms, f) == [k \in 1 .. Len(rooms) |-> [n \in Names |-> Cell(rooms[k], f, n)]]
Scene(rooms, f, h) == [env |-> Picture(rooms, f), heap |-> h, faults |-> {}]

\* Every declared name has a slot in use.
Shown(rooms, f) ==
    /\ rooms \in Seq(RoomType) /\ Apart(rooms) /\ f \in [Names -> Slots]
    /\ \A n \in Seen(rooms) : f[n].st # "none"

\* The innermost construct declares the names D.
Deeper(rooms, D) ==
    LET T == Inmost(rooms)
    IN  Append(Around(rooms), Room(T.part, T.open, T.at, T.bound \cup D))

\* The scopes, one per construct.
Pictured(rooms, f, e) ==
    /\ e \in Seq([Names -> Slots]) /\ Len(e) = Len(rooms) /\ Len(rooms) \in Nat
    /\ \A k \in 1 .. Len(rooms) : /\ rooms[k] \in RoomType /\ e[k] \in [Names -> Slots]
                                  /\ \A n \in Names : e[k][n] = Cell(rooms[k], f, n)

\* What a picture of the constructs holds.
LEMMA PictureScopes ==
    ASSUME NEW rooms \in Seq(RoomType), NEW f \in [Names -> Slots], NEW e, e = Picture(rooms, f)
    PROVE  Pictured(rooms, f, e)
<1>1. Len(rooms) \in Nat /\ \A k \in 1 .. Len(rooms) : rooms[k] \in RoomType
  BY LenProperties, ElementOfSeq
<1>2. ASSUME NEW room PROVE [n \in Names |-> Cell(room, f, n)] \in [Names -> Slots]
  BY DEF Cell, Slots, R!Unbound
<1>3. PICK g : g = [k \in 1 .. Len(rooms) |-> [n \in Names |-> Cell(rooms[k], f, n)]]
  OBVIOUS
<1>4. g \in [1 .. Len(rooms) -> [Names -> Slots]]
  BY <1>2, <1>3
<1>5. g \in Seq([Names -> Slots]) /\ Len(g) = Len(rooms)
  BY <1>1, <1>4
<1>6. e = g
  BY <1>3 DEF Picture
<1>7. \A k \in 1 .. Len(rooms) : e[k] \in [Names -> Slots] /\ \A n \in Names : e[k][n] = Cell(rooms[k], f, n)
  BY <1>3, <1>4, <1>6
<1> QED BY <1>1, <1>5, <1>6, <1>7 DEF Pictured

\* Scopes with the same cells are the same.
LEMMA SameScopes ==
    ASSUME NEW d \in Seq([Names -> Slots]), NEW e \in Seq([Names -> Slots]), Len(d) = Len(e),
           \A k \in 1 .. Len(d) : \A n \in Names : d[k][n] = e[k][n]
    PROVE  d = e
<1>1. \A k \in 1 .. Len(d) : d[k] \in [Names -> Slots] /\ e[k] \in [Names -> Slots]
  BY ElementOfSeq
<1>2. ASSUME NEW k \in 1 .. Len(d) PROVE d[k] = e[k]
  BY <1>1
<1> QED BY <1>2, SeqEqual

\* The scopes d, cell by cell.
Cells(rooms, f, d) ==
    /\ d \in Seq([Names -> Slots]) /\ Len(d) = Len(rooms)
    /\ \A k \in 1 .. Len(rooms) : \A n \in Names : d[k][n] = Cell(rooms[k], f, n)

\* Two pictures that agree cell by cell.
LEMMA SamePicture ==
    ASSUME NEW rooms, NEW f, NEW p, Pictured(rooms, f, p), NEW d, Cells(rooms, f, d)
    PROVE  d = p
<1>1. p \in Seq([Names -> Slots]) /\ d \in Seq([Names -> Slots]) /\ Len(d) = Len(p)
  BY DEF Pictured, Cells
<1>2. ASSUME NEW k \in 1 .. Len(d), NEW n \in Names PROVE d[k][n] = p[k][n]
  BY DEF Pictured, Cells
<1> QED BY <1>1, <1>2, SameScopes

\* The slots f with n's changed.
Rewritten(f, g, n, slot) ==
    g \in [Names -> Slots] /\ g[n] = slot /\ \A m \in Names : m # n => g[m] = f[m]

\* The k-th of the open constructs declares n.
Declares(rooms, k, n) ==
    /\ k \in 1 .. Len(rooms) /\ n \in Names /\ n \in rooms[k].bound
    /\ \A j \in 1 .. Len(rooms) : n \in rooms[j].bound => j = k

\* One of them declares each name seen.
LEMMA DeclaredOnce ==
    ASSUME NEW rooms \in Seq(RoomType), Apart(rooms), NEW n \in Seen(rooms)
    PROVE  \E k : Declares(rooms, k, n)
<1>1. PICK k \in 1 .. Len(rooms) : n \in rooms[k].bound
  BY DEF Seen
<1>2. rooms[k] \in RoomType
  BY ElementOfSeq
<1>3. n \in Names
  BY <1>1, <1>2 DEF RoomType
<1>4. ASSUME NEW j \in 1 .. Len(rooms), n \in rooms[j].bound PROVE j = k
  BY <1>1, <1>4 DEF Apart
<1> QED BY <1>1, <1>3, <1>4 DEF Declares

\* Where a name is looked up.
LEMMA SlotOf ==
    ASSUME NEW rooms, NEW f, Shown(rooms, f), NEW w, w.env = Picture(rooms, f), NEW n \in Seen(rooms)
    PROVE  Declares(rooms, R!ScopeOf(w, n), n) /\ R!Slot(w, n) = f[n]
<1>1. PICK k : Declares(rooms, k, n)
  BY DeclaredOnce DEF Shown
<1>2. rooms \in Seq(RoomType) /\ f \in [Names -> Slots] /\ f[n].st # "none"
  BY DEF Shown
<1>3. PICK e : e = w.env
  OBVIOUS
<1>4. /\ Len(e) = Len(rooms) /\ Len(rooms) \in Nat
      /\ \A j \in 1 .. Len(rooms) : e[j][n] = Cell(rooms[j], f, n)
  <2>1. Pictured(rooms, f, e)
    BY <1>2, <1>3, PictureScopes
  <2> QED BY <1>1, <2>1 DEF Declares, Pictured
<1>5. e[k][n] = f[n] /\ k \in 1 .. Len(e)
  BY <1>1, <1>4 DEF Declares, Cell
<1>6. ASSUME NEW j \in 1 .. Len(e), e[j][n].st # "none" PROVE j = k
  <2>1. R!Unbound.st = "none"
    BY DEF R!Unbound
  <2> QED BY <1>1, <1>4, <1>6, <2>1 DEF Declares, Cell
<1> DEFINE P(i) == /\ e[i][n].st # "none"
                   /\ \A j \in (i + 1) .. Len(e) : e[j][n].st = "none"
<1>7. P(k)
  <2>1. ASSUME NEW j \in (k + 1) .. Len(e) PROVE e[j][n].st = "none"
    <3>1. j \in 1 .. Len(e) /\ j # k
      BY <1>4, <1>5
    <3> QED BY <1>6, <3>1
  <2> QED BY <1>2, <1>5, <2>1
<1>8. R!ScopeOf(w, n) = CHOOSE i \in 1 .. Len(e) : P(i)
  BY <1>3 DEF R!ScopeOf
<1>9. R!ScopeOf(w, n) = k
  <2>1. \A i \in 1 .. Len(e) : P(i) => i = k
    BY <1>6
  <2> HIDE DEF P
  <2> QED BY <1>5, <1>7, <1>8, <2>1
<1> QED BY <1>1, <1>3, <1>5, <1>9 DEF R!Slot

\* One cell of the k-th scope is written.
LEMMA CellWritten ==
    ASSUME NEW e \in Seq([Names -> Slots]), NEW k \in 1 .. Len(e), NEW n \in Names, NEW slot \in Slots,
           NEW d, d = [e EXCEPT ![k][n] = slot]
    PROVE  /\ d \in Seq([Names -> Slots]) /\ Len(d) = Len(e)
           /\ \A j \in 1 .. Len(e) : \A m \in Names :
                 d[j][m] = IF j = k /\ m = n THEN slot ELSE e[j][m]
<1>1. Len(e) \in Nat /\ \A j \in 1 .. Len(e) : e[j] \in [Names -> Slots]
  BY LenProperties, ElementOfSeq
<1>2. PICK g : g = [e[k] EXCEPT ![n] = slot]
  OBVIOUS
<1>3. g \in [Names -> Slots] /\ \A m \in Names : g[m] = IF m = n THEN slot ELSE e[k][m]
  BY <1>1, <1>2
<1>4. d = [e EXCEPT ![k] = g]
  BY <1>2
<1>5. d \in Seq([Names -> Slots]) /\ Len(d) = Len(e)
  BY <1>1, <1>3, <1>4
<1>6. \A j \in 1 .. Len(e) : d[j] = IF j = k THEN g ELSE e[j]
  BY <1>1, <1>4
<1> QED BY <1>3, <1>5, <1>6

\* A world without faults, and a written cell.
Sound(w, e, h) == w = [env |-> e, heap |-> h, faults |-> {}]
Writes(e, k, n, slot, d) == d = [e EXCEPT ![k][n] = slot]

\* What the operations on scopes do to a world without faults: writing a cell ...
LEMMA CellWorld ==
    ASSUME NEW e, NEW h, NEW w, Sound(w, e, h), NEW n, NEW slot, NEW k, NEW d, Writes(e, k, n, slot, d)
    PROVE  Sound([w EXCEPT !.env[k][n] = slot], d, h)
BY DEF Sound, Writes

\* ... entering a scope ...
LEMMA EnterWorld ==
    ASSUME NEW e, NEW h, NEW w, Sound(w, e, h), NEW o, o = R!NoNames, NEW d, d = Append(e, o)
    PROVE  Sound(R!EnterScope(w), d, h)
<1>1. w.env = e
  BY DEF Sound
<1>2. R!EnterScope(w) = [w EXCEPT !.env = d]
  BY <1>1 DEF R!EnterScope
<1> QED BY <1>2 DEF Sound

\* ... and leaving one.
LEMMA LeaveWorld ==
    ASSUME NEW e, NEW h, NEW w, Sound(w, e, h),
           ~ \E n \in Names : R!Forgets(w, e[Len(e)][n]), NEW d, d = SubSeq(e, 1, Len(e) - 1)
    PROVE  Sound(R!LeaveScope(w), d, h)
BY DEF R!LeaveScope, Sound

\* The slot of a name is written.
LEMMA SetOf ==
    ASSUME NEW rooms, NEW f, Shown(rooms, f), NEW h, NEW n \in Seen(rooms), NEW slot \in Slots,
           slot.st # "none", NEW g, Rewritten(f, g, n, slot)
    PROVE  R!Set(Scene(rooms, f, h), n, slot) = Scene(rooms, g, h) /\ Shown(rooms, g)
<1>1. PICK e : e = Picture(rooms, f)
  OBVIOUS
<1>2. PICK w : w = Scene(rooms, f, h)
  OBVIOUS
<1>w. Sound(w, e, h) /\ w.env = e
  BY <1>1, <1>2 DEF Scene, Sound
<1>3. PICK k : k = R!ScopeOf(w, n)
  OBVIOUS
<1>4. Declares(rooms, k, n)
  BY <1>1, <1>2, <1>w, <1>3, SlotOf
<1>5. rooms \in Seq(RoomType) /\ f \in [Names -> Slots] /\ n \in Names /\ Apart(rooms)
  BY <1>4 DEF Shown, Declares
<1>6. g \in [Names -> Slots]
  BY DEF Rewritten
<1>7. Shown(rooms, g)
  <2>1. ASSUME NEW m \in Seen(rooms) PROVE g[m].st # "none"
    <3>1. PICK j : Declares(rooms, j, m)
      BY <1>5, DeclaredOnce
    <3>2. m \in Names
      BY <3>1 DEF Declares
    <3> QED BY <3>2 DEF Rewritten, Shown
  <2> QED BY <1>5, <1>6, <2>1 DEF Shown
<1>8. PICK p : p = Picture(rooms, g)
  OBVIOUS
<1>9. PICK d : d = [e EXCEPT ![k][n] = slot]
  OBVIOUS
<1>10. d = p
  <2>1. Pictured(rooms, f, e) /\ Pictured(rooms, g, p)
    BY <1>1, <1>5, <1>6, <1>8, PictureScopes
  <2>2. e \in Seq([Names -> Slots]) /\ k \in 1 .. Len(e) /\ Len(e) = Len(rooms)
    BY <1>4, <2>1 DEF Pictured, Declares
  <2>3. /\ d \in Seq([Names -> Slots]) /\ Len(d) = Len(e)
        /\ \A j \in 1 .. Len(e) : \A m \in Names :
                 d[j][m] = IF j = k /\ m = n THEN slot ELSE e[j][m]
    BY <1>5, <1>9, <2>2, CellWritten
  <2>4. ASSUME NEW j \in 1 .. Len(rooms), NEW m \in Names PROVE d[j][m] = Cell(rooms[j], g, m)
    <3>1. d[j][m] = (IF j = k /\ m = n THEN slot ELSE e[j][m])
      BY <2>2, <2>3
    <3>2. e[j][m] = Cell(rooms[j], f, m)
      BY <2>1 DEF Pictured
    <3>3. n \in rooms[j].bound <=> j = k
      BY <1>4 DEF Declares
    <3> QED BY <3>1, <3>2, <3>3 DEF Cell, Rewritten
  <2>5. Cells(rooms, g, d)
    BY <2>2, <2>3, <2>4 DEF Cells
  <2> QED BY <2>1, <2>5, SamePicture
<1>11. R!Set(w, n, slot) = [w EXCEPT !.env[k][n] = slot]
  BY <1>3 DEF R!Set
<1>12. Sound(R!Set(w, n, slot), d, h)
  <2>1. Writes(e, k, n, slot, d)
    BY <1>9 DEF Writes
  <2>2. Sound([w EXCEPT !.env[k][n] = slot], d, h)
    BY <1>w, <2>1, CellWorld
  <2> QED BY <1>11, <2>2
<1> QED BY <1>2, <1>7, <1>8, <1>10, <1>12 DEF Scene, Sound

\* The names seen once more are declared.
LEMMA DeeperRooms ==
    ASSUME NEW rooms \in Seq(RoomType), Len(rooms) > 0, NEW D \in SUBSET Names, NEW q, q = Deeper(rooms, D)
    PROVE  /\ q \in Seq(RoomType) /\ Len(q) = Len(rooms) /\ Len(rooms) \in Nat
           /\ Seen(q) = Seen(rooms) \cup D
           /\ \A k \in 1 .. Len(rooms) - 1 : q[k] = rooms[k]
           /\ q[Len(rooms)].bound = rooms[Len(rooms)].bound \cup D
<1> DEFINE T == Inmost(rooms)
           B == T.bound \cup D
           U == Room(T.part, T.open, T.at, B)
<1>1. /\ Len(rooms) \in Nat /\ T \in RoomType /\ Around(rooms) \in Seq(RoomType)
      /\ Len(Around(rooms)) = Len(rooms) - 1
      /\ \A k \in 1 .. Len(rooms) - 1 : Around(rooms)[k] = rooms[k]
      /\ rooms = Append(Around(rooms), T)
  BY TopRoom
<1>2. U \in RoomType /\ U.bound = B
  <2>1. T.part \in {"body", "block", "then", "else", "while"} /\ T.open \in Nat /\ T.at \in Nat
        /\ B \in SUBSET Names
    BY <1>1 DEF RoomType
  <2> HIDE DEF B, T
  <2> QED BY <2>1, RoomFields
<1>3. PICK a : a = Around(rooms)
  OBVIOUS
<1>4. q = Append(a, U) /\ T = rooms[Len(rooms)]
  BY <1>3 DEF Deeper, Inmost
<1>5. Builds(a, U, q)
  <2> HIDE DEF U
  <2> QED BY <1>1, <1>2, <1>3, <1>4, RoomAdded
<1>6. Seen(q) = Seen(a) \cup B
  <2> HIDE DEF U, B
  <2> QED BY <1>1, <1>2, <1>3, <1>4, SeenAdded
<1>7. Seen(rooms) = Seen(a) \cup T.bound
  <2> HIDE DEF T
  <2> QED BY <1>1, <1>3, SeenAdded
<1>8. /\ q \in Seq(RoomType) /\ Len(a) \in Nat /\ Len(q) = Len(a) + 1 /\ q[Len(a) + 1] = U
      /\ \A k \in 1 .. Len(a) : q[k] = a[k]
  BY <1>5 DEF Builds
<1> HIDE DEF T, B, U
<1>9. Len(a) + 1 = Len(rooms) /\ \A k \in 1 .. Len(rooms) - 1 : q[k] = rooms[k]
  BY <1>1, <1>3, <1>8
<1>10. Seen(q) = Seen(rooms) \cup D
  BY <1>6, <1>7 DEF B
<1>11. q[Len(rooms)].bound = rooms[Len(rooms)].bound \cup D
  BY <1>2, <1>4, <1>8, <1>9 DEF B
<1> QED BY <1>1, <1>8, <1>9, <1>10, <1>11

\* A declared name gets its slot.
LEMMA LetOf ==
    ASSUME NEW rooms, NEW f, Shown(rooms, f), Len(rooms) > 0, NEW h, NEW n \in Names \ Seen(rooms),
           NEW slot \in Slots, slot.st # "none", NEW g, Rewritten(f, g, n, slot),
           NEW q, q = Deeper(rooms, {n})
    PROVE  R!Let(Scene(rooms, f, h), n, slot) = Scene(q, g, h) /\ Shown(q, g)
<1>1. PICK e : e = Picture(rooms, f)
  OBVIOUS
<1>2. PICK w : w = Scene(rooms, f, h)
  OBVIOUS
<1>w. Sound(w, e, h) /\ w.env = e
  BY <1>1, <1>2 DEF Scene, Sound
<1>3. rooms \in Seq(RoomType) /\ f \in [Names -> Slots] /\ Apart(rooms)
  BY DEF Shown
<1>4. /\ q \in Seq(RoomType) /\ Len(q) = Len(rooms) /\ Len(rooms) \in Nat
      /\ Seen(q) = Seen(rooms) \cup {n}
      /\ \A k \in 1 .. Len(rooms) - 1 : q[k] = rooms[k]
      /\ q[Len(rooms)].bound = rooms[Len(rooms)].bound \cup {n}
  <2>1. {n} \in SUBSET Names
    OBVIOUS
  <2> QED BY <1>3, <2>1, DeeperRooms
<1>5. \A k \in 1 .. Len(rooms) :
         /\ n \notin rooms[k].bound
         /\ q[k].bound = IF k = Len(rooms) THEN rooms[k].bound \cup {n} ELSE rooms[k].bound
  <2>1. \A k \in 1 .. Len(rooms) : n \notin rooms[k].bound
    BY DEF Seen
  <2>2. ASSUME NEW k \in 1 .. Len(rooms), k # Len(rooms) PROVE k \in 1 .. Len(rooms) - 1
    BY <1>4, <2>2
  <2> QED BY <1>4, <2>1, <2>2
<1>6. Apart(q)
  <2>1. ASSUME NEW j \in 1 .. Len(rooms), NEW k \in 1 .. Len(rooms), j # k
        PROVE  q[j].bound \cap q[k].bound = {}
    <3>1. rooms[j].bound \cap rooms[k].bound = {}
      BY <1>3, <2>1 DEF Apart
    <3> QED BY <1>5, <2>1, <3>1
  <2> QED BY <1>4, <2>1 DEF Apart
<1>7. Shown(q, g)
  <2>1. ASSUME NEW m \in Seen(q) PROVE g[m].st # "none"
    <3>1. CASE m = n
      BY <3>1 DEF Rewritten
    <3>2. CASE m # n
      <4>1. m \in Seen(rooms)
        BY <1>4, <3>2
      <4>2. PICK k : Declares(rooms, k, m)
        BY <1>3, <4>1, DeclaredOnce
      <4> QED BY <3>2, <4>1, <4>2 DEF Declares, Shown, Rewritten
    <3> QED BY <3>1, <3>2
  <2>2. g \in [Names -> Slots]
    BY DEF Rewritten
  <2> QED BY <1>4, <1>6, <2>1, <2>2 DEF Shown
<1>8. PICK p : p = Picture(q, g)
  OBVIOUS
<1>9. PICK k : k = Len(rooms)
  OBVIOUS
<1>10. PICK d : d = [e EXCEPT ![k][n] = slot]
  OBVIOUS
<1>11. Pictured(rooms, f, e) /\ Pictured(q, g, p)
  <2>1. g \in [Names -> Slots]
    BY DEF Rewritten
  <2> QED BY <1>1, <1>3, <1>4, <1>8, <2>1, PictureScopes
<1>12. e \in Seq([Names -> Slots]) /\ k \in 1 .. Len(e) /\ Len(e) = Len(rooms)
  BY <1>4, <1>9, <1>11 DEF Pictured
<1>13. d = p
  <2>1. /\ d \in Seq([Names -> Slots]) /\ Len(d) = Len(e)
        /\ \A j \in 1 .. Len(e) : \A m \in Names :
                 d[j][m] = IF j = k /\ m = n THEN slot ELSE e[j][m]
    BY <1>10, <1>12, CellWritten
  <2>2. ASSUME NEW j \in 1 .. Len(q), NEW m \in Names PROVE d[j][m] = Cell(q[j], g, m)
    <3>1. d[j][m] = (IF j = k /\ m = n THEN slot ELSE e[j][m])
      BY <1>4, <1>12, <2>1
    <3>2. e[j][m] = Cell(rooms[j], f, m)
      BY <1>4, <1>11 DEF Pictured
    <3>3. /\ n \notin rooms[j].bound
          /\ q[j].bound = IF j = k THEN rooms[j].bound \cup {n} ELSE rooms[j].bound
      BY <1>4, <1>5, <1>9
    <3>4. R!Unbound.st = "none"
      BY DEF R!Unbound
    <3> QED BY <3>1, <3>2, <3>3 DEF Cell, Rewritten
  <2>3. d \in Seq([Names -> Slots]) /\ Len(d) = Len(q)
    BY <1>4, <1>12, <2>1
  <2>4. Cells(q, g, d)
    BY <2>2, <2>3 DEF Cells
  <2> QED BY <1>11, <2>4, SamePicture
<1>14. Sound(R!Let(w, n, slot), d, h)
  <2>1. Len(w.env) = k
    BY <1>w, <1>9, <1>12
  <2>2. R!Let(w, n, slot) = [w EXCEPT !.env[k][n] = slot]
    BY <2>1 DEF R!Let
  <2>3. Writes(e, k, n, slot, d)
    BY <1>10 DEF Writes
  <2>4. Sound([w EXCEPT !.env[k][n] = slot], d, h)
    BY <1>w, <2>3, CellWorld
  <2> QED BY <2>2, <2>4
<1> QED BY <1>2, <1>7, <1>8, <1>13, <1>14 DEF Scene, Sound

\* With one more construct, or one less, the scopes are the q.
Enters(rooms, q, f, h) ==
    R!EnterScope(Scene(rooms, f, h)) = Scene(q, f, h) /\ Shown(q, f) /\ Seen(q) = Seen(rooms)
Exits(rooms, q, f, h, T) ==
    /\ R!LeaveScope(Scene(rooms, f, h)) = Scene(q, f, h) /\ Shown(q, f) /\ Seen(q) \subseteq Seen(rooms)
    /\ Seen(q) \cap T.bound = {}

\* A scope opens.
LEMMA EnterOf ==
    ASSUME NEW rooms, NEW f, Shown(rooms, f), NEW h, NEW U \in RoomType, U.bound = {},
           NEW q, q = Append(rooms, U)
    PROVE  Enters(rooms, q, f, h)
<1>1. PICK e : e = Picture(rooms, f)
  OBVIOUS
<1>2. PICK w : w = Scene(rooms, f, h)
  OBVIOUS
<1>w. Sound(w, e, h) /\ w.env = e
  BY <1>1, <1>2 DEF Scene, Sound
<1>3. rooms \in Seq(RoomType) /\ f \in [Names -> Slots] /\ Apart(rooms)
  BY DEF Shown
<1>4. Builds(rooms, U, q)
  BY <1>3, RoomAdded
<1>5. /\ q \in Seq(RoomType) /\ Len(rooms) \in Nat /\ Len(q) = Len(rooms) + 1
      /\ q[Len(rooms) + 1] = U /\ \A k \in 1 .. Len(rooms) : q[k] = rooms[k]
  BY <1>4 DEF Builds
<1>6. Seen(q) = Seen(rooms)
  BY <1>3, SeenAdded
<1>7. Apart(q)
  <2>1. \A k \in 1 .. Len(q) : q[k].bound = {} \/ (k \in 1 .. Len(rooms) /\ q[k] = rooms[k])
    BY <1>5
  <2> QED BY <1>3, <2>1 DEF Apart
<1>8. Shown(q, f)
  BY <1>3, <1>5, <1>6, <1>7 DEF Shown
<1>9. PICK p : p = Picture(q, f)
  OBVIOUS
<1>10. PICK o : o = R!NoNames
  OBVIOUS
<1>11. PICK d : d = Append(e, o)
  OBVIOUS
<1>12. o \in [Names -> Slots] /\ \A m \in Names : o[m] = R!Unbound
  BY <1>10 DEF R!NoNames, R!Unbound, Slots
<1>13. Pictured(rooms, f, e) /\ Pictured(q, f, p)
  BY <1>1, <1>3, <1>5, <1>9, PictureScopes
<1>14. d = p
  <2>1. e \in Seq([Names -> Slots]) /\ Len(e) = Len(rooms)
    BY <1>13 DEF Pictured
  <2>2. /\ d \in Seq([Names -> Slots]) /\ Len(d) = Len(e) + 1 /\ d[Len(e) + 1] = o
        /\ \A j \in 1 .. Len(e) : d[j] = e[j]
    BY <1>11, <1>12, <2>1, AppendProperties
  <2>3. ASSUME NEW j \in 1 .. Len(q), NEW m \in Names PROVE d[j][m] = Cell(q[j], f, m)
    <3>1. CASE j = Len(e) + 1
      <4>1. q[j].bound = {} /\ d[j] = o
        BY <1>5, <2>1, <2>2, <3>1
      <4> QED BY <1>12, <4>1 DEF Cell
    <3>2. CASE j # Len(e) + 1
      <4>1. j \in 1 .. Len(rooms)
        BY <1>5, <2>1, <3>2
      <4>2. e[j][m] = Cell(rooms[j], f, m)
        BY <1>13, <4>1 DEF Pictured
      <4> QED BY <1>5, <2>1, <2>2, <4>1, <4>2
    <3> QED BY <3>1, <3>2
  <2>4. d \in Seq([Names -> Slots]) /\ Len(d) = Len(q)
    BY <1>5, <2>1, <2>2
  <2>5. Cells(q, f, d)
    BY <2>3, <2>4 DEF Cells
  <2> QED BY <1>13, <2>5, SamePicture
<1>15. Sound(R!EnterScope(w), d, h)
  BY <1>w, <1>10, <1>11, EnterWorld
<1> QED BY <1>2, <1>6, <1>8, <1>9, <1>14, <1>15 DEF Scene, Sound, Enters

\* A slot that holds a unique value nobody has spent.
Unspent(h, s) == s.st = "own" /\ h[s.val].kind = "Unique" /\ h[s.val].held

\* A scope ends, with no unique value in it.
LEMMA LeaveOf ==
    ASSUME NEW rooms, NEW f, Shown(rooms, f), Len(rooms) > 0, NEW h, NEW T, T = Inmost(rooms),
           \A n \in T.bound : ~Unspent(h, f[n]), NEW q, q = Around(rooms)
    PROVE  Exits(rooms, q, f, h, T)
<1>1. PICK e : e = Picture(rooms, f)
  OBVIOUS
<1>2. PICK w : w = Scene(rooms, f, h)
  OBVIOUS
<1>w. Sound(w, e, h) /\ w.env = e /\ w.heap = h
  BY <1>1, <1>2 DEF Scene, Sound
<1>3. rooms \in Seq(RoomType) /\ f \in [Names -> Slots] /\ Apart(rooms)
  BY DEF Shown
<1>4. /\ Len(rooms) \in Nat /\ T \in RoomType /\ q \in Seq(RoomType)
      /\ Len(q) = Len(rooms) - 1 /\ T = rooms[Len(rooms)] /\ Len(rooms) \in 1 .. Len(rooms)
      /\ \A k \in 1 .. Len(rooms) - 1 : q[k] = rooms[k]
  BY <1>3, TopRoom DEF Inmost
<1>5. \A k \in 1 .. Len(q) : k \in 1 .. Len(rooms) /\ k # Len(rooms) /\ q[k] = rooms[k]
  BY <1>4
<1>6. Apart(q) /\ Seen(q) \subseteq Seen(rooms)
  BY <1>3, <1>5 DEF Apart, Seen
<1>7. Seen(q) \cap T.bound = {}
  <2>1. \A k \in 1 .. Len(q) : q[k].bound \cap T.bound = {}
    BY <1>3, <1>4, <1>5 DEF Apart
  <2> QED BY <2>1 DEF Seen
<1>8. Shown(q, f)
  BY <1>3, <1>4, <1>6 DEF Shown
<1>9. PICK p : p = Picture(q, f)
  OBVIOUS
<1>10. PICK d : d = SubSeq(e, 1, Len(e) - 1)
  OBVIOUS
<1>11. Pictured(rooms, f, e) /\ Pictured(q, f, p)
  BY <1>1, <1>3, <1>4, <1>9, PictureScopes
<1>12. e \in Seq([Names -> Slots]) /\ Len(e) = Len(rooms)
  BY <1>11 DEF Pictured
<1>13. d = p
  <2>1. /\ d \in Seq([Names -> Slots]) /\ Len(d) = Len(e) - 1
        /\ \A j \in 1 .. Len(e) - 1 : d[j] = e[j]
    BY <1>4, <1>10, <1>12, Shorter
  <2>2. ASSUME NEW j \in 1 .. Len(q), NEW m \in Names PROVE d[j][m] = Cell(q[j], f, m)
    <3>1. d[j] = e[j] /\ j \in 1 .. Len(rooms) /\ q[j] = rooms[j]
      BY <1>4, <1>5, <1>12, <2>1
    <3> QED BY <1>11, <3>1 DEF Pictured
  <2>3. d \in Seq([Names -> Slots]) /\ Len(d) = Len(q)
    BY <1>4, <1>12, <2>1
  <2>4. Cells(q, f, d)
    BY <2>2, <2>3 DEF Cells
  <2> QED BY <1>11, <2>4, SamePicture
<1>14. ~ \E n \in Names : R!Forgets(w, e[Len(e)][n])
  <2> SUFFICES ASSUME NEW n \in Names, R!Forgets(w, e[Len(e)][n]) PROVE FALSE
    OBVIOUS
  <2>1. PICK s : s = e[Len(e)][n]
    OBVIOUS
  <2>2. s = Cell(T, f, n)
    BY <1>4, <1>11, <1>12, <2>1 DEF Pictured
  <2>3. Unspent(h, s)
    BY <1>w, <2>1 DEF R!Forgets, Unspent
  <2>4. n \in T.bound
    BY <2>2, <2>3 DEF Cell, Unspent, R!Unbound
  <2> QED BY <2>2, <2>3, <2>4 DEF Cell
<1>15. Sound(R!LeaveScope(w), d, h)
  BY <1>w, <1>10, <1>14, LeaveWorld
<1> QED BY <1>2, <1>6, <1>7, <1>8, <1>9, <1>13, <1>15 DEF Scene, Sound, Exits

-----------------------------------------------------------------------------
(* The memory is as the table says.                                        *)

\* n owns a value that was not moved out.
Holder(c, n) == c.tbl[n].kind \in Owning /\ ~Gone(c, n)

\* The slot s owns a value of that kind, not spent; and n's refers to what o's
\* owns or refers to.
Valued(h, s, kind) == s.st = "own" /\ s.val \in 1 .. Len(h) /\ h[s.val].held /\ h[s.val].kind = kind
Refers(f, n, o) == f[n].st = "ref" /\ f[o].st \in {"own", "ref"} /\ f[n].val = f[o].val

SlotFits(c, f, h, n) ==
    /\ Holder(c, n) => Valued(h, f[n], c.tbl[n].kind)
    /\ c.tbl[n].kind \in Owning /\ Gone(c, n) => f[n].st = "moved"
    /\ c.tbl[n].kind \in Refs => Refers(f, n, c.tbl[n].owner)
    /\ ~Tracked(c, n) => f[n].st = "plain"

\* The names S have the slots that the rows of c call for, and no value has
\* two owners.
Stands(c, S, f, h) ==
    /\ S \in SUBSET Names /\ f \in [Names -> Slots] /\ h \in Seq(Values)
    /\ \A n \in Names : Tracked(c, n) => n \in S
    /\ \A n \in S : SlotFits(c, f, h, n)
    /\ \A m, n \in S : Holder(c, m) /\ Holder(c, n) /\ m # n => f[m].val # f[n].val

\* An accepted borrow has an owner.
LEMMA OwnerTracked ==
    ASSUME NEW ops, NEW c, Accepted(c, ops), NEW n \in Names, c.tbl[n].kind \in Refs
    PROVE  c.tbl[n].owner \in Names /\ Tracked(c, c.tbl[n].owner) /\ Tracked(c, n)
<1>1. c.tbl[n].owner # NoName /\ Rooted(c, n)
  BY DEF Accepted, Sourced, Book, Accounts
<1>2. Tracked(c, c.tbl[n].owner)
  BY <1>1 DEF Rooted
<1> QED BY <1>2 DEF Tracked, Refs

\* What is borrowed is there.
LEMMA RefHeld ==
    ASSUME NEW ops, NEW c, Accepted(c, ops), NEW S, NEW f, NEW h, Stands(c, S, f, h),
           NEW n \in Names, c.tbl[n].kind \in Refs
    PROVE  f[n].st = "ref" /\ h[f[n].val].held
<1> DEFINE v == f[n].val
           G == {m \in Names : f[m].val = v /\ f[m].st \in {"own", "ref"}}
<1>1. ASSUME NEW m \in Names, c.tbl[m].kind \in Refs
      PROVE  Refers(f, m, c.tbl[m].owner) /\ c.tbl[m].owner \in Names
  <2>1. c.tbl[m].owner \in Names /\ m \in S
    BY <1>1, OwnerTracked DEF Stands
  <2>2. SlotFits(c, f, h, m)
    BY <2>1 DEF Stands
  <2> QED BY <1>1, <2>1, <2>2 DEF SlotFits
<1>2. n \in G /\ f[n].st = "ref"
  BY <1>1 DEF Refers
<1>3. ASSUME NEW m \in G PROVE Link(c, m) \in G
  <2>1. CASE c.tbl[m].kind \in Refs
    <3>1. Refers(f, m, c.tbl[m].owner) /\ c.tbl[m].owner \in Names
      BY <1>1, <2>1
    <3>2. Tracked(c, m)
      BY <2>1, OwnerTracked
    <3>3. Link(c, m) = c.tbl[m].owner
      BY <2>1, <3>2 DEF Link
    <3> QED BY <3>1, <3>3 DEF Refers
  <2>2. CASE c.tbl[m].kind \notin Refs
    BY <2>2 DEF Link
  <2> QED BY <2>1, <2>2
<1>4. Root(c, n) \in G
  <2> HIDE DEF G
  <2>1. G \in SUBSET Names
    BY DEF G
  <2> QED BY <1>2, <1>3, <2>1, LinksStay
<1>5. PICK m : m = Root(c, n)
  OBVIOUS
<1>6. m \in Names /\ f[m].val = v /\ f[m].st \in {"own", "ref"} /\ Tracked(c, m) /\ c.tbl[m].kind \in Owning
  BY <1>4, <1>5, RootOwns
<1>7. SlotFits(c, f, h, m)
  BY <1>6 DEF Stands
<1>8. Valued(h, f[m], c.tbl[m].kind)
  BY <1>6, <1>7 DEF SlotFits, Holder
<1> QED BY <1>2, <1>6, <1>8 DEF Valued

\* At most one, of the names S.
Only(D, S) == D \in SUBSET S /\ \A m, n \in D : m = n

\* The values of "gone" are moved out, the names D are declared: what the
\* others hold stays.
Carries(c, r, S, gone, D, f, h, g, k) ==
    /\ g \in [Names -> Slots] /\ k \in Seq(Values) /\ Len(k) >= Len(h)
    /\ \A n \in S : n \notin gone => g[n] = f[n]
    /\ \A n \in gone : g[n].st = "moved"
    /\ \A n \in S : n \notin gone /\ Holder(c, n) => k[f[n].val] = h[f[n].val]
    /\ \A n \in D : SlotFits(r, g, k, n)
    /\ \A m \in S, n \in D : m \notin gone /\ Holder(c, m) /\ Holder(r, n) => f[m].val # g[n].val

\* So the memory goes on as the table says.
LEMMA StandsOn ==
    ASSUME NEW ops, NEW c, Accepted(c, ops), NEW S, NEW f, NEW h, Stands(c, S, f, h),
           NEW r, NEW new, NEW gone, Changes(c, r, new, gone, ops),
           NEW D, Only(D, Names \ S), new \subseteq D,
           NEW g, NEW k, Carries(c, r, S, gone, D, f, h, g, k)
    PROVE  Stands(r, S \cup D, g, k)
<1>d. D \in SUBSET Names /\ D \cap S = {} /\ \A m, n \in D : m = n
  BY DEF Only
<1>1. S \in SUBSET Names /\ Len(h) \in Nat /\ Len(k) \in Nat /\ Len(k) >= Len(h)
      /\ g \in [Names -> Slots] /\ k \in Seq(Values)
  BY LenProperties DEF Stands, Carries
<1>2. \A n \in S : n \notin new /\ n \in Names
  BY <1>1, <1>d
<1>3. \A n \in S : SameRow(c, r, n) /\ (Gone(r, n) <=> Gone(c, n) \/ n \in gone)
  BY <1>2 DEF Changes
<1>4. \A n \in gone : n \in S /\ c.tbl[n].kind \in Owning
  BY DEF Changes, Movable, Stands, Tracked, Owning
<1>5. \A n \in S : (Holder(r, n) <=> Holder(c, n) /\ n \notin gone) /\ (Tracked(r, n) <=> Tracked(c, n))
  BY <1>2, <1>3 DEF Holder, SameRow, Tracked
<1>6. ASSUME NEW n \in S, n \notin gone PROVE SlotFits(r, g, k, n)
  <2>1. SlotFits(c, f, h, n) /\ g[n] = f[n] /\ SameRow(c, r, n) /\ (Gone(r, n) <=> Gone(c, n)) /\ n \in Names
    BY <1>2, <1>3, <1>6 DEF Stands, Carries
  <2>2. Holder(r, n) => Valued(k, g[n], r.tbl[n].kind)
    <3> SUFFICES ASSUME Holder(r, n) PROVE Valued(k, g[n], r.tbl[n].kind)
      OBVIOUS
    <3>1. Valued(h, f[n], c.tbl[n].kind) /\ Holder(c, n)
      BY <1>5, <2>1 DEF SlotFits
    <3>2. k[f[n].val] = h[f[n].val]
      BY <1>6, <3>1 DEF Carries
    <3>3. f[n].val \in 1 .. Len(k)
      BY <1>1, <3>1 DEF Valued
    <3> QED BY <2>1, <3>1, <3>2, <3>3 DEF Valued, SameRow
  <2>3. r.tbl[n].kind \in Refs => Refers(g, n, r.tbl[n].owner)
    <3> SUFFICES ASSUME r.tbl[n].kind \in Refs PROVE Refers(g, n, r.tbl[n].owner)
      OBVIOUS
    <3>1. PICK o : o = c.tbl[n].owner
      OBVIOUS
    <3>2. r.tbl[n].owner = o /\ c.tbl[n].kind \in Refs
      BY <2>1, <3>1 DEF SameRow
    <3>3. Refers(f, n, o) /\ o \in S
      BY <2>1, <3>1, <3>2, OwnerTracked DEF SlotFits, Stands
    <3>4. o \notin gone
      <4> SUFFICES ASSUME o \in gone PROVE FALSE
        OBVIOUS
      <4>1. o \in Names /\ Movable(c, o)
        BY DEF Changes
      <4> QED BY <2>1, <3>1, <3>2, <4>1, Unlent
    <3>5. g[o] = f[o]
      BY <3>3, <3>4 DEF Carries
    <3> QED BY <2>1, <3>2, <3>3, <3>5 DEF Refers
  <2>4. /\ r.tbl[n].kind = c.tbl[n].kind /\ (Gone(r, n) <=> Gone(c, n)) /\ g[n] = f[n]
        /\ (Tracked(r, n) <=> Tracked(c, n))
    BY <1>5, <2>1 DEF SameRow
  <2> QED BY <2>1, <2>2, <2>3, <2>4 DEF SlotFits
<1>7. ASSUME NEW n \in gone PROVE SlotFits(r, g, k, n)
  <2>1. n \in S /\ r.tbl[n].kind \in Owning /\ Gone(r, n) /\ g[n].st = "moved" /\ Tracked(r, n)
    <3>1. n \in S /\ c.tbl[n].kind \in Owning
      BY <1>4
    <3>2. Tracked(c, n)
      BY <1>2, <3>1 DEF Tracked, Owning
    <3> QED BY <1>3, <1>5, <3>1, <3>2 DEF SameRow, Carries
  <2>2. r.tbl[n].kind \notin Refs
    BY <2>1 DEF Owning, Refs
  <2> QED BY <2>1, <2>2 DEF SlotFits, Holder
<1>8. \A n \in S \cup D : SlotFits(r, g, k, n)
  BY <1>4, <1>6, <1>7 DEF Carries
<1>9. ASSUME NEW n \in Names, Tracked(r, n) PROVE n \in S \cup D
  <2>1. CASE n \in new
    BY <2>1
  <2>2. CASE n \notin new
    BY <1>9, <2>2 DEF Changes, SameRow, Tracked, Stands
  <2> QED BY <2>1, <2>2
<1>10. ASSUME NEW m \in S, NEW n \in D, Holder(r, m), Holder(r, n) PROVE g[m].val # g[n].val
  BY <1>5, <1>10 DEF Carries
<1>11. ASSUME NEW m \in S, NEW n \in S, Holder(r, m), Holder(r, n), m # n PROVE g[m].val # g[n].val
  BY <1>5, <1>11 DEF Carries, Stands
<1>12. \A m, n \in S \cup D : Holder(r, m) /\ Holder(r, n) /\ m # n => g[m].val # g[n].val
  BY <1>10, <1>11, <1>d
<1>13. S \cup D \in SUBSET Names
  BY <1>1, <1>d
<1> QED BY <1>1, <1>8, <1>9, <1>12, <1>13 DEF Stands

\* The world w, of the open constructs rooms, is as the table of c says.
Depicts(c, rooms, f, h, w) == w = Scene(rooms, f, h) /\ Shown(rooms, f) /\ Stands(c, Seen(rooms), f, h)
Pictures(c, rooms, w) == \E f, h : Depicts(c, rooms, f, h, w)

\* Any slot can be written.
LEMMA RewriteTo ==
    ASSUME NEW f \in [Names -> Slots], NEW n \in Names, NEW slot \in Slots
    PROVE  \E g : Rewritten(f, g, n, slot)
<1>1. PICK g : g = [f EXCEPT ![n] = slot]
  OBVIOUS
<1>2. Rewritten(f, g, n, slot)
  BY <1>1 DEF Rewritten
<1> QED BY <1>2

\* The slots there are.
LEMMA BindSlot ==
    ASSUME NEW st \in {"own", "moved", "ref", "plain"}, NEW v \in Nat
    PROVE  /\ R!Bind(st, v) \in Slots /\ R!Bind(st, v).st = st /\ R!Bind(st, v).val = v
           /\ R!Bind(st, v).st # "none"
BY DEF R!Bind, Slots

\* A look at a value that was not moved out changes nothing.
LEMMA TouchOf ==
    ASSUME NEW ops, NEW c, Accepted(c, ops), NEW rooms, NEW f, NEW h, NEW w, Depicts(c, rooms, f, h, w),
           NEW n \in Seen(rooms), c.tbl[n].kind \in Owning => ~Gone(c, n)
    PROVE  /\ R!Touch(w, n) = w /\ R!Slot(w, n) = f[n] /\ n \in Names /\ f[n] \in Slots
           /\ SlotFits(c, f, h, n) /\ w.heap = h
<1>1. w.env = Picture(rooms, f) /\ w.heap = h
  BY DEF Depicts, Scene
<1>2. R!Slot(w, n) = f[n]
  BY <1>1, SlotOf DEF Depicts
<1>3. Stands(c, Seen(rooms), f, h)
  BY DEF Depicts
<1>4. n \in Names /\ f[n] \in Slots /\ SlotFits(c, f, h, n)
  BY <1>3 DEF Stands
<1>5. f[n].st # "moved"
  <2>1. CASE c.tbl[n].kind \in Owning
    BY <1>4, <2>1 DEF SlotFits, Holder, Valued
  <2>2. CASE c.tbl[n].kind \in Refs
    BY <1>4, <2>2 DEF SlotFits, Refers
  <2>3. CASE ~Tracked(c, n)
    BY <1>4, <2>3 DEF SlotFits
  <2> QED BY <1>4, <2>1, <2>2, <2>3, RowFields DEF Accepted, Tracked, OwnKind, Owning, Refs
<1>6. f[n].st = "ref" => h[f[n].val].held
  <2> SUFFICES ASSUME f[n].st = "ref" PROVE h[f[n].val].held
    OBVIOUS
  <2>1. c.tbl[n].kind \in Refs
    <3>1. ~Holder(c, n) /\ Tracked(c, n)
      BY <1>4 DEF SlotFits, Valued
    <3> QED BY <1>4, <3>1, RowFields DEF Accepted, Tracked, OwnKind, Owning, Refs, Holder
  <2> QED BY <1>3, <1>4, <2>1, RefHeld
<1>7. R!Touch(w, n) = w
  BY <1>1, <1>2, <1>5, <1>6 DEF R!Touch
<1> QED BY <1>1, <1>2, <1>4, <1>7

\* A name that owns nothing and borrows nothing has a plain value.
LEMMA PlainSlot ==
    ASSUME NEW c, NEW f, NEW h, NEW n, SlotFits(c, f, h, n)
    PROVE  /\ ~Tracked(c, n) => f[n].st = "plain"
           /\ Holder(c, n) => Valued(h, f[n], c.tbl[n].kind)
           /\ c.tbl[n].kind \in Refs => Refers(f, n, c.tbl[n].owner)
BY DEF SlotFits

\* What a declared name needs.
LEMMA DeclaredFits ==
    ASSUME NEW r, NEW g, NEW k, NEW d \in Names,
           \/ Holder(r, d) /\ Valued(k, g[d], r.tbl[d].kind)
           \/ r.tbl[d].kind \in Refs /\ Refers(g, d, r.tbl[d].owner)
           \/ ~Tracked(r, d) /\ g[d].st = "plain"
    PROVE  SlotFits(r, g, k, d)
<1>1. CASE Holder(r, d) /\ Valued(k, g[d], r.tbl[d].kind)
  BY <1>1 DEF SlotFits, Holder, Tracked, Owning, Refs
<1>2. CASE r.tbl[d].kind \in Refs /\ Refers(g, d, r.tbl[d].owner)
  BY <1>2 DEF SlotFits, Holder, Tracked, Owning, Refs
<1>3. CASE ~Tracked(r, d) /\ g[d].st = "plain"
  BY <1>3 DEF SlotFits, Holder, Tracked, Owning, Refs
<1> QED BY <1>1, <1>2, <1>3

\* A name is declared, in a world that may have changed before that.
LEMMA LetSettles ==
    ASSUME NEW ops, NEW c, Accepted(c, ops), NEW rooms, Len(rooms) > 0, NEW f, NEW h, NEW w,
           Depicts(c, rooms, f, h, w), NEW r, NEW new, NEW gone, Changes(c, r, new, gone, ops),
           NEW d \in Names \ Seen(rooms), new \subseteq {d}, NEW f1, NEW k, NEW u,
           u = Scene(rooms, f1, k), Shown(rooms, f1), NEW slot \in Slots, slot.st # "none",
           NEW g, Rewritten(f1, g, d, slot), Carries(c, r, Seen(rooms), gone, {d}, f, h, g, k)
    PROVE  Pictures(r, Deeper(rooms, {d}), R!Let(u, d, slot))
<1>1. PICK q : q = Deeper(rooms, {d})
  OBVIOUS
<1>2. R!Let(u, d, slot) = Scene(q, g, k) /\ Shown(q, g)
  BY <1>1, LetOf
<1>3. Seen(q) = Seen(rooms) \cup {d}
  <2>1. rooms \in Seq(RoomType) /\ {d} \in SUBSET Names
    BY DEF Depicts, Shown
  <2> QED BY <1>1, <2>1, DeeperRooms
<1>4. Stands(r, Seen(rooms) \cup {d}, g, k)
  <2>1. Stands(c, Seen(rooms), f, h)
    BY DEF Depicts
  <2>2. PICK D : D = {d}
    OBVIOUS
  <2>s. PICK S : S = Seen(rooms)
    OBVIOUS
  <2>3. Carries(c, r, S, gone, D, f, h, g, k)
    BY <2>2, <2>s
  <2>5. new \subseteq D /\ Only(D, Names \ S) /\ Stands(c, S, f, h)
    BY <2>1, <2>2, <2>s DEF Only
  <2>4. Stands(r, Seen(rooms) \cup D, g, k)
    BY <2>3, <2>5, <2>s, StandsOn
  <2> QED BY <2>2, <2>4
<1>5. Depicts(r, q, g, k, R!Let(u, d, slot))
  BY <1>2, <1>3, <1>4 DEF Depicts
<1> QED BY <1>1, <1>5 DEF Pictures

\* let d = 0.
LEMMA PlainOf ==
    ASSUME NEW ops, NEW c, Accepted(c, ops), NEW rooms, Len(rooms) > 0, NEW w, Pictures(c, rooms, w),
           NEW d \in Names \ Seen(rooms), NEW slot, slot = R!Bind("plain", 0)
    PROVE  Pictures(c, Deeper(rooms, {d}), R!Let(w, d, slot))
<1>1. PICK f, h : Depicts(c, rooms, f, h, w)
  BY DEF Pictures
<1>2. slot \in Slots /\ slot.st = "plain" /\ slot.st # "none"
  BY BindSlot
<1>3. Stands(c, Seen(rooms), f, h) /\ Shown(rooms, f) /\ w = Scene(rooms, f, h) /\ f \in [Names -> Slots]
  BY <1>1 DEF Depicts, Stands
<1>4. PICK g : Rewritten(f, g, d, slot)
  BY <1>2, <1>3, RewriteTo
<1>5. ~Tracked(c, d) /\ Changes(c, c, {}, {}, ops)
  BY <1>3, Unchanged DEF Stands
<1>6. Carries(c, c, Seen(rooms), {}, {d}, f, h, g, h)
  <2>1. g \in [Names -> Slots] /\ h \in Seq(Values) /\ Len(h) >= Len(h)
    BY <1>3, <1>4, LenProperties DEF Stands, Rewritten
  <2>2. \A n \in Seen(rooms) : g[n] = f[n]
    BY <1>3, <1>4 DEF Stands, Rewritten
  <2>3. SlotFits(c, g, h, d)
    BY <1>2, <1>4, <1>5, DeclaredFits DEF Rewritten
  <2>4. ~Holder(c, d)
    BY <1>5 DEF Holder, Tracked, Owning
  <2> QED BY <2>1, <2>2, <2>3, <2>4 DEF Carries
<1> QED BY <1>1, <1>2, <1>3, <1>4, <1>5, <1>6, LetSettles

\* The values of a world without faults are others.
LEMMA HeapWorld ==
    ASSUME NEW e, NEW h, NEW k, NEW w, Sound(w, e, h) PROVE Sound([w EXCEPT !.heap = k], e, k)
BY DEF Sound

\* A new value.
LEMMA MakeOf ==
    ASSUME NEW ops, NEW c, Accepted(c, ops), NEW rooms, Len(rooms) > 0, NEW w, Pictures(c, rooms, w),
           NEW d \in Names \ Seen(rooms), NEW kind \in Owning,
           NEW r, Changes(c, r, {d}, {}, ops), r.tbl[d].kind = kind
    PROVE  Pictures(r, Deeper(rooms, {d}), R!Make(w, d, kind))
<1>1. PICK f, h : Depicts(c, rooms, f, h, w)
  BY DEF Pictures
<1>2. /\ Stands(c, Seen(rooms), f, h) /\ Shown(rooms, f) /\ w = Scene(rooms, f, h)
      /\ f \in [Names -> Slots] /\ h \in Seq(Values)
  BY <1>1 DEF Depicts, Stands
<1>3. PICK v : v = [kind |-> kind, held |-> TRUE]
  OBVIOUS
<1>4. v \in Values /\ v.kind = kind /\ v.held
  BY <1>3 DEF Values
<1>5. PICK k : k = Append(h, v)
  OBVIOUS
<1>6. PICK z : z = Len(h) + 1
  OBVIOUS
<1>7. /\ k \in Seq(Values) /\ Len(k) = z /\ k[z] = v /\ Len(h) \in Nat /\ z \in Nat /\ z \in 1 .. Len(k)
      /\ \A i \in 1 .. Len(h) : k[i] = h[i] /\ i # z
  BY <1>2, <1>4, <1>5, <1>6, AppendProperties, LenProperties
<1>8. PICK u : u = Scene(rooms, f, k)
  OBVIOUS
<1>9. PICK slot : slot = R!Bind("own", z)
  OBVIOUS
<1>10. slot \in Slots /\ slot.st = "own" /\ slot.val = z /\ slot.st # "none"
  BY <1>7, <1>9, BindSlot
<1>11. R!Make(w, d, kind) = R!Let(u, d, slot)
  <2>1. w.heap = h
    BY <1>2 DEF Scene
  <2>2. [w EXCEPT !.heap = k] = u
    <3>1. PICK e : e = Picture(rooms, f)
      OBVIOUS
    <3>2. Sound(w, e, h)
      BY <1>2, <3>1 DEF Scene, Sound
    <3>3. Sound([w EXCEPT !.heap = k], e, k)
      BY <3>2, HeapWorld
    <3> QED BY <1>8, <3>1, <3>3 DEF Scene, Sound
  <2> QED BY <1>3, <1>5, <1>6, <1>9, <2>1, <2>2 DEF R!Make
<1>12. PICK g : Rewritten(f, g, d, slot)
  BY <1>2, <1>10, RewriteTo
<1>13. Holder(r, d)
  BY DEF Changes, Holder
<1>14. Carries(c, r, Seen(rooms), {}, {d}, f, h, g, k)
  <2>1. g \in [Names -> Slots] /\ k \in Seq(Values) /\ Len(k) >= Len(h)
    BY <1>6, <1>7, <1>12 DEF Rewritten
  <2>2. \A n \in Seen(rooms) : g[n] = f[n]
    BY <1>2, <1>12 DEF Stands, Rewritten
  <2>3. ASSUME NEW n \in Seen(rooms), Holder(c, n) PROVE k[f[n].val] = h[f[n].val] /\ f[n].val # z
    <3>1. SlotFits(c, f, h, n)
      BY <1>2 DEF Stands
    <3>2. Valued(h, f[n], c.tbl[n].kind)
      BY <2>3, <3>1, PlainSlot
    <3>3. f[n].val \in 1 .. Len(h)
      BY <3>2 DEF Valued
    <3> QED BY <1>7, <3>3
  <2>4. g[d] = slot
    BY <1>12 DEF Rewritten
  <2>5. Valued(k, g[d], r.tbl[d].kind)
    BY <1>4, <1>7, <1>10, <2>4 DEF Valued
  <2>6. SlotFits(r, g, k, d)
    BY <1>13, <2>5, DeclaredFits
  <2> QED BY <1>10, <2>1, <2>2, <2>3, <2>4, <2>6 DEF Carries
<1>15. Pictures(r, Deeper(rooms, {d}), R!Let(u, d, slot))
  <2>1. {d} \subseteq {d}
    OBVIOUS
  <2> QED BY <1>1, <1>2, <1>8, <1>10, <1>12, <1>14, <2>1, LetSettles
<1> QED BY <1>11, <1>15

\* A value is moved out of its name, and spent or not.
LEMMA SurrenderOf ==
    ASSUME NEW rooms, NEW f, Shown(rooms, f), NEW h, NEW u, u = Scene(rooms, f, h),
           NEW n \in Seen(rooms), f[n].st = "own", f[n] \in Slots,
           NEW g, Rewritten(f, g, n, R!Bind("moved", f[n].val))
    PROVE  R!Surrender(u, n) = Scene(rooms, g, h) /\ Shown(rooms, g) /\ g[n].st = "moved"
<1>1. PICK slot : slot = R!Bind("moved", f[n].val)
  OBVIOUS
<1>2. slot \in Slots /\ slot.st = "moved" /\ slot.st # "none"
  <2>1. f[n].val \in Nat
    BY DEF Slots
  <2> QED BY <1>1, <2>1, BindSlot
<1>3. R!Slot(u, n) = f[n]
  <2>1. u.env = Picture(rooms, f)
    BY DEF Scene
  <2> QED BY <2>1, SlotOf
<1>4. R!Surrender(u, n) = R!Set(u, n, slot)
  BY <1>1, <1>3 DEF R!Surrender
<1>5. Rewritten(f, g, n, slot)
  BY <1>1
<1>6. R!Set(u, n, slot) = Scene(rooms, g, h) /\ Shown(rooms, g)
  BY <1>2, <1>5, SetOf
<1> QED BY <1>2, <1>4, <1>5, <1>6 DEF Rewritten

\* The v-th value is spent.
Spends(h, v, k) == k = [h EXCEPT ![v].held = FALSE]

\* ... in a world without faults ...
LEMMA SpentWorld ==
    ASSUME NEW e, NEW h, NEW k, NEW v, Spends(h, v, k), NEW w, Sound(w, e, h)
    PROVE  Sound([w EXCEPT !.heap[v].held = FALSE], e, k)
<1>1. PICK x : x = [h[v] EXCEPT !.held = FALSE]
  OBVIOUS
<1>2. k = [h EXCEPT ![v] = x]
  BY <1>1 DEF Spends
<1>3. w.heap = h /\ w = [env |-> e, heap |-> h, faults |-> {}]
  BY DEF Sound
<1>4. [w EXCEPT !.heap[v].held = FALSE] = [w EXCEPT !.heap[v] = x]
  BY <1>1, <1>3
<1>5. [w EXCEPT !.heap[v] = x] = [w EXCEPT !.heap = k]
  BY <1>2, <1>3
<1> QED BY <1>4, <1>5, HeapWorld

\* ... and the others are not.
LEMMA SpentOne ==
    ASSUME NEW h \in Seq(Values), NEW v \in 1 .. Len(h), NEW k, Spends(h, v, k)
    PROVE  k \in Seq(Values) /\ Len(k) = Len(h) /\ \A i \in 1 .. Len(h) : i # v => k[i] = h[i]
<1>1. h[v] \in Values /\ Len(h) \in Nat
  BY ElementOfSeq, LenProperties
<1>2. PICK x : x = [h[v] EXCEPT !.held = FALSE]
  OBVIOUS
<1>3. x \in Values
  BY <1>1, <1>2 DEF Values
<1>4. k = [h EXCEPT ![v] = x]
  BY <1>2 DEF Spends
<1> QED BY <1>1, <1>3, <1>4

\* An accepted consumption: the value was there, and nobody else has it.
LEMMA SpendOf ==
    ASSUME NEW ops, NEW c, Accepted(c, ops), NEW rooms, NEW w, Pictures(c, rooms, w),
           NEW n \in Seen(rooms), Movable(c, n), NEW r, Changes(c, r, {}, {n}, ops)
    PROVE  Pictures(r, rooms, R!Spend(w, n))
<1>1. PICK f, h : Depicts(c, rooms, f, h, w)
  BY DEF Pictures
<1>2. /\ Stands(c, Seen(rooms), f, h) /\ Shown(rooms, f) /\ w = Scene(rooms, f, h)
      /\ f \in [Names -> Slots] /\ h \in Seq(Values)
  BY <1>1 DEF Depicts, Stands
<1>3. ~Gone(c, n) /\ Holder(c, n)
  BY DEF Movable, Gone, Holder
<1>4. /\ R!Touch(w, n) = w /\ R!Slot(w, n) = f[n] /\ n \in Names /\ f[n] \in Slots
      /\ SlotFits(c, f, h, n)
  BY <1>1, <1>3, TouchOf
<1>5. Valued(h, f[n], c.tbl[n].kind)
  BY <1>3, <1>4, PlainSlot
<1>6. PICK v : v = f[n].val
  OBVIOUS
<1>7. f[n].st = "own" /\ v \in 1 .. Len(h) /\ v \in Nat
  BY <1>4, <1>5, <1>6 DEF Valued, Slots
<1>8. PICK k : Spends(h, v, k)
  BY DEF Spends
<1>9. k \in Seq(Values) /\ Len(k) = Len(h) /\ \A i \in 1 .. Len(h) : i # v => k[i] = h[i]
  BY <1>2, <1>7, <1>8, SpentOne
<1>10. PICK u : u = [w EXCEPT !.heap[v].held = FALSE]
  OBVIOUS
<1>11. u = Scene(rooms, f, k)
  <2>1. PICK e : e = Picture(rooms, f)
    OBVIOUS
  <2>2. Sound(w, e, h)
    BY <1>2, <2>1 DEF Scene, Sound
  <2>3. Sound(u, e, k)
    BY <1>8, <1>10, <2>2, SpentWorld
  <2> QED BY <2>1, <2>3 DEF Scene, Sound
<1>12. R!Spend(w, n) = R!Surrender(u, n)
  BY <1>4, <1>6, <1>7, <1>10 DEF R!Spend
<1>13. PICK slot : slot = R!Bind("moved", v)
  OBVIOUS
<1>14. PICK g : Rewritten(f, g, n, slot)
  BY <1>2, <1>4, <1>7, <1>13, BindSlot, RewriteTo
<1>15. R!Surrender(u, n) = Scene(rooms, g, k) /\ Shown(rooms, g) /\ g[n].st = "moved"
  <2>1. Rewritten(f, g, n, R!Bind("moved", f[n].val))
    BY <1>6, <1>13, <1>14
  <2> QED BY <1>2, <1>4, <1>7, <1>11, <2>1, SurrenderOf
<1>16. PICK S : S = Seen(rooms)
  OBVIOUS
<1>17. Carries(c, r, S, {n}, {}, f, h, g, k)
  <2>1. g \in [Names -> Slots] /\ k \in Seq(Values) /\ Len(k) >= Len(h)
    BY <1>2, <1>9, <1>14, LenProperties DEF Rewritten
  <2>2. \A m \in S : m # n => g[m] = f[m]
    BY <1>2, <1>14, <1>16 DEF Stands, Rewritten
  <2>3. ASSUME NEW m \in S, m # n, Holder(c, m) PROVE k[f[m].val] = h[f[m].val]
    <3>1. SlotFits(c, f, h, m)
      BY <1>2, <1>16 DEF Stands
    <3>2. Valued(h, f[m], c.tbl[m].kind)
      BY <2>3, <3>1, PlainSlot
    <3>3. f[m].val \in 1 .. Len(h) /\ f[m].val # v
      BY <1>2, <1>3, <1>6, <1>16, <2>3, <3>2 DEF Valued, Stands
    <3> QED BY <1>9, <3>3
  <2> QED BY <1>15, <2>1, <2>2, <2>3 DEF Carries
<1>18. Stands(r, S, g, k)
  <2>1. PICK D : D = {}
    OBVIOUS
  <2>2. Only(D, Names \ S) /\ {} \subseteq D /\ Carries(c, r, S, {n}, D, f, h, g, k)
    BY <1>17, <2>1 DEF Only
  <2>3. Stands(c, S, f, h)
    BY <1>2, <1>16
  <2>4. Stands(r, S \cup D, g, k)
    BY <2>2, <2>3, StandsOn
  <2>5. S \cup D = S
    BY <2>1
  <2> QED BY <2>4, <2>5
<1>19. Depicts(r, rooms, g, k, R!Spend(w, n))
  BY <1>12, <1>15, <1>16, <1>18 DEF Depicts
<1> QED BY <1>19 DEF Pictures

\* Without a value, nothing is spent.
LEMMA SpendPlain ==
    ASSUME NEW ops, NEW c, Accepted(c, ops), NEW rooms, NEW w, Pictures(c, rooms, w),
           NEW n \in Seen(rooms), ~Tracked(c, n)
    PROVE  R!Spend(w, n) = w
<1>1. PICK f, h : Depicts(c, rooms, f, h, w)
  BY DEF Pictures
<1>2. n \in Names
  BY <1>1 DEF Depicts, Stands
<1>3. c.tbl[n].kind \notin Owning
  BY <1>2 DEF Tracked, Owning
<1>4. R!Touch(w, n) = w /\ R!Slot(w, n) = f[n] /\ SlotFits(c, f, h, n)
  BY <1>1, <1>3, TouchOf
<1>5. f[n].st = "plain"
  BY <1>4, PlainSlot
<1> QED BY <1>4, <1>5 DEF R!Spend

\* let x = y: the value changes hands.
LEMMA MoveOf ==
    ASSUME NEW ops, NEW c, Accepted(c, ops), NEW rooms, Len(rooms) > 0, NEW w, Pictures(c, rooms, w),
           NEW x \in Names \ Seen(rooms), NEW y \in Seen(rooms), Movable(c, y),
           NEW r, Changes(c, r, {x}, {y}, ops), r.tbl[x].kind = c.tbl[y].kind
    PROVE  Pictures(r, Deeper(rooms, {x}), R!Let(R!Surrender(R!Touch(w, y), y), x, R!Given(w, y)))
<1>1. PICK f, h : Depicts(c, rooms, f, h, w)
  BY DEF Pictures
<1>2. /\ Stands(c, Seen(rooms), f, h) /\ Shown(rooms, f) /\ w = Scene(rooms, f, h)
      /\ f \in [Names -> Slots] /\ h \in Seq(Values)
  BY <1>1 DEF Depicts, Stands
<1>3. ~Gone(c, y) /\ Holder(c, y) /\ c.tbl[y].kind \in Owning
  BY DEF Movable, Gone, Holder
<1>4. /\ R!Touch(w, y) = w /\ R!Slot(w, y) = f[y] /\ y \in Names /\ f[y] \in Slots
      /\ SlotFits(c, f, h, y)
  BY <1>1, <1>3, TouchOf
<1>5. Valued(h, f[y], c.tbl[y].kind)
  BY <1>3, <1>4, PlainSlot
<1>6. f[y].st = "own" /\ f[y].val \in Nat
  BY <1>4, <1>5 DEF Valued, Slots
<1>7. PICK slot : slot = f[y]
  OBVIOUS
<1>8. R!Given(w, y) = slot /\ slot \in Slots /\ slot.st # "none"
  BY <1>4, <1>6, <1>7 DEF R!Given
<1>9. PICK f1 : Rewritten(f, f1, y, R!Bind("moved", f[y].val))
  BY <1>2, <1>4, <1>6, BindSlot, RewriteTo
<1>10. PICK u : u = R!Surrender(w, y)
  OBVIOUS
<1>11. u = Scene(rooms, f1, h) /\ Shown(rooms, f1) /\ f1[y].st = "moved"
  BY <1>2, <1>4, <1>6, <1>9, <1>10, SurrenderOf
<1>12. PICK g : Rewritten(f1, g, x, slot)
  <2>1. f1 \in [Names -> Slots]
    BY <1>9 DEF Rewritten
  <2> QED BY <1>8, <2>1, RewriteTo
<1>13. PICK S : S = Seen(rooms)
  OBVIOUS
<1>14. Holder(r, x)
  BY <1>3 DEF Changes, Holder
<1>15. g[x] = f[y] /\ \A m \in S : m # y => g[m] = f[m]
  <2>1. g[x] = f[y]
    BY <1>7, <1>12 DEF Rewritten
  <2>2. ASSUME NEW m \in S, m # y PROVE g[m] = f[m]
    <3>1. m \in Names /\ m # x
      BY <1>2, <1>13 DEF Stands
    <3> QED BY <1>9, <1>12, <2>2, <3>1 DEF Rewritten
  <2> QED BY <2>1, <2>2
<1>16. Carries(c, r, S, {y}, {x}, f, h, g, h)
  <2>1. g \in [Names -> Slots] /\ h \in Seq(Values) /\ Len(h) >= Len(h)
    BY <1>2, <1>12, LenProperties DEF Rewritten
  <2>2. g[y].st = "moved"
    <3>1. y # x /\ y \in Names
      BY <1>4
    <3>2. g[y] = f1[y]
      BY <1>12, <3>1 DEF Rewritten
    <3> QED BY <1>11, <3>2
  <2>3. SlotFits(r, g, h, x)
    BY <1>5, <1>14, <1>15, DeclaredFits
  <2>4. ASSUME NEW m \in S, m # y, Holder(c, m) PROVE f[m].val # g[x].val
    BY <1>2, <1>3, <1>13, <1>15, <2>4 DEF Stands
  <2> QED BY <1>15, <2>1, <2>2, <2>3, <2>4 DEF Carries
<1>17. Pictures(r, Deeper(rooms, {x}), R!Let(u, x, slot))
  <2>1. {x} \subseteq {x} /\ Carries(c, r, Seen(rooms), {y}, {x}, f, h, g, h)
    BY <1>13, <1>16
  <2> QED BY <1>1, <1>8, <1>11, <1>12, <2>1, LetSettles
<1> QED BY <1>4, <1>8, <1>10, <1>17

\* A borrow a of o.
LEMMA BorrowOf ==
    ASSUME NEW ops, NEW c, Accepted(c, ops), NEW rooms, Len(rooms) > 0, NEW w, Pictures(c, rooms, w),
           NEW a \in Names \ Seen(rooms), NEW o \in Seen(rooms), Tracked(c, o), ~Gone(c, o),
           NEW r, Changes(c, r, {a}, {}, ops), r.tbl[a].kind \in Refs, r.tbl[a].owner = o
    PROVE  Pictures(r, Deeper(rooms, {a}),
                    R!Let(R!Touch(w, o), a, IF R!Slot(w, o).st \in {"own", "ref"}
                                            THEN R!Bind("ref", R!Slot(w, o).val) ELSE R!Bind("plain", 0)))
<1>1. PICK f, h : Depicts(c, rooms, f, h, w)
  BY DEF Pictures
<1>2. /\ Stands(c, Seen(rooms), f, h) /\ Shown(rooms, f) /\ w = Scene(rooms, f, h)
      /\ f \in [Names -> Slots] /\ h \in Seq(Values)
  BY <1>1 DEF Depicts, Stands
<1>3. /\ R!Touch(w, o) = w /\ R!Slot(w, o) = f[o] /\ o \in Names /\ f[o] \in Slots
      /\ SlotFits(c, f, h, o)
  BY <1>1, TouchOf
<1>4. f[o].st \in {"own", "ref"} /\ f[o].val \in Nat
  <2>1. CASE c.tbl[o].kind \in Owning
    BY <1>3, <2>1, PlainSlot DEF Holder, Valued, Slots
  <2>2. CASE c.tbl[o].kind \in Refs
    BY <1>3, <2>2, PlainSlot DEF Refers, Slots
  <2> QED BY <1>3, <2>1, <2>2, RowFields DEF Accepted, Tracked, OwnKind, Owning, Refs
<1>5. PICK slot : slot = R!Bind("ref", f[o].val)
  OBVIOUS
<1>6. slot \in Slots /\ slot.st = "ref" /\ slot.val = f[o].val /\ slot.st # "none"
  BY <1>4, <1>5, BindSlot
<1>7. PICK g : Rewritten(f, g, a, slot)
  BY <1>2, <1>6, RewriteTo
<1>8. PICK S : S = Seen(rooms)
  OBVIOUS
<1>9. g[a] = slot /\ \A m \in S : g[m] = f[m]
  <2>1. \A m \in S : m \in Names /\ m # a
    BY <1>2, <1>8 DEF Stands
  <2> QED BY <1>7, <2>1 DEF Rewritten
<1>10. Carries(c, r, S, {}, {a}, f, h, g, h)
  <2>1. g \in [Names -> Slots] /\ h \in Seq(Values) /\ Len(h) >= Len(h)
    BY <1>2, <1>7, LenProperties DEF Rewritten
  <2>2. Refers(g, a, o)
    BY <1>4, <1>6, <1>8, <1>9 DEF Refers
  <2>3. SlotFits(r, g, h, a)
    BY <2>2, DeclaredFits
  <2>4. ~Holder(r, a)
    BY DEF Holder, Owning, Refs
  <2> QED BY <1>9, <2>1, <2>3, <2>4 DEF Carries
<1>11. Pictures(r, Deeper(rooms, {a}), R!Let(w, a, slot))
  <2>1. {a} \subseteq {a} /\ Carries(c, r, Seen(rooms), {}, {a}, f, h, g, h)
    BY <1>8, <1>10
  <2> QED BY <1>1, <1>2, <1>6, <1>7, <2>1, LetSettles
<1> QED BY <1>3, <1>4, <1>5, <1>11

\* A copy n of o: another value, or none.
LEMMA CloneOf ==
    ASSUME NEW ops, NEW c, Accepted(c, ops), NEW rooms, Len(rooms) > 0, NEW w, Pictures(c, rooms, w),
           NEW n \in Names \ Seen(rooms), NEW o \in Seen(rooms), NEW r,
           \/ Holder(c, o) /\ Changes(c, r, {n}, {}, ops) /\ r.tbl[n].kind = c.tbl[o].kind
           \/ ~Tracked(c, o) /\ r = c
    PROVE  Pictures(r, Deeper(rooms, {n}), R!Duplicate(w, o, n))
<1>1. PICK f, h : Depicts(c, rooms, f, h, w)
  BY DEF Pictures
<1>2. o \in Names
  BY <1>1 DEF Depicts, Stands
<1>3. /\ R!Touch(w, o) = w /\ R!Slot(w, o) = f[o] /\ SlotFits(c, f, h, o) /\ w.heap = h
  <2>1. c.tbl[o].kind \in Owning => ~Gone(c, o)
    BY <1>2 DEF Holder, Tracked, Owning
  <2> QED BY <1>1, <2>1, TouchOf
<1>4. CASE Holder(c, o) /\ Changes(c, r, {n}, {}, ops) /\ r.tbl[n].kind = c.tbl[o].kind
  <2>1. Valued(h, f[o], c.tbl[o].kind)
    BY <1>3, <1>4, PlainSlot
  <2>2. R!Duplicate(w, o, n) = R!Make(w, n, c.tbl[o].kind)
    BY <1>3, <2>1 DEF R!Duplicate, Valued
  <2>3. c.tbl[o].kind \in Owning
    BY <1>4 DEF Holder
  <2> QED BY <1>4, <2>2, <2>3, MakeOf
<1>5. CASE ~Tracked(c, o) /\ r = c
  <2>1. f[o].st = "plain"
    BY <1>3, <1>5, PlainSlot
  <2>2. R!Duplicate(w, o, n) = R!Let(w, n, R!Bind("plain", 0))
    BY <1>3, <2>1 DEF R!Duplicate
  <2> QED BY <1>5, <2>2, PlainOf
<1> QED BY <1>4, <1>5

\* Nothing declared.
LEMMA DeeperNone ==
    ASSUME NEW rooms \in Seq(RoomType), Len(rooms) > 0 PROVE Deeper(rooms, {}) = rooms
<1> DEFINE T == Inmost(rooms)
<1>1. T \in RoomType /\ rooms = Append(Around(rooms), T)
  BY TopRoom
<1>2. Room(T.part, T.open, T.at, T.bound \cup {}) = T
  <2> HIDE DEF T
  <2> QED BY <1>1 DEF Room, RoomType
<1> QED BY <1>1, <1>2 DEF Deeper

\* A statement of the running program, accepted by the checker.
LEMMA EffectOf ==
    ASSUME NEW ops, NEW c, Accepted(c, ops), NEW rooms, Len(rooms) > 0, NEW w, Pictures(c, rooms, w),
           NEW t, t.op \in {"declare", "plain", "move", "borrow", "clone", "consume", "read"},
           Used(t) \subseteq Seen(rooms), Declared(t) \subseteq Names \ Seen(rooms),
           NEW r, Does(t, c, r, ops)
    PROVE  Pictures(r, Deeper(rooms, Declared(t)), R!Effect(w, t))
<1>0. rooms \in Seq(RoomType)
  BY DEF Pictures, Depicts, Shown
<1>1. CASE t.op = "declare"
  <2>1. t.x \in Names \ Seen(rooms) /\ Declared(t) = {t.x}
    BY <1>1 DEF Declared
  <2>2. t.k \in Owning /\ Changes(c, r, {t.x}, {}, ops) /\ r.tbl[t.x].kind = t.k
    BY <1>1 DEF Does, Owns
  <2>3. R!Effect(w, t) = R!Make(w, t.x, t.k)
    BY <1>1 DEF R!Effect
  <2> QED BY <2>1, <2>2, <2>3, MakeOf
<1>2. CASE t.op = "plain"
  <2>1. t.x \in Names \ Seen(rooms) /\ Declared(t) = {t.x}
    BY <1>2 DEF Declared
  <2>2. r = c
    BY <1>2 DEF Does
  <2>3. R!Effect(w, t) = R!Let(w, t.x, R!Bind("plain", 0))
    BY <1>2 DEF R!Effect
  <2> QED BY <2>1, <2>2, <2>3, PlainOf
<1>3. CASE t.op = "move"
  <2>1. t.x \in Names \ Seen(rooms) /\ Declared(t) = {t.x} /\ t.y \in Seen(rooms)
    BY <1>3 DEF Declared, Used
  <2>2. R!Effect(w, t) = R!Let(R!Surrender(R!Touch(w, t.y), t.y), t.x, R!Given(w, t.y))
    BY <1>3 DEF R!Effect
  <2>3. CASE Movable(c, t.y) /\ Changes(c, r, {t.x}, {t.y}, ops) /\ r.tbl[t.x].kind = c.tbl[t.y].kind
    BY <2>1, <2>2, <2>3, MoveOf
  <2>4. CASE ~Tracked(c, t.y) /\ r = c
    <3>1. PICK f, h : Depicts(c, rooms, f, h, w)
      BY DEF Pictures
    <3>2. t.y \in Names /\ c.tbl[t.y].kind \notin Owning
      BY <2>1, <2>4, <3>1 DEF Depicts, Stands, Tracked, Owning
    <3>3. R!Touch(w, t.y) = w /\ R!Slot(w, t.y) = f[t.y] /\ SlotFits(c, f, h, t.y)
      BY <2>1, <3>1, <3>2, TouchOf
    <3>4. f[t.y].st = "plain"
      BY <2>4, <3>3, PlainSlot
    <3>5. R!Surrender(w, t.y) = w /\ R!Given(w, t.y) = R!Bind("plain", 0)
      BY <3>3, <3>4 DEF R!Surrender, R!Given
    <3> QED BY <2>1, <2>2, <2>4, <3>3, <3>5, PlainOf
  <2> QED BY <1>3, <2>3, <2>4 DEF Does, Owns
<1>4. CASE t.op = "borrow"
  <2>1. t.y \in Names \ Seen(rooms) /\ Declared(t) = {t.y} /\ t.x \in Seen(rooms)
    BY <1>4 DEF Declared, Used
  <2>2. /\ Tracked(c, t.x) /\ ~Gone(c, t.x) /\ Changes(c, r, {t.y}, {}, ops)
        /\ r.tbl[t.y].kind \in Refs /\ r.tbl[t.y].owner = t.x
    BY <1>4 DEF Does
  <2>3. R!Effect(w, t) = R!Let(R!Touch(w, t.x), t.y,
                               IF R!Slot(w, t.x).st \in {"own", "ref"}
                               THEN R!Bind("ref", R!Slot(w, t.x).val) ELSE R!Bind("plain", 0))
    BY <1>4 DEF R!Effect
  <2> QED BY <2>1, <2>2, <2>3, BorrowOf
<1>5. CASE t.op = "clone"
  <2>1. t.y \in Names \ Seen(rooms) /\ Declared(t) = {t.y} /\ t.x \in Seen(rooms)
    BY <1>5 DEF Declared, Used
  <2>2. \/ Holder(c, t.x) /\ Changes(c, r, {t.y}, {}, ops) /\ r.tbl[t.y].kind = c.tbl[t.x].kind
        \/ ~Tracked(c, t.x) /\ r = c
    BY <1>5 DEF Does, Owns, Holder
  <2>3. R!Effect(w, t) = R!Duplicate(w, t.x, t.y)
    BY <1>5 DEF R!Effect
  <2> QED BY <2>1, <2>2, <2>3, CloneOf
<1>6. CASE t.op = "consume"
  <2>1. Declared(t) = {} /\ t.x \in Seen(rooms)
    BY <1>6 DEF Declared, Used
  <2>2. R!Effect(w, t) = R!Spend(w, t.x)
    BY <1>6 DEF R!Effect
  <2>3. Deeper(rooms, Declared(t)) = rooms
    BY <1>0, <2>1, DeeperNone
  <2>4. CASE Movable(c, t.x) /\ Changes(c, r, {}, {t.x}, ops)
    BY <2>1, <2>2, <2>3, <2>4, SpendOf
  <2>5. CASE ~Tracked(c, t.x) /\ r = c
    BY <2>1, <2>2, <2>3, <2>5, SpendPlain
  <2> QED BY <1>6, <2>4, <2>5 DEF Does
<1>7. CASE t.op = "read"
  <2>1. Declared(t) = {} /\ t.x \in Seen(rooms)
    BY <1>7 DEF Declared, Used
  <2>2. R!Effect(w, t) = R!Touch(w, t.x)
    BY <1>7 DEF R!Effect
  <2>3. Deeper(rooms, Declared(t)) = rooms
    BY <1>0, <2>1, DeeperNone
  <2>4. r = c /\ (c.tbl[t.x].kind \in Owning => ~Gone(c, t.x))
    BY <1>7 DEF Does
  <2>5. PICK f, h : Depicts(c, rooms, f, h, w)
    BY DEF Pictures
  <2>6. R!Touch(w, t.x) = w
    BY <2>1, <2>4, <2>5, TouchOf
  <2> QED BY <2>2, <2>3, <2>4, <2>6
<1> QED BY <1>1, <1>2, <1>3, <1>4, <1>5, <1>6, <1>7

\* Another checker that shows the same.
LEMMA ViewPictures ==
    ASSUME NEW c, NEW rooms, NEW w, Pictures(c, rooms, w), NEW r, SameView(c, r) \/ SameView(r, c)
    PROVE  Pictures(r, rooms, w)
<1>1. PICK f, h : Depicts(c, rooms, f, h, w)
  BY DEF Pictures
<1>2. PICK S : S = Seen(rooms)
  OBVIOUS
<1>3. Stands(c, S, f, h)
  BY <1>1, <1>2 DEF Depicts
<1>4. ASSUME NEW n \in Names
      PROVE  /\ Tracked(r, n) <=> Tracked(c, n)
             /\ Tracked(c, n) => SameRow(c, r, n) /\ (Gone(r, n) <=> Gone(c, n))
  BY DEF SameView, SameRow
<1>5. ASSUME NEW n \in S
      PROVE  SlotFits(r, f, h, n) /\ (Holder(r, n) => Holder(c, n)) /\ (Tracked(r, n) => n \in S)
  <2>1. SlotFits(c, f, h, n) /\ n \in Names
    BY <1>3 DEF Stands
  <2>2. CASE Tracked(c, n)
    <3>1. r.tbl[n].kind = c.tbl[n].kind /\ r.tbl[n].owner = c.tbl[n].owner /\ (Gone(r, n) <=> Gone(c, n))
      BY <1>4, <2>1, <2>2 DEF SameRow
    <3>2. Tracked(r, n)
      BY <1>4, <2>1, <2>2
    <3> QED BY <2>1, <2>2, <3>1, <3>2 DEF SlotFits, Holder
  <2>3. CASE ~Tracked(c, n)
    <3>1. ~Tracked(r, n)
      BY <1>4, <2>1, <2>3
    <3>2. r.tbl[n].kind = "None" /\ c.tbl[n].kind = "None"
      BY <2>1, <2>3, <3>1 DEF Tracked
    <3> QED BY <2>1, <2>3, <3>1, <3>2 DEF SlotFits, Holder, Owning, Refs
  <2> QED BY <2>2, <2>3
<1>6. Stands(r, S, f, h)
  <2>1. S \in SUBSET Names /\ f \in [Names -> Slots] /\ h \in Seq(Values)
    BY <1>3 DEF Stands
  <2>2. \A n \in Names : Tracked(r, n) => n \in S
    BY <1>3, <1>4 DEF Stands
  <2>3. \A m, n \in S : Holder(r, m) /\ Holder(r, n) /\ m # n => f[m].val # f[n].val
    BY <1>3, <1>5 DEF Stands
  <2> QED BY <1>5, <2>1, <2>2, <2>3 DEF Stands
<1>7. Depicts(r, rooms, f, h, w)
  BY <1>1, <1>2, <1>6 DEF Depicts
<1> QED BY <1>7 DEF Pictures

\* A construct is entered.
LEMMA EnterPictures ==
    ASSUME NEW c, NEW rooms, NEW w, Pictures(c, rooms, w), NEW U \in RoomType, U.bound = {},
           NEW r, r.tbl = c.tbl
    PROVE  Pictures(r, Append(rooms, U), R!EnterScope(w))
<1>1. Pictures(r, rooms, w)
  <2>1. SameView(c, r)
    BY DEF SameView, SameRow, Tracked, Gone
  <2> QED BY <2>1, ViewPictures
<1>2. PICK f, h : Depicts(r, rooms, f, h, w)
  BY <1>1 DEF Pictures
<1>3. PICK q : q = Append(rooms, U)
  OBVIOUS
<1>4. w = Scene(rooms, f, h) /\ Shown(rooms, f) /\ Stands(r, Seen(rooms), f, h)
  BY <1>2 DEF Depicts
<1>5. R!EnterScope(w) = Scene(q, f, h) /\ Shown(q, f) /\ Seen(q) = Seen(rooms)
  <2>1. Shown(rooms, f)
    BY <1>4
  <2>2. Enters(rooms, q, f, h)
    BY <1>3, <2>1, EnterOf
  <2> QED BY <1>4, <2>2 DEF Enters
<1>6. Depicts(r, q, f, h, R!EnterScope(w))
  BY <1>4, <1>5 DEF Depicts
<1> QED BY <1>3, <1>6 DEF Pictures

\* A construct is left: its unique values are spent, and what is left is as
\* the table says.
LEMMA LeavePictures ==
    ASSUME NEW ops, NEW a, Accepted(a, ops), NEW c, Accepted(c, ops), NEW rooms, Len(rooms) > 0,
           NEW w, Pictures(c, rooms, w), NEW T, T = Inmost(rooms), Within(a, c, T),
           NEW r, Resumes(a, r), Leaves(c, r)
    PROVE  Pictures(r, Around(rooms), R!LeaveScope(w))
<1>1. PICK f, h : Depicts(c, rooms, f, h, w)
  BY DEF Pictures
<1>2. w = Scene(rooms, f, h) /\ Shown(rooms, f) /\ Stands(c, Seen(rooms), f, h)
  BY <1>1 DEF Depicts
<1>3. PICK q : q = Around(rooms)
  OBVIOUS
<1>4. /\ rooms \in Seq(RoomType) /\ T \in RoomType /\ q \in Seq(RoomType) /\ rooms = Append(q, T)
  BY <1>2, <1>3, TopRoom DEF Shown
<1>5. Seen(rooms) = Seen(q) \cup T.bound
  BY <1>4, SeenAdded
<1>6. ASSUME NEW n \in Names, Tracked(c, n) PROVE Tracked(a, n) <=> n \notin T.bound
  <2>1. Tracked(a, n) => n \notin T.bound
    BY DEF Within, Inner
  <2>2. PICK i \in 1 .. Len(c.bindings) : c.bindings[i].name = n
    BY <1>6 DEF Accepted, Book, Linked
  <2>3. CASE i > Len(a.bindings)
    BY <2>1, <2>2, <2>3 DEF Within, Inner
  <2>4. CASE ~(i > Len(a.bindings))
    <3>1. Len(a.bindings) \in Nat
      BY BindingsLength DEF Accepted
    <3>2. i \in 1 .. Len(a.bindings)
      BY <2>4, <3>1
    <3>3. a.bindings[i].name = n
      BY <2>2, <3>2 DEF Within, Inner
    <3>4. Tracked(a, n)
      BY <3>2, <3>3 DEF Accepted, Book, Linked
    <3> QED BY <2>1, <3>4
  <2> QED BY <2>3, <2>4
<1>7. ASSUME NEW n \in Names PROVE Tracked(r, n) <=> Tracked(c, n) /\ n \notin T.bound
  <2>1. Tracked(r, n) <=> Tracked(a, n)
    BY DEF Resumes
  <2>2. Tracked(a, n) => Tracked(c, n)
    BY OlderTracked DEF Within
  <2> QED BY <1>6, <2>1, <2>2
<1>8. ASSUME NEW n \in T.bound PROVE ~Unspent(h, f[n])
  <2>1. n \in Names /\ SlotFits(c, f, h, n)
    BY <1>2, <1>5 DEF Stands
  <2>2. CASE Holder(c, n)
    <3>1. Valued(h, f[n], c.tbl[n].kind)
      BY <2>1, <2>2, PlainSlot
    <3>2. c.tbl[n].kind # "Unique"
      <4>1. ~Tracked(r, n)
        BY <1>7, <2>1
      <4>2. c.tbl[n].kind = "Unique" => Gone(c, n)
        BY <2>1, <4>1 DEF Leaves
      <4> QED BY <2>2, <4>2 DEF Holder
    <3> QED BY <3>1, <3>2 DEF Valued, Unspent
  <2>3. CASE ~Holder(c, n)
    <3>1. f[n].st # "own"
      <4>1. c.tbl[n].kind \in Owning \cup Refs \/ ~Tracked(c, n)
        BY <2>1, RowFields DEF Accepted, Tracked, OwnKind, Owning, Refs
      <4> QED BY <2>1, <2>3, <4>1 DEF SlotFits, Holder, Refers
    <3> QED BY <3>1 DEF Unspent
  <2> QED BY <2>2, <2>3
<1>9. /\ R!LeaveScope(w) = Scene(q, f, h) /\ Shown(q, f) /\ Seen(q) \subseteq Seen(rooms)
      /\ Seen(q) \cap T.bound = {}
  <2>1. \A n \in T.bound : ~Unspent(h, f[n])
    BY <1>8
  <2>2. Shown(rooms, f)
    BY <1>2
  <2>3. Exits(rooms, q, f, h, T)
    BY <1>3, <2>1, <2>2, LeaveOf
  <2> QED BY <1>2, <2>3 DEF Exits
<1>10. PICK S : S = Seen(q)
  OBVIOUS
<1>11. ASSUME NEW n \in S PROVE SlotFits(r, f, h, n) /\ (Holder(r, n) => Holder(c, n))
  <2>1. SlotFits(c, f, h, n) /\ n \in Names /\ n \notin T.bound
    BY <1>2, <1>9, <1>10 DEF Stands
  <2>2. Tracked(r, n) <=> Tracked(c, n)
    BY <1>7, <2>1
  <2>3. CASE Tracked(c, n)
    <3>1. r.tbl[n].kind = c.tbl[n].kind /\ r.tbl[n].owner = c.tbl[n].owner /\ (Gone(r, n) <=> Gone(c, n))
      BY <2>1, <2>2, <2>3 DEF Leaves, SameRow
    <3> QED BY <2>1, <2>2, <2>3, <3>1 DEF SlotFits, Holder
  <2>4. CASE ~Tracked(c, n)
    <3>1. r.tbl[n].kind = "None" /\ c.tbl[n].kind = "None"
      BY <2>1, <2>2, <2>4 DEF Tracked
    <3> QED BY <2>1, <2>2, <2>4, <3>1 DEF SlotFits, Holder, Owning, Refs
  <2> QED BY <2>3, <2>4
<1>12. Stands(r, S, f, h)
  <2>1. S \in SUBSET Names /\ f \in [Names -> Slots] /\ h \in Seq(Values)
    BY <1>2, <1>9, <1>10 DEF Stands
  <2>2. \A n \in Names : Tracked(r, n) => n \in S
    BY <1>2, <1>5, <1>7, <1>10 DEF Stands
  <2>3. \A m, n \in S : Holder(r, m) /\ Holder(r, n) /\ m # n => f[m].val # f[n].val
    BY <1>2, <1>9, <1>10, <1>11 DEF Stands
  <2> QED BY <1>11, <2>1, <2>2, <2>3 DEF Stands
<1>13. Depicts(r, q, f, h, R!LeaveScope(w))
  BY <1>9, <1>10, <1>12 DEF Depicts
<1> QED BY <1>3, <1>13 DEF Pictures

\* No scope has a unique value that nobody has spent.
Quiet(e, h) == /\ e \in Seq([Names -> Slots])
               /\ \A k \in 1 .. Len(e) : \A n \in Names : ~Unspent(h, e[k][n])

\* So it is where the checker has forgotten none.
LEMMA QuietOf ==
    ASSUME NEW c \in Checker, NEW rooms, NEW w, Pictures(c, rooms, w), Forgotten(c) = {}
    PROVE  Quiet(w.env, w.heap) /\ Len(w.env) = Len(rooms)
<1>1. PICK f, h : Depicts(c, rooms, f, h, w)
  BY DEF Pictures
<1>2. PICK e : e = Picture(rooms, f)
  OBVIOUS
<1>3. w.env = e /\ w.heap = h /\ rooms \in Seq(RoomType) /\ f \in [Names -> Slots] /\ Stands(c, Seen(rooms), f, h)
  BY <1>1, <1>2 DEF Depicts, Scene, Shown
<1>4. Pictured(rooms, f, e)
  BY <1>2, <1>3, PictureScopes
<1>5. ASSUME NEW n \in Seen(rooms) PROVE ~Unspent(h, f[n])
  <2>1. n \in Names /\ SlotFits(c, f, h, n)
    BY <1>3 DEF Stands
  <2>2. CASE Holder(c, n)
    <3>1. Valued(h, f[n], c.tbl[n].kind)
      BY <2>1, <2>2, PlainSlot
    <3>2. c.tbl[n].kind # "Unique"
      BY <2>1, <2>2 DEF Forgotten, Holder, Gone
    <3> QED BY <3>1, <3>2 DEF Valued, Unspent
  <2>3. CASE ~Holder(c, n)
    <3>1. f[n].st # "own"
      <4>1. c.tbl[n].kind \in Owning \cup Refs \/ ~Tracked(c, n)
        BY <2>1, RowFields DEF Accepted, Tracked, OwnKind, Owning, Refs
      <4> QED BY <2>1, <2>3, <4>1 DEF SlotFits, Holder, Refers
    <3> QED BY <3>1 DEF Unspent
  <2> QED BY <2>2, <2>3
<1>6. e \in Seq([Names -> Slots]) /\ Len(e) = Len(rooms)
  BY <1>4 DEF Pictured
<1>7. ASSUME NEW k \in 1 .. Len(e), NEW n \in Names PROVE ~Unspent(h, e[k][n])
  <2>1. k \in 1 .. Len(rooms) /\ e[k][n] = Cell(rooms[k], f, n)
    BY <1>4, <1>6 DEF Pictured
  <2>2. CASE n \in rooms[k].bound
    <3>1. n \in Seen(rooms)
      BY <2>1, <2>2 DEF Seen
    <3> QED BY <1>5, <2>1, <2>2, <3>1 DEF Cell
  <2>3. CASE n \notin rooms[k].bound
    BY <2>1, <2>3 DEF Cell, Unspent, R!Unbound
  <2> QED BY <2>2, <2>3
<1> QED BY <1>3, <1>6, <1>7 DEF Quiet

\* Leaving such a scope is no fault.
LEMMA QuietLeave ==
    ASSUME NEW e, NEW h, Quiet(e, h), Len(e) > 0, NEW w, Sound(w, e, h)
    PROVE  \E d : Sound(R!LeaveScope(w), d, h) /\ Quiet(d, h) /\ Len(d) = Len(e) - 1
<1>1. PICK d : d = SubSeq(e, 1, Len(e) - 1)
  OBVIOUS
<1>2. e \in Seq([Names -> Slots]) /\ Len(e) \in Nat
  BY LenProperties DEF Quiet
<1>3. /\ d \in Seq([Names -> Slots]) /\ Len(d) = Len(e) - 1 /\ \A j \in 1 .. Len(e) - 1 : d[j] = e[j]
  BY <1>1, <1>2, Shorter
<1>4. ~ \E n \in Names : R!Forgets(w, e[Len(e)][n])
  <2> SUFFICES ASSUME NEW n \in Names, R!Forgets(w, e[Len(e)][n]) PROVE FALSE
    OBVIOUS
  <2>1. w.heap = h
    BY DEF Sound
  <2>2. PICK s : s = e[Len(e)][n]
    OBVIOUS
  <2>3. Unspent(h, s)
    BY <2>1, <2>2 DEF R!Forgets, Unspent
  <2>4. Len(e) \in 1 .. Len(e)
    BY <1>2
  <2> QED BY <2>2, <2>3, <2>4 DEF Quiet
<1>5. Sound(R!LeaveScope(w), d, h)
  BY <1>1, <1>4, LeaveWorld
<1>6. \A j \in 1 .. Len(d) : j \in 1 .. Len(e) /\ d[j] = e[j]
  BY <1>2, <1>3
<1>7. Quiet(d, h)
  BY <1>3, <1>6 DEF Quiet
<1> QED BY <1>3, <1>5, <1>7

\* The constructs being executed are those the checker is in.
Doings == [part : {"body", "block", "if", "while"}, at : Nat, save : {"normal"}]
Act(room) == R!Activity(IF room.part \in {"then", "else"} THEN "if" ELSE room.part, room.open, "normal")
Stacked(s, rooms) ==
    /\ rooms \in Seq(RoomType) /\ s \in Seq(Doings) /\ Len(s) = Len(rooms)
    /\ \A k \in 1 .. Len(rooms) : s[k] = Act(rooms[k])

\* What an activity says of its construct.
LEMMA ActOf ==
    ASSUME NEW room \in RoomType
    PROVE  /\ Act(room) \in Doings /\ Act(room).at = room.open /\ Act(room).save = "normal"
           /\ Act(room).part = "while" <=> room.part = "while"
BY DEF Act, R!Activity, Doings, RoomType

\* A declaration opens no construct.
LEMMA StackedDeeper ==
    ASSUME NEW rooms, NEW s, Stacked(s, rooms), Len(rooms) > 0, NEW D \in SUBSET Names,
           NEW q, q = Deeper(rooms, D)
    PROVE  Stacked(s, q)
<1>1. rooms \in Seq(RoomType)
  BY DEF Stacked
<1>2. /\ q \in Seq(RoomType) /\ Len(q) = Len(rooms) /\ Len(rooms) \in Nat
      /\ \A k \in 1 .. Len(rooms) - 1 : q[k] = rooms[k]
  BY <1>1, DeeperRooms
<1>3. Act(q[Len(rooms)]) = Act(rooms[Len(rooms)])
  <2>1. PICK T : T = Inmost(rooms)
    OBVIOUS
  <2>2. /\ T \in RoomType /\ Around(rooms) \in Seq(RoomType) /\ Len(Around(rooms)) = Len(rooms) - 1
        /\ T = rooms[Len(rooms)]
    BY <1>1, <2>1, TopRoom DEF Inmost
  <2>3. PICK B : B = T.bound \cup D
    OBVIOUS
  <2>4. PICK U : U = Room(T.part, T.open, T.at, B)
    OBVIOUS
  <2>5. U \in RoomType /\ U.part = T.part /\ U.open = T.open
    <3>1. T.part \in {"body", "block", "then", "else", "while"} /\ T.open \in Nat /\ T.at \in Nat
          /\ B \in SUBSET Names
      BY <2>2, <2>3 DEF RoomType
    <3> QED BY <2>4, <3>1, RoomFields
  <2>6. PICK b : b = Around(rooms)
    OBVIOUS
  <2>7. q = Append(b, U)
    BY <2>1, <2>3, <2>4, <2>6 DEF Deeper
  <2>8. Builds(b, U, q)
    BY <2>2, <2>5, <2>6, <2>7, RoomAdded
  <2>9. q[Len(rooms)] = U
    <3>1. Len(b) + 1 = Len(rooms)
      BY <1>2, <2>2, <2>6
    <3> QED BY <2>8, <3>1 DEF Builds
  <2> QED BY <2>2, <2>5, <2>9 DEF Act
<1>4. ASSUME NEW k \in 1 .. Len(q) PROVE s[k] = Act(q[k])
  <2>1. CASE k = Len(rooms)
    BY <1>2, <1>3, <2>1 DEF Stacked
  <2>2. CASE k # Len(rooms)
    <3>1. k \in 1 .. Len(rooms) /\ k \in 1 .. Len(rooms) - 1
      BY <1>2, <2>2
    <3> QED BY <1>2, <3>1 DEF Stacked
  <2> QED BY <2>1, <2>2
<1> QED BY <1>2, <1>4 DEF Stacked

\* A construct is entered.
LEMMA StackedEnter ==
    ASSUME NEW rooms, NEW s, Stacked(s, rooms), NEW U \in RoomType, NEW b, b = Act(U),
           NEW q, q = Append(rooms, U), NEW z, z = Append(s, b)
    PROVE  Stacked(z, q)
<1>1. rooms \in Seq(RoomType) /\ s \in Seq(Doings) /\ b \in Doings
  BY ActOf DEF Stacked
<1>2. Builds(rooms, U, q)
  BY <1>1, RoomAdded
<1>3. /\ q \in Seq(RoomType) /\ Len(rooms) \in Nat /\ Len(q) = Len(rooms) + 1
      /\ q[Len(rooms) + 1] = U /\ \A k \in 1 .. Len(rooms) : q[k] = rooms[k]
  BY <1>2 DEF Builds
<1>4. /\ z \in Seq(Doings) /\ Len(z) = Len(s) + 1 /\ z[Len(s) + 1] = b
      /\ \A k \in 1 .. Len(s) : z[k] = s[k]
  BY <1>1, AppendProperties
<1>5. Len(s) = Len(rooms)
  BY DEF Stacked
<1>6. ASSUME NEW k \in 1 .. Len(q) PROVE z[k] = Act(q[k])
  <2>1. CASE k = Len(rooms) + 1
    BY <1>3, <1>4, <1>5, <2>1
  <2>2. CASE k # Len(rooms) + 1
    <3>1. k \in 1 .. Len(rooms)
      BY <1>3, <2>2
    <3> QED BY <1>3, <1>4, <1>5, <3>1 DEF Stacked
  <2> QED BY <2>1, <2>2
<1>7. Len(z) = Len(q)
  BY <1>3, <1>4, <1>5
<1> QED BY <1>3, <1>4, <1>6, <1>7 DEF Stacked

\* A construct is left.
LEMMA StackedLeave ==
    ASSUME NEW rooms, NEW s, Stacked(s, rooms), Len(rooms) > 0, NEW q, q = Around(rooms)
    PROVE  /\ Stacked(SubSeq(s, 1, Len(s) - 1), q)
           /\ s[Len(s)] = Act(Inmost(rooms)) /\ Inmost(rooms) \in RoomType
<1>1. PICK z : z = SubSeq(s, 1, Len(s) - 1)
  OBVIOUS
<1>2. rooms \in Seq(RoomType) /\ s \in Seq(Doings) /\ Len(s) = Len(rooms)
  BY DEF Stacked
<1>3. /\ Len(rooms) \in Nat /\ q \in Seq(RoomType) /\ Len(q) = Len(rooms) - 1
      /\ \A k \in 1 .. Len(rooms) - 1 : q[k] = rooms[k]
      /\ Inmost(rooms) \in RoomType
  BY <1>2, TopRoom
<1>4. /\ z \in Seq(Doings) /\ Len(z) = Len(s) - 1 /\ \A k \in 1 .. Len(s) - 1 : z[k] = s[k]
  BY <1>1, <1>2, <1>3, Shorter
<1>5. ASSUME NEW k \in 1 .. Len(q) PROVE z[k] = Act(q[k])
  <2>1. k \in 1 .. Len(rooms) - 1 /\ k \in 1 .. Len(rooms)
    BY <1>3
  <2> QED BY <1>2, <1>3, <1>4, <2>1 DEF Stacked
<1>6. Stacked(z, q)
  BY <1>2, <1>3, <1>4, <1>5 DEF Stacked
<1>7. s[Len(s)] = Act(Inmost(rooms))
  <2>1. Len(rooms) \in 1 .. Len(rooms)
    BY <1>3
  <2> QED BY <1>2, <2>1 DEF Stacked, Inmost
<1> QED BY <1>1, <1>3, <1>6, <1>7

-----------------------------------------------------------------------------
(* The accepted program runs along the checker's walk.                     *)

\* Before token ip, as the checker was; unwinding, with nothing to lose; and
\* at the end.
Runs(cs, rs, N) ==
    ip \in 1 .. N /\ comp = "normal" /\ Stacked(stack, rs[ip]) /\ Pictures(cs[ip], rs[ip], R!World)
Unwinds ==
    /\ comp \in {"return", "throw"} /\ stack \in Seq(Doings) /\ Len(env) = Len(stack)
    /\ Quiet(env, heap) /\ faults = {}
Ended == Len(stack) = 0 /\ faults = {}

\* What is known before token i = ip, t, in the construct T.
Acting(cs, rs, N, ops, i, t, T) ==
    /\ Complete(cs, rs, N, ops) /\ i \in 1 .. N /\ i = ip /\ t = prog[ip] /\ T = Inmost(rs[i])
    /\ Stacked(stack, rs[i]) /\ Pictures(cs[i], rs[i], R!World)
    /\ Follows(cs, rs, i, t, ops) /\ t.op \in Written /\ Accepted(cs[i], ops)
    /\ rs[i] \in Seq(RoomType) /\ Len(rs[i]) > 0 /\ T \in RoomType
    /\ Tops(cs, rs, i, T, Len(rs[i])) /\ Accepted(cs[T.open], ops)

\* Before every token of the walk these facts hold.
LEMMA ActingAt ==
    ASSUME NEW ops, NEW cs, NEW rs, NEW N, Complete(cs, rs, N, ops), Runs(cs, rs, N)
    PROVE  \E i, t, T : Acting(cs, rs, N, ops, i, t, T)
<1>1. PICK i : i = ip
  OBVIOUS
<1>2. PICK t : t = prog[i]
  OBVIOUS
<1>3. PICK T : T = Inmost(rs[i])
  OBVIOUS
<1>4. i \in 1 .. N /\ Stacked(stack, rs[i]) /\ Pictures(cs[i], rs[i], R!World)
  BY <1>1 DEF Runs
<1>5. /\ i \in Nat /\ Paces(cs, rs) /\ Follows(cs, rs, i, t, ops)
      /\ \A m \in 0 .. i + 1 : Placed(cs, rs, m, ops)
  BY <1>2, <1>4, AtToken
<1>6. t.op \in Written /\ Len(rs[i]) > 0
  BY <1>5, FollowsWords DEF Follows
<1>7. i \in 0 .. i + 1
  BY <1>5
<1>8. Placed(cs, rs, i, ops) /\ Accepted(cs[i], ops) /\ rs[i] \in Seq(RoomType)
  BY <1>5, <1>7, PaceAt DEF Placed
<1>9. Tops(cs, rs, i, T, Depth(rs, i)) /\ Depth(rs, i) = Len(rs[i])
  BY <1>3, <1>5, <1>6, <1>8, TopOf DEF Depth
<1>10. T.open \in 0 .. i - 1 /\ T \in RoomType
  BY <1>9 DEF Tops
<1>11. Accepted(cs[T.open], ops)
  BY <1>5, <1>10 DEF Placed
<1>12. Acting(cs, rs, N, ops, i, t, T)
  BY <1>1, <1>2, <1>3, <1>4, <1>5, <1>6, <1>8, <1>9, <1>10, <1>11 DEF Acting
<1> QED BY <1>12

\* The program goes on inside a construct.
LEMMA NextToken ==
    ASSUME NEW ops, NEW cs, NEW rs, NEW N, Complete(cs, rs, N, ops), NEW i \in 1 .. N, Depth(rs, i + 1) > 0
    PROVE  i + 1 \in 1 .. N
<1>1. N \in Nat /\ Depth(rs, N + 1) = 0
  BY DEF Complete
<1>2. i # N
  BY <1>1
<1> QED BY <1>1, <1>2

\* A step that goes to token j.
LEMMA GoTo ==
    ASSUME NEW cs, NEW rs, NEW N, NEW j \in 1 .. N, NEW w, Pictures(cs[j], rs[j], w),
           NEW s, Stacked(s, rs[j]), R!Remember(w), R!Go(j, s, "normal")
    PROVE  Runs(cs, rs, N)'
<1>1. PICK f, h : Depicts(cs[j], rs[j], f, h, w)
  BY DEF Pictures
<1>2. w = [env |-> w.env, heap |-> w.heap, faults |-> w.faults]
  BY <1>1 DEF Depicts, Scene
<1>3. R!World' = w
  BY <1>2 DEF R!World, R!Remember
<1>4. ip' = j /\ stack' = s /\ comp' = "normal"
  BY DEF R!Go
<1> QED BY <1>3, <1>4 DEF Runs

\* A straight statement is followed by the next token, in the same construct.
LEMMA StraightOn ==
    ASSUME NEW ops, NEW cs, NEW rs, NEW N, NEW i, NEW t, NEW T, Acting(cs, rs, N, ops, i, t, T),
           t.op \in StraightWords
    PROVE  /\ Straightly(cs, rs, i, t, ops) /\ rs[i + 1] = Deeper(rs[i], Declared(t))
           /\ i + 1 \in 1 .. N /\ Stacked(stack, rs[i + 1])
<1>1. /\ Complete(cs, rs, N, ops) /\ i \in 1 .. N /\ Follows(cs, rs, i, t, ops) /\ T = Inmost(rs[i])
      /\ Stacked(stack, rs[i]) /\ rs[i] \in Seq(RoomType) /\ Len(rs[i]) > 0
  BY DEF Acting
<1>2. Straightly(cs, rs, i, t, ops)
  BY <1>1 DEF Follows, Opening, Elsewise, Ending, Finishing, StraightWords
<1>3. rs[i + 1] = Deeper(rs[i], Declared(t))
  BY <1>2 DEF Straightly, Deeper
<1>4. Declared(t) \in SUBSET Names
  BY <1>2 DEF Straightly
<1>5. Len(rs[i + 1]) = Len(rs[i]) /\ Stacked(stack, rs[i + 1])
  BY <1>1, <1>3, <1>4, DeeperRooms, StackedDeeper
<1>6. i + 1 \in 1 .. N
  BY <1>1, <1>5, NextToken DEF Depth
<1> QED BY <1>2, <1>3, <1>5, <1>6

\* A statement.
LEMMA StatementOn ==
    ASSUME NEW ops, NEW cs, NEW rs, NEW N, NEW i, NEW t, NEW T, Acting(cs, rs, N, ops, i, t, T),
           R!Statement
    PROVE  Runs(cs, rs, N)'
<1>1. t = prog[ip] /\ t.op \in Written /\ i = ip
  BY DEF Acting
<1>2. /\ t.op \in {"declare", "plain", "move", "borrow", "clone", "consume", "read"}
      /\ t.op \in StraightWords
  BY <1>1 DEF R!Statement, R!Token, Written, StraightWords
<1>3. PICK w : w = R!World
  OBVIOUS
<1>4. PICK z : z = R!Effect(w, t)
  OBVIOUS
<1>5. R!Remember(z) /\ R!Go(i + 1, stack, "normal")
  BY <1>1, <1>3, <1>4 DEF R!Statement, R!Token
<1>6. /\ Straightly(cs, rs, i, t, ops) /\ rs[i + 1] = Deeper(rs[i], Declared(t))
      /\ i + 1 \in 1 .. N /\ Stacked(stack, rs[i + 1])
  BY <1>2, StraightOn
<1>7. Pictures(cs[i], rs[i], w) /\ Accepted(cs[i], ops) /\ Len(rs[i]) > 0
  BY <1>3 DEF Acting
<1>8. /\ Used(t) \subseteq Seen(rs[i]) /\ Declared(t) \subseteq Names \ Seen(rs[i])
      /\ Does(t, cs[i], cs[i + 1], ops)
  BY <1>6 DEF Straightly
<1>9. Pictures(cs[i + 1], rs[i + 1], z)
  BY <1>2, <1>4, <1>6, <1>7, <1>8, EffectOf
<1> QED BY <1>5, <1>6, <1>9, GoTo

\* "c && f(x)".
LEMMA AndOn ==
    ASSUME NEW ops, NEW cs, NEW rs, NEW N, NEW i, NEW t, NEW T, Acting(cs, rs, N, ops, i, t, T),
           R!ShortCircuit
    PROVE  Runs(cs, rs, N)'
<1>1. t = prog[ip] /\ i = ip
  BY DEF Acting
<1>2. t.op = "and" /\ t.op \in StraightWords
  BY <1>1 DEF R!ShortCircuit, R!Token, StraightWords
<1>3. PICK w : w = R!World
  OBVIOUS
<1>4. (R!Remember(w) \/ R!Remember(R!Spend(w, t.x))) /\ R!Go(i + 1, stack, "normal")
  BY <1>1, <1>3 DEF R!ShortCircuit, R!Token
<1>5. /\ Straightly(cs, rs, i, t, ops) /\ rs[i + 1] = Deeper(rs[i], Declared(t))
      /\ i + 1 \in 1 .. N /\ Stacked(stack, rs[i + 1])
  BY <1>2, StraightOn
<1>6. /\ Pictures(cs[i], rs[i], w) /\ Accepted(cs[i], ops) /\ Len(rs[i]) > 0
      /\ rs[i] \in Seq(RoomType)
  BY <1>3 DEF Acting
<1>7. t.x \in Seen(rs[i]) /\ Does(t, cs[i], cs[i + 1], ops) /\ Declared(t) = {}
  BY <1>2, <1>5 DEF Straightly, Used, Declared
<1>8. cs[i + 1] = cs[i] /\ ~Tracked(cs[i], t.x)
  BY <1>2, <1>7 DEF Does
<1>9. rs[i + 1] = rs[i]
  BY <1>5, <1>6, <1>7, DeeperNone
<1>10. R!Spend(w, t.x) = w
  BY <1>6, <1>7, <1>8, SpendPlain
<1>11. R!Remember(w)
  BY <1>4, <1>10
<1>12. Pictures(cs[i + 1], rs[i + 1], w)
  BY <1>6, <1>8, <1>9
<1> QED BY <1>4, <1>5, <1>11, <1>12, GoTo

\* A return or a throw.
LEMMA JumpOn ==
    ASSUME NEW ops, NEW cs, NEW rs, NEW N, NEW i, NEW t, NEW T, Acting(cs, rs, N, ops, i, t, T),
           R!Jump
    PROVE  Unwinds'
<1>1. t = prog[ip] /\ i = ip /\ t.op \in Written
  BY DEF Acting
<1>2. t.op \in {"return", "throw"} /\ t.op \in StraightWords
  BY <1>1 DEF R!Jump, R!Token, Written, StraightWords
<1>3. PICK w : w = R!World
  OBVIOUS
<1>4. PICK z : z = IF t.op = "return" /\ t.x # NoName THEN R!Spend(w, t.x) ELSE w
  OBVIOUS
<1>5. R!Remember(z) /\ R!Go(i, stack, t.op)
  BY <1>1, <1>3, <1>4 DEF R!Jump, R!Token
<1>6. Straightly(cs, rs, i, t, ops) /\ rs[i + 1] = Deeper(rs[i], Declared(t)) /\ i + 1 \in 1 .. N
  BY <1>2, StraightOn
<1>7. /\ Pictures(cs[i], rs[i], w) /\ Accepted(cs[i], ops) /\ Len(rs[i]) > 0
      /\ rs[i] \in Seq(RoomType) /\ Stacked(stack, rs[i])
  BY <1>3 DEF Acting
<1>8. Does(t, cs[i], cs[i + 1], ops) /\ Used(t) \subseteq Seen(rs[i])
  BY <1>6 DEF Straightly
<1>9. Forgotten(cs[i + 1]) = {} /\ Pictures(cs[i + 1], rs[i], z)
  <2>1. CASE t.op = "throw"
    BY <1>4, <1>7, <1>8, <2>1 DEF Does
  <2>2. CASE t.op = "return"
    <3>1. CASE t.x # NoName /\ Movable(cs[i], t.x) /\ Changes(cs[i], cs[i + 1], {}, {t.x}, ops)
      <4>1. t.x \in Seen(rs[i])
        BY <1>8, <2>2, <3>1 DEF Used
      <4>2. z = R!Spend(w, t.x)
        BY <1>4, <2>2, <3>1
      <4>3. Pictures(cs[i + 1], rs[i], z)
        BY <1>7, <3>1, <4>1, <4>2, SpendOf
      <4> QED BY <1>8, <2>2, <4>3 DEF Does
    <3>2. CASE t.x = NoName /\ cs[i + 1] = cs[i]
      BY <1>4, <1>7, <1>8, <2>2, <3>2 DEF Does
    <3>3. CASE t.x # NoName /\ ~Tracked(cs[i], t.x) /\ cs[i + 1] = cs[i]
      <4>1. t.x \in Seen(rs[i])
        BY <1>8, <2>2, <3>3 DEF Used
      <4>2. z = w
        BY <1>4, <1>7, <2>2, <3>3, <4>1, SpendPlain
      <4> QED BY <1>7, <1>8, <2>2, <3>3, <4>2 DEF Does
    <3> QED BY <1>8, <2>2, <3>1, <3>2, <3>3 DEF Does
  <2> QED BY <1>2, <2>1, <2>2
<1>10. cs[i + 1] \in Checker
  <2>1. Complete(cs, rs, N, ops) /\ N \in Nat
    BY DEF Acting, Complete
  <2>2. Paces(cs, rs) /\ i + 1 \in Nat
    BY <1>6, <2>1, AtToken
  <2> QED BY <2>2, PaceAt
<1>11. Quiet(z.env, z.heap) /\ Len(z.env) = Len(rs[i])
  BY <1>9, <1>10, QuietOf
<1>12. z.faults = {}
  BY <1>9 DEF Pictures, Depicts, Scene
<1>13. env' = z.env /\ heap' = z.heap /\ faults' = z.faults /\ stack' = stack /\ comp' = t.op
  BY <1>5 DEF R!Remember, R!Go
<1>14. stack \in Seq(Doings) /\ Len(stack) = Len(rs[i])
  BY <1>7 DEF Stacked
<1> QED BY <1>2, <1>11, <1>12, <1>13, <1>14 DEF Unwinds

\* After token j, inside a construct.
LEMMA AfterOn ==
    ASSUME NEW ops, NEW cs, NEW rs, NEW N, Complete(cs, rs, N, ops), NEW j \in 1 .. N, Len(rs[j + 1]) > 0,
           NEW w, Pictures(cs[j + 1], rs[j + 1], w), NEW s, Stacked(s, rs[j + 1]),
           R!Remember(w), R!Go(j + 1, s, "normal")
    PROVE  Runs(cs, rs, N)'
<1>1. j + 1 \in 1 .. N
  BY NextToken DEF Depth
<1> QED BY <1>1, GoTo

\* A token of the walk that opens a construct.
LEMMA OpensHere ==
    ASSUME NEW ops, NEW cs, NEW rs, NEW N, Complete(cs, rs, N, ops), NEW i \in 1 .. N,
           prog[i].op \in {"block", "if", "while"}
    PROVE  /\ prog[i].op \in R!Openers /\ Opening(cs, rs, i, prog[i]) /\ Accepted(cs[i], ops)
           /\ rs[i] \in Seq(RoomType) /\ Len(rs[i]) > 0 /\ i \in Nat
<1>1. prog[i].op \in R!Openers
  BY DEF R!Openers
<1>2. Opening(cs, rs, i, prog[i])
  BY <1>1, RoomOpened
<1>3. i \in Nat /\ Paces(cs, rs) /\ Len(rs[i]) > 0 /\ Placed(cs, rs, i, ops)
  <2>1. i \in 0 .. i + 1
    OBVIOUS
  <2> QED BY <2>1, AtToken DEF Follows
<1> QED BY <1>1, <1>2, <1>3, PaceAt DEF Placed

\* Into the first part of a construct.
LEMMA OpenOn ==
    ASSUME NEW ops, NEW cs, NEW rs, NEW N, Complete(cs, rs, N, ops), NEW i \in 1 .. N,
           prog[i].op \in {"block", "if", "while"}, NEW w, Pictures(cs[i], rs[i], w),
           NEW s, Stacked(s, rs[i]), R!Enter(w, s, prog[i].op, i, i, "normal")
    PROVE  Runs(cs, rs, N)'
<1>1. /\ Opening(cs, rs, i, prog[i]) /\ Accepted(cs[i], ops)
      /\ rs[i] \in Seq(RoomType) /\ i \in Nat
  BY OpensHere
<1>2. PICK U : U = Room(PartOf(prog[i].op), i, i, {})
  OBVIOUS
<1>3. PartOf(prog[i].op) \in {"block", "then", "while"}
  BY DEF PartOf
<1>4. /\ U \in RoomType /\ U.bound = {} /\ U.part = PartOf(prog[i].op) /\ U.open = i
  BY <1>1, <1>2, <1>3, RoomFields
<1>5. cs[i + 1] = Entered(cs[i], U) /\ rs[i + 1] = Append(rs[i], U)
  BY <1>1, <1>2 DEF Opening
<1>6. cs[i + 1].tbl = cs[i].tbl
  BY <1>1, <1>4, <1>5, EnteredWithin
<1>7. Pictures(cs[i + 1], rs[i + 1], R!EnterScope(w))
  BY <1>4, <1>5, <1>6, EnterPictures
<1>8. PICK b : b = R!Activity(prog[i].op, i, "normal")
  OBVIOUS
<1>9. b = Act(U)
  <2>1. prog[i].op = IF U.part \in {"then", "else"} THEN "if" ELSE U.part
    BY <1>4 DEF PartOf
  <2> QED BY <1>4, <1>8, <2>1 DEF Act
<1>10. PICK z : z = Append(s, b)
  OBVIOUS
<1>11. Stacked(z, rs[i + 1])
  BY <1>4, <1>5, <1>9, <1>10, StackedEnter
<1>12. Len(rs[i + 1]) > 0
  BY <1>1, <1>4, <1>5, RoomAdded DEF Builds
<1>13. R!Remember(R!EnterScope(w)) /\ R!Go(i + 1, z, "normal")
  BY <1>8, <1>10 DEF R!Enter
<1> QED BY <1>7, <1>11, <1>12, <1>13, AfterOn

\* Into the second branch of a conditional.
LEMMA ElseOn ==
    ASSUME NEW ops, NEW cs, NEW rs, NEW N, Complete(cs, rs, N, ops), NEW i \in 1 .. N,
           prog[i].op = "if", NEW w, Pictures(cs[i], rs[i], w), NEW s, Stacked(s, rs[i]),
           NEW j \in R!Middle(i, {"else"}), R!Enter(w, s, "if", i, j, "normal")
    PROVE  Runs(cs, rs, N)'
<1>1. /\ prog[i].op \in R!Openers /\ Accepted(cs[i], ops) /\ rs[i] \in Seq(RoomType) /\ i \in Nat
  BY OpensHere
<1>2. PICK T : T = Inmost(rs[j])
  OBVIOUS
<1>3. /\ j \in 1 .. N /\ Elsewise(cs, rs, j, prog[j])
      /\ Tops(cs, rs, j, T, Depth(rs, i) + 1) /\ T.open = i
  BY <1>1, <1>2, ElseAt
<1>4. PICK U : U = Room("else", i, j, {})
  OBVIOUS
<1>5. j \in Nat
  BY <1>3, AtToken
<1>6. U \in RoomType /\ U.bound = {} /\ U.part = "else" /\ U.open = i
  BY <1>1, <1>4, <1>5, RoomFields
<1>7. cs[j + 1] = Entered(cs[i], U) /\ rs[j + 1] = Append(rs[i], U)
  <2>1. Around(rs[j]) = rs[i]
    BY <1>3 DEF Tops
  <2> QED BY <1>2, <1>3, <1>4, <2>1 DEF Elsewise
<1>8. cs[j + 1].tbl = cs[i].tbl
  BY <1>1, <1>6, <1>7, EnteredWithin
<1>9. Pictures(cs[j + 1], rs[j + 1], R!EnterScope(w))
  BY <1>6, <1>7, <1>8, EnterPictures
<1>10. PICK b, z : b = R!Activity("if", i, "normal") /\ z = Append(s, b)
  OBVIOUS
<1>11. b = Act(U)
  BY <1>6, <1>10 DEF Act
<1>12. Stacked(z, rs[j + 1])
  BY <1>6, <1>7, <1>10, <1>11, StackedEnter
<1>13. Len(rs[j + 1]) > 0
  BY <1>1, <1>6, <1>7, RoomAdded DEF Builds
<1>14. R!Remember(R!EnterScope(w)) /\ R!Go(j + 1, z, "normal")
  BY <1>10 DEF R!Enter
<1> QED BY <1>3, <1>9, <1>12, <1>13, <1>14, AfterOn

\* Past a construct, to the end of which the checker came as it had come to
\* its beginning.
LEMMA SkipOn ==
    ASSUME NEW ops, NEW cs, NEW rs, NEW N, Complete(cs, rs, N, ops), NEW i \in 1 .. N,
           prog[i].op \in {"block", "if", "while"}, NEW w, Pictures(cs[i], rs[i], w),
           NEW s, Stacked(s, rs[i]), NEW c \in 1 .. N, NEW T, Shuts(cs, rs, i, c, T),
           T.part \in {"then", "while"}, R!Remember(w), R!Go(c + 1, s, "normal")
    PROVE  Runs(cs, rs, N)'
<1>1. Accepted(cs[i], ops) /\ Len(rs[i]) > 0
  BY OpensHere
<1>2. PICK r : r = cs[c + 1]
  OBVIOUS
<1>3. /\ r = Quit(cs[c], T) /\ r.diags = {} /\ rs[c + 1] = rs[i]
      /\ T.part = "then" => Agree(r.tbl, cs[i].tbl)
  BY <1>2 DEF Shuts, Ending
<1>4. Within(cs[i], cs[c], T)
  BY DEF Shuts, Tops
<1>5. Accepted(cs[c], ops)
  <2>1. c \in 0 .. c + 1
    OBVIOUS
  <2> QED BY <2>1, AtToken DEF Placed
<1>6. Resumes(cs[i], r) /\ Leaves(cs[c], r)
  BY <1>1, <1>3, <1>4, <1>5, QuitChanges
<1>7. SameView(cs[i], r) \/ SameView(r, cs[i])
  <2>1. CASE T.part = "while"
    <3>1. PICK bound : bound = T.bound
      OBVIOUS
    <3>2. Inner(cs[i], cs[c], bound, TRUE)
      BY <1>4, <2>1, <3>1 DEF Within
    <3> QED BY <1>1, <1>6, <3>2, LoopView
  <2>2. CASE T.part = "then"
    <3>1. Agree(r.tbl, cs[i].tbl) /\ Resumes(cs[i], cs[i])
      BY <1>3, <2>2, ResumesView
    <3> QED BY <1>6, <3>1, AgreeView
  <2> QED BY <2>1, <2>2
<1>8. Pictures(r, rs[i], w)
  BY <1>7, ViewPictures
<1> QED BY <1>1, <1>2, <1>3, <1>8, AfterOn

\* A loop tests its condition.
LEMMA TestOn ==
    ASSUME NEW ops, NEW cs, NEW rs, NEW N, Complete(cs, rs, N, ops), NEW i \in 1 .. N,
           prog[i].op = "while", NEW w, Pictures(cs[i], rs[i], w), NEW s, Stacked(s, rs[i]),
           R!Test(w, s, i)
    PROVE  Runs(cs, rs, N)'
<1>1. CASE R!Enter(w, s, "while", i, i, "normal")
  BY <1>1, OpenOn
<1>2. CASE R!Remember(w) /\ R!Go(R!CloseOf(i) + 1, s, "normal")
  <2>1. PICK c, T : c = R!CloseOf(i) /\ T = Inmost(rs[c])
    OBVIOUS
  <2>2. prog[i].op \in R!Openers /\ PartOf(prog[i].op) = "while"
    BY OpensHere DEF PartOf
  <2>3. Shuts(cs, rs, i, c, T) /\ First(T.part) = "while" /\ c \in i + 1 .. N
    BY <2>1, <2>2, ClosePart
  <2>4. T.part = "while" /\ c \in 1 .. N
    BY <2>3 DEF First
  <2> QED BY <1>2, <2>1, <2>3, <2>4, SkipOn
<1> QED BY <1>1, <1>2 DEF R!Test

\* The beginning of a construct.
LEMMA ChooseOn ==
    ASSUME NEW ops, NEW cs, NEW rs, NEW N, NEW i, NEW t, NEW T, Acting(cs, rs, N, ops, i, t, T),
           R!Choose
    PROVE  Runs(cs, rs, N)'
<1>1. /\ Complete(cs, rs, N, ops) /\ i \in 1 .. N /\ i = ip /\ t = prog[i] /\ t.op \in Written
      /\ Stacked(stack, rs[i]) /\ R!Token = t
  BY DEF Acting, R!Token
<1>2. PICK w : w = R!World
  OBVIOUS
<1>3. Pictures(cs[i], rs[i], w)
  BY <1>2 DEF Acting
<1>4. CASE t.op = "block" /\ R!Enter(w, stack, t.op, i, i, "normal")
  BY <1>1, <1>3, <1>4, OpenOn
<1>5. CASE t.op = "if" /\ R!Enter(w, stack, "if", i, i, "normal")
  BY <1>1, <1>3, <1>5, OpenOn
<1>6. CASE t.op = "if" /\ \E j \in R!Middle(i, {"else"}) : R!Enter(w, stack, "if", i, j, "normal")
  BY <1>1, <1>3, <1>6, ElseOn
<1>7. CASE /\ t.op = "if" /\ R!Middle(i, {"else"}) = {}
           /\ R!Remember(w) /\ R!Go(R!CloseOf(i) + 1, stack, "normal")
  <2>1. PICK c, V : c = R!CloseOf(i) /\ V = Inmost(rs[c])
    OBVIOUS
  <2>2. Shuts(cs, rs, i, c, V) /\ V.part = "then" /\ c \in 1 .. N
    BY <1>1, <1>7, <2>1, NoElse
  <2> QED BY <1>1, <1>3, <1>7, <2>1, <2>2, SkipOn
<1>8. CASE t.op = "while" /\ R!Test(w, stack, i)
  BY <1>1, <1>3, <1>8, TestOn
<1>9. t.op \notin {"try", "switch"}
  BY <1>1 DEF Written, StraightWords
<1> QED BY <1>1, <1>2, <1>4, <1>5, <1>6, <1>7, <1>8, <1>9 DEF R!Choose

\* The innermost construct is left where the checker left it.
LEMMA QuitHere ==
    ASSUME NEW ops, NEW cs, NEW rs, NEW N, NEW i, NEW t, NEW T, Acting(cs, rs, N, ops, i, t, T),
           NEW r, r = Quit(cs[i], T), r.diags = {}
    PROVE  /\ Accepted(r, ops) /\ Resumes(cs[T.open], r) /\ Leaves(cs[i], r)
           /\ Pictures(r, rs[T.open], R!LeaveScope(R!World)) /\ Stacked(R!Outer, rs[T.open])
           /\ R!Doing = Act(T)
<1>1. /\ Accepted(cs[i], ops) /\ Accepted(cs[T.open], ops) /\ Len(rs[i]) > 0 /\ T = Inmost(rs[i])
      /\ Stacked(stack, rs[i]) /\ Tops(cs, rs, i, T, Len(rs[i]))
  BY DEF Acting
<1>2. PICK w : w = R!World
  OBVIOUS
<1>3. Pictures(cs[i], rs[i], w)
  BY <1>2 DEF Acting
<1>4. Within(cs[T.open], cs[i], T) /\ Around(rs[i]) = rs[T.open]
  BY <1>1 DEF Tops
<1>5. Accepted(r, ops) /\ Resumes(cs[T.open], r) /\ Leaves(cs[i], r)
  BY <1>1, <1>4, QuitChanges
<1>6. Pictures(r, Around(rs[i]), R!LeaveScope(w))
  BY <1>1, <1>3, <1>4, <1>5, LeavePictures
<1>7. PICK q : q = Around(rs[i])
  OBVIOUS
<1>8. Stacked(SubSeq(stack, 1, Len(stack) - 1), q) /\ stack[Len(stack)] = Act(Inmost(rs[i]))
  BY <1>1, <1>7, StackedLeave
<1> QED BY <1>1, <1>2, <1>4, <1>5, <1>6, <1>7, <1>8 DEF R!Outer, R!Doing

\* The end of the first branch of a conditional.
LEMMA BranchOn ==
    ASSUME NEW ops, NEW cs, NEW rs, NEW N, NEW i, NEW t, NEW T, Acting(cs, rs, N, ops, i, t, T),
           t.op = "else", R!Remember(R!LeaveScope(R!World)), R!Go(R!CloseOf(R!Doing.at) + 1, R!Outer, "normal")
    PROVE  Runs(cs, rs, N)'
<1>1. /\ Complete(cs, rs, N, ops) /\ i \in 1 .. N /\ t = prog[i] /\ T = Inmost(rs[i]) /\ T \in RoomType
      /\ Follows(cs, rs, i, t, ops) /\ Tops(cs, rs, i, T, Len(rs[i]))
  BY DEF Acting
<1>2. Elsewise(cs, rs, i, t)
  BY <1>1 DEF Follows, Straightly, Opening, Ending, Finishing, StraightWords
<1>3. PICK r, s, w : r = Quit(cs[i], T) /\ s = R!Outer /\ w = R!LeaveScope(R!World)
  OBVIOUS
<1>4. r.diags = {}
  BY <1>1, <1>2, <1>3 DEF Elsewise
<1>5. Pictures(r, rs[T.open], w) /\ Stacked(s, rs[T.open]) /\ R!Doing = Act(T)
  BY <1>3, <1>4, QuitHere
<1>6. R!Doing.at = T.open
  BY <1>1, <1>5, ActOf
<1>7. PICK c, V : c = R!CloseOf(T.open) /\ V = Inmost(rs[c])
  OBVIOUS
<1>8. PICK d : d = Len(rs[i])
  OBVIOUS
<1>9. Opener(rs, T.open, i, d) /\ Shuts(cs, rs, T.open, c, V) /\ V.part = "else" /\ V.at = i /\ c \in 1 .. N
  BY <1>1, <1>2, <1>7, <1>8, FromElse
<1>10. cs[c + 1] = r /\ rs[c + 1] = rs[T.open]
  BY <1>1, <1>3, <1>7, <1>9 DEF Shuts, Ending
<1>11. Len(rs[T.open]) > 0
  <2>1. T.open \in 1 .. N
    BY <1>1, <1>9 DEF Opener, Complete
  <2> QED BY <1>1, <2>1, AtToken DEF Follows
<1> QED BY <1>1, <1>3, <1>5, <1>6, <1>7, <1>9, <1>10, <1>11, AfterOn

\* At the end of a construct.
LEMMA AtEnd ==
    ASSUME NEW ops, NEW cs, NEW rs, NEW N, NEW i, NEW t, NEW T, Acting(cs, rs, N, ops, i, t, T),
           t.op = "end"
    PROVE  /\ Ending(cs, rs, i, t) /\ T.open \in 1 .. N /\ prog[T.open].op \in R!Openers
           /\ PartOf(prog[T.open].op) = First(T.part) /\ rs[i + 1] = rs[T.open] /\ Len(rs[T.open]) > 0
<1>1. /\ Complete(cs, rs, N, ops) /\ i \in 1 .. N /\ t = prog[i] /\ T = Inmost(rs[i])
      /\ Follows(cs, rs, i, t, ops) /\ Tops(cs, rs, i, T, Len(rs[i]))
  BY DEF Acting
<1>2. Ending(cs, rs, i, t)
  BY <1>1 DEF Follows, Straightly, Opening, Elsewise, Finishing, StraightWords
<1>3. PICK d : d = Len(rs[i])
  OBVIOUS
<1>4. Opener(rs, T.open, i, d)
  BY <1>1, <1>2, <1>3, EndCloses
<1>5. T.open \in 1 .. N /\ prog[T.open].op \in R!Openers
  BY <1>1, <1>4 DEF Opener, Complete
<1>6. PICK o : o = T.open
  OBVIOUS
<1>7. PartOf(prog[o].op) = First(T.part)
  <2>1. KindOf(rs, o + 1, d) = First(T.part)
    BY <1>1, <1>3, <1>6, FirstKind
  <2>2. KindOf(rs, o + 1, Depth(rs, o) + 1) = PartOf(prog[o].op)
    BY <1>1, <1>5, <1>6, RoomOpened
  <2> QED BY <1>4, <1>6, <2>1, <2>2 DEF Opener
<1>8. rs[i + 1] = rs[T.open]
  BY <1>1, <1>2 DEF Ending, Tops
<1>9. Len(rs[T.open]) > 0
  BY <1>1, <1>5, AtToken DEF Follows
<1> QED BY <1>2, <1>5, <1>6, <1>7, <1>8, <1>9

\* The end of a loop's round.
LEMMA RoundOn ==
    ASSUME NEW ops, NEW cs, NEW rs, NEW N, NEW i, NEW t, NEW T, Acting(cs, rs, N, ops, i, t, T),
           t.op = "end", R!Doing.part = "while", R!Test(R!LeaveScope(R!World), R!Outer, R!Doing.at)
    PROVE  Runs(cs, rs, N)'
<1>1. /\ Complete(cs, rs, N, ops) /\ T = Inmost(rs[i]) /\ T \in RoomType /\ Accepted(cs[T.open], ops)
      /\ Tops(cs, rs, i, T, Len(rs[i]))
  BY DEF Acting
<1>2. /\ Ending(cs, rs, i, t) /\ T.open \in 1 .. N /\ prog[T.open].op \in R!Openers
      /\ PartOf(prog[T.open].op) = First(T.part)
  BY AtEnd
<1>3. PICK r, s, w : r = Quit(cs[i], T) /\ s = R!Outer /\ w = R!LeaveScope(R!World)
  OBVIOUS
<1>4. r.diags = {}
  BY <1>1, <1>2, <1>3 DEF Ending
<1>5. /\ Pictures(r, rs[T.open], w) /\ Stacked(s, rs[T.open]) /\ R!Doing = Act(T)
      /\ Resumes(cs[T.open], r) /\ Leaves(cs[i], r)
  BY <1>3, <1>4, QuitHere
<1>6. R!Doing.at = T.open /\ T.part = "while"
  BY <1>1, <1>5, ActOf
<1>7. prog[T.open].op = "while"
  BY <1>2, <1>6 DEF PartOf, First
<1>8. SameView(cs[T.open], r)
  <2>1. PICK bound : bound = T.bound
    OBVIOUS
  <2>2. Inner(cs[T.open], cs[i], bound, TRUE)
    BY <1>1, <1>6, <2>1 DEF Tops, Within
  <2> QED BY <1>1, <1>5, <2>2, LoopView
<1>9. Pictures(cs[T.open], rs[T.open], w)
  BY <1>5, <1>8, ViewPictures
<1> QED BY <1>1, <1>2, <1>3, <1>5, <1>6, <1>7, <1>9, TestOn

\* The end of a block or of a conditional.
LEMMA EndOn ==
    ASSUME NEW ops, NEW cs, NEW rs, NEW N, NEW i, NEW t, NEW T, Acting(cs, rs, N, ops, i, t, T),
           t.op = "end", R!Remember(R!LeaveScope(R!World)),
           R!Go(IF R!Doing.save = "normal" THEN ip + 1 ELSE ip, R!Outer, R!Doing.save)
    PROVE  Runs(cs, rs, N)'
<1>1. /\ Complete(cs, rs, N, ops) /\ T = Inmost(rs[i]) /\ T \in RoomType /\ i \in 1 .. N /\ i = ip
      /\ Tops(cs, rs, i, T, Len(rs[i]))
  BY DEF Acting
<1>2. Ending(cs, rs, i, t) /\ rs[i + 1] = rs[T.open] /\ Len(rs[T.open]) > 0
  BY AtEnd
<1>3. PICK r, s, w : r = Quit(cs[i], T) /\ s = R!Outer /\ w = R!LeaveScope(R!World)
  OBVIOUS
<1>4. r.diags = {}
  BY <1>1, <1>2, <1>3 DEF Ending
<1>5. /\ Pictures(r, rs[T.open], w) /\ Stacked(s, rs[T.open]) /\ R!Doing = Act(T)
      /\ Resumes(cs[T.open], r)
  BY <1>3, <1>4, QuitHere
<1>6. R!Doing.save = "normal"
  BY <1>1, <1>5, ActOf
<1>7. Pictures(cs[i + 1], rs[i + 1], w)
  <2>1. CASE T.part # "else"
    <3>1. cs[i + 1] = r
      BY <1>1, <1>2, <1>3, <2>1 DEF Ending
    <3> QED BY <1>2, <1>5, <3>1
  <2>2. CASE T.part = "else"
    <3>1. PICK d : d = Len(rs[i])
      OBVIOUS
    <3>2. Paces(cs, rs) /\ i \in Nat /\ \A m \in 0 .. i : Placed(cs, rs, m, ops)
      <4>1. 0 .. i \subseteq 0 .. i + 1
        BY <1>1
      <4> QED BY <1>1, <4>1, AtToken
    <3>3. PICK j, V : Left(cs, rs, i, T, j, V, d)
      BY <1>1, <1>2, <3>1, <3>2, LeftBy
    <3>4. cs[i + 1].diags = {} /\ Agree(cs[i + 1].tbl, r.tbl)
      BY <1>1, <1>2, <1>3, <2>2 DEF Ending
    <3>5. Resumes(cs[T.open], cs[i + 1])
      BY <1>1, <3>1, <3>2, <3>3, <3>4, LeftChanges
    <3>6. SameView(cs[i + 1], r)
      BY <1>5, <3>4, <3>5, AgreeView
    <3> QED BY <1>2, <1>5, <3>6, ViewPictures
  <2> QED BY <2>1, <2>2
<1> QED BY <1>1, <1>2, <1>3, <1>5, <1>6, <1>7, AfterOn

\* The end of the function.
LEMMA EofOn ==
    ASSUME NEW ops, NEW cs, NEW rs, NEW N, NEW i, NEW t, NEW T, Acting(cs, rs, N, ops, i, t, T),
           t.op = "eof", R!Remember(R!LeaveScope(R!World)), R!Go(i, R!Outer, "normal")
    PROVE  Ended'
<1>1. /\ Follows(cs, rs, i, t, ops) /\ T = Inmost(rs[i]) /\ Tops(cs, rs, i, T, Len(rs[i]))
  BY DEF Acting
<1>2. Finishing(cs, rs, i, t)
  BY <1>1 DEF Follows, Straightly, Opening, Elsewise, Ending, StraightWords
<1>3. PICK r, s, w : r = Quit(cs[i], T) /\ s = R!Outer /\ w = R!LeaveScope(R!World)
  OBVIOUS
<1>4. r.diags = {} /\ Len(rs[i]) = 1
  BY <1>1, <1>2, <1>3 DEF Finishing
<1>5. Pictures(r, rs[T.open], w) /\ Stacked(s, rs[T.open])
  BY <1>3, <1>4, QuitHere
<1>6. Len(rs[T.open]) = 0
  BY <1>1, <1>4 DEF Tops, Depth
<1>7. Len(s) = 0
  BY <1>5, <1>6 DEF Stacked
<1>8. w.faults = {}
  BY <1>5 DEF Pictures, Depicts, Scene
<1>9. stack' = s /\ faults' = w.faults
  BY <1>3 DEF R!Remember, R!Go
<1> QED BY <1>7, <1>8, <1>9 DEF Ended

\* A part comes to its end.
LEMMA FallOutOn ==
    ASSUME NEW ops, NEW cs, NEW rs, NEW N, NEW i, NEW t, NEW T, Acting(cs, rs, N, ops, i, t, T),
           R!FallOut
    PROVE  Runs(cs, rs, N)' \/ Ended'
<1>1. i = ip /\ t = prog[i] /\ t.op \in Written /\ R!Token = t
  BY DEF Acting, R!Token
<1>2. PICK w : w = R!LeaveScope(R!World)
  OBVIOUS
<1>3. t.op \notin {"case", "default", "catch", "finally"}
  BY <1>1 DEF Written, StraightWords
<1>4. \/ t.op = "else" /\ R!Remember(w) /\ R!Go(R!CloseOf(R!Doing.at) + 1, R!Outer, "normal")
      \/ t.op = "end" /\ R!Doing.part = "while" /\ R!Test(w, R!Outer, R!Doing.at)
      \/ /\ t.op = "end" /\ R!Remember(w)
         /\ R!Go(IF R!Doing.save = "normal" THEN ip + 1 ELSE ip, R!Outer, R!Doing.save)
      \/ t.op = "eof" /\ R!Remember(w) /\ R!Go(i, R!Outer, "normal")
  BY <1>1, <1>2, <1>3 DEF R!FallOut
<1> QED BY <1>2, <1>4, BranchOn, RoundOn, EndOn, EofOn

\* A return, or a throw, leaves a construct.
LEMMA UnwindOn ==
    ASSUME Unwinds, R!Running, R!Unwind PROVE Unwinds'
<1>1. /\ comp \in {"return", "throw"} /\ stack \in Seq(Doings) /\ Len(env) = Len(stack)
      /\ Quiet(env, heap) /\ faults = {}
  BY DEF Unwinds
<1>2. PICK n : n = Len(stack)
  OBVIOUS
<1>3. n \in Nat /\ n > 0 /\ n \in 1 .. n
  BY <1>1, <1>2, LenProperties DEF R!Running
<1>4. R!Doing \in Doings
  BY <1>1, <1>2, <1>3, ElementOfSeq DEF R!Doing
<1>5. PICK w, x : w = R!World /\ x = R!LeaveScope(w)
  OBVIOUS
<1>6. R!Remember(x) /\ R!Go(ip, R!Outer, comp)
  <2>1. R!Doing.part \notin {"try", "catch", "clause"}
    BY <1>4 DEF Doings
  <2> QED BY <1>1, <1>5, <2>1 DEF R!Unwind
<1>7. Sound(w, env, heap)
  BY <1>1, <1>5 DEF Sound, R!World
<1>8. PICK d : Sound(x, d, heap) /\ Quiet(d, heap) /\ Len(d) = Len(env) - 1
  BY <1>1, <1>2, <1>3, <1>5, <1>7, QuietLeave
<1>9. PICK s : s = R!Outer
  OBVIOUS
<1>10. s \in Seq(Doings) /\ Len(s) = Len(stack) - 1
  <2>1. s = SubSeq(stack, 1, Len(stack) - 1) /\ Len(stack) > 0
    BY <1>2, <1>3, <1>9 DEF R!Outer
  <2> QED BY <1>1, <2>1, Shorter
<1>11. x.env = d /\ x.heap = heap /\ x.faults = {}
  BY <1>8 DEF Sound
<1>12. env' = d /\ heap' = heap /\ faults' = {} /\ stack' = s /\ comp' = comp
  BY <1>6, <1>9, <1>11 DEF R!Remember, R!Go
<1> QED BY <1>1, <1>8, <1>10, <1>12 DEF Unwinds

\* It runs beside the walk of its checker.
Accompanied ==
    \E cs, rs, N : Complete(cs, rs, N, fragment.ops) /\ Runs(cs, rs, N)

\* The program has not begun, has ended, or was accepted and runs.
ExecInv ==
    Structured => \/ Ended
                  \/ frames = <<>> /\ chk.diags = {} /\ (Unwinds \/ Accompanied)

\* Nothing is owed before the first declaration.
LEMMA NothingYet ==
    \E w : Pictures(Empty, <<>>, w) /\ Sound(w, <<>>, <<>>)
<1>1. PICK f : f = [n \in Names |-> [st |-> "plain", val |-> 0]]
  OBVIOUS
<1>2. f \in [Names -> Slots]
  BY <1>1 DEF Slots
<1>3. PICK q, h : q = <<>> /\ h = <<>>
  OBVIOUS
<1>4. q \in Seq(RoomType) /\ h \in Seq(Values) /\ Len(q) = 0
  BY <1>3, EmptySeq
<1>5. Seen(q) = {} /\ Apart(q)
  BY <1>4 DEF Seen, Apart
<1>6. Shown(q, f)
  BY <1>2, <1>4, <1>5 DEF Shown
<1>7. Stands(Empty, {}, f, h)
  BY <1>2, <1>4, EmptyAccepted DEF Stands
<1>8. PICK w : w = Scene(q, f, h)
  OBVIOUS
<1>9. Depicts(Empty, q, f, h, w)
  BY <1>5, <1>6, <1>7, <1>8 DEF Depicts
<1>10. Picture(q, f) = <<>>
  <2>1. PICK e, d : e = Picture(q, f) /\ d = <<>>
    OBVIOUS
  <2>2. Pictured(q, f, e)
    BY <1>2, <1>4, <2>1, PictureScopes
  <2>3. e \in Seq([Names -> Slots]) /\ Len(e) = 0
    BY <1>4, <2>2 DEF Pictured
  <2>4. d \in Seq([Names -> Slots]) /\ Len(d) = 0
    BY <2>1, EmptySeq
  <2>5. d = e
    BY <2>3, <2>4, SameScopes
  <2> QED BY <2>1, <2>5
<1>11. Sound(w, <<>>, <<>>)
  BY <1>3, <1>8, <1>10 DEF Sound, Scene
<1>12. Pictures(Empty, q, w)
  BY <1>9 DEF Pictures
<1> QED BY <1>3, <1>11, <1>12

\* The program starts where the checker did.
LEMMA StartOn ==
    ASSUME NEW ops, NEW cs, NEW rs, NEW N, Complete(cs, rs, N, ops), R!Start
    PROVE  Runs(cs, rs, N)'
<1>1. PICK U, b : U = Room("body", 0, 0, {}) /\ b = R!Activity("body", 0, "normal")
  OBVIOUS
<1>2. U \in RoomType /\ U.bound = {} /\ U.part = "body" /\ U.open = 0
  BY <1>1, RoomFields
<1>3. cs[1] = PushScope(Empty) /\ rs[1] = <<U>> /\ N \in Nat /\ Depth(rs, N + 1) = 0
  BY <1>1 DEF Complete, Walk
<1>4. PICK q, s : q = <<>> /\ s = <<>>
  OBVIOUS
<1>5. rs[1] = Append(q, U) /\ Len(rs[1]) = 1
  BY <1>3, <1>4
<1>6. 1 \in 1 .. N
  <2>1. N # 0
    BY <1>3, <1>5 DEF Depth
  <2> QED BY <1>3, <2>1
<1>7. PICK w : Pictures(Empty, q, w) /\ Sound(w, <<>>, <<>>)
  BY <1>4, NothingYet
<1>8. cs[1].tbl = Empty.tbl
  <2>1. cs[1] = Entered(Empty, U)
    BY <1>2, <1>3 DEF Entered, Opened
  <2> QED BY <1>2, <2>1, EmptyAccepted, EnteredWithin
<1>9. PICK x : x = R!EnterScope(w)
  OBVIOUS
<1>10. Pictures(cs[1], rs[1], x)
  BY <1>2, <1>5, <1>7, <1>8, <1>9, EnterPictures
<1>11. PICK o, d : o = R!NoNames /\ d = Append(<<>>, o)
  OBVIOUS
<1>12. Sound(x, d, <<>>)
  BY <1>7, <1>9, <1>11, EnterWorld
<1>13. x.env = <<R!NoNames>> /\ x.heap = <<>> /\ x.faults = {}
  BY <1>11, <1>12 DEF Sound
<1>14. R!Remember(x)
  BY <1>13 DEF R!Start, R!Remember
<1>15. Stacked(s, q)
  BY <1>4, EmptySeq DEF Stacked
<1>16. PICK z : z = Append(s, b)
  OBVIOUS
<1>17. b = Act(U)
  BY <1>1, <1>2 DEF Act
<1>18. Stacked(z, rs[1])
  BY <1>2, <1>5, <1>15, <1>16, <1>17, StackedEnter
<1>19. R!Go(1, z, "normal")
  BY <1>1, <1>4, <1>16 DEF R!Start, R!Go
<1> QED BY <1>6, <1>10, <1>14, <1>18, <1>19, GoTo

\* Every step of a running program.
LEMMA RunOn ==
    ASSUME NEW ops, NEW cs, NEW rs, NEW N, Complete(cs, rs, N, ops), Runs(cs, rs, N), R!Execute
    PROVE  Runs(cs, rs, N)' \/ Unwinds' \/ Ended'
<1>1. PICK i, t, T : Acting(cs, rs, N, ops, i, t, T)
  BY ActingAt
<1>2. R!Statement \/ R!ShortCircuit \/ R!Jump \/ R!Choose \/ R!FallOut
  BY DEF R!Execute, Runs
<1> QED BY <1>1, <1>2, StatementOn, AndOn, JumpOn, ChooseOn, FallOutOn

\* Nothing has gone wrong in it.
LEMMA NoFault ==
    ASSUME Structured, ExecInv PROVE faults = {}
<1>1. CASE Ended
  BY <1>1 DEF Ended
<1>2. CASE Unwinds
  BY <1>2 DEF Unwinds
<1>3. ASSUME NEW cs, NEW rs, NEW N, Runs(cs, rs, N) PROVE faults = {}
  <2>1. R!World.faults = {}
    BY <1>3 DEF Runs, Pictures, Depicts, Scene
  <2> QED BY <2>1 DEF R!World
<1> QED BY <1>1, <1>2, <1>3 DEF ExecInv, Accompanied

\* A program is read before it runs.
LEMMA StillAccompanied ==
    ASSUME prog' = prog, fragment' = fragment, NEW cs, NEW rs, NEW N,
           Complete(cs, rs, N, fragment.ops), Runs(cs, rs, N)'
    PROVE  Accompanied'
<1>1. PICK ops : ops = fragment.ops
  OBVIOUS
<1>2. Complete(cs, rs, N, ops)'
  BY <1>1 DEF Complete
<1> QED BY <1>1, <1>2 DEF Accompanied

\* Before the program starts.
LEMMA ExecInit == Init => ExecInv
<1> SUFFICES ASSUME Init PROVE Ended
  BY DEF ExecInv
<1>1. Len(stack) = 0
  BY EmptySeq DEF Init
<1> QED BY <1>1 DEF Init, Ended

\* The checker's steps, the start and the steps of the program preserve it.
LEMMA ExecNext == TraceInv /\ ExecInv /\ [Next]_vars => ExecInv'
<1> SUFFICES ASSUME TraceInv, ExecInv, [Next]_vars, Structured'
             PROVE  Ended' \/ (frames' = <<>> /\ chk'.diags = {} /\ (Unwinds' \/ Accompanied'))
  BY DEF ExecInv
<1>1. fragment' = fragment /\ Structured
  <2>1. fragment' = fragment
    BY DEF Next, Checking, Starting, Executing, Check, vars, cvars
  <2> QED BY <2>1 DEF Structured
<1>2. CASE Checking
  <2>1. Len(frames) > 0 /\ UNCHANGED rvars
    BY <1>2 DEF Checking, Check, Here
  <2>2. frames # <<>>
    BY <2>1, EmptySeq
  <2>3. Ended
    BY <1>1, <2>2 DEF ExecInv
  <2> QED BY <2>1, <2>3 DEF Ended, rvars
<1>3. CASE Starting
  <2>1. frames = <<>> /\ chk.diags = {} /\ R!Start /\ UNCHANGED cvars
    BY <1>3 DEF Starting
  <2>2. PICK cs, rs : Traced(cs, rs, prog, fragment.ops, chk, frames)
    BY <1>1, <2>1 DEF TraceInv
  <2>3. PICK N : N = Len(prog)
    OBVIOUS
  <2>4. Walk(cs, rs, prog, fragment.ops) /\ Len(frames) = Len(rs[N + 1])
    BY <2>2, <2>3 DEF Traced, Mirrors
  <2>5. N \in Nat /\ Len(rs[N + 1]) = 0
    BY <2>1, <2>3, <2>4, EmptySeq, LenProperties DEF CheckInv
  <2>6. Complete(cs, rs, N, fragment.ops)
    BY <2>3, <2>4, <2>5 DEF Complete, Depth
  <2>7. Runs(cs, rs, N)'
    BY <2>1, <2>6, StartOn
  <2>8. Accompanied'
    BY <2>1, <2>6, <2>7, StillAccompanied DEF cvars
  <2> QED BY <2>1, <2>8 DEF cvars
<1>4. CASE Executing
  <2>1. R!Execute /\ UNCHANGED cvars /\ Len(stack) > 0
    BY <1>4 DEF Executing, R!Execute, R!Running
  <2>2. frames' = frames /\ chk' = chk /\ prog' = prog
    BY <2>1 DEF cvars
  <2>3. ~Ended
    BY <2>1 DEF Ended
  <2>4. CASE Unwinds
    <3>1. R!Running /\ R!Unwind
      BY <2>1, <2>4 DEF R!Execute, Unwinds
    <3> QED BY <1>1, <2>2, <2>3, <2>4, <3>1, UnwindOn DEF ExecInv
  <2>5. CASE ~Unwinds
    <3>1. PICK cs, rs, N : Complete(cs, rs, N, fragment.ops) /\ Runs(cs, rs, N)
      BY <1>1, <2>3, <2>5 DEF ExecInv, Accompanied
    <3>2. Runs(cs, rs, N)' \/ Unwinds' \/ Ended'
      BY <2>1, <3>1, RunOn
    <3>3. Runs(cs, rs, N)' => Accompanied'
      BY <1>1, <2>2, <3>1, StillAccompanied
    <3>4. frames = <<>> /\ chk.diags = {}
      BY <1>1, <2>3 DEF ExecInv
    <3> QED BY <2>2, <3>2, <3>3, <3>4
  <2> QED BY <2>4, <2>5
<1>5. CASE UNCHANGED vars
  <2>1. UNCHANGED <<ip, env, heap, stack, comp, faults, frames, chk, prog, fragment>>
    BY <1>5 DEF vars, cvars, rvars
  <2>2. CASE Ended
    BY <2>1, <2>2 DEF Ended
  <2>3. CASE Unwinds
    <3>1. Unwinds'
      BY <2>1, <2>3 DEF Unwinds
    <3> QED BY <1>1, <2>1, <2>2, <3>1 DEF ExecInv
  <2>4. CASE Accompanied
    <3>1. PICK cs, rs, N : Complete(cs, rs, N, fragment.ops) /\ Runs(cs, rs, N)
      BY <2>4 DEF Accompanied
    <3>2. R!World' = R!World
      BY <2>1 DEF R!World
    <3>3. Runs(cs, rs, N)'
      BY <2>1, <3>1, <3>2 DEF Runs
    <3>4. Accompanied'
      BY <2>1, <3>1, <3>3, StillAccompanied
    <3> QED BY <1>1, <2>1, <2>2, <3>4 DEF ExecInv
  <2> QED BY <1>1, <2>2, <2>3, <2>4 DEF ExecInv
<1> QED BY <1>2, <1>3, <1>4, <1>5 DEF Next

\* The inductive invariant of the checked and the running program.
LEMMA ExecAlways == Spec => []ExecInv
BY ExecInit, ExecNext, TraceAlways, PTL DEF Spec

\* An accepted structured program consumes every unique value on every path:
\* check.rs reports each value it would leave owned (ConsumedOnEveryPath; no
\* such program has a switch, and none leaks).
THEOREM AcceptedConsumes == Spec => [](Structured => ConsumedOnEveryPath /\ NoLeak)
<1>1. ExecInv => (Structured => ConsumedOnEveryPath /\ NoLeak)
  BY NoFault DEF ConsumedOnEveryPath, NoLeak
<1> QED BY <1>1, ExecAlways, PTL

\* It never touches a value that was moved away (NoUseAfterMove).
THEOREM AcceptedKeepsMoves == Spec => [](Structured => NoUseAfterMove)
<1>1. ExecInv => (Structured => NoUseAfterMove)
  BY NoFault DEF NoUseAfterMove
<1> QED BY <1>1, ExecAlways, PTL

\* Its borrows neither give the value away nor outlive it (BorrowsAreSafe).
THEOREM AcceptedBorrows == Spec => [](Structured => BorrowsAreSafe)
<1>1. ExecInv => (Structured => BorrowsAreSafe)
  BY NoFault DEF BorrowsAreSafe
<1> QED BY <1>1, ExecAlways, PTL

=============================================================================
