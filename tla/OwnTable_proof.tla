--------------------------- MODULE OwnTable_proof ---------------------------
(***************************************************************************)
(* What the operations of OwnTable do to a well-typed checker state: which *)
(* rows, bindings, marks and depths they leave alone, how they keep the    *)
(* book of loans (each owner's counters against its aliases) and what they *)
(* do along owner links, for every set of names.  The loops of the code    *)
(* (pop_scope, check_expr) are recursive functions over an interval of     *)
(* naturals; PopRounds and ExprRounds unfold them, and the induction over  *)
(* rounds is by the least round that fails.                                *)
(***************************************************************************)
EXTENDS OwnTable, TLAPS, WellFoundedInduction, SequenceTheorems, FiniteSetTheorems

\* A non-empty set of naturals has a least element: the induction on the
\* rounds of a loop below rests on it.
LEMMA Least ==
    ASSUME NEW T, T \subseteq Nat, T # {}
    PROVE  \E m \in T : \A k \in T : m <= k
<1> DEFINE Before == {ss \in Nat \X Nat : ss[1] < ss[2]}
<1>1. IsWellFoundedOn(Before, Nat)
  BY NatLessThanWellFounded DEF OpToRel
<1>2. PICK m \in T : \A k \in T : ~(<<k, m>> \in Before)
  <2> HIDE DEF Before
  <2> QED BY <1>1, WFMin
<1>3. ASSUME NEW k \in T PROVE m <= k
  <2>1. ~ (<<k, m>> \in Before)
    BY <1>2
  <2>2. k \in Nat /\ m \in Nat
    OBVIOUS
  <2>3. ~ (k < m)
    BY <2>1, <2>2
  <2> QED BY <2>2, <2>3
<1>4. QED BY <1>3

\* The loop of pop_scope, round by round: Popped(s, k) is the last of k + 1
\* states, the first being s and each next one PopBinding of the one before.
LEMMA PopRounds ==
    ASSUME NEW s, NEW k \in Nat
    PROVE  \E pop : /\ pop = [i \in 0 .. k |-> IF i = 0 THEN s ELSE PopBinding(pop[i - 1])]
                    /\ Popped(s, k) = pop[k]
<1> DEFINE Rounds(g, m) == g = [i \in 0 .. m |-> IF i = 0 THEN s ELSE PopBinding(g[i - 1])]
           T == {m \in Nat : ~ \E g : Rounds(g, m)}
<1>1. T = {}
  <2>1. SUFFICES ASSUME T # {} PROVE FALSE
    OBVIOUS
  <2>2. PICK m \in T : \A n \in T : m <= n
    <3>1. T \subseteq Nat
      OBVIOUS
    <3> QED BY <3>1, <2>1, Least
  <2>3. CASE m = 0
    <3> DEFINE g == [i \in 0 .. 0 |-> s]
    <3>1. g = [i \in 0 .. 0 |-> IF i = 0 THEN s ELSE PopBinding(g[i - 1])]
      OBVIOUS
    <3> QED BY <3>1, <2>2, <2>3
  <2>4. CASE m # 0
    <3>1. m - 1 \in Nat /\ m \in Nat /\ m - 1 \notin T
      BY <2>2, <2>4
    <3>2. PICK g : Rounds(g, m - 1)
      BY <3>1
    <3> DEFINE h == [i \in 0 .. m |-> IF i = m THEN PopBinding(g[m - 1]) ELSE g[i]]
    <3>3. ASSUME NEW i \in 0 .. m
          PROVE  h[i] = IF i = 0 THEN s ELSE PopBinding(h[i - 1])
      BY <3>1, <3>2, <2>4
    <3>4. h = [i \in 0 .. m |-> IF i = 0 THEN s ELSE PopBinding(h[i - 1])]
      BY <3>3
    <3> QED BY <3>4, <2>2
  <2> QED BY <2>3, <2>4
<1>2. \E g : Rounds(g, k)
  BY <1>1
<1> DEFINE pop == CHOOSE g : Rounds(g, k)
<1>3. Rounds(pop, k)
  BY <1>2
<1>4. Popped(s, k) = pop[k]
  BY DEF Popped
<1> QED BY <1>3, <1>4

-----------------------------------------------------------------------------
\* An operation that opens no binding and closes none, and changes nothing of
\* a row but its state, and that only to consumed.
Keeps(s, r) ==
    /\ r \in Checker
    /\ r.bindings = s.bindings /\ r.marks = s.marks /\ r.depth = s.depth
    /\ \A n \in Names :
        /\ r.tbl[n] = [s.tbl[n] EXCEPT !.state = r.tbl[n].state]
        /\ r.tbl[n].state \in {s.tbl[n].state, "Consumed"}

\* The columns of a row of a well-typed table.
LEMMA RowFields ==
    ASSUME NEW s \in Checker, NEW n \in Names
    PROVE  /\ s.tbl[n] \in VarEntry
           /\ s.tbl[n].kind \in OwnKind \cup {"None"} /\ s.tbl[n].state \in VarState
           /\ s.tbl[n].loop_depth \in Nat /\ s.tbl[n].owner \in Names \cup {NoName}
           /\ s.tbl[n].read_borrows \in Nat /\ s.tbl[n].write_borrows \in Nat
BY DEF Checker, VarEntry

\* Doing nothing keeps the bindings and the rows.
LEMMA KeepsItself == ASSUME NEW s \in Checker PROVE Keeps(s, s)
BY RowFields DEF Keeps, VarEntry

\* Two operations that keep them, one after the other, keep them.
LEMMA KeepsTwice ==
    ASSUME NEW s \in Checker, NEW r, NEW q, Keeps(s, r), Keeps(r, q)
    PROVE  Keeps(s, q)
<1>1. ASSUME NEW n \in Names
      PROVE  /\ q.tbl[n] = [s.tbl[n] EXCEPT !.state = q.tbl[n].state]
             /\ q.tbl[n].state \in {s.tbl[n].state, "Consumed"}
  <2>1. s.tbl[n] \in VarEntry
    BY RowFields
  <2>2. /\ r.tbl[n] = [s.tbl[n] EXCEPT !.state = r.tbl[n].state]
        /\ q.tbl[n] = [r.tbl[n] EXCEPT !.state = q.tbl[n].state]
        /\ r.tbl[n].state \in {s.tbl[n].state, "Consumed"}
        /\ q.tbl[n].state \in {r.tbl[n].state, "Consumed"}
    BY DEF Keeps
  <2>3. \A e \in VarEntry : \A x, y :
            [[e EXCEPT !.state = x] EXCEPT !.state = y] = [e EXCEPT !.state = y]
    BY DEF VarEntry
  <2> QED BY <2>1, <2>2, <2>3
<1> QED BY <1>1 DEF Keeps

\* Reporting a rule changes no row.
LEMMA EmitKeeps ==
    ASSUME NEW s \in Checker, NEW rule \in RuleKind
    PROVE  Keeps(s, Emit(s, rule))
<1>1. Emit(s, rule) \in Checker /\ Emit(s, rule).tbl = s.tbl
  BY DEF Emit, Checker
<1>2. Emit(s, rule).bindings = s.bindings /\ Emit(s, rule).marks = s.marks
      /\ Emit(s, rule).depth = s.depth
  BY DEF Emit, Checker
<1>3. \A n \in Names : s.tbl[n] = [s.tbl[n] EXCEPT !.state = s.tbl[n].state]
  BY RowFields DEF VarEntry
<1> QED BY <1>1, <1>2, <1>3 DEF Keeps

\* Consuming a name changes only the state of its row.
LEMMA SpendKeeps ==
    ASSUME NEW s \in Checker, NEW n \in Names
    PROVE  Keeps(s, [s EXCEPT !.tbl[n].state = "Consumed"])
<1> DEFINE r == [s EXCEPT !.tbl[n].state = "Consumed"]
<1>1. s.tbl[n] \in VarEntry /\ s.tbl \in [Names -> VarEntry]
  BY RowFields DEF Checker
<1>2. r.tbl = [s.tbl EXCEPT ![n] = [s.tbl[n] EXCEPT !.state = "Consumed"]]
  BY DEF Checker
<1>3. [s.tbl[n] EXCEPT !.state = "Consumed"] \in VarEntry
  BY <1>1 DEF VarEntry, VarState
<1>4. r \in Checker /\ r.bindings = s.bindings /\ r.marks = s.marks /\ r.depth = s.depth
  BY <1>1, <1>2, <1>3 DEF Checker
<1>5. ASSUME NEW m \in Names
      PROVE  /\ r.tbl[m] = [s.tbl[m] EXCEPT !.state = r.tbl[m].state]
             /\ r.tbl[m].state \in {s.tbl[m].state, "Consumed"}
  <2>1. s.tbl[m] \in VarEntry
    BY RowFields
  <2>2. r.tbl[m] = IF m = n THEN [s.tbl[n] EXCEPT !.state = "Consumed"] ELSE s.tbl[m]
    BY <1>1, <1>2
  <2> HIDE DEF r
  <2> QED BY <2>1, <2>2 DEF VarEntry
<1> QED BY <1>4, <1>5 DEF Keeps

\* consume_once consumes the name or reports ConsumeInLoop.
LEMMA ConsumeOnceKeeps ==
    ASSUME NEW s \in Checker, NEW n \in Names
    PROVE  Keeps(s, ConsumeOnce(s, n))
BY EmitKeeps, SpendKeeps DEF ConsumeOnce, RuleKind

\* Every entry of the decision table is a rule, "consume" or "ok".
LEMMA DecideRule ==
    ASSUME NEW state \in VarState, NEW a
    PROVE  Decide(state, a) \in RuleKind \cup {"ok", "consume"}
<1> DEFINE c == Part(a.consumed)
           w == Part(a.write)
<1>1. c \in {"Zero", "One", "More"} /\ w \in {"Zero", "One", "More"}
  BY DEF Part
<1> QED BY <1>1 DEF Decide, VarState, RuleKind

\* A use of an owning name keeps the bindings and the rows.
LEMMA ApplyOwnedKeeps ==
    ASSUME NEW s \in Checker, NEW n \in Names, NEW a
    PROVE  Keeps(s, ApplyOwned(s, n, a))
<1>1. Decide(s.tbl[n].state, a) \in RuleKind \cup {"ok", "consume"}
  BY RowFields, DecideRule
<1> QED BY <1>1, KeepsItself, ConsumeOnceKeeps, EmitKeeps DEF ApplyOwned

\* apply_apps, on an owner, a borrow or an unknown name, keeps them.
LEMMA ApplyAppsKeeps ==
    ASSUME NEW s \in Checker, NEW n, NEW a
    PROVE  Keeps(s, ApplyApps(s, n, a))
BY KeepsItself, ApplyOwnedKeeps DEF ApplyApps, Tracked

\* check_expr, name by name: a state per position of the order.
LEMMA ExprRounds ==
    ASSUME NEW s, NEW f, NEW order, Len(order) \in Nat
    PROVE  \E after :
             /\ after = [i \in 0 .. Len(order) |->
                            IF i = 0 THEN s ELSE ApplyApps(after[i - 1], order[i], f[order[i]])]
             /\ CheckExpr(s, f, order) = after[Len(order)]
<1> DEFINE Rounds(g, m) == g = [i \in 0 .. m |->
                                 IF i = 0 THEN s ELSE ApplyApps(g[i - 1], order[i], f[order[i]])]
           T == {m \in Nat : ~ \E g : Rounds(g, m)}
<1>1. T = {}
  <2>1. SUFFICES ASSUME T # {} PROVE FALSE
    OBVIOUS
  <2>2. PICK m \in T : \A n \in T : m <= n
    <3>1. T \subseteq Nat
      OBVIOUS
    <3> QED BY <3>1, <2>1, Least
  <2>3. CASE m = 0
    <3> DEFINE g == [i \in 0 .. 0 |-> s]
    <3>1. g = [i \in 0 .. 0 |-> IF i = 0 THEN s ELSE ApplyApps(g[i - 1], order[i], f[order[i]])]
      OBVIOUS
    <3> QED BY <3>1, <2>2, <2>3
  <2>4. CASE m # 0
    <3>1. m - 1 \in Nat /\ m \in Nat /\ m - 1 \notin T
      BY <2>2, <2>4
    <3>2. PICK g : Rounds(g, m - 1)
      BY <3>1
    <3> DEFINE h == [i \in 0 .. m |-> IF i = m THEN ApplyApps(g[m - 1], order[m], f[order[m]])
                                      ELSE g[i]]
    <3>3. ASSUME NEW i \in 0 .. m
          PROVE  h[i] = IF i = 0 THEN s ELSE ApplyApps(h[i - 1], order[i], f[order[i]])
      BY <3>1, <3>2, <2>4
    <3>4. h = [i \in 0 .. m |-> IF i = 0 THEN s ELSE ApplyApps(h[i - 1], order[i], f[order[i]])]
      BY <3>3
    <3> QED BY <3>4, <2>2
  <2> QED BY <2>3, <2>4
<1> DEFINE after == CHOOSE g : Rounds(g, Len(order))
<1>2. Rounds(after, Len(order))
  BY <1>1
<1>3. CheckExpr(s, f, order) = after[Len(order)]
  BY DEF CheckExpr
<1> QED BY <1>2, <1>3

\* check_expr keeps the bindings and the rows, whatever the order.
LEMMA CheckExprKeeps ==
    ASSUME NEW s \in Checker, NEW f, NEW order, Len(order) \in Nat
    PROVE  Keeps(s, CheckExpr(s, f, order))
<1>1. PICK after :
        /\ after = [i \in 0 .. Len(order) |->
                       IF i = 0 THEN s ELSE ApplyApps(after[i - 1], order[i], f[order[i]])]
        /\ CheckExpr(s, f, order) = after[Len(order)]
  BY ExprRounds
<1> DEFINE T == {i \in 0 .. Len(order) : ~ Keeps(s, after[i])}
<1>2. SUFFICES ASSUME T # {} PROVE FALSE
  <2>1. Len(order) \in 0 .. Len(order)
    OBVIOUS
  <2>2. T = {} => Keeps(s, after[Len(order)])
    BY <2>1
  <2> QED BY <1>1, <2>2
<1>3. PICK m \in T : \A n \in T : m <= n
  <2>1. T \subseteq Nat
    OBVIOUS
  <2> QED BY <2>1, <1>2, Least
<1>4. m # 0
  <2>1. after[0] = s
    BY <1>1
  <2> QED BY <2>1, KeepsItself
<1>5. Keeps(s, after[m - 1])
  <2>1. m - 1 \in 0 .. Len(order) /\ m - 1 \notin T
    BY <1>3, <1>4
  <2> QED BY <2>1
<1>6. after[m] = ApplyApps(after[m - 1], order[m], f[order[m]])
  BY <1>1, <1>4
<1>7. Keeps(s, after[m])
  <2>1. after[m - 1] \in Checker
    BY <1>5 DEF Keeps
  <2>2. Keeps(after[m - 1], after[m])
    BY <2>1, <1>6, ApplyAppsKeeps
  <2> QED BY <2>2, <1>5, KeepsTwice
<1> QED BY <1>7, <1>3

\* A return's argument is a move or an escape: no row changes kind or owner.
LEMMA ReturnArgumentKeeps ==
    ASSUME NEW s \in Checker, NEW n \in Names
    PROVE  Keeps(s, ReturnArgument(s, n))
<1> DEFINE q == IF s.tbl[n].kind \in Refs THEN Emit(s, "BorrowEscape") ELSE s
<1>1. Keeps(s, q)
  BY EmitKeeps, KeepsItself DEF RuleKind
<1>2. ReturnArgument(s, n) = ApplyApps(q, n, Move)
  BY DEF ReturnArgument, MoveOut
<1> HIDE DEF q
<1>3. Keeps(q, ApplyApps(q, n, Move))
  BY <1>1, ApplyAppsKeeps DEF Keeps
<1> QED BY <1>1, <1>2, <1>3, KeepsTwice

\* require_consumed_uniques only marks rows consumed.
LEMMA RequireConsumedKeeps ==
    ASSUME NEW s \in Checker
    PROVE  Keeps(s, RequireConsumed(s))
<1> DEFINE r == RequireConsumed(s)
           row(n) == IF n \in Forgotten(s) THEN [s.tbl[n] EXCEPT !.state = "Consumed"] ELSE s.tbl[n]
<1>1. r.tbl = [n \in Names |-> row(n)]
  BY DEF RequireConsumed, Checker
<1>2. ASSUME NEW n \in Names
      PROVE  /\ row(n) \in VarEntry
             /\ row(n) = [s.tbl[n] EXCEPT !.state = row(n).state]
             /\ row(n).state \in {s.tbl[n].state, "Consumed"}
  <2>1. s.tbl[n] \in VarEntry
    BY RowFields
  <2> QED BY <2>1 DEF VarEntry, VarState
<1>3. r.bindings = s.bindings /\ r.marks = s.marks /\ r.depth = s.depth
  BY DEF RequireConsumed, Checker
<1>4. r \in Checker
  <2>1. r.tbl \in [Names -> VarEntry]
    BY <1>1, <1>2
  <2>2. r.diags \subseteq RuleKind
    BY DEF RequireConsumed, Checker, RuleKind
  <2>3. r = [s EXCEPT !.tbl = r.tbl, !.diags = r.diags]
    BY DEF RequireConsumed, Checker
  <2> HIDE DEF r
  <2> QED BY <2>1, <2>2, <2>3 DEF Checker
<1>5. \A n \in Names : r.tbl[n] = row(n)
  BY <1>1
<1>6. Keeps(s, r)
  <2>1. ASSUME NEW n \in Names
        PROVE  /\ r.tbl[n] = [s.tbl[n] EXCEPT !.state = r.tbl[n].state]
               /\ r.tbl[n].state \in {s.tbl[n].state, "Consumed"}
    <3>1. r.tbl[n] = row(n)
      BY <1>5
    <3> HIDE DEF r, row
    <3> QED BY <3>1, <1>2
  <2> HIDE DEF r, row
  <2> QED BY <2>1, <1>3, <1>4 DEF Keeps
<1> QED BY <1>6

-----------------------------------------------------------------------------
\* A new row is a row.
LEMMA FreshRow ==
    ASSUME NEW kind \in OwnKind \cup {"None"}, NEW d \in Nat, NEW o \in Names \cup {NoName}
    PROVE  Fresh(kind, d, o) \in VarEntry
BY DEF Fresh, VarEntry, VarState

\* The absent row has the columns of a row.
LEMMA NoRow == NoEntry \in VarEntry
BY DEF NoEntry, VarEntry, VarState

\* Replacing one row of the table touches nothing else.
LEMMA SetRow ==
    ASSUME NEW s \in Checker, NEW n \in Names, NEW e \in VarEntry
    PROVE  LET r == [s EXCEPT !.tbl[n] = e]
           IN  /\ r \in Checker
               /\ r.tbl = [s.tbl EXCEPT ![n] = e]
               /\ \A m \in Names : r.tbl[m] = IF m = n THEN e ELSE s.tbl[m]
               /\ r.bindings = s.bindings /\ r.marks = s.marks
               /\ r.depth = s.depth /\ r.diags = s.diags
BY DEF Checker

\* add_var keeps the checker's types and adds one binding.
LEMMA AddVarFrame ==
    ASSUME NEW s \in Checker, NEW n \in Names, NEW e \in VarEntry
    PROVE  /\ AddVar(s, n, e) \in Checker
           /\ Len(AddVar(s, n, e).bindings) = Len(s.bindings) + 1
           /\ AddVar(s, n, e).marks = s.marks /\ AddVar(s, n, e).depth = s.depth
<1> DEFINE b == [name |-> n, shadowed |-> s.tbl[n]]
           r == AddVar(s, n, e)
<1>1. b \in ScopeBinding /\ s.bindings \in Seq(ScopeBinding)
  BY RowFields DEF ScopeBinding, Checker
<1>2. Append(s.bindings, b) \in Seq(ScopeBinding)
      /\ Len(Append(s.bindings, b)) = Len(s.bindings) + 1
  BY <1>1, AppendProperties
<1>3. r.tbl = [s.tbl EXCEPT ![n] = e] /\ r.bindings = Append(s.bindings, b)
      /\ r.marks = s.marks /\ r.depth = s.depth /\ r.diags = s.diags
  BY DEF AddVar, Checker
<1>4. r = [s EXCEPT !.tbl = r.tbl, !.bindings = r.bindings]
  BY DEF AddVar, Checker
<1>5. [s.tbl EXCEPT ![n] = e] \in [Names -> VarEntry]
  BY DEF Checker
<1>6. r \in Checker
  <2> HIDE DEF r, b
  <2> QED BY <1>2, <1>3, <1>4, <1>5 DEF Checker
<1>7. Len(r.bindings) = Len(s.bindings) + 1
  <2> HIDE DEF r, b
  <2> QED BY <1>2, <1>3
<1> QED BY <1>3, <1>6, <1>7

\* add_var replaces the row and appends one binding that keeps the old row.
LEMMA AddVarAppends ==
    ASSUME NEW s \in Checker, NEW n \in Names, NEW e \in VarEntry
    PROVE  LET r == AddVar(s, n, e)
           IN  /\ r \in Checker
               /\ \A m \in Names : r.tbl[m] = IF m = n THEN e ELSE s.tbl[m]
               /\ r.bindings = Append(s.bindings, [name |-> n, shadowed |-> s.tbl[n]])
               /\ Len(r.bindings) = Len(s.bindings) + 1
               /\ r.marks = s.marks /\ r.depth = s.depth
<1> DEFINE r == AddVar(s, n, e)
<1>1. r.tbl = [s.tbl EXCEPT ![n] = e]
      /\ r.bindings = Append(s.bindings, [name |-> n, shadowed |-> s.tbl[n]])
  BY DEF AddVar, Checker
<1>2. \A m \in Names : r.tbl[m] = IF m = n THEN e ELSE s.tbl[m]
  BY <1>1 DEF Checker
<1> QED BY <1>1, <1>2, AddVarFrame

\* add_var reports nothing.
LEMMA AddReports ==
    ASSUME NEW s \in Checker, NEW n, NEW e PROVE AddVar(s, n, e).diags = s.diags
BY DEF AddVar, Checker

\* One row is written, field by field of the checker.
LEMMA RowWritten ==
    ASSUME NEW s \in Checker, NEW n \in Names, NEW e \in VarEntry, NEW r,
           r = [s EXCEPT !.tbl[n] = e]
    PROVE  /\ r \in Checker /\ r.bindings = s.bindings /\ r.marks = s.marks
           /\ r.depth = s.depth /\ r.diags = s.diags
           /\ \A m \in Names : r.tbl[m] = IF m = n THEN e ELSE s.tbl[m]
BY SetRow

\* add_var, field by field of the checker.
LEMMA RowAdded ==
    ASSUME NEW s \in Checker, NEW n \in Names, NEW e \in VarEntry, NEW r, r = AddVar(s, n, e)
    PROVE  /\ r \in Checker /\ r.marks = s.marks /\ r.depth = s.depth /\ r.diags = s.diags
           /\ \A m \in Names : r.tbl[m] = IF m = n THEN e ELSE s.tbl[m]
           /\ r.bindings = Append(s.bindings, [name |-> n, shadowed |-> s.tbl[n]])
<1>1. r.diags = s.diags
  BY AddReports
<1>2. /\ r \in Checker /\ r.marks = s.marks /\ r.depth = s.depth
      /\ \A m \in Names : r.tbl[m] = IF m = n THEN e ELSE s.tbl[m]
      /\ r.bindings = Append(s.bindings, [name |-> n, shadowed |-> s.tbl[n]])
  BY AddVarAppends
<1> QED BY <1>1, <1>2

\* end_borrow touches the owner's row only, and leaves its kind and owner:
\* a counter goes down by one, never below zero, and the last borrow frees it.
LEMMA EndBorrowRow ==
    ASSUME NEW s \in Checker, NEW o \in Names, NEW kind
    PROVE  LET r == EndBorrow(s, o, kind)
           IN  /\ r \in Checker
               /\ \A m \in Names : /\ m # o => r.tbl[m] = s.tbl[m]
                                   /\ r.tbl[m].kind = s.tbl[m].kind
                                   /\ r.tbl[m].owner = s.tbl[m].owner
                                   /\ r.tbl[m].loop_depth = s.tbl[m].loop_depth
               /\ r.bindings = s.bindings /\ r.marks = s.marks
               /\ r.depth = s.depth /\ r.diags = s.diags
               /\ Tracked(s, o) =>
                    /\ r.tbl[o].read_borrows =
                          IF kind = "RefRead" /\ s.tbl[o].read_borrows > 0
                          THEN s.tbl[o].read_borrows - 1 ELSE s.tbl[o].read_borrows
                    /\ r.tbl[o].write_borrows =
                          IF kind = "RefWrite" /\ s.tbl[o].write_borrows > 0
                          THEN s.tbl[o].write_borrows - 1 ELSE s.tbl[o].write_borrows
                    /\ r.tbl[o].state =
                          IF r.tbl[o].read_borrows = 0 /\ r.tbl[o].write_borrows = 0
                                /\ s.tbl[o].state \in Lent
                          THEN "Unconsumed" ELSE s.tbl[o].state
<1> DEFINE e == s.tbl[o]
           rd == IF kind = "RefRead" /\ e.read_borrows > 0
                 THEN e.read_borrows - 1 ELSE e.read_borrows
           wr == IF kind = "RefWrite" /\ e.write_borrows > 0
                 THEN e.write_borrows - 1 ELSE e.write_borrows
           st == IF rd = 0 /\ wr = 0 /\ e.state \in Lent
                 THEN "Unconsumed" ELSE e.state
           row == [e EXCEPT !.read_borrows = rd, !.write_borrows = wr, !.state = st]
<1>1. e \in VarEntry /\ rd \in Nat /\ wr \in Nat /\ st \in VarState
  BY RowFields DEF VarState
<1>2. /\ row \in VarEntry /\ row.kind = e.kind /\ row.owner = e.owner
      /\ row.loop_depth = e.loop_depth
      /\ row.read_borrows = rd /\ row.write_borrows = wr /\ row.state = st
  <2> HIDE DEF rd, wr, st, e
  <2> QED BY <1>1 DEF VarEntry
<1>3. EndBorrow(s, o, kind) = IF ~Tracked(s, o) THEN s ELSE [s EXCEPT !.tbl[o] = row]
  BY DEF EndBorrow
<1> HIDE DEF row
<1>4. CASE ~Tracked(s, o)
  BY <1>3, <1>4
<1>5. CASE Tracked(s, o)
  <2> DEFINE r == EndBorrow(s, o, kind)
  <2>1. /\ r \in Checker /\ \A m \in Names : r.tbl[m] = IF m = o THEN row ELSE s.tbl[m]
        /\ r.bindings = s.bindings /\ r.marks = s.marks
        /\ r.depth = s.depth /\ r.diags = s.diags
    BY <1>2, <1>3, <1>5, SetRow
  <2>2. r.tbl[o] = row
    BY <2>1
  <2> HIDE DEF r
  <2>3. /\ r.tbl[o].read_borrows = rd /\ r.tbl[o].write_borrows = wr /\ r.tbl[o].state = st
    BY <1>2, <2>2
  <2>4. \A m \in Names : /\ m # o => r.tbl[m] = s.tbl[m]
                         /\ r.tbl[m].kind = s.tbl[m].kind
                         /\ r.tbl[m].owner = s.tbl[m].owner
                         /\ r.tbl[m].loop_depth = s.tbl[m].loop_depth
    BY <1>2, <2>1
  <2> QED BY <2>1, <2>3, <2>4 DEF r
<1> QED BY <1>4, <1>5

\* remove_var changes the table, never the scopes, and withdraws no report.
LEMMA RemoveVarFrame ==
    ASSUME NEW s \in Checker, NEW n \in Names
    PROVE  LET r == RemoveVar(s, n)
           IN  /\ r \in Checker
               /\ r.bindings = s.bindings /\ r.marks = s.marks /\ r.depth = s.depth
               /\ s.diags \subseteq r.diags
<1> DEFINE e == s.tbl[n]
           gone == [s EXCEPT !.tbl[n] = NoEntry]
<1>1. /\ gone \in Checker /\ gone.tbl[n] = NoEntry /\ gone.diags = s.diags
      /\ gone.bindings = s.bindings /\ gone.marks = s.marks /\ gone.depth = s.depth
  BY SetRow, NoRow
<1>2. e.owner \in Names \cup {NoName}
  BY RowFields
<1> DEFINE kept == Emit(gone, "UniqueForget")
           back == EndBorrow(gone, e.owner, e.kind)
<1>3. RemoveVar(s, n) \in {gone, kept} \/ (e.owner \in Names /\ RemoveVar(s, n) = back)
  BY <1>2 DEF RemoveVar
<1>4. /\ kept \in Checker /\ kept.tbl = gone.tbl
      /\ kept.bindings = gone.bindings /\ kept.marks = gone.marks /\ kept.depth = gone.depth
      /\ gone.diags \subseteq kept.diags
  <2> HIDE DEF gone
  <2> QED BY <1>1 DEF Emit, Checker, RuleKind
<1>5. CASE RemoveVar(s, n) \in {gone, kept}
  <2> HIDE DEF gone, kept
  <2> QED BY <1>1, <1>4, <1>5
<1>6. CASE e.owner \in Names /\ RemoveVar(s, n) = back
  <2>1. /\ back \in Checker
        /\ back.bindings = gone.bindings /\ back.marks = gone.marks /\ back.depth = gone.depth
        /\ back.diags = gone.diags
    <3> HIDE DEF gone, e
    <3> QED BY <1>1, <1>6, EndBorrowRow
  <2> HIDE DEF gone, back
  <2> QED BY <1>1, <1>6, <2>1
<1> QED BY <1>3, <1>5, <1>6

\* A sequence without its last element.
LEMMA Shorter ==
    ASSUME NEW S, NEW r \in Seq(S), Len(r) > 0
    PROVE  /\ SubSeq(r, 1, Len(r) - 1) \in Seq(S)
           /\ Len(SubSeq(r, 1, Len(r) - 1)) = Len(r) - 1
           /\ \A i \in 1 .. Len(r) - 1 : SubSeq(r, 1, Len(r) - 1)[i] = r[i]
<1> DEFINE n == Len(r) - 1
<1>1. n \in Nat /\ \A i \in 1 .. n : r[i] \in S
  BY LenProperties, ElementOfSeq
<1> HIDE DEF n
<1>2. /\ SubSeq(r, 1, n) \in Seq(S)
      /\ Len(SubSeq(r, 1, n)) = (IF 1 <= n THEN n - 1 + 1 ELSE 0)
      /\ \A i \in 1 .. n - 1 + 1 : SubSeq(r, 1, n)[i] = r[1 + i - 1]
  BY <1>1, SubSeqProperties, SMTT(30)
<1>3. Len(SubSeq(r, 1, n)) = n
  BY <1>1, <1>2
<1>4. ASSUME NEW i \in 1 .. n PROVE SubSeq(r, 1, n)[i] = r[i]
  BY <1>1, <1>2
<1> QED BY <1>2, <1>3, <1>4 DEF n

\* Dropping the youngest binding.
LEMMA ShorterBindings ==
    ASSUME NEW s \in Checker, Len(s.bindings) > 0
    PROVE  LET r == [s EXCEPT !.bindings = SubSeq(@, 1, Len(@) - 1)]
           IN  /\ r \in Checker /\ r.tbl = s.tbl /\ r.marks = s.marks /\ r.depth = s.depth
               /\ r.diags = s.diags
               /\ Len(r.bindings) = Len(s.bindings) - 1
               /\ \A i \in 1 .. Len(r.bindings) : r.bindings[i] = s.bindings[i]
               /\ s.bindings[Len(s.bindings)] \in ScopeBinding
<1> DEFINE b == s.bindings
           c == SubSeq(b, 1, Len(b) - 1)
<1>1. b \in Seq(ScopeBinding) /\ Len(b) \in Nat /\ Len(b) > 0
  BY LenProperties DEF Checker
<1>2. \A i \in 1 .. Len(b) : b[i] \in ScopeBinding
  BY <1>1, ElementOfSeq
<1>3. /\ c \in Seq(ScopeBinding) /\ Len(c) = Len(b) - 1
      /\ \A i \in 1 .. Len(c) : c[i] = b[i]
  <2> HIDE DEF b
  <2> QED BY <1>1, Shorter
<1>4. b[Len(b)] \in ScopeBinding
  BY <1>1, <1>2
<1>5. [s EXCEPT !.bindings = SubSeq(@, 1, Len(@) - 1)] = [s EXCEPT !.bindings = c]
  OBVIOUS
<1> HIDE DEF c
<1> QED BY <1>3, <1>4, <1>5 DEF Checker

\* One round of pop_scope takes the youngest binding away.
LEMMA PopBindingFrame ==
    ASSUME NEW s \in Checker, Len(s.bindings) > 0
    PROVE  LET r == PopBinding(s)
           IN  /\ r \in Checker
               /\ Len(r.bindings) = Len(s.bindings) - 1
               /\ \A i \in 1 .. Len(r.bindings) : r.bindings[i] = s.bindings[i]
               /\ r.marks = s.marks /\ r.depth = s.depth /\ s.diags \subseteq r.diags
<1> DEFINE q == [s EXCEPT !.bindings = SubSeq(@, 1, Len(@) - 1)]
           b == s.bindings[Len(s.bindings)]
           r == RemoveVar(q, b.name)
<1>1. /\ q \in Checker /\ q.marks = s.marks /\ q.depth = s.depth /\ q.diags = s.diags
      /\ Len(q.bindings) = Len(s.bindings) - 1
      /\ \A i \in 1 .. Len(q.bindings) : q.bindings[i] = s.bindings[i]
  BY ShorterBindings
<1>2. b.name \in Names /\ b.shadowed \in VarEntry
  BY ShorterBindings DEF ScopeBinding
<1>3. /\ r \in Checker /\ r.bindings = q.bindings /\ r.marks = q.marks /\ r.depth = q.depth
      /\ q.diags \subseteq r.diags
  <2> HIDE DEF q, b
  <2> QED BY <1>1, <1>2, RemoveVarFrame
<1>4. PopBinding(s) = IF b.shadowed.kind = "None" THEN r ELSE [r EXCEPT !.tbl[b.name] = b.shadowed]
  BY DEF PopBinding
<1> HIDE DEF r, q, b
<1> QED BY <1>1, <1>2, <1>3, <1>4, SetRow

\* k rounds of pop_scope take the k youngest bindings away.
LEMMA PoppedFrame ==
    ASSUME NEW s \in Checker, NEW k \in 0 .. Len(s.bindings)
    PROVE  LET r == Popped(s, k)
           IN  /\ r \in Checker
               /\ Len(r.bindings) = Len(s.bindings) - k
               /\ \A i \in 1 .. Len(r.bindings) : r.bindings[i] = s.bindings[i]
               /\ r.marks = s.marks /\ r.depth = s.depth /\ s.diags \subseteq r.diags
<1> DEFINE L == Len(s.bindings)
<1>1. k \in Nat /\ L \in Nat /\ k <= L
  BY LenProperties DEF Checker
<1>2. PICK pop : /\ pop = [i \in 0 .. k |-> IF i = 0 THEN s ELSE PopBinding(pop[i - 1])]
                 /\ Popped(s, k) = pop[k]
  BY <1>1, PopRounds
<1> DEFINE Good(i) == /\ pop[i] \in Checker
                      /\ Len(pop[i].bindings) = L - i
                      /\ \A j \in 1 .. Len(pop[i].bindings) : pop[i].bindings[j] = s.bindings[j]
                      /\ pop[i].marks = s.marks /\ pop[i].depth = s.depth
                      /\ s.diags \subseteq pop[i].diags
           T == {i \in 0 .. k : ~ Good(i)}
<1>3. SUFFICES ASSUME T # {} PROVE FALSE
  <2>1. k \in 0 .. k
    BY <1>1
  <2>2. T = {} => Good(k)
    BY <2>1
  <2> QED BY <1>2, <2>2
<1>4. PICK m \in T : \A n \in T : m <= n
  <2>1. T \subseteq Nat
    OBVIOUS
  <2> QED BY <2>1, <1>3, Least
<1>5. m # 0
  <2>1. pop[0] = s
    BY <1>1, <1>2
  <2>2. Good(0)
    BY <1>1, <2>1
  <2> QED BY <2>2
<1>6. Good(m - 1)
  <2>1. m - 1 \in 0 .. k /\ m - 1 \notin T
    BY <1>4, <1>5
  <2> QED BY <2>1
<1>7. pop[m] = PopBinding(pop[m - 1])
  BY <1>2, <1>5
<1>8. m \in 1 .. k
  BY <1>1, <1>5
<1>9. Good(m)
  <2>1. Len(pop[m - 1].bindings) > 0
    BY <1>1, <1>6, <1>8
  <2> DEFINE p == pop[m - 1]
             q == PopBinding(p)
  <2>2. /\ q \in Checker /\ Len(q.bindings) = Len(p.bindings) - 1
        /\ \A i \in 1 .. Len(q.bindings) : q.bindings[i] = p.bindings[i]
        /\ q.marks = p.marks /\ q.depth = p.depth /\ p.diags \subseteq q.diags
    BY <2>1, <1>6, PopBindingFrame
  <2>3. pop[m] = q
    BY <1>7
  <2>4. /\ Len(p.bindings) = L - (m - 1) /\ p.marks = s.marks /\ p.depth = s.depth
        /\ \A i \in 1 .. Len(p.bindings) : p.bindings[i] = s.bindings[i]
        /\ s.diags \subseteq p.diags
    BY <1>6
  <2> HIDE DEF L, p, q
  <2>5. Len(q.bindings) = L - m /\ \A i \in 1 .. Len(q.bindings) : i \in 1 .. Len(p.bindings)
    BY <2>2, <2>4, <1>1, <1>8
  <2> QED BY <2>2, <2>3, <2>4, <2>5
<1> QED BY <1>9, <1>4

-----------------------------------------------------------------------------
\* No binding leaves: what every statement but the end of a scope does.
Grows(s, r) ==
    /\ r \in Checker
    /\ r.marks = s.marks /\ r.depth = s.depth
    /\ Len(r.bindings) >= Len(s.bindings)

\* The bindings have a length.
LEMMA BindingsLength == ASSUME NEW s \in Checker PROVE Len(s.bindings) \in Nat
BY LenProperties DEF Checker

\* A binding holds a name and a row.
LEMMA BindingFields ==
    ASSUME NEW s \in Checker, NEW i \in 1 .. Len(s.bindings)
    PROVE  /\ s.bindings[i] \in ScopeBinding
           /\ s.bindings[i].name \in Names /\ s.bindings[i].shadowed \in VarEntry
<1>1. s.bindings \in Seq(ScopeBinding)
  BY DEF Checker
<1>2. s.bindings[i] \in ScopeBinding
  BY <1>1, ElementOfSeq
<1> QED BY <1>2 DEF ScopeBinding

\* What keeps the bindings takes none away.
LEMMA KeepsGrows == ASSUME NEW s \in Checker, NEW r, Keeps(s, r) PROVE Grows(s, r)
BY BindingsLength DEF Keeps, Grows

\* Adding a row after an operation that takes no binding away.
LEMMA AddVarGrows ==
    ASSUME NEW s \in Checker, NEW r, Grows(s, r), NEW n \in Names, NEW e \in VarEntry
    PROVE  Grows(s, AddVar(r, n, e))
<1>1. r \in Checker /\ Len(r.bindings) \in Nat /\ Len(s.bindings) \in Nat
  BY BindingsLength DEF Grows
<1>2. /\ AddVar(r, n, e) \in Checker
      /\ Len(AddVar(r, n, e).bindings) = Len(r.bindings) + 1
      /\ AddVar(r, n, e).marks = r.marks /\ AddVar(r, n, e).depth = r.depth
  BY <1>1, AddVarFrame
<1> QED BY <1>1, <1>2 DEF Grows

\* add_from_type adds a binding.
LEMMA AddFromTypeGrows ==
    ASSUME NEW s \in Checker, NEW n \in Names, NEW kind \in OwnKind
    PROVE  Grows(s, AddFromType(s, n, kind))
<1>1. s.depth \in Nat
  BY DEF Checker
<1>2. Fresh(kind, s.depth, NoName) \in VarEntry
  BY <1>1, FreshRow
<1> QED BY <1>2, KeepsItself, KeepsGrows, AddVarGrows DEF AddFromType

\* do_clone adds a binding, or reports a rule.
LEMMA DoCloneGrows ==
    ASSUME NEW s \in Checker, NEW o \in Names, NEW a \in Names
    PROVE  Grows(s, DoClone(s, o, a))
<1>1. s.depth \in Nat
  BY DEF Checker
<1>2. Fresh(s.tbl[o].kind, s.depth, NoName) \in VarEntry
  BY <1>1, RowFields, FreshRow
<1>3. Grows(s, AddVar(s, a, Fresh(s.tbl[o].kind, s.depth, NoName)))
  BY <1>2, KeepsItself, KeepsGrows, AddVarGrows
<1>4. /\ Grows(s, s) /\ Grows(s, Emit(s, "UseAfterMove"))
      /\ Grows(s, Emit(s, "ConsumeWhileBorrowed"))
  BY EmitKeeps, KeepsItself, KeepsGrows DEF RuleKind
<1> QED BY <1>3, <1>4 DEF DoClone

\* A row on loan is a row.
LEMMA LendRow ==
    ASSUME NEW e \in VarEntry, NEW mode
    PROVE  Lend(e, mode) \in VarEntry
<1>1. e.read_borrows + 1 \in Nat /\ e.write_borrows + 1 \in Nat
  BY DEF VarEntry
<1>2. \A x \in Nat, y \in VarState :
        /\ [e EXCEPT !.read_borrows = x, !.state = y] \in VarEntry
        /\ [e EXCEPT !.write_borrows = x, !.state = y] \in VarEntry
  BY DEF VarEntry
<1> QED BY <1>1, <1>2 DEF Lend, VarState

\* begin_borrow grants the borrow or names the rule that refuses it.
LEMMA BorrowVerdictRule ==
    ASSUME NEW s, NEW o, NEW mode
    PROVE  BorrowVerdict(s, o, mode) \in RuleKind \cup {"ok"}
BY DEF BorrowVerdict, RuleKind

\* begin_borrow adds a binding, or reports a rule.
LEMMA BeginBorrowGrows ==
    ASSUME NEW s \in Checker, NEW o \in Names, NEW a \in Names, NEW mode \in Modes
    PROVE  Grows(s, BeginBorrow(s, o, a, mode))
<1> DEFINE lent == [s EXCEPT !.tbl[o] = Lend(s.tbl[o], mode)]
           kind == IF mode = "Read" THEN "RefRead" ELSE "RefWrite"
<1>1. Grows(s, lent)
  <2>1. Lend(s.tbl[o], mode) \in VarEntry
    BY RowFields, LendRow
  <2>2. /\ lent \in Checker /\ lent.bindings = s.bindings
        /\ lent.marks = s.marks /\ lent.depth = s.depth
    BY <2>1, SetRow
  <2> HIDE DEF lent
  <2> QED BY <2>2, BindingsLength DEF Grows
<1>2. Fresh(kind, s.depth, o) \in VarEntry
  <2>1. s.depth \in Nat /\ kind \in OwnKind \cup {"None"}
    BY DEF Checker, OwnKind, Refs
  <2> HIDE DEF kind
  <2> QED BY <2>1, FreshRow
<1>3. Grows(s, AddVar(lent, a, Fresh(kind, s.depth, o)))
  <2> HIDE DEF lent, kind
  <2> QED BY <1>1, <1>2, AddVarGrows
<1>4. BorrowVerdict(s, o, mode) # "ok" => Grows(s, Emit(s, BorrowVerdict(s, o, mode)))
  BY BorrowVerdictRule, EmitKeeps, KeepsGrows
<1> QED BY <1>3, <1>4 DEF BeginBorrow

\* check_var_decl of a moved name adds a binding, or reports a rule.
LEMMA DeclareMovedGrows ==
    ASSUME NEW s \in Checker, NEW n \in Names, NEW src \in Names
    PROVE  Grows(s, DeclareMoved(s, n, src))
<1> DEFINE r == MoveOut(s, src)
           e == Fresh(s.tbl[src].kind, s.depth, NoName)
<1>1. Keeps(s, r) /\ r \in Checker
  BY ApplyAppsKeeps DEF MoveOut, Keeps
<1>2. Grows(s, r) /\ Grows(s, Emit(r, "BorrowEscape"))
  <2>1. Keeps(r, Emit(r, "BorrowEscape"))
    BY <1>1, EmitKeeps DEF RuleKind
  <2> QED BY <1>1, <2>1, KeepsTwice, KeepsGrows
<1>3. s.depth \in Nat
  BY DEF Checker
<1>4. e \in VarEntry
  BY <1>3, RowFields, FreshRow
<1>5. Grows(s, AddVar(r, n, e))
  <2> HIDE DEF r, e
  <2> QED BY <1>2, <1>4, AddVarGrows
<1> QED BY <1>2, <1>5 DEF DeclareMoved

\* finish_discarded_assignment_transfer takes no binding away.
LEMMA FinishTransferGrows ==
    ASSUME NEW s \in Checker, NEW dst \in Names, NEW kind \in OwnKind \cup {"None"}
    PROVE  Grows(s, FinishTransfer(s, dst, kind))
<1> DEFINE new == Fresh(kind, s.depth, NoName)
           r == RemoveVar(s, dst)
<1>1. s.depth \in Nat
  BY DEF Checker
<1>2. new \in VarEntry
  BY <1>1, FreshRow
<1>3. r \in Checker /\ r.bindings = s.bindings /\ r.marks = s.marks /\ r.depth = s.depth
  BY RemoveVarFrame
<1>4. Grows(s, [r EXCEPT !.tbl[dst] = new])
  <2> HIDE DEF r, new
  <2> QED BY <1>2, <1>3, SetRow, BindingsLength DEF Grows
<1>5. Grows(s, AddVar(s, dst, new))
  <2> HIDE DEF new
  <2> QED BY <1>2, KeepsItself, KeepsGrows, AddVarGrows
<1> QED BY <1>4, <1>5 DEF FinishTransfer

\* Nor does the whole assignment statement.
LEMMA AssignStatementGrows ==
    ASSUME NEW s \in Checker, NEW dst \in Names, NEW src \in Names
    PROVE  Grows(s, AssignStatement(s, dst, src))
<1> DEFINE moved == MoveOut(s, src)
           checked == IF s.tbl[src].kind \in Refs THEN Emit(moved, "BorrowEscape") ELSE moved
<1>1. Keeps(s, checked)
  <2>1. Keeps(s, moved) /\ moved \in Checker
    BY ApplyAppsKeeps DEF MoveOut, Keeps
  <2>2. Keeps(moved, Emit(moved, "BorrowEscape"))
    BY <2>1, EmitKeeps DEF RuleKind
  <2> HIDE DEF moved
  <2> QED BY <2>1, <2>2, KeepsTwice
<1>2. checked \in Checker /\ Grows(s, checked) /\ Grows(s, s)
  <2> HIDE DEF checked
  <2>1. checked \in Checker
    BY <1>1 DEF Keeps
  <2>2. Grows(s, checked)
    BY <1>1, KeepsGrows
  <2>3. Grows(s, s)
    BY KeepsItself, KeepsGrows
  <2> QED BY <2>1, <2>2, <2>3
<1>3. Grows(s, FinishTransfer(checked, dst, s.tbl[src].kind))
  <2>1. Grows(checked, FinishTransfer(checked, dst, s.tbl[src].kind))
    <3> HIDE DEF checked
    <3> QED BY <1>2, RowFields, FinishTransferGrows
  <2>2. checked.bindings = s.bindings /\ checked.marks = s.marks /\ checked.depth = s.depth
    BY <1>1 DEF Keeps
  <2> HIDE DEF checked
  <2> QED BY <2>1, <2>2 DEF Grows
<1> QED BY <1>2, <1>3 DEF AssignStatement

\* push_scope marks where the bindings of the new scope begin.
LEMMA PushScopeFrame ==
    ASSUME NEW s \in Checker
    PROVE  LET r == PushScope(s)
           IN  /\ r \in Checker /\ r.tbl = s.tbl /\ r.bindings = s.bindings
               /\ r.marks = Append(s.marks, Len(s.bindings))
               /\ r.depth = s.depth
BY BindingsLength, AppendProperties DEF PushScope, Checker

\* pop_scope goes back to that mark, and withdraws no report.
LEMMA PopScopeFrame ==
    ASSUME NEW s \in Checker, Len(s.marks) > 0, s.marks[Len(s.marks)] <= Len(s.bindings)
    PROVE  LET r == PopScope(s)
           IN  /\ r \in Checker
               /\ Len(r.bindings) = s.marks[Len(s.marks)]
               /\ \A i \in 1 .. Len(r.bindings) : r.bindings[i] = s.bindings[i]
               /\ r.marks = SubSeq(s.marks, 1, Len(s.marks) - 1)
               /\ r.depth = s.depth /\ s.diags \subseteq r.diags
<1> DEFINE m == s.marks[Len(s.marks)]
           k == Len(s.bindings) - m
           q == Popped(s, k)
<1>1. s.marks \in Seq(Nat) /\ Len(s.marks) \in Nat /\ Len(s.marks) \in 1 .. Len(s.marks)
  BY LenProperties DEF Checker
<1>2. m \in Nat /\ Len(s.bindings) \in Nat
  BY <1>1, ElementOfSeq, BindingsLength
<1>3. k \in 0 .. Len(s.bindings)
  BY <1>2
<1>4. /\ q \in Checker /\ Len(q.bindings) = m /\ q.marks = s.marks /\ q.depth = s.depth
      /\ \A i \in 1 .. Len(q.bindings) : q.bindings[i] = s.bindings[i]
      /\ s.diags \subseteq q.diags
  <2>1. /\ q \in Checker /\ Len(q.bindings) = Len(s.bindings) - k
        /\ \A i \in 1 .. Len(q.bindings) : q.bindings[i] = s.bindings[i]
        /\ q.marks = s.marks /\ q.depth = s.depth /\ s.diags \subseteq q.diags
    <3> HIDE DEF k
    <3> QED BY <1>3, PoppedFrame
  <2> HIDE DEF q
  <2> QED BY <1>2, <2>1
<1>5. SubSeq(s.marks, 1, Len(s.marks) - 1) \in Seq(Nat)
  <2>1. \A i \in 1 .. Len(s.marks) - 1 : s.marks[i] \in Nat
    BY <1>1, ElementOfSeq
  <2> QED BY <1>1, <2>1, SubSeqProperties
<1>6. PopScope(s) = [q EXCEPT !.marks = SubSeq(s.marks, 1, Len(s.marks) - 1)]
  BY <1>4 DEF PopScope
<1> HIDE DEF q, m
<1>7. /\ PopScope(s) \in Checker
      /\ PopScope(s).bindings = q.bindings
      /\ PopScope(s).marks = SubSeq(s.marks, 1, Len(s.marks) - 1)
      /\ PopScope(s).depth = q.depth /\ PopScope(s).diags = q.diags
  BY <1>4, <1>5, <1>6 DEF Checker
<1> QED BY <1>4, <1>7 DEF m

-----------------------------------------------------------------------------
(* Loans: what the counters of an owner and the links of its aliases say. *)

\* The live aliases of o of one mode, in the checker state s.
AliasesIn(s, o, kind) == {a \in Names : s.tbl[a].kind = kind /\ s.tbl[a].owner = o}

\* What a row's counters and its state say of its live aliases.
Counted(s, o) ==
    /\ s.tbl[o].read_borrows = Cardinality(AliasesIn(s, o, "RefRead"))
    /\ s.tbl[o].write_borrows = Cardinality(AliasesIn(s, o, "RefWrite"))
    /\ s.tbl[o].state = "BorrowedRead" => AliasesIn(s, o, "RefRead") # {}
    /\ s.tbl[o].state = "BorrowedWrite" => AliasesIn(s, o, "RefWrite") # {}
    /\ s.tbl[o].state = "Unconsumed" => AliasesIn(s, o, "RefRead") \cup AliasesIn(s, o, "RefWrite") = {}

\* A writer is the only alias of what it borrows from.
Exclusive(s, o) ==
    AliasesIn(s, o, "RefWrite") # {} =>
        /\ AliasesIn(s, o, "RefRead") = {}
        /\ Cardinality(AliasesIn(s, o, "RefWrite")) = 1

\* An alias borrows from a row that is still there.
Rooted(s, a) == s.tbl[a].kind \in Refs => s.tbl[a].owner = NoName \/ Tracked(s, s.tbl[a].owner)

\* The rows alone: who lends, who borrows, and what the counters say.
Accounts(s) ==
    /\ \A o \in TrackedNames(s) : Counted(s, o)
    /\ \A o \in Names : Exclusive(s, o)
    /\ \A a \in Names : Rooted(s, a)

\* Every row has one binding, and an alias is bound after its owner.
Linked(s) ==
    /\ \A n \in Names : Tracked(s, n) <=> \E i \in 1 .. Len(s.bindings) : s.bindings[i].name = n
    /\ \A i, j \in 1 .. Len(s.bindings) : s.bindings[i].name = s.bindings[j].name => i = j
    /\ \A i \in 1 .. Len(s.bindings) : s.bindings[i].shadowed.kind = "None"
    /\ \A i, j \in 1 .. Len(s.bindings) :
          s.tbl[s.bindings[i].name].kind \in Refs /\ s.tbl[s.bindings[i].name].owner = s.bindings[j].name
             => j < i

\* The part of the invariant that is about one checker state.
Book(s) == Linked(s) /\ Accounts(s)

\* A name has finitely many aliases.
LEMMA AliasesFinite ==
    ASSUME NEW s, NEW o, NEW kind
    PROVE  IsFiniteSet(AliasesIn(s, o, kind)) /\ Cardinality(AliasesIn(s, o, kind)) \in Nat
<1>1. AliasesIn(s, o, kind) \subseteq Names
  BY DEF AliasesIn
<1> QED BY <1>1, NamesAssumption, FS_Subset, FS_CardinalityType

\* What an operation that keeps the rows leaves of each of them.
LEMMA KeepsColumns ==
    ASSUME NEW s \in Checker, NEW r, Keeps(s, r), NEW n \in Names
    PROVE  /\ r.tbl[n].kind = s.tbl[n].kind /\ r.tbl[n].owner = s.tbl[n].owner
           /\ r.tbl[n].read_borrows = s.tbl[n].read_borrows
           /\ r.tbl[n].write_borrows = s.tbl[n].write_borrows
           /\ r.tbl[n].state \in {s.tbl[n].state, "Consumed"}
<1>1. s.tbl[n] \in VarEntry
  BY RowFields
<1>2. /\ r.tbl[n] = [s.tbl[n] EXCEPT !.state = r.tbl[n].state]
      /\ r.tbl[n].state \in {s.tbl[n].state, "Consumed"}
  BY DEF Keeps
<1> DEFINE e == s.tbl[n]
           q == [e EXCEPT !.state = r.tbl[n].state]
<1>3. /\ q.kind = e.kind /\ q.owner = e.owner
      /\ q.read_borrows = e.read_borrows /\ q.write_borrows = e.write_borrows
  BY <1>1 DEF VarEntry
<1> HIDE DEF q
<1> QED BY <1>2, <1>3 DEF q

\* An operation that keeps the rows keeps the book: it may only consume.
LEMMA KeepsBook ==
    ASSUME NEW s \in Checker, NEW r, Keeps(s, r), Book(s)
    PROVE  Book(r)
<1>1. \A n \in Names : /\ r.tbl[n].kind = s.tbl[n].kind /\ r.tbl[n].owner = s.tbl[n].owner
                       /\ r.tbl[n].read_borrows = s.tbl[n].read_borrows
                       /\ r.tbl[n].write_borrows = s.tbl[n].write_borrows
                       /\ r.tbl[n].state \in {s.tbl[n].state, "Consumed"}
  BY KeepsColumns
<1>2. \A o, kind : AliasesIn(r, o, kind) = AliasesIn(s, o, kind)
  BY <1>1 DEF AliasesIn
<1>3. \A n : Tracked(r, n) <=> Tracked(s, n)
  BY <1>1 DEF Tracked
<1>4. TrackedNames(r) = TrackedNames(s)
  BY <1>1 DEF TrackedNames
<1>5. ASSUME NEW o \in TrackedNames(r) PROVE Counted(r, o)
  <2>1. Counted(s, o) /\ o \in Names
    BY <1>4, <1>5 DEF Book, Accounts, TrackedNames
  <2>2. r.tbl[o].state \in {s.tbl[o].state, "Consumed"}
    BY <1>1, <2>1
  <2> QED BY <1>1, <1>2, <2>1, <2>2 DEF Counted
<1>6. \A o \in Names : Exclusive(r, o)
  BY <1>2 DEF Book, Accounts, Exclusive
<1>7. \A a \in Names : Rooted(r, a)
  BY <1>1, <1>3 DEF Book, Accounts, Rooted
<1>8. Linked(r)
  <2>1. r.bindings = s.bindings
    BY DEF Keeps
  <2>2. \A i \in 1 .. Len(s.bindings) : s.bindings[i].name \in Names
    BY BindingFields
  <2> QED BY <2>1, <2>2, <1>1, <1>3 DEF Book, Linked
<1> QED BY <1>5, <1>6, <1>7, <1>8 DEF Book, Accounts

\* A name with no row has no live alias.
LEMMA NoAliasOfUntracked ==
    ASSUME NEW s, Accounts(s), NEW n \in Names, ~Tracked(s, n), NEW kind \in Refs
    PROVE  AliasesIn(s, n, kind) = {}
<1>1. n # NoName
  BY NamesAssumption
<1> QED BY <1>1 DEF Accounts, Rooted, AliasesIn

\* A new row that borrows from nothing: a declaration, a clone, a transfer.
LEMMA NewOwner ==
    ASSUME NEW s \in Checker, Accounts(s), NEW n \in Names, ~Tracked(s, n),
           NEW kind \in OwnKind \cup {"None"}, NEW d \in Nat,
           NEW r, \A m \in Names : r.tbl[m] = IF m = n THEN Fresh(kind, d, NoName) ELSE s.tbl[m]
    PROVE  Accounts(r)
<1> DEFINE e == Fresh(kind, d, NoName)
<1>1. /\ e.kind = kind /\ e.owner = NoName /\ e.state = "Unconsumed"
      /\ e.read_borrows = 0 /\ e.write_borrows = 0
  BY DEF Fresh
<1>2. ASSUME NEW o \in Names, NEW k \in Refs PROVE AliasesIn(r, o, k) = AliasesIn(s, o, k)
  <2>1. n \notin AliasesIn(s, o, k)
    BY DEF Tracked, AliasesIn, Refs
  <2>2. n \notin AliasesIn(r, o, k)
    BY <1>1, NamesAssumption DEF AliasesIn
  <2> HIDE DEF e
  <2>3. \A m \in Names : m # n => r.tbl[m] = s.tbl[m]
    OBVIOUS
  <2> QED BY <2>1, <2>2, <2>3 DEF AliasesIn
<1>3. "RefRead" \in Refs /\ "RefWrite" \in Refs
  BY DEF Refs
<1>4. ASSUME NEW o \in TrackedNames(r) PROVE Counted(r, o)
  <2>1. o \in Names
    BY DEF TrackedNames
  <2>2. CASE o = n
    <3>1. AliasesIn(r, n, "RefRead") = {} /\ AliasesIn(r, n, "RefWrite") = {}
      BY <1>2, <1>3, NoAliasOfUntracked
    <3>2. r.tbl[n] = e
      OBVIOUS
    <3> QED BY <1>1, <2>2, <3>1, <3>2, FS_EmptySet DEF Counted
  <2>3. CASE o # n
    <3>1. r.tbl[o] = s.tbl[o] /\ o \in TrackedNames(s)
      BY <2>1, <2>3 DEF TrackedNames
    <3> QED BY <1>2, <1>3, <2>1, <3>1 DEF Accounts, Counted
  <2> QED BY <2>2, <2>3
<1>5. ASSUME NEW o \in Names PROVE Exclusive(r, o)
  BY <1>2, <1>3 DEF Accounts, Exclusive
<1>6. ASSUME NEW a \in Names PROVE Rooted(r, a)
  <2>1. CASE a = n
    BY <1>1, <2>1 DEF Rooted
  <2>2. CASE a # n
    <3>1. r.tbl[a] = s.tbl[a] /\ Rooted(s, a)
      BY <2>2 DEF Accounts
    <3>2. s.tbl[a].owner # n \/ s.tbl[a].kind \notin Refs
      BY <3>1, NamesAssumption DEF Rooted
    <3>3. \A m : m # n /\ Tracked(s, m) => Tracked(r, m)
      BY DEF Tracked
    <3> QED BY <3>1, <3>2, <3>3 DEF Rooted
  <2> QED BY <2>1, <2>2
<1> QED BY <1>4, <1>5, <1>6 DEF Accounts

\* A granted borrow: one alias and one count more, and the owner on loan.
LEMMA NewAlias ==
    ASSUME NEW s \in Checker, Accounts(s), NEW o \in Names, NEW a \in Names, o # a,
           ~Tracked(s, a), NEW mode \in Modes, BorrowVerdict(s, o, mode) = "ok", NEW d \in Nat,
           NEW kind, kind = IF mode = "Read" THEN "RefRead" ELSE "RefWrite",
           NEW r, \A m \in Names : r.tbl[m] = IF m = a THEN Fresh(kind, d, o)
                                             ELSE IF m = o THEN Lend(s.tbl[o], mode) ELSE s.tbl[m]
    PROVE  Accounts(r)
<1> DEFINE e == Fresh(kind, d, o)
           l == Lend(s.tbl[o], mode)
           A(p, k) == AliasesIn(s, p, k)
           B(p, k) == AliasesIn(r, p, k)
<1>1. /\ e.kind = kind /\ e.owner = o /\ e.state = "Unconsumed"
      /\ e.read_borrows = 0 /\ e.write_borrows = 0
  BY DEF Fresh
<1>2. /\ l.kind = s.tbl[o].kind /\ l.owner = s.tbl[o].owner
      /\ l.read_borrows = IF mode = "Read" THEN s.tbl[o].read_borrows + 1 ELSE s.tbl[o].read_borrows
      /\ l.write_borrows = IF mode = "Read" THEN s.tbl[o].write_borrows ELSE s.tbl[o].write_borrows + 1
      /\ l.state = IF mode = "Read" THEN "BorrowedRead" ELSE "BorrowedWrite"
  BY RowFields DEF Lend, VarEntry
<1>3. /\ Tracked(s, o)
      /\ s.tbl[o].state = "Unconsumed" \/ (s.tbl[o].state = "BorrowedRead" /\ mode = "Read")
  BY DEF BorrowVerdict, Modes
<1>4. r.tbl[a] = e /\ r.tbl[o] = l /\ \A m \in Names : m # a /\ m # o => r.tbl[m] = s.tbl[m]
  OBVIOUS
<1>5. s.tbl[a].kind = "None"
  BY DEF Tracked
<1> HIDE DEF e, l
<1>6. \A m \in Names : m # a => r.tbl[m].kind = s.tbl[m].kind /\ r.tbl[m].owner = s.tbl[m].owner
  BY <1>2, <1>4
<1>7. \A p \in Names, k \in Refs :
        /\ B(p, k) = IF p = o /\ k = kind THEN A(p, k) \cup {a} ELSE A(p, k)
        /\ a \notin A(p, k)
  <2>1. "None" \notin Refs
    BY DEF Refs
  <2> QED BY <1>1, <1>4, <1>5, <1>6, <2>1 DEF AliasesIn
<1>8. /\ kind \in Refs /\ "RefRead" \in Refs /\ "RefWrite" \in Refs
      /\ (mode = "Read" /\ kind = "RefRead") \/ (mode = "Write" /\ kind = "RefWrite")
  BY DEF Refs, Modes
<1>9. /\ Counted(s, o) /\ Exclusive(s, o)
      /\ A(o, "RefWrite") = {} /\ (mode = "Write" => A(o, "RefRead") = {})
  <2>1. Counted(s, o) /\ Exclusive(s, o)
    BY <1>3 DEF Accounts, Tracked, TrackedNames
  <2> QED BY <2>1, <1>3 DEF Counted, Exclusive
<1>10. Cardinality(A(o, kind) \cup {a}) = Cardinality(A(o, kind)) + 1
  BY <1>7, <1>8, AliasesFinite, FS_AddElement
<1>11. ASSUME NEW p \in TrackedNames(r) PROVE Counted(r, p)
  <2>1. p \in Names
    BY DEF TrackedNames
  <2>2. CASE p = a
    <3>1. A(a, "RefRead") = {} /\ A(a, "RefWrite") = {}
      BY <1>8, NoAliasOfUntracked
    <3>2. B(a, "RefRead") = {} /\ B(a, "RefWrite") = {}
      BY <3>1, <1>7, <1>8
    <3> QED BY <3>2, <1>1, <1>4, <2>2, FS_EmptySet DEF Counted
  <2>3. CASE p = o /\ mode = "Read"
    <3>1. B(o, "RefRead") = A(o, "RefRead") \cup {a} /\ B(o, "RefWrite") = A(o, "RefWrite")
      BY <1>7, <1>8, <2>3
    <3>2. /\ r.tbl[o].read_borrows = s.tbl[o].read_borrows + 1
          /\ r.tbl[o].write_borrows = s.tbl[o].write_borrows /\ r.tbl[o].state = "BorrowedRead"
      BY <1>2, <1>4, <2>3
    <3>3. Cardinality(B(o, "RefRead")) = Cardinality(A(o, "RefRead")) + 1
      BY <3>1, <1>8, <1>10, <2>3
    <3> QED BY <2>3, <3>1, <3>2, <3>3, <1>9 DEF Counted
  <2>4. CASE p = o /\ mode = "Write"
    <3>1. B(o, "RefWrite") = A(o, "RefWrite") \cup {a} /\ B(o, "RefRead") = A(o, "RefRead")
      BY <1>7, <1>8, <2>4
    <3>2. /\ r.tbl[o].write_borrows = s.tbl[o].write_borrows + 1
          /\ r.tbl[o].read_borrows = s.tbl[o].read_borrows /\ r.tbl[o].state = "BorrowedWrite"
      BY <1>2, <1>4, <2>4
    <3>3. Cardinality(B(o, "RefWrite")) = Cardinality(A(o, "RefWrite")) + 1
      BY <3>1, <1>8, <1>10, <2>4
    <3> QED BY <2>4, <3>1, <3>2, <3>3, <1>9 DEF Counted
  <2>5. CASE p # a /\ p # o
    <3>1. r.tbl[p] = s.tbl[p] /\ p \in TrackedNames(s)
      BY <1>4, <2>1, <2>5 DEF TrackedNames
    <3>2. B(p, "RefRead") = A(p, "RefRead") /\ B(p, "RefWrite") = A(p, "RefWrite")
      BY <1>7, <1>8, <2>1, <2>5
    <3> QED BY <3>1, <3>2 DEF Accounts, Counted
  <2> QED BY <2>2, <2>3, <2>4, <2>5, <1>8
<1>12. ASSUME NEW p \in Names PROVE Exclusive(r, p)
  <2>1. CASE p = o /\ mode = "Read"
    <3>1. B(o, "RefWrite") = {}
      BY <1>7, <1>8, <1>9, <2>1
    <3> QED BY <2>1, <3>1 DEF Exclusive
  <2>2. CASE p = o /\ mode = "Write"
    <3>1. B(o, "RefRead") = {} /\ B(o, "RefWrite") = {a}
      BY <1>7, <1>8, <1>9, <2>2
    <3> QED BY <2>2, <3>1, FS_Singleton DEF Exclusive
  <2>3. CASE p # o
    <3>1. B(p, "RefRead") = A(p, "RefRead") /\ B(p, "RefWrite") = A(p, "RefWrite")
      BY <1>7, <1>8, <2>3
    <3> QED BY <3>1 DEF Accounts, Exclusive
  <2> QED BY <2>1, <2>2, <2>3, <1>8
<1>13. ASSUME NEW p \in Names PROVE Rooted(r, p)
  <2>1. \A m : Tracked(s, m) => Tracked(r, m)
    BY <1>5, <1>6 DEF Tracked
  <2>2. CASE p = a
    BY <2>1, <2>2, <1>1, <1>3, <1>4 DEF Rooted
  <2>3. CASE p # a
    BY <2>1, <2>3, <1>6 DEF Accounts, Rooted
  <2> QED BY <2>2, <2>3
<1> QED BY <1>11, <1>12, <1>13 DEF Accounts

\* A row that nothing borrows from leaves the table: if it borrows from an
\* owner, that owner has one alias and one count less, and is given back when
\* it was the last.
LEMMA RowLeaves ==
    ASSUME NEW s \in Checker, Accounts(s), NEW n \in Names,
           AliasesIn(s, n, "RefRead") = {}, AliasesIn(s, n, "RefWrite") = {}
    PROVE  LET r == RemoveVar(s, n)
           IN  /\ Accounts(r) /\ ~Tracked(r, n)
               /\ \A m \in Names : m # n => r.tbl[m].kind = s.tbl[m].kind
                                           /\ r.tbl[m].owner = s.tbl[m].owner
<1> DEFINE e == s.tbl[n]
           o == e.owner
           gone == [s EXCEPT !.tbl[n] = NoEntry]
           back == EndBorrow(gone, o, e.kind)
           r == RemoveVar(s, n)
           A(p, k) == AliasesIn(s, p, k)
           B(p, k) == AliasesIn(r, p, k)
           gives == e.kind \in Refs /\ o # NoName
<1>1. /\ gone \in Checker
      /\ \A m \in Names : gone.tbl[m] = IF m = n THEN NoEntry ELSE s.tbl[m]
  BY SetRow, NoRow
<1>2. e \in VarEntry /\ o \in Names \cup {NoName}
  BY RowFields
<1>3. gives => /\ o \in Names /\ o # n /\ Tracked(s, o)
               /\ gone.tbl[o] = s.tbl[o] /\ Tracked(gone, o)
  <2>1. gives => o \in Names /\ o # n
    BY <1>2 DEF AliasesIn, Refs
  <2>2. gives => Tracked(s, o)
    BY DEF Accounts, Rooted
  <2> QED BY <2>1, <2>2, <1>1 DEF Tracked
<1>4. gives => r = back
  BY DEF RemoveVar, Refs
<1>5. ~gives => \A m \in Names : r.tbl[m] = gone.tbl[m]
  BY <1>1 DEF RemoveVar, Emit, Checker, Refs
<1> HIDE DEF gone
<1>6. gives =>
        /\ \A m \in Names : /\ m # o => back.tbl[m] = gone.tbl[m]
                            /\ back.tbl[m].kind = gone.tbl[m].kind
                            /\ back.tbl[m].owner = gone.tbl[m].owner
        /\ back.tbl[o].read_borrows =
              IF e.kind = "RefRead" /\ s.tbl[o].read_borrows > 0
              THEN s.tbl[o].read_borrows - 1 ELSE s.tbl[o].read_borrows
        /\ back.tbl[o].write_borrows =
              IF e.kind = "RefWrite" /\ s.tbl[o].write_borrows > 0
              THEN s.tbl[o].write_borrows - 1 ELSE s.tbl[o].write_borrows
        /\ back.tbl[o].state =
              IF back.tbl[o].read_borrows = 0 /\ back.tbl[o].write_borrows = 0
                    /\ s.tbl[o].state \in Lent
              THEN "Unconsumed" ELSE s.tbl[o].state
  <2>1. \A m \in Names : gives =>
          /\ m # o => back.tbl[m] = gone.tbl[m]
          /\ back.tbl[m].kind = gone.tbl[m].kind
          /\ back.tbl[m].owner = gone.tbl[m].owner
    BY <1>1, <1>3, EndBorrowRow
  <2>2. gives => gone \in Checker /\ o \in Names /\ Tracked(gone, o) /\ gone.tbl[o] = s.tbl[o]
    BY <1>1, <1>3
  <2>3. gives =>
          /\ back.tbl[o].read_borrows =
                IF e.kind = "RefRead" /\ gone.tbl[o].read_borrows > 0
                THEN gone.tbl[o].read_borrows - 1 ELSE gone.tbl[o].read_borrows
          /\ back.tbl[o].write_borrows =
                IF e.kind = "RefWrite" /\ gone.tbl[o].write_borrows > 0
                THEN gone.tbl[o].write_borrows - 1 ELSE gone.tbl[o].write_borrows
          /\ back.tbl[o].state =
                IF back.tbl[o].read_borrows = 0 /\ back.tbl[o].write_borrows = 0
                      /\ gone.tbl[o].state \in Lent
                THEN "Unconsumed" ELSE gone.tbl[o].state
    BY <2>2, EndBorrowRow
  <2> HIDE DEF back
  <2> QED BY <2>1, <2>2, <2>3
<1> HIDE DEF r, back
<1>7. /\ r.tbl[n] = NoEntry
      /\ \A m \in Names : m # n => /\ r.tbl[m].kind = s.tbl[m].kind
                                   /\ r.tbl[m].owner = s.tbl[m].owner
  <2>1. /\ gone.tbl[n] = NoEntry
        /\ \A m \in Names : m # n => gone.tbl[m] = s.tbl[m]
    BY <1>1
  <2>2. CASE gives
    <3>1. r.tbl[n] = NoEntry
      BY <1>3, <1>4, <1>6, <2>1, <2>2
    <3>2. \A m \in Names : r.tbl[m].kind = gone.tbl[m].kind /\ r.tbl[m].owner = gone.tbl[m].owner
      <4>1. /\ r = back
            /\ \A m \in Names : back.tbl[m].kind = gone.tbl[m].kind /\ back.tbl[m].owner = gone.tbl[m].owner
        <5> HIDE DEF e, o
        <5> QED BY <1>4, <1>6, <2>2
      <4> QED BY <4>1
    <3> QED BY <2>1, <3>1, <3>2
  <2>3. CASE ~gives
    BY <1>5, <2>1, <2>3
  <2> QED BY <2>2, <2>3
<1>8. ASSUME NEW m \in Names, m # n, ~gives \/ m # o PROVE r.tbl[m] = s.tbl[m]
  BY <1>1, <1>3, <1>4, <1>5, <1>6, <1>8
<1> HIDE DEF gives
<1>9. ~Tracked(r, n) /\ r.tbl[n].kind \notin Refs
  BY <1>7 DEF Tracked, NoEntry, Refs
<1>10. ASSUME NEW p \in Names, NEW k \in Refs
      PROVE  B(p, k) = A(p, k) \ {n}
  BY <1>7, <1>9 DEF AliasesIn
<1>11. "RefRead" \in Refs /\ "RefWrite" \in Refs
  BY DEF Refs
<1>12. ASSUME NEW p \in TrackedNames(r) PROVE Counted(r, p)
  <2>1. p \in Names /\ p # n /\ p \in TrackedNames(s)
    BY <1>7, <1>9 DEF TrackedNames, Tracked
  <2>2. Counted(s, p) /\ Exclusive(s, p)
    BY <2>1 DEF Accounts
  <2>3. CASE ~gives \/ p # o
    <3>1. n \notin A(p, "RefRead") /\ n \notin A(p, "RefWrite")
      BY <2>1, <2>3, NamesAssumption DEF AliasesIn, Refs, gives
    <3>2. B(p, "RefRead") = A(p, "RefRead") /\ B(p, "RefWrite") = A(p, "RefWrite")
      BY <1>10, <1>11, <2>1, <3>1
    <3>3. r.tbl[p] = s.tbl[p]
      BY <1>8, <2>1, <2>3
    <3> QED BY <2>2, <3>2, <3>3 DEF Counted
  <2>4. CASE gives /\ p = o
    <3> DEFINE rd == A(o, "RefRead")
               wr == A(o, "RefWrite")
    <3>1. /\ r.tbl[o].read_borrows =
                IF e.kind = "RefRead" /\ s.tbl[o].read_borrows > 0
                THEN s.tbl[o].read_borrows - 1 ELSE s.tbl[o].read_borrows
          /\ r.tbl[o].write_borrows =
                IF e.kind = "RefWrite" /\ s.tbl[o].write_borrows > 0
                THEN s.tbl[o].write_borrows - 1 ELSE s.tbl[o].write_borrows
          /\ r.tbl[o].state =
                IF r.tbl[o].read_borrows = 0 /\ r.tbl[o].write_borrows = 0
                      /\ s.tbl[o].state \in Lent
                THEN "Unconsumed" ELSE s.tbl[o].state
      BY <1>4, <1>6, <2>4
    <3>2. B(o, "RefRead") = rd \ {n} /\ B(o, "RefWrite") = wr \ {n}
      BY <1>3, <1>10, <1>11, <2>4
    <3>3. /\ IsFiniteSet(rd) /\ IsFiniteSet(wr)
          /\ Cardinality(rd) \in Nat /\ Cardinality(wr) \in Nat
          /\ IsFiniteSet(B(o, "RefRead")) /\ IsFiniteSet(B(o, "RefWrite"))
      BY AliasesFinite
    <3>4. /\ Cardinality(B(o, "RefRead")) = IF n \in rd THEN Cardinality(rd) - 1 ELSE Cardinality(rd)
          /\ Cardinality(B(o, "RefWrite")) = IF n \in wr THEN Cardinality(wr) - 1 ELSE Cardinality(wr)
      BY <3>2, <3>3, FS_RemoveElement
    <3>5. /\ Cardinality(B(o, "RefRead")) = 0 <=> B(o, "RefRead") = {}
          /\ Cardinality(B(o, "RefWrite")) = 0 <=> B(o, "RefWrite") = {}
          /\ Cardinality(rd) = 0 <=> rd = {}
          /\ Cardinality(wr) = 0 <=> wr = {}
      BY <3>3, FS_EmptySet
    <3>6. /\ s.tbl[o].read_borrows = Cardinality(rd) /\ s.tbl[o].write_borrows = Cardinality(wr)
          /\ s.tbl[o].state = "BorrowedRead" => rd # {}
          /\ s.tbl[o].state = "BorrowedWrite" => wr # {}
          /\ s.tbl[o].state = "Unconsumed" => rd = {} /\ wr = {}
          /\ wr # {} => rd = {} /\ Cardinality(wr) = 1
      BY <2>2, <2>4 DEF Counted, Exclusive
    <3>7. (e.kind = "RefRead" /\ n \in rd /\ n \notin wr) \/ (e.kind = "RefWrite" /\ n \in wr /\ n \notin rd)
      BY <1>3, <2>4 DEF AliasesIn, Refs, gives
    <3>8. CASE e.kind = "RefRead" /\ n \in rd /\ n \notin wr
      <4>1. rd # {} /\ wr = {} /\ B(o, "RefWrite") = {}
        BY <3>2, <3>6, <3>8
      <4>2. /\ r.tbl[o].read_borrows = Cardinality(B(o, "RefRead"))
            /\ r.tbl[o].write_borrows = Cardinality(B(o, "RefWrite"))
        BY <3>1, <3>3, <3>4, <3>5, <3>6, <3>8
      <4>3. s.tbl[o].state # "BorrowedWrite" /\ s.tbl[o].state # "Unconsumed"
        BY <3>6, <4>1
      <4>4. /\ r.tbl[o].state = "BorrowedRead" => B(o, "RefRead") # {}
            /\ r.tbl[o].state # "BorrowedWrite"
            /\ r.tbl[o].state = "Unconsumed" => B(o, "RefRead") = {}
        BY <3>1, <3>5, <4>1, <4>2, <4>3 DEF Lent
      <4> QED BY <2>4, <4>1, <4>2, <4>4 DEF Counted
    <3>9. CASE e.kind = "RefWrite" /\ n \in wr /\ n \notin rd
      <4>1. wr # {} /\ rd = {} /\ B(o, "RefRead") = {}
        BY <3>2, <3>6, <3>9
      <4>2. /\ r.tbl[o].read_borrows = Cardinality(B(o, "RefRead"))
            /\ r.tbl[o].write_borrows = Cardinality(B(o, "RefWrite"))
        BY <3>1, <3>3, <3>4, <3>5, <3>6, <3>9
      <4>3. s.tbl[o].state # "BorrowedRead" /\ s.tbl[o].state # "Unconsumed"
        BY <3>6, <4>1
      <4>4. /\ r.tbl[o].state = "BorrowedWrite" => B(o, "RefWrite") # {}
            /\ r.tbl[o].state # "BorrowedRead"
            /\ r.tbl[o].state = "Unconsumed" => B(o, "RefWrite") = {}
        BY <3>1, <3>5, <4>1, <4>2, <4>3 DEF Lent
      <4> QED BY <2>4, <4>1, <4>2, <4>4 DEF Counted
    <3> QED BY <3>7, <3>8, <3>9
  <2> QED BY <2>3, <2>4
<1>13. ASSUME NEW p \in Names PROVE Exclusive(r, p)
  <2>1. /\ B(p, "RefRead") = A(p, "RefRead") \ {n} /\ B(p, "RefWrite") = A(p, "RefWrite") \ {n}
        /\ Exclusive(s, p)
    BY <1>10, <1>11 DEF Accounts
  <2>2. SUFFICES ASSUME B(p, "RefWrite") # {}
                 PROVE  B(p, "RefRead") = {} /\ Cardinality(B(p, "RefWrite")) = 1
    BY DEF Exclusive
  <2>3. A(p, "RefWrite") # {} /\ A(p, "RefRead") = {} /\ Cardinality(A(p, "RefWrite")) = 1
    BY <2>1, <2>2 DEF Exclusive
  <2>4. /\ Cardinality(B(p, "RefWrite")) <= Cardinality(A(p, "RefWrite"))
        /\ Cardinality(B(p, "RefWrite")) \in Nat /\ Cardinality(B(p, "RefWrite")) # 0
    <3>1. /\ IsFiniteSet(A(p, "RefWrite")) /\ IsFiniteSet(B(p, "RefWrite"))
          /\ Cardinality(B(p, "RefWrite")) \in Nat
      BY AliasesFinite
    <3> QED BY <2>1, <2>2, <3>1, FS_Subset, FS_EmptySet
  <2> QED BY <2>1, <2>3, <2>4
<1>14. ASSUME NEW a \in Names PROVE Rooted(r, a)
  <2>1. SUFFICES ASSUME r.tbl[a].kind \in Refs
                 PROVE  r.tbl[a].owner = NoName \/ Tracked(r, r.tbl[a].owner)
    BY DEF Rooted
  <2>2. a # n /\ r.tbl[a].owner = s.tbl[a].owner /\ s.tbl[a].kind \in Refs
    BY <1>7, <1>9, <2>1
  <2>3. s.tbl[a].owner # n
    BY <2>2 DEF AliasesIn, Refs
  <2>4. s.tbl[a].owner = NoName \/ Tracked(s, s.tbl[a].owner)
    BY <2>2 DEF Accounts, Rooted
  <2> QED BY <1>7, <2>2, <2>3, <2>4 DEF Tracked
<1>15. Accounts(r)
  BY <1>12, <1>13, <1>14 DEF Accounts
<1> QED BY <1>7, <1>9, <1>15 DEF r

\* A binding for a name that had no row.
LEMMA NewBinding ==
    ASSUME NEW s \in Checker, Book(s), NEW n \in Names, ~Tracked(s, n),
           NEW r \in Checker, r.bindings = Append(s.bindings, [name |-> n, shadowed |-> s.tbl[n]]),
           r.tbl[n].kind # "None", r.tbl[n].owner # n,
           \A m \in Names : m # n => r.tbl[m].kind = s.tbl[m].kind /\ r.tbl[m].owner = s.tbl[m].owner
    PROVE  Linked(r)
<1> DEFINE b == s.bindings
           c == r.bindings
           L == Len(s.bindings)
           new == [name |-> n, shadowed |-> s.tbl[n]]
<1>1. b \in Seq(ScopeBinding) /\ L \in Nat /\ new \in ScopeBinding
  BY RowFields, BindingsLength DEF Checker, ScopeBinding
<1>2. /\ Len(c) = L + 1 /\ c[L + 1] = new
      /\ \A i \in 1 .. L : c[i] = b[i]
  BY <1>1, AppendProperties
<1>3. /\ \A i \in 1 .. L + 1 : i \in 1 .. L \/ i = L + 1
      /\ \A i \in 1 .. L : i \in 1 .. L + 1 /\ i < L + 1
      /\ L + 1 \in 1 .. L + 1
  BY <1>1
<1>4. \A i \in 1 .. L : b[i].name \in Names /\ b[i].name # n
  BY BindingFields DEF Book, Linked
<1>5. \A i \in 1 .. L : s.tbl[b[i].name].kind \in Refs => s.tbl[b[i].name].owner # n
  BY <1>4, NamesAssumption DEF Book, Accounts, Rooted
<1>6. new.name = n /\ new.shadowed.kind = "None"
  BY DEF Tracked
<1> HIDE DEF b, c, L, new
<1>7. ASSUME NEW m \in Names
      PROVE  Tracked(r, m) <=> \E i \in 1 .. L + 1 : c[i].name = m
  <2>1. CASE m = n
    BY <1>2, <1>3, <1>6, <2>1 DEF Tracked
  <2>2. CASE m # n
    <3>1. Tracked(r, m) <=> Tracked(s, m)
      BY <2>2 DEF Tracked
    <3>2. Tracked(s, m) <=> \E i \in 1 .. L : b[i].name = m
      BY DEF Book, Linked, b, L
    <3> QED BY <1>2, <1>3, <1>6, <2>2, <3>1, <3>2
  <2> QED BY <2>1, <2>2
<1>8. ASSUME NEW i \in 1 .. L + 1, NEW j \in 1 .. L + 1, c[i].name = c[j].name
      PROVE  i = j
  <2>1. \A x, y \in 1 .. L : b[x].name = b[y].name => x = y
    BY DEF Book, Linked, b, L
  <2> QED BY <1>2, <1>3, <1>4, <1>6, <1>8, <2>1
<1>9. ASSUME NEW i \in 1 .. L + 1 PROVE c[i].shadowed.kind = "None"
  <2>1. \A x \in 1 .. L : b[x].shadowed.kind = "None"
    BY DEF Book, Linked, b, L
  <2> QED BY <1>2, <1>3, <1>6, <2>1
<1>10. ASSUME NEW i \in 1 .. L + 1, NEW j \in 1 .. L + 1,
              r.tbl[c[i].name].kind \in Refs, r.tbl[c[i].name].owner = c[j].name
       PROVE  j < i
  <2>1. \A x, y \in 1 .. L : s.tbl[b[x].name].kind \in Refs /\ s.tbl[b[x].name].owner = b[y].name
                              => y < x
    BY DEF Book, Linked, b, L
  <2>2. CASE i = L + 1
    <3>1. j # L + 1
      BY <1>2, <1>6, <1>10, <2>2
    <3> QED BY <1>3, <2>2, <3>1
  <2>3. CASE i \in 1 .. L
    <3>1. /\ c[i] = b[i] /\ s.tbl[b[i].name].kind \in Refs
          /\ s.tbl[b[i].name].owner = c[j].name /\ c[j].name # n
      BY <1>2, <1>4, <1>5, <1>10, <2>3
    <3>2. j \in 1 .. L /\ c[j] = b[j]
      BY <1>2, <1>3, <1>6, <3>1
    <3> QED BY <2>1, <2>3, <3>1, <3>2
  <2> QED BY <1>3, <2>2, <2>3
<1> QED BY <1>2, <1>7, <1>8, <1>9, <1>10 DEF Linked, c

\* add_var of a row that borrows from nothing, for a name that had no row.
LEMMA AddOwnerBook ==
    ASSUME NEW s \in Checker, Book(s), NEW n \in Names, ~Tracked(s, n),
           NEW kind \in OwnKind, NEW d \in Nat
    PROVE  Book(AddVar(s, n, Fresh(kind, d, NoName)))
<1> DEFINE e == Fresh(kind, d, NoName)
           r == AddVar(s, n, e)
<1>1. e \in VarEntry /\ e.kind = kind /\ e.owner = NoName
  <2>1. e \in VarEntry
    BY FreshRow
  <2> QED BY <2>1 DEF Fresh
<1>2. /\ r \in Checker
      /\ \A m \in Names : r.tbl[m] = IF m = n THEN e ELSE s.tbl[m]
      /\ r.bindings = Append(s.bindings, [name |-> n, shadowed |-> s.tbl[n]])
  <2> HIDE DEF e
  <2> QED BY <1>1, AddVarAppends
<1>3. Accounts(r)
  <2> HIDE DEF r
  <2> QED BY <1>2, NewOwner DEF Book
<1>4. Linked(r)
  <2> HIDE DEF r, e
  <2>1. r.tbl[n] = e /\ kind # "None" /\ NoName # n
    BY <1>2, NamesAssumption DEF OwnKind, Owning, Refs
  <2>2. \A m \in Names : m # n => r.tbl[m].kind = s.tbl[m].kind /\ r.tbl[m].owner = s.tbl[m].owner
    BY <1>2
  <2> QED BY <1>1, <1>2, <2>1, <2>2, NewBinding
<1> QED BY <1>3, <1>4 DEF Book

\* begin_borrow, granted or refused.
LEMMA BeginBorrowBook ==
    ASSUME NEW s \in Checker, Book(s), NEW o \in Names, NEW a \in Names, o # a,
           ~Tracked(s, a), NEW mode \in Modes
    PROVE  Book(BeginBorrow(s, o, a, mode))
<1> DEFINE v == BorrowVerdict(s, o, mode)
           l == Lend(s.tbl[o], mode)
           lent == [s EXCEPT !.tbl[o] = l]
           kind == IF mode = "Read" THEN "RefRead" ELSE "RefWrite"
           e == Fresh(kind, s.depth, o)
           r == AddVar(lent, a, e)
<1>1. CASE v # "ok"
  <2>1. Keeps(s, Emit(s, v))
    BY <1>1, BorrowVerdictRule, EmitKeeps
  <2> QED BY <1>1, <2>1, KeepsBook DEF BeginBorrow
<1>2. CASE v = "ok"
  <2>1. l \in VarEntry /\ l.kind = s.tbl[o].kind /\ l.owner = s.tbl[o].owner
    <3>1. s.tbl[o] \in VarEntry
      BY RowFields
    <3>2. l \in VarEntry
      BY <3>1, LendRow
    <3> QED BY <3>1, <3>2 DEF Lend, VarEntry
  <2>2. /\ lent \in Checker /\ lent.bindings = s.bindings
        /\ \A m \in Names : lent.tbl[m] = IF m = o THEN l ELSE s.tbl[m]
    <3> HIDE DEF l
    <3> QED BY <2>1, SetRow
  <2>3. s.depth \in Nat /\ kind \in OwnKind \cup {"None"} /\ kind # "None"
    BY DEF Checker, OwnKind, Refs
  <2>4. e \in VarEntry /\ e.kind = kind /\ e.owner = o
    <3> HIDE DEF kind
    <3>1. e \in VarEntry
      BY <2>3, FreshRow
    <3> QED BY <3>1 DEF Fresh
  <2>5. /\ r \in Checker
        /\ \A m \in Names : r.tbl[m] = IF m = a THEN e ELSE lent.tbl[m]
        /\ r.bindings = Append(lent.bindings, [name |-> a, shadowed |-> lent.tbl[a]])
    <3> HIDE DEF lent, e
    <3> QED BY <2>2, <2>4, AddVarAppends
  <2>6. \A m \in Names : r.tbl[m] = IF m = a THEN e ELSE IF m = o THEN l ELSE s.tbl[m]
    <3> HIDE DEF r, e, l, lent
    <3> QED BY <2>2, <2>5
  <2>7. Accounts(r)
    <3>1. kind = IF mode = "Read" THEN "RefRead" ELSE "RefWrite"
      OBVIOUS
    <3> HIDE DEF r, kind
    <3> QED BY <1>2, <2>3, <2>6, <3>1, NewAlias DEF Book
  <2>8. Linked(r)
    <3> HIDE DEF r, e, l, lent, kind
    <3>1. lent.tbl[a] = s.tbl[a] /\ r.tbl[a] = e
      BY <2>2, <2>6
    <3>2. r.bindings = Append(s.bindings, [name |-> a, shadowed |-> s.tbl[a]])
      BY <2>2, <2>5, <3>1
    <3>3. \A m \in Names : m # a => r.tbl[m].kind = s.tbl[m].kind /\ r.tbl[m].owner = s.tbl[m].owner
      BY <2>1, <2>6
    <3> QED BY <2>3, <2>4, <2>5, <3>1, <3>2, <3>3, NewBinding
  <2> QED BY <1>2, <2>7, <2>8 DEF BeginBorrow, Book
<1> QED BY <1>1, <1>2

\* do_clone, done or refused.
LEMMA DoCloneBook ==
    ASSUME NEW s \in Checker, Book(s), NEW o \in Names, NEW a \in Names, ~Tracked(s, a)
    PROVE  Book(DoClone(s, o, a))
<1>1. s.depth \in Nat
  BY DEF Checker
<1>2. Tracked(s, o) => s.tbl[o].kind \in OwnKind
  BY RowFields DEF Tracked
<1>3. Tracked(s, o) => Book(AddVar(s, a, Fresh(s.tbl[o].kind, s.depth, NoName)))
  BY <1>1, <1>2, AddOwnerBook
<1>4. Book(Emit(s, "UseAfterMove")) /\ Book(Emit(s, "ConsumeWhileBorrowed"))
  BY EmitKeeps, KeepsBook DEF RuleKind
<1> QED BY <1>3, <1>4 DEF DoClone

\* No row comes or goes in an operation that keeps the rows.
LEMMA KeepsTracked ==
    ASSUME NEW s \in Checker, NEW r, Keeps(s, r), NEW n
    PROVE  Tracked(r, n) <=> Tracked(s, n)
BY KeepsColumns DEF Tracked

\* check_var_decl of a moved name.
LEMMA DeclareMovedBook ==
    ASSUME NEW s \in Checker, Book(s), NEW n \in Names, NEW src \in Names, ~Tracked(s, n)
    PROVE  Book(DeclareMoved(s, n, src))
<1> DEFINE r == MoveOut(s, src)
<1>1. Keeps(s, r) /\ r \in Checker
  BY ApplyAppsKeeps DEF MoveOut, Keeps
<1>2. Book(r) /\ ~Tracked(r, n)
  BY <1>1, KeepsBook, KeepsTracked
<1>3. Book(Emit(r, "BorrowEscape"))
  BY <1>1, <1>2, EmitKeeps, KeepsBook DEF RuleKind
<1>4. s.depth \in Nat
  BY DEF Checker
<1>5. s.tbl[src].kind \in Owning => Book(AddVar(r, n, Fresh(s.tbl[src].kind, s.depth, NoName)))
  <2> HIDE DEF r
  <2> QED BY <1>1, <1>2, <1>4, AddOwnerBook DEF OwnKind
<1> QED BY <1>2, <1>3, <1>5 DEF DeclareMoved

\* Nothing that is on loan may be assigned to.
Settled(s, n) == s.tbl[n].read_borrows + s.tbl[n].write_borrows = 0

\* What has no borrow counted has no alias.
LEMMA SettledUnborrowed ==
    ASSUME NEW s \in Checker, Book(s), NEW n \in Names, Settled(s, n)
    PROVE  AliasesIn(s, n, "RefRead") = {} /\ AliasesIn(s, n, "RefWrite") = {}
<1>1. CASE ~Tracked(s, n)
  <2>1. "RefRead" \in Refs /\ "RefWrite" \in Refs
    BY DEF Refs
  <2> QED BY <1>1, <2>1, NoAliasOfUntracked DEF Book
<1>2. CASE Tracked(s, n)
  <2>1. s.tbl[n].read_borrows = 0 /\ s.tbl[n].write_borrows = 0
    BY RowFields DEF Settled
  <2>2. Counted(s, n)
    BY <1>2 DEF Book, Accounts, Tracked, TrackedNames
  <2> QED BY <2>1, <2>2, AliasesFinite, FS_EmptySet DEF Counted
<1> QED BY <1>1, <1>2

\* finish_discarded_assignment_transfer onto a name that is not on loan.
LEMMA FinishTransferBook ==
    ASSUME NEW s \in Checker, Book(s), NEW dst \in Names, Settled(s, dst), NEW kind \in Owning
    PROVE  Book(FinishTransfer(s, dst, kind))
<1> DEFINE new == Fresh(kind, s.depth, NoName)
           q == RemoveVar(s, dst)
           r == [q EXCEPT !.tbl[dst] = new]
<1>1. s.depth \in Nat /\ kind \in OwnKind /\ kind \in OwnKind \cup {"None"} /\ kind \notin Refs
      /\ kind # "None"
  BY DEF Checker, OwnKind, Owning, Refs
<1>2. CASE ~Tracked(s, dst)
  BY <1>1, <1>2, AddOwnerBook DEF FinishTransfer
<1>3. CASE Tracked(s, dst)
  <2>1. /\ Accounts(q) /\ ~Tracked(q, dst)
        /\ \A m \in Names : m # dst => /\ q.tbl[m].kind = s.tbl[m].kind
                                       /\ q.tbl[m].owner = s.tbl[m].owner
    BY SettledUnborrowed, RowLeaves DEF Book
  <2>2. q \in Checker /\ q.bindings = s.bindings
    BY RemoveVarFrame
  <2>3. new \in VarEntry /\ new.kind = kind
    <3>1. new \in VarEntry
      BY <1>1, FreshRow
    <3> QED BY <3>1 DEF Fresh
  <2>4. /\ r \in Checker /\ r.bindings = s.bindings
        /\ \A m \in Names : r.tbl[m] = IF m = dst THEN new ELSE q.tbl[m]
    <3> HIDE DEF q, new
    <3> QED BY <2>2, <2>3, SetRow
  <2>5. Accounts(r)
    <3> HIDE DEF q, r
    <3> QED BY <1>1, <2>1, <2>2, <2>4, NewOwner
  <2>6. Linked(r)
    <3> HIDE DEF q, r, new
    <3>1. \A m \in Names : Tracked(r, m) <=> Tracked(s, m)
      BY <1>1, <1>3, <2>1, <2>3, <2>4 DEF Tracked
    <3>2. \A m \in Names : r.tbl[m].kind \in Refs => /\ s.tbl[m].kind \in Refs
                                                    /\ r.tbl[m].owner = s.tbl[m].owner
      BY <1>1, <2>1, <2>3, <2>4
    <3>3. \A i \in 1 .. Len(s.bindings) : s.bindings[i].name \in Names
      BY BindingFields
    <3> QED BY <2>4, <3>1, <3>2, <3>3 DEF Book, Linked
  <2> QED BY <1>3, <2>5, <2>6 DEF FinishTransfer, Book
<1> QED BY <1>2, <1>3

\* The assignment statement onto a name that is not on loan.
LEMMA AssignStatementBook ==
    ASSUME NEW s \in Checker, Book(s), NEW dst \in Names, NEW src \in Names, Settled(s, dst)
    PROVE  Book(AssignStatement(s, dst, src))
<1> DEFINE moved == MoveOut(s, src)
           checked == IF s.tbl[src].kind \in Refs THEN Emit(moved, "BorrowEscape") ELSE moved
<1>1. Keeps(s, checked)
  <2>1. Keeps(s, moved) /\ moved \in Checker
    BY ApplyAppsKeeps DEF MoveOut, Keeps
  <2>2. Keeps(moved, Emit(moved, "BorrowEscape"))
    BY <2>1, EmitKeeps DEF RuleKind
  <2> HIDE DEF moved
  <2> QED BY <2>1, <2>2, KeepsTwice
<1> HIDE DEF checked
<1>2. checked \in Checker /\ Book(checked) /\ Settled(checked, dst)
  <2>1. checked \in Checker /\ Book(checked)
    BY <1>1, KeepsBook DEF Keeps
  <2>2. /\ checked.tbl[dst].read_borrows = s.tbl[dst].read_borrows
        /\ checked.tbl[dst].write_borrows = s.tbl[dst].write_borrows
    BY <1>1, KeepsColumns
  <2> QED BY <2>1, <2>2 DEF Settled
<1>3. s.tbl[src].kind \in Owning => Book(FinishTransfer(checked, dst, s.tbl[src].kind))
  BY <1>2, FinishTransferBook
<1> QED BY <1>2, <1>3 DEF AssignStatement, PlansTransfer, checked

-----------------------------------------------------------------------------
\* The rows make the accounts.
LEMMA SameAccounts ==
    ASSUME NEW s, NEW r, Accounts(s), r.tbl = s.tbl
    PROVE  Accounts(r)
<1>1. \A o, kind : AliasesIn(r, o, kind) = AliasesIn(s, o, kind)
  BY DEF AliasesIn
<1>2. TrackedNames(r) = TrackedNames(s) /\ \A n : Tracked(r, n) <=> Tracked(s, n)
  BY DEF TrackedNames, Tracked
<1>3. \A o : (Counted(s, o) => Counted(r, o)) /\ (Exclusive(s, o) => Exclusive(r, o))
  BY <1>1 DEF Counted, Exclusive
<1>4. \A a : Rooted(s, a) => Rooted(r, a)
  BY <1>2 DEF Rooted
<1> QED BY <1>2, <1>3, <1>4 DEF Accounts

\* The rows and the bindings alone make a book.
LEMMA SameBook ==
    ASSUME NEW s, NEW r, Book(s), r.tbl = s.tbl, r.bindings = s.bindings
    PROVE  Book(r)
<1>1. \A n : Tracked(r, n) <=> Tracked(s, n)
  BY DEF Tracked
<1>2. Linked(r)
  BY <1>1 DEF Book, Linked
<1> QED BY <1>2, SameAccounts DEF Book

\* One binding is undone: its row leaves, and nothing borrows from it, since
\* an alias of it would be bound later.
LEMMA PopBindingBook ==
    ASSUME NEW s \in Checker, Book(s), Len(s.bindings) > 0
    PROVE  Book(PopBinding(s))
<1> DEFINE L == Len(s.bindings)
           q == [s EXCEPT !.bindings = SubSeq(@, 1, Len(@) - 1)]
           n == s.bindings[L].name
           r == RemoveVar(q, n)
<1>1. /\ q \in Checker /\ q.tbl = s.tbl /\ Len(q.bindings) = L - 1
      /\ \A i \in 1 .. L - 1 : q.bindings[i] = s.bindings[i]
  BY ShorterBindings
<1>2. L \in Nat /\ L \in 1 .. L /\ \A i \in 1 .. L - 1 : i \in 1 .. L /\ i # L
  BY BindingsLength
<1>3. /\ \A m \in Names : Tracked(s, m) <=> \E i \in 1 .. L : s.bindings[i].name = m
      /\ \A i, j \in 1 .. L : s.bindings[i].name = s.bindings[j].name => i = j
      /\ \A i \in 1 .. L : s.bindings[i].shadowed.kind = "None"
      /\ \A i, j \in 1 .. L :
            s.tbl[s.bindings[i].name].kind \in Refs /\ s.tbl[s.bindings[i].name].owner = s.bindings[j].name
               => j < i
  BY DEF Book, Linked
<1>4. n \in Names /\ \A i \in 1 .. L : s.bindings[i].name \in Names
  BY <1>2, BindingFields
<1> HIDE DEF L, q, n
<1>5. Accounts(q)
  BY <1>1, SameAccounts DEF Book
<1>6. ASSUME NEW k \in Refs PROVE AliasesIn(q, n, k) = {}
  <2>1. SUFFICES ASSUME NEW a \in AliasesIn(q, n, k) PROVE FALSE
    OBVIOUS
  <2>2. a \in Names /\ s.tbl[a].kind \in Refs /\ s.tbl[a].owner = n
    BY <1>1, <2>1 DEF AliasesIn
  <2>3. Tracked(s, a)
    BY <2>2 DEF Tracked, Refs
  <2>4. PICK i \in 1 .. L : s.bindings[i].name = a
    BY <1>3, <2>2, <2>3
  <2>5. L < i
    BY <1>2, <1>3, <2>2, <2>4 DEF n
  <2> QED BY <1>2, <2>4, <2>5
<1>7. /\ Accounts(r) /\ ~Tracked(r, n)
      /\ \A m \in Names : m # n => /\ r.tbl[m].kind = s.tbl[m].kind
                                   /\ r.tbl[m].owner = s.tbl[m].owner
  <2>1. "RefRead" \in Refs /\ "RefWrite" \in Refs
    BY DEF Refs
  <2> QED BY <1>1, <1>4, <1>5, <1>6, <2>1, RowLeaves
<1>8. r \in Checker /\ r.bindings = q.bindings
  BY <1>1, <1>4, RemoveVarFrame
<1>9. PopBinding(s) = r
  BY <1>2, <1>3 DEF PopBinding, q, n, L
<1> HIDE DEF r
<1>10. \A i \in 1 .. L - 1 : s.bindings[i].name # n
  BY <1>2, <1>3 DEF n
<1>11. Linked(r)
  <2>1. Len(r.bindings) = L - 1 /\ \A i \in 1 .. L - 1 : r.bindings[i] = s.bindings[i]
    BY <1>1, <1>8
  <2>2. ASSUME NEW m \in Names
        PROVE  Tracked(r, m) <=> \E i \in 1 .. L - 1 : r.bindings[i].name = m
    <3>1. CASE m = n
      BY <1>7, <1>10, <2>1, <3>1
    <3>2. CASE m # n
      <4>1. Tracked(r, m) <=> \E i \in 1 .. L : s.bindings[i].name = m
        BY <1>3, <1>7, <3>2 DEF Tracked
      <4>2. \A i \in 1 .. L : i \in 1 .. L - 1 \/ s.bindings[i].name = n
        BY <1>2 DEF n
      <4> QED BY <1>2, <2>1, <3>2, <4>1, <4>2
    <3> QED BY <3>1, <3>2
  <2>3. ASSUME NEW i \in 1 .. L - 1, NEW j \in 1 .. L - 1
        PROVE  /\ r.bindings[i].name = r.bindings[j].name => i = j
               /\ r.bindings[i].shadowed.kind = "None"
               /\ r.tbl[r.bindings[i].name].kind \in Refs
                     /\ r.tbl[r.bindings[i].name].owner = r.bindings[j].name => j < i
    <3>1. /\ r.bindings[i] = s.bindings[i] /\ r.bindings[j] = s.bindings[j]
          /\ i \in 1 .. L /\ j \in 1 .. L
      BY <1>2, <2>1
    <3>2. /\ r.tbl[s.bindings[i].name].kind = s.tbl[s.bindings[i].name].kind
          /\ r.tbl[s.bindings[i].name].owner = s.tbl[s.bindings[i].name].owner
      BY <1>4, <1>7, <1>10, <3>1
    <3> QED BY <1>3, <3>1, <3>2
  <2> QED BY <2>1, <2>2, <2>3 DEF Linked
<1> QED BY <1>7, <1>9, <1>11 DEF Book

\* So it is for any number of bindings, youngest first.
LEMMA PoppedBook ==
    ASSUME NEW s \in Checker, Book(s), NEW k \in 0 .. Len(s.bindings)
    PROVE  Book(Popped(s, k))
<1> DEFINE L == Len(s.bindings)
<1>1. k \in Nat /\ L \in Nat /\ k <= L
  BY BindingsLength
<1>2. PICK pop : /\ pop = [i \in 0 .. k |-> IF i = 0 THEN s ELSE PopBinding(pop[i - 1])]
                 /\ Popped(s, k) = pop[k]
  BY <1>1, PopRounds
<1> DEFINE Good(i) == pop[i] \in Checker /\ Len(pop[i].bindings) = L - i /\ Book(pop[i])
           T == {i \in 0 .. k : ~ Good(i)}
<1>3. SUFFICES ASSUME T # {} PROVE FALSE
  <2>1. k \in 0 .. k
    BY <1>1
  <2>2. T = {} => Good(k)
    BY <2>1
  <2> QED BY <1>2, <2>2
<1>4. PICK m \in T : \A n \in T : m <= n
  <2>1. T \subseteq Nat
    OBVIOUS
  <2> QED BY <2>1, <1>3, Least
<1>5. m # 0
  <2>1. pop[0] = s
    BY <1>1, <1>2
  <2>2. Good(0)
    BY <1>1, <2>1
  <2> QED BY <2>2
<1>6. Good(m - 1)
  <2>1. m - 1 \in 0 .. k /\ m - 1 \notin T
    BY <1>4, <1>5
  <2> QED BY <2>1
<1>7. pop[m] = PopBinding(pop[m - 1])
  BY <1>2, <1>5
<1>8. m \in 1 .. k
  BY <1>1, <1>5
<1>9. Good(m)
  <2>1. Len(pop[m - 1].bindings) > 0
    BY <1>1, <1>6, <1>8
  <2>2. /\ PopBinding(pop[m - 1]) \in Checker
        /\ Len(PopBinding(pop[m - 1]).bindings) = Len(pop[m - 1].bindings) - 1
        /\ Book(PopBinding(pop[m - 1]))
    BY <2>1, <1>6, PopBindingFrame, PopBindingBook
  <2> HIDE DEF L
  <2> QED BY <2>2, <1>1, <1>6, <1>7, <1>8
<1> QED BY <1>9, <1>4

\* The end of a scope.
LEMMA PopScopeBook ==
    ASSUME NEW s \in Checker, Book(s), Len(s.marks) > 0, s.marks[Len(s.marks)] <= Len(s.bindings)
    PROVE  Book(PopScope(s))
<1> DEFINE m == s.marks[Len(s.marks)]
           k == Len(s.bindings) - m
           q == Popped(s, k)
<1>1. s.marks \in Seq(Nat) /\ Len(s.marks) \in Nat /\ Len(s.marks) \in 1 .. Len(s.marks)
  BY LenProperties DEF Checker
<1>2. m \in Nat /\ Len(s.bindings) \in Nat
  BY <1>1, ElementOfSeq, BindingsLength
<1>3. k \in 0 .. Len(s.bindings)
  BY <1>2
<1>4. q \in Checker /\ Book(q)
  <2> HIDE DEF k
  <2> QED BY <1>3, PoppedFrame, PoppedBook
<1>5. PopScope(s).tbl = q.tbl /\ PopScope(s).bindings = q.bindings
  <2>1. PopScope(s) = [q EXCEPT !.marks = SubSeq(@, 1, Len(@) - 1)]
    BY DEF PopScope
  <2> HIDE DEF q
  <2> QED BY <1>4, <2>1 DEF Checker
<1> HIDE DEF q
<1> QED BY <1>4, <1>5, SameBook

-----------------------------------------------------------------------------
(* Owner links *)

\* One link on: a borrow's owner, anything else itself.
Link(s, n) == IF Tracked(s, n) /\ s.tbl[n].kind \in Refs THEN s.tbl[n].owner ELSE n

\* The links from n, one by one: k + 1 names, the last the one asked for.
LEMMA LinkRounds ==
    ASSUME NEW s, NEW n, NEW k \in Nat
    PROVE  \E link : /\ link = [i \in 0 .. k |-> IF i = 0 THEN n ELSE Link(s, link[i - 1])]
                     /\ OwnerLink(s, n, k) = link[k]
<1> DEFINE Rounds(g, m) == g = [i \in 0 .. m |-> IF i = 0 THEN n ELSE Link(s, g[i - 1])]
           T == {m \in Nat : ~ \E g : Rounds(g, m)}
<1>1. T = {}
  <2>1. SUFFICES ASSUME T # {} PROVE FALSE
    OBVIOUS
  <2>2. PICK m \in T : \A j \in T : m <= j
    <3>1. T \subseteq Nat
      OBVIOUS
    <3> QED BY <3>1, <2>1, Least
  <2>3. CASE m = 0
    <3> DEFINE g == [i \in 0 .. 0 |-> n]
    <3>1. g = [i \in 0 .. 0 |-> IF i = 0 THEN n ELSE Link(s, g[i - 1])]
      OBVIOUS
    <3> QED BY <3>1, <2>2, <2>3
  <2>4. CASE m # 0
    <3>1. m - 1 \in Nat /\ m \in Nat /\ m - 1 \notin T
      BY <2>2, <2>4
    <3>2. PICK g : Rounds(g, m - 1)
      BY <3>1
    <3> DEFINE h == [i \in 0 .. m |-> IF i = m THEN Link(s, g[m - 1]) ELSE g[i]]
    <3>3. ASSUME NEW i \in 0 .. m
          PROVE  h[i] = IF i = 0 THEN n ELSE Link(s, h[i - 1])
      BY <3>1, <3>2, <2>4
    <3>4. h = [i \in 0 .. m |-> IF i = 0 THEN n ELSE Link(s, h[i - 1])]
      BY <3>3
    <3> QED BY <3>4, <2>2
  <2> QED BY <2>3, <2>4
<1> DEFINE link == CHOOSE g : Rounds(g, k)
<1>2. Rounds(link, k)
  BY <1>1
<1>3. OwnerLink(s, n, k) = link[k]
  BY DEF OwnerLink, Link
<1> QED BY <1>2, <1>3

\* There are no more bindings than names.
LEMMA BindingsFewer ==
    ASSUME NEW s \in Checker, Linked(s)
    PROVE  /\ Cardinality(Names) \in Nat /\ Len(s.bindings) \in Nat
           /\ Len(s.bindings) <= Cardinality(Names)
<1> DEFINE L == Len(s.bindings)
           pos == [i \in 1 .. L |-> s.bindings[i].name]
<1>1. L \in Nat /\ Cardinality(Names) \in Nat
  BY BindingsLength, NamesAssumption, FS_CardinalityType
<1>2. pos \in Injection(1 .. L, Names)
  <2>1. pos \in [1 .. L -> Names]
    BY BindingFields
  <2>2. \A i, j \in 1 .. L : pos[i] = pos[j] => i = j
    BY DEF Linked
  <2> QED BY <2>1, <2>2 DEF Injection, IsInjective
<1>3. Cardinality(1 .. L) <= Cardinality(Names)
  <2> HIDE DEF pos, L
  <2> QED BY <1>2, NamesAssumption, FS_Injection
<1>4. Cardinality(1 .. L) = L
  BY <1>1, FS_Interval
<1> QED BY <1>1, <1>3, <1>4

\* Each link leads to an older binding, so after as many links as there are
\* names no borrow is left.
LEMMA LinksEnd ==
    ASSUME NEW s \in Checker, Linked(s), NEW n \in Names, Root(s, n) \in Names
    PROVE  s.tbl[Root(s, n)].kind \notin Refs
<1> DEFINE K == Cardinality(Names)
           L == Len(s.bindings)
<1>1. K \in Nat /\ L \in Nat /\ L <= K
  BY BindingsFewer
<1>2. PICK link : /\ link = [i \in 0 .. K |-> IF i = 0 THEN n ELSE Link(s, link[i - 1])]
                  /\ OwnerLink(s, n, K) = link[K]
  BY <1>1, LinkRounds
<1> DEFINE Alias(i) == Tracked(s, link[i]) /\ s.tbl[link[i]].kind \in Refs
           Deep(i) == Alias(i) => \E p \in 1 .. L : s.bindings[p].name = link[i] /\ p + i <= L
           T == {i \in 0 .. K : ~ Deep(i)}
<1>3. SUFFICES ASSUME T # {} PROVE FALSE
  <2>1. T = {} => Deep(K)
    BY <1>1
  <2>2. Alias(K) => Tracked(s, link[K])
    OBVIOUS
  <2>3. Deep(K) => ~Alias(K)
    BY <1>1
  <2>4. s.tbl[Root(s, n)].kind \in Refs => Alias(K)
    BY <1>2 DEF Root, Tracked, Refs
  <2> QED BY <2>1, <2>3, <2>4
<1>4. PICK m \in T : \A i \in T : m <= i
  <2>1. T \subseteq Nat
    OBVIOUS
  <2> QED BY <2>1, <1>3, Least
<1>5. \A a \in Names : Tracked(s, a) => \E p \in 1 .. L : s.bindings[p].name = a
  BY DEF Linked
<1>6. m # 0
  <2>1. link[0] = n
    BY <1>1, <1>2
  <2>2. Deep(0)
    BY <1>1, <1>5, <2>1
  <2> QED BY <2>2
<1>7. m - 1 \in 0 .. K /\ Deep(m - 1) /\ link[m] = Link(s, link[m - 1])
  <2>1. m \in 0 .. K /\ m - 1 \in 0 .. K
    BY <1>1, <1>6
  <2>2. m - 1 \notin T
    BY <1>4, <2>1
  <2>3. link[m] = Link(s, link[m - 1])
    BY <1>2, <1>6, <2>1
  <2> QED BY <2>1, <2>2, <2>3
<1>8. Alias(m) /\ ~Deep(m)
  BY <1>4
<1>9. Alias(m - 1) /\ link[m] = s.tbl[link[m - 1]].owner
  BY <1>7, <1>8 DEF Link
<1>10. PICK p \in 1 .. L : s.bindings[p].name = link[m - 1] /\ p + (m - 1) <= L
  BY <1>7, <1>9
<1>11. PICK q \in 1 .. L : s.bindings[q].name = link[m]
  BY <1>5, <1>8 DEF Tracked
<1>12. q < p
  BY <1>9, <1>10, <1>11 DEF Linked
<1>13. q + m <= L
  BY <1>1, <1>4, <1>10, <1>12
<1> QED BY <1>8, <1>11, <1>13

\* An owner that is reached through a borrow is borrowed from.
LEMMA RootBorrowed ==
    ASSUME NEW s, NEW n \in Names, s.tbl[n].kind \in Refs,
           Tracked(s, Root(s, n)), s.tbl[Root(s, n)].kind \in Owning
    PROVE  \E kind \in Refs : AliasesIn(s, Root(s, n), kind) # {}
<1> DEFINE K == Cardinality(Names)
           o == Root(s, n)
<1>1. K \in Nat
  BY NamesAssumption, FS_CardinalityType
<1>2. PICK link : /\ link = [i \in 0 .. K |-> IF i = 0 THEN n ELSE Link(s, link[i - 1])]
                  /\ OwnerLink(s, n, K) = link[K]
  BY <1>1, LinkRounds
<1> DEFINE T == {i \in 0 .. K : link[i] = o}
<1>3. K \in T
  BY <1>1, <1>2 DEF Root
<1>4. PICK m \in T : \A i \in T : m <= i
  <2>1. T \subseteq Nat /\ T # {}
    BY <1>3
  <2> QED BY <2>1, Least
<1>5. s.tbl[o].kind \notin Refs
  BY DEF Owning, Refs
<1>6. m # 0
  BY <1>1, <1>2, <1>5
<1>7. m - 1 \in 0 .. K /\ link[m - 1] # o
  BY <1>1, <1>4, <1>6
<1>8. o = Link(s, link[m - 1])
  BY <1>2, <1>4, <1>6
<1>9. /\ link[m - 1] \in Names /\ s.tbl[link[m - 1]].kind \in Refs
      /\ s.tbl[link[m - 1]].owner = o
  BY <1>7, <1>8 DEF Link, Tracked
<1> HIDE DEF o
<1>10. link[m - 1] \in AliasesIn(s, o, s.tbl[link[m - 1]].kind)
  BY <1>9 DEF AliasesIn
<1> QED BY <1>9, <1>10 DEF o

\* What keeps the kinds and the owners keeps the links.
LEMMA KeepsRoot ==
    ASSUME NEW s \in Checker, NEW r, Keeps(s, r), NEW n \in Names
    PROVE  Root(r, n) = Root(s, n)
<1> DEFINE K == Cardinality(Names)
<1>1. K \in Nat
  BY NamesAssumption, FS_CardinalityType
<1>2. PICK g : /\ g = [i \in 0 .. K |-> IF i = 0 THEN n ELSE Link(s, g[i - 1])]
               /\ OwnerLink(s, n, K) = g[K]
  BY <1>1, LinkRounds
<1>3. PICK h : /\ h = [i \in 0 .. K |-> IF i = 0 THEN n ELSE Link(r, h[i - 1])]
               /\ OwnerLink(r, n, K) = h[K]
  BY <1>1, LinkRounds
<1>4. \A a : Link(r, a) = Link(s, a)
  BY KeepsColumns, KeepsTracked DEF Link, Tracked
<1> DEFINE T == {i \in 0 .. K : g[i] # h[i]}
<1>5. SUFFICES ASSUME T # {} PROVE FALSE
  BY <1>1, <1>2, <1>3 DEF Root
<1>6. PICK m \in T : \A i \in T : m <= i
  <2>1. T \subseteq Nat
    OBVIOUS
  <2> QED BY <2>1, <1>5, Least
<1>7. m # 0
  BY <1>1, <1>2, <1>3
<1>8. m - 1 \in 0 .. K /\ g[m - 1] = h[m - 1]
  BY <1>1, <1>6, <1>7
<1>9. g[m] = Link(s, g[m - 1]) /\ h[m] = Link(r, h[m - 1])
  BY <1>2, <1>3, <1>7
<1> QED BY <1>4, <1>8, <1>9

-----------------------------------------------------------------------------
(* What one use of a name does *)

\* What the use moves out: the name's own value, if anything.
MovedBy(s, n, a) ==
    IF /\ s.tbl[n].kind \in Owning /\ Decide(s.tbl[n].state, a) = "consume"
       /\ s.depth = s.tbl[n].loop_depth
    THEN {n} ELSE {}

\* The rules a use of an owning name reports.
OwnedSays(s, n, a) ==
    LET v == Decide(s.tbl[n].state, a)
    IN  CASE v = "ok" -> {}
          [] v = "consume" -> IF s.depth = s.tbl[n].loop_depth THEN {} ELSE {"ConsumeInLoop"}
          [] OTHER -> {v}

\* The rules a use reports: the name's own, or those of what it borrows from.
Says(s, n, a) ==
    CASE s.tbl[n].kind \in Owning -> OwnedSays(s, n, a)
      [] s.tbl[n].kind \in Refs /\ a.consumed > 0 /\ Tracked(s, Root(s, n))
            /\ s.tbl[Root(s, n)].kind \in Owning -> OwnedSays(s, Root(s, n), Move)
      [] OTHER -> {}

\* r is s after the values in S were moved out and the rules reported.
UsedAs(s, r, S, rules) ==
    /\ r \in Checker
    /\ r.bindings = s.bindings /\ r.marks = s.marks /\ r.depth = s.depth
    /\ \A m \in Names : r.tbl[m] = IF m \in S THEN [s.tbl[m] EXCEPT !.state = "Consumed"]
                                   ELSE s.tbl[m]
    /\ r.diags = s.diags \cup rules

\* No rule of the decision table reports a value lost.
LEMMA DecideNotForget ==
    ASSUME NEW state \in VarState, NEW a
    PROVE  Decide(state, a) # "UniqueForget"
<1>1. \A c : Part(c) \in {"Zero", "One", "More"}
  BY DEF Part
<1> QED BY <1>1 DEF Decide, VarState

\* Only an unconsumed value is moved out.
LEMMA ConsumesUnconsumed ==
    ASSUME NEW state \in VarState, NEW a, Decide(state, a) = "consume"
    PROVE  state = "Unconsumed"
<1>1. \A c : Part(c) \in {"Zero", "One", "More"}
  BY DEF Part
<1> QED BY <1>1 DEF Decide, VarState

\* Reporting a rule, in the form above.
LEMMA EmitUse ==
    ASSUME NEW s \in Checker, NEW rule \in RuleKind
    PROVE  UsedAs(s, Emit(s, rule), {}, {rule})
BY DEF UsedAs, Emit, Checker

\* Doing nothing, in the form above.
LEMMA NoUse ==
    ASSUME NEW s \in Checker
    PROVE  UsedAs(s, s, {}, {})
BY DEF UsedAs

\* Moving a value out, in the form above.
LEMMA SpendUse ==
    ASSUME NEW s \in Checker, NEW n \in Names
    PROVE  UsedAs(s, [s EXCEPT !.tbl[n].state = "Consumed"], {n}, {})
<1> DEFINE r == [s EXCEPT !.tbl[n].state = "Consumed"]
<1>1. r \in Checker
  BY SpendKeeps DEF Keeps
<1>2. /\ r.bindings = s.bindings /\ r.marks = s.marks /\ r.depth = s.depth
      /\ r.diags = s.diags \cup {}
      /\ r.tbl = [s.tbl EXCEPT ![n] = [s.tbl[n] EXCEPT !.state = "Consumed"]]
  BY RowFields DEF Checker
<1>3. \A m \in Names : r.tbl[m] = IF m = n THEN [s.tbl[m] EXCEPT !.state = "Consumed"] ELSE s.tbl[m]
  BY <1>2 DEF Checker
<1> QED BY <1>1, <1>2, <1>3 DEF UsedAs

\* A use of an owning name.
LEMMA OwnedUse ==
    ASSUME NEW s \in Checker, NEW n \in Names, s.tbl[n].kind \in Owning, NEW a
    PROVE  /\ UsedAs(s, ApplyOwned(s, n, a), MovedBy(s, n, a), OwnedSays(s, n, a))
           /\ MovedBy(s, n, a) # {} => s.tbl[n].state = "Unconsumed"
           /\ "UniqueForget" \notin OwnedSays(s, n, a)
<1> DEFINE v == Decide(s.tbl[n].state, a)
<1>1. /\ v \in RuleKind \cup {"ok", "consume"} /\ v # "UniqueForget"
      /\ v = "consume" => s.tbl[n].state = "Unconsumed"
  BY RowFields, DecideRule, DecideNotForget, ConsumesUnconsumed
<1>2. /\ "ConsumeInLoop" \in RuleKind /\ "ConsumeInLoop" # "UniqueForget"
      /\ "ok" \notin RuleKind /\ "consume" \notin RuleKind
  BY DEF RuleKind
<1> HIDE DEF v
<1>3. CASE v = "ok"
  <2>1. ApplyOwned(s, n, a) = s /\ MovedBy(s, n, a) = {} /\ OwnedSays(s, n, a) = {}
    BY <1>3 DEF ApplyOwned, MovedBy, OwnedSays, v
  <2> QED BY <2>1, NoUse
<1>4. CASE v = "consume" /\ s.depth = s.tbl[n].loop_depth
  <2>1. /\ ApplyOwned(s, n, a) = [s EXCEPT !.tbl[n].state = "Consumed"]
        /\ MovedBy(s, n, a) = {n} /\ OwnedSays(s, n, a) = {}
    BY <1>4 DEF ApplyOwned, ConsumeOnce, MovedBy, OwnedSays, v
  <2> QED BY <1>1, <1>4, <2>1, SpendUse
<1>5. CASE v = "consume" /\ s.depth # s.tbl[n].loop_depth
  <2>1. /\ ApplyOwned(s, n, a) = Emit(s, "ConsumeInLoop")
        /\ MovedBy(s, n, a) = {} /\ OwnedSays(s, n, a) = {"ConsumeInLoop"}
    BY <1>5 DEF ApplyOwned, ConsumeOnce, MovedBy, OwnedSays, v
  <2> QED BY <1>2, <2>1, EmitUse
<1>6. CASE v \in RuleKind
  <2>1. ApplyOwned(s, n, a) = Emit(s, v) /\ MovedBy(s, n, a) = {} /\ OwnedSays(s, n, a) = {v}
    BY <1>2, <1>6 DEF ApplyOwned, MovedBy, OwnedSays, v
  <2> QED BY <1>1, <1>6, <2>1, EmitUse
<1> QED BY <1>1, <1>3, <1>4, <1>5, <1>6

\* What a borrow leads to is on loan, or already given up.
LEMMA RootNotUnconsumed ==
    ASSUME NEW s \in Checker, Book(s), NEW n \in Names, s.tbl[n].kind \in Refs,
           Tracked(s, Root(s, n)), s.tbl[Root(s, n)].kind \in Owning
    PROVE  s.tbl[Root(s, n)].state # "Unconsumed"
<1>1. PICK kind \in Refs : AliasesIn(s, Root(s, n), kind) # {}
  BY RootBorrowed
<1>2. Counted(s, Root(s, n))
  BY DEF Book, Accounts, Tracked, TrackedNames
<1> QED BY <1>1, <1>2 DEF Counted, Refs

\* A use of any name: only an owning name's own use moves a value out, since
\* what is reached through a borrow is on loan.
LEMMA UseOf ==
    ASSUME NEW s \in Checker, Book(s), NEW n \in Names, NEW a
    PROVE  /\ UsedAs(s, ApplyApps(s, n, a), MovedBy(s, n, a), Says(s, n, a))
           /\ MovedBy(s, n, a) # {} => s.tbl[n].state = "Unconsumed"
           /\ "UniqueForget" \notin Says(s, n, a)
<1> DEFINE o == Root(s, n)
<1>1. "None" \notin Owning /\ "None" \notin Refs /\ Owning \cap Refs = {}
  BY DEF Owning, Refs
<1>2. CASE s.tbl[n].kind \in Owning
  <2>1. Tracked(s, n)
    BY <1>1, <1>2 DEF Tracked
  <2>2. ApplyApps(s, n, a) = ApplyOwned(s, n, a) /\ Says(s, n, a) = OwnedSays(s, n, a)
    BY <1>1, <1>2, <2>1 DEF ApplyApps, Says
  <2> QED BY <1>2, <2>2, OwnedUse
<1>3. CASE s.tbl[n].kind \in Refs /\ a.consumed > 0 /\ Tracked(s, o) /\ s.tbl[o].kind \in Owning
  <2>1. Tracked(s, n) /\ s.tbl[n].kind \notin Owning
    BY <1>1, <1>3 DEF Tracked
  <2>2. ApplyApps(s, n, a) = ApplyOwned(s, o, Move) /\ Says(s, n, a) = OwnedSays(s, o, Move)
    BY <1>3, <2>1 DEF ApplyApps, Says
  <2>3. MovedBy(s, n, a) = {}
    BY <2>1 DEF MovedBy
  <2>4. o \in Names /\ s.tbl[o].state # "Unconsumed"
    BY <1>3, RootNotUnconsumed DEF Tracked
  <2>5. /\ UsedAs(s, ApplyOwned(s, o, Move), MovedBy(s, o, Move), OwnedSays(s, o, Move))
        /\ MovedBy(s, o, Move) = {} /\ "UniqueForget" \notin OwnedSays(s, o, Move)
    <3> HIDE DEF o
    <3> QED BY <1>3, <2>4, OwnedUse
  <2>6. UsedAs(s, ApplyOwned(s, o, Move), {}, OwnedSays(s, o, Move))
    BY <2>5
  <2> QED BY <2>2, <2>3, <2>5, <2>6
<1>4. CASE /\ s.tbl[n].kind \notin Owning
           /\ ~(s.tbl[n].kind \in Refs /\ a.consumed > 0 /\ Tracked(s, o) /\ s.tbl[o].kind \in Owning)
  <2>1. ApplyApps(s, n, a) = s /\ Says(s, n, a) = {} /\ MovedBy(s, n, a) = {}
    BY <1>4 DEF ApplyApps, Says, MovedBy
  <2> QED BY <2>1, NoUse
<1> QED BY <1>2, <1>3, <1>4

\* Two uses one after the other.
LEMMA UsedTwice ==
    ASSUME NEW s \in Checker, NEW r, NEW q, NEW S, NEW T, NEW rules, NEW more,
           UsedAs(s, r, S, rules), UsedAs(r, q, T, more)
    PROVE  UsedAs(s, q, S \cup T, rules \cup more)
<1>1. \A m \in Names :
        /\ r.tbl[m] = IF m \in S THEN [s.tbl[m] EXCEPT !.state = "Consumed"] ELSE s.tbl[m]
        /\ q.tbl[m] = IF m \in T THEN [r.tbl[m] EXCEPT !.state = "Consumed"] ELSE r.tbl[m]
  BY DEF UsedAs
<1>2. \A m \in Names : [[s.tbl[m] EXCEPT !.state = "Consumed"] EXCEPT !.state = "Consumed"]
                          = [s.tbl[m] EXCEPT !.state = "Consumed"]
  BY RowFields DEF VarEntry
<1>3. \A m \in Names : q.tbl[m] = IF m \in S \cup T THEN [s.tbl[m] EXCEPT !.state = "Consumed"]
                                  ELSE s.tbl[m]
  BY <1>1, <1>2
<1> QED BY <1>3 DEF UsedAs

\* A use keeps the rows.
LEMMA UsedKeeps ==
    ASSUME NEW s \in Checker, NEW r, NEW S, NEW rules, UsedAs(s, r, S, rules)
    PROVE  Keeps(s, r)
<1>1. \A n \in Names : /\ r.tbl[n] = [s.tbl[n] EXCEPT !.state = r.tbl[n].state]
                       /\ r.tbl[n].state \in {s.tbl[n].state, "Consumed"}
  BY RowFields DEF UsedAs, VarEntry
<1> QED BY <1>1 DEF UsedAs, Keeps

-----------------------------------------------------------------------------
(* What a scope's end leaves *)

\* remove_var takes one row away, and reports it if a value is lost; the others
\* stay what they are, save that an owner may be given back.
LEMMA RemoveVarView ==
    ASSUME NEW s \in Checker, NEW n \in Names
    PROVE  LET r == RemoveVar(s, n)
           IN  /\ r.tbl[n].kind = "None" /\ s.diags \subseteq r.diags
               /\ n \in Forgotten(s) => "UniqueForget" \in r.diags
               /\ \A m \in Names : m # n =>
                    /\ r.tbl[m].kind = s.tbl[m].kind /\ r.tbl[m].owner = s.tbl[m].owner
                    /\ r.tbl[m].loop_depth = s.tbl[m].loop_depth
                    /\ (r.tbl[m].state = "Consumed" <=> s.tbl[m].state = "Consumed")
<1> DEFINE e == s.tbl[n]
           gone == [s EXCEPT !.tbl[n] = NoEntry]
           kept == Emit(gone, "UniqueForget")
           back == EndBorrow(gone, e.owner, e.kind)
           r == RemoveVar(s, n)
<1>1. /\ gone \in Checker /\ gone.diags = s.diags
      /\ \A m \in Names : gone.tbl[m] = IF m = n THEN NoEntry ELSE s.tbl[m]
  BY SetRow, NoRow
<1>2. e.owner \in Names \cup {NoName}
  BY RowFields
<1>3. r \in {gone, kept} \/ (e.owner \in Names /\ r = back)
  BY <1>2 DEF RemoveVar
<1>4. /\ kept.tbl = gone.tbl /\ s.diags \subseteq kept.diags
      /\ n \in Forgotten(s) => r = kept
      /\ "UniqueForget" \in kept.diags
  <2>1. n \in Forgotten(s) => r = kept
    BY DEF Forgotten, RemoveVar, Refs
  <2> HIDE DEF gone, r
  <2> QED BY <1>1, <2>1 DEF Emit, Checker
<1>5. NoEntry.kind = "None"
  BY DEF NoEntry
<1>6. CASE r \in {gone, kept}
  <2> HIDE DEF gone, kept, r
  <2>1. /\ r.tbl = gone.tbl /\ s.diags \subseteq r.diags
        /\ n \in Forgotten(s) => "UniqueForget" \in r.diags
    BY <1>1, <1>4, <1>6
  <2> QED BY <1>1, <1>5, <2>1 DEF r
<1>7. CASE e.owner \in Names /\ r = back
  <2> DEFINE o == e.owner
             kind == e.kind
  <2> HIDE DEF gone, e
  <2>1. /\ back.diags = gone.diags
        /\ \A m \in Names : /\ m # o => back.tbl[m] = gone.tbl[m]
                            /\ back.tbl[m].kind = gone.tbl[m].kind
                            /\ back.tbl[m].owner = gone.tbl[m].owner
                            /\ back.tbl[m].loop_depth = gone.tbl[m].loop_depth
    BY <1>1, <1>7, EndBorrowRow
  <2>2. back.tbl[o].state = "Consumed" <=> gone.tbl[o].state = "Consumed"
    <3>1. CASE Tracked(gone, o)
      <4>1. back.tbl[o].state \in {gone.tbl[o].state, "Unconsumed"}
             /\ (back.tbl[o].state # gone.tbl[o].state => gone.tbl[o].state \in Lent)
        BY <1>1, <1>7, <3>1, EndBorrowRow
      <4> QED BY <4>1 DEF Lent
    <3>2. CASE ~Tracked(gone, o)
      BY <3>2 DEF EndBorrow
    <3> QED BY <3>1, <3>2
  <2> HIDE DEF back, o
  <2>3. \A m \in Names : /\ back.tbl[m].kind = gone.tbl[m].kind
                         /\ back.tbl[m].owner = gone.tbl[m].owner
                         /\ back.tbl[m].loop_depth = gone.tbl[m].loop_depth
                         /\ (back.tbl[m].state = "Consumed" <=> gone.tbl[m].state = "Consumed")
    BY <2>1, <2>2
  <2>4. n \in Forgotten(s) => "UniqueForget" \in back.diags
    BY <1>4, <1>7
  <2> QED BY <1>1, <1>5, <1>7, <2>1, <2>3, <2>4
<1> QED BY <1>3, <1>6, <1>7

\* Rows leave the table, a forgotten one with a report, and the others stay
\* what they are.
Shrinks(s, r) ==
    /\ s.diags \subseteq r.diags
    /\ \A m \in Forgotten(s) : r.tbl[m].kind = "None" => "UniqueForget" \in r.diags
    /\ \A m \in Names : r.tbl[m].kind # "None" =>
          /\ r.tbl[m].kind = s.tbl[m].kind /\ r.tbl[m].owner = s.tbl[m].owner
          /\ r.tbl[m].loop_depth = s.tbl[m].loop_depth
          /\ (r.tbl[m].state = "Consumed" <=> s.tbl[m].state = "Consumed")

\* One binding is undone.
LEMMA PopBindingShrinks ==
    ASSUME NEW s \in Checker, Book(s), Len(s.bindings) > 0
    PROVE  Shrinks(s, PopBinding(s))
<1> DEFINE L == Len(s.bindings)
           q == [s EXCEPT !.bindings = SubSeq(@, 1, Len(@) - 1)]
           n == s.bindings[L].name
           r == RemoveVar(q, n)
<1>1. q \in Checker /\ q.tbl = s.tbl /\ q.diags = s.diags
  BY ShorterBindings
<1>2. L \in 1 .. L
  BY BindingsLength
<1>3. n \in Names /\ s.bindings[L].shadowed.kind = "None"
  BY <1>2, BindingFields DEF Book, Linked
<1>4. PopBinding(s) = r
  BY <1>3 DEF PopBinding
<1> HIDE DEF q, n
<1>5. /\ r.tbl[n].kind = "None" /\ q.diags \subseteq r.diags
      /\ n \in Forgotten(q) => "UniqueForget" \in r.diags
      /\ \A m \in Names : m # n =>
           /\ r.tbl[m].kind = q.tbl[m].kind /\ r.tbl[m].owner = q.tbl[m].owner
           /\ r.tbl[m].loop_depth = q.tbl[m].loop_depth
           /\ (r.tbl[m].state = "Consumed" <=> q.tbl[m].state = "Consumed")
  BY <1>1, <1>3, RemoveVarView
<1> HIDE DEF r
<1>6. \A m \in Forgotten(s) : m \in Forgotten(q) /\ (m # n => r.tbl[m].kind # "None")
  BY <1>1, <1>5 DEF Forgotten
<1> QED BY <1>1, <1>4, <1>5, <1>6 DEF Shrinks

\* So it is for any number of bindings.
LEMMA PoppedShrinks ==
    ASSUME NEW s \in Checker, Book(s), NEW k \in 0 .. Len(s.bindings)
    PROVE  Shrinks(s, Popped(s, k))
<1>1. k \in Nat /\ Len(s.bindings) \in Nat /\ k <= Len(s.bindings)
  BY BindingsLength
<1>2. PICK pop : /\ pop = [i \in 0 .. k |-> IF i = 0 THEN s ELSE PopBinding(pop[i - 1])]
                 /\ Popped(s, k) = pop[k]
  BY <1>1, PopRounds
<1> DEFINE L == Len(s.bindings)
           Good(i) == /\ pop[i] \in Checker /\ Len(pop[i].bindings) = L - i /\ Book(pop[i])
                      /\ Shrinks(s, pop[i])
           T == {i \in 0 .. k : ~ Good(i)}
<1>3. SUFFICES ASSUME T # {} PROVE FALSE
  <2>1. k \in 0 .. k
    BY <1>1
  <2>2. T = {} => Good(k)
    BY <2>1
  <2> QED BY <1>2, <2>2
<1>4. PICK m \in T : \A n \in T : m <= n
  <2>1. T \subseteq Nat
    OBVIOUS
  <2> QED BY <2>1, <1>3, Least
<1>5. m # 0
  <2>1. pop[0] = s
    BY <1>1, <1>2
  <2>2. Shrinks(s, s)
    BY DEF Shrinks, Forgotten
  <2>3. Good(0)
    BY <1>1, <2>1, <2>2
  <2> QED BY <2>3
<1>6. Good(m - 1)
  <2>1. m - 1 \in 0 .. k /\ m - 1 \notin T
    BY <1>4, <1>5
  <2> QED BY <2>1
<1>7. pop[m] = PopBinding(pop[m - 1])
  BY <1>2, <1>5
<1>8. m \in 1 .. k
  BY <1>1, <1>5
<1> DEFINE p == pop[m - 1]
<1>9. p \in Checker /\ Book(p) /\ Shrinks(s, p) /\ Len(p.bindings) = L - m + 1 /\ Len(p.bindings) > 0
  BY <1>1, <1>6, <1>8
<1> HIDE DEF p, L
<1>10. /\ PopBinding(p) \in Checker /\ Len(PopBinding(p).bindings) = Len(p.bindings) - 1
       /\ Book(PopBinding(p)) /\ Shrinks(p, PopBinding(p))
  BY <1>9, PopBindingFrame, PopBindingBook, PopBindingShrinks
<1>11. Shrinks(s, PopBinding(p))
  <2>1. \A n \in Forgotten(s) : p.tbl[n].kind # "None" => n \in Forgotten(p)
    BY <1>9 DEF Shrinks, Forgotten
  <2> QED BY <1>9, <1>10, <2>1 DEF Shrinks
<1>12. Len(PopBinding(p).bindings) = L - m
  BY <1>1, <1>8, <1>9, <1>10 DEF L
<1>13. Good(m)
  BY <1>7, <1>10, <1>11, <1>12 DEF p
<1> QED BY <1>4, <1>13

\* The end of a scope.
LEMMA PopScopeShrinks ==
    ASSUME NEW s \in Checker, Book(s), Len(s.marks) > 0, s.marks[Len(s.marks)] <= Len(s.bindings)
    PROVE  Shrinks(s, PopScope(s))
<1> DEFINE m == s.marks[Len(s.marks)]
           k == Len(s.bindings) - m
           q == Popped(s, k)
<1>1. s.marks \in Seq(Nat) /\ Len(s.marks) \in Nat /\ Len(s.marks) \in 1 .. Len(s.marks)
  BY LenProperties DEF Checker
<1>2. m \in Nat /\ Len(s.bindings) \in Nat
  BY <1>1, ElementOfSeq, BindingsLength
<1>3. k \in 0 .. Len(s.bindings)
  BY <1>2
<1>4. q \in Checker /\ Shrinks(s, q)
  <2> HIDE DEF k
  <2> QED BY <1>3, PoppedFrame, PoppedShrinks
<1>5. PopScope(s).tbl = q.tbl /\ PopScope(s).diags = q.diags
  <2>1. PopScope(s) = [q EXCEPT !.marks = SubSeq(@, 1, Len(@) - 1)]
    BY DEF PopScope
  <2> HIDE DEF q
  <2> QED BY <1>4, <2>1 DEF Checker
<1> HIDE DEF q
<1> QED BY <1>4, <1>5 DEF Shrinks, Forgotten

=============================================================================
