--------------------------- MODULE OwnBorrow_proof ---------------------------
(***************************************************************************)
(* Type correctness of OwnBorrow: in particular loop_depth, which the code *)
(* decrements when a loop body ends, and the marks pop_scope returns to,   *)
(* never leave the naturals.                                               *)
(***************************************************************************)
EXTENDS OwnBorrow, OwnTable_proof

\* The open scopes that are loop bodies.
Loops(r) == {i \in 1 .. Len(r) : r[i] = "loop"}

\* The marks of the open scopes lie inside the bindings and do not decrease,
\* and loop_depth counts the open loop bodies.
Nested ==
    /\ \A i \in 1 .. Len(marks) : marks[i] <= Len(bindings)
    /\ \A i, j \in 1 .. Len(marks) : i <= j => marks[i] <= marks[j]
    /\ loop_depth = Cardinality(Loops(regions))

\* The inductive invariant.
TypeInv == TypeOK /\ Nested

\* The first state.
LEMMA TypeInit == Init => TypeInv
<1> SUFFICES ASSUME Init PROVE TypeInv
  OBVIOUS
<1>1. Now \in Checker
  BY NoRow, EmptySeq DEF Init, Now, Checker
<1>2. regions \in Seq({"body", "block", "loop"}) /\ Len(regions) = 1 /\ Len(marks) = 1
  BY DEF Init
<1>3. Loops(regions) = {}
  BY DEF Init, Loops
<1>4. Cardinality(Loops(regions)) = 0
  BY <1>3, FS_EmptySet
<1> QED BY <1>1, <1>2, <1>4 DEF Init, TypeInv, TypeOK, Nested

\* A statement that opens and closes no scope.
LEMMA TypeRun ==
    ASSUME TypeInv, NEW r, Grows(Now, r), Run(r)
    PROVE  TypeInv'
<1>1. Now' = r
  <2>1. r = [tbl |-> r.tbl, bindings |-> r.bindings, marks |-> r.marks,
             depth |-> r.depth, diags |-> r.diags]
    BY DEF Grows, Checker
  <2> QED BY <2>1 DEF Now, Run, Become
<1>2. r \in Checker /\ r.marks = marks /\ r.depth = loop_depth
      /\ Len(r.bindings) >= Len(bindings)
  BY DEF Grows, Now
<1>3. bindings' = r.bindings /\ marks' = marks /\ loop_depth' = loop_depth /\ regions' = regions
  BY <1>2 DEF Run, Become
<1>4. Len(bindings) \in Nat /\ Len(bindings') \in Nat
  <2>1. Len(Now.bindings) \in Nat /\ Len(r.bindings) \in Nat
    BY <1>2, BindingsLength DEF TypeInv, TypeOK
  <2> QED BY <2>1, <1>3 DEF Now
<1>5. marks \in Seq(Nat)
  BY DEF TypeInv, TypeOK, Now, Checker
<1>6. \A i \in 1 .. Len(marks) : marks[i] \in Nat
  BY <1>5, ElementOfSeq
<1>7. TypeOK'
  BY <1>1, <1>2, <1>3 DEF TypeInv, TypeOK
<1>8. Nested'
  BY <1>2, <1>3, <1>4, <1>6 DEF TypeInv, Nested
<1> QED BY <1>7, <1>8 DEF TypeInv

\* The state is a checker state.
LEMMA NowTyped == ASSUME TypeInv PROVE Now \in Checker
BY DEF TypeInv, TypeOK

\* The names of an expression come in an order of some length.
LEMMA OrderLength ==
    ASSUME NEW f, NEW order \in Orders(f)
    PROVE  Len(order) \in Nat
<1>1. Appearing(f) \subseteq Names
  BY DEF Appearing
<1>2. IsFiniteSet(Appearing(f))
  BY <1>1, NamesAssumption, FS_Subset
<1>3. Cardinality(Appearing(f)) \in Nat
  BY <1>2, FS_CardinalityType
<1>4. order \in Seq(Appearing(f))
  <2>1. order \in [1 .. Cardinality(Appearing(f)) -> Appearing(f)]
    BY DEF Orders
  <2> QED BY <2>1, <1>3
<1> QED BY <1>4, LenProperties

\* The state after Become(r) is r.
LEMMA NowOf ==
    ASSUME NEW r \in Checker, Become(r)
    PROVE  /\ Now' = r
           /\ bindings' = r.bindings /\ marks' = r.marks /\ loop_depth' = r.depth
<1>1. r = [tbl |-> r.tbl, bindings |-> r.bindings, marks |-> r.marks,
           depth |-> r.depth, diags |-> r.diags]
  BY DEF Checker
<1> QED BY <1>1 DEF Now, Become

\* There are finitely many open loop bodies.
LEMMA LoopsFinite ==
    ASSUME NEW r \in Seq({"body", "block", "loop"})
    PROVE  IsFiniteSet(Loops(r)) /\ Cardinality(Loops(r)) \in Nat
<1>1. Len(r) \in Nat
  BY LenProperties
<1>2. IsFiniteSet(1 .. Len(r))
  BY <1>1, FS_Interval
<1> QED BY <1>2, FS_Subset, FS_CardinalityType DEF Loops

\* Opening a region counts it if it is a loop body.
LEMMA LoopsOfAppend ==
    ASSUME NEW r \in Seq({"body", "block", "loop"}), NEW region \in {"block", "loop"}
    PROVE  /\ Append(r, region) \in Seq({"body", "block", "loop"})
           /\ Len(Append(r, region)) = Len(r) + 1
           /\ Cardinality(Loops(Append(r, region))) =
                 IF region = "loop" THEN Cardinality(Loops(r)) + 1 ELSE Cardinality(Loops(r))
<1> DEFINE q == Append(r, region)
<1>1. /\ q \in Seq({"body", "block", "loop"}) /\ Len(q) = Len(r) + 1 /\ Len(r) \in Nat
      /\ \A i \in 1 .. Len(r) : q[i] = r[i]
      /\ q[Len(r) + 1] = region
  BY AppendProperties, LenProperties
<1> HIDE DEF q
<1>2. Loops(q) = IF region = "loop" THEN Loops(r) \cup {Len(r) + 1} ELSE Loops(r)
  BY <1>1 DEF Loops
<1>3. Len(r) + 1 \notin Loops(r)
  BY <1>1 DEF Loops
<1>4. IsFiniteSet(Loops(r))
  BY LoopsFinite
<1>5. Cardinality(Loops(r) \cup {Len(r) + 1}) = Cardinality(Loops(r)) + 1
  BY <1>3, <1>4, FS_AddElement
<1> QED BY <1>1, <1>2, <1>5 DEF q

\* Closing the innermost region uncounts it if it is a loop body.
LEMMA LoopsOfShorter ==
    ASSUME NEW r \in Seq({"body", "block", "loop"}), Len(r) > 0
    PROVE  Cardinality(Loops(SubSeq(r, 1, Len(r) - 1))) =
                IF r[Len(r)] = "loop" THEN Cardinality(Loops(r)) - 1 ELSE Cardinality(Loops(r))
<1> DEFINE q == SubSeq(r, 1, Len(r) - 1)
           n == Len(r)
<1>1. /\ Len(q) = n - 1 /\ n \in Nat /\ n > 0
      /\ \A i \in 1 .. n - 1 : q[i] = r[i]
  BY Shorter, LenProperties
<1> HIDE DEF q
<1>2. Loops(q) = IF r[n] = "loop" THEN Loops(r) \ {n} ELSE Loops(r)
  BY <1>1 DEF Loops
<1>3. r[n] = "loop" => n \in Loops(r)
  BY <1>1 DEF Loops
<1>4. IsFiniteSet(Loops(r))
  BY LoopsFinite
<1>5. r[n] = "loop" => Cardinality(Loops(r) \ {n}) = Cardinality(Loops(r)) - 1
  BY <1>3, <1>4, FS_RemoveElement
<1> QED BY <1>2, <1>5 DEF q

\* OpenBlock and OpenLoop: one more scope, which starts where the bindings end.
LEMMA TypeOpens ==
    ASSUME TypeInv, Open, NEW region \in {"block", "loop"},
           NEW d \in Nat, d = IF region = "loop" THEN loop_depth + 1 ELSE loop_depth,
           Become([PushScope(Now) EXCEPT !.depth = d]), regions' = Append(regions, region)
    PROVE  TypeInv'
<1> DEFINE q == PushScope(Now)
           r == [q EXCEPT !.depth = d]
<1>1. Now \in Checker
  BY NowTyped
<1>2. q \in Checker /\ q.bindings = bindings /\ q.marks = Append(marks, Len(bindings))
  BY <1>1, PushScopeFrame DEF Now
<1>3. /\ r \in Checker /\ r.bindings = bindings /\ r.marks = Append(marks, Len(bindings))
      /\ r.depth = d
  <2> HIDE DEF q
  <2> QED BY <1>2 DEF Checker
<1>4. /\ Now' = r /\ bindings' = bindings /\ marks' = Append(marks, Len(bindings))
      /\ loop_depth' = d
  <2> HIDE DEF q, r
  <2>1. Become(r)
    BY DEF q, r
  <2> QED BY <1>3, <2>1, NowOf
<1>5. marks \in Seq(Nat) /\ Len(marks) \in Nat /\ Len(bindings) \in Nat
  BY <1>1, BindingsLength, LenProperties DEF Checker, Now
<1>6. /\ Len(marks') = Len(marks) + 1
      /\ \A i \in 1 .. Len(marks) : marks'[i] = marks[i] /\ marks[i] \in Nat
      /\ marks'[Len(marks) + 1] = Len(bindings)
  BY <1>4, <1>5, AppendProperties, ElementOfSeq
<1>7. TypeOK'
  <2>1. regions' \in Seq({"body", "block", "loop"}) /\ Len(regions') = Len(regions) + 1
    BY LoopsOfAppend DEF TypeInv, TypeOK
  <2> HIDE DEF r
  <2> QED BY <1>3, <1>4, <1>6, <2>1 DEF TypeInv, TypeOK
<1>8. loop_depth' = Cardinality(Loops(regions'))
  BY <1>4, LoopsOfAppend DEF TypeInv, TypeOK, Nested
<1>9. /\ \A i \in 1 .. Len(marks') : marks'[i] <= Len(bindings')
      /\ \A i, j \in 1 .. Len(marks') : i <= j => marks'[i] <= marks'[j]
  <2>1. \A i \in 1 .. Len(marks) + 1 : i \in 1 .. Len(marks) \/ i = Len(marks) + 1
    BY <1>5
  <2>2. \A i \in 1 .. Len(marks) : marks[i] <= Len(bindings)
    BY DEF TypeInv, Nested
  <2>3. \A i, j \in 1 .. Len(marks) : i <= j => marks[i] <= marks[j]
    BY DEF TypeInv, Nested
  <2>4. \A i \in 1 .. Len(marks) + 1 : marks'[i] <= Len(bindings)
    BY <2>1, <2>2, <1>5, <1>6
  <2>5. ASSUME NEW i \in 1 .. Len(marks) + 1, NEW j \in 1 .. Len(marks) + 1, i <= j
        PROVE  marks'[i] <= marks'[j]
    <3>1. CASE j \in 1 .. Len(marks)
      <4>1. i \in 1 .. Len(marks)
        BY <3>1, <2>5, <1>5
      <4> QED BY <3>1, <4>1, <2>3, <2>5, <1>6
    <3>2. CASE j = Len(marks) + 1
      BY <3>2, <2>4, <1>6
    <3> QED BY <3>1, <3>2, <2>1
  <2> QED BY <2>4, <2>5, <1>4, <1>6
<1> QED BY <1>7, <1>8, <1>9 DEF TypeInv, Nested

\* Close: the bindings of the innermost scope leave, loop_depth goes down if it
\* was a loop body, and it was at least one then.
LEMMA TypeClose == ASSUME TypeInv, Close PROVE TypeInv'
<1> DEFINE q == PopScope(Now)
           n == Len(marks)
           d == IF regions[n] = "loop" THEN loop_depth - 1 ELSE loop_depth
           r == IF regions[n] = "loop" THEN [q EXCEPT !.depth = @ - 1] ELSE q
<1>1. Now \in Checker
  BY NowTyped
<1>2. marks \in Seq(Nat) /\ n \in Nat /\ n > 0 /\ Len(bindings) \in Nat
  BY <1>1, BindingsLength, LenProperties DEF Checker, Now, Close, Open
<1>3. regions \in Seq({"body", "block", "loop"}) /\ Len(regions) = n
  BY DEF TypeInv, TypeOK
<1>4. /\ \A i \in 1 .. n : marks[i] <= Len(bindings) /\ marks[i] \in Nat
      /\ \A i, j \in 1 .. n : i <= j => marks[i] <= marks[j]
  BY <1>2, ElementOfSeq DEF TypeInv, Nested
<1>5. /\ q \in Checker /\ Len(q.bindings) = marks[n]
      /\ q.marks = SubSeq(marks, 1, n - 1) /\ q.depth = loop_depth
  <2>1. Len(Now.marks) > 0 /\ Now.marks[Len(Now.marks)] <= Len(Now.bindings)
    BY <1>2, <1>4 DEF Now
  <2>2. /\ q \in Checker /\ Len(q.bindings) = Now.marks[Len(Now.marks)]
        /\ q.marks = SubSeq(Now.marks, 1, Len(Now.marks) - 1) /\ q.depth = Now.depth
    <3> HIDE DEF Now
    <3> QED BY <1>1, <2>1, PopScopeFrame
  <2> HIDE DEF q
  <2> QED BY <2>2 DEF Now
<1>6. d \in Nat /\ d = Cardinality(Loops(SubSeq(regions, 1, n - 1)))
  <2>1. loop_depth = Cardinality(Loops(regions)) /\ loop_depth \in Nat
    BY <1>1 DEF TypeInv, Nested, Now, Checker
  <2>2. SubSeq(regions, 1, n - 1) \in Seq({"body", "block", "loop"})
    BY <1>2, <1>3, Shorter
  <2> QED BY <1>2, <1>3, <2>1, <2>2, LoopsOfShorter, LoopsFinite
<1>7. /\ r \in Checker /\ Len(r.bindings) = marks[n]
      /\ r.marks = SubSeq(marks, 1, n - 1) /\ r.depth = d
  <2> HIDE DEF q
  <2> QED BY <1>5, <1>6 DEF Checker
<1>8. /\ Now' = r /\ Len(bindings') = marks[n] /\ marks' = SubSeq(marks, 1, n - 1)
      /\ loop_depth' = d /\ regions' = SubSeq(regions, 1, n - 1)
  <2>1. Become(r) /\ regions' = SubSeq(regions, 1, n - 1)
    BY <1>3 DEF Close
  <2> HIDE DEF r, d
  <2> QED BY <1>7, <2>1, NowOf
<1>9. /\ Len(marks') = n - 1
      /\ \A i \in 1 .. n - 1 : marks'[i] = marks[i]
      /\ regions' \in Seq({"body", "block", "loop"}) /\ Len(regions') = n - 1
  BY <1>2, <1>3, <1>8, Shorter
<1>10. TypeOK'
  <2> HIDE DEF r
  <2> QED BY <1>7, <1>8, <1>9 DEF TypeOK
<1>11. Nested'
  <2> HIDE DEF d, r
  <2>1. loop_depth' = Cardinality(Loops(regions'))
    BY <1>6, <1>8
  <2>2. n \in 1 .. n /\ \A i \in 1 .. n - 1 : i \in 1 .. n /\ i <= n
    BY <1>2
  <2> QED BY <1>2, <1>4, <1>8, <1>9, <2>1, <2>2 DEF Nested
<1> QED BY <1>10, <1>11 DEF TypeInv

\* Every statement preserves the invariant.
LEMMA TypeNext == ASSUME TypeInv, [Next]_vars PROVE TypeInv'
<1>1. Now \in Checker
  BY NowTyped
<1>2. ASSUME NEW n \in Names, NEW kind \in OwnKind, Declare(n, kind) PROVE TypeInv'
  BY <1>1, <1>2, TypeRun, AddFromTypeGrows DEF Declare
<1>3. ASSUME NEW n \in Names, NEW m \in Names, DeclareMove(n, m) PROVE TypeInv'
  BY <1>1, <1>3, TypeRun, DeclareMovedGrows DEF DeclareMove
<1>4. ASSUME NEW n \in Names, NEW m \in Names, Clone(n, m) PROVE TypeInv'
  BY <1>1, <1>4, TypeRun, DoCloneGrows DEF Clone
<1>5. ASSUME NEW n \in Names, NEW m \in Names, Assign(n, m) PROVE TypeInv'
  BY <1>1, <1>5, TypeRun, AssignStatementGrows DEF Assign
<1>6. ASSUME NEW o \in Names, NEW a \in Names, NEW mode \in Modes, Borrow(o, a, mode)
      PROVE  TypeInv'
  BY <1>1, <1>6, TypeRun, BeginBorrowGrows DEF Borrow
<1>7. ASSUME NEW f \in Uses, NEW order \in Orders(f), Evaluate(f, order) PROVE TypeInv'
  <2>1. Grows(Now, CheckExpr(Now, f, order))
    BY <1>1, OrderLength, CheckExprKeeps, KeepsGrows
  <2> QED BY <2>1, <1>7, TypeRun DEF Evaluate
<1>8. ASSUME NEW n \in Names, Drop(n) PROVE TypeInv'
  BY <1>1, <1>8, TypeRun, ApplyAppsKeeps, KeepsGrows DEF Drop
<1>9. ASSUME Exit PROVE TypeInv'
  BY <1>1, <1>9, TypeRun, RequireConsumedKeeps, KeepsGrows DEF Exit
<1>10. ASSUME NEW n \in Names, Return(n) PROVE TypeInv'
  <2>1. Keeps(Now, ReturnArgument(Now, n)) /\ ReturnArgument(Now, n) \in Checker
    BY <1>1, ReturnArgumentKeeps DEF Keeps
  <2>2. Keeps(Now, RequireConsumed(ReturnArgument(Now, n)))
    BY <1>1, <2>1, RequireConsumedKeeps, KeepsTwice
  <2> QED BY <1>1, <2>2, <1>10, TypeRun, KeepsGrows DEF Return
<1>11. ASSUME OpenBlock PROVE TypeInv'
  <2>1. PushScope(Now) = [PushScope(Now) EXCEPT !.depth = loop_depth]
    <3>1. PushScope(Now) \in Checker /\ PushScope(Now).depth = loop_depth
      BY <1>1, PushScopeFrame DEF Now
    <3> QED BY <3>1 DEF Checker
  <2>2. loop_depth \in Nat
    BY <1>1 DEF Now, Checker
  <2> QED BY <2>1, <2>2, <1>11, TypeOpens DEF OpenBlock
<1>12. ASSUME OpenLoop PROVE TypeInv'
  <2>1. PushScope(Now).depth = loop_depth /\ loop_depth + 1 \in Nat
    BY <1>1, PushScopeFrame DEF Now, Checker
  <2> QED BY <2>1, <1>12, TypeOpens DEF OpenLoop
<1>13. CASE UNCHANGED vars
  BY <1>13 DEF vars, TypeInv, TypeOK, Nested, Now
<1> QED
  BY <1>2, <1>3, <1>4, <1>5, <1>6, <1>7, <1>8, <1>9, <1>10, <1>11, <1>12, <1>13, TypeClose
     DEF Next

\* Whatever program the checker walks, with shadowing and assignments to what
\* is on loan too, its state stays a checker state: no counter, mark or depth
\* goes below zero, and every open scope is a known region.
THEOREM Typed == Spec => []TypeOK
<1>1. TypeInv => TypeOK
  BY DEF TypeInv
<1> QED BY TypeInit, TypeNext, <1>1, PTL DEF Spec

=============================================================================
