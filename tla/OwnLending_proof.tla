-------------------------- MODULE OwnLending_proof --------------------------
(***************************************************************************)
(* The borrow bookkeeping of a function that reuses no name and assigns to *)
(* nothing that is on loan: the counters count the aliases, the states say *)
(* so, writers are alone and no alias outlives its owner, for every set of *)
(* names, nesting depth and number of reported rules.                      *)
(***************************************************************************)
EXTENDS OwnBorrow_proof

-----------------------------------------------------------------------------
\* The inductive invariant of a program without shadowing that does not
\* assign to what is on loan.
BookInv == TypeInv /\ Book(Now)

\* The empty table is a book.
LEMMA BookInit == Init => BookInv
<1> SUFFICES ASSUME Init PROVE BookInv
  OBVIOUS
<1>1. \A n \in Names : Now.tbl[n] = NoEntry /\ Now.tbl[n].kind = "None"
  BY DEF Init, Now, NoEntry
<1>2. Len(Now.bindings) = 0
  BY DEF Init, Now
<1>3. \A o, kind : kind \in Refs => AliasesIn(Now, o, kind) = {}
  BY <1>1 DEF AliasesIn, Refs
<1>4. "RefRead" \in Refs /\ "RefWrite" \in Refs /\ "None" \notin Refs
  BY DEF Refs
<1>5. \A n : ~Tracked(Now, n)
  BY <1>1 DEF Tracked
<1>6. TrackedNames(Now) = {}
  BY <1>1 DEF TrackedNames
<1> HIDE DEF Now
<1>7. Accounts(Now)
  BY <1>1, <1>3, <1>4, <1>6 DEF Accounts, Exclusive, Rooted
<1>8. Linked(Now)
  BY <1>2, <1>5 DEF Linked
<1> QED BY <1>7, <1>8, TypeInit DEF BookInv, Book

\* A statement that opens and closes no scope, whose result is a book.
LEMMA BookRun ==
    ASSUME NEW r \in Checker, Book(r), Run(r)
    PROVE  Book(Now)'
<1>1. Now' = r
  BY NowOf DEF Run
<1> QED BY <1>1

\* Every statement preserves the invariant.
LEMMA BookNext ==
    ASSUME ~Shadowing, ~Reassign, BookInv, [Next]_vars
    PROVE  BookInv'
<1>1. Now \in Checker /\ Book(Now) /\ TypeInv /\ TypeInv'
  BY NowTyped, TypeNext DEF BookInv
<1>2. ASSUME NEW n \in Names, Declarable(n) PROVE ~Tracked(Now, n)
  BY <1>2 DEF Declarable
<1>3. ASSUME NEW n \in Names, NEW kind \in OwnKind, Declare(n, kind) PROVE Book(Now)'
  <2>1. Now.depth \in Nat /\ ~Tracked(Now, n)
    BY <1>1, <1>2, <1>3 DEF Checker, Declare
  <2>2. AddFromType(Now, n, kind) \in Checker /\ Book(AddFromType(Now, n, kind))
    BY <1>1, <2>1, AddFromTypeGrows, AddOwnerBook DEF AddFromType, Grows
  <2> QED BY <1>3, <2>2, BookRun DEF Declare
<1>4. ASSUME NEW n \in Names, NEW m \in Names, DeclareMove(n, m) PROVE Book(Now)'
  <2>1. ~Tracked(Now, n)
    BY <1>2, <1>4 DEF DeclareMove
  <2>2. DeclareMoved(Now, n, m) \in Checker /\ Book(DeclareMoved(Now, n, m))
    BY <1>1, <2>1, DeclareMovedGrows, DeclareMovedBook DEF Grows
  <2> QED BY <1>4, <2>2, BookRun DEF DeclareMove
<1>5. ASSUME NEW n \in Names, NEW m \in Names, Clone(n, m) PROVE Book(Now)'
  <2>1. ~Tracked(Now, m)
    BY <1>2, <1>5 DEF Clone
  <2>2. DoClone(Now, n, m) \in Checker /\ Book(DoClone(Now, n, m))
    BY <1>1, <2>1, DoCloneGrows, DoCloneBook DEF Grows
  <2> QED BY <1>5, <2>2, BookRun DEF Clone
<1>6. ASSUME NEW n \in Names, NEW m \in Names, Assign(n, m) PROVE Book(Now)'
  <2>1. Settled(Now, n)
    BY <1>6 DEF Assign, Settled, Now
  <2>2. AssignStatement(Now, n, m) \in Checker /\ Book(AssignStatement(Now, n, m))
    BY <1>1, <2>1, AssignStatementGrows, AssignStatementBook DEF Grows
  <2> QED BY <1>6, <2>2, BookRun DEF Assign
<1>7. ASSUME NEW o \in Names, NEW a \in Names, NEW mode \in Modes, Borrow(o, a, mode)
      PROVE  Book(Now)'
  <2>1. ~Tracked(Now, a) /\ o # a
    BY <1>2, <1>7 DEF Borrow
  <2>2. BeginBorrow(Now, o, a, mode) \in Checker /\ Book(BeginBorrow(Now, o, a, mode))
    BY <1>1, <2>1, BeginBorrowGrows, BeginBorrowBook DEF Grows
  <2> QED BY <1>7, <2>2, BookRun DEF Borrow
<1>8. ASSUME NEW r, Keeps(Now, r), Run(r) PROVE Book(Now)'
  BY <1>1, <1>8, KeepsBook, BookRun DEF Keeps
<1>9. ASSUME NEW f \in Uses, NEW order \in Orders(f), Evaluate(f, order) PROVE Book(Now)'
  <2>1. Keeps(Now, CheckExpr(Now, f, order))
    BY <1>1, OrderLength, CheckExprKeeps
  <2> QED BY <2>1, <1>8, <1>9 DEF Evaluate
<1>10. ASSUME NEW n \in Names, Drop(n) PROVE Book(Now)'
  BY <1>1, <1>8, <1>10, ApplyAppsKeeps DEF Drop
<1>11. ASSUME Exit PROVE Book(Now)'
  BY <1>1, <1>8, <1>11, RequireConsumedKeeps DEF Exit
<1>12. ASSUME NEW n \in Names, Return(n) PROVE Book(Now)'
  <2>1. Keeps(Now, ReturnArgument(Now, n)) /\ ReturnArgument(Now, n) \in Checker
    BY <1>1, ReturnArgumentKeeps DEF Keeps
  <2>2. Keeps(Now, RequireConsumed(ReturnArgument(Now, n)))
    BY <1>1, <2>1, RequireConsumedKeeps, KeepsTwice
  <2> QED BY <2>2, <1>8, <1>12 DEF Return
<1>13. ASSUME OpenBlock \/ OpenLoop PROVE Book(Now)'
  <2>1. Now'.tbl = PushScope(Now).tbl /\ Now'.bindings = PushScope(Now).bindings
    <3>1. PushScope(Now) \in Checker
      BY <1>1, PushScopeFrame
    <3> QED BY <1>13, <3>1 DEF OpenBlock, OpenLoop, Become, Now, Checker
  <2>2. PushScope(Now).tbl = Now.tbl /\ PushScope(Now).bindings = Now.bindings
    BY <1>1, PushScopeFrame
  <2> QED BY <1>1, <2>1, <2>2, SameBook
<1>14. ASSUME Close PROVE Book(Now)'
  <2>1. Len(Now.marks) > 0 /\ Now.marks[Len(Now.marks)] <= Len(Now.bindings)
    <3>1. Len(marks) > 0 /\ Len(marks) \in Nat
      BY <1>1, <1>14, LenProperties DEF Close, Open, Now, Checker
    <3>2. marks[Len(marks)] <= Len(bindings)
      BY <1>1, <3>1 DEF TypeInv, Nested
    <3> QED BY <3>1, <3>2 DEF Now
  <2>2. PopScope(Now) \in Checker /\ Book(PopScope(Now))
    BY <1>1, <2>1, PopScopeFrame, PopScopeBook
  <2>3. Now'.tbl = PopScope(Now).tbl /\ Now'.bindings = PopScope(Now).bindings
    BY <1>14, <2>2 DEF Close, Become, Now, Checker
  <2> QED BY <2>2, <2>3, SameBook
<1>15. ASSUME UNCHANGED vars PROVE Book(Now)'
  <2>1. Now' = Now
    BY <1>15 DEF vars, Now
  <2> QED BY <1>1, <2>1
<1>16. Book(Now)'
  BY <1>3, <1>4, <1>5, <1>6, <1>7, <1>9, <1>10, <1>11, <1>12, <1>13, <1>14, <1>15 DEF Next
<1> QED BY <1>1, <1>16 DEF BookInv

-----------------------------------------------------------------------------
\* The aliases the properties speak of.
LEMMA AliasesNow == \A o, kind : Aliases(o, kind) = AliasesIn(Now, o, kind)
BY DEF Aliases, AliasesIn, Now

\* What the invariant says of the variables.
LEMMA BookSays ==
    ASSUME BookInv
    PROVE  TableIsScopes /\ Ledger /\ LentWhileAliased /\ WriterAlone /\ NoDangling
<1>1. Linked(Now) /\ Accounts(Now) /\ Now \in Checker
  BY NowTyped DEF BookInv, Book
<1>2. Now.tbl = tbl /\ Now.bindings = bindings
  BY DEF Now
<1>3. TableIsScopes
  <2>1. \A i \in 1 .. Len(bindings) : bindings[i].name \in Names
    BY <1>1, <1>2, BindingFields
  <2>2. \A n \in Names : Tracked(Now, n) <=> \E i \in 1 .. Len(bindings) : bindings[i].name = n
    BY <1>1, <1>2 DEF Linked
  <2>3. \A n : n \in TrackedNames(Now) <=> n \in Names /\ Tracked(Now, n)
    BY DEF TrackedNames, Tracked
  <2> QED BY <2>1, <2>2, <2>3 DEF TableIsScopes
<1>4. ASSUME NEW o \in TrackedNames(Now) PROVE Counted(Now, o)
  BY <1>1 DEF Accounts
<1>5. Ledger /\ LentWhileAliased
  BY <1>2, <1>4, AliasesNow DEF Counted, Ledger, LentWhileAliased
<1>6. WriterAlone
  BY <1>1, AliasesNow DEF Accounts, Exclusive, WriterAlone
<1>7. NoDangling
  BY <1>1, <1>2 DEF Accounts, Rooted, NoDangling
<1> QED BY <1>3, <1>5, <1>6, <1>7

\* The inductive invariant holds along every behaviour.
LEMMA BookAlways == ASSUME ~Shadowing, ~Reassign PROVE Spec => []BookInv
<1>1. BookInv /\ [Next]_vars => BookInv'
  BY BookNext
<1> QED BY <1>1, BookInit, PTL DEF Spec

\* add_var and pop_scope keep the table and the scopes together: a name has a
\* row exactly while an open scope binds it.
THEOREM ScopesAreTheTable == ASSUME ~Shadowing, ~Reassign PROVE Spec => []TableIsScopes
BY BookAlways, BookSays, PTL

\* begin_borrow and end_borrow keep the counters equal to the live aliases.
THEOREM CountersBalance == ASSUME ~Shadowing, ~Reassign PROVE Spec => []Ledger
BY BookAlways, BookSays, PTL

\* A row is on loan exactly while an alias of that mode lives, until it is
\* given up for consumed.
THEOREM LoansAreLive == ASSUME ~Shadowing, ~Reassign PROVE Spec => []LentWhileAliased
BY BookAlways, BookSays, PTL

\* begin_borrow never lets a writer share what it borrows.
THEOREM WritersAreAlone == ASSUME ~Shadowing, ~Reassign PROVE Spec => []WriterAlone
BY BookAlways, BookSays, PTL

\* pop_scope unwinds youngest first, so no alias outlives what it borrows from.
THEOREM NothingDangles == ASSUME ~Shadowing, ~Reassign PROVE Spec => []NoDangling
BY BookAlways, BookSays, PTL

=============================================================================
