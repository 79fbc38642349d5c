--------------------------- MODULE OwnRefine_proof ---------------------------
(***************************************************************************)
(* What follows from the borrow bookkeeping: the owner links apply_apps    *)
(* recurses along end, the order in which check_expr meets the names of an *)
(* expression does not matter, and the checker's table implements the      *)
(* lending discipline of Loans, for every set of names.                    *)
(***************************************************************************)
EXTENDS OwnLending_proof

\* The names moved out and the rules reported determine the state.
LEMMA UsedSame ==
    ASSUME NEW s \in Checker, NEW r, NEW q, NEW S, NEW rules,
           UsedAs(s, r, S, rules), UsedAs(s, q, S, rules)
    PROVE  r = q
<1>1. r.tbl = q.tbl
  <2>1. r.tbl \in [Names -> VarEntry] /\ q.tbl \in [Names -> VarEntry]
    BY DEF UsedAs, Checker
  <2>2. \A m \in Names : r.tbl[m] = q.tbl[m]
    BY DEF UsedAs
  <2> QED BY <2>1, <2>2
<1>2. r \in Checker /\ q \in Checker
  BY DEF UsedAs
<1>3. \A v \in Checker : v = [tbl |-> v.tbl, bindings |-> v.bindings, marks |-> v.marks,
                              depth |-> v.depth, diags |-> v.diags]
  BY DEF Checker
<1> QED BY <1>1, <1>2, <1>3 DEF UsedAs

\* A use of one name does not change what a use of another one does.
LEMMA UseApart ==
    ASSUME NEW s \in Checker, Book(s), NEW x \in Names, NEW y \in Names, x # y, NEW a, NEW b
    PROVE  /\ MovedBy(ApplyApps(s, x, a), y, b) = MovedBy(s, y, b)
           /\ Says(ApplyApps(s, x, a), y, b) = Says(s, y, b)
<1> DEFINE r == ApplyApps(s, x, a)
           o == Root(s, y)
<1>1. Keeps(s, r) /\ UsedAs(s, r, MovedBy(s, x, a), Says(s, x, a))
  BY ApplyAppsKeeps, UseOf
<1>2. MovedBy(s, x, a) \subseteq {x} /\ (MovedBy(s, x, a) # {} => s.tbl[x].state = "Unconsumed")
  BY UseOf DEF MovedBy
<1> HIDE DEF r
<1>3. r.tbl[y] = s.tbl[y] /\ r.depth = s.depth /\ Root(r, y) = o
  BY <1>1, <1>2, KeepsRoot DEF UsedAs
<1>4. \A m \in Names : r.tbl[m].kind = s.tbl[m].kind
  BY <1>1, KeepsColumns
<1>5. Tracked(r, o) <=> Tracked(s, o)
  BY <1>4 DEF Tracked
<1>6. s.tbl[y].kind \in Refs /\ Tracked(s, o) /\ s.tbl[o].kind \in Owning => r.tbl[o] = s.tbl[o]
  <2> SUFFICES ASSUME s.tbl[y].kind \in Refs, Tracked(s, o), s.tbl[o].kind \in Owning
               PROVE  r.tbl[o] = s.tbl[o]
    OBVIOUS
  <2>1. s.tbl[o].state # "Unconsumed" /\ o \in Names
    BY RootNotUnconsumed DEF Tracked
  <2>2. o \notin MovedBy(s, x, a)
    BY <1>2, <2>1
  <2> HIDE DEF o
  <2> QED BY <1>1, <2>1, <2>2 DEF UsedAs
<1>7. MovedBy(r, y, b) = MovedBy(s, y, b) /\ OwnedSays(r, y, b) = OwnedSays(s, y, b)
  BY <1>3 DEF MovedBy, OwnedSays
<1>8. Says(r, y, b) = Says(s, y, b)
  <2>1. CASE s.tbl[y].kind \in Owning
    BY <1>3, <1>7, <2>1 DEF Says
  <2>2. CASE s.tbl[y].kind \notin Owning /\ s.tbl[y].kind \in Refs /\ b.consumed > 0
             /\ Tracked(s, o) /\ s.tbl[o].kind \in Owning
    <3>1. r.tbl[o] = s.tbl[o] /\ Tracked(r, o)
      BY <1>5, <1>6, <2>2
    <3>2. OwnedSays(r, o, Move) = OwnedSays(s, o, Move)
      BY <1>3, <3>1 DEF OwnedSays
    <3>3. Says(s, y, b) = OwnedSays(s, o, Move)
      BY <2>2 DEF Says
    <3>4. Says(r, y, b) = OwnedSays(r, o, Move)
      BY <2>2, <3>1, <1>3 DEF Says
    <3> QED BY <3>2, <3>3, <3>4
  <2>3. CASE s.tbl[y].kind \notin Owning
             /\ ~(s.tbl[y].kind \in Refs /\ b.consumed > 0 /\ Tracked(s, o) /\ s.tbl[o].kind \in Owning)
    <3>1. Tracked(s, o) => r.tbl[o].kind = s.tbl[o].kind
      BY <1>4 DEF Tracked
    <3>2. Says(s, y, b) = {}
      BY <2>3 DEF Says
    <3>3. Says(r, y, b) = {}
      BY <2>3, <3>1, <1>3, <1>5 DEF Says
    <3> QED BY <3>2, <3>3
  <2> QED BY <2>1, <2>2, <2>3
<1> QED BY <1>7, <1>8 DEF r

\* So two names may be met in either order.
LEMMA UsesCommute ==
    ASSUME NEW s \in Checker, Book(s), NEW x \in Names, NEW y \in Names, x # y, NEW a, NEW b
    PROVE  ApplyApps(ApplyApps(s, x, a), y, b) = ApplyApps(ApplyApps(s, y, b), x, a)
<1>1. ASSUME NEW u \in Names, NEW v \in Names, u # v, NEW c, NEW d
      PROVE  UsedAs(s, ApplyApps(ApplyApps(s, u, c), v, d),
                    MovedBy(s, u, c) \cup MovedBy(s, v, d), Says(s, u, c) \cup Says(s, v, d))
  <2> DEFINE r == ApplyApps(s, u, c)
  <2>1. Keeps(s, r) /\ UsedAs(s, r, MovedBy(s, u, c), Says(s, u, c))
    BY ApplyAppsKeeps, UseOf
  <2>2. r \in Checker /\ Book(r)
    BY <2>1, KeepsBook DEF Keeps
  <2>3. MovedBy(r, v, d) = MovedBy(s, v, d) /\ Says(r, v, d) = Says(s, v, d)
    BY <1>1, UseApart
  <2> HIDE DEF r
  <2>4. UsedAs(r, ApplyApps(r, v, d), MovedBy(s, v, d), Says(s, v, d))
    BY <2>2, <2>3, UseOf
  <2>5. UsedAs(s, ApplyApps(r, v, d),
               MovedBy(s, u, c) \cup MovedBy(s, v, d), Says(s, u, c) \cup Says(s, v, d))
    BY <2>1, <2>4, UsedTwice
  <2> QED BY <2>5 DEF r
<1> DEFINE p == ApplyApps(ApplyApps(s, x, a), y, b)
           q == ApplyApps(ApplyApps(s, y, b), x, a)
           S == MovedBy(s, x, a) \cup MovedBy(s, y, b)
           R == Says(s, x, a) \cup Says(s, y, b)
<1>2. UsedAs(s, p, S, R)
  BY <1>1
<1>3. UsedAs(s, q, S, R)
  <2>1. /\ S = MovedBy(s, y, b) \cup MovedBy(s, x, a)
        /\ R = Says(s, y, b) \cup Says(s, x, a)
    OBVIOUS
  <2>2. UsedAs(s, q, MovedBy(s, y, b) \cup MovedBy(s, x, a), Says(s, y, b) \cup Says(s, x, a))
    BY <1>1
  <2> HIDE DEF S, R, q
  <2> QED BY <2>1, <2>2
<1> HIDE DEF p, q, S, R
<1>4. p = q
  BY <1>2, <1>3, UsedSame
<1> QED BY <1>4 DEF p, q

\* In a meeting two names appear.
LEMMA MeetingNames ==
    ASSUME NEW f \in Meetings
    PROVE  \E x, y \in Names : x # y /\ Appearing(f) = {x, y}
<1>1. f \in Uses /\ Cardinality(Appearing(f)) > 1
  BY DEF Meetings
<1>2. PICK x \in Names, y \in Names, a \in Apps, b \in Apps :
        f = [n \in Names |-> IF n = x THEN a ELSE IF n = y THEN b ELSE NoApps]
  BY <1>1 DEF Uses
<1>3. Appearing(f) \subseteq {x, y}
  BY <1>2 DEF Appearing
<1> DEFINE S == Appearing(f)
<1>4. S # {} /\ S # {x} /\ S # {y}
  <2>1. Cardinality({}) = 0 /\ Cardinality({x}) = 1 /\ Cardinality({y}) = 1
    BY FS_EmptySet, FS_Singleton
  <2> HIDE DEF S
  <2> QED BY <1>1, <2>1 DEF S
<1> HIDE DEF S
<1>5. S \subseteq {x, y}
  BY <1>3 DEF S
<1>6. S = {x, y} /\ x # y
  BY <1>4, <1>5
<1> QED BY <1>6 DEF S

\* There are two of them.
LEMMA PairSize == ASSUME NEW x, NEW y, x # y PROVE Cardinality({x, y}) = 2
<1>1. Cardinality({x}) = 1 /\ IsFiniteSet({x})
  BY FS_Singleton
<1>2. Cardinality({x} \cup {y}) = Cardinality({x}) + 1
  BY <1>1, FS_AddElement
<1>3. {x} \cup {y} = {x, y}
  OBVIOUS
<1> QED BY <1>1, <1>2, <1>3

\* They come in one order or the other.
LEMMA MeetingOrders ==
    ASSUME NEW f \in Meetings
    PROVE  /\ Orders(f) # {}
           /\ \E x, y \in Names :
                /\ x # y
                /\ \A o \in Orders(f) : /\ Len(o) = 2
                                        /\ (o[1] = x /\ o[2] = y) \/ (o[1] = y /\ o[2] = x)
<1>0. PICK x \in Names, y \in Names : x # y /\ Appearing(f) = {x, y}
  BY MeetingNames
<1>1. Cardinality(Appearing(f)) = 2
  <2>1. Cardinality({x, y}) = 2
    BY <1>0, PairSize
  <2> QED BY <1>0, <2>1
<1>2. Orders(f) = {o \in [1 .. 2 -> {x, y}] : \A n \in {x, y} : \E i \in DOMAIN o : o[i] = n}
  BY <1>0, <1>1 DEF Orders
<1>3. 1 .. 2 = {1, 2}
  OBVIOUS
<1>4. Orders(f) # {}
  <2> DEFINE o == [i \in 1 .. 2 |-> IF i = 1 THEN x ELSE y]
  <2>1. o \in [1 .. 2 -> {x, y}] /\ DOMAIN o = 1 .. 2 /\ o[1] = x /\ o[2] = y
    OBVIOUS
  <2>2. o \in Orders(f)
    <3> HIDE DEF o
    <3> QED BY <1>0, <1>2, <1>3, <2>1
  <2> QED BY <2>2
<1>5. ASSUME NEW o \in Orders(f)
      PROVE  Len(o) = 2 /\ ((o[1] = x /\ o[2] = y) \/ (o[1] = y /\ o[2] = x))
  <2>1. /\ o \in [1 .. 2 -> {x, y}] /\ DOMAIN o = {1, 2}
        /\ \A n \in {x, y} : \E i \in DOMAIN o : o[i] = n
    BY <1>2, <1>3
  <2>2. Len(o) = 2
    BY <2>1, <1>3, LenProperties
  <2>3. o[1] \in {x, y} /\ o[2] \in {x, y} /\ (o[1] = x \/ o[2] = x) /\ (o[1] = y \/ o[2] = y)
    BY <2>1, <1>3
  <2> QED BY <2>2, <2>3
<1> QED BY <1>0, <1>4, <1>5

\* check_expr on two names.
LEMMA TwoRounds ==
    ASSUME NEW s \in Checker, NEW f, NEW o, Len(o) \in Nat
    PROVE  Len(o) = 2 => CheckExpr(s, f, o) = ApplyApps(ApplyApps(s, o[1], f[o[1]]), o[2], f[o[2]])
<1>1. PICK after :
        /\ after = [i \in 0 .. Len(o) |->
                       IF i = 0 THEN s ELSE ApplyApps(after[i - 1], o[i], f[o[i]])]
        /\ CheckExpr(s, f, o) = after[Len(o)]
  BY ExprRounds
<1> SUFFICES ASSUME Len(o) = 2
             PROVE  CheckExpr(s, f, o) = ApplyApps(ApplyApps(s, o[1], f[o[1]]), o[2], f[o[2]])
  OBVIOUS
<1>2. 0 \in 0 .. 2 /\ 1 \in 0 .. 2 /\ 2 \in 0 .. 2 /\ 1 - 1 = 0 /\ 2 - 1 = 1
  OBVIOUS
<1>3. \A i \in 0 .. 2 : after[i] = IF i = 0 THEN s ELSE ApplyApps(after[i - 1], o[i], f[o[i]])
  BY <1>1
<1>4. after[0] = s
  BY <1>2, <1>3
<1>5. after[1] = ApplyApps(s, o[1], f[o[1]])
  BY <1>2, <1>3, <1>4
<1>6. after[2] = ApplyApps(after[1], o[2], f[o[2]])
  BY <1>2, <1>3
<1> QED BY <1>1, <1>5, <1>6

\* What the invariant says of the orders.
LEMMA BookOrders == ASSUME BookInv PROVE OrderBlind
<1>1. Now \in Checker /\ Book(Now)
  BY NowTyped DEF BookInv
<1>2. SUFFICES ASSUME NEW f \in Meetings, Appearing(f) \subseteq TrackedNames(Now)
               PROVE  Cardinality({CheckExpr(Now, f, o) : o \in OrdersOf[f]}) = 1
  BY DEF OrderBlind
<1>3. PICK x \in Names, y \in Names :
        /\ x # y
        /\ \A o \in Orders(f) : /\ Len(o) = 2
                                /\ (o[1] = x /\ o[2] = y) \/ (o[1] = y /\ o[2] = x)
  BY MeetingOrders
<1> DEFINE q == ApplyApps(ApplyApps(Now, x, f[x]), y, f[y])
<1>4. ASSUME NEW o \in Orders(f) PROVE CheckExpr(Now, f, o) = q
  <2>1. CheckExpr(Now, f, o) = ApplyApps(ApplyApps(Now, o[1], f[o[1]]), o[2], f[o[2]])
    <3>1. Len(o) \in Nat /\ Len(o) = 2
      BY <1>3, OrderLength
    <3> QED BY <1>1, <3>1, TwoRounds
  <2>2. ApplyApps(ApplyApps(Now, y, f[y]), x, f[x]) = q
    BY <1>1, <1>3, UsesCommute
  <2> QED BY <1>3, <2>1, <2>2
<1>5. OrdersOf[f] = Orders(f) /\ Orders(f) # {}
  BY MeetingOrders DEF OrdersOf
<1> HIDE DEF q
<1>6. {CheckExpr(Now, f, o) : o \in OrdersOf[f]} = {q}
  BY <1>4, <1>5
<1> QED BY <1>6, FS_Singleton

\* What the invariant says of the owner links.
LEMMA BookLinks == ASSUME BookInv PROVE OwnersEnd
<1>1. Now \in Checker /\ Linked(Now) /\ Now.tbl = tbl
  BY NowTyped DEF BookInv, Book, Now
<1> QED BY <1>1, LinksEnd DEF OwnersEnd

\* apply_apps recurses along the owner links of a borrow; since begin_borrow
\* binds a borrow after its owner, the links never cycle.
THEOREM LinksNeverCycle == ASSUME ~Shadowing, ~Reassign PROVE Spec => []OwnersEnd
BY BookAlways, BookLinks, PTL

\* check_expr decides name by name in the order its HashMap yields them; any
\* order leaves the same table and reports the same rules.
THEOREM OrderDoesNotMatter == ASSUME ~Shadowing, ~Reassign PROVE Spec => []OrderBlind
BY BookAlways, BookOrders, PTL

-----------------------------------------------------------------------------
(* The table as a loan book *)

\* The names whose value was moved out, and the borrowers by mode.
Spent(s)  == {n \in TrackedNames(s) : s.tbl[n].state = "Consumed"}
Reads(s)  == [o \in Names |-> AliasesIn(s, o, "RefRead")]
Writes(s) == [o \in Names |-> AliasesIn(s, o, "RefWrite")]

\* Who borrows from o.
BorrowersIn(s, o) == AliasesIn(s, o, "RefRead") \cup AliasesIn(s, o, "RefWrite")

\* A value was reported lost in r exactly if it was in s.
SameLoss(s, r) == "UniqueForget" \in r.diags <=> "UniqueForget" \in s.diags

\* The view of the table is the loan book's.
LEMMA ViewNow ==
    /\ {n \in TrackedNames(Now) : tbl[n].state = "Consumed"} = Spent(Now)
    /\ [o \in Names |-> Aliases(o, "RefRead")] = Reads(Now)
    /\ [o \in Names |-> Aliases(o, "RefWrite")] = Writes(Now)
    /\ \A o \in Names : LoanBook!Borrowers(o) = BorrowersIn(Now, o)
    /\ diags = Now.diags
BY DEF Spent, Reads, Writes, Aliases, AliasesIn, Now, LoanBook!Borrowers, BorrowersIn

\* And after a step.
LEMMA ViewNext ==
    ASSUME NEW r, Now' = r
    PROVE  /\ TrackedNames(Now)' = TrackedNames(r)
           /\ ({n \in TrackedNames(Now) : tbl[n].state = "Consumed"})' = Spent(r)
           /\ ([o \in Names |-> Aliases(o, "RefRead")])' = Reads(r)
           /\ ([o \in Names |-> Aliases(o, "RefWrite")])' = Writes(r)
           /\ diags' = r.diags
<1>1. tbl' = r.tbl /\ diags' = r.diags
  BY DEF Now
<1> QED BY <1>1 DEF Spent, Reads, Writes, Aliases, AliasesIn, TrackedNames, Now

\* Nothing happens in the loan book, or values move out in one expression.
Spends(s, r, S) ==
    /\ S \subseteq TrackedNames(s) \ Spent(s) /\ \A n \in S : BorrowersIn(s, n) = {}
    /\ Spent(r) = Spent(s) \cup S
    /\ TrackedNames(r) = TrackedNames(s) /\ Reads(r) = Reads(s) /\ Writes(r) = Writes(s)
    /\ SameLoss(s, r)

\* That is a step of the loan book.
LEMMA SpendsStep ==
    ASSUME NEW r, Now' = r, NEW S, Spends(Now, r, S)
    PROVE  LoanBook!Next
<1>1. S \in SUBSET Names
  BY DEF Spends, TrackedNames
<1>2. LoanBook!Spend(S)
  BY <1>1, ViewNow, ViewNext DEF Spends, SameLoss, LoanBook!Spend
<1> QED BY <1>1, <1>2 DEF LoanBook!Next

\* A name with no row gets one that borrows from nothing.
Creates(s, r, n) ==
    /\ n \in Names /\ ~Tracked(s, n)
    /\ TrackedNames(r) = TrackedNames(s) \cup {n}
    /\ Spent(r) = Spent(s) /\ Reads(r) = Reads(s) /\ Writes(r) = Writes(s)
    /\ SameLoss(s, r)

\* That is Create.
LEMMA CreatesStep ==
    ASSUME NEW r, Now' = r, NEW n, Creates(Now, r, n)
    PROVE  LoanBook!Next
<1>1. n \in Names /\ n \notin TrackedNames(Now)
  BY DEF Creates, Tracked, TrackedNames
<1>2. LoanBook!Create(n)
  BY <1>1, ViewNow, ViewNext DEF Creates, SameLoss, LoanBook!Create
<1> QED BY <1>1, <1>2 DEF LoanBook!Next

\* A value moves into a new name.
Moves(s, r, n, to) ==
    /\ n \in TrackedNames(s) \ Spent(s) /\ BorrowersIn(s, n) = {}
    /\ to \in Names /\ ~Tracked(s, to)
    /\ TrackedNames(r) = TrackedNames(s) \cup {to}
    /\ Spent(r) = Spent(s) \cup {n}
    /\ Reads(r) = Reads(s) /\ Writes(r) = Writes(s) /\ SameLoss(s, r)

\* That is SpendInto.
LEMMA MovesStep ==
    ASSUME NEW r, Now' = r, NEW n, NEW to, Moves(Now, r, n, to)
    PROVE  LoanBook!Next
<1>1. n \in Names /\ to \in Names /\ to \notin TrackedNames(Now)
  BY DEF Moves, Tracked, TrackedNames
<1>2. LoanBook!SpendInto(n, to)
  BY <1>1, ViewNow, ViewNext DEF Moves, SameLoss, LoanBook!SpendInto
<1> QED BY <1>1, <1>2 DEF LoanBook!Next

\* A borrow is granted.
Lends(s, r, o, a, mode) ==
    /\ o \in TrackedNames(s) \ Spent(s) /\ a \in Names /\ ~Tracked(s, a)
    /\ TrackedNames(r) = TrackedNames(s) \cup {a}
    /\ Spent(r) = Spent(s) /\ SameLoss(s, r)
    /\ \/ /\ mode = "Read" /\ AliasesIn(s, o, "RefWrite") = {}
          /\ Reads(r) = [Reads(s) EXCEPT ![o] = @ \cup {a}] /\ Writes(r) = Writes(s)
       \/ /\ mode = "Write" /\ BorrowersIn(s, o) = {}
          /\ Writes(r) = [Writes(s) EXCEPT ![o] = @ \cup {a}] /\ Reads(r) = Reads(s)

\* That is LendRead or LendWrite.
LEMMA LendsStep ==
    ASSUME NEW r, Now' = r, NEW o, NEW a, NEW mode, Lends(Now, r, o, a, mode)
    PROVE  LoanBook!Next
<1>1. o \in Names /\ a \in Names /\ a \notin TrackedNames(Now)
  BY DEF Lends, Tracked, TrackedNames
<1>2. /\ Writes(Now)[o] = AliasesIn(Now, o, "RefWrite")
      /\ TrackedNames(Now)' = TrackedNames(Now) \cup {a} /\ o \in TrackedNames(Now) \ Spent(Now)
  BY <1>1, ViewNext DEF Lends, Writes
<1> DEFINE f == [p \in Names |-> Aliases(p, "RefRead")]
           g == [p \in Names |-> Aliases(p, "RefWrite")]
<1>3. f = Reads(Now) /\ g = Writes(Now) /\ f' = Reads(r) /\ g' = Writes(r)
  BY ViewNow, ViewNext
<1>4. CASE mode = "Read"
  <2>1. f' = [f EXCEPT ![o] = @ \cup {a}] /\ g' = g /\ g[o] = {}
    <3> HIDE DEF f, g
    <3> QED BY <1>2, <1>3, <1>4 DEF Lends
  <2>2. LoanBook!LendRead(o, a)
    BY <1>1, <1>2, <2>1, ViewNow, ViewNext DEF Lends, SameLoss, LoanBook!LendRead
  <2> QED BY <1>1, <2>2 DEF LoanBook!Next
<1>5. CASE mode = "Write"
  <2>1. g' = [g EXCEPT ![o] = @ \cup {a}] /\ f' = f
    <3> HIDE DEF f, g
    <3> QED BY <1>3, <1>5 DEF Lends
  <2>2. LoanBook!Borrowers(o) = {}
    BY <1>1, <1>5, ViewNow DEF Lends
  <2>3. LoanBook!LendWrite(o, a)
    BY <1>1, <1>2, <2>1, <2>2, ViewNow, ViewNext DEF Lends, SameLoss, LoanBook!LendWrite
  <2> QED BY <1>1, <2>3 DEF LoanBook!Next
<1> QED BY <1>4, <1>5 DEF Lends

\* Nobody in gone borrows any more.
Left(s, kind, gone) == [o \in Names |-> AliasesIn(s, o, kind) \ gone]

\* Those are the loan book's.
LEMMA LeftNow ==
    ASSUME NEW gone
    PROVE  /\ LoanBook!Without([o \in Names |-> Aliases(o, "RefRead")], gone) = Left(Now, "RefRead", gone)
           /\ LoanBook!Without([o \in Names |-> Aliases(o, "RefWrite")], gone) = Left(Now, "RefWrite", gone)
BY DEF LoanBook!Without, Left, Aliases, AliasesIn, Now

\* What was reported stays reported.
LEMMA LossStays ==
    ASSUME NEW A, NEW B, A \subseteq B
    PROVE  ("UniqueForget" \in B) \in {"UniqueForget" \in A, TRUE}
<1>1. CASE "UniqueForget" \in B
  <2>1. ("UniqueForget" \in B) = TRUE
    BY <1>1
  <2> QED BY <2>1
<1>2. CASE "UniqueForget" \notin B
  <2>1. ("UniqueForget" \in B) = ("UniqueForget" \in A)
    BY <1>2
  <2> QED BY <2>1
<1> QED BY <1>1, <1>2

\* A name takes over another name's value.
Replaces(s, r, dst, src) ==
    /\ {dst, src} \subseteq TrackedNames(s) /\ dst # src /\ src \notin Spent(s)
    /\ BorrowersIn(s, src) = {} /\ BorrowersIn(s, dst) = {}
    /\ TrackedNames(r) = TrackedNames(s)
    /\ Spent(r) = (Spent(s) \cup {src}) \ {dst}
    /\ Reads(r) = Left(s, "RefRead", {dst}) /\ Writes(r) = Left(s, "RefWrite", {dst})
    /\ s.diags \subseteq r.diags

\* That is Replace.
LEMMA ReplacesStep ==
    ASSUME NEW r, Now' = r, NEW dst, NEW src, Replaces(Now, r, dst, src)
    PROVE  LoanBook!Next
<1>1. dst \in Names /\ src \in Names
  BY DEF Replaces, TrackedNames
<1>2. ("UniqueForget" \in diags)' \in {"UniqueForget" \in diags, TRUE}
  <2>1. diags \subseteq diags'
    BY ViewNow, ViewNext DEF Replaces
  <2> QED BY <2>1, LossStays
<1>3. /\ ([o \in Names |-> Aliases(o, "RefRead")])'
            = LoanBook!Without([o \in Names |-> Aliases(o, "RefRead")], {dst})
      /\ ([o \in Names |-> Aliases(o, "RefWrite")])'
            = LoanBook!Without([o \in Names |-> Aliases(o, "RefWrite")], {dst})
  BY ViewNext, LeftNow DEF Replaces
<1>4. LoanBook!Replace(dst, src)
  BY <1>1, <1>2, <1>3, ViewNow, ViewNext DEF Replaces, LoanBook!Replace
<1> QED BY <1>1, <1>4 DEF LoanBook!Next

\* What was not spent is lost, and reported.
Abandons(s, r, lost) ==
    /\ lost \subseteq TrackedNames(s)
    /\ TrackedNames(r) = TrackedNames(s) /\ Reads(r) = Reads(s) /\ Writes(r) = Writes(s)
    /\ Spent(r) = Spent(s) \cup lost
    /\ "UniqueForget" \in r.diags

\* That is Abandon.
LEMMA AbandonsStep ==
    ASSUME NEW r, Now' = r, NEW lost, Abandons(Now, r, lost)
    PROVE  LoanBook!Next
<1>1. lost \in SUBSET Names
  BY DEF Abandons, TrackedNames
<1>2. LoanBook!Abandon(lost)
  BY <1>1, ViewNow, ViewNext DEF Abandons, LoanBook!Abandon
<1> QED BY <1>1, <1>2 DEF LoanBook!Next

\* Rows leave the table, with everything that borrows from them.
Closes(s, r, gone) ==
    /\ gone \subseteq TrackedNames(s) /\ \A o \in gone : BorrowersIn(s, o) \subseteq gone
    /\ TrackedNames(r) = TrackedNames(s) \ gone /\ Spent(r) = Spent(s) \ gone
    /\ Reads(r) = Left(s, "RefRead", gone) /\ Writes(r) = Left(s, "RefWrite", gone)
    /\ s.diags \subseteq r.diags

\* That is Close.
LEMMA ClosesStep ==
    ASSUME NEW r, Now' = r, NEW gone, Closes(Now, r, gone)
    PROVE  LoanBook!Next
<1>1. gone \in SUBSET Names
  BY DEF Closes, TrackedNames
<1>2. ("UniqueForget" \in diags)' \in {"UniqueForget" \in diags, TRUE}
  <2>1. diags \subseteq diags'
    BY ViewNow, ViewNext DEF Closes
  <2> QED BY <2>1, LossStays
<1>3. /\ ([o \in Names |-> Aliases(o, "RefRead")])'
            = LoanBook!Without([o \in Names |-> Aliases(o, "RefRead")], gone)
      /\ ([o \in Names |-> Aliases(o, "RefWrite")])'
            = LoanBook!Without([o \in Names |-> Aliases(o, "RefWrite")], gone)
  BY ViewNext, LeftNow DEF Closes
<1>4. LoanBook!Close(gone)
  BY <1>1, <1>2, <1>3, ViewNow, ViewNext DEF Closes, LoanBook!Close
<1> QED BY <1>1, <1>4 DEF LoanBook!Next

-----------------------------------------------------------------------------
(* What each statement does to the view *)

\* The names whose value can be moved out.
Free(s) == {n \in TrackedNames(s) : s.tbl[n].state = "Unconsumed"}

\* What keeps the rows keeps who is there and who borrows.
LEMMA KeepsView ==
    ASSUME NEW s \in Checker, NEW r, Keeps(s, r)
    PROVE  TrackedNames(r) = TrackedNames(s) /\ Reads(r) = Reads(s) /\ Writes(r) = Writes(s)
<1>1. \A n \in Names : r.tbl[n].kind = s.tbl[n].kind /\ r.tbl[n].owner = s.tbl[n].owner
  BY KeepsColumns
<1> QED BY <1>1 DEF TrackedNames, Reads, Writes, AliasesIn

\* What can be moved out has no borrower.
LEMMA FreeUnborrowed ==
    ASSUME NEW s \in Checker, Book(s), NEW n \in Free(s)
    PROVE  n \in TrackedNames(s) \ Spent(s) /\ BorrowersIn(s, n) = {}
<1>1. n \in TrackedNames(s) /\ s.tbl[n].state = "Unconsumed"
  BY DEF Free
<1>2. Counted(s, n)
  BY <1>1 DEF Book, Accounts
<1> QED BY <1>1, <1>2 DEF Counted, Spent, BorrowersIn

\* Uses that report no loss are values moving out.
LEMMA UsedSpends ==
    ASSUME NEW s \in Checker, Book(s), NEW r, NEW S, NEW rules, UsedAs(s, r, S, rules),
           S \subseteq Free(s), "UniqueForget" \notin rules
    PROVE  Spends(s, r, S)
<1>1. TrackedNames(r) = TrackedNames(s) /\ Reads(r) = Reads(s) /\ Writes(r) = Writes(s)
  BY UsedKeeps, KeepsView
<1>2. Spent(r) = Spent(s) \cup S
  <2>1. ASSUME NEW n \in TrackedNames(s)
        PROVE  r.tbl[n].state = "Consumed" <=> (s.tbl[n].state = "Consumed" \/ n \in S)
    <3>1. n \in Names /\ s.tbl[n] \in VarEntry
      BY RowFields DEF TrackedNames
    <3>2. r.tbl[n] = IF n \in S THEN [s.tbl[n] EXCEPT !.state = "Consumed"] ELSE s.tbl[n]
      BY <3>1 DEF UsedAs
    <3> QED BY <3>1, <3>2 DEF VarEntry
  <2>2. S \subseteq TrackedNames(s)
    BY DEF Free
  <2> QED BY <1>1, <2>1, <2>2 DEF Spent
<1>3. SameLoss(s, r)
  BY DEF UsedAs, SameLoss
<1> QED BY <1>1, <1>2, <1>3, FreeUnborrowed DEF Spends

\* One use.
LEMMA UseView ==
    ASSUME NEW s \in Checker, Book(s), NEW n \in Names, NEW a
    PROVE  /\ UsedAs(s, ApplyApps(s, n, a), MovedBy(s, n, a), Says(s, n, a))
           /\ MovedBy(s, n, a) \subseteq Free(s) /\ "UniqueForget" \notin Says(s, n, a)
<1>1. MovedBy(s, n, a) \subseteq {n} /\ (MovedBy(s, n, a) # {} => s.tbl[n].kind \in Owning)
  BY DEF MovedBy
<1>2. MovedBy(s, n, a) # {} => n \in Free(s)
  BY <1>1, UseOf DEF Free, TrackedNames, Owning
<1> QED BY <1>1, <1>2, UseOf

\* The names of an expression, one by one.
LEMMA ExprView ==
    ASSUME NEW s \in Checker, Book(s), NEW f, NEW order, Len(order) \in Nat
    PROVE  (\A i \in 1 .. Len(order) : order[i] \in Names)
              => \E S : Spends(s, CheckExpr(s, f, order), S)
<1>1. PICK after :
        /\ after = [i \in 0 .. Len(order) |->
                       IF i = 0 THEN s ELSE ApplyApps(after[i - 1], order[i], f[order[i]])]
        /\ CheckExpr(s, f, order) = after[Len(order)]
  BY ExprRounds
<1> HAVE \A i \in 1 .. Len(order) : order[i] \in Names
<1> DEFINE L == Len(order)
           Good(i) == \E S, rules : /\ UsedAs(s, after[i], S, rules)
                                    /\ S \subseteq Free(s) /\ "UniqueForget" \notin rules
           T == {i \in 0 .. L : ~ Good(i)}
<1>2. SUFFICES ASSUME T # {} PROVE FALSE
  <2>1. T = {} => Good(L)
    OBVIOUS
  <2>2. ASSUME Good(L) PROVE \E S : Spends(s, after[L], S)
    BY <2>2, UsedSpends
  <2> QED BY <1>1, <2>1, <2>2
<1>3. PICK m \in T : \A i \in T : m <= i
  <2>1. T \subseteq Nat
    OBVIOUS
  <2> QED BY <2>1, <1>2, Least
<1>4. m # 0
  <2>1. after[0] = s
    BY <1>1
  <2>2. Good(0)
    BY <2>1, NoUse
  <2> QED BY <2>2
<1>5. m \in 1 .. L /\ m - 1 \in 0 .. L /\ m - 1 \notin T
  BY <1>3, <1>4
<1>6. PICK S, rules : /\ UsedAs(s, after[m - 1], S, rules)
                      /\ S \subseteq Free(s) /\ "UniqueForget" \notin rules
  BY <1>5
<1> DEFINE q == after[m - 1]
           n == order[m]
           a == f[order[m]]
<1>7. after[m] = ApplyApps(q, n, a)
  BY <1>1, <1>5
<1> HIDE DEF q, a
<1>8. UsedAs(s, q, S, rules)
  BY <1>6 DEF q
<1>9. q \in Checker /\ Book(q) /\ n \in Names
  <2>1. Keeps(s, q)
    BY <1>8, UsedKeeps
  <2>2. q \in Checker /\ Book(q)
    BY <2>1, KeepsBook DEF Keeps
  <2>3. n \in Names
    BY <1>5
  <2> QED BY <2>2, <2>3
<1> HIDE DEF n
<1>10. /\ UsedAs(q, ApplyApps(q, n, a), MovedBy(q, n, a), Says(q, n, a))
       /\ MovedBy(q, n, a) \subseteq Free(q) /\ "UniqueForget" \notin Says(q, n, a)
  BY <1>9, UseView
<1>11. Free(q) \subseteq Free(s)
  <2>1. TrackedNames(q) = TrackedNames(s)
    BY <1>8, UsedKeeps, KeepsView
  <2>2. \A k \in TrackedNames(s) : q.tbl[k].state \in {s.tbl[k].state, "Consumed"}
    BY <1>8, UsedKeeps, KeepsColumns DEF TrackedNames
  <2> QED BY <2>1, <2>2 DEF Free
<1>12. UsedAs(s, after[m], S \cup MovedBy(q, n, a), rules \cup Says(q, n, a))
  BY <1>7, <1>8, <1>10, UsedTwice
<1>13. Good(m)
  BY <1>6, <1>10, <1>11, <1>12
<1> QED BY <1>3, <1>13

\* add_var of a row that borrows from nothing, after uses that report no loss.
LEMMA AddView ==
    ASSUME NEW s \in Checker, Book(s), NEW n \in Names, ~Tracked(s, n),
           NEW kind \in OwnKind, NEW d \in Nat,
           NEW q, NEW S, NEW rules, UsedAs(s, q, S, rules), S \subseteq Free(s), "UniqueForget" \notin rules
    PROVE  LET r == AddVar(q, n, Fresh(kind, d, NoName))
           IN  /\ TrackedNames(r) = TrackedNames(s) \cup {n} /\ Spent(r) = Spent(s) \cup S
               /\ Reads(r) = Reads(s) /\ Writes(r) = Writes(s) /\ SameLoss(s, r)
<1> DEFINE e == Fresh(kind, d, NoName)
           r == AddVar(q, n, e)
<1>1. /\ TrackedNames(q) = TrackedNames(s) /\ Spent(q) = Spent(s) \cup S
      /\ Reads(q) = Reads(s) /\ Writes(q) = Writes(s) /\ SameLoss(s, q)
  BY UsedSpends DEF Spends
<1>2. q \in Checker /\ q.tbl[n].kind = "None"
  <2>1. n \notin TrackedNames(q)
    BY <1>1 DEF Tracked, TrackedNames
  <2> QED BY <2>1 DEF UsedAs, TrackedNames
<1>3. e \in VarEntry /\ e.kind = kind /\ e.owner = NoName /\ e.state = "Unconsumed"
  <2>1. e \in VarEntry
    BY FreshRow
  <2> QED BY <2>1 DEF Fresh
<1>4. kind # "None" /\ NoName \notin Names /\ "None" \notin Refs
  BY NamesAssumption DEF OwnKind, Owning, Refs
<1>0. r = AddVar(q, n, e)
  OBVIOUS
<1> HIDE DEF r, e
<1>5. r.diags = q.diags
  BY <1>0, <1>2, AddReports
<1>6. \A m \in Names : r.tbl[m] = IF m = n THEN e ELSE q.tbl[m]
  <2>1. q.tbl \in [Names -> VarEntry] /\ r.tbl = [q.tbl EXCEPT ![n] = e]
    BY <1>0, <1>2 DEF AddVar, Checker
  <2> QED BY <2>1
<1>7. TrackedNames(r) = TrackedNames(q) \cup {n}
  BY <1>3, <1>4, <1>6 DEF TrackedNames
<1>8. Spent(r) = Spent(q)
  BY <1>2, <1>3, <1>6, <1>7 DEF Spent, TrackedNames
<1>9. ASSUME NEW o \in Names, NEW k \in Refs PROVE AliasesIn(r, o, k) = AliasesIn(q, o, k)
  BY <1>2, <1>3, <1>4, <1>6 DEF AliasesIn
<1>10. Reads(r) = Reads(q) /\ Writes(r) = Writes(q)
  <2>1. "RefRead" \in Refs /\ "RefWrite" \in Refs
    BY DEF Refs
  <2> QED BY <1>9, <2>1 DEF Reads, Writes
<1>11. SameLoss(s, r)
  BY <1>1, <1>5 DEF SameLoss
<1>12. /\ TrackedNames(r) = TrackedNames(s) \cup {n} /\ Spent(r) = Spent(s) \cup S
       /\ Reads(r) = Reads(s) /\ Writes(r) = Writes(s)
  BY <1>1, <1>7, <1>8, <1>10
<1> QED BY <1>11, <1>12 DEF r, e

\* A declaration.
LEMMA DeclareView ==
    ASSUME NEW s \in Checker, Book(s), NEW n \in Names, ~Tracked(s, n), NEW kind \in OwnKind
    PROVE  Creates(s, AddFromType(s, n, kind), n)
<1>1. s.depth \in Nat /\ UsedAs(s, s, {}, {})
  BY NoUse DEF Checker
<1> DEFINE r == AddVar(s, n, Fresh(kind, s.depth, NoName))
<1>0. {} \subseteq Free(s) /\ "UniqueForget" \notin {}
  OBVIOUS
<1>2. /\ TrackedNames(r) = TrackedNames(s) \cup {n} /\ Spent(r) = Spent(s) \cup {}
      /\ Reads(r) = Reads(s) /\ Writes(r) = Writes(s) /\ SameLoss(s, r)
  BY <1>0, <1>1, AddView, SMTT(20)
<1>3. AddFromType(s, n, kind) = r
  BY DEF AddFromType
<1> HIDE DEF r
<1> QED BY <1>2, <1>3 DEF Creates

\* Reporting a rule that is not about a loss.
LEMMA EmitView ==
    ASSUME NEW s \in Checker, Book(s), NEW rule \in RuleKind, rule # "UniqueForget"
    PROVE  Spends(s, Emit(s, rule), {})
BY EmitUse, UsedSpends

\* Doing nothing.
LEMMA IdleView == ASSUME NEW s \in Checker, Book(s) PROVE Spends(s, s, {})
BY NoUse, UsedSpends

\* A clone, done or refused.
LEMMA CloneView ==
    ASSUME NEW s \in Checker, Book(s), NEW o \in Names, NEW a \in Names, ~Tracked(s, a)
    PROVE  Creates(s, DoClone(s, o, a), a) \/ Spends(s, DoClone(s, o, a), {})
<1>1. Tracked(s, o) => s.tbl[o].kind \in OwnKind
  BY RowFields DEF Tracked
<1>2. Tracked(s, o) => Creates(s, AddVar(s, a, Fresh(s.tbl[o].kind, s.depth, NoName)), a)
  BY <1>1, DeclareView DEF AddFromType
<1>3. /\ Spends(s, Emit(s, "UseAfterMove"), {}) /\ Spends(s, Emit(s, "ConsumeWhileBorrowed"), {})
      /\ Spends(s, s, {})
  BY EmitView, IdleView DEF RuleKind
<1> QED BY <1>2, <1>3 DEF DoClone

\* A declaration that moves another name's value.
LEMMA DeclareMoveView ==
    ASSUME NEW s \in Checker, Book(s), NEW n \in Names, NEW src \in Names, ~Tracked(s, n)
    PROVE  LET r == DeclareMoved(s, n, src)
           IN  Creates(s, r, n) \/ Moves(s, r, src, n) \/ \E S : Spends(s, r, S)
<1> DEFINE q == MoveOut(s, src)
           M == MovedBy(s, src, Move)
           R == Says(s, src, Move)
           kind == s.tbl[src].kind
           r == DeclareMoved(s, n, src)
<1>1. UsedAs(s, q, M, R) /\ M \subseteq Free(s) /\ "UniqueForget" \notin R /\ M \subseteq {src}
  BY UseView DEF MoveOut, MovedBy
<1>2. s.depth \in Nat /\ "BorrowEscape" \in RuleKind
  BY DEF Checker, RuleKind
<1>3. q \in Checker
  BY <1>1 DEF UsedAs
<1> HIDE DEF q, M, R
<1>4. CASE kind \in Owning
  <2> DEFINE p == AddVar(q, n, Fresh(kind, s.depth, NoName))
  <2>1. r = p /\ kind \in OwnKind
    BY <1>4 DEF DeclareMoved, OwnKind, q, Owning, Refs
  <2>2. /\ TrackedNames(p) = TrackedNames(s) \cup {n} /\ Spent(p) = Spent(s) \cup M
        /\ Reads(p) = Reads(s) /\ Writes(p) = Writes(s) /\ SameLoss(s, p)
    <3> HIDE DEF kind
    <3> QED BY <1>1, <1>2, <2>1, AddView
  <2> HIDE DEF p, r
  <2>3. CASE M = {}
    <3>1. Creates(s, p, n)
      BY <2>2, <2>3 DEF Creates
    <3> QED BY <2>1, <3>1 DEF r
  <2>4. CASE M = {src}
    <3>1. Moves(s, p, src, n)
      BY <1>1, <2>2, <2>4, FreeUnborrowed DEF Moves
    <3> QED BY <2>1, <3>1 DEF r
  <2> QED BY <1>1, <2>3, <2>4
<1>5. CASE kind \notin Owning
  <2>1. Spends(s, q, M)
    BY <1>1, UsedSpends
  <2>2. UsedAs(s, Emit(q, "BorrowEscape"), M \cup {}, R \cup {"BorrowEscape"})
    BY <1>1, <1>2, <1>3, EmitUse, UsedTwice
  <2>3. Spends(s, Emit(q, "BorrowEscape"), M)
    BY <1>1, <2>2, UsedSpends
  <2>4. r = q \/ r = Emit(q, "BorrowEscape")
    BY <1>5 DEF DeclareMoved, q
  <2> QED BY <2>1, <2>3, <2>4
<1> QED BY <1>4, <1>5

\* A borrow, granted or refused.
LEMMA BorrowView ==
    ASSUME NEW s \in Checker, Book(s), NEW o \in Names, NEW a \in Names, o # a,
           ~Tracked(s, a), NEW mode \in Modes
    PROVE  LET r == BeginBorrow(s, o, a, mode)
           IN  Lends(s, r, o, a, mode) \/ Spends(s, r, {})
<1> DEFINE v == BorrowVerdict(s, o, mode)
           l == Lend(s.tbl[o], mode)
           lent == [s EXCEPT !.tbl[o] = l]
           kind == IF mode = "Read" THEN "RefRead" ELSE "RefWrite"
           e == Fresh(kind, s.depth, o)
           r == AddVar(lent, a, e)
<1>1. CASE v # "ok"
  <2>1. v \in RuleKind /\ v # "UniqueForget"
    BY <1>1, BorrowVerdictRule DEF BorrowVerdict
  <2>2. BeginBorrow(s, o, a, mode) = Emit(s, v)
    BY <1>1 DEF BeginBorrow
  <2> HIDE DEF v
  <2> QED BY <2>1, <2>2, EmitView
<1>2. CASE v = "ok"
  <2>1. /\ Tracked(s, o)
        /\ s.tbl[o].state = "Unconsumed" \/ (s.tbl[o].state = "BorrowedRead" /\ mode = "Read")
    BY <1>2 DEF BorrowVerdict, Modes
  <2>2. /\ l \in VarEntry /\ l.kind = s.tbl[o].kind /\ l.owner = s.tbl[o].owner
        /\ l.state # "Consumed"
    <3>1. s.tbl[o] \in VarEntry
      BY RowFields
    <3>2. l \in VarEntry
      BY <3>1, LendRow
    <3> QED BY <3>1, <3>2 DEF Lend, VarEntry
  <2>3. /\ lent \in Checker /\ lent.diags = s.diags
        /\ \A m \in Names : lent.tbl[m] = IF m = o THEN l ELSE s.tbl[m]
    <3>1. lent = [s EXCEPT !.tbl[o] = l]
      OBVIOUS
    <3> HIDE DEF l, lent
    <3>2. l \in VarEntry
      BY <2>2
    <3>3. lent \in Checker /\ lent.diags = s.diags
      BY <3>1, <3>2, RowWritten
    <3>4. s.tbl \in [Names -> VarEntry] /\ lent.tbl = [s.tbl EXCEPT ![o] = l]
      BY <3>1 DEF Checker
    <3> QED BY <3>3, <3>4
  <2>4. s.depth \in Nat /\ kind \in OwnKind \cup {"None"} /\ kind # "None" /\ kind \in Refs
    BY DEF Checker, OwnKind, Refs
  <2>5. e \in VarEntry /\ e.kind = kind /\ e.owner = o /\ e.state = "Unconsumed"
    <3> HIDE DEF kind
    <3>1. e \in VarEntry
      BY <2>4, FreshRow
    <3> QED BY <3>1 DEF Fresh
  <2>6. /\ \A m \in Names : r.tbl[m] = IF m = a THEN e ELSE lent.tbl[m]
        /\ r.diags = lent.diags
    <3>1. r = AddVar(lent, a, e)
      OBVIOUS
    <3> HIDE DEF lent, e, r
    <3>2. lent.tbl \in [Names -> VarEntry] /\ r.tbl = [lent.tbl EXCEPT ![a] = e]
      BY <2>3, <3>1 DEF AddVar, Checker
    <3>3. r.diags = lent.diags
      BY <2>3, <3>1, AddReports
    <3> QED BY <3>2, <3>3
  <2>7. BeginBorrow(s, o, a, mode) = r
    BY <1>2 DEF BeginBorrow
  <2> HIDE DEF r, e, l, lent
  <2>8. /\ r.tbl[a] = e /\ s.tbl[a].kind = "None" /\ SameLoss(s, r)
        /\ \A m \in Names : m # a => /\ r.tbl[m].kind = s.tbl[m].kind
                                     /\ r.tbl[m].owner = s.tbl[m].owner
                                     /\ (r.tbl[m].state = "Consumed" <=> s.tbl[m].state = "Consumed")
    BY <2>1, <2>2, <2>3, <2>6 DEF Tracked, SameLoss
  <2>9. TrackedNames(r) = TrackedNames(s) \cup {a}
    BY <2>4, <2>5, <2>8 DEF TrackedNames
  <2>10. Spent(r) = Spent(s)
    BY <2>5, <2>8, <2>9 DEF Spent, TrackedNames
  <2>11. \A p \in Names, k \in Refs :
          AliasesIn(r, p, k) = IF p = o /\ k = kind THEN AliasesIn(s, p, k) \cup {a} ELSE AliasesIn(s, p, k)
    <3>1. "None" \notin Refs
      BY DEF Refs
    <3> HIDE DEF kind
    <3> QED BY <2>5, <2>8, <3>1 DEF AliasesIn
  <2>12. /\ o \in TrackedNames(s) \ Spent(s) /\ Counted(s, o) /\ Exclusive(s, o)
    BY <2>1 DEF Tracked, TrackedNames, Spent, Book, Accounts
  <2>13. "RefRead" \in Refs /\ "RefWrite" \in Refs
    BY DEF Refs
  <2>14. CASE mode = "Read"
    <3>1. AliasesIn(s, o, "RefWrite") = {}
      BY <2>1, <2>12 DEF Counted, Exclusive
    <3>2. \A p \in Names : /\ AliasesIn(r, p, "RefWrite") = AliasesIn(s, p, "RefWrite")
                           /\ AliasesIn(r, p, "RefRead") = IF p = o THEN AliasesIn(s, p, "RefRead") \cup {a}
                                                           ELSE AliasesIn(s, p, "RefRead")
      BY <2>11, <2>13, <2>14
    <3>3. Writes(r) = Writes(s) /\ Reads(r) = [Reads(s) EXCEPT ![o] = @ \cup {a}]
      BY <3>2 DEF Reads, Writes
    <3>4. Lends(s, r, o, a, mode)
      BY <2>8, <2>9, <2>10, <2>12, <2>14, <3>1, <3>3 DEF Lends
    <3> QED BY <2>7, <3>4
  <2>15. CASE mode = "Write"
    <3>1. BorrowersIn(s, o) = {}
      BY <2>1, <2>12, <2>15 DEF Counted, BorrowersIn
    <3>2. \A p \in Names : /\ AliasesIn(r, p, "RefRead") = AliasesIn(s, p, "RefRead")
                           /\ AliasesIn(r, p, "RefWrite") = IF p = o THEN AliasesIn(s, p, "RefWrite") \cup {a}
                                                            ELSE AliasesIn(s, p, "RefWrite")
      BY <2>11, <2>13, <2>15
    <3>3. Reads(r) = Reads(s) /\ Writes(r) = [Writes(s) EXCEPT ![o] = @ \cup {a}]
      BY <3>2 DEF Reads, Writes
    <3>4. Lends(s, r, o, a, mode)
      BY <2>8, <2>9, <2>10, <2>12, <2>15, <3>1, <3>3 DEF Lends
    <3> QED BY <2>7, <3>4
  <2> QED BY <2>14, <2>15 DEF Modes
<1> QED BY <1>1, <1>2

\* A tracked destination takes over the value that was moved out of src.
LEMMA TransferView ==
    ASSUME NEW s \in Checker, Book(s), NEW dst \in Names, NEW src \in Names, dst # src,
           Tracked(s, dst), BorrowersIn(s, dst) = {}, src \in Free(s), NEW kind \in Owning,
           NEW q, NEW rules, UsedAs(s, q, {src}, rules)
    PROVE  Replaces(s, FinishTransfer(q, dst, kind), dst, src)
<1> DEFINE new == Fresh(kind, q.depth, NoName)
           p == RemoveVar(q, dst)
           r == [p EXCEPT !.tbl[dst] = new]
<1>1. q \in Checker /\ Keeps(s, q) /\ q.depth \in Nat
  <2>1. Keeps(s, q)
    BY UsedKeeps
  <2>2. q \in Checker
    BY <2>1 DEF Keeps
  <2> QED BY <2>1, <2>2 DEF Checker
<1>2. kind \in OwnKind \cup {"None"} /\ kind # "None" /\ kind \notin Refs
  BY DEF OwnKind, Owning, Refs
<1>3. new \in VarEntry /\ new.kind = kind /\ new.state = "Unconsumed"
  <2>1. new \in VarEntry
    BY <1>1, <1>2, FreshRow
  <2> QED BY <2>1 DEF Fresh
<1>4. /\ p \in Checker /\ q.diags \subseteq p.diags
      /\ \A m \in Names : m # dst =>
            /\ p.tbl[m].kind = q.tbl[m].kind /\ p.tbl[m].owner = q.tbl[m].owner
            /\ (p.tbl[m].state = "Consumed" <=> q.tbl[m].state = "Consumed")
  BY <1>1, RemoveVarFrame, RemoveVarView
<1>5. Tracked(q, dst)
  BY <1>1, KeepsTracked
<1>6. FinishTransfer(q, dst, kind) = r
  BY <1>5 DEF FinishTransfer
<1> HIDE DEF new, p
<1>0. r = [p EXCEPT !.tbl[dst] = new]
  OBVIOUS
<1> HIDE DEF r
<1>7. /\ \A m \in Names : r.tbl[m] = IF m = dst THEN new ELSE p.tbl[m]
      /\ r.diags = p.diags
  <2>1. p.tbl \in [Names -> VarEntry] /\ r.tbl = [p.tbl EXCEPT ![dst] = new] /\ r.diags = p.diags
    BY <1>0, <1>4 DEF Checker
  <2> QED BY <2>1
<1>8. ASSUME NEW m \in Names
      PROVE  /\ q.tbl[m].kind = s.tbl[m].kind /\ q.tbl[m].owner = s.tbl[m].owner
             /\ (q.tbl[m].state = "Consumed" <=> s.tbl[m].state = "Consumed" \/ m = src)
  <2>1. q.tbl[m] = IF m = src THEN [s.tbl[m] EXCEPT !.state = "Consumed"] ELSE s.tbl[m]
    BY DEF UsedAs
  <2>2. s.tbl[m] \in VarEntry
    BY RowFields
  <2> QED BY <2>1, <2>2 DEF VarEntry
<1>9. \A m \in Names : m # dst =>
        /\ r.tbl[m].kind = s.tbl[m].kind /\ r.tbl[m].owner = s.tbl[m].owner
        /\ (r.tbl[m].state = "Consumed" <=> s.tbl[m].state = "Consumed" \/ m = src)
  BY <1>4, <1>7, <1>8
<1>10. r.tbl[dst].kind = kind /\ r.tbl[dst].state = "Unconsumed" /\ s.tbl[dst].kind # "None"
  BY <1>3, <1>7 DEF Tracked
<1>11. TrackedNames(r) = TrackedNames(s)
  BY <1>2, <1>9, <1>10 DEF TrackedNames
<1>12. src \in TrackedNames(s) \ Spent(s) /\ BorrowersIn(s, src) = {} /\ dst \in TrackedNames(s)
  BY FreeUnborrowed DEF Tracked, TrackedNames
<1>13. Spent(r) = (Spent(s) \cup {src}) \ {dst}
  BY <1>9, <1>10, <1>11, <1>12 DEF Spent, TrackedNames
<1>14. \A o, k : k \in Refs => AliasesIn(r, o, k) = AliasesIn(s, o, k) \ {dst}
  BY <1>2, <1>9, <1>10 DEF AliasesIn
<1>15. Reads(r) = Left(s, "RefRead", {dst}) /\ Writes(r) = Left(s, "RefWrite", {dst})
  <2>1. "RefRead" \in Refs /\ "RefWrite" \in Refs
    BY DEF Refs
  <2> QED BY <1>14, <2>1 DEF Reads, Writes, Left
<1>16. s.diags \subseteq r.diags
  BY <1>4, <1>7 DEF UsedAs
<1>17. Replaces(s, r, dst, src)
  BY <1>11, <1>12, <1>13, <1>15, <1>16 DEF Replaces
<1> QED BY <1>6, <1>17

\* The assignment statement.
LEMMA AssignView ==
    ASSUME NEW s \in Checker, Book(s), NEW dst \in Names, NEW src \in Names, Settled(s, dst)
    PROVE  LET r == AssignStatement(s, dst, src)
           IN  Replaces(s, r, dst, src) \/ Moves(s, r, src, dst) \/ \E S : Spends(s, r, S)
<1> DEFINE moved == MoveOut(s, src)
           q == IF s.tbl[src].kind \in Refs THEN Emit(moved, "BorrowEscape") ELSE moved
           M == MovedBy(s, src, Move)
           kind == s.tbl[src].kind
           r == AssignStatement(s, dst, src)
<1>1. \E rules : UsedAs(s, q, M, rules) /\ "UniqueForget" \notin rules
  <2>1. UsedAs(s, moved, M, Says(s, src, Move)) /\ "UniqueForget" \notin Says(s, src, Move)
    BY UseView DEF MoveOut
  <2>2. moved \in Checker /\ "BorrowEscape" \in RuleKind
    BY <2>1 DEF UsedAs, RuleKind
  <2> HIDE DEF moved, M
  <2>3. UsedAs(s, Emit(moved, "BorrowEscape"), M \cup {}, Says(s, src, Move) \cup {"BorrowEscape"})
    BY <2>1, <2>2, EmitUse, UsedTwice
  <2> QED BY <2>1, <2>3
<1>2. PICK rules : UsedAs(s, q, M, rules) /\ "UniqueForget" \notin rules
  BY <1>1
<1>3. M \subseteq Free(s) /\ M \subseteq {src}
  BY UseView DEF MovedBy
<1>4. r = CASE ~PlansTransfer(s, dst, src) -> q
            [] PlansTransfer(s, dst, src) /\ dst = src -> s
            [] PlansTransfer(s, dst, src) /\ dst # src /\ q.tbl[src].state # "Consumed" -> q
            [] OTHER -> FinishTransfer(q, dst, kind)
  <2> HIDE DEF q
  <2>1. r = IF ~PlansTransfer(s, dst, src) THEN q
            ELSE IF dst = src THEN s
            ELSE IF q.tbl[src].state # "Consumed" THEN q
            ELSE FinishTransfer(q, dst, s.tbl[src].kind)
    BY DEF AssignStatement, q
  <2> HIDE DEF r
  <2> QED BY <2>1
<1> HIDE DEF q, M, r
<1>5. Spends(s, q, M) /\ Spends(s, s, {})
  BY <1>2, <1>3, UsedSpends, IdleView
<1>6. SUFFICES ASSUME PlansTransfer(s, dst, src), dst # src, q.tbl[src].state = "Consumed",
                      r = FinishTransfer(q, dst, kind)
               PROVE  Replaces(s, r, dst, src) \/ Moves(s, r, src, dst)
  BY <1>4, <1>5 DEF r
<1>7. kind \in Owning /\ kind \in OwnKind /\ s.tbl[src].state = "Unconsumed"
  BY <1>6 DEF PlansTransfer, OwnKind
<1>8. M = {src}
  <2>1. M # {} => M = {src}
    BY <1>3
  <2>2. M = {} => q.tbl[src] = s.tbl[src]
    BY <1>2 DEF UsedAs
  <2> QED BY <1>6, <1>7, <2>1, <2>2
<1>9. src \in Free(s) /\ UsedAs(s, q, {src}, rules) /\ q \in Checker
  BY <1>2, <1>3, <1>8 DEF UsedAs
<1> HIDE DEF kind
<1>10. CASE Tracked(s, dst)
  <2>1. BorrowersIn(s, dst) = {}
    BY SettledUnborrowed DEF BorrowersIn
  <2>2. Replaces(s, FinishTransfer(q, dst, kind), dst, src)
    BY <1>6, <1>7, <1>9, <1>10, <2>1, TransferView
  <2> QED BY <1>6, <2>2
<1>11. CASE ~Tracked(s, dst)
  <2> DEFINE p == AddVar(q, dst, Fresh(kind, q.depth, NoName))
  <2>1. ~Tracked(q, dst) /\ q.depth \in Nat
    BY <1>9, <1>11, UsedKeeps, KeepsTracked DEF Checker
  <2>2. r = p
    BY <1>6, <2>1 DEF FinishTransfer
  <2>3. /\ TrackedNames(p) = TrackedNames(s) \cup {dst} /\ Spent(p) = Spent(s) \cup M
        /\ Reads(p) = Reads(s) /\ Writes(p) = Writes(s) /\ SameLoss(s, p)
    BY <1>2, <1>3, <1>7, <1>11, <2>1, AddView
  <2> HIDE DEF p
  <2>4. Moves(s, p, src, dst)
    BY <1>8, <1>9, <1>11, <2>3, FreeUnborrowed DEF Moves
  <2> QED BY <2>2, <2>4
<1> QED BY <1>10, <1>11

\* Leaving the function after uses that report no loss: nothing was
\* forgotten, or what was is given up and reported.
LEMMA LeaveView ==
    ASSUME NEW s \in Checker, Book(s), NEW q, NEW S, NEW rules, UsedAs(s, q, S, rules),
           S \subseteq Free(s), "UniqueForget" \notin rules
    PROVE  LET r == RequireConsumed(q)
           IN  \E T : Spends(s, r, T) \/ Abandons(s, r, T)
<1> DEFINE F == Forgotten(q)
           r == RequireConsumed(q)
<1>1. q \in Checker /\ Spends(s, q, S)
  <2>1. Spends(s, q, S)
    BY UsedSpends
  <2> QED BY <2>1 DEF UsedAs
<1>2. /\ r.tbl = [n \in Names |-> IF n \in F THEN [q.tbl[n] EXCEPT !.state = "Consumed"] ELSE q.tbl[n]]
      /\ r.diags = q.diags \cup IF F = {} THEN {} ELSE {"UniqueForget"}
  BY <1>1 DEF RequireConsumed, Checker
<1>3. F \subseteq TrackedNames(q)
  BY DEF Forgotten, TrackedNames
<1>4. Keeps(q, r)
  BY <1>1, RequireConsumedKeeps
<1> HIDE DEF F, r
<1>5. TrackedNames(r) = TrackedNames(q) /\ Reads(r) = Reads(q) /\ Writes(r) = Writes(q)
  BY <1>1, <1>4, KeepsView
<1>6. Spent(r) = Spent(q) \cup F
  <2>1. ASSUME NEW n \in TrackedNames(q)
        PROVE  r.tbl[n].state = "Consumed" <=> (q.tbl[n].state = "Consumed" \/ n \in F)
    <3>1. n \in Names /\ q.tbl[n] \in VarEntry
      BY <1>1, RowFields DEF TrackedNames
    <3>2. r.tbl[n] = IF n \in F THEN [q.tbl[n] EXCEPT !.state = "Consumed"] ELSE q.tbl[n]
      BY <1>2, <3>1
    <3> QED BY <3>1, <3>2 DEF VarEntry
  <2> QED BY <1>3, <1>5, <2>1 DEF Spent
<1>7. CASE F = {}
  <2>1. Spends(s, r, S)
    BY <1>1, <1>2, <1>5, <1>6, <1>7 DEF Spends, SameLoss
  <2> QED BY <2>1 DEF r
<1>8. CASE F # {}
  <2>1. Abandons(s, r, S \cup F)
    BY <1>1, <1>2, <1>3, <1>5, <1>6, <1>8 DEF Spends, Abandons
  <2> QED BY <2>1 DEF r
<1> QED BY <1>7, <1>8

\* return n: a use of n first, and the rule against returning a borrow.
LEMMA ReturnView ==
    ASSUME NEW s \in Checker, Book(s), NEW n \in Names
    PROVE  LET r == RequireConsumed(ReturnArgument(s, n))
           IN  \E T : Spends(s, r, T) \/ Abandons(s, r, T)
<1> DEFINE p == IF s.tbl[n].kind \in Refs THEN Emit(s, "BorrowEscape") ELSE s
           q == ApplyApps(p, n, Move)
<1>1. \E rules : UsedAs(s, p, {}, rules) /\ "UniqueForget" \notin rules
  <2>1. UsedAs(s, Emit(s, "BorrowEscape"), {}, {"BorrowEscape"}) /\ UsedAs(s, s, {}, {})
    BY EmitUse, NoUse DEF RuleKind
  <2> QED BY <2>1
<1>2. PICK rules : UsedAs(s, p, {}, rules) /\ "UniqueForget" \notin rules
  BY <1>1
<1>3. ReturnArgument(s, n) = q
  BY DEF ReturnArgument, MoveOut
<1> HIDE DEF p
<1>4. Keeps(s, p)
  BY <1>2, UsedKeeps
<1>5. p \in Checker /\ Book(p) /\ Free(p) \subseteq Free(s)
  <2>1. p \in Checker /\ Book(p)
    BY <1>4, KeepsBook DEF Keeps
  <2>2. TrackedNames(p) = TrackedNames(s)
    BY <1>4, KeepsView
  <2>3. \A k \in TrackedNames(s) : p.tbl[k].state \in {s.tbl[k].state, "Consumed"}
    BY <1>4, KeepsColumns DEF TrackedNames
  <2> QED BY <2>1, <2>2, <2>3 DEF Free
<1> DEFINE M == MovedBy(p, n, Move)
           R == Says(p, n, Move)
<1>6. UsedAs(p, q, M, R) /\ M \subseteq Free(p) /\ "UniqueForget" \notin R
  BY <1>5, UseView
<1> HIDE DEF q, M, R
<1>7. UsedAs(s, q, {} \cup M, rules \cup R)
  BY <1>2, <1>6, UsedTwice
<1>8. /\ {} \cup M \subseteq Free(s) /\ "UniqueForget" \notin rules \cup R
  BY <1>2, <1>5, <1>6
<1>9. \E T : Spends(s, RequireConsumed(q), T) \/ Abandons(s, RequireConsumed(q), T)
  BY <1>7, <1>8, LeaveView
<1> QED BY <1>3, <1>9

\* That is a region's end: no borrower outlives its owner, since the book is
\* in order afterwards.
LEMMA ShrinksCloses ==
    ASSUME NEW s, NEW r, Accounts(r), Shrinks(s, r)
    PROVE  Closes(s, r, TrackedNames(s) \ TrackedNames(r))
<1> DEFINE gone == TrackedNames(s) \ TrackedNames(r)
<1>1. \A m \in TrackedNames(r) :
        /\ m \in TrackedNames(s) /\ r.tbl[m].kind = s.tbl[m].kind /\ r.tbl[m].owner = s.tbl[m].owner
        /\ (r.tbl[m].state = "Consumed" <=> s.tbl[m].state = "Consumed")
  BY DEF Shrinks, TrackedNames
<1>2. TrackedNames(r) = TrackedNames(s) \ gone /\ Spent(r) = Spent(s) \ gone
  BY <1>1 DEF Spent
<1>3. ASSUME NEW o \in Names, NEW k \in Refs
      PROVE  AliasesIn(r, o, k) = AliasesIn(s, o, k) \ gone
  <2>1. \A m \in Names : r.tbl[m].kind = k \/ s.tbl[m].kind = k => m \in TrackedNames(r) \cup TrackedNames(s)
    BY DEF TrackedNames, Refs
  <2> QED BY <1>1, <2>1 DEF AliasesIn, TrackedNames, Refs
<1>4. "RefRead" \in Refs /\ "RefWrite" \in Refs
  BY DEF Refs
<1>5. Reads(r) = Left(s, "RefRead", gone) /\ Writes(r) = Left(s, "RefWrite", gone)
  <2> HIDE DEF gone
  <2> QED BY <1>3, <1>4 DEF Reads, Writes, Left
<1>6. ASSUME NEW o \in gone, NEW k \in Refs, NEW a \in AliasesIn(s, o, k) PROVE a \in gone
  <2>1. SUFFICES ASSUME a \in TrackedNames(r) PROVE FALSE
    BY DEF AliasesIn, TrackedNames, Refs
  <2>2. r.tbl[a].kind \in Refs /\ r.tbl[a].owner = o /\ o # NoName /\ a \in Names
    BY <1>1, <2>1, NamesAssumption DEF AliasesIn, TrackedNames
  <2>3. Tracked(r, o)
    BY <2>2 DEF Accounts, Rooted
  <2> QED BY <2>3 DEF Tracked, TrackedNames
<1>7. \A o \in gone : BorrowersIn(s, o) \subseteq gone
  <2> HIDE DEF gone
  <2> QED BY <1>4, <1>6 DEF BorrowersIn
<1> HIDE DEF gone
<1>8. gone \subseteq TrackedNames(s)
  BY DEF gone
<1>9. Closes(s, r, gone)
  BY <1>2, <1>5, <1>7, <1>8 DEF Closes, Shrinks
<1> QED BY <1>9 DEF gone

\* The end of a scope.
LEMMA PopScopeView ==
    ASSUME NEW s \in Checker, Book(s), Len(s.marks) > 0, s.marks[Len(s.marks)] <= Len(s.bindings),
           NEW r, r.tbl = PopScope(s).tbl, r.diags = PopScope(s).diags
    PROVE  Closes(s, r, TrackedNames(s) \ TrackedNames(r))
<1> DEFINE m == s.marks[Len(s.marks)]
           k == Len(s.bindings) - m
           q == Popped(s, k)
<1>1. s.marks \in Seq(Nat) /\ Len(s.marks) \in Nat /\ Len(s.marks) \in 1 .. Len(s.marks)
  BY LenProperties DEF Checker
<1>2. m \in Nat /\ Len(s.bindings) \in Nat
  BY <1>1, ElementOfSeq, BindingsLength
<1>3. k \in 0 .. Len(s.bindings)
  BY <1>2
<1>4. q \in Checker /\ Book(q) /\ Shrinks(s, q)
  <2> HIDE DEF k
  <2> QED BY <1>3, PoppedFrame, PoppedBook, PoppedShrinks
<1>5. PopScope(s) = [q EXCEPT !.marks = SubSeq(@, 1, Len(@) - 1)]
  BY DEF PopScope
<1> HIDE DEF q
<1>6. r.tbl = q.tbl /\ r.diags = q.diags
  BY <1>4, <1>5 DEF Checker
<1>7. Accounts(r)
  BY <1>4, <1>6, SameAccounts DEF Book
<1>8. Shrinks(s, r)
  BY <1>4, <1>6 DEF Shrinks
<1> QED BY <1>7, <1>8, ShrinksCloses

-----------------------------------------------------------------------------
\* The empty table is the empty loan book.
LEMMA LoanInit == ASSUME Init PROVE LoanBook!Init
<1>1. \A n \in Names : tbl[n].kind = "None"
  BY DEF Init, NoEntry
<1>2. TrackedNames(Now) = {}
  BY <1>1 DEF TrackedNames, Now
<1>3. \A o, k : k \in Refs => Aliases(o, k) = {}
  BY <1>1 DEF Aliases, Refs
<1>4. "RefRead" \in Refs /\ "RefWrite" \in Refs
  BY DEF Refs
<1>5. ("UniqueForget" \in diags) = FALSE
  BY DEF Init
<1>6. /\ [o \in Names |-> Aliases(o, "RefRead")] = [o \in Names |-> {}]
      /\ [o \in Names |-> Aliases(o, "RefWrite")] = [o \in Names |-> {}]
  BY <1>3, <1>4
<1> QED BY <1>2, <1>5, <1>6 DEF LoanBook!Init

\* A step that leaves the rows and the rules alone leaves the loan book alone.
LEMMA LoanIdle ==
    ASSUME tbl' = tbl, diags' = diags
    PROVE  UNCHANGED LoanBook!vars
BY DEF LoanBook!vars, Aliases, TrackedNames, Now

\* The order of an expression lists names.
LEMMA OrderNames ==
    ASSUME NEW f, NEW order \in Orders(f)
    PROVE  Len(order) \in Nat /\ \A i \in 1 .. Len(order) : order[i] \in Names
<1>1. Appearing(f) \subseteq Names
  BY DEF Appearing
<1>2. IsFiniteSet(Appearing(f))
  BY <1>1, NamesAssumption, FS_Subset
<1>3. Cardinality(Appearing(f)) \in Nat
  BY <1>2, FS_CardinalityType
<1>4. order \in [1 .. Cardinality(Appearing(f)) -> Appearing(f)]
  BY DEF Orders
<1>5. order \in Seq(Appearing(f))
  BY <1>3, <1>4
<1>6. Len(order) \in Nat /\ \A i \in 1 .. Len(order) : order[i] \in Appearing(f)
  BY <1>5, LenProperties, ElementOfSeq
<1> QED BY <1>1, <1>6

\* Every statement of the checker is a step of the loan book.
LEMMA LoanNext ==
    ASSUME ~Shadowing, ~Reassign, BookInv, [Next]_vars
    PROVE  [LoanBook!Next]_(LoanBook!vars)
<1>1. Now \in Checker /\ Book(Now) /\ TypeInv
  BY NowTyped DEF BookInv
<1>2. ASSUME NEW n \in Names, Declarable(n) PROVE ~Tracked(Now, n)
  BY <1>2 DEF Declarable
<1>3. ASSUME NEW r \in Checker, Run(r) PROVE Now' = r
  BY <1>3, NowOf DEF Run
<1>4. ASSUME NEW n \in Names, NEW kind \in OwnKind, Declare(n, kind) PROVE LoanBook!Next
  <2> DEFINE r == AddFromType(Now, n, kind)
  <2>1. Creates(Now, r, n) /\ r \in Checker
    BY <1>1, <1>2, <1>4, DeclareView, AddFromTypeGrows DEF Declare, Grows
  <2>2. Now' = r
    BY <1>3, <1>4, <2>1 DEF Declare
  <2> HIDE DEF r
  <2> QED BY <2>1, <2>2, CreatesStep
<1>5. ASSUME NEW n \in Names, NEW m \in Names, DeclareMove(n, m) PROVE LoanBook!Next
  <2> DEFINE r == DeclareMoved(Now, n, m)
  <2>1. ~Tracked(Now, n)
    BY <1>2, <1>5 DEF DeclareMove
  <2>2. Creates(Now, r, n) \/ Moves(Now, r, m, n) \/ \E S : Spends(Now, r, S)
    BY <1>1, <2>1, DeclareMoveView
  <2>3. r \in Checker
    BY <1>1, DeclareMovedGrows DEF Grows
  <2>4. Now' = r
    BY <1>3, <1>5, <2>3 DEF DeclareMove
  <2> HIDE DEF r
  <2> QED BY <2>2, <2>4, CreatesStep, MovesStep, SpendsStep
<1>6. ASSUME NEW n \in Names, NEW m \in Names, Clone(n, m) PROVE LoanBook!Next
  <2> DEFINE r == DoClone(Now, n, m)
  <2>1. ~Tracked(Now, m)
    BY <1>2, <1>6 DEF Clone
  <2>2. Creates(Now, r, m) \/ Spends(Now, r, {})
    BY <1>1, <2>1, CloneView
  <2>3. r \in Checker
    BY <1>1, DoCloneGrows DEF Grows
  <2>4. Now' = r
    BY <1>3, <1>6, <2>3 DEF Clone
  <2> HIDE DEF r
  <2> QED BY <2>2, <2>4, CreatesStep, SpendsStep
<1>7. ASSUME NEW n \in Names, NEW m \in Names, Assign(n, m) PROVE LoanBook!Next
  <2> DEFINE r == AssignStatement(Now, n, m)
  <2>1. Settled(Now, n)
    BY <1>7 DEF Assign, Settled, Now
  <2>2. Replaces(Now, r, n, m) \/ Moves(Now, r, m, n) \/ \E S : Spends(Now, r, S)
    BY <1>1, <2>1, AssignView
  <2>3. r \in Checker
    BY <1>1, AssignStatementGrows DEF Grows
  <2>4. Now' = r
    BY <1>3, <1>7, <2>3 DEF Assign
  <2> HIDE DEF r
  <2> QED BY <2>2, <2>4, ReplacesStep, MovesStep, SpendsStep
<1>8. ASSUME NEW o \in Names, NEW a \in Names, NEW mode \in Modes, Borrow(o, a, mode)
      PROVE  LoanBook!Next
  <2> DEFINE r == BeginBorrow(Now, o, a, mode)
  <2>1. ~Tracked(Now, a) /\ o # a
    BY <1>2, <1>8 DEF Borrow
  <2>2. Lends(Now, r, o, a, mode) \/ Spends(Now, r, {})
    BY <1>1, <2>1, BorrowView
  <2>3. r \in Checker
    BY <1>1, BeginBorrowGrows DEF Grows
  <2>4. Now' = r
    BY <1>3, <1>8, <2>3 DEF Borrow
  <2> HIDE DEF r
  <2> QED BY <2>2, <2>4, LendsStep, SpendsStep
<1>9. ASSUME NEW f \in Uses, NEW order \in Orders(f), Evaluate(f, order) PROVE LoanBook!Next
  <2> DEFINE r == CheckExpr(Now, f, order)
  <2>1. Len(order) \in Nat /\ \A i \in 1 .. Len(order) : order[i] \in Names
    BY OrderNames
  <2>2. PICK S : Spends(Now, r, S)
    BY <1>1, <2>1, ExprView
  <2>3. r \in Checker
    BY <1>1, <2>1, CheckExprKeeps DEF Keeps
  <2>4. Now' = r
    BY <1>3, <1>9, <2>3 DEF Evaluate
  <2> HIDE DEF r
  <2> QED BY <2>2, <2>4, SpendsStep
<1>10. ASSUME NEW n \in Names, Drop(n) PROVE LoanBook!Next
  <2> DEFINE r == ApplyApps(Now, n, Move)
  <2>1. Spends(Now, r, MovedBy(Now, n, Move))
    BY <1>1, UseView, UsedSpends
  <2>2. r \in Checker
    BY <1>1, ApplyAppsKeeps DEF Keeps
  <2>3. Now' = r
    BY <1>3, <1>10, <2>2 DEF Drop
  <2> HIDE DEF r
  <2> QED BY <2>1, <2>3, SpendsStep
<1>11. ASSUME Exit PROVE LoanBook!Next
  <2> DEFINE r == RequireConsumed(Now)
  <2>1. UsedAs(Now, Now, {}, {}) /\ {} \subseteq Free(Now) /\ "UniqueForget" \notin {}
    BY <1>1, NoUse
  <2>2. PICK T : Spends(Now, r, T) \/ Abandons(Now, r, T)
    BY <1>1, <2>1, LeaveView
  <2>3. r \in Checker
    BY <1>1, RequireConsumedKeeps DEF Keeps
  <2>4. Now' = r
    BY <1>3, <1>11, <2>3 DEF Exit
  <2> HIDE DEF r
  <2> QED BY <2>2, <2>4, SpendsStep, AbandonsStep
<1>12. ASSUME NEW n \in Names, Return(n) PROVE LoanBook!Next
  <2> DEFINE r == RequireConsumed(ReturnArgument(Now, n))
  <2>1. PICK T : Spends(Now, r, T) \/ Abandons(Now, r, T)
    BY <1>1, ReturnView
  <2>2. r \in Checker
    BY <1>1, ReturnArgumentKeeps, RequireConsumedKeeps DEF Keeps
  <2>3. Now' = r
    BY <1>3, <1>12, <2>2 DEF Return
  <2> HIDE DEF r
  <2> QED BY <2>1, <2>3, SpendsStep, AbandonsStep
<1>13. ASSUME OpenBlock \/ OpenLoop PROVE UNCHANGED LoanBook!vars
  <2>1. tbl' = PushScope(Now).tbl /\ diags' = PushScope(Now).diags
    <3>1. PushScope(Now) \in Checker
      BY <1>1, PushScopeFrame
    <3> QED BY <1>13, <3>1 DEF OpenBlock, OpenLoop, Become, Checker
  <2>2. PushScope(Now).tbl = Now.tbl /\ PushScope(Now).diags = Now.diags
    BY <1>1 DEF PushScope, Checker
  <2>3. tbl' = tbl /\ diags' = diags
    BY <2>1, <2>2 DEF Now
  <2> QED BY <2>3, LoanIdle
<1>14. ASSUME Close PROVE LoanBook!Next
  <2>1. Len(Now.marks) > 0 /\ Now.marks[Len(Now.marks)] <= Len(Now.bindings)
    <3>1. Len(marks) > 0 /\ Len(marks) \in Nat
      BY <1>1, <1>14, LenProperties DEF Close, Open, Now, Checker
    <3>2. marks[Len(marks)] <= Len(bindings)
      BY <1>1, <3>1 DEF TypeInv, Nested
    <3> QED BY <3>1, <3>2 DEF Now
  <2>2. PopScope(Now) \in Checker
    BY <1>1, <2>1, PopScopeFrame
  <2>3. Now'.tbl = PopScope(Now).tbl /\ Now'.diags = PopScope(Now).diags
    BY <1>14, <2>2 DEF Close, Become, Now, Checker
  <2> DEFINE r == Now'
  <2>4. Closes(Now, r, TrackedNames(Now) \ TrackedNames(r))
    BY <1>1, <2>1, <2>3, PopScopeView
  <2> QED BY <2>4, ClosesStep
<1>15. ASSUME UNCHANGED vars PROVE UNCHANGED LoanBook!vars
  BY <1>15, LoanIdle DEF vars
<1> QED
  BY <1>4, <1>5, <1>6, <1>7, <1>8, <1>9, <1>10, <1>11, <1>12, <1>13, <1>14, <1>15 DEF Next

\* The checker's table implements the lending discipline: what is on loan is
\* neither moved out nor replaced, a writer borrows alone, a region ends only
\* with all that borrows from it, and what is given up unspent is reported.
THEOREM TableLends == ASSUME ~Shadowing, ~Reassign PROVE Spec => LendingDiscipline
<1>1. BookInv /\ [Next]_vars => [LoanBook!Next]_(LoanBook!vars)
  BY LoanNext
<1>2. Init => LoanBook!Init
  BY LoanInit
<1> QED BY <1>1, <1>2, BookAlways, PTL DEF Spec, LendingDiscipline, LoanBook!Spec
=============================================================================
