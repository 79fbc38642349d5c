--------------------------- MODULE OwnCheck_proof ---------------------------
(***************************************************************************)
(* The walk of check_stmt over every program of every fragment: its fields *)
(* keep their types, every handler gives back what it took, and whichever  *)
(* branch's table is kept, the table holds the names of the open scopes.   *)
(***************************************************************************)
EXTENDS OwnSound, OwnTable_proof

\* The rows of all names.
Table == [Names -> VarEntry]
\* A slot of pending_finally.
Snapshot == [some : BOOLEAN, tbl : Table]

FrameParts == Bodies \cup {"switch"}
FrameKeys  == {"", "exits", "case", "default", "catch", "finally", "both", "again"}
FrameRecord == [part : FrameParts, at : Nat, bound : SUBSET Names, exits : BOOLEAN,
                base : Table, tables : Seq(Table), k : FrameKeys, exiting : Snapshot]
\* A frame of the second branch keeps the first one's table.
FrameType == {f \in FrameRecord : f.part \in {"else", "catch"} => Len(f.tables) > 0}

\* The tokens a program is written with: what each operation is given.
NamesOne == {"declare", "plain", "move", "borrow", "clone", "consume", "read", "and", "assign"}
NamesTwo == {"move", "borrow", "clone", "assign"}
TokenType == {t \in Tokens : /\ t.op \in NamesOne => t.x \in Names
                             /\ t.op \in NamesTwo => t.y \in Names
                             /\ t.op = "declare" => t.k \in Owning
                             /\ t.op = "borrow" => t.k \in Modes
                             /\ t.op = "try" => t.k \in {"catch", "finally", "both"}}

\* The open constructs of a kind, a kind being a set of parts and keys.
Tag(f) == <<f.part, f.k>>
Tagged(fs, kinds) == {i \in 1 .. Len(fs) : Tag(fs[i]) \in kinds}
Loop   == {"while"} \X FrameKeys
Switch == {"switch"} \X FrameKeys
\* A try statement whose finalizer was not reached.
OpenTry == ({"try"} \X (FrameKeys \ {"catch"})) \cup {<<"catch", "both">>}
Amount(fs, kinds) == Cardinality(Tagged(fs, kinds))
\* How many of them one construct makes.
One(f, kinds) == IF Tag(f) \in kinds THEN 1 ELSE 0

\* The marks of the open scopes lie inside the bindings and do not decrease.
Scoped(s) ==
    /\ \A i \in 1 .. Len(s.marks) : s.marks[i] <= Len(s.bindings)
    /\ \A i, j \in 1 .. Len(s.marks) : i <= j => s.marks[i] <= s.marks[j]

\* The checker's counters and scopes are those of the open constructs.
Fits(s, fs, p) ==
    /\ s \in Checker /\ fs \in Seq(FrameType) /\ p \in Seq(Snapshot)
    /\ Scoped(s)
    /\ \A i \in 1 .. Len(fs) : fs[i].part = "body" <=> i = 1
    /\ s.depth = Amount(fs, Loop)
    /\ Len(p) = Amount(fs, OpenTry)
    /\ Len(s.marks) = Len(fs) - Amount(fs, Switch)

\* The inductive invariant: a finalizer walked again stays in the program read.
CheckInv ==
    /\ prog \in Seq(TokenType) /\ pc \in 1 .. Len(prog) + 1
    /\ tries = Len(pending)
    /\ Fits(chk, frames, pending)
    /\ \A i \in 1 .. Len(frames) : frames[i].at <= Len(prog)

-----------------------------------------------------------------------------
\* A table has the rows of exactly the first m bindings' names.
CoversTo(tbl, b, m) ==
    {n \in Names : tbl[n].kind # "None"} = {b[i].name : i \in 1 .. m}

\* A binding hides a row exactly when an older binding has its name.
Hides(b) ==
    \A j \in 1 .. Len(b) :
        b[j].shadowed.kind # "None" <=> \E i \in 1 .. j - 1 : b[i].name = b[j].name

\* The table is that of the open scopes.
Covered(s) == CoversTo(s.tbl, s.bindings, Len(s.bindings)) /\ Hides(s.bindings)

\* A construct that compares tables: those it keeps are tables of the scopes
\* open around it.
Compares == {"then", "else", "case", "try", "catch"}
FrameCovers(f, s, i) ==
    /\ f.part \in Compares =>
          /\ CoversTo(f.base, s.bindings, s.marks[i])
          /\ \A j \in 1 .. Len(f.tables) : CoversTo(f.tables[j], s.bindings, s.marks[i])
    /\ f.part = "switch" => CoversTo(f.base, s.bindings, Len(s.bindings)) /\ f.tables = <<>>

\* So are all of them, and a switch waits for its first clause with nothing
\* open inside.
Holds(s, fs) ==
    /\ Covered(s)
    /\ \A i \in 1 .. Len(fs) :
          /\ fs[i].part # "finally"
          /\ fs[i].part = "switch" => i = Len(fs)
          /\ FrameCovers(fs[i], s, i)

\* The inductive invariant of programs without finalizers: no token is walked
\* twice.
CoverInv == ~Has("finally") => pc = Len(prog) + 1 /\ Holds(chk, frames)

-----------------------------------------------------------------------------
(* Counting the open constructs of a kind. *)

\* There are finitely many.
LEMMA AmountType ==
    ASSUME NEW fs \in Seq(FrameType), NEW kinds
    PROVE  IsFiniteSet(Tagged(fs, kinds)) /\ Amount(fs, kinds) \in Nat /\ Len(fs) \in Nat
<1>1. Len(fs) \in Nat
  BY LenProperties
<1>2. IsFiniteSet(1 .. Len(fs))
  BY <1>1, FS_Interval
<1>3. Tagged(fs, kinds) \subseteq 1 .. Len(fs)
  BY DEF Tagged
<1> QED BY <1>1, <1>2, <1>3, FS_Subset, FS_CardinalityType DEF Amount

\* Opening a construct counts it.
LEMMA AmountAppend ==
    ASSUME NEW fs \in Seq(FrameType), NEW f \in FrameType, NEW kinds
    PROVE  Amount(Append(fs, f), kinds) = Amount(fs, kinds) + One(f, kinds)
<1> DEFINE q == Append(fs, f)
<1>1. /\ Len(q) = Len(fs) + 1 /\ Len(fs) \in Nat
      /\ \A i \in 1 .. Len(fs) : q[i] = fs[i]
      /\ q[Len(fs) + 1] = f
  BY AppendProperties, LenProperties
<1> HIDE DEF q
<1>2. Tagged(q, kinds) = IF Tag(f) \in kinds THEN Tagged(fs, kinds) \cup {Len(fs) + 1}
                         ELSE Tagged(fs, kinds)
  BY <1>1 DEF Tagged
<1>3. Len(fs) + 1 \notin Tagged(fs, kinds)
  BY <1>1 DEF Tagged
<1>4. IsFiniteSet(Tagged(fs, kinds)) /\ Amount(fs, kinds) \in Nat
  BY AmountType
<1>5. Cardinality(Tagged(fs, kinds) \cup {Len(fs) + 1}) = Amount(fs, kinds) + 1
  BY <1>3, <1>4, FS_AddElement DEF Amount
<1>6. Amount(q, kinds) = Amount(fs, kinds) + One(f, kinds)
  <2>1. CASE Tag(f) \in kinds
    BY <2>1, <1>2, <1>5 DEF Amount, One
  <2>2. CASE Tag(f) \notin kinds
    BY <2>2, <1>2, <1>4 DEF Amount, One
  <2> QED BY <2>1, <2>2
<1> QED BY <1>6 DEF q

\* Leaving the innermost one uncounts it.
LEMMA AmountShorter ==
    ASSUME NEW fs \in Seq(FrameType), Len(fs) > 0, NEW kinds
    PROVE  Amount(SubSeq(fs, 1, Len(fs) - 1), kinds) = Amount(fs, kinds) - One(fs[Len(fs)], kinds)
<1> DEFINE q == SubSeq(fs, 1, Len(fs) - 1)
           n == Len(fs)
<1>1. /\ Len(q) = n - 1 /\ n \in Nat /\ n > 0
      /\ \A i \in 1 .. n - 1 : q[i] = fs[i]
  BY Shorter, LenProperties
<1> HIDE DEF q
<1>2. Tagged(q, kinds) = IF Tag(fs[n]) \in kinds THEN Tagged(fs, kinds) \ {n}
                         ELSE Tagged(fs, kinds)
  BY <1>1 DEF Tagged
<1>3. Tag(fs[n]) \in kinds => n \in Tagged(fs, kinds)
  BY <1>1 DEF Tagged
<1>4. IsFiniteSet(Tagged(fs, kinds)) /\ Amount(fs, kinds) \in Nat
  BY AmountType
<1>5. Tag(fs[n]) \in kinds => Cardinality(Tagged(fs, kinds) \ {n}) = Amount(fs, kinds) - 1
  BY <1>3, <1>4, FS_RemoveElement DEF Amount
<1>6. Amount(q, kinds) = Amount(fs, kinds) - One(fs[n], kinds)
  <2>1. CASE Tag(fs[n]) \in kinds
    BY <2>1, <1>2, <1>5 DEF Amount, One
  <2>2. CASE Tag(fs[n]) \notin kinds
    BY <2>2, <1>2, <1>4 DEF Amount, One
  <2> QED BY <2>1, <2>2
<1> QED BY <1>6 DEF q

\* Two stacks of frames of the same kinds.
SameKinds(fs, gs) ==
    /\ gs \in Seq(FrameType) /\ Len(gs) = Len(fs)
    /\ \A i \in 1 .. Len(fs) : gs[i].part = fs[i].part /\ gs[i].k = fs[i].k

\* They are counted the same.
LEMMA AmountSame ==
    ASSUME NEW fs \in Seq(FrameType), NEW gs, SameKinds(fs, gs), NEW kinds
    PROVE  Amount(gs, kinds) = Amount(fs, kinds)
<1>1. \A i \in 1 .. Len(fs) : Tag(gs[i]) = Tag(fs[i])
  BY DEF SameKinds, Tag
<1>2. Tagged(gs, kinds) = Tagged(fs, kinds)
  BY <1>1 DEF Tagged, SameKinds
<1> QED BY <1>2 DEF Amount

\* The columns of a frame.
LEMMA FrameFields ==
    ASSUME NEW fs \in Seq(FrameType), NEW i \in 1 .. Len(fs)
    PROVE  /\ fs[i] \in FrameType
           /\ fs[i].part \in FrameParts /\ fs[i].k \in FrameKeys /\ fs[i].at \in Nat
           /\ fs[i].bound \subseteq Names /\ fs[i].base \in Table
           /\ fs[i].tables \in Seq(Table) /\ fs[i].exiting \in Snapshot
<1>1. fs[i] \in FrameType
  BY ElementOfSeq
<1> QED BY <1>1 DEF FrameType, FrameRecord

\* What a kind counts, construct by construct.
LEMMA OneOf ==
    ASSUME NEW f \in FrameType
    PROVE  /\ One(f, Loop) = IF f.part = "while" THEN 1 ELSE 0
           /\ One(f, Switch) = IF f.part = "switch" THEN 1 ELSE 0
           /\ One(f, OpenTry) = IF \/ f.part = "try" /\ f.k # "catch"
                                   \/ f.part = "catch" /\ f.k = "both" THEN 1 ELSE 0
<1>1. f.k \in FrameKeys
  BY DEF FrameType, FrameRecord
<1>2. Tag(f) \in Loop <=> f.part = "while"
  BY <1>1 DEF Tag, Loop
<1>3. Tag(f) \in Switch <=> f.part = "switch"
  BY <1>1 DEF Tag, Switch
<1>4. Tag(f) \in OpenTry <=> \/ f.part = "try" /\ f.k # "catch"
                             \/ f.part = "catch" /\ f.k = "both"
  BY <1>1 DEF Tag, OpenTry
<1> QED BY <1>2, <1>3, <1>4 DEF One

\* No more of them are open than there are constructs.
LEMMA AmountBound ==
    ASSUME NEW fs \in Seq(FrameType), NEW kinds
    PROVE  Amount(fs, kinds) <= Len(fs)
<1>1. Len(fs) \in Nat
  BY LenProperties
<1>2. IsFiniteSet(1 .. Len(fs)) /\ Cardinality(1 .. Len(fs)) = Len(fs)
  <2>1. /\ IsFiniteSet(1 .. Len(fs))
        /\ Cardinality(1 .. Len(fs)) = IF 1 > Len(fs) THEN 0 ELSE Len(fs) - 1 + 1
    BY <1>1, FS_Interval
  <2> QED BY <1>1, <2>1
<1>3. Tagged(fs, kinds) \subseteq 1 .. Len(fs)
  BY DEF Tagged
<1> QED BY <1>2, <1>3, FS_Subset DEF Amount

-----------------------------------------------------------------------------
(* Scopes: what leaves them alone, opens one, closes one. *)

\* An operation that only touches the table and the rules reported.
Rests(s, r) == /\ r \in Checker
               /\ r.bindings = s.bindings /\ r.marks = s.marks /\ r.depth = s.depth

\* Reporting a rule.
LEMMA EmitRests ==
    ASSUME NEW s \in Checker, NEW rule \in RuleKind
    PROVE  Rests(s, Emit(s, rule)) /\ Emit(s, rule).tbl = s.tbl
BY DEF Rests, Emit, Checker

\* Comparing two tables.
LEMMA CompareRests ==
    ASSUME NEW s \in Checker, NEW t1, NEW t2
    PROVE  Rests(s, Compare(s, t1, t2)) /\ Compare(s, t1, t2).tbl = s.tbl
<1>1. Rests(s, s)
  BY DEF Rests
<1>2. Rests(s, Emit(s, "BranchInconsistent")) /\ Emit(s, "BranchInconsistent").tbl = s.tbl
  BY EmitRests DEF RuleKind
<1> QED BY <1>1, <1>2 DEF Compare

\* Keeping one branch's table.
LEMMA TableRests ==
    ASSUME NEW s \in Checker, NEW t \in Table
    PROVE  Rests(s, [s EXCEPT !.tbl = t]) /\ [s EXCEPT !.tbl = t].tbl = t
BY DEF Rests, Checker, Table

\* Two such operations, one after the other.
LEMMA RestsTwice ==
    ASSUME NEW s, NEW r, NEW q, Rests(s, r), Rests(r, q)
    PROVE  Rests(s, q)
BY DEF Rests

\* What keeps the rows touches no scope.
LEMMA KeepsRests == ASSUME NEW s, NEW r, Keeps(s, r) PROVE Rests(s, r)
BY DEF Keeps, Rests

\* The marks stay inside the bindings when no binding leaves.
LEMMA ScopedGrows ==
    ASSUME NEW s \in Checker, Scoped(s), NEW r, Grows(s, r)
    PROVE  Scoped(r)
<1>1. r \in Checker /\ r.marks = s.marks /\ Len(r.bindings) >= Len(s.bindings)
  BY DEF Grows
<1>2. Len(s.bindings) \in Nat /\ Len(r.bindings) \in Nat
  BY <1>1, BindingsLength
<1>3. \A i \in 1 .. Len(s.marks) : s.marks[i] \in Nat
  BY ElementOfSeq DEF Checker
<1> QED BY <1>1, <1>2, <1>3 DEF Scoped

\* A new scope starts where the bindings end.
LEMMA ScopedPush ==
    ASSUME NEW s \in Checker, Scoped(s), NEW q,
           q.bindings = s.bindings, q.marks = Append(s.marks, Len(s.bindings))
    PROVE  Scoped(q) /\ Len(q.marks) = Len(s.marks) + 1 /\ Len(s.marks) \in Nat
<1>1. s.marks \in Seq(Nat) /\ Len(s.marks) \in Nat /\ Len(s.bindings) \in Nat
  BY BindingsLength, LenProperties DEF Checker
<1>2. /\ Len(q.marks) = Len(s.marks) + 1
      /\ \A i \in 1 .. Len(s.marks) : q.marks[i] = s.marks[i]
      /\ q.marks[Len(s.marks) + 1] = Len(s.bindings)
  BY <1>1, AppendProperties
<1>3. \A i \in 1 .. Len(s.marks) : s.marks[i] \in Nat
  BY <1>1, ElementOfSeq
<1> DEFINE n == Len(s.marks)
           b == Len(s.bindings)
<1>4. \A i \in 1 .. n + 1 : i \in 1 .. n \/ i = n + 1
  BY <1>1
<1>5. \A i \in 1 .. n : s.marks[i] <= b
  BY DEF Scoped
<1>6. \A i, j \in 1 .. n : i <= j => s.marks[i] <= s.marks[j]
  BY DEF Scoped
<1>7. \A i \in 1 .. n + 1 : q.marks[i] <= b
  BY <1>1, <1>2, <1>4, <1>5
<1>8. ASSUME NEW i \in 1 .. n + 1, NEW j \in 1 .. n + 1, i <= j
      PROVE  q.marks[i] <= q.marks[j]
  <2>1. CASE j \in 1 .. n
    <3>1. i \in 1 .. n
      BY <2>1, <1>8, <1>1
    <3> QED BY <2>1, <3>1, <1>2, <1>6, <1>8
  <2>2. CASE j = n + 1
    BY <2>2, <1>2, <1>7
  <2> QED BY <2>1, <2>2, <1>4
<1> QED BY <1>1, <1>2, <1>7, <1>8 DEF Scoped

\* The end of a scope goes back to its mark, and no outer mark lies beyond it.
LEMMA ScopedPop ==
    ASSUME NEW s \in Checker, Scoped(s), Len(s.marks) > 0
    PROVE  LET r == PopScope(s)
           IN  /\ r \in Checker /\ Scoped(r)
               /\ Len(r.marks) = Len(s.marks) - 1 /\ Len(s.marks) \in Nat
               /\ \A i \in 1 .. Len(s.marks) - 1 : r.marks[i] = s.marks[i]
               /\ Len(r.bindings) = s.marks[Len(s.marks)]
               /\ r.depth = s.depth
<1> DEFINE r == PopScope(s)
           n == Len(s.marks)
<1>1. s.marks \in Seq(Nat) /\ n \in Nat /\ n \in 1 .. n
  BY LenProperties DEF Checker
<1>2. s.marks[n] <= Len(s.bindings)
  BY <1>1 DEF Scoped
<1>3. /\ r \in Checker /\ Len(r.bindings) = s.marks[n]
      /\ r.marks = SubSeq(s.marks, 1, n - 1) /\ r.depth = s.depth
  BY <1>2, PopScopeFrame
<1> HIDE DEF r
<1>4. Len(r.marks) = n - 1 /\ \A i \in 1 .. n - 1 : r.marks[i] = s.marks[i]
  BY <1>1, <1>3, Shorter
<1>5. Scoped(r)
  <2>1. \A i, j \in 1 .. n : i <= j => s.marks[i] <= s.marks[j]
    BY DEF Scoped
  <2>2. \A i \in 1 .. n - 1 : s.marks[i] <= s.marks[n]
    BY <1>1, <2>1
  <2> HIDE DEF n
  <2>3. \A i \in 1 .. n - 1 : i \in 1 .. n
    BY <1>1
  <2>4. \A i \in 1 .. n - 1 : r.marks[i] <= Len(r.bindings)
    BY <1>3, <1>4, <2>2
  <2>5. \A i, j \in 1 .. n - 1 : i <= j => r.marks[i] <= r.marks[j]
    BY <1>4, <2>1, <2>3
  <2> QED BY <1>4, <2>4, <2>5 DEF Scoped
<1> QED BY <1>1, <1>3, <1>4, <1>5 DEF r

-----------------------------------------------------------------------------
(* The counters fit the open constructs through each kind of step. *)

\* A statement that opens and closes no construct.
LEMMA FitsRun ==
    ASSUME NEW s, NEW fs, NEW p, Fits(s, fs, p), NEW r, Grows(s, r),
           NEW gs, SameKinds(fs, gs), NEW q \in Seq(Snapshot), Len(q) = Len(p)
    PROVE  Fits(r, gs, q)
<1>1. s \in Checker /\ Scoped(s) /\ fs \in Seq(FrameType)
  BY DEF Fits
<1>2. r \in Checker /\ Scoped(r) /\ r.marks = s.marks /\ r.depth = s.depth
  BY <1>1, ScopedGrows DEF Grows
<1>3. /\ Amount(gs, Loop) = Amount(fs, Loop) /\ Amount(gs, OpenTry) = Amount(fs, OpenTry)
      /\ Amount(gs, Switch) = Amount(fs, Switch)
  BY <1>1, AmountSame
<1>4. gs \in Seq(FrameType) /\ Len(gs) = Len(fs)
      /\ \A i \in 1 .. Len(gs) : gs[i].part = "body" <=> i = 1
  BY DEF Fits, SameKinds
<1> QED BY <1>2, <1>3, <1>4 DEF Fits

\* A construct is opened, with a scope unless it is a switch.
LEMMA FitsOpen ==
    ASSUME NEW s, NEW fs, NEW p, Fits(s, fs, p), Len(fs) > 0,
           NEW f \in FrameType, f.part # "body",
           NEW q \in Checker, q.bindings = s.bindings,
           q.marks = IF f.part = "switch" THEN s.marks ELSE Append(s.marks, Len(s.bindings)),
           q.depth = s.depth + One(f, Loop),
           NEW p2 \in Seq(Snapshot), Len(p2) = Len(p) + One(f, OpenTry)
    PROVE  Fits(q, Append(fs, f), p2)
<1> DEFINE gs == Append(fs, f)
<1>1. s \in Checker /\ Scoped(s) /\ fs \in Seq(FrameType)
  BY DEF Fits
<1>2. /\ gs \in Seq(FrameType) /\ Len(gs) = Len(fs) + 1 /\ Len(fs) \in Nat
      /\ \A i \in 1 .. Len(fs) : gs[i] = fs[i]
      /\ gs[Len(fs) + 1] = f
  BY <1>1, AppendProperties, LenProperties
<1>3. /\ Amount(gs, Loop) = Amount(fs, Loop) + One(f, Loop)
      /\ Amount(gs, OpenTry) = Amount(fs, OpenTry) + One(f, OpenTry)
      /\ Amount(gs, Switch) = Amount(fs, Switch) + One(f, Switch)
      /\ Amount(fs, Switch) \in Nat
  BY <1>1, AmountAppend, AmountType
<1> HIDE DEF gs
<1>4. \A i \in 1 .. Len(gs) : gs[i].part = "body" <=> i = 1
  <2>1. \A i \in 1 .. Len(fs) : fs[i].part = "body" <=> i = 1
    BY DEF Fits
  <2>2. \A i \in 1 .. Len(fs) + 1 : i \in 1 .. Len(fs) \/ i = Len(fs) + 1
    BY <1>2
  <2>3. Len(fs) + 1 # 1
    BY <1>2
  <2> QED BY <1>2, <2>1, <2>2, <2>3
<1>5. Scoped(q) /\ Len(q.marks) = Len(gs) - Amount(gs, Switch)
  <2>1. Len(s.marks) = Len(fs) - Amount(fs, Switch)
    BY DEF Fits
  <2>2. CASE f.part = "switch"
    <3>1. q.marks = s.marks /\ One(f, Switch) = 1
      BY <2>2, OneOf
    <3>2. Scoped(q)
      BY <1>1, <3>1 DEF Scoped
    <3>3. Amount(gs, Switch) = Amount(fs, Switch) + 1
      BY <3>1, <1>3
    <3>4. Len(q.marks) = Len(fs) - Amount(fs, Switch)
      BY <3>1, <2>1
    <3>5. Len(q.marks) = Len(gs) - Amount(gs, Switch)
      BY <3>3, <3>4, <1>2, <1>3
    <3> QED BY <3>2, <3>5
  <2>3. CASE f.part # "switch"
    <3>1. q.marks = Append(s.marks, Len(s.bindings)) /\ One(f, Switch) = 0
      BY <2>3, OneOf
    <3>2. Scoped(q) /\ Len(q.marks) = Len(s.marks) + 1
      BY <1>1, <3>1, ScopedPush
    <3>3. Amount(gs, Switch) = Amount(fs, Switch)
      BY <3>1, <1>3
    <3> QED BY <3>2, <3>3, <2>1, <1>2, <1>3
  <2> QED BY <2>2, <2>3
<1>6. q.depth = Amount(gs, Loop) /\ Len(p2) = Amount(gs, OpenTry)
  BY <1>3 DEF Fits
<1> QED BY <1>2, <1>4, <1>5, <1>6 DEF Fits, gs

\* Every construct but a switch has a scope of its own to close.
LEMMA ScopeToPop ==
    ASSUME NEW s, NEW fs, NEW p, Fits(s, fs, p), Len(fs) > 0, fs[Len(fs)].part # "switch"
    PROVE  Len(s.marks) > 0
<1> DEFINE n == Len(fs)
           q == SubSeq(fs, 1, n - 1)
<1>1. fs \in Seq(FrameType) /\ n \in Nat /\ n \in 1 .. n
  BY LenProperties DEF Fits
<1>2. q \in Seq(FrameType) /\ Len(q) = n - 1
  BY <1>1, Shorter
<1>3. Amount(q, Switch) = Amount(fs, Switch) - One(fs[n], Switch)
  BY <1>1, AmountShorter
<1>4. One(fs[n], Switch) = 0
  <2>1. fs[n] \in FrameType
    BY <1>1, FrameFields
  <2> QED BY <2>1, OneOf
<1>5. Amount(q, Switch) <= Len(q)
  BY <1>2, AmountBound
<1>6. Amount(fs, Switch) \in Nat
  BY <1>1, AmountType
<1>7. Amount(fs, Switch) <= n - 1
  <2> HIDE DEF q, n
  <2> QED BY <1>2, <1>3, <1>4, <1>5, <1>6
<1>8. Len(s.marks) = n - Amount(fs, Switch)
  BY DEF Fits
<1> HIDE DEF n
<1> QED BY <1>1, <1>6, <1>7, <1>8

\* A construct is left, and its scope is closed.
LEMMA FitsLeave ==
    ASSUME NEW s, NEW fs, NEW p, Fits(s, fs, p), Len(fs) > 0, fs[Len(fs)].part # "switch",
           NEW q \in Checker, q.bindings = PopScope(s).bindings, q.marks = PopScope(s).marks,
           q.depth = s.depth - One(fs[Len(fs)], Loop),
           NEW gs, SameKinds(SubSeq(fs, 1, Len(fs) - 1), gs),
           NEW p2 \in Seq(Snapshot), Len(p2) = Len(p) - One(fs[Len(fs)], OpenTry)
    PROVE  Fits(q, gs, p2)
<1> DEFINE n == Len(fs)
           b == SubSeq(fs, 1, n - 1)
           r == PopScope(s)
<1>1. s \in Checker /\ Scoped(s) /\ fs \in Seq(FrameType) /\ n \in Nat /\ n \in 1 .. n
  BY LenProperties DEF Fits
<1>2. b \in Seq(FrameType) /\ Len(b) = n - 1 /\ \A i \in 1 .. n - 1 : b[i] = fs[i]
  BY <1>1, Shorter
<1>3. Len(s.marks) > 0
  BY ScopeToPop
<1>4. r \in Checker /\ Scoped(r) /\ Len(r.marks) = Len(s.marks) - 1 /\ Len(s.marks) \in Nat
  BY <1>1, <1>3, ScopedPop
<1>5. /\ Amount(b, Loop) = Amount(fs, Loop) - One(fs[n], Loop)
      /\ Amount(b, OpenTry) = Amount(fs, OpenTry) - One(fs[n], OpenTry)
      /\ Amount(b, Switch) = Amount(fs, Switch) - One(fs[n], Switch)
  BY <1>1, AmountShorter
<1>6. /\ Amount(gs, Loop) = Amount(b, Loop) /\ Amount(gs, OpenTry) = Amount(b, OpenTry)
      /\ Amount(gs, Switch) = Amount(b, Switch)
  BY <1>2, AmountSame
<1>7. One(fs[n], Switch) = 0
  <2>1. fs[n] \in FrameType
    BY <1>1, FrameFields
  <2> QED BY <2>1, OneOf
<1>8. Amount(fs, Switch) \in Nat
  BY <1>1, AmountType
<1>9. Scoped(q)
  BY <1>4 DEF Scoped
<1>10. gs \in Seq(FrameType) /\ Len(gs) = n - 1
  BY <1>2 DEF SameKinds
<1>11. \A i \in 1 .. n - 1 : gs[i].part = fs[i].part
  BY <1>2 DEF SameKinds
<1>12. \A i \in 1 .. n : fs[i].part = "body" <=> i = 1
  BY DEF Fits
<1> HIDE DEF b, n
<1>13. \A i \in 1 .. Len(gs) : gs[i].part = "body" <=> i = 1
  <2>1. \A i \in 1 .. n - 1 : i \in 1 .. n
    BY <1>1
  <2> QED BY <1>10, <1>11, <1>12, <2>1
<1>14. q.depth = Amount(gs, Loop) /\ Len(p2) = Amount(gs, OpenTry)
  <2>1. s.depth = Amount(fs, Loop) /\ Len(p) = Amount(fs, OpenTry)
    BY DEF Fits
  <2> QED BY <2>1, <1>5, <1>6 DEF n
<1>15. Len(q.marks) = Len(gs) - Amount(gs, Switch)
  <2>1. Len(s.marks) = n - Amount(fs, Switch)
    BY DEF Fits, n
  <2> QED BY <2>1, <1>1, <1>4, <1>5, <1>6, <1>7, <1>8, <1>10
<1> QED BY <1>9, <1>10, <1>13, <1>14, <1>15 DEF Fits

\* A switch has no scope of its own to close.
LEMMA FitsWithout ==
    ASSUME NEW s, NEW fs, NEW p, Fits(s, fs, p), Len(fs) > 0, fs[Len(fs)].part = "switch"
    PROVE  Fits(s, SubSeq(fs, 1, Len(fs) - 1), p)
<1> DEFINE n == Len(fs)
           b == SubSeq(fs, 1, n - 1)
<1>1. s \in Checker /\ Scoped(s) /\ fs \in Seq(FrameType) /\ n \in Nat /\ n \in 1 .. n
  BY LenProperties DEF Fits
<1>2. b \in Seq(FrameType) /\ Len(b) = n - 1 /\ \A i \in 1 .. n - 1 : b[i] = fs[i]
  BY <1>1, Shorter
<1>3. /\ Amount(b, Loop) = Amount(fs, Loop) - One(fs[n], Loop)
      /\ Amount(b, OpenTry) = Amount(fs, OpenTry) - One(fs[n], OpenTry)
      /\ Amount(b, Switch) = Amount(fs, Switch) - One(fs[n], Switch)
      /\ Amount(fs, Loop) \in Nat /\ Amount(fs, OpenTry) \in Nat /\ Amount(fs, Switch) \in Nat
  BY <1>1, AmountShorter, AmountType
<1>4. One(fs[n], Switch) = 1 /\ One(fs[n], Loop) = 0 /\ One(fs[n], OpenTry) = 0
  <2>1. fs[n] \in FrameType
    BY <1>1, FrameFields
  <2> QED BY <2>1, OneOf
<1>5. \A i \in 1 .. n : fs[i].part = "body" <=> i = 1
  BY DEF Fits
<1>6. Len(s.marks) = n - Amount(fs, Switch) /\ s.depth = Amount(fs, Loop) /\ Len(p) = Amount(fs, OpenTry)
  BY DEF Fits
<1> HIDE DEF b, n
<1>7. \A i \in 1 .. Len(b) : b[i].part = "body" <=> i = 1
  <2>1. \A i \in 1 .. n - 1 : i \in 1 .. n
    BY <1>1
  <2> QED BY <1>2, <1>5, <2>1
<1>8. s.depth = Amount(b, Loop) /\ Len(p) = Amount(b, OpenTry)
  BY <1>3, <1>4, <1>6
<1>9. Len(s.marks) = Len(b) - Amount(b, Switch)
  BY <1>1, <1>2, <1>3, <1>4, <1>6
<1>10. p \in Seq(Snapshot)
  BY DEF Fits
<1>11. Fits(s, b, p)
  BY <1>1, <1>2, <1>7, <1>8, <1>9, <1>10 DEF Fits
<1> QED BY <1>11 DEF b, n

-----------------------------------------------------------------------------
(* Frames. *)

\* Two stacks of frames that differ in the names bound and the exits alone.
Alike(fs, gs) ==
    /\ gs \in Seq(FrameType) /\ Len(gs) = Len(fs)
    /\ \A i \in 1 .. Len(fs) : /\ gs[i].part = fs[i].part /\ gs[i].k = fs[i].k
                               /\ gs[i].at = fs[i].at
                               /\ gs[i].base = fs[i].base /\ gs[i].tables = fs[i].tables

\* They have the same kinds.
LEMMA AlikeKinds == ASSUME NEW fs, NEW gs, Alike(fs, gs) PROVE SameKinds(fs, gs)
BY DEF Alike, SameKinds

\* Nothing changes.
LEMMA AlikeItself == ASSUME NEW fs \in Seq(FrameType) PROVE Alike(fs, fs)
BY DEF Alike

\* Replacing one frame by one that differs in those two columns.
LEMMA AlikeReplace ==
    ASSUME NEW fs \in Seq(FrameType), NEW i \in 1 .. Len(fs), NEW f \in FrameType,
           f.part = fs[i].part, f.k = fs[i].k, f.at = fs[i].at,
           f.base = fs[i].base, f.tables = fs[i].tables
    PROVE  Alike(fs, [fs EXCEPT ![i] = f])
<1> DEFINE gs == [fs EXCEPT ![i] = f]
<1>1. fs \in [1 .. Len(fs) -> FrameType] /\ Len(fs) \in Nat
  BY LenProperties, SeqDef
<1>2. gs \in [1 .. Len(fs) -> FrameType]
  BY <1>1
<1>3. gs \in Seq(FrameType) /\ Len(gs) = Len(fs)
  BY <1>1, <1>2
<1>4. \A j \in 1 .. Len(fs) : gs[j] = IF j = i THEN f ELSE fs[j]
  BY <1>1
<1> HIDE DEF gs
<1>5. Alike(fs, gs)
  BY <1>3, <1>4 DEF Alike
<1> QED BY <1>5 DEF gs

\* A name is bound in the innermost frame.
LEMMA AlikeBound ==
    ASSUME NEW fs \in Seq(FrameType), NEW i \in 1 .. Len(fs), NEW n \in Names
    PROVE  Alike(fs, [fs EXCEPT ![i].bound = @ \cup {n}])
<1> DEFINE b == fs[i].bound \cup {n}
           f == [fs[i] EXCEPT !.bound = b]
<1>1. fs[i] \in FrameType /\ b \in SUBSET Names
  BY FrameFields
<1> HIDE DEF b
<1>2. f \in FrameType /\ f.part = fs[i].part /\ f.k = fs[i].k /\ f.at = fs[i].at
      /\ f.base = fs[i].base /\ f.tables = fs[i].tables
  BY <1>1 DEF FrameType, FrameRecord
<1>3. [fs EXCEPT ![i] = f] = [fs EXCEPT ![i].bound = @ \cup {n}]
  BY DEF b
<1> HIDE DEF f
<1>4. Alike(fs, [fs EXCEPT ![i] = f])
  BY <1>2, AlikeReplace
<1> QED BY <1>3, <1>4

\* A frame learns whether its statements exit.
LEMMA AlikeExits ==
    ASSUME NEW fs \in Seq(FrameType), NEW i \in 1 .. Len(fs), NEW b \in BOOLEAN
    PROVE  Alike(fs, [fs EXCEPT ![i].exits = b])
<1> DEFINE f == [fs[i] EXCEPT !.exits = b]
<1>1. fs[i] \in FrameType
  BY FrameFields
<1>2. f \in FrameType /\ f.part = fs[i].part /\ f.k = fs[i].k /\ f.at = fs[i].at
      /\ f.base = fs[i].base /\ f.tables = fs[i].tables
  BY <1>1 DEF FrameType, FrameRecord
<1>3. [fs EXCEPT ![i] = f] = [fs EXCEPT ![i].exits = b]
  OBVIOUS
<1> HIDE DEF f
<1>4. Alike(fs, [fs EXCEPT ![i] = f])
  BY <1>2, AlikeReplace
<1> QED BY <1>3, <1>4

-----------------------------------------------------------------------------
(* The steps.  A token being checked is one of the program. *)

Grown == prog' \in Seq(TokenType) /\ Len(prog') >= Len(prog) /\ pc <= Len(prog')

\* Where the token is, and where the next one will be.
LEMMA Places ==
    ASSUME CheckInv, Grown
    PROVE  /\ Len(prog) \in Nat /\ Len(prog') \in Nat /\ pc \in Nat
           /\ pc + 1 \in 1 .. Len(prog') + 1
           /\ \A i \in 1 .. Len(frames) : frames[i].at \in Nat /\ frames[i].at <= Len(prog')
<1>1. Len(prog) \in Nat /\ Len(prog') \in Nat
  BY LenProperties DEF CheckInv, Grown
<1>2. pc \in 1 .. Len(prog) + 1
  BY DEF CheckInv
<1>3. \A i \in 1 .. Len(frames) : frames[i].at \in Nat /\ frames[i].at <= Len(prog)
  BY FrameFields DEF CheckInv, Fits
<1>4. Len(prog') >= Len(prog) /\ pc <= Len(prog')
  BY DEF Grown
<1> QED BY <1>1, <1>2, <1>3, <1>4

\* The innermost construct.
LEMMA TopFrame ==
    ASSUME CheckInv, Here
    PROVE  /\ Len(frames) \in Nat /\ Len(frames) > 0 /\ Len(frames) \in 1 .. Len(frames)
           /\ Top \in FrameType /\ Top = frames[Len(frames)]
           /\ frames \in Seq(FrameType) /\ chk \in Checker /\ pending \in Seq(Snapshot)
           /\ Below \in Seq(FrameType) /\ Len(Below) = Len(frames) - 1
           /\ \A i \in 1 .. Len(frames) - 1 : Below[i] = frames[i]
           /\ Top.part # "body" => Len(frames) - 1 \in 1 .. Len(frames) - 1
<1>1. frames \in Seq(FrameType) /\ chk \in Checker /\ pending \in Seq(Snapshot)
  BY DEF CheckInv, Fits
<1>2. Len(frames) \in Nat /\ Len(frames) > 0 /\ Len(frames) \in 1 .. Len(frames)
  BY <1>1, LenProperties DEF Here
<1>3. Top \in FrameType
  BY <1>1, <1>2, FrameFields DEF Top
<1>4. Below \in Seq(FrameType) /\ Len(Below) = Len(frames) - 1
      /\ \A i \in 1 .. Len(frames) - 1 : Below[i] = frames[i]
  BY <1>1, <1>2, Shorter DEF Below
<1>5. Top.part # "body" => Len(frames) # 1
  BY <1>2 DEF Top, CheckInv, Fits
<1> QED BY <1>1, <1>2, <1>3, <1>4, <1>5 DEF Top

\* A statement that opens and closes no construct.
LEMMA StepRun ==
    ASSUME CheckInv, Grown, Advance, Grows(chk, chk'), Alike(frames, frames'),
           pending' \in Seq(Snapshot), Len(pending') = Len(pending), tries' = tries
    PROVE  CheckInv'
<1>1. pc' \in 1 .. Len(prog') + 1 /\ prog' \in Seq(TokenType)
  BY Places DEF Advance, Grown
<1>2. Fits(chk', frames', pending')
  BY FitsRun, AlikeKinds DEF CheckInv
<1>3. \A i \in 1 .. Len(frames') : frames'[i].at <= Len(prog')
  BY Places DEF Alike
<1>4. tries' = Len(pending')
  BY DEF CheckInv
<1> QED BY <1>1, <1>2, <1>3, <1>4 DEF CheckInv

\* A frame is put on a stack whose frames are in place.
LEMMA PlacesAppend ==
    ASSUME NEW fs \in Seq(FrameType), NEW f \in FrameType, NEW m, f.at <= m,
           \A i \in 1 .. Len(fs) : fs[i].at <= m
    PROVE  \A i \in 1 .. Len(Append(fs, f)) : Append(fs, f)[i].at <= m
<1> DEFINE gs == Append(fs, f)
<1>1. /\ Len(gs) = Len(fs) + 1 /\ Len(fs) \in Nat
      /\ \A i \in 1 .. Len(fs) : gs[i] = fs[i]
      /\ gs[Len(fs) + 1] = f
  BY AppendProperties, LenProperties
<1> HIDE DEF gs
<1>2. \A i \in 1 .. Len(gs) : i \in 1 .. Len(fs) \/ i = Len(fs) + 1
  BY <1>1
<1>3. \A i \in 1 .. Len(gs) : gs[i].at <= m
  BY <1>1, <1>2
<1> QED BY <1>3 DEF gs

\* A construct is opened.
LEMMA StepOpen ==
    ASSUME CheckInv, Grown, Here, Advance,
           NEW f \in FrameType, f.part # "body", f.at = pc, frames' = Append(frames, f),
           chk' \in Checker, chk'.bindings = chk.bindings,
           chk'.marks = IF f.part = "switch" THEN chk.marks ELSE Append(chk.marks, Len(chk.bindings)),
           chk'.depth = chk.depth + One(f, Loop),
           pending' \in Seq(Snapshot), Len(pending') = Len(pending) + One(f, OpenTry),
           tries' = Len(pending')
    PROVE  CheckInv'
<1>1. pc' \in 1 .. Len(prog') + 1 /\ prog' \in Seq(TokenType)
  BY Places DEF Advance, Grown
<1>2. Fits(chk', frames', pending')
  BY FitsOpen, TopFrame DEF CheckInv
<1>3. \A i \in 1 .. Len(frames) : frames[i].at <= Len(prog')
  BY Places
<1>4. pc <= Len(prog')
  BY DEF Grown
<1>5. \A i \in 1 .. Len(frames') : frames'[i].at <= Len(prog')
  BY <1>3, <1>4, PlacesAppend, TopFrame
<1> QED BY <1>1, <1>2, <1>5 DEF CheckInv

\* The next part of the innermost construct is opened, from a state q that
\* fits the constructs around it.
LEMMA StepSwap ==
    ASSUME CheckInv, Grown, Here, pc' \in 1 .. Len(prog') + 1,
           NEW q, NEW p, Fits(q, Below, p), Top.part # "body",
           NEW f \in FrameType, f.part \notin {"body", "switch", "while"},
           f.at <= Len(prog'), frames' = Append(Below, f),
           chk' = PushScope(q),
           pending' \in Seq(Snapshot), Len(pending') = Len(p) + One(f, OpenTry),
           tries' = Len(pending')
    PROVE  CheckInv'
<1>1. q \in Checker
  BY DEF Fits
<1>2. /\ chk' \in Checker /\ chk'.bindings = q.bindings
      /\ chk'.marks = Append(q.marks, Len(q.bindings)) /\ chk'.depth = q.depth
  BY <1>1, PushScopeFrame
<1>3. chk'.depth = q.depth + One(f, Loop)
  <2>1. One(f, Loop) = 0
    BY OneOf
  <2>2. q.depth \in Nat
    BY <1>1 DEF Checker
  <2> QED BY <2>1, <2>2, <1>2
<1>4. Len(Below) > 0
  BY TopFrame
<1>5. Fits(chk', frames', pending')
  BY <1>2, <1>3, <1>4, FitsOpen
<1>6. \A i \in 1 .. Len(Below) : Below[i].at <= Len(prog')
  <2>1. \A i \in 1 .. Len(frames) : frames[i].at <= Len(prog')
    BY Places
  <2>2. /\ Len(frames) \in Nat /\ Len(Below) = Len(frames) - 1
        /\ \A i \in 1 .. Len(frames) - 1 : Below[i] = frames[i]
    BY TopFrame
  <2> QED BY <2>1, <2>2
<1>7. \A i \in 1 .. Len(frames') : frames'[i].at <= Len(prog')
  BY <1>6, PlacesAppend, TopFrame
<1> QED BY <1>5, <1>7 DEF CheckInv, Grown

\* The innermost construct is left.
LEMMA StepLeave ==
    ASSUME CheckInv, Grown, Here, Advance, Top.part \notin {"body", "switch"},
           NEW b \in BOOLEAN, frames' = [Below EXCEPT ![Len(frames) - 1].exits = b],
           chk' \in Checker, chk'.bindings = PopScope(chk).bindings,
           chk'.marks = PopScope(chk).marks, chk'.depth = chk.depth - One(Top, Loop),
           pending' \in Seq(Snapshot), Len(pending') = Len(pending) - One(Top, OpenTry),
           tries' = Len(pending')
    PROVE  CheckInv'
<1>1. pc' \in 1 .. Len(prog') + 1 /\ prog' \in Seq(TokenType)
  BY Places DEF Advance, Grown
<1>2. Alike(Below, frames')
  BY TopFrame, AlikeExits
<1>3. Fits(chk', frames', pending')
  <2>1. SameKinds(SubSeq(frames, 1, Len(frames) - 1), frames')
    BY <1>2, AlikeKinds DEF Below
  <2>2. /\ Len(frames) > 0 /\ frames[Len(frames)].part # "switch"
        /\ chk'.depth = chk.depth - One(frames[Len(frames)], Loop)
        /\ Len(pending') = Len(pending) - One(frames[Len(frames)], OpenTry)
    BY TopFrame
  <2>3. Fits(chk, frames, pending)
    BY DEF CheckInv
  <2> QED BY <2>1, <2>2, <2>3, FitsLeave
<1>4. \A i \in 1 .. Len(Below) : Below[i].at <= Len(prog')
  <2>1. \A i \in 1 .. Len(frames) : frames[i].at <= Len(prog')
    BY Places
  <2> QED BY <2>1, TopFrame
<1>5. \A i \in 1 .. Len(frames') : frames'[i].at <= Len(prog')
  BY <1>2, <1>4 DEF Alike
<1> QED BY <1>1, <1>3, <1>5 DEF CheckInv

\* What only touches the table takes no binding away.
LEMMA RestsGrows == ASSUME NEW s \in Checker, NEW r, Rests(s, r) PROVE Grows(s, r)
BY BindingsLength DEF Rests, Grows

\* The slots of pending_finally, filled from some table.
LEMMA Filled ==
    ASSUME NEW p \in Seq(Snapshot), NEW q, Len(p) \in Nat,
           q = [i \in 1 .. Len(p) |-> q[i]], \A i \in 1 .. Len(p) : q[i] \in Snapshot
    PROVE  q \in Seq(Snapshot) /\ Len(q) = Len(p)
<1>1. q \in [1 .. Len(p) -> Snapshot]
  OBVIOUS
<1> QED BY <1>1

\* A table put aside is a slot.
LEMMA SomeTyped == ASSUME NEW t \in Table PROVE Some(t) \in Snapshot
BY DEF Some, Snapshot

\* An empty slot is one.
LEMMA NoneTyped == None \in Snapshot /\ NoTable \in Table
BY NoRow DEF None, NoTable, Snapshot, Table

\* A checker's table is a table.
LEMMA TableOf == ASSUME NEW s \in Checker PROVE s.tbl \in Table
BY DEF Checker, Table

\* What the token of each operation is given.
LEMMA TokenFields ==
    ASSUME NEW t \in TokenType
    PROVE  /\ t.op \in NamesOne => t.x \in Names
           /\ t.op \in NamesTwo => t.y \in Names
           /\ t.op = "declare" => t.k \in Owning
           /\ t.op = "borrow" => t.k \in Modes
           /\ t.op = "try" => t.k \in {"catch", "finally", "both"}
           /\ t.x \in Names \cup {NoName}
BY DEF TokenType, Tokens

\* A declaration.
LEMMA BindsStep ==
    ASSUME CheckInv, Grown, Here, NEW n \in Names, NEW s, Grows(chk, s), Binds(n, s)
    PROVE  CheckInv'
<1>1. Alike(frames, frames')
  BY TopFrame, AlikeBound DEF Binds
<1>2. chk' = s /\ Advance /\ tries' = tries /\ pending' = pending
  BY DEF Binds, Flow
<1> QED BY <1>1, <1>2, StepRun, TopFrame

\* A statement that only touches the table.
LEMMA StraightStep ==
    ASSUME CheckInv, Grown, Here, NEW t, NEW s, Grows(chk, s), Straight(t, s)
    PROVE  CheckInv'
<1>1. Alike(frames, frames')
  BY TopFrame, AlikeItself DEF Straight
<1>2. chk' = s /\ Advance /\ tries' = tries /\ pending' = pending
  BY DEF Straight, Flow
<1> QED BY <1>1, <1>2, StepRun, TopFrame

\* The simple statements.
LEMMA SimpleStep ==
    ASSUME CheckInv, Grown, Here, NEW t \in TokenType, Simple(t)
    PROVE  CheckInv'
<1>1. chk \in Checker
  BY TopFrame
<1>2. CASE t.op = "declare" /\ Binds(t.x, AddFromType(chk, t.x, t.k))
  <2>1. t.x \in Names /\ t.k \in OwnKind
    BY <1>2, TokenFields DEF NamesOne, OwnKind
  <2>2. Grows(chk, AddFromType(chk, t.x, t.k))
    BY <1>1, <2>1, AddFromTypeGrows
  <2> QED BY <1>2, <2>1, <2>2, BindsStep
<1>3. CASE t.op = "plain" /\ Binds(t.x, chk)
  <2>1. t.x \in Names
    BY <1>3, TokenFields DEF NamesOne
  <2>2. Grows(chk, chk)
    BY <1>1, KeepsItself, KeepsGrows
  <2> QED BY <1>3, <2>1, <2>2, BindsStep
<1>4. CASE t.op = "move" /\ Binds(t.x, DeclareMoved(chk, t.x, t.y))
  <2>1. t.x \in Names /\ t.y \in Names
    BY <1>4, TokenFields DEF NamesOne, NamesTwo
  <2>2. Grows(chk, DeclareMoved(chk, t.x, t.y))
    BY <1>1, <2>1, DeclareMovedGrows
  <2> QED BY <1>4, <2>1, <2>2, BindsStep
<1>5. CASE t.op = "borrow" /\ Binds(t.y, BeginBorrow(chk, t.x, t.y, t.k))
  <2>1. t.x \in Names /\ t.y \in Names /\ t.k \in Modes
    BY <1>5, TokenFields DEF NamesOne, NamesTwo
  <2>2. Grows(chk, BeginBorrow(chk, t.x, t.y, t.k))
    BY <1>1, <2>1, BeginBorrowGrows
  <2> QED BY <1>5, <2>1, <2>2, BindsStep
<1>6. CASE t.op = "clone" /\ Binds(t.y, DoClone(chk, t.x, t.y))
  <2>1. t.x \in Names /\ t.y \in Names
    BY <1>6, TokenFields DEF NamesOne, NamesTwo
  <2>2. Grows(chk, DoClone(chk, t.x, t.y))
    BY <1>1, <2>1, DoCloneGrows
  <2> QED BY <1>6, <2>1, <2>2, BindsStep
<1>7. CASE t.op = "consume" /\ Straight(t, ApplyApps(chk, t.x, Move))
  <2>1. Grows(chk, ApplyApps(chk, t.x, Move))
    BY <1>1, ApplyAppsKeeps, KeepsGrows
  <2> QED BY <1>7, <2>1, StraightStep
<1>8. CASE t.op = "read" /\ Straight(t, ApplyApps(chk, t.x, [NoApps EXCEPT !.read = 1]))
  <2>1. Grows(chk, ApplyApps(chk, t.x, [NoApps EXCEPT !.read = 1]))
    BY <1>1, ApplyAppsKeeps, KeepsGrows
  <2> QED BY <1>8, <2>1, StraightStep
<1>9. CASE t.op = "assign" /\ Straight(t, AssignStatement(chk, t.x, t.y))
  <2>1. t.x \in Names /\ t.y \in Names
    BY <1>9, TokenFields DEF NamesOne, NamesTwo
  <2>2. Grows(chk, AssignStatement(chk, t.x, t.y))
    BY <1>1, <2>1, AssignStatementGrows
  <2> QED BY <1>9, <2>2, StraightStep
<1> QED BY <1>2, <1>3, <1>4, <1>5, <1>6, <1>7, <1>8, <1>9 DEF Simple

\* The right operand of &&.
LEMMA LogicalRightStep ==
    ASSUME CheckInv, Grown, Here, NEW t, LogicalRight(t)
    PROVE  CheckInv'
<1> DEFINE after == ApplyApps(chk, t.x, Move)
           s == Compare(after, chk.tbl, after.tbl)
<1>1. Rests(chk, after) /\ chk \in Checker
  BY TopFrame, ApplyAppsKeeps, KeepsRests
<1> HIDE DEF after
<1>2. Rests(after, s)
  BY <1>1, CompareRests DEF Rests
<1>3. Grows(chk, s)
  BY <1>1, <1>2, RestsTwice, RestsGrows
<1>4. Straight(t, s)
  BY DEF LogicalRight, after
<1> HIDE DEF s
<1> QED BY <1>3, <1>4, StraightStep

\* An exit, before the table is put aside or the uniques required.
Returned(t) == IF t.op = "return" /\ t.x # NoName THEN ReturnArgument(chk, t.x) ELSE chk

\* What a returned value moves out keeps the rows.
LEMMA ReturnedKeeps ==
    ASSUME CheckInv, Here, NEW t \in TokenType
    PROVE  Keeps(chk, Returned(t)) /\ chk \in Checker /\ Returned(t) \in Checker
<1>1. chk \in Checker /\ t.x \in Names \cup {NoName}
  BY TopFrame, TokenFields
<1>2. Keeps(chk, Returned(t))
  BY <1>1, KeepsItself, ReturnArgumentKeeps DEF Returned
<1> QED BY <1>1, <1>2 DEF Keeps

\* return and throw.
LEMMA ReturnOrThrowStep ==
    ASSUME CheckInv, Grown, Here, NEW t \in TokenType, ReturnOrThrow(t)
    PROVE  CheckInv'
<1> DEFINE s == Returned(t)
           filled == [i \in 1 .. Len(pending) |-> IF pending[i].some THEN pending[i] ELSE Some(s.tbl)]
<1>1. Keeps(chk, s) /\ chk \in Checker /\ s \in Checker
  BY ReturnedKeeps
<1>2. Alike(frames, frames')
  <2>1. TRUE \in BOOLEAN
    OBVIOUS
  <2> QED BY <2>1, TopFrame, AlikeExits DEF ReturnOrThrow
<1>3. Advance /\ tries' = tries
  BY DEF ReturnOrThrow
<1>4. CASE tries > 0 /\ chk' = s /\ pending' = filled
  <2>1. filled \in Seq(Snapshot) /\ Len(filled) = Len(pending)
    <3>1. pending \in Seq(Snapshot) /\ Len(pending) \in Nat
      BY TopFrame, LenProperties
    <3>2. Some(s.tbl) \in Snapshot
      BY <1>1, TableOf, SomeTyped
    <3>3. \A i \in 1 .. Len(pending) : pending[i] \in Snapshot
      BY <3>1, ElementOfSeq
    <3>4. \A i \in 1 .. Len(pending) : filled[i] \in Snapshot
      BY <3>2, <3>3
    <3>5. filled = [i \in 1 .. Len(pending) |-> filled[i]]
      OBVIOUS
    <3> HIDE DEF filled
    <3> QED BY <3>1, <3>4, <3>5, Filled
  <2>2. Grows(chk, chk')
    BY <1>1, <1>4, KeepsGrows
  <2> HIDE DEF filled
  <2> QED BY <1>2, <1>3, <1>4, <2>1, <2>2, StepRun
<1>5. CASE chk' = RequireConsumed(s) /\ pending' = pending
  <2>1. Rests(chk, s) /\ Rests(s, RequireConsumed(s))
    BY <1>1, RequireConsumedKeeps, KeepsRests
  <2>2. Grows(chk, chk')
    BY <1>1, <1>5, <2>1, RestsTwice, RestsGrows
  <2>3. pending' \in Seq(Snapshot) /\ Len(pending') = Len(pending)
    BY <1>5, TopFrame
  <2> QED BY <1>2, <1>3, <2>2, <2>3, StepRun
<1> QED BY <1>4, <1>5 DEF ReturnOrThrow, Returned

\* break and continue.
LEMMA BreakOrContinueStep ==
    ASSUME CheckInv, Grown, Here, NEW t, BreakOrContinue(t)
    PROVE  CheckInv'
<1>1. Alike(frames, frames')
  <2>1. TRUE \in BOOLEAN
    OBVIOUS
  <2> QED BY <2>1, TopFrame, AlikeExits DEF BreakOrContinue
<1>2. Advance /\ chk' = chk /\ tries' = tries /\ pending' = pending
  BY DEF BreakOrContinue, Flow
<1>3. Grows(chk, chk')
  BY <1>2, TopFrame, KeepsItself, KeepsGrows
<1> QED BY <1>1, <1>2, <1>3, StepRun, TopFrame

\* A new frame.
LEMMA FrameMade ==
    ASSUME NEW part \in FrameParts, part \notin {"else", "catch"}, NEW i \in Nat
    PROVE  /\ Frame(part, i) \in FrameType
           /\ Frame(part, i).part = part /\ Frame(part, i).at = i /\ Frame(part, i).k = ""
           /\ Frame(part, i).tables = <<>>
<1>1. NoTable \in Table /\ None \in Snapshot /\ <<>> \in Seq(Table)
  BY NoneTyped
<1> HIDE DEF NoTable, None
<1> QED BY <1>1 DEF Frame, FrameType, FrameRecord, FrameKeys

\* A scope is pushed and the loop depth set.
LEMMA PushedDeep ==
    ASSUME NEW s \in Checker, NEW d \in Nat
    PROVE  LET r == [PushScope(s) EXCEPT !.depth = d]
           IN  /\ r \in Checker /\ r.tbl = s.tbl /\ r.bindings = s.bindings
               /\ r.marks = Append(s.marks, Len(s.bindings)) /\ r.depth = d
<1> DEFINE q == PushScope(s)
<1>1. /\ q \in Checker /\ q.tbl = s.tbl /\ q.bindings = s.bindings
      /\ q.marks = Append(s.marks, Len(s.bindings))
  BY PushScopeFrame
<1> HIDE DEF q
<1>2. LET r == [q EXCEPT !.depth = d]
      IN  /\ r \in Checker /\ r.tbl = s.tbl /\ r.bindings = s.bindings
          /\ r.marks = Append(s.marks, Len(s.bindings)) /\ r.depth = d
  BY <1>1 DEF Checker
<1> QED BY <1>2 DEF q

\* A construct is opened.
LEMMA OpenStep ==
    ASSUME CheckInv, Grown, Here, NEW t \in TokenType, Open(t)
    PROVE  CheckInv'
<1>1. /\ chk \in Checker /\ chk.tbl \in Table /\ pending \in Seq(Snapshot) /\ pc \in Nat
      /\ Len(pending) \in Nat /\ chk.depth \in Nat /\ tries = Len(pending)
  BY TopFrame, Places, TableOf, LenProperties DEF Checker, CheckInv
<1>2. /\ PushScope(chk) \in Checker /\ PushScope(chk).bindings = chk.bindings
      /\ PushScope(chk).marks = Append(chk.marks, Len(chk.bindings))
      /\ PushScope(chk).depth = chk.depth
  BY <1>1, PushScopeFrame
<1>3. Advance
  BY DEF Open
<1>4. ASSUME NEW f \in FrameType, f.part \in {"block", "then"}, f.at = pc,
             chk' = PushScope(chk), Push(f), Flow
      PROVE  CheckInv'
  <2>1. One(f, Loop) = 0 /\ One(f, OpenTry) = 0
    BY <1>4, OneOf
  <2>2. frames' = Append(frames, f) /\ tries' = tries /\ pending' = pending
    BY <1>4 DEF Push, Flow
  <2>3. chk'.depth = chk.depth + One(f, Loop) /\ Len(pending') = Len(pending) + One(f, OpenTry)
    BY <1>1, <1>2, <1>4, <2>1, <2>2
  <2>4. f.part # "body" /\ f.part # "switch"
    BY <1>4
  <2> QED BY <1>1, <1>2, <1>3, <1>4, <2>2, <2>3, <2>4, StepOpen
<1>5. CASE t.op = "block"
  <2>1. chk' = PushScope(chk) /\ Push(Frame("block", pc)) /\ Flow
    BY <1>5 DEF Open
  <2>2. Frame("block", pc) \in FrameType /\ Frame("block", pc).part = "block" /\ Frame("block", pc).at = pc
    BY <1>1, FrameMade DEF FrameParts, Bodies
  <2> QED BY <2>1, <2>2, <1>4
<1>6. CASE t.op = "if"
  <2> DEFINE g == Frame("then", pc)
             f == [g EXCEPT !.base = chk.tbl]
  <2>1. chk' = PushScope(chk) /\ Push(f) /\ Flow
    BY <1>6 DEF Open
  <2>2. f \in FrameType /\ f.part = "then" /\ f.at = pc
    <3>1. g \in FrameType /\ g.part = "then" /\ g.at = pc /\ g.tables = <<>>
      BY <1>1, FrameMade DEF FrameParts, Bodies
    <3> HIDE DEF g
    <3> QED BY <1>1, <3>1 DEF FrameType, FrameRecord
  <2> HIDE DEF f
  <2> QED BY <2>1, <2>2, <1>4
<1>7. CASE t.op = "while"
  <2> DEFINE f == Frame("while", pc)
             d == PushScope(chk).depth + 1
  <2>1. chk' = [PushScope(chk) EXCEPT !.depth = d] /\ Push(f) /\ Flow
    BY <1>7 DEF Open
  <2>2. f \in FrameType /\ f.part = "while" /\ f.at = pc
    BY <1>1, FrameMade DEF FrameParts, Bodies
  <2>3. d \in Nat /\ d = chk.depth + 1
    BY <1>1, <1>2
  <2> HIDE DEF f, d
  <2>4. One(f, Loop) = 1 /\ One(f, OpenTry) = 0
    BY <2>2, OneOf
  <2>5. /\ chk' \in Checker /\ chk'.bindings = chk.bindings
        /\ chk'.marks = Append(chk.marks, Len(chk.bindings)) /\ chk'.depth = d
    BY <1>1, <2>1, <2>3, PushedDeep
  <2>6. frames' = Append(frames, f) /\ tries' = tries /\ pending' = pending
    BY <2>1 DEF Push, Flow
  <2>7. chk'.depth = chk.depth + One(f, Loop) /\ Len(pending') = Len(pending) + One(f, OpenTry)
    BY <1>1, <2>3, <2>4, <2>5, <2>6
  <2> QED BY <1>1, <1>3, <2>2, <2>5, <2>6, <2>7, StepOpen
<1>8. CASE t.op = "switch"
  <2> DEFINE g == Frame("switch", pc)
             f == [g EXCEPT !.base = chk.tbl]
  <2>1. chk' = chk /\ Push(f) /\ Flow
    BY <1>8 DEF Open
  <2>2. f \in FrameType /\ f.part = "switch" /\ f.at = pc
    <3>1. g \in FrameType /\ g.part = "switch" /\ g.at = pc /\ g.tables = <<>>
      BY <1>1, FrameMade DEF FrameParts, Bodies
    <3> HIDE DEF g
    <3> QED BY <1>1, <3>1 DEF FrameType, FrameRecord
  <2> HIDE DEF f
  <2>4. One(f, Loop) = 0 /\ One(f, OpenTry) = 0
    BY <2>2, OneOf
  <2>6. frames' = Append(frames, f) /\ tries' = tries /\ pending' = pending
    BY <2>1 DEF Push, Flow
  <2>7. chk'.depth = chk.depth + One(f, Loop) /\ Len(pending') = Len(pending) + One(f, OpenTry)
    BY <1>1, <2>1, <2>4, <2>6
  <2> QED BY <1>1, <1>3, <2>1, <2>2, <2>6, <2>7, StepOpen
<1>9. CASE t.op = "try"
  <2> DEFINE g == Frame("try", pc)
             f == [g EXCEPT !.base = chk.tbl, !.k = t.k]
  <2>1. /\ chk' = PushScope(chk) /\ Push(f)
        /\ IF t.k = "catch" THEN Flow ELSE tries' = tries + 1 /\ pending' = Append(pending, None)
    BY <1>9 DEF Open
  <2>2. t.k \in {"catch", "finally", "both"} /\ t.k \in FrameKeys
    BY <1>9, TokenFields DEF FrameKeys
  <2>3. f \in FrameType /\ f.part = "try" /\ f.at = pc /\ f.k = t.k
    <3>1. g \in FrameType /\ g.part = "try" /\ g.at = pc /\ g.tables = <<>>
      BY <1>1, FrameMade DEF FrameParts, Bodies
    <3> HIDE DEF g
    <3> QED BY <1>1, <2>2, <3>1 DEF FrameType, FrameRecord
  <2> HIDE DEF f
  <2>4. One(f, Loop) = 0 /\ One(f, OpenTry) = IF t.k = "catch" THEN 0 ELSE 1
    BY <2>3, OneOf
  <2>5. chk'.depth = chk.depth + One(f, Loop)
    BY <1>1, <1>2, <2>1, <2>4
  <2>6. /\ pending' \in Seq(Snapshot) /\ Len(pending') = Len(pending) + One(f, OpenTry)
        /\ tries' = Len(pending')
    <3>1. CASE t.k = "catch"
      BY <3>1, <1>1, <2>1, <2>4 DEF Flow
    <3>2. CASE t.k # "catch"
      <4>1. tries' = tries + 1 /\ pending' = Append(pending, None) /\ One(f, OpenTry) = 1
        BY <3>2, <2>1, <2>4
      <4>2. pending' \in Seq(Snapshot) /\ Len(pending') = Len(pending) + 1
        BY <1>1, <4>1, NoneTyped, AppendProperties
      <4> QED BY <1>1, <4>1, <4>2
    <3> QED BY <3>1, <3>2
  <2>7. frames' = Append(frames, f)
    BY <2>1 DEF Push
  <2> QED BY <1>2, <1>3, <2>1, <2>3, <2>5, <2>6, <2>7, StepOpen
<1> QED BY <1>5, <1>6, <1>7, <1>8, <1>9 DEF Open

\* The scope of the innermost construct can be closed.
LEMMA TopPopped ==
    ASSUME CheckInv, Here, Top.part # "switch"
    PROVE  LET r == PopScope(chk)
           IN  /\ Len(chk.marks) > 0 /\ r \in Checker /\ Scoped(r) /\ r.depth = chk.depth
               /\ r.tbl \in Table
<1>1. Fits(chk, frames, pending) /\ chk \in Checker /\ Scoped(chk)
  BY DEF CheckInv, Fits
<1>2. Len(frames) > 0 /\ frames[Len(frames)].part # "switch"
  BY TopFrame
<1>3. Len(chk.marks) > 0
  BY <1>1, <1>2, ScopeToPop
<1> DEFINE r == PopScope(chk)
<1>4. r \in Checker /\ Scoped(r) /\ r.depth = chk.depth
  BY <1>1, <1>3, ScopedPop
<1> HIDE DEF r
<1>5. r.tbl \in Table
  BY <1>4, TableOf
<1> QED BY <1>3, <1>4, <1>5 DEF r

\* A state left behind by a part that is no loop body fits what is around it.
LEMMA OutOf ==
    ASSUME CheckInv, Here, Top.part \notin {"switch", "while"},
           NEW q, Rests(PopScope(chk), q),
           NEW p \in Seq(Snapshot), Len(p) = Len(pending) - One(Top, OpenTry)
    PROVE  Fits(q, Below, p)
<1>1. /\ Top \in FrameType /\ Len(frames) > 0 /\ frames[Len(frames)] = Top
      /\ Below \in Seq(FrameType) /\ chk \in Checker
  BY TopFrame
<1>2. PopScope(chk).depth = chk.depth
  BY TopPopped
<1>3. q \in Checker /\ q.bindings = PopScope(chk).bindings /\ q.marks = PopScope(chk).marks
      /\ q.depth = chk.depth
  BY <1>2 DEF Rests
<1>4. One(Top, Loop) = 0 /\ chk.depth \in Nat
  BY <1>1, OneOf DEF Checker
<1>5. q.depth = chk.depth - One(Top, Loop)
  BY <1>3, <1>4
<1>6. SameKinds(SubSeq(frames, 1, Len(frames) - 1), Below)
  BY <1>1, AlikeItself, AlikeKinds DEF Below
<1>7. Fits(chk, frames, pending)
  BY DEF CheckInv
<1> QED BY <1>1, <1>3, <1>5, <1>6, <1>7, FitsLeave

\* An open try statement has its slot.
LEMMA SlotToPop ==
    ASSUME CheckInv, Here, One(Top, OpenTry) = 1
    PROVE  /\ Len(pending) \in Nat /\ Len(pending) > 0
           /\ pending[Len(pending)] \in Snapshot
           /\ SubSeq(pending, 1, Len(pending) - 1) \in Seq(Snapshot)
           /\ Len(SubSeq(pending, 1, Len(pending) - 1)) = Len(pending) - 1
<1>1. /\ Below \in Seq(FrameType) /\ frames \in Seq(FrameType) /\ Len(frames) > 0
      /\ frames[Len(frames)] = Top /\ pending \in Seq(Snapshot)
  BY TopFrame
<1>2. Amount(Below, OpenTry) = Amount(frames, OpenTry) - One(Top, OpenTry)
  BY <1>1, AmountShorter DEF Below
<1>3. Amount(Below, OpenTry) \in Nat /\ Amount(frames, OpenTry) \in Nat
  BY <1>1, AmountType
<1>4. Len(pending) = Amount(frames, OpenTry)
  BY DEF CheckInv, Fits
<1>5. Len(pending) \in Nat /\ Len(pending) > 0 /\ Len(pending) \in 1 .. Len(pending)
  BY <1>2, <1>3, <1>4
<1> QED BY <1>1, <1>5, Shorter, ElementOfSeq

\* The else branch begins from the table the statement began with.
LEMMA ElseStep ==
    ASSUME CheckInv, Grown, Here, NEW t, Else(t)
    PROVE  CheckInv'
<1> DEFINE r == PopScope(chk)
           q == [r EXCEPT !.tbl = Top.base]
           key == IF Top.exits THEN "exits" ELSE ""
           kept == <<ThenTable>>
           f == [Top EXCEPT !.part = "else", !.at = pc, !.tables = kept, !.bound = {},
                            !.k = key, !.exits = FALSE]
<1>1. Top.part = "then" /\ Advance /\ tries' = tries /\ pending' = pending
  BY DEF Else, Reading, Flow
<1>2. chk' = PushScope(q) /\ frames' = Append(Below, f)
  BY DEF Else, Swap
<1>3. Top \in FrameType /\ Top.base \in Table /\ pending \in Seq(Snapshot) /\ Len(pending) \in Nat
  BY TopFrame, LenProperties DEF FrameType, FrameRecord
<1>4. r \in Checker /\ r.tbl \in Table
  BY <1>1, TopPopped
<1>5. Rests(r, q)
  <2> HIDE DEF r
  <2> QED BY <1>3, <1>4, TableRests
<1>6. One(Top, OpenTry) = 0
  BY <1>1, <1>3, OneOf
<1>7. Fits(q, Below, pending)
  <2>1. Top.part \notin {"switch", "while"}
    BY <1>1
  <2>2. Len(pending) = Len(pending) - One(Top, OpenTry)
    BY <1>3, <1>6
  <2> HIDE DEF q
  <2> QED BY <1>3, <1>5, <2>1, <2>2, OutOf
<1>8. f \in FrameType /\ f.part = "else" /\ f.at = pc
  <2>1. ThenTable \in Table
    BY <1>4 DEF ThenTable
  <2>2. kept \in Seq(Table) /\ Len(kept) = 1
    BY <2>1
  <2>3. key \in FrameKeys /\ pc \in Nat
    BY Places DEF FrameKeys
  <2> HIDE DEF key, kept, r
  <2>4. Top \in FrameRecord
    BY <1>3 DEF FrameType
  <2>5. f \in FrameRecord /\ f.part = "else" /\ f.at = pc /\ f.tables = kept
    BY <2>2, <2>3, <2>4 DEF FrameRecord, FrameParts, Bodies
  <2> HIDE DEF f
  <2> QED BY <2>2, <2>5 DEF FrameType
<1> HIDE DEF f, q
<1>9. One(f, OpenTry) = 0
  BY <1>8, OneOf
<1>10. Len(pending') = Len(pending) + One(f, OpenTry) /\ tries' = Len(pending')
  BY <1>1, <1>3, <1>9 DEF CheckInv
<1>11. pc' \in 1 .. Len(prog') + 1 /\ pc <= Len(prog')
  BY <1>1, Places DEF Advance, Grown
<1>12. pending' \in Seq(Snapshot)
  BY <1>1, <1>3
<1> QED BY <1>1, <1>2, <1>7, <1>8, <1>10, <1>11, <1>12, StepSwap

\* Reporting a fall-through touches no scope.
LEMMA FallThroughRests ==
    ASSUME NEW s \in Checker
    PROVE  Rests(s, FallThrough(s))
<1>1. Rests(s, s)
  BY DEF Rests
<1>2. Rests(s, Emit(s, "UnmappedConstruct"))
  BY EmitRests DEF RuleKind
<1> QED BY <1>1, <1>2 DEF FallThrough

\* The tables of a switch so far are tables.
LEMMA ClauseTables ==
    ASSUME CheckInv, Here, Top.part = "case"
    PROVE  /\ ClauseDone.s = PopScope(chk)
           /\ ClauseDone.tables \in Seq(Table)
           /\ \/ ClauseDone.tables = Top.tables
              \/ ClauseDone.tables = Append(Top.tables, PopScope(chk).tbl)
<1> DEFINE r == PopScope(chk)
           ts == IF EmptyClause THEN Top.tables ELSE Append(Top.tables, r.tbl)
<1>1. Top.tables \in Seq(Table) /\ r.tbl \in Table
  BY TopFrame, TopPopped DEF FrameType, FrameRecord
<1>2. ClauseDone.s = r /\ ClauseDone.tables = ts
  BY DEF ClauseDone
<1> HIDE DEF r
<1>3. ts \in Seq(Table)
  BY <1>1, AppendProperties
<1> QED BY <1>2, <1>3 DEF r

\* A clause begins from the table the switch began with.
LEMMA ClauseStep ==
    ASSUME CheckInv, Grown, Here, NEW t, Clause(t)
    PROVE  CheckInv'
<1>1. t.op \in {"case", "default"} /\ Advance /\ tries' = tries /\ pending' = pending
  BY DEF Clause, Flow
<1>2. Top \in FrameType /\ Top.base \in Table /\ pending \in Seq(Snapshot) /\ Len(pending) \in Nat
  BY TopFrame, LenProperties DEF FrameType, FrameRecord
<1>3. pc' \in 1 .. Len(prog') + 1 /\ pc <= Len(prog') /\ pc \in Nat /\ tries = Len(pending)
  BY <1>1, Places DEF Advance, Grown, CheckInv
<1>4. ASSUME NEW q, Fits(q, Below, pending), Top.part # "body", NEW f \in FrameType, f.part = "case",
             f.at = pc, chk' = PushScope(q), frames' = Append(Below, f)
      PROVE  CheckInv'
  <2>1. One(f, OpenTry) = 0
    BY <1>4, OneOf
  <2>2. Len(pending') = Len(pending) + One(f, OpenTry) /\ tries' = Len(pending')
    BY <1>1, <1>2, <1>3, <2>1
  <2>3. pending' \in Seq(Snapshot)
    BY <1>1, <1>2
  <2> QED BY <1>3, <1>4, <2>2, <2>3, StepSwap
<1>5. CASE /\ Reading = "switch" /\ chk' = PushScope(chk)
           /\ Swap([Top EXCEPT !.part = "case", !.at = pc, !.k = t.op])
  <2> DEFINE f == [Top EXCEPT !.part = "case", !.at = pc, !.k = t.op]
  <2>1. Top.part = "switch" /\ frames' = Append(Below, f)
    BY <1>5 DEF Reading, Swap
  <2>2. Fits(chk, Below, pending)
    BY <2>1, TopFrame, FitsWithout DEF CheckInv, Below
  <2>3. f \in FrameType /\ f.part = "case" /\ f.at = pc
    <3>1. t.op \in FrameKeys
      BY <1>1 DEF FrameKeys
    <3> QED BY <1>2, <1>3, <3>1 DEF FrameType, FrameRecord, FrameParts, Bodies
  <2> HIDE DEF f
  <2> QED BY <1>4, <1>5, <2>1, <2>2, <2>3
<1>6. CASE /\ Reading = "case"
           /\ LET d == ClauseDone
                  s == FallThrough(d.s)
              IN  /\ chk' = PushScope([s EXCEPT !.tbl = Top.base])
                  /\ Swap([Top EXCEPT !.at = pc, !.tables = d.tables, !.exits = FALSE, !.bound = {},
                                      !.k = IF t.op = "default" THEN t.op ELSE @])
  <2> DEFINE r == PopScope(chk)
             s == FallThrough(r)
             q == [s EXCEPT !.tbl = Top.base]
             key == IF t.op = "default" THEN t.op ELSE Top.k
             ts == ClauseDone.tables
             f == [Top EXCEPT !.at = pc, !.tables = ts, !.exits = FALSE, !.bound = {}, !.k = key]
  <2>1. Top.part = "case" /\ ClauseDone.s = r /\ ts \in Seq(Table)
    BY <1>6, ClauseTables DEF Reading
  <2>2. Top.part = "case" /\ chk' = PushScope(q) /\ frames' = Append(Below, f)
    BY <1>6, <2>1 DEF Reading, Swap
  <2>3. r \in Checker /\ r.tbl \in Table
    BY <2>2, TopPopped
  <2>4. Rests(r, s)
    <3> HIDE DEF r
    <3> QED BY <2>3, FallThroughRests
  <2> HIDE DEF s
  <2>5. Rests(s, q)
    BY <1>2, <2>4, TableRests DEF Rests
  <2> HIDE DEF q
  <2>6. Fits(q, Below, pending)
    <3>1. One(Top, OpenTry) = 0
      BY <1>2, <2>2, OneOf
    <3>2. Rests(PopScope(chk), q)
      BY <2>4, <2>5, RestsTwice
    <3> QED BY <1>2, <2>2, <3>1, <3>2, OutOf
  <2>7. f \in FrameType /\ f.part = "case" /\ f.at = pc
    <3>1. key \in FrameKeys
      BY <1>2 DEF FrameType, FrameRecord, FrameKeys
    <3> HIDE DEF key, ts
    <3> QED BY <1>2, <1>3, <2>1, <3>1 DEF FrameType, FrameRecord
  <2> HIDE DEF f
  <2> QED BY <1>4, <2>2, <2>6, <2>7
<1> QED BY <1>5, <1>6 DEF Clause

\* The handler begins from the table the try statement began with.
LEMMA CatchStep ==
    ASSUME CheckInv, Grown, Here, NEW t, Catch(t)
    PROVE  CheckInv'
<1> DEFINE r == PopScope(chk)
           q == [r EXCEPT !.tbl = Top.base]
           f == [Top EXCEPT !.part = "catch", !.at = pc, !.tables = <<r.tbl>>, !.bound = {},
                            !.exits = FALSE]
           p == IF Top.k = "catch" THEN pending ELSE SubSeq(pending, 1, Len(pending) - 1)
<1>1. /\ Top.part = "try" /\ Top.k \in {"catch", "both"}
      /\ Advance /\ tries' = tries /\ pending' = pending
      /\ chk' = PushScope(q) /\ frames' = Append(Below, f)
  BY DEF Catch, Reading, Flow, Swap
<1>2. Top \in FrameType /\ Top.base \in Table /\ pending \in Seq(Snapshot) /\ Len(pending) \in Nat
  BY TopFrame, LenProperties DEF FrameType, FrameRecord
<1>3. r \in Checker /\ r.tbl \in Table
  BY <1>1, TopPopped
<1>4. Rests(r, q)
  <2> HIDE DEF r
  <2> QED BY <1>2, <1>3, TableRests
<1>5. One(Top, OpenTry) = IF Top.k = "catch" THEN 0 ELSE 1
  BY <1>1, <1>2, OneOf
<1>6. f \in FrameType /\ f.part = "catch" /\ f.at = pc /\ f.k = Top.k
  <2>1. Top \in FrameRecord /\ pc \in Nat
    BY <1>2, Places DEF FrameType
  <2>2. <<r.tbl>> \in Seq(Table)
    BY <1>3
  <2> HIDE DEF r, p, q
  <2>3. /\ f \in FrameRecord /\ f.part = "catch" /\ f.at = pc /\ f.k = Top.k
        /\ f.tables = <<r.tbl>>
    BY <2>1, <2>2 DEF FrameRecord, FrameParts, Bodies
  <2> HIDE DEF f
  <2>4. f.tables = <<r.tbl>>
    BY <2>3
  <2>5. Len(f.tables) > 0
    BY <2>4
  <2> QED BY <2>3, <2>5 DEF FrameType
<1> HIDE DEF f, q
<1>7. One(f, OpenTry) = IF Top.k = "catch" THEN 0 ELSE 1
  BY <1>1, <1>6, OneOf
<1>8. p \in Seq(Snapshot) /\ Len(p) = Len(pending) - One(Top, OpenTry)
  <2>1. CASE Top.k = "catch"
    BY <2>1, <1>2, <1>5
  <2>2. CASE Top.k # "catch"
    BY <2>2, <1>5, SlotToPop
  <2> QED BY <2>1, <2>2
<1> HIDE DEF p
<1>9. Fits(q, Below, p)
  BY <1>1, <1>4, <1>8, OutOf
<1>10. Len(pending') = Len(p) + One(f, OpenTry) /\ tries' = Len(pending')
  BY <1>1, <1>2, <1>5, <1>7, <1>8 DEF CheckInv
<1>11. pc' \in 1 .. Len(prog') + 1 /\ pc <= Len(prog') /\ pending' \in Seq(Snapshot)
  BY <1>1, <1>2, Places DEF Advance, Grown
<1> QED BY <1>1, <1>6, <1>9, <1>10, <1>11, StepSwap

\* What the end of a handler leaves behind.
LEMMA CatchDoneRests ==
    ASSUME CheckInv, Here, Top.part = "catch"
    PROVE  Rests(PopScope(chk), CatchDone) /\ CatchDone.tbl = Top.tables[1]
           /\ CatchDone \in Checker /\ Top.tables[1] \in Table
<1> DEFINE r == PopScope(chk)
           c == Compare(r, Top.tables[1], r.tbl)
<1>1. r \in Checker
  BY TopPopped
<1>2. Top.tables \in Seq(Table) /\ Len(Top.tables) > 0
  BY TopFrame DEF FrameType, FrameRecord
<1>3. Top.tables[1] \in Table
  BY <1>2, LenProperties, ElementOfSeq
<1>4. CatchDone = [c EXCEPT !.tbl = Top.tables[1]]
  BY DEF CatchDone
<1> HIDE DEF r
<1>5. Rests(r, c)
  BY <1>1, CompareRests
<1> HIDE DEF c
<1>6. Rests(c, CatchDone) /\ CatchDone.tbl = Top.tables[1]
  BY <1>3, <1>4, <1>5, TableRests DEF Rests
<1>7. Rests(r, CatchDone)
  BY <1>5, <1>6, RestsTwice
<1> QED BY <1>3, <1>6, <1>7 DEF Rests, r

\* The finalizer takes the slot of its try statement away.
LEMMA FinallyStep ==
    ASSUME CheckInv, Grown, Here, NEW t, Finally(t)
    PROVE  CheckInv'
<1> DEFINE s == IF Reading = "try" THEN PopScope(chk) ELSE CatchDone
           e == pending[Len(pending)]
           q == IF e.some THEN [s EXCEPT !.tbl = e.tbl] ELSE s
           g == Frame("finally", pc)
           f == [g EXCEPT !.base = s.tbl, !.exiting = e]
           p == SubSeq(pending, 1, Len(pending) - 1)
<1>1. /\ chk' = PushScope(q) /\ frames' = Append(Below, f) /\ pending' = p
      /\ tries' = tries - 1 /\ Advance
  BY DEF Finally, Swap
<1>2. \/ Top.part = "try" /\ Top.k = "finally"
      \/ Top.part = "catch" /\ Top.k = "both"
  BY DEF Finally, Reading
<1>3. Top \in FrameType /\ One(Top, OpenTry) = 1
  <2>1. Top \in FrameType
    BY TopFrame
  <2> QED BY <1>2, <2>1, OneOf
<1>4. e \in Snapshot /\ p \in Seq(Snapshot) /\ Len(p) = Len(pending) - 1 /\ Len(pending) \in Nat
  BY <1>3, SlotToPop
<1>5. s \in Checker /\ Rests(PopScope(chk), s)
  <2>1. CASE Top.part = "try"
    <3>1. PopScope(chk) \in Checker
      BY <2>1, TopPopped
    <3> QED BY <2>1, <3>1 DEF Rests, Reading
  <2>2. CASE Top.part = "catch"
    BY <2>2, CatchDoneRests DEF Reading
  <2> QED BY <1>2, <2>1, <2>2
<1> HIDE DEF s, e
<1>6. Rests(PopScope(chk), q)
  <2>1. Rests(s, s)
    BY <1>5 DEF Rests
  <2>2. e.tbl \in Table
    BY <1>4 DEF Snapshot
  <2>3. Rests(s, [s EXCEPT !.tbl = e.tbl])
    BY <1>5, <2>2, TableRests
  <2> QED BY <1>5, <2>1, <2>3, RestsTwice
<1>7. f \in FrameType /\ f.part = "finally" /\ f.at = pc
  <2>1. pc \in Nat /\ s.tbl \in Table
    BY <1>5, Places, TableOf
  <2>2. g \in FrameType /\ g.part = "finally" /\ g.at = pc
    BY <2>1, FrameMade DEF FrameParts, Bodies
  <2> HIDE DEF g
  <2> QED BY <1>4, <2>1, <2>2 DEF FrameType, FrameRecord
<1> HIDE DEF f, q, p
<1>8. One(f, OpenTry) = 0
  BY <1>7, OneOf
<1>9. Fits(q, Below, p)
  <2>1. Top.part \notin {"switch", "while"}
    BY <1>2
  <2>2. Len(p) = Len(pending) - One(Top, OpenTry)
    BY <1>3, <1>4
  <2> QED BY <1>4, <1>6, <2>1, <2>2, OutOf
<1>10. Len(pending') = Len(p) + One(f, OpenTry) /\ tries' = Len(pending')
  BY <1>1, <1>4, <1>8 DEF CheckInv
<1>11. pc' \in 1 .. Len(prog') + 1 /\ pc <= Len(prog') /\ pending' \in Seq(Snapshot)
  BY <1>1, <1>4, Places DEF Advance, Grown
<1>12. Top.part # "body"
  BY <1>2
<1> QED BY <1>1, <1>7, <1>9, <1>10, <1>11, <1>12, StepSwap

\* What the innermost construct tells the one around it.
LEMMA LeaveExits ==
    ASSUME CheckInv, Here, Top.part # "body", NEW e \in BOOLEAN, Leave(e)
    PROVE  \E b \in BOOLEAN : frames' = [Below EXCEPT ![Len(frames) - 1].exits = b]
<1> DEFINE i == Len(frames) - 1
           b == Below[i].exits \/ e
<1>1. Below[i] \in FrameRecord
  <2>1. Below \in Seq(FrameType) /\ i \in 1 .. Len(Below)
    BY TopFrame
  <2>2. Below[i] \in FrameType
    BY <2>1, ElementOfSeq
  <2> QED BY <2>2 DEF FrameType
<1>2. Below[i].exits \in BOOLEAN
  BY <1>1 DEF FrameRecord
<1>3. b \in BOOLEAN
  BY <1>2, Zenon
<1>4. frames' = [Below EXCEPT ![i].exits = b]
  BY DEF Leave
<1> HIDE DEF b
<1> QED BY <1>3, <1>4

\* A construct with no loop depth and no slot of its own ends.
LEMMA EndStep ==
    ASSUME CheckInv, Grown, Here, Top.part \notin {"body", "switch", "while"},
           One(Top, OpenTry) = 0, Rests(PopScope(chk), chk'), NEW e \in BOOLEAN, Leave(e), Advance,
           pending' \in Seq(Snapshot), Len(pending') = Len(pending), tries' = tries
    PROVE  CheckInv'
<1>1. Top \in FrameType /\ chk \in Checker /\ pending \in Seq(Snapshot) /\ Len(pending) \in Nat
      /\ tries = Len(pending) /\ chk.depth \in Nat
  BY TopFrame, LenProperties DEF CheckInv, Checker
<1>2. PICK b \in BOOLEAN : frames' = [Below EXCEPT ![Len(frames) - 1].exits = b]
  BY LeaveExits
<1>3. PopScope(chk).depth = chk.depth
  BY TopPopped
<1>4. One(Top, Loop) = 0
  BY <1>1, OneOf
<1>5. /\ chk' \in Checker /\ chk'.bindings = PopScope(chk).bindings
      /\ chk'.marks = PopScope(chk).marks /\ chk'.depth = chk.depth
  BY <1>3 DEF Rests
<1>6. chk'.depth = chk.depth - One(Top, Loop)
  BY <1>1, <1>4, <1>5
<1>7. Len(pending') = Len(pending) - One(Top, OpenTry) /\ tries' = Len(pending')
  BY <1>1
<1> QED BY <1>2, <1>5, <1>6, <1>7, StepLeave

\* The end of a loop body gives the loop depth back.
LEMMA LoopDoneStep ==
    ASSUME CheckInv, Grown, Here, Top.part = "while", chk' = LoopDone, Leave(FALSE), Advance, Flow
    PROVE  CheckInv'
<1> DEFINE r == PopScope(chk)
           d == r.depth - 1
<1>1. /\ Top \in FrameType /\ chk \in Checker /\ pending \in Seq(Snapshot) /\ Len(pending) \in Nat
      /\ tries = Len(pending) /\ chk.depth \in Nat
      /\ frames \in Seq(FrameType) /\ Below \in Seq(FrameType)
      /\ Len(frames) > 0 /\ frames[Len(frames)] = Top
  BY TopFrame, LenProperties DEF CheckInv, Checker
<1>2. PICK b \in BOOLEAN : frames' = [Below EXCEPT ![Len(frames) - 1].exits = b]
  BY LeaveExits
<1>3. r \in Checker /\ r.depth = chk.depth
  BY TopPopped
<1>4. One(Top, Loop) = 1 /\ One(Top, OpenTry) = 0
  BY <1>1, OneOf
<1>5. chk.depth > 0
  <2>1. Amount(Below, Loop) = Amount(frames, Loop) - One(Top, Loop)
    BY <1>1, AmountShorter DEF Below
  <2>2. Amount(Below, Loop) \in Nat /\ Amount(frames, Loop) \in Nat
    BY <1>1, AmountType
  <2>3. chk.depth = Amount(frames, Loop)
    BY DEF CheckInv, Fits
  <2> QED BY <1>4, <2>1, <2>2, <2>3
<1>6. d \in Nat /\ d = chk.depth - One(Top, Loop)
  BY <1>1, <1>3, <1>4, <1>5
<1>7. chk' = [r EXCEPT !.depth = d]
  BY DEF LoopDone
<1> HIDE DEF r, d
<1>8. /\ chk' \in Checker /\ chk'.bindings = r.bindings
      /\ chk'.marks = r.marks /\ chk'.depth = d
  BY <1>3, <1>6, <1>7 DEF Checker
<1>9. Len(pending') = Len(pending) - One(Top, OpenTry) /\ tries' = Len(pending')
      /\ pending' \in Seq(Snapshot)
  BY <1>1, <1>4 DEF Flow
<1> QED BY <1>2, <1>6, <1>8, <1>9, StepLeave DEF r

\* The tables of a switch are tables; there may be none.
LEMMA SwitchTablesTyped ==
    ASSUME CheckInv, Here, Top.part = "case"
    PROVE  SwitchTables \in Seq(Table) /\ (SwitchTables # <<>> => SwitchTables[1] \in Table)
<1> DEFINE ts == ClauseDone.tables
<1>1. Top.base \in Table /\ ts \in Seq(Table)
  BY TopFrame, ClauseTables DEF FrameType, FrameRecord
<1>2. SwitchTables = IF Top.k = "default" THEN ts ELSE Append(ts, Top.base)
  BY DEF SwitchTables
<1> HIDE DEF ts
<1>3. SwitchTables \in Seq(Table)
  BY <1>1, <1>2, AppendProperties
<1> HIDE DEF SwitchTables
<1>4. ASSUME SwitchTables # <<>>
      PROVE  Len(SwitchTables) > 0
  BY <1>3, <1>4, EmptySeq, LenProperties
<1> QED BY <1>3, <1>4, LenProperties, ElementOfSeq

\* A switch without a clause ends with the table it began with.
LEMMA NoClauseStep ==
    ASSUME CheckInv, Grown, Here, Advance, Top.part = "switch", chk' = chk, Leave(FALSE), Flow
    PROVE  CheckInv'
<1>1. pc' \in 1 .. Len(prog') + 1 /\ prog' \in Seq(TokenType)
  BY Places DEF Advance, Grown
<1>2. PICK b \in BOOLEAN : frames' = [Below EXCEPT ![Len(frames) - 1].exits = b]
  <2>1. FALSE \in BOOLEAN /\ Top.part # "body"
    OBVIOUS
  <2> QED BY <2>1, LeaveExits
<1>3. Alike(Below, frames')
  BY <1>2, TopFrame, AlikeExits
<1>4. Fits(chk', frames', pending')
  <2>1. Fits(chk, Below, pending)
    BY TopFrame, FitsWithout DEF CheckInv, Below
  <2>2. SameKinds(Below, frames') /\ chk \in Checker
    BY <1>3, TopFrame, AlikeKinds
  <2>3. Rests(chk, chk)
    BY <2>2 DEF Rests
  <2>4. Grows(chk, chk) /\ chk' = chk /\ pending' = pending /\ pending \in Seq(Snapshot)
    BY <2>2, <2>3, TopFrame, RestsGrows DEF Flow
  <2> QED BY <2>1, <2>2, <2>4, FitsRun
<1>5. \A i \in 1 .. Len(Below) : Below[i].at <= Len(prog')
  <2>1. \A i \in 1 .. Len(frames) : frames[i].at <= Len(prog')
    BY Places
  <2> QED BY <2>1, TopFrame
<1>6. \A i \in 1 .. Len(frames') : frames'[i].at <= Len(prog')
  BY <1>3, <1>5 DEF Alike
<1>7. tries' = Len(pending')
  BY DEF Flow, CheckInv
<1> QED BY <1>1, <1>4, <1>6, <1>7 DEF CheckInv

\* The end of a finalizer, which may begin its second round.
LEMMA FinallyDoneStep ==
    ASSUME CheckInv, Grown, Here, Top.part = "finally", FinallyDone
    PROVE  CheckInv'
<1> DEFINE r == PopScope(chk)
           s == IF Top.exiting.some /\ tries = 0 THEN RequireConsumed(r) ELSE r
           q == [s EXCEPT !.tbl = Top.base]
           again == Top.exiting.some /\ Differs(Top.exiting.tbl, Top.base)
           filled == [i \in 1 .. Len(pending) |-> IF pending[i].some THEN Some(r.tbl) ELSE pending[i]]
<1>1. /\ Top \in FrameType /\ Top.base \in Table /\ Top.at \in Nat
      /\ pending \in Seq(Snapshot) /\ Len(pending) \in Nat /\ tries = Len(pending)
  BY TopFrame, LenProperties DEF CheckInv, FrameType, FrameRecord
<1>2. r \in Checker /\ r.tbl \in Table
  BY TopPopped
<1>3. Rests(r, s) /\ s \in Checker
  <2> HIDE DEF r
  <2>1. Rests(r, r)
    BY <1>2 DEF Rests
  <2>2. Rests(r, RequireConsumed(r))
    BY <1>2, RequireConsumedKeeps, KeepsRests
  <2>3. Rests(r, s)
    BY <2>1, <2>2
  <2> QED BY <2>3 DEF Rests
<1>4. /\ pending' = IF Top.exiting.some THEN filled ELSE pending
      /\ tries' = tries
  BY DEF FinallyDone
<1>5. /\ again => chk' = PushScope(q) /\ Swap(SecondRound) /\ pc' = Top.at + 1
      /\ ~again => chk' = s /\ Leave(FALSE) /\ Advance
  BY DEF FinallyDone
<1>6. pending' \in Seq(Snapshot) /\ Len(pending') = Len(pending)
  <2>1. Some(r.tbl) \in Snapshot
    BY <1>2, SomeTyped
  <2>2. \A i \in 1 .. Len(pending) : pending[i] \in Snapshot
    BY <1>1, ElementOfSeq
  <2> HIDE DEF r
  <2>3. \A i \in 1 .. Len(pending) : filled[i] \in Snapshot
    BY <2>1, <2>2
  <2>4. filled = [i \in 1 .. Len(pending) |-> filled[i]]
    OBVIOUS
  <2> HIDE DEF filled
  <2>5. filled \in Seq(Snapshot) /\ Len(filled) = Len(pending)
    BY <1>1, <2>3, <2>4, Filled
  <2> QED BY <1>1, <1>4, <2>5
<1>7. One(Top, OpenTry) = 0
  BY <1>1, OneOf
<1> HIDE DEF s, filled, again
<1>8. CASE again
  <2>1. chk' = PushScope(q) /\ frames' = Append(Below, SecondRound) /\ pc' = Top.at + 1
    BY <1>5, <1>8 DEF Swap
  <2>2. Rests(r, q)
    BY <1>1, <1>3, TableRests, RestsTwice
  <2> HIDE DEF q
  <2>3. Fits(q, Below, pending)
    <3>1. Len(pending) = Len(pending) - One(Top, OpenTry)
      BY <1>1, <1>7
    <3> QED BY <1>1, <2>2, <3>1, OutOf
  <2>4. SecondRound \in FrameType /\ SecondRound.part = "finally" /\ SecondRound.at = Top.at
    <3> DEFINE g == Frame("finally", Top.at)
    <3>1. g \in FrameType /\ g.part = "finally" /\ g.at = Top.at
      BY <1>1, FrameMade DEF FrameParts, Bodies
    <3>2. SecondRound = [g EXCEPT !.k = "again"]
      BY DEF SecondRound
    <3> HIDE DEF g
    <3> QED BY <3>1, <3>2 DEF FrameType, FrameRecord, FrameKeys
  <2>5. One(SecondRound, OpenTry) = 0
    BY <2>4, OneOf
  <2>6. Len(pending') = Len(pending) + One(SecondRound, OpenTry) /\ tries' = Len(pending')
    BY <1>1, <1>4, <1>6, <2>5
  <2>7. pc' \in 1 .. Len(prog') + 1 /\ Top.at <= Len(prog')
    <3>1. Top.at \in Nat /\ Top.at <= Len(prog') /\ Len(prog') \in Nat
      BY Places, TopFrame
    <3> QED BY <2>1, <3>1
  <2> QED BY <1>6, <2>1, <2>3, <2>4, <2>6, <2>7, StepSwap
<1>9. CASE ~again
  <2>1. chk' = s /\ Leave(FALSE) /\ Advance /\ FALSE \in BOOLEAN
    BY <1>5, <1>9
  <2> QED BY <1>3, <1>4, <1>6, <1>7, <2>1, EndStep
<1> QED BY <1>8, <1>9

\* A construct ends.
LEMMA ConstructEnds ==
    ASSUME CheckInv, Grown, Here, NEW t, End(t)
    PROVE  CheckInv'
<1> DEFINE r == PopScope(chk)
<1>1. /\ Top \in FrameType /\ Top \in FrameRecord /\ Reading = Top.part
      /\ pending \in Seq(Snapshot) /\ FALSE \in BOOLEAN /\ Top.exits \in BOOLEAN
  BY TopFrame DEF FrameType, FrameRecord, Reading
<1>2. ASSUME Top.part \in {"block", "then", "else", "case"} \/ (Top.part = "catch" /\ Top.k = "catch")
      PROVE  One(Top, OpenTry) = 0 /\ Top.part \notin {"body", "switch", "while"}
  BY <1>1, <1>2, OneOf
<1>3. ASSUME Flow
      PROVE  pending' \in Seq(Snapshot) /\ Len(pending') = Len(pending) /\ tries' = tries
  BY <1>1, <1>3 DEF Flow
<1>4. ASSUME Top.part \notin {"body", "switch"}
      PROVE  r \in Checker /\ r.tbl \in Table /\ Rests(r, r)
  <2>1. r \in Checker /\ r.tbl \in Table
    BY <1>4, TopPopped
  <2> QED BY <2>1 DEF Rests
<1>5. CASE Reading = "block"
  <2>1. chk' = r /\ Leave(Top.exits) /\ Advance /\ Flow
    BY <1>5 DEF End
  <2> QED BY <1>1, <1>2, <1>3, <1>4, <1>5, <2>1, EndStep
<1>6. CASE Reading = "then"
  <2>1. chk' = Compare(r, r.tbl, Top.base) /\ Leave(FALSE) /\ Advance /\ Flow
    BY <1>6 DEF End
  <2>2. Rests(r, chk')
    <3> HIDE DEF r
    <3> QED BY <1>1, <1>4, <1>6, <2>1, CompareRests
  <2> QED BY <1>1, <1>2, <1>3, <1>6, <2>1, <2>2, EndStep
<1>7. CASE Reading = "else"
  <2> DEFINE c == Compare(r, Top.tables[1], r.tbl)
             e == Top.exits /\ Top.k = "exits"
  <2>1. chk' = [c EXCEPT !.tbl = Top.tables[1]] /\ Leave(e) /\ Advance /\ Flow
    BY <1>7 DEF End
  <2>2. Top.tables[1] \in Table
    <3>1. Top.tables \in Seq(Table) /\ Len(Top.tables) > 0
      BY <1>1, <1>7 DEF FrameType, FrameRecord
    <3> QED BY <3>1, LenProperties, ElementOfSeq
  <2>3. Rests(r, chk')
    <3> HIDE DEF r
    <3>1. Rests(r, c)
      BY <1>1, <1>4, <1>7, CompareRests
    <3> HIDE DEF c
    <3>2. Rests(c, chk')
      BY <2>1, <2>2, <3>1, TableRests DEF Rests
    <3> QED BY <3>1, <3>2, RestsTwice
  <2>4. e \in BOOLEAN
    BY <1>1, Zenon
  <2> HIDE DEF e
  <2> QED BY <1>1, <1>2, <1>3, <1>7, <2>1, <2>3, <2>4, EndStep
<1>8. CASE Reading = "while"
  <2>1. chk' = LoopDone /\ Leave(FALSE) /\ Advance /\ Flow
    BY <1>8 DEF End
  <2> QED BY <1>1, <1>8, <2>1, LoopDoneStep
<1>9. CASE Reading = "case"
  <2> DEFINE ts == SwitchTables
             agree == \A i \in 1 .. Len(ts) - 1 : Agree(ts[i], ts[i + 1])
             q == IF ts = <<>> THEN ClauseDone.s ELSE [ClauseDone.s EXCEPT !.tbl = ts[1]]
  <2>1. /\ chk' = IF agree THEN q ELSE Emit(q, "BranchInconsistent")
        /\ Leave(FALSE) /\ Advance /\ Flow
    BY <1>9 DEF End
  <2>2. ts # <<>> => ts[1] \in Table
    BY <1>1, <1>9, SwitchTablesTyped
  <2>3. ClauseDone.s = r
    BY DEF ClauseDone
  <2>4. Rests(r, chk')
    <3>1. r \in Checker /\ Rests(r, r)
      BY <1>1, <1>4, <1>9
    <3>2. q = IF ts = <<>> THEN r ELSE [r EXCEPT !.tbl = ts[1]]
      BY <2>3
    <3> HIDE DEF r, agree, ts
    <3>3. Rests(r, q)
      <4>1. CASE ts = <<>>
        BY <3>1, <3>2, <4>1
      <4>2. CASE ts # <<>>
        BY <2>2, <3>1, <3>2, <4>2, TableRests
      <4> QED BY <4>1, <4>2
    <3> HIDE DEF q
    <3>4. Rests(q, Emit(q, "BranchInconsistent"))
      BY <3>3, EmitRests DEF Rests, RuleKind
    <3> QED BY <2>1, <3>3, <3>4, RestsTwice
  <2> QED BY <1>1, <1>2, <1>3, <1>9, <2>1, <2>4, EndStep
<1>10. CASE Reading = "catch" /\ Top.k = "catch"
  <2>1. chk' = CatchDone /\ Leave(FALSE) /\ Advance /\ Flow
    BY <1>10 DEF End
  <2>2. Rests(r, chk')
    BY <1>1, <1>10, <2>1, CatchDoneRests
  <2> QED BY <1>1, <1>2, <1>3, <1>10, <2>1, <2>2, EndStep
<1>11. CASE Reading = "finally"
  <2>1. FinallyDone
    BY <1>11 DEF End
  <2> QED BY <1>1, <1>11, <2>1, FinallyDoneStep
<1>12. CASE Reading = "switch"
  <2>1. chk' = chk /\ Leave(FALSE) /\ Advance /\ Flow
    BY <1>12 DEF End
  <2> QED BY <1>1, <1>12, <2>1, NoClauseStep
<1> QED BY <1>5, <1>6, <1>7, <1>8, <1>9, <1>10, <1>11, <1>12 DEF End

\* The walk ends with the outermost scope.
LEMMA EofStep ==
    ASSUME CheckInv, Grown, Here, NEW t, Eof(t)
    PROVE  CheckInv'
<1>1. Len(frames) = 1 /\ chk' = PopScope(chk) /\ frames' = <<>> /\ Advance
      /\ tries' = tries /\ pending' = pending
  BY DEF Eof, Flow
<1>2. /\ Fits(chk, frames, pending) /\ chk \in Checker /\ frames[Len(frames)] = Top
      /\ Top \in FrameType /\ pending \in Seq(Snapshot) /\ tries = Len(pending)
      /\ Len(pending) \in Nat /\ chk.depth \in Nat
  BY TopFrame, LenProperties DEF CheckInv, Checker
<1>3. Top.part = "body"
  BY <1>1, <1>2 DEF Fits
<1>4. One(Top, Loop) = 0 /\ One(Top, OpenTry) = 0
  BY <1>2, <1>3, OneOf
<1>5. chk' \in Checker /\ chk'.depth = chk.depth - One(Top, Loop)
  BY <1>1, <1>2, <1>3, <1>4, TopPopped
<1>6. SameKinds(SubSeq(frames, 1, Len(frames) - 1), frames')
  <2>1. Below \in Seq(FrameType) /\ Len(Below) = 0 /\ <<>> \in Seq(FrameType)
    BY <1>1, TopFrame
  <2> QED BY <1>1, <2>1 DEF SameKinds, Below
<1>7. Len(pending') = Len(pending) - One(Top, OpenTry) /\ tries' = Len(pending')
      /\ pending' \in Seq(Snapshot)
  BY <1>1, <1>2, <1>4
<1>8. Fits(chk', frames', pending')
  <2>1. chk'.bindings = PopScope(chk).bindings /\ chk'.marks = PopScope(chk).marks
    BY <1>1
  <2>2. Len(frames) > 0 /\ frames[Len(frames)].part # "switch"
    BY <1>1, <1>2, <1>3
  <2>3. /\ chk'.depth = chk.depth - One(frames[Len(frames)], Loop)
        /\ Len(pending') = Len(pending) - One(frames[Len(frames)], OpenTry)
    BY <1>2, <1>5, <1>7
  <2> QED BY <1>2, <1>5, <1>6, <1>7, <2>1, <2>2, <2>3, FitsLeave
<1>9. pc' \in 1 .. Len(prog') + 1 /\ prog' \in Seq(TokenType)
  BY <1>1, Places DEF Advance, Grown
<1> QED BY <1>1, <1>7, <1>8, <1>9 DEF CheckInv

\* Every handler preserves the invariant.
LEMMA StepKeeps ==
    ASSUME CheckInv, Grown, Here, NEW t \in TokenType, Step(t)
    PROVE  CheckInv'
<1>1. CASE Simple(t)            BY <1>1, SimpleStep
<1>2. CASE LogicalRight(t)      BY <1>2, LogicalRightStep
<1>3. CASE ReturnOrThrow(t)     BY <1>3, ReturnOrThrowStep
<1>4. CASE BreakOrContinue(t)   BY <1>4, BreakOrContinueStep
<1>5. CASE Open(t)              BY <1>5, OpenStep
<1>6. CASE Else(t)              BY <1>6, ElseStep
<1>7. CASE Clause(t)            BY <1>7, ClauseStep
<1>8. CASE Catch(t)             BY <1>8, CatchStep
<1>9. CASE Finally(t)           BY <1>9, FinallyStep
<1>10. CASE End(t)              BY <1>10, ConstructEnds
<1>11. CASE Eof(t)              BY <1>11, EofStep
<1> QED BY <1>1, <1>2, <1>3, <1>4, <1>5, <1>6, <1>7, <1>8, <1>9, <1>10, <1>11 DEF Step

\* What is written next is a token of its operation.
LEMMA ReadableTokens ==
    ASSUME CheckInv, NEW t \in Readable
    PROVE  t \in TokenType
<1>1. Declarable \subseteq Names /\ Visible \subseteq Names
  <2>1. \A i \in 1 .. Len(frames) : frames[i].bound \subseteq Names
    BY FrameFields DEF CheckInv, Fits
  <2>2. \A n \in Visible : n \in Names
    BY <2>1 DEF Visible
  <2> QED BY <2>2 DEF Declarable
<1>2. t \in Closers \/ t \in Statements
  BY DEF Readable
<1>4. CASE t \in Closers
  <2>1. PICK op \in {"else", "case", "default", "catch", "finally", "end", "eof"} :
            t = Token(op, NoName, NoName, "")
    BY <1>4 DEF Closers
  <2> QED BY <2>1 DEF Token, TokenType, Tokens, Words, NamesOne, NamesTwo
<1>5. CASE t \in Statements
  <2>1. CASE t \in [op : {"declare"}, x : Declarable, y : {NoName}, k : Owning]
    BY <2>1, <1>1 DEF TokenType, Tokens, Words, NamesOne, NamesTwo, Owning
  <2>2. CASE t \in [op : {"plain"}, x : Declarable, y : {NoName}, k : {""}]
    BY <2>2, <1>1 DEF TokenType, Tokens, Words, NamesOne, NamesTwo
  <2>3. CASE t \in [op : {"move"}, x : Declarable, y : Visible, k : {""}]
    BY <2>3, <1>1 DEF TokenType, Tokens, Words, NamesOne, NamesTwo
  <2>4. CASE t \in [op : {"borrow"}, x : Visible, y : Declarable, k : Modes]
    BY <2>4, <1>1 DEF TokenType, Tokens, Words, NamesOne, NamesTwo, Modes
  <2>5. CASE t \in [op : {"clone"}, x : Visible, y : Declarable, k : {""}]
    BY <2>5, <1>1 DEF TokenType, Tokens, Words, NamesOne, NamesTwo
  <2>6. CASE t \in [op : {"assign"}, x : Visible, y : Visible, k : {""}]
    BY <2>6, <1>1 DEF TokenType, Tokens, Words, NamesOne, NamesTwo
  <2>7. CASE t \in [op : {"consume", "read", "and"}, x : Visible, y : {NoName}, k : {""}]
    BY <2>7, <1>1 DEF TokenType, Tokens, Words, NamesOne, NamesTwo
  <2>8. CASE t \in [op : {"return"}, x : Visible \cup {NoName}, y : {NoName}, k : {""}]
    BY <2>8, <1>1 DEF TokenType, Tokens, Words, NamesOne, NamesTwo
  <2>9. CASE t \in [op : {"throw", "break", "continue"}, x : {NoName}, y : {NoName}, k : {""}]
    BY <2>9, <1>1 DEF TokenType, Tokens, Words, NamesOne, NamesTwo
  <2>10. CASE t \in {Token(op, NoName, NoName, "") : op \in {"block", "if", "while", "switch"}}
    <3>1. PICK op \in {"block", "if", "while", "switch"} : t = Token(op, NoName, NoName, "")
      BY <2>10
    <3> QED BY <3>1 DEF Token, TokenType, Tokens, Words, NamesOne, NamesTwo
  <2>11. CASE t \in {Token("try", NoName, NoName, k) : k \in {"catch", "finally", "both"}}
    <3>1. PICK k \in {"catch", "finally", "both"} : t = Token("try", NoName, NoName, k)
      BY <2>11
    <3> QED BY <3>1 DEF Token, TokenType, Tokens, Words, NamesOne, NamesTwo
  <2> QED BY <1>5, <2>1, <2>2, <2>3, <2>4, <2>5, <2>6, <2>7, <2>8, <2>9, <2>10, <2>11 DEF Statements
<1> QED BY <1>2, <1>4, <1>5

-----------------------------------------------------------------------------
(* The first two theorems. *)

\* The outermost scope is open when the walk begins.
LEMMA CheckInit == CInit => CheckInv
<1> SUFFICES ASSUME CInit PROVE CheckInv
  OBVIOUS
<1> DEFINE f == Frame("body", 0)
           s == PushScope(Empty)
<1>1. Empty \in Checker /\ Empty.bindings = <<>> /\ Empty.marks = <<>> /\ Empty.depth = 0
  BY NoRow, EmptySeq DEF Empty, Checker
<1>2. Scoped(Empty)
  BY <1>1 DEF Scoped
<1>3. /\ s \in Checker /\ s.bindings = <<>> /\ s.marks = Append(<<>>, 0) /\ s.depth = 0
  BY <1>1, PushScopeFrame
<1>4. Scoped(s) /\ Len(s.marks) = 1
  <2>1. s.bindings = Empty.bindings /\ s.marks = Append(Empty.marks, Len(Empty.bindings))
    BY <1>1, <1>3
  <2> HIDE DEF s
  <2>2. Scoped(s) /\ Len(s.marks) = Len(Empty.marks) + 1
    BY <1>1, <1>2, <2>1, ScopedPush
  <2> QED BY <1>1, <2>2
<1>5. f \in FrameType /\ f.part = "body" /\ f.at = 0
  BY FrameMade DEF FrameParts, Bodies
<1>6. /\ frames = Append(<<>>, f) /\ chk = s /\ pending = <<>> /\ tries = 0
      /\ prog = <<>> /\ pc = 1
  BY DEF CInit
<1> HIDE DEF f, s
<1>7. <<>> \in Seq(FrameType) /\ frames \in Seq(FrameType) /\ Len(frames) = 1 /\ frames[1] = f
  BY <1>5, <1>6, AppendProperties, EmptySeq
<1>8. \A kinds : Amount(<<>>, kinds) = 0
  <2>1. \A kinds : Tagged(<<>>, kinds) = {}
    BY DEF Tagged
  <2> QED BY <2>1, FS_EmptySet DEF Amount
<1>9. /\ Amount(frames, Loop) = 0 /\ Amount(frames, OpenTry) = 0 /\ Amount(frames, Switch) = 0
  <2>1. One(f, Loop) = 0 /\ One(f, OpenTry) = 0 /\ One(f, Switch) = 0
    BY <1>5, OneOf
  <2>2. ASSUME NEW kinds, One(f, kinds) = 0
        PROVE  Amount(frames, kinds) = 0
    <3>1. Amount(Append(<<>>, f), kinds) = Amount(<<>>, kinds) + One(f, kinds)
      BY <1>5, <1>7, AmountAppend
    <3>2. Amount(<<>>, kinds) = 0
      BY <1>8
    <3> QED BY <1>6, <2>2, <3>1, <3>2
  <2> QED BY <2>1, <2>2
<1>10. \A i \in 1 .. Len(frames) : i = 1
  BY <1>7
<1>11. Fits(chk, frames, pending)
  <2>1. \A i \in 1 .. Len(frames) : frames[i].part = "body" <=> i = 1
    BY <1>5, <1>7, <1>10
  <2>2. chk \in Checker /\ Scoped(chk) /\ chk.depth = 0 /\ Len(chk.marks) = 1
    BY <1>3, <1>4, <1>6
  <2>3. Len(chk.marks) = Len(frames) - Amount(frames, Switch)
    BY <1>7, <1>9, <2>2
  <2>4. pending \in Seq(Snapshot) /\ Len(pending) = 0
    BY <1>6, EmptySeq
  <2> QED BY <1>7, <1>9, <2>1, <2>2, <2>3, <2>4 DEF Fits
<1>12. \A i \in 1 .. Len(frames) : frames[i].at <= 0
  BY <1>5, <1>7, <1>10
<1> QED BY <1>6, <1>11, <1>12, EmptySeq DEF CheckInv

\* A token is read, or walked again in the second round of a finalizer.
LEMMA TokenRead ==
    ASSUME CheckInv, Check
    PROVE  Grown /\ Here /\ \E t \in TokenType : Step(t) /\ (pc = Len(prog) + 1 => prog' = Append(prog, t))
<1>1. prog \in Seq(TokenType) /\ pc \in 1 .. Len(prog) + 1 /\ Len(prog) \in Nat
  BY LenProperties DEF CheckInv
<1>2. Here
  BY DEF Check
<1>3. CASE pc <= Len(prog)
  <2>1. Step(prog[pc]) /\ prog' = prog
    BY <1>3 DEF Check
  <2>2. prog[pc] \in TokenType
    BY <1>1, <1>3, ElementOfSeq
  <2>3. Grown
    BY <1>1, <1>3, <2>1 DEF Grown
  <2>4. pc # Len(prog) + 1
    BY <1>1, <1>3
  <2> QED BY <1>2, <2>1, <2>2, <2>3, <2>4
<1>4. CASE ~(pc <= Len(prog))
  <2>1. PICK t \in Readable : Step(t) /\ prog' = Append(prog, t)
    BY <1>4 DEF Check
  <2>2. t \in TokenType
    BY ReadableTokens
  <2>3. prog' \in Seq(TokenType) /\ Len(prog') = Len(prog) + 1
    BY <1>1, <2>1, <2>2, AppendProperties
  <2>4. Grown
    BY <1>1, <2>3 DEF Grown
  <2> QED BY <1>2, <2>1, <2>2, <2>4
<1> QED BY <1>3, <1>4

\* Every step of the checker and of the program run preserves it.
LEMMA CheckNext == CheckInv /\ [Next]_vars => CheckInv'
<1> SUFFICES ASSUME CheckInv, [Next]_vars PROVE CheckInv'
  OBVIOUS
<1>1. CASE Check
  <2>1. Grown /\ Here
    BY <1>1, TokenRead
  <2>2. PICK t \in TokenType : Step(t)
    BY <1>1, TokenRead
  <2> QED BY <2>1, <2>2, StepKeeps
<1>2. CASE UNCHANGED cvars
  BY <1>2 DEF cvars, CheckInv
<1> QED BY <1>1, <1>2 DEF Next, Checking, Starting, Executing, vars

\* The inductive invariant holds along every behaviour.
LEMMA CheckAlways == Spec => []CheckInv
<1>1. Init => CheckInv
  BY CheckInit DEF Init
<1> QED BY <1>1, CheckNext, PTL DEF Spec

\* check_stmt and its handlers keep the checker's fields well typed: no scope
\* is popped that was not pushed, no table kept that was never taken, no slot
\* of pending_finally read that is not there.
THEOREM WalkTyped == Spec => []CheckTypeOK
<1>1. CheckInv => CheckTypeOK
  <2> SUFFICES ASSUME CheckInv PROVE CheckTypeOK
    OBVIOUS
  <2>1. prog \in Seq(Tokens)
    <3>1. prog \in Seq(TokenType) /\ TokenType \subseteq Tokens
      BY DEF CheckInv, TokenType
    <3> QED BY <3>1, SeqMonotonic
  <2>2. pending \in Seq(Snapshot) /\ frames \in Seq(FrameType) /\ chk \in Checker
    BY DEF CheckInv, Fits
  <2>3. \A i \in 1 .. Len(pending) : pending[i].tbl \in Table
    <3>1. \A i \in 1 .. Len(pending) : pending[i] \in Snapshot
      BY <2>2, ElementOfSeq
    <3> QED BY <3>1 DEF Snapshot
  <2>4. \A i \in 1 .. Len(frames) : frames[i].base \in Table
    BY <2>2, FrameFields
  <2>5. tries \in Nat
    BY <2>2, LenProperties DEF CheckInv
  <2>6. pc \in 1 .. Len(prog) + 1
    BY DEF CheckInv
  <2> QED BY <2>1, <2>2, <2>3, <2>4, <2>5, <2>6 DEF CheckTypeOK, Table
<1> QED BY <1>1, CheckAlways, PTL

\* Every handler gives back what it took, however constructs nest and exit:
\* loop_depth, try_finally_depth, pending_finally and the scopes are those of
\* the open constructs, through returns put aside, clauses left out and
\* finalizers walked twice.
THEOREM HandlersGiveBack == Spec => []Balanced
<1>1. CheckInv => Balanced
  <2> SUFFICES ASSUME CheckInv PROVE Balanced
    OBVIOUS
  <2>1. Fits(chk, frames, pending) /\ frames \in Seq(FrameType)
    BY DEF CheckInv, Fits
  <2>2. \A i \in 1 .. Len(frames) : frames[i].k \in FrameKeys
    BY <2>1, FrameFields
  <2>3. Tagged(frames, Loop) = {i \in 1 .. Len(frames) : frames[i].part \in {"while"}}
    BY <2>2 DEF Tagged, Tag, Loop
  <2>4. Tagged(frames, Switch) = {i \in 1 .. Len(frames) : frames[i].part \in {"switch"}}
    BY <2>2 DEF Tagged, Tag, Switch
  <2>5. Tagged(frames, OpenTry) =
            {i \in 1 .. Len(frames) : \/ frames[i].part = "try" /\ frames[i].k # "catch"
                                      \/ frames[i].part = "catch" /\ frames[i].k = "both"}
    BY <2>2 DEF Tagged, Tag, OpenTry
  <2>6. chk.depth = Count({"while"}) /\ Len(chk.marks) = Len(frames) - Count({"switch"})
    BY <2>1, <2>3, <2>4 DEF Fits, Amount, Count
  <2>7. tries = Len(pending) /\ Len(pending) = Cardinality(Tagged(frames, OpenTry))
    BY DEF CheckInv, Fits, Amount
  <2> QED BY <2>5, <2>6, <2>7 DEF Balanced
<1> QED BY <1>1, CheckAlways, PTL

-----------------------------------------------------------------------------
(* The table and the open scopes, through every operation on the table.    *)

\* An operation that only adds bindings, and adds a row for each.
Extends(s, r) ==
    /\ r \in Checker /\ r.marks = s.marks
    /\ Len(r.bindings) >= Len(s.bindings)
    /\ \A i \in 1 .. Len(s.bindings) : r.bindings[i] = s.bindings[i]
    /\ Covered(r)

\* Whether a table covers the bindings depends on which rows it has.
LEMMA RowsCover ==
    ASSUME NEW s \in Checker, Covered(s), NEW r \in Checker,
           r.bindings = s.bindings, r.marks = s.marks,
           \A m \in Names : r.tbl[m].kind = "None" <=> s.tbl[m].kind = "None"
    PROVE  Extends(s, r)
<1>1. {n \in Names : r.tbl[n].kind # "None"} = {n \in Names : s.tbl[n].kind # "None"}
  OBVIOUS
<1>2. Covered(r)
  BY <1>1 DEF Covered, CoversTo
<1>3. Len(s.bindings) \in Nat
  BY BindingsLength
<1> QED BY <1>2, <1>3 DEF Extends

\* What keeps the rows keeps them covered.
LEMMA KeepsCover ==
    ASSUME NEW s \in Checker, Covered(s), NEW r, Keeps(s, r)
    PROVE  Extends(s, r)
<1>1. \A m \in Names : r.tbl[m].kind = s.tbl[m].kind
  <2> TAKE m \in Names
  <2>1. s.tbl[m] \in VarEntry
    BY RowFields
  <2>2. r.tbl[m] = [s.tbl[m] EXCEPT !.state = r.tbl[m].state]
    BY DEF Keeps
  <2> QED BY <2>1, <2>2 DEF VarEntry
<1> QED BY <1>1, RowsCover DEF Keeps

\* A rule is reported.
LEMMA EmitCovers ==
    ASSUME NEW s \in Checker, Covered(s), NEW rule \in RuleKind
    PROVE  Extends(s, Emit(s, rule))
BY EmitRests, RowsCover DEF Rests

\* Two such operations, one after the other.
LEMMA ExtendsTwice ==
    ASSUME NEW s \in Checker, NEW r, NEW q, Extends(s, r), Extends(r, q)
    PROVE  Extends(s, q)
<1>1. Len(s.bindings) \in Nat /\ Len(r.bindings) \in Nat /\ Len(q.bindings) \in Nat
  BY BindingsLength DEF Extends
<1> QED BY <1>1 DEF Extends

\* add_var binds the name whose row it adds, and hides what was there.
LEMMA AddVarCovers ==
    ASSUME NEW s \in Checker, Covered(s), NEW n \in Names, NEW e \in VarEntry, e.kind # "None"
    PROVE  Extends(s, AddVar(s, n, e))
<1> DEFINE r == AddVar(s, n, e)
           b == s.bindings
           L == Len(b)
           new == [name |-> n, shadowed |-> s.tbl[n]]
<1>1. /\ r \in Checker /\ \A m \in Names : r.tbl[m] = IF m = n THEN e ELSE s.tbl[m]
      /\ r.bindings = Append(b, new) /\ r.marks = s.marks
  BY AddVarAppends
<1>2. L \in Nat /\ b \in Seq(ScopeBinding) /\ \A i \in 1 .. L : b[i].name \in Names
  BY BindingsLength, BindingFields DEF Checker
<1>3. new \in ScopeBinding
  BY RowFields DEF ScopeBinding
<1>4. /\ Len(r.bindings) = L + 1 /\ \A i \in 1 .. L : r.bindings[i] = b[i]
      /\ r.bindings[L + 1] = new
  BY <1>1, <1>2, <1>3, AppendProperties
<1>5. new.name = n /\ new.shadowed = s.tbl[n]
  OBVIOUS
<1>6. {m \in Names : s.tbl[m].kind # "None"} = {b[i].name : i \in 1 .. L} /\ Hides(b)
  BY DEF Covered, CoversTo
<1> HIDE DEF r, b, L, new
<1>7. \A i \in 1 .. L + 1 : i \in 1 .. L \/ i = L + 1
  BY <1>2
<1>8. {m \in Names : r.tbl[m].kind # "None"} = {r.bindings[i].name : i \in 1 .. L + 1}
  <2>1. {m \in Names : r.tbl[m].kind # "None"} = {m \in Names : s.tbl[m].kind # "None"} \cup {n}
    BY <1>1
  <2>2. {r.bindings[i].name : i \in 1 .. L + 1} = {b[i].name : i \in 1 .. L} \cup {n}
    <3>1. ASSUME NEW x \in {r.bindings[i].name : i \in 1 .. L + 1}
          PROVE  x \in {b[i].name : i \in 1 .. L} \cup {n}
      <4>1. PICK i \in 1 .. L + 1 : x = r.bindings[i].name
        BY <3>1
      <4> QED BY <4>1, <1>4, <1>5, <1>7
    <3>2. ASSUME NEW x \in {b[i].name : i \in 1 .. L} \cup {n}
          PROVE  x \in {r.bindings[i].name : i \in 1 .. L + 1}
      <4>1. CASE x = n
        <5>1. L + 1 \in 1 .. L + 1
          BY <1>2
        <5> QED BY <4>1, <5>1, <1>4, <1>5
      <4>2. CASE x \in {b[i].name : i \in 1 .. L}
        <5>1. PICK i \in 1 .. L : x = b[i].name
          BY <4>2
        <5>2. i \in 1 .. L + 1 /\ r.bindings[i].name = x
          BY <5>1, <1>2, <1>4
        <5> QED BY <5>2
      <4> QED BY <3>2, <4>1, <4>2
    <3> QED BY <3>1, <3>2
  <2> QED BY <2>1, <2>2, <1>6
<1>9. Hides(r.bindings)
  <2> SUFFICES ASSUME NEW j \in 1 .. L + 1
               PROVE  r.bindings[j].shadowed.kind # "None"
                        <=> \E i \in 1 .. j - 1 : r.bindings[i].name = r.bindings[j].name
    BY <1>4 DEF Hides
  <2>1. \A i \in 1 .. j - 1 : i \in 1 .. L /\ r.bindings[i] = b[i]
    BY <1>2, <1>4
  <2>2. CASE j \in 1 .. L
    <3>1. b[j].shadowed.kind # "None" <=> \E i \in 1 .. j - 1 : b[i].name = b[j].name
      BY <2>2, <1>6 DEF Hides, L
    <3>2. r.bindings[j] = b[j]
      BY <2>2, <1>4
    <3> QED BY <3>1, <3>2, <2>1
  <2>3. CASE j = L + 1
    <3>1. r.bindings[j] = new /\ \A i : i \in 1 .. j - 1 <=> i \in 1 .. L
      BY <2>3, <1>2, <1>4
    <3>2. s.tbl[n].kind # "None" <=> n \in {b[i].name : i \in 1 .. L}
      BY <1>6
    <3> QED BY <3>1, <3>2, <2>1, <1>5
  <2> QED BY <2>2, <2>3, <1>7
<1>10. Covered(r)
  BY <1>4, <1>8, <1>9 DEF Covered, CoversTo
<1>11. Len(r.bindings) >= L
  BY <1>2, <1>4
<1> QED BY <1>1, <1>4, <1>10, <1>11 DEF Extends, r, b, L

\* Doing nothing covers what was covered.
LEMMA CoversItself == ASSUME NEW s \in Checker, Covered(s) PROVE Extends(s, s)
BY RowsCover

\* A fresh row of an owning or borrowing kind is bound.
LEMMA FreshCovers ==
    ASSUME NEW s \in Checker, Covered(s), NEW n \in Names, NEW kind \in OwnKind,
           NEW d \in Nat, NEW o \in Names \cup {NoName}
    PROVE  Extends(s, AddVar(s, n, Fresh(kind, d, o)))
<1> DEFINE e == Fresh(kind, d, o)
<1>1. e \in VarEntry
  BY FreshRow
<1>2. e.kind # "None"
  BY DEF Fresh, OwnKind, Owning, Refs
<1> HIDE DEF e
<1>3. Extends(s, AddVar(s, n, e))
  BY <1>1, <1>2, AddVarCovers
<1> QED BY <1>3 DEF e

\* A tracked name has a row of a kind.
LEMMA TrackedKind ==
    ASSUME NEW s \in Checker, NEW n \in Names, s.tbl[n].kind # "None"
    PROVE  s.tbl[n].kind \in OwnKind
BY RowFields

\* add_from_type.
LEMMA AddFromTypeCovers ==
    ASSUME NEW s \in Checker, Covered(s), NEW n \in Names, NEW kind \in Owning
    PROVE  Extends(s, AddFromType(s, n, kind))
<1>1. s.depth \in Nat /\ kind \in OwnKind
  BY DEF Checker, OwnKind
<1> QED BY <1>1, FreshCovers DEF AddFromType

\* do_clone.
LEMMA DoCloneCovers ==
    ASSUME NEW s \in Checker, Covered(s), NEW o \in Names, NEW a \in Names
    PROVE  Extends(s, DoClone(s, o, a))
<1>1. s.depth \in Nat
  BY DEF Checker
<1>2. Tracked(s, o) => Extends(s, AddVar(s, a, Fresh(s.tbl[o].kind, s.depth, NoName)))
  BY <1>1, TrackedKind, FreshCovers DEF Tracked
<1>3. /\ Extends(s, s) /\ Extends(s, Emit(s, "UseAfterMove"))
      /\ Extends(s, Emit(s, "ConsumeWhileBorrowed"))
  BY CoversItself, EmitCovers DEF RuleKind
<1> QED BY <1>2, <1>3 DEF DoClone

\* begin_borrow.
LEMMA BeginBorrowCovers ==
    ASSUME NEW s \in Checker, Covered(s), NEW o \in Names, NEW a \in Names, NEW mode \in Modes
    PROVE  Extends(s, BeginBorrow(s, o, a, mode))
<1> DEFINE e == Lend(s.tbl[o], mode)
           lent == [s EXCEPT !.tbl[o] = e]
           kind == IF mode = "Read" THEN "RefRead" ELSE "RefWrite"
<1>1. e \in VarEntry /\ e.kind = s.tbl[o].kind
  <2>1. e \in VarEntry
    BY RowFields, LendRow
  <2>2. s.tbl[o] \in VarEntry
    BY RowFields
  <2>3. \A x, y : /\ [s.tbl[o] EXCEPT !.read_borrows = x, !.state = y].kind = s.tbl[o].kind
                  /\ [s.tbl[o] EXCEPT !.write_borrows = x, !.state = y].kind = s.tbl[o].kind
    BY <2>2 DEF VarEntry
  <2> QED BY <2>1, <2>3 DEF Lend
<1> HIDE DEF e
<1>2. /\ lent \in Checker /\ \A m \in Names : lent.tbl[m] = IF m = o THEN e ELSE s.tbl[m]
      /\ lent.bindings = s.bindings /\ lent.marks = s.marks
  BY <1>1, SetRow
<1> HIDE DEF lent
<1>3. Extends(s, lent)
  <2>1. \A m \in Names : lent.tbl[m].kind = s.tbl[m].kind
    BY <1>1, <1>2
  <2> QED BY <1>2, <2>1, RowsCover
<1>4. s.depth \in Nat /\ kind \in OwnKind
  BY DEF Checker, OwnKind, Refs
<1>5. Extends(s, AddVar(lent, a, Fresh(kind, s.depth, o)))
  <2> HIDE DEF kind
  <2>1. lent \in Checker /\ Covered(lent)
    BY <1>3 DEF Extends
  <2>2. Extends(lent, AddVar(lent, a, Fresh(kind, s.depth, o)))
    BY <1>4, <2>1, FreshCovers
  <2> QED BY <1>3, <2>2, ExtendsTwice
<1>6. BorrowVerdict(s, o, mode) # "ok" => Extends(s, Emit(s, BorrowVerdict(s, o, mode)))
  BY BorrowVerdictRule, EmitCovers
<1> QED BY <1>5, <1>6 DEF BeginBorrow, lent, e

\* A use of a name.
LEMMA UseCovers ==
    ASSUME NEW s \in Checker, Covered(s), NEW n, NEW a
    PROVE  Extends(s, ApplyApps(s, n, a))
BY ApplyAppsKeeps, KeepsCover

\* A rule reported after such an operation.
LEMMA ThenEmitCovers ==
    ASSUME NEW s \in Checker, NEW r, Extends(s, r), NEW rule \in RuleKind
    PROVE  Extends(s, Emit(r, rule))
<1>1. r \in Checker /\ Covered(r)
  BY DEF Extends
<1> QED BY <1>1, EmitCovers, ExtendsTwice

\* A declaration initialised with a name.
LEMMA DeclareMovedCovers ==
    ASSUME NEW s \in Checker, Covered(s), NEW n \in Names, NEW src \in Names
    PROVE  Extends(s, DeclareMoved(s, n, src))
<1> DEFINE r == MoveOut(s, src)
<1>1. Extends(s, r) /\ r \in Checker /\ Covered(r)
  BY UseCovers DEF MoveOut, Extends
<1>2. Extends(s, Emit(r, "BorrowEscape"))
  BY <1>1, ThenEmitCovers DEF RuleKind
<1>3. s.depth \in Nat
  BY DEF Checker
<1>4. s.tbl[src].kind \in Owning => Extends(s, AddVar(r, n, Fresh(s.tbl[src].kind, s.depth, NoName)))
  <2> SUFFICES ASSUME s.tbl[src].kind \in Owning
               PROVE  Extends(s, AddVar(r, n, Fresh(s.tbl[src].kind, s.depth, NoName)))
    OBVIOUS
  <2>1. s.tbl[src].kind \in OwnKind
    BY DEF OwnKind
  <2> HIDE DEF r
  <2>2. Extends(r, AddVar(r, n, Fresh(s.tbl[src].kind, s.depth, NoName)))
    BY <1>1, <1>3, <2>1, FreshCovers
  <2> QED BY <1>1, <2>2, ExtendsTwice
<1> QED BY <1>1, <1>2, <1>4 DEF DeclareMoved

\* remove_var takes one row away, and changes the kind of no other.
LEMMA RemoveVarKinds ==
    ASSUME NEW s \in Checker, NEW n \in Names
    PROVE  \A m \in Names : RemoveVar(s, n).tbl[m].kind = IF m = n THEN "None" ELSE s.tbl[m].kind
<1> DEFINE e == s.tbl[n]
           gone == [s EXCEPT !.tbl[n] = NoEntry]
           kept == Emit(gone, "UniqueForget")
           back == EndBorrow(gone, e.owner, e.kind)
<1>1. gone \in Checker /\ \A m \in Names : gone.tbl[m] = IF m = n THEN NoEntry ELSE s.tbl[m]
  BY SetRow, NoRow
<1>2. \A m \in Names : gone.tbl[m].kind = IF m = n THEN "None" ELSE s.tbl[m].kind
  BY <1>1 DEF NoEntry
<1>3. e.owner \in Names \cup {NoName}
  BY RowFields
<1>4. RemoveVar(s, n) \in {gone, kept} \/ (e.owner \in Names /\ RemoveVar(s, n) = back)
  BY <1>3 DEF RemoveVar
<1> HIDE DEF gone, e
<1>5. kept.tbl = gone.tbl
  BY <1>1, EmitRests DEF RuleKind
<1>6. e.owner \in Names => \A m \in Names : back.tbl[m].kind = gone.tbl[m].kind
  BY <1>1, EndBorrowRow
<1> QED BY <1>2, <1>4, <1>5, <1>6

\* finish_discarded_assignment_transfer.
LEMMA FinishTransferCovers ==
    ASSUME NEW s \in Checker, Covered(s), NEW dst \in Names, NEW kind \in OwnKind
    PROVE  Extends(s, FinishTransfer(s, dst, kind))
<1> DEFINE new == Fresh(kind, s.depth, NoName)
           r == RemoveVar(s, dst)
           q == [r EXCEPT !.tbl[dst] = new]
<1>1. s.depth \in Nat
  BY DEF Checker
<1>2. new \in VarEntry /\ new.kind = kind /\ kind # "None"
  <2>1. new \in VarEntry
    BY <1>1, FreshRow
  <2> QED BY <2>1 DEF Fresh, OwnKind, Owning, Refs
<1>3. /\ r \in Checker /\ r.bindings = s.bindings /\ r.marks = s.marks
      /\ \A m \in Names : m # dst => r.tbl[m].kind = s.tbl[m].kind
  BY RemoveVarFrame, RemoveVarKinds
<1>4. Extends(s, AddVar(s, dst, new))
  BY <1>1, FreshCovers
<1>5. Tracked(s, dst) => Extends(s, q)
  <2> HIDE DEF r, new
  <2>1. /\ q \in Checker /\ q.bindings = s.bindings /\ q.marks = s.marks
        /\ \A m \in Names : q.tbl[m] = IF m = dst THEN new ELSE r.tbl[m]
    BY <1>2, <1>3, SetRow
  <2> HIDE DEF q
  <2>2. Tracked(s, dst) => \A m \in Names : q.tbl[m].kind = "None" <=> s.tbl[m].kind = "None"
    BY <1>2, <1>3, <2>1 DEF Tracked
  <2> QED BY <2>1, <2>2, RowsCover
<1> QED BY <1>4, <1>5 DEF FinishTransfer

\* The whole assignment statement.
LEMMA AssignStatementCovers ==
    ASSUME NEW s \in Checker, Covered(s), NEW dst \in Names, NEW src \in Names
    PROVE  Extends(s, AssignStatement(s, dst, src))
<1> DEFINE moved == MoveOut(s, src)
           checked == IF s.tbl[src].kind \in Refs THEN Emit(moved, "BorrowEscape") ELSE moved
<1>1. Extends(s, moved)
  BY UseCovers DEF MoveOut
<1>2. Extends(s, checked) /\ Extends(s, s)
  <2> HIDE DEF moved
  <2>1. Extends(s, Emit(moved, "BorrowEscape"))
    BY <1>1, ThenEmitCovers DEF RuleKind
  <2> QED BY <1>1, <2>1, CoversItself
<1> HIDE DEF checked
<1>3. PlansTransfer(s, dst, src) => Extends(s, FinishTransfer(checked, dst, s.tbl[src].kind))
  <2> SUFFICES ASSUME PlansTransfer(s, dst, src)
               PROVE  Extends(s, FinishTransfer(checked, dst, s.tbl[src].kind))
    OBVIOUS
  <2>1. s.tbl[src].kind \in OwnKind
    BY DEF PlansTransfer, OwnKind
  <2>2. checked \in Checker /\ Covered(checked)
    BY <1>2 DEF Extends
  <2>3. Extends(checked, FinishTransfer(checked, dst, s.tbl[src].kind))
    BY <2>1, <2>2, FinishTransferCovers
  <2> QED BY <1>2, <2>3, ExtendsTwice
<1> QED BY <1>2, <1>3 DEF AssignStatement, checked

\* A comparison of two tables after such an operation.
LEMMA CompareCovers ==
    ASSUME NEW s \in Checker, NEW r, Extends(s, r), NEW t1, NEW t2
    PROVE  Extends(s, Compare(r, t1, t2))
<1>1. Extends(s, Emit(r, "BranchInconsistent"))
  BY ThenEmitCovers DEF RuleKind
<1> QED BY <1>1 DEF Compare

-----------------------------------------------------------------------------
(* The end of a scope takes its bindings' rows away and brings back what     *)
(* they hid.                                                                 *)

\* One round of pop_scope.
LEMMA PopBindingCovers ==
    ASSUME NEW s \in Checker, Covered(s), Len(s.bindings) > 0
    PROVE  Covered(PopBinding(s))
<1> DEFINE q == [s EXCEPT !.bindings = SubSeq(@, 1, Len(@) - 1)]
           b == s.bindings
           L == Len(s.bindings)
           y == b[L]
           r == RemoveVar(q, y.name)
           p == PopBinding(s)
<1>1. /\ q \in Checker /\ q.tbl = s.tbl
      /\ Len(q.bindings) = L - 1 /\ \A i \in 1 .. L - 1 : q.bindings[i] = b[i]
  BY ShorterBindings
<1>2. y.name \in Names /\ y.shadowed \in VarEntry
  BY ShorterBindings DEF ScopeBinding
<1>3. L \in Nat /\ L > 0 /\ L \in 1 .. L
  BY BindingsLength
<1>4. /\ r \in Checker
      /\ \A m \in Names : r.tbl[m].kind = IF m = y.name THEN "None" ELSE s.tbl[m].kind
  <2> HIDE DEF q, y
  <2> QED BY <1>1, <1>2, RemoveVarFrame, RemoveVarKinds
<1>5. p = IF y.shadowed.kind = "None" THEN r ELSE [r EXCEPT !.tbl[y.name] = y.shadowed]
  BY DEF PopBinding
<1>6. \A m \in Names : p.tbl[m].kind = IF m = y.name THEN y.shadowed.kind ELSE s.tbl[m].kind
  <2>1. CASE y.shadowed.kind = "None"
    BY <2>1, <1>4, <1>5
  <2>2. CASE y.shadowed.kind # "None"
    <3> HIDE DEF r, y, p
    <3>1. \A m \in Names : p.tbl[m] = IF m = y.name THEN y.shadowed ELSE r.tbl[m]
      BY <2>2, <1>2, <1>4, <1>5, SetRow
    <3> QED BY <3>1, <1>2, <1>4
  <2> QED BY <2>1, <2>2
<1>7. /\ Len(p.bindings) = L - 1 /\ \A i \in 1 .. L - 1 : p.bindings[i] = b[i]
  BY PopBindingFrame
<1>8. /\ {m \in Names : s.tbl[m].kind # "None"} = {b[i].name : i \in 1 .. L}
      /\ \A j \in 1 .. L : b[j].shadowed.kind # "None" <=> \E i \in 1 .. j - 1 : b[i].name = b[j].name
  BY DEF Covered, CoversTo, Hides
<1>9. y.shadowed.kind # "None" <=> \E i \in 1 .. L - 1 : b[i].name = y.name
  BY <1>3, <1>8
<1>10. \A i \in 1 .. L : i \in 1 .. L - 1 \/ i = L
  BY <1>3
<1>11. \A i \in 1 .. L - 1 : i \in 1 .. L /\ b[i].name \in Names
  BY <1>3, BindingFields
<1>12. y = b[L]
  OBVIOUS
<1> HIDE DEF p, r, q, y, b, L
<1>13. {m \in Names : p.tbl[m].kind # "None"} = {b[i].name : i \in 1 .. L - 1}
  <2>1. ASSUME NEW m \in Names, p.tbl[m].kind # "None"
        PROVE  m \in {b[i].name : i \in 1 .. L - 1}
    <3>1. CASE m = y.name
      BY <3>1, <2>1, <1>6, <1>9
    <3>2. CASE m # y.name
      <4>1. m \in {b[i].name : i \in 1 .. L}
        BY <3>2, <2>1, <1>6, <1>8
      <4>2. PICK i \in 1 .. L : m = b[i].name
        BY <4>1
      <4> QED BY <3>2, <4>2, <1>10, <1>12
    <3> QED BY <3>1, <3>2
  <2>2. ASSUME NEW i \in 1 .. L - 1
        PROVE  b[i].name \in Names /\ p.tbl[b[i].name].kind # "None"
    <3>1. b[i].name \in Names /\ i \in 1 .. L
      BY <1>11
    <3>2. CASE b[i].name = y.name
      BY <3>1, <3>2, <1>6, <1>9
    <3>3. CASE b[i].name # y.name
      <4>1. b[i].name \in {m \in Names : s.tbl[m].kind # "None"}
        BY <3>1, <1>8
      <4> QED BY <3>1, <3>3, <4>1, <1>6
    <3> QED BY <3>2, <3>3
  <2> QED BY <2>1, <2>2
<1>14. {b[i].name : i \in 1 .. L - 1} = {p.bindings[i].name : i \in 1 .. L - 1}
  BY <1>7
<1>15. Hides(p.bindings)
  <2> SUFFICES ASSUME NEW j \in 1 .. L - 1
               PROVE  p.bindings[j].shadowed.kind # "None"
                        <=> \E i \in 1 .. j - 1 : p.bindings[i].name = p.bindings[j].name
    BY <1>7 DEF Hides
  <2>1. \A i \in 1 .. j - 1 : i \in 1 .. L - 1
    BY <1>3
  <2>2. j \in 1 .. L
    BY <1>11
  <2> QED BY <2>1, <2>2, <1>7, <1>8
<1>16. Covered(p)
  BY <1>7, <1>13, <1>14, <1>15 DEF Covered, CoversTo
<1> QED BY <1>16 DEF p

\* All its rounds, and the bindings that stay are those there were.
LEMMA PoppedCovers ==
    ASSUME NEW s \in Checker, Covered(s), NEW k \in 0 .. Len(s.bindings)
    PROVE  LET r == Popped(s, k)
           IN  /\ r \in Checker /\ Covered(r)
               /\ Len(r.bindings) = Len(s.bindings) - k
               /\ \A i \in 1 .. Len(s.bindings) - k : r.bindings[i] = s.bindings[i]
<1> DEFINE L == Len(s.bindings)
<1>1. k \in Nat /\ L \in Nat /\ k <= L
  BY BindingsLength
<1>2. PICK pop : /\ pop = [i \in 0 .. k |-> IF i = 0 THEN s ELSE PopBinding(pop[i - 1])]
                 /\ Popped(s, k) = pop[k]
  BY <1>1, PopRounds
<1> DEFINE Good(i) == /\ pop[i] \in Checker /\ Covered(pop[i])
                      /\ Len(pop[i].bindings) = L - i
                      /\ \A j \in 1 .. L - i : pop[i].bindings[j] = s.bindings[j]
           T == {i \in 0 .. k : ~ Good(i)}
<1>3. SUFFICES ASSUME T # {} PROVE FALSE
  <2>1. k \in 0 .. k
    BY <1>1
  <2>2. T = {} => Good(k)
    BY <2>1
  <2> QED BY <1>2, <2>2
<1>4. PICK m \in T : \A n \in T : m <= n
  <2>1. T \subseteq Nat
    OBVIOUS
  <2> QED BY <2>1, <1>3, Least
<1>5. m # 0
  <2>1. pop[0] = s
    BY <1>1, <1>2
  <2>2. Good(0)
    BY <1>1, <2>1
  <2> QED BY <2>2
<1>6. Good(m - 1)
  <2>1. m - 1 \in 0 .. k /\ m - 1 \notin T
    BY <1>4, <1>5
  <2> QED BY <2>1
<1>7. pop[m] = PopBinding(pop[m - 1])
  BY <1>2, <1>5
<1>8. m \in 1 .. k
  BY <1>1, <1>5
<1>9. Good(m)
  <2> DEFINE o == pop[m - 1]
             p == PopBinding(o)
  <2>1. /\ o \in Checker /\ Covered(o) /\ Len(o.bindings) = L - (m - 1)
        /\ \A j \in 1 .. L - (m - 1) : o.bindings[j] = s.bindings[j]
    BY <1>6
  <2> HIDE DEF o
  <2>2. Len(o.bindings) > 0
    BY <1>1, <1>8, <2>1
  <2>3. /\ p \in Checker /\ Len(p.bindings) = Len(o.bindings) - 1
        /\ \A i \in 1 .. Len(p.bindings) : p.bindings[i] = o.bindings[i]
    BY <2>1, <2>2, PopBindingFrame
  <2>4. Covered(p)
    BY <2>1, <2>2, PopBindingCovers
  <2>5. pop[m] = p
    BY <1>7 DEF o
  <2> HIDE DEF p, L
  <2>6. Len(p.bindings) = L - m
    BY <1>1, <1>8, <2>1, <2>3
  <2>7. \A j \in 1 .. L - m : p.bindings[j] = s.bindings[j]
    <3>1. \A j \in 1 .. L - m : j \in 1 .. L - (m - 1)
      BY <1>1, <1>8
    <3> QED BY <2>1, <2>3, <2>6, <3>1
  <2> QED BY <2>3, <2>4, <2>5, <2>6, <2>7
<1> QED BY <1>9, <1>4

\* pop_scope.
LEMMA PopScopeCovers ==
    ASSUME NEW s \in Checker, Covered(s), Scoped(s), Len(s.marks) > 0
    PROVE  LET r == PopScope(s)
           IN  /\ Covered(r)
               /\ \A i \in 1 .. s.marks[Len(s.marks)] : r.bindings[i] = s.bindings[i]
<1> DEFINE m == s.marks[Len(s.marks)]
           L == Len(s.bindings)
           k == L - m
           q == Popped(s, k)
<1>1. s.marks \in Seq(Nat) /\ Len(s.marks) \in Nat /\ Len(s.marks) \in 1 .. Len(s.marks)
  BY LenProperties DEF Checker
<1>2. m \in Nat /\ L \in Nat /\ m <= L
  BY <1>1, ElementOfSeq, BindingsLength DEF Scoped
<1>3. k \in 0 .. L /\ L - k = m
  BY <1>2
<1>4. q \in Checker /\ Covered(q) /\ Len(q.bindings) = m /\ \A i \in 1 .. m : q.bindings[i] = s.bindings[i]
  <2>1. /\ q \in Checker /\ Covered(q) /\ Len(q.bindings) = Len(s.bindings) - k
        /\ \A i \in 1 .. Len(s.bindings) - k : q.bindings[i] = s.bindings[i]
    <3> HIDE DEF k
    <3> QED BY <1>3, PoppedCovers
  <2> HIDE DEF q, k, m
  <2> QED BY <1>3, <2>1 DEF L
<1>5. PopScope(s) = [q EXCEPT !.marks = SubSeq(@, 1, Len(@) - 1)]
  BY DEF PopScope
<1> HIDE DEF q
<1>6. PopScope(s).tbl = q.tbl /\ PopScope(s).bindings = q.bindings
  BY <1>4, <1>5 DEF Checker
<1> HIDE DEF m
<1> QED BY <1>4, <1>6 DEF Covered, m

-----------------------------------------------------------------------------
(* The tables the open constructs keep, through each kind of step. *)

\* Only the bindings a table is to cover matter.
LEMMA CoversPrefix ==
    ASSUME NEW b, NEW c, NEW m, \A i \in 1 .. m : c[i] = b[i], NEW t, CoversTo(t, b, m)
    PROVE  CoversTo(t, c, m)
<1>1. {b[i].name : i \in 1 .. m} = {c[i].name : i \in 1 .. m}
  OBVIOUS
<1> QED BY <1>1 DEF CoversTo

\* With no switch waiting for its first clause there is a scope per construct.
LEMMA ScopesOpen ==
    ASSUME NEW s, NEW fs, NEW p, Fits(s, fs, p), \A i \in 1 .. Len(fs) : fs[i].part # "switch"
    PROVE  Len(s.marks) = Len(fs) /\ Len(fs) \in Nat
<1>1. Tagged(fs, Switch) = {}
  BY DEF Tagged, Tag, Switch
<1>2. Amount(fs, Switch) = 0
  BY <1>1, FS_EmptySet DEF Amount
<1>3. Len(fs) \in Nat /\ Len(s.marks) = Len(fs) - Amount(fs, Switch)
  BY LenProperties DEF Fits
<1> QED BY <1>2, <1>3

\* A switch that waits for its first clause is the innermost construct.
LEMMA NoSwitch ==
    ASSUME NEW s, NEW fs, Holds(s, fs), Len(fs) = 0 \/ fs[Len(fs)].part # "switch"
    PROVE  \A i \in 1 .. Len(fs) : fs[i].part # "switch"
BY DEF Holds

\* A statement that only adds bindings.
LEMMA HoldsRun ==
    ASSUME NEW s, NEW fs, NEW p, Fits(s, fs, p), Holds(s, fs),
           \A i \in 1 .. Len(fs) : fs[i].part # "switch",
           NEW r, Extends(s, r), NEW gs, Alike(fs, gs)
    PROVE  Holds(r, gs)
<1>1. /\ s \in Checker /\ Len(s.marks) = Len(fs)
      /\ \A i \in 1 .. Len(s.marks) : s.marks[i] <= Len(s.bindings) /\ s.marks[i] \in Nat
  <2>1. s \in Checker /\ Scoped(s) /\ s.marks \in Seq(Nat)
    BY DEF Fits, Checker
  <2> QED BY <2>1, ScopesOpen, ElementOfSeq DEF Scoped
<1>2. /\ r.marks = s.marks /\ Covered(r)
      /\ \A i \in 1 .. Len(s.bindings) : r.bindings[i] = s.bindings[i]
  BY DEF Extends
<1>3. Len(s.bindings) \in Nat
  BY <1>1, BindingsLength
<1>4. ASSUME NEW i \in 1 .. Len(fs), NEW t, CoversTo(t, s.bindings, s.marks[i])
      PROVE  CoversTo(t, r.bindings, r.marks[i])
  <2>1. \A j \in 1 .. s.marks[i] : r.bindings[j] = s.bindings[j]
    BY <1>1, <1>2, <1>3
  <2> QED BY <2>1, <1>2, <1>4, CoversPrefix
<1>5. ASSUME NEW i \in 1 .. Len(gs)
      PROVE  gs[i].part \notin {"finally", "switch"} /\ FrameCovers(gs[i], r, i)
  <2>1. /\ i \in 1 .. Len(fs) /\ gs[i].part = fs[i].part
        /\ gs[i].base = fs[i].base /\ gs[i].tables = fs[i].tables
    BY DEF Alike
  <2>2. FrameCovers(fs[i], s, i) /\ fs[i].part \notin {"finally", "switch"}
    BY <2>1 DEF Holds
  <2>3. gs[i].part \in Compares =>
            /\ CoversTo(gs[i].base, r.bindings, r.marks[i])
            /\ \A j \in 1 .. Len(gs[i].tables) : CoversTo(gs[i].tables[j], r.bindings, r.marks[i])
    BY <2>1, <2>2, <1>4 DEF FrameCovers
  <2> QED BY <2>1, <2>2, <2>3 DEF FrameCovers
<1> QED BY <1>2, <1>5 DEF Holds

\* What a construct keeps when it is opened in, or goes on from, a state s.
Keeping(f, s) ==
    /\ f.part \notin {"finally", "body"}
    /\ f.part \in Compares \cup {"switch"} =>
          /\ CoversTo(f.base, s.bindings, Len(s.bindings))
          /\ \A j \in 1 .. Len(f.tables) : CoversTo(f.tables[j], s.bindings, Len(s.bindings))
    /\ f.part = "switch" => f.tables = <<>>

\* A part of a construct is opened.
LEMMA HoldsOpen ==
    ASSUME NEW s, NEW fs, NEW p, Fits(s, fs, p), Holds(s, fs),
           \A i \in 1 .. Len(fs) : fs[i].part # "switch",
           NEW f, Keeping(f, s),
           NEW q, q.tbl = s.tbl, q.bindings = s.bindings,
           q.marks = IF f.part = "switch" THEN s.marks ELSE Append(s.marks, Len(s.bindings))
    PROVE  Holds(q, Append(fs, f))
<1> DEFINE gs == Append(fs, f)
           n == Len(fs)
<1>1. s \in Checker /\ s.marks \in Seq(Nat) /\ fs \in Seq(FrameType) /\ Len(s.bindings) \in Nat
  BY BindingsLength DEF Fits, Checker
<1>2. Len(s.marks) = n /\ n \in Nat
  BY ScopesOpen
<1>3. /\ Len(gs) = n + 1 /\ \A i \in 1 .. n : gs[i] = fs[i]
      /\ gs[n + 1] = f
  <2>1. fs \in Seq(FrameType \cup {f}) /\ f \in FrameType \cup {f}
    <3>1. FrameType \subseteq FrameType \cup {f}
      OBVIOUS
    <3> QED BY <1>1, <3>1, SeqMonotonic
  <2> QED BY <1>2, <2>1, AppendProperties
<1>4. /\ \A i \in 1 .. n : q.marks[i] = s.marks[i]
      /\ f.part # "switch" => q.marks[n + 1] = Len(s.bindings)
  <2>1. /\ \A i \in 1 .. n : Append(s.marks, Len(s.bindings))[i] = s.marks[i]
        /\ Append(s.marks, Len(s.bindings))[n + 1] = Len(s.bindings)
    BY <1>1, <1>2, AppendProperties
  <2> QED BY <2>1
<1>5. Covered(q)
  BY DEF Holds, Covered
<1> HIDE DEF gs
<1>6. \A i \in 1 .. n + 1 : i \in 1 .. n \/ i = n + 1
  BY <1>2
<1>7. ASSUME NEW i \in 1 .. n + 1
      PROVE  /\ gs[i].part # "finally" /\ (gs[i].part = "switch" => i = n + 1)
             /\ FrameCovers(gs[i], q, i)
  <2>1. CASE i \in 1 .. n
    <3>1. gs[i] = fs[i] /\ fs[i].part \notin {"finally", "switch"} /\ FrameCovers(fs[i], s, i)
      BY <2>1, <1>3 DEF Holds
    <3> QED BY <2>1, <3>1, <1>4 DEF FrameCovers
  <2>2. CASE i = n + 1
    <3>1. gs[i] = f
      BY <2>2, <1>3
    <3>2. f.part \in Compares => f.part # "switch"
      BY DEF Compares
    <3>3. f.part \in Compares =>
            /\ CoversTo(f.base, q.bindings, q.marks[i])
            /\ \A j \in 1 .. Len(f.tables) : CoversTo(f.tables[j], q.bindings, q.marks[i])
      BY <2>2, <3>2, <1>4 DEF Keeping
    <3>4. f.part = "switch" => CoversTo(f.base, q.bindings, Len(q.bindings)) /\ f.tables = <<>>
      BY DEF Keeping
    <3>5. f.part # "finally"
      BY DEF Keeping
    <3> QED BY <2>2, <3>1, <3>3, <3>4, <3>5 DEF FrameCovers
  <2> QED BY <2>1, <2>2, <1>6
<1>8. Holds(q, gs)
  BY <1>3, <1>5, <1>7 DEF Holds
<1> QED BY <1>8 DEF gs

\* A table of the bindings a state has.
Fitting(t, s) == CoversTo(t, s.bindings, Len(s.bindings))

\* The innermost scope is closed: what is around it is as it was when it was
\* opened, and the tables its construct kept are tables of that.
LEMMA HoldsPop ==
    ASSUME NEW s, NEW fs, NEW p, Fits(s, fs, p), Holds(s, fs), Len(fs) > 0,
           \A i \in 1 .. Len(fs) : fs[i].part # "switch"
    PROVE  LET r == PopScope(s)
               top == fs[Len(fs)]
               below == SubSeq(fs, 1, Len(fs) - 1)
           IN  /\ Holds(r, below) /\ Fitting(r.tbl, r)
               /\ \A i \in 1 .. Len(below) : below[i].part # "switch"
               /\ top.part \in Compares =>
                     /\ Fitting(top.base, r)
                     /\ \A j \in 1 .. Len(top.tables) : Fitting(top.tables[j], r)
<1> DEFINE r == PopScope(s)
           n == Len(fs)
           top == fs[n]
           below == SubSeq(fs, 1, n - 1)
           m == s.marks[n]
<1>1. s \in Checker /\ Scoped(s) /\ fs \in Seq(FrameType)
  BY DEF Fits
<1>2. Len(s.marks) = n /\ n \in Nat /\ n > 0 /\ n \in 1 .. n
  BY ScopesOpen
<1>3. /\ r \in Checker /\ \A i \in 1 .. n - 1 : r.marks[i] = s.marks[i]
      /\ Len(r.bindings) = m
  BY <1>1, <1>2, ScopedPop
<1>4. Covered(r) /\ \A i \in 1 .. m : r.bindings[i] = s.bindings[i]
  BY <1>1, <1>2, PopScopeCovers DEF Holds
<1>5. below \in Seq(FrameType) /\ Len(below) = n - 1 /\ \A i \in 1 .. n - 1 : below[i] = fs[i]
  BY <1>1, <1>2, Shorter
<1>6. /\ \A i \in 1 .. n : s.marks[i] \in Nat
      /\ \A i \in 1 .. n : s.marks[i] <= m
  <2>1. s.marks \in Seq(Nat)
    BY <1>1 DEF Checker
  <2> QED BY <2>1, <1>1, <1>2, ElementOfSeq DEF Scoped
<1>7. ASSUME NEW i \in 1 .. n, NEW t, CoversTo(t, s.bindings, s.marks[i])
      PROVE  CoversTo(t, r.bindings, s.marks[i])
  <2>1. \A j \in 1 .. s.marks[i] : r.bindings[j] = s.bindings[j]
    <3> HIDE DEF m, r
    <3>1. m \in Nat /\ s.marks[i] \in Nat /\ s.marks[i] <= m
      BY <1>2, <1>6 DEF m
    <3> QED BY <3>1, <1>4
  <2> QED BY <2>1, <1>7, CoversPrefix
<1>8. \A i \in 1 .. n : /\ fs[i].part \notin {"finally", "switch"}
                        /\ FrameCovers(fs[i], s, i)
  BY DEF Holds
<1> HIDE DEF r, below, m, n
<1>9. \A i \in 1 .. n - 1 : i \in 1 .. n
  BY <1>2
<1>10. ASSUME NEW i \in 1 .. n - 1
       PROVE  below[i].part \notin {"finally", "switch"} /\ FrameCovers(below[i], r, i)
  <2>1. i \in 1 .. n /\ below[i] = fs[i] /\ r.marks[i] = s.marks[i]
    BY <1>3, <1>5, <1>9
  <2>2. fs[i].part \notin {"finally", "switch"} /\ FrameCovers(fs[i], s, i)
    BY <1>8, <2>1
  <2>3. fs[i].part \in Compares =>
            /\ CoversTo(fs[i].base, r.bindings, r.marks[i])
            /\ \A j \in 1 .. Len(fs[i].tables) : CoversTo(fs[i].tables[j], r.bindings, r.marks[i])
    BY <2>1, <2>2, <1>7 DEF FrameCovers
  <2> QED BY <2>1, <2>2, <2>3 DEF FrameCovers
<1>11. Holds(r, below)
  BY <1>4, <1>5, <1>10 DEF Holds
<1>12. top.part \in Compares =>
            /\ Fitting(top.base, r)
            /\ \A j \in 1 .. Len(top.tables) : Fitting(top.tables[j], r)
  <2>1. FrameCovers(fs[n], s, n)
    BY <1>2, <1>8
  <2>2. s.marks[n] = Len(r.bindings)
    BY <1>3 DEF m
  <2> QED BY <1>2, <1>7, <2>1, <2>2 DEF FrameCovers, Fitting
<1>13. Fitting(r.tbl, r)
  BY <1>4 DEF Covered, Fitting
<1>14. \A i \in 1 .. Len(below) : below[i].part # "switch"
  BY <1>5, <1>10
<1> QED BY <1>11, <1>12, <1>13, <1>14 DEF r, below, n

\* One branch's table is kept.
LEMMA HoldsTable ==
    ASSUME NEW r, NEW fs, Holds(r, fs),
           NEW q, q.bindings = r.bindings, q.marks = r.marks, Fitting(q.tbl, r)
    PROVE  Holds(q, fs)
<1>1. Covered(q)
  BY DEF Holds, Covered, Fitting
<1>2. \A i \in 1 .. Len(fs) : FrameCovers(fs[i], r, i) => FrameCovers(fs[i], q, i)
  BY DEF FrameCovers
<1> QED BY <1>1, <1>2 DEF Holds

\* What differs in the names bound and the exits alone keeps the same tables.
LEMMA HoldsAlike ==
    ASSUME NEW s, NEW fs, Holds(s, fs), NEW gs, Alike(fs, gs)
    PROVE  Holds(s, gs)
<1>1. ASSUME NEW i \in 1 .. Len(gs)
      PROVE  /\ gs[i].part # "finally" /\ (gs[i].part = "switch" => i = Len(gs))
             /\ FrameCovers(gs[i], s, i)
  <2>1. /\ i \in 1 .. Len(fs) /\ gs[i].part = fs[i].part /\ Len(gs) = Len(fs)
        /\ gs[i].base = fs[i].base /\ gs[i].tables = fs[i].tables
    BY DEF Alike
  <2> QED BY <2>1 DEF Holds, FrameCovers
<1> QED BY <1>1 DEF Holds

-----------------------------------------------------------------------------
(* The handlers, in a program without finalizers. *)

\* A statement that opens and closes no construct.
LEMMA HoldsStraight ==
    ASSUME CheckInv, Here, Holds(chk, frames), Top.part # "switch",
           Extends(chk, chk'), Alike(frames, frames')
    PROVE  Holds(chk', frames')
<1>1. \A i \in 1 .. Len(frames) : frames[i].part # "switch"
  BY TopFrame, NoSwitch
<1>2. Fits(chk, frames, pending)
  BY DEF CheckInv
<1> QED BY <1>1, <1>2, HoldsRun

\* A declaration.
LEMMA BindsHolds ==
    ASSUME CheckInv, Here, Holds(chk, frames), Top.part # "switch",
           NEW n \in Names, NEW s, Extends(chk, s), Binds(n, s)
    PROVE  Holds(chk', frames')
<1>1. Alike(frames, frames') /\ chk' = s
  BY TopFrame, AlikeBound DEF Binds
<1> QED BY <1>1, HoldsStraight

\* A statement that only touches the table.
LEMMA StraightHolds ==
    ASSUME CheckInv, Here, Holds(chk, frames), Top.part # "switch",
           NEW t, NEW s, Extends(chk, s), Straight(t, s)
    PROVE  Holds(chk', frames')
<1>1. Alike(frames, frames') /\ chk' = s
  BY TopFrame, AlikeItself DEF Straight
<1> QED BY <1>1, HoldsStraight

\* The simple statements.
LEMMA SimpleHolds ==
    ASSUME CheckInv, Here, Holds(chk, frames), Top.part # "switch", NEW t \in TokenType, Simple(t)
    PROVE  Holds(chk', frames')
<1>1. chk \in Checker /\ Covered(chk)
  BY TopFrame DEF Holds
<1>2. CASE t.op = "declare" /\ Binds(t.x, AddFromType(chk, t.x, t.k))
  <2>1. t.x \in Names /\ t.k \in Owning
    BY <1>2, TokenFields DEF NamesOne
  <2>2. Extends(chk, AddFromType(chk, t.x, t.k))
    BY <1>1, <2>1, AddFromTypeCovers
  <2> QED BY <1>2, <2>1, <2>2, BindsHolds
<1>3. CASE t.op = "plain" /\ Binds(t.x, chk)
  <2>1. t.x \in Names
    BY <1>3, TokenFields DEF NamesOne
  <2>2. Extends(chk, chk)
    BY <1>1, CoversItself
  <2> QED BY <1>3, <2>1, <2>2, BindsHolds
<1>4. CASE t.op = "move" /\ Binds(t.x, DeclareMoved(chk, t.x, t.y))
  <2>1. t.x \in Names /\ t.y \in Names
    BY <1>4, TokenFields DEF NamesOne, NamesTwo
  <2>2. Extends(chk, DeclareMoved(chk, t.x, t.y))
    BY <1>1, <2>1, DeclareMovedCovers
  <2> QED BY <1>4, <2>1, <2>2, BindsHolds
<1>5. CASE t.op = "borrow" /\ Binds(t.y, BeginBorrow(chk, t.x, t.y, t.k))
  <2>1. t.x \in Names /\ t.y \in Names /\ t.k \in Modes
    BY <1>5, TokenFields DEF NamesOne, NamesTwo
  <2>2. Extends(chk, BeginBorrow(chk, t.x, t.y, t.k))
    BY <1>1, <2>1, BeginBorrowCovers
  <2> QED BY <1>5, <2>1, <2>2, BindsHolds
<1>6. CASE t.op = "clone" /\ Binds(t.y, DoClone(chk, t.x, t.y))
  <2>1. t.x \in Names /\ t.y \in Names
    BY <1>6, TokenFields DEF NamesOne, NamesTwo
  <2>2. Extends(chk, DoClone(chk, t.x, t.y))
    BY <1>1, <2>1, DoCloneCovers
  <2> QED BY <1>6, <2>1, <2>2, BindsHolds
<1>7. CASE t.op = "consume" /\ Straight(t, ApplyApps(chk, t.x, Move))
  <2>1. Extends(chk, ApplyApps(chk, t.x, Move))
    BY <1>1, UseCovers
  <2> QED BY <1>7, <2>1, StraightHolds
<1>8. CASE t.op = "read" /\ Straight(t, ApplyApps(chk, t.x, [NoApps EXCEPT !.read = 1]))
  <2>1. Extends(chk, ApplyApps(chk, t.x, [NoApps EXCEPT !.read = 1]))
    BY <1>1, UseCovers
  <2> QED BY <1>8, <2>1, StraightHolds
<1>9. CASE t.op = "assign" /\ Straight(t, AssignStatement(chk, t.x, t.y))
  <2>1. t.x \in Names /\ t.y \in Names
    BY <1>9, TokenFields DEF NamesOne, NamesTwo
  <2>2. Extends(chk, AssignStatement(chk, t.x, t.y))
    BY <1>1, <2>1, AssignStatementCovers
  <2> QED BY <1>9, <2>2, StraightHolds
<1> QED BY <1>2, <1>3, <1>4, <1>5, <1>6, <1>7, <1>8, <1>9 DEF Simple

\* The right operand of &&.
LEMMA LogicalRightHolds ==
    ASSUME CheckInv, Here, Holds(chk, frames), Top.part # "switch", NEW t, LogicalRight(t)
    PROVE  Holds(chk', frames')
<1> DEFINE after == ApplyApps(chk, t.x, Move)
           s == Compare(after, chk.tbl, after.tbl)
<1>1. Extends(chk, after) /\ chk \in Checker
  BY TopFrame, UseCovers DEF Holds
<1>2. Straight(t, s)
  BY DEF LogicalRight
<1> HIDE DEF after
<1>3. Extends(chk, s)
  BY <1>1, CompareCovers
<1> HIDE DEF s
<1> QED BY <1>2, <1>3, StraightHolds

\* return and throw.
LEMMA ReturnOrThrowHolds ==
    ASSUME CheckInv, Here, Holds(chk, frames), Top.part # "switch",
           NEW t \in TokenType, ReturnOrThrow(t)
    PROVE  Holds(chk', frames')
<1> DEFINE s == Returned(t)
<1>1. Keeps(chk, s) /\ chk \in Checker /\ s \in Checker
  BY ReturnedKeeps
<1>2. Alike(frames, frames')
  <2>1. TRUE \in BOOLEAN
    OBVIOUS
  <2> QED BY <2>1, TopFrame, AlikeExits DEF ReturnOrThrow
<1>3. chk' \in {s, RequireConsumed(s)}
  BY DEF ReturnOrThrow, Returned
<1> HIDE DEF s
<1>4. Keeps(chk, chk')
  BY <1>1, <1>3, RequireConsumedKeeps, KeepsTwice
<1>5. Extends(chk, chk')
  BY <1>1, <1>4, KeepsCover DEF Holds
<1> QED BY <1>2, <1>5, HoldsStraight

\* break and continue.
LEMMA BreakOrContinueHolds ==
    ASSUME CheckInv, Here, Holds(chk, frames), Top.part # "switch", NEW t, BreakOrContinue(t)
    PROVE  Holds(chk', frames')
<1>1. Alike(frames, frames')
  <2>1. TRUE \in BOOLEAN
    OBVIOUS
  <2> QED BY <2>1, TopFrame, AlikeExits DEF BreakOrContinue
<1>2. Extends(chk, chk')
  BY TopFrame, CoversItself DEF BreakOrContinue, Holds
<1> QED BY <1>1, <1>2, HoldsStraight

\* A construct is opened.
LEMMA OpenHolds ==
    ASSUME CheckInv, Here, Holds(chk, frames), Top.part # "switch", NEW t, Open(t), pc \in Nat
    PROVE  Holds(chk', frames')
<1>1. /\ chk \in Checker /\ chk.depth \in Nat /\ Fitting(chk.tbl, chk)
      /\ Fits(chk, frames, pending) /\ chk.tbl \in Table
  BY TopFrame, TableOf DEF Checker, CheckInv, Holds, Covered, Fitting
<1>2. \A i \in 1 .. Len(frames) : frames[i].part # "switch"
  BY TopFrame, NoSwitch
<1>3. /\ PushScope(chk) \in Checker /\ PushScope(chk).tbl = chk.tbl
      /\ PushScope(chk).bindings = chk.bindings
      /\ PushScope(chk).marks = Append(chk.marks, Len(chk.bindings))
      /\ PushScope(chk).depth = chk.depth
  BY <1>1, PushScopeFrame
<1>4. ASSUME NEW f, Keeping(f, chk), frames' = Append(frames, f),
             chk'.tbl = chk.tbl, chk'.bindings = chk.bindings,
             chk'.marks = IF f.part = "switch" THEN chk.marks
                          ELSE Append(chk.marks, Len(chk.bindings))
      PROVE  Holds(chk', frames')
  BY <1>1, <1>2, <1>4, HoldsOpen
<1>5. ASSUME NEW f, f.part \in {"then", "try", "switch"}, f.base = chk.tbl, f.tables = <<>>
      PROVE  Keeping(f, chk)
  BY <1>1, <1>5 DEF Keeping, Fitting, Compares
<1>6. ASSUME NEW part \in {"block", "then", "while", "switch", "try"}
      PROVE  /\ Frame(part, pc) \in FrameRecord /\ Frame(part, pc).part = part
             /\ Frame(part, pc).tables = <<>>
  BY <1>6, FrameMade DEF FrameParts, Bodies, FrameType
<1>7. CASE t.op = "block"
  <2> DEFINE f == Frame("block", pc)
  <2>1. chk' = PushScope(chk) /\ frames' = Append(frames, f)
    BY <1>7 DEF Open, Push
  <2>2. f.part = "block"
    BY <1>6
  <2> HIDE DEF f
  <2>3. Keeping(f, chk)
    BY <2>2 DEF Keeping, Compares
  <2> QED BY <1>3, <1>4, <2>1, <2>2, <2>3
<1>8. CASE t.op = "if"
  <2> DEFINE g == Frame("then", pc)
             f == [g EXCEPT !.base = chk.tbl]
  <2>1. chk' = PushScope(chk) /\ frames' = Append(frames, f)
    BY <1>8 DEF Open, Push
  <2>2. g \in FrameRecord /\ g.part = "then" /\ g.tables = <<>>
    BY <1>6
  <2> HIDE DEF g
  <2>3. f.part = "then" /\ f.base = chk.tbl /\ f.tables = <<>>
    BY <2>2 DEF FrameRecord
  <2> HIDE DEF f
  <2>4. Keeping(f, chk)
    BY <1>5, <2>3
  <2> QED BY <1>3, <1>4, <2>1, <2>3, <2>4
<1>9. CASE t.op = "while"
  <2> DEFINE f == Frame("while", pc)
             d == PushScope(chk).depth + 1
  <2>1. chk' = [PushScope(chk) EXCEPT !.depth = d] /\ frames' = Append(frames, f)
    BY <1>9 DEF Open, Push
  <2>2. f.part = "while"
    BY <1>6
  <2>3. d \in Nat
    BY <1>1, <1>3
  <2> HIDE DEF f, d
  <2>4. Keeping(f, chk)
    BY <2>2 DEF Keeping, Compares
  <2>5. /\ chk'.tbl = chk.tbl /\ chk'.bindings = chk.bindings
        /\ chk'.marks = Append(chk.marks, Len(chk.bindings))
    BY <1>1, <2>1, <2>3, PushedDeep
  <2> QED BY <1>4, <2>1, <2>2, <2>4, <2>5
<1>10. CASE t.op = "switch"
  <2> DEFINE g == Frame("switch", pc)
             f == [g EXCEPT !.base = chk.tbl]
  <2>1. chk' = chk /\ frames' = Append(frames, f)
    BY <1>10 DEF Open, Push
  <2>2. g \in FrameRecord /\ g.part = "switch" /\ g.tables = <<>>
    BY <1>6
  <2> HIDE DEF g
  <2>3. f.part = "switch" /\ f.base = chk.tbl /\ f.tables = <<>>
    BY <2>2 DEF FrameRecord
  <2> HIDE DEF f
  <2>4. Keeping(f, chk)
    BY <1>5, <2>3
  <2> QED BY <1>4, <2>1, <2>3, <2>4
<1>11. CASE t.op = "try"
  <2> DEFINE g == Frame("try", pc)
             f == [g EXCEPT !.base = chk.tbl, !.k = t.k]
  <2>1. chk' = PushScope(chk) /\ frames' = Append(frames, f)
    BY <1>11 DEF Open, Push
  <2>2. g \in FrameRecord /\ g.part = "try" /\ g.tables = <<>>
    BY <1>6
  <2> HIDE DEF g
  <2>3. f.part = "try" /\ f.base = chk.tbl /\ f.tables = <<>>
    BY <2>2 DEF FrameRecord
  <2> HIDE DEF f
  <2>4. Keeping(f, chk)
    BY <1>5, <2>3
  <2> QED BY <1>3, <1>4, <2>1, <2>3, <2>4
<1> QED BY <1>7, <1>8, <1>9, <1>10, <1>11 DEF Open

\* What is left when the innermost scope is closed.
LEMMA TopCloses ==
    ASSUME CheckInv, Here, Holds(chk, frames), Top.part # "switch"
    PROVE  LET r == PopScope(chk)
           IN  /\ r \in Checker /\ Holds(r, Below) /\ Fitting(r.tbl, r)
               /\ \A i \in 1 .. Len(Below) : Below[i].part # "switch"
               /\ Top.part # "finally"
               /\ Top.part \in Compares =>
                     /\ Fitting(Top.base, r)
                     /\ \A j \in 1 .. Len(Top.tables) : Fitting(Top.tables[j], r)
<1>1. \A i \in 1 .. Len(frames) : frames[i].part # "switch"
  BY TopFrame, NoSwitch
<1>2. Fits(chk, frames, pending) /\ Len(frames) > 0
  BY TopFrame DEF CheckInv
<1>3. Top.part # "finally"
  BY TopFrame DEF Holds
<1>4. PopScope(chk) \in Checker
  BY TopPopped
<1> QED BY <1>1, <1>2, <1>3, <1>4, HoldsPop DEF Top, Below

\* The state left behind by a part that is no loop body fits what is around it.
LEMMA FitsBelow ==
    ASSUME CheckInv, Here, Top.part \notin {"switch", "while"}, NEW q, Rests(PopScope(chk), q)
    PROVE  \E p : Fits(q, Below, p)
<1> DEFINE p == IF One(Top, OpenTry) = 0 THEN pending ELSE SubSeq(pending, 1, Len(pending) - 1)
<1>1. pending \in Seq(Snapshot) /\ Len(pending) \in Nat
  BY TopFrame, LenProperties
<1>2. One(Top, OpenTry) \in {0, 1}
  BY DEF One
<1>3. p \in Seq(Snapshot) /\ Len(p) = Len(pending) - One(Top, OpenTry)
  BY <1>1, <1>2, SlotToPop
<1> HIDE DEF p
<1> QED BY <1>3, OutOf

\* The next part of a construct begins from one of its tables.
LEMMA PartHolds ==
    ASSUME CheckInv, Here, Holds(chk, frames), Top.part \notin {"switch", "while"},
           NEW q, Rests(PopScope(chk), q), Fitting(q.tbl, PopScope(chk)),
           NEW f, f.part # "switch", Keeping(f, PopScope(chk)),
           chk' = PushScope(q), frames' = Append(Below, f)
    PROVE  Holds(chk', frames')
<1>1. /\ Holds(PopScope(chk), Below)
      /\ \A i \in 1 .. Len(Below) : Below[i].part # "switch"
  BY TopCloses
<1>2. q \in Checker /\ q.bindings = PopScope(chk).bindings /\ q.marks = PopScope(chk).marks
  BY DEF Rests
<1>3. Holds(q, Below)
  BY <1>1, <1>2, HoldsTable
<1>4. PICK p : Fits(q, Below, p)
  BY FitsBelow
<1>5. Keeping(f, q)
  BY <1>2 DEF Keeping
<1>6. /\ chk'.tbl = q.tbl /\ chk'.bindings = q.bindings
      /\ chk'.marks = Append(q.marks, Len(q.bindings))
  BY <1>2, PushScopeFrame
<1> QED BY <1>1, <1>3, <1>4, <1>5, <1>6, HoldsOpen

\* The else branch.
LEMMA ElseHolds ==
    ASSUME CheckInv, Here, Holds(chk, frames), NEW t, Else(t)
    PROVE  Holds(chk', frames')
<1> DEFINE r == PopScope(chk)
           q == [r EXCEPT !.tbl = Top.base]
           kept == <<ThenTable>>
           key == IF Top.exits THEN "exits" ELSE ""
           f == [Top EXCEPT !.part = "else", !.at = pc, !.tables = kept, !.bound = {},
                            !.k = key, !.exits = FALSE]
<1>1. Top.part = "then" /\ chk' = PushScope(q) /\ frames' = Append(Below, f)
  BY DEF Else, Reading, Swap
<1>2. Top \in FrameRecord /\ Top.base \in Table
  BY TopFrame DEF FrameType, FrameRecord
<1>3. r \in Checker /\ Fitting(Top.base, r) /\ Fitting(r.tbl, r)
  BY <1>1, TopCloses DEF Compares
<1>4. kept = <<r.tbl>>
  BY DEF ThenTable
<1> HIDE DEF r, key, kept
<1>5. Rests(r, q) /\ q.tbl = Top.base
  BY <1>2, <1>3, TableRests
<1>6. f.part = "else" /\ f.base = Top.base /\ f.tables = kept
  BY <1>2 DEF FrameRecord
<1> HIDE DEF f, q
<1>7. \A j \in 1 .. Len(f.tables) : Fitting(f.tables[j], r)
  <2>1. f.tables = <<r.tbl>>
    BY <1>4, <1>6
  <2>2. Len(f.tables) = 1 /\ f.tables[1] = r.tbl
    BY <2>1
  <2>3. \A j \in 1 .. Len(f.tables) : j = 1
    BY <2>2
  <2> QED BY <2>2, <2>3, <1>3
<1>8. Keeping(f, r)
  BY <1>3, <1>6, <1>7 DEF Keeping, Fitting
<1> QED BY <1>1, <1>3, <1>5, <1>6, <1>8, PartHolds DEF r

\* The handler of an exception.
LEMMA CatchHolds ==
    ASSUME CheckInv, Here, Holds(chk, frames), NEW t, Catch(t)
    PROVE  Holds(chk', frames')
<1> DEFINE r == PopScope(chk)
           q == [r EXCEPT !.tbl = Top.base]
           kept == <<r.tbl>>
           f == [Top EXCEPT !.part = "catch", !.at = pc, !.tables = kept, !.bound = {},
                            !.exits = FALSE]
<1>1. Top.part = "try" /\ chk' = PushScope(q) /\ frames' = Append(Below, f)
  BY DEF Catch, Reading, Swap
<1>2. Top \in FrameRecord /\ Top.base \in Table
  BY TopFrame DEF FrameType, FrameRecord
<1>3. r \in Checker /\ Fitting(Top.base, r) /\ Fitting(r.tbl, r)
  BY <1>1, TopCloses DEF Compares
<1>4. kept = <<r.tbl>>
  OBVIOUS
<1> HIDE DEF r, kept
<1>5. Rests(r, q) /\ q.tbl = Top.base
  BY <1>2, <1>3, TableRests
<1>6. f.part = "catch" /\ f.base = Top.base /\ f.tables = kept
  BY <1>2 DEF FrameRecord
<1> HIDE DEF f, q
<1>7. \A j \in 1 .. Len(f.tables) : Fitting(f.tables[j], r)
  <2>1. f.tables = <<r.tbl>>
    BY <1>4, <1>6
  <2>2. Len(f.tables) = 1 /\ f.tables[1] = r.tbl
    BY <2>1
  <2>3. \A j \in 1 .. Len(f.tables) : j = 1
    BY <2>2
  <2> QED BY <2>2, <2>3, <1>3
<1>8. Keeping(f, r)
  BY <1>3, <1>6, <1>7 DEF Keeping, Fitting
<1> QED BY <1>1, <1>3, <1>5, <1>6, <1>8, PartHolds DEF r

\* The first clause of a switch.
LEMMA FirstClauseHolds ==
    ASSUME CheckInv, Here, Holds(chk, frames), Top.part = "switch", chk' = PushScope(chk),
           NEW f, f.part = "case", f.base = Top.base, f.tables = Top.tables,
           frames' = Append(Below, f)
    PROVE  Holds(chk', frames')
<1>1. /\ Len(frames) \in Nat /\ Len(frames) \in 1 .. Len(frames) /\ Top = frames[Len(frames)]
      /\ Len(Below) = Len(frames) - 1 /\ \A i \in 1 .. Len(frames) - 1 : Below[i] = frames[i]
      /\ chk \in Checker /\ Len(frames) > 0
  BY TopFrame
<1>2. Fits(chk, Below, pending)
  BY <1>1, FitsWithout DEF CheckInv, Below
<1>3. \A i \in 1 .. Len(Below) : /\ i \in 1 .. Len(frames) /\ i # Len(frames)
                                 /\ Below[i] = frames[i]
  BY <1>1
<1>4. Holds(chk, Below) /\ \A i \in 1 .. Len(Below) : Below[i].part # "switch"
  BY <1>3 DEF Holds
<1>5. Fitting(Top.base, chk) /\ Top.tables = <<>>
  BY <1>1 DEF Holds, FrameCovers, Fitting
<1>6. Keeping(f, chk)
  <2>1. Len(f.tables) = 0
    BY <1>5
  <2> QED BY <1>5, <2>1 DEF Keeping, Fitting
<1>7. /\ chk'.tbl = chk.tbl /\ chk'.bindings = chk.bindings
      /\ chk'.marks = Append(chk.marks, Len(chk.bindings))
  BY <1>1, PushScopeFrame
<1> QED BY <1>2, <1>4, <1>6, <1>7, HoldsOpen

\* The tables of a switch so far.
LEMMA TablesSoFar ==
    ASSUME CheckInv, Here, Holds(chk, frames), Top.part = "case"
    PROVE  /\ ClauseDone.tables \in Seq(Table) /\ Len(ClauseDone.tables) \in Nat
           /\ \A j \in 1 .. Len(ClauseDone.tables) : Fitting(ClauseDone.tables[j], PopScope(chk))
<1> DEFINE r == PopScope(chk)
           ts == Append(Top.tables, r.tbl)
           n == Len(Top.tables)
<1>1. Top.tables \in Seq(Table) /\ n \in Nat
  BY TopFrame, LenProperties DEF FrameType, FrameRecord
<1>2. r.tbl \in Table
  BY TopPopped
<1>3. Fitting(r.tbl, r) /\ \A j \in 1 .. n : Fitting(Top.tables[j], r)
  BY TopCloses DEF Compares
<1> HIDE DEF r
<1>4. /\ ts \in Seq(Table) /\ Len(ts) = n + 1
      /\ \A j \in 1 .. n : ts[j] = Top.tables[j]
      /\ ts[n + 1] = r.tbl
  BY <1>1, <1>2, AppendProperties
<1> HIDE DEF ts, n
<1>5. \A j \in 1 .. Len(ts) : j \in 1 .. n \/ j = n + 1
  BY <1>1, <1>4 DEF n
<1>6. \A j \in 1 .. Len(ts) : Fitting(ts[j], r)
  BY <1>3, <1>4, <1>5 DEF n
<1>7. Len(ts) \in Nat
  BY <1>1, <1>4 DEF n
<1>8. ClauseDone.tables = Top.tables \/ ClauseDone.tables = ts
  BY ClauseTables DEF ts, r
<1> QED BY <1>1, <1>3, <1>4, <1>6, <1>7, <1>8 DEF n, r

\* A clause.
LEMMA ClauseHolds ==
    ASSUME CheckInv, Here, Holds(chk, frames), NEW t, Clause(t)
    PROVE  Holds(chk', frames')
<1>1. Top \in FrameRecord /\ Top.base \in Table
  BY TopFrame DEF FrameType, FrameRecord
<1>2. CASE /\ Reading = "switch" /\ chk' = PushScope(chk)
           /\ Swap([Top EXCEPT !.part = "case", !.at = pc, !.k = t.op])
  <2> DEFINE f == [Top EXCEPT !.part = "case", !.at = pc, !.k = t.op]
  <2>1. Top.part = "switch" /\ chk' = PushScope(chk) /\ frames' = Append(Below, f)
    BY <1>2 DEF Reading, Swap
  <2>2. f.part = "case" /\ f.base = Top.base /\ f.tables = Top.tables
    BY <1>1 DEF FrameRecord
  <2> HIDE DEF f
  <2> QED BY <2>1, <2>2, FirstClauseHolds
<1>3. CASE /\ Reading = "case"
           /\ LET d == ClauseDone
                  s == FallThrough(d.s)
              IN  /\ chk' = PushScope([s EXCEPT !.tbl = Top.base])
                  /\ Swap([Top EXCEPT !.at = pc, !.tables = d.tables, !.exits = FALSE, !.bound = {},
                                      !.k = IF t.op = "default" THEN t.op ELSE @])
  <2> DEFINE r == PopScope(chk)
             s == FallThrough(r)
             q == [s EXCEPT !.tbl = Top.base]
             ts == ClauseDone.tables
             key == IF t.op = "default" THEN t.op ELSE Top.k
             f == [Top EXCEPT !.at = pc, !.tables = ts, !.exits = FALSE, !.bound = {}, !.k = key]
  <2>1. ClauseDone.s = r
    BY DEF ClauseDone
  <2>2. Top.part = "case" /\ chk' = PushScope(q) /\ frames' = Append(Below, f)
    BY <1>3, <2>1 DEF Reading, Swap
  <2>3. r \in Checker /\ Fitting(Top.base, r)
    BY <2>2, TopCloses DEF Compares
  <2>4. \A j \in 1 .. Len(ts) : Fitting(ts[j], r)
    BY <2>2, TablesSoFar
  <2> HIDE DEF r, ts, key
  <2>5. Rests(r, s)
    BY <2>3, FallThroughRests
  <2> HIDE DEF s
  <2>6. Rests(s, q) /\ q.tbl = Top.base
    BY <1>1, <2>5, TableRests DEF Rests
  <2> HIDE DEF q
  <2>7. Rests(r, q)
    BY <2>5, <2>6, RestsTwice
  <2>8. f.part = "case" /\ f.base = Top.base /\ f.tables = ts
    BY <1>1, <2>2 DEF FrameRecord
  <2> HIDE DEF f
  <2>9. Keeping(f, r)
    BY <2>3, <2>4, <2>8 DEF Keeping, Fitting
  <2> QED BY <2>2, <2>3, <2>6, <2>7, <2>8, <2>9, PartHolds DEF r
<1> QED BY <1>2, <1>3 DEF Clause

\* A construct is left with one of its tables, or the one it ends with.
LEMMA LeaveHolds ==
    ASSUME CheckInv, Here, Holds(chk, frames), Top.part \notin {"body", "switch"},
           chk'.bindings = PopScope(chk).bindings, chk'.marks = PopScope(chk).marks,
           Fitting(chk'.tbl, PopScope(chk)), NEW e \in BOOLEAN, Leave(e)
    PROVE  Holds(chk', frames')
<1>1. PICK b \in BOOLEAN : frames' = [Below EXCEPT ![Len(frames) - 1].exits = b]
  BY LeaveExits
<1>2. Alike(Below, frames')
  BY <1>1, TopFrame, AlikeExits
<1>3. Holds(PopScope(chk), Below)
  BY TopCloses
<1>4. Holds(chk', Below)
  BY <1>3, HoldsTable
<1> QED BY <1>2, <1>4, HoldsAlike

\* A construct that keeps its first table.
LEMMA FirstTable ==
    ASSUME CheckInv, Here, Holds(chk, frames), Top.part \in {"else", "catch"}
    PROVE  Top.tables[1] \in Table /\ Fitting(Top.tables[1], PopScope(chk))
<1>1. Top.tables \in Seq(Table) /\ Len(Top.tables) > 0 /\ Len(Top.tables) \in Nat
  BY TopFrame, LenProperties DEF FrameType, FrameRecord
<1>2. 1 \in 1 .. Len(Top.tables)
  BY <1>1
<1>3. Fitting(Top.tables[1], PopScope(chk))
  BY <1>2, TopCloses DEF Compares
<1> QED BY <1>1, <1>2, <1>3, ElementOfSeq

\* A switch without a clause leaves the table it began with.
LEMMA NoClauseHolds ==
    ASSUME CheckInv, Here, Holds(chk, frames), Top.part = "switch", chk' = chk, Leave(FALSE)
    PROVE  Holds(chk', frames')
<1>1. PICK b \in BOOLEAN : frames' = [Below EXCEPT ![Len(frames) - 1].exits = b]
  <2>1. FALSE \in BOOLEAN /\ Top.part # "body"
    OBVIOUS
  <2> QED BY <2>1, LeaveExits
<1>2. Alike(Below, frames')
  BY <1>1, TopFrame, AlikeExits
<1>3. Len(frames) \in Nat /\ Len(Below) = Len(frames) - 1
      /\ \A i \in 1 .. Len(frames) - 1 : Below[i] = frames[i]
  BY TopFrame
<1>4. \A i \in 1 .. Len(Below) : i \in 1 .. Len(frames) /\ i # Len(frames) /\ Below[i] = frames[i]
  BY <1>3
<1>5. Holds(chk, Below)
  BY <1>4 DEF Holds
<1> QED BY <1>2, <1>5, HoldsAlike

\* A construct ends.
LEMMA EndHolds ==
    ASSUME CheckInv, Here, Holds(chk, frames), NEW t, End(t)
    PROVE  Holds(chk', frames')
<1> DEFINE r == PopScope(chk)
<1>1. /\ Top \in FrameType /\ Top \in FrameRecord /\ Reading = Top.part
      /\ FALSE \in BOOLEAN /\ Top.exits \in BOOLEAN
  BY TopFrame DEF FrameType, FrameRecord, Reading
<1>2. ASSUME Top.part # "switch"
      PROVE  r \in Checker /\ Fitting(r.tbl, r) /\ Top.part # "finally"
  BY <1>2, TopCloses
<1>3. CASE Reading = "block"
  <2>1. chk' = r /\ Leave(Top.exits)
    BY <1>3 DEF End
  <2> QED BY <1>1, <1>2, <1>3, <2>1, LeaveHolds
<1>4. CASE Reading = "then"
  <2>1. chk' = Compare(r, r.tbl, Top.base) /\ Leave(FALSE)
    BY <1>4 DEF End
  <2>2. Rests(r, chk') /\ chk'.tbl = r.tbl
    <3>1. r \in Checker
      BY <1>1, <1>2, <1>4
    <3> HIDE DEF r
    <3> QED BY <2>1, <3>1, CompareRests
  <2> QED BY <1>1, <1>2, <1>4, <2>1, <2>2, LeaveHolds DEF Rests
<1>5. CASE Reading = "else"
  <2> DEFINE c == Compare(r, Top.tables[1], r.tbl)
             e == Top.exits /\ Top.k = "exits"
  <2>1. chk' = [c EXCEPT !.tbl = Top.tables[1]] /\ Leave(e)
    BY <1>5 DEF End
  <2>2. Top.tables[1] \in Table /\ Fitting(Top.tables[1], r)
    BY <1>1, <1>5, FirstTable
  <2>3. r \in Checker
    BY <1>1, <1>2, <1>5
  <2>4. e \in BOOLEAN
    BY <1>1, Zenon
  <2>5. Rests(r, chk') /\ chk'.tbl = Top.tables[1]
    <3> HIDE DEF r
    <3>1. Rests(r, c)
      BY <2>3, CompareRests
    <3> HIDE DEF c
    <3>2. Rests(c, chk') /\ chk'.tbl = Top.tables[1]
      BY <2>1, <2>2, <3>1, TableRests DEF Rests
    <3> QED BY <3>1, <3>2, RestsTwice
  <2> HIDE DEF e
  <2> QED BY <1>1, <1>5, <2>1, <2>2, <2>4, <2>5, LeaveHolds DEF Rests
<1>6. CASE Reading = "while"
  <2>1. chk' = [r EXCEPT !.depth = @ - 1] /\ Leave(FALSE)
    BY <1>6 DEF End, LoopDone
  <2>2. r \in Checker /\ Fitting(r.tbl, r)
    BY <1>1, <1>2, <1>6
  <2>3. chk'.tbl = r.tbl /\ chk'.bindings = r.bindings /\ chk'.marks = r.marks
    <3> HIDE DEF r
    <3> QED BY <2>1, <2>2 DEF Checker
  <2> QED BY <1>1, <1>6, <2>1, <2>2, <2>3, LeaveHolds
<1>7. CASE Reading = "case"
  <2> DEFINE ts == SwitchTables
             agree == \A i \in 1 .. Len(ts) - 1 : Agree(ts[i], ts[i + 1])
             q == IF ts = <<>> THEN ClauseDone.s ELSE [ClauseDone.s EXCEPT !.tbl = ts[1]]
             so == ClauseDone.tables
             kept == IF ts = <<>> THEN r.tbl ELSE ts[1]
  <2>1. chk' = (IF agree THEN q ELSE Emit(q, "BranchInconsistent")) /\ Leave(FALSE)
    BY <1>7 DEF End
  <2>2. ts \in Seq(Table) /\ Top.base \in Table /\ (ts # <<>> => ts[1] \in Table)
    BY <1>1, <1>7, SwitchTablesTyped DEF FrameRecord
  <2>3. ClauseDone.s = r /\ ts = IF Top.k = "default" THEN so ELSE Append(so, Top.base)
    BY DEF ClauseDone, SwitchTables
  <2>4. r \in Checker /\ Fitting(r.tbl, r) /\ Fitting(Top.base, r)
    BY <1>1, <1>7, TopCloses DEF Compares
  <2>5. so \in Seq(Table) /\ Len(so) \in Nat /\ \A j \in 1 .. Len(so) : Fitting(so[j], r)
    BY <1>1, <1>7, TablesSoFar
  <2>6. q = IF ts = <<>> THEN r ELSE [r EXCEPT !.tbl = ts[1]]
    BY <2>3
  <2> HIDE DEF r, agree, ts, so
  <2>7. Fitting(kept, r)
    <3>1. ASSUME ts # <<>>
          PROVE  Fitting(ts[1], r)
      <4>1. Len(ts) \in Nat /\ Len(ts) > 0
        BY <2>2, <3>1, EmptySeq, LenProperties
      <4>2. CASE ts = so
        BY <2>5, <4>1, <4>2
      <4>3. CASE ts = Append(so, Top.base)
        <5>1. CASE Len(so) = 0
          <6>1. ts[1] = Top.base
            BY <2>2, <2>5, <4>3, <5>1, AppendProperties
          <6> QED BY <2>4, <6>1
        <5>2. CASE Len(so) # 0
          <6>1. 1 \in 1 .. Len(so)
            BY <2>5, <5>2
          <6>2. ts[1] = so[1]
            BY <2>2, <2>5, <4>3, <6>1, AppendProperties
          <6> QED BY <2>5, <6>1, <6>2
        <5> QED BY <5>1, <5>2
      <4> QED BY <2>3, <4>2, <4>3
    <3> QED BY <2>4, <3>1
  <2>8. Rests(r, q) /\ q.tbl = kept
    <3>1. CASE ts = <<>>
      <4>1. Rests(r, r)
        BY <2>4 DEF Rests
      <4> QED BY <2>6, <3>1, <4>1
    <3>2. CASE ts # <<>>
      BY <2>2, <2>4, <2>6, <3>2, TableRests
    <3> QED BY <3>1, <3>2
  <2> HIDE DEF q, kept
  <2>9. Rests(r, chk') /\ chk'.tbl = kept
    <3>1. Rests(q, Emit(q, "BranchInconsistent")) /\ Emit(q, "BranchInconsistent").tbl = q.tbl
      BY <2>8, EmitRests DEF Rests, RuleKind
    <3> QED BY <2>1, <2>8, <3>1, RestsTwice
  <2> QED BY <1>1, <1>7, <2>1, <2>7, <2>9, LeaveHolds DEF Rests, r
<1>8. CASE Reading = "catch" /\ Top.k = "catch"
  <2>1. chk' = CatchDone /\ Leave(FALSE)
    BY <1>8 DEF End
  <2>2. Rests(r, chk') /\ chk'.tbl = Top.tables[1]
    BY <1>1, <1>8, <2>1, CatchDoneRests
  <2>3. Fitting(Top.tables[1], r)
    BY <1>1, <1>8, FirstTable
  <2> QED BY <1>1, <1>8, <2>1, <2>2, <2>3, LeaveHolds DEF Rests
<1>9. CASE Reading = "finally"
  BY <1>1, <1>2, <1>9
<1>10. CASE Reading = "switch"
  <2>1. chk' = chk /\ Leave(FALSE)
    BY <1>10 DEF End
  <2> QED BY <1>1, <1>10, <2>1, NoClauseHolds
<1> QED BY <1>3, <1>4, <1>5, <1>6, <1>7, <1>8, <1>9, <1>10 DEF End

\* The walk ends.
LEMMA EofHolds ==
    ASSUME CheckInv, Here, Holds(chk, frames), NEW t, Eof(t)
    PROVE  Holds(chk', frames')
<1>1. Len(frames) = 1 /\ chk' = PopScope(chk) /\ frames' = <<>>
  BY DEF Eof
<1>2. Top.part = "body"
  BY <1>1, TopFrame DEF CheckInv, Fits
<1>3. Holds(PopScope(chk), Below)
  BY <1>2, TopCloses
<1> QED BY <1>1, <1>3 DEF Holds

-----------------------------------------------------------------------------
(* The third theorem. *)

\* A statement stands in a body, never right after "switch".
LEMMA StatementsInBodies ==
    ASSUME NEW t \in Readable,
           t.op \notin {"else", "case", "default", "catch", "finally", "end", "eof"}
    PROVE  Top.part # "switch"
<1>1. t \notin Closers
  <2> SUFFICES ASSUME t \in Closers PROVE FALSE
    OBVIOUS
  <2>1. PICK op \in {"else", "case", "default", "catch", "finally", "end", "eof"} :
            t = Token(op, NoName, NoName, "")
    BY DEF Closers
  <2> QED BY <2>1 DEF Token
<1>2. Reading \in Bodies
  BY <1>1 DEF Readable
<1> QED BY <1>2 DEF Bodies, Reading

\* Every handler but the finalizer's keeps the tables covering the scopes.
LEMMA StepHolds ==
    ASSUME CheckInv, Grown, Here, Holds(chk, frames),
           NEW t \in Readable, t.op # "finally", Step(t)
    PROVE  Holds(chk', frames')
<1>1. t \in TokenType /\ pc \in Nat
  BY ReadableTokens, Places
<1>2. CASE Simple(t)
  <2>1. Top.part # "switch"
    BY <1>2, StatementsInBodies DEF Simple
  <2> QED BY <1>1, <1>2, <2>1, SimpleHolds
<1>3. CASE LogicalRight(t)
  <2>1. Top.part # "switch"
    BY <1>3, StatementsInBodies DEF LogicalRight
  <2> QED BY <1>3, <2>1, LogicalRightHolds
<1>4. CASE ReturnOrThrow(t)
  <2>1. Top.part # "switch"
    BY <1>4, StatementsInBodies DEF ReturnOrThrow
  <2> QED BY <1>1, <1>4, <2>1, ReturnOrThrowHolds
<1>5. CASE BreakOrContinue(t)
  <2>1. Top.part # "switch"
    BY <1>5, StatementsInBodies DEF BreakOrContinue
  <2> QED BY <1>5, <2>1, BreakOrContinueHolds
<1>6. CASE Open(t)
  <2>1. Top.part # "switch"
    BY <1>6, StatementsInBodies DEF Open
  <2> QED BY <1>1, <1>6, <2>1, OpenHolds
<1>7. CASE Else(t)      BY <1>7, ElseHolds
<1>8. CASE Clause(t)    BY <1>8, ClauseHolds
<1>9. CASE Catch(t)     BY <1>9, CatchHolds
<1>10. CASE Finally(t)  BY <1>10 DEF Finally
<1>11. CASE End(t)      BY <1>11, EndHolds
<1>12. CASE Eof(t)      BY <1>12, EofHolds
<1> QED BY <1>2, <1>3, <1>4, <1>5, <1>6, <1>7, <1>8, <1>9, <1>10, <1>11, <1>12 DEF Step

\* Without a finalizer no token is walked twice.
LEMMA StepForward ==
    ASSUME CheckInv, Here, Holds(chk, frames), NEW t, Step(t)
    PROVE  pc' = pc + 1
<1>1. Top.part # "finally"
  BY TopFrame DEF Holds
<1>2. CASE End(t)
  BY <1>1, <1>2 DEF End, Reading, Advance
<1>3. CASE ~End(t)
  BY <1>3 DEF Step, Simple, Binds, Straight, LogicalRight, ReturnOrThrow, BreakOrContinue,
              Open, Else, Clause, Catch, Finally, Eof, Advance
<1> QED BY <1>2, <1>3

\* Nothing is bound when the walk begins.
LEMMA CoverInit == CInit => CoverInv
<1> SUFFICES ASSUME CInit PROVE CoverInv
  OBVIOUS
<1>1. /\ prog = <<>> /\ pc = 1 /\ chk = PushScope(Empty) /\ frames = <<Frame("body", 0)>>
  BY DEF CInit
<1>2. /\ chk.tbl = [n \in Names |-> NoEntry] /\ chk.bindings = <<>>
  BY <1>1 DEF PushScope, Empty
<1>3. Covered(chk)
  <2>1. {n \in Names : chk.tbl[n].kind # "None"} = {}
    BY <1>2 DEF NoEntry
  <2>2. Len(chk.bindings) = 0
    BY <1>2
  <2>3. {chk.bindings[i].name : i \in 1 .. Len(chk.bindings)} = {}
    BY <2>2
  <2> QED BY <2>1, <2>2, <2>3 DEF Covered, CoversTo, Hides
<1>4. Len(frames) = 1 /\ frames[1].part = "body"
  BY <1>1 DEF Frame
<1>5. \A i \in 1 .. Len(frames) : frames[i].part = "body"
  BY <1>4
<1>6. pc = Len(prog) + 1
  BY <1>1
<1> QED BY <1>3, <1>5, <1>6 DEF CoverInv, Holds, FrameCovers, Compares

\* Every step of a program without finalizers preserves the invariant.
LEMMA CoverNext == CheckInv /\ CoverInv /\ [Next]_vars => CoverInv'
<1> SUFFICES ASSUME CheckInv, CoverInv, [Next]_vars PROVE CoverInv'
  OBVIOUS
<1>1. Len(prog) \in Nat
  BY LenProperties DEF CheckInv
<1>2. CASE Check
  <2> SUFFICES ASSUME ~Has("finally")'
               PROVE  pc' = Len(prog') + 1 /\ Holds(chk', frames')
    BY DEF CoverInv
  <2>1. Grown /\ Here
    BY <1>2, TokenRead
  <2>2. CASE pc <= Len(prog)
    <3>1. prog' = prog
      BY <1>2, <2>2 DEF Check
    <3>2. ~Has("finally")
      BY <3>1 DEF Has
    <3> QED BY <1>1, <2>2, <3>2 DEF CoverInv
  <2>3. CASE ~(pc <= Len(prog))
    <3>1. PICK t \in Readable : Step(t) /\ prog' = Append(prog, t)
      BY <1>2, <2>3 DEF Check
    <3>2. t \in TokenType /\ prog \in Seq(TokenType)
      BY ReadableTokens DEF CheckInv
    <3>3. /\ Len(prog') = Len(prog) + 1 /\ prog'[Len(prog) + 1] = t
          /\ \A i \in 1 .. Len(prog) : prog'[i] = prog[i]
      BY <1>1, <3>1, <3>2, AppendProperties
    <3>4. ~Has("finally") /\ t.op # "finally"
      <4>1. \A i \in 1 .. Len(prog') : prog'[i].op # "finally"
        BY DEF Has
      <4>2. /\ \A i \in 1 .. Len(prog) : i \in 1 .. Len(prog')
            /\ Len(prog) + 1 \in 1 .. Len(prog')
        BY <1>1, <3>3
      <4> QED BY <3>3, <4>1, <4>2 DEF Has
    <3>5. pc = Len(prog) + 1 /\ Holds(chk, frames)
      BY <3>4 DEF CoverInv
    <3>6. Holds(chk', frames')
      BY <2>1, <3>1, <3>4, <3>5, StepHolds
    <3>7. pc' = pc + 1
      BY <2>1, <3>1, <3>5, StepForward
    <3> QED BY <1>1, <3>3, <3>5, <3>6, <3>7
  <2> QED BY <2>2, <2>3
<1>3. CASE UNCHANGED cvars
  <2>1. prog' = prog /\ pc' = pc /\ chk' = chk /\ frames' = frames
    BY <1>3 DEF cvars
  <2> QED BY <2>1 DEF CoverInv, Holds, Has, FrameCovers, Covered
<1> QED BY <1>2, <1>3 DEF Next, Checking, Starting, Executing, vars

\* Whichever branch's table check_stmt keeps, between two statements the table
\* has a row for exactly the names the open scopes bind: no row outlives its
\* scope and none is lost, in every program without a finalizer.
THEOREM TableIsOpenScopes == Spec => []ScopesCoverTable
<1>1. Init => CoverInv
  BY CoverInit DEF Init
<1>2. CoverInv => ScopesCoverTable
  BY DEF CoverInv, Holds, Covered, CoversTo, ScopesCoverTable, TrackedNames
<1> QED BY <1>1, <1>2, CoverNext, CheckAlways, PTL DEF Spec

=============================================================================
