------------------------------ MODULE OwnBorrow ------------------------------
(***************************************************************************)
(* The checker walking through one function body whose statements do not   *)
(* branch: declarations, moves, borrows, clones, drops, uses, assignments, *)
(* returns, nested blocks and loop bodies (Checker::check_stmt, a loop's   *)
(* body is walked once).  The program is the environment: at every step    *)
(* any statement may come next that JavaScript's scoping accepts.          *)
(***************************************************************************)
EXTENDS OwnTable

CONSTANTS Shadowing,  \* may an inner scope reuse a name of an outer one?
          Reassign,   \* may a name on loan be assigned to?
          MaxScopes,  \* bound on nested scopes
          MaxRules,   \* bound on the rules reported before the walk is cut off
          MaxUses     \* bound on the appearances in one expression

ASSUME OwnBorrowAssumption ==
    /\ Shadowing \in BOOLEAN /\ Reassign \in BOOLEAN
    /\ MaxScopes \in Nat \ {0} /\ MaxRules \in Nat /\ MaxUses \in Nat

VARIABLES tbl, bindings, marks, loop_depth, diags,
          regions  \* which open scopes are loop bodies

vars == <<tbl, bindings, marks, loop_depth, diags, regions>>

Now == [tbl |-> tbl, bindings |-> bindings, marks |-> marks,
        depth |-> loop_depth, diags |-> diags]

Become(s) ==
    /\ tbl' = s.tbl /\ bindings' = s.bindings /\ marks' = s.marks
    /\ loop_depth' = s.depth /\ diags' = s.diags

Run(s) == Become(s) /\ UNCHANGED regions

\* The names bound by the innermost scope.
BoundHere == {bindings[i].name : i \in (marks[Len(marks)] + 1) .. Len(bindings)}

\* A declaration of n here is legal JavaScript, and one the run allows.
Declarable(n) ==
    /\ n \notin BoundHere
    /\ Shadowing \/ ~Tracked(Now, n)

Open == Len(marks) > 0 /\ Cardinality(diags) <= MaxRules

Total(a) == a.consumed + a.read + a.write + a.path

\* An expression with at most MaxUses appearances, of one or two names.
Uses == UNION {{[n \in Names |-> IF n = x THEN a ELSE IF n = y THEN b ELSE NoApps] :
                    a \in {c \in Apps : Total(c) \in 1 .. MaxUses},
                    b \in {c \in Apps : Total(c) = 1}} : x, y \in Names}

Appearing(f) == {n \in Names : f[n] # NoApps}

\* The orders in which the HashMap may yield the names that appear.
Orders(f) == LET S == Appearing(f)
             IN  {o \in [1 .. Cardinality(S) -> S] : \A n \in S : \E i \in DOMAIN o : o[i] = n}

-----------------------------------------------------------------------------
\* The expressions in which two names appear, and the orders of each.
Meetings == {f \in Uses : Cardinality(Appearing(f)) > 1}
OrdersOf == [f \in Meetings |-> Orders(f)]

Init ==
    /\ tbl = [n \in Names |-> NoEntry] /\ bindings = <<>> /\ marks = <<0>>
    /\ loop_depth = 0 /\ diags = {} /\ regions = <<"body">>

\* A parameter, or a declaration with a kind directive or an owned call result.
Declare(n, kind) ==
    /\ Open /\ Declarable(n)
    /\ Run(AddFromType(Now, n, kind))

DeclareMove(n, src) ==
    /\ Open /\ Declarable(n) /\ n # src
    /\ Run(DeclareMoved(Now, n, src))

\* /*#own borrow o as a */ in front of a declaration or a statement.
Borrow(o, a, mode) ==
    /\ Open /\ Declarable(a) /\ o # a
    /\ Run(BeginBorrow(Now, o, a, mode))

Clone(o, a) ==
    /\ Open /\ Declarable(a) /\ o # a
    /\ Run(DoClone(Now, o, a))

\* /*#own drop n */
Drop(n) ==
    /\ Open
    /\ Run(ApplyApps(Now, n, Move))

\* An expression statement or an initialiser that binds nothing owned.
Evaluate(f, order) ==
    /\ Open
    /\ Appearing(f) \subseteq TrackedNames(Now)
    /\ Run(CheckExpr(Now, f, order))

Assign(dst, src) ==
    /\ Open
    /\ Reassign \/ tbl[dst].read_borrows + tbl[dst].write_borrows = 0
    /\ Run(AssignStatement(Now, dst, src))

\* return; or throw of an unowned value
Exit ==
    /\ Open
    /\ Run(RequireConsumed(Now))

Return(n) ==
    /\ Open
    /\ Run(RequireConsumed(ReturnArgument(Now, n)))

OpenBlock ==
    /\ Open /\ Len(marks) < MaxScopes
    /\ Become(PushScope(Now))
    /\ regions' = Append(regions, "block")

\* The body of a while, for or for-of loop, between loop_depth += 1 and -= 1.
OpenLoop ==
    /\ Open /\ Len(marks) < MaxScopes
    /\ Become([PushScope(Now) EXCEPT !.depth = @ + 1])
    /\ regions' = Append(regions, "loop")

Close ==
    /\ Open
    /\ LET r == PopScope(Now)
       IN  Become(IF regions[Len(regions)] = "loop" THEN [r EXCEPT !.depth = @ - 1] ELSE r)
    /\ regions' = SubSeq(regions, 1, Len(regions) - 1)

Next ==
    \/ \E n \in Names, kind \in OwnKind : Declare(n, kind)
    \/ \E n, m \in Names : DeclareMove(n, m) \/ Clone(n, m) \/ Assign(n, m)
    \/ \E o, a \in Names, mode \in Modes : Borrow(o, a, mode)
    \/ \E f \in Uses : \E order \in Orders(f) : Evaluate(f, order)
    \/ \E n \in Names : Drop(n) \/ Return(n)
    \/ Exit \/ OpenBlock \/ OpenLoop \/ Close

Spec == Init /\ [][Next]_vars

-----------------------------------------------------------------------------
(* Properties *)

Aliases(o, kind) == {a \in Names : tbl[a].kind = kind /\ tbl[a].owner = o}

\* The state is a checker state (loop_depth and the borrow counters are u32
\* in the code: none of them goes below zero), with a region per open scope.
TypeOK ==
    /\ Now \in Checker
    /\ regions \in Seq({"body", "block", "loop"})
    /\ Len(regions) = Len(marks)

\* The table holds a row for exactly the names some open scope binds.
TableIsScopes == TrackedNames(Now) = {bindings[i].name : i \in 1 .. Len(bindings)}

\* Rows and borrow counters tell the same story (begin_borrow, end_borrow):
\* an owner counts one read (write) borrow per live read (write) alias.
Ledger ==
    \A o \in TrackedNames(Now) :
        /\ tbl[o].read_borrows = Cardinality(Aliases(o, "RefRead"))
        /\ tbl[o].write_borrows = Cardinality(Aliases(o, "RefWrite"))

\* A row is in a borrowed state while, and only while, it has a live alias of
\* that mode, unless it was given up for consumed when the function was left.
LentWhileAliased ==
    \A o \in TrackedNames(Now) :
        /\ tbl[o].state = "BorrowedRead" => Aliases(o, "RefRead") # {}
        /\ tbl[o].state = "BorrowedWrite" => Aliases(o, "RefWrite") # {}
        /\ tbl[o].state = "Unconsumed" => Aliases(o, "RefRead") \cup Aliases(o, "RefWrite") = {}

\* Readers exclude a writer and writers exclude each other (begin_borrow's
\* match on the owner's state).
WriterAlone ==
    \A o \in Names : Aliases(o, "RefWrite") # {} =>
        /\ Aliases(o, "RefRead") = {}
        /\ Cardinality(Aliases(o, "RefWrite")) = 1

\* No borrow outlives the row of what it borrows (pop_scope unwinds in
\* reverse, so an alias leaves before its owner).
NoDangling == \A a \in Names : tbl[a].kind \in Refs => tbl[a].owner = NoName \/ Tracked(Now, tbl[a].owner)

\* apply_apps follows owner links by recursion: the links end.
OwnersEnd == \A a \in Names : LET r == Root(Now, a) IN r \in Names => tbl[r].kind \notin Refs

\* The rows obey the lending discipline the design document promises.
LoanBook == INSTANCE Loans WITH
    live   <- TrackedNames(Now),
    spent  <- {n \in TrackedNames(Now) : tbl[n].state = "Consumed"},
    reads  <- [o \in Names |-> Aliases(o, "RefRead")],
    writes <- [o \in Names |-> Aliases(o, "RefWrite")],
    forgot <- "UniqueForget" \in diags
LendingDiscipline == LoanBook!Spec

\* In which order the HashMap yields the names of an expression does not
\* change what check_expr reports or leaves in the table.
OrderBlind ==
    diags = {} => \A f \in Meetings : Appearing(f) \subseteq TrackedNames(Now) =>
        Cardinality({CheckExpr(Now, f, order) : order \in OrdersOf[f]}) = 1
=============================================================================
