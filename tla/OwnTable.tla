------------------------------ MODULE OwnTable ------------------------------
(***************************************************************************)
(* The variable table of the ownership checker, crates/own/src/check.rs:   *)
(* the rows of Checker.tbl, the lexical scopes that bind them, and the     *)
(* operations every statement handler is made of.                          *)
(*                                                                         *)
(* An operation takes the checker's state s and returns the next one:      *)
(*   s.tbl       name -> row; NoEntry where the HashMap has no such key    *)
(*   s.bindings  Checker.scopes laid flat: the ScopeBindings of every      *)
(*               open scope, outermost first                               *)
(*   s.marks     how many bindings there were when each scope was pushed   *)
(*   s.depth     Checker.loop_depth                                        *)
(*   s.diags     the rules reported so far                                 *)
(* Source offsets, payload type names and message wording are left out.    *)
(* The feature switches are all on, as in the shipped configuration.       *)
(***************************************************************************)
EXTENDS Integers, Sequences, FiniteSets

CONSTANTS Names,   \* identifiers a program can use
          NoName   \* the owner of a row that borrows from nothing

ASSUME NamesAssumption == IsFiniteSet(Names) /\ NoName \notin Names

Owning == {"Unique", "Affine"}
Refs   == {"RefRead", "RefWrite"}
OwnKind  == Owning \cup Refs
VarState == {"Unconsumed", "BorrowedRead", "BorrowedWrite", "Consumed"}
Lent     == {"BorrowedRead", "BorrowedWrite"}
Modes    == {"Read", "Write"}

RuleKind == {"UniqueForget", "UseAfterMove", "DoubleMove", "BorrowAfterMove",
             "ConsumeWhileBorrowed", "MutBorrowConflict", "ConsumeInLoop",
             "BorrowEscape", "BranchInconsistent", "UnmappedConstruct",
             "AnnotParseError"}

VarEntry == [kind : OwnKind \cup {"None"}, state : VarState, loop_depth : Nat,
             owner : Names \cup {NoName}, read_borrows : Nat, write_borrows : Nat]

NoEntry == [kind |-> "None", state |-> "Consumed", loop_depth |-> 0,
            owner |-> NoName, read_borrows |-> 0, write_borrows |-> 0]

ScopeBinding == [name : Names, shadowed : VarEntry]

Checker == [tbl : [Names -> VarEntry], bindings : Seq(ScopeBinding),
            marks : Seq(Nat), depth : Nat, diags : SUBSET RuleKind]

FreshOuter(kind, depth, owner) ==  \* mutation: off by one loop
    [kind |-> kind, state |-> "Unconsumed", loop_depth |-> depth - 1,
     owner |-> owner, read_borrows |-> 0, write_borrows |-> 0]
\* A row as every handler creates it: unconsumed, at the current loop depth.
Fresh(kind, depth, owner) ==
    [kind |-> kind, state |-> "Unconsumed", loop_depth |-> depth,
     owner |-> owner, read_borrows |-> 0, write_borrows |-> 0]

Tracked(s, n) == n \in Names /\ s.tbl[n].kind # "None"
TrackedNames(s) == {n \in Names : s.tbl[n].kind # "None"}

Empty == [tbl |-> [n \in Names |-> NoEntry], bindings |-> <<>>, marks |-> <<>>,
          depth |-> 0, diags |-> {}]

Emit(s, rule) == [s EXCEPT !.diags = @ \cup {rule}]

-----------------------------------------------------------------------------
(* Scopes and borrows. *)

PushScope(s) == [s EXCEPT !.marks = Append(@, Len(s.bindings))]

\* add_var: the row that was there, if any, is kept in the scope's binding.
AddVar(s, n, e) ==
    [s EXCEPT !.tbl[n] = e,
              !.bindings = Append(@, [name |-> n, shadowed |-> s.tbl[n]])]

EndBorrowAlways(s, o, kind) ==  \* mutation: the first borrow to end gives back
    IF Tracked(s, o) /\ s.tbl[o].state \in Lent
    THEN [s EXCEPT !.tbl[o].state = "Unconsumed"] ELSE s
\* end_borrow: saturating_sub on the counter of that mode; the last borrow
\* gives the owner back, unless it was consumed in the meantime.
EndBorrow(s, o, kind) ==
    LET e  == s.tbl[o]
        rd == IF kind = "RefRead" /\ e.read_borrows > 0
              THEN e.read_borrows - 1 ELSE e.read_borrows
        wr == IF kind = "RefWrite" /\ e.write_borrows > 0
              THEN e.write_borrows - 1 ELSE e.write_borrows
        st == IF rd = 0 /\ wr = 0 /\ e.state \in Lent
              THEN "Unconsumed" ELSE e.state
    IN  IF ~Tracked(s, o) THEN s
        ELSE [s EXCEPT !.tbl[o] = [e EXCEPT !.read_borrows = rd,
                                            !.write_borrows = wr,
                                            !.state = st]]

RemoveVarUnsettled(s, n) ==  \* mutation: the owner is not given back
    IF s.tbl[n].kind = "Unique" /\ s.tbl[n].state # "Consumed"
    THEN Emit([s EXCEPT !.tbl[n] = NoEntry], "UniqueForget")
    ELSE [s EXCEPT !.tbl[n] = NoEntry]
\* remove_var: settles the row that leaves the table.
RemoveVar(s, n) ==
    LET e    == s.tbl[n]
        gone == [s EXCEPT !.tbl[n] = NoEntry]
    IN  CASE e.kind = "Unique" /\ e.state # "Consumed" -> Emit(gone, "UniqueForget")
          [] e.kind \in Refs /\ e.owner # NoName -> EndBorrow(gone, e.owner, e.kind)
          [] OTHER -> gone

PopBindingKept(s) ==  \* mutation: the row stays
    [s EXCEPT !.bindings = SubSeq(@, 1, Len(@) - 1)]
\* One round of the loop of pop_scope, on the youngest binding.
PopBinding(s) ==
    LET b == s.bindings[Len(s.bindings)]
        r == RemoveVar([s EXCEPT !.bindings = SubSeq(@, 1, Len(@) - 1)], b.name)
    IN  IF b.shadowed.kind = "None" THEN r ELSE [r EXCEPT !.tbl[b.name] = b.shadowed]

\* The checker after k rounds of that loop.
Popped(s, k) ==
    LET pop[i \in 0 .. k] == IF i = 0 THEN s ELSE PopBinding(pop[i - 1])
    IN  pop[k]

PopScope(s) ==
    LET m == s.marks[Len(s.marks)]
        r == Popped(s, Len(s.bindings) - m)
    IN  [r EXCEPT !.marks = SubSeq(@, 1, Len(@) - 1)]

BorrowVerdictShared(s, o, mode) ==  \* mutation: a writer may join readers
    CASE ~Tracked(s, o) -> "AnnotParseError"
      [] Tracked(s, o) /\ s.tbl[o].state = "Consumed" -> "BorrowAfterMove"
      [] Tracked(s, o) /\ s.tbl[o].state \in {"Unconsumed", "BorrowedRead"} -> "ok"
      [] OTHER -> "MutBorrowConflict"
BorrowVerdictUnknown(s, o, mode) ==  \* mutation: an unknown owner is accepted
    IF Tracked(s, o) /\ s.tbl[o].state # "Unconsumed" THEN "MutBorrowConflict" ELSE "ok"
\* begin_borrow: the rule that refuses the borrow, or "ok".
BorrowVerdict(s, o, mode) ==
    LET e == s.tbl[o]
    IN  CASE ~Tracked(s, o) -> "AnnotParseError"
          [] Tracked(s, o) /\ e.state = "Consumed" -> "BorrowAfterMove"
          [] Tracked(s, o) /\ e.state \in {"Unconsumed", "BorrowedRead"} /\ mode = "Read" -> "ok"
          [] Tracked(s, o) /\ e.state = "Unconsumed" /\ mode = "Write"
                /\ e.read_borrows = 0 /\ e.write_borrows = 0 -> "ok"
          [] OTHER -> "MutBorrowConflict"

LendUnmarked(e, mode) ==  \* mutation: the owner's state does not change
    IF mode = "Read" THEN [e EXCEPT !.read_borrows = @ + 1]
    ELSE [e EXCEPT !.write_borrows = @ + 1]
\* The owner of a granted borrow, one borrow of that mode later.
Lend(e, mode) ==
    IF mode = "Read"
    THEN [e EXCEPT !.read_borrows = @ + 1, !.state = "BorrowedRead"]
    ELSE [e EXCEPT !.write_borrows = @ + 1, !.state = "BorrowedWrite"]

BeginBorrowSwapped(s, o, alias, mode) ==  \* mutation: the alias owns itself
    LET v == BorrowVerdict(s, o, mode)
    IN  IF v # "ok" THEN Emit(s, v)
        ELSE AddVar([s EXCEPT !.tbl[o] = Lend(s.tbl[o], mode)], alias,
                    Fresh(IF mode = "Read" THEN "RefRead" ELSE "RefWrite", s.depth, alias))
BeginBorrow(s, o, alias, mode) ==
    LET v    == BorrowVerdict(s, o, mode)
        lent == [s EXCEPT !.tbl[o] = Lend(s.tbl[o], mode)]
        kind == IF mode = "Read" THEN "RefRead" ELSE "RefWrite"
    IN  IF v # "ok" THEN Emit(s, v)
        ELSE AddVar(lent, alias, Fresh(kind, s.depth, o))

\* do_clone: an untracked original is a copy value and its clone stays so.
DoClone(s, o, alias) ==
    LET e == s.tbl[o]
    IN  CASE ~Tracked(s, o) -> s
          [] Tracked(s, o) /\ e.state = "Consumed" -> Emit(s, "UseAfterMove")
          [] Tracked(s, o) /\ e.state \in Lent -> Emit(s, "ConsumeWhileBorrowed")
          [] OTHER -> AddVar(s, alias, Fresh(e.kind, s.depth, NoName))

-----------------------------------------------------------------------------
(* Uses.  Apps counts the appearances of one name in one expression; the   *)
(* decision table only tells 0, 1 and more apart.                          *)

Apps == [consumed : 0 .. 2, read : 0 .. 2, write : 0 .. 2, path : 0 .. 2]
NoApps == [consumed |-> 0, read |-> 0, write |-> 0, path |-> 0]
Move   == [NoApps EXCEPT !.consumed = 1]

Part(n) == CASE n = 0 -> "Zero" [] n = 1 -> "One" [] OTHER -> "More"

ConsumeOnceAnywhere(s, n) == [s EXCEPT !.tbl[n].state = "Consumed"]  \* mutation: in a loop too
ConsumeOnce(s, n) ==
    IF s.depth # s.tbl[n].loop_depth THEN Emit(s, "ConsumeInLoop")
    ELSE [s EXCEPT !.tbl[n].state = "Consumed"]

DecideLent(state, a) ==  \* mutation: what is on loan may be consumed
    CASE a.consumed = 0 -> "ok"
      [] state = "Consumed" -> "UseAfterMove"
      [] OTHER -> IF a.consumed = 1 THEN "consume" ELSE "DoubleMove"
\* The decision table of apply_apps on an owning row: the rule it reports,
\* "consume" when the value moves out, "ok" when nothing happens.
Decide(state, a) ==
    LET c == Part(a.consumed)
        w == Part(a.write)
        borrowOrPath == a.read > 0 \/ a.path > 0
    IN  CASE state = "Unconsumed" /\ c = "More" -> "DoubleMove"
          [] state = "Unconsumed" /\ c = "One" ->
                IF w = "Zero" /\ ~borrowOrPath THEN "consume" ELSE "DoubleMove"
          [] state = "Unconsumed" /\ c = "Zero" ->
                IF w = "Zero" \/ (w = "One" /\ ~borrowOrPath)
                THEN "ok" ELSE "MutBorrowConflict"
          [] state = "BorrowedRead" ->
                IF c # "Zero" \/ w # "Zero" THEN "ConsumeWhileBorrowed"
                ELSE IF a.read > 0 THEN "MutBorrowConflict" ELSE "ok"
          [] state = "BorrowedWrite" ->
                IF a = NoApps THEN "ok"
                ELSE IF c # "Zero" THEN "ConsumeWhileBorrowed" ELSE "MutBorrowConflict"
          [] state = "Consumed" ->
                IF a = NoApps THEN "ok"
                ELSE IF a.read > 0 \/ w # "Zero" THEN "BorrowAfterMove" ELSE "UseAfterMove"

ApplyOwned(s, n, a) ==
    LET v == Decide(s.tbl[n].state, a)
    IN  CASE v = "ok" -> s
          [] v = "consume" -> ConsumeOnce(s, n)
          [] OTHER -> Emit(s, v)

\* Following owner links from a borrow, by name, k links on.
OwnerLink(s, n, k) ==
    LET link[i \in 0 .. k] ==
            IF i = 0 THEN n
            ELSE IF Tracked(s, link[i - 1]) /\ s.tbl[link[i - 1]].kind \in Refs
                 THEN s.tbl[link[i - 1]].owner ELSE link[i - 1]
    IN  link[k]

\* Where a use through the borrow n ends up.  apply_apps recurses along the
\* links; on a cycle of links it would not return (see OwnersEnd).
Root(s, n) == OwnerLink(s, n, Cardinality(Names))

ApplyAppsThrough(s, n, a) ==  \* mutation: the owner's own rules are skipped
    IF Tracked(s, n) /\ s.tbl[n].kind \in Owning THEN ApplyOwned(s, n, a)
    ELSE IF Tracked(s, n) /\ a.consumed > 0 /\ Tracked(s, Root(s, n)) THEN ConsumeOnce(s, Root(s, n))
    ELSE s
\* apply_apps: consuming a borrow consumes what it borrows from, and any
\* other use of a borrow is free.
ApplyApps(s, n, a) ==
    LET o == Root(s, n)
    IN  CASE Tracked(s, n) /\ s.tbl[n].kind \in Owning -> ApplyOwned(s, n, a)
          [] Tracked(s, n) /\ s.tbl[n].kind \in Refs /\ a.consumed > 0
                /\ Tracked(s, o) /\ s.tbl[o].kind \in Owning -> ApplyOwned(s, o, Move)
          [] OTHER -> s

\* check_expr on a plain expression: one decision per name, in the order the
\* HashMap happens to yield its keys.
CheckExpr(s, f, order) ==
    LET after[i \in 0 .. Len(order)] ==
            IF i = 0 THEN s ELSE ApplyApps(after[i - 1], order[i], f[order[i]])
    IN  after[Len(order)]

-----------------------------------------------------------------------------
(* Statements that do not branch. *)

\* add_from_type, for a parameter, a kind directive or an annotated call's
\* result; copy and void types add no row.
AddFromType(s, n, kind) == AddVar(s, n, Fresh(kind, s.depth, NoName))

\* An identifier in value position: consumed once.
MoveOut(s, n) == ApplyApps(s, n, Move)

\* check_var_decl of "let n = src": the new row is added for any owned src,
\* even when moving it was refused; a borrow may not be given a second name.
DeclareMoved(s, n, src) ==
    LET kind == s.tbl[src].kind
        r    == MoveOut(s, src)
    IN  CASE kind \in Owning -> AddVar(r, n, Fresh(kind, s.depth, NoName))
          [] kind \in Refs -> Emit(r, "BorrowEscape")
          [] OTHER -> r

\* discarded_assignment_transfer: when "dst = src" is to move the value.
PlansTransfer(s, dst, src) ==
    /\ Tracked(s, src)
    /\ s.tbl[src].kind \in Owning
    /\ s.tbl[src].state = "Unconsumed"
    /\ Tracked(s, dst) \/ Len(s.marks) = 1

\* finish_discarded_assignment_transfer: nothing moves unless the source was
\* consumed; a tracked destination is settled and keeps its scope's binding.
FinishTransfer(s, dst, kind) ==
    LET new == Fresh(kind, s.depth, NoName)
    IN  IF Tracked(s, dst)
        THEN [RemoveVar(s, dst) EXCEPT !.tbl[dst] = new]
        ELSE AddVar(s, dst, new)

\* The expression statement "dst = src".  Assigning a name to itself moves
\* nothing: its consumption is suppressed.
AssignStatement(s, dst, src) ==
    LET moved   == MoveOut(s, src)
        checked == IF s.tbl[src].kind \in Refs THEN Emit(moved, "BorrowEscape") ELSE moved
    IN  IF ~PlansTransfer(s, dst, src) THEN checked
        ELSE IF dst = src THEN s
        ELSE IF checked.tbl[src].state # "Consumed" THEN checked
        ELSE FinishTransfer(checked, dst, s.tbl[src].kind)

\* return n, up to require_on_exit; a return without argument skips this.
ReturnArgument(s, n) ==
    MoveOut(IF s.tbl[n].kind \in Refs THEN Emit(s, "BorrowEscape") ELSE s, n)

-----------------------------------------------------------------------------
(* Leaving a function, and comparing the tables of two branches. *)

Forgotten(s) == {n \in Names : s.tbl[n].kind = "Unique" /\ s.tbl[n].state # "Consumed"}

\* require_consumed_uniques: every forgotten unique is reported once, and
\* marked consumed so that it is not reported again at the end of its scope.
RequireConsumed(s) ==
    [s EXCEPT !.tbl = [n \in Names |-> IF n \in Forgotten(s)
                                       THEN [s.tbl[n] EXCEPT !.state = "Consumed"]
                                       ELSE s.tbl[n]],
              !.diags = @ \cup IF Forgotten(s) = {} THEN {} ELSE {"UniqueForget"}]

\* tables_consistent: only names in both tables, and only their states.
Agree(t1, t2) ==
    \A n \in Names : t1[n].kind # "None" /\ t2[n].kind # "None" => t1[n].state = t2[n].state

Compare(s, t1, t2) == IF Agree(t1, t2) THEN s ELSE Emit(s, "BranchInconsistent")

=============================================================================
