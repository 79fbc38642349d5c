------------------------------ MODULE OwnEval ------------------------------
(***************************************************************************)
(* What JavaScript does with the expressions and statements of OwnExpr, in *)
(* the meaning the ownership rules give them (crates/own/docs/design.md):  *)
(* a name in value position hands its value over, a call takes what its    *)
(* signature says, an unknown callee takes everything, a literal that      *)
(* stores an owned name owns it.  None of this is code of the checker.     *)
(*                                                                         *)
(* A world is what the running function holds:                             *)
(*   w.slot    name -> cell; st is "none" (not declared), "plain", "own",  *)
(*             "gone" (handed over), "ref" (a borrow), "dead" (a borrow of *)
(*             what was handed over)                                       *)
(*   w.faults  what went wrong;  w.ended  the function has returned        *)
(*   w.ret     what it returns, "Unique" or "None"                         *)
(* Conditions go either way, except that an owned value is truthy: every   *)
(* operator returns the set of its outcomes.                               *)
(***************************************************************************)
EXTENDS Integers, Sequences, FiniteSets, SequencesExt

CONSTANTS Names, NoName, Sigs, Payload,
          Rounds   \* how often a loop body is repeated

Hazards == {"UseAfterMove", "ConsumedThroughBorrow", "DanglingBorrow", "Leak",
            "Lost", "AliasedWrite", "Captured"}

Holdable == {"Unique", "Affine"}
CellState == [st : {"none", "plain", "own", "gone", "ref", "dead"}, kind : Holdable \cup {"None"},
              of : Names \cup {NoName}, box : BOOLEAN]
Cell(st, kind, of, box) == [st |-> st, kind |-> kind, of |-> of, box |-> box]
Unset == Cell("none", "None", NoName, FALSE)
Plain == [Unset EXCEPT !.st = "plain"]
Outset == [slot |-> [n \in Names |-> Unset], faults |-> {}, ret |-> "None", ended |-> FALSE]

\* A value: its kind, whether a call just made it, whether it is a container;
\* or the name it is read through, nothing having been done with it yet.
Nothing == [kind |-> "None", fresh |-> FALSE, box |-> FALSE, name |-> NoName]
Value(kind, fresh, box) == [Nothing EXCEPT !.kind = kind, !.fresh = fresh, !.box = box]
Result(w, v) == [w |-> w, v |-> v]

Blame(w, hazard) == [w EXCEPT !.faults = @ \cup {hazard}]
Wrong(w, is, hazard) == IF is THEN Blame(w, hazard) ELSE w

\* The owner's value leaves it: borrows of it are dead.
Released(w, n) ==
    [w EXCEPT !.slot = [m \in Names |-> IF w.slot[m].st = "ref" /\ w.slot[m].of = n
                                        THEN [w.slot[m] EXCEPT !.st = "dead"] ELSE w.slot[m]]]

Touch(w, n) == Wrong(Wrong(w, w.slot[n].st = "gone", "UseAfterMove"),
                     w.slot[n].st = "dead", "DanglingBorrow")

\* A name gives its value away.
Surrender(w, n) ==
    LET c == w.slot[n]
    IN  CASE c.st = "own" -> Result([Released(w, n) EXCEPT !.slot[n].st = "gone"],
                                    Value(c.kind, FALSE, c.box))
          [] c.st = "gone" -> Result(Blame(w, "UseAfterMove"), Nothing)
          [] c.st \in {"ref", "dead"} -> Result(Blame(w, "ConsumedThroughBorrow"), Nothing)
          [] OTHER -> Result(w, Nothing)

Discarded(w, v) == Wrong(w, v.fresh /\ v.kind = "Unique", "Lost")

\* Names that leave their scope.
Leave(w, names) ==
    LET left == Wrong(w, \E n \in names : w.slot[n].st = "own" /\ w.slot[n].kind = "Unique", "Leak")
    IN  [left EXCEPT !.slot = [n \in Names |-> IF n \in names THEN Unset ELSE w.slot[n]]]

\* A name receives a value: what it held is overwritten.
Receive(w, n, cell) ==
    [Released(Wrong(w, w.slot[n].st = "own" /\ w.slot[n].kind = "Unique", "Leak"), n)
        EXCEPT !.slot[n] = cell]
Holding(v) == IF v.kind \in Holdable THEN Cell("own", v.kind, NoName, v.box) ELSE Plain

-----------------------------------------------------------------------------
(* The names a function uses of the one around it.                         *)

Binders == {"let", "var", "function"}
RECURSIVE FreeIn(_), VarsOf(_)
VarsOf(e) ==
    CASE e.op = "var" -> {e.x}
      [] e.op \in {"fn", "arrow", "function"} -> {}
      [] OTHER -> UNION {VarsOf(k) : k \in ToSet(e.kids)}
FreeIn(e) ==
    LET inside == UNION {FreeIn(k) : k \in ToSet(e.kids)}
        bound  == {k.x : k \in {d \in ToSet(e.kids) : d.op \in Binders}}
        vars   == UNION {VarsOf(k) : k \in ToSet(e.kids)}
    IN  CASE e.op \in {"id", "set"} -> {e.x} \cup inside
          [] e.op = "block" -> inside \ bound
          [] e.op \in {"fn", "arrow", "function"} -> ((inside \ bound) \ vars) \ e.ps
          [] OTHER -> inside

-----------------------------------------------------------------------------
(* Contracts of calls.                                                     *)

NoContract == [params |-> <<>>, ret |-> "None"]
Contract(name) == IF name \in DOMAIN Sigs THEN Sigs[name] ELSE NoContract
Takes(kind) == CASE kind = "RefRead" -> "Read" [] kind = "RefWrite" -> "Write"
                 [] kind \in {"Copy", "Void"} -> "Path" [] OTHER -> "Consume"
\* How the i-th argument is taken.
Manner(sig, i, dir) ==
    LET n == Len(sig.params)
    IN  IF dir # "" THEN dir
        ELSE IF sig = NoContract THEN "Consume"
        ELSE IF i <= n THEN Takes(sig.params[i])
        ELSE IF n > 0 /\ Takes(sig.params[n]) # "Consume" THEN Takes(sig.params[n]) ELSE "Path"

\* Given: a value, or a name, and how it is taken.
Given(v, how) == [v |-> v, how |-> how]
Clashes(w, given) ==
    \E i, j \in DOMAIN given :
        /\ i # j /\ given[i].v.name # NoName /\ given[i].v.name = given[j].v.name
        /\ w.slot[given[i].v.name].st = "own"
        /\ \/ given[i].how = "Write" /\ given[j].how # "none"
           \/ given[i].how = "Consume" /\ given[j].how \in {"Read", "Write", "Consume"}
Hand(w, g) ==
    CASE g.v.name = NoName -> IF g.how = "Consume" THEN w ELSE Discarded(w, g.v)
      [] g.v.name # NoName /\ g.how = "Consume" -> Surrender(w, g.v.name).w
      [] OTHER -> Touch(w, g.v.name)
Call(w, given, ret) ==
    Result(FoldLeft(Hand, Wrong(w, Clashes(w, given), "AliasedWrite"), given),
           IF ret \in Holdable THEN Value(ret, TRUE, FALSE) ELSE Nothing)

-----------------------------------------------------------------------------
(* Expressions and statements.                                             *)

RECURSIVE Locate(_, _), Perform(_, _), PerformAll(_, _)

\* The value of an expression, taken out of the name it is read through.
Eval(w, e) == {IF r.v.name = NoName THEN r ELSE Surrender(r.w, r.v.name) : r \in Locate(w, e)}
Dropped(w, e) == {Discarded(r.w, r.v) : r \in Eval(w, e)}
DroppedAll(w, parts) ==
    FoldLeft(LAMBDA ws, e : UNION {Dropped(u, e) : u \in ws}, {w}, parts)
\* The object of a member access is looked at, not taken.
Reached(w, e) == {IF r.v.name = NoName THEN Discarded(r.w, r.v) ELSE Touch(r.w, r.v.name)
                     : r \in Locate(w, e)}

\* Arguments, left to right, before the call itself.
Arranged(rs, args, sig, shift) ==
    LET arrange(r, i) ==
            IF args[i].op = "spread"
            THEN {[r EXCEPT !.w = u] : u \in Dropped(r.w, args[i].kids[1])}
            ELSE {[w |-> l.w, given |-> Append(r.given, Given(l.v, Manner(sig, i + shift, args[i].dir)))]
                    : l \in Locate(r.w, args[i])}
    IN  FoldLeft(LAMBDA all, i : UNION {arrange(r, i) : r \in all}, rs, [i \in 1 .. Len(args) |-> i])
Called(w, given, args, sig, shift) ==
    {Call(r.w, r.given, sig.ret) : r \in Arranged({[w |-> w, given |-> given]}, args, sig, shift)}

\* Does a place hold a value of the payload type?
HasMethods(w, v) ==
    IF v.name = NoName THEN v.kind \in Holdable /\ ~v.box
    ELSE w.slot[v.name].st \in {"own", "gone", "ref", "dead"} /\ ~w.slot[v.name].box

CallMethod(r, e) ==
    LET sig   == Contract(Payload \o <<"#", e.kids[1].x>>)
        known == HasMethods(r.w, r.v) /\ sig # NoContract
        runs  == IF known THEN Called(r.w, <<Given(r.v, Manner(sig, 1, ""))>>, Tail(e.kids), sig, 1)
                 ELSE Called(r.w, <<Given(r.v, "Path")>>, Tail(e.kids), NoContract, 0)
    IN  IF e.op = "opt" /\ ~HasMethods(r.w, r.v) THEN runs \cup {Result(r.w, Nothing)} ELSE runs

CallFunction(w, e) ==
    LET callee == e.kids[1]
        sig    == IF callee.op = "id" THEN Contract(<<callee.x>>) ELSE NoContract
        runs   == UNION {Called(u, <<>>, Tail(e.kids), sig, 0) : u \in Dropped(w, callee)}
    IN  IF e.op = "opt" /\ sig = NoContract THEN runs \cup {Result(w, Nothing)} ELSE runs

\* A function value: it may run at any time, so what it uses of its
\* surroundings must not be owned by them; otherwise it runs on its own.
Closure(w, f) ==
    LET held == \E n \in FreeIn(f) \cap Names : w.slot[n].st \in {"own", "gone", "ref", "dead"}
        body == IF f.op = "arrow" THEN Dropped(Outset, f.kids[1]) ELSE PerformAll(Outset, f.kids)
        done == {Leave(u, Names).faults : u \in body}
    IN  IF held THEN {Blame(w, "Captured")}
        ELSE {[w EXCEPT !.faults = @ \cup faults] : faults \in done}

\* A literal owns the owned names it stores.
Stored(w, e) ==
    LET add(r, k) == {Result(Discarded(x.w, x.v),
                             CASE x.v.fresh \/ x.v.kind = "None" \/ k.op = "spread" -> r.v
                               [] OTHER -> IF r.v.kind = "Unique" THEN r.v
                                           ELSE Value(x.v.kind, FALSE, TRUE))
                        : x \in Eval(r.w, k)}
    IN  FoldLeft(LAMBDA all, k : UNION {add(r, k) : r \in all}, {Result(w, Nothing)}, e.kids)

Either(w, e) == UNION {Locate(u, e) : u \in w}
Locate(w, e) ==
    CASE e.op = "id" -> {Result(w, IF e.x \in Names THEN [Nothing EXCEPT !.name = e.x] ELSE Nothing)}
      [] e.op = "lit" -> {Result(w, Nothing)}
      [] e.op \in {"fn", "arrow"} -> {Result(u, Nothing) : u \in Closure(w, e)}
      [] e.op \in {"call", "opt"} ->
            IF e.kids[1].op \in {"field", "optfield"}
            THEN UNION {CallMethod(r, e) : r \in Locate(w, e.kids[1].kids[1])}
            ELSE CallFunction(w, e)
      [] e.op = "new" -> CallFunction(w, e)
      [] e.op \in {"field", "optfield", "index"} ->
            {Result(x, Nothing) : x \in UNION {DroppedAll(u, Tail(e.kids)) : u \in Reached(w, e.kids[1])}}
      [] e.op = "set" -> {Result(Receive(r.w, e.x, Holding(r.v)), Nothing) : r \in Eval(w, e.kids[1])}
      [] e.op \in {"put", "putat"} ->
            {Result(x, Nothing) : x \in
                UNION {DroppedAll(u, Tail(Tail(e.kids))) : u \in
                    UNION {Reached(d, e.kids[2]) : d \in Dropped(w, e.kids[1])}}}
      [] e.op = "void" ->
            {Result(u, Nothing) : u \in
                UNION {IF r.v.name # NoName /\ r.w.slot[r.v.name].box THEN {Touch(r.w, r.v.name)}
                       ELSE Dropped(w, e.kids[1]) : r \in Locate(w, e.kids[1])}}
      [] e.op = "and" ->
            UNION {(IF r.v.kind = "None" THEN {Result(r.w, Nothing)} ELSE {})
                   \cup Eval(Discarded(r.w, r.v), e.kids[2]) : r \in Eval(w, e.kids[1])}
      [] e.op = "or" ->
            UNION {IF r.v.kind = "None" THEN {r} \cup Eval(r.w, e.kids[2]) ELSE {r} : r \in Eval(w, e.kids[1])}
      [] e.op = "cond" ->
            UNION {Eval(u, e.kids[2]) \cup Eval(u, e.kids[3]) : u \in Dropped(w, e.kids[1])}
      [] e.op = "seq" -> Either(DroppedAll(w, Front(e.kids)), Last(e.kids))
      [] e.op \in {"array", "object"} -> Stored(w, e)
      [] e.op = "spread" -> {Result(u, Nothing) : u \in Dropped(w, e.kids[1])}
      [] OTHER -> {Result(u, Nothing) : u \in DroppedAll(w, e.kids)}

\* Statements, until the function returns.
PerformAll(w, body) ==
    FoldLeft(LAMBDA ws, d : UNION {IF u.ended THEN {u} ELSE Perform(u, d) : u \in ws}, {w}, body)

\* Leaving the function: a unique result is handed to the caller.
Ended(w, d) ==
    LET left == IF d.kids = <<>> THEN {w}
                ELSE {IF d.op = "return" /\ w.ret = "Unique" THEN r.w ELSE Discarded(r.w, r.v)
                        : r \in Eval(w, d.kids[1])}
    IN  {[Leave(u, Names) EXCEPT !.ended = TRUE] : u \in left}

NotYet(w) == {n \in Names : w.slot[n].st = "none"}
Scoped(w, body) == {Leave(u, NotYet(w)) : u \in PerformAll(w, body)}

RECURSIVE Repeated(_, _, _, _)
\* A loop: its head, then, if it goes on, its body and again.
Repeated(w, head, body, k) ==
    LET ready == IF head = <<>> THEN {w} ELSE Dropped(w, head[1])
    IN  ready \cup IF k = 0 THEN {} ELSE UNION {Repeated(x, head, body, k - 1) : x \in
                                          UNION {Scoped(u, body) : u \in ready}}

Perform(w, d) ==
    CASE d.op \in {"let", "var"} ->
            CASE d.dir \in {"Read", "Write"} ->
                    {LET o == d.kids[1].x
                     IN  [Touch(w, o) EXCEPT !.slot[d.x] = Cell("ref", "None", o, w.slot[o].box)]}
              [] d.dir = "clone" ->
                    {LET o == d.kids[1].x IN [Touch(w, o) EXCEPT !.slot[d.x] = w.slot[o]]}
              [] d.dir \in Holdable ->
                    {[u EXCEPT !.slot[d.x] = Cell("own", d.dir, NoName, FALSE)]
                        : u \in DroppedAll(w, d.kids)}
              [] OTHER ->
                    IF d.kids = <<>> THEN {[w EXCEPT !.slot[d.x] = Plain]}
                    ELSE {[r.w EXCEPT !.slot[d.x] = Holding(r.v)] : r \in Eval(w, d.kids[1])}
      [] d.op = "function" -> Closure(w, d)
      [] d.op = "expr" -> Dropped(w, d.kids[1])
      [] d.op = "drop" -> {Surrender(w, d.x).w}
      [] d.op = "block" -> Scoped(w, d.kids)
      [] d.op = "while" -> Repeated(w, <<d.kids[1]>>, <<d.kids[2]>>, Rounds)
      [] d.op = "dowhile" -> UNION {Repeated(u, <<d.kids[2]>>, <<d.kids[1]>>, Rounds - 1)
                                      : u \in Scoped(w, <<d.kids[1]>>)}
      [] d.op = "forof" -> UNION {Repeated(u, <<>>, <<d.kids[2]>>, Rounds) : u \in Dropped(w, d.kids[1])}
      [] d.op \in {"return", "throw"} -> Ended(w, d)
=============================================================================
