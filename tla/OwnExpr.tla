------------------------------ MODULE OwnExpr ------------------------------
(***************************************************************************)
(* The ownership checker on expressions (crates/own/src/check.rs): which   *)
(* signature a call has, how an expression uses each name, what happens to *)
(* results nobody keeps, and what nested functions capture.                *)
(*                                                                         *)
(* A node is an expression or a statement:                                 *)
(*   op    its kind; x  its identifier, member or declared name            *)
(*   kids  its parts, as the code visits them: the callee first, the right *)
(*         side of an assignment before its target                         *)
(*   ps    the names a function binds for itself                           *)
(*   dir   an ownership directive in front of it                           *)
(* The state is OwnTable's, and with it                                    *)
(*   s.untyped   names whose row has no payload type name                  *)
(*   s.opaque    names whose row is an opaque aggregate                    *)
(*   s.suppress  Checker.suppress_consume; s.ret  Checker.fn_ret           *)
(*   s.bodies    Checker.checked_bodies, of the statement at hand          *)
(* Parentheses, await and type assertions, which peel() takes off, are not *)
(* written; computed keys, destructuring, classes, JSX, tagged templates   *)
(* and annotated nested functions are left out.  There is one payload type.*)
(***************************************************************************)
EXTENDS OwnTable, SequencesExt

CONSTANTS Sigs,     \* dotted name, or type, "#" and method -> signature
          Payload,  \* the name of the payload type, a sequence like the others
          KeyOrder  \* the order in which the HashMap yields its keys

NoNode == [op |-> "none", x |-> NoName, ps |-> {}, dir |-> "", kids |-> <<>>]
Node(op, x, kids) == [NoNode EXCEPT !.op = op, !.x = x, !.kids = kids]

Assigns    == {"set", "put", "putat"}        \* x = e, o.f = e, o[k] = e
Members    == {"field", "optfield", "index"} \* o.f, o?.f, o[k]
Calls      == {"call", "opt"}                \* f(..); in an optional chain: f?.(..), o?.m(..)
Splits     == {"and", "or", "cond"}
Functions  == {"fn", "arrow"}                \* with a body, with an expression
Aggregates == {"array", "object"}
Declarations == {"let", "var"}
Loops == {"while", "dowhile", "forof"}

Right(e)     == e.kids[1]
Callee(e)    == e.kids[1]
Arguments(e) == Tail(e.kids)

\* Visiting parts one after the other.
Through(Visit(_, _), s, parts) == FoldLeft(Visit, s, parts)

\* A loop: its condition, or what it iterates over, and its body.
Header(loop) == loop.kids[IF loop.op = "dowhile" THEN 2 ELSE 1]
LoopBody(loop) == loop.kids[IF loop.op = "dowhile" THEN 1 ELSE 2]

-----------------------------------------------------------------------------
(* What an expression is syntactically: the name it comes down to. *)

RECURSIVE IdentName(_), AsCall(_), IsCall(_), MoveSource(_), CalleeName(_),
          OptionalAccess(_), NewType(_)

IdentName(e) ==
    CASE e.op = "id"        -> e.x
      [] e.op = "seq"       -> IdentName(Last(e.kids))
      [] e.op \in Assigns   -> IdentName(Right(e))
      [] OTHER              -> NoName

AsCall(e) ==
    CASE e.op \in Calls     -> e
      [] e.op \in Assigns   -> AsCall(Right(e))
      [] OTHER              -> NoNode

IsCall(e) ==
    CASE e.op = "seq"       -> IsCall(Last(e.kids))
      [] e.op = "new"       -> TRUE
      [] e.op = "and"       -> IsCall(e.kids[2])
      [] e.op = "or"        -> IsCall(e.kids[1]) \/ IsCall(e.kids[2])
      [] e.op = "cond"      -> IsCall(e.kids[2]) \/ IsCall(e.kids[3])
      [] OTHER              -> AsCall(e) # NoNode

\* ident_move_src: the name whose value an initialiser moves.
MoveSource(e) ==
    CASE e.op = "id"        -> e.x
      [] e.op = "seq"       -> MoveSource(Last(e.kids))
      [] e.op \in Assigns   -> MoveSource(Right(e))
      [] e.op = "cond"      -> IF MoveSource(e.kids[2]) = MoveSource(e.kids[3])
                               THEN MoveSource(e.kids[2]) ELSE NoName
      [] e.op = "and"       -> MoveSource(e.kids[2])
      [] e.op = "or"        -> IF MoveSource(e.kids[1]) = NoName /\ ~IsCall(e.kids[1])
                               THEN MoveSource(e.kids[2]) ELSE MoveSource(e.kids[1])
      [] OTHER              -> NoName

CalleeName(e) ==
    CASE e.op = "id"        -> <<e.x>>
      [] e.op \in {"field", "optfield"} ->
            IF CalleeName(e.kids[1]) = <<>> THEN <<>> ELSE Append(CalleeName(e.kids[1]), e.x)
      [] e.op \in Assigns   -> CalleeName(Right(e))
      [] e.op = "seq"       -> CalleeName(Last(e.kids))
      [] e.op = "and"       -> CalleeName(e.kids[2])
      [] e.op = "or"        -> IF CalleeName(e.kids[1]) # <<>> THEN CalleeName(e.kids[1])
                               ELSE CalleeName(e.kids[2])
      [] e.op = "cond"      -> IF CalleeName(e.kids[2]) # <<>> THEN CalleeName(e.kids[2])
                               ELSE CalleeName(e.kids[3])
      [] OTHER              -> <<>>

OptionalAccess(e) == e.op \in Members /\ (e.op = "optfield" \/ OptionalAccess(e.kids[1]))

\* new_instance_type
NewType(e) ==
    CASE e.op = "new"       -> CalleeName(Callee(e))
      [] e.op \in Assigns   -> NewType(Right(e))
      [] e.op = "seq"       -> NewType(Last(e.kids))
      [] e.op = "cond"      -> IF NewType(e.kids[2]) = NewType(e.kids[3])
                               THEN NewType(e.kids[2]) ELSE <<>>
      [] e.op = "and"       -> NewType(e.kids[2])
      [] e.op = "or"        -> IF NewType(e.kids[1]) # <<>> THEN NewType(e.kids[1])
                               ELSE NewType(e.kids[2])
      [] OTHER              -> <<>>

-----------------------------------------------------------------------------
(* Signatures.  An unknown callee has none. *)

Unknown == [params |-> <<>>, ret |-> "None"]
SigAt(name) == IF name \in DOMAIN Sigs THEN Sigs[name] ELSE Unknown

ArgModes == Modes \cup {"Consume", "Path"}

ParamMode(kind) ==
    CASE kind = "RefRead"  -> "Read"
      [] kind = "RefWrite" -> "Write"
      [] kind \in {"Copy", "Void"} -> "Path"
      [] OTHER -> "Consume"

ReceiverMode(sig) == IF sig.params = <<>> THEN "Consume" ELSE ParamMode(sig.params[1])

\* arg_mode of the i-th parameter: a directive decides, then the signature;
\* surplus arguments never consume, arguments of an unknown callee do.
ArgMode(e, sig, i) ==
    LET n == Len(sig.params)
    IN  CASE e.dir # "" -> e.dir
          [] e.dir = "" /\ sig = Unknown -> "Consume"
          [] e.dir = "" /\ sig # Unknown /\ i <= n -> ParamMode(sig.params[i])
          [] OTHER -> IF n > 0 /\ ParamMode(sig.params[n]) \in Modes
                      THEN ParamMode(sig.params[n]) ELSE "Path"

RECURSIVE CallReturn(_, _)

\* The object of a method call, and the name that is its receiver.
Object(e) == IF Callee(e).op \in Members THEN Callee(e).kids[1] ELSE NoNode
Receiver(e) == IF IdentName(Object(e)) # NoName THEN IdentName(Object(e)) ELSE MoveSource(Object(e))

\* instance_sig: by the type of the receiver's row, of a new instance, or of
\* what the receiver's call returns.
InstanceSig(s, e) ==
    LET recv == Receiver(e)
        type == CASE recv # NoName -> IF Tracked(s, recv) /\ recv \notin s.untyped
                                      THEN Payload ELSE <<>>
                  [] recv = NoName /\ NewType(Object(e)) # <<>> -> NewType(Object(e))
                  [] OTHER -> IF CallReturn(s, Object(e)) \in {"None", "Void"}
                              THEN <<>> ELSE Payload
    IN  IF Callee(e).op \in {"field", "optfield"} THEN SigAt(type \o <<"#", Callee(e).x>>)
        ELSE Unknown

CallSig(s, e) == IF InstanceSig(s, e) # Unknown THEN InstanceSig(s, e)
                 ELSE SigAt(CalleeName(Callee(e)))

\* call_return_type: the kind of what an expression hands over, "None" if it
\* is not known to be a call.
CallReturn(s, e) ==
    LET left == CallReturn(s, e.kids[1])
    IN  CASE e.op = "seq"      -> CallReturn(s, Last(e.kids))
          [] e.op \in Assigns  -> CallReturn(s, Right(e))
          [] e.op = "cond"     -> IF CallReturn(s, e.kids[2]) = "Unique" /\ CallReturn(s, e.kids[3]) = "Unique"
                                  THEN "Unique" ELSE "None"
          [] e.op = "and"      -> CallReturn(s, e.kids[2])
          [] e.op = "or"       -> IF CallReturn(s, e.kids[2]) = "Unique" THEN "Unique" ELSE left
          [] e.op = "new"      -> SigAt(CalleeName(Callee(e))).ret
          [] e.op \in Calls    -> CallSig(s, e).ret
          [] OTHER             -> "None"

-----------------------------------------------------------------------------
(* How an expression uses one name: Apps, counted up to two.               *)

Capped(k) == IF k > 2 THEN 2 ELSE k
PlusOnce(a, b) ==  \* mutation: a use that is already counted is not counted again
    [use \in DOMAIN NoApps |-> IF a[use] > 0 THEN a[use] ELSE b[use]]
Plus(a, b) == [use \in DOMAIN NoApps |-> Capped(a[use] + b[use])]
Total(counts) == FoldLeft(Plus, NoApps, counts)
PathOnce == [NoApps EXCEPT !.path = 1]

\* as_non_consuming
NonConsuming(a) == [a EXCEPT !.consumed = 0, !.path = Capped(a.path + a.consumed)]

\* count_arg_ident: the name itself, handed over in a mode.
CountMode(s, n, mode) ==
    CASE mode = "Consume" -> IF s.suppress = n THEN NoApps ELSE Move
      [] mode = "Read"    -> [NoApps EXCEPT !.read = 1]
      [] mode = "Write"   -> [NoApps EXCEPT !.write = 1]
      [] OTHER            -> PathOnce

\* optional_call_has_definite_callee
DefiniteCallee(e) == ~OptionalAccess(Callee(e)) /\ SigAt(CalleeName(Callee(e))) # Unknown

RECURSIVE Count(_, _, _)

\* The object of a member access is only a path to it.
CountHead(s, e, n) == IF IdentName(e) = n THEN PathOnce ELSE Count(s, e, n)

CountAll(s, parts, n) == Total([i \in 1 .. Len(parts) |-> Count(s, parts[i], n)])

\* Arguments against parameters: the receiver of a method is parameter 1.
CountArguments(s, args, n, sig, shift) ==
    Total([i \in 1 .. Len(args) |->
             IF args[i].op # "spread" /\ IdentName(args[i]) = n
             THEN CountMode(s, n, ArgMode(args[i], sig, i + shift))
             ELSE Count(s, args[i], n)])

CountCallReceiverPath(s, e, n) ==  \* mutation: the receiver is only a path
    LET sig == InstanceSig(s, e)
    IN  IF sig # Unknown
        THEN Plus(CountHead(s, Object(e), n), CountArguments(s, Arguments(e), n, sig, 1))
        ELSE Plus(Count(s, Callee(e), n),
                  CountArguments(s, Arguments(e), n, SigAt(CalleeName(Callee(e))), 0))
CountCall(s, e, n) ==
    LET sig == InstanceSig(s, e)
    IN  IF sig # Unknown
        THEN Total(<<IF IdentName(Object(e)) = n THEN NoApps ELSE Count(s, Object(e), n),
                     IF Receiver(e) = n THEN CountMode(s, n, ReceiverMode(sig)) ELSE NoApps,
                     CountArguments(s, Arguments(e), n, sig, 1)>>)
        ELSE Plus(Count(s, Callee(e), n),
                  CountArguments(s, Arguments(e), n, SigAt(CalleeName(Callee(e))), 0))

\* A call that may not run consumes none of the names it is given.
CountOptionalCall(s, e, n) ==
    Plus(Count(s, Callee(e), n),
         Total([i \in 1 .. Len(Arguments(e)) |->
                  IF Arguments(e)[i].op = "spread" THEN NoApps
                  ELSE CountHead(s, Arguments(e)[i], n)]))

Count(s, e, n) ==
    CASE e.op = "id"       -> IF e.x = n THEN CountMode(s, n, "Consume") ELSE NoApps
      [] e.op = "call"     -> CountCall(s, e, n)
      [] e.op = "opt"      -> IF DefiniteCallee(e) THEN CountCall(s, e, n)
                              ELSE CountOptionalCall(s, e, n)
      [] e.op = "new"      -> Plus(Count(s, Callee(e), n),
                                   CountArguments(s, Arguments(e), n, SigAt(CalleeName(Callee(e))), 0))
      [] e.op \in Members  -> Plus(CountHead(s, e.kids[1], n), CountAll(s, Tail(e.kids), n))
      [] e.op \in {"put", "putat"} ->
            Plus(Count(s, Right(e), n),
                 Plus(CountHead(s, e.kids[2], n), CountAll(s, SubSeq(e.kids, 3, Len(e.kids)), n)))
      [] e.op = "void" /\ n \in s.opaque /\ Tracked(s, n) -> NonConsuming(Count(s, e.kids[1], n))
      [] e.op \in Splits \cup Functions \cup {"lit"} -> NoApps
      [] OTHER             -> CountAll(s, e.kids, n)

-----------------------------------------------------------------------------
(* What a nested function captures.                                        *)

\* collect_hoisted_var_names, and the names a list of statements declares.
RECURSIVE HoistedBy(_), Captured(_, _), CapturedBy(_, _)

HoistedByLet(stmt) ==  \* mutation: let is hoisted out of its block, as var is
    CASE stmt.op \in Declarations -> {stmt.x}
      [] stmt.op \in Loops -> HoistedBy(LoopBody(stmt))
      [] stmt.op = "block"  -> UNION {HoistedBy(k) : k \in ToSet(stmt.kids)}
      [] OTHER              -> {}
HoistedBy(stmt) ==
    CASE stmt.op = "var"    -> {stmt.x}
      [] stmt.op \in Loops -> HoistedBy(LoopBody(stmt))
      [] stmt.op = "block"  -> UNION {HoistedBy(k) : k \in ToSet(stmt.kids)}
      [] OTHER              -> {}
Hoisted(body) == UNION {HoistedBy(k) : k \in ToSet(body)}

Declared(body) == {k.x : k \in {d \in ToSet(body) : d.op \in Declarations \cup {"function"}}}

\* report_captures_statements
CapturedIn(body, owned) == UNION {CapturedBy(k, owned \ Declared(body)) : k \in ToSet(body)}

FunctionCaptures(f, owned) ==
    IF f.op = "arrow" THEN Captured(f.kids[1], owned \ f.ps)
    ELSE CapturedIn(f.kids, (owned \ f.ps) \ Hoisted(f.kids))

\* report_captures_stmt
CapturedBy(stmt, owned) ==
    CASE stmt.op = "function" -> FunctionCaptures(stmt, owned)
      [] stmt.op = "block"    -> CapturedIn(stmt.kids, owned)
      [] stmt.op \in Loops    -> Captured(Header(stmt), owned) \cup CapturedBy(LoopBody(stmt), owned)
      [] OTHER -> UNION {Captured(k, owned) : k \in ToSet(stmt.kids)}

\* The parts of an expression without the spreads among the arguments.
Unspread(parts) == {k \in ToSet(parts) : k.op # "spread"}

\* report_captures_expr: the owned names that occur, in the positions looked at.
Captured(e, owned) ==
    ({IdentName(e)} \cap owned) \cup
    CASE e.op \in Functions -> FunctionCaptures(e, owned)
      [] e.op \in Assigns   -> Captured(Right(e), owned)
      [] e.op = "opt"       -> UNION {Captured(k, owned) : k \in Unspread(e.kids)}
      [] OTHER              -> UNION {Captured(k, owned) : k \in ToSet(e.kids)}

\* check_nested_fn_captures: where an expression looks for functions.
RECURSIVE NestedCaptures(_, _)
NestedCaptures(e, owned) ==
    LET among(parts) == UNION {NestedCaptures(k, owned) : k \in parts}
    IN  CASE e.op \in Functions -> FunctionCaptures(e, owned)
          [] e.op \in Assigns   -> NestedCaptures(Right(e), owned)
          [] e.op \in Calls \cup {"new", "array", "object", "unary", "void", "seq", "optfield"} \cup Splits ->
                among(Unspread(e.kids))
          [] OTHER              -> {}

Report(s, wrong, rule) == IF wrong THEN Emit(s, rule) ELSE s

-----------------------------------------------------------------------------
(* check_expr, and what it calls.  Each operator takes the checker's state *)
(* and a node, and returns the next state.                                 *)

RECURSIVE CheckExpression(_, _), UniqueArg(_, _, _, _), UniqueRvalues(_, _),
          VisitExclusive(_, _), ContainedFn(_, _), Methodish(_, _),
          Discard(_, _), CallSubexprs(_, _), SequencePrefix(_, _),
          ReturnedUnique(_, _), FnInit(_, _), CheckFunction(_, _), CheckStatement(_, _)

\* Following an expression to the parts that may become its value: Keep is
\* done to those, whatever else it evaluates is discarded.  keepsLeft tells
\* which side of "||" is kept.
Along(s, e, Keep(_, _), keepsLeft) ==
    CASE e.op = "seq"     -> Keep(Through(Discard, s, Front(e.kids)), Last(e.kids))
      [] e.op \in Assigns -> Keep(Through(Discard, s, Tail(e.kids)), Right(e))
      [] e.op = "cond"    -> Keep(Keep(Discard(s, e.kids[1]), e.kids[2]), e.kids[3])
      [] e.op = "or" /\ keepsLeft -> Discard(Keep(s, e.kids[1]), e.kids[2])
      [] OTHER            -> Keep(Discard(s, e.kids[1]), e.kids[2])
Followed == Assigns \cup Splits \cup {"seq"}

YieldsUnique(s, e) == CallReturn(s, e) = "Unique"

\* check_unmapped_in_expr; "eval" and the prototype are not written.
Unmapped(s, e) ==
    LET access(m) == m.op = "index" /\ Tracked(s, IdentName(m.kids[1]))
    IN  access(e) \/ (e.op = "call" /\ access(Callee(e)))

\* check_expr on an expression that does not split.
CheckPlain(s, e) ==
    LET used    == FoldLeft(LAMBDA r, n : ApplyApps(r, n, Count(r, e, n)), s, KeyOrder)
        from    == IF e.op \in Assigns THEN IdentName(Right(e)) ELSE NoName
        escaped == Report(used, Tracked(used, from) /\ used.tbl[from].kind \in Refs, "BorrowEscape")
    IN  ContainedFn(VisitExclusive(UniqueRvalues(escaped, e), e), e)

CheckExpression(s, e) ==
    LET noted == Report(s, Unmapped(s, e) \/ NestedCaptures(e, TrackedNames(s)) # {}, "UnmappedConstruct")
        first == CheckExpression(noted, e.kids[1])
        next  == CheckExpression(first, e.kids[2])
        other == CheckExpression([next EXCEPT !.tbl = first.tbl], e.kids[3])
    IN  CASE e.op \in {"and", "or"} -> Compare(next, first.tbl, next.tbl)
          [] e.op = "cond" -> [Compare(other, next.tbl, other.tbl) EXCEPT !.tbl = next.tbl]
          [] OTHER -> CheckPlain(noted, e)

\* The arguments of the call an expression comes down to.
UniqueArgs(s, args, sig, shift) ==
    LET at(r, i) == IF args[i].op = "spread" THEN Discard(r, args[i].kids[1])
                    ELSE UniqueArg(r, args[i], sig, i + shift)
    IN  FoldLeft(at, s, [i \in 1 .. Len(args) |-> i])

UniqueRvalues(s, e) ==
    LET call == AsCall(e)
        sig  == InstanceSig(s, call)
    IN  CASE call # NoNode ->
               IF sig # Unknown THEN UniqueArgs(s, Arguments(call), sig, 1)
               ELSE UniqueArgs(s, Arguments(call), SigAt(CalleeName(Callee(call))), 0)
          [] call = NoNode /\ e.op = "new" ->
               UniqueArgs(s, Arguments(e), SigAt(CalleeName(Callee(e))), 0)
          [] OTHER -> s

UniqueArgKept(s, e, sig, i) ==  \* mutation: any callee may be given a fresh value
    IF e.op \in Followed
    THEN Along(s, e, LAMBDA r, k : UniqueArg(r, k, sig, i), YieldsUnique(s, e.kids[1]))
    ELSE IF YieldsUnique(s, e) THEN s ELSE Discard(s, e)
\* An argument may be a fresh unique value only where the callee consumes it.
UniqueArg(s, e, sig, i) ==
    LET consumes == ArgMode(e, sig, i) = "Consume"
        settled  == IF YieldsUnique(s, e) THEN s ELSE Discard(s, e)
    IN  CASE e.op \in Followed ->
               Along(s, e, LAMBDA r, k : UniqueArg(r, k, sig, i),
                     e.op = "or" /\ YieldsUnique(s, e.kids[1]))
          [] e.op = "void" \/ (e.op \notin Followed /\ ~consumes) -> Discard(s, e)
          [] OTHER -> IF e.op \in Calls \cup {"new"} THEN UniqueRvalues(settled, e) ELSE settled

\* visit_exclusive_nested and visit_exclusive_maybe: the parts that may not be
\* evaluated were not counted, so each is checked as an expression of its own.
VisitMaybe(s, e) == IF e.op \in Splits THEN CheckExpression(s, e) ELSE VisitExclusive(s, e)

VisitExclusive(s, e) ==
    CASE e.op \in Calls \cup {"new"} ->
            Through(VisitMaybe, VisitExclusive(s, Callee(e)), Arguments(e))
      [] e.op \in Assigns -> VisitMaybe(Through(VisitMaybe, s, Tail(e.kids)), Right(e))
      [] e.op \in Splits \cup Functions -> s
      [] OTHER -> Through(VisitMaybe, s, e.kids)

\* check_contained_fn with check_nested_fn_values.
ContainedFn(s, e) ==
    CASE e.op \in Functions -> CheckFunction(s, e)
      [] e.op = "object" -> Methodish(s, e)
      [] e.op \in Assigns -> ContainedFn(s, Right(e))
      [] e.op = "optfield" -> s
      [] e.op = "opt" -> Through(ContainedFn, s, SelectSeq(e.kids, LAMBDA k : k.op # "spread"))
      [] OTHER -> Through(ContainedFn, s, e.kids)

\* check_methodish_expr, with check_object: an object is entered once.
Property(s, p) == IF p.op = "spread" THEN ContainedFn(s, p.kids[1]) ELSE Methodish(s, p)
Methodish(s, e) ==
    CASE e.op \in Functions -> CheckFunction(s, e)
      [] e.op = "object" /\ e \notin s.bodies ->
            Through(Property, [s EXCEPT !.bodies = @ \cup {e}], e.kids)
      [] e.op \in Assigns -> Methodish(s, Right(e))
      [] e.op = "seq" -> Methodish(s, Last(e.kids))
      [] e.op \in {"and", "or"} -> Through(Methodish, s, e.kids)
      [] e.op = "cond" -> Through(Methodish, s, Tail(e.kids))
      [] OTHER -> s

\* check_function and check_arrow_unannotated: a nested function is checked
\* once, in an empty table; only what it reports is kept.
FunctionBody(s, f) ==
    IF f.op = "arrow" THEN Discard(CheckExpression(s, f.kids[1]), f.kids[1])
    ELSE Through(CheckStatement, s, f.kids)
CheckFunction(s, f) ==
    LET noted == Report([s EXCEPT !.bodies = @ \cup {f}],
                        FunctionCaptures(f, TrackedNames(s)) # {}, "UnmappedConstruct")
        inner == PushScope([noted EXCEPT !.tbl = [n \in Names |-> NoEntry], !.bindings = <<>>,
                                         !.marks = <<>>, !.depth = 0, !.ret = "None"])
        done  == PopScope(FunctionBody(inner, f))
    IN  IF f \in s.bodies THEN s
        ELSE [noted EXCEPT !.diags = done.diags, !.bodies = done.bodies, !.suppress = done.suppress]

-----------------------------------------------------------------------------
(* Results that nobody keeps.                                              *)

\* check_call_callee: a receiver that the method consumes is not discarded.
CallCallee(s, e) ==
    LET sig == InstanceSig(s, e)
    IN  IF sig # Unknown /\ ReceiverMode(sig) = "Consume" /\ IdentName(Object(e)) = NoName
        THEN CallSubexprs(s, Object(e))
        ELSE Discard(s, Callee(e))

CallSubexprs(s, e) ==
    CASE e.op \in Followed ->
            Along(s, e, CallSubexprs, e.op = "or" /\ YieldsUnique(s, e.kids[1]))
      [] e.op \in Calls -> UniqueRvalues(CallCallee(s, e), e)
      [] e.op = "new" -> UniqueRvalues(Discard(s, Callee(e)), e)
      [] OTHER -> s

\* check_discard: a fresh unique value must not be dropped.
Discard(s, e) ==
    LET entered == CASE e.op = "new" -> Discard(s, Callee(e))
                     [] e.op = "object" -> Methodish(s, e)
                     [] OTHER -> s
        dropped == Report(entered, YieldsUnique(entered, e), "UniqueForget")
    IN  CASE e.op \in Functions -> ContainedFn(s, e)
          [] e.op \in Calls -> UniqueRvalues(CallCallee(dropped, e), e)
          [] e.op = "new" -> UniqueRvalues(dropped, e)
          [] OTHER -> Through(Discard, entered, e.kids)

\* discard_sequence_prefix
SequencePrefix(s, e) ==
    IF e.op \in Followed
    THEN Along(s, e, SequencePrefix,
               e.op = "or" /\ (YieldsUnique(s, e.kids[1]) \/ MoveSource(e.kids[1]) # NoName))
    ELSE s

\* check_returned_unique
ReturnedUnique(s, e) ==
    IF e.op \in Followed /\ (e.op \in Splits => s.ret = "Unique")
    THEN Along(s, e, ReturnedUnique, e.op = "or" /\ YieldsUnique(s, e.kids[1]))
    ELSE IF YieldsUnique(s, e) /\ s.ret = "Unique" THEN s ELSE Discard(s, e)

-----------------------------------------------------------------------------
(* Statements.                                                             *)

\* What a row says besides its entry: its type's name, and whether it is an
\* opaque aggregate.
FlagsOf(s, n) == (IF n \in s.untyped THEN {"untyped"} ELSE {}) \cup
                 (IF n \in s.opaque THEN {"opaque"} ELSE {})
Flagged(s, n, flags) ==
    [s EXCEPT !.untyped = IF "untyped" \in flags THEN @ \cup {n} ELSE @ \ {n},
              !.opaque = IF "opaque" \in flags THEN @ \cup {n} ELSE @ \ {n}]
AddRow(s, n, kind, flags) == Flagged(AddVar(s, n, Fresh(kind, s.depth, NoName)), n, flags)

\* check_fn_or_arrow_init
FnInit(s, e) ==
    CASE e.op \in Functions -> CheckFunction(s, e)
      [] e.op \in Assigns -> FnInit(s, Right(e))
      [] e.op = "seq" -> FnInit(s, Last(e.kids))
      [] e.op \in {"and", "or"} -> Through(FnInit, s, e.kids)
      [] e.op = "cond" -> Through(FnInit, s, Tail(e.kids))
      [] OTHER -> s

\* aggregate_transfer: the owned names a literal stores directly, if the
\* literal can become their owner.
RECURSIVE AggregateSources(_, _)
AggregateSources(s, e) ==
    CASE e.op = "id" -> IF Tracked(s, e.x) /\ s.tbl[e.x].kind \in Owning THEN <<e.x>> ELSE <<>>
      [] e.op \in Aggregates -> FlattenSeq([i \in 1 .. Len(e.kids) |-> AggregateSources(s, e.kids[i])])
      [] OTHER -> <<>>
Transfers(s, e) ==
    LET from == AggregateSources(s, e)
    IN  /\ e.op \in Aggregates /\ from # <<>>
        /\ IsInjective(from)
        /\ \A n \in ToSet(from) : s.tbl[n].state = "Unconsumed"
AggregateKindAffine(s, e) == "Affine"  \* mutation: a literal is never unique
AggregateKind(s, e) ==
    IF \E n \in ToSet(AggregateSources(s, e)) : s.tbl[n].kind = "Unique" THEN "Unique" ELSE "Affine"

\* A borrow or a clone of the name in the initialiser, which consumes nothing.
Lending(s, d) ==
    LET owner == d.kids[1].x
        made  == IF d.dir = "clone" THEN DoClone(s, owner, d.x) ELSE BeginBorrow(s, owner, d.x, d.dir)
        flags == IF d.dir = "clone" THEN FlagsOf(s, owner) ELSE FlagsOf(s, owner) \ {"opaque"}
        named == IF made.bindings = s.bindings THEN made ELSE Flagged(made, d.x, flags)
    IN  [CheckExpression([named EXCEPT !.suppress = owner], d.kids[1]) EXCEPT !.suppress = NoName]

\* check_var_decl of "let x = init", in the order of its cases.
Initialised(s, d) ==
    LET init    == d.kids[1]
        entered == FnInit(s, init)
        src     == MoveSource(init)
        kind    == IF Tracked(s, src) THEN s.tbl[src].kind ELSE "None"
        used    == SequencePrefix(CheckExpression(entered, init), init)
        ret     == CallReturn(used, init)
        typed   == IF ret \in OwnKind THEN AddRow(used, d.x, ret, {}) ELSE used
        filled  == Transfers(s, init)
                   /\ \A n \in ToSet(AggregateSources(s, init)) : used.tbl[n].state = "Consumed"
    IN  IF d.dir \in OwnKind THEN AddRow(used, d.x, d.dir, {})
        ELSE IF kind \in Owning THEN AddRow(used, d.x, kind, FlagsOf(used, src))
        ELSE IF kind \in Refs THEN Emit(used, "BorrowEscape")
        ELSE IF ret \in Owning THEN CallSubexprs(typed, init)
        ELSE IF filled
             THEN Discard(AddRow(used, d.x, AggregateKind(s, init), {"untyped", "opaque"}), init)
        ELSE Discard(SequencePrefix(typed, init), init)

Declaration(s, d) ==
    CASE d.dir \in Modes \cup {"clone"} -> Lending(s, d)
      [] d.dir \notin Modes \cup {"clone"} /\ d.kids # <<>> -> Initialised(s, d)
      [] OTHER -> IF d.dir \in OwnKind THEN AddRow(s, d.x, d.dir, {}) ELSE s

\* discarded_assignment_transfer: a name may be assigned to itself if that is
\* the only use of it.
TransferPlanned(s, e) ==
    /\ e.op = "set"
    /\ PlansTransfer(s, e.x, MoveSource(Right(e)))
    /\ MoveSource(Right(e)) = e.x => Count(s, Right(e), e.x) = Move

ExpressionStatement(s, e) ==
    LET src     == MoveSource(Right(e))
        planned == TransferPlanned(s, e)
        checked == IF planned /\ src = e.x
                   THEN [CheckExpression([s EXCEPT !.suppress = src], e) EXCEPT !.suppress = s.suppress]
                   ELSE CheckExpression(s, e)
        moved   == planned /\ src # e.x /\ checked.tbl[src].state = "Consumed"
        settled == Flagged(FinishTransfer(checked, e.x, s.tbl[src].kind), e.x, FlagsOf(s, src))
    IN  Discard(IF moved THEN settled ELSE checked, e)

Return(s, d) ==
    LET e       == d.kids[1]
        escapes == e.op = "id" /\ Tracked(s, e.x) /\ s.tbl[e.x].kind \in Refs
    IN  RequireConsumed(IF d.kids = <<>> THEN s
                        ELSE ReturnedUnique(CheckExpression(Report(s, escapes, "BorrowEscape"), e), e))

Evaluated(s, e) == Discard(CheckExpression(s, e), e)

LoopStillOpen(s, d) ==  \* mutation: loop_depth is not taken back
    LET deeper(r) == [r EXCEPT !.depth = @ + 1]
        once(r)   == PopScope(CheckStatement(PushScope(r), LoopBody(d)))
    IN  CASE d.op = "while"   -> once(Evaluated(deeper(s), Header(d)))
          [] d.op = "dowhile" -> Evaluated(once(deeper(s)), Header(d))
          [] d.op = "forof"   -> once(deeper(Evaluated(s, Header(d))))
Loop(s, d) ==
    LET deeper(r) == [r EXCEPT !.depth = @ + 1]
        once(r)   == PopScope(CheckStatement(PushScope(r), LoopBody(d)))
        last      == CASE d.op = "while"   -> once(Evaluated(deeper(s), Header(d)))
                       [] d.op = "dowhile" -> Evaluated(once(deeper(s)), Header(d))
                       [] d.op = "forof"   -> once(deeper(Evaluated(s, Header(d))))
    IN  [last EXCEPT !.depth = @ - 1]

CheckStatement(s, d) ==
    CASE d.op \in Declarations -> Declaration(s, d)
      [] d.op = "function" -> CheckFunction(s, d)
      [] d.op = "expr"     -> ExpressionStatement(s, d.kids[1])
      [] d.op = "drop"     -> MoveOut(s, d.x)
      [] d.op = "block"    -> PopScope(Through(CheckStatement, PushScope(s), d.kids))
      [] d.op \in Loops    -> Loop(s, d)
      [] d.op = "return"   -> Return(s, d)
      [] d.op = "throw"    -> RequireConsumed(Evaluated(s, d.kids[1]))
=============================================================================
