------------------------------ MODULE RtVerify ------------------------------
(****************************************************************************)
(* crates/rt/src/verifier.rs: symbolic execution of one function body, or of *)
(* a program's top level, with refinement obligations.                       *)
(*                                                                           *)
(* An expression is inferred in a context c: the path's state c.s, the       *)
(* errors so far, the fresh-name counter, and the last expression's value    *)
(* c.val, which is None once something was reported and the code gave up.    *)
(* A statement takes a bundle of paths v (v.states) to a bundle of paths.    *)
(* Provenance of project-authored implementations, imports, callbacks,       *)
(* strings, objects and abstract predicates are left out.                    *)
(****************************************************************************)
EXTENDS RtTerms, FiniteSets

CONSTANT Signatures   \* name -> contract of a refined top-level function

NoPredicate == [t |-> "none"]
NoIndex == [t |-> "none"]
Plain(base) == [base |-> base, index |-> NoIndex, pred |-> NoPredicate]
NoAnnotation == Plain("none")

NoTest == [e |-> "none"]

NoQualifier == [value |-> NoTerm, formula |-> NoTerm]
Qualified(u, formula) == [value |-> u, formula |-> formula]

\* Value: bases are "number", "boolean" and "dense", a DenseArray<number>.
Computed(u, base, qualifier) ==
  [term |-> u, base |-> base, declared |-> "none", qual |-> qualifier, mutable |-> TRUE, trusted |-> TRUE]
None == Computed(NoTerm, "none", NoQualifier)

SortForBase(base) ==
  CASE base = "number" -> "Number" [] base = "boolean" -> "Bool" [] OTHER -> "Ref"
BaseForSort(sort) ==
  CASE sort \in NumericSorts -> "number" [] sort = "Bool" -> "boolean" [] OTHER -> "dense"
SortForIndexed(type) ==
  IF type.index # NoIndex /\ type.base = "number" THEN "Int" ELSE SortForBase(type.base)

\* intrinsic_refinements; the upper bound of a length is beyond the numbers here.
Intrinsics(base, u) ==
  IF base = "dense" THEN <<Node("ge", Length(u), IntTerm(0))>> ELSE <<>>

\* index_formula
IndexFormula(value, index) ==
  IF value.base = "dense" THEN Node("eq", Length(value.term), index)
  ELSE Node("eq", value.term, index)

----------------------------------------------------------------------------
(* State: env, entry_params, assumptions with their valuations, scopes,      *)
(* uninitialized, library_semantics_intact.                                  *)

DefaultState ==
  [env |-> <<>>, entry |-> <<>>, facts |-> <<>>, models |-> AnyValuation,
   scopes |-> <<>>, uninit |-> {}, intact |-> TRUE]

Bound(s, x) == x \in DOMAIN s.env

Assume(s, fact) ==
  IF \E i \in DOMAIN s.facts : s.facts[i] = fact THEN s
  ELSE [s EXCEPT !.facts = Append(@, fact), !.models = Admit(@, fact)]
AssumeAll(s, facts) == FoldLeft(Assume, s, facts)

\* assumptions.retain
Retain(s, keep(_)) ==
  LET kept == SelectSeq(s.facts, keep)
  IN  IF kept = s.facts THEN s
      ELSE [s EXCEPT !.facts = kept, !.models = Valuations(kept)]

With(env, x, value) == (x :> value) @@ env
Without(env, x) == [y \in DOMAIN env \ {x} |-> env[y]]

\* Every value a state holds, the shadowed ones included.
Mapped(s, change(_)) ==
  [s EXCEPT !.env = [x \in DOMAIN @ |-> change(@[x])],
            !.scopes = [i \in DOMAIN @ |->
                          [x \in DOMAIN @[i] |->
                             IF @[i][x].value = None THEN @[i][x]
                             ELSE [@[i][x] EXCEPT !.value = change(@)]]]]

Values(s) ==
  Listed({s.env[x] : x \in DOMAIN s.env}
           \cup ({s.scopes[i][x].value : <<i, x>> \in
                    {p \in (DOMAIN s.scopes) \X UNION {DOMAIN s.scopes[i] : i \in DOMAIN s.scopes} :
                       p[2] \in DOMAIN s.scopes[p[1]]}} \ {None}))

\* What is known of any value without looking at the heap's history.
RestoreIntrinsics(s) ==
  LET trusted == SelectSeq(Values(s), LAMBDA value : value.trusted)
  IN  AssumeAll(s, FlattenSeq([i \in DOMAIN trusted |->
                                 Intrinsics(trusted[i].base, trusted[i].term)]))

\* mutation: qualifiers may still speak of the heap.
InvalidateHeapFactsOnly(s) ==
  RestoreIntrinsics(Retain(s, LAMBDA fact : ~ContainsHeapTerm(fact)))

InvalidateHeapFacts(s) ==
  LET forget(value) == IF ContainsHeapTerm(value.qual.formula)
                         THEN [value EXCEPT !.qual = NoQualifier] ELSE value
  IN  RestoreIntrinsics(Mapped(Retain(s, LAMBDA fact : ~ContainsHeapTerm(fact)), forget))

\* snapshot_heap_measure: what was known of a length is known of the snapshot,
\* and the elements known before are kept.
SnapshotHeapMeasure(s, object, snapshot) ==
  LET measure == Length(object)
      spoken == SelectSeq(s.facts, LAMBDA fact : ContainsTerm(fact, measure))
      split(facts) == FlattenSeq([i \in DOMAIN facts |-> SplitConjuncts(facts[i])])
      kept == SelectSeq(split([i \in DOMAIN spoken |-> Substitute(spoken[i], measure, snapshot)]),
                        LAMBDA fact : ~ContainsHeapTerm(fact))
      indexed == SelectSeq(split(s.facts), LAMBDA fact : FactIndexesObject(fact, object))
  IN  AssumeAll(AssumeAll(InvalidateHeapFacts(s), kept), indexed)

----------------------------------------------------------------------------
(* Contexts *)

Start(v, s) == [s |-> s, errors |-> v.errors, fresh |-> v.fresh, val |-> None]
Report(c, kind) == [c EXCEPT !.errors = Append(@, kind)]
Fail(c, kind) == [Report(c, kind) EXCEPT !.val = None]
Give(c, value) == [c EXCEPT !.val = value]
GaveUp(c) == c.val = None
Fresh(c, sort) == Var(c.fresh + 1, sort)
Tick(c) == [c EXCEPT !.fresh = @ + 1]
Learn(c, facts) == [c EXCEPT !.s = AssumeAll(@, facts)]
LearnQualifier(c, value) ==
  IF value.qual = NoQualifier THEN c ELSE Learn(c, <<value.qual.formula>>)

\* prove
Prove(c, goal, kind) == IF Proves(c.s.facts, c.s.models, goal) THEN c ELSE Report(c, kind)

\* havoc_value, havoc_unmodeled_effects: every binding that can change, or
\* that names a parameter, becomes anything of its base, hidden ones as well.
Changeable(s, x, value) == value.mutable \/ x \in DOMAIN s.entry

Havocked(value, k) ==
  [value EXCEPT !.term = Var(k, SortForBase(value.base)), !.qual = NoQualifier, !.trusted = FALSE]

HavocVisible(c, x) ==
  IF Changeable(c.s, x, c.s.env[x])
    THEN [Tick(c) EXCEPT !.s.env[x] = Havocked(@, c.fresh + 1)] ELSE c

HavocHidden(c, at) ==
  LET hidden == c.s.scopes[at[1]][at[2]].value
  IN  IF hidden # None /\ Changeable(c.s, at[2], hidden)
        THEN [Tick(c) EXCEPT !.s.scopes[at[1]][at[2]].value = Havocked(@, c.fresh + 1)] ELSE c

HavocUnmodeledEffects(c) ==
  LET visible == FoldLeft(HavocVisible, [c EXCEPT !.s = InvalidateHeapFacts(@)],
                          Listed(DOMAIN c.s.env))
      places == UNION {{<<i, x>> : x \in DOMAIN c.s.scopes[i]} : i \in DOMAIN c.s.scopes}
  IN  FoldLeft(HavocHidden, visible, Listed(places))

\* mutation: what a block's declarations hide is left as it is.
CrossVisibly(c) ==
  [FoldLeft(HavocVisible, [c EXCEPT !.s = InvalidateHeapFacts(@)], Listed(DOMAIN c.s.env))
     EXCEPT !.s.intact = FALSE]

\* cross_unmodeled_execution_boundary
Cross(c) == [HavocUnmodeledEffects(c) EXCEPT !.s.intact = FALSE]

\* mutation: the value is bound under no name of its own.
BindValueBare(c, x, value) ==
  [Learn(c, IF value.trusted THEN Intrinsics(value.base, value.term) ELSE <<>>)
     EXCEPT !.s.env = With(@, x, value)]

\* bind_value
BindValue(c, x, value) ==
  LET symbol == Fresh(c, SortOf(value.term))
      qualified == value.qual # NoQualifier
      formula == Substitute(value.qual.formula, value.qual.value, symbol)
      known == <<Node("same", symbol, value.term)>>
               \o (IF value.trusted THEN Intrinsics(value.base, symbol) ELSE <<>>)
               \o (IF qualified THEN <<formula>> ELSE <<>>)
      bound == [value EXCEPT !.term = symbol,
                             !.qual = IF qualified THEN Qualified(symbol, formula) ELSE NoQualifier]
  IN  [Learn(Tick(c), known) EXCEPT !.s.env = With(@, x, bound)]

CheckBase(c, actual, expected) ==
  IF expected \in {"none", actual} THEN c ELSE Report(c, "base")

ProveIndex(c, value, index, with, kind) ==
  Prove(c, IndexFormula(value, PredicateTerm(index, with, "Int")), kind)

\* What an annotation demands of a value, as far as it demands anything.
ProveType(c, value, type, with, expected, kind) ==
  LET indexed == IF type.index = NoIndex THEN c ELSE ProveIndex(c, value, type.index, with, kind)
  IN  IF type.pred = NoPredicate THEN indexed
      ELSE Prove(indexed, PredicateTerm(type.pred, with, expected), kind)

----------------------------------------------------------------------------
(* Scopes *)

Declared(stmts) == {stmts[i].x : i \in {j \in DOMAIN stmts : stmts[j].s = "let"}}
Hidden(s, x) == [value |-> IF Bound(s, x) THEN s.env[x] ELSE None, uninit |-> x \in s.uninit]

\* enter_scope: a declaration hides its name from the start of the block.
EnterScope(s, stmts) ==
  LET names == Declared(stmts)
  IN  [s EXCEPT !.env = [x \in DOMAIN @ \ names |-> @[x]],
                !.uninit = @ \cup names,
                !.scopes = Append(@, [x \in names |-> Hidden(s, x)])]

LeaveScope(s) ==
  LET top == s.scopes[Len(s.scopes)]
      back == {x \in DOMAIN top : top[x].value # None}
      rest == DOMAIN s.env \ DOMAIN top
  IN  [s EXCEPT !.env = [x \in rest \cup back |-> IF x \in back THEN top[x].value ELSE @[x]],
                !.uninit = (@ \ DOMAIN top) \cup {x \in DOMAIN top : top[x].uninit},
                !.scopes = Front(@)]

\* initialize_name: FALSE for a second declaration in one scope, a state else.
DeclaredHere(s, x) == s.scopes # <<>> /\ x \in DOMAIN s.scopes[Len(s.scopes)]
InitializeName(s, x) ==
  LET open == IF s.scopes = <<>> THEN [s EXCEPT !.scopes = <<<<>>>>] ELSE s
  IN  [open EXCEPT !.env = Without(@, x), !.uninit = @ \ {x},
                   !.scopes[Len(open.scopes)] =
                      IF DeclaredHere(s, x) THEN @ ELSE With(@, x, Hidden(s, x))]

----------------------------------------------------------------------------
(* Expressions *)

\* Binding x may be assigned: declared, and not with const.
Assignable(s, x) == Bound(s, x) /\ s.env[x].mutable
RefuseAssignment(c, x) == Fail(c, IF Bound(c.s, x) THEN "immutable" ELSE "untracked")

InferLiteral(n, c) ==
  LET hole == Fresh(c, "Int")
  IN  Give(Tick(c), Computed(IntTerm(n), "number",
                             Qualified(hole, Node("eq", hole, IntTerm(n)))))

InferIdentifier(x, c) ==
  CASE x \in c.s.uninit -> Fail(c, "uninitialized")
    [] Bound(c.s, x) -> Give(c, c.s.env[x])
    [] OTHER -> Fail(c, "untracked")

\* What an assignment stores: the right side, or the old value combined with it.
Combined(op, previous, value) ==
  IF op = "=" THEN value
  ELSE LET u == BinaryTerm(IF op = "+=" THEN "add" ELSE "sub", previous.term, value.term)
       IN  [value EXCEPT !.term = u, !.base = BaseForSort(SortOf(u)), !.qual = NoQualifier]

\* infer_assignment_expression, after its right side
StoreAssigned(c, x, op, previous) ==
  LET value == Combined(op, previous, c.val)
      checked == CheckBase(c, value.base, previous.declared)
      stored == [value EXCEPT !.declared = IF previous.declared = "none" THEN @ ELSE previous.declared,
                              !.mutable = previous.mutable]
  IN  IF value.term = NoTerm THEN Fail(c, "type")
      ELSE Give(BindValue(checked, x, stored), stored)

\* infer_update: x++, ++x, x--, --x
InferUpdate(e, c) ==
  IF ~Assignable(c.s, e.x) THEN RefuseAssignment(c, e.x)
  ELSE IF ~IsNumeric(c.s.env[e.x].term) THEN Fail(c, "type")
  ELSE LET previous == c.s.env[e.x]
           next == BinaryTerm(e.op, previous.term, OneFor(previous.term))
           bound == BindValue(c, e.x, [previous EXCEPT !.term = next, !.qual = NoQualifier])
       IN  Give(bound, Computed(IF e.prefix THEN next ELSE previous.term, "number", NoQualifier))

\* infer_static_member, for length
LengthOf(c) ==
  LET hole == Fresh(c, "Int")
      object == c.val
      length == Length(object.term)
      natural == Node("ge", length, IntTerm(0))
  IN  IF object.base # "dense" \/ ~object.trusted THEN Fail(c, "property")
      ELSE Give(Learn(Tick(LearnQualifier(c, object)), <<natural>>),
                Computed(length, "number", Qualified(hole, Node("and", Node("same", hole, length), natural))))

\* mutation: an index is compared with the length only from above.
ElementOfBelow(c, object) ==
  LET index == AsIntTerm(c.val.term)
      length == Length(object.term)
      i == KnownEquality(c.s.facts, index)
      known == IF index.t = "int" THEN <<index.n>> ELSE i
      n == KnownEquality(c.s.facts, length)
      value == Computed(Element(object.term, index, "Number"), "number", NoQualifier)
  IN  CASE c.val.base # "number" \/ object.base # "dense" \/ index = NoTerm -> Fail(c, "index")
        [] known # <<>> /\ n # <<>> ->
             IF known[1] >= n[1] THEN Fail(c, "bounds") ELSE Give(c, value)
        [] OTHER -> Give(Prove(c, Node("lt", index, length), "bounds"), value)

\* infer_computed_member, after both parts
ElementOf(c, object) ==
  LET index == AsIntTerm(c.val.term)
      length == Length(object.term)
      i == KnownEquality(c.s.facts, index)
      known == IF i # <<>> THEN i ELSE IF index.t = "int" THEN <<index.n>> ELSE <<>>
      n == KnownEquality(c.s.facts, length)
      value == Computed(Element(object.term, index, "Number"), "number", NoQualifier)
  IN  CASE c.val.base # "number" \/ object.base # "dense" \/ index = NoTerm -> Fail(c, "index")
        [] known # <<>> /\ n # <<>> ->
             IF known[1] < 0 \/ known[1] >= n[1] THEN Fail(c, "bounds") ELSE Give(c, value)
        [] OTHER ->
             Give(Prove(c, Node("and", Node("ge", index, IntTerm(0)), Node("lt", index, length)), "bounds"),
                  value)

\* infer_array, from the elements' values: a fresh reference whose facts travel
\* in the qualifier.
ArrayOf(c, elements) ==
  LET array == Fresh(c, "Ref")
      length == Node("eq", Length(array), IntTerm(Len(elements)))
      same == [i \in DOMAIN elements |->
                 Node("same", Element(array, IntTerm(i - 1), "Number"), elements[i].term)]
  IN  Give(Tick(c), Computed(array, "dense", Qualified(array, AndTerms(<<length>> \o same))))

\* apply_library_overload for DenseArray's push (one argument) and pop.
Result(c, facts) ==
  LET result == Fresh(c, "Number")
  IN  Give(Learn(Tick(c), facts),
           Computed(result, "number",
                    IF facts = <<>> THEN NoQualifier ELSE Qualified(result, AndTerms(facts))))

\* The receiver's length just before the method runs, and what survives of the
\* heap; without trust in the library the call may run anything.
Snapshot(c, receiver, trust) ==
  LET taken == [Tick(c) EXCEPT !.s = SnapshotHeapMeasure(@, receiver.term, Fresh(c, "Int"))]
  IN  IF trust THEN taken ELSE Cross(taken)

Push(c, receiver, trust) ==
  LET argument == c.val.term
      old == Fresh(c, "Int")
      taken == Snapshot(c, receiver, trust)
      result == Fresh(taken, "Number")
      longer == Node("add", old, IntTerm(1))
  IN  Result(taken,
             IF ~trust THEN <<>>
             ELSE <<Node("ge", result, NumberTerm(0)), Node("same", result, longer),
                    Node("same", Length(receiver.term), longer),
                    Node("same", Element(receiver.term, Node("add", old, IntTerm(0)), SortOf(argument)),
                         argument)>>)

Pop(c, receiver, trust) ==
  LET old == Fresh(c, "Int")
      taken == Snapshot(c, receiver, trust)
      asked == IF trust THEN Prove(taken, Node("gt", old, IntTerm(0)), "empty") ELSE taken
      result == Fresh(taken, "Number")
      last == Node("sub", old, IntTerm(1))
  IN  Result(asked,
             IF ~trust THEN <<>>
             ELSE <<Node("same", result, Element(receiver.term, last, "Number")),
                    Node("same", Length(receiver.term), last)>>)

\* infer_call on a refined function, after its arguments.
Arguments(contract, values) ==
  [x \in {contract.params[i].x : i \in DOMAIN values} |->
     values[CHOOSE i \in DOMAIN values : contract.params[i].x = x].term]

IndexNames(contract) ==
  (UNION {NamesIn(contract.params[i].type.index) : i \in DOMAIN contract.params}
   \cup NamesIn(contract.ret.index)) \ {"$"}

CheckArgument(c, contract, with, i, value) ==
  LET param == contract.params[i]
      safe == IF param.x \in IndexNames(contract) /\ param.type.base = "number"
                 /\ AsIntTerm(value.term) = NoTerm THEN Report(c, "index") ELSE c
      based == CheckBase(safe, value.base, param.type.base)
      known == IF param.type.base = "dense" /\ ~value.trusted THEN Report(based, "identity") ELSE based
  IN  ProveType(known, value, param.type, with, "any", "argument")

CallResult(c, contract, with) ==
  LET result == Fresh(c, SortForIndexed(contract.ret))
      value == [Computed(result, contract.ret.base, NoQualifier) EXCEPT !.trusted = TRUE]
      promised ==
        (IF contract.ret.index = NoIndex THEN <<>>
         ELSE <<IndexFormula(value, PredicateTerm(contract.ret.index, with, "Int"))>>)
        \o (IF contract.ret.pred = NoPredicate THEN <<>>
            ELSE <<PredicateTerm(contract.ret.pred, ("$" :> result) @@ with, SortOf(result))>>)
  IN  Give(Learn(Tick(c), promised \o Intrinsics(contract.ret.base, result)),
           [value EXCEPT !.qual = IF promised = <<>> THEN NoQualifier
                                  ELSE Qualified(result, AndTerms(promised))])

\* mutation: the caller keeps what it knows across a refined function.
CallKeeping(c, contract, values) ==
  LET known == FoldLeft(LearnQualifier, c, values)
      with == Arguments(contract, values)
      checked == FoldLeft(LAMBDA d, i : CheckArgument(d, contract, with, i, values[i]),
                          known, [i \in DOMAIN values |-> i])
  IN  IF Len(values) # Len(contract.params) THEN Fail(c, "arity")
      ELSE CallResult(checked, contract, with)

Call(c, contract, values) ==
  LET known == FoldLeft(LearnQualifier, c, values)
      with == Arguments(contract, values)
      checked == FoldLeft(LAMBDA d, i : CheckArgument(d, contract, with, i, values[i]),
                          known, [i \in DOMAIN values |-> i])
  IN  IF Len(values) # Len(contract.params) THEN Fail(c, "arity")
      ELSE CallResult(Cross(checked), contract, with)

\* compiler_call_value: a declared function of the platform, run with a
\* callback of the project's, that returns a number.
CompilerCall(c) ==
  LET crossed == Cross(c)
  IN  Give(Tick(crossed), Computed(Fresh(crossed, "Number"), "number", NoQualifier))

\* apply_library_call: an overload that reports leaves the state as it was.
Overload(before, after) ==
  IF Len(after.errors) = Len(before.errors) THEN after
  ELSE [before EXCEPT !.errors = after.errors, !.fresh = after.fresh, !.val = None]

RECURSIVE Infer(_, _)

\* The values of expressions evaluated in order, until one of them gives up; an
\* array's elements, unlike arguments, are learned from one by one.
InferAll(es, c, learning) ==
  FoldLeft(LAMBDA d, e : IF d.failed THEN d
                         ELSE LET n == Infer(e, d.c)
                              IN  [c |-> IF learning /\ ~GaveUp(n) THEN LearnQualifier(n, n.val) ELSE n,
                                   failed |-> GaveUp(n), vals |-> Append(d.vals, n.val)],
           [c |-> c, failed |-> FALSE, vals |-> <<>>], es)

InferBinary(e, c) ==
  LET l == Infer(e.l, c)
      r == Infer(e.r, l)
      u == BinaryTerm(e.op, l.val.term, r.val.term)
  IN  CASE GaveUp(l) -> l
        [] GaveUp(r) -> r
        [] u = NoTerm -> Fail(r, "type")
        [] OTHER -> Give(r, Computed(u, BaseForSort(SortOf(u)), NoQualifier))

\* Both sides are inferred, as if both were always evaluated.
InferLogical(e, c) ==
  LET l == Infer(e.l, c)
      r == Infer(e.r, l)
  IN  CASE GaveUp(l) -> l
        [] GaveUp(r) -> r
        [] l.val.base # "boolean" \/ r.val.base # "boolean" -> Fail(r, "type")
        [] OTHER -> Give(r, Computed(Node(e.op, l.val.term, r.val.term), "boolean", NoQualifier))

InferNot(e, c) ==
  LET d == Infer(e.l, c)
  IN  CASE GaveUp(d) -> d
        [] d.val.base # "boolean" -> Fail(d, "type")
        [] OTHER -> Give(d, Computed(Not(d.val.term), "boolean", NoQualifier))

InferAssignment(e, c) ==
  IF ~Assignable(c.s, e.x) THEN RefuseAssignment(c, e.x)
  ELSE LET d == Infer(e.r, c)
       IN  IF GaveUp(d) THEN d ELSE StoreAssigned(d, e.x, e.op, c.s.env[e.x])

\* infer_library_method on a dense array
InferMethod(e, c) ==
  LET object == Infer(e.l, c)
      receiver == object.val
      ready == LearnQualifier(object, receiver)
      given == IF e.e = "push" THEN Infer(e.r, ready) ELSE ready
      checked == IF e.e = "push" THEN CheckBase(given, given.val.base, "number") ELSE given
      trust == ready.s.intact /\ given.s.intact
  IN  CASE GaveUp(object) -> object
        [] receiver.base # "dense" \/ ~receiver.trusted -> Fail(ready, "method")
        [] GaveUp(given) -> Overload(ready, given)
        [] e.e = "push" -> Overload(ready, Push(checked, receiver, trust))
        [] e.e = "pop" -> Overload(ready, Pop(checked, receiver, trust))

Infer(e, c) ==
  CASE e.e = "literal" -> InferLiteral(e.n, c)
    [] e.e = "name" -> InferIdentifier(e.x, c)
    [] e.e = "binary" -> InferBinary(e, c)
    [] e.e = "logical" -> InferLogical(e, c)
    [] e.e = "not" -> InferNot(e, c)
    [] e.e = "assign" -> InferAssignment(e, c)
    [] e.e = "update" -> InferUpdate(e, c)
    [] e.e = "length" -> LET d == Infer(e.l, c) IN IF GaveUp(d) THEN d ELSE LengthOf(d)
    [] e.e = "element" ->
         LET object == Infer(e.l, c)
             index == Infer(e.r, LearnQualifier(object, object.val))
         IN  IF GaveUp(object) THEN object
             ELSE IF GaveUp(index) THEN index ELSE ElementOf(index, object.val)
    [] e.e = "array" ->
         LET all == InferAll(e.items, c, TRUE)
         IN  IF all.failed THEN all.c ELSE ArrayOf(all.c, all.vals)
    [] e.e \in {"push", "pop"} -> InferMethod(e, c)
    [] e.e = "call" ->
         LET all == InferAll(e.items, c, FALSE)
         IN  IF all.failed THEN all.c ELSE Call(all.c, Signatures[e.x], all.vals)
    [] e.e = "external" -> CompilerCall(c)

----------------------------------------------------------------------------
(* Statements *)

Ending(c) == [states |-> <<c.s>>, errors |-> c.errors, fresh |-> c.fresh]
Dropped(c) == [states |-> <<>>, errors |-> c.errors, fresh |-> c.fresh]

\* A statement on every path; what one path reports the next one sees.
OnPaths(v, step(_)) ==
  FoldLeft(LAMBDA w, s : LET r == step(Start(w, s)) IN [r EXCEPT !.states = w.states \o @],
           [v EXCEPT !.states = <<>>], v.states)

OnStates(v, change(_)) == [v EXCEPT !.states = [i \in DOMAIN @ |-> change(@[i])]]

\* The function whose body is verified, or the top level of the program.
TopLevel == [params |-> <<>>, ret |-> Plain("void")]
Parameters(f) == {f.params[i].x : i \in DOMAIN f.params}

\* verify_variable_declaration: what binds the initializer's value
BindDeclared(c, st) ==
  LET value == [c.val EXCEPT !.mutable = (st.kind = "let")]
      type == st.type
      typed == [value EXCEPT !.base = type.base, !.declared = type.base]
      checked == ProveType(CheckBase(c, value.base, type.base), typed, type,
                           st.x :> value.term, "any", "initializer")
      plain == BindValue(checked, st.x, IF type = NoAnnotation THEN value ELSE typed)
      refined == BindValue(checked, st.x, [typed EXCEPT !.qual = NoQualifier])
      symbol == refined.s.env[st.x].term
      formula == PredicateTerm(type.pred, st.x :> symbol, "any")
  IN  IF type.pred = NoPredicate THEN plain
      ELSE [Learn(refined, <<formula>>) EXCEPT !.s.env[st.x].qual = Qualified(symbol, formula)]

VerifyDeclaration(st, f, c) ==
  LET d == Infer(st.init, [c EXCEPT !.s = InitializeName(@, st.x)])
  IN  CASE st.x \in DOMAIN Signatures \cup Parameters(f) -> Ending(Report(c, "shadows"))
        [] DeclaredHere(c.s, st.x) /\ st.x \notin c.s.uninit -> Ending(Report(c, "duplicate"))
        [] GaveUp(d) -> Ending(d)
        [] OTHER -> Ending(BindDeclared(d, st))

\* narrow_qualifiers
NarrowQualifiers(s, fact) ==
  [s EXCEPT !.env =
     [x \in DOMAIN @ |->
        LET value == @[x]
        IN  IF ~ContainsTerm(fact, value.term) THEN value
            ELSE [value EXCEPT !.qual =
                    Qualified(value.term, IF @ = NoQualifier THEN fact
                                          ELSE Node("and", @.formula, fact))]]]

\* path_is_reachable
PathIsReachable(s) == ~Proves(<<>>, s.models, BoolTerm(FALSE))

\* mutation: the branch taken when the test fails learns that it held.
AssumingHeld(v, fact) ==
  LET said == IF fact.t = "not" THEN fact.l ELSE fact
  IN  OnStates(v, LAMBDA s : NarrowQualifiers(Assume(s, said), said))

\* The path on which a fact holds, or none when there is no such path.
Assuming(v, fact) ==
  LET narrowed == OnStates(v, LAMBDA s : NarrowQualifiers(Assume(s, fact), fact))
  IN  [narrowed EXCEPT !.states = SelectSeq(@, PathIsReachable)]

\* return
VerifyReturn(st, f, c) ==
  LET d == Infer(st.r, c)
      void == f.ret.base = "void"
      based == CheckBase(d, d.val.base, f.ret.base)
      known == IF f.ret.base = "dense" /\ ~d.val.trusted THEN Report(based, "identity") ELSE based
      with == ("$" :> d.val.term) @@ d.s.entry
  IN  IF GaveUp(d) THEN Dropped(IF void THEN d ELSE Report(d, "no value"))
      ELSE Dropped(ProveType(known, d.val, f.ret, with, SortOf(d.val.term), "return"))

\* assigned_names_in_expression: only assignments at the head of an expression
\* and on the right of one are seen.
RECURSIVE AssignedIn(_)
AssignedIn(e) ==
  CASE e.e = "assign" -> {e.x} \cup AssignedIn(e.r)
    [] e.e = "update" -> {e.x}
    [] OTHER -> {}

\* assigned_names_in_statement: a loop's test is not among what it collects.
RECURSIVE AssignedNames(_)
AssignedNames(st) ==
  CASE st.s = "block" -> UNION {AssignedNames(st.stmts[i]) : i \in DOMAIN st.stmts}
    [] st.s = "if" -> AssignedNames(st.then) \cup AssignedNames(st.else)
    [] st.s = "while" -> AssignedNames(st.body)
    [] st.s = "for" -> AssignedNames(st.body) \cup AssignedIn(st.update)
    [] st.s = "expr" -> AssignedIn(st.e)
    [] st.s = "let" -> {st.x}
    [] OTHER -> {}

\* mutation: the heap is left as it was before the loop.
HavocAssignedOnly(c, assigned) ==
  LET one(d, x) ==
        LET old == d.s.env[x].term
            fresh == Fresh(d, SortOf(old))
            forgot == [Tick(d) EXCEPT !.s = Retain(@, LAMBDA fact : ~ContainsTerm(fact, old))]
        IN  [forgot EXCEPT !.s.env[x].term = fresh, !.s.env[x].qual = NoQualifier]
  IN  FoldLeft(one, c, Listed(assigned \cap DOMAIN c.s.env))

\* havoc_assigned
HavocAssigned(c, assigned) ==
  LET one(d, x) ==
        LET old == d.s.env[x].term
            fresh == Fresh(d, SortOf(old))
            forgot == [Tick(d) EXCEPT !.s = Retain(@, LAMBDA fact : ~ContainsTerm(fact, old))]
        IN  [forgot EXCEPT !.s.env[x].term = fresh, !.s.env[x].qual = NoQualifier]
      havocked == FoldLeft(one, c, Listed(assigned \cap DOMAIN c.s.env))
  IN  [havocked EXCEPT !.s = InvalidateHeapFacts(@)]

\* LoopCandidate and instantiate
Candidate(kind, x, y, z) == [kind |-> kind, x |-> x, y |-> y, z |-> z]

BoundTerm(s, x) == IF Bound(s, x) THEN s.env[x].term
                   ELSE IF x \in DOMAIN s.entry THEN s.entry[x] ELSE NoTerm
IntBoundTerm(s, x) ==
  LET u == BoundTerm(s, x) IN IF u # NoTerm /\ SortOf(u) = "Int" THEN u ELSE NoTerm

Instantiate(candidate, f, s) ==
  LET u == s.env[candidate.x].term
      y == IntBoundTerm(s, candidate.y)
      z == IntBoundTerm(s, candidate.z)
      post == [x \in {"$", candidate.x} |-> u]
  IN  CASE ~Bound(s, candidate.x) -> NoTerm
        [] candidate.kind = "ZeroLe" -> Node("le", ZeroFor(u), u)
        [] candidate.kind = "OneLe" -> Node("le", OneFor(u), u)
        [] candidate.kind \in {"LtLength", "LeLength"} ->
             IF ~Bound(s, candidate.y) THEN NoTerm
             ELSE Node(IF candidate.kind = "LtLength" THEN "lt" ELSE "le",
                       u, Length(s.env[candidate.y].term))
        [] candidate.kind = "LeOther" ->
             IF BoundTerm(s, candidate.y) = NoTerm THEN NoTerm
             ELSE Node("le", u, BoundTerm(s, candidate.y))
        [] candidate.kind = "EqOther" ->
             IF SortOf(u) # "Int" \/ y = NoTerm THEN NoTerm ELSE Node("eq", u, y)
        [] candidate.kind = "EqDiff" ->
             IF SortOf(u) # "Int" \/ y = NoTerm \/ z = NoTerm THEN NoTerm
             ELSE Node("eq", u, Node("sub", y, z))
        [] candidate.kind = "Post" ->
             IF ~(NamesIn(f.ret.pred) \subseteq {"$", candidate.x}) THEN NoTerm
             ELSE PredicateTerm(f.ret.pred, post, SortOf(u))

\* scrape_loop_candidates, for one state
Scrape(s, assigned, f) ==
  LET arrays == {x \in DOMAIN s.env : s.env[x].base = "dense"}
      ints == {x \in DOMAIN s.env : SortOf(s.env[x].term) = "Int"}
      names == {x \in assigned \cap DOMAIN s.env : IsNumeric(s.env[x].term)}
      posts == IF f.ret.pred # NoPredicate /\ f.ret.base = "number" THEN names ELSE {}
  IN  {Candidate(kind, x, "", "") : kind \in {"ZeroLe", "OneLe"}, x \in names}
      \cup {Candidate(kind, x, y, "") : kind \in {"LtLength", "LeLength"}, x \in names, y \in arrays}
      \cup {candidate \in {Candidate(kind, x, y, "") :
                             kind \in {"LeOther", "EqOther"}, x \in names \cap ints, y \in ints} :
              candidate.x # candidate.y}
      \cup {candidate \in {Candidate("EqDiff", x, y, z) :
                             x \in names \cap ints, y \in assigned \cap ints, z \in ints \ assigned} :
              candidate.x # candidate.y}
      \cup {Candidate("Post", x, "", "") : x \in posts}

ScrapeAll(states, assigned, f) == UNION {Scrape(states[i], assigned, f) : i \in DOMAIN states}

Instances(candidates, f, s) ==
  Listed({Instantiate(candidate, f, s) : candidate \in candidates} \ {NoTerm})

\* The candidates that every one of these states proves.
Holding(candidates, f, states) ==
  {candidate \in candidates :
     \A i \in DOMAIN states :
       LET goal == Instantiate(candidate, f, states[i])
       IN  goal # NoTerm /\ Proves(states[i].facts, states[i].models, goal)}

RECURSIVE Verify(_, _, _)

VerifyAll(stmts, f, v) == FoldLeft(LAMBDA w, st : Verify(st, f, w), v, stmts)

\* The head of the loop on one path: anything assigned, and the invariants.
LoopHead(c, assigned, invariants, f) ==
  LET head == HavocAssigned(c, assigned)
  IN  Learn(head, Instances(invariants, f, head.s))

\* One turn of the loop: its test, its body and this update of it.
LoopBody(c, loop, update, f) ==
  LET test == Infer(loop.test, c)
      taken == Ending(IF loop.test = NoTest THEN c ELSE Learn(test, <<test.val.term>>))
      after == Verify(loop.body, f, taken)
  IN  IF loop.test # NoTest /\ GaveUp(test) THEN Dropped(test)
      ELSE IF update = NoTest THEN after
      ELSE OnPaths(after, LAMBDA d : Ending(Infer(update, d)))

\* mutation: one round is enough.
FirstRound(candidates, loop, assigned, f, v) ==
  LET bodies == [i \in DOMAIN v.states |->
                   LoopBody(LoopHead(Start(v, v.states[i]), assigned, candidates, f),
                            loop, loop.update, f).states]
  IN  IF \E i \in DOMAIN bodies : bodies[i] = <<>> THEN {}
      ELSE Holding(candidates, f, v.states \o FlattenSeq(bodies))

\* verify_loop: candidates are dropped, a round at a time, until each of those
\* that are left holds on entry and is kept by a body that assumes them all.
RECURSIVE Surviving(_, _, _, _, _)
Surviving(candidates, loop, assigned, f, v) ==
  LET bodies == [i \in DOMAIN v.states |->
                   LoopBody(LoopHead(Start(v, v.states[i]), assigned, candidates, f),
                            loop, loop.update, f).states]
      next == IF \E i \in DOMAIN bodies : bodies[i] = <<>> THEN {}
              ELSE Holding(candidates, f, v.states \o FlattenSeq(bodies))
  IN  IF next = candidates THEN candidates ELSE Surviving(next, loop, assigned, f, v)

\* The loop is left from its havocked head, not from the end of its body.  What
\* a turn reports counts now; the update of a loop without a test is not read.
VerifyLoop(loop, f, v) ==
  LET assigned == AssignedNames(loop)
      invariants == Surviving(ScrapeAll(v.states, assigned, f), loop, assigned, f, v)
      exit(c) ==
        LET head == LoopHead(c, assigned, invariants, f)
            test == Infer(loop.test, head)
            body == LoopBody(head, loop, IF loop.test = NoTest THEN NoTest ELSE loop.update, f)
            left == IF loop.test = NoTest THEN head ELSE Learn(test, <<Not(test.val.term)>>)
        IN  CASE loop.test # NoTest /\ GaveUp(test) -> Dropped(test)
              [] loop.test # NoTest /\ test.val.base # "boolean" -> Dropped(Report(test, "condition"))
              [] OTHER -> [body EXCEPT !.states = <<left.s>>]
  IN  IF v.states = <<>> THEN v ELSE OnPaths(v, exit)

VerifyIf(st, f, c) ==
  LET test == Infer(st.test, c)
      fact == test.val.term
      then == Verify(st.then, f, Assuming(Ending(test), fact))
      rest == [Ending(test) EXCEPT !.errors = then.errors, !.fresh = then.fresh]
      else == Verify(st.else, f, Assuming(rest, Not(fact)))
  IN  CASE GaveUp(test) -> Dropped(test)
        [] test.val.base # "boolean" -> Dropped(Report(test, "condition"))
        [] OTHER -> [else EXCEPT !.states = then.states \o @]

VerifyBlock(stmts, f, v) ==
  OnStates(VerifyAll(stmts, f, OnStates(v, LAMBDA s : EnterScope(s, stmts))), LeaveScope)

\* verify_statement
Verify(st, f, v) ==
  CASE st.s = "block" -> VerifyBlock(st.stmts, f, v)
    [] st.s = "let" -> OnPaths(v, LAMBDA c : VerifyDeclaration(st, f, c))
    [] st.s = "expr" -> OnPaths(v, LAMBDA c : Ending(Infer(st.e, c)))
    [] st.s = "if" -> OnPaths(v, LAMBDA c : VerifyIf(st, f, c))
    [] st.s = "return" -> OnPaths(v, LAMBDA c : VerifyReturn(st, f, c))
    [] st.s = "while" -> VerifyLoop(st, f, v)
    [] st.s = "for" -> VerifyLoop(st, f, OnPaths(v, LAMBDA c : VerifyDeclaration(st.init, f, c)))
    [] st.s = "empty" -> v

----------------------------------------------------------------------------
(* Functions *)

\* verify_function: a parameter that an index names is an integer.
EntryTerm(f, i) ==
  LET param == f.params[i]
  IN  Var(-i, IF param.x \in IndexNames(f) /\ param.type.base = "number"
                THEN "Int" ELSE SortForBase(param.type.base))

EntryState(f) ==
  LET entry == [x \in Parameters(f) |-> EntryTerm(f, CHOOSE i \in DOMAIN f.params : f.params[i].x = x)]
      type(x) == f.params[CHOOSE i \in DOMAIN f.params : f.params[i].x = x].type
      value(x) == [Computed(entry[x], type(x).base, NoQualifier)
                     EXCEPT !.declared = type(x).base, !.mutable = FALSE]
      \* what the parameter's type says of it
      said(x) == (IF type(x).index = NoIndex THEN <<>>
                  ELSE <<IndexFormula(value(x), PredicateTerm(type(x).index, entry, "Int"))>>)
                 \o (IF type(x).pred = NoPredicate THEN <<>>
                     ELSE <<PredicateTerm(type(x).pred, entry, "any")>>)
      \* a predicate's qualifier replaces an index's
      qualified(x) == IF said(x) = <<>> THEN value(x)
                      ELSE [value(x) EXCEPT !.qual = Qualified(entry[x], Last(said(x)))]
      names == [i \in DOMAIN f.params |-> f.params[i].x]
      about(facts(_)) == FlattenSeq([i \in DOMAIN names |-> facts(names[i])])
      bare == [DefaultState EXCEPT !.env = [x \in Parameters(f) |-> qualified(x)], !.entry = entry]
      assumed == AssumeAll(AssumeAll(bare, about(LAMBDA x : Intrinsics(type(x).base, entry[x]))),
                           about(said))
  IN  IF f = TopLevel THEN EnterScope(DefaultState, <<>>) ELSE EnterScope(assumed, <<>>)

Entry(f) == [states |-> <<EntryState(f)>>, errors |-> <<>>, fresh |-> 0]

\* A function that can fall off its end must be void.
VerifyEnd(f, v) ==
  IF v.states # <<>> /\ f.ret.base # "void"
    THEN [v EXCEPT !.errors = Append(@, "may complete")] ELSE v

=============================================================================
