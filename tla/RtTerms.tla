------------------------------- MODULE RtTerms -------------------------------
(****************************************************************************)
(* crates/rt/src/verifier.rs: the terms of the refinement logic, what they   *)
(* say of a valuation, and when an implication is proved.                    *)
(*                                                                           *)
(* The prover is Z3 on a quantifier-free query whose variables are           *)
(* constants and whose lengths and elements are uninterpreted functions of a *)
(* reference; only "unsat" is a proof.  Here the same query is decided by    *)
(* enumerating the valuations of the facts over a small range of numbers.    *)
(* The valuations are kept with the facts, fact by fact.                     *)
(****************************************************************************)
EXTENDS Integers, Sequences, SequencesExt, TLC

CONSTANTS Least, Most   \* the numbers of valuations and of runs

ASSUME NumbersAssumption == Least \in Int /\ Most \in Nat /\ Least <= 0 /\ Most < 10

Numbers == Least .. Most
NaN == Most + 10        \* a binary64 number that no comparison is true of
Unknown == Most + 20    \* a value of the uninterpreted int-to-number function

\* The elements of a set in some order (SetToSeq tries all of them).
Listed(set) == FoldSet(LAMBDA x, list : Append(list, x), <<>>, set)

NumericSorts == {"Number", "Int"}
Sorts == {"Number", "Int", "Bool", "Ref"}

----------------------------------------------------------------------------
(* Terms.  Strings, products, predicate atoms and members other than length  *)
(* are left out.                                                             *)

NoTerm == [t |-> "none"]
IntTerm(n) == [t |-> "int", n |-> n]
NumberTerm(n) == [t |-> "number", n |-> n]
BoolTerm(b) == [t |-> "bool", b |-> b]
Var(k, sort) == [t |-> "var", k |-> k, sort |-> sort]
Length(r) == [t |-> "length", l |-> r]                    \* collection_length
Element(r, i, sort) == [t |-> "index", l |-> r, r |-> i, sort |-> sort]
Not(p) == [t |-> "not", l |-> p]
Node(op, l, r) == [t |-> op, l |-> l, r |-> r]

Arithmetic == {"add", "sub"}
Connectives == {"and", "or"}

Parts(u) == IF "r" \in DOMAIN u THEN {u.l, u.r} ELSE IF "l" \in DOMAIN u THEN {u.l} ELSE {}

\* Term::sort
RECURSIVE SortOf(_)
SortOf(u) ==
  CASE u.t = "int" -> "Int"
    [] u.t = "number" -> "Number"
    [] u.t \in {"var", "index"} -> u.sort
    [] u.t = "length" -> "Int"
    [] u.t \in Arithmetic ->
         IF SortOf(u.l) = "Int" /\ SortOf(u.r) = "Int" THEN "Int" ELSE "Number"
    [] OTHER -> "Bool"

IsNumeric(u) == SortOf(u) \in NumericSorts

RECURSIVE ContainsTerm(_, _)
ContainsTerm(u, needle) == u = needle \/ \E p \in Parts(u) : ContainsTerm(p, needle)

RECURSIVE ContainsHeapTerm(_)
ContainsHeapTerm(u) == u.t \in {"length", "index"} \/ \E p \in Parts(u) : ContainsHeapTerm(p)

RECURSIVE Substitute(_, _, _)
Substitute(u, target, by) ==
  IF u = target THEN by
  ELSE IF "r" \in DOMAIN u
    THEN [u EXCEPT !.l = Substitute(u.l, target, by), !.r = Substitute(u.r, target, by)]
  ELSE IF "l" \in DOMAIN u THEN [u EXCEPT !.l = Substitute(u.l, target, by)]
  ELSE u

RECURSIVE SplitConjuncts(_)
SplitConjuncts(u) ==
  IF u.t = "and" THEN SplitConjuncts(u.l) \o SplitConjuncts(u.r) ELSE <<u>>

AndTerms(terms) ==
  IF terms = <<>> THEN BoolTerm(TRUE)
  ELSE FoldLeft(LAMBDA l, r : Node("and", l, r), Head(terms), Tail(terms))

FactIndexesObject(fact, object) ==
  /\ fact.t \in {"same", "eq"}
  /\ \E u \in Parts(fact) : u.t = "index" /\ u.l = object

\* The values some fact gives a term outright.
RECURSIVE EqualitiesIn(_, _)
EqualitiesIn(u, target) ==
  CASE u.t = "and" -> EqualitiesIn(u.l, target) \o EqualitiesIn(u.r, target)
    [] u.t \in {"same", "eq"} ->
         IF u.l = target /\ u.r.t \in {"int", "number"} THEN <<u.r.n>>
         ELSE IF u.r = target /\ u.l.t \in {"int", "number"} THEN <<u.l.n>> ELSE <<>>
    [] OTHER -> <<>>

\* known_number_equality: the first of them, as a sequence of at most one.
KnownEquality(facts, target) ==
  LET all == FlattenSeq([i \in DOMAIN facts |-> EqualitiesIn(facts[i], target)])
  IN  IF all = <<>> THEN <<>> ELSE <<Head(all)>>

\* as_int_term; NoTerm where the code has None.
AsIntTerm(u) ==
  CASE u.t = "int" -> u
    [] u.t = "number" -> IntTerm(u.n)
    [] u.t \in {"var", "length", "index", "add", "sub"} /\ SortOf(u) = "Int" -> u
    [] OTHER -> NoTerm

\* binary_term and predicate_binary, which agree on the operators used here.
BinaryTerm(op, l, r) ==
  CASE op \in {"eq", "ne"} /\ (SortOf(l) = SortOf(r) \/ (IsNumeric(l) /\ IsNumeric(r))) -> Node(op, l, r)
    [] op \in {"gt", "lt", "ge", "le"} \cup Arithmetic /\ IsNumeric(l) /\ IsNumeric(r) -> Node(op, l, r)
    [] OTHER -> NoTerm

ZeroFor(u) == IF SortOf(u) = "Int" THEN IntTerm(0) ELSE NumberTerm(0)
OneFor(u) == IF SortOf(u) = "Int" THEN IntTerm(1) ELSE NumberTerm(1)

----------------------------------------------------------------------------
(* Predicates of annotations are terms whose names are not replaced yet:     *)
(* Name("$") is the value itself, a literal is [t |-> "literal", n |-> 0].   *)

Name(x) == [t |-> "name", x |-> x]
Literal(n) == [t |-> "literal", n |-> n]

RECURSIVE NamesIn(_)
NamesIn(p) == IF p.t = "name" THEN {p.x} ELSE UNION {NamesIn(q) : q \in Parts(p)}

\* inferred_numeric_sort
InferredSort(p, with, expected) ==
  IF expected \in NumericSorts THEN expected
  ELSE LET sorts == {SortOf(with[x]) : x \in NamesIn(p) \cap DOMAIN with}
       IN  IF sorts = {"Int"} THEN "Int" ELSE "Number"

HasLiteral(p) == \E q \in Parts(p) : q.t = "literal"

\* predicate_term: literals take the sort of what they are compared with.
RECURSIVE PredicateTerm(_, _, _)
PredicateTerm(p, with, expected) ==
  CASE p.t = "literal" -> IF expected = "Number" THEN NumberTerm(p.n) ELSE IntTerm(p.n)
    [] p.t = "name" -> with[p.x]
    [] p.t = "length" -> Length(PredicateTerm(p.l, with, "any"))
    [] p.t = "not" -> Not(PredicateTerm(p.l, with, "Bool"))
    [] p.t \in Connectives ->
         Node(p.t, PredicateTerm(p.l, with, "Bool"), PredicateTerm(p.r, with, "Bool"))
    [] OTHER ->
         LET sort == IF p.t \in {"eq", "ne"} /\ HasLiteral(p) THEN "Number"
                     ELSE InferredSort(p, with, expected)
         IN  BinaryTerm(p.t, PredicateTerm(p.l, with, sort), PredicateTerm(p.r, with, sort))

----------------------------------------------------------------------------
(* Valuations: functions from cells to values.  A cell is a variable, the    *)
(* length of a reference, or an element of one; the latter are functions of  *)
(* the reference's value, which makes them congruent.                        *)

Truth(b) == IF b THEN 1 ELSE 0

Cell(u, v, value(_, _)) ==
  CASE u.t = "var" -> <<"var", u.k>>
    [] u.t = "length" -> <<"length", value(u.l, v)>>
    [] OTHER -> <<"index", value(u.l, v), value(u.r, v), u.sort>>

\* The relation of IEEE-754 and of integers; where the one side is converted,
\* a literal converts exactly (int_conversion_axioms), anything else to some
\* number.
Converted(u, side, n) ==
  IF SortOf(u) = "Int" /\ SortOf(side) = "Number" /\ u.t # "int" THEN Unknown ELSE n

Compare(op, a, b) ==
  CASE a = Unknown \/ b = Unknown -> Unknown
    [] op = "same" -> Truth(a = b)
    [] op = "eq" -> Truth(a = b /\ a # NaN)
    [] op = "ne" -> Truth(a # b \/ a = NaN)
    [] OTHER -> Truth(/\ a # NaN /\ b # NaN
                      /\ CASE op = "gt" -> a > b [] op = "lt" -> a < b
                           [] op = "ge" -> a >= b [] op = "le" -> a <= b)

Compute(op, a, b) ==
  CASE a = Unknown \/ b = Unknown -> Unknown
    [] a = NaN \/ b = NaN -> NaN
    [] op = "add" -> a + b
    [] op = "sub" -> a - b

RECURSIVE Meaning(_, _)
Meaning(u, v) ==
  CASE u.t \in {"int", "number"} -> u.n
    [] u.t = "bool" -> Truth(u.b)
    [] u.t \in {"var", "length", "index"} -> v[Cell(u, v, Meaning)]
    [] u.t = "not" -> LET a == Meaning(u.l, v) IN IF a = Unknown THEN a ELSE 1 - a
    [] u.t = "and" ->
         LET a == Meaning(u.l, v)
             b == Meaning(u.r, v)
         IN  IF a = 0 \/ b = 0 THEN 0 ELSE IF a = 1 /\ b = 1 THEN 1 ELSE Unknown
    [] u.t = "or" ->
         LET a == Meaning(u.l, v)
             b == Meaning(u.r, v)
         IN  IF a = 1 \/ b = 1 THEN 1 ELSE IF a = 0 /\ b = 0 THEN 0 ELSE Unknown
    [] OTHER ->
         LET a == Converted(u.l, u.r, Meaning(u.l, v))
             b == Converted(u.r, u.l, Meaning(u.r, v))
         IN  IF u.t \in Arithmetic THEN Compute(u.t, a, b) ELSE Compare(u.t, a, b)

\* The values a cell may have.  Nothing in the language tells two references
\* that no fact equates from two different ones.
ValuesOf(u) ==
  CASE SortOf(u) = "Int" -> Numbers
    [] SortOf(u) = "Number" -> Numbers \cup {NaN}
    [] SortOf(u) = "Bool" -> {0, 1}
    [] OTHER -> {u.k}

\* The valuations that extend v to every cell of u.
RECURSIVE Settle(_, _)
Settle(u, v) ==
  LET inner == IF "r" \in DOMAIN u THEN UNION {Settle(u.r, w) : w \in Settle(u.l, v)}
               ELSE IF "l" \in DOMAIN u THEN Settle(u.l, v) ELSE {v}
  IN  IF u.t \notin {"var", "length", "index"} THEN inner
      ELSE UNION {LET c == Cell(u, w, Meaning)
                  IN  IF c \in DOMAIN w THEN {w} ELSE {w @@ (c :> n) : n \in ValuesOf(u)} : w \in inner}

\* v extended so that the new cell u is the same as r.
Define(u, r, v) ==
  LET settled == Settle(r, v)
      value(w) == Converted(r, u, Meaning(r, w))
  IN  UNION {IF value(w) = Unknown THEN Settle(u, w)
             ELSE IF SortOf(u) = "Ref" \/ value(w) \in ValuesOf(u)
               THEN {w @@ (Cell(u, w, Meaning) :> value(w))} ELSE {} : w \in settled}

\* The valuations of vs in which a fact holds as well.
Admit(vs, fact) ==
  UNION {IF /\ fact.t = "same" /\ fact.l.t = "var"
            /\ <<"var", fact.l.k>> \notin DOMAIN v
           THEN Define(fact.l, fact.r, v)
           ELSE {w \in Settle(fact, v) : Meaning(fact, w) # 0} : v \in vs}

AnyValuation == {<<>>}

Valuations(facts) == FoldLeft(Admit, AnyValuation, facts)

\* solve_constraint_using answers Unsat: the goal is among the facts, or holds
\* in every valuation of them.
Proves(facts, vs, goal) ==
  \/ \E i \in DOMAIN facts : facts[i] = goal
  \/ \A v \in vs : \A w \in Settle(goal, v) : Meaning(goal, w) = 1
=============================================================================
