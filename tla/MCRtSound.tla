----------------------------- MODULE MCRtSound -----------------------------
(* Small instances of RtSound: syntax, and the fragments of each run.        *)
EXTENDS RtSound

Lit(n) == [e |-> "literal", n |-> n]
N(x) == [e |-> "name", x |-> x]
Bin(op, l, r) == [e |-> "binary", op |-> op, l |-> l, r |-> r]
Both(l, r) == [e |-> "logical", op |-> "and", l |-> l, r |-> r]
Either(l, r) == [e |-> "logical", op |-> "or", l |-> l, r |-> r]
No(l) == [e |-> "not", l |-> l]
Assign(x, op, r) == [e |-> "assign", x |-> x, op |-> op, r |-> r]
Inc(x) == [e |-> "update", x |-> x, op |-> "add", prefix |-> FALSE]
Dec(x) == [e |-> "update", x |-> x, op |-> "sub", prefix |-> TRUE]
Len1(x) == [e |-> "length", l |-> N(x)]
At(x, i) == [e |-> "element", l |-> N(x), r |-> i]
Arr(items) == [e |-> "array", items |-> items]
PushTo(x, r) == [e |-> "push", l |-> N(x), r |-> r]
PopOff(x) == [e |-> "pop", l |-> N(x)]
CallOf(x, items) == [e |-> "call", x |-> x, items |-> items]
External == [e |-> "external"]

Let(x, init) == [s |-> "let", x |-> x, kind |-> "let", type |-> NoAnnotation, init |-> init]
Const(x, init) == [s |-> "let", x |-> x, kind |-> "const", type |-> NoAnnotation, init |-> init]
Typed(st, type) == [st EXCEPT !.type = type]
Do(e) == [s |-> "expr", e |-> e]
Empty == [s |-> "empty"]
If(test, then, else) == [s |-> "if", test |-> test, then |-> then, else |-> else]
Blk(stmts) == [s |-> "block", stmts |-> stmts]
While(test, b) == [s |-> "while", test |-> test, body |-> b, update |-> NoTest]
For(init, test, update, b) == [s |-> "for", init |-> init, test |-> test, body |-> b, update |-> update]
Return(r) == [s |-> "return", r |-> r]

Vec(index) == [Plain("dense") EXCEPT !.index = index]
Where(pred) == [Plain("number") EXCEPT !.pred = pred]
Self == Name("$")
Cmp(op, l, r) == Node(op, l, r)
AtLeast0(x) == Where(Cmp("ge", Name(x), Literal(0)))

\* clamp(n: number where 0 <= n): number where 0 <= $
Clamp == [params |-> <<[x |-> "n", type |-> AtLeast0("n")]>>, ret |-> AtLeast0("$")]
MinusOne == -1
Refined == [clamp |-> Clamp]

Pair == Const("xs", Arr(<<Lit(1), Lit(0)>>))

\* Arrays that grow, under two names, and facts about their lengths.
Growing == [f |-> TopLevel, start |-> <<Pair>>, length |-> 3, pool |->
  {Const("ys", N("xs")), Let("n", Len1("xs")),
   Let("m", PushTo("ys", Lit(1))), Do(PushTo("xs", N("n"))), Do(At("xs", Lit(2))),
   Typed(Let("z", At("ys", N("n"))), AtLeast0("z")),
   If(Bin("gt", Len1("xs"), N("n")), Do(At("ys", N("n"))), Do(Assign("n", "=", Lit(0))))}]

\* Arrays that shrink.
Shrinking == [f |-> TopLevel, start |-> <<Pair, Const("ys", N("xs"))>>, length |-> 3, pool |->
  {Let("n", Len1("xs")), Let("m", PopOff("xs")), Do(PopOff("ys")), Do(At("xs", Dec("n"))),
   Do(At("xs", Lit(-1))),
   If(Bin("gt", Len1("xs"), Lit(0)), Do(PopOff("ys")), Empty),
   Typed(Let("z", At("xs", Lit(0))), AtLeast0("z"))}]

\* Calls of code that is not seen, and names that a block hides.
Hiding == Blk(<<Const("o", Lit(2)), Do(External)>>)
Effectful == [f |-> TopLevel, start |-> <<Let("o", Lit(1)), Pair>>, length |-> 3, pool |->
  {Do(External), Hiding, Let("r", CallOf("clamp", <<N("o")>>)),
   Typed(Let("z", N("o")), AtLeast0("z")), Do(PopOff("xs")),
   If(Bin("ge", N("o"), Lit(0)), Do(Assign("o", "=", CallOf("clamp", <<N("o")>>))), Do(Assign("o", "-=", Lit(1))))}]

\* Loops whose invariants are inferred.
Walk == While(Bin("lt", N("i"), Len1("xs")), Blk(<<Do(At("xs", N("i"))), Do(Inc("i"))>>))
Drain == While(Bin("gt", Len1("xs"), Lit(0)), Do(PopOff("xs")))
CountDown == While(Bin("gt", N("n"), Lit(0)), Blk(<<Do(Dec("n")), Do(Inc("i"))>>))
Fill == For(Let("j", Lit(0)), Bin("lt", N("j"), N("n")), Inc("j"), Do(Assign("i", "=", N("j"))))
Looping == [f |-> TopLevel, start |-> <<Pair, Let("i", Lit(0)), Let("n", Len1("xs"))>>, length |-> 2,
  pool |->
  {Walk, Drain, CountDown, Fill, Do(At("xs", N("i"))), Do(PopOff("xs")), Do(Inc("i")),
   Typed(Let("z", N("i")), AtLeast0("z")), Do(At("xs", Dec("n")))}]

\* Bodies of refined functions: an index that two arrays and a number share,
\* a numeric range, a result of a promised length.
Sized == [f |-> [params |-> <<[x |-> "xs", type |-> Vec(Name("n"))], [x |-> "ys", type |-> Vec(Name("n"))],
                              [x |-> "n", type |-> Plain("number")]>>,
                 ret |-> Where(Node("and", Cmp("ge", Self, Literal(0)), Cmp("le", Self, Name("n"))))],
          start |-> <<>>, length |-> 3, pool |->
  {Let("i", Lit(0)), Do(PopOff("xs")), Do(At("ys", N("i"))), Return(N("n")), Return(N("i")),
   If(Bin("gt", N("n"), Lit(0)), Return(Bin("sub", N("n"), Lit(1))), Empty),
   While(Bin("lt", N("i"), N("n")), Blk(<<Do(At("ys", N("i"))), Do(Inc("i"))>>)),
   While(Bin("lt", N("i"), Len1("xs")), Blk(<<Do(PushTo("xs", Lit(0))), Do(Inc("i"))>>))}]

Ranged == [f |-> Clamp, start |-> <<>>, length |-> 3, pool |->
  {Return(N("n")), Return(Bin("sub", N("n"), Lit(1))), Let("k", N("n")), Return(N("k")),
   Return(CallOf("clamp", <<Bin("add", N("n"), Lit(1))>>)),
   If(Both(Bin("gt", N("n"), Lit(0)), Bin("le", N("n"), Lit(2))), Return(Lit(1)), Do(Dec("k"))),
   If(Either(Bin("gt", N("n"), Lit(1)), No(Bin("ge", N("n"), Lit(1)))), Return(N("k")), Return(Lit(0))),
   While(Bin("gt", N("k"), Lit(0)), Do(Assign("k", "-=", Lit(1))))}]

Sizing == [f |-> [params |-> <<[x |-> "n", type |-> Plain("number")]>>, ret |-> Vec(Name("n"))],
           start |-> <<Const("out", Arr(<<Lit(0)>>)), Do(PopOff("out")), Let("i", Lit(0))>>, length |-> 2, pool |->
  {Return(N("out")), Return(Arr(<<Lit(1)>>)), If(Bin("eq", N("n"), Lit(1)), Return(Arr(<<Lit(1)>>)), Empty),
   If(Bin("eq", N("n"), Len1("out")), Return(N("out")), Empty),
   While(Bin("lt", N("i"), N("n")), Blk(<<Do(PushTo("out", N("i"))), Do(Inc("i"))>>)),
   While(Bin("lt", Len1("out"), N("n")), Do(PushTo("out", Lit(0))))}]

Plainly == {Growing, Shrinking, Effectful, Looping, Sized, Ranged, Sizing}

\* A fragment in which the verifier believes too much: an array shrinks and
\* grows again.
Replacing == {[f |-> TopLevel, start |-> <<Pair>>, length |-> 3, pool |->
  {Do(PopOff("xs")), Do(PushTo("xs", Lit(-1))),
   Typed(Let("z", PopOff("xs")), AtLeast0("z")), Typed(Let("z", At("xs", Lit(1))), AtLeast0("z"))}]}
=============================================================================
