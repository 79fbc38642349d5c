-------------------------------- MODULE RtRun --------------------------------
(****************************************************************************)
(* What the programs RtVerify reads do when they run: JavaScript over small  *)
(* numbers, as the set of all the worlds a statement can leave behind.       *)
(*                                                                           *)
(* A world holds the blocks' bindings, the arrays, whether code that the     *)
(* verifier does not see has run (crossed), the obligation that was broken   *)
(* (fault), and whether the function has returned.  A number outside         *)
(* Least..Most, an array longer than Most and a throw end a world silently.  *)
(****************************************************************************)
EXTENDS RtVerify

Num(n) == <<"n", n>>
Ref(i) == <<"r", i>>
Boolean(b) == <<"b", Truth(b)>>
Undefined == <<"u", 0>>
Declaring == <<"t", 0>>    \* hoisted and not initialized yet

EmptyWorld == [scopes |-> << <<>> >>, heap |-> <<>>, crossed |-> FALSE, fault |-> "none",
               ended |-> FALSE]

InRange(val) == val[1] = "n" => val[2] \in Numbers \cup {NaN}

Outcome(w, val) == IF InRange(val) THEN {[w |-> w, val |-> val]} ELSE {}
Fault(w, kind) == {[w |-> [w EXCEPT !.fault = kind], val |-> Undefined]}
Live(w) == w.fault = "none" /\ ~w.ended

\* What follows an outcome, unless the run is over.
Then(outcomes, next(_)) ==
  UNION {IF Live(o.w) THEN next(o) ELSE {o} : o \in outcomes}

----------------------------------------------------------------------------
(* Names *)

Depth(w, x) == {i \in DOMAIN w.scopes : x \in DOMAIN w.scopes[i]}
Innermost(w, x) == CHOOSE i \in Depth(w, x) : \A j \in Depth(w, x) : j <= i
Lookup(w, x) == w.scopes[Innermost(w, x)][x]
Readable(w, x) == Depth(w, x) # {} /\ Lookup(w, x).val # Declaring
Visible(w) == {x \in UNION {DOMAIN w.scopes[i] : i \in DOMAIN w.scopes} : Readable(w, x)}
Writable(w, x) == Readable(w, x) /\ Lookup(w, x).kind = "let"
Write(w, x, val) == [w EXCEPT !.scopes[Innermost(w, x)][x].val = val]
Bind(w, x, kind, val) ==
  [w EXCEPT !.scopes[Len(w.scopes)] = (x :> [val |-> val, kind |-> kind]) @@ @]

----------------------------------------------------------------------------
(* Refinements, as they are meant of values *)

Contents(w, val) == w.heap[val[2]]

RECURSIVE Denote(_, _, _)
Denote(p, with, w) ==
  CASE p.t = "literal" -> Num(p.n)
    [] p.t = "name" -> with[p.x]
    [] p.t = "length" -> Num(Len(Contents(w, Denote(p.l, with, w))))
    [] p.t = "not" -> Boolean(Denote(p.l, with, w)[2] = 0)
    [] p.t = "and" -> Boolean(Denote(p.l, with, w)[2] = 1 /\ Denote(p.r, with, w)[2] = 1)
    [] p.t = "or" -> Boolean(Denote(p.l, with, w)[2] = 1 \/ Denote(p.r, with, w)[2] = 1)
    [] OTHER ->
         LET a == Denote(p.l, with, w)[2]
             b == Denote(p.r, with, w)[2]
         IN  IF p.t \in Arithmetic THEN Num(Compute(p.t, a, b)) ELSE <<"b", Compare(p.t, a, b)>>

\* The value is one of the type: base, index, predicate.
HasType(val, type, with, w) ==
  /\ val[1] = (CASE type.base = "number" -> "n" [] type.base = "dense" -> "r" [] OTHER -> "b")
  /\ type.index # NoIndex =>
       LET n == Denote(type.index, with, w)
       IN  IF type.base = "dense" THEN Num(Len(Contents(w, val))) = n ELSE val = n /\ val # Num(NaN)
  /\ type.pred # NoPredicate => Denote(type.pred, with, w)[2] = 1

----------------------------------------------------------------------------
(* Code the verifier does not see *)

Resized(array) ==
  (IF Len(array) = Most THEN {} ELSE {Append(array, Least)})
  \cup (IF array = <<>> THEN {} ELSE {Front(array), [array EXCEPT ![1] = Least]})

\* Such code may have closed over any binding and any array: it changes one of
\* them, or none, and may replace the methods of the arrays.
Effects(w) ==
  LET c == [w EXCEPT !.crossed = TRUE]
      lets == UNION {{<<i, x>> : x \in DOMAIN w.scopes[i]} : i \in DOMAIN w.scopes}
      numbers == {at \in lets : LET cell == w.scopes[at[1]][at[2]]
                                IN  cell.kind = "let" /\ cell.val[1] = "n"}
  IN  {c}
      \cup {[c EXCEPT !.scopes[at[1]][at[2]].val = Num(n)] : at \in numbers, n \in {Least, NaN}}
      \cup UNION {{[c EXCEPT !.heap[i] = array] : array \in Resized(w.heap[i])} : i \in DOMAIN w.heap}

\* A method that may have been replaced.
Replaced(w) == UNION {Outcome(after, Num(n)) : after \in Effects(w), n \in {Least, NaN}}

----------------------------------------------------------------------------
(* Expressions *)

NewArray(w, elements) ==
  Outcome([w EXCEPT !.heap = Append(@, elements)], Ref(Len(w.heap) + 1))

Arithmetical(op, a, b) ==
  IF op \in Arithmetic THEN Num(Compute(op, a[2], b[2])) ELSE <<"b", Compare(op, a[2], b[2])>>

ReadElement(w, array, index) ==
  LET elements == Contents(w, array)
  IN  IF index[2] + 1 \in DOMAIN elements THEN Outcome(w, Num(elements[index[2] + 1]))
      ELSE Fault(w, "bounds")

PushOnto(w, array, val) ==
  LET longer == [w EXCEPT !.heap[array[2]] = Append(@, val[2])]
      pushed == IF Len(Contents(w, array)) = Most THEN {}
                ELSE Outcome(longer, Num(Len(Contents(longer, array))))
  IN  IF w.crossed THEN pushed \cup Replaced(w) ELSE pushed

\* On an empty array pop returns undefined, which is no number; once unseen
\* code has run the verifier promises nothing of it (it becomes a NaN here).
PopFrom(w, array) ==
  LET elements == Contents(w, array)
      shorter == [w EXCEPT !.heap[array[2]] = Front(@)]
      popped == IF elements # <<>> THEN Outcome(shorter, Num(Last(elements)))
                ELSE IF w.crossed THEN Outcome(w, Num(NaN)) ELSE Fault(w, "empty")
  IN  IF w.crossed THEN popped \cup Replaced(w) ELSE popped

\* A refined function promises its return type, and nothing of its effects.
ReturnValues(w, contract, with) ==
  LET promised(o) == HasType(o.val, contract.ret, ("$" :> o.val) @@ with, o.w)
      made == IF contract.ret.base = "number"
                THEN UNION {Outcome(w, Num(n)) : n \in Numbers \cup {NaN}}
                ELSE UNION {NewArray(w, [i \in 1 .. n |-> 0]) : n \in 0 .. Most}
  IN  {o \in made : promised(o)}

Apply(w, contract, vals) ==
  LET with == [x \in {contract.params[i].x : i \in DOMAIN vals} |->
                 vals[CHOOSE i \in DOMAIN vals : contract.params[i].x = x]]
      integral(i) == contract.params[i].x \in IndexNames(contract) => vals[i] # Num(NaN)
  IN  IF \E i \in DOMAIN vals : ~HasType(vals[i], contract.params[i].type, with, w) \/ ~integral(i)
        THEN Fault(w, "argument")
      ELSE UNION {ReturnValues(after, contract, with) : after \in Effects(w)}

Crossing(w) == UNION {Outcome(after, Num(n)) : after \in Effects(w), n \in {Least, NaN}}

RECURSIVE Eval(_, _)

EvalAll(es, w) ==
  FoldLeft(LAMBDA outs, e :
             Then(outs, LAMBDA o : {[w |-> p.w, val |-> Append(o.val, p.val)] : p \in Eval(e, o.w)}),
           {[w |-> w, val |-> <<>>]}, es)

EvalPair(e, w, next(_, _, _)) ==
  Then(Eval(e.l, w), LAMBDA a : Then(Eval(e.r, a.w), LAMBDA b : next(b.w, a.val, b.val)))

Store(w, x, val) == IF Writable(w, x) THEN Outcome(Write(w, x, val), val) ELSE {}

EvalAssignment(e, w) ==
  LET old == Lookup(w, e.x).val
      combined(val) == IF e.op = "=" THEN val
                       ELSE Arithmetical(IF e.op = "+=" THEN "add" ELSE "sub", old, val)
  IN  IF Readable(w, e.x) THEN Then(Eval(e.r, w), LAMBDA o : Store(o.w, e.x, combined(o.val))) ELSE {}

EvalUpdate(e, w) ==
  LET old == Lookup(w, e.x).val
      next == Arithmetical(e.op, old, Num(1))
  IN  IF Writable(w, e.x) /\ InRange(next)
        THEN Outcome(Write(w, e.x, next), IF e.prefix THEN next ELSE old) ELSE {}

\* && and || evaluate their right side only when it decides.
EvalLogical(e, w) ==
  Then(Eval(e.l, w), LAMBDA a : IF a.val = Boolean(e.op = "or") THEN {a} ELSE Eval(e.r, a.w))

Eval(e, w) ==
  CASE e.e = "literal" -> Outcome(w, Num(e.n))
    [] e.e = "name" -> IF Readable(w, e.x) THEN Outcome(w, Lookup(w, e.x).val) ELSE {}
    [] e.e = "binary" -> EvalPair(e, w, LAMBDA v, a, b : Outcome(v, Arithmetical(e.op, a, b)))
    [] e.e = "logical" -> EvalLogical(e, w)
    [] e.e = "not" -> Then(Eval(e.l, w), LAMBDA o : Outcome(o.w, Boolean(o.val[2] = 0)))
    [] e.e = "assign" -> EvalAssignment(e, w)
    [] e.e = "update" -> EvalUpdate(e, w)
    [] e.e = "length" -> Then(Eval(e.l, w), LAMBDA o : Outcome(o.w, Num(Len(Contents(o.w, o.val)))))
    [] e.e = "element" -> EvalPair(e, w, ReadElement)
    [] e.e = "array" ->
         Then(EvalAll(e.items, w), LAMBDA o : NewArray(o.w, [i \in DOMAIN o.val |-> o.val[i][2]]))
    [] e.e = "push" -> EvalPair(e, w, PushOnto)
    [] e.e = "pop" -> Then(Eval(e.l, w), LAMBDA o : PopFrom(o.w, o.val))
    [] e.e = "call" ->
         Then(EvalAll(e.items, w), LAMBDA o : Apply(o.w, Signatures[e.x], o.val))
    [] e.e = "external" -> Crossing(w)

----------------------------------------------------------------------------
(* Statements, from a set of worlds to a set of worlds.  f is the function   *)
(* that runs, args what it was called with.                                  *)

EnterBlock(w, stmts) ==
  [w EXCEPT !.scopes = Append(@, [x \in Declared(stmts) |-> [val |-> Declaring, kind |-> "let"]])]
\* A world that is over keeps nothing but how it ended.
Over(w) == [EmptyWorld EXCEPT !.fault = w.fault, !.ended = w.ended, !.crossed = w.crossed]
LeaveBlock(w) == [w EXCEPT !.scopes = Front(@)]

EachLive(ws, step(_)) == UNION {IF Live(w) THEN step(w) ELSE {w} : w \in ws}
AfterEval(outcomes, step(_)) == UNION {IF Live(o.w) THEN step(o) ELSE {Over(o.w)} : o \in outcomes}

RunDeclaration(st, w) ==
  AfterEval(Eval(st.init, w), LAMBDA o :
    IF HasType(o.val, st.type, st.x :> o.val, o.w) \/ st.type = NoAnnotation
      THEN {Bind(o.w, st.x, st.kind, o.val)} ELSE {Over([o.w EXCEPT !.fault = "initializer"])})

RunReturn(st, f, w) ==
  AfterEval(Eval(st.r, w), LAMBDA o :
    LET with == ("$" :> o.val) @@ [x \in Parameters(f) |-> o.w.scopes[1][x].val]
    IN  IF HasType(o.val, f.ret, with, o.w) THEN {Over([o.w EXCEPT !.ended = TRUE])}
        ELSE {Over([o.w EXCEPT !.fault = "return"])})

RECURSIVE Run(_, _, _)

RunAll(stmts, f, ws) == FoldLeft(LAMBDA vs, st : Run(st, f, vs), ws, stmts)

\* The worlds in which a test comes out as it is asked to.
Deciding(test, truth, w) ==
  AfterEval(Eval(test, w), LAMBDA o : IF o.val = Boolean(truth) THEN {o.w} ELSE {})

\* The worlds that reach the head of a loop: to a fixpoint.
RECURSIVE AtHead(_, _, _, _)
AtHead(loop, f, frontier, seen) ==
  LET taken == IF loop.test = NoTest THEN frontier
               ELSE EachLive(frontier, LAMBDA w : Deciding(loop.test, TRUE, w))
      ran == Run(loop.body, f, taken)
      updated == IF loop.update = NoTest THEN ran
                 ELSE EachLive(ran, LAMBDA w : AfterEval(Eval(loop.update, w), LAMBDA o : {o.w}))
      new == updated \ seen
  IN  IF new = {} THEN seen ELSE AtHead(loop, f, new, seen \cup new)

RunLoop(loop, f, ws) ==
  LET heads == AtHead(loop, f, ws, ws)
  IN  IF loop.test = NoTest THEN {w \in heads : ~Live(w)}
      ELSE EachLive(heads, LAMBDA w : Deciding(loop.test, FALSE, w))

Block(ws, stmts, run(_)) ==
  LET entered == EachLive(ws, LAMBDA w : {EnterBlock(w, stmts)})
  IN  EachLive(run(entered), LAMBDA w : {LeaveBlock(w)})

Run(st, f, ws) ==
  CASE st.s = "block" -> Block(ws, st.stmts, LAMBDA vs : RunAll(st.stmts, f, vs))
    [] st.s = "let" -> EachLive(ws, LAMBDA w : RunDeclaration(st, w))
    [] st.s = "expr" -> EachLive(ws, LAMBDA w : AfterEval(Eval(st.e, w), LAMBDA o : {o.w}))
    [] st.s = "if" ->
         Run(st.then, f, EachLive(ws, LAMBDA w : Deciding(st.test, TRUE, w)))
         \cup Run(st.else, f, EachLive(ws, LAMBDA w : Deciding(st.test, FALSE, w)))
    [] st.s = "return" -> EachLive(ws, LAMBDA w : RunReturn(st, f, w))
    [] st.s = "while" -> RunLoop(st, f, ws)
    [] st.s = "for" -> Block(ws, <<st.init>>, LAMBDA vs : RunLoop(st, f, Run(st.init, f, vs)))
    [] st.s = "empty" -> ws

\* The worlds a function can be called in; arrays given twice are one array.
Calls(f) ==
  LET arrays == {[i \in 1 .. n |-> 0] : n \in 0 .. 2}
      given(i) == CASE f.params[i].type.base = "number" -> {Num(n) : n \in Numbers \cup {NaN}}
                    [] OTHER -> {Ref(1), Ref(2)}
      names == [i \in DOMAIN f.params |-> f.params[i].x]
      worlds == {[EmptyWorld EXCEPT !.heap = <<a, b>>] : a \in arrays, b \in arrays}
      choices == {args \in [DOMAIN f.params -> UNION {given(i) : i \in DOMAIN f.params}] :
                    \A i \in DOMAIN args : args[i] \in given(i)}
      with(args) == [x \in Parameters(f) |-> args[CHOOSE i \in DOMAIN names : names[i] = x]]
      legal(w, args) ==
        \A i \in DOMAIN args :
          /\ HasType(args[i], f.params[i].type, with(args), w)
          /\ names[i] \in IndexNames(f) => args[i] # Num(NaN)
      called(w, args) ==
        [w EXCEPT !.scopes = <<[x \in Parameters(f) |-> [val |-> with(args)[x], kind |-> "const"]], <<>> >>]
  IN  IF f = TopLevel THEN {EmptyWorld}
      ELSE {called(p[1], p[2]) : p \in {q \in worlds \X choices : legal(q[1], q[2])}}
=============================================================================
