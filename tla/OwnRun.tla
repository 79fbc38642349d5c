------------------------------- MODULE OwnRun -------------------------------
(***************************************************************************)
(* What JavaScript does with the programs of OwnCheck: the meaning that    *)
(* the ownership rules are about (crates/own/docs/design.md: a unique      *)
(* value is consumed exactly once on every path, an affine one at most     *)
(* once, a borrow does not outlive its owner).  None of this is code of    *)
(* the checker; it is the semantics of the checked language, with every    *)
(* condition free to go either way.                                        *)
(***************************************************************************)
EXTENDS Integers, Sequences, FiniteSets

CONSTANTS Names, NoName, MaxTurns  \* MaxTurns bounds the loop rounds of a run

VARIABLES prog,    \* the program
          ip,      \* the next token
          env,     \* the scopes of the running function, outermost first
          heap,    \* the owned values made so far
          stack,   \* the constructs being executed
          comp,    \* the completion under way: "normal", or what is unwinding
          turns,   \* loop rounds taken
          faults   \* what went wrong

rvars == <<ip, env, heap, stack, comp, turns, faults>>

Faults == {"Leak", "UseAfterMove", "ConsumedThroughBorrow", "DanglingBorrow"}

Unbound == [st |-> "none", val |-> 0]
Bind(st, val) == [st |-> st, val |-> val]
NoNames == [n \in Names |-> Unbound]
Activity(part, i, save) == [part |-> part, at |-> i, save |-> save]

-----------------------------------------------------------------------------
(* The shape of the program. *)

Openers == {"block", "if", "while", "switch", "try"}
Nest(i, j) == Cardinality({m \in i .. j : prog[m].op \in Openers})
            - Cardinality({m \in i .. j : prog[m].op = "end"})
\* The end of the construct opened at i, and its parts of a kind.
CloseOf(i) == CHOOSE j \in (i + 1) .. Len(prog) :
                 Nest(i, j) = 0 /\ \A m \in i .. (j - 1) : Nest(i, m) > 0
Middle(i, ops) == {j \in (i + 1) .. CloseOf(i) : prog[j].op \in ops /\ Nest(i, j) = 1}

-----------------------------------------------------------------------------
(* Values.  w is the running program's memory: [env, heap, faults]. *)

World == [env |-> env, heap |-> heap, faults |-> faults]
Remember(w) == env' = w.env /\ heap' = w.heap /\ faults' = w.faults

ScopeOf(w, n) == CHOOSE i \in 1 .. Len(w.env) :
                    /\ w.env[i][n].st # "none"
                    /\ \A j \in (i + 1) .. Len(w.env) : w.env[j][n].st = "none"
Slot(w, n) == w.env[ScopeOf(w, n)][n]
Set(w, n, slot) == [w EXCEPT !.env[ScopeOf(w, n)][n] = slot]
Let(w, n, slot) == [w EXCEPT !.env[Len(w.env)][n] = slot]
Fault(w, f) == [w EXCEPT !.faults = @ \cup {f}]

\* A new value owned by n.
Make(w, n, kind) ==
    Let([w EXCEPT !.heap = Append(@, [kind |-> kind, held |-> TRUE])],
        n, Bind("own", Len(w.heap) + 1))

\* Any use of n that leaves its value where it is.
Touch(w, n) ==
    LET s == Slot(w, n)
    IN  CASE s.st = "moved" -> Fault(w, "UseAfterMove")
          [] s.st = "ref" /\ ~w.heap[s.val].held -> Fault(w, "DanglingBorrow")
          [] OTHER -> w

\* n gives its value up, to whom the caller says.
Surrender(w, n) == IF Slot(w, n).st = "own" THEN Set(w, n, Bind("moved", Slot(w, n).val)) ELSE w

\* The value of n is spent.
Spend(w, n) ==
    LET s == Slot(w, n)
        t == Touch(w, n)
        spent == [t EXCEPT !.heap[s.val].held = FALSE]
    IN  CASE s.st = "own" -> Surrender(spent, n)
          [] s.st = "ref" -> Fault(spent, "ConsumedThroughBorrow")
          [] OTHER -> t

\* What n's new holder gets when n is moved into it.
Given(w, n) == IF Slot(w, n).st \in {"own", "ref"} THEN Slot(w, n)
               ELSE Bind("plain", 0)

Duplicate(w, o, n) ==
    LET s == Slot(w, o)
        t == Touch(w, o)
    IN  IF s.st \in {"own", "ref"} THEN Make(t, n, w.heap[s.val].kind)
        ELSE Let(t, n, Bind("plain", 0))

Forgets(w, slot) == slot.st = "own" /\ w.heap[slot.val].kind = "Unique" /\ w.heap[slot.val].held

\* dst = src: what dst owned until now is lost.
Reassign(w, dst, src) ==
    LET t == Touch(w, src)
        l == IF Forgets(t, Slot(t, dst)) THEN Fault(t, "Leak") ELSE t
    IN  IF dst = src THEN t ELSE Set(Surrender(l, src), dst, Given(w, src))

\* The innermost scope ends.
LeaveScope(w) ==
    LET top  == w.env[Len(w.env)]
        left == [w EXCEPT !.env = SubSeq(@, 1, Len(@) - 1)]
    IN  IF \E n \in Names : Forgets(w, top[n]) THEN Fault(left, "Leak") ELSE left

EnterScope(w) == [w EXCEPT !.env = Append(@, NoNames)]

Effect(w, t) ==
    CASE t.op = "declare" -> Make(w, t.x, t.k)
      [] t.op = "plain"   -> Let(w, t.x, Bind("plain", 0))
      [] t.op = "move"    -> Let(Surrender(Touch(w, t.y), t.y), t.x, Given(w, t.y))
      [] t.op = "borrow"  -> Let(Touch(w, t.x), t.y,
                                 IF Slot(w, t.x).st \in {"own", "ref"}
                                 THEN Bind("ref", Slot(w, t.x).val) ELSE Bind("plain", 0))
      [] t.op = "clone"   -> Duplicate(w, t.x, t.y)
      [] t.op = "consume" -> Spend(w, t.x)
      [] t.op = "read"    -> Touch(w, t.x)
      [] t.op = "assign"  -> Reassign(w, t.x, t.y)

-----------------------------------------------------------------------------
(* Steps. *)

Running == Len(stack) > 0
Token == prog[ip]
Doing == stack[Len(stack)]
Outer == SubSeq(stack, 1, Len(stack) - 1)

Start ==
    /\ ip' = 1 /\ env' = <<NoNames>> /\ heap' = <<>> /\ faults' = {}
    /\ stack' = <<Activity("body", 0, "normal")>> /\ comp' = "normal" /\ turns' = 0

\* Continue at token i with these activities and this completion.
Go(i, activities, c) == ip' = i /\ stack' = activities /\ comp' = c

Statement ==
    /\ Token.op \in {"declare", "plain", "move", "borrow", "clone", "consume", "read", "assign"}
    /\ Remember(Effect(World, Token))
    /\ Go(ip + 1, stack, "normal") /\ UNCHANGED turns

ShortCircuit ==
    /\ Token.op = "and"
    /\ Remember(World) \/ Remember(Spend(World, Token.x))
    /\ Go(ip + 1, stack, "normal") /\ UNCHANGED turns

\* return x hands x to the caller.
Jump ==
    /\ Token.op \in {"return", "throw", "break", "continue"}
    /\ Remember(IF Token.op = "return" /\ Token.x # NoName THEN Spend(World, Token.x) ELSE World)
    /\ Go(ip, stack, Token.op) /\ UNCHANGED turns

\* Enter the part of the construct opened at i that starts after token j.
Enter(w, below, part, i, j, save) ==
    Remember(EnterScope(w)) /\ Go(j + 1, Append(below, Activity(part, i, save)), "normal")

\* A loop tests its condition: another round, or out.
Test(w, below, i) ==
    \/ /\ turns < MaxTurns /\ turns' = turns + 1
       /\ Enter(w, below, "while", i, i, "normal")
    \/ /\ Remember(w) /\ Go(CloseOf(i) + 1, below, "normal") /\ UNCHANGED turns

Choose ==
    \/ /\ Token.op \in {"block", "try"}
       /\ Enter(World, stack, Token.op, ip, ip, "normal") /\ UNCHANGED turns
    \/ /\ Token.op = "if"
       /\ \/ Enter(World, stack, "if", ip, ip, "normal")
          \/ \E j \in Middle(ip, {"else"}) : Enter(World, stack, "if", ip, j, "normal")
          \/ /\ Middle(ip, {"else"}) = {}
             /\ Remember(World) /\ Go(CloseOf(ip) + 1, stack, "normal")
       /\ UNCHANGED turns
    \/ /\ Token.op = "switch"
       /\ \/ \E j \in Middle(ip, {"case", "default"}) : Enter(World, stack, "clause", ip, j, "normal")
          \/ /\ Middle(ip, {"default"}) = {}
             /\ Remember(World) /\ Go(CloseOf(ip) + 1, stack, "normal")
       /\ UNCHANGED turns
    \/ Token.op = "while" /\ Test(World, stack, ip)

\* Falling out of a part: into the next clause, past the construct, or into
\* its finalizer.
FallOut ==
    LET i == Doing.at
        w == LeaveScope(World)
        fin == Middle(i, {"finally"})
    IN  \/ /\ Token.op \in {"case", "default"}
           /\ Enter(w, Outer, "clause", i, ip, "normal") /\ UNCHANGED turns
        \/ /\ Token.op = "else" \/ (Token.op = "catch" /\ fin = {})
           /\ Remember(w) /\ Go(CloseOf(i) + 1, Outer, "normal") /\ UNCHANGED turns
        \/ /\ Token.op \in {"catch", "finally"}
           /\ \E j \in fin : Enter(w, Outer, "finally", i, j, "normal")
           /\ UNCHANGED turns
        \/ /\ Token.op = "end" /\ Doing.part = "while"
           /\ Test(w, Outer, i)
        \/ /\ Token.op = "end" /\ Doing.part # "while"
           /\ Remember(w) /\ UNCHANGED turns
           /\ Go(IF Doing.save = "normal" THEN ip + 1 ELSE ip, Outer, Doing.save)
        \/ /\ Token.op = "eof"
           /\ Remember(w) /\ Go(ip, Outer, "normal") /\ UNCHANGED turns

\* An abrupt completion leaves one construct, or is caught by it.
Unwind ==
    LET i == Doing.at
        w == LeaveScope(World)
        catch == IF Doing.part = "try" /\ comp = "throw" THEN Middle(i, {"catch"}) ELSE {}
        fin == IF Doing.part \in {"try", "catch"} THEN Middle(i, {"finally"}) ELSE {}
        stops == \/ comp = "break" /\ Doing.part \in {"while", "clause"}
    IN  \/ /\ \E j \in catch : Enter(w, Outer, "catch", i, j, "normal")
           /\ UNCHANGED turns
        \/ /\ catch = {}
           /\ \E j \in fin : Enter(w, Outer, "finally", i, j, comp)
           /\ UNCHANGED turns
        \/ /\ stops
           /\ Remember(w) /\ Go(CloseOf(i) + 1, Outer, "normal") /\ UNCHANGED turns
        \/ /\ comp = "continue" /\ Doing.part = "while"
           /\ Test(w, Outer, i)
        \/ /\ catch = {} /\ fin = {} /\ ~stops
           /\ ~(comp = "continue" /\ Doing.part = "while")
           /\ Remember(w) /\ Go(ip, Outer, comp) /\ UNCHANGED turns

Execute ==
    /\ Running
    /\ IF comp = "normal" THEN Statement \/ ShortCircuit \/ Jump \/ Choose \/ FallOut
       ELSE Unwind
=============================================================================
