------------------------------- MODULE RtSound -------------------------------
(****************************************************************************)
(* The refinement verifier against the programs it reads: a body grows by a  *)
(* statement at a time, each verified (RtVerify) and run (RtRun), until one  *)
(* is refused.                                                               *)
(****************************************************************************)
EXTENDS RtRun

\* A fragment: the function whose body is written (or TopLevel), the statements
\* it starts with, what the others are taken from, and how many there may be.
CONSTANT Fragments

\* What the verifier and the runs make of the bodies of each fragment.  The
\* configurations give them Verdicts and Outcomes: as constants, TLC looks them
\* up where it would else unfold every case of every expression in them.
CONSTANTS Reports, Worlds

Verdicts ==
  LET begun(fr) == VerifyAll(fr.start, fr.f, Entry(fr.f))
  IN  [fr \in Fragments |-> [stmts \in Seq(fr.pool) |-> VerifyAll(stmts, fr.f, begun(fr))]]
Outcomes ==
  LET begun(fr) == RunAll(fr.start, fr.f, Calls(fr.f))
  IN  [fr \in Fragments |-> [stmts \in Seq(fr.pool) |-> RunAll(stmts, fr.f, begun(fr))]]

VARIABLES fragment, body, v, worlds, closed

vars == <<fragment, body, v, worlds, closed>>

Accepted == v.errors = <<>>

Init ==
  /\ fragment \in Fragments
  /\ body = <<>>
  /\ v = Reports[fragment][body]
  /\ worlds = Worlds[fragment][body]
  /\ closed = FALSE

Extend(kinds) ==
  /\ Accepted /\ ~closed
  /\ v.states # <<>>     \* nothing is written after a return
  /\ Len(body) < fragment.length
  /\ \E st \in fragment.pool :
       /\ st.s \in kinds
       /\ body' = Append(body, st)
       /\ v' = Reports[fragment][body']
       /\ worlds' = Worlds[fragment][body']
  /\ UNCHANGED <<fragment, closed>>

Declaration == Extend({"let"})
ExpressionStatement == Extend({"expr"})
IfStatement == Extend({"if"})
Loop == Extend({"while", "for"})
BlockStatement == Extend({"block"})
ReturnStatement == Extend({"return"})

\* The body ends; a call that has not returned by then returns undefined.
End ==
  /\ Accepted /\ ~closed
  /\ closed' = TRUE
  /\ v' = VerifyEnd(fragment.f, v)
  /\ worlds' = EachLive(worlds, LAMBDA w :
                 {Over([w EXCEPT !.ended = TRUE, !.fault =
                          IF fragment.f.ret.base = "void" THEN "none" ELSE "return"])})
  /\ UNCHANGED <<fragment, body>>

Next == Declaration \/ ExpressionStatement \/ IfStatement \/ Loop \/ BlockStatement
        \/ ReturnStatement \/ End

Spec == Init /\ [][Next]_vars

----------------------------------------------------------------------------
(* Properties *)

\* The shape of what the verifier keeps; valuations are those of the facts.
RtTypeOK ==
  \A i \in DOMAIN v.states :
    LET s == v.states[i]
    IN  /\ DOMAIN s.env \cap s.uninit = {}
        /\ \A x \in DOMAIN s.env : s.env[x].term.t = "var" /\ SortOf(s.env[x].term) \in Sorts
        /\ Len(s.scopes) = 1
        /\ s.models = Valuations(s.facts)

\* A body the verifier accepts keeps every obligation whenever it runs: no
\* index is outside its array, nothing is popped off an empty array, every
\* refined variable, argument and result is what its type says.
Safe == Accepted => \A w \in worlds : w.fault = "none"

\* What a state knows: its facts, and the qualifiers of its values, which are
\* assumed again whenever the value is used.
Known(s) ==
  LET qualified == Listed({x \in DOMAIN s.env : s.env[x].qual # NoQualifier})
  IN  AssumeAll(s, [i \in DOMAIN qualified |-> s.env[qualified[i]].qual.formula]).models

Agrees(m, cell, n) == cell \in DOMAIN m => m[cell] = n

\* A valuation says of the names of a world, and of the arrays they name, what
\* is so.
Describes(m, s, w) ==
  LET held(x) == Lookup(w, x).val
      cell(x) == <<"var", s.env[x].term.k>>
      arrays == {x \in Visible(w) : held(x)[1] = "r"}
      about(x) == {c \in DOMAIN m : c[1] = "index" /\ c[2] = m[cell(x)]}
  IN  /\ \A x \in Visible(w) \ arrays : Agrees(m, cell(x), held(x)[2])
      /\ \A x \in arrays : cell(x) \in DOMAIN m =>
           /\ Agrees(m, <<"length", m[cell(x)]>>, Len(Contents(w, held(x))))
           /\ \A c \in about(x) :
                c[3] + 1 \in DOMAIN Contents(w, held(x)) => m[c] = Contents(w, held(x))[c[3] + 1]
           /\ \A y \in arrays :
                cell(y) \in DOMAIN m /\ m[cell(y)] = m[cell(x)] => held(y) = held(x)

\* Whatever really happened, one of the paths the verifier follows has it: the
\* names it knows, numbers, lengths and elements as they are, and no trust in
\* methods that may have been replaced.
FactsHold ==
  Accepted => \A w \in {u \in worlds : Live(u)} :
    \E i \in DOMAIN v.states :
      LET s == v.states[i]
      IN  /\ Visible(w) \subseteq DOMAIN s.env
          /\ s.intact => ~w.crossed
          /\ \E m \in Known(s) : Describes(m, s, w)
=============================================================================
