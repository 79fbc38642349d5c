----------------------------- MODULE MCOwnSound -----------------------------
(* Small instances of OwnSound: the fragments of each run.  Straight-line     *)
(* operations first, then what each kind of control flow adds to them.        *)
EXTENDS OwnSound, TLC

Symmetry == Permutations(Names)

Make(ops, tokens, nest, finalizers) ==
    [ops |-> ops \cup {"declare", "consume", "end", "eof"}, shadowing |-> FALSE,
     tokens |-> tokens, nest |-> nest, finalizers |-> finalizers]

Values     == [Make({"move", "clone", "assign", "read", "block"}, 8, 2, 0) EXCEPT !.shadowing = TRUE]
Branches   == Make({"borrow", "read", "and", "return", "if", "else"}, 9, 3, 0)
Switches   == Make({"borrow", "return", "block", "switch", "case", "default", "break"}, 9, 2, 0)
Loops      == Make({"move", "borrow", "read", "return", "if", "while"}, 8, 2, 0)
Finalizers == Make({"borrow", "return", "block", "try", "catch", "finally"}, 9, 2, 2)
Throws     == Make({"borrow", "throw", "try", "catch", "if"}, 10, 2, 0)
Sound      == {Values, Branches, Switches, Loops, Finalizers, Throws}

Returns == Make({"return", "if", "try", "catch", "finally"}, 11, 3, 2)
Jumps   == Make({"if", "while", "break", "continue"}, 10, 3, 0)
Exits   == {Returns, Jumps}

\* Fragments in which the checker accepts too much.
Breaks       == {Make({"if", "while", "break"}, 8, 2, 0)}
EmptyClauses == {Make({"switch", "case", "default", "break"}, 8, 1, 0)}
SecondReturn == {Make({"return", "if", "try", "finally"}, 12, 2, 1)}
NestedReturn == {Make({"return", "if", "try", "finally"}, 12, 3, 2)}
ZeroRounds   == {Make({"assign", "while"}, 9, 2, 0)}
Overwrites   == {Make({"plain", "assign"}, 6, 1, 0)}
ClonedBorrow == {Make({"borrow", "clone", "block"}, 7, 2, 0)}
=============================================================================
