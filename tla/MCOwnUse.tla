------------------------------ MODULE MCOwnUse ------------------------------
(***************************************************************************)
(* The statements TLC writes programs with: two names, one payload type.   *)
(* What is left out, because the checker and the meaning disagree on it,   *)
(* is marked; the README lists it under "departures".                      *)
(***************************************************************************)
EXTENDS OwnUse

CONSTANTS alpha, beta

Sig(params, ret) == [params |-> params, ret |-> ret]
MCPayload == <<"T">>
Method(m) == MCPayload \o <<"#", m>>
Signatures ==
    {<<<<"take">>, Sig(<<"Unique">>, "Void")>>,
     <<<<"read">>, Sig(<<"RefRead">>, "Copy")>>,
     <<<<"edit">>, Sig(<<"RefWrite">>, "Void")>>,
     <<<<"make">>, Sig(<<>>, "Unique")>>,
     <<<<"some">>, Sig(<<>>, "Affine")>>,
     <<<<"pair">>, Sig(<<"Unique", "RefRead">>, "Void")>>,
     <<<<"log">>,  Sig(<<"Copy">>, "Void")>>,
     <<<<"Box">>,  Sig(<<"Unique">>, "Unique")>>,
     <<Method("close"), Sig(<<"Unique">>, "Void")>>,
     <<Method("peek"),  Sig(<<"RefRead">>, "Copy")>>,
     <<Method("fill"),  Sig(<<"RefWrite", "Unique">>, "Void")>>,
     <<Method("next"),  Sig(<<"Unique">>, "Unique")>>}
MCSigs == [name \in {s[1] : s \in Signatures} |-> (CHOOSE s \in Signatures : s[1] = name)[2]]

MCOrder == SetToSeq(Names)

-----------------------------------------------------------------------------
(* How expressions are written.                                            *)

Id(n) == Node("id", n, <<>>)
Lit == Node("lit", NoName, <<>>)
Op(op, kids) == Node(op, NoName, kids)
Fn(f, args) == Op("call", <<Id(f)>> \o args)          \* f(args)
Dot(e, m) == Node("field", m, <<e>>)                  \* e.m
Do(e, m, args) == Op("call", <<Dot(e, m)>> \o args)   \* e.m(args)
MaybeDo(e, m) == Op("opt", <<Node("optfield", m, <<e>>)>>)   \* e?.m()
Lent1(e, mode) == [e EXCEPT !.dir = mode]             \* /*#own & */ e
Fresh1 == Fn("make", <<>>)

Stmt(e) == Op("expr", <<e>>)
Block(stmts) == Op("block", stmts)
Let(n, e) == Node("let", n, <<e>>)
Var(n) == Node("var", n, <<>>)
F(ps, stmts) == [Op("fn", stmts) EXCEPT !.ps = ps]
Arrow(ps, e) == [Op("arrow", <<e>>) EXCEPT !.ps = ps]

Branches(xs) == UNION {{Op("and", <<x, y>>), Op("or", <<x, y>>), Op("cond", <<Lit, x, y>>)} : x, y \in xs}
Sequences1(xs) == {Op("seq", <<x, y>>) : x, y \in xs}
Both(xs) == UNION {{Op("binary", <<x, y>>), Fn("pair", <<x, y>>), Op("array", <<x, y>>)} : x, y \in xs}
Wrapped(xs) ==
    UNION {{Op("void", <<x>>), Op("unary", <<x>>), Op("array", <<x>>), Op("object", <<x>>),
            Fn("take", <<x>>), Fn("read", <<x>>), Do(x, "close", <<>>)} : x \in xs}

-----------------------------------------------------------------------------
(* Expressions.                                                            *)

Ids == {Id(n) : n \in Names}

\* One name, or a fresh value, used once.
Once ==
    UNION {{Fn("take", <<i>>), Fn("read", <<i>>), Fn("edit", <<i>>), Fn("log", <<i>>), Fn("ext", <<i>>),
            Fn("ext", <<Lent1(i, "Read")>>), Op("opt", <<Id("take"), i>>), Dot(i, "f"),
            Do(i, "close", <<>>), Do(i, "peek", <<>>), Do(i, "next", <<>>), MaybeDo(i, "peek")} : i \in Ids}
Makes1 == {Fresh1, Fn("some", <<>>), Op("new", <<Id("Box"), Fresh1>>), Do(Fresh1, "next", <<>>)}

\* Several names, and calls through members.
Twice ==
    UNION {{Fn("pair", <<i, j>>), Op("opt", <<Id("pair"), i, j>>), Fn("pair", <<i, Lent1(j, "Read")>>),
            Fn("log", <<i, j>>), Fn("ext", <<i, j>>), Fn("ext", <<Lent1(i, "Write"), j>>),
            Fn("ext", <<Lent1(i, "Read"), Lent1(j, "Read")>>), Fn("ext", <<Op("spread", <<i>>), j>>),
            Do(i, "fill", <<j>>), Do(i, "fill", <<Fresh1>>), Do(Fresh1, "fill", <<i>>),
            Do(Fn("some", <<>>), "fill", <<i>>), Fn("take", <<Do(i, "next", <<>>)>>),
            Do(Do(i, "next", <<>>), "close", <<>>), Op("new", <<Id("Box"), i>>), Op("index", <<Lit, i>>),
            Do(i, "f", <<j>>), Do(Dot(i, "f"), "g", <<j>>)} : i, j \in Ids}

\* What operators and calls are applied to.
Small == Ids \cup {Lit, Fresh1} \cup {Fn("take", <<i>>) : i \in Ids}
Core  == Small \cup {Fn("read", <<i>>) : i \in Ids}
Nested == Wrapped(Core \cup Makes1) \cup Branches(Core) \cup Sequences1(Core) \cup Both(Small)

\* Left out: (x, a) passed on or called, where x uses a.
TakenBefore(e) == IdentName(e) \in E!FreeIn(e.kids[1])
\* A value that depends on a condition, passed on or called.  Left out: names
\* that also occur next to the condition.
Either2 == UNION {Branches({i, Lit, Fresh1}) : i \in Ids}
Deep == UNION {{Fn("take", <<x>>), Fn("read", <<x>>), Do(x, "close", <<>>)}
                 : x \in Either2 \cup {y \in Sequences1(Small) : ~TakenBefore(y)}}
        \cup UNION {{Fn("pair", <<x, Id(beta)>>), Fn("pair", <<x, x>>)} : x \in Branches({Id(alpha), Lit})}

\* Left out: "void" of a literal that holds owned values, passed to a call.
VoidBox(e) == e.op = "void" /\ e.kids[1].op = "call"

\* Initialisers, and results.
Kept == Ids \cup {Lit, Fn("ext", <<Lit>>)} \cup Makes1 \cup Branches(Small) \cup Sequences1(Small)
        \cup UNION {{Do(i, "next", <<>>), Fn("ext", <<i>>), Op("new", <<Id("Box"), i>>)} : i \in Ids}
Literals == {Op("array", <<x>>) : x \in Core} \cup Both(Ids) \cup {Op("object", <<Op("array", <<i>>)>>) : i \in Ids}
\* Left out: let b = c ? take(a) : a.
TwoOwners(e) == e.op = "cond" /\ MoveSource(e) = NoName /\ (\E k \in {2, 3} : MoveSource(e.kids[k]) # NoName)

-----------------------------------------------------------------------------
(* Statements.                                                             *)

Stores == {Node("set", n, <<e>>) : n \in Names, e \in Ids \cup {Op("seq", <<x, i>>) : x \in Core, i \in Ids}}
          \cup {Op("put", <<e, i>>) : i \in Ids, e \in Core}

Lets == {Let(n, e) : n \in Names, e \in {x \in Kept \cup Literals : ~TwoOwners(x)}}
Directed == UNION {{[Let(n, Id(m)) EXCEPT !.dir = how], [Let(n, Lit) EXCEPT !.dir = kind]}
                     : n, m \in Names, how \in {"Read", "Write", "clone"}, kind \in Owning}
Exits == {Op("return", <<e>>) : e \in Kept} \cup {Op("throw", <<e>>) : e \in Core}

Bodies == {Stmt(e) : e \in Core \cup {Fn("edit", <<i>>) : i \in Ids}}
          \cup {Block(<<Let(n, Fresh1), Stmt(Fn(f, <<Id(m)>>))>>) : n, m \in Names, f \in {"take", "read"}}
          \cup {Block(<<Let(n, e), Stmt(Fn("take", <<Id(n)>>))>>) : n \in Names, e \in Small}
Repeats == UNION {{Op("while", <<Lit, s>>), Op("dowhile", <<s, Lit>>), Op("forof", <<Lit, s>>)} : s \in Bodies}
           \cup UNION {{Op("while", <<x, Block(<<>>)>>), Op("dowhile", <<Block(<<>>), x>>),
                        Op("forof", <<x, Block(<<>>)>>)} : x \in Core}

\* Nested functions: what they use, and what they bind themselves.
Uses1(m) == Stmt(Fn("ext", <<Id(m)>>))
FnBodies ==
    {<<Stmt(e)>> : e \in Ids \cup {Fresh1, Lit}
                         \cup UNION {{Fn("read", <<i>>), Dot(i, "f"), Op("binary", <<Lit, i>>)} : i \in Ids}}
    \cup UNION {{<<Let(alpha, Fresh1), Stmt(Fn("take", <<Id(m)>>))>>,
                 <<Var(alpha), Uses1(m)>>,
                 <<Block(<<Let(alpha, Lit)>>), Uses1(m)>>,
                 <<Block(<<Var(alpha)>>), Uses1(m)>>,
                 <<Op("while", <<Lit, Block(<<Var(alpha)>>)>>), Uses1(m)>>,
                 <<Stmt(Fn("ext", <<Arrow({alpha}, Fn("read", <<Id(m)>>))>>))>>} : m \in Names}
    \cup {<<Op("return", <<e>>)>> : e \in {Fresh1, Lit, Id(alpha)}}
Funs == {F(ps, body) : ps \in {{}, {alpha}}, body \in FnBodies}
Arrows == {Arrow(ps, e) : ps \in {{}, {alpha}}, e \in Core \cup {Op("object", <<Id(alpha)>>)}}
Closures == {Stmt(Fn("ext", <<f>>)) : f \in Funs \cup Arrows}
            \cup UNION {{Let("h", f), Stmt(Op("object", <<f>>)), Stmt(Op("array", <<Fn("ext", <<f>>)>>)),
                         Stmt(Op("binary", <<Lit, f>>)), Stmt(Op("cond", <<Lit, f, Lit>>))} : f \in Arrows}
            \cup {[f EXCEPT !.op = "function", !.x = "h"] : f \in Funs}

MCPool ==
    {Stmt(e) : e \in {x \in Ids \cup Once \cup Makes1 \cup Twice \cup Nested \cup Deep \cup Stores : ~VoidBox(x)}}
    \cup Lets \cup Directed \cup Exits \cup {Node("drop", n, <<>>) : n \in Names}
    \cup Bodies \cup Repeats \cup Closures
=============================================================================
