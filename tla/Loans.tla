-------------------------------- MODULE Loans --------------------------------
(***************************************************************************)
(* What the borrow rules of the ownership checker promise                  *)
(* (crates/own/docs/design.md, rules 7 and 9): values are lent for a       *)
(* lexical region, to many readers or to one writer; a value that is on    *)
(* loan is neither spent nor replaced; a region ends for a value only      *)
(* together with the regions of all its borrowers; what is given up        *)
(* unspent is reported.                                                    *)
(***************************************************************************)
CONSTANT Names

VARIABLES live,   \* names that stand for a value or a borrow in this region
          spent,  \* live names whose value was moved out
          reads,  \* reads[o]: the names that borrow o for reading
          writes, \* writes[o]: the names that borrow o for writing
          forgot  \* a value was reported lost

vars == <<live, spent, reads, writes, forgot>>

Borrowers(o) == reads[o] \cup writes[o]
Without(f, gone) == [o \in Names |-> f[o] \ gone]

Init ==
    /\ live = {} /\ spent = {} /\ forgot = FALSE
    /\ reads  = [o \in Names |-> {}]
    /\ writes = [o \in Names |-> {}]

Create(n) ==
    /\ n \notin live
    /\ live' = live \cup {n}
    /\ UNCHANGED <<spent, reads, writes, forgot>>

LendRead(o, a) ==
    /\ o \in live \ spent /\ a \notin live /\ writes[o] = {}
    /\ live' = live \cup {a}
    /\ reads' = [reads EXCEPT ![o] = @ \cup {a}]
    /\ UNCHANGED <<spent, writes, forgot>>

LendWrite(o, a) ==
    /\ o \in live \ spent /\ a \notin live /\ Borrowers(o) = {}
    /\ live' = live \cup {a}
    /\ writes' = [writes EXCEPT ![o] = @ \cup {a}]
    /\ UNCHANGED <<spent, reads, forgot>>

\* Values move out, all in one expression.
Spend(S) ==
    /\ S \subseteq live \ spent /\ \A n \in S : Borrowers(n) = {}
    /\ spent' = spent \cup S
    /\ UNCHANGED <<live, reads, writes, forgot>>

\* A value moves into a new name.
SpendInto(n, to) ==
    /\ n \in live \ spent /\ Borrowers(n) = {} /\ to \notin live
    /\ spent' = spent \cup {n}
    /\ live' = live \cup {to}
    /\ UNCHANGED <<reads, writes, forgot>>

\* A name takes over another name's value; a borrow it held is returned, a
\* value it held may be lost.
Replace(dst, src) ==
    /\ {dst, src} \subseteq live /\ dst # src /\ src \notin spent
    /\ Borrowers(src) = {} /\ Borrowers(dst) = {}
    /\ spent' = (spent \cup {src}) \ {dst}
    /\ reads' = Without(reads, {dst})
    /\ writes' = Without(writes, {dst})
    /\ forgot' \in {forgot, TRUE}
    /\ UNCHANGED live

\* The function is left: what was not spent is lost with it, and reported.
Abandon(lost) ==
    /\ lost \subseteq live
    /\ spent' = spent \cup lost
    /\ forgot' = TRUE
    /\ UNCHANGED <<live, reads, writes>>

\* A region ends: its names die, and no borrower outlives what it borrows.
Close(gone) ==
    /\ gone \subseteq live
    /\ \A o \in gone : Borrowers(o) \subseteq gone
    /\ live' = live \ gone /\ spent' = spent \ gone
    /\ reads' = Without(reads, gone)
    /\ writes' = Without(writes, gone)
    /\ forgot' \in {forgot, TRUE}

Next ==
    \/ \E n \in Names : Create(n)
    \/ \E o, a \in Names : \/ LendRead(o, a) \/ LendWrite(o, a)
                           \/ SpendInto(o, a) \/ Replace(o, a)
    \/ \E S \in SUBSET Names : Spend(S) \/ Abandon(S) \/ Close(S)

Spec == Init /\ [][Next]_vars
=============================================================================
