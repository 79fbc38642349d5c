# Formal models of pragmajs

pragmajs checks JavaScript and TypeScript that is annotated in comments. One
checker follows *ownership* (`/*#own type: (buf: unique Buffer) => void */`):
unique values are consumed exactly once, affine ones at most once, borrows end
with the block that holds them. The other follows *refinements* (`/*#rt … */`):
preconditions, postconditions and loop invariants discharged by an SMT solver.
Both may ask the TypeScript compiler for types. Paths below are relative to
the repository; `check.rs` alone is `crates/own/src/check.rs`.

These modules are a model of the parts that carry the program's own logic and
are hardest to test: the ownership checker, the refinement verifier, the session
with the TypeScript compiler, the command that drives them, and the directory in
which all processes share the compiler. They are read with TLC (`tlc -config
X.cfg M`) and proved with TLAPS (`tlapm M.tla`).

## 1. The system

| Component | State it keeps | Operations | Hard behaviour | What makes it correct |
| --- | --- | --- | --- | --- |
| **Ownership checker: table and borrows** (`check.rs` 2498-2795, 3327-3446, 4788-4854, 5986-6109) | `tbl` (name → row: kind, state, definition loop depth, borrow counters, owner), `scopes` (bindings with the row each one shadowed), `loop_depth`, diagnostics | `push_scope`, `pop_scope`, `add_var`, `remove_var`, `begin_borrow`, `end_borrow`, `do_clone`, `apply_apps`, `consume_once`, assignment transfer | rows refer to each other by *name*; borrows end when scopes unwind, in reverse order; the decision table; counters that saturate; HashMap order | rows, scopes, counters and aliases agree; a writer is alone; borrows end before owners |
| **Ownership checker: statements** (`check.rs` 2797-3139, 3933-3992, 7557-7571) | local copies of the table per branch, `try_finally_depth`, `pending_finally` (a snapshot per finalizer), the recursion itself | `check_stmt` for every statement, `require_on_exit`, `tables_consistent`, `propagate_tbl_to_pending`, `stmt_exits` | which branch's table survives; finalizers walked once or twice; loops walked once; jumps | an accepted program consumes every unique value on every path, uses none after it moved, and keeps borrows inside their owners |
| **Ownership checker: expressions, calls** (`check.rs` 139-2490, 3458-3809, 3994-5984, 6628-7442) | `sigs`, `scoped_sigs`, `checked_bodies`, `suppress_consume`, `fn_ret` | collection of annotated declarations, lookup, argument modes, `count`, `check_discard`, `check_unique_arg`, `report_captures_*` | five mutually recursive walks over one expression that must agree on what is kept; nested functions that capture; a body reached from two contexts | no value is used twice, dropped or captured, however calls, literals and conditionals nest |
| Annotations (`crates/own/src/annot.rs`) | none | parse comments, attach them to spans | — (text) | each directive reaches one statement |
| Entry points, prelude (`own/src/lib.rs`, `prelude.rs`, `wasm.rs`) | prelude signature tables | `check_source…`, `check_paths` | layering of preludes by runtime | same verdict by every entry point |
| **Refinement verifier** (`crates/rt/src/verifier.rs`) | `State` per path: `env`, `assumptions`, `scopes`, `uninitialized`, heap facts; errors | statements over *sets* of states, `verify_loop`, `havoc_assigned`, `enter_scope`/`leave_scope` | facts that must be forgotten; Houdini-style inference that drops candidates until stable; errors truncated while it tries | the inferred set is inductive; no fact survives what may change it |
| Refinement parser, prelude (`rt/src/parser.rs`, `prelude/*`) | catalog | parse predicates, resolve environments | environment selection | conflicting declarations are not merged silently |
| Refinement driver, hints, transpiler (`rt/src/checker.rs`, `compiler_hints.rs`, `transpiler.rs`) | hints per span | fill omitted base types, emit runtime assertions | — (sequential passes) | generated names are fresh |
| **Compiler session** (`crates/corsa/src/lib.rs` 144-587) | one external process per analysis, its snapshot | validate, compare the source, spawn, query, compare again, release, close | the file or its project changes between two steps; any step fails | an answer is about the source that was asked about; the session is closed on every path |
| **Compiler cache** (`crates/pragmajs/src/bundle.rs`) | a directory shared by all processes, a staging directory in it | look up, download, extract, move child by child | crash between two moves; two processes at once | an executable that is found is usable |
| Combined checker, command line (`crates/pragmajs/src/lib.rs`, `main.rs`) | options | option parsing, discovery of compiler and tsconfig, order of checks, `build` | option combinations; when the compiler is needed | nothing is emitted for a program that failed |
| Locations, parsing (`crates/loc`, `crates/parse`) | none | offsets to line/column; the oxc parser | CRLF, UTF-16 | — |
| Docs, playground, generated preludes (`docs/`, `crates/*/docs`) | — | — | — | — |

How they interact: `main.rs` reads a file, parses it once and calls
`check_parsed`; that asks both checkers which types they lack, opens at most
one compiler session for both, hands its answers to them (payload types to the
ownership checker, base types to the refinement driver), and joins the reports.
Everything runs in one thread; what concurrency there is, is with other
processes (the compiler, the file system, another pragmajs filling the cache).
The checkers never call each other. Inside the ownership checker, signature
collection runs first, then every function body is walked by `check_stmt`,
whose handlers call the table's operations.

The hazards — what is hard to test in this code, each at its line — are listed
in `PROJECT.json` with the properties that look for them.

## 2. The modules

```
OwnTable ── OwnBorrow ── MCOwnBorrow         Loans (abstract)
   │            └──────── INSTANCE ─────────────┘
   ├────── OwnCheck ── OwnSound ── MCOwnSound
   │                      ├─ INSTANCE OwnRun (what the programs do)
   │                      └─ (with OwnTable_proof) OwnCheck_proof ── OwnSound_proof
   ├────── OwnExpr ── OwnUse ── MCOwnUse
   │                    └─ INSTANCE OwnEval (what the expressions do)
   └─ OwnTable_proof ── (with OwnBorrow) OwnBorrow_proof ── OwnLending_proof ── OwnRefine_proof

RtTerms ── RtVerify ── RtRun ── RtSound ── MCRtSound
CorsaSession ── Pragma ── MCPragma
                   └─ Pragma_proof
TsgoCache ── MCTsgoCache
   └─ TsgoCache_proof
```

**OwnTable** — the operations of the table as functions from a checker state to
the next one. `s.tbl` is `Checker.tbl` (a name without a row has `NoEntry`);
`s.bindings` with `s.marks` is `Checker.scopes` laid flat, a mark being how many
bindings there were when a scope was pushed; `s.depth` is `loop_depth`; `s.diags`
is the set of rules reported. Each operator carries the name of the Rust
function (`BeginBorrow`/`begin_borrow`). The two loops of the code that matter
(unwinding a scope, deciding an expression's names) are recursive functions
over the round, so that they can be proved about. Recursion along owner links
is `Root`, the name reached after as many links as there are names. Left out:
spans, payload type names, messages, the feature switches (all on, as shipped).

**OwnBorrow** — the checker walking through a body that does not branch. The
state is the checker's fields as variables and which scopes are loop bodies;
there is one action per kind of statement: declare, move into a new name,
borrow, clone, drop, evaluate an expression, assign, return or throw, open a
block or a loop, close. *The program is the environment*: any statement that
JavaScript's scoping accepts may come next, so a behaviour is a program and its
check. `Shadowing` and `Reassign` say whether an inner scope may reuse a visible
name and whether a name on loan may be assigned to.

**Loans** — the abstract specification: values lent for a region to many readers
or one writer; what is on loan is neither spent nor replaced; a region ends for
a value only together with its borrowers' (`crates/own/docs/design.md`, rules 7
and 9); what is given up unspent is reported (`forgot`). `OwnBorrow` implements it: `LendingDiscipline` is `LoanBook!Spec`, where
live names are the rows, spent names the `Consumed` rows, and the borrowers of a
name the rows whose owner it is, and a report is `UniqueForget`. Nothing of it mentions counters or row states:
that these suffice to enforce it is what the refinement says.

**OwnCheck** — `check_stmt` with control flow: blocks, `if`, `&&`, `while`,
`switch`, `try`/`catch`/`finally`, `return`, `throw`, `break`, `continue`. A
program is a sequence of tokens, written one token ahead of the checker; the
recursion of `check_stmt` is the stack `frames`, each frame holding what the
handler has in local variables (the table before the branches, the tables after
each, the snapshot a finalizer starts from, `stmt_exits`). A clause of a `switch`
may be empty, and a `switch` may have no clause. A finalizer that must
be walked again rewinds `pc` to its first token. A *fragment* is a sublanguage:
which operations, how many tokens, how deep.

**OwnRun** — what JavaScript does with those programs, with every condition free:
scopes, values that are held or spent, references, abrupt completions with
`finally` and `catch`. It is no code of the repository; it is the meaning the
rules are stated about. A fault is a unique value lost (`Leak`), a moved value
used, a value consumed through a borrow, a borrow used after its value is gone.

**OwnSound** — the two in sequence: a program is read and checked; if the checker
reaches the end and has nothing to report, the program is run. Its properties
are the checker's promise.

**OwnExpr** — the checker on expressions and the statements around them, each
operator named for the function it stands for: which signature a call has
(`InstanceSig`, `CallReturn`), how often and in which mode an expression uses a
name (`Count` and what it calls), which parts are checked with a table of their
own (`CheckExpression`, `VisitExclusive`), what happens to results nobody keeps
(`Discard`, `UniqueArg`, `CallSubexprs`, `SequencePrefix`, `ReturnedUnique`, which
all follow an expression to what may become its value: `Along`), what a nested
function captures (`Captured`, `NestedCaptures`, `FunctionCaptures`, with the hoisting
of `var`) and its check in an empty table (`CheckFunction`, once per body), and
declarations with moves, borrows, clones, owned results and literals that take
over what they store (`Initialised`). A node has its parts in the order the code
visits them. Signatures are a constant (`Sigs`).

**OwnEval** — the meaning of those expressions and statements, external to the
repository: the set of worlds that running one can leave. Values are handed over
as the contracts of `crates/own/docs/design.md` say, unknown callees take
everything, conditions go either way (an owned value is truthy), a literal owns
what it stores. Faults are the ones named in `Hazards`.

**OwnUse** — the two side by side: a program is written statement by statement
from a pool; `chk` is the checker's state, `world` what the function holds. A
program that is refused, or returns, ends. What a statement does to either is a
parameter, `Checked` and `Performed`, given `Verdict` and `Outcomes` in the
configuration: TLC's cost statistics would else unfold the walks over expressions
at every place they are used.

**RtTerms** — terms of the refinement logic as trees, their sorts, substitution,
and the query `solve_constraint_using` puts to Z3: a conjunction of facts and a
negated goal, without quantifiers, over variables, lengths and elements. Z3 is
outside the repository; its answer is modelled by enumerating the valuations of
the facts over a small range of numbers and NaN. Lengths and elements are cells
named by the *value* of the reference, which makes them congruent as Z3's
uninterpreted functions are; an integer that is converted to a number becomes
an unknown one unless it is a literal (`int_conversion_axioms`), and unknown
never proves anything. Valuations are kept with the facts (`models`).

**RtVerify** — `verifier.rs`: states (`env`, `entry`, `facts`, `scopes`, `uninit`,
`intact`), expressions as functions from a context to a context, statements as
functions from a bundle of paths to a bundle of paths, each operator named as
the Rust function it stands for. It has scopes that hide names and give them
back, qualifiers, the narrowing of branches and the dropping of contradictory
ones, obligations of types, indices and arguments, `push` and `pop` with length
snapshots, calls of refined functions, code that is not seen, and loops: the
names assigned, candidates, the rounds that drop them, the havocked exit.

**RtRun** — the meaning of the same programs, external to the repository:
JavaScript over small numbers, as the set of all worlds a statement can leave.
Code the verifier does not see may change one captured binding or array, or
nothing, and may replace methods; refined functions return any value of their
type. A broken obligation is a fault of the world.

**RtSound** — a body grows by a statement at a time; `v` is the verifier's
report on it, `worlds` what running it can come to. The two are constants of the
module (`Reports`, `Worlds`), which the configurations define by `Verdicts` and
`Outcomes`, so that TLC looks them up instead of profiling each of their cases.

**CorsaSession** — one `analyze` call: compare with the disk, scan for
suppressions, spawn, parse the configuration, initialise, require the sound
options, walk the program, ask for types, diagnose, release, close, compare
again, report. The file and the project may be edited, and the compiler may die
or refuse, between any two steps; what fails on the way back is collected in
`giveBack`: like `release_error` and `close_error` (255-265) it is reported only
after the second comparison, and only if nothing failed before.

**Pragma** — `main.rs` and the combined checker around it: arguments in any
order, the files collected, annotations, what each checker omits and so needs
types for, discovery of compiler and configuration, the checks with and without
a compiler, the verdict, `check`'s exit code and `build`'s output. What a text
contains (`Facts`) and what the machine offers (`Machine`) are parameters.

**TsgoCache** — `bundle.rs`: any number of processes that look for the
executable, download, unpack into the shared staging directory and move its
children to the cache one by one. A step is one call of the file system. Files
know who writes them and how far they are; a rename may be refused (the code
then copies), entries and requests fail, a process is killed between any two
steps and started again.

**MCOwnBorrow**, **MCOwnSound**, **MCOwnUse**, **MCRtSound**, **MCPragma**, **MCTsgoCache** —
symmetry, syntax and the fragments or inputs of each run.

**OwnTable_proof**, **OwnBorrow_proof**, **OwnLending_proof**, **OwnRefine_proof**,
**OwnCheck_proof**, **OwnSound_proof**, **Pragma_proof**, **TsgoCache_proof** — the
proofs, section 5.

## 3. The runs

| Run | What it asks | Bounds |
| --- | --- | --- |
| `lending` | Do rows, scopes, counters and aliases agree after any sequence of statements, is every step a step of `Loans`, and is the order in which the HashMap yields an expression's names invisible? | 3 names, 2 scopes, ≤ 2 appearances per expression, up to the first report; 67 thousand states |
| `order_reassign` | The same once a name on loan may be assigned to: **no** (finding 1) | 3 names, 1 scope |
| `sound` | Is what the checker accepts right, over six fragments? | 2 names, 8-10 tokens, 2-3 open constructs, 2 loop rounds; 4.9 million states |
| `exits` | Conditional returns out of nested finalizers, break and continue: is anything used after it moved, does every handler give back what it took, does the walk end? | 1 name, 10-11 tokens, 3 constructs, 2 finalizers; 2.7 million states |
| `jump_leak` | Is a unique value consumed on every path that leaves by `break`? **No** (finding 2) | 1 name, 8 tokens |
| `second_return` | … by a second return under a finalizer? **No** (finding 3) | 1 name, 12 tokens |
| `expressions` | Is what the checker accepts right, however calls, conditionals, literals and closures nest? | 2 names, 1 payload type, 12 signatures, 1653 statements, 2 loop rounds; programs of any length; 2.5 thousand states, 180 thousand steps |
| `cache` | Do kills, failures and interleavings leave anything half done that is taken for a compiler, and does whoever asks get an answer? | 2 processes, 2 files, 3 starts, 1 kill, 1 fault; 281 thousand states |
| `half_installed` | Has an executable that is found its libraries beside it? **No** (finding 4) | the same |
| `combined` | Do verdict, exit code and output belong to the text that was checked, whatever is edited and whatever the compiler does meanwhile? | 6 texts, 3 projects, 8 arguments (one of a value the option does not take), 2 machines, 1 edit, 2 files |
| `rt_sound` | Is what the verifier accepts safe, and is what it assumes after each statement so? | 7 fragments, numbers −1..4 and NaN, 2-3 statements after a prefix; about a thousand bodies |
| `stale_elements` | The same for an array that shrinks and grows: **no** (finding 5) | 1 fragment |

### What the properties say

* `TableIsScopes` — what `pop_scope` will unwind is exactly what the table holds;
  `ScopesCoverTable` says it across branches, where `self.tbl` is replaced by one
  branch's table and the scopes are not.
* `Ledger`, `LentWhileAliased` — the borrow counters and the row's state are both
  redundant encodings of the aliases; they must say the same after every
  borrow, re-borrow, clone, move and region end.
* `WriterAlone`, `NoDangling`, `OwnersEnd` — a writer excludes every other
  borrow; an owner's row outlives its aliases' rows; following owner names ends
  (`apply_apps` recurses along them, on a cycle it would not return).
* `LendingDiscipline` — the refinement.
* `OrderBlind` — the check is a function of the program: in every state without a
  report, each expression of two names decides the same in both orders.
* `NothingUsedTwice`, `NothingForgotten`, `NothingAliased`, `NothingCaptured` —
  soundness on expressions, against `OwnEval`: nothing used after it was handed
  over or through a dead borrow, no unique result dropped and no unique name
  left holding a value, no call given one value twice when it writes or takes it,
  no owned name used in a function that may run at another time.
* `TableIsTrue` — the reason why: after each accepted statement the row of a name
  says what the name really holds, has given away or borrows. It fails steps
  before a fault can happen.
* `ConsumedOnEveryPath`, `NoUseAfterMove`, `BorrowsAreSafe` — soundness, against
  `OwnRun`. `ConsumedOnEveryPath` leaves out programs that may leave a `switch` with a
  default through an empty last clause (`EmptyWayOut`; section 4, `EmptyClauses`);
  `NoLeak` is the same without the exception. `NoUseAfterMove` leaves out programs with both `throw` and `catch`: a
  handler is checked from the table before the block, which
  `crates/own/docs/implementation-journey.md` (section 3) names as not closed.
* `Balanced` — loop depth, finalizer depth, snapshots and scopes are given back.
* `Walked` — the walk ends (liveness).
* `NothingHalfDone`, `InstalledIsComplete`, `QuietIsComplete` — while downloads do
  not overlap: no half file reaches the cache, whoever downloaded has everything,
  and only a kill between two moves leaves an executable alone. The history
  variables `alone` and `copied` say when downloads have overlapped or a rename
  was refused; without them the first and third are false, see section 4.
* `Answers` — every `look` is followed by an answer or a kill, overlapping
  downloads included (liveness).
* `AnswersTheText` — the types of an answer were computed from the very text that
  was asked about, however the file was edited meanwhile; `SoundProject` — what the
  compiler loaded had sound options and suppressed nothing; `SessionGivenBack` — no
  compiler process or snapshot outlives the call, on any path, whatever failed.
* `OnePlatform`, `ZeroMeansAll`, `BuiltIsAccepted`, `CompilerErrorsAlone`, `Ends` — of
  the command: one platform for both checkers however options are ordered, exit
  code 0 only if nothing in any file is objected to, output only from an
  accepted text, no refinement findings beside compiler errors, and an end.
* `Safe` — soundness of the verifier against `RtRun`. `FactsHold` — its induction
  hypothesis: in every world some path's facts, taken with the qualifiers, have
  a valuation that is the world. It fails as soon as something is not forgotten,
  statements before a report is missed; and since loop exits assume the inferred
  invariants, also when those are not inductive.

### Bounds, and why they are enough

Two names give an owner and an alias, or a source and a destination; three give
chains (a borrow of a borrow) and two borrowers of one owner, which is where
counters can disagree. The decision table distinguishes zero, one and more
appearances of each mode, so two appearances reach all of it. Two scopes give an
alias in an inner region or beside its owner; loop depth matters only as equal or
different. A walk is cut off once it has reported more than `MaxRules` rules:
reports mean rejection, and the table after them decides nothing but
further reports. In `sound` and `exits`, each fragment's
token bound covers the shortest program in which its construct's parts all occur
with a value made, moved and used around them, and each extra token was raised
until a run took minutes. `MaxTurns = 2` loop rounds: one that runs, one that
comes after a move in the round before. A statement after a jump in the same
part is not written: it cannot run, and the checker's verdict on it is not about
any path. Every fragment's programs can be completed within the bound (`Owed`),
so no exploration is spent on programs that never end.

In `cache`, two processes meet in every way two can at each file; a third would
wait for one of them. One library stands for all, as the executable's presence is
the only thing the code looks at; three starts give a failed or killed attempt,
one beside it, and one after both. In `combined`, one edit of the file and one of
the project can fall between any two steps, and each text has one thing that a
checker, the compiler or the scan objects to. The verifier's fragments each pair
statements that one mechanism has to keep apart (aliases and lengths; shrinking;
hidden names and unseen code; loops; indexed parameters; ranges; results of a
promised length); the range −1..4 has a negative number, zero, one and lengths on
both sides of the comparisons, and NaN. A small range proves more than Z3 does,
so the model may accept more than the code, never less: `Safe` and `FactsHold`
are checked for more bodies. Runs that leave the range end silently.

In `expressions`, a program may be as long as it likes: what matters of its past is
the checker's state and the world, and there are 2.5 thousand pairs of them. Two
names are what a call needs to get one value twice or two values at once, and a
nested function to capture one and bind the other. The pool has every operator
with every kind of operand below it once (a name, a fresh value, a literal, a
name handed over, a name read), every call form with one and two names, and a
second level where a value goes on through a condition or sequence into a
call, a literal or a declaration. The key order is fixed there; `OrderBlind`
says that it does not matter.

Names are symmetric in the other safety runs of the ownership checker (every name occurs in the same role); the
liveness run has one name and no symmetry.

Deadlock is not checked: a walk ends (the program's end, a report, the bound).
Fairness is assumed in three runs. `exits`: `WF(Checking)` alone, the checker being
a sequential program that keeps running once started; nothing is assumed of the
programs it reads or of their execution. `cache`: `WF(Run(p))` for each process,
which is scheduled by the operating system; nothing makes it start, fail, or be
killed, and a request is taken to return. `combined`: `WF(Program)`, the command
itself, which includes the compiler's answering or failing each request (a compiler
that hangs for ever hangs the command; that is not modelled); edits are not fair.

### Mutants

Each property has a mutation of the code's model that breaks it (`\* mutation:` in
`OwnTable`, `OwnCheck` and `OwnExpr`): a borrow end that gives the owner back at once, a row
left behind by `pop_scope`, a writer admitted beside readers, a table captured
before its scope was popped, a `switch` taken to enter a clause, a finalizer
walked once, a snapshot kept for the second round, a receiver that is
only a path, a second use not counted, `let` hoisted as `var` is, and so on. In the other
modules: entries unpacked where they are used, an archive that ends at an
unreadable entry, a session left open when a query fails, the source compared
once, output made from the disk, the last file deciding the exit code, heap facts
kept by a push, a hidden name given back with what was known of it, one round of
the loop inference.

## 4. Where the code departs from its documents

The violation runs show these on the model; `PROJECT.json` quotes the documents.

1. **Reports depend on HashMap order** (`order_reassign`). An assignment to a lent
   name clears its borrow counters while the alias stays. An expression that then
   consumes the alias and reads the owner is accepted or rejected depending on
   which key comes first (`check_expr`, line 4758).
2. **`break` and `continue` leak** (`jump_leak`). They fall into `check_stmt`'s
   catch-all arm: `while (c) { let a = make(); if (d) { break; } consume(a); }`
   is accepted.
3. **The second return under a finalizer leaks** (`second_return`).
   `require_on_exit` keeps only the first snapshot:
   `try { if (c) { return; } let a = make(); if (d) { return; } consume(a); } finally { }`
   is accepted.

4. **An executable without its libraries is a compiler** (`half_installed`).
   `download_and_extract` moves children one by one, in directory order, and
   `cached_tsgo` asks only for the executable: a kill between two moves leaves a
   cache no later run repairs, and a process that looks meanwhile uses half of it.
5. **Elements outlive a pop** (`stale_elements`). `snapshot_heap_measure` puts the facts
   about the receiver's elements back (`verifier.rs` 5225-5236); after
   `const xs = [1, 0]; xs.pop(); xs.push(-1)` the element is still taken to be 0 (what
   the push says is about an integer element, a different function of the solver):
   `const z /* z >= 0 */ = xs.pop()` is accepted.

Reproducible with the fragments in `MCOwnSound` or other constants, but not
separate runs:

* `Fragments <- EmptyClauses`, invariant `NoLeak`: a clause without statements leaves
  no table (2974-2976), but an empty `default` still counts as one (2967), so that the
  table before the switch is not compared either (2991):
  `let a = make(); switch (x) { case 1: consume(a); break; default: }` is accepted and
  leaks `a`, against `crates/own/docs/design.md` 32.
* `Fragments <- NestedReturn`: after an inner finalizer the outer snapshots are
  replaced, those of returns that never went through it included
  (`propagate_tbl_to_pending`, 3924-3931): a leak.
* `Fragments <- ZeroRounds`: an assignment in a loop's body is taken to have
  happened (2838): a use after move on the path with no rounds.
* `Fragments <- Overwrites`: `a = b` with `b` untracked leaves `a`'s row live
  (4788-4826): the value `a` held is lost.
* `Fragments <- ClonedBorrow`, with three names: the clone of a borrow gets a row of the
  borrow's kind that owns nothing (`do_clone`, 3386-3396), so that
  `borrow a as b; clone b as c` leaves a value in `c` that need not be consumed and
  may be consumed twice; `crates/own/docs/design.md` 130-131 promises "a **new**
  unique/affine row". `ConsumedOnEveryPath` and `NoUseAfterMove` fail.
* `Reassign = TRUE`: `Ledger` and `LentWhileAliased` fail (4840-4846).
* `Shadowing = TRUE`: owner links are names, so an inner declaration captures the
  outer owner's aliases; `Ledger` and `OwnersEnd` fail. Documented:
  `docs/ablation.md` 149-150.

This is why `lending` and the theorems about `OwnBorrow` below, `Typed` apart, are
about names on loan that are neither shadowed nor assigned to.

On expressions the checker accepts too much of the following, with signatures as in
`MCSigs`. `MCOwnUse` leaves them out of its pool; adding one of the first six makes a
property of `expressions` fail, the others were found by reading:

* `let b = c ? take(a) : a` — the branches agree that `a` is consumed, but
  `ident_move_src` (7449-7477) finds no common source, so `b` has no row although it
  may hold what `a` held.
* `void take(box)` where `box` holds owned values (`let box = [a]`): everything inside
  `void` counts as a path then (5454-5462), so the move is not recorded.
* `read((take(a), a))`, `(a, a).close()` — an argument or receiver that comes down to a
  name is counted as that name alone; the rest of the sequence is not (5956-5984).
* `pair(c && a, a)`, `o.f = take(a) && 0` with `o` being `a` — conditional parts are
  decided after everything beside them (4758-4784, 6871-7055), not in the order of
  evaluation.
* `a?.close()`, `a.close?.()`, `g?.(a)` — an optional call consumes neither its receiver
  nor its arguments unless it names a known function (5562-5590).
* `a = some()`, `a = b.next()`, `a = b || 0` — an assignment whose right side is not a
  name is not a move; nor is one inside another expression, or from a name
  without a row (`OwnUse!Writable`).
* A use of a borrow is not compared with its mode: writing through a read borrow, or
  passing one write borrow twice, is accepted.
* Closures: a captured name that is only assigned to, or a member of it, is not
  reported; nor is a capture in a closure written before the name is declared.
* `(c ? f : g)(a)` is checked against the signature of `f` (7574-7615).

The refinement verifier believes too much of the following, which the fragments of
`rt_sound` leave out (adding one to a pool makes `Safe` or `FactsHold` fail):

* A loop's exit havocs what the body assigns, not what a call in the body may have
  changed (4442-4474): a captured `let`, and the trust in library methods, survive
  `while (i < 2) { external(); i++ }`, against
  `crates/rt/docs/compiler-backed-platform-refinements.md` 149-154 and the comment
  at 4128-4131.
* A loop test's own assignments are not among the assigned names (4408-4411).
* The right side of `&&` and `||` is executed as if it always ran (2015-2046).
* Assignments nested in other expressions are not collected (6373-6399).
* The `let` of a `for` is bound in the enclosing scope (1738-1771, 4280-4295).
* A length read before a push in the same expression is a term of the heap after
  it: `xs.length - xs.push(1)`.
* A havocked name keeps the sort it had (4537-4561): an integer stays one though
  the body may make it a NaN.
* On an empty array, `pop` after unseen code is not checked (it is a NaN in `RtRun`).

Of the driver, with other constants or by reading:

* `Recur = TRUE`: a file that changes and changes back between two comparisons is
  not noticed; `AnswersTheText` compares texts, as the code does.
* A project edited between the start of the session and `parse_config_file` is
  judged by other options than the session uses; `SoundProject` says so (`touched`).
* `--corsa` with a file that does not exist is reported as "TypeScript config not
  found" (`pragmajs/src/lib.rs` 561-576).
* A cached compiler is preferred to one on PATH (`pragmajs/src/lib.rs` 612-632);
  `rt/docs/compiler-backed-platform-refinements.md` 91-92 and `crates/pragmajs/README.md`
  15-16 name CORSA_BIN or TSGO, then PATH.
* `synthesize_tsconfig` (664-678) writes a shared temporary file in place: two
  processes may read it while the other writes.
* Downloads that overlap share one staging directory: `copied` or `alone = FALSE`
  leaves partial files in the cache.

## 5. What is proved

For every value of the constants: every finite set of names and every bound of
the checker's statements, every fragment of programs, every set of texts,
projects, arguments and machines, every set of processes and of archive entries.
The named assumptions of the modules give the constants their types
(`NamesAssumption`, `OwnBorrowAssumption`, `OwnCheckAssumption`,
`SessionAssumption`, `PragmaAssumption`, `CacheAssumption`); beside them:

| Theorem | States | Assumes |
| --- | --- | --- |
| `Typed` | `TypeOK` | nothing |
| `ScopesAreTheTable` | `TableIsScopes` | `~Shadowing`, `~Reassign` |
| `CountersBalance` | `Ledger` | the same |
| `LoansAreLive` | `LentWhileAliased` | the same |
| `WritersAreAlone` | `WriterAlone` | the same |
| `NothingDangles` | `NoDangling` | the same |
| `LinksNeverCycle` | `OwnersEnd` | the same |
| `OrderDoesNotMatter` | `OrderBlind` | the same |
| `TableLends` | `LendingDiscipline` (the refinement of `Loans`) | the same |
| `WalkTyped` | `CheckTypeOK` | nothing |
| `HandlersGiveBack` | `Balanced` | nothing |
| `TableIsOpenScopes` | `ScopesCoverTable` | nothing |
| `AcceptedConsumes` | `ConsumedOnEveryPath`, `NoLeak` | `Structured` fragments |
| `AcceptedKeepsMoves` | `NoUseAfterMove` | `Structured` fragments |
| `AcceptedBorrows` | `BorrowsAreSafe` | `Structured` fragments |
| `NothingWithdrawn` | no step withdraws a report | nothing |
| `PragmaTyped` | `PragmaTypeOK` | nothing |
| `TypesOfTheText` | `AnswersTheText` | nothing |
| `AnswersAreSound` | `SoundProject` | nothing |
| `NoCompilerLeft` | `SessionGivenBack` | nothing |
| `PlatformDecides` | `OnePlatform` | nothing |
| `ZeroIsAll` | `ZeroMeansAll` | nothing |
| `BuildsAreAccepted` | `BuiltIsAccepted` | nothing |
| `CompilerErrorsFirst` | `CompilerErrorsAlone` | nothing |
| `CacheTyped` | `CacheTypeOK` | nothing |
| `CacheIsWhole` | `NothingHalfDone` | nothing |
| `InstalledHasAll` | `InstalledIsComplete` | nothing |
| `QuietHasAll` | `QuietIsComplete` | nothing |

The lemmas about the table's operations, which all proofs about the ownership checker
share, are in `OwnTable_proof`: types and frames, the book of loans, owner links.

**Types** (`OwnBorrow_proof`). `TypeOK` is not inductive: closing a region could
leave marks beyond the bindings, or a loop depth below zero. `TypeInv` adds
`Nested`: marks are at most the number of bindings and do not decrease, and
`loop_depth` is the number of open loop bodies. `OwnTable_proof` shows, operation
by operation, what each leaves alone: the operations on uses keep rows, owners
and bindings (`Keeps`), declarations append one binding (`Grows`), unwinding
shortens the bindings down to the mark and keeps the rest.

**Lending** (`OwnLending_proof`). The invariant is `BookInv`, `TypeInv` and
`Book(Now)`:

* `Linked` — every row has exactly one binding, no binding shadows a row, and an
  alias is bound *after* its owner. Without the last part an unwinding could
  remove an owner before its alias, and the counters would be lost.
* `Accounts` — each row's counters are the numbers of its aliases and its state
  says which mode is lent (`Counted`), a writer is the only alias (`Exclusive`),
  and every alias's owner has a row (`Rooted`).

Each of the five properties is a part of `Book`; none is inductive by itself. The
central lemma is `RowLeaves`: when a row without aliases leaves the table, its
owner's counter goes down by one exactly as its set of aliases loses one member,
and the owner's state is given back exactly when that set becomes empty.
`PoppedBook` carries it through the rounds of `pop_scope`; since TLAPS cannot
instantiate the library's induction theorems, inductions over rounds are proofs
by least counterexample (`Least` in `OwnTable_proof`).

**Order, links and the refinement** (`OwnRefine_proof`) use the same invariant.

* `LinksNeverCycle`: `Linked` puts an alias's binding after its owner's, so each
  link leads to an older binding and after as many links as there are names one is
  at a name that borrows from nobody (`LinksEnd`).
* `OrderDoesNotMatter`: deciding a name may use up its own value only, and a value
  that is used up is neither on loan nor the owner at the end of another name's
  links (`RootNotUnconsumed`), so what is decided of a second name reads nothing the
  first one writes (`UsesCommute`). Assigning to a lent name is what breaks this
  (finding 1).
* `TableLends`: for each statement a *view* says what it does to live names, spent
  names, borrowers and reports (`Creates`, `Moves`, `Lends`, `Spends`, `Replaces`,
  `Abandons`, `Closes`); a lemma per operation shows that the table does it
  (`BorrowView`, `AssignView`, …) and a lemma per view that it is a step of `Loans`
  (`LendsStep`, …). `Book` gives the guards: what `begin_borrow` allows by counters,
  `Loans` allows by sets of borrowers. `pop_scope` closes binding by binding, and only the
  union of its rounds is a `Close`.

The proof found the abstract specification too permissive: a return could mark
every name spent without a word. `Loans` now requires that what is abandoned is
reported, and the run and the theorem are about that version.

**The walk** (`OwnCheck_proof`). A step of `check_stmt` is a table operation, the
opening of a construct, its next part, or its end. `Balanced` speaks of counts over
`frames`, and its invariant `CheckInv` is types and `Fits`: loop depth, finalizer
snapshots and scopes are the *numbers* of open constructs of the kinds that take
one (`Amount`), `body` is the outermost frame and nothing else, marks do not
decrease. A part that changes replaces one frame's tag, so each counter changes by
what the two tags count (`One`). That a finalizer is walked twice needs that the
token it returns to has been read (`frames[i].at <= Len(prog)`).

`ScopesCoverTable` compares the table with the bindings *after* a branch's table has
been put back, so its invariant `CoverInv` must speak of all tables the handlers
keep: each kept table covers exactly the bindings up to the mark of its own
construct (`FrameCovers`), a binding hides a row exactly when an older one has its
name (`Hides`), which is what makes `pop_scope`'s restoring right under shadowing,
and a `switch` that waits for a clause is innermost, since it has no scope of its
own. Without finalizers no token is walked twice, so the walk is always at the end
of the program written so far. With them the property is false of the code's
intermediate states: a finalizer starts from the table of an inner return.

**Soundness** (`OwnSound_proof`). The three promises of the checker are about the
*executions* of a program it has finished with, over a program of any length; no
invariant of the execution alone would do, since that a value is not moved twice is
known only from the table the checker had *at that token*. The proof is a simulation
in two halves.

* *The walk.* `TraceInv` (inductive over the checker) says that there is a sequence of
  checkers `cs` and of open constructs `rs`, one per token, that the program read so far
  takes from one to the next (`Follows`), and that the checker and its frames are the last
  of each. A history that no variable holds is thus an existential in the invariant.
  `Does` says what each accepted statement did to the table (`Changes`: which rows are
  new, which values are gone, everything else as before); `Within` compares a construct's
  inside with the state where it was opened: in a loop no older value is gone. When
  a construct is left without a report, its own unique values are gone and the older rows
  have what it made of them (`Resumes`, `Leaves`).
* *The shape.* `OwnRun` finds the end and the parts of a construct by counting openers
  and ends (`Nest`, `CloseOf`, `Middle`). `NestDepth` shows that this counts the depth of the
  walk, so the executed jumps are between states of the walk: over a branch that agrees
  with what it skips (`AgreeView`), back to the test of a loop whose body left older values
  alone (`LoopView`), out of the function where nothing is owed (`Quiet`).
* *The run.* `ExecInv` (inductive over the execution) says that before token `ip` the
  memory is a picture of `cs[ip]` and `rs[ip]` (`Pictures`): a name's row says what its slot
  holds, an owner's value is held, no value has two owners, a borrow refers to what its
  owner's slot does, and nothing has gone wrong. One lemma per kind of step
  (`EffectOf`, `OpenOn`, `ElseOn`, `TestOn`, `BranchOn`, `RoundOn`, `EndOn`, `EofOn`, `JumpOn`,
  `UnwindOn`) shows that it stays so wherever the execution goes on.

`Structured` is the premise about the fragment: operations `Written` (declarations, moves,
borrows, clones, uses, `&&`, blocks, conditionals, loops, `return`, `throw`), no shadowing,
and not borrows together with clones. Programs with what is excluded make the
statement false, or are those whose check the documents give up: `break` and
`continue` (finding 2), returns under finalizers (finding 3), handlers (`NoUseAfterMove`'s
premise), assignments (`ZeroRounds`, `Overwrites`), clones of borrows (`ClonedBorrow`); except
for `switch` (beside `EmptyClauses`) and for shadowing without borrows, which the runs cover and the walk's picture
of the scopes, one slot per name, does not. The fragments `Branches` and `Loops` of the run `sound` are
structured; the theorems hold of them for every number of names, tokens, nested
constructs and loop rounds.

`NothingWithdrawn` is the action property the walk needs: a program without
reports at its end had none at any token, so every statement of it was accepted.

**The session and the command** (`Pragma_proof`). The properties speak of an answer,
an exit code or an output, and say nothing of the states before it; the invariant
`PragmaInv` says what each stage has established.

* `Held`: up to which stage there is no compiler, from which on there is one, and
  what has been released or has failed to be. Failures leave from any stage, which
  is why `SessionGivenBack` is not about the path that succeeds.
* `Guarded`, of an unedited project: the flaws found are those of the options, and
  past each guard the guarded flaw is absent. `Matched`, if no text comes back:
  what was asked about has been on disk, and *if* the disk still holds it during a
  session, the compiler loaded it. The second comparison turns that "if" into a
  fact; neither comparison alone does. `Told`: the reply is about what was loaded.
* `Attached`, `Chosen`, `Judged`, `Counted`: which analysis belongs to which step of
  `main`; that what has run ran with the platform given; that an objection to the
  current file makes it fail; that an objection is never forgotten between files:
  it is about the current file or has been counted in `ok`.

**The cache** (`TsgoCache_proof`). Each of the three safety properties says what
the cache directory holds *when* a download is over, so none is inductive. The
invariant is `CacheTypeOK`, `StagingGone` (no staging directory, no staged file)
and `Progress`. While `alone` holds (no two downloads have overlapped) `Progress`
says that at most one process downloads and, step by step, how far it has got
(`Doing`): before the first move the executable is not in the cache, while it
unpacks the entries done so far are whole in staging, and from the first move on
every entry is whole *either* in the cache *or* still in staging. That last part
is why the loop over the directory ends with a complete cache. The proof has one
lemma per kind of step (`Unpacking`, `Moving`, `Looking`, `Dying`); a process that
overlaps another makes `alone` false, so those cases are free, and `Aside` says
that a process that does not download disturbs nobody's progress.

**Only model-checked.** Liveness (`Walked`, `Answers`, `Ends`) and `ENABLED` are out of
the prover's reach. `ConsumedOnEveryPath`, `NoUseAfterMove` and `BorrowsAreSafe` are proved
for structured fragments and model-checked for the others, where findings 2 and 3
show how little would have to change for them to be false. The properties of `OwnUse` and
`RtSound` rest on walks over syntax trees (`OwnExpr`, `OwnEval`, `RtTerms` and what extends
them), which are `RECURSIVE` operators.

## 6. What is not modelled, and why

* Of the ownership checker's `check_stmt`: `for` and `for-in`, labels, destructuring,
  classes, JSX, tagged templates. `OwnCheck` and `OwnExpr` divide the rest: jumps,
  branches and finalizers are with the counts of expressions in the one, expressions
  with straight-line code, blocks and loops in the other.
* The collection of ownership signatures from declarations, with function and
  namespace scopes (`check.rs` 159-2490): `Sigs` is what it would leave for one scope.
  Nested functions with a signature, and payload types that differ. In the plan.
* Annotations and entry points: text, and which tables are layered.
* Of the verifier: strings, objects and their members, callbacks, imports, abstract
  predicates, products, the provenance of project-authored implementations, `switch`,
  `do` and jumps. Obligations on them have the same shape as those modelled; what
  they would add are more kinds of facts to forget.
* Of the session and the command: how types are rendered, JSON, URLs and platform
  names, messages, the playground bindings.
* `transpiler.rs` and `compiler_hints.rs`: one pass over a tree, edits of text.
* Line and column arithmetic (`crates/loc`): in the plan.
* Never: predicate text and type text, the inside of Z3, the oxc parser, message
  wording, generated prelude data, `wasm.rs`, the playground.

## 7. The plan

Order of work, the most important behaviour first; 1-7 are done.

1. `OwnTable`, `OwnBorrow`, `Loans`: table, borrows, abstract discipline. *Done.*
2. `OwnCheck`, `OwnRun`, `OwnSound`: control flow against meaning. *Done for the
   statements listed above.*
3. `OwnTable_proof`, `OwnBorrow_proof`, `OwnLending_proof`, `OwnRefine_proof`,
   `OwnCheck_proof`, `OwnSound_proof`. *Done.*
4. `TsgoCache`: the cache under kills, failures and interleavings. *Done, with proofs.*
5. `CorsaSession`, `Pragma`: one analysis, and the command around it. *Done, with proofs.*
6. `RtTerms`, `RtVerify`, `RtRun`, `RtSound`: the verifier against meaning. *Done for
   numbers, booleans and dense arrays.*
7. `OwnExpr`, `OwnEval`, `OwnUse`: expressions, calls, nested functions against meaning.
   *Done for unannotated nested functions.*
8. `OwnSigs` — the collection of signatures with its scopes against JavaScript's
   binding; annotated nested functions and `enter_body`'s first context.
9. The verifier's callbacks, strings and objects.
10. `LineCol`, `PreludeEnv` — pure algorithms against references.

Proofs worth having next: that a row that is used up stays so until its name is assigned
to or leaves its scope, as an action property; soundness with `switch`, whose clauses
would be further parts of a construct in the walk, and with shadowing where nothing is
borrowed, for which a picture needs a slot per binding instead of one per name.
