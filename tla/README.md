# Formal models of Halis

Halis is a native-first language whose compiler emits one C file per program:
the user's functions and a concurrency runtime (tasks, channels, `select`,
`join`, a deadlock detector, a deterministic scheduler for tests). The libraries
`std` and `core` are written in Halis on top of it. A second toolchain in Python
(`src/tools`) holds the bootstrap interpreter with its checker and proof engine,
an intermediate representation with an optimiser, and the programs around the
compiler: package manager, transparency logs, debugger, development server,
audit ledgers.

These TLA+ modules model what tests of that code hardly reach: the order of the
steps of several threads, the paths a static analysis has to follow, and the long
sequences of commands that must keep a ledger honest.

Paths below are those of the repository as it is laid out beside this directory;
`hlinterp/…`, `ir/…` and so on are under `src/tools`.

Contents: [inventory](#inventory), [modules and code](#modules-and-the-code-they-model),
[runs](#runs-bounds-and-what-they-show), [fairness](#fairness), [proofs](#proofs),
[findings](#findings), [other disagreements](#disagreements-without-a-run),
[limits](#only-model-checked-and-not-modelled), [plan](#plan).

## Inventory

| component | state | operations | what is hard | correct when |
|---|---|---|---|---|
| Preemptive runtime, `src/hlc/runtime.hls` 1278–2450 | `g_rt_mu`, `g_rt_cv`, a queue and two waiter counters per channel, a record per task, four global counters | send, try_send, recv, recv_or, select, spawn, async_spawn, join, task finish and release, deadlock check | one condition variable for everybody; counters that count woken threads as blocked; a detector that kills the process | counters exact, no lost wake-up, verdicts true, no silent hang |
| Channel lifetime, same file | atomic count per channel, registry of live channels | new, clone, copy of a binding, release, drain, free | lock-free counting, release under a held mutex, channels inside channels | freed once, by the last; nothing refers to freed memory; nothing leaks |
| Deterministic scheduler, native and interpreted (`interp_parts/rt_conc.py`, `spawn.py`) | baton owner, ready queue, queued flags, wait lists of cells, `det_join_live` | one turn per operation, wake lists, scan when the baton goes to nobody | stale cells of a select, nodes queued twice, the verdict of the scan | every node gets its turn; same channels as the preemptive mode |
| Streams and generators, `gen_expr.hls` 1550–1650 | bounded channels with an in-band end, a worker per stage | generate, map, filter, take, merge, flat_map, fold, drain | the end is a value; workers own no reference | what comes out is the composition of the stages; everything above a drained stage comes to rest |
| `std.sync` | channels of tokens | locks, condition variables, once-cells, barriers | every operation is several channel operations | exclusion, linearisability, rendezvous |
| Check elision and re-verification, `hlinterp/proof.py`, `hlreverify_parts` | facts per variable and list | seed, transfer, refine, join, widen, verify | break, continue, aliasing, shrinking lists | an elided check would never have failed |
| Invariant inference, constant-time claims, moves (same file and `checking/`) | candidates, marked names, moved names | summaries, fixpoints | order of assignments, paths that skip a loop | what is claimed holds in every run |
| Intermediate representation, `ir/` | blocks of instructions | lower, fold, copy, eliminate, inline, hoist | passes that do not see a later store | the optimised blocks run as the source does |
| Effects, interrupts, stack, effect audit (`checking/core.py`, `match_fx.py`, `hls-audit.py`) | a call graph | fixpoint, closures, longest chain | edges that are not calls (tasks, defaults, methods) | nothing is done without authority; handlers do not allocate |
| Built-in functions (`checking/call.py`, `interp_parts/builtin.py`) | handles, children | type and run | limits of the host | a call ends as it is typed |
| Development server, debugger, logs, package manager, audit ledgers | files, threads, sockets, repositories | see their modules | two commands at once, a writer killed, state checked and used later | nothing acknowledged is lost, verdicts are true |
| Kernel library `src/core`, network library, collections | values | | partial failure, long legal sequences | not modelled, see below |
| Front end, code generator, text tools, editors | syntax trees, files | | unbounded data | not modelled |

How they interact. A compiled program calls the runtime; every channel operation
is a critical section of `g_rt_mu`. `std.sync` and streams know the runtime only by
what channels promise, so their modules take a channel operation to be one
atomic step that waits until it can complete. That promise is a module of its own,
`ChanSpec`, and both schedulers are checked to keep it. The analyses all read the
same programs: `Flow` says how a program runs, each analysis says what it claims,
and the runs are what the claims are held against.

`PROJECT.json` lists every component, with the reason when it is not modelled, and
under `hazards` the places in this code that a test would hardly reach, each with
the property that watches it.

## Modules and the code they model

Every definition that stands for code is in the `map` of `PROJECT.json` with its
lines. Definitions commented *Seeded fault* are wrong variants of a definition
of the code: no specification uses them. Put in place of the definition that
follows them, they show which property notices.

### Runtime and synchronisation

**`ChanOps`** – requests (send, recv, select, join) and `ReadyFor`, the condition
each waits for. `Carries` is the element type of a channel: the values it admits. **`ChanSpec`** – the promise: FIFO channels with capacities, waiting,
select, spawn, join, and a deadlock verdict given only when nobody can go on.

**`ChanRuntime`** – the preemptive runtime. A section between taking `g_rt_mu` and
giving it up, by unlocking or by sleeping, is one action. `status` says where a
thread is: `asleep` is inside `pthread_cond_wait`; `woken` has been woken and has
not got the mutex back, and is still counted as blocked, as in C. `Enter` is the
first part of a blocking call: proceed at once, or `CountUp`, run the detector and
sleep. `Resume` is what a woken thread does with the mutex. `Broadcast` is part of
every action whose code has it. `SpuriousWake` is POSIX's. `Spawn`, `StartThread`
and `StartFails` split `hl_spawn`, which counts the task before it exists. The
clients are the most general ones: any running thread makes any request.

**`ChanLifetime`** – reference counts. Clone and release are one atomic step each;
the copy of a binding is `CopyLoad` and `CopyStore`, because the code generator
emits the non-atomic `hl_retain` for it. A clone, copy or release by another thread
between the two makes the count wrong from there on; `overtaken` is a history that
remembers that it happened, and what is asked of the counts ends there. `g_rt_mu` is a variable here: a refused
`try_send` and a `recv_or` that took a message release a payload while they own it.
The last release unlinks, drains one message per step and frees; a drained message
can be the last reference to another channel, so a thread has a stack of such
activations.

**`DetSched`** – the same operations under `HL_DET_SCHED`. Only the owner of the
baton runs and every operation hands it on, so one action is one turn: `Perform`,
`Yield` or `Park`, and `Pass`. `Verdict` is the scan that runs when the ready queue
is empty. Cells of a select stay on the lists of the channels that did not wake
it. The constant `Interpreted` chooses between the native scheduler and the
interpreter's, which differ in what becomes of a deadlock found by a task that ends.

**`Streams`** – generators and the five combinators, each a worker between two
bounded streams; `refs` counts the references the native code keeps. A pipeline is a
sequence of stages in which a stage reads earlier ones and each stream is read once
(`IsPipeline`); `q[i]` is what is in the stream of stage i, `box[i]` what its worker
sends next, `forwarded[i]` the inner stream a flat_map has at the moment.

**`RwLockSpec`, `RwLock`; `OnceSpec`, `OnceCell`; `Monitor`; `Barrier`** – `std.sync`,
one channel operation per step, over the threads of `Threads`. `at` (`mon_at`,
`bar_at`, `cell_at`) is the channel operation a thread is to make next, `c`, `s`, `v`,
`i` (`bar_c`, `cell_call`) are its locals. Clients keep the documented contracts (only
a holder unlocks; `barrier_reset` when everybody has returned).

### The compiler's analyses

**`Flow`** – how a function runs: statements over integers of a bounded width and
lists of which only the length counts, with the faults of the interpreter. **`Proof`**
– the interval engine. **`Invariants`** – loop summaries, candidates, the two
obligations. **`ConstTime`**, **`Moves`** – two passes over the same statements.
**`Hlir`** – the builder, the passes of `optimize` in their order, and how blocks
execute. **`Reverify`** – the abstract interpreter over the optimised blocks.
**`Effects`** – the call graph and a run of it. **`Builtins`** – every built-in function
twice: as it is typed and as it runs. In these modules the analysis is a set of
operators that follow the code function by function; the variables are those of
the run, and an initial state holds a program, its start and the verdicts.

### Tools

**`DevServer`** – the watcher's poll, the build, the bus, tabs. **`Dap`** – the hooks
around calls and statements, and the adapter's requests. **`Ledger`** – the
transparency ledger and the audit log: appends under a file lock, torn lines,
copies, checkpoints, witnesses.

**`Engagement`** – `hls-auditkit` and `hls-finalaudit`, without a lock. A command reads the
ledger (`Begin`), asks git about a fix (`CheckFix`), reads the chain again (`ReadChain`)
and writes one line (`Append_`). The signer's steps are those of `cmd_signoff`:
`Signoff` is the census of the entries (883–918), `CompareAnchors` the look at the tree
(919–946), `CheckLanding` a question to git for each fix (947–966), `PinAnchors` the
second look (1757), which nothing is compared with, `PinHead` (1766). Git may not
answer: then a fix passes (`AskGit`), and the head is sealed as a text that is no
commit. `EditTree`, `MakeCommit` and `Checkout` come between any two steps. `slips` is a
history of what passed unseen: an unanswered question, a move of the tree between
the signer's looks. A finding's number has three digits (`MaxId`); the next one is
written, and nobody can read the ledger any more.

**`Packages`**, **`Semver`** – `hls-pkg`. All projects share one clone. A lock hashes it, holds
it against the requirement, extracts its effects and asks for its commit, a step
each (`Hash`, `Enforce`, `ExtractEffects`, `ReadCommit`), and the commit may be null, which
`verify` then does not compare. `crossed` is a history of the projects that had other
code checked out between those looks. Clone, fetch and checkout are one step
(`Resolve`).

`MC*` modules are instances for TLC, `*_proofs` hold the theorems. `MCSync`,
`MCAnalyses` and `MCTools` are sums: TLC picks one of their parts at the start and
runs it alone, so that one run asks all questions of one kind.

## Runs, bounds and what they show

| run | instance | what it shows |
|---|---|---|
| `chan_safety` | 3 threads, a channel of capacity 1 (of a type with one value) and an unbounded one (two values), `MaxQueue` 2; 605,382 states | counters exact, verdicts true, no lost wake-up, the detector is silent only through its join excuse, an unexcused deadlock is reported; `ChanSpec` is implemented |
| `det` | 3 nodes, 2 channels, `MaxCells` 1, `MaxReady` 2 | every queued node gets its turn, the scan never says "scheduler bug", `ChanSpec` is implemented |
| `sync` | `RwLock` and `Barrier` with 3 threads, `Monitor` with a wake channel of 2, `ChanLifetime` with 2 threads and 3 channels, `OnceCell` with 3 threads and 2 values, `Streams` with pipelines of 3 and 4 stages; 176,285 states | exclusion, stops only for signals, rendezvous, nothing dangles and nothing leaks until a copy is overtaken, refinement of the lock and of the once-cell, pipelines are functions and come to rest |
| `analyses` | families of small programs (below); 412,885 states | elided checks are dead, inferred invariants hold, verified claims leak nothing, no use after move, optimised blocks run as the source, replayed proofs are dead checks, authority, interrupt handlers, stack, audit, calls end as typed |
| `tools` | 2 sources and a tab; threads of 3 and 1 + 1 calls; 2 writers, a mirror, a signer; a project and 2 commits; the same with a second project that checks a tag out of the shared clone; every requirement of one token over versions 0..2; an auditor, the project and 2 commits | nothing acknowledged is lost, verdicts are true, results and commands arrive, requirements mean their table, a verified lock meets its requirement, the debugger's stack is real, answers are fair and a seal was earned |
| `chan_hang`, `streams_dangle`, `elision_unsound`, `consttime_unsound`, `irq_unsound`, `hoist_unsound`, `seal_race` | the shapes named in [findings](#findings) | **violated** |

Families of `analyses`. `proof`: two steps out of six, straight, in an arm, in a while,
for or each loop, between operations whose checks the contract may make dead,
under five contracts. `inference`: sixteen loop bodies under five conditions and
three contracts. `consttime`: markings, clearings and calls followed by one of five
decisions, in a row and in loops. `moves`: three pieces in a row and in loops with
break, continue and return. `blocks`: two steps of twelve in a row, in an arm, and
in loops with bindings of their own. `graph`: call graphs of three functions, a
struct with a field default, a handler. `calls`: every built-in with arguments on
both sides of every limit. The families a violated run uses (`escapes`, `clearing`,
`building`, `hoisted`), and `nested`, `reentered`, `defaults`, `faults` and `misread`,
are the shapes the code gets wrong; they are apart so that the other shapes can be
seen to be right.

Bounds, all of them in guards or constants and none in the code:

- `MaxQueue` caps what clients leave pending on an unbounded channel. Two messages
  tell FIFO from any other order.
- three threads: a main thread and two tasks give a finished task, a joiner and a
  third party, which is what the detector's excuse and the hand-over of a slot
  between two senders need. With two threads the hang does not exist.
- `MaxRefs` caps the references of each channel. 2 lets the last two holders race; the
  inner channel has 3, so that a binding of a shared channel can also be copied.
- the audit (`AuditBounds` of `MCTools`): five entries, of which two are passes or
  findings, one slip, and a first commit from before the audit. `MaxId` is 999 in the
  code and 1 here: the second finding is the one that makes the ledger unreadable.
- the shared cache (`CacheBounds`): the other project resolves and hashes a tag and goes
  no further, and nobody builds, which is enough to move the clone between any two
  looks of the first.
- `MaxCells` and `MaxReady` cut a run of the deterministic scheduler short where its
  lists grow. One cell per list already contains the select that leaves a stale
  cell, the wake that meets it and the node queued behind it; `EveryTurnComes`
  excludes the states the bound cuts (`~Bounded`).
- `SigCap` is 1024 in the code, 2 here, so that the channel fills with three threads.
- `IntMax` 4: integers are −5..4 and the interval engine's own constants are scaled
  to it; an overflow is two steps away from every start. `MaxLen` 2, `MaxTurns` 3: a
  loop that the analysis needs three rounds for has three turns.
- `SolverReach`: the solver of the inference searches a window wide enough to hold
  a counterexample of the linear obligations that occur.
- `INLINE_MAX_INSTRS` 3 (the code has its own constant): one helper is inlined, one
  is too long, one has two blocks.
- `Fuel` stops an execution of blocks after 40 instructions; longer ones say nothing.

`CHECK_DEADLOCK FALSE` is there where a model legitimately stops: the process has
ended, the clients' bounds are reached, or threads wait for a signal nobody owes.

## Fairness

- `ChanRuntime`: weak fairness of `Resume(t)` – the operating system gives the
  mutex to a thread that was woken. Nothing is assumed of the program.
- `ChanLifetime`: strong fairness of a thread's own release steps, weak of its
  unlock. A thread inside a release competes for a mutex that others take and
  give back without end, and the system lets it have it some time.
- `DetSched`: weak fairness of the whole of `Next` – the owner's program goes on.
  Who is next is not a matter of fairness, the queue decides.
- `RwLock` and `Barrier`: strong fairness of each thread's own channel operations;
  what is asked of `Monitor` and `OnceCell` is safety and needs none. A channel
  operation is enabled and disabled again as others take the token; each send wakes
  every receiver, and a system whose scheduler is not adversarial lets each of them
  through some time. No fairness is assumed of calls for a lock; the barrier's
  participants all come.
- `DevServer`: weak fairness of the watcher and of each tab's handler; saves and
  tabs come at will. `Dap`: weak fairness of the threads of the debugged program
  that may run; the client owes nothing.

## Proofs

What follows holds for every value of the constants: any finite set of threads, any
channels, capacities and payloads, pipelines of any length, any numbers of tabs, writers, files, projects, and
whatever the bounds. Each theorem is a fact about the specification the runs check,
and most of them state a property a run checks (`PROJECT.json`, `theorems`).

| module | theorems | of |
|---|---|---|
| `ChanRuntime_proofs` | `TypeCorrect`, `ExactCounters`, `DetectorSound`, `WakeupsKept`, `DetectorCompleteButForJoins`, `CapacityKept`, `RecordSafe`, `RuntimeImplements` | the preemptive runtime |
| `DetSched_proofs` | `DetSchedTyped`, `ScanIsRight`, `RotationImplements` | the deterministic scheduler |
| `ChanLifetime_proofs` | `CountsAreExact`, `NothingDanglesAlways` | reference counts of channels |
| `Sync_proofs` | `MonitorTyped`, `MonitorExcludes`, `MonitorStops`; `BarrierTyped`, `BarrierMeets`; `RwLockTypeCorrect`, `RwLockExcludes`, `RwLockChannelsAgree`, `RwLockImplements`; `OnceInvariance`, `OnceImplements` | mutex and condition variable; the barrier; the readers/writer lock; the once-cells |
| `Streams_proofs` | `StreamsTyped`, `StreamsBalanced`, `PipelinesCorrect` | streams, generators and combinators |
| `Ledger_proofs` | `AcknowledgedIsKept`, `VerdictsStayTrue`; `EngageInvariance`, `SealsStayEarned` | the logs; the audit ledgers |
| `Tools_proofs` | `ServerTyped`, `ServerTellsAll`, `StackStaysReal` | development server, debugger |
| `Packages_proofs` | `VerifiedCodeAccepted`; `RequirementsAsDocumented` | package manager; versions and requirements |

None of the properties is inductive alone. The arguments:

**Preemptive runtime.** `Invariance == Spec => []IInv`. That a verdict is true follows
from the detector's counters, so `CountersExact` is a part of `IInv`; that the
detector is silent only by its excuse needs, when the last thread falls asleep, that
the others' requests still cannot proceed, which is `NoLostWakeup`; and the counters
of joins need how records and parked requests go together, `Coherent`. `ParkCounts`,
`UnparkCounts`, `SameCounts` and `LeaveFacts` say what one thread's change of status
does to every counter, by cardinalities; `DetectorReads` and `SleepVerdict` connect
what the detector reads with the predicate it stands for; then there is one lemma
per action. `RecordSafe` (a task's record is freed exactly when it has ended and
nobody can reach it) follows from `IInv` and one more induction over `freed`.
`RuntimeImplements` maps a section of `g_rt_mu` to one step of `ChanSpec`: being
woken and going back to sleep are not seen (`ModeMoves`), and the verdict is a step
of the abstract specification because `IInv` makes it true.

**Reference counts.** A conservation law. A reference is a place, in a thread's
bindings or in a queue, so that the number of references is a cardinality; a step adds
a place, removes one or shifts the places of a queue (`BindingAdded`, `BindingRemoved`,
`MessageAdded`, `MessageTaken`, the last by a bijection), and changes the count by as
much (`CountsExact`). So a count that reaches zero is nobody's any more, in the middle of
any number of releases that drain each other's channels; the thread that took it there
is the only one that releases it (`ReleasedByOne`), and it unlinks before it drains.
`LifetimeInv` is the invariant, and the proof adds that the sets of places are finite. A copy
is a load and a store, and any thread may copy any of its bindings, shared or not. What
was loaded is still the count at the store (`CopiesCurrent`) for as long as no other
thread has changed it meanwhile, which is `~overtaken`; that is where the theorems stop,
and it is no assumption: every run is covered up to its first overtaken copy.

**Deterministic scheduler.** `DetInv` says, while the process runs, that every node
that is parked and neither owner nor queued has a cell on each list its request
needs (`ParkedAreListed`), and that a list with cells on it is one of something that
has not happened (`NothingMissed`). So whatever wakes a list wakes all that could go
on, and when the baton goes to nobody every node is stuck, main among them: the
scan's verdict is a deadlock and a true one. The stale cells of a select are why the
parts are implications, and why the counter of joiners is bounded
(`JoinersCounted`) but not exact: a stale cell only ever gives a node a turn too
many. `RotationImplements` maps a turn to one step of the same `ChanSpec`.

**Readers/writer lock.** One thread at a time is between `count_mu.recv` and
`count_mu.send`, the count in the channel or in that thread's hands is the number of
counted readers, and the writer's token is away exactly while a writer or the group
of readers has it. In `RwLockImplements` a thread has the abstract lock from the step
that removed its last obstacle.

**Monitor.** The token is in its channel exactly when nobody holds the mutex, and a
holder is at rest or sending signals, never waiting. Then a monitor in which nobody
can go on lacks a signal or room for one.

**Barrier.** A round gathers, opens and is opened (`Gathering`, `Opening`, `Opened`);
`BarrierInv` says in each phase what the count channel and the gate hold, as
cardinalities of the threads on either side. The theorems assume `NoMoreThanMade`:
no more threads than the barrier was made for. That is the contract of
`barrier_new`; without it a late arrival sends tokens nobody waits for, which open the
next gate.

**Once-cells.** The state is in its channel or in one hand, and an initialised cell
has its value in the value channel or in one hand: the winner's before its send, a
reader's before it puts it back. The abstract cell's value is read off those places
(`Cell`), and every call takes effect at one of its channel operations.

**Streams.** `StreamsInv` is a balance. For some `rest`, what the reader of each stream has
still to be given: the messages in the stream, then the box of its worker, then what
the stage makes of what its own sources still owe, are `rest[i]` and the end, or nothing
once the end is read (`Owes`); and what is drained, with `rest` of the last stream, is
the list that the list functions give (`Drained`). A step moves a value from one term of this
sum to the next. That a reading worker keeps it needs each list function by its first
value only (`FirstMade`: doubled, kept or dropped, expanded, counted, or taken from the
side whose turn it is). The functions are written by comprehension and by `FlattenSeq`,
whose recursion runs from the other end, so these equations are lemmas of their own; and a value that
a flat_map has read is owed twice over, by its worker and by the inner stream, which is
what `spill` says. Induction over a list is replaced, as in the logs, by the least length
at which an equation fails. With the end an ordinary int in the same stream, the
theorem is about lists that do not hold it (`Value`), which is the contract of
`INT64_MIN`. The functions that stages apply are fixed (`Doubled`, `Kept`, `Expanded`),
and none makes the sentinel of a value: −99 is odd. In the code a function given to a
map that returns `INT64_MIN` (which 2·(−2^62) is) ends its stream there, and ints wrap;
neither is the theorem's subject.

**Logs.** What a writer has read under the lock is still so when it writes, unless the
log was cut meanwhile; so the record it writes continues the chain. A log that
verifies is determined by its hashes, and a hash by the history it commits to, so that
equal hashes are equal prefixes; from there the verdicts are arithmetic on lengths.
What a fold over a log computes is shown by the least line at which it would not be
so. (So is what the wake loop of the deterministic scheduler computes: the induction
theorems of the library cannot be used, but a set of numbers has a least element.)

**Audit ledgers.** `EngageInv` says of the ledger (`WellKept`) that the contract is its
first entry, that every answer is fair and that every seal was written over entries that
were an audit; and of each command under way what it has found out so far
(`PendingFits`): a signer that has looked at the anchors holds a contract that matches
the tree, or the tree has moved since. Commands overlap without restriction. That
works because what a command has found out is about the entries it has read: a
ledger only grows, so they are still its beginning (`CommandStays`), no commit is ever
unmade, and none changes its date. Reading the chain again and stamping keep it
(`StampKeeps`, `StampFits`); there is one lemma for each step of each command. What does
not survive an overlap (that a seal is last, that a finding has one answer, that the
numbers go from 1 to n) is not claimed, and the code does not have it.

**Development server.** A message is remembered before the clients are listed, and a
tab subscribes before it reads what is remembered: at every stage of the broadcast and
of the replay, a tab that has not got the last state is on the broadcast's list, or
its handler will read it or holds it.

**Debugger.** Until an evaluation overlaps a running task, every thread has as many
frames as calls; and whose panic is recorded raises no other.

**Package manager.** A lock that is written was accepted at each of its looks, and, unless
the clone moved between them, which `crossed` remembers, all of them saw the code
whose hash is in it. A manifest that changes and a clone that moves take the verdict back. So
`VerifiedCodeAccepted` holds of any number of projects on one cache.

**Versions and requirements.** The code turns a token into clauses on precedence keys,
tuples that put the core before the pre-release; the documentation says which numbers
stay. `CoresDecide` and `ReleaseBelow` say what the order of keys is on cores, `BelowNext`
that between a floor and the next value of component i exactly the numbers up to i
stay; then there is one lemma per form of token (`CaretAdmits`, …, `HyphenAdmits`).
`CaretPins` is the one that the seeded fault breaks: of a partial of zeros the last
number written is pinned. A pre-release passes only by a clause that names one of its
core, and only a floor carries one (`PreAdmits`, `PlainClauses`). So
`RequirementsAsDocumented` holds for any numbers, identifiers and number of tokens.
It leaves aside what the property does: several tokens of which one carries a
pre-release, and bounds whose first number is a wildcard (`*.*`, `1 - *`), which the
code reads as zeros (`>=0.0.0 <0.1.0`, `<1.0.0`).

Assumptions are the named ASSUMEs of the constants (`ChanOpsAssumption`,
`MaxQueueAssumption`, `DetSchedAssumption`, `ThreadsAssumption`, `MonitorAssumption`,
`BarrierAssumption`, `LifetimeAssumption`, `OnceCellAssumption`, `StreamsAssumption`,
`LedgerAssumption`, `DevServerAssumption`,
`DapAssumption`, `PackagesAssumption`, `SemverAssumption`, `EngagementAssumption`), which TLC
evaluates on every run, and the hypothesis `NoMoreThanMade` of the barrier's theorems, which
the passing run's instance meets.

## Findings

Each is a violated run, with the counterexample in TLC's output and the quoted
documentation in `PROJECT.json`.

1. `chan_hang` (`runtime.hls:1404`). The detector returns without a verdict as soon
   as some finished task is unjoined and some thread is in a join, whichever task
   that join waits for. `HangOnlyByJoinExcuse` shows that this is the only way to a
   silent hang.
2. `streams_dangle` (`gen_expr.hls:1594`). The native wrapper of a combinator hands
   its input stream to the worker without a reference of the worker's own: a
   function that returns `stream_map_int(s, f)` frees the stream under it.
3. `elision_unsound` (`proof.py:830`). The facts after a loop are those of the
   body's end; what a `break` or `continue` edge carries is not joined, and a list
   popped inside a `for` over a constant range keeps its length.
4. `consttime_unsound` (`proof.py:3641`). A loop that clears a secret name and runs
   no turn leaves it secret, and the walk takes it for cleared; a while's condition
   is flagged before its body only.
5. `irq_unsound` (`checking/helpers.py:829`). No table of the interrupt proof knows
   that building a struct or enum value allocates.
6. `hoist_unsound` (`optimize.py:949`). A binding made in a loop and assigned in it
   is hoisted, and every later turn starts from the last turn's value.
   (`hls-reverify` accepts the result: it replays proofs, not meaning.)
7. `seal_race` (`hls-finalaudit.py:1757`). The signer compares the anchors with the
   contract's (921), asks git about the fixes (939–964), reads the anchors and the head
   again and seals what it finds. An edit or a checkout in between is sealed, the gate
   compares the tree with the seal only (1833), and it is green over an artifact that the
   engagement never named. No two commands overlap in it.

## Disagreements without a run

Found while modelling; each can be seen by putting the named family, property or
constant into a configuration.

Runtime: `SPEC.md` 8310–8313 says the queued flag dedups a ready node; a cell that a
select left behind queues the running node twice. A refused `try_send` on a channel
of channels, and `recv_or`, release a payload inside `g_rt_mu`; the last reference
locks it again (`runtime.hls` 1883, 2004, against 1796–1797). Copies of a channel's
binding count with a plain load and store (`codegen.hls:691`, against
`runtime.hls` 1290–1291): without the exception of `overtaken` TLC finds a dangling channel in nine
steps. A deadlock that
an interpreted task finds while it ends is raised outside every handler
(`spawn.py:69`; `Interpreted` TRUE). Two readers of one stream: one sees the end; an
element equal to the sentinel ends a stream early; `flat_map` never releases its
inner streams; a combinator's output keeps a reference nobody owns; `gen_spawn` with
an argument that is not a literal emits C that does not compile. `args()` is one
list that all callers share.

`std/sync.hls`: lines 57–58 and 204–205 (`count_mu` is held across a receive at 254);
574–576 (a call on a spent barrier passes, at 631); 25–26 and 95 (a signal without a
waiter is kept); 102 (`once_cell_int_get` panics when it is empty, at 409).

Analyses: the inference takes an inner loop's bodies for arms of the outer one
(`proof.py:1710` against 1334–1340; family `nested`). The move checker walks a loop
once (family `reentered`). `hls-audit` does not look at field defaults
(`hls-audit.py:263` against 20–21; family `defaults`). The stack bound leaves the panic
handler out (family `faults`; `SPEC.md` 4005), and a `#[panic_handler]` of another name is
accepted and never called. A closed child pipe, infinities in trigonometric
functions, ports and backlogs out of range, NUL bytes in paths and hosts, and empty
names for `env_set` end in a traceback of the host (family `misread` and the
arguments `Ordinary` leaves out). `hls-reverify` says LOST-PROOF of a dead check whose
bound is symbolic: the containment test tops every symbolic bound
(`hlrev_ircheck.py` 483–514, `proof.py` 737–747, against `SPEC.md` 7497–7500); it
keeps symbolic bounds over a pop, and a join takes the known length when the other
is unknown, so that a check it calls newly proven may fail. The IR evaluates `&&` and
`||` strictly.

Audit ledgers, beside `seal_race`, all in the same violated property
`ClosedMeansAudited`: a finding decided before another command's signoff is appended
after the seal, for the append reads only the chain again (`hls-finalaudit.py` 793–811);
two commands at once file the same number or answer the same finding twice, and only
the first answer counts; a git that fails or is out of time lets a fix through that was
never landed or is older than its finding (951, 959; the gate asks again whether it
landed, and never about dates); and a head that git did not name is sealed. Two
engagements at once both stand, and the first is the contract, though the docstring at
818–821 says that the reader refuses one in any other place. The
thousandth finding is filed under a number that no reader accepts (565–569).

Tools: a file saved between the first build's read and the watcher's first look is
noticed only when it is saved again; a new tab can be shown an older result; the
banner of a failed build can be missed. An evaluation sets one flag for all threads
of a debug session; handles of a stop are kept for the next one; a stop can name a
place already left. `hls-pkg lock` takes the revision its clone has, not the one the
ref has by then; with another project's lock in between, the lockfile's hash, commit and effects and the
requirement can be about different code (`hpkg_cmds.py` 213–239), and a lock without a
commit verifies without comparing one (503);
verification reads the clone that a build can move afterwards;
a requirement without a pre-release tag lets some pre-releases through. The
sandbox profiles for aarch64 and riscv64 cannot be built, and `Fs(ro)` lacks `open`.

## Only model-checked, and not modelled

Only model-checked:

- liveness: every `~>` and every property under fairness (`EveryTurnComes`,
  `ReadersEnter`, `AllPass`, `CommandsArrive`, `SavesReachABuild`, …), and what uses
  ENABLED (`RestsWhenDrained`): out of the prover's reach;
- the analyses (`Proof`, `Invariants`, `ConstTime`, `Moves`, `Hlir`, `Reverify`,
  `Effects`, `Builtins`): they are recursive over programs, their modules use
  RECURSIVE operators, which the prover does not take, and what they compute for
  every program would need induction over data;
- `DeadlockReported` of `ChanRuntime`, which is a liveness property; the safety half of
  it, `HangOnlyByJoinExcuse`, is proved.

Left out of the modelled parts: message payloads beyond two values, the trace text
of the deterministic scheduler, the order in which `select` prefers channels, stack
size and attributes of threads, allocation failure (the process dies), and weak
memory: the runtime's shared state is under `g_rt_mu` or atomic with acquire/release
order, except for the retain named above. Of programs: structs, maps, floats,
strings' contents, match, lambdas. Of the re-verifier: the law that reconciles its
verdicts with the compiler's. Of the audit ledgers: the counts a seal records, and the spelling of entries; the gate's
reads of ledger, tree and git are one state, and so are the reads of one `anchors_of`.
Hashes stand for what they commit to, signatures are
taken to be unforgeable, and the SMT solver is a search.

Not modelled: the components marked so in `PROJECT.json`. The native front end and
code generator emit text from unbounded syntax; formatters, templates and terminal
code are text; benchmarks, size and memory reports measure; thread, process and
socket wrappers are the operating system's. The kernel library (`src/core`) and the
network library are value-returning functions over larger states; they are the
first thing a further tier would take.

## Plan

Done, in the order written: `ChanOps`, `ChanSpec`, `ChanRuntime` and its proofs,
`RwLock` and its proofs, `DetSched`, `ChanLifetime`, `Monitor`, `Barrier`, `OnceCell`;
`DevServer`, `Dap`, `Ledger`, `Packages`, `Semver`, `Engagement`; `Flow`, `Proof`,
`Invariants`, `ConstTime`, `Moves`, `Effects`, `Builtins`; `Streams`; `Hlir`, `Reverify`.

The proofs, in their order: `RwLock`, `ChanRuntime`, the development server, the
debugger and the package manager, the logs, `DetSched`, `Monitor`, `Barrier`, `OnceCell`,
the four refinements, `ChanLifetime`, `Semver`, `Engagement`, and `Streams`.

Left: frame allocator and page tables (`core/mem.hls`, all or nothing), pools and bump
allocators (`core/alloc.hls`), RCU and seqlock (`core/atomics.hls`); HTTP/2 stream
states, sessions and tokens with expiry.
