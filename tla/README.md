# Verification of erebus-redgiant

erebus-redgiant searches the Ethereum chain for front-running attacks: pairs or
triples of transactions of which an attacker's first one makes a victim's do worse
than it would have done alone. This directory holds TLA+ models of the parts of
the program that decide which combinations are looked at, on which state they are
re-executed, and what is reported; TLC configurations that check them on small
instances; and TLAPS proofs of what matters most, for instances of any size.

Paths below are relative to the repository's `src/`.

1. [How the program works](#1-how-the-program-works)
2. [Inventory of the components](#2-inventory-of-the-components)
3. [Modules](#3-modules)
4. [Runs, bounds and fairness](#4-runs-bounds-and-fairness)
5. [Proofs](#5-proofs)
6. [Disagreements between code and comments](#6-disagreements-between-code-and-comments)
7. [What is not modelled](#7-what-is-not-modelled)
8. [Plan](#8-plan)

## 1. How the program works

`collect` (`cmd/collect.go`) slides a window over a range of blocks. For every
position it opens a *search window* on a *session* of the *transaction history*
(`dataset/tx_history.go`), which fetches and summarises the transactions of the
window's blocks, and starts a goroutine that searches the window
(`dataset/searcher.go`). The search takes every pair (attack, victim) that may
depend on each other, re-executes them in the opposite order on a *forked state*
(`dyengine/state/forked.go`), which asks a node for whatever it does not have, and
lets the *oracle* compare the profits of both orders (`analysis/summary`). Before
a pair is tried, *contract information* (`dataset/contract_info.go`,
`troubeth/troubeth.go`) says whether the victim's contracts are published.

```
 cmd/collect ──opens──> SearchWindow ──> AttackSearcher.Search ──> CheckOracle
     │                     │                   │      │                │
     │ semaphore           │ session           │pool  │ ApplyTx        │ Profits
     │ prefetcher          v                   v      v                v
     └───────────> TxHistory (block cache) <─ records ── ForkedState   TxSummary
                           │                   ^            │          (tracer)
                           │ computeTxRecords  │ flag       │ requests
                           v                   │            v
                        worker pool      ContractInfo ──> node, TroubEth

 Attack.Analyze ──replays──> execution paths (TxSummary's tracer) ──> points, pattern
        │                                                               ^
        └── taint analyzer ──hooks, policy──> data-flow tracer ──sinks──┘
```

An attack that was found is *analysed* (`dataset/attack_analysis.go`): the victim's
transaction is replayed without and with the attack, a *data-flow tracer*
(`analysis/data_flow`) follows the variable that both share, a *taint analyzer*
(`dataset/taint_analysis.go`) steers it along the path of the first replay, and the
two execution paths are compared to find the place where the victim's loss begins.

What they share: the map of block records and one mutex per record (history); one
worker pool for all windows and one for the history; a weighted semaphore, taken by
the main goroutine and released by the windows; the list of snapshots of a forked
state, shared by its copies; a map of tasks and a broadcast per contract
(contract information); the flag of a transaction record, written by goroutines
nobody waits for.

## 2. Inventory of the components

For each: its state, its operations, what makes it hard, and what makes it correct.

**Block cache** (`dataset/tx_history.go`, `TxHistory`).
State: a map from heights to records; a record has a mutex, `loaded` and a block.
Operations: `AcquireBlocks` with or without a pool, `ForgetBlocks`,
`ForgetBlockRange`, `TxHistorySession.Close`, `PrefetchBlocks`.
Hard: the mutex of a record is taken by the caller and released by a closure on a
worker; records are deleted while calls hold or wait for them; the error of
`pool.Submit` is dropped; a call waits for workers while it holds mutexes.
Correct: one computation per record; results complete when the call returns; a
published block never changes; the calls under way are never all blocked; calls
return.

**Search** (`dataset/searcher.go`).
State: the pivot of the windows; the position of each window's loop; its tasks in
the shared pool; what was reported.
Operations: `OpenSearchWindow`, `SetSearchPivot`, `Search`,
`searchVictimGivenAttack`, `CheckOracle`.
Hard: windows overlap and are searched in parallel, with timeouts, missing blocks
and transactions that cannot be re-executed; pairs whose order is swapped need the
victim sender's earlier transactions first, or a nonce does not fit.
Correct: no combination is checked twice; every combination close enough is
checked; the replay in the opposite order is a legal one.

**Contract information** (`dataset/contract_info.go`, `troubeth/troubeth.go`).
State: one task and one feed per contract, the answer, each record's loop over its
contracts and its context.
Operations: `IsVerified`, its `Do` with the request, `Send`, `Subscribe`,
`Unsubscribe`.
Hard: the answer is broadcast once to whoever subscribes in time; the request runs
in the first caller's context; contexts expire between any two steps.
Correct: one request per contract; `Send` waits for nobody that is gone; no flag
without a denial; all goroutines end.

**Forked state** (`dyengine/state/forked.go`, with `dyengine/exevm.go`).
State: a go-ethereum `StateDB` used as an overlay, the sets of what has been
inherited from the chain, slots cleared in it, an error, an access list, snapshots.
Operations: the accessors of `vm.StateDB`, `Snapshot`, `RevertToSnapshot`, `Copy`,
`Finalise`, and what `ApplyTx` does with them.
Hard: zero means both "cleared" and "not there"; a node may fail at each of three
requests; a revert restores some fields and not others; copies share snapshots.
Correct: reads give what the EVM means, after any sequence of calls, writes,
reverts and transactions; failures are noticed; frames go back to their own
beginning.

**Collect command** (`cmd/collect.go`, `global/init.go`, `global/context.go`).
State: the loop, a semaphore, the phase of each window, the cached blocks, a
prefetcher, contexts and signal handlers.
Hard: every window forgets blocks others use; signals at any moment; two handlers
and `Execute` clean up the same things; the loop's end waits for nobody.
Correct: never more searches than allowed; memory freed; windows overlap far
enough; the process ends.

**Transaction summaries** (`analysis/summary/summary_tracer.go`, `summary.go`,
`state.go`). State: the stack of open calls, each with a list of segments between
its nested calls; `defs`, the variables ever defined.
Operations: the tracer's callbacks, `OverallDefs`, `OverallUses`,
`OverallProfits`. Hard: reverts at any depth undo definitions and profits but no
uses; segments and nested calls must be folded in the order of execution.
Correct: profits are what accounts have gained; defs are what has changed; uses are
what was read of the state before.

**Profits and oracle** (`analysis/summary/profit.go`, `transfer.go`,
`AttackSearcher.CheckOracle`). Operations: `Merge`, `Add`, `Compact`, `Cmp`,
`Profits()` of transfers. Hard: profits of several assets are only partially
ordered; absent profits count as zero; tokens of a collection count alike.
Correct: what is reported is an attack, what is clearly one is not passed over.

**Data-flow analysis** (`analysis/data_flow`).
State: per call a mirror of stack and memory with nodes for values, the call data
and return data of the call and of its child, and over all calls the nodes of
storage, balances and codes.
Operations: one flow function per operation code (`policy.go`), and the tracer's
callbacks, which pop before an operation and push, with a hook, at the next one of
the same call.
Hard: memory is mirrored in words, the EVM's is in bytes; nodes pass from one call
to another and back through offsets at both ends; a call may fail, re-enter, create
or destruct; what is written without a node must erase one.
Correct: whatever depends on a source has a node that leads to it, and every sink it
reaches is reported; what depends on none has no node.

**Attack analysis** (`dataset/attack_analysis.go`, `taint_analysis.go`, with
`dyengine/tracers/nested.go`, `location.go`, `msgcall.go`).
State: the basic block under construction of each call; the flattened path of each
replay; the analyzer's index into the reference path, whether it is diverging, and
where it may merge; the indices of points.
Operations: `CaptureState`, `CaptureEnter` and `CaptureExit` of the tracer,
`getNextBlock` and the hook of every block's tail, `locateConsequencePoint`,
`Analyze`.
Hard: a block's end is known only at its tail or at the next head, and calls and
failures come in between; the next block is predicted before the operation is
executed; paths diverge, merge, loop and stop short of each other.
Correct: paths are complete; the analyzer is where the execution is; the points
found are places where the replays part, or where the victim is paid.

**Storage addressing** (`analysis/storage_address`): a client of the data-flow
analysis that rebuilds how a slot's address was computed; not modelled yet
(section 8).

**The rest** — readers, the in-memory state, database documents, the transfer
graph, ABIs, helpers, flags and logging — is listed with reasons in section 7.

## 3. Modules

| module | models | extended by |
|---|---|---|
| `TxHistory` | the block cache | `MCTxHistory`, `TxHistoryProofs` |
| `BlockSupply` | what the cache promises: write-once blocks, and calls that return them | refined by `TxHistory` |
| `AttackSearch` | windows, search and re-execution | `MCAttackSearch`, `AttackSearchProofs` |
| `ContractInfo` | the provider of contract information and the goroutines of records | `MCContractInfo`, `ContractInfoProofs` |
| `EvmState` | what the EVM means by accounts, slots, calls and reverts | extended by `ForkedState` |
| `ForkedState` | the overlay on a node's state, next to `EvmState` | `MCForkedState`, `ForkedStateProofs` |
| `Snapshots` | the shared lists of snapshots, over a heap of cores | `MCSnapshots`, `ForkedStateProofs` |
| `SnapshotStack` | a stack of saved contents per state | refined by `Snapshots` |
| `Collect` | the command: loop, windows, prefetcher, signals, cleanup | `MCCollect`, `CollectProofs` |
| `Profits` | profits as data: merge, add, compact, compare | extended by `Oracle`, `TxSummary` |
| `Oracle` | `CheckOracle` | `MCOracle`, `ProfitsProofs` |
| `TxSummary` | the tracer of summaries and the overall values | `MCTxSummary`, `ProfitsProofs` |
| `DataFlow` | the data-flow tracer and its policy, next to the dependence it mirrors | `MCDataFlow`, `DataFlowProofs` |
| `AttackAnalysis` | execution paths, the tracking of a reference path, the points and pattern of an attack | `MCAttackAnalysis`, `AttackAnalysisProofs` |

How they fit: each module abstracts its neighbours to what it sees of them.
`Collect` has the loop of windows whose inside is `AttackSearch`, and loads and
forgets the blocks that `TxHistory` guards. `AttackSearch` leaves what the oracle
says open (constant `Matching`); `Oracle` models that answer, from profits that
`TxSummary` shows to be what accounts have gained. `AttackSearch` takes a
re-execution as a set of applied transactions; `ForkedState` shows that the state
they run on means what the EVM means, and `Snapshots` that undoing is exact for
the copies the search makes of it. `AttackAnalysis` leaves open which sinks are
tainted; `DataFlow` models that.

**`TxHistory`.** One caller is one goroutine in `AcquireBlocks`; `pc` follows the
loop: `load` (`LoadOrStore` under `h.mu`), `lock` (`br.mu.Lock` and the test of
`loaded`), `submit` and `worker` (`pool.Submit` checks that the pool is open, then
waits for a worker), `compute` (without a pool), `wait` (`wg.Wait`). A closure is
an element of `tasks`: it publishes and does `wg.Done`, then unlocks, in two steps,
in the order in which the deferred calls run. `CloseWindow` and `CloseSession` both
forget the inclusive range of the code. A record is an identity; new ones are
handed out in a fixed order, which loses nothing. The block's content is "list" or
"nil".

**`AttackSearch`.** Transactions are numbered in the order of the chain. One task
is one run of `searchVictimGivenAttack`, with its position in the loops over
victims and profits. A state is the set of transactions applied to it, from which
the nonce check of `ApplyTx` follows: a transaction fits if as many transactions of
its sender have been applied as precede it. `SlicePrerequisites` follows the
happens-before edges backwards, as the session's graph does. Filters, failing
re-executions and verification are constants: any pair may pass or fail them. Who
counts as an attacker depends on attack and victim, so `Profitable` is a set of triples.
A window without records panics: its deferred calls run while the other goroutines go
on (`SearchNothing`), until the process ends (`Crash`).
The flag of unverified contracts may appear at any moment, because nobody waits for
the goroutines that set it.

**`ContractInfo`.** A record's goroutine walks through its contracts: call, subscribe,
wait for the answer or the end of its context, unsubscribe. A contract's goroutine
asks the service, then sends to everyone subscribed at that moment. `Outages` and
`Unreachable` are separate: an outage is an answer with another status than 200,
an unreachable service an error.

**`ForkedState`.** Every action performs an operation on `world` as the EVM means it
(`EvmState`) and on `overlay` as the code does it: first the requests to the node,
of which any may be the one that fails, then the effect on the `StateDB`, whose
existence, dirty and settled slots, and journal are kept apart. `Begin`, `Enter`,
`Leave`, `RevertCall`, `Accept` and `Reject` are what `ApplyTx` and the interpreter
do around operations. `failed`, `undone` and `reverted` are history: a request of this
transaction has failed, a call of this transaction was undone, a call of any was.
`FailuresSeen` excepts the second only, `CommittedAgrees` (a part of `StorageAgrees`) the
third: after the first undone call it says nothing more (section 6). Code is one more field of the account's information. `Unset` is
what an object's dirty storage holds where it holds nothing. `StorageAgrees` excepts
(`Followed`) what the code gets wrong: a contract with storage on the chain that is
destructed, or created anew, is asked about once more (section 6).

**`Snapshots`.** A core stands for everything `Copy` copies. A state has a current
core and a list; `Snapshot` appends, `RevertToSnapshot` cuts back to and takes the
core out of the list, `Copy` shares the list. Cores are never freed, so that
aliasing is visible.

**`Collect`.** The main goroutine, the windows' goroutines, the prefetcher, two
signal handlers and the cleanup of `global`. A window loads block by block, so that
others forget and reload blocks meanwhile.

**`Oracle` and `Profits`.** A `Profits` slice is a function from (account, asset):
`Add` merges equal keys, so a slice built with it has one profit for each. Fungible
assets (Ether, ERC20, ERC777, one id of ERC1155) have an amount, ERC721 collections
sets of tokens received and given. The six summaries are built transfer by
transfer; `Check` may come at any moment.

**`TxSummary`.** The EVM is outside: a transaction stores, loads, reads balances,
calls with and without value, delegates, moves tokens, returns and reverts as it
likes. Each open call has what has been folded so far (`done`), the current segment
(`data`) and the world before it. Folding as one goes gives what `OverallX` computes
at the end, since its folds run over the same list from the left. `Loses` notes
where `Compact` drops a profit that still names tokens.

**`DataFlow`.** The EVM runs beside the mirror. Of its values only the truth is kept:
does this byte, this operand, this slot depend on a source? A word has
`Granularity` bytes (32 in the code). A node is `UntaintedValue`, "blank" (leads
nowhere) or "loaded" (leads to a source), which is what `From()` gives along the
graph. Each flow function of `policy.go` is an action, or a parameter of one where
functions are alike (`Push`, `Pure`, `Read`); a code is a sequence of steps with a
few operations each to choose from. Offsets and lengths belong to an operation;
`n` says how many operands come from the stack, `to` whether the account called does. `Calling`, `Enter` and `Leave` are
a call flow before the call, `CaptureEnter`, and the hook after it; `CallOut` is a
call that runs no code. The tracer runs an operation's flow in `CaptureState`, before
the EVM executes it and even if the EVM refuses to (no gas, a write in a static call,
a jump to nowhere), and `CaptureFault` takes nothing back: `SStoreFault`, `CallFault`,
`SelfDestructFault` and the other actions of that name do the flow's part and end the
call, with the chain as it was before. Where the code loses nodes (section 6) or keeps too many,
the action sets `lossy` or `blurred`, and `Complete`, `SinksSeen` and `Precise`
speak of transactions in which that has not happened. The guards of these cases
name exactly the operation and the data that go wrong; `Complete` for example still
covers unaligned writes, both cover failing calls that have written nothing, and
`Replaces` says when the flow of an operation that failed has spoiled the mirror: a
refused `SSTORE` erases the node of a slot that still depends on a source, or leaves one
in a slot that does not.

**`AttackAnalysis`.** Contracts are made of blocks, which end in a jump, a call, a
return, a revert, or by falling through into the next one. What the two states make
different is open: where a jump goes, whom a call reaches, how much a block pays
the victim, which calls fail, at which operation gas runs out, and which one fails as
it is executed: a tail (`FaultAtTail`) has been recorded by then, another operation
(`FaultInside`) takes its block with it, since `CaptureState` saw no error and
`CaptureFault` does nothing. A block that is
only one operation long is closed at the head of the next one, so it may be
recorded after the calls below it, or never. `PathComplete` says that nothing else is
ever missing. `Hook` is the analyzer's function at
every tail; it is part of the same action as the tail's own record. `executed`,
`faulted` and `exact` are history for the properties. `Sections` is the loop `proceedTogether`:
a common block, a branch up to the next common block, or the rest; `Locate` collects
points on the way. One asset, at most one transfer in a block, no `CREATE`.

Definitions called "mutated form" or "a bug that would ..." are plausible mistakes
in the same lines; each replaces its original once, to see that a property notices.

## 4. Runs, bounds and fairness

Passing runs (TLC finds no error) and violation runs (TLC finds the counterexample
of section 6). Run one with `tlc -config TxHistory.cfg MCTxHistory` and so on.

| run | module, cfg | distinct states | asks |
|---|---|---|---|
| `cache` | `MCTxHistory`, `TxHistory.cfg` | 389,121 | mutex discipline, complete and immutable results, refinement of `BlockSupply`, no circle of waits, return of every call |
| `search` | `MCAttackSearch`, `AttackSearch.cfg` | 160,255 | nothing checked twice, nothing close enough missed, legal replays, end of the search |
| `verified` | `MCContractInfo`, `ContractInfo.cfg` | 24,394 | one request, no Send that waits for somebody gone, no flag without denial, end of all goroutines |
| `forked` | `MCForkedState`, `ForkedState.cfg` | 822,024 | agreement of the overlay with the EVM's meaning |
| `snapshots` | `MCSnapshots`, `Snapshots.cfg` | 720,966 | no aliasing of open frames, refinement of `SnapshotStack` |
| `collect` | `MCCollect`, `Collect.cfg` | 348,100 | parallelism, memory, overlap of windows, end of the process |
| `oracle` | `MCOracle`, `Oracle.cfg` | 560,692 | what a report and a silence of the oracle mean |
| `oracle_profit_tx` | `MCOracle`, `OracleProfitTx.cfg` | violation | do the profits of the profit transaction count? |
| `summary` | `MCTxSummary`, `TxSummary.cfg` | 655,380 | profits are holdings, defs are changes, uses are original |
| `summary_uses` | `MCTxSummary`, `TxSummaryUses.cfg` | violation | are all reads of the original state among the uses? |
| `dataflow` | `MCDataFlow`, `DataFlow.cfg` | 200,451 | a node exactly where there is dependence, every sink reported |
| `analysis` | `MCAttackAnalysis`, `AttackAnalysis.cfg` | 581,732 | complete paths, an analyzer in step, points that explain |

Type invariants are checked by the runs of `DataFlow` and `AttackAnalysis`, and
proved for `TxHistory`, `AttackSearch`, `ContractInfo`,
`ForkedState`, `Snapshots`, `Collect`, `Oracle`, `TxSummary`, `DataFlow` and
`AttackAnalysis` (section 5).

**Bounds.**

- `cache`: two callers (one a prefetcher), two heights of which one may fail, one
  pool of one worker that may be released, two deletions, six records. Two callers
  are what every race over a record needs; one worker is the smallest pool, with
  which a call must wait while it holds a mutex; two deletions allow two live
  records of one height. Six records are as many as the two deletions can cause;
  `Fresh` is never exhausted.
- `search`: eight transactions of three senders and a block reward in five blocks (one
  block empty, the senders of the attacks and victims alternating), windows of three
  blocks, step one, so that three windows overlap and every combination has a
  window before, in and after the one in which it is new. Two workers, two parallel
  windows, two blocks that may be missing, one record with an error, one that
  cannot be re-executed, one unverified victim, one window that may time out.
- `verified`: two records with the same two contracts in opposite order, which is
  what a deadlock between them would need; every context may expire at any time.
- `forked`: one contract of the chain and one fresh address, one slot, values 0, 1
  and 2 (zero, the chain's value, another), two transactions, calls two deep inside
  them, three operations, one failing request. The two fields are the one fetched
  first and the one fetched last; one slot is enough since no operation relates two.
- `snapshots`: a state and two copies, three snapshots, two frames each, two
  contents.
- `collect`: blocks 1 to 4, windows of three, two parallel searches, prefetching
  on and off, one signal at any moment.
- `oracle`: one attacker, one victim, a pool, Ether and one collection, eight
  transfers, four made. Two assets are what incomparable profits need.
- `summary`: a user, two contracts, one slot each, Ether and two tokens of one
  collection, calls three deep, five operations. A reverted call inside a
  successful one inside a reverted one needs three; the loss of tokens in `Compact`
  needs two tokens.

- `dataflow`: two words of two bytes, which is enough for a value that covers a part
  of a word, a whole one or a range across; four accounts (the receiver, a callee,
  a contract to be created, one without code), three open calls, so that the callee
  can call back and the receiver again; nine analyzers, each with sources of its own.
- `analysis`: three programs (branches that merge, a loop, calls that fail or pay),
  at most seven blocks in each execution and one call that fails other than by
  reverting (`MaxFailures`), at any of its operations. Seven blocks are a branch, a merge, a payment and a second branch; in
  the loop they are two rounds.

`MaxBlocks`, `MaxFailures`, `MaxForgets`, `MaxTxs`, `MaxCalls`, `MaxOps`, `MaxFaults`, `MaxDepth`,
`MaxSnapshots`, `MaxFrames` and `MaxTransfers` bound the behaviours; nothing in the
code corresponds to them. Deadlock checking is off where behaviours end: at a bound
or because the program does.

**Fairness** is weak and stated per goroutine: the Go scheduler runs what can run,
mutexes and channel operations are not withheld for ever, requests and computations
return. In `TxHistory` a caller's steps and the closures are fair; that the loop
gets its mutex follows because the holder's steps are fair too. Nothing obliges a
caller to call again, a pool to be released, a context to expire, a service to
fail or a user to send a signal. In `AttackSearch` the main loop, every window and
the workers are fair, in `ContractInfo` every record's and every contract's
goroutine, in `Collect` every goroutine until the process has exited.

**What the liveness results say.** `AcquireReturns`: a call returns unless a pool
was released under it, although calls wait for workers with mutexes in their hands:
closures never wait, and a caller itself holds a mutex only on the way to a worker.
The safety part, that somebody can always go on, is proved (`NobodyStuckHolds`).
`SearchEnds`: a window waits for workers only, workers for nothing; its safety part is
proved (`SearchGoesOnHolds`, `NeverTurnsBackHolds`). `GoroutinesEnd`:
every record's goroutine and every `Send` ends. `ProcessExits`: the command ends on
its own or on a signal.

## 5. Proofs

`tlapm TxHistoryProofs.tla` and so on check them. None uses the bounds of section 4;
their assumptions are the named `ASSUME`s of the modules (`NumbersAssumption`,
`RecordsAssumption`, ...), which TLC evaluates on the instances.

**`TxHistoryProofs`.** `IInv` (in `TxHistory`) is inductive: besides the properties
it says where every call stands (`CallOK`), which slots are filled or counted by
the wait group (`SlotsOK`), that a closure works for a slot its caller still counts
(`TaskOK`), that records keep their height (`RecordOK`), and that the map names
records of the right height (`MapOK`). The properties alone are not inductive: that
`wg.Wait` cannot be passed early depends on every unfilled slot being counted,
which depends on every counted slot having its closure or the caller still on its
way to `Submit`. Theorems: `TypeCorrect`, `SingleFlightHolds`,
`LockedByOwnerHolds`, `ResultsCompleteHolds`, `OneFetch`, `Immutable`, `DonesOwed`,
`NobodyStuckHolds`.

`CacheImplementsSupply`: every behaviour of the cache is one of `BlockSupply`, where
cells are created for a height, computed once, and given to sessions when all of a
session's are finished. The mapping reads a record's phase from its height, its
mutex and `loaded`, and what a session has been given from the slots of its call.
Locking an empty record is `Start`, and `IInv` is needed to see that whoever takes
the mutex of a loaded one only stutters, that the record a closure publishes is still
empty and locked for it, and that at the end of `wg.Wait` the slots hold one finished
record for each height. Deletions from the map stutter, since no record changes.
Which heights a call was given is not in `BlockSupply` (`Give` only asks that all of
them are computed); `ResultsComplete` says that.

`NobodyStuckHolds`: while no pool is released, a closure or one of the calls under way
can go on; mutexes, workers and WaitGroups are never all waited for. `IInv` does not say
enough for that: it says that an unfilled slot is counted, not that what is counted is
still going to be done. `WaitInv` says it (`DonesOwed`): each slot a WaitGroup counts
is owed by a closure that computes it or by its caller, still on the way to a worker.
Then, with no closure left, the waits lead back to callers that hold a mutex
(`LockedByOwner`) or owe a Done, and with an empty pool these can go on. That uses
`CapacityAssumption`, no pool without workers: `ants.NewPool` takes a size of zero or
less for no limit at all.

**`AttackSearchProofs`.** `EachCheckedOnce`: no combination is given to the oracle
twice, for any chain, window, step, number of workers and filters, whatever is
missing, fails or times out. (Assumed: transactions are ordered by block, sizes are
positive, and the zero address, which block rewards are sent from, sends nothing
else.) The argument: the last transaction of a checked
combination is new in one window only, since the blocks below a window's pivot are
those of the windows opened before it (`PivotOK`); in that window the attack is
submitted once, because `Search` only moves forward (`OneTask`), and its task moves
forward over victims and profits (`Behind`).

`GapsExplainedHolds`: when a re-execution trips over a nonce, a record of that sender is
missing or has an error. A slice is a recursive function of the position; that it
exists and is unique is shown by the least position at which two candidates would
differ, and it is then the set of usable records of one sender between the attack and
the transaction (`Prerequisites`). So the replay of a transaction lacks only what the
records lack, and applies nothing twice (`RefusalExplained`), and a member of `gaps`
keeps its explanation, since the records of a window do not change once loaded
(`GapsInv`).

`SearchIsCompleteHolds`: no combination falls between two windows. The window meant
is the first that reaches the last transaction; that it contains the attack too, and
that its pivot lets the last transaction pass, is arithmetic over `WindowsOK` (the
pivot of a window is the end of the one before). In that window a submitted attack's
combination is checked already, skipped for a victim found before, or a task is still on
its way to it (`ProgressOK`); a search has returned only when no tasks are left and
its loop was at the last record (`ReturnsOK`). A wanted combination is never refused,
since by the gap lemma a refusal means a missing or errored record, and then the window
was disturbed or the transaction not `Reexecutable`.

Two theorems are what `SearchEnds` rests on besides fairness. `SearchGoesOnHolds`: until
all is finished, a task is running, a window can be opened, or the goroutine of a window
is not held up by the pool or its WaitGroup. The invariant needed is that the loop
leaves no window out (`NoneLeftOut`, arithmetic over the multiples of `Step`), so that
beyond `To` whatever is unfinished is a window in search. `NeverTurnsBackHolds`, an action
property: every step goes forward, and none back, in the main loop, a window's loop over
attacks or a task's loops over victims and profit transactions, and an attack is
submitted only at the moment its window goes past it. Every one of these has an end. What
is left to fairness is that what can go on does.

**`ContractInfoProofs`.** `SubscribersWaitHolds`, `FlaggedOnDenialHolds`,
`OneRequestHolds`; and `KnownForSureWithoutOutages`: the comment of
`dataset/searcher.go:377`, that a flagged contract is known "for sure" not to be
published, holds as long as the service is never out of order (with outages it does
not, section 6).

**`ForkedStateProofs`**, about the state: `InfoAgreesHolds`, `StorageAgreesHolds` and
`FailuresSeenHolds`, for any accounts, slots, values and contents of the chain, and any
number of transactions, calls, reverts and failing requests. Assumed of the chain is
that only accounts with a nonce have storage (`RemoteAssumption`; contracts from before
EIP-161, which may have none, are left out), and of the fields
that the balance is not the one that tells contracts (`FieldsAssumption`). The
invariant `ForkedInv` is about one account at a time (`SoundAt`): what exists has been
inherited, and what does not is blank (`Present`); an account, or slot, not yet
inherited is the chain's in the world too, one that is inherited has its value in the
object (`SoundInfo`, `SoundSlots`); a settled zero is the chain's value unless it was
cleared (`SoundSettled`). This holds of the running frame and of every pair of a
snapshot and the world of its frame's beginning (`SavedSound`), so that a revert puts
marks and values back together. Every operation is two lemmas: inheriting changes the
overlay and not the world and keeps `Sound`; the operation then changes both in the
same place. `Finalise` needs `JournalKept`: whatever is dirty or destructed is in the
journal, and a transaction begins with nothing of the kind. Once a request has failed
nothing is claimed until a revert takes it back; that the frame of the transaction
itself was sound is why `Reject` restores everything. What a revert of a call spoils
(section 6) is what the invariant leaves out when `reverted`: `StorageAgreesHolds` covers
`GetState` for any number of reverts, `GetCommittedState` until the first one.
`FailureKept`, for `FailuresSeenHolds`, says that a failure is remembered as long as no
call of its own transaction is undone: `Begin` starts anew, and whatever was undone
before is no excuse.

**`ForkedStateProofs`**, about the lists of `Snapshots` (`ListSpec`): `Refinement`: the
shared lists implement a stack of contents per state. The invariant is that the core of an open frame's snapshot is nobody
else's (`Unshared`) — it was new when the snapshot was taken, and only that frame's
revert hands it out — and that the list of every snapshot is the part of its
state's list before it (`PrefixLists`), so that a revert finds the outer frames'
snapshots where they were. `RevertGoesBackHolds` is the action property.

**`CollectProofs`.** `CollectInv` adds three facts to the types. `LoopInv`: `b` is a
whole number of steps from `From`, and no window at or after it exists. `PermitsInv`:
permits in the semaphore, windows being searched and the window about to be opened
are together always `Parallel` (from which `AtMostParallelHolds`). `PassedInv`: every
block behind `b` is in the first `Step` blocks of an opened window. With two lemmas
about remainders this gives `PairsCoveredHolds`: after a loop nobody has interrupted,
any two blocks at most `Window - Step` apart are in one opened window.
`NothingKeptHolds`: without prefetching, what the cache holds belongs to a window in
use. `PermitWillComeHolds`: at an empty semaphore the main loop waits for a search, which
will release its permit; that is `PermitsInv` again, with `Parallel` not zero.

**`ProfitsProofs`**, about profits and `Oracle` (`OracleSpec`). Lemmas about merging,
adding and compacting profits, and `CmpIsDominance`: if two slices of profits compare as
more, they are more in some asset and less in none. `Cardinality` of token sets comes
from the finiteness of `Tokens`. `ReportedIsAttackHolds` follows for pairs: attacker and
victim of a report have gained and lost in this sense. The invariant needed is that all
profits have their type, so that their worth is a number (`OracleTypeCorrect`). The
other direction is `MissedIsUnclearHolds`: if the gain is positive in every asset either
side touches, `Cmp` gives 1, and -1 if every one is a loss, never `NotComparable`; so a
pair the oracle passes over is not a clear attack.

**`ProfitsProofs`**, about `TxSummary`: `ProfitsAreHoldingsHolds`, `DefsAreChangesHolds`
and `UsesAreOriginalHolds`, for any accounts, tokens and collections, any nesting of
calls and any number of operations. The properties speak of the end only; the invariant
`Accounted` (`SummaryInvariance`) says of every moment what the tracer's data mean.
`Follows(d, w, u, l)`: the data `d` describe how world `w` became world `u`. The profit
under every key is exactly the difference of what is held or owned (profits of
collections excepted once tokens were dropped, `l`), a slot that `d` defines has that
value in `u`, and one it does not has kept its own. `Frame`: there is a world in between
to which what a call has folded leads from the call's beginning, and from which the
current segment leads on. `StackOK`: every open call is such a frame, up to the
beginning of the call it is waiting for or to the present world; the segments of callers
are empty, since `CaptureEnter` has folded them; and a slot nobody ever defined is still
zero, its original value, in the present and in every saved world. The last fact is what
makes uses original, since the tracer notes a use only of a slot that is not in
`t.defs`. The lemmas go from one transfer (`TransferChange`) over merging, adding and
compacting (`MergeChanges`, `AddChanges`, `CompactChange`) to the composition of two
descriptions by a fold (`FollowsFold`) and to `OverallX` (`OverallFollows`). A handler
is then one of three lemmas: `TopChanges` for operations of the current call,
`CallOpens`, and `CallCloses`, where a call that reverts is a description of nothing,
and its caller goes on in the saved world. At the end `FinalFollows` gives the data of
the whole transaction, and `SameChanges` and `ProfitsExact` that leaving out values of
no change loses nothing.

**`DataFlowProofs`.** For any programs of the modelled operations, any word size and
memory, any nesting of calls and any sources: `CompleteHolds`, `SinksSeenHolds` and
`PreciseHolds`. The truth is kept per unit, a node per word; the mirror is sound when
the word of every dependent unit leads to a source, exact when every unit of a word
with a node depends on one. `FlowInv` pairs in this way every place with its
truth: for all open calls their stacks, memories, call data and return data
(`FrameSound`, `FrameExact`), and what is on chain (`ChainSound`, `ChainExact`); it
says which storage tracker a frame uses, and that a frame which has written nothing
still sees the chain it began with (`FramesInv`), for then a failure takes nothing
back that the trackers keep. An operation that fails after its flow has run is one more
way to leave a call: the trackers are then as the flow left them, and the chain as it
was; unless `Replaces` says otherwise, what the flow changed is where the data need no
node, or have one (`Fault`). The lemmas are about division: where the words of a
span begin and end, that a whole number of words moves whole words (`InPhase`), and
that a value covers its span. `IsOperation` in `ProgramsAssumption` says no more
than that spans are inside memory and accounts are accounts. The
proof found two cases the bounds had hidden, which the model now names like the
others: a `CODECOPY` that is a source, of a code whose node is blank (`lossy`), and a
creation whose init code has nodes, which the mirror takes for call data of the
new contract (`blurred`).

**`AttackAnalysisProofs`.** `TracksExecution`: while every tail tells where execution
goes (no block that falls through, no callee without code, no failing operation), the
taint analyzer is at the block that is executed or is diverging, and it does not
diverge from an execution that is the reference's own. `AnalyzerMovesOn`: whatever
fails, it never goes back, and stops diverging only further on. Assumed of the
contracts is `IsProgram`: they are cut into blocks, execution does not run off
them, and a contract does not begin with a jump or a call, which would find no operands
on the stack. The inductive invariant `IInv` needs, besides `Tracks` and the types, that the
calls under way are inside blocks (`InCode`), and that an exact path is what was
executed, from the root on (`Faithful`): the reference path is such a path, so
its first block is where the second execution starts. `HookType` says what one step of
the analyzer does, and rests on `MergesType`: a place to merge is a later one of the
block it is kept under.

`PathCompleteHolds`: the path is in the order of execution, and every block that was
executed is in it or still open, except one that its call ended with, if that was its
only operation or another than its tail failed in it as it was executed (`faulted`); an
operation that could not be paid for loses no block. `PathInv` says where the blocks not yet recorded are: at most one
open block for each call (`PendingOK`), single ones only in calls that have a nested
call above them; the positions of what is executed below a call lie between its
calling block and the next one (`Nested`), and calls are numbered as they are made
(`Numbered`), so that what is appended now sorts after everything recorded.

`PointsMatterHolds`: the points of a divergence are blocks of both paths, followed by
different ones. The code takes `i1-1` and `i2-1`; that they exist is because both
paths begin with the receiver's first block (`FirstBlock`, an invariant of the
execution that needs the assumption on a contract's first operation), and that they
are the same block is because sections form a chain in which a section that is not
common follows a common one (`Chain`, `PartAfterSame`). `ConsequenceFoundHolds`: if
there is no point, the profits are equal after every section, by induction along the
chain: a section that pays differently can only be a branch after which they are equal
(`ProfitsStayEqual`). Without failed calls the profits are sums over a prefix of the
path (`Profit1Is`), which rests on what the library's sum over a set does
(`SumTakes`, `SumSplit`). The cut, the profits and the sums are recursive functions;
the library's theorems about those take operators as parameters, so existence and
uniqueness are shown here by the least counterexample.

Only model-checked: the liveness properties `AcquireReturns`, `SearchEnds`,
`GoroutinesEnd` and `ProcessExits`, since liveness under fairness and `ENABLED` are out
of the proof system's reach. What they need of safety, that nobody waits for what will
not come, is proved: `NobodyStuckHolds`, `SearchGoesOnHolds` with
`NeverTurnsBackHolds`, `SubscribersWaitHolds` and `PermitWillComeHolds`. Every other property of a passing run is a theorem; those
of the violation runs are refuted.

## 6. Disagreements between code and comments

Shown by violation runs:

1. **Profits of the profit transaction** (`oracle_profit_tx`). `searcher.go:171`
   drops the result of `Add`. What can be merged is merged in place, what is
   appended is lost, and the other side of the comparison has it all.
2. **Uses after a revert** (`summary_uses`). `summary_tracer.go:109` records
   "def-clear uses" only, but definitions made in a call that reverts stay in
   `t.defs`, although line 300 clears the call's changes.

Seen while modelling, kept as the code does it, in no run of their own:

- `tx_history.go:262, 270`: a block whose header or body could not be fetched is
  cached as loaded and nil. `:398`: `ForgetBlockRange` includes its end, callers
  pass `from + size`: a session also forgets the block after it, and
  `collect.go:249` with it the next window's first.
- `searcher.go:303`: `Search` returns on a timeout without waiting for its
  tasks, and what a timed-out window has not checked is never checked later
  (`:533`), since later windows take it for old. `:298`: a window without records
  panics. `:567`: the comment says that the attack alone made no
  profit, but for a pair from before the pivot that has not been asked.
- `searcher.go:377` skips victims whose contracts are known "for sure" not to be
  published, but `TroubEth.IsVerified` (`troubeth/troubeth.go:140`) takes every
  status but 200 for a denial and caches it.
- `exevm.go:230` checks "whether there are errors in ForkedState", but a revert of
  an inner call has restored the error of before it (`forked.go:437`): a transaction
  that read a value the node failed to give is accepted.
- `contract_info.go:48`: an answer goes to those who have subscribed by then; a
  later caller waits in vain, until its context ends.
- `forked.go:428`: the access list is not restored by a revert. `:343, 441`: a
  revert of an inner call leaves a `StateDB` without a journal, so that `Finalise`
  neither deletes accounts destructed before nor settles slots written before it.
  `:512`: a contract destructed and created again inherits the old storage.
  `exevm.go:100`: after a recovered panic the error stays, and every later
  transaction on that state is rejected.
- `collect.go:142` does not call `CtxCancel`. `:168, 275`: "Search finished" is
  logged, and the cleanup begins, while up to `Parallel` windows are searched.
  `searcher.go:86`: a prefetcher may load blocks of a window that was closed.
- `profit.go:88`: `Compact` filters the slice it was given, not the merged one
  (no difference for slices built with `Add`), and drops a collection's profit with
  as many tokens given as received, so that a caller no longer knows which: with
  token 1 given away in an outer call, 2 minted in an inner one and 1 given back
  later, the overall profit of the collection is wrong. `ProfitsAreHoldings` excepts
  it (`lossy`).
- `profit.go:189`: a gain in one asset while another on both sides stays even
  compares as `NotComparable`, and is passed over; `MissedIsUnclear` says what is
  not.
- `summary_tracer.go:256`: balances are read after the EVM has moved the value, and
  the value is counted again; the defined balances are wrong, and two nested calls
  can make a changed one look unchanged. `DefsAreChanges` speaks of slots.

- `data_flow/tracer.go:181`: the root call's storage tracker is not registered, a
  re-entrant call to the same contract has another. `:159`: trackers are not taken
  back when a call fails; `:118` with `:163`: nor when an operation fails after its own flow,
  so that a refused `SSTORE`, `CALL` or `SELFDESTRUCT` leaves or erases nodes. `call.go:10`: a call's value is never set, so that
  `CALLVALUE` (`policy.go:393`) has no node. `:40, 50` and `memory.go:86, 107`: words
  are copied from rounded offsets; data whose source and destination lie differently
  in their words is shifted. `memory.go:107`: a callee that returns less than was
  asked for erases nodes the caller's memory still needs. `policy.go:757`: a
  balance's old node is replaced by the value's, also when the call fails, and for
  `CALLCODE`, which moves nothing; `:740`: the creator's balance keeps its node, and
  the new address has none. `:999`: a `SELFDESTRUCT` replaces the heir's node, and
  leaves one where there is no source. Outputs of precompiled contracts have no node.
  These are the cases `lossy` and `blurred` name.
- `taint_analysis.go:43`: "if the current execution path diverges from the refPath",
  but a path that is the same counts as diverging after a block that falls through
  into a `JUMPDEST`, a call to an account without code, a failed operation, or a
  block of one operation at the end of a call. `:289`: after a divergence the
  analyzer goes on at the last occurrence of a block, in a loop perhaps rounds ahead.
- `tracers/nested.go:282`: a block of a single operation that ends its call is in no
  path. `:311` with `:126`: nor is a block in which an operation fails as it is executed
  (`RETURNDATACOPY` beyond the end, a write in a static call, an undefined operation). `call_position.go:107`: `Cmp` "returns 1 if the MsgCall of current position
  happens before"; it returns -1.
- `attack_analysis.go:62`: for gas estimation griefing the consequence point is
  documented as the first operation that throws out-of-gas; what is given is the tail
  of the last common block, and no point if one path is a prefix of the other
  (`:592`), which ends the analysis at line 330 ("usualy this should not happen").
  `:559`: a block of a failed call, of any depth, resets all profits of its path so
  far. `:322`: points of the reference path are dropped, so that a payment that
  vanishes from a common block has none. `:342`: `PathConditionAlteration` may be
  reported for profits that differed before the paths did.

## 7. What is not modelled

- Gas, fees, signatures and receipts (`dyengine/exevm.go`, `transaction.go`): they
  decide no order of events; that a transaction may fail is in the models.
- `dyengine/state/memory.go`: a thin wrapper of go-ethereum's `StateDB`.
- Readers of the chain (`chain/`): access to a node or a database. That they answer
  and may fail is part of the modules that call them.
- Database documents (`dataset/attack_bson.go`, `*_serialization.go`,
  `cmd/migrate.go`): conversions without behaviour over time.
- `analysis/summary/transfer_graph.go`, `Profits.SomeMore`, the deprecated
  `ERC721Profit`: no caller in the search.
- In `TxSummary`: `CREATE`; `CALLCODE` (for which the tracer notes a transfer the
  EVM does not make); `SELFDESTRUCT` (which the EVM reports with `CaptureEnter` and the
  balance as value, so that the tracer notes its transfer like a call's); code variables (never defined, so always uses); the list of
  transfers; execution traces. In `ForkedState`: plain delegations such as logs and
  refunds; `IntermediateRoot` in place of `Finalise` before Byzantium (`exevm.go:243`);
  pseudo-transactions, which run a Go function on the state without frame or `Finalise`
  (`exevm.go:109-119`); a request for a block's hash, which fails like the others but
  reads no state (`forked.go:556`); a panic of a tracer, which `exevm.go:99-106` recovers
  as it does the one modelled (`SetStatePanics`), but with no error left in the state:
  what the transaction has done so far stays, and the next one runs on it. In `TxHistory`: lookups of sessions by hash or position.
- In `DataFlow`: the sinks of `RETURN` and `REVERT`, which look at the operations behind
  nodes; undefined operation codes and too few operands, with which the tracer panics;
  the stack's limit; offsets and lengths with nodes of their own (one operand
  stands for them); the address 0 after a failed creation; `memory.Get` and `Set`,
  which nobody calls. In `AttackAnalysis`: the trace from a sink back to the read
  (`locateVarReadAndInfluenceTrace`), the influence string, which sinks are tainted
  (`DataFlow`), creations, several assets.
- `analysis/storage_address`: planned.
- `contract/`, `helpers/`, `config/`, logging: decoding, flags and output.

## 8. Plan

Done, in this order: `TxHistory` with `BlockSupply`; `AttackSearch`;
`ContractInfo`; `ForkedState` with `EvmState`; `Snapshots` with `SnapshotStack`;
`Collect`; `Profits` and `Oracle`; `TxSummary`; `DataFlow`; `AttackAnalysis`.

Next, models: storage addressing as a client of `DataFlow`; lookups of sessions;
creations in `TxSummary` and `AttackAnalysis`.

Next, proofs: what the models to come bring with them (a creation is one more way to
open a frame of `TxSummary` and of `AttackAnalysis`); for `AttackAnalysis`, that every
divergence of two complete paths has a point; for the search, that what is checked is
checked with replays that mean what the chain means, by composing `RefusalExplained`
with the agreement that `ForkedStateProofs` shows.
