------------------------------ MODULE TxHistory ------------------------------
(***************************************************************************)
(* The block cache of dataset/tx_history.go.  Goroutines call AcquireBlocks *)
(* for a range of block numbers, with or without a worker pool.  Every      *)
(* number has a blockRecord in a shared map; its mutex is taken by the      *)
(* caller and, when a pool is used, handed over to the task that computes   *)
(* the block and unlocks the record.  Sessions close by deleting a range of *)
(* the map; prefetchers drop what they got and leave it cached.             *)
(*                                                                          *)
(* Data abstraction.  A Block is represented by the blockRecord that holds  *)
(* it; of its content only whether computeTxRecords produced a list or      *)
(* gave up with nil is kept.  The sync.WaitGroup of a call is the set of    *)
(* slots whose Done is outstanding.  Every access to the map holds h.mu, so *)
(* LoadOrStore and the loop of deletes are one atomic step each.            *)
(***************************************************************************)
EXTENDS Naturals, FiniteSets

CONSTANTS
  BlockNumbers,   \* block heights the calls name
  Records,        \* identities of blockRecord objects
  Callers,        \* goroutines that call AcquireBlocks
  Prefetchers,    \* those that drop the result (PrefetchBlocks)
  Pools,          \* ants worker pools
  NoRecord, NoPool, NoBlock,
  MaxSize,        \* longest range of a request
  Requests,       \* ranges [from, size] the calls may ask for
  PoolsOf,        \* PoolsOf[c]: the pools (or NoPool) caller c may pass
  Capacity,       \* Capacity[p]: number of workers of pool p
  MayFail,        \* numbers whose header or body the reader may fail to get
  ForgetRanges,   \* ranges [from, to] of direct calls of ForgetBlockRange
  Releasable,     \* pools that may be released while they are in use
  MaxForgets      \* bound on the number of ForgetBlockRange calls

Indices == 1 .. MaxSize
NoRequest == [from |-> 0, size |-> 0]

ASSUME NumbersAssumption == BlockNumbers \subseteq Nat /\ NoBlock \notin BlockNumbers
ASSUME RecordsAssumption == NoRecord \notin Records
ASSUME PoolsAssumption ==
  /\ NoPool \notin Pools
  /\ PoolsOf \in [Callers -> SUBSET (Pools \cup {NoPool})]
ASSUME RequestsAssumption ==
  /\ MaxSize \in Nat
  /\ Requests \subseteq [from : Nat, size : 0 .. MaxSize]
  /\ \A q \in Requests : \A i \in 1 .. q.size : q.from + i - 1 \in BlockNumbers
\* ants takes a size of zero or less for no limit: no pool is without workers.
ASSUME CapacityAssumption == Capacity \in [Pools -> Nat \ {0}]
ASSUME BoundAssumption == MaxForgets \in Nat

VARIABLES
  blocks,   \* h.blocks: number -> record, NoRecord when absent
  number,   \* the block number a record was created for
  loaded,   \* blockRecord.loaded
  block,    \* blockRecord.Block: the height it was computed for and its kind
  mu,       \* blockRecord.mu is locked
  pc,       \* control point of a caller
  request,  \* range asked for by the current call
  pool,     \* pool argument of the current call
  index,    \* loop variable of the current call
  br,       \* record of the current iteration
  slot,     \* result slice of the call, as record identities
  wg,       \* slots whose wg.Done is outstanding
  tasks,    \* closures running on workers
  closed,   \* released pools
  forgets   \* number of ForgetBlockRange calls so far

recordVars == <<loaded, block, mu>>
callVars   == <<request, pool, index, br>>
vars == <<blocks, number, loaded, block, mu, pc, request, pool, index, br,
          slot, wg, tasks, closed, forgets>>

Points == {"idle", "load", "lock", "submit", "worker", "compute", "wait",
           "open", "closing"}

Task == [caller : Callers, index : Indices, record : Records, pool : Pools,
         stage : {"computing", "unlocking"}]

TypeOK ==
  /\ blocks  \in [BlockNumbers -> Records \cup {NoRecord}]
  /\ number  \in [Records -> BlockNumbers \cup {NoBlock}]
  /\ loaded  \in [Records -> BOOLEAN]
  /\ block   \in [Records -> [of : Nat \cup {NoBlock}, kind : {"unset", "list", "nil"}]]
  /\ mu      \in [Records -> BOOLEAN]
  /\ pc      \in [Callers -> Points]
  /\ request \in [Callers -> [from : Nat, size : 0 .. MaxSize]]
  /\ pool    \in [Callers -> Pools \cup {NoPool}]
  /\ index   \in [Callers -> Nat]
  /\ br      \in [Callers -> Records \cup {NoRecord}]
  /\ slot    \in [Callers -> [Indices -> Records \cup {NoRecord}]]
  /\ wg      \in [Callers -> SUBSET Indices]
  /\ tasks   \subseteq Task
  /\ closed  \subseteq Pools
  /\ forgets \in Nat

Init ==
  /\ blocks  = [n \in BlockNumbers |-> NoRecord]
  /\ number  = [r \in Records |-> NoBlock]
  /\ loaded  = [r \in Records |-> FALSE]
  /\ block   = [r \in Records |-> [of |-> NoBlock, kind |-> "unset"]]
  /\ mu      = [r \in Records |-> FALSE]
  /\ pc      = [c \in Callers |-> "idle"]
  /\ request = [c \in Callers |-> NoRequest]
  /\ pool    = [c \in Callers |-> NoPool]
  /\ index   = [c \in Callers |-> 1]
  /\ br      = [c \in Callers |-> NoRecord]
  /\ slot    = [c \in Callers |-> [i \in Indices |-> NoRecord]]
  /\ wg      = [c \in Callers |-> {}]
  /\ tasks   = {}
  /\ closed  = {}
  /\ forgets = 0

-----------------------------------------------------------------------------
(* The loop of AcquireBlocks.                                              *)

\* blockNumbers[i-1] of caller c's call.
NumberAt(c, i) == request[c].from + i - 1

\* A blockRecord that no LoadOrStore has handed out yet.  Which of them a new one
\* is makes no difference.
Fresh(r) == number[r] = NoBlock
New(r) == Fresh(r) /\ r = CHOOSE s \in Records : Fresh(s)

Acquire(c, q, p) ==
  /\ pc[c] = "idle"
  /\ request' = [request EXCEPT ![c] = q]
  /\ pool'    = [pool EXCEPT ![c] = p]
  /\ pc'      = [pc EXCEPT ![c] = IF q.size = 0 THEN "wait" ELSE "load"]
  /\ UNCHANGED <<blocks, number, recordVars, index, br, slot, wg, tasks, closed, forgets>>

\* The next iteration of the loop, or wg.Wait after the last one.
Advance(c) ==
  IF index[c] < request[c].size
  THEN /\ index' = [index EXCEPT ![c] = @ + 1]
       /\ pc'    = [pc EXCEPT ![c] = "load"]
  ELSE /\ pc'    = [pc EXCEPT ![c] = "wait"]
       /\ UNCHANGED index

\* Mutated form: Store in place of LoadOrStore.
StoreAlways(c) ==
  /\ pc[c] = "load"
  /\ LET n == NumberAt(c, index[c]) IN
       \E r \in Records :
         /\ New(r)
         /\ blocks' = [blocks EXCEPT ![n] = r]
         /\ number' = [number EXCEPT ![r] = n]
         /\ br'     = [br EXCEPT ![c] = r]
  /\ pc' = [pc EXCEPT ![c] = "lock"]
  /\ UNCHANGED <<recordVars, request, pool, index, slot, wg, tasks, closed, forgets>>

LoadOrStore(c) ==
  /\ pc[c] = "load"
  /\ LET n == NumberAt(c, index[c]) IN
       \/ /\ blocks[n] # NoRecord
          /\ br' = [br EXCEPT ![c] = blocks[n]]
          /\ UNCHANGED <<blocks, number>>
       \/ /\ blocks[n] = NoRecord
          /\ \E r \in Records :
               /\ New(r)
               /\ blocks' = [blocks EXCEPT ![n] = r]
               /\ number' = [number EXCEPT ![r] = n]
               /\ br'     = [br EXCEPT ![c] = r]
  /\ pc' = [pc EXCEPT ![c] = "lock"]
  /\ UNCHANGED <<recordVars, request, pool, index, slot, wg, tasks, closed, forgets>>

\* Mutated form: the caller does not look at loaded.
UseUnchecked(c) ==
  /\ pc[c] = "lock"
  /\ ~mu[br[c]]
  /\ slot' = [slot EXCEPT ![c][index[c]] = br[c]]
  /\ Advance(c)
  /\ UNCHANGED <<blocks, number, recordVars, request, pool, br, wg, tasks, closed, forgets>>

\* br.mu.Lock() finds the block loaded, unlocks and takes it.
UseLoaded(c) ==
  /\ pc[c] = "lock"
  /\ ~mu[br[c]]
  /\ loaded[br[c]]
  /\ slot' = [slot EXCEPT ![c][index[c]] = br[c]]
  /\ Advance(c)
  /\ UNCHANGED <<blocks, number, recordVars, request, pool, br, wg, tasks, closed, forgets>>

\* The rest of the else branch, once the mutex is taken.
Claim(c, waiting) ==
  /\ mu' = [mu EXCEPT ![br[c]] = TRUE]
  /\ IF pool[c] = NoPool
     THEN /\ pc' = [pc EXCEPT ![c] = "compute"]
          /\ UNCHANGED wg
     ELSE /\ pc' = [pc EXCEPT ![c] = "submit"]
          /\ wg' = [wg EXCEPT ![c] = @ \cup {waiting}]
  /\ UNCHANGED <<blocks, number, loaded, block, callVars, slot, tasks, closed, forgets>>

\* Mutated forms: loaded is read without the mutex; the mutex is taken but
\* loaded is not looked at.
ClaimUnlocked(c) == pc[c] = "lock" /\ ~loaded[br[c]] /\ Claim(c, index[c])
ClaimBlindly(c)  == pc[c] = "lock" /\ ~mu[br[c]] /\ Claim(c, index[c])

\* br.mu.Lock() finds the block missing and keeps the lock; wg.Add(1).
LockUnloaded(c) ==
  /\ pc[c] = "lock"
  /\ ~mu[br[c]]
  /\ ~loaded[br[c]]
  /\ Claim(c, index[c])

\* pool.Submit passes its check that the pool is open and looks for a worker.
Submit(c) ==
  /\ pc[c] = "submit"
  /\ pool[c] \notin closed
  /\ pc' = [pc EXCEPT ![c] = "worker"]
  /\ UNCHANGED <<blocks, number, recordVars, callVars, slot, wg, tasks, closed, forgets>>

\* pool.Submit returns an error, which the caller drops: the record stays
\* locked and the WaitGroup keeps counting the slot.
SubmitRejected(c) ==
  /\ pc[c] \in {"submit", "worker"}
  /\ pool[c] \in closed
  /\ Advance(c)
  /\ UNCHANGED <<blocks, number, recordVars, request, pool, br, slot, wg, tasks, closed, forgets>>

Busy(p) == {t \in tasks : t.pool = p}

\* A worker takes the closure; Submit blocks until one is free.
StartTask(c) ==
  /\ pc[c] = "worker"
  /\ Cardinality(Busy(pool[c])) < Capacity[pool[c]]
  /\ tasks' = tasks \cup {[caller |-> c, index |-> index[c], record |-> br[c],
                           pool |-> pool[c], stage |-> "computing"]}
  /\ Advance(c)
  /\ UNCHANGED <<blocks, number, recordVars, request, pool, br, slot, wg, closed, forgets>>

-----------------------------------------------------------------------------
(* computeTxRecords, in a task or in the caller.                           *)

\* What computeTxRecords returns for block n: the list of its records, or nil
\* when the forked state or the block could not be obtained.
computeTxRecords(n) ==
  [of : {n}, kind : IF n \in MayFail THEN {"list", "nil"} ELSE {"list"}]

\* br.Block = b; br.loaded = true; blocks[index] = b
Publish(r, c, i) ==
  /\ \E b \in computeTxRecords(NumberAt(c, i)) : block' = [block EXCEPT ![r] = b]
  /\ loaded' = [loaded EXCEPT ![r] = TRUE]
  /\ slot'   = [slot EXCEPT ![c][i] = r]

\* Mutated form: wg.Done is not deferred and missed.
ComputeWithoutDone(t) ==
  /\ t.stage = "computing"
  /\ Publish(t.record, t.caller, t.index)
  /\ tasks' = (tasks \ {t}) \cup {[t EXCEPT !.stage = "unlocking"]}
  /\ UNCHANGED <<blocks, number, mu, pc, callVars, wg, closed, forgets>>

\* The closure publishes its block and runs the deferred wg.Done.
ComputeTask(t) ==
  /\ t.stage = "computing"
  /\ Publish(t.record, t.caller, t.index)
  /\ wg'    = [wg EXCEPT ![t.caller] = @ \ {t.index}]
  /\ tasks' = (tasks \ {t}) \cup {[t EXCEPT !.stage = "unlocking"]}
  /\ UNCHANGED <<blocks, number, mu, pc, callVars, closed, forgets>>

\* Mutated form: br.mu.Unlock is not deferred and missed.
EndWithoutUnlock(t) ==
  /\ t.stage = "unlocking"
  /\ tasks' = tasks \ {t}
  /\ UNCHANGED <<blocks, number, recordVars, pc, callVars, slot, wg, closed, forgets>>

\* Then the deferred br.mu.Unlock, and the worker is free again.
EndTask(t) ==
  /\ t.stage = "unlocking"
  /\ mu'    = [mu EXCEPT ![t.record] = FALSE]
  /\ tasks' = tasks \ {t}
  /\ UNCHANGED <<blocks, number, loaded, block, pc, callVars, slot, wg, closed, forgets>>

ComputeInline(c) ==
  /\ pc[c] = "compute"
  /\ Publish(br[c], c, index[c])
  /\ mu' = [mu EXCEPT ![br[c]] = FALSE]
  /\ Advance(c)
  /\ UNCHANGED <<blocks, number, request, pool, br, wg, tasks, closed, forgets>>

\* Mutated form: the call does not wait for its closures.
ReturnAtOnce(c) ==
  /\ pc[c] = "wait"
  /\ pc' = [pc EXCEPT ![c] = "open"]
  /\ UNCHANGED <<blocks, number, recordVars, callVars, slot, wg, tasks, closed, forgets>>

\* wg.Wait returns and the call delivers its slice.
Return(c) ==
  /\ pc[c] = "wait"
  /\ wg[c] = {}
  /\ pc' = [pc EXCEPT ![c] = "open"]
  /\ UNCHANGED <<blocks, number, recordVars, callVars, slot, wg, tasks, closed, forgets>>

-----------------------------------------------------------------------------
(* Releasing blocks.                                                       *)

\* ForgetBlockRange: the range includes both ends.
ForgetBlockRange(from, to) ==
  /\ forgets < MaxForgets
  /\ forgets' = forgets + 1
  /\ blocks'  = [n \in BlockNumbers |-> IF n \in from .. to THEN NoRecord ELSE blocks[n]]

Forget(q) ==
  /\ ForgetBlockRange(q.from, q.to)
  /\ UNCHANGED <<number, recordVars, pc, callVars, slot, wg, tasks, closed>>

\* TxHistorySession.Close, and the part of SearchWindow.Close before it: both
\* forget [from, from + size], where size is the number of blocks.
ForgetSession(c) ==
  ForgetBlockRange(request[c].from, request[c].from + request[c].size)

\* The session or the slice is garbage, and with it the locals of the call.
Drop(c) ==
  /\ pc'      = [pc EXCEPT ![c] = "idle"]
  /\ request' = [request EXCEPT ![c] = NoRequest]
  /\ pool'    = [pool EXCEPT ![c] = NoPool]
  /\ index'   = [index EXCEPT ![c] = 1]
  /\ br'      = [br EXCEPT ![c] = NoRecord]
  /\ slot'    = [slot EXCEPT ![c] = [i \in Indices |-> NoRecord]]

CloseWindow(c) ==
  /\ pc[c] = "open"
  /\ c \notin Prefetchers
  /\ ForgetSession(c)
  /\ pc' = [pc EXCEPT ![c] = "closing"]
  /\ UNCHANGED <<number, recordVars, callVars, slot, wg, tasks, closed>>

CloseSession(c) ==
  /\ pc[c] = "closing"
  /\ ForgetSession(c)
  /\ Drop(c)
  /\ UNCHANGED <<number, recordVars, wg, tasks, closed>>

\* PrefetchBlocks ignores the slice and leaves the blocks in the cache.
Discard(c) ==
  /\ pc[c] = "open"
  /\ c \in Prefetchers
  /\ Drop(c)
  /\ UNCHANGED <<blocks, number, recordVars, wg, tasks, closed, forgets>>

ReleasePool(p) ==
  /\ p \in Releasable \ closed
  /\ closed' = closed \cup {p}
  /\ UNCHANGED <<blocks, number, recordVars, pc, callVars, slot, wg, tasks, forgets>>

-----------------------------------------------------------------------------

CallStep(c) ==
  \/ LoadOrStore(c)
  \/ UseLoaded(c)
  \/ LockUnloaded(c)
  \/ Submit(c)
  \/ SubmitRejected(c)
  \/ StartTask(c)
  \/ ComputeInline(c)
  \/ Return(c)

TaskStep(t) == ComputeTask(t) \/ EndTask(t)

SessionStep(c) == CloseWindow(c) \/ CloseSession(c) \/ Discard(c)

Next ==
  \/ \E c \in Callers : \E q \in Requests, p \in PoolsOf[c] : Acquire(c, q, p)
  \/ \E c \in Callers : CallStep(c)
  \/ \E t \in tasks : TaskStep(t)
  \/ \E c \in Callers : SessionStep(c)
  \/ \E q \in ForgetRanges : Forget(q)
  \/ \E p \in Pools : ReleasePool(p)

Spec == Init /\ [][Next]_vars

\* The Go scheduler runs every goroutine that can run, a mutex is not withheld
\* for ever from a waiter, and computeTxRecords returns.  Nothing obliges a
\* caller to call again, to close its session or to release a pool.
Fairness ==
  /\ \A c \in Callers : WF_vars(CallStep(c))
  /\ WF_vars(\E t \in tasks : TaskStep(t))

FairSpec == Spec /\ Fairness

-----------------------------------------------------------------------------
(* Safety.                                                                 *)

\* Caller c has locked br[c] and still has to compute it or pass it on.
Holding(c) == pc[c] \in {"submit", "worker", "compute"}

\* Exactly one activity is responsible for a locked record, and the record it
\* works on is not published: a caller that took the mutex, or the closure it
\* was handed to (AcquireBlocks, lines 424-447).  The deferred Unlock therefore
\* never unlocks a free mutex and a block is never computed twice in a record.
SingleFlight ==
  /\ \A c \in Callers : Holding(c) => mu[br[c]] /\ ~loaded[br[c]]
  /\ \A t \in tasks : mu[t.record] /\ (t.stage = "computing" => ~loaded[t.record])
  /\ \A c, d \in Callers : Holding(c) /\ Holding(d) /\ br[c] = br[d] => c = d
  /\ \A t, u \in tasks : t.record = u.record => t = u
  /\ \A c \in Callers, t \in tasks : Holding(c) => br[c] # t.record

\* When AcquireBlocks has returned, every slot of its result holds the finished
\* block of the height asked for, whatever other calls, deletions and pool
\* releases did meanwhile: wg.Wait cannot be passed early, and a slot is never
\* filled from the record of another height.
ResultsComplete ==
  \A c \in Callers : pc[c] = "open" =>
    \A i \in 1 .. request[c].size :
      LET r == slot[c][i] IN
      /\ r # NoRecord
      /\ loaded[r]
      /\ block[r].of = NumberAt(c, i)

\* As long as nothing was forgotten a height is fetched into one record only,
\* however many callers raced for it.
OneFetchUntilForgotten ==
  forgets = 0 =>
    \A r, s \in Records : number[r] = number[s] /\ ~Fresh(r) => r = s

\* Somebody is going to unlock record r.
Owned(r) ==
  \/ \E c \in Callers : Holding(c) /\ br[c] = r
  \/ \E t \in tasks : t.record = r

\* A record stays locked with nobody left to unlock it only when a pool was
\* released under a caller (the dropped error of pool.Submit, line 432).
LockedByOwner ==
  \A r \in Records : mu[r] => Owned(r) \/ closed # {}

InCall(c) == pc[c] \in Points \ {"idle", "open", "closing"}

\* Caller c cannot go on by itself: br.mu.Lock, pool.Submit or wg.Wait blocks it.
Blocked(c) ==
  \/ pc[c] = "lock" /\ mu[br[c]]
  \/ pc[c] = "worker" /\ Cardinality(Busy(pool[c])) >= Capacity[pool[c]]
  \/ pc[c] = "wait" /\ wg[c] # {}

\* While calls are under way, one of them can go on, or a closure can, for those
\* never block.  Closures keep the mutexes of earlier blocks and occupy the
\* workers, callers wait for mutexes, workers and closures (lines 424, 432, 452):
\* these waits never form a circle, and nobody waits for a Done or an Unlock that
\* nobody is going to do, unless a pool was released.
NobodyStuck ==
  closed = {} /\ (\E c \in Callers : InCall(c)) =>
    tasks # {} \/ \E c \in Callers : InCall(c) /\ ~Blocked(c)

\* "Once a Block is appended in blocks, it should not be modified" (line 235):
\* sessions share the Block of a record without a lock, so once loaded neither
\* the flag nor the Block may change.
PublishedIsImmutable ==
  [][\A r \in Records : loaded[r] => loaded'[r] /\ block'[r] = block[r]]_vars

-----------------------------------------------------------------------------
(* Refinement.                                                             *)

\* Abstract phase of a record.  A record whose closure was rejected by a
\* released pool counts as being computed, for ever.
Phase(r) ==
  CASE Fresh(r)                           -> "absent"
    [] ~Fresh(r) /\ loaded[r]             -> "ready"
    [] ~Fresh(r) /\ ~loaded[r] /\ mu[r]   -> "computing"
    [] ~Fresh(r) /\ ~loaded[r] /\ ~mu[r]  -> "empty"

\* The records a call has delivered and its session still holds.
Given(c) ==
  IF pc[c] \in {"open", "closing"} THEN {slot[c][i] : i \in 1 .. request[c].size} ELSE {}

Supply == INSTANCE BlockSupply WITH
  Cells <- Records, Heights <- BlockNumbers, NoHeight <- NoBlock, Sessions <- Callers,
  phase  <- [r \in Records |-> Phase(r)],
  height <- number,
  given  <- [c \in Callers |-> Given(c)]

\* The cache with its locks, pools, closures and deletions (AcquireBlocks,
\* ForgetBlocks, Close) implements the abstract supply of write-once blocks.
ImplementsSupply == Supply!Spec

-----------------------------------------------------------------------------
(* Liveness.                                                               *)

\* Calls that lock overlapping ranges in ascending order, with tasks that keep
\* the locks of earlier blocks while the caller waits for later ones and for a
\* worker, all return, unless a pool is released.
AcquireReturns ==
  \A c \in Callers : InCall(c) ~> (pc[c] = "open" \/ closed # {})

-----------------------------------------------------------------------------
(* The inductive invariant behind the safety properties.                   *)

InLoop(c)    == pc[c] \in {"load", "lock", "submit", "worker", "compute"}
HasRecord(c) == pc[c] \in {"lock", "submit", "worker", "compute"}

\* The loop has left slot i behind.
Visited(c, i) ==
  \/ InLoop(c) /\ i < index[c]
  \/ pc[c] \in {"wait", "open", "closing"}

CallOK(c) ==
  /\ InLoop(c) => index[c] \in 1 .. request[c].size
  /\ \A i \in 1 .. request[c].size : NumberAt(c, i) \in BlockNumbers
  /\ HasRecord(c) => br[c] \in Records /\ number[br[c]] = NumberAt(c, index[c])
  /\ pc[c] \in {"submit", "worker"} => pool[c] \in Pools /\ index[c] \in wg[c]
  /\ pc[c] \in {"idle", "open", "closing"} => wg[c] = {}
  /\ pc[c] = "idle" => index[c] = 1

SlotsOK(c) ==
  \A i \in 1 .. request[c].size : Visited(c, i) /\ i \notin wg[c] =>
    /\ slot[c][i] \in Records
    /\ loaded[slot[c][i]]
    /\ number[slot[c][i]] = NumberAt(c, i)

TaskOK(t) ==
  /\ mu[t.record]
  /\ ~Fresh(t.record)
  /\ t.stage = "unlocking" => loaded[t.record]
  /\ t.stage = "computing" =>
       /\ ~loaded[t.record]
       /\ t.index \in wg[t.caller]
       /\ t.index <= request[t.caller].size
       /\ number[t.record] = NumberAt(t.caller, t.index)
       /\ pc[t.caller] # "open" /\ pc[t.caller] # "closing"
       /\ Visited(t.caller, t.index)

RecordOK(r) ==
  /\ Fresh(r) => ~mu[r] /\ ~loaded[r]
  /\ loaded[r] => block[r].of = number[r]
  /\ forgets = 0 /\ ~Fresh(r) => blocks[number[r]] = r

MapOK == \A n \in BlockNumbers : blocks[n] # NoRecord => number[blocks[n]] = n

\* A call has at most one closure computing for a slot.
OneTaskPerSlot ==
  \A t, u \in tasks :
    /\ t.stage = "computing" /\ u.stage = "computing"
    /\ t.caller = u.caller /\ t.index = u.index
    => t = u

IInv ==
  /\ TypeOK
  /\ \A c \in Callers : CallOK(c)
  /\ \A c \in Callers : SlotsOK(c)
  /\ \A t \in tasks : TaskOK(t)
  /\ \A r \in Records : RecordOK(r)
  /\ MapOK
  /\ OneTaskPerSlot
  /\ SingleFlight
  /\ LockedByOwner

\* The wg.Done of slot i is still to come: from a closure, or from one that the
\* caller is about to submit.
Owed(c, i) ==
  \/ pc[c] \in {"submit", "worker"} /\ index[c] = i
  \/ \E t \in tasks : t.stage = "computing" /\ t.caller = c /\ t.index = i

\* What the WaitGroup of a call counts will be done, unless a pool was released.
WaitInv == \A c \in Callers : \A i \in wg[c] : Owed(c, i) \/ closed # {}
=============================================================================
