---------------------------- MODULE AttackSearch ----------------------------
(***************************************************************************)
(* The sliding search of dataset/searcher.go and cmd/collect.go.  The main  *)
(* loop opens a SearchWindow every Step blocks; each window is searched by  *)
(* a goroutine that submits, for every transaction that could be an attack, *)
(* one task; a task tries the later transactions of the window as victims   *)
(* and, for every victim, the later ones as profit transactions.  Windows   *)
(* overlap: a search pivot is to keep them from checking anything twice.    *)
(*                                                                          *)
(* Data abstraction.  Transactions are their positions 1 .. N, so that <=   *)
(* is TxPosition.Cmp.  What a transaction does is left to constants: which  *)
(* ones pass the filters, and which combinations match the oracle.  Kept of *)
(* the re-execution is what decides whether it runs at all: the nonces.     *)
(***************************************************************************)
EXTENDS Naturals, FiniteSets

CONSTANTS
  N,           \* number of transactions on the chain
  BlockOf,     \* BlockOf[x]: block number of x
  SenderOf,    \* SenderOf[x]
  Errored,     \* records whose Err is set
  Pseudo,      \* block reward records
  Attackers,   \* pass the filters on ar alone
  Dependent,   \* <<a, v>> that pass the filters on ar, vr but the sender's
  Profitable,  \* <<a, v, p>>: p shares an address with a and pays an attacker
  Unverified,  \* SomeContractsNonVerified may be set, by a goroutine
  Breaks,      \* transactions whose re-execution fails for their own reasons
  Matching,    \* <<a, v, p>> the oracle accepts; p = 0 without profit tx
  From, To, Window, Step,  \* arguments of collect
  Parallel,    \* weight of windowSemaphore
  Workers,     \* capacity of the searcher's pool
  MayMiss,     \* blocks that may be nil in a session
  MayExpire    \* windows whose search may time out

Txs == 1 .. N
Starts == {b \in From .. To : b < To /\ (b - From) % Step = 0}

ASSUME SizesAssumption ==
  /\ N \in Nat /\ From \in Nat /\ To \in Nat
  /\ Window \in Nat \ {0} /\ Step \in Nat \ {0}
  /\ Parallel \in Nat \ {0} /\ Workers \in Nat \ {0}
ASSUME ChainAssumption ==
  /\ BlockOf \in [Txs -> Nat]
  /\ \A x, y \in Txs : x <= y => BlockOf[x] <= BlockOf[y]

\* A block reward is sent by the zero address, for which nobody signs.
ASSUME PseudoAssumption ==
  \A x \in Pseudo, y \in Txs \ Pseudo : SenderOf[x] # SenderOf[y]

VARIABLES
  b,         \* loop variable of collect
  pivot,     \* searchPivot of collect
  phase,     \* phase[w]: how far the goroutine of window w is
  records,   \* records[w]: allTxRecords of the window
  pivotOf,   \* pivotOf[w]: the window's searchPivot
  next,      \* next[w]: loop variable ii of Search, as a position
  expired,   \* windows whose context is done
  tasks,     \* running searchVictimGivenAttack
  checked,   \* arguments of CheckOracle so far
  repeated,  \* those it was called with more than once
  reported,  \* those handed to the attack handler
  gaps,      \* <<w, x>>: re-executing x in window w failed on its nonce
  crashed    \* a goroutine has panicked, which ends the process

windowVars == <<b, pivot, phase, records, pivotOf>>
checkVars  == <<checked, repeated, reported>>
vars == <<b, pivot, phase, records, pivotOf, next, expired, tasks,
          checked, repeated, reported, gaps, crashed>>

Checks == Txs \X Txs \X (0 .. N)

\* win and attack name a task; victim and profit are its loop variables,
\* profit is 0 outside the inner loop.
Task == [win : Starts, attack : Txs, victim : 1 .. N + 1, profit : 0 .. N + 1]

TypeOK ==
  /\ b \in Nat
  /\ pivot \in Nat
  /\ phase \in [Starts -> {"none", "searching", "waiting", "panicking", "returned"}]
  /\ records \in [Starts -> SUBSET Txs]
  /\ pivotOf \in [Starts -> Nat]
  /\ next \in [Starts -> 0 .. N + 1]
  /\ expired \subseteq Starts
  /\ tasks \subseteq Task
  /\ checked \subseteq Checks
  /\ repeated \subseteq Checks
  /\ reported \subseteq Checks
  /\ gaps \subseteq Starts \X Txs
  /\ crashed \in BOOLEAN

Init ==
  /\ b = From
  /\ pivot = From
  /\ phase = [w \in Starts |-> "none"]
  /\ records = [w \in Starts |-> {}]
  /\ pivotOf = [w \in Starts |-> 0]
  /\ next = [w \in Starts |-> 0]
  /\ expired = {}
  /\ tasks = {}
  /\ checked = {} /\ repeated = {} /\ reported = {}
  /\ gaps = {}
  /\ crashed = FALSE

-----------------------------------------------------------------------------
(* Sessions: the happens-before graph and SlicePrerequisites.              *)

Usable(x) == x \notin Errored \cup Pseudo

\* Position after x in the sorted set S, N + 1 at its end.
After(S, x) ==
  IF \E y \in S : y > x
  THEN CHOOSE y \in S : y > x /\ \A z \in S : z > x => y <= z
  ELSE N + 1

\* The edge of hbGraph that leaves x: to the last record of the same sender.
Predecessor(S, x) ==
  LET Same == {y \in S : Usable(y) /\ y < x /\ SenderOf[y] = SenderOf[x]}
  IN  IF Same = {} THEN 0 ELSE CHOOSE y \in Same : \A z \in Same : z <= y

\* The records hbGraph leads to from d, as long as they are after the bound.
SlicePrerequisites(S, d, backBound) ==
  LET bound == IF d > backBound THEN backBound ELSE 0
      slice[x \in 0 .. N] ==
        IF x <= bound THEN {} ELSE {x} \cup slice[Predecessor(S, x)]
  IN  slice[Predecessor(S, d)]

-----------------------------------------------------------------------------
(* Re-execution.  A state is represented by the transactions applied to it. *)

SameSender(S, x) == {y \in S : SenderOf[y] = SenderOf[x]}
Nonce(x) == Cardinality({y \in SameSender(Txs, x) : y < x})

\* ar.State: the chain before a's block, and a's block up to a.
StateAt(a) == {y \in Txs : y < a /\ (Usable(y) \/ BlockOf[y] < BlockOf[a])}

\* Transactions of S that ApplyTx refuses for their nonce when S is applied in
\* order after the transactions of done.
NonceErrors(done, S) ==
  {x \in Txs : /\ x \in S
                /\ Nonce(x) # Cardinality(SameSender(done \cup {y \in S : y < x}, x))}

\* Where applying S in order, then x, then y (if any) stops for a nonce.
Refused(done, S, x, y) ==
  LET inS == NonceErrors(done, S)
      inX == NonceErrors(done \cup S, {x})
      inY == IF y = 0 THEN {} ELSE NonceErrors(done \cup S \cup {x}, {y})
  IN  IF inS # {} THEN {CHOOSE z \in inS : \A u \in inS : z <= u}
      ELSE IF inX # {} THEN inX ELSE inY

VictimFirst(w, a, v) == SlicePrerequisites(records[w], v, a)
ProfitFirst(w, a, p) == SlicePrerequisites(records[w], p, a)

\* The state after victim and attack have been swapped.
Swapped(w, a, v) == StateAt(a) \cup VictimFirst(w, a, v) \cup {v, a}

-----------------------------------------------------------------------------
(* collect: opening windows.                                               *)

\* Mutated form: the weight of a finished window is not given back.
EverOpened == {w \in Starts : phase[w] # "none"}

InSearch == {w \in Starts : phase[w] \in {"searching", "waiting"}}

\* The rest of an iteration: the session's records and the goroutine.
StartWindow ==
  /\ ~crashed
  /\ b < To
  /\ Cardinality(InSearch) < Parallel
  /\ \E missing \in SUBSET MayMiss :
       records' = [records EXCEPT ![b] =
         {x \in Txs : BlockOf[x] \in b .. b + Window - 1 /\ BlockOf[x] \notin missing}]
  /\ phase'   = [phase EXCEPT ![b] = "searching"]
  /\ pivotOf' = [pivotOf EXCEPT ![b] = pivot]
  /\ next'    = [next EXCEPT ![b] = After(records'[b], 0)]
  /\ b'       = b + Step
  /\ UNCHANGED <<expired, tasks, checkVars, gaps, crashed>>

\* Mutated form: the pivot moves to the start of the next window.
OpenWithLatePivot == StartWindow /\ pivot' = b + Step

\* The window over [b, b + Window) with the records of the blocks that could be
\* fetched; its goroutine starts and the pivot moves to the window's end.
OpenSearchWindow == StartWindow /\ pivot' = b + Window

-----------------------------------------------------------------------------
(* Search.                                                                 *)

\* allTxRecords[:len(allTxRecords)-1] panics without records.  The deferred calls
\* of the goroutine run as after a search, while all others go on.
SearchNothing(w) ==
  /\ ~crashed
  /\ phase[w] = "searching"
  /\ records[w] = {}
  /\ phase' = [phase EXCEPT ![w] = "panicking"]
  /\ expired' = expired \cup {w}
  /\ UNCHANGED <<b, pivot, records, pivotOf, next, tasks, checkVars, gaps, crashed>>

\* Nothing recovers the panic.
Crash(w) ==
  /\ ~crashed
  /\ phase[w] = "panicking"
  /\ crashed' = TRUE
  /\ UNCHANGED <<windowVars, next, expired, tasks, checkVars, gaps>>

\* The last record is no attack candidate.
IsLast(w, x) == After(records[w], x) = N + 1

\* ctx is done: Search returns at once, and its tasks go on.
SearchEarlyExit(w) ==
  /\ ~crashed
  /\ phase[w] = "searching"
  /\ records[w] # {} /\ ~IsLast(w, next[w])
  /\ w \in expired
  /\ phase' = [phase EXCEPT ![w] = "returned"]
  /\ UNCHANGED <<b, pivot, records, pivotOf, next, expired, tasks, checkVars, gaps, crashed>>

CandidateAttack(a) == Usable(a) /\ a \in Attackers

SkipAttack(w) ==
  /\ ~crashed
  /\ phase[w] = "searching"
  /\ records[w] # {} /\ ~IsLast(w, next[w])
  /\ w \notin expired
  /\ ~CandidateAttack(next[w])
  /\ next' = [next EXCEPT ![w] = After(records[w], @)]
  /\ UNCHANGED <<windowVars, expired, tasks, checkVars, gaps, crashed>>

\* pool.Submit waits for a worker, which runs searchVictimGivenAttack.
SubmitAttack(w) ==
  /\ ~crashed
  /\ phase[w] = "searching"
  /\ records[w] # {} /\ ~IsLast(w, next[w])
  /\ w \notin expired
  /\ CandidateAttack(next[w])
  /\ Cardinality(tasks) < Workers
  /\ tasks' = tasks \cup {[win |-> w, attack |-> next[w],
                           victim |-> After(records[w], next[w]), profit |-> 0]}
  /\ next' = [next EXCEPT ![w] = After(records[w], @)]
  /\ UNCHANGED <<windowVars, expired, checkVars, gaps, crashed>>

EndLoop(w) ==
  /\ ~crashed
  /\ phase[w] = "searching"
  /\ records[w] # {} /\ IsLast(w, next[w])
  /\ phase' = [phase EXCEPT ![w] = "waiting"]
  /\ UNCHANGED <<b, pivot, records, pivotOf, next, expired, tasks, checkVars, gaps, crashed>>

TasksOf(w) == {t \in tasks : t.win = w}

\* wg.Wait returns, Search returns, the deferred cancel and Release run.
SearchReturn(w) ==
  /\ ~crashed
  /\ phase[w] = "waiting"
  /\ TasksOf(w) = {}
  /\ phase' = [phase EXCEPT ![w] = "returned"]
  /\ expired' = expired \cup {w}
  /\ UNCHANGED <<b, pivot, records, pivotOf, next, tasks, checkVars, gaps, crashed>>

\* The search timeout of the window passes.
Expire(w) ==
  /\ ~crashed
  /\ phase[w] \in {"searching", "waiting"}
  /\ w \in MayExpire \ expired
  /\ expired' = expired \cup {w}
  /\ UNCHANGED <<windowVars, next, tasks, checkVars, gaps, crashed>>

-----------------------------------------------------------------------------
(* searchVictimGivenAttack.                                                *)

\* Mutated form: the comparison with the pivot is strict.
StrictlyNew(w, x) == BlockOf[x] > pivotOf[w]

New(w, x) == BlockOf[x] >= pivotOf[w]

CheckOracle(k) ==
  /\ checked'  = checked \cup {k}
  /\ repeated' = repeated \cup (checked \cap {k})
  /\ reported' = reported \cup ({k} \cap Matching)

NextVictim(t) == [t EXCEPT !.victim = After(records[t.win], @), !.profit = 0]
FirstProfit(t) == [t EXCEPT !.profit = After(records[t.win], t.victim)]
NextProfit(t) == [t EXCEPT !.profit = After(records[t.win], @)]

Become(t, u) == tasks' = (tasks \ {t}) \cup {u}

\* The loop is over, or the context is done at the head of a loop.
EndTask(t) ==
  /\ ~crashed
  /\ \/ t.profit = 0 /\ t.victim = N + 1
     \/ t.win \in expired /\ (t.profit = 0 \/ t.profit <= N)
  /\ tasks' = tasks \ {t}
  /\ UNCHANGED <<windowVars, next, expired, checkVars, gaps, crashed>>

\* Mutated form: attack and victim may have one sender.
AnyVictim(a, v) == Usable(v) /\ <<a, v>> \in Dependent

CandidateVictim(a, v) ==
  /\ Usable(v)
  /\ <<a, v>> \in Dependent
  /\ SenderOf[a] # SenderOf[v]

AtVictim(t) == ~crashed /\ t.profit = 0 /\ t.victim <= N /\ t.win \notin expired

VictimErrors(t) ==
  Refused(StateAt(t.attack), VictimFirst(t.win, t.attack, t.victim), t.victim, t.attack)

\* A filter fails, or the record's goroutine has found an unverified contract.
SkipVictim(t) ==
  /\ AtVictim(t)
  /\ ~CandidateVictim(t.attack, t.victim) \/ t.victim \in Unverified
  /\ Become(t, NextVictim(t))
  /\ UNCHANGED <<windowVars, next, expired, checkVars, gaps, crashed>>

\* Re-execution of the prerequisites, the victim or the attack fails.
VictimFails(t) ==
  /\ AtVictim(t)
  /\ CandidateVictim(t.attack, t.victim)
  /\ \/ VictimErrors(t) # {}
     \/ (VictimFirst(t.win, t.attack, t.victim) \cup {t.victim, t.attack}) \cap Breaks # {}
  /\ gaps' = gaps \cup ({t.win} \X VictimErrors(t))
  /\ Become(t, NextVictim(t))
  /\ UNCHANGED <<windowVars, next, expired, checkVars, crashed>>

Swappable(t) ==
  /\ AtVictim(t)
  /\ CandidateVictim(t.attack, t.victim)
  /\ VictimErrors(t) = {}
  /\ (VictimFirst(t.win, t.attack, t.victim) \cup {t.victim, t.attack}) \cap Breaks = {}

Pair(t) == <<t.attack, t.victim, 0>>

\* The victim is before the pivot: only profit transactions can be new.
OldVictim(t) ==
  /\ Swappable(t)
  /\ ~New(t.win, t.victim)
  /\ Become(t, FirstProfit(t))
  /\ UNCHANGED <<windowVars, next, expired, checkVars, gaps, crashed>>

\* An attack without profit transaction ends the task.
CheckPair(t) ==
  /\ Swappable(t)
  /\ New(t.win, t.victim)
  /\ CheckOracle(Pair(t))
  /\ IF Pair(t) \in Matching THEN tasks' = tasks \ {t} ELSE Become(t, FirstProfit(t))
  /\ UNCHANGED <<windowVars, next, expired, gaps, crashed>>

AtProfit(t) == ~crashed /\ t.profit \in Txs /\ t.win \notin expired

CandidateProfit(w, a, v, p) ==
  /\ Usable(p)
  /\ New(w, p)
  /\ SenderOf[v] # SenderOf[p]
  /\ <<a, v, p>> \in Profitable

ProfitErrors(t) ==
  Refused(Swapped(t.win, t.attack, t.victim),
          ProfitFirst(t.win, t.attack, t.profit), t.profit, 0)

SkipProfit(t) ==
  /\ AtProfit(t)
  /\ ~CandidateProfit(t.win, t.attack, t.victim, t.profit)
  /\ Become(t, NextProfit(t))
  /\ UNCHANGED <<windowVars, next, expired, checkVars, gaps, crashed>>

ProfitFails(t) ==
  /\ AtProfit(t)
  /\ CandidateProfit(t.win, t.attack, t.victim, t.profit)
  /\ \/ ProfitErrors(t) # {}
     \/ (ProfitFirst(t.win, t.attack, t.profit) \cup {t.profit}) \cap Breaks # {}
  /\ gaps' = gaps \cup ({t.win} \X ProfitErrors(t))
  /\ Become(t, NextProfit(t))
  /\ UNCHANGED <<windowVars, next, expired, checkVars, crashed>>

CheckTriple(t) ==
  /\ AtProfit(t)
  /\ CandidateProfit(t.win, t.attack, t.victim, t.profit)
  /\ ProfitErrors(t) = {}
  /\ (ProfitFirst(t.win, t.attack, t.profit) \cup {t.profit}) \cap Breaks = {}
  /\ CheckOracle(<<t.attack, t.victim, t.profit>>)
  /\ Become(t, NextProfit(t))
  /\ UNCHANGED <<windowVars, next, expired, gaps, crashed>>

EndProfits(t) ==
  /\ ~crashed
  /\ t.profit = N + 1
  /\ Become(t, NextVictim(t))
  /\ UNCHANGED <<windowVars, next, expired, checkVars, gaps, crashed>>

-----------------------------------------------------------------------------

WindowStep(w) ==
  \/ SearchNothing(w)
  \/ Crash(w)
  \/ SearchEarlyExit(w)
  \/ SkipAttack(w)
  \/ SubmitAttack(w)
  \/ EndLoop(w)
  \/ SearchReturn(w)

TaskStep(t) ==
  \/ EndTask(t)
  \/ SkipVictim(t)
  \/ VictimFails(t)
  \/ OldVictim(t)
  \/ CheckPair(t)
  \/ SkipProfit(t)
  \/ ProfitFails(t)
  \/ CheckTriple(t)
  \/ EndProfits(t)

Next ==
  \/ OpenSearchWindow
  \/ \E w \in Starts : WindowStep(w) \/ Expire(w)
  \/ \E t \in tasks : TaskStep(t)

Spec == Init /\ [][Next]_vars

\* Goroutines that can run do; a search need not time out.
FairSpec ==
  /\ Spec
  /\ WF_vars(OpenSearchWindow)
  /\ \A w \in Starts : WF_vars(WindowStep(w))
  /\ WF_vars(\E t \in tasks : TaskStep(t))

-----------------------------------------------------------------------------
(* Safety.                                                                 *)

\* "this has been searched in previous slide" (lines 499 and 535): however
\* windows overlap, run in parallel, time out or miss blocks, no pair and no
\* triple is given to the oracle twice.
NoRepeatedCheck == repeated = {}

Covers(w, x) == BlockOf[x] \in w .. w + Window - 1

\* A search that cannot be cut short or miss a record.
Undisturbed(w) ==
  /\ w \notin MayExpire
  /\ records[w] = {x \in Txs : Covers(w, x)}

Finished ==
  /\ b >= To
  /\ \A w \in Starts : phase[w] = "returned"
  /\ tasks = {}

\* Up to x, nothing of these senders failed when it was fetched or run again.
Reexecutable(x, senders) ==
  \A y \in Errored \cup Breaks : y > x \/ SenderOf[y] \notin senders

\* The filters and re-executions of searchVictimGivenAttack succeed.
GoodPair(a, v) ==
  /\ a < v /\ CandidateAttack(a) /\ CandidateVictim(a, v)
  /\ v \notin Unverified
  /\ Reexecutable(v, {SenderOf[a], SenderOf[v]})

GoodTriple(a, v, p) ==
  /\ GoodPair(a, v) /\ v < p
  /\ Usable(p) /\ SenderOf[v] # SenderOf[p] /\ <<a, v, p>> \in Profitable
  /\ Reexecutable(p, {SenderOf[p]})

\* The search of a stopped in window w at a victim up to v.
FoundIn(w, a, v) ==
  \E u \in Txs : u <= v /\ Covers(w, u) /\ New(w, u) /\ <<a, u, 0>> \in reported

\* What collect guarantees: a pair, or a triple, whose transactions are at most
\* Window - Step blocks apart is checked, in the window in which its last
\* transaction is new, unless that window was disturbed or had already found an
\* attack of the same transaction.  No combination falls between two windows.
SearchIsComplete ==
  Finished =>
    \A a, v \in Txs, p \in 0 .. N :
      LET last == IF p = 0 THEN v ELSE p IN
      /\ IF p = 0 THEN GoodPair(a, v) ELSE GoodTriple(a, v, p)
      /\ From <= BlockOf[a]
      /\ \E w \in Starts : Covers(w, last)
      /\ BlockOf[last] + Step <= BlockOf[a] + Window
      => \E w \in Starts :
           /\ Covers(w, a) /\ Covers(w, last) /\ New(w, last)
           /\ \/ ~Undisturbed(w)
              \/ <<a, v, p>> \in checked
              \/ FoundIn(w, a, v)

\* Re-executing victim, attack and profit transaction in the swapped order,
\* each after its prerequisites, never trips over a nonce, unless a record of
\* that sender is missing from the window or has an error: SlicePrerequisites
\* and the two tests on senders leave no gap and apply nothing twice.
GapsExplained ==
  \A g \in gaps :
    \E y \in Txs :
      /\ SenderOf[y] = SenderOf[g[2]] /\ y < g[2]
      /\ Covers(g[1], y)
      /\ y \notin records[g[1]] \/ y \in Errored

-----------------------------------------------------------------------------
(* Liveness.                                                               *)

\* The main loop gets through its range and every search and every task comes
\* to an end, whatever the number of workers and parallel windows.
SearchEnds == <>(crashed \/ Finished)

=============================================================================
