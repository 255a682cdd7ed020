------------------------------ MODULE Collect ------------------------------
(***************************************************************************)
(* The life of the collect command: cmd/collect.go with PrefetchBlocks of   *)
(* dataset/searcher.go and the global package.  The main goroutine opens a  *)
(* window every Step blocks, as many at a time as windowSemaphore lets it.  *)
(* A goroutine per window searches it, releases the semaphore, forgets the  *)
(* first blocks, sleeps, and closes the window.  A prefetcher follows the   *)
(* main goroutine.  A signal is received twice, by a handler of collect     *)
(* and by one of global that cleans up and exits; the main goroutine cleans *)
(* up too when collect returns.                                             *)
(*                                                                          *)
(* The search of a window is one step here, AttackSearch has the whole of   *)
(* it; of the block cache, TxHistory's subject, only the heights are kept.  *)
(***************************************************************************)
EXTENDS Naturals, FiniteSets

CONSTANTS
  From, To, Window, Step,  \* arguments of collect
  Parallel,                \* weight of windowSemaphore
  PrefetchChoices,         \* numbers of blocks to prefetch the flag may give
  MaySignal                \* whether the user may interrupt

ASSUME SizesAssumption ==
  /\ From \in Nat \ {0} /\ To \in Nat /\ PrefetchChoices \subseteq Nat
  /\ Window \in Nat \ {0} /\ Step \in Nat \ {0} /\ Step <= Window
  /\ Parallel \in Nat \ {0} /\ MaySignal \in BOOLEAN

Windows == {w \in From .. To : w < To /\ (w - From) % Step = 0}
Blocks(w) == w .. w + Window - 1

\* Who runs Cleanup: pool.Release, chainReader.Close and ctxCancel, in this order.
Cleaners == {"main", "handler"}
Tasks == 3

VARIABLES
  prefetch,     \* --prefetch
  b,            \* loop variable of collect
  main,         \* where the main goroutine is
  loaded,       \* blocks AcquireBlocks has gone through for the new window
  permits,      \* what is left of windowSemaphore
  phase,        \* window -> how far its goroutine is
  cached,       \* heights in blockRecords
  latest,       \* latestBlock, 0 if not yet set
  prefetched,   \* prefetchedBlock
  fetching,     \* <<from, blocks done>> of the running prefetch, or << >>
  signalled,    \* the signal has been sent
  interrupted,  \* the handler of collect has got it
  ctxDone,      \* global.Ctx() is done
  cleaned,      \* cleaner -> tasks it has run
  exited        \* the process is gone

mainVars == <<b, main, loaded>>
prefetchVars == <<prefetch, prefetched, fetching>>
signalVars == <<signalled, interrupted, ctxDone, cleaned>>
vars == <<prefetch, b, main, loaded, permits, phase, cached, latest, prefetched, fetching,
          signalled, interrupted, ctxDone, cleaned, exited>>

TypeOK ==
  /\ b \in {From} \cup (From .. To + Step)
  /\ main \in {"loop", "acquire", "open", "returned"}
  /\ loaded \in 0 .. Window
  /\ permits \in 0 .. Parallel
  /\ phase \in [Windows -> {"none", "searching", "released", "sleeping", "closed"}]
  /\ prefetch \in PrefetchChoices
  /\ cached \subseteq From .. To + Window + prefetch
  /\ latest \in Windows \cup {0}
  /\ prefetched \in 0 .. To + prefetch
  /\ fetching \in {<< >>} \cup (Windows \X (0 .. prefetch))
  /\ signalled \in BOOLEAN /\ interrupted \in BOOLEAN /\ ctxDone \in BOOLEAN
  /\ cleaned \in [Cleaners -> 0 .. Tasks]
  /\ exited \in BOOLEAN

Init ==
  /\ prefetch \in PrefetchChoices
  /\ b = From /\ main = "loop" /\ loaded = 0
  /\ permits = Parallel
  /\ phase = [w \in Windows |-> "none"]
  /\ cached = {}
  /\ latest = 0 /\ prefetched = 0 /\ fetching = << >>
  /\ signalled = FALSE /\ interrupted = FALSE /\ ctxDone = FALSE
  /\ cleaned = [c \in Cleaners |-> 0]
  /\ exited = FALSE

-----------------------------------------------------------------------------
(* The main goroutine.                                                     *)

EnterLoop ==
  /\ main = "loop" /\ b < To /\ ~ctxDone
  /\ main' = "acquire"
  /\ UNCHANGED <<b, loaded, permits, phase, cached, latest, prefetchVars, signalVars, exited>>

\* collect returns: at the end of the range, or because the context is done.
Return ==
  /\ \/ main = "loop" /\ (b >= To \/ ctxDone)
     \/ main = "acquire" /\ ctxDone
  /\ main' = "returned"
  /\ UNCHANGED <<b, loaded, permits, phase, cached, latest, prefetchVars, signalVars, exited>>

\* Mutated form: the semaphore is not counted down.
AcquireForFree ==
  /\ main = "acquire" /\ permits > 0
  /\ main' = "open" /\ loaded' = 0
  /\ UNCHANGED <<b, permits, phase, cached, latest, prefetchVars, signalVars, exited>>

\* Acquire succeeds with a done context too if there is a permit.
Acquire ==
  /\ main = "acquire" /\ permits > 0
  /\ permits' = permits - 1
  /\ main' = "open" /\ loaded' = 0
  /\ UNCHANGED <<b, phase, cached, latest, prefetchVars, signalVars, exited>>

\* OpenSearchWindow gets the blocks of the window one after the other ...
LoadBlock ==
  /\ main = "open" /\ loaded < Window
  /\ cached' = cached \cup {b + loaded}
  /\ loaded' = loaded + 1
  /\ UNCHANGED <<b, main, permits, phase, latest, prefetchVars, signalVars, exited>>

\* Mutated form: the loop goes on to the block after the step.
OpenPastStep ==
  /\ main = "open" /\ loaded = Window
  /\ latest' = b
  /\ phase' = [phase EXCEPT ![b] = "searching"]
  /\ b' = b + Step + 1
  /\ main' = "loop" /\ loaded' = 0
  /\ UNCHANGED <<permits, cached, prefetchVars, signalVars, exited>>

\* ... and the goroutine of the window starts.
OpenSearchWindow ==
  /\ main = "open" /\ loaded = Window
  /\ latest' = b
  /\ phase' = [phase EXCEPT ![b] = "searching"]
  /\ b' = b + Step
  /\ main' = "loop" /\ loaded' = 0
  /\ UNCHANGED <<permits, cached, prefetchVars, signalVars, exited>>

-----------------------------------------------------------------------------
(* The goroutine of a window.                                              *)

\* Mutated form: the semaphore is never released.
SearchWithoutRelease(w) ==
  /\ phase[w] = "searching"
  /\ phase' = [phase EXCEPT ![w] = "released"]
  /\ UNCHANGED <<mainVars, permits, cached, latest, prefetchVars, signalVars, exited>>

\* Search returns, finished or timed out, and the semaphore is released, which is
\* the last deferred and the first to run.
Search(w) ==
  /\ phase[w] = "searching"
  /\ permits' = permits + 1
  /\ phase' = [phase EXCEPT ![w] = "released"]
  /\ UNCHANGED <<mainVars, cached, latest, prefetchVars, signalVars, exited>>

ForgetBlockRange(first, last) == cached' = cached \ (first .. last)

Forget(w) ==
  /\ phase[w] = "released"
  /\ ForgetBlockRange(w, w + Step)
  /\ phase' = [phase EXCEPT ![w] = "sleeping"]
  /\ UNCHANGED <<mainVars, permits, latest, prefetchVars, signalVars, exited>>

\* Mutated form: Close forgets as few blocks as Forget.
CloseStepOnly(w) ==
  /\ phase[w] = "sleeping"
  /\ ForgetBlockRange(w, w + Step - 1)
  /\ phase' = [phase EXCEPT ![w] = "closed"]
  /\ UNCHANGED <<mainVars, permits, latest, prefetchVars, signalVars, exited>>

\* After the sleep.
Close(w) ==
  /\ phase[w] = "sleeping"
  /\ ForgetBlockRange(w, w + Window)
  /\ phase' = [phase EXCEPT ![w] = "closed"]
  /\ UNCHANGED <<mainVars, permits, latest, prefetchVars, signalVars, exited>>

-----------------------------------------------------------------------------
(* The prefetcher.                                                         *)

StartPrefetch ==
  /\ fetching = << >> /\ ~ctxDone
  /\ latest # 0 /\ latest + prefetch > prefetched
  /\ fetching' = <<latest, 0>>
  /\ UNCHANGED <<mainVars, permits, phase, cached, latest, prefetch, prefetched, signalVars, exited>>

PrefetchBlock ==
  /\ fetching # << >> /\ fetching[2] < prefetch
  /\ cached' = cached \cup {fetching[1] + fetching[2]}
  /\ fetching' = [fetching EXCEPT ![2] = @ + 1]
  /\ UNCHANGED <<mainVars, permits, phase, latest, prefetch, prefetched, signalVars, exited>>

EndPrefetch ==
  /\ fetching # << >> /\ fetching[2] = prefetch
  /\ prefetched' = fetching[1] + prefetch
  /\ fetching' = << >>
  /\ UNCHANGED <<prefetch, mainVars, permits, phase, cached, latest, signalVars, exited>>

-----------------------------------------------------------------------------
(* Signals and the end of the process.                                     *)

Signal ==
  /\ MaySignal /\ ~signalled
  /\ signalled' = TRUE
  /\ UNCHANGED <<mainVars, permits, phase, cached, latest, prefetchVars,
                 interrupted, ctxDone, cleaned, exited>>

\* The handler of collect: global.CtxCancel() returns the function that cancels
\* the context, and nobody calls it.
Interrupt ==
  /\ signalled /\ ~interrupted
  /\ interrupted' = TRUE
  /\ UNCHANGED <<mainVars, permits, phase, cached, latest, prefetchVars,
                 signalled, ctxDone, cleaned, exited>>

MayClean(c) == IF c = "main" THEN main = "returned" ELSE signalled

CleanupTask(c) ==
  /\ MayClean(c) /\ cleaned[c] < Tasks
  /\ cleaned' = [cleaned EXCEPT ![c] = @ + 1]
  /\ ctxDone' = (ctxDone \/ cleaned'[c] = Tasks)
  /\ UNCHANGED <<mainVars, permits, phase, cached, latest, prefetchVars,
                 signalled, interrupted, exited>>

Exit ==
  /\ \E c \in Cleaners : cleaned[c] = Tasks
  /\ exited' = TRUE
  /\ UNCHANGED <<mainVars, permits, phase, cached, latest, prefetchVars, signalVars>>

-----------------------------------------------------------------------------

MainStep == EnterLoop \/ Return \/ Acquire \/ LoadBlock \/ OpenSearchWindow
WindowStep(w) == Search(w) \/ Forget(w) \/ Close(w)
PrefetchStep == StartPrefetch \/ PrefetchBlock \/ EndPrefetch

Next ==
  /\ ~exited
  /\ \/ MainStep
     \/ \E w \in Windows : WindowStep(w)
     \/ PrefetchStep
     \/ Signal \/ Interrupt
     \/ \E c \in Cleaners : CleanupTask(c)
     \/ Exit

Spec == Init /\ [][Next]_vars

\* Go runs every goroutine that can run; searches end, at the latest by timeout.
Fairness ==
  /\ WF_vars(~exited /\ MainStep)
  /\ \A w \in Windows : WF_vars(~exited /\ WindowStep(w))
  /\ WF_vars(~exited /\ PrefetchStep)
  /\ \A c \in Cleaners : WF_vars(~exited /\ CleanupTask(c))
  /\ WF_vars(~exited /\ Exit)

FairSpec == Spec /\ Fairness

-----------------------------------------------------------------------------
(* Properties.                                                             *)

\* --window-parallel is the number of windows "to search in parallel": never are
\* more searched at a time.
Searching == {w \in Windows : phase[w] = "searching"}
AtMostParallel == Cardinality(Searching) <= Parallel

\* The windows whose blocks the cache may hold: open, or being opened.
InUse == {w \in Windows : \/ phase[w] \notin {"none", "closed"}
                          \/ main = "open" /\ w = b}

\* Without prefetching, what windows have loaded is forgotten when the last that
\* contains it is closed, although each forgets blocks of others that load them
\* again.  (A prefetcher that is late brings back blocks of windows long closed.)
NothingKept == prefetch = 0 => cached \subseteq UNION {Blocks(w) : w \in InUse}

\* Whenever collect has gone through its range, the windows it has opened overlap so
\* far that any two blocks at most Window - Step apart are in one of them.
PairsCovered ==
  main = "returned" /\ ~ctxDone =>
    \A x \in From .. To : \A y \in x .. x + Window - Step :
      x < To => \E w \in Windows : phase[w] # "none" /\ {x, y} \subseteq Blocks(w)

\* The command ends, by itself or by a signal.
ProcessExits == <>exited

-----------------------------------------------------------------------------
(* Why they hold.                                                          *)

\* The loop goes from window to window and has opened none from b on.
LoopInv ==
  /\ (b - From) % Step = 0
  /\ main \in {"acquire", "open"} => b < To
  /\ main = "returned" => b >= To \/ ctxDone
  /\ \A w \in Windows : w >= b => phase[w] = "none"

\* Every permit that is taken is held by a search or by the window being opened.
PermitsInv ==
  permits + Cardinality(Searching) + (IF main = "open" THEN 1 ELSE 0) = Parallel

\* Behind b, every block is one of the first Step of a window that was opened.
PassedInv ==
  \A x \in From .. To :
    x < b /\ x < To => \E w \in Windows : phase[w] # "none" /\ x \in w .. w + Step - 1

CollectInv == TypeOK /\ LoopInv /\ PermitsInv /\ NothingKept /\ PassedInv
=============================================================================
