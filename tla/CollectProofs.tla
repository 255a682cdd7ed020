--------------------------- MODULE CollectProofs ---------------------------
(***************************************************************************)
(* Proofs about Collect: for every range, window, step and weight of the    *)
(* semaphore, with or without a prefetcher and a signal, no more windows    *)
(* are searched than there are permits, the cache keeps nothing of windows  *)
(* that are closed, and the windows overlap as far as they should.          *)
(*                                                                          *)
(* CollectInv, the conjunction that is inductive, says where the loop may   *)
(* be, who holds each permit and what the windows behind b cover.           *)
(***************************************************************************)
EXTENDS Collect, Integers, FiniteSetTheorems, TLAPS

-----------------------------------------------------------------------------
(* Multiples of the step.                                                  *)

\* A number has one remainder.
LEMMA NoRemainder ==
  ASSUME NEW s \in Nat \ {0}, NEW q \in Int, NEW p \in Int, NEW r \in 0 .. s - 1,
         s * q = s * p + r
  PROVE  r = 0
<1>1. s * (q - p) = r
  OBVIOUS
<1>2. CASE q - p >= 1
  <2>1. s * (q - p) >= s
    BY <1>2
  <2> QED
    BY <1>1, <2>1
<1>3. CASE q - p <= -1
  <2>1. s * (q - p) <= -s
    BY <1>3
  <2> QED
    BY <1>1, <2>1
<1>4. CASE q - p = 0
  BY <1>1, <1>4
<1> QED
  BY <1>2, <1>3, <1>4

LEMMA DivMod ==
  ASSUME NEW s \in Nat \ {0}, NEW x \in Nat
  PROVE  /\ x = s * (x \div s) + (x % s)
         /\ x % s \in 0 .. s - 1
         /\ x \div s \in Nat
OBVIOUS

LEMMA NextMultiple ==
  ASSUME NEW s \in Nat \ {0}, NEW x \in Nat, x % s = 0
  PROVE  (x + s) % s = 0
<1> DEFINE p == x \div s
           q == (x + s) \div s
           r == (x + s) % s
<1>1. /\ x = s * p
      /\ p \in Nat
  BY DivMod
<1>2. /\ x + s = s * q + r
      /\ r \in 0 .. s - 1
      /\ q \in Nat
  <2>1. x + s \in Nat
    OBVIOUS
  <2> QED
    BY <2>1, DivMod
<1> HIDE DEF p, q, r
<1>3. s * (p + 1) = s * q + r
  BY <1>1, <1>2
<1>4. p + 1 \in Int /\ q \in Int
  BY <1>1, <1>2
<1>5. r = 0
  BY <1>2, <1>3, <1>4, NoRemainder
<1> QED
  BY <1>5 DEF r

-----------------------------------------------------------------------------
(* Sizes and windows.                                                      *)

LEMMA Sizes ==
  /\ From \in Nat \ {0} /\ To \in Nat /\ PrefetchChoices \subseteq Nat
  /\ Window \in Nat \ {0} /\ Step \in Nat \ {0} /\ Step <= Window
  /\ Parallel \in Nat \ {0} /\ MaySignal \in BOOLEAN
BY SizesAssumption

LEMMA WindowTyped ==
  ASSUME NEW w \in Windows
  PROVE  w \in Nat \ {0} /\ From <= w /\ w < To
BY Sizes DEF Windows

LEMMA WindowsFinite == IsFiniteSet(Windows)
<1>1. IsFiniteSet(From .. To)
  BY Sizes, FS_Interval
<1>2. Windows \subseteq From .. To
  BY DEF Windows
<1> QED
  BY <1>1, <1>2, FS_Subset

LEMMA SearchingFinite ==
  /\ IsFiniteSet(Searching)
  /\ Cardinality(Searching) \in Nat
<1>1. Searching \subseteq Windows
  BY DEF Searching
<1>2. IsFiniteSet(Searching)
  BY <1>1, WindowsFinite, FS_Subset
<1> QED
  BY <1>2, FS_CardinalityType

\* The window that is being opened is one of the range.
LEMMA OpenedWindow ==
  ASSUME TypeOK, LoopInv, main \in {"acquire", "open"}
  PROVE  b \in Windows
BY Sizes DEF TypeOK, LoopInv, Windows

-----------------------------------------------------------------------------
(* One permit more or less.                                                *)

LEMMA OneMoreSearched ==
  ASSUME NEW w \in Windows, phase \in [Windows -> {"none", "searching", "released", "sleeping", "closed"}],
         phase[w] # "searching", phase' = [phase EXCEPT ![w] = "searching"]
  PROVE  Cardinality(Searching') = Cardinality(Searching) + 1
<1>1. Searching' = Searching \cup {w}
  BY DEF Searching
<1>2. w \notin Searching
  BY DEF Searching
<1> QED
  BY <1>1, <1>2, SearchingFinite, FS_AddElement

LEMMA OneLessSearched ==
  ASSUME NEW w \in Windows, phase \in [Windows -> {"none", "searching", "released", "sleeping", "closed"}],
         phase[w] = "searching", phase' = [phase EXCEPT ![w] = "released"]
  PROVE  /\ Cardinality(Searching') = Cardinality(Searching) - 1
         /\ Cardinality(Searching) >= 1
<1>1. Searching' = Searching \ {w}
  BY DEF Searching
<1>2. w \in Searching
  BY DEF Searching
<1>3. Cardinality(Searching') = Cardinality(Searching) - 1
  BY <1>1, <1>2, SearchingFinite, FS_RemoveElement
<1>4. IsFiniteSet(Searching') /\ Cardinality(Searching') \in Nat
  BY <1>1, SearchingFinite, FS_Subset, FS_CardinalityType
<1> QED
  BY <1>3, <1>4, SearchingFinite

LEMMA SameSearched ==
  ASSUME NEW w \in Windows, NEW new, phase \in [Windows -> {"none", "searching", "released", "sleeping", "closed"}],
         phase[w] # "searching", new # "searching", phase' = [phase EXCEPT ![w] = new]
  PROVE  Searching' = Searching
BY DEF Searching

-----------------------------------------------------------------------------
(* The invariant holds at first.                                           *)

LEMMA InitInv == Init => CollectInv
<1> SUFFICES ASSUME Init
             PROVE  CollectInv
  OBVIOUS
<1>1. TypeOK
  <2>1. cleaned \in [Cleaners -> 0 .. Tasks]
    BY DEF Init, Tasks
  <2>2. prefetch \in Nat /\ 0 \in 0 .. Window /\ Parallel \in 0 .. Parallel /\ 0 \in 0 .. To + prefetch
    BY Sizes DEF Init
  <2>3. phase \in [Windows -> {"none", "searching", "released", "sleeping", "closed"}]
    BY DEF Init
  <2> QED
    BY <2>1, <2>2, <2>3 DEF Init, TypeOK
<1>2. LoopInv
  <2>1. (From - From) % Step = 0
    BY Sizes
  <2> QED
    BY <2>1 DEF Init, LoopInv
<1>3. PermitsInv
  <2>1. Searching = {}
    BY DEF Init, Searching
  <2> QED
    BY <2>1, Sizes, FS_EmptySet DEF Init, PermitsInv
<1>4. NothingKept
  BY DEF Init, NothingKept
<1>5. PassedInv
  BY Sizes DEF Init, PassedInv
<1> QED
  BY <1>1, <1>2, <1>3, <1>4, <1>5 DEF CollectInv

-----------------------------------------------------------------------------
(* What the actions of a window and of the main goroutine do to it.        *)

\* As long as b and the main goroutine stay, and no window becomes unopened or opens.
LEMMA LoopStays ==
  ASSUME LoopInv, TypeOK, UNCHANGED mainVars, ctxDone => ctxDone', \A w \in Windows : phase[w] = "none" => phase'[w] = "none"
  PROVE  LoopInv'
BY Sizes DEF LoopInv, TypeOK, mainVars

LEMMA PassedStays ==
  ASSUME PassedInv, b' = b, \A w \in Windows : phase[w] # "none" => phase'[w] # "none"
  PROVE  PassedInv'
BY DEF PassedInv

LEMMA PermitsStay ==
  ASSUME PermitsInv, permits' = permits, Searching' = Searching, (main = "open") <=> (main' = "open")
  PROVE  PermitsInv'
BY DEF PermitsInv

\* What a window in use has loaded may stay as long as it is in use.
LEMMA KeptStays ==
  ASSUME NothingKept, prefetch' = prefetch, cached' \subseteq cached, InUse \subseteq InUse'
  PROVE  NothingKept'
BY DEF NothingKept

LEMMA EnterLoopInv ==
  ASSUME CollectInv, EnterLoop
  PROVE  CollectInv'
<1> USE DEF EnterLoop, prefetchVars, signalVars
<1>1. TypeOK'
  BY DEF CollectInv, TypeOK
<1>2. LoopInv'
  BY DEF CollectInv, LoopInv
<1>3. PermitsInv'
  BY PermitsStay DEF CollectInv, Searching
<1>4. NothingKept'
  BY KeptStays DEF CollectInv, InUse
<1>5. PassedInv'
  BY PassedStays DEF CollectInv
<1> QED
  BY <1>1, <1>2, <1>3, <1>4, <1>5 DEF CollectInv

LEMMA ReturnInv ==
  ASSUME CollectInv, Return
  PROVE  CollectInv'
<1> USE DEF Return, prefetchVars, signalVars
<1>1. TypeOK'
  BY DEF CollectInv, TypeOK
<1>2. LoopInv'
  BY DEF CollectInv, LoopInv
<1>3. PermitsInv'
  BY PermitsStay DEF CollectInv, Searching
<1>4. NothingKept'
  BY KeptStays DEF CollectInv, InUse
<1>5. PassedInv'
  BY PassedStays DEF CollectInv
<1> QED
  BY <1>1, <1>2, <1>3, <1>4, <1>5 DEF CollectInv

LEMMA AcquireInv ==
  ASSUME CollectInv, Acquire
  PROVE  CollectInv'
<1> USE DEF Acquire, prefetchVars, signalVars
<1>1. TypeOK'
  BY Sizes DEF CollectInv, TypeOK
<1>2. LoopInv'
  BY DEF CollectInv, LoopInv
<1>3. PermitsInv'
  <2>1. Searching' = Searching
    BY DEF Searching
  <2> QED
    BY <2>1, Sizes, SearchingFinite DEF CollectInv, PermitsInv, TypeOK
<1>4. NothingKept'
  BY KeptStays DEF CollectInv, InUse
<1>5. PassedInv'
  BY PassedStays DEF CollectInv
<1> QED
  BY <1>1, <1>2, <1>3, <1>4, <1>5 DEF CollectInv

LEMMA LoadBlockInv ==
  ASSUME CollectInv, LoadBlock
  PROVE  CollectInv'
<1> USE DEF LoadBlock, prefetchVars, signalVars
<1>1. /\ b \in Windows
      /\ loaded \in 0 .. Window - 1
      /\ b + loaded \in Blocks(b)
  <2>1. b \in Windows
    BY OpenedWindow DEF CollectInv
  <2>2. loaded \in 0 .. Window - 1
    BY Sizes DEF CollectInv, TypeOK
  <2> QED
    BY <2>1, <2>2, WindowTyped, Sizes DEF Blocks
<1>2. TypeOK'
  <2>1. b + loaded \in From .. To + Window + prefetch
    BY <1>1, WindowTyped, Sizes DEF CollectInv, TypeOK
  <2> QED
    BY <1>1, <2>1, Sizes DEF CollectInv, TypeOK
<1>3. LoopInv'
  BY DEF CollectInv, LoopInv
<1>4. PermitsInv'
  BY PermitsStay DEF CollectInv, Searching
<1>5. NothingKept'
  <2>1. b \in InUse
    BY <1>1 DEF InUse
  <2>2. InUse' = InUse
    BY DEF InUse
  <2> QED
    BY <1>1, <2>1, <2>2 DEF CollectInv, NothingKept
<1>6. PassedInv'
  BY PassedStays DEF CollectInv
<1> QED
  BY <1>2, <1>3, <1>4, <1>5, <1>6 DEF CollectInv

LEMMA OpenSearchWindowInv ==
  ASSUME CollectInv, OpenSearchWindow
  PROVE  CollectInv'
<1> USE DEF OpenSearchWindow, prefetchVars, signalVars
<1>1. b \in Windows /\ phase[b] = "none" /\ b \in Nat /\ From <= b /\ b < To
  <2>1. b \in Windows
    BY OpenedWindow DEF CollectInv
  <2> QED
    BY <2>1, WindowTyped, Sizes DEF CollectInv, LoopInv
<1>2. TypeOK'
  BY <1>1, Sizes DEF CollectInv, TypeOK
<1>3. LoopInv'
  <2>1. (b' - From) % Step = 0
    <3>1. b - From \in Nat /\ (b - From) % Step = 0
      BY <1>1, Sizes DEF CollectInv, LoopInv
    <3>2. (b - From + Step) % Step = 0
      BY <3>1, Sizes, NextMultiple
    <3>3. b' - From = b - From + Step
      BY <1>1, Sizes
    <3> QED
      BY <3>2, <3>3
  <2>2. ASSUME NEW w \in Windows, w >= b'
        PROVE  phase'[w] = "none"
    <3>1. w >= b /\ w # b
      BY <2>2, <1>1, WindowTyped, Sizes
    <3> QED
      BY <3>1, <1>1 DEF CollectInv, LoopInv, TypeOK
  <2> QED
    BY <2>1, <2>2 DEF LoopInv
<1>4. PermitsInv'
  <2>1. Cardinality(Searching') = Cardinality(Searching) + 1
    BY <1>1, OneMoreSearched DEF CollectInv, TypeOK
  <2> QED
    BY <2>1, Sizes, SearchingFinite DEF CollectInv, PermitsInv, TypeOK
<1>5. NothingKept'
  <2>1. InUse \subseteq InUse'
    BY <1>1 DEF InUse, CollectInv, TypeOK
  <2> QED
    BY <2>1, KeptStays DEF CollectInv
<1>6. PassedInv'
  <2> SUFFICES ASSUME NEW x \in From .. To, x < b', x < To
               PROVE  \E w \in Windows : phase'[w] # "none" /\ x \in w .. w + Step - 1
    BY DEF PassedInv
  <2>1. phase'[b] = "searching" /\ \A w \in Windows : phase[w] # "none" => phase'[w] # "none"
    BY <1>1 DEF CollectInv, TypeOK
  <2>2. CASE x < b
    BY <2>1, <2>2 DEF CollectInv, PassedInv
  <2>3. CASE x >= b
    <3>1. x \in b .. b + Step - 1
      BY <2>3, <1>1, Sizes
    <3> QED
      BY <3>1, <2>1, <1>1
  <2>4. x < b \/ x >= b
    BY <1>1, Sizes
  <2> QED
    BY <2>2, <2>3, <2>4
<1> QED
  BY <1>2, <1>3, <1>4, <1>5, <1>6 DEF CollectInv

LEMMA SearchInv ==
  ASSUME CollectInv, NEW w \in Windows, Search(w)
  PROVE  CollectInv'
<1> USE DEF Search, mainVars, prefetchVars, signalVars
<1>1. /\ Cardinality(Searching') = Cardinality(Searching) - 1
      /\ Cardinality(Searching) >= 1
  BY OneLessSearched DEF CollectInv, TypeOK
<1>2. permits + 1 \in 0 .. Parallel
  BY <1>1, Sizes, SearchingFinite DEF CollectInv, PermitsInv, TypeOK
<1>3. TypeOK'
  BY <1>2 DEF CollectInv, TypeOK
<1>4. LoopInv'
  BY LoopStays DEF CollectInv, TypeOK
<1>5. PermitsInv'
  BY <1>1, Sizes, SearchingFinite DEF CollectInv, PermitsInv, TypeOK
<1>6. NothingKept'
  <2>1. InUse \subseteq InUse'
    BY DEF InUse, CollectInv, TypeOK
  <2> QED
    BY <2>1, KeptStays DEF CollectInv
<1>7. PassedInv'
  BY PassedStays DEF CollectInv, TypeOK
<1> QED
  BY <1>3, <1>4, <1>5, <1>6, <1>7 DEF CollectInv

LEMMA ForgetInv ==
  ASSUME CollectInv, NEW w \in Windows, Forget(w)
  PROVE  CollectInv'
<1> USE DEF Forget, ForgetBlockRange, mainVars, prefetchVars, signalVars
<1>1. TypeOK'
  BY DEF CollectInv, TypeOK
<1>2. LoopInv'
  BY LoopStays DEF CollectInv, TypeOK
<1>3. PermitsInv'
  <2>1. Searching' = Searching
    BY SameSearched DEF CollectInv, TypeOK
  <2> QED
    BY <2>1, PermitsStay DEF CollectInv
<1>4. NothingKept'
  <2>1. InUse \subseteq InUse'
    BY DEF InUse, CollectInv, TypeOK
  <2> QED
    BY <2>1, KeptStays DEF CollectInv
<1>5. PassedInv'
  BY PassedStays DEF CollectInv, TypeOK
<1> QED
  BY <1>1, <1>2, <1>3, <1>4, <1>5 DEF CollectInv

\* The last to contain a block forgets it; while another does, it may stay.
LEMMA CloseInv ==
  ASSUME CollectInv, NEW w \in Windows, Close(w)
  PROVE  CollectInv'
<1> USE DEF Close, ForgetBlockRange, mainVars, prefetchVars, signalVars
<1>1. TypeOK'
  BY DEF CollectInv, TypeOK
<1>2. LoopInv'
  BY LoopStays DEF CollectInv, TypeOK
<1>3. PermitsInv'
  <2>1. Searching' = Searching
    BY SameSearched DEF CollectInv, TypeOK
  <2> QED
    BY <2>1, PermitsStay DEF CollectInv
<1>4. NothingKept'
  <2> SUFFICES ASSUME prefetch' = 0, NEW h \in cached'
               PROVE  \E v \in InUse' : h \in Blocks(v)
    BY DEF NothingKept
  <2>1. h \in cached /\ h \notin w .. w + Window
    OBVIOUS
  <2>2. PICK v \in InUse : h \in Blocks(v)
    BY <2>1 DEF CollectInv, NothingKept
  <2>3. v # w
    BY <2>1, <2>2, WindowTyped, Sizes DEF Blocks
  <2>4. v \in InUse'
    BY <2>2, <2>3 DEF InUse, CollectInv, TypeOK
  <2> QED
    BY <2>2, <2>4
<1>5. PassedInv'
  BY PassedStays DEF CollectInv, TypeOK
<1> QED
  BY <1>1, <1>2, <1>3, <1>4, <1>5 DEF CollectInv

-----------------------------------------------------------------------------
(* The prefetcher, signals and the end.                                    *)

LEMMA PrefetchInv ==
  ASSUME CollectInv, PrefetchStep
  PROVE  CollectInv'
<1> USE DEF StartPrefetch, PrefetchBlock, EndPrefetch, mainVars, prefetchVars, signalVars
<1>1. UNCHANGED <<prefetch, mainVars, permits, phase, latest, signalVars, exited>>
  BY DEF PrefetchStep
<1>2. TypeOK' /\ (prefetch = 0 => cached' = cached)
  <2>0. prefetch \in Nat
    BY Sizes DEF CollectInv, TypeOK
  <2>1. CASE StartPrefetch
    <3>1. latest \in Windows
      BY <2>1 DEF CollectInv, TypeOK
    <3> QED
      BY <2>0, <2>1, <3>1 DEF CollectInv, TypeOK
  <2>2. CASE PrefetchBlock
    <3>1. fetching \in Windows \X (0 .. prefetch)
      BY <2>2 DEF CollectInv, TypeOK
    <3>2. PICK w \in Windows, n \in 0 .. prefetch : fetching = <<w, n>>
      BY <3>1
    <3>3. fetching[1] = w /\ fetching[2] = n /\ n < prefetch
      BY <2>2, <3>2
    <3>4. fetching' = <<w, n + 1>> /\ n + 1 \in 0 .. prefetch
      BY <2>0, <2>2, <3>2, <3>3
    <3>5. w + n \in From .. To + Window + prefetch
      BY <2>0, <3>3, WindowTyped, Sizes
    <3>6. cached' = cached \cup {w + n}
      BY <2>2, <3>3
    <3>7. fetching' \in {<< >>} \cup (Windows \X (0 .. prefetch))
      BY <3>4
    <3>8. cached' \subseteq From .. To + Window + prefetch'
      BY <1>1, <3>5, <3>6 DEF CollectInv, TypeOK
    <3>9. prefetch # 0
      BY <2>0, <3>3
    <3> QED
      BY <1>1, <2>2, <3>7, <3>8, <3>9 DEF CollectInv, TypeOK
  <2>3. CASE EndPrefetch
    <3>1. fetching \in Windows \X (0 .. prefetch)
      BY <2>3 DEF CollectInv, TypeOK
    <3>2. fetching[1] \in Windows
      BY <3>1
    <3>3. fetching[1] + prefetch \in 0 .. To + prefetch
      BY <2>0, <3>2, WindowTyped, Sizes
    <3> QED
      BY <2>0, <2>3, <3>3 DEF CollectInv, TypeOK
  <2> QED
    BY <2>1, <2>2, <2>3 DEF PrefetchStep
<1>3. LoopInv'
  BY <1>1, LoopStays DEF CollectInv
<1>4. PermitsInv'
  BY <1>1, PermitsStay DEF CollectInv, Searching
<1>5. NothingKept'
  <2>1. InUse' = InUse
    BY <1>1 DEF InUse
  <2> QED
    BY <1>1, <1>2, <2>1 DEF CollectInv, NothingKept
<1>6. PassedInv'
  BY <1>1, PassedStays DEF CollectInv
<1> QED
  BY <1>2, <1>3, <1>4, <1>5, <1>6 DEF CollectInv

LEMMA CleanupInv ==
  ASSUME CollectInv,
         Signal \/ Interrupt \/ (\E c \in Cleaners : CleanupTask(c)) \/ Exit
  PROVE  CollectInv'
<1> USE DEF Signal, Interrupt, CleanupTask, Exit, mainVars, prefetchVars, signalVars
<1>1. UNCHANGED <<mainVars, permits, phase, cached, latest, prefetchVars>> /\ (ctxDone => ctxDone')
  <2>1. CASE Signal \/ Interrupt \/ Exit
    BY <2>1
  <2>2. ASSUME NEW c \in Cleaners, CleanupTask(c)
        PROVE  UNCHANGED <<mainVars, permits, phase, cached, latest, prefetchVars>> /\ (ctxDone => ctxDone')
    BY <2>2
  <2> QED
    BY <2>1, <2>2
<1>2. TypeOK'
  <2>1. CASE Signal \/ Interrupt \/ Exit
    BY <2>1 DEF CollectInv, TypeOK
  <2>2. ASSUME NEW c \in Cleaners, CleanupTask(c)
        PROVE  TypeOK'
    <3>1. cleaned' \in [Cleaners -> 0 .. Tasks]
      BY <2>2 DEF CollectInv, TypeOK, Tasks
    <3>2. ctxDone' \in BOOLEAN
      BY <2>2
    <3> QED
      BY <2>2, <3>1, <3>2 DEF CollectInv, TypeOK
  <2> QED
    BY <2>1, <2>2
<1> HIDE DEF Signal, Interrupt, CleanupTask, Exit
<1>3. LoopInv'
  BY <1>1, LoopStays DEF CollectInv
<1>4. PermitsInv'
  BY <1>1, PermitsStay DEF CollectInv, Searching
<1>5. NothingKept'
  BY <1>1, KeptStays DEF CollectInv, InUse
<1>6. PassedInv'
  BY <1>1, PassedStays DEF CollectInv
<1> QED
  BY <1>2, <1>3, <1>4, <1>5, <1>6 DEF CollectInv

LEMMA StepInv == CollectInv /\ [Next]_vars => CollectInv'
<1> SUFFICES ASSUME CollectInv, [Next]_vars
             PROVE  CollectInv'
  OBVIOUS
<1>1. CASE MainStep
  BY <1>1, EnterLoopInv, ReturnInv, AcquireInv, LoadBlockInv, OpenSearchWindowInv DEF MainStep
<1>2. ASSUME NEW w \in Windows, WindowStep(w)
      PROVE  CollectInv'
  BY <1>2, SearchInv, ForgetInv, CloseInv DEF WindowStep
<1>3. CASE PrefetchStep
  BY <1>3, PrefetchInv
<1>4. CASE Signal \/ Interrupt \/ (\E c \in Cleaners : CleanupTask(c)) \/ Exit
  BY <1>4, CleanupInv
<1>5. CASE UNCHANGED vars
  BY <1>5 DEF CollectInv, TypeOK, LoopInv, PermitsInv, NothingKept, PassedInv, Searching, InUse, vars
<1> QED
  BY <1>1, <1>2, <1>3, <1>4, <1>5 DEF Next

LEMMA Inductive == Spec => []CollectInv
BY InitInv, StepInv, PTL DEF Spec

\* Every variable has its type in every state: the loop variable stays within one
\* Step of the range, the semaphore between 0 and its weight, and no cleanup runs
\* more tasks than were registered.
THEOREM TypeCorrect == Spec => []TypeOK
<1>1. CollectInv => TypeOK
  BY DEF CollectInv
<1> QED
  BY <1>1, Inductive, PTL

-----------------------------------------------------------------------------
(* What follows.                                                           *)

\* Never are more windows searched at a time than windowSemaphore has permits,
\* whoever takes and releases them.
THEOREM AtMostParallelHolds == Spec => []AtMostParallel
<1>1. CollectInv => AtMostParallel
  BY Sizes, SearchingFinite DEF CollectInv, PermitsInv, TypeOK, AtMostParallel
<1> QED
  BY <1>1, Inductive, PTL

\* Without prefetching, the cache holds blocks of windows only that are open or
\* being opened, in whatever order they load, forget and close.
THEOREM NothingKeptHolds == Spec => []NothingKept
<1>1. CollectInv => NothingKept
  BY DEF CollectInv
<1> QED
  BY <1>1, Inductive, PTL

\* Two blocks at most Window - Step apart are in one of the windows opened when the
\* range is done.
THEOREM PairsCoveredHolds == Spec => []PairsCovered
<1>1. ASSUME CollectInv
      PROVE  PairsCovered
  <2> SUFFICES ASSUME main = "returned", ~ctxDone,
                      NEW x \in From .. To, NEW y \in x .. x + Window - Step, x < To
               PROVE  \E w \in Windows : phase[w] # "none" /\ {x, y} \subseteq Blocks(w)
    BY DEF PairsCovered
  <2>1. x < b
    BY <1>1, Sizes DEF CollectInv, LoopInv, TypeOK
  <2>2. PICK w \in Windows : phase[w] # "none" /\ x \in w .. w + Step - 1
    BY <1>1, <2>1 DEF CollectInv, PassedInv
  <2>3. x \in Blocks(w) /\ y \in Blocks(w)
    BY <2>2, WindowTyped, Sizes DEF Blocks
  <2> QED
    BY <2>2, <2>3
<1> QED
  BY <1>1, Inductive, PTL

\* What the main loop waits for at windowSemaphore.Acquire will come: when no permit
\* is left, a window is being searched, and its goroutine releases one.
PermitWillCome == main = "acquire" /\ permits = 0 => \E w \in Windows : phase[w] = "searching"

\* The main loop never waits for a permit that nobody holds.
THEOREM PermitWillComeHolds == Spec => []PermitWillCome
<1>1. CollectInv => PermitWillCome
  <2> SUFFICES ASSUME CollectInv, main = "acquire", permits = 0
               PROVE  Searching # {}
    BY DEF PermitWillCome, Searching
  <2>1. 0 + Cardinality(Searching) + 0 = Parallel
    BY DEF CollectInv, PermitsInv
  <2>2. Cardinality({}) = 0
    BY FS_EmptySet
  <2> QED
    BY <2>1, <2>2, Sizes
<1> QED
  BY <1>1, Inductive, PTL
=============================================================================
