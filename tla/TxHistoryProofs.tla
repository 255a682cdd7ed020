--------------------------- MODULE TxHistoryProofs ---------------------------
(***************************************************************************)
(* IInv of TxHistory is an inductive invariant of the block cache, and its  *)
(* safety properties follow.  After facts about the loop of AcquireBlocks   *)
(* there is, for every action, one lemma that it preserves IInv, with a     *)
(* step per conjunct; the conjuncts an action really works for have lemmas  *)
(* of their own before it.  The theorems are at the end.                    *)
(***************************************************************************)
EXTENDS TxHistory, FiniteSetTheorems, TLAPS

-----------------------------------------------------------------------------
(* The loop.                                                               *)

\* The slots of a call are indices, and the loop variable is a number.
LEMMA SlotRange ==
  ASSUME NEW c \in Callers, TypeOK
  PROVE  /\ request[c].size \in Nat /\ index[c] \in Nat
         /\ 1 .. request[c].size \subseteq Indices
<1>1. request[c].size \in 0 .. MaxSize /\ index[c] \in Nat /\ MaxSize \in Nat
  BY RequestsAssumption DEF TypeOK
<1>2. QED BY <1>1 DEF Indices

\* What the end of an iteration does to the program counter and the loop
\* variable of its caller, and of nobody else.
LEMMA AdvanceFacts ==
  ASSUME NEW c \in Callers, TypeOK, CallOK(c), InLoop(c), Advance(c)
  PROVE  /\ \A d \in Callers : d # c => pc'[d] = pc[d] /\ index'[d] = index[d]
         /\ \/ index[c] < request[c].size /\ pc'[c] = "load" /\ index'[c] = index[c] + 1
            \/ index[c] = request[c].size /\ pc'[c] = "wait" /\ index'[c] = index[c]
         /\ index[c] \in 1 .. request[c].size
         /\ request[c].size \in Nat /\ index[c] \in Nat
<1>1. request[c].size \in Nat /\ index[c] \in Nat /\ index[c] \in 1 .. request[c].size
  BY SlotRange DEF CallOK
<1>2. CASE index[c] < request[c].size
  <2>1. index' = [index EXCEPT ![c] = index[c] + 1] /\ pc' = [pc EXCEPT ![c] = "load"]
    BY <1>2 DEF Advance
  <2>2. QED BY <1>1, <1>2, <2>1 DEF TypeOK
<1>3. CASE ~(index[c] < request[c].size)
  <2>1. index' = index /\ pc' = [pc EXCEPT ![c] = "wait"]
    BY <1>3 DEF Advance
  <2>2. index[c] = request[c].size
    BY <1>1, <1>3
  <2>3. pc'[c] = "wait" /\ \A d \in Callers : d # c => pc'[d] = pc[d]
    BY <2>1 DEF TypeOK
  <2>4. QED BY <1>1, <2>1, <2>2, <2>3
<1>4. QED BY <1>2, <1>3

\* Advancing a caller never un-visits a slot.
LEMMA VisitedKept ==
  ASSUME NEW c \in Callers, TypeOK, CallOK(c), InLoop(c), Advance(c), UNCHANGED request,
         NEW d \in Callers, NEW i \in Nat, Visited(d, i)
  PROVE  Visited(d, i)'
BY AdvanceFacts DEF Visited, InLoop

\* An action that only advances a caller keeps every call well formed.
LEMMA AdvanceKeepsCalls ==
  ASSUME NEW c \in Callers, TypeOK, \A d \in Callers : CallOK(d), InLoop(c), Advance(c),
         UNCHANGED <<request, pool, br, wg, number>>
  PROVE  \A d \in Callers : CallOK(d)'
<1> SUFFICES ASSUME NEW d \in Callers PROVE CallOK(d)'
  OBVIOUS
<1>1. CallOK(d) /\ CallOK(c)
  OBVIOUS
<1>2. CASE d # c
  BY <1>1, <1>2, AdvanceFacts DEF CallOK, InLoop, HasRecord, NumberAt
<1>3. CASE d = c
  BY <1>1, <1>3, AdvanceFacts DEF CallOK, InLoop, HasRecord, NumberAt
<1>4. QED BY <1>2, <1>3

\* Advancing a caller keeps a closure well formed whose record it leaves alone.
LEMMA AdvanceKeepsTasks ==
  ASSUME NEW c \in Callers, TypeOK, CallOK(c), InLoop(c), Advance(c),
         UNCHANGED <<request, wg, number>>,
         NEW t \in tasks, TaskOK(t),
         mu'[t.record] = mu[t.record], loaded'[t.record] = loaded[t.record]
  PROVE  TaskOK(t)'
<1>1. t.caller \in Callers /\ t.index \in Nat
  BY DEF TypeOK, Task, Indices
<1>2. t.stage = "computing" => Visited(t.caller, t.index)'
  BY <1>1, VisitedKept DEF TaskOK
<1>3. t.stage = "computing" => pc'[t.caller] # "open" /\ pc'[t.caller] # "closing"
  BY <1>1, AdvanceFacts DEF TaskOK
<1>4. QED BY <1>2, <1>3 DEF TaskOK, Fresh, NumberAt

\* A caller that goes to its next iteration holds no mutex any more.
LEMMA AdvanceHolders ==
  ASSUME NEW c \in Callers, TypeOK, CallOK(c), InLoop(c), Advance(c)
  PROVE  \A d \in Callers : Holding(d)' <=> Holding(d) /\ d # c
BY AdvanceFacts DEF Holding, InLoop

\* The end of an iteration keeps the types.
LEMMA AdvanceType == ASSUME NEW c \in Callers, TypeOK, CallOK(c), InLoop(c), Advance(c)
  PROVE pc' \in [Callers -> Points] /\ index' \in [Callers -> Nat]
<1>1. CASE index[c] < request[c].size
  <2>1. index' = [index EXCEPT ![c] = index[c] + 1] /\ pc' = [pc EXCEPT ![c] = "load"]
    BY <1>1 DEF Advance
  <2>2. QED BY <2>1 DEF TypeOK, Points
<1>2. CASE ~(index[c] < request[c].size)
  <2>1. index' = index /\ pc' = [pc EXCEPT ![c] = "wait"]
    BY <1>2 DEF Advance
  <2>2. QED BY <2>1 DEF TypeOK, Points
<1>3. QED BY <1>1, <1>2

\* Advancing a caller visits no slot but the one the loop was at.
LEMMA VisitedNew ==
  ASSUME NEW c \in Callers, TypeOK, CallOK(c), InLoop(c), Advance(c), UNCHANGED request,
         NEW d \in Callers, NEW i \in 1 .. request[d].size, Visited(d, i)'
  PROVE  Visited(d, i) \/ (d = c /\ i = index[c])
<1>1. CASE d # c
  <2>1. pc'[d] = pc[d] /\ index'[d] = index[d]
    BY <1>1, AdvanceFacts
  <2>2. QED BY <2>1 DEF Visited, InLoop
<1>2. CASE d = c
  <2>1. request[c].size \in Nat /\ index[c] \in Nat /\ i \in 1 .. request[c].size
    BY <1>2, SlotRange
  <2>2. CASE pc'[c] = "load" /\ index'[c] = index[c] + 1
    <3>1. i < index[c] + 1
      BY <1>2, <2>2 DEF Visited, InLoop
    <3>2. i < index[c] \/ i = index[c]
      BY <2>1, <3>1
    <3>3. QED BY <1>2, <3>2 DEF Visited
  <2>3. CASE index[c] = request[c].size
    <3>1. i < index[c] \/ i = index[c]
      BY <2>1, <2>3
    <3>2. QED BY <1>2, <3>1 DEF Visited
  <2>4. QED BY <2>2, <2>3, AdvanceFacts
<1>3. QED BY <1>1, <1>2

\* An action that only advances a caller, past a slot a closure has to fill,
\* keeps every call's slots.
LEMMA AdvanceKeepsSlots ==
  ASSUME NEW c \in Callers, TypeOK, CallOK(c), InLoop(c), Advance(c), index[c] \in wg[c],
         \A d \in Callers : SlotsOK(d), UNCHANGED <<request, slot, loaded, number, wg>>
  PROVE  \A d \in Callers : SlotsOK(d)'
<1> SUFFICES ASSUME NEW d \in Callers, NEW i \in 1 .. request[d].size, Visited(d, i)', i \notin wg[d]
             PROVE  /\ slot[d][i] \in Records
                    /\ loaded[slot[d][i]]
                    /\ number[slot[d][i]] = NumberAt(d, i)
  BY DEF SlotsOK, NumberAt
<1>1. Visited(d, i)
  BY VisitedNew
<1>2. QED BY <1>1 DEF SlotsOK

\* Publishing a block keeps the types.
LEMMA PublishType == ASSUME NEW r \in Records, NEW c \in Callers, NEW i \in Indices, TypeOK, Publish(r, c, i)
  PROVE /\ block' \in [Records -> [of : Nat \cup {NoBlock}, kind : {"unset", "list", "nil"}]]
        /\ loaded' \in [Records -> BOOLEAN]
        /\ slot' \in [Callers -> [Indices -> Records \cup {NoRecord}]]
<1>1. NumberAt(c, i) \in Nat
  BY RequestsAssumption DEF NumberAt, TypeOK, Indices
<1>2. QED BY <1>1 DEF Publish, computeTxRecords, TypeOK

\* If the same callers hold the same records and the closures are the same, a
\* locked record keeps its owner.
LEMMA OwnersKept ==
  ASSUME LockedByOwner, UNCHANGED <<mu, tasks, closed>>,
         \A d \in Callers : Holding(d) => Holding(d)' /\ br'[d] = br[d]
  PROVE  LockedByOwner'
BY DEF LockedByOwner, Owned

-----------------------------------------------------------------------------
(* Acquire(c, q, p).                                                       *)

\* Acquire preserves the part of IInv about types.
LEMMA AcquireType == ASSUME NEW c \in Callers, NEW q \in Requests, NEW p \in PoolsOf[c], TypeOK, Acquire(c, q, p) PROVE TypeOK'
<1> USE PoolsAssumption, RequestsAssumption
<1>1. q \in [from : Nat, size : 0 .. MaxSize] /\ p \in Pools \cup {NoPool}
  OBVIOUS
<1>2. QED BY <1>1 DEF Acquire, TypeOK, Points, recordVars

\* Acquire preserves the part of IInv about every locked record has an owner.
LEMMA AcquireOwner == ASSUME IInv, NEW c \in Callers, NEW q \in Requests, NEW p \in PoolsOf[c], Acquire(c, q, p) PROVE LockedByOwner'
<1>1. \A d \in Callers : Holding(d) => Holding(d)' /\ br'[d] = br[d]
  BY DEF Acquire, Holding, IInv, TypeOK
<1>2. QED BY <1>1, OwnersKept DEF Acquire, recordVars, IInv

\* What Acquire does to the state, conjunct by conjunct.
LEMMA AcquireFacts ==
  ASSUME IInv, NEW c \in Callers, NEW q \in Requests, NEW p \in PoolsOf[c], Acquire(c, q, p)
  PROVE  /\ request'[c] = q /\ q.size \in Nat
         /\ \A i \in 1 .. q.size : q.from + i - 1 \in BlockNumbers
         /\ index[c] = 1 /\ wg[c] = {}
         /\ pc'[c] = IF q.size = 0 THEN "wait" ELSE "load"
         /\ \A d \in Callers : d # c => pc'[d] = pc[d] /\ request'[d] = request[d] /\ pool'[d] = pool[d]
         /\ UNCHANGED <<number, loaded, index, br, slot, wg>>
<1>1. TypeOK /\ CallOK(c) /\ pc[c] = "idle"
  BY DEF IInv, Acquire
<1>2. q.size \in Nat /\ \A i \in 1 .. q.size : q.from + i - 1 \in BlockNumbers
  BY RequestsAssumption
<1>3. index[c] = 1 /\ wg[c] = {}
  BY <1>1 DEF CallOK
<1>4. request'[c] = q /\ \A d \in Callers : d # c => request'[d] = request[d]
  BY <1>1 DEF Acquire, TypeOK
<1>5. \A d \in Callers : d # c => pool'[d] = pool[d]
  BY <1>1 DEF Acquire, TypeOK
<1>6. /\ pc'[c] = IF q.size = 0 THEN "wait" ELSE "load"
      /\ \A d \in Callers : d # c => pc'[d] = pc[d]
  BY <1>1 DEF Acquire, TypeOK
<1>7. UNCHANGED <<number, loaded, index, br, slot, wg>>
  BY DEF Acquire, recordVars
<1>8. QED BY <1>2, <1>3, <1>4, <1>5, <1>6, <1>7

\* Acquire preserves the part of IInv about calls.
LEMMA AcquireCalls ==
  ASSUME IInv, NEW c \in Callers, NEW q \in Requests, NEW p \in PoolsOf[c], Acquire(c, q, p),
         NEW d \in Callers
  PROVE  CallOK(d)'
<1>1. CASE d # c
  <2>1. CallOK(d) /\ pc'[d] = pc[d] /\ request'[d] = request[d] /\ pool'[d] = pool[d]
    BY <1>1, AcquireFacts DEF IInv
  <2>2. QED BY <2>1, AcquireFacts DEF CallOK, InLoop, HasRecord, NumberAt
<1>2. CASE d = c
  <2>1. pc'[c] = "wait" \/ (pc'[c] = "load" /\ 1 \in 1 .. q.size)
    <3>1. q.size # 0 => 1 \in 1 .. q.size
      BY AcquireFacts
    <3>2. QED BY <3>1, AcquireFacts
  <2>2. QED BY <1>2, <2>1, AcquireFacts DEF CallOK, InLoop, HasRecord, NumberAt
<1>3. QED BY <1>1, <1>2

\* Acquire preserves the part of IInv about filled slots.
LEMMA AcquireSlots ==
  ASSUME IInv, NEW c \in Callers, NEW q \in Requests, NEW p \in PoolsOf[c], Acquire(c, q, p),
         NEW d \in Callers
  PROVE  SlotsOK(d)'
<1>1. CASE d # c
  <2>1. SlotsOK(d) /\ pc'[d] = pc[d] /\ request'[d] = request[d]
    BY <1>1, AcquireFacts DEF IInv
  <2>2. QED BY <2>1, AcquireFacts DEF SlotsOK, Visited, InLoop, NumberAt
<1>2. CASE d = c
  <2>1. \A i \in 1 .. q.size : ~Visited(c, i)'
    <3>1. CASE q.size = 0
      BY <3>1
    <3>2. CASE q.size # 0
      BY <3>2, AcquireFacts DEF Visited, InLoop
    <3>3. QED BY <3>1, <3>2
  <2>2. QED BY <1>2, <2>1, AcquireFacts DEF SlotsOK
<1>3. QED BY <1>1, <1>2

\* A new call starts with no slot pending and touches no record.
LEMMA AcquireStep == ASSUME IInv, NEW c \in Callers, NEW q \in Requests, NEW p \in PoolsOf[c], Acquire(c, q, p) PROVE IInv'
<1>1. TypeOK'
  BY AcquireType DEF IInv
<1>2. \A d \in Callers : CallOK(d)'
  BY AcquireCalls
<1>3. \A d \in Callers : SlotsOK(d)'
  BY AcquireSlots
<1>4. \A u \in tasks' : TaskOK(u)'
  BY DEF Acquire, recordVars, callVars, IInv,
     TypeOK, Task, TaskOK, Visited, InLoop, NumberAt, Fresh
<1>5. \A r \in Records : RecordOK(r)'
  BY DEF Acquire, recordVars, callVars, IInv,
     TypeOK, RecordOK, Fresh
<1>6. MapOK'
  BY DEF Acquire, recordVars, callVars, IInv,
     TypeOK, MapOK
<1>7. OneTaskPerSlot'
  BY DEF Acquire, recordVars, callVars, IInv,
     TypeOK, Task, OneTaskPerSlot
<1>8. SingleFlight'
  BY DEF Acquire, recordVars, callVars, IInv,
     TypeOK, SingleFlight, Holding
<1>9. LockedByOwner'
  BY AcquireOwner
<1>10. QED BY <1>1, <1>2, <1>3, <1>4, <1>5, <1>6, <1>7, <1>8, <1>9 DEF IInv

-----------------------------------------------------------------------------
(* LoadOrStore(c).                                                         *)

\* LoadOrStore with any fresh record in the place of the one chosen.
StoreAny(c) ==
  /\ pc[c] = "load"
  /\ LET n == NumberAt(c, index[c]) IN
       \/ /\ blocks[n] # NoRecord
          /\ br' = [br EXCEPT ![c] = blocks[n]]
          /\ UNCHANGED <<blocks, number>>
       \/ /\ blocks[n] = NoRecord
          /\ \E r \in Records :
               /\ Fresh(r)
               /\ blocks' = [blocks EXCEPT ![n] = r]
               /\ number' = [number EXCEPT ![r] = n]
               /\ br'     = [br EXCEPT ![c] = r]
  /\ pc' = [pc EXCEPT ![c] = "lock"]
  /\ UNCHANGED <<recordVars, request, pool, index, slot, wg, tasks, closed, forgets>>

\* Nothing depends on which fresh record is chosen.
LEMMA StoresAny == ASSUME NEW c \in Callers, LoadOrStore(c) PROVE StoreAny(c)
BY DEF LoadOrStore, StoreAny, New

\* LoadOrStore preserves the part of IInv about types.
LEMMA LoadOrStoreType == ASSUME NEW c \in Callers, TypeOK, CallOK(c), LoadOrStore(c) PROVE TypeOK'
<1>1. NumberAt(c, index[c]) \in BlockNumbers
  BY DEF LoadOrStore, CallOK, InLoop
<1> DEFINE n == NumberAt(c, index[c])
<1>2. /\ blocks' \in [BlockNumbers -> Records \cup {NoRecord}]
      /\ number' \in [Records -> BlockNumbers \cup {NoBlock}]
      /\ br'     \in [Callers -> Records \cup {NoRecord}]
  <2> HIDE DEF n
  <2>1. CASE blocks[n] # NoRecord
    <3>1. br' = [br EXCEPT ![c] = blocks[n]] /\ UNCHANGED <<blocks, number>>
      BY <2>1 DEF LoadOrStore, n
    <3>2. QED BY <1>1, <3>1 DEF TypeOK, n
  <2>2. CASE blocks[n] = NoRecord
    <3>1. PICK r \in Records :
            /\ blocks' = [blocks EXCEPT ![n] = r]
            /\ number' = [number EXCEPT ![r] = n]
            /\ br'     = [br EXCEPT ![c] = r]
      BY <2>2 DEF LoadOrStore, n
    <3>2. QED BY <1>1, <3>1 DEF TypeOK, n
  <2>3. QED BY <2>1, <2>2
<1>3. pc' \in [Callers -> Points]
  BY DEF LoadOrStore, TypeOK, Points
<1>4. QED BY <1>2, <1>3 DEF LoadOrStore, TypeOK, recordVars

\* LoadOrStore preserves the part of IInv about every locked record has an owner.
LEMMA LoadOrStoreOwner == ASSUME IInv, NEW c \in Callers, LoadOrStore(c) PROVE LockedByOwner'
<1>1. TypeOK /\ pc' = [pc EXCEPT ![c] = "lock"] /\ (\A d \in Callers : d # c => br'[d] = br[d])
  BY DEF LoadOrStore, IInv, TypeOK
<1>2. \A d \in Callers : Holding(d) => Holding(d)' /\ br'[d] = br[d]
  BY <1>1 DEF LoadOrStore, Holding, TypeOK
<1>3. QED BY <1>2, OwnersKept DEF LoadOrStore, recordVars, IInv

\* LoadOrStore preserves the part of IInv about records and the map.
LEMMA LoadOrStoreRecords == ASSUME IInv, NEW c \in Callers, LoadOrStore(c) PROVE \A r \in Records : RecordOK(r)'
<1> DEFINE n == NumberAt(c, index[c])
<1>1. TypeOK /\ n \in BlockNumbers /\ (\A r \in Records : RecordOK(r)) /\ UNCHANGED <<loaded, block, mu, forgets>>
  BY DEF LoadOrStore, IInv, CallOK, InLoop, recordVars
<1> HIDE DEF n
<1>2. CASE blocks[n] # NoRecord
  <2>1. UNCHANGED <<blocks, number>>
    BY <1>2 DEF LoadOrStore, n
  <2>2. QED BY <1>1, <2>1 DEF RecordOK, Fresh
<1>3. CASE blocks[n] = NoRecord
  <2>1. PICK r \in Records : /\ Fresh(r)
                             /\ blocks' = [blocks EXCEPT ![n] = r]
                             /\ number' = [number EXCEPT ![r] = n]
    BY <1>3 DEF LoadOrStore, New, n
  <2>2. blocks'[n] = r /\ number'[r] = n /\ n # NoBlock
    BY <1>1, <2>1, NumbersAssumption DEF TypeOK
  <2>3. RecordOK(r)'
    BY <1>1, <2>1, <2>2 DEF RecordOK, Fresh
  <2>4. ASSUME NEW s \in Records, s # r PROVE RecordOK(s)'
    <3>1. number'[s] = number[s]
      BY <1>1, <2>1, <2>4 DEF TypeOK
    <3>2. number[s] \in BlockNumbers /\ number[s] # n => blocks'[number[s]] = blocks[number[s]]
      BY <1>1, <2>1 DEF TypeOK
    <3>3. ~Fresh(s) /\ forgets = 0 => blocks[number[s]] = s
      BY <1>1 DEF RecordOK
    <3>4. ~Fresh(s) /\ forgets = 0 => number[s] # n
      BY <1>3, <3>3, RecordsAssumption
    <3>5. ~Fresh(s) => number[s] \in BlockNumbers
      BY <1>1 DEF TypeOK, Fresh
    <3>6. QED BY <1>1, <3>1, <3>2, <3>3, <3>4, <3>5 DEF RecordOK, Fresh
  <2>5. QED BY <2>3, <2>4
<1>4. QED BY <1>2, <1>3

\* What LoadOrStore does to the records and the callers.
LEMMA StoreFacts ==
  ASSUME IInv, NEW c \in Callers, LoadOrStore(c)
  PROVE  /\ br'[c] \in Records /\ number'[br'[c]] = NumberAt(c, index[c])
         /\ \A d \in Callers : d # c => br'[d] = br[d] /\ pc'[d] = pc[d]
         /\ pc[c] = "load" /\ pc'[c] = "lock"
         /\ \A r \in Records : number[r] \in BlockNumbers => number'[r] = number[r]
         /\ MapOK'
         /\ UNCHANGED <<loaded, mu, request, pool, index, slot, wg, tasks>>
<1> DEFINE n == NumberAt(c, index[c])
<1>1. TypeOK /\ MapOK /\ n \in BlockNumbers /\ NoBlock \notin BlockNumbers
  BY NumbersAssumption DEF LoadOrStore, IInv, CallOK, InLoop
<1>2. /\ pc[c] = "load" /\ pc'[c] = "lock" /\ \A d \in Callers : d # c => pc'[d] = pc[d]
      /\ UNCHANGED <<loaded, mu, request, pool, index, slot, wg, tasks>>
  BY <1>1 DEF LoadOrStore, recordVars, TypeOK
<1>3. /\ br'[c] \in Records /\ number'[br'[c]] = n
      /\ \A d \in Callers : d # c => br'[d] = br[d]
      /\ \A r \in Records : number[r] \in BlockNumbers => number'[r] = number[r]
      /\ MapOK'
  <2> HIDE DEF n
  <2>1. CASE blocks[n] # NoRecord
    <3>1. br' = [br EXCEPT ![c] = blocks[n]] /\ UNCHANGED <<blocks, number>>
      BY <2>1 DEF LoadOrStore, n
    <3>2. blocks[n] \in Records /\ number[blocks[n]] = n
      BY <1>1, <2>1 DEF TypeOK, MapOK
    <3>3. br'[c] = blocks[n] /\ \A d \in Callers : d # c => br'[d] = br[d]
      BY <1>1, <3>1 DEF TypeOK
    <3>4. QED BY <1>1, <3>1, <3>2, <3>3 DEF MapOK
  <2>2. CASE blocks[n] = NoRecord
    <3>1. PICK r \in Records : /\ Fresh(r)
                               /\ blocks' = [blocks EXCEPT ![n] = r]
                               /\ number' = [number EXCEPT ![r] = n]
                               /\ br'     = [br EXCEPT ![c] = r]
      BY <2>2 DEF LoadOrStore, New, n
    <3>2. br'[c] = r /\ \A d \in Callers : d # c => br'[d] = br[d]
      BY <1>1, <3>1 DEF TypeOK
    <3>3. number'[r] = n /\ \A s \in Records : s # r => number'[s] = number[s]
      BY <1>1, <3>1 DEF TypeOK
    <3>4. \A s \in Records : number[s] \in BlockNumbers => s # r
      BY <1>1, <3>1 DEF Fresh
    <3>5. blocks'[n] = r /\ \A m \in BlockNumbers : m # n => blocks'[m] = blocks[m]
      BY <1>1, <3>1 DEF TypeOK
    <3>6. \A m \in BlockNumbers : blocks[m] # NoRecord => blocks[m] \in Records /\ number[blocks[m]] = m
      BY <1>1 DEF TypeOK, MapOK
    <3>7. MapOK'
      BY <3>3, <3>4, <3>5, <3>6 DEF MapOK
    <3>8. QED BY <3>2, <3>3, <3>4, <3>7
  <2>3. QED BY <2>1, <2>2
<1>4. QED BY <1>2, <1>3

\* LoadOrStore preserves the part of IInv about calls.
LEMMA LoadOrStoreCalls == ASSUME IInv, NEW c \in Callers, LoadOrStore(c), NEW d \in Callers PROVE CallOK(d)'
<1>1. CallOK(d) /\ CallOK(c)
  BY DEF IInv
<1>2. CASE d # c
  <2>1. br'[d] = br[d] /\ pc'[d] = pc[d] /\ UNCHANGED <<request, pool, index, wg>>
    BY <1>2, StoreFacts
  <2>2. HasRecord(d) => number'[br[d]] = NumberAt(d, index[d]) /\ br[d] \in Records
    <3>1. HasRecord(d) => br[d] \in Records /\ number[br[d]] \in BlockNumbers /\ number[br[d]] = NumberAt(d, index[d])
      BY <1>1 DEF CallOK, HasRecord, InLoop
    <3>2. QED BY <3>1, StoreFacts
  <2>3. QED BY <1>1, <2>1, <2>2 DEF CallOK, InLoop, HasRecord, NumberAt
<1>3. CASE d = c
  BY <1>1, <1>3, StoreFacts DEF CallOK, InLoop, HasRecord, NumberAt
<1>4. QED BY <1>2, <1>3

\* LoadOrStore preserves the part of IInv about filled slots.
LEMMA LoadOrStoreSlots == ASSUME IInv, NEW c \in Callers, LoadOrStore(c), NEW d \in Callers PROVE SlotsOK(d)'
<1>1. SlotsOK(d) /\ CallOK(d) /\ UNCHANGED <<loaded, request, index, slot, wg>>
  BY StoreFacts DEF IInv
<1> SUFFICES ASSUME NEW i \in 1 .. request[d].size, Visited(d, i)', i \notin wg[d]
             PROVE  /\ slot[d][i] \in Records
                    /\ loaded[slot[d][i]]
                    /\ number'[slot[d][i]] = NumberAt(d, i)
  BY <1>1 DEF SlotsOK, NumberAt
<1>2. Visited(d, i)
  BY StoreFacts DEF Visited, InLoop
<1>3. slot[d][i] \in Records /\ loaded[slot[d][i]] /\ number[slot[d][i]] = NumberAt(d, i)
  BY <1>1, <1>2 DEF SlotsOK
<1>4. number[slot[d][i]] \in BlockNumbers
  BY <1>1, <1>3 DEF CallOK
<1>5. QED BY <1>3, <1>4, StoreFacts

\* LoadOrStore preserves the part of IInv about closures.
LEMMA LoadOrStoreTasks == ASSUME IInv, NEW c \in Callers, LoadOrStore(c), NEW t \in tasks PROVE TaskOK(t)'
<1>1. TaskOK(t) /\ t.caller \in Callers /\ t.index \in Nat /\ t.record \in Records
  BY DEF IInv, TypeOK, Task, Indices
<1>2. number[t.record] \in BlockNumbers
  BY <1>1 DEF IInv, TypeOK, TaskOK, Fresh
<1>3. number'[t.record] = number[t.record] /\ UNCHANGED <<loaded, mu, request, index, wg>>
  BY <1>1, <1>2, StoreFacts
<1>4. Visited(t.caller, t.index) => Visited(t.caller, t.index)'
  BY <1>1, StoreFacts DEF Visited, InLoop
<1>5. pc[t.caller] # "open" /\ pc[t.caller] # "closing" => pc'[t.caller] # "open" /\ pc'[t.caller] # "closing"
  BY <1>1, StoreFacts
<1>6. QED BY <1>1, <1>3, <1>4, <1>5 DEF TaskOK, Fresh, NumberAt

\* LoadOrStore takes the record of its height, or stores an unused one there.
LEMMA LoadOrStoreStep == ASSUME IInv, NEW c \in Callers, LoadOrStore(c) PROVE IInv'
<1>0. StoreAny(c)
  BY StoresAny
<1>1. TypeOK'
  BY LoadOrStoreType DEF IInv
<1>2. \A d \in Callers : CallOK(d)'
  BY LoadOrStoreCalls
<1>3. \A d \in Callers : SlotsOK(d)'
  BY LoadOrStoreSlots
<1>4. \A u \in tasks' : TaskOK(u)'
  BY LoadOrStoreTasks, StoreFacts
<1>5. \A r \in Records : RecordOK(r)'
  BY LoadOrStoreRecords
<1>6. MapOK'
  BY StoreFacts
<1>7. OneTaskPerSlot'
  BY <1>0 DEF StoreAny, recordVars, callVars, IInv,
     TypeOK, Task, OneTaskPerSlot
<1>8. SingleFlight'
  BY <1>0 DEF StoreAny, recordVars, callVars, IInv,
     TypeOK, SingleFlight, Holding
<1>9. LockedByOwner'
  BY LoadOrStoreOwner
<1>10. QED BY <1>1, <1>2, <1>3, <1>4, <1>5, <1>6, <1>7, <1>8, <1>9 DEF IInv

-----------------------------------------------------------------------------
(* UseLoaded(c).                                                           *)

\* UseLoaded preserves the part of IInv about calls.
LEMMA UseLoadedCall ==
  ASSUME NEW c \in Callers, IInv, UseLoaded(c)
  PROVE  \A d \in Callers : CallOK(d)'
<1>1. TypeOK /\ CallOK(c) /\ InLoop(c) /\ Advance(c)
  BY DEF IInv, UseLoaded, InLoop
<1>2. ASSUME NEW d \in Callers PROVE CallOK(d)'
  <2>1. CallOK(d) BY DEF IInv
  <2>2. CASE d # c
    BY <1>1, <2>1, <2>2, AdvanceFacts DEF UseLoaded, CallOK, InLoop, HasRecord, NumberAt
  <2>3. CASE d = c
    BY <1>1, <2>1, <2>3, AdvanceFacts DEF UseLoaded, CallOK, InLoop, HasRecord, NumberAt
  <2>4. QED BY <2>2, <2>3
<1>3. QED BY <1>2

\* UseLoaded preserves the part of IInv about filled slots.
LEMMA UseLoadedSlots ==
  ASSUME NEW c \in Callers, IInv, UseLoaded(c)
  PROVE  \A d \in Callers : SlotsOK(d)'
<1>1. TypeOK /\ CallOK(c) /\ InLoop(c) /\ Advance(c)
  BY DEF IInv, UseLoaded, InLoop
<1>2. ASSUME NEW d \in Callers PROVE SlotsOK(d)'
  <2>1. SlotsOK(d) BY DEF IInv
  <2>2. CASE d # c
    <3>1. pc'[d] = pc[d] /\ index'[d] = index[d]
      BY <1>1, <2>2, AdvanceFacts
    <3>2. slot'[d] = slot[d] /\ UNCHANGED <<number, loaded, request, wg>>
      BY <1>1, <2>2 DEF UseLoaded, TypeOK, recordVars
    <3>3. QED BY <2>1, <3>1, <3>2 DEF SlotsOK, Visited, InLoop, NumberAt
  <2>3. CASE d = c
    <3> SUFFICES ASSUME NEW i \in 1 .. request[c].size, Visited(c, i)', i \notin wg[c]
                 PROVE  /\ slot'[c][i] \in Records
                        /\ loaded[slot'[c][i]]
                        /\ number[slot'[c][i]] = NumberAt(c, i)
      BY <2>3 DEF SlotsOK, UseLoaded, recordVars, NumberAt
    <3>1. i \in Indices /\ index[c] \in Indices
      BY <1>1, AdvanceFacts, SlotRange
    <3>2. CASE i = index[c]
      BY <1>1, <3>1, <3>2 DEF UseLoaded, CallOK, HasRecord, TypeOK
    <3>3. CASE i # index[c]
      <4>1. Visited(c, i)
        BY <1>1, <3>3, AdvanceFacts DEF Visited, InLoop
      <4>2. slot'[c][i] = slot[c][i]
        BY <1>1, <3>1, <3>3 DEF UseLoaded, TypeOK
      <4>3. QED BY <4>1, <4>2, <2>1, <2>3 DEF SlotsOK
    <3>4. QED BY <3>2, <3>3
  <2>4. QED BY <2>2, <2>3
<1>3. QED BY <1>2

\* UseLoaded preserves the part of IInv about closures.
LEMMA UseLoadedTasks ==
  ASSUME NEW c \in Callers, IInv, UseLoaded(c)
  PROVE  \A t \in tasks' : TaskOK(t)'
<1>1. TypeOK /\ CallOK(c) /\ InLoop(c) /\ Advance(c) /\ UNCHANGED <<request, wg, tasks, number, recordVars>>
  BY DEF IInv, UseLoaded, InLoop
<1>2. ASSUME NEW t \in tasks PROVE TaskOK(t)'
  <2>1. TaskOK(t) /\ t.caller \in Callers /\ t.index \in Nat
    BY DEF IInv, TypeOK, Task, Indices
  <2>2. t.stage = "computing" => Visited(t.caller, t.index)'
    BY <1>1, <2>1, VisitedKept DEF TaskOK
  <2>3. t.stage = "computing" => pc'[t.caller] # "open" /\ pc'[t.caller] # "closing"
    BY <1>1, <2>1, AdvanceFacts DEF TaskOK
  <2>4. QED BY <1>1, <2>1, <2>2, <2>3 DEF TaskOK, Fresh, NumberAt, recordVars
<1>3. QED BY <1>1, <1>2

\* UseLoaded preserves the part of IInv about single flight.
LEMMA UseLoadedFlight ==
  ASSUME NEW c \in Callers, IInv, UseLoaded(c)
  PROVE  SingleFlight'
<1>1. TypeOK /\ CallOK(c) /\ InLoop(c) /\ Advance(c) /\ UNCHANGED <<br, tasks, recordVars>>
  BY DEF IInv, UseLoaded, InLoop
<1>2. \A d \in Callers : Holding(d)' => Holding(d)
  BY <1>1, AdvanceFacts DEF Holding
<1>3. QED BY <1>1, <1>2 DEF SingleFlight, IInv, recordVars

\* UseLoaded preserves the part of IInv about every locked record has an owner.
LEMMA UseLoadedOwner ==
  ASSUME NEW c \in Callers, IInv, UseLoaded(c)
  PROVE  LockedByOwner'
<1>1. TypeOK /\ CallOK(c) /\ InLoop(c) /\ Advance(c) /\ UNCHANGED <<br, tasks, recordVars, closed>> /\ ~Holding(c)
  BY DEF IInv, UseLoaded, InLoop, Holding
<1>2. \A d \in Callers : Holding(d) => Holding(d)'
  BY <1>1, AdvanceFacts DEF Holding
<1>3. QED BY <1>1, <1>2 DEF LockedByOwner, Owned, IInv, recordVars

\* UseLoaded preserves the part of IInv about types.
LEMMA UseLoadedType == ASSUME NEW c \in Callers, TypeOK, CallOK(c), UseLoaded(c) PROVE TypeOK'
<1>1. index[c] \in Indices /\ br[c] \in Records
  BY RequestsAssumption DEF UseLoaded, CallOK, InLoop, HasRecord, Indices, TypeOK
<1>2. pc' \in [Callers -> Points] /\ index' \in [Callers -> Nat]
  BY AdvanceType DEF UseLoaded, InLoop
<1>3. slot' \in [Callers -> [Indices -> Records \cup {NoRecord}]]
  BY <1>1 DEF UseLoaded, TypeOK
<1>4. QED BY <1>2, <1>3 DEF UseLoaded, TypeOK, recordVars

\* A loaded record is taken for the slot the loop is at.
LEMMA UseLoadedStep == ASSUME IInv, NEW c \in Callers, UseLoaded(c) PROVE IInv'
<1>1. TypeOK'
  BY UseLoadedType DEF IInv
<1>2. \A d \in Callers : CallOK(d)'
  BY UseLoadedCall
<1>3. \A d \in Callers : SlotsOK(d)'
  BY UseLoadedSlots
<1>4. \A u \in tasks' : TaskOK(u)'
  BY UseLoadedTasks
<1>5. \A r \in Records : RecordOK(r)'
  BY DEF UseLoaded, Advance, recordVars, callVars, IInv,
     TypeOK, RecordOK, Fresh
<1>6. MapOK'
  BY DEF UseLoaded, Advance, recordVars, callVars, IInv,
     TypeOK, MapOK
<1>7. OneTaskPerSlot'
  BY DEF UseLoaded, Advance, recordVars, callVars, IInv,
     TypeOK, Task, OneTaskPerSlot
<1>8. SingleFlight'
  BY UseLoadedFlight
<1>9. LockedByOwner'
  BY UseLoadedOwner
<1>10. QED BY <1>1, <1>2, <1>3, <1>4, <1>5, <1>6, <1>7, <1>8, <1>9 DEF IInv

-----------------------------------------------------------------------------
(* LockUnloaded(c).                                                        *)

\* LockUnloaded makes its caller the holder of a record nobody held.
LEMMA LockUnloadedHolders ==
  ASSUME NEW c \in Callers, IInv, LockUnloaded(c)
  PROVE  /\ \A d \in Callers : Holding(d)' <=> Holding(d) \/ d = c
         /\ mu' = [mu EXCEPT ![br[c]] = TRUE]
         /\ br[c] \in Records /\ ~mu[br[c]] /\ ~loaded[br[c]]
         /\ UNCHANGED <<br, loaded, tasks, closed>>
<1>1. TypeOK /\ CallOK(c)
  BY DEF IInv
<1>2. QED BY <1>1 DEF LockUnloaded, Claim, Holding, TypeOK, CallOK, HasRecord, callVars

\* LockUnloaded preserves the part of IInv about types.
LEMMA LockUnloadedType == ASSUME NEW c \in Callers, TypeOK, CallOK(c), LockUnloaded(c) PROVE TypeOK'
<1>1. index[c] \in Indices /\ br[c] \in Records
  BY RequestsAssumption DEF LockUnloaded, Claim, CallOK, InLoop, HasRecord, Indices, TypeOK
<1>2. pc' \in [Callers -> Points] /\ wg' \in [Callers -> SUBSET Indices]
  <2>1. CASE pool[c] = NoPool
    BY <2>1 DEF LockUnloaded, Claim, TypeOK, Points
  <2>2. CASE pool[c] # NoPool
    <3>1. wg' = [wg EXCEPT ![c] = wg[c] \cup {index[c]}] /\ pc' = [pc EXCEPT ![c] = "submit"]
      BY <2>2 DEF LockUnloaded, Claim
    <3>2. wg[c] \cup {index[c]} \subseteq Indices
      BY <1>1 DEF TypeOK
    <3>3. QED BY <3>1, <3>2 DEF TypeOK, Points
  <2>3. QED BY <2>1, <2>2
<1>3. QED BY <1>2 DEF LockUnloaded, Claim, TypeOK, callVars

\* LockUnloaded preserves the part of IInv about filled slots.
LEMMA LockUnloadedSlots ==
  ASSUME NEW c \in Callers, IInv, LockUnloaded(c)
  PROVE  \A d \in Callers : SlotsOK(d)'
<1>1. TypeOK /\ \A d \in Callers : SlotsOK(d)
  BY DEF IInv
<1>2. \A d \in Callers : wg[d] \subseteq wg'[d]
  <2>1. wg' = wg \/ wg' = [wg EXCEPT ![c] = wg[c] \cup {index[c]}]
    BY DEF LockUnloaded, Claim
  <2>2. QED BY <1>1, <2>1 DEF TypeOK
<1>3. \A d \in Callers, i \in Nat : Visited(d, i)' => Visited(d, i)
  BY <1>1 DEF LockUnloaded, Claim, Visited, InLoop, TypeOK, callVars
<1>4. UNCHANGED <<request, slot, loaded, number>>
  BY DEF LockUnloaded, Claim, callVars
<1>5. QED BY <1>1, <1>2, <1>3, <1>4, SlotRange DEF SlotsOK, NumberAt

\* LockUnloaded preserves the part of IInv about closures.
LEMMA LockUnloadedTasks ==
  ASSUME NEW c \in Callers, IInv, LockUnloaded(c)
  PROVE  \A t \in tasks' : TaskOK(t)'
<1>0. TypeOK /\ CallOK(c) /\ \A t \in tasks : TaskOK(t)
  BY DEF IInv
<1>1. TypeOK /\ CallOK(c) /\ \A t \in tasks : TaskOK(t) /\ t.caller \in Callers /\ t.index \in Nat /\ t.record \in Records
  <2>1. ASSUME NEW t \in tasks PROVE t.caller \in Callers /\ t.index \in Nat /\ t.record \in Records
    <3>1. t \in Task
      BY <1>0 DEF TypeOK
    <3>2. QED BY <3>1 DEF Task, Indices
  <2>2. QED BY <1>0, <2>1
<1>2. \A d \in Callers : wg[d] \subseteq wg'[d]
  <2>1. wg' = wg \/ wg' = [wg EXCEPT ![c] = wg[c] \cup {index[c]}]
    BY DEF LockUnloaded, Claim
  <2>2. QED BY <1>1, <2>1 DEF TypeOK
<1>3. \A d \in Callers, i \in Nat : Visited(d, i) => Visited(d, i)'
  BY <1>1 DEF LockUnloaded, Claim, Visited, InLoop, TypeOK, callVars
<1>4. UNCHANGED <<request, tasks, loaded, number>>
  BY DEF LockUnloaded, Claim, callVars
<1>5. \A r \in Records : mu[r] => mu'[r]
  <2>1. mu' = [mu EXCEPT ![br[c]] = TRUE]
    BY DEF LockUnloaded, Claim
  <2>2. QED BY <1>1, <2>1 DEF TypeOK
<1>6. \A d \in Callers : pc[d] # "open" /\ pc[d] # "closing" => pc'[d] # "open" /\ pc'[d] # "closing"
  BY <1>1 DEF LockUnloaded, Claim, TypeOK
<1>7. QED BY <1>1, <1>2, <1>3, <1>4, <1>5, <1>6 DEF TaskOK, NumberAt, Fresh

\* LockUnloaded preserves the part of IInv about single flight.
LEMMA LockUnloadedFlight ==
  ASSUME NEW c \in Callers, IInv, LockUnloaded(c)
  PROVE  SingleFlight'
<1>1. TypeOK /\ (\A d \in Callers : CallOK(d)) /\ SingleFlight /\ \A t \in tasks : t.record \in Records
  BY DEF IInv, TypeOK, Task
<1>2. \A d \in Callers : Holding(d) => br[d] \in Records /\ br[d] # br[c]
  BY <1>1, LockUnloadedHolders DEF SingleFlight, CallOK, HasRecord, Holding
<1>3. \A t \in tasks : t.record # br[c]
  BY <1>1, LockUnloadedHolders DEF SingleFlight
<1>4. \A r \in Records : mu'[r] <=> mu[r] \/ r = br[c]
  BY <1>1, LockUnloadedHolders DEF TypeOK
<1>5. \A d \in Callers : Holding(d)' => mu'[br'[d]] /\ ~loaded'[br'[d]]
  BY <1>1, <1>2, <1>4, LockUnloadedHolders DEF SingleFlight
<1>6. \A t \in tasks' : mu'[t.record] /\ (t.stage = "computing" => ~loaded'[t.record])
  BY <1>1, <1>4, LockUnloadedHolders DEF SingleFlight
<1>7. \A d, e \in Callers : Holding(d)' /\ Holding(e)' /\ br'[d] = br'[e] => d = e
  BY <1>1, <1>2, LockUnloadedHolders DEF SingleFlight
<1>8. \A t, u \in tasks' : t.record = u.record => t = u
  BY <1>1, LockUnloadedHolders DEF SingleFlight
<1>9. \A d \in Callers, t \in tasks' : Holding(d)' => br'[d] # t.record
  BY <1>1, <1>3, LockUnloadedHolders DEF SingleFlight
<1>10. QED BY <1>5, <1>6, <1>7, <1>8, <1>9 DEF SingleFlight

\* LockUnloaded preserves the part of IInv about every locked record has an owner.
LEMMA LockUnloadedOwner ==
  ASSUME NEW c \in Callers, IInv, LockUnloaded(c)
  PROVE  LockedByOwner'
<1>1. TypeOK /\ LockedByOwner
  BY DEF IInv
<1>2. ASSUME NEW r \in Records, mu'[r] PROVE Owned(r)' \/ closed' # {}
  <2>1. CASE r = br[c]
    BY <2>1, LockUnloadedHolders DEF Owned
  <2>2. CASE r # br[c]
    <3>1. mu[r]
      BY <1>1, <1>2, <2>2, LockUnloadedHolders DEF TypeOK
    <3>2. Owned(r) \/ closed # {}
      BY <1>1, <3>1 DEF LockedByOwner
    <3>3. QED BY <3>2, LockUnloadedHolders DEF Owned
  <2>3. QED BY <2>1, <2>2
<1>3. QED BY <1>2 DEF LockedByOwner

\* LockUnloaded preserves the part of IInv about records.
LEMMA LockUnloadedRecords ==
  ASSUME NEW c \in Callers, IInv, LockUnloaded(c), NEW r \in Records
  PROVE  RecordOK(r)'
<1>1. TypeOK /\ CallOK(c) /\ RecordOK(r)
  BY DEF IInv
<1>2. number[br[c]] \in BlockNumbers /\ NoBlock \notin BlockNumbers
  BY <1>1, NumbersAssumption DEF LockUnloaded, CallOK, HasRecord, InLoop
<1>3. r # br[c] => mu'[r] = mu[r]
  BY <1>1, LockUnloadedHolders DEF TypeOK
<1>4. UNCHANGED <<blocks, number, loaded, block, forgets>>
  BY DEF LockUnloaded, Claim
<1>5. QED BY <1>1, <1>2, <1>3, <1>4 DEF RecordOK, Fresh

\* The mutex taken was free, so nobody else is responsible for the record.
LEMMA LockUnloadedStep == ASSUME IInv, NEW c \in Callers, LockUnloaded(c) PROVE IInv'
<1>1. TypeOK'
  BY LockUnloadedType DEF IInv
<1>2. \A d \in Callers : CallOK(d)'
  BY DEF LockUnloaded, Claim, recordVars, callVars, IInv,
     TypeOK, CallOK, InLoop, HasRecord, NumberAt, Indices
<1>3. \A d \in Callers : SlotsOK(d)'
  BY LockUnloadedSlots
<1>4. \A u \in tasks' : TaskOK(u)'
  BY LockUnloadedTasks
<1>5. \A r \in Records : RecordOK(r)'
  BY LockUnloadedRecords
<1>6. MapOK'
  BY DEF LockUnloaded, Claim, recordVars, callVars, IInv,
     TypeOK, MapOK
<1>7. OneTaskPerSlot'
  BY DEF LockUnloaded, Claim, recordVars, callVars, IInv,
     TypeOK, Task, OneTaskPerSlot
<1>8. SingleFlight'
  BY LockUnloadedFlight
<1>9. LockedByOwner'
  BY LockUnloadedOwner
<1>10. QED BY <1>1, <1>2, <1>3, <1>4, <1>5, <1>6, <1>7, <1>8, <1>9 DEF IInv

-----------------------------------------------------------------------------
(* Submit(c).                                                              *)

\* Submit preserves the part of IInv about every locked record has an owner.
LEMMA SubmitOwner == ASSUME IInv, NEW c \in Callers, Submit(c) PROVE LockedByOwner'
<1>1. \A d \in Callers : Holding(d) => Holding(d)' /\ br'[d] = br[d]
  BY DEF Submit, callVars, Holding, IInv, TypeOK
<1>2. QED BY <1>1, OwnersKept DEF Submit, recordVars, IInv

\* Looking for a worker keeps the record with the caller.
LEMMA SubmitStep == ASSUME IInv, NEW c \in Callers, Submit(c) PROVE IInv'
<1>1. TypeOK'
  BY DEF Submit, recordVars, callVars, IInv,
     TypeOK, Points, Task, Indices
<1>2. \A d \in Callers : CallOK(d)'
  BY DEF Submit, recordVars, callVars, IInv,
     TypeOK, CallOK, InLoop, HasRecord, NumberAt, Indices
<1>3. \A d \in Callers : SlotsOK(d)'
  BY DEF Submit, recordVars, callVars, IInv,
     TypeOK, SlotsOK, Visited, InLoop, NumberAt, Indices
<1>4. \A u \in tasks' : TaskOK(u)'
  BY DEF Submit, recordVars, callVars, IInv,
     TypeOK, Task, TaskOK, Visited, InLoop, NumberAt, Fresh
<1>5. \A r \in Records : RecordOK(r)'
  BY DEF Submit, recordVars, callVars, IInv,
     TypeOK, RecordOK, Fresh
<1>6. MapOK'
  BY DEF Submit, recordVars, callVars, IInv,
     TypeOK, MapOK
<1>7. OneTaskPerSlot'
  BY DEF Submit, recordVars, callVars, IInv,
     TypeOK, Task, OneTaskPerSlot
<1>8. SingleFlight'
  BY DEF Submit, recordVars, callVars, IInv,
     TypeOK, SingleFlight, Holding
<1>9. LockedByOwner'
  BY SubmitOwner
<1>10. QED BY <1>1, <1>2, <1>3, <1>4, <1>5, <1>6, <1>7, <1>8, <1>9 DEF IInv

-----------------------------------------------------------------------------
(* SubmitRejected(c).                                                      *)

\* SubmitRejected preserves the part of IInv about types.
LEMMA SubmitRejectedType == ASSUME NEW c \in Callers, TypeOK, CallOK(c), SubmitRejected(c) PROVE TypeOK'
<1>2. pc' \in [Callers -> Points] /\ index' \in [Callers -> Nat]
  BY AdvanceType DEF SubmitRejected, InLoop
<1>4. QED BY <1>2 DEF SubmitRejected, TypeOK, recordVars

\* SubmitRejected preserves the part of IInv about closures.
LEMMA SubmitRejectedTasks ==
  ASSUME NEW c \in Callers, IInv, SubmitRejected(c)
  PROVE  \A t \in tasks' : TaskOK(t)'
<1>1. TypeOK /\ CallOK(c) /\ InLoop(c) /\ Advance(c) /\ UNCHANGED <<request, wg, tasks, number, loaded, mu>>
  BY DEF IInv, SubmitRejected, InLoop, recordVars
<1>2. QED BY <1>1, AdvanceKeepsTasks DEF IInv

\* SubmitRejected preserves the part of IInv about calls.
LEMMA SubmitRejectedCalls ==
  ASSUME NEW c \in Callers, IInv, SubmitRejected(c)
  PROVE  \A d \in Callers : CallOK(d)'
<1>1. TypeOK /\ InLoop(c) /\ Advance(c) /\ UNCHANGED <<request, pool, br, wg, number>>
  BY DEF IInv, SubmitRejected, InLoop
<1>2. QED BY <1>1, AdvanceKeepsCalls DEF IInv

\* SubmitRejected preserves the part of IInv about single flight.
LEMMA SubmitRejectedFlight ==
  ASSUME NEW c \in Callers, IInv, SubmitRejected(c)
  PROVE  SingleFlight'
<1>1. TypeOK /\ CallOK(c) /\ InLoop(c) /\ Advance(c) /\ UNCHANGED <<br, tasks, mu, loaded>>
  BY DEF IInv, SubmitRejected, InLoop, recordVars
<1>3. QED BY <1>1, AdvanceHolders DEF SingleFlight, IInv

\* SubmitRejected preserves the part of IInv about filled slots.
LEMMA SubmitRejectedSlots ==
  ASSUME NEW c \in Callers, IInv, SubmitRejected(c)
  PROVE  \A d \in Callers : SlotsOK(d)'
<1>1. /\ TypeOK /\ CallOK(c) /\ InLoop(c) /\ Advance(c)
      /\ \A d \in Callers : SlotsOK(d)
      /\ UNCHANGED <<request, slot, loaded, number, wg>>
  BY DEF IInv, SubmitRejected, InLoop, recordVars
<1>2. index[c] \in wg[c]
  BY <1>1 DEF SubmitRejected, CallOK
<1>3. QED BY <1>1, <1>2, AdvanceKeepsSlots

\* A rejected closure leaves a locked record without owner: a pool was released.
LEMMA SubmitRejectedStep == ASSUME IInv, NEW c \in Callers, SubmitRejected(c) PROVE IInv'
<1>1. TypeOK'
  BY SubmitRejectedType DEF IInv
<1>2. \A d \in Callers : CallOK(d)'
  BY SubmitRejectedCalls
<1>3. \A d \in Callers : SlotsOK(d)'
  BY SubmitRejectedSlots
<1>4. \A u \in tasks' : TaskOK(u)'
  BY SubmitRejectedTasks
<1>5. \A r \in Records : RecordOK(r)'
  BY DEF SubmitRejected, Advance, recordVars, callVars, IInv,
     TypeOK, RecordOK, Fresh
<1>6. MapOK'
  BY DEF SubmitRejected, Advance, recordVars, callVars, IInv,
     TypeOK, MapOK
<1>7. OneTaskPerSlot'
  BY DEF SubmitRejected, Advance, recordVars, callVars, IInv,
     TypeOK, Task, OneTaskPerSlot
<1>8. SingleFlight'
  BY SubmitRejectedFlight
<1>9. LockedByOwner'
  BY DEF SubmitRejected, Advance, recordVars, callVars, IInv,
     TypeOK, LockedByOwner, Owned, Holding
<1>10. QED BY <1>1, <1>2, <1>3, <1>4, <1>5, <1>6, <1>7, <1>8, <1>9 DEF IInv

-----------------------------------------------------------------------------
(* StartTask(c).                                                           *)

\* What StartTask does to the state, conjunct by conjunct.
LEMMA StartTaskFacts ==
  ASSUME IInv, NEW c \in Callers, StartTask(c)
  PROVE  /\ TypeOK /\ CallOK(c) /\ InLoop(c) /\ Advance(c) /\ Holding(c)
         /\ index[c] \in Indices /\ br[c] \in Records /\ pool[c] \in Pools
         /\ index[c] \in wg[c] /\ number[br[c]] = NumberAt(c, index[c])
         /\ UNCHANGED <<blocks, number, loaded, block, mu, request, pool, br, slot, wg, closed, forgets>>
<1>1. TypeOK /\ CallOK(c) /\ InLoop(c) /\ Advance(c) /\ HasRecord(c) /\ Holding(c)
  BY DEF IInv, StartTask, InLoop, HasRecord, Holding
<1>2. QED BY <1>1, SlotRange DEF StartTask, CallOK, recordVars

\* The closure that StartTask adds.
LEMMA StartTaskNew ==
  ASSUME IInv, NEW c \in Callers, StartTask(c)
  PROVE  \E n \in Task :
           /\ n.caller = c /\ n.index = index[c] /\ n.record = br[c] /\ n.stage = "computing"
           /\ tasks' = tasks \cup {n}
<1> DEFINE n == [caller |-> c, index |-> index[c], record |-> br[c],
                 pool |-> pool[c], stage |-> "computing"]
<1>1. n \in Task
  BY StartTaskFacts DEF Task
<1>2. tasks' = tasks \cup {n}
  BY DEF StartTask
<1>3. n.caller = c /\ n.index = index[c] /\ n.record = br[c] /\ n.stage = "computing"
  OBVIOUS
<1> HIDE DEF n
<1>4. QED BY <1>1, <1>2, <1>3

\* StartTask preserves the part of IInv about types.
LEMMA StartTaskType == ASSUME NEW c \in Callers, TypeOK, CallOK(c), StartTask(c) PROVE TypeOK'
<1>1. index[c] \in Indices /\ br[c] \in Records /\ pool[c] \in Pools
  BY RequestsAssumption DEF StartTask, CallOK, InLoop, HasRecord, Indices, TypeOK
<1>2. pc' \in [Callers -> Points] /\ index' \in [Callers -> Nat]
  BY AdvanceType DEF StartTask, InLoop
<1>3. tasks' \subseteq Task
  BY <1>1 DEF StartTask, TypeOK, Task
<1>4. QED BY <1>2, <1>3 DEF StartTask, TypeOK, recordVars

\* StartTask preserves the part of IInv about closures.
LEMMA StartTaskTasks == ASSUME IInv, NEW c \in Callers, StartTask(c) PROVE \A t \in tasks' : TaskOK(t)'
<1>1. \A t \in tasks : TaskOK(t)'
  BY StartTaskFacts, AdvanceKeepsTasks DEF IInv
<1>2. PICK n \in Task :
           /\ n.caller = c /\ n.index = index[c] /\ n.record = br[c] /\ n.stage = "computing"
           /\ tasks' = tasks \cup {n}
  BY StartTaskNew
<1>3. mu[n.record] /\ ~loaded[n.record]
  BY <1>2, StartTaskFacts DEF IInv, SingleFlight
<1>4. number[n.record] \in BlockNumbers
  BY <1>2, StartTaskFacts DEF CallOK
<1>5. Visited(c, n.index)' /\ n.index <= request[c].size /\ pc'[c] # "open" /\ pc'[c] # "closing"
  BY <1>2, StartTaskFacts, AdvanceFacts DEF Visited, InLoop
<1>6. TaskOK(n)'
  BY <1>2, <1>3, <1>4, <1>5, StartTaskFacts, NumbersAssumption DEF TaskOK, Fresh, NumberAt
<1>7. QED BY <1>1, <1>2, <1>6

\* StartTask preserves the part of IInv about one closure per slot.
LEMMA StartTaskOnePerSlot == ASSUME IInv, NEW c \in Callers, StartTask(c) PROVE OneTaskPerSlot'
<1>1. PICK n \in Task :
           /\ n.caller = c /\ n.index = index[c] /\ n.record = br[c] /\ n.stage = "computing"
           /\ tasks' = tasks \cup {n}
  BY StartTaskNew
<1>2. \A t \in tasks : t.stage = "computing" /\ t.caller = c => t.index # index[c]
  <2>1. ASSUME NEW t \in tasks, t.stage = "computing", t.caller = c PROVE t.index # index[c]
    <3>1. Visited(c, t.index)
      BY <2>1 DEF IInv, TaskOK
    <3>2. t.index < index[c]
      BY <3>1, StartTaskFacts DEF Visited, InLoop
    <3>3. t.index \in Nat /\ index[c] \in Nat
      BY StartTaskFacts, RequestsAssumption DEF TypeOK, Task, Indices
    <3>4. QED BY <3>2, <3>3
  <2>2. QED BY <2>1
<1>3. QED BY <1>1, <1>2 DEF OneTaskPerSlot, IInv

\* StartTask preserves the part of IInv about single flight.
LEMMA StartTaskFlight == ASSUME IInv, NEW c \in Callers, StartTask(c) PROVE SingleFlight'
<1>1. PICK n \in Task :
           /\ n.caller = c /\ n.index = index[c] /\ n.record = br[c] /\ n.stage = "computing"
           /\ tasks' = tasks \cup {n}
  BY StartTaskNew
<1>2. SingleFlight /\ \A d \in Callers : Holding(d)' <=> Holding(d) /\ d # c
  BY StartTaskFacts, AdvanceHolders DEF IInv
<1>3. QED BY <1>1, <1>2, StartTaskFacts DEF SingleFlight

\* StartTask preserves the part of IInv about every locked record has an owner.
LEMMA StartTaskOwner == ASSUME IInv, NEW c \in Callers, StartTask(c) PROVE LockedByOwner'
<1>1. PICK n \in Task :
           /\ n.caller = c /\ n.index = index[c] /\ n.record = br[c] /\ n.stage = "computing"
           /\ tasks' = tasks \cup {n}
  BY StartTaskNew
<1>2. LockedByOwner /\ \A d \in Callers : Holding(d)' <=> Holding(d) /\ d # c
  BY StartTaskFacts, AdvanceHolders DEF IInv
<1>3. \A r \in Records : Owned(r) => Owned(r)'
  BY <1>1, <1>2, StartTaskFacts DEF Owned
<1>4. QED BY <1>2, <1>3, StartTaskFacts DEF LockedByOwner

\* The worker's closure takes over the caller's responsibility for the record.
LEMMA StartTaskStep == ASSUME IInv, NEW c \in Callers, StartTask(c) PROVE IInv'
<1>1. TypeOK'
  BY StartTaskType DEF IInv
<1>2. \A d \in Callers : CallOK(d)'
  BY StartTaskFacts, AdvanceKeepsCalls DEF IInv
<1>3. \A d \in Callers : SlotsOK(d)'
  BY StartTaskFacts, AdvanceKeepsSlots DEF IInv
<1>4. \A u \in tasks' : TaskOK(u)'
  BY StartTaskTasks
<1>5. \A r \in Records : RecordOK(r)'
  BY DEF StartTask, Advance, recordVars, callVars, IInv,
     TypeOK, RecordOK, Fresh
<1>6. MapOK'
  BY DEF StartTask, Advance, recordVars, callVars, IInv,
     TypeOK, MapOK
<1>7. OneTaskPerSlot'
  BY StartTaskOnePerSlot
<1>8. SingleFlight'
  BY StartTaskFlight
<1>9. LockedByOwner'
  BY StartTaskOwner
<1>10. QED BY <1>1, <1>2, <1>3, <1>4, <1>5, <1>6, <1>7, <1>8, <1>9 DEF IInv

-----------------------------------------------------------------------------
(* ComputeTask(t).                                                         *)

\* What ComputeTask does to the state, conjunct by conjunct.
LEMMA ComputeTaskFacts ==
  ASSUME IInv, NEW t \in tasks, ComputeTask(t)
  PROVE  /\ TypeOK /\ t \in Task /\ TaskOK(t)
         /\ t.stage = "computing"
         /\ loaded' = [loaded EXCEPT ![t.record] = TRUE]
         /\ slot' = [slot EXCEPT ![t.caller][t.index] = t.record]
         /\ wg' = [wg EXCEPT ![t.caller] = wg[t.caller] \ {t.index}]
         /\ UNCHANGED <<blocks, number, mu, pc, request, pool, index, br, closed, forgets>>
BY DEF IInv, TypeOK, ComputeTask, Publish, callVars

\* The closure only changes its stage.
LEMMA ComputeTaskMoves ==
  ASSUME IInv, NEW t \in tasks, ComputeTask(t)
  PROVE  \E u \in Task : /\ u.caller = t.caller /\ u.index = t.index /\ u.record = t.record
                         /\ u.stage = "unlocking"
                         /\ tasks' = (tasks \ {t}) \cup {u}
<1> DEFINE u == [t EXCEPT !.stage = "unlocking"]
<1>1. t \in Task /\ tasks' = (tasks \ {t}) \cup {u}
  BY ComputeTaskFacts DEF ComputeTask
<1>2. u \in Task /\ u.caller = t.caller /\ u.index = t.index /\ u.record = t.record /\ u.stage = "unlocking"
  BY <1>1 DEF Task
<1> HIDE DEF u
<1>3. QED BY <1>1, <1>2

\* ComputeTask preserves the part of IInv about types.
LEMMA ComputeTaskType == ASSUME NEW t \in tasks, TypeOK, ComputeTask(t) PROVE TypeOK'
<1>1. t \in Task
  BY DEF TypeOK
<1>2. /\ block' \in [Records -> [of : Nat \cup {NoBlock}, kind : {"unset", "list", "nil"}]]
      /\ loaded' \in [Records -> BOOLEAN]
      /\ slot' \in [Callers -> [Indices -> Records \cup {NoRecord}]]
  BY <1>1, PublishType DEF ComputeTask, Task
<1>3. wg' \in [Callers -> SUBSET Indices]
  BY <1>1 DEF ComputeTask, TypeOK, Task
<1>4. tasks' \subseteq Task
  BY <1>1 DEF ComputeTask, TypeOK, Task
<1>5. QED BY <1>2, <1>3, <1>4 DEF ComputeTask, TypeOK, callVars

\* ComputeTask preserves the part of IInv about filled slots.
LEMMA ComputeTaskSlots == ASSUME IInv, NEW t \in tasks, ComputeTask(t) PROVE \A c \in Callers : SlotsOK(c)'
<1>1. t.caller \in Callers /\ t.index \in Indices /\ t.record \in Records /\ TypeOK
  BY ComputeTaskFacts DEF Task
<1>2. /\ slot' = [slot EXCEPT ![t.caller][t.index] = t.record]
      /\ wg' = [wg EXCEPT ![t.caller] = wg[t.caller] \ {t.index}]
      /\ loaded' = [loaded EXCEPT ![t.record] = TRUE]
      /\ t.stage = "computing" /\ TaskOK(t)
      /\ UNCHANGED <<number, pc, request, index>>
  BY ComputeTaskFacts
<1>3. /\ slot \in [Callers -> [Indices -> Records \cup {NoRecord}]]
      /\ wg \in [Callers -> SUBSET Indices]
      /\ loaded \in [Records -> BOOLEAN]
  BY <1>1 DEF TypeOK
<1> SUFFICES ASSUME NEW c \in Callers, NEW i \in 1 .. request[c].size, Visited(c, i), i \notin wg'[c]
             PROVE  /\ slot'[c][i] \in Records
                    /\ loaded'[slot'[c][i]]
                    /\ number[slot'[c][i]] = NumberAt(c, i)
  BY <1>2 DEF SlotsOK, Visited, InLoop, NumberAt
<1>4. i \in Indices
  BY <1>1, SlotRange
<1>5. CASE c = t.caller /\ i = t.index
  <2>1. slot'[c][i] = t.record
    BY <1>1, <1>2, <1>3, <1>4, <1>5
  <2>2. loaded'[t.record] /\ number[t.record] = NumberAt(c, i)
    BY <1>1, <1>2, <1>3, <1>5 DEF TaskOK
  <2>3. QED BY <1>1, <2>1, <2>2
<1>6. CASE ~(c = t.caller /\ i = t.index)
  <2>1. slot'[c][i] = slot[c][i]
    BY <1>1, <1>2, <1>3, <1>4, <1>6
  <2>2. i \notin wg[c]
    BY <1>1, <1>2, <1>3, <1>6
  <2>3. slot[c][i] \in Records /\ loaded[slot[c][i]] /\ number[slot[c][i]] = NumberAt(c, i)
    BY <2>2 DEF IInv, SlotsOK
  <2>4. loaded'[slot[c][i]]
    BY <1>1, <1>2, <1>3, <2>3
  <2>5. QED BY <2>1, <2>3, <2>4
<1>7. QED BY <1>5, <1>6

\* ComputeTask preserves the part of IInv about single flight.
LEMMA ComputeTaskFlight == ASSUME IInv, NEW t \in tasks, ComputeTask(t) PROVE SingleFlight'
<1>1. PICK u \in Task : /\ u.caller = t.caller /\ u.index = t.index /\ u.record = t.record
                        /\ u.stage = "unlocking"
                        /\ tasks' = (tasks \ {t}) \cup {u}
  BY ComputeTaskMoves
<1>2. /\ SingleFlight /\ TypeOK /\ mu' = mu /\ br' = br
      /\ \A d \in Callers : Holding(d)' <=> Holding(d)
  BY ComputeTaskFacts DEF IInv, Holding
<1>3. \A r \in Records : r # t.record => loaded'[r] = loaded[r]
  <2>1. loaded \in [Records -> BOOLEAN] /\ loaded' = [loaded EXCEPT ![t.record] = TRUE]
    BY ComputeTaskFacts DEF TypeOK
  <2>2. QED BY <2>1
<1>4. \A d \in Callers : Holding(d) => br[d] # t.record
  BY <1>2 DEF SingleFlight
<1>5. \A d \in Callers : Holding(d) => br[d] \in Records
  BY DEF IInv, CallOK, Holding, HasRecord
<1>6. \A v \in tasks : v # t => v.record # t.record /\ v.record \in Records
  BY <1>2 DEF SingleFlight, TypeOK, Task
<1>7. \A d \in Callers : Holding(d)' => mu'[br'[d]] /\ ~loaded'[br'[d]]
  BY <1>2, <1>3, <1>4, <1>5 DEF SingleFlight
<1>8. \A v \in tasks' : mu'[v.record] /\ (v.stage = "computing" => ~loaded'[v.record])
  <2>1. \A v \in tasks : mu[v.record] /\ (v.stage = "computing" => ~loaded[v.record])
    BY <1>2 DEF SingleFlight
  <2>2. mu'[u.record]
    BY <1>1, <1>2, <2>1
  <2>3. \A v \in tasks : v # t => mu'[v.record] /\ (v.stage = "computing" => ~loaded'[v.record])
    BY <1>2, <1>3, <1>6, <2>1
  <2>4. QED BY <1>1, <2>2, <2>3
<1>9. \A v, w \in tasks' : v.record = w.record => v = w
  BY <1>1, <1>2, <1>6 DEF SingleFlight
<1>10. \A c, d \in Callers : Holding(c)' /\ Holding(d)' /\ br'[c] = br'[d] => c = d
  BY <1>2 DEF SingleFlight
<1>11. \A c \in Callers, v \in tasks' : Holding(c)' => br'[c] # v.record
  <2>1. \A c \in Callers, v \in tasks : Holding(c) => br[c] # v.record
    BY <1>2 DEF SingleFlight
  <2>2. QED BY <1>1, <1>2, <1>4, <2>1
<1>12. QED BY <1>7, <1>8, <1>9, <1>10, <1>11 DEF SingleFlight

\* ComputeTask preserves the part of IInv about every locked record has an owner.
LEMMA ComputeTaskOwner == ASSUME IInv, NEW t \in tasks, ComputeTask(t) PROVE LockedByOwner'
<1>1. PICK u \in Task : /\ u.caller = t.caller /\ u.index = t.index /\ u.record = t.record
                        /\ u.stage = "unlocking"
                        /\ tasks' = (tasks \ {t}) \cup {u}
  BY ComputeTaskMoves
<1>2. LockedByOwner /\ \A d \in Callers : Holding(d)' <=> Holding(d)
  BY ComputeTaskFacts DEF IInv, Holding
<1>3. \A r \in Records : Owned(r) => Owned(r)'
  BY <1>1, <1>2, ComputeTaskFacts DEF Owned
<1>4. QED BY <1>2, <1>3, ComputeTaskFacts DEF LockedByOwner

\* ComputeTask preserves the part of IInv about calls: the closure's slot is
\* one its caller has left behind.
LEMMA ComputeTaskCalls == ASSUME IInv, NEW t \in tasks, ComputeTask(t), NEW d \in Callers PROVE CallOK(d)'
<1>0. TypeOK /\ t \in Task /\ TaskOK(t) /\ t.stage = "computing"
  BY ComputeTaskFacts
<1>1. /\ CallOK(d) /\ TypeOK /\ t.caller \in Callers /\ t.index \in Nat
      /\ Visited(t.caller, t.index)
  <2>1. CallOK(d)
    BY DEF IInv
  <2>2. t.caller \in Callers /\ t.index \in Nat
    BY <1>0 DEF Task, Indices
  <2>3. Visited(t.caller, t.index)
    BY <1>0 DEF TaskOK
  <2>4. QED BY <1>0, <2>1, <2>2, <2>3
<1>2. UNCHANGED <<number, pc, request, pool, index, br>>
  BY ComputeTaskFacts
<1>3. wg[d] \in SUBSET Indices /\ wg'[d] = IF d = t.caller THEN wg[d] \ {t.index} ELSE wg[d]
  <2>1. wg \in [Callers -> SUBSET Indices]
    BY <1>0 DEF TypeOK
  <2>2. wg' = [wg EXCEPT ![t.caller] = wg[t.caller] \ {t.index}]
    BY ComputeTaskFacts
  <2>3. QED BY <1>1, <2>1, <2>2
<1>4. d = t.caller /\ InLoop(d) => index[d] # t.index
  BY <1>1 DEF Visited, InLoop, TypeOK
<1>5. pc[d] \in {"submit", "worker"} => index[d] \in wg'[d]
  BY <1>1, <1>3, <1>4 DEF CallOK, InLoop
<1>6. wg[d] = {} => wg'[d] = {}
  BY <1>3
<1>7. QED BY <1>1, <1>2, <1>5, <1>6 DEF CallOK, InLoop, HasRecord, NumberAt

\* ComputeTask preserves the part of IInv about closures: the others work on
\* other records and, while they compute, for other slots.
LEMMA ComputeTaskTasks == ASSUME IInv, NEW t \in tasks, ComputeTask(t) PROVE \A v \in tasks' : TaskOK(v)'
<1>1. PICK u \in Task : /\ u.caller = t.caller /\ u.index = t.index /\ u.record = t.record
                        /\ u.stage = "unlocking"
                        /\ tasks' = (tasks \ {t}) \cup {u}
  BY ComputeTaskMoves
<1>2. TypeOK /\ t \in Task /\ TaskOK(t) /\ t.stage = "computing" /\ SingleFlight /\ OneTaskPerSlot
  BY ComputeTaskFacts DEF IInv
<1>3. UNCHANGED <<number, mu, pc, request, index>>
  BY ComputeTaskFacts
<1>4. loaded'[t.record] /\ \A r \in Records : r # t.record => loaded'[r] = loaded[r]
  <2>1. loaded' = [loaded EXCEPT ![t.record] = TRUE] /\ t.record \in Records
    BY <1>2, ComputeTaskFacts DEF Task
  <2>2. QED BY <1>2, <2>1 DEF TypeOK
<1>5. TaskOK(u)'
  BY <1>1, <1>2, <1>3, <1>4 DEF TaskOK, Fresh
<1>6. ASSUME NEW v \in tasks, v # t PROVE TaskOK(v)'
  <2>1. TaskOK(v) /\ v.caller \in Callers /\ v.record \in Records
    BY <1>2 DEF IInv, TypeOK, Task
  <2>2. v.record # t.record
    BY <1>2, <1>6 DEF SingleFlight
  <2>3. v.stage = "computing" => v.index \in wg'[v.caller]
    <3>1. v.stage = "computing" => v.index \in wg[v.caller] /\ ~(v.caller = t.caller /\ v.index = t.index)
      BY <1>2, <1>6, <2>1 DEF TaskOK, OneTaskPerSlot
    <3>2. wg' = [wg EXCEPT ![t.caller] = wg[t.caller] \ {t.index}] /\ wg \in [Callers -> SUBSET Indices]
      BY <1>2, ComputeTaskFacts DEF TypeOK
    <3>3. QED BY <2>1, <3>1, <3>2
  <2>4. loaded'[v.record] = loaded[v.record]
    BY <1>4, <2>1, <2>2
  <2>5. Visited(v.caller, v.index)' <=> Visited(v.caller, v.index)
    BY <1>3 DEF Visited, InLoop
  <2>6. QED BY <1>3, <2>1, <2>3, <2>4, <2>5 DEF TaskOK, Fresh, NumberAt
<1>7. QED BY <1>1, <1>5, <1>6

\* ComputeTask preserves the part of IInv about records: what is published is
\* of the height the record was created for.
LEMMA ComputeTaskRecords == ASSUME IInv, NEW t \in tasks, ComputeTask(t), NEW r \in Records PROVE RecordOK(r)'
<1>1. TypeOK /\ t \in Task /\ TaskOK(t) /\ t.stage = "computing" /\ RecordOK(r)
  BY ComputeTaskFacts DEF IInv
<1>2. UNCHANGED <<blocks, number, mu, forgets>>
  BY ComputeTaskFacts
<1>3. CASE r # t.record
  <2>1. loaded'[r] = loaded[r]
    <3>1. loaded \in [Records -> BOOLEAN] /\ loaded' = [loaded EXCEPT ![t.record] = TRUE]
      BY <1>1, ComputeTaskFacts DEF TypeOK
    <3>2. QED BY <1>3, <3>1
  <2>2. block'[r] = block[r]
    BY <1>1, <1>3 DEF ComputeTask, Publish, TypeOK
  <2>3. QED BY <1>1, <1>2, <2>1, <2>2 DEF RecordOK, Fresh
<1>4. CASE r = t.record
  <2>1. ~Fresh(r) /\ number[r] = NumberAt(t.caller, t.index)
    BY <1>1, <1>4 DEF TaskOK
  <2>2. block'[r].of = NumberAt(t.caller, t.index)
    <3>1. PICK b \in computeTxRecords(NumberAt(t.caller, t.index)) : block' = [block EXCEPT ![t.record] = b]
      BY DEF ComputeTask, Publish
    <3>2. block'[r] = b
      BY <1>1, <1>4, <3>1 DEF TypeOK
    <3>3. b.of = NumberAt(t.caller, t.index)
      BY <3>1 DEF computeTxRecords
    <3>4. QED BY <3>2, <3>3
  <2>3. QED BY <1>1, <1>2, <2>1, <2>2 DEF RecordOK, Fresh
<1>5. QED BY <1>3, <1>4

\* The closure fills the slot before wg.Done, and keeps the mutex.
LEMMA ComputeTaskStep == ASSUME IInv, NEW t \in tasks, ComputeTask(t) PROVE IInv'
<1>1. TypeOK'
  BY ComputeTaskType DEF IInv
<1>2. \A d \in Callers : CallOK(d)'
  BY ComputeTaskCalls
<1>3. \A d \in Callers : SlotsOK(d)'
  BY ComputeTaskSlots
<1>4. \A u \in tasks' : TaskOK(u)'
  BY ComputeTaskTasks
<1>5. \A r \in Records : RecordOK(r)'
  BY ComputeTaskRecords
<1>6. MapOK'
  BY DEF ComputeTask, Publish, computeTxRecords, recordVars, callVars, IInv,
     TypeOK, MapOK
<1>7. OneTaskPerSlot'
  BY DEF ComputeTask, Publish, computeTxRecords, recordVars, callVars, IInv,
     TypeOK, Task, OneTaskPerSlot
<1>8. SingleFlight'
  BY ComputeTaskFlight
<1>9. LockedByOwner'
  BY ComputeTaskOwner
<1>10. QED BY <1>1, <1>2, <1>3, <1>4, <1>5, <1>6, <1>7, <1>8, <1>9 DEF IInv

-----------------------------------------------------------------------------
(* EndTask(t).                                                             *)

\* EndTask preserves the part of IInv about every locked record has an owner.
LEMMA EndTaskOwner == ASSUME IInv, NEW t \in tasks, EndTask(t) PROVE LockedByOwner'
<1>1. TypeOK /\ LockedByOwner /\ t.record \in Records
  BY DEF IInv, TypeOK, Task
<1>2. mu' = [mu EXCEPT ![t.record] = FALSE] /\ tasks' = tasks \ {t} /\ UNCHANGED <<pc, br, closed>>
  BY DEF EndTask, callVars
<1>3. ASSUME NEW r \in Records, mu'[r] PROVE Owned(r)' \/ closed' # {}
  <2>1. r # t.record /\ mu[r]
    BY <1>1, <1>2, <1>3 DEF TypeOK
  <2>2. Owned(r) \/ closed # {}
    BY <1>1, <2>1 DEF LockedByOwner
  <2>3. QED BY <1>2, <2>1, <2>2 DEF Owned, Holding
<1>4. QED BY <1>3 DEF LockedByOwner

\* EndTask preserves the part of IInv about closures: no other works on the
\* record that is unlocked.
LEMMA EndTaskTasks == ASSUME IInv, NEW t \in tasks, EndTask(t) PROVE \A v \in tasks' : TaskOK(v)'
<1>1. TypeOK /\ SingleFlight
  BY DEF IInv
<1>2. /\ mu' = [mu EXCEPT ![t.record] = FALSE] /\ tasks' = tasks \ {t}
      /\ UNCHANGED <<number, loaded, pc, request, index, wg>>
  BY DEF EndTask, callVars
<1>3. ASSUME NEW v \in tasks, v # t PROVE TaskOK(v)'
  <2>1. TaskOK(v) /\ v.record \in Records /\ v.record # t.record
    BY <1>1, <1>3 DEF IInv, TypeOK, Task, SingleFlight
  <2>2. mu'[v.record] = mu[v.record]
    BY <1>1, <1>2, <2>1 DEF TypeOK
  <2>3. Visited(v.caller, v.index)' <=> Visited(v.caller, v.index)
    BY <1>2 DEF Visited, InLoop
  <2>4. QED BY <1>2, <2>1, <2>2, <2>3 DEF TaskOK, Fresh, NumberAt
<1>4. QED BY <1>2, <1>3

\* The deferred Unlock frees a mutex no other activity holds.
LEMMA EndTaskStep == ASSUME IInv, NEW t \in tasks, EndTask(t) PROVE IInv'
<1>1. TypeOK'
  BY DEF EndTask, recordVars, callVars, IInv,
     TypeOK, Points, Task, Indices
<1>2. \A d \in Callers : CallOK(d)'
  BY DEF EndTask, recordVars, callVars, IInv,
     TypeOK, CallOK, InLoop, HasRecord, NumberAt, Indices
<1>3. \A d \in Callers : SlotsOK(d)'
  BY DEF EndTask, recordVars, callVars, IInv,
     TypeOK, SlotsOK, Visited, InLoop, NumberAt, Indices
<1>4. \A u \in tasks' : TaskOK(u)'
  BY EndTaskTasks
<1>5. \A r \in Records : RecordOK(r)'
  BY DEF EndTask, recordVars, callVars, IInv,
     TypeOK, RecordOK, Fresh
<1>6. MapOK'
  BY DEF EndTask, recordVars, callVars, IInv,
     TypeOK, MapOK
<1>7. OneTaskPerSlot'
  BY DEF EndTask, recordVars, callVars, IInv,
     TypeOK, Task, OneTaskPerSlot
<1>8. SingleFlight'
  BY DEF EndTask, recordVars, callVars, IInv,
     TypeOK, SingleFlight, Holding
<1>9. LockedByOwner'
  BY EndTaskOwner
<1>10. QED BY <1>1, <1>2, <1>3, <1>4, <1>5, <1>6, <1>7, <1>8, <1>9 DEF IInv

-----------------------------------------------------------------------------
(* ComputeInline(c).                                                       *)

\* What ComputeInline does to the state, conjunct by conjunct.
LEMMA ComputeInlineFacts ==
  ASSUME IInv, NEW c \in Callers, ComputeInline(c)
  PROVE  /\ TypeOK /\ CallOK(c) /\ InLoop(c) /\ Advance(c) /\ Holding(c)
         /\ br[c] \in Records
         /\ loaded' = [loaded EXCEPT ![br[c]] = TRUE]
         /\ mu' = [mu EXCEPT ![br[c]] = FALSE]
         /\ UNCHANGED <<blocks, number, request, pool, br, wg, tasks, closed, forgets>>
<1>1. TypeOK /\ CallOK(c) /\ InLoop(c) /\ Advance(c) /\ HasRecord(c) /\ Holding(c)
  BY DEF IInv, ComputeInline, InLoop, HasRecord, Holding
<1>2. QED BY <1>1 DEF ComputeInline, Publish, CallOK

\* ComputeInline preserves the part of IInv about types.
LEMMA ComputeInlineType == ASSUME NEW c \in Callers, TypeOK, CallOK(c), ComputeInline(c) PROVE TypeOK'
<1>1. index[c] \in Indices /\ br[c] \in Records
  BY RequestsAssumption DEF ComputeInline, CallOK, InLoop, HasRecord, Indices, TypeOK
<1>2. /\ block' \in [Records -> [of : Nat \cup {NoBlock}, kind : {"unset", "list", "nil"}]]
      /\ loaded' \in [Records -> BOOLEAN]
      /\ slot' \in [Callers -> [Indices -> Records \cup {NoRecord}]]
  BY <1>1, PublishType DEF ComputeInline
<1>3. pc' \in [Callers -> Points] /\ index' \in [Callers -> Nat]
  BY AdvanceType DEF ComputeInline, InLoop
<1>5. QED BY <1>2, <1>3 DEF ComputeInline, TypeOK

\* ComputeInline preserves the part of IInv about calls.
LEMMA ComputeInlineCalls == ASSUME IInv, NEW c \in Callers, ComputeInline(c) PROVE \A d \in Callers : CallOK(d)'
BY ComputeInlineFacts, AdvanceKeepsCalls DEF IInv

\* ComputeInline leaves the records of others alone.
LEMMA ComputeInlineOthers ==
  ASSUME IInv, NEW c \in Callers, ComputeInline(c)
  PROVE  /\ \A r \in Records : r # br[c] => mu'[r] = mu[r] /\ loaded'[r] = loaded[r]
         /\ \A t \in tasks : t.record # br[c] /\ t.record \in Records
         /\ \A d \in Callers : Holding(d) => br[d] \in Records /\ (d # c => br[d] # br[c])
         /\ \A d \in Callers : Holding(d)' <=> Holding(d) /\ d # c
         /\ SingleFlight
<1>1. \A r \in Records : r # br[c] => mu'[r] = mu[r] /\ loaded'[r] = loaded[r]
  BY ComputeInlineFacts DEF TypeOK
<1>2. \A t \in tasks : t.record # br[c] /\ t.record \in Records
  BY ComputeInlineFacts DEF IInv, SingleFlight, TypeOK, Task
<1>3. \A d \in Callers : Holding(d) => br[d] \in Records /\ (d # c => br[d] # br[c])
  BY ComputeInlineFacts DEF IInv, SingleFlight, CallOK, Holding, HasRecord
<1>4. QED BY <1>1, <1>2, <1>3, ComputeInlineFacts, AdvanceHolders DEF IInv

\* ComputeInline preserves the part of IInv about closures.
LEMMA ComputeInlineTasks == ASSUME IInv, NEW c \in Callers, ComputeInline(c) PROVE \A t \in tasks' : TaskOK(t)'
<1>1. ASSUME NEW t \in tasks PROVE TaskOK(t)'
  <2>1. mu'[t.record] = mu[t.record] /\ loaded'[t.record] = loaded[t.record]
    BY ComputeInlineOthers
  <2>2. QED BY <2>1, ComputeInlineFacts, AdvanceKeepsTasks DEF IInv
<1>2. QED BY <1>1, ComputeInlineFacts

\* ComputeInline preserves the part of IInv about single flight.
LEMMA ComputeInlineFlight == ASSUME IInv, NEW c \in Callers, ComputeInline(c) PROVE SingleFlight'
<1>1. \A d \in Callers : Holding(d)' => mu'[br'[d]] /\ ~loaded'[br'[d]]
  BY ComputeInlineFacts, ComputeInlineOthers DEF SingleFlight
<1>2. \A t \in tasks' : mu'[t.record] /\ (t.stage = "computing" => ~loaded'[t.record])
  BY ComputeInlineFacts, ComputeInlineOthers DEF SingleFlight
<1>3. QED BY <1>1, <1>2, ComputeInlineFacts, ComputeInlineOthers DEF SingleFlight

\* ComputeInline preserves the part of IInv about every locked record has an owner.
LEMMA ComputeInlineOwner == ASSUME IInv, NEW c \in Callers, ComputeInline(c) PROVE LockedByOwner'
<1>1. ASSUME NEW r \in Records, mu'[r] PROVE Owned(r)' \/ closed' # {}
  <2>1. r # br[c] /\ mu[r]
    BY <1>1, ComputeInlineFacts, ComputeInlineOthers DEF TypeOK
  <2>2. Owned(r) \/ closed # {}
    BY <2>1 DEF IInv, LockedByOwner
  <2>3. QED BY <2>1, <2>2, ComputeInlineFacts, ComputeInlineOthers DEF Owned
<1>2. QED BY <1>1 DEF LockedByOwner

\* ComputeInline preserves the part of IInv about slots.
LEMMA ComputeInlineSlots == ASSUME IInv, NEW c \in Callers, ComputeInline(c) PROVE \A d \in Callers : SlotsOK(d)'
<1>1. /\ TypeOK /\ CallOK(c) /\ InLoop(c) /\ Advance(c) /\ HasRecord(c) /\ index[c] \in Indices
      /\ br[c] \in Records /\ number[br[c]] = NumberAt(c, index[c])
      /\ slot' = [slot EXCEPT ![c][index[c]] = br[c]]
      /\ loaded' = [loaded EXCEPT ![br[c]] = TRUE]
      /\ UNCHANGED <<number, request, wg>>
  <2>1. CallOK(c) /\ InLoop(c) /\ HasRecord(c)
    BY DEF IInv, ComputeInline, InLoop, HasRecord
  <2>2. index[c] \in Indices
    BY <2>1, SlotRange DEF CallOK, IInv
  <2>3. slot' = [slot EXCEPT ![c][index[c]] = br[c]]
    BY DEF ComputeInline, Publish
  <2>4. QED BY <2>1, <2>2, <2>3, ComputeInlineFacts DEF CallOK
<1>2. slot \in [Callers -> [Indices -> Records \cup {NoRecord}]] /\ loaded \in [Records -> BOOLEAN]
  BY <1>1 DEF TypeOK
<1> SUFFICES ASSUME NEW d \in Callers, NEW i \in 1 .. request[d].size, Visited(d, i)', i \notin wg[d]
             PROVE  /\ slot'[d][i] \in Records
                    /\ loaded'[slot'[d][i]]
                    /\ number[slot'[d][i]] = NumberAt(d, i)
  BY <1>1 DEF SlotsOK, NumberAt
<1>3. i \in Indices
  BY <1>1, SlotRange
<1>4. CASE d = c /\ i = index[c]
  <2>1. slot'[d][i] = br[c]
    BY <1>1, <1>2, <1>3, <1>4
  <2>2. QED BY <1>1, <1>2, <1>4, <2>1
<1>5. CASE ~(d = c /\ i = index[c])
  <2>1. slot'[d][i] = slot[d][i]
    BY <1>1, <1>2, <1>3, <1>5
  <2>2. Visited(d, i)
    BY <1>1, <1>5, AdvanceFacts DEF Visited, InLoop
  <2>3. slot[d][i] \in Records /\ loaded[slot[d][i]] /\ number[slot[d][i]] = NumberAt(d, i)
    BY <2>2 DEF IInv, SlotsOK
  <2>4. loaded'[slot[d][i]]
    BY <1>1, <1>2, <2>3
  <2>5. QED BY <2>1, <2>3, <2>4
<1>6. QED BY <1>4, <1>5

\* ComputeInline preserves the part of IInv about records.
LEMMA ComputeInlineRecords == ASSUME IInv, NEW c \in Callers, ComputeInline(c), NEW r \in Records PROVE RecordOK(r)'
<1>1. TypeOK /\ CallOK(c) /\ br[c] \in Records /\ RecordOK(r) /\ pc[c] = "compute"
  BY ComputeInlineFacts DEF IInv, ComputeInline
<1>2. UNCHANGED <<blocks, number, forgets>>
  BY ComputeInlineFacts
<1>3. CASE r # br[c]
  <2>1. loaded'[r] = loaded[r] /\ mu'[r] = mu[r]
    BY <1>3, ComputeInlineOthers
  <2>2. block'[r] = block[r]
    BY <1>1, <1>3 DEF ComputeInline, Publish, TypeOK
  <2>3. QED BY <1>1, <1>2, <2>1, <2>2 DEF RecordOK, Fresh
<1>4. CASE r = br[c]
  <2>1. number[r] = NumberAt(c, index[c]) /\ number[r] \in BlockNumbers
    BY <1>1, <1>4 DEF CallOK, HasRecord, InLoop
  <2>2. block'[r].of = NumberAt(c, index[c])
    <3>1. PICK b \in computeTxRecords(NumberAt(c, index[c])) : block' = [block EXCEPT ![br[c]] = b]
      BY DEF ComputeInline, Publish
    <3>2. block'[r] = b
      BY <1>1, <1>4, <3>1 DEF TypeOK
    <3>3. b.of = NumberAt(c, index[c])
      BY <3>1 DEF computeTxRecords
    <3>4. QED BY <3>2, <3>3
  <2>3. ~Fresh(r)
    BY <2>1, NumbersAssumption DEF Fresh
  <2>4. QED BY <1>1, <1>2, <2>1, <2>2, <2>3 DEF RecordOK, Fresh
<1>5. QED BY <1>3, <1>4

\* Without a pool the caller publishes and unlocks by itself.
LEMMA ComputeInlineStep == ASSUME IInv, NEW c \in Callers, ComputeInline(c) PROVE IInv'
<1>1. TypeOK'
  BY ComputeInlineType DEF IInv
<1>2. \A d \in Callers : CallOK(d)'
  BY ComputeInlineCalls
<1>3. \A d \in Callers : SlotsOK(d)'
  BY ComputeInlineSlots
<1>4. \A u \in tasks' : TaskOK(u)'
  BY ComputeInlineTasks
<1>5. \A r \in Records : RecordOK(r)'
  BY ComputeInlineRecords
<1>6. MapOK'
  BY DEF ComputeInline, Publish, computeTxRecords, Advance, recordVars, callVars, IInv,
     TypeOK, MapOK
<1>7. OneTaskPerSlot'
  BY DEF ComputeInline, Publish, computeTxRecords, Advance, recordVars, callVars, IInv,
     TypeOK, Task, OneTaskPerSlot
<1>8. SingleFlight'
  BY ComputeInlineFlight
<1>9. LockedByOwner'
  BY ComputeInlineOwner
<1>10. QED BY <1>1, <1>2, <1>3, <1>4, <1>5, <1>6, <1>7, <1>8, <1>9 DEF IInv

-----------------------------------------------------------------------------
(* Return(c).                                                              *)

\* Return preserves the part of IInv about every locked record has an owner.
LEMMA ReturnOwner == ASSUME IInv, NEW c \in Callers, Return(c) PROVE LockedByOwner'
<1>1. \A d \in Callers : Holding(d) => Holding(d)' /\ br'[d] = br[d]
  BY DEF Return, callVars, Holding, IInv, TypeOK
<1>2. QED BY <1>1, OwnersKept DEF Return, recordVars, IInv

\* wg.Wait returns when no slot is pending.
LEMMA ReturnStep == ASSUME IInv, NEW c \in Callers, Return(c) PROVE IInv'
<1>1. TypeOK'
  BY DEF Return, recordVars, callVars, IInv,
     TypeOK, Points, Task, Indices
<1>2. \A d \in Callers : CallOK(d)'
  BY DEF Return, recordVars, callVars, IInv,
     TypeOK, CallOK, InLoop, HasRecord, NumberAt, Indices
<1>3. \A d \in Callers : SlotsOK(d)'
  BY DEF Return, recordVars, callVars, IInv,
     TypeOK, SlotsOK, Visited, InLoop, NumberAt, Indices
<1>4. \A u \in tasks' : TaskOK(u)'
  BY DEF Return, recordVars, callVars, IInv,
     TypeOK, Task, TaskOK, Visited, InLoop, NumberAt, Fresh
<1>5. \A r \in Records : RecordOK(r)'
  BY DEF Return, recordVars, callVars, IInv,
     TypeOK, RecordOK, Fresh
<1>6. MapOK'
  BY DEF Return, recordVars, callVars, IInv,
     TypeOK, MapOK
<1>7. OneTaskPerSlot'
  BY DEF Return, recordVars, callVars, IInv,
     TypeOK, Task, OneTaskPerSlot
<1>8. SingleFlight'
  BY DEF Return, recordVars, callVars, IInv,
     TypeOK, SingleFlight, Holding
<1>9. LockedByOwner'
  BY ReturnOwner
<1>10. QED BY <1>1, <1>2, <1>3, <1>4, <1>5, <1>6, <1>7, <1>8, <1>9 DEF IInv

-----------------------------------------------------------------------------
(* Forget(q).                                                              *)

\* Forget preserves the part of IInv about every locked record has an owner.
LEMMA ForgetOwner == ASSUME IInv, NEW q \in ForgetRanges, Forget(q) PROVE LockedByOwner'
<1>1. \A d \in Callers : Holding(d) => Holding(d)' /\ br'[d] = br[d]
  BY DEF Forget, callVars, Holding
<1>2. QED BY <1>1, OwnersKept DEF Forget, recordVars, IInv

\* A range is deleted from the map; records live on in the slices.
LEMMA ForgetStep == ASSUME IInv, NEW q \in ForgetRanges, Forget(q) PROVE IInv'
<1>1. TypeOK'
  BY DEF Forget, ForgetBlockRange, recordVars, callVars, IInv,
     TypeOK, Points, Task, Indices
<1>2. \A d \in Callers : CallOK(d)'
  BY DEF Forget, ForgetBlockRange, recordVars, callVars, IInv,
     TypeOK, CallOK, InLoop, HasRecord, NumberAt, Indices
<1>3. \A d \in Callers : SlotsOK(d)'
  BY DEF Forget, ForgetBlockRange, recordVars, callVars, IInv,
     TypeOK, SlotsOK, Visited, InLoop, NumberAt, Indices
<1>4. \A u \in tasks' : TaskOK(u)'
  BY DEF Forget, ForgetBlockRange, recordVars, callVars, IInv,
     TypeOK, Task, TaskOK, Visited, InLoop, NumberAt, Fresh
<1>5. \A r \in Records : RecordOK(r)'
  BY DEF Forget, ForgetBlockRange, recordVars, callVars, IInv,
     TypeOK, RecordOK, Fresh
<1>6. MapOK'
  BY DEF Forget, ForgetBlockRange, recordVars, callVars, IInv,
     TypeOK, MapOK
<1>7. OneTaskPerSlot'
  BY DEF Forget, ForgetBlockRange, recordVars, callVars, IInv,
     TypeOK, Task, OneTaskPerSlot
<1>8. SingleFlight'
  BY DEF Forget, ForgetBlockRange, recordVars, callVars, IInv,
     TypeOK, SingleFlight, Holding
<1>9. LockedByOwner'
  BY ForgetOwner
<1>10. QED BY <1>1, <1>2, <1>3, <1>4, <1>5, <1>6, <1>7, <1>8, <1>9 DEF IInv

-----------------------------------------------------------------------------
(* CloseWindow(c).                                                         *)

\* CloseWindow preserves the part of IInv about every locked record has an owner.
LEMMA CloseWindowOwner == ASSUME IInv, NEW c \in Callers, CloseWindow(c) PROVE LockedByOwner'
<1>1. \A d \in Callers : Holding(d) => Holding(d)' /\ br'[d] = br[d]
  BY DEF CloseWindow, callVars, Holding, IInv, TypeOK
<1>2. QED BY <1>1, OwnersKept DEF CloseWindow, recordVars, IInv

\* The window's Close deletes the range of its session.
LEMMA CloseWindowStep == ASSUME IInv, NEW c \in Callers, CloseWindow(c) PROVE IInv'
<1>1. TypeOK'
  BY DEF CloseWindow, ForgetSession, ForgetBlockRange, recordVars, callVars, IInv,
     TypeOK, Points, Task, Indices
<1>2. \A d \in Callers : CallOK(d)'
  BY DEF CloseWindow, ForgetSession, ForgetBlockRange, recordVars, callVars, IInv,
     TypeOK, CallOK, InLoop, HasRecord, NumberAt, Indices
<1>3. \A d \in Callers : SlotsOK(d)'
  BY DEF CloseWindow, ForgetSession, ForgetBlockRange, recordVars, callVars, IInv,
     TypeOK, SlotsOK, Visited, InLoop, NumberAt, Indices
<1>4. \A u \in tasks' : TaskOK(u)'
  BY DEF CloseWindow, ForgetSession, ForgetBlockRange, recordVars, callVars, IInv,
     TypeOK, Task, TaskOK, Visited, InLoop, NumberAt, Fresh
<1>5. \A r \in Records : RecordOK(r)'
  BY DEF CloseWindow, ForgetSession, ForgetBlockRange, recordVars, callVars, IInv,
     TypeOK, RecordOK, Fresh
<1>6. MapOK'
  BY DEF CloseWindow, ForgetSession, ForgetBlockRange, recordVars, callVars, IInv,
     TypeOK, MapOK
<1>7. OneTaskPerSlot'
  BY DEF CloseWindow, ForgetSession, ForgetBlockRange, recordVars, callVars, IInv,
     TypeOK, Task, OneTaskPerSlot
<1>8. SingleFlight'
  BY DEF CloseWindow, ForgetSession, ForgetBlockRange, recordVars, callVars, IInv,
     TypeOK, SingleFlight, Holding
<1>9. LockedByOwner'
  BY CloseWindowOwner
<1>10. QED BY <1>1, <1>2, <1>3, <1>4, <1>5, <1>6, <1>7, <1>8, <1>9 DEF IInv

-----------------------------------------------------------------------------
(* CloseSession(c).                                                        *)

\* A caller that holds nothing may drop its locals.
LEMMA DropOwner == ASSUME IInv, NEW c \in Callers, ~Holding(c), Drop(c), UNCHANGED <<mu, tasks, closed>> PROVE LockedByOwner'
<1>1. \A d \in Callers : Holding(d) => Holding(d)' /\ br'[d] = br[d]
  BY DEF Drop, Holding, IInv, TypeOK
<1>2. QED BY <1>1, OwnersKept DEF IInv

\* Dropping the locals of a call keeps their types.
LEMMA DropType ==
  ASSUME TypeOK, NEW c \in Callers, Drop(c)
  PROVE  /\ pc' \in [Callers -> Points] /\ index' \in [Callers -> Nat]
         /\ request' \in [Callers -> [from : Nat, size : 0 .. MaxSize]]
         /\ pool' \in [Callers -> Pools \cup {NoPool}]
         /\ br' \in [Callers -> Records \cup {NoRecord}]
         /\ slot' \in [Callers -> [Indices -> Records \cup {NoRecord}]]
<1>1. NoRequest \in [from : Nat, size : 0 .. MaxSize]
  BY RequestsAssumption DEF NoRequest
<1>2. request' \in [Callers -> [from : Nat, size : 0 .. MaxSize]]
  BY <1>1 DEF Drop, TypeOK
<1>3. pc' \in [Callers -> Points] /\ index' \in [Callers -> Nat]
  BY DEF Drop, TypeOK, Points
<1>4. pool' \in [Callers -> Pools \cup {NoPool}] /\ br' \in [Callers -> Records \cup {NoRecord}]
  BY DEF Drop, TypeOK
<1>5. slot' \in [Callers -> [Indices -> Records \cup {NoRecord}]]
  BY DEF Drop, TypeOK
<1>6. QED BY <1>2, <1>3, <1>4, <1>5

\* The session's Close deletes the range once more and drops the slice.
LEMMA CloseSessionStep == ASSUME IInv, NEW c \in Callers, CloseSession(c) PROVE IInv'
<1>1. TypeOK'
  <2>1. TypeOK /\ Drop(c) /\ forgets' = forgets + 1 /\ UNCHANGED <<number, recordVars, wg, tasks, closed>>
    BY DEF IInv, CloseSession, ForgetSession, ForgetBlockRange
  <2>2. blocks' \in [BlockNumbers -> Records \cup {NoRecord}]
    BY DEF IInv, TypeOK, CloseSession, ForgetSession, ForgetBlockRange
  <2>3. QED BY <2>1, <2>2, DropType DEF TypeOK, recordVars
<1>2. \A d \in Callers : CallOK(d)'
  BY DEF CloseSession, ForgetSession, ForgetBlockRange, Drop, NoRequest, recordVars, callVars, IInv,
     TypeOK, CallOK, InLoop, HasRecord, NumberAt, Indices
<1>3. \A d \in Callers : SlotsOK(d)'
  BY DEF CloseSession, ForgetSession, ForgetBlockRange, Drop, NoRequest, recordVars, callVars, IInv,
     TypeOK, SlotsOK, Visited, InLoop, NumberAt, Indices
<1>4. \A u \in tasks' : TaskOK(u)'
  BY DEF CloseSession, ForgetSession, ForgetBlockRange, Drop, NoRequest, recordVars, callVars, IInv,
     TypeOK, Task, TaskOK, Visited, InLoop, NumberAt, Fresh
<1>5. \A r \in Records : RecordOK(r)'
  BY DEF CloseSession, ForgetSession, ForgetBlockRange, Drop, NoRequest, recordVars, callVars, IInv,
     TypeOK, RecordOK, Fresh
<1>6. MapOK'
  BY DEF CloseSession, ForgetSession, ForgetBlockRange, Drop, NoRequest, recordVars, callVars, IInv,
     TypeOK, MapOK
<1>7. OneTaskPerSlot'
  BY DEF CloseSession, ForgetSession, ForgetBlockRange, Drop, NoRequest, recordVars, callVars, IInv,
     TypeOK, Task, OneTaskPerSlot
<1>8. SingleFlight'
  BY DEF CloseSession, ForgetSession, ForgetBlockRange, Drop, NoRequest, recordVars, callVars, IInv,
     TypeOK, SingleFlight, Holding
<1>9. LockedByOwner'
  BY DropOwner DEF CloseSession, Holding, recordVars
<1>10. QED BY <1>1, <1>2, <1>3, <1>4, <1>5, <1>6, <1>7, <1>8, <1>9 DEF IInv

-----------------------------------------------------------------------------
(* Discard(c).                                                             *)

\* A prefetcher drops its slice and deletes nothing.
LEMMA DiscardStep == ASSUME IInv, NEW c \in Callers, Discard(c) PROVE IInv'
<1>1. TypeOK'
  BY DropType DEF Discard, IInv, TypeOK, recordVars
<1>2. \A d \in Callers : CallOK(d)'
  BY DEF Discard, Drop, NoRequest, recordVars, callVars, IInv,
     TypeOK, CallOK, InLoop, HasRecord, NumberAt, Indices
<1>3. \A d \in Callers : SlotsOK(d)'
  BY DEF Discard, Drop, NoRequest, recordVars, callVars, IInv,
     TypeOK, SlotsOK, Visited, InLoop, NumberAt, Indices
<1>4. \A u \in tasks' : TaskOK(u)'
  BY DEF Discard, Drop, NoRequest, recordVars, callVars, IInv,
     TypeOK, Task, TaskOK, Visited, InLoop, NumberAt, Fresh
<1>5. \A r \in Records : RecordOK(r)'
  BY DEF Discard, Drop, NoRequest, recordVars, callVars, IInv,
     TypeOK, RecordOK, Fresh
<1>6. MapOK'
  BY DEF Discard, Drop, NoRequest, recordVars, callVars, IInv,
     TypeOK, MapOK
<1>7. OneTaskPerSlot'
  BY DEF Discard, Drop, NoRequest, recordVars, callVars, IInv,
     TypeOK, Task, OneTaskPerSlot
<1>8. SingleFlight'
  BY DEF Discard, Drop, NoRequest, recordVars, callVars, IInv,
     TypeOK, SingleFlight, Holding
<1>9. LockedByOwner'
  BY DropOwner DEF Discard, Holding, recordVars
<1>10. QED BY <1>1, <1>2, <1>3, <1>4, <1>5, <1>6, <1>7, <1>8, <1>9 DEF IInv

-----------------------------------------------------------------------------
(* ReleasePool(p).                                                         *)

\* Releasing a pool only closes it.
LEMMA ReleasePoolStep == ASSUME IInv, NEW p \in Pools, ReleasePool(p) PROVE IInv'
<1>1. TypeOK'
  BY DEF ReleasePool, recordVars, callVars, IInv,
     TypeOK, Points, Task, Indices
<1>2. \A d \in Callers : CallOK(d)'
  BY DEF ReleasePool, recordVars, callVars, IInv,
     TypeOK, CallOK, InLoop, HasRecord, NumberAt, Indices
<1>3. \A d \in Callers : SlotsOK(d)'
  BY DEF ReleasePool, recordVars, callVars, IInv,
     TypeOK, SlotsOK, Visited, InLoop, NumberAt, Indices
<1>4. \A u \in tasks' : TaskOK(u)'
  BY DEF ReleasePool, recordVars, callVars, IInv,
     TypeOK, Task, TaskOK, Visited, InLoop, NumberAt, Fresh
<1>5. \A r \in Records : RecordOK(r)'
  BY DEF ReleasePool, recordVars, callVars, IInv,
     TypeOK, RecordOK, Fresh
<1>6. MapOK'
  BY DEF ReleasePool, recordVars, callVars, IInv,
     TypeOK, MapOK
<1>7. OneTaskPerSlot'
  BY DEF ReleasePool, recordVars, callVars, IInv,
     TypeOK, Task, OneTaskPerSlot
<1>8. SingleFlight'
  BY DEF ReleasePool, recordVars, callVars, IInv,
     TypeOK, SingleFlight, Holding
<1>9. LockedByOwner'
  BY DEF ReleasePool, recordVars, callVars, IInv,
     TypeOK, LockedByOwner, Owned, Holding
<1>10. QED BY <1>1, <1>2, <1>3, <1>4, <1>5, <1>6, <1>7, <1>8, <1>9 DEF IInv

-----------------------------------------------------------------------------
(* The theorems.                                                           *)

\* Nothing is cached, locked or running initially.
LEMMA InitInv == ASSUME Init PROVE IInv
<1>1. TypeOK
  BY BoundAssumption, RequestsAssumption DEF Init, TypeOK, Points, Task, Indices, NoRequest
<1>2. \A c \in Callers : CallOK(c) /\ SlotsOK(c)
  BY DEF Init, CallOK, SlotsOK, InLoop, HasRecord, NoRequest
<1>3. (\A t \in tasks : TaskOK(t)) /\ OneTaskPerSlot
  BY DEF Init, OneTaskPerSlot
<1>4. (\A r \in Records : RecordOK(r)) /\ MapOK
  BY DEF Init, RecordOK, MapOK, Fresh
<1>5. SingleFlight /\ LockedByOwner
  BY DEF Init, SingleFlight, LockedByOwner, Holding
<1>6. QED BY <1>1, <1>2, <1>3, <1>4, <1>5 DEF IInv

\* A step that changes nothing preserves IInv.
LEMMA StutterStep == ASSUME IInv, UNCHANGED vars PROVE IInv'
<1> USE DEF vars, recordVars, callVars, IInv
<1>1. TypeOK'
  BY DEF TypeOK
<1>2. (\A c \in Callers : CallOK(c)') /\ (\A c \in Callers : SlotsOK(c)')
  BY DEF CallOK, SlotsOK, Visited, InLoop, HasRecord, NumberAt
<1>3. (\A t \in tasks' : TaskOK(t)') /\ OneTaskPerSlot'
  BY DEF TaskOK, OneTaskPerSlot, Visited, InLoop, NumberAt, Fresh
<1>4. (\A r \in Records : RecordOK(r)') /\ MapOK'
  BY DEF RecordOK, MapOK, Fresh
<1>5. SingleFlight' /\ LockedByOwner'
  BY DEF SingleFlight, LockedByOwner, Owned, Holding
<1>6. QED BY <1>1, <1>2, <1>3, <1>4, <1>5

\* Every step of the cache preserves IInv.
LEMMA NextInv == ASSUME IInv, [Next]_vars PROVE IInv'
<1>1. CASE \E c \in Callers : \E q \in Requests, p \in PoolsOf[c] : Acquire(c, q, p)
  BY <1>1, AcquireStep
<1>2. ASSUME NEW c \in Callers, CallStep(c) PROVE IInv'
  BY <1>2, LoadOrStoreStep, UseLoadedStep, LockUnloadedStep, SubmitStep,
     SubmitRejectedStep, StartTaskStep, ComputeInlineStep, ReturnStep DEF CallStep
<1>3. ASSUME NEW t \in tasks, TaskStep(t) PROVE IInv'
  BY <1>3, ComputeTaskStep, EndTaskStep DEF TaskStep
<1>4. ASSUME NEW c \in Callers, SessionStep(c) PROVE IInv'
  BY <1>4, CloseWindowStep, CloseSessionStep, DiscardStep DEF SessionStep
<1>5. CASE \E q \in ForgetRanges : Forget(q)
  BY <1>5, ForgetStep
<1>6. CASE \E p \in Pools : ReleasePool(p)
  BY <1>6, ReleasePoolStep
<1>7. CASE UNCHANGED vars
  BY <1>7, StutterStep
<1>8. QED BY <1>1, <1>2, <1>3, <1>4, <1>5, <1>6, <1>7 DEF Next

\* IInv holds in every state the cache reaches (AcquireBlocks, the sessions'
\* Close, the prefetchers and the release of a pool, in any interleaving).
THEOREM Invariance == Spec => []IInv
<1>1. Init => IInv
  BY InitInv
<1>2. IInv /\ [Next]_vars => IInv'
  BY NextInv
<1>3. QED BY <1>1, <1>2, PTL DEF Spec

\* Every variable of the cache keeps its type.
THEOREM TypeCorrect == Spec => []TypeOK
<1>1. IInv => TypeOK
  BY DEF IInv
<1>2. QED BY <1>1, Invariance, PTL

\* Exactly one activity is responsible for a locked record of AcquireBlocks:
\* no block is computed twice in a record, no mutex unlocked twice.
THEOREM SingleFlightHolds == Spec => []SingleFlight
<1>1. IInv => SingleFlight
  BY DEF IInv
<1>2. QED BY <1>1, Invariance, PTL

\* A record stays locked without an owner only after a pool was released.
THEOREM LockedByOwnerHolds == Spec => []LockedByOwner
<1>1. IInv => LockedByOwner
  BY DEF IInv
<1>2. QED BY <1>1, Invariance, PTL

\* What AcquireBlocks returns is complete: every slot holds the finished block
\* of the height asked for.
THEOREM ResultsCompleteHolds == Spec => []ResultsComplete
<1>1. ASSUME IInv PROVE ResultsComplete
  <2> SUFFICES ASSUME NEW c \in Callers, pc[c] = "open", NEW i \in 1 .. request[c].size
               PROVE  /\ slot[c][i] # NoRecord
                      /\ loaded[slot[c][i]]
                      /\ block[slot[c][i]].of = NumberAt(c, i)
    BY DEF ResultsComplete
  <2>1. SlotsOK(c) /\ wg[c] = {} /\ Visited(c, i)
    BY <1>1 DEF IInv, CallOK, Visited
  <2>2. slot[c][i] \in Records /\ loaded[slot[c][i]] /\ number[slot[c][i]] = NumberAt(c, i)
    BY <2>1 DEF SlotsOK
  <2>3. RecordOK(slot[c][i])
    BY <1>1, <2>2 DEF IInv
  <2>4. QED BY <2>2, <2>3, RecordsAssumption DEF RecordOK
<1>2. QED BY <1>1, Invariance, PTL

\* Before the first deletion no height is ever fetched into two records.
THEOREM OneFetch == Spec => []OneFetchUntilForgotten
<1>1. ASSUME IInv PROVE OneFetchUntilForgotten
  <2> SUFFICES ASSUME forgets = 0, NEW r \in Records, NEW s \in Records,
                      number[r] = number[s], ~Fresh(r)
               PROVE  r = s
    BY DEF OneFetchUntilForgotten
  <2>1. RecordOK(r) /\ RecordOK(s) /\ ~Fresh(s)
    BY <1>1 DEF IInv, Fresh
  <2>2. blocks[number[r]] = r /\ blocks[number[s]] = s
    BY <2>1 DEF RecordOK
  <2>3. QED BY <2>2
<1>2. QED BY <1>1, Invariance, PTL

\* A block that a record has published is never changed or withdrawn: sessions
\* may share it without a lock.
THEOREM Immutable == Spec => PublishedIsImmutable
<1>1. ASSUME IInv, [Next]_vars
      PROVE  \A r \in Records : loaded[r] => loaded'[r] /\ block'[r] = block[r]
  <2> DEFINE Kept == \A r \in Records : loaded[r] => loaded'[r] /\ block'[r] = block[r]
  <2>1. ASSUME UNCHANGED <<loaded, block>> PROVE Kept
    BY <2>1
  <2>2. ASSUME NEW c \in Callers, ComputeInline(c) PROVE Kept
    <3>1. br[c] \in Records /\ ~loaded[br[c]] /\ TypeOK
      BY <1>1, <2>2 DEF IInv, ComputeInline, CallOK, HasRecord, SingleFlight, Holding
    <3>2. /\ loaded' = [loaded EXCEPT ![br[c]] = TRUE]
          /\ \E b \in computeTxRecords(NumberAt(c, index[c])) : block' = [block EXCEPT ![br[c]] = b]
      BY <2>2 DEF ComputeInline, Publish
    <3>3. QED BY <3>1, <3>2 DEF TypeOK
  <2>3. ASSUME NEW t \in tasks, ComputeTask(t) PROVE Kept
    <3>1. t.record \in Records /\ ~loaded[t.record] /\ TypeOK
      BY <1>1, <2>3 DEF IInv, TypeOK, Task, ComputeTask, SingleFlight
    <3>2. /\ loaded' = [loaded EXCEPT ![t.record] = TRUE]
          /\ \E b \in computeTxRecords(NumberAt(t.caller, t.index)) : block' = [block EXCEPT ![t.record] = b]
      BY <2>3 DEF ComputeTask, Publish
    <3>3. QED BY <3>1, <3>2 DEF TypeOK
  <2>4. ASSUME NEW c \in Callers, CallStep(c) PROVE Kept
    BY <2>1, <2>2, <2>4 DEF CallStep, LoadOrStore, UseLoaded, LockUnloaded, Claim, Submit,
       SubmitRejected, StartTask, Return, recordVars
  <2>5. ASSUME NEW t \in tasks, TaskStep(t) PROVE Kept
    BY <2>1, <2>3, <2>5 DEF TaskStep, EndTask
  <2>6. ASSUME NEW c \in Callers, SessionStep(c) PROVE Kept
    BY <2>1, <2>6 DEF SessionStep, CloseWindow, CloseSession, Discard, recordVars
  <2>7. ASSUME NEW c \in Callers, NEW q \in Requests, NEW p \in PoolsOf[c], Acquire(c, q, p) PROVE Kept
    BY <2>1, <2>7 DEF Acquire, recordVars
  <2>8. ASSUME NEW q \in ForgetRanges, Forget(q) PROVE Kept
    BY <2>1, <2>8 DEF Forget, recordVars
  <2>9. ASSUME NEW p \in Pools, ReleasePool(p) PROVE Kept
    BY <2>1, <2>9 DEF ReleasePool, recordVars
  <2>10. CASE UNCHANGED vars
    BY <2>1, <2>10 DEF vars, recordVars
  <2>11. CASE \E c \in Callers : \E q \in Requests, p \in PoolsOf[c] : Acquire(c, q, p)
    BY <2>7, <2>11
  <2>12. CASE (\E q \in ForgetRanges : Forget(q)) \/ (\E p \in Pools : ReleasePool(p))
    BY <2>8, <2>9, <2>12
  <2>13. CASE \/ \E c \in Callers : CallStep(c) \/ SessionStep(c)
              \/ \E t \in tasks : TaskStep(t)
    BY <2>4, <2>5, <2>6, <2>13
  <2>14. QED BY <1>1, <2>10, <2>11, <2>12, <2>13 DEF Next
<1>2. QED BY <1>1, Invariance, PTL DEF Spec, PublishedIsImmutable
-----------------------------------------------------------------------------
(* The cache implements BlockSupply: every action is a step of the abstract *)
(* supply or changes nothing that a session or a record shows.              *)

\* The phases of a fresh record, of one that waits to be computed, of one that
\* is locked and of one that is published.
LEMMA PhaseMeaning ==
  ASSUME NEW r \in Records
  PROVE  /\ Fresh(r) => Phase(r) = "absent"
         /\ ~Fresh(r) /\ loaded[r] => Phase(r) = "ready"
         /\ ~Fresh(r) /\ ~loaded[r] /\ mu[r] => Phase(r) = "computing"
         /\ ~Fresh(r) /\ ~loaded[r] /\ ~mu[r] => Phase(r) = "empty"
BY DEF Phase

\* The same of the next state.
LEMMA PhaseMeaningNext ==
  ASSUME NEW r \in Records
  PROVE  /\ Fresh(r)' => Phase(r)' = "absent"
         /\ ~Fresh(r)' /\ loaded'[r] => Phase(r)' = "ready"
         /\ ~Fresh(r)' /\ ~loaded'[r] /\ mu'[r] => Phase(r)' = "computing"
         /\ ~Fresh(r)' /\ ~loaded'[r] /\ ~mu'[r] => Phase(r)' = "empty"
BY DEF Phase

\* A record keeps its phase when it keeps its number and its loaded flag, and
\* its mutex unless it is published.
LEMMA PhaseKept ==
  ASSUME NEW r \in Records, number'[r] = number[r], loaded'[r] = loaded[r],
         loaded[r] \/ mu'[r] = mu[r]
  PROVE  Phase(r)' = Phase(r)
<1>1. Fresh(r)' = Fresh(r)
  BY DEF Fresh
<1>2. QED BY <1>1, PhaseMeaning, PhaseMeaningNext

\* Only a caller that returns or drops its session changes what is given.
LEMMA GivenKept ==
  ASSUME NEW c \in Callers, request'[c] = request[c],
         \A i \in 1 .. request[c].size : slot'[c][i] = slot[c][i],
         pc[c] \in {"open", "closing"} <=> pc'[c] \in {"open", "closing"}
  PROVE  Given(c)' = Given(c)
BY DEF Given

\* A caller that is not about to return or to drop a session shows nothing.
LEMMA GivenElsewhere ==
  ASSUME NEW c \in Callers, pc[c] \notin {"open", "closing"}, pc'[c] \notin {"open", "closing"}
  PROVE  Given(c)' = Given(c)
BY DEF Given

\* A step that keeps every phase, every height and what is given is a stutter
\* of the abstract supply.
LEMMA Silent ==
  ASSUME \A r \in Records : Phase(r)' = Phase(r), number' = number,
         \A c \in Callers : Given(c)' = Given(c)
  PROVE  UNCHANGED Supply!supplyVars
BY DEF Supply!supplyVars

\* Acquire is silent: nothing is given before the call returns.
LEMMA AcquireSilent ==
  ASSUME IInv, NEW c \in Callers, NEW q \in Requests, NEW p \in PoolsOf[c], Acquire(c, q, p)
  PROVE  UNCHANGED Supply!supplyVars
<1>1. \A r \in Records : Phase(r)' = Phase(r)
  BY PhaseKept DEF Acquire, recordVars
<1>2. \A d \in Callers : Given(d)' = Given(d)
  <2> SUFFICES ASSUME NEW d \in Callers PROVE Given(d)' = Given(d)
    OBVIOUS
  <2>1. CASE d # c
    BY <2>1, GivenKept DEF Acquire, IInv, TypeOK
  <2>2. CASE d = c
    BY <2>2, GivenElsewhere DEF Acquire, IInv, TypeOK
  <2>3. QED BY <2>1, <2>2
<1>3. QED BY <1>1, <1>2, Silent DEF Acquire

\* LoadOrStore creates a cell or is silent.
LEMMA LoadOrStoreMaps ==
  ASSUME IInv, NEW c \in Callers, LoadOrStore(c)
  PROVE  \/ \E x \in Records, h \in BlockNumbers : Supply!Create(x, h)
         \/ UNCHANGED Supply!supplyVars
<1>1. \A d \in Callers : Given(d)' = Given(d)
  BY GivenKept DEF LoadOrStore, IInv, TypeOK
<1>2. CASE number' = number
  <2>1. \A r \in Records : Phase(r)' = Phase(r)
    BY <1>2, PhaseKept DEF LoadOrStore, recordVars
  <2>2. QED BY <1>1, <1>2, <2>1, Silent
<1>3. CASE number' # number
  <2> DEFINE n == NumberAt(c, index[c])
  <2>1. n \in BlockNumbers
    BY DEF IInv, CallOK, LoadOrStore, InLoop
  <2>2. PICK r \in Records : New(r) /\ number' = [number EXCEPT ![r] = n]
    BY <1>3 DEF LoadOrStore
  <2>3. Fresh(r) /\ ~mu[r] /\ ~loaded[r]
    BY <2>2 DEF New, IInv, RecordOK
  <2>4. mu' = mu /\ loaded' = loaded /\ n # NoBlock /\ number'[r] = n
    BY <2>1, <2>2, NumbersAssumption DEF LoadOrStore, recordVars, IInv, TypeOK
  <2>5. Phase(r) = "absent" /\ Phase(r)' = "empty"
    <3>1. ~Fresh(r)'
      BY <2>4 DEF Fresh
    <3>2. QED BY <2>3, <2>4, <3>1, PhaseMeaning, PhaseMeaningNext
  <2>6. \A s \in Records : s # r => Phase(s)' = Phase(s)
    BY <2>2, <2>4, PhaseKept DEF IInv, TypeOK
  <2>7. Supply!Create(r, n)
    BY <1>1, <2>2, <2>5, <2>6 DEF Supply!Create
  <2>8. QED BY <2>1, <2>7
<1>4. QED BY <1>2, <1>3

\* Steps of a call that touch neither a record nor a delivered slice.
LEMMA CallSilent ==
  ASSUME IInv, NEW c \in Callers,
         UseLoaded(c) \/ Submit(c) \/ SubmitRejected(c) \/ StartTask(c)
  PROVE  UNCHANGED Supply!supplyVars
<1>1. UNCHANGED <<number, loaded, mu, request>>
  BY DEF UseLoaded, Submit, SubmitRejected, StartTask, recordVars, callVars
<1>2. \A r \in Records : Phase(r)' = Phase(r)
  BY <1>1, PhaseKept
<1>3. CallOK(c) /\ InLoop(c) /\ pc[c] \notin {"open", "closing"}
  BY DEF IInv, InLoop, UseLoaded, Submit, SubmitRejected, StartTask
<1>4. pc'[c] \notin {"open", "closing"} /\ \A d \in Callers : d # c => pc'[d] = pc[d]
  <2>1. CASE Submit(c)
    BY <2>1 DEF Submit, IInv, TypeOK
  <2>2. CASE Advance(c)
    BY <1>3, <2>2, AdvanceFacts DEF IInv
  <2>3. QED BY <2>1, <2>2 DEF UseLoaded, SubmitRejected, StartTask
<1>5. \A d \in Callers : d # c => slot'[d] = slot[d]
  BY DEF UseLoaded, Submit, SubmitRejected, StartTask, callVars, IInv, TypeOK
<1>6. \A d \in Callers : Given(d)' = Given(d)
  <2> SUFFICES ASSUME NEW d \in Callers PROVE Given(d)' = Given(d)
    OBVIOUS
  <2>1. CASE d # c
    BY <1>1, <1>4, <1>5, <2>1, GivenKept
  <2>2. CASE d = c
    BY <1>3, <1>4, <2>2, GivenElsewhere
  <2>3. QED BY <2>1, <2>2
<1>7. QED BY <1>1, <1>2, <1>6, Silent

\* Taking the mutex of a record that is not loaded starts its computation.
LEMMA LockUnloadedMaps ==
  ASSUME IInv, NEW c \in Callers, LockUnloaded(c)
  PROVE  \E x \in Records : Supply!Start(x)
<1>1. br[c] \in Records /\ number[br[c]] \in BlockNumbers /\ pc[c] = "lock"
  BY DEF LockUnloaded, IInv, CallOK, HasRecord, InLoop
<1>2. ~Fresh(br[c]) /\ ~loaded[br[c]] /\ ~mu[br[c]]
  BY <1>1, NumbersAssumption DEF LockUnloaded, Fresh
<1>3. /\ number' = number /\ loaded' = loaded /\ slot' = slot /\ request' = request
      /\ mu' = [mu EXCEPT ![br[c]] = TRUE]
      /\ pc' = [pc EXCEPT ![c] = IF pool[c] = NoPool THEN "compute" ELSE "submit"]
  BY DEF LockUnloaded, Claim, callVars
<1>4. Phase(br[c]) = "empty"
  BY <1>1, <1>2, PhaseMeaning
<1>5. \A s \in Records : s # br[c] => Phase(s)' = Phase(s)
  BY <1>1, <1>3, PhaseKept DEF IInv, TypeOK
<1>6. \A d \in Callers : Given(d)' = Given(d)
  BY <1>1, <1>3, GivenKept DEF IInv, TypeOK
<1>7. PICK x \in Records : x = br[c]
  BY <1>1
<1>8. Phase(x) = "empty" /\ Phase(x)' = "computing"
  <2>1. ~Fresh(x)' /\ ~loaded'[x] /\ mu'[x]
    BY <1>1, <1>2, <1>3, <1>7 DEF Fresh, IInv, TypeOK
  <2>2. QED BY <1>4, <1>7, <2>1, PhaseMeaningNext
<1>9. Supply!Start(x)
  BY <1>3, <1>5, <1>6, <1>7, <1>8 DEF Supply!Start
<1>10. QED BY <1>9

\* Publishing the block of a locked record finishes its cell.
LEMMA PublishMaps ==
  ASSUME IInv, NEW r \in Records, ~Fresh(r), ~loaded[r], mu[r], number' = number,
         loaded' = [loaded EXCEPT ![r] = TRUE],
         \A s \in Records : s # r => mu'[s] = mu[s],
         \A d \in Callers : Given(d)' = Given(d)
  PROVE  Supply!Finish(r)
<1>1. Phase(r) = "computing" /\ Phase(r)' = "ready"
  <2>1. ~Fresh(r)' /\ loaded'[r]
    BY DEF Fresh, IInv, TypeOK
  <2>2. QED BY <2>1, PhaseMeaning, PhaseMeaningNext
<1>2. \A s \in Records : s # r => Phase(s)' = Phase(s)
  BY PhaseKept DEF IInv, TypeOK
<1>3. QED BY <1>1, <1>2 DEF Supply!Finish

\* A closure that publishes its block finishes the cell of its record; the call
\* that submitted it has not returned yet.
LEMMA ComputeTaskMaps ==
  ASSUME IInv, NEW t \in tasks, ComputeTask(t)
  PROVE  \E x \in Records : Supply!Finish(x)
<1>1. t.record \in Records /\ t.caller \in Callers /\ t.stage = "computing" /\ TaskOK(t)
  BY DEF IInv, TypeOK, Task, ComputeTask
<1>2. /\ UNCHANGED <<number, mu, pc, request>>
      /\ loaded' = [loaded EXCEPT ![t.record] = TRUE]
      /\ slot' = [slot EXCEPT ![t.caller][t.index] = t.record]
  BY DEF ComputeTask, Publish, callVars
<1>3. \A d \in Callers : Given(d)' = Given(d)
  <2> SUFFICES ASSUME NEW d \in Callers PROVE Given(d)' = Given(d)
    OBVIOUS
  <2>1. CASE d # t.caller
    BY <1>2, <2>1, GivenKept DEF IInv, TypeOK
  <2>2. CASE d = t.caller
    BY <1>1, <1>2, <2>2, GivenElsewhere DEF TaskOK
  <2>3. QED BY <2>1, <2>2
<1>4. ~Fresh(t.record) /\ ~loaded[t.record] /\ mu[t.record]
  BY <1>1 DEF TaskOK
<1>5. Supply!Finish(t.record)
  BY <1>1, <1>2, <1>3, <1>4, PublishMaps
<1>6. QED BY <1>1, <1>5

\* A caller without a pool finishes the cell it started.
LEMMA ComputeInlineMaps ==
  ASSUME IInv, NEW c \in Callers, ComputeInline(c)
  PROVE  \E x \in Records : Supply!Finish(x)
<1>1. /\ CallOK(c) /\ InLoop(c) /\ Holding(c) /\ br[c] \in Records
      /\ number[br[c]] \in BlockNumbers /\ pc[c] = "compute"
  BY DEF IInv, CallOK, HasRecord, InLoop, Holding, ComputeInline
<1>2. ~Fresh(br[c]) /\ ~loaded[br[c]] /\ mu[br[c]]
  BY <1>1, NumbersAssumption DEF Fresh, IInv, SingleFlight
<1>3. /\ UNCHANGED <<number, request>>
      /\ loaded' = [loaded EXCEPT ![br[c]] = TRUE]
      /\ mu' = [mu EXCEPT ![br[c]] = FALSE]
      /\ slot' = [slot EXCEPT ![c][index[c]] = br[c]]
      /\ Advance(c)
  BY DEF ComputeInline, Publish
<1>4. \A d \in Callers : d # c => pc'[d] = pc[d] /\ slot'[d] = slot[d]
  BY <1>1, <1>3, AdvanceFacts DEF IInv, TypeOK
<1>5. pc'[c] \notin {"open", "closing"}
  BY <1>1, <1>3, AdvanceFacts DEF IInv
<1>6. \A d \in Callers : Given(d)' = Given(d)
  <2> SUFFICES ASSUME NEW d \in Callers PROVE Given(d)' = Given(d)
    OBVIOUS
  <2>1. CASE d # c
    BY <1>3, <1>4, <2>1, GivenKept
  <2>2. CASE d = c
    BY <1>1, <1>5, <2>2, GivenElsewhere
  <2>3. QED BY <2>1, <2>2
<1>7. \A s \in Records : s # br[c] => mu'[s] = mu[s]
  BY <1>3 DEF IInv, TypeOK
<1>8. Supply!Finish(br[c])
  BY <1>1, <1>2, <1>3, <1>6, <1>7, PublishMaps
<1>9. QED BY <1>1, <1>8

\* Unlocking a published record is silent.
LEMMA EndTaskSilent ==
  ASSUME IInv, NEW t \in tasks, EndTask(t)
  PROVE  UNCHANGED Supply!supplyVars
<1>1. t.record \in Records /\ loaded[t.record]
  BY DEF IInv, TypeOK, Task, TaskOK, EndTask
<1>2. UNCHANGED <<number, loaded, pc, request, slot>> /\ mu' = [mu EXCEPT ![t.record] = FALSE]
  BY DEF EndTask, callVars
<1>3. \A r \in Records : Phase(r)' = Phase(r)
  BY <1>1, <1>2, PhaseKept DEF IInv, TypeOK
<1>4. \A d \in Callers : Given(d)' = Given(d)
  BY <1>2, GivenKept
<1>5. QED BY <1>2, <1>3, <1>4, Silent

\* A call that returns gives its caller finished cells, one for each height of
\* its range.
LEMMA ReturnMaps ==
  ASSUME IInv, NEW c \in Callers, Return(c)
  PROVE  Supply!Give(c)
<1> DEFINE Slots == {slot[c][i] : i \in 1 .. request[c].size}
<1>1. /\ UNCHANGED <<number, loaded, mu, request, slot>>
      /\ pc[c] = "wait" /\ pc' = [pc EXCEPT ![c] = "open"]
  BY DEF Return, recordVars, callVars
<1>2. \A r \in Records : Phase(r)' = Phase(r)
  BY <1>1, PhaseKept
<1>3. Given(c) = {} /\ Given(c)' = Slots
  BY <1>1 DEF Given, IInv, TypeOK
<1>4. \A d \in Callers : d # c => Given(d)' = Given(d)
  BY <1>1, GivenKept DEF IInv, TypeOK
<1>5. \A i \in 1 .. request[c].size :
        /\ slot[c][i] \in Records /\ loaded[slot[c][i]]
        /\ number[slot[c][i]] = NumberAt(c, i)
        /\ NumberAt(c, i) \in BlockNumbers
  BY DEF Return, IInv, SlotsOK, Visited, CallOK
<1>6. \A x \in Slots : x \in Records /\ Phase(x) = "ready" /\ number[x] # NoBlock
  <2> SUFFICES ASSUME NEW i \in 1 .. request[c].size
               PROVE  /\ slot[c][i] \in Records /\ Phase(slot[c][i]) = "ready"
                      /\ number[slot[c][i]] # NoBlock
    OBVIOUS
  <2>1. slot[c][i] \in Records /\ loaded[slot[c][i]] /\ number[slot[c][i]] # NoBlock
    BY <1>5, NumbersAssumption
  <2>2. QED BY <2>1, PhaseMeaning DEF Fresh
<1>7. \A x, y \in Slots : number[x] = number[y] => x = y
  <2> SUFFICES ASSUME NEW i \in 1 .. request[c].size, NEW j \in 1 .. request[c].size,
                      number[slot[c][i]] = number[slot[c][j]]
               PROVE  slot[c][i] = slot[c][j]
    OBVIOUS
  <2>1. request[c].from + i - 1 = request[c].from + j - 1
    BY <1>5 DEF NumberAt
  <2>2. request[c].from \in Nat /\ i \in Nat /\ j \in Nat
    BY DEF IInv, TypeOK
  <2>3. i = j
    BY <2>1, <2>2
  <2>4. QED BY <2>3
<1> HIDE DEF Slots
<1>8. Slots \in SUBSET {x \in Records : [r \in Records |-> Phase(r)][x] = "ready" /\ number[x] # NoBlock}
  BY <1>6
<1>9. [d \in Callers |-> Given(d)]' = [[d \in Callers |-> Given(d)] EXCEPT ![c] = Slots]
  BY <1>3, <1>4
<1>10. [d \in Callers |-> Given(d)][c] = {}
  BY <1>3
<1>11. number' = number /\ [r \in Records |-> Phase(r)]' = [r \in Records |-> Phase(r)]
  BY <1>1, <1>2
<1>12. QED BY <1>7, <1>8, <1>9, <1>10, <1>11 DEF Supply!Give

\* Closing the window shows nothing: the session keeps what it was given.
LEMMA CloseWindowSilent ==
  ASSUME IInv, NEW c \in Callers, CloseWindow(c)
  PROVE  UNCHANGED Supply!supplyVars
<1>1. UNCHANGED <<number, loaded, mu, request, slot>> /\ pc[c] = "open" /\ pc' = [pc EXCEPT ![c] = "closing"]
  BY DEF CloseWindow, recordVars, callVars
<1>2. \A r \in Records : Phase(r)' = Phase(r)
  BY <1>1, PhaseKept
<1>3. \A d \in Callers : Given(d)' = Given(d)
  BY <1>1, GivenKept DEF IInv, TypeOK
<1>4. QED BY <1>1, <1>2, <1>3, Silent

\* A caller that drops its slice disposes of what it was given.
LEMMA DropMaps ==
  ASSUME IInv, NEW c \in Callers, Drop(c), UNCHANGED <<number, recordVars>>
  PROVE  Supply!Dispose(c)
<1>1. \A r \in Records : Phase(r)' = Phase(r)
  BY PhaseKept DEF recordVars
<1>2. Given(c)' = {}
  BY DEF Drop, Given, IInv, TypeOK
<1>3. \A d \in Callers : d # c => Given(d)' = Given(d)
  BY GivenKept DEF Drop, IInv, TypeOK
<1>4. QED BY <1>1, <1>2, <1>3 DEF Supply!Dispose

\* What concerns the map or the pools only is silent.
LEMMA OutsideSilent ==
  ASSUME UNCHANGED <<number, recordVars, pc, callVars, slot>>
  PROVE  UNCHANGED Supply!supplyVars
<1>1. \A r \in Records : Phase(r)' = Phase(r)
  BY PhaseKept DEF recordVars
<1>2. \A d \in Callers : Given(d)' = Given(d)
  BY GivenKept DEF callVars
<1>3. QED BY <1>1, <1>2, Silent

\* Initially every record is absent and nobody was given a block.
LEMMA SupplyInit == ASSUME Init PROVE Supply!Init
<1>1. \A r \in Records : Phase(r) = "absent"
  BY PhaseMeaning DEF Init, Fresh
<1>2. \A c \in Callers : Given(c) = {}
  BY DEF Init, Given
<1>3. number = [r \in Records |-> NoBlock]
  BY DEF Init
<1>4. QED BY <1>1, <1>2, <1>3 DEF Supply!Init

\* Every step of the cache is a step of the abstract supply or a stutter of it.
LEMMA SupplyStep == ASSUME IInv, [Next]_vars PROVE [Supply!Next]_Supply!supplyVars
<1>1. CASE \E c \in Callers : \E q \in Requests, p \in PoolsOf[c] : Acquire(c, q, p)
  BY <1>1, AcquireSilent
<1>2. ASSUME NEW c \in Callers, CallStep(c) PROVE [Supply!Next]_Supply!supplyVars
  <2>1. CASE LoadOrStore(c)
    BY <2>1, LoadOrStoreMaps DEF Supply!Next
  <2>2. CASE UseLoaded(c) \/ Submit(c) \/ SubmitRejected(c) \/ StartTask(c)
    BY <2>2, CallSilent
  <2>3. CASE LockUnloaded(c)
    BY <2>3, LockUnloadedMaps DEF Supply!Next
  <2>4. CASE ComputeInline(c)
    BY <2>4, ComputeInlineMaps DEF Supply!Next
  <2>5. CASE Return(c)
    BY <2>5, ReturnMaps DEF Supply!Next
  <2>6. QED BY <1>2, <2>1, <2>2, <2>3, <2>4, <2>5 DEF CallStep
<1>3. ASSUME NEW t \in tasks, TaskStep(t) PROVE [Supply!Next]_Supply!supplyVars
  BY <1>3, ComputeTaskMaps, EndTaskSilent DEF TaskStep, Supply!Next
<1>4. ASSUME NEW c \in Callers, SessionStep(c) PROVE [Supply!Next]_Supply!supplyVars
  <2>1. CASE CloseWindow(c)
    BY <2>1, CloseWindowSilent
  <2>2. CASE CloseSession(c) \/ Discard(c)
    <3>1. Supply!Dispose(c)
      BY <2>2, DropMaps DEF CloseSession, Discard
    <3>2. QED BY <3>1 DEF Supply!Next
  <2>3. QED BY <1>4, <2>1, <2>2 DEF SessionStep
<1>5. CASE \E q \in ForgetRanges : Forget(q)
  BY <1>5, OutsideSilent DEF Forget
<1>6. CASE \E p \in Pools : ReleasePool(p)
  BY <1>6, OutsideSilent DEF ReleasePool
<1>7. CASE UNCHANGED vars
  BY <1>7, OutsideSilent DEF vars, recordVars, callVars
<1>8. QED BY <1>1, <1>2, <1>3, <1>4, <1>5, <1>6, <1>7 DEF Next

\* The cache, with its locks, its pools, its closures and its deletions, is an
\* implementation of the supply of write-once blocks (AcquireBlocks, the
\* sessions' Close, ForgetBlocks).
THEOREM CacheImplementsSupply == Spec => ImplementsSupply
<1>1. Init => Supply!Init
  BY SupplyInit
<1>2. IInv /\ [Next]_vars => [Supply!Next]_Supply!supplyVars
  BY SupplyStep
<1>3. QED BY <1>1, <1>2, Invariance, PTL DEF Spec, ImplementsSupply, Supply!Spec

-----------------------------------------------------------------------------
(* Nobody waits for what nobody will do.                                    *)

\* An action that changes no WaitGroup and no pool, loses no computing closure, and
\* takes no caller from Submit without its closure, keeps WaitInv.
LEMMA WaitKept ==
  ASSUME WaitInv, UNCHANGED <<wg, closed>>,
         \A t \in tasks : t.stage = "computing" => t \in tasks',
         \A d \in Callers : \A i \in wg[d] :
            pc[d] \in {"submit", "worker"} /\ index[d] = i => Owed(d, i)'
  PROVE  WaitInv'
<1> SUFFICES ASSUME NEW d \in Callers, NEW i \in wg[d], closed = {} PROVE Owed(d, i)'
  BY DEF WaitInv
<1>1. Owed(d, i)
  BY DEF WaitInv
<1>2. CASE pc[d] \in {"submit", "worker"} /\ index[d] = i
  BY <1>2
<1>3. CASE \E t \in tasks : t.stage = "computing" /\ t.caller = d /\ t.index = i
  BY <1>3 DEF Owed
<1>4. QED BY <1>1, <1>2, <1>3 DEF Owed

\* A caller in Submit whose place does not change still owes its Done.
LEMMA OwesStill ==
  ASSUME NEW d \in Callers, NEW i, pc'[d] \in {"submit", "worker"}, index'[d] = i
  PROVE  Owed(d, i)'
BY DEF Owed

\* An action of a caller outside Submit, or of nobody, keeps WaitInv if it leaves
\* the other callers where they are.
LEMMA OthersWait ==
  ASSUME WaitInv, UNCHANGED <<wg, closed, tasks>>,
         \A d \in Callers : pc[d] \in {"submit", "worker"} => pc'[d] = pc[d] /\ index'[d] = index[d]
  PROVE  WaitInv'
<1>1. \A d \in Callers : \A i \in wg[d] :
         pc[d] \in {"submit", "worker"} /\ index[d] = i => Owed(d, i)'
  BY OwesStill
<1>2. QED BY <1>1, WaitKept

\* LockUnloaded counts the slot whose closure its caller goes on to submit.
LEMMA LockUnloadedWaits == ASSUME IInv, WaitInv, NEW c \in Callers, LockUnloaded(c) PROVE WaitInv'
<1>1. /\ TypeOK /\ pc[c] = "lock" /\ UNCHANGED <<index, tasks, closed>>
      /\ \A d \in Callers : d # c => pc'[d] = pc[d]
  BY DEF IInv, TypeOK, LockUnloaded, Claim, callVars
<1>2. CASE pool[c] = NoPool
  <2>1. wg' = wg
    BY <1>2 DEF LockUnloaded, Claim
  <2>2. \A d \in Callers : pc[d] \in {"submit", "worker"} => pc'[d] = pc[d] /\ index'[d] = index[d]
    BY <1>1
  <2>3. QED BY <1>1, <2>1, <2>2, OthersWait
<1>3. CASE pool[c] # NoPool
  <2>1. wg' = [wg EXCEPT ![c] = wg[c] \cup {index[c]}] /\ pc' = [pc EXCEPT ![c] = "submit"]
    BY <1>3 DEF LockUnloaded, Claim
  <2>2. pc'[c] = "submit"
    BY <1>1, <2>1 DEF TypeOK
  <2> SUFFICES ASSUME NEW d \in Callers, NEW i \in wg'[d], closed = {} PROVE Owed(d, i)'
    BY <1>1 DEF WaitInv
  <2>3. CASE d = c /\ i = index[c]
    BY <1>1, <2>2, <2>3, OwesStill
  <2>4. CASE ~(d = c /\ i = index[c])
    <3>1. i \in wg[d]
      BY <1>1, <2>1, <2>4 DEF TypeOK
    <3>2. Owed(d, i)
      BY <3>1 DEF WaitInv
    <3>3. QED BY <1>1, <3>2 DEF Owed
  <2>5. QED BY <2>3, <2>4
<1>4. QED BY <1>2, <1>3

\* StartTask hands the Done of the caller's slot to the closure.
LEMMA StartTaskWaits == ASSUME IInv, WaitInv, NEW c \in Callers, StartTask(c) PROVE WaitInv'
<1>1. PICK n \in Task :
           /\ n.caller = c /\ n.index = index[c] /\ n.record = br[c] /\ n.stage = "computing"
           /\ tasks' = tasks \cup {n}
  BY StartTaskNew
<1>2. UNCHANGED <<wg, closed>> /\ \A d \in Callers : d # c => pc'[d] = pc[d] /\ index'[d] = index[d]
  BY StartTaskFacts, AdvanceFacts
<1>3. ASSUME NEW d \in Callers, NEW i \in wg[d], pc[d] \in {"submit", "worker"}, index[d] = i
      PROVE  Owed(d, i)'
  <2>1. CASE d = c
    <3>1. n \in tasks' /\ n.stage = "computing" /\ n.caller = d /\ n.index = i
      BY <1>1, <1>3, <2>1
    <3>2. QED BY <3>1 DEF Owed
  <2>2. CASE d # c
    BY <1>2, <1>3, <2>2, OwesStill
  <2>3. QED BY <2>1, <2>2
<1>4. \A t \in tasks : t.stage = "computing" => t \in tasks'
  BY <1>1
<1>5. QED BY <1>2, <1>3, <1>4, WaitKept

\* ComputeTask does what its slot's Done was waited for.
LEMMA ComputeTaskWaits == ASSUME IInv, WaitInv, NEW t \in tasks, ComputeTask(t) PROVE WaitInv'
<1>1. PICK u \in Task : /\ u.caller = t.caller /\ u.index = t.index /\ u.record = t.record
                        /\ u.stage = "unlocking"
                        /\ tasks' = (tasks \ {t}) \cup {u}
  BY ComputeTaskMoves
<1>2. /\ TypeOK /\ t \in Task /\ UNCHANGED <<pc, index, closed>>
      /\ wg' = [wg EXCEPT ![t.caller] = wg[t.caller] \ {t.index}]
  BY ComputeTaskFacts
<1> SUFFICES ASSUME NEW d \in Callers, NEW i \in wg'[d], closed = {} PROVE Owed(d, i)'
  BY <1>2 DEF WaitInv
<1>3. i \in wg[d] /\ ~(d = t.caller /\ i = t.index)
  BY <1>2 DEF TypeOK, Task
<1>4. Owed(d, i)
  BY <1>3 DEF WaitInv
<1>5. QED BY <1>1, <1>2, <1>3, <1>4 DEF Owed

\* An action that only ends an iteration of a caller outside Submit keeps WaitInv.
LEMMA AdvanceWaits ==
  ASSUME IInv, WaitInv, NEW c \in Callers, InLoop(c), pc[c] \notin {"submit", "worker"}, Advance(c),
         UNCHANGED <<wg, closed, tasks>>
  PROVE  WaitInv'
<1>1. \A d \in Callers : d # c => pc'[d] = pc[d] /\ index'[d] = index[d]
  BY AdvanceFacts DEF IInv
<1>2. QED BY <1>1, OthersWait

\* Every step of a call keeps WaitInv.
LEMMA CallWaits == ASSUME IInv, WaitInv, NEW c \in Callers, CallStep(c) PROVE WaitInv'
<1>0. TypeOK
  BY DEF IInv
<1>1. CASE LoadOrStore(c)
  <2>1. UNCHANGED <<wg, closed, tasks, index>>
    BY <1>1 DEF LoadOrStore
  <2>2. pc[c] = "load" /\ \A d \in Callers : d # c => pc'[d] = pc[d]
    BY <1>1, StoreFacts
  <2>3. QED BY <2>1, <2>2, OthersWait
<1>2. CASE UseLoaded(c)
  BY <1>2, AdvanceWaits DEF UseLoaded, InLoop
<1>3. CASE LockUnloaded(c)
  BY <1>3, LockUnloadedWaits
<1>4. CASE Submit(c)
  <2>1. UNCHANGED <<wg, closed, tasks, index>> /\ pc' = [pc EXCEPT ![c] = "worker"]
    BY <1>4 DEF Submit, callVars
  <2>2. \A d \in Callers : pc[d] \in {"submit", "worker"} => pc'[d] \in {"submit", "worker"}
    BY <1>0, <2>1 DEF TypeOK
  <2>3. \A d \in Callers : \A i \in wg[d] :
           pc[d] \in {"submit", "worker"} /\ index[d] = i => Owed(d, i)'
    BY <2>1, <2>2, OwesStill
  <2>4. QED BY <2>1, <2>3, WaitKept
<1>5. CASE SubmitRejected(c)
  BY <1>5 DEF SubmitRejected, WaitInv
<1>6. CASE StartTask(c)
  BY <1>6, StartTaskWaits
<1>7. CASE ComputeInline(c)
  BY <1>7, AdvanceWaits DEF ComputeInline, InLoop
<1>8. CASE Return(c)
  <2>1. UNCHANGED <<wg, closed, tasks, index>> /\ pc[c] = "wait" /\ pc' = [pc EXCEPT ![c] = "open"]
    BY <1>8 DEF Return, callVars
  <2>2. \A d \in Callers : d # c => pc'[d] = pc[d]
    BY <1>0, <2>1 DEF TypeOK
  <2>3. QED BY <2>1, <2>2, OthersWait
<1>9. QED BY <1>1, <1>2, <1>3, <1>4, <1>5, <1>6, <1>7, <1>8 DEF CallStep

\* Dropping the locals of a call that is over keeps WaitInv.
LEMMA DropWaits ==
  ASSUME IInv, WaitInv, NEW c \in Callers, pc[c] \in {"open", "closing"}, Drop(c),
         UNCHANGED <<wg, closed, tasks>>
  PROVE  WaitInv'
<1>1. \A d \in Callers : d # c => pc'[d] = pc[d] /\ index'[d] = index[d]
  BY DEF Drop, IInv, TypeOK
<1>2. QED BY <1>1, OthersWait

\* Every step keeps WaitInv.
LEMMA WaitStep == ASSUME IInv, WaitInv, [Next]_vars PROVE WaitInv'
<1>0. TypeOK
  BY DEF IInv
<1>1. ASSUME NEW c \in Callers, NEW q \in Requests, NEW p \in PoolsOf[c], Acquire(c, q, p)
      PROVE  WaitInv'
  <2>1. UNCHANGED <<wg, closed, tasks, index>> /\ pc[c] = "idle"
    BY <1>1 DEF Acquire
  <2>2. \A d \in Callers : d # c => pc'[d] = pc[d]
    BY <1>1, AcquireFacts
  <2>3. QED BY <2>1, <2>2, OthersWait
<1>2. ASSUME NEW c \in Callers, CallStep(c) PROVE WaitInv'
  BY <1>2, CallWaits
<1>3. ASSUME NEW t \in tasks, TaskStep(t) PROVE WaitInv'
  <2>1. CASE ComputeTask(t)
    BY <2>1, ComputeTaskWaits
  <2>2. CASE EndTask(t)
    <3>1. UNCHANGED <<wg, closed, pc, index>> /\ tasks' = tasks \ {t} /\ t.stage = "unlocking"
      BY <2>2 DEF EndTask, callVars
    <3>2. \A d \in Callers : \A i \in wg[d] :
             pc[d] \in {"submit", "worker"} /\ index[d] = i => Owed(d, i)'
      BY <3>1, OwesStill
    <3>3. \A u \in tasks : u.stage = "computing" => u \in tasks'
      BY <3>1
    <3>4. QED BY <3>1, <3>2, <3>3, WaitKept
  <2>3. QED BY <1>3, <2>1, <2>2 DEF TaskStep
<1>4. ASSUME NEW c \in Callers, SessionStep(c) PROVE WaitInv'
  <2>1. CASE CloseWindow(c)
    <3>1. UNCHANGED <<wg, closed, tasks, index>> /\ pc[c] = "open" /\ pc' = [pc EXCEPT ![c] = "closing"]
      BY <2>1 DEF CloseWindow, callVars
    <3>2. \A d \in Callers : d # c => pc'[d] = pc[d]
      BY <1>0, <3>1 DEF TypeOK
    <3>3. QED BY <3>1, <3>2, OthersWait
  <2>2. CASE CloseSession(c) \/ Discard(c)
    BY <2>2, DropWaits DEF CloseSession, Discard
  <2>3. QED BY <1>4, <2>1, <2>2 DEF SessionStep
<1>5. CASE \E q \in ForgetRanges : Forget(q)
  BY <1>5, OthersWait DEF Forget, callVars
<1>6. CASE \E p \in Pools : ReleasePool(p)
  BY <1>6 DEF ReleasePool, WaitInv
<1>7. CASE UNCHANGED vars
  BY <1>7, OthersWait DEF vars, callVars
<1>8. QED BY <1>1, <1>2, <1>3, <1>4, <1>5, <1>6, <1>7 DEF Next

\* What a WaitGroup counts is owed by a closure or by the caller itself, unless a
\* pool was released (AcquireBlocks, lines 430-452).
THEOREM DonesOwed == Spec => []WaitInv
<1>1. Init => WaitInv
  BY DEF Init, WaitInv
<1>2. IInv /\ WaitInv /\ [Next]_vars => WaitInv'
  BY WaitStep
<1>3. QED BY <1>1, <1>2, Invariance, PTL DEF Spec

\* With no closure running, whoever holds a mutex can go on.
LEMMA HolderGoesOn ==
  ASSUME IInv, tasks = {}, NEW d \in Callers, Holding(d)
  PROVE  InCall(d) /\ ~Blocked(d)
<1>1. InCall(d) /\ pc[d] # "lock" /\ pc[d] # "wait"
  BY DEF Holding, InCall, Points
<1>2. pc[d] = "worker" => ~(Cardinality(Busy(pool[d])) >= Capacity[pool[d]])
  <2> SUFFICES ASSUME pc[d] = "worker" PROVE ~(Cardinality(Busy(pool[d])) >= Capacity[pool[d]])
    OBVIOUS
  <2>1. pool[d] \in Pools
    BY DEF IInv, CallOK
  <2>2. Capacity[pool[d]] \in Nat \ {0}
    BY <2>1, CapacityAssumption
  <2>3. Busy(pool[d]) = {}
    BY DEF Busy
  <2>4. Cardinality(Busy(pool[d])) = 0
    BY <2>3, FS_EmptySet
  <2>5. QED BY <2>2, <2>4
<1>3. QED BY <1>1, <1>2 DEF Blocked

\* While calls are under way and no pool was released, a closure or one of the
\* callers can go on: mutexes, workers and WaitGroups of AcquireBlocks are never
\* all waited for.
THEOREM NobodyStuckHolds == Spec => []NobodyStuck
<1>1. IInv /\ WaitInv => NobodyStuck
  <2> SUFFICES ASSUME IInv, WaitInv, closed = {}, tasks = {}, NEW c \in Callers, InCall(c), Blocked(c)
               PROVE  \E d \in Callers : InCall(d) /\ ~Blocked(d)
    BY DEF NobodyStuck
  <2>1. CASE pc[c] = "lock"
    <3>1. br[c] \in Records /\ mu[br[c]]
      BY <2>1 DEF Blocked, IInv, CallOK, HasRecord
    <3>2. PICK d \in Callers : Holding(d)
      BY <3>1 DEF IInv, LockedByOwner, Owned
    <3>3. QED BY <3>2, HolderGoesOn
  <2>2. CASE pc[c] = "worker"
    BY <2>2, HolderGoesOn DEF Holding
  <2>3. CASE pc[c] = "wait"
    <3>1. PICK i \in wg[c] : TRUE
      BY <2>3 DEF Blocked
    <3>2. Owed(c, i)
      BY <3>1 DEF WaitInv
    <3>3. QED BY <2>3, <3>2 DEF Owed
  <2>4. QED BY <2>1, <2>2, <2>3 DEF Blocked
<1>2. QED BY <1>1, Invariance, DonesOwed, PTL

=============================================================================
