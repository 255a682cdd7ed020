------------------------- MODULE AttackSearchProofs -------------------------
(***************************************************************************)
(* Proofs about AttackSearch, for any chain, window size, step, number of   *)
(* workers and parallel windows, and whatever the filters, the oracle, the  *)
(* re-execution, missing blocks and timeouts do.                            *)
(*                                                                          *)
(* Nothing is checked twice.  The last transaction of a checked combination *)
(* is new in one window only: the blocks below the pivot of a window are    *)
(* those of the windows opened before it, and every window ends at or below *)
(* the pivot.  Inside that window an attack is submitted once, because      *)
(* Search only moves forward, and its task moves forward over victims and   *)
(* profits (IInv).                                                          *)
(*                                                                          *)
(* No replay is refused without a reason.  A slice of prerequisites is the  *)
(* set of usable records of one sender between the attack and the given     *)
(* transaction, so a replay lacks only what the records lack (GapsInv).     *)
(*                                                                          *)
(* Nothing is missed.  Once its attack has been submitted, a combination    *)
(* that a window wants has been handled, or a task is on its way to it      *)
(* (CompleteInv); at the end there are no tasks, and Search has been at     *)
(* the last record.                                                         *)
(*                                                                          *)
(* The search comes to its end.  No step goes back and each goes forward in *)
(* a loop that has an end, and until the end something can go on (GoOnInv). *)
(***************************************************************************)
EXTENDS AttackSearch, Integers, FiniteSetTheorems, WellFoundedInduction, TLAPS

Opened(w) == phase[w] # "none"

\* The pivot is past every opened window, and so is the pivot of a window for
\* those opened before it.
PivotOK ==
  /\ From <= b /\ pivot <= b + Window
  /\ \A w \in Starts : Opened(w) => w < b /\ w + Window <= pivot /\ next[w] >= 1
  /\ \A u, w \in Starts : Opened(u) /\ Opened(w) /\ u < w => u + Window <= pivotOf[w]

\* Records of a window are in its blocks.
RecordsOK == \A w \in Starts : \A x \in records[w] : Covers(w, x)

\* A task belongs to an opened window that is past its attack, and its cursors
\* are at records of the window or at the end.
TasksOK ==
  \A t \in tasks :
    /\ Opened(t.win)
    /\ t.attack < next[t.win]
    /\ t.victim \in records[t.win] \cup {N + 1}
    /\ t.profit \in records[t.win] \cup {0, N + 1}
    /\ t.profit # 0 => t.victim <= N

\* No two tasks have the same attack in one window.
OneTask == \A t, u \in tasks : t.win = u.win /\ t.attack = u.attack => t = u

\* The last transaction of a combination.
Last(k) == IF k[3] = 0 THEN k[2] ELSE k[3]

\* Task t has left the combination k behind.
Past(t, k) ==
  \/ k[2] < t.victim
  \/ k[2] = t.victim /\ t.profit # 0 /\ k[3] < t.profit

\* The window in which k is new has submitted its attack, and the task is past k.
Behind(k) ==
  /\ BlockOf[Last(k)] < pivot
  /\ \A w \in Starts :
       Opened(w) /\ Covers(w, Last(k)) /\ New(w, Last(k)) =>
         /\ k[1] < next[w]
         /\ \A t \in tasks : t.win = w /\ t.attack = k[1] => Past(t, k)

CheckedOK == \A k \in checked : Behind(k)

IInv ==
  /\ TypeOK
  /\ PivotOK
  /\ RecordsOK
  /\ TasksOK
  /\ OneTask
  /\ CheckedOK
  /\ NoRepeatedCheck

-----------------------------------------------------------------------------
(* Numbers and positions.                                                  *)

\* A nonempty set of naturals has a least element.
LEMMA NatMin ==
  ASSUME NEW T \in SUBSET Nat, T # {}
  PROVE  \E x \in T : \A y \in T : x <= y
<1> DEFINE R == {ss \in Nat \X Nat : ss[1] < ss[2]}
<1>1. IsWellFoundedOn(R, Nat)
  BY NatLessThanWellFounded, Zenon DEF OpToRel
<1> HIDE DEF R
<1>2. PICK x \in T : \A y \in T : ~ (<<y, x>> \in R)
  BY <1>1, WFMin
<1>3. \A y \in T : <<y, x>> \in Nat \X Nat /\ <<y, x>>[1] = y /\ <<y, x>>[2] = x
  OBVIOUS
<1>4. \A y \in T : ~(y < x)
  BY <1>2, <1>3 DEF R
<1>5. QED BY <1>4

\* After is a later member of the set, or the end.
LEMMA AfterFacts ==
  ASSUME NEW S \in SUBSET Txs, NEW x \in 0 .. N + 1
  PROVE  /\ After(S, x) \in S \cup {N + 1}
         /\ After(S, x) \in 1 .. N + 1
         /\ x <= N => x < After(S, x)
         /\ x = N + 1 => After(S, x) = N + 1
<1> DEFINE T == {y \in S : y > x}
<1>1. N \in Nat /\ x \in Nat /\ \A y \in S : y \in Nat /\ 1 <= y /\ y <= N
  BY SizesAssumption DEF Txs
<1>2. CASE \E y \in S : y > x
  <2>1. T \in SUBSET Nat /\ T # {}
    BY <1>1, <1>2
  <2>2. PICK y \in T : \A z \in T : y <= z
    BY <2>1, NatMin
  <2>3. \E u \in S : u > x /\ \A z \in S : z > x => u <= z
    BY <2>2
  <2>4. After(S, x) \in S /\ After(S, x) > x
    BY <1>2, <2>3 DEF After
  <2> DEFINE y0 == After(S, x)
  <2>5. y0 \in Nat /\ 1 <= y0 /\ y0 <= N /\ x < y0
    BY <1>1, <2>4
  <2>6. QED BY <1>1, <2>4, <2>5
<1>3. CASE ~ \E y \in S : y > x
  <2>1. After(S, x) = N + 1
    BY <1>3 DEF After
  <2>2. QED BY <1>1, <2>1
<1>4. QED BY <1>2, <1>3

\* The transactions that are refused for their nonce are transactions.
LEMMA RefusedType ==
  ASSUME NEW done, NEW S, NEW x, NEW y
  PROVE  Refused(done, S, x, y) \subseteq Txs
<1>1. \A D, Q : NonceErrors(D, Q) \subseteq Txs
  BY DEF NonceErrors
<1> DEFINE E == NonceErrors(done, S)
<1>2. ASSUME E # {} PROVE (CHOOSE z \in E : \A u \in E : z <= u) \in Txs
  <2>1. E \in SUBSET Nat
    BY <1>1, SizesAssumption DEF Txs
  <2> HIDE DEF E
  <2>2. \E z \in E : \A u \in E : z <= u
    BY <1>2, <2>1, NatMin
  <2>3. (CHOOSE z \in E : \A u \in E : z <= u) \in E
    BY <2>2
  <2>4. E \subseteq Txs
    BY <1>1 DEF E
  <2>5. QED BY <2>3, <2>4
<1>3. QED BY <1>1, <1>2 DEF Refused

\* What the type of a task says of its fields.
LEMMA TaskFields ==
  ASSUME TypeOK, NEW t \in tasks
  PROVE  /\ t \in Task
         /\ t.win \in Starts /\ t.attack \in 1 .. N
         /\ t.victim \in 1 .. N + 1 /\ t.profit \in 0 .. N + 1
         /\ records[t.win] \in SUBSET Txs
         /\ N \in Nat
BY SizesAssumption DEF TypeOK, Task, Txs

\* Windows are naturals, and so are the parameters.
LEMMA Numbers ==
  /\ From \in Nat /\ Window \in Nat /\ Step \in Nat /\ Step >= 1 /\ N \in Nat
  /\ Starts \subseteq Nat
  /\ \A x \in Txs : BlockOf[x] \in Nat
BY SizesAssumption, ChainAssumption DEF Starts

-----------------------------------------------------------------------------
(* Windows.                                                                *)

\* A transaction is new in one window only.
LEMMA OneWindow ==
  ASSUME TypeOK, PivotOK, NEW u \in Starts, NEW w \in Starts, NEW x \in Txs,
         Opened(u), Covers(u, x), New(u, x), Opened(w), Covers(w, x), New(w, x)
  PROVE  u = w
<1>1. /\ u \in Nat /\ w \in Nat /\ BlockOf[x] \in Nat /\ Window \in Nat
      /\ pivotOf[u] \in Nat /\ pivotOf[w] \in Nat
  BY Numbers DEF TypeOK
<1>2. /\ BlockOf[x] < u + Window /\ BlockOf[x] < w + Window
      /\ pivotOf[u] <= BlockOf[x] /\ pivotOf[w] <= BlockOf[x]
  BY <1>1 DEF Covers, New
<1>3. ~(u < w)
  BY <1>1, <1>2 DEF PivotOK
<1>4. ~(w < u)
  BY <1>1, <1>2 DEF PivotOK
<1>5. QED BY <1>1, <1>3, <1>4

\* The last transaction of a combination that has been checked.
LEMMA LastType ==
  ASSUME NEW k \in Checks
  PROVE  Last(k) \in Txs /\ k[1] \in Txs /\ k[2] \in Txs /\ k[3] \in 0 .. N
BY SizesAssumption DEF Checks, Last, Txs

-----------------------------------------------------------------------------
(* Tasks.                                                                  *)

\* The combination a task is at.
Current(t) == <<t.attack, t.victim, t.profit>>

\* u is task t after a step of its loops.
Move(t, u) ==
  /\ u \in Task
  /\ u.win = t.win /\ u.attack = t.attack
  /\ u.victim \in records[t.win] \cup {N + 1}
  /\ u.profit \in records[t.win] \cup {0, N + 1}
  /\ u.profit # 0 => u.victim <= N
  /\ t.victim < u.victim \/ (u.victim = t.victim /\ t.profit < u.profit)

LEMMA NextVictimMoves ==
  ASSUME TypeOK, NEW t \in tasks, t.victim <= N
  PROVE  Move(t, NextVictim(t))
<1> DEFINE v == After(records[t.win], t.victim)
<1>1. v \in records[t.win] \cup {N + 1} /\ v \in 1 .. N + 1 /\ t.victim < v
  BY TaskFields, AfterFacts
<1>2. NextVictim(t) \in Task /\ NextVictim(t).win = t.win /\ NextVictim(t).attack = t.attack
      /\ NextVictim(t).victim = v /\ NextVictim(t).profit = 0
  <2>1. t \in Task /\ v \in 1 .. N + 1 /\ 0 \in 0 .. N + 1
    BY <1>1, TaskFields
  <2> HIDE DEF v
  <2>2. [t EXCEPT !.victim = v] \in Task
    BY <2>1 DEF Task
  <2>3. NextVictim(t) = [[t EXCEPT !.victim = v] EXCEPT !.profit = 0]
    BY DEF NextVictim, v
  <2>4. QED BY <2>1, <2>2, <2>3 DEF Task
<1> HIDE DEF v
<1>3. QED BY <1>1, <1>2, TaskFields DEF Move

LEMMA FirstProfitMoves ==
  ASSUME TypeOK, TasksOK, NEW t \in tasks, t.victim <= N, t.profit = 0
  PROVE  Move(t, FirstProfit(t))
<1> DEFINE p == After(records[t.win], t.victim)
<1>1. p \in records[t.win] \cup {N + 1} /\ p \in 1 .. N + 1
  BY TaskFields, AfterFacts
<1>2. FirstProfit(t) = [win |-> t.win, attack |-> t.attack, victim |-> t.victim, profit |-> p]
  BY TaskFields DEF FirstProfit, Task
<1>3. t.victim \in records[t.win] \cup {N + 1}
  BY DEF TasksOK
<1> HIDE DEF p
<1>4. QED BY <1>1, <1>2, <1>3, TaskFields DEF Move, Task

LEMMA NextProfitMoves ==
  ASSUME TypeOK, TasksOK, NEW t \in tasks, t.profit \in Txs
  PROVE  Move(t, NextProfit(t))
<1> DEFINE p == After(records[t.win], t.profit)
<1>1. p \in records[t.win] \cup {N + 1} /\ p \in 1 .. N + 1 /\ t.profit < p
  BY TaskFields, AfterFacts DEF Txs
<1>2. NextProfit(t) = [win |-> t.win, attack |-> t.attack, victim |-> t.victim, profit |-> p]
  BY TaskFields DEF NextProfit, Task
<1>3. t.victim \in records[t.win] \cup {N + 1} /\ t.victim <= N
  BY TaskFields DEF TasksOK, Txs
<1> HIDE DEF p
<1>4. QED BY <1>1, <1>2, <1>3, TaskFields DEF Move, Task

\* A step of one task leaves every combination behind that was behind.
LEMMA MoveKeepsInvariant ==
  ASSUME IInv, NEW t \in tasks, NEW u, Move(t, u),
         tasks' \subseteq (tasks \ {t}) \cup {u},
         UNCHANGED <<windowVars, next>>
  PROVE  /\ tasks' \subseteq Task /\ PivotOK' /\ RecordsOK' /\ TasksOK' /\ OneTask'
         /\ \A k \in checked : Behind(k)'
<1> USE DEF windowVars, Opened, Covers, New
<1>1. tasks' \subseteq Task
  BY DEF IInv, TypeOK, Move
<1>2. PivotOK' /\ RecordsOK'
  BY DEF IInv, PivotOK, RecordsOK
<1>3. TasksOK'
  BY DEF IInv, TasksOK, Move
<1>4. OneTask'
  BY DEF IInv, OneTask, Move
<1>5. ASSUME NEW k \in checked PROVE Behind(k)'
  <2>1. BlockOf[Last(k)] < pivot'
    BY DEF IInv, CheckedOK, Behind
  <2>2. ASSUME NEW w \in Starts, Opened(w), Covers(w, Last(k)), New(w, Last(k))
        PROVE  k[1] < next[w]
    BY <2>2 DEF IInv, CheckedOK, Behind
  <2>3. ASSUME NEW w \in Starts, Opened(w), Covers(w, Last(k)), New(w, Last(k)),
               NEW s \in tasks', s.win = w, s.attack = k[1]
        PROVE  Past(s, k)
    <3>1. CASE s \in tasks
      BY <2>3, <3>1 DEF IInv, CheckedOK, Behind
    <3>2. CASE s = u
      <4>1. Past(t, k)
        BY <2>3, <3>2 DEF IInv, CheckedOK, Behind, Move
      <4>2. k[2] \in Nat /\ k[3] \in Nat
        BY LastType, SizesAssumption DEF IInv, TypeOK, Txs
      <4>3. /\ t.victim \in Nat /\ t.profit \in Nat /\ u.victim \in Nat /\ u.profit \in Nat
            /\ t.victim < u.victim \/ (u.victim = t.victim /\ t.profit < u.profit)
        BY TaskFields, SizesAssumption DEF IInv, Move, Task
      <4>4. QED BY <3>2, <4>1, <4>2, <4>3 DEF Past
    <3>3. QED BY <3>1, <3>2
  <2>4. QED BY <2>1, <2>2, <2>3 DEF Behind
<1>6. QED BY <1>1, <1>2, <1>3, <1>4, <1>5

\* A new combination that a task is at has not been checked.
LEMMA CurrentIsFresh ==
  ASSUME IInv, NEW t \in tasks, t.victim <= N, t.profit <= N,
         New(t.win, Last(Current(t)))
  PROVE  /\ Current(t) \in Checks /\ Current(t) \notin checked
         /\ Opened(t.win) /\ Covers(t.win, Last(Current(t)))
         /\ t.attack < next[t.win]
<1> DEFINE k == Current(t)
<1>1. /\ k[1] = t.attack /\ k[2] = t.victim /\ k[3] = t.profit
      /\ t.win \in Starts /\ t.attack \in Txs /\ t.victim \in Txs /\ t.profit \in 0 .. N
      /\ t.victim \in Nat /\ t.profit \in Nat /\ N \in Nat
  BY TaskFields DEF IInv, Current, Txs
<1>2. k \in Checks
  BY <1>1 DEF Current, Checks
<1>3. Opened(t.win) /\ t.attack < next[t.win]
  BY DEF IInv, TasksOK
<1>4. Last(k) \in records[t.win]
  <2>1. t.victim \in records[t.win] /\ (t.profit # 0 => t.profit \in records[t.win])
    BY <1>1 DEF IInv, TasksOK
  <2>2. QED BY <1>1, <2>1 DEF Last
<1>5. Covers(t.win, Last(k))
  BY <1>1, <1>4 DEF IInv, RecordsOK
<1>6. ASSUME k \in checked PROVE FALSE
  <2>1. Past(t, k)
    BY <1>1, <1>3, <1>5, <1>6 DEF IInv, CheckedOK, Behind
  <2>2. QED BY <1>1, <2>1 DEF Past
<1>7. QED BY <1>2, <1>3, <1>5, <1>6

\* Once it has checked it, the task leaves the combination behind.
LEMMA CurrentIsBehind ==
  ASSUME IInv, NEW t \in tasks, t.victim <= N, t.profit <= N,
         New(t.win, Last(Current(t))),
         NEW u, Move(t, u), tasks' \subseteq (tasks \ {t}) \cup {u},
         UNCHANGED <<windowVars, next>>
  PROVE  Behind(Current(t))'
<1> DEFINE k == Current(t)
<1>1. /\ k[1] = t.attack /\ k[2] = t.victim /\ k[3] = t.profit /\ t.win \in Starts
  BY TaskFields DEF IInv, Current
<1>2. /\ k \in Checks /\ Opened(t.win) /\ Covers(t.win, Last(k)) /\ t.attack < next[t.win]
      /\ Last(k) \in Txs
  BY CurrentIsFresh, LastType
<1>3. BlockOf[Last(k)] < pivot'
  <2>1. BlockOf[Last(k)] \in Nat /\ t.win \in Nat /\ Window \in Nat /\ pivot \in Nat
    BY <1>1, <1>2, Numbers DEF IInv, TypeOK
  <2>2. BlockOf[Last(k)] < t.win + Window
    BY <1>2, <2>1 DEF Covers
  <2>3. t.win + Window <= pivot
    BY <1>1, <1>2 DEF IInv, PivotOK
  <2>4. QED BY <2>1, <2>2, <2>3 DEF windowVars
<1>4. ASSUME NEW w \in Starts, Opened(w), Covers(w, Last(k)), New(w, Last(k)) PROVE w = t.win
  BY <1>1, <1>2, <1>4, OneWindow DEF IInv
<1>5. ASSUME NEW s \in tasks', s.win = t.win, s.attack = k[1] PROVE Past(s, k)
  <2>1. s = u
    BY <1>1, <1>5 DEF IInv, OneTask
  <2>2. QED BY <1>1, <2>1, TaskFields DEF Move, Past, IInv
<1>6. ASSUME NEW w \in Starts, Opened(w)', Covers(w, Last(k)), New(w, Last(k))'
      PROVE  k[1] < next'[w] /\ \A s \in tasks' : s.win = w /\ s.attack = k[1] => Past(s, k)
  <2>1. w = t.win
    BY <1>4, <1>6 DEF windowVars, Opened, New
  <2>2. next' = next
    OBVIOUS
  <2>3. QED BY <1>1, <1>2, <1>5, <2>1, <2>2
<1>7. QED BY <1>3, <1>6 DEF Behind, Covers, Last, Current, Past

-----------------------------------------------------------------------------
(* The actions.                                                            *)

LEMMA InitEstablishes == Init => IInv
<1> SUFFICES ASSUME Init PROVE IInv
  OBVIOUS
<1>1. TypeOK
  <2>1. b \in Nat /\ pivot \in Nat /\ N \in Nat /\ 0 \in 0 .. N + 1
    BY SizesAssumption DEF Init
  <2>2. /\ phase \in [Starts -> {"none", "searching", "waiting", "panicking", "returned"}]
        /\ records \in [Starts -> SUBSET Txs]
        /\ pivotOf \in [Starts -> Nat]
        /\ next \in [Starts -> 0 .. N + 1]
    BY <2>1 DEF Init
  <2>3. /\ expired \subseteq Starts /\ tasks \subseteq Task /\ gaps \subseteq Starts \X Txs
        /\ checked \subseteq Checks /\ repeated \subseteq Checks /\ reported \subseteq Checks
        /\ crashed \in BOOLEAN
    BY DEF Init
  <2>4. QED BY <2>1, <2>2, <2>3 DEF TypeOK
<1>2. PivotOK
  <2>1. From <= b /\ pivot <= b + Window
    BY Numbers DEF Init
  <2>2. QED BY <2>1 DEF Init, PivotOK, Opened
<1>3. RecordsOK /\ TasksOK /\ OneTask /\ CheckedOK /\ NoRepeatedCheck
  BY DEF Init, RecordsOK, TasksOK, OneTask, CheckedOK, NoRepeatedCheck
<1>4. QED BY <1>1, <1>2, <1>3 DEF IInv

\* A new window begins at the end of the pivot: nothing checked is new in it.
LEMMA OpenKeepsInvariant ==
  ASSUME IInv, OpenSearchWindow
  PROVE  IInv'
<1>1. PICK missing \in SUBSET MayMiss :
        records' = [records EXCEPT ![b] =
          {x \in Txs : BlockOf[x] \in b .. b + Window - 1 /\ BlockOf[x] \notin missing}]
  BY DEF OpenSearchWindow, StartWindow
<1>2. /\ b' = b + Step /\ pivot' = b + Window
      /\ phase' = [phase EXCEPT ![b] = "searching"]
      /\ pivotOf' = [pivotOf EXCEPT ![b] = pivot]
      /\ next' = [next EXCEPT ![b] = After(records'[b], 0)]
      /\ UNCHANGED <<expired, tasks, checked, repeated, reported, gaps, crashed>>
  BY DEF OpenSearchWindow, StartWindow, checkVars
<1>3. /\ b \in Nat /\ pivot \in Nat /\ Step \in Nat /\ Step >= 1 /\ Window \in Nat /\ N \in Nat
      /\ Starts \subseteq Nat
  BY Numbers DEF IInv, TypeOK
<1>4. records' \in [Starts -> SUBSET Txs]
  BY <1>1 DEF IInv, TypeOK
<1>5. b \in Starts => After(records'[b], 0) \in 1 .. N + 1
  <2>1. b \in Starts => records'[b] \in SUBSET Txs
    BY <1>4
  <2>2. QED BY <1>3, <2>1, AfterFacts
<1>6. TypeOK'
  <2>1. next' \in [Starts -> 0 .. N + 1]
    <3> DEFINE first == After(records'[b], 0)
    <3>1. b \in Starts => first \in 0 .. N + 1
      BY <1>3, <1>5
    <3>2. next' = [next EXCEPT ![b] = first] /\ next \in [Starts -> 0 .. N + 1]
      BY <1>2 DEF IInv, TypeOK
    <3> HIDE DEF first
    <3>3. QED BY <3>1, <3>2
  <2>2. QED BY <1>2, <1>3, <1>4, <2>1 DEF IInv, TypeOK
<1>7. \A w \in Starts :
        /\ w # b => /\ phase'[w] = phase[w] /\ pivotOf'[w] = pivotOf[w]
                    /\ next'[w] = next[w] /\ records'[w] = records[w]
        /\ w = b => pivotOf'[w] = pivot /\ next'[w] = After(records'[b], 0)
        /\ Opened(w) => w # b
  BY <1>1, <1>2, <1>3 DEF IInv, TypeOK, PivotOK
<1>8. PivotOK'
  <2>1. From <= b' /\ pivot' <= b' + Window
    BY <1>2, <1>3, Numbers DEF IInv, PivotOK
  <2>2. ASSUME NEW w \in Starts, Opened(w)'
        PROVE  w < b' /\ w + Window <= pivot' /\ next'[w] >= 1
    <3>1. CASE w = b
      BY <1>2, <1>3, <1>5, <1>7, <3>1
    <3>2. CASE w # b
      <4>1. w \in Nat /\ w < b /\ next[w] >= 1
        BY <1>3, <1>7, <2>2, <3>2 DEF IInv, PivotOK, Opened
      <4>2. QED BY <1>2, <1>3, <1>7, <3>2, <4>1
    <3>3. QED BY <3>1, <3>2
  <2>3. ASSUME NEW u \in Starts, NEW w \in Starts, Opened(u)', Opened(w)', u < w
        PROVE  u + Window <= pivotOf'[w]
    <3>1. u # b
      <4>1. w # b => w < b
        BY <1>7, <2>3 DEF IInv, PivotOK, Opened
      <4>2. QED BY <1>3, <2>3, <4>1
    <3>2. Opened(u)
      BY <1>7, <2>3, <3>1 DEF Opened
    <3>3. CASE w = b
      BY <1>7, <3>2, <3>3 DEF IInv, PivotOK
    <3>4. CASE w # b
      BY <1>7, <2>3, <3>2, <3>4 DEF IInv, PivotOK, Opened
    <3>5. QED BY <3>3, <3>4
  <2>4. QED BY <2>1, <2>2, <2>3 DEF PivotOK
<1>9. RecordsOK'
  <2>1. ASSUME NEW w \in Starts, NEW x \in records'[w] PROVE Covers(w, x)
    <3>1. CASE w = b
      <4>1. records'[w] = {y \in Txs : BlockOf[y] \in b .. b + Window - 1 /\ BlockOf[y] \notin missing}
        BY <1>1, <3>1 DEF IInv, TypeOK
      <4>2. QED BY <2>1, <3>1, <4>1 DEF Covers
    <3>2. CASE w # b
      BY <1>7, <2>1, <3>2 DEF IInv, RecordsOK
    <3>3. QED BY <3>1, <3>2
  <2>2. QED BY <2>1 DEF RecordsOK, Covers
<1>10. TasksOK'
  <2>1. ASSUME NEW t \in tasks
        PROVE  /\ t.win \in Starts /\ Opened(t.win) /\ t.win # b
               /\ t.attack < next[t.win]
               /\ t.victim \in records[t.win] \cup {N + 1}
               /\ t.profit \in records[t.win] \cup {0, N + 1}
               /\ t.profit # 0 => t.victim <= N
    BY <1>7, TaskFields DEF IInv, TasksOK
  <2>2. QED BY <1>2, <1>7, <2>1 DEF TasksOK, Opened
<1>11. OneTask' /\ NoRepeatedCheck'
  BY <1>2 DEF IInv, OneTask, NoRepeatedCheck
<1>12. CheckedOK'
  <2> SUFFICES ASSUME NEW k \in checked PROVE Behind(k)'
    BY <1>2 DEF CheckedOK
  <2>1. k \in Checks /\ BlockOf[Last(k)] \in Nat /\ BlockOf[Last(k)] < pivot
    BY LastType, Numbers DEF IInv, TypeOK, CheckedOK, Behind
  <2>2. BlockOf[Last(k)] < pivot'
    <3>1. pivot <= b + Window
      BY DEF IInv, PivotOK
    <3>2. QED BY <1>2, <1>3, <2>1, <3>1
  <2>3. ASSUME NEW w \in Starts, Opened(w)', Covers(w, Last(k)), New(w, Last(k))'
        PROVE  /\ k[1] < next'[w]
               /\ \A t \in tasks : t.win = w /\ t.attack = k[1] => Past(t, k)
    <3>1. w # b
      BY <1>3, <1>7, <2>1, <2>3 DEF New
    <3>2. Opened(w) /\ New(w, Last(k)) /\ next'[w] = next[w]
      BY <1>7, <2>3, <3>1 DEF Opened, New
    <3>3. QED BY <2>3, <3>2 DEF IInv, CheckedOK, Behind
  <2>4. QED BY <1>2, <2>2, <2>3 DEF Behind, Covers, Last, Past
<1>13. QED BY <1>6, <1>8, <1>9, <1>10, <1>11, <1>12 DEF IInv

\* Whatever leaves the main loop, the records and the tasks alone, and moves a
\* search at most forward, keeps the invariant.
LEMMA SearchKeepsInvariant ==
  ASSUME IInv, TypeOK', NEW w \in Starts, Opened(w),
         \/ phase' = phase
         \/ phase' = [phase EXCEPT ![w] = "waiting"]
         \/ phase' = [phase EXCEPT ![w] = "panicking"]
         \/ phase' = [phase EXCEPT ![w] = "returned"],
         \/ next' = next
         \/ \E n \in Nat : n > next[w] /\ next' = [next EXCEPT ![w] = n],
         \/ tasks' = tasks
         \/ \E t \in Task :
              /\ t.win = w /\ t.attack = next[w] /\ next[w] < next'[w]
              /\ t.victim \in records[w] \cup {N + 1} /\ t.profit = 0
              /\ tasks' = tasks \cup {t},
         UNCHANGED <<b, pivot, records, pivotOf, checked, repeated>>
  PROVE  IInv'
<1>1. \A v \in Starts : Opened(v)' <=> Opened(v)
  BY DEF IInv, TypeOK, Opened
<1>2. \A v \in Starts : next[v] \in Nat /\ next'[v] \in Nat /\ next[v] <= next'[v]
  <2>1. \A v \in Starts : next[v] \in Nat
    BY SizesAssumption DEF IInv, TypeOK
  <2>2. CASE next' = next
    BY <2>1, <2>2
  <2>3. CASE \E n \in Nat : n > next[w] /\ next' = [next EXCEPT ![w] = n]
    BY <2>1, <2>3 DEF IInv, TypeOK
  <2>4. QED BY <2>2, <2>3
<1>3. PivotOK' /\ RecordsOK'
  <2>1. PivotOK'
    BY <1>1, <1>2 DEF IInv, PivotOK
  <2>2. QED BY <2>1 DEF IInv, RecordsOK, Covers
<1>4. ASSUME NEW t \in tasks PROVE t.win \in Starts /\ t.attack \in Nat /\ t.attack < next'[t.win]
  <2>1. t.win \in Starts /\ t.attack \in Nat /\ t.attack < next[t.win]
    BY TaskFields DEF IInv, TasksOK
  <2>2. QED BY <1>2, <2>1
<1>5. TasksOK'
  <2> SUFFICES ASSUME NEW t \in tasks' PROVE
          /\ Opened(t.win)' /\ t.attack < next'[t.win]
          /\ t.victim \in records[t.win] \cup {N + 1}
          /\ t.profit \in records[t.win] \cup {0, N + 1}
          /\ t.profit # 0 => t.victim <= N
    BY DEF TasksOK
  <2>1. CASE t \in tasks
    BY <1>1, <1>4, <2>1 DEF IInv, TasksOK
  <2>2. CASE t \notin tasks
    BY <1>1, <2>2
  <2>3. QED BY <2>1, <2>2
<1>6. OneTask'
  <2>1. \A t \in tasks : t.win = w => t.attack # next[w]
    <3>1. \A t \in tasks : t.attack < next[t.win] /\ t.attack \in Nat
      BY TaskFields DEF IInv, TasksOK
    <3>2. QED BY <1>2, <3>1
  <2>2. QED BY <2>1 DEF IInv, OneTask
<1>7. CheckedOK'
  <2> SUFFICES ASSUME NEW k \in checked PROVE Behind(k)'
    BY DEF CheckedOK
  <2>1. BlockOf[Last(k)] < pivot' /\ k[1] \in Nat
    BY LastType, SizesAssumption DEF IInv, TypeOK, CheckedOK, Behind, Txs
  <2>2. ASSUME NEW v \in Starts, Opened(v)', Covers(v, Last(k)), New(v, Last(k))'
        PROVE  /\ k[1] < next'[v]
               /\ \A t \in tasks' : t.win = v /\ t.attack = k[1] => Past(t, k)
    <3>1. /\ k[1] < next[v]
          /\ \A t \in tasks : t.win = v /\ t.attack = k[1] => Past(t, k)
      BY <1>1, <2>2 DEF IInv, CheckedOK, Behind, New
    <3>2. QED BY <1>2, <2>1, <3>1
  <2>3. QED BY <2>1, <2>2 DEF Behind, Covers, Last, Past
<1>8. NoRepeatedCheck'
  BY DEF IInv, NoRepeatedCheck
<1>9. QED BY <1>3, <1>5, <1>6, <1>7, <1>8 DEF IInv

\* At a candidate that is not the last record the loop of Search moves forward.
LEMMA NextAttack ==
  ASSUME IInv, NEW w \in Starts, phase[w] = "searching", ~IsLast(w, next[w])
  PROVE  /\ Opened(w) /\ next[w] \in Txs
         /\ After(records[w], next[w]) \in records[w] \cup {N + 1}
         /\ After(records[w], next[w]) \in 1 .. N + 1
         /\ After(records[w], next[w]) > next[w]
<1>1. Opened(w) /\ next[w] >= 1 /\ next[w] \in 0 .. N + 1 /\ records[w] \in SUBSET Txs /\ N \in Nat
  BY SizesAssumption DEF IInv, TypeOK, PivotOK, Opened
<1>2. next[w] # N + 1
  BY <1>1, AfterFacts DEF IsLast
<1>3. next[w] <= N /\ next[w] \in Txs
  BY <1>1, <1>2 DEF Txs
<1>4. QED BY <1>1, <1>3, AfterFacts

LEMMA WindowStepKeepsInvariant ==
  ASSUME IInv, NEW w \in Starts, WindowStep(w) \/ Expire(w)
  PROVE  IInv'
<1> USE DEF windowVars, checkVars
<1>1. CASE SearchNothing(w)
  <2>1. TypeOK' /\ Opened(w)
    BY <1>1 DEF SearchNothing, IInv, TypeOK, Opened
  <2>2. QED BY <1>1, <2>1, SearchKeepsInvariant DEF SearchNothing
<1>a. CASE Crash(w)
  <2>1. TypeOK' /\ Opened(w)
    BY <1>a DEF Crash, IInv, TypeOK, Opened
  <2>2. QED BY <1>a, <2>1, SearchKeepsInvariant DEF Crash
<1>2. CASE SearchEarlyExit(w)
  <2>1. TypeOK' /\ Opened(w)
    BY <1>2 DEF SearchEarlyExit, IInv, TypeOK, Opened
  <2>2. QED BY <1>2, <2>1, SearchKeepsInvariant DEF SearchEarlyExit
<1>3. CASE SkipAttack(w)
  <2> DEFINE n == After(records[w], next[w])
  <2>1. Opened(w) /\ n \in 1 .. N + 1 /\ n > next[w] /\ N \in Nat
    BY <1>3, NextAttack, SizesAssumption DEF SkipAttack
  <2>2. next' = [next EXCEPT ![w] = n]
    BY <1>3 DEF SkipAttack
  <2> HIDE DEF n
  <2>3. n \in Nat /\ n \in 0 .. N + 1
    BY <2>1
  <2>4. TypeOK'
    BY <1>3, <2>2, <2>3 DEF SkipAttack, IInv, TypeOK
  <2>5. QED BY <1>3, <2>1, <2>2, <2>3, <2>4, SearchKeepsInvariant DEF SkipAttack
<1>4. CASE SubmitAttack(w)
  <2> DEFINE n == After(records[w], next[w])
             t == [win |-> w, attack |-> next[w], victim |-> n, profit |-> 0]
  <2>1. /\ Opened(w) /\ next[w] \in Txs /\ n \in 1 .. N + 1 /\ n > next[w] /\ N \in Nat
        /\ n \in records[w] \cup {N + 1}
    BY <1>4, NextAttack, SizesAssumption DEF SubmitAttack
  <2>2. next' = [next EXCEPT ![w] = n] /\ tasks' = tasks \cup {t}
    BY <1>4 DEF SubmitAttack
  <2> HIDE DEF n
  <2>3. n \in Nat /\ n \in 0 .. N + 1 /\ next'[w] = n
    BY <2>1, <2>2 DEF IInv, TypeOK
  <2>4. t \in Task
    BY <2>1, <2>3 DEF Task
  <2>5. TypeOK'
    BY <1>4, <2>2, <2>3, <2>4 DEF SubmitAttack, IInv, TypeOK
  <2>6. \E u \in Task :
          /\ u.win = w /\ u.attack = next[w] /\ next[w] < next'[w]
          /\ u.victim \in records[w] \cup {N + 1} /\ u.profit = 0
          /\ tasks' = tasks \cup {u}
    BY <2>1, <2>2, <2>3, <2>4
  <2>7. \E m \in Nat : m > next[w] /\ next' = [next EXCEPT ![w] = m]
    BY <2>1, <2>2, <2>3
  <2>8. UNCHANGED <<b, pivot, phase, records, pivotOf, checked, repeated>>
    BY <1>4 DEF SubmitAttack
  <2>9. QED BY <2>1, <2>5, <2>6, <2>7, <2>8, SearchKeepsInvariant
<1>5. CASE EndLoop(w)
  <2>1. TypeOK' /\ Opened(w)
    BY <1>5 DEF EndLoop, IInv, TypeOK, Opened
  <2>2. QED BY <1>5, <2>1, SearchKeepsInvariant DEF EndLoop
<1>6. CASE SearchReturn(w)
  <2>1. TypeOK' /\ Opened(w)
    BY <1>6 DEF SearchReturn, IInv, TypeOK, Opened
  <2>2. QED BY <1>6, <2>1, SearchKeepsInvariant DEF SearchReturn
<1>7. CASE Expire(w)
  <2>1. TypeOK' /\ Opened(w)
    BY <1>7 DEF Expire, IInv, TypeOK, Opened
  <2>2. QED BY <1>7, <2>1, SearchKeepsInvariant DEF Expire
<1>8. QED BY <1>1, <1>a, <1>2, <1>3, <1>4, <1>5, <1>6, <1>7 DEF WindowStep

\* A step of a task that checks nothing.
LEMMA QuietStepKeepsInvariant ==
  ASSUME IInv, NEW t \in tasks, NEW u, Move(t, u), Become(t, u),
         gaps' \subseteq gaps \cup ({t.win} \X Txs),
         UNCHANGED <<windowVars, next, expired, checkVars, crashed>>
  PROVE  IInv'
<1>1. tasks' \subseteq (tasks \ {t}) \cup {u}
  BY DEF Become
<1>2. /\ tasks' \subseteq Task /\ PivotOK' /\ RecordsOK' /\ TasksOK' /\ OneTask'
      /\ \A k \in checked : Behind(k)'
  BY <1>1, MoveKeepsInvariant
<1>3. TypeOK'
  BY <1>2, TaskFields DEF IInv, TypeOK, windowVars, checkVars
<1>4. CheckedOK' /\ NoRepeatedCheck'
  BY <1>2 DEF IInv, CheckedOK, NoRepeatedCheck, checkVars
<1>5. QED BY <1>2, <1>3, <1>4 DEF IInv

\* A step of a task that gives the new combination it is at to the oracle.
LEMMA CheckKeepsInvariant ==
  ASSUME IInv, NEW t \in tasks, t.victim <= N, t.profit <= N,
         New(t.win, Last(Current(t))),
         NEW u, Move(t, u), tasks' \subseteq (tasks \ {t}) \cup {u},
         CheckOracle(Current(t)),
         UNCHANGED <<windowVars, next, expired, gaps, crashed>>
  PROVE  IInv'
<1>1. /\ tasks' \subseteq Task /\ PivotOK' /\ RecordsOK' /\ TasksOK' /\ OneTask'
      /\ \A k \in checked : Behind(k)'
  BY MoveKeepsInvariant
<1>2. Behind(Current(t))'
  BY CurrentIsBehind
<1>3. Current(t) \in Checks /\ Current(t) \notin checked
  BY CurrentIsFresh
<1>4. /\ checked' = checked \cup {Current(t)}
      /\ repeated' = repeated
      /\ reported' \subseteq reported \cup {Current(t)}
  BY <1>3 DEF CheckOracle
<1>5. TypeOK'
  BY <1>1, <1>3, <1>4 DEF IInv, TypeOK, windowVars
<1>6. CheckedOK'
  BY <1>1, <1>2, <1>4 DEF CheckedOK, Current
<1>7. NoRepeatedCheck'
  BY <1>4 DEF IInv, NoRepeatedCheck
<1>8. QED BY <1>1, <1>5, <1>6, <1>7 DEF IInv

LEMMA EndTaskKeepsInvariant ==
  ASSUME IInv, NEW t \in tasks, EndTask(t)
  PROVE  IInv'
<1>1. /\ tasks' \subseteq tasks
      /\ UNCHANGED <<windowVars, next, expired, checkVars, gaps, crashed>>
  BY DEF EndTask
<1>2. TypeOK' /\ PivotOK' /\ RecordsOK'
  BY <1>1 DEF IInv, TypeOK, PivotOK, RecordsOK, windowVars, checkVars, Opened, Covers
<1>3. TasksOK' /\ OneTask'
  BY <1>1 DEF IInv, TasksOK, OneTask, windowVars, Opened
<1>4. CheckedOK' /\ NoRepeatedCheck'
  BY <1>1 DEF IInv, CheckedOK, Behind, NoRepeatedCheck, windowVars, checkVars,
              Opened, Covers, New
<1>5. QED BY <1>2, <1>3, <1>4 DEF IInv

LEMMA TaskStepKeepsInvariant ==
  ASSUME IInv, NEW t \in tasks, TaskStep(t)
  PROVE  IInv'
<1>1. TypeOK /\ TasksOK
  BY DEF IInv
<1>2. /\ gaps \subseteq gaps \cup ({t.win} \X Txs)
      /\ gaps \cup ({t.win} \X VictimErrors(t)) \subseteq gaps \cup ({t.win} \X Txs)
      /\ gaps \cup ({t.win} \X ProfitErrors(t)) \subseteq gaps \cup ({t.win} \X Txs)
  BY RefusedType DEF VictimErrors, ProfitErrors
<1>3. CASE EndTask(t)
  BY <1>3, EndTaskKeepsInvariant
<1>4. CASE SkipVictim(t)
  BY <1>1, <1>2, <1>4, NextVictimMoves, QuietStepKeepsInvariant DEF SkipVictim, AtVictim
<1>5. CASE VictimFails(t)
  <2>1. /\ Move(t, NextVictim(t)) /\ Become(t, NextVictim(t))
        /\ gaps' \subseteq gaps \cup ({t.win} \X Txs)
        /\ UNCHANGED <<windowVars, next, expired, checkVars, crashed>>
    BY <1>1, <1>2, <1>5, NextVictimMoves DEF VictimFails, AtVictim
  <2>2. QED BY <2>1, QuietStepKeepsInvariant
<1>6. CASE OldVictim(t)
  BY <1>1, <1>2, <1>6, FirstProfitMoves, QuietStepKeepsInvariant
     DEF OldVictim, Swappable, AtVictim
<1>7. CASE CheckPair(t)
  <2>1. t.victim <= N /\ t.profit = 0 /\ t.profit <= N
    BY <1>1, <1>7, TaskFields DEF CheckPair, Swappable, AtVictim
  <2>2. Pair(t) = Current(t) /\ Last(Current(t)) = t.victim
    BY <2>1 DEF Pair, Current, Last
  <2>3. Move(t, FirstProfit(t))
    BY <1>1, <2>1, FirstProfitMoves
  <2>4. tasks' \subseteq (tasks \ {t}) \cup {FirstProfit(t)}
    BY <1>7 DEF CheckPair, Become
  <2>5. New(t.win, Last(Current(t))) /\ CheckOracle(Current(t))
        /\ UNCHANGED <<windowVars, next, expired, gaps, crashed>>
    BY <1>7, <2>2 DEF CheckPair
  <2>6. QED BY <2>1, <2>3, <2>4, <2>5, CheckKeepsInvariant
<1>8. CASE SkipProfit(t)
  BY <1>1, <1>2, <1>8, NextProfitMoves, QuietStepKeepsInvariant DEF SkipProfit, AtProfit
<1>9. CASE ProfitFails(t)
  <2>1. /\ Move(t, NextProfit(t)) /\ Become(t, NextProfit(t))
        /\ gaps' \subseteq gaps \cup ({t.win} \X Txs)
        /\ UNCHANGED <<windowVars, next, expired, checkVars, crashed>>
    BY <1>1, <1>2, <1>9, NextProfitMoves DEF ProfitFails, AtProfit
  <2>2. QED BY <2>1, QuietStepKeepsInvariant
<1>10. CASE CheckTriple(t)
  <2>1. t.profit \in Txs /\ t.profit # 0 /\ t.profit <= N /\ t.victim <= N
    BY <1>1, <1>10, TaskFields DEF CheckTriple, AtProfit, TasksOK, Txs
  <2>2. Last(Current(t)) = t.profit
    BY <2>1 DEF Current, Last
  <2>3. Move(t, NextProfit(t))
    BY <1>1, <2>1, NextProfitMoves
  <2>4. tasks' \subseteq (tasks \ {t}) \cup {NextProfit(t)}
    BY <1>10 DEF CheckTriple, Become
  <2>5. New(t.win, Last(Current(t))) /\ CheckOracle(Current(t))
        /\ UNCHANGED <<windowVars, next, expired, gaps, crashed>>
    BY <1>10, <2>2 DEF CheckTriple, CandidateProfit, Current
  <2>6. QED BY <2>1, <2>3, <2>4, <2>5, CheckKeepsInvariant
<1>11. CASE EndProfits(t)
  <2>1. t.victim <= N
    BY <1>1, <1>11, TaskFields DEF EndProfits, TasksOK
  <2>2. Move(t, NextVictim(t))
    BY <1>1, <2>1, NextVictimMoves
  <2>3. QED BY <1>2, <1>11, <2>2, QuietStepKeepsInvariant DEF EndProfits
<1>12. QED
  BY <1>3, <1>4, <1>5, <1>6, <1>7, <1>8, <1>9, <1>10, <1>11 DEF TaskStep

LEMMA StutterKeepsInvariant ==
  ASSUME IInv, UNCHANGED vars
  PROVE  IInv'
<1>1. TypeOK' /\ PivotOK' /\ RecordsOK'
  BY DEF IInv, TypeOK, PivotOK, RecordsOK, vars, Opened, Covers
<1>2. TasksOK' /\ OneTask'
  BY DEF IInv, TasksOK, OneTask, vars, Opened
<1>3. CheckedOK' /\ NoRepeatedCheck'
  BY DEF IInv, CheckedOK, Behind, NoRepeatedCheck, vars, Opened, Covers, New
<1>4. QED BY <1>1, <1>2, <1>3 DEF IInv

-----------------------------------------------------------------------------
(* What SlicePrerequisites returns.                                        *)

\* A nonempty set of naturals with a bound has a greatest element.
LEMMA NatMax ==
  ASSUME NEW T \in SUBSET Nat, T # {}, NEW m \in Nat, \A y \in T : y <= m
  PROVE  \E x \in T : \A y \in T : y <= x
<1> DEFINE B == {u \in Nat : \A y \in T : y <= u}
<1>1. B \in SUBSET Nat /\ B # {}
  OBVIOUS
<1>2. PICK x \in B : \A u \in B : x <= u
  BY <1>1, NatMin
<1>3. x \in Nat /\ \A y \in T : y <= x
  BY <1>2
<1>4. ASSUME x \notin T PROVE FALSE
  <2>1. PICK y \in T : TRUE
    OBVIOUS
  <2>2. x > 0 /\ \A z \in T : z <= x - 1
    BY <1>3, <1>4, <2>1
  <2>3. x - 1 \in B
    BY <1>3, <2>2
  <2> HIDE DEF B
  <2>4. QED BY <1>2, <1>3, <2>3
<1>5. QED BY <1>3, <1>4

\* The usable records of S from the sender of x that are before x.
Earlier(S, x) == {y \in S : Usable(y) /\ y < x /\ SenderOf[y] = SenderOf[x]}

LEMMA PredecessorFacts ==
  ASSUME NEW S \in SUBSET Txs, NEW x \in Txs
  PROVE  LET p == Predecessor(S, x)
         IN  \/ p = 0 /\ Earlier(S, x) = {}
             \/ p \in Earlier(S, x) /\ \A y \in Earlier(S, x) : y <= p
<1>1. CASE Earlier(S, x) = {}
  BY <1>1 DEF Predecessor, Earlier
<1>2. CASE Earlier(S, x) # {}
  <2>1. x \in Nat /\ \A y \in S : y \in Nat
    BY SizesAssumption DEF Txs
  <2>2. \A y \in Earlier(S, x) : y \in Nat /\ y <= x
    BY <2>1 DEF Earlier
  <2>3. Earlier(S, x) \in SUBSET Nat
    BY <2>2
  <2>4. \E z \in Earlier(S, x) : \A y \in Earlier(S, x) : y <= z
    BY <1>2, <2>1, <2>2, <2>3, NatMax
  <2>5. Predecessor(S, x) = CHOOSE z \in Earlier(S, x) : \A y \in Earlier(S, x) : y <= z
    BY <1>2 DEF Predecessor, Earlier
  <2>6. QED BY <2>4, <2>5
<1>3. QED BY <1>1, <1>2

\* Without recursion: the usable records of the same sender after the bound.
Between(S, x, bound) == {y \in Earlier(S, x) : bound < y}
Slice(S, x, bound) == IF x <= bound THEN {} ELSE {x} \cup Between(S, x, bound)

LEMMA SliceUnfolds ==
  ASSUME NEW S \in SUBSET Txs, NEW x \in Txs, NEW bound \in Nat
  PROVE  /\ Predecessor(S, x) \in 0 .. N /\ Predecessor(S, x) < x
         /\ Slice(S, Predecessor(S, x), bound) = Between(S, x, bound)
<1> DEFINE p == Predecessor(S, x)
<1>1. \/ p = 0 /\ Earlier(S, x) = {}
      \/ p \in Earlier(S, x) /\ \A y \in Earlier(S, x) : y <= p
  BY PredecessorFacts
<1>2. \A y \in S : y \in Nat /\ 1 <= y /\ y <= N
  BY SizesAssumption DEF Txs
<1>3. N \in Nat /\ x \in Nat /\ x >= 1 /\ x <= N
  BY SizesAssumption DEF Txs
<1> HIDE DEF p
<1>4. CASE p = 0 /\ Earlier(S, x) = {}
  <2>1. Slice(S, p, bound) = {} /\ Between(S, x, bound) = {}
    BY <1>4 DEF Slice, Between
  <2>2. QED BY <1>3, <1>4, <2>1 DEF p
<1>5. CASE p \in Earlier(S, x) /\ \A y \in Earlier(S, x) : y <= p
  <2>1. p \in S /\ Usable(p) /\ p < x /\ SenderOf[p] = SenderOf[x] /\ p \in 0 .. N
    BY <1>2, <1>3, <1>5 DEF Earlier
  <2>2. CASE p <= bound
    <3>1. Slice(S, p, bound) = {}
      BY <2>2 DEF Slice
    <3>2. Between(S, x, bound) = {}
      <4>1. \A y \in Earlier(S, x) : y <= p /\ y \in Nat /\ p \in Nat
        BY <1>2, <1>5 DEF Earlier
      <4>2. QED BY <2>2, <4>1 DEF Between
    <3>3. QED BY <2>1, <3>1, <3>2 DEF p
  <2>3. CASE ~(p <= bound)
    <3>1. Slice(S, p, bound) = {p} \cup Between(S, p, bound)
      BY <2>3 DEF Slice
    <3>2. ASSUME NEW y \in Between(S, x, bound), y # p PROVE y \in Between(S, p, bound)
      <4>1. y \in S /\ Usable(y) /\ y <= p /\ SenderOf[y] = SenderOf[x] /\ bound < y
        BY <1>5, <3>2 DEF Between, Earlier
      <4>2. y < p
        BY <1>2, <2>1, <3>2, <4>1
      <4>3. QED BY <2>1, <4>1, <4>2 DEF Between, Earlier
    <3>3. p \in Between(S, x, bound)
      BY <1>2, <1>5, <2>1, <2>3 DEF Between
    <3>4. ASSUME NEW y \in Between(S, p, bound) PROVE y \in Between(S, x, bound)
      <4>1. y \in S /\ Usable(y) /\ y < p /\ SenderOf[y] = SenderOf[p] /\ bound < y
        BY <3>4 DEF Between, Earlier
      <4>2. y < x
        BY <1>2, <1>3, <2>1, <4>1
      <4>3. QED BY <2>1, <4>1, <4>2 DEF Between, Earlier
    <3>5. Slice(S, p, bound) = Between(S, x, bound)
      BY <3>1, <3>2, <3>3, <3>4
    <3>6. QED BY <2>1, <3>5 DEF p
  <2>4. QED BY <2>2, <2>3
<1>6. QED BY <1>1, <1>4, <1>5

\* The equation by which SlicePrerequisites defines its function.
IsSlice(f, S, bound) ==
  f = [x \in 0 .. N |-> IF x <= bound THEN {} ELSE {x} \cup f[Predecessor(S, x)]]

LEMMA SliceExists ==
  ASSUME NEW S \in SUBSET Txs, NEW bound \in Nat
  PROVE  IsSlice([x \in 0 .. N |-> Slice(S, x, bound)], S, bound)
<1> DEFINE f == [x \in 0 .. N |-> Slice(S, x, bound)]
<1>1. ASSUME NEW x \in 0 .. N, ~(x <= bound)
      PROVE  f[x] = {x} \cup f[Predecessor(S, x)]
  <2>1. x \in Txs
    BY <1>1, SizesAssumption DEF Txs
  <2>2. /\ Predecessor(S, x) \in 0 .. N
        /\ Slice(S, Predecessor(S, x), bound) = Between(S, x, bound)
    BY <2>1, SliceUnfolds
  <2>3. f[x] = {x} \cup Between(S, x, bound)
    BY <1>1 DEF Slice
  <2>4. QED BY <2>2, <2>3
<1>2. ASSUME NEW x \in 0 .. N, x <= bound PROVE f[x] = {}
  BY <1>2 DEF Slice
<1>3. f = [x \in 0 .. N |-> f[x]]
  OBVIOUS
<1> HIDE DEF f
<1>4. [x \in 0 .. N |-> f[x]] =
        [x \in 0 .. N |-> IF x <= bound THEN {} ELSE {x} \cup f[Predecessor(S, x)]]
  BY <1>1, <1>2
<1>5. IsSlice(f, S, bound)
  BY <1>3, <1>4 DEF IsSlice
<1>6. QED BY <1>5 DEF f

LEMMA SliceUnique ==
  ASSUME NEW S \in SUBSET Txs, NEW bound \in Nat, NEW f, IsSlice(f, S, bound),
         NEW x \in 0 .. N
  PROVE  f[x] = Slice(S, x, bound)
<1> DEFINE D == {y \in 0 .. N : f[y] # Slice(S, y, bound)}
<1> SUFFICES ASSUME D # {} PROVE FALSE
  OBVIOUS
<1>1. D \in SUBSET Nat
  BY SizesAssumption
<1>2. PICK y \in D : \A z \in D : y <= z
  BY <1>1, NatMin
<1>3. y \in 0 .. N /\ f[y] # Slice(S, y, bound) /\ N \in Nat
  BY <1>2, SizesAssumption
<1>4. f[y] = IF y <= bound THEN {} ELSE {y} \cup f[Predecessor(S, y)]
  BY <1>3 DEF IsSlice
<1>5. ~(y <= bound)
  BY <1>3, <1>4 DEF Slice
<1>6. y \in Txs
  BY <1>3, <1>5 DEF Txs
<1> DEFINE p == Predecessor(S, y)
<1>7. p \in 0 .. N /\ p < y /\ Slice(S, p, bound) = Between(S, y, bound)
  BY <1>6, SliceUnfolds
<1>8. p \notin D
  BY <1>1, <1>2, <1>3, <1>7
<1>9. f[p] = Slice(S, p, bound)
  BY <1>7, <1>8
<1>10. QED BY <1>3, <1>4, <1>5, <1>7, <1>9 DEF Slice

\* The prerequisites of d: the usable records of its sender between the bound and d.
LEMMA Prerequisites ==
  ASSUME NEW S \in SUBSET Txs, NEW d \in Txs, NEW a \in Txs, a < d
  PROVE  SlicePrerequisites(S, d, a) = Between(S, d, a)
<1> DEFINE f == CHOOSE slice : IsSlice(slice, S, a)
<1>1. a \in Nat /\ d \in Nat
  BY SizesAssumption DEF Txs
<1>2. IsSlice(f, S, a)
  BY <1>1, SliceExists
<1>3. SlicePrerequisites(S, d, a) = f[Predecessor(S, d)]
  BY <1>1 DEF SlicePrerequisites, IsSlice
<1> HIDE DEF f
<1>4. QED BY <1>1, <1>2, <1>3, SliceUnique, SliceUnfolds

-----------------------------------------------------------------------------
(* Nonces.                                                                 *)

\* Attack and victim of a task passed the filters, in the order of the chain, and
\* the loop of Search is at a record or at the end.
CandidatesOK ==
  /\ \A w \in Starts : Opened(w) => next[w] \in records[w] \cup {N + 1}
  /\ \A t \in tasks :
       /\ t.attack \in records[t.win] /\ CandidateAttack(t.attack) /\ t.attack < t.victim
       /\ t.profit # 0 => CandidateVictim(t.attack, t.victim) /\ t.victim < t.profit

\* Why x is refused in window w: an earlier transaction of its sender, in a block of
\* the window, is not among the records or has an error.
Explained(w, x) ==
  \E y \in Txs :
    /\ SenderOf[y] = SenderOf[x] /\ y < x /\ Covers(w, y)
    /\ y \notin records[w] \/ y \in Errored

GapsOK == \A g \in gaps : Opened(g[1]) /\ Explained(g[1], g[2])

GapsInv == CandidatesOK /\ GapsOK

\* After the transactions of done, x does not have the nonce of its sender.
Misfit(done, x) == Nonce(x) # Cardinality(SameSender(done, x))

\* Blocks between covered blocks are covered.
LEMMA CoversBetween ==
  ASSUME NEW w \in Starts, NEW a \in Txs, NEW y \in Txs, NEW x \in Txs,
         Covers(w, a), Covers(w, x), a <= y \/ BlockOf[a] = BlockOf[y], y <= x
  PROVE  Covers(w, y)
<1>1. w \in Nat /\ Window \in Nat
      /\ BlockOf[a] \in Nat /\ BlockOf[y] \in Nat /\ BlockOf[x] \in Nat
  BY Numbers
<1>2. BlockOf[a] <= BlockOf[y] /\ BlockOf[y] <= BlockOf[x]
  BY <1>1, ChainAssumption
<1>3. QED BY <1>1, <1>2 DEF Covers

\* If all a replay leaves out before x are records that were not run or are not
\* there, and it applies nothing of the sender after x, a refusal of x is explained.
LEMMA RefusalExplained ==
  ASSUME TypeOK, RecordsOK, NEW w \in Starts,
         NEW a \in records[w], NEW x \in records[w], a <= x, Usable(x),
         NEW done \in SUBSET Txs,
         \A y \in done : SenderOf[y] = SenderOf[x] => y < x,
         \A y \in Txs : SenderOf[y] = SenderOf[x] /\ y \in StateAt(a) => y \in done,
         \A y \in records[w] :
           SenderOf[y] = SenderOf[x] /\ a <= y /\ y < x /\ Usable(y) => y \in done,
         Misfit(done, x)
  PROVE  Explained(w, x)
<1>1. a \in Txs /\ x \in Txs /\ Covers(w, a) /\ Covers(w, x)
  BY DEF TypeOK, RecordsOK
<1>2. \A y \in Txs : y \in Nat /\ BlockOf[y] \in Nat
  BY Numbers DEF Txs
<1>3. PICK y \in Txs : SenderOf[y] = SenderOf[x] /\ y < x /\ y \notin done
  <2> SUFFICES ASSUME \A y \in Txs : SenderOf[y] = SenderOf[x] /\ y < x => y \in done
               PROVE  FALSE
    OBVIOUS
  <2>1. {y \in SameSender(Txs, x) : y < x} = SameSender(done, x)
    BY DEF SameSender
  <2>2. QED BY <2>1 DEF Misfit, Nonce
<1>4. y \in Pseudo => FALSE
  BY <1>1, <1>3, PseudoAssumption DEF Usable
<1>5. CASE y < a
  <2>1. ~Usable(y) /\ ~(BlockOf[y] < BlockOf[a])
    BY <1>3, <1>5 DEF StateAt
  <2>2. BlockOf[a] = BlockOf[y]
    BY <1>1, <1>2, <1>5, <2>1, ChainAssumption
  <2>3. Covers(w, y)
    BY <1>1, <1>2, <1>3, <2>2, CoversBetween
  <2>4. y \in Errored
    BY <1>4, <2>1 DEF Usable
  <2>5. QED BY <1>3, <2>3, <2>4 DEF Explained
<1>6. CASE ~(y < a)
  <2>1. a <= y
    BY <1>1, <1>2, <1>6
  <2>2. Covers(w, y)
    BY <1>1, <1>2, <1>3, <2>1, CoversBetween
  <2>3. y \notin records[w] \/ ~Usable(y)
    BY <1>3, <2>1
  <2>4. QED BY <1>3, <1>4, <2>2, <2>3 DEF Explained, Usable
<1>7. QED BY <1>5, <1>6

\* Who is refused: one of the prerequisites, x after them, or y after x.
LEMMA RefusedCases ==
  ASSUME NEW done, NEW S \in SUBSET Txs, NEW x \in Txs, NEW y \in Txs \cup {0},
         NEW z \in Refused(done, S, x, y)
  PROVE  \/ /\ z \in S
            /\ Misfit(done \cup {u \in S : u < z}, z)
         \/ /\ z = x
            /\ Misfit(done \cup S, z)
         \/ /\ z = y /\ y # 0
            /\ Misfit(done \cup S \cup {x}, z)
<1> DEFINE inS == NonceErrors(done, S)
           inX == NonceErrors(done \cup S, {x})
           inY == NonceErrors(done \cup S \cup {x}, {y})
           first == CHOOSE e \in inS : \A u \in inS : e <= u
<1>1. inS # {} => first \in inS
  <2>1. inS \in SUBSET Nat
    BY SizesAssumption DEF NonceErrors, Txs
  <2> HIDE DEF inS
  <2>2. inS # {} => \E e \in inS : \A u \in inS : e <= u
    BY <2>1, NatMin
  <2>3. QED BY <2>2
<1>2. z \in inS \/ z \in inX \/ (y # 0 /\ z \in inY)
  BY <1>1 DEF Refused
<1>3. CASE z \in inS
  BY <1>3 DEF NonceErrors, Misfit
<1>4. \A D : D \cup {u \in {z} : u < z} = D
  <2>1. x \in Nat /\ y \in Nat
    BY SizesAssumption DEF Txs
  <2>2. CASE z \in inS
    <3>1. z \in Nat
      BY <2>2, SizesAssumption DEF NonceErrors, Txs
    <3>2. QED BY <3>1
  <2>3. CASE z \in inX \/ z \in inY
    <3>1. z = x \/ z = y
      BY <2>3 DEF NonceErrors, Misfit
    <3>2. QED BY <2>1, <3>1
  <2>4. QED BY <1>2, <2>2, <2>3
<1>5. CASE z \in inX
  <2>1. z = x /\ Misfit((done \cup S) \cup {u \in {z} : u < z}, z)
    BY <1>5 DEF NonceErrors, Misfit
  <2>2. QED BY <1>4, <2>1
<1>6. CASE y # 0 /\ z \in inY
  <2>1. z = y /\ Misfit((done \cup S \cup {x}) \cup {u \in {z} : u < z}, z)
    BY <1>6 DEF NonceErrors, Misfit
  <2>2. QED BY <1>4, <1>6, <2>1
<1>7. QED BY <1>2, <1>3, <1>5, <1>6

LEMMA RefusedAmong ==
  ASSUME NEW done, NEW S, NEW x, NEW y, NEW z \in Refused(done, S, x, y)
  PROVE  z \in S \/ z = x \/ (z = y /\ y # 0)
<1> DEFINE inS == NonceErrors(done, S)
           first == CHOOSE e \in inS : \A u \in inS : e <= u
<1>1. inS # {} => first \in inS
  <2>1. inS \in SUBSET Nat
    BY SizesAssumption DEF NonceErrors, Txs
  <2> HIDE DEF inS
  <2>2. inS # {} => \E e \in inS : \A u \in inS : e <= u
    BY <2>1, NatMin
  <2>3. QED BY <2>2
<1>2. \/ z \in inS \/ z \in NonceErrors(done \cup S, {x})
      \/ y # 0 /\ z \in NonceErrors(done \cup S \cup {x}, {y})
  BY <1>1 DEF Refused
<1>3. \A D, Q : NonceErrors(D, Q) \subseteq Q
  BY DEF NonceErrors
<1>4. QED BY <1>2, <1>3

\* The records before the victim that its re-execution needs, and what is applied.
LEMMA VictimPlaces ==
  ASSUME IInv, CandidatesOK, NEW t \in tasks, t.victim <= N
  PROVE  /\ t.win \in Starts /\ records[t.win] \in SUBSET Txs /\ t.attack < t.victim
         /\ t.attack \in records[t.win] /\ t.victim \in records[t.win]
         /\ VictimFirst(t.win, t.attack, t.victim) = Between(records[t.win], t.victim, t.attack)
         /\ \A x \in Txs : x \in Nat
<1>1. /\ t.win \in Starts /\ records[t.win] \in SUBSET Txs /\ t.attack < t.victim
      /\ t.attack \in records[t.win] /\ t.victim \in records[t.win] \cup {N + 1}
      /\ t.victim \in Nat /\ N \in Nat
  BY TaskFields DEF IInv, CandidatesOK, TasksOK
<1>2. t.victim \in records[t.win] /\ t.victim \in Txs /\ t.attack \in Txs
  BY <1>1
<1>3. VictimFirst(t.win, t.attack, t.victim) = Between(records[t.win], t.victim, t.attack)
  BY <1>1, <1>2, Prerequisites DEF VictimFirst
<1>4. QED BY <1>1, <1>2, <1>3, SizesAssumption DEF Txs

LEMMA ProfitPlaces ==
  ASSUME IInv, CandidatesOK, NEW t \in tasks, t.profit \in Txs
  PROVE  /\ t.victim <= N /\ t.profit \in records[t.win] /\ t.victim < t.profit
         /\ t.attack < t.profit
         /\ CandidateVictim(t.attack, t.victim)
         /\ ProfitFirst(t.win, t.attack, t.profit) = Between(records[t.win], t.profit, t.attack)
<1>1. t.profit # 0 /\ t.profit # N + 1 /\ t.profit \in Nat /\ N \in Nat
  BY SizesAssumption DEF Txs
<1>2. /\ t.victim <= N /\ t.profit \in records[t.win] /\ t.victim < t.profit
      /\ CandidateVictim(t.attack, t.victim)
  BY <1>1 DEF IInv, TasksOK, CandidatesOK
<1>3. /\ records[t.win] \in SUBSET Txs /\ t.attack < t.victim
      /\ t.attack \in Txs /\ t.victim \in Txs /\ t.attack \in Nat /\ t.victim \in Nat
  BY <1>2, VictimPlaces
<1>4. t.attack < t.profit
  BY <1>1, <1>2, <1>3
<1>5. ProfitFirst(t.win, t.attack, t.profit) = Between(records[t.win], t.profit, t.attack)
  BY <1>3, <1>4, Prerequisites DEF ProfitFirst
<1>6. QED BY <1>2, <1>4, <1>5

\* Victim and attack have different senders, so that each is refused only for what is
\* missing before it, although their order has been swapped.
LEMMA VictimErrorsExplained ==
  ASSUME IInv, CandidatesOK, NEW t \in tasks, t.victim <= N,
         CandidateVictim(t.attack, t.victim), NEW z \in VictimErrors(t)
  PROVE  Explained(t.win, z)
<1> DEFINE w == t.win
           a == t.attack
           v == t.victim
           S == Between(records[w], v, a)
<1>1. /\ w \in Starts /\ records[w] \in SUBSET Txs /\ a < v /\ a \in records[w]
      /\ v \in records[w] /\ \A x \in Txs : x \in Nat
      /\ VictimFirst(w, a, v) = S
  BY VictimPlaces
<1>2. /\ TypeOK /\ RecordsOK /\ Usable(a) /\ Usable(v) /\ SenderOf[a] # SenderOf[v]
  BY DEF IInv, CandidatesOK, CandidateAttack, CandidateVictim
<1>3. /\ S \in SUBSET Txs
      /\ \A y \in S : /\ y \in records[w] /\ Usable(y) /\ y < v
                      /\ SenderOf[y] = SenderOf[v] /\ a < y
      /\ \A y \in records[w] :
           Usable(y) /\ y < v /\ SenderOf[y] = SenderOf[v] /\ a < y => y \in S
  BY <1>1 DEF Between, Earlier
<1>4. /\ StateAt(a) \subseteq Txs
      /\ \A y \in StateAt(a) : y < a
  BY DEF StateAt
<1>5. z \in Refused(StateAt(a), S, v, a)
  BY <1>1 DEF VictimErrors
<1> HIDE DEF S, w, a, v
<1>6. CASE z \in S /\ Misfit(StateAt(a) \cup {u \in S : u < z}, z)
  <2> DEFINE done == StateAt(a) \cup {u \in S : u < z}
  <2>1. z \in records[w] /\ Usable(z) /\ a <= z /\ SenderOf[z] = SenderOf[v] /\ z < v /\ a < z
    BY <1>1, <1>3, <1>6
  <2>2. done \in SUBSET Txs /\ \A y \in done : y < z
    BY <1>1, <1>3, <1>4, <2>1
  <2>3. \A y \in records[w] : SenderOf[y] = SenderOf[z] /\ a <= y /\ y < z /\ Usable(y) => y \in done
    BY <1>1, <1>2, <1>3, <2>1
  <2>4. \A y \in Txs : SenderOf[y] = SenderOf[z] /\ y \in StateAt(a) => y \in done
    OBVIOUS
  <2>5. Misfit(done, z)
    BY <1>6
  <2> HIDE DEF done
  <2>6. QED BY <1>1, <1>2, <2>1, <2>2, <2>3, <2>4, <2>5, RefusalExplained DEF w
<1>7. CASE z = v /\ Misfit(StateAt(a) \cup S, z)
  <2> DEFINE done == StateAt(a) \cup S
  <2>1. a <= v
    BY <1>1
  <2>2. done \in SUBSET Txs /\ \A y \in done : y < v
    BY <1>1, <1>3, <1>4
  <2>3. \A y \in records[w] : SenderOf[y] = SenderOf[v] /\ a <= y /\ y < v /\ Usable(y) => y \in done
    BY <1>1, <1>2, <1>3
  <2>4. \A y \in Txs : SenderOf[y] = SenderOf[v] /\ y \in StateAt(a) => y \in done
    OBVIOUS
  <2>5. Misfit(done, v)
    BY <1>7
  <2> HIDE DEF done
  <2>6. Explained(w, v)
    BY <1>1, <1>2, <2>1, <2>2, <2>3, <2>4, <2>5, RefusalExplained
  <2>7. QED BY <1>7, <2>6 DEF w
<1>8. CASE z = a /\ Misfit(StateAt(a) \cup S \cup {v}, z)
  <2> DEFINE done == StateAt(a) \cup S \cup {v}
  <2>1. a <= a
    BY <1>1
  <2>2. done \in SUBSET Txs /\ \A y \in done : SenderOf[y] = SenderOf[a] => y < a
    BY <1>1, <1>2, <1>3, <1>4
  <2>3. \A y \in records[w] : SenderOf[y] = SenderOf[a] /\ a <= y /\ y < a /\ Usable(y) => y \in done
    BY <1>1
  <2>4. \A y \in Txs : SenderOf[y] = SenderOf[a] /\ y \in StateAt(a) => y \in done
    OBVIOUS
  <2>5. Misfit(done, a)
    BY <1>8
  <2> HIDE DEF done
  <2>6. Explained(w, a)
    BY <1>1, <1>2, <2>1, <2>2, <2>3, <2>4, <2>5, RefusalExplained
  <2>7. QED BY <1>8, <2>6 DEF w
<1>9. v \in Txs /\ a \in Txs
  BY <1>1
<1>10. S \in SUBSET Txs /\ a \in Txs \cup {0}
  BY <1>3, <1>9
<1>11. \/ z \in S /\ Misfit(StateAt(a) \cup {u \in S : u < z}, z)
       \/ z = v /\ Misfit(StateAt(a) \cup S, z)
       \/ z = a /\ Misfit(StateAt(a) \cup S \cup {v}, z)
  BY <1>5, <1>9, <1>10, RefusedCases
<1>12. QED BY <1>6, <1>7, <1>8, <1>11

\* Victim and profit transaction have different senders, and the attack has been run.
LEMMA ProfitErrorsExplained ==
  ASSUME IInv, CandidatesOK, NEW t \in tasks, t.profit \in Txs,
         CandidateProfit(t.win, t.attack, t.victim, t.profit), NEW z \in ProfitErrors(t)
  PROVE  Explained(t.win, z)
<1> DEFINE w == t.win
           a == t.attack
           v == t.victim
           p == t.profit
           V == Between(records[w], v, a)
           S == Between(records[w], p, a)
           swapped == StateAt(a) \cup V \cup {v, a}
<1>1. /\ w \in Starts /\ records[w] \in SUBSET Txs /\ a < v /\ a \in records[w]
      /\ v \in records[w] /\ p \in records[w] /\ v < p /\ a < p /\ \A x \in Txs : x \in Nat
      /\ Swapped(w, a, v) = swapped /\ ProfitFirst(w, a, p) = S
  BY VictimPlaces, ProfitPlaces DEF Swapped
<1>2. /\ TypeOK /\ RecordsOK /\ Usable(a) /\ Usable(p) /\ SenderOf[v] # SenderOf[p]
  BY DEF IInv, CandidatesOK, CandidateAttack, CandidateProfit
<1>3. /\ S \in SUBSET Txs
      /\ \A y \in S : /\ y \in records[w] /\ Usable(y) /\ y < p
                      /\ SenderOf[y] = SenderOf[p] /\ a < y
      /\ \A y \in records[w] :
           Usable(y) /\ y < p /\ SenderOf[y] = SenderOf[p] /\ a < y => y \in S
  BY <1>1 DEF Between, Earlier
<1>4. /\ swapped \in SUBSET Txs /\ a \in swapped
      /\ \A y \in swapped : y < a \/ y = a \/ SenderOf[y] = SenderOf[v]
      /\ StateAt(a) \subseteq swapped
  BY <1>1 DEF StateAt, Between, Earlier
<1>5. z \in Refused(swapped, S, p, 0)
  BY <1>1 DEF ProfitErrors
<1> HIDE DEF S, V, swapped, w, a, v, p
<1>6. ASSUME NEW x \in records[w], a <= x, Usable(x), SenderOf[x] = SenderOf[p],
             NEW Q \in SUBSET S, x = p \/ x \in S, Q = {u \in S : u < x},
             Misfit(swapped \cup Q, x)
      PROVE  Explained(w, x)
  <2> DEFINE done == swapped \cup Q
  <2>1. a < x /\ x <= p
    BY <1>1, <1>3, <1>6
  <2>2. done \in SUBSET Txs /\ \A y \in done : SenderOf[y] = SenderOf[x] => y < x
    <3>1. \A y \in Q : y < x
      BY <1>6
    <3>2. \A y \in swapped : SenderOf[y] = SenderOf[x] => y < x
      BY <1>1, <1>2, <1>4, <1>6, <2>1
    <3>3. QED BY <1>3, <1>4, <3>1, <3>2
  <2>3. \A y \in records[w] : SenderOf[y] = SenderOf[x] /\ a <= y /\ y < x /\ Usable(y) => y \in done
    <3> SUFFICES ASSUME NEW y \in records[w], SenderOf[y] = SenderOf[x], a <= y, y < x, Usable(y)
                 PROVE  y \in done
      OBVIOUS
    <3>1. y \in Nat /\ a \in Nat /\ x \in Nat /\ p \in Nat
      BY <1>1
    <3>2. CASE y = a
      BY <1>4, <3>2
    <3>3. CASE y # a
      <4>1. a < y /\ y < p
        BY <2>1, <3>1, <3>3
      <4>2. y \in S
        BY <1>3, <1>6, <4>1
      <4>3. QED BY <1>6, <4>2
    <3>4. QED BY <3>2, <3>3
  <2>4. \A y \in Txs : SenderOf[y] = SenderOf[x] /\ y \in StateAt(a) => y \in done
    BY <1>4
  <2>5. Misfit(done, x)
    BY <1>6
  <2> HIDE DEF done
  <2>6. QED BY <1>1, <1>2, <1>6, <2>2, <2>3, <2>4, <2>5, RefusalExplained
<1>7. CASE z \in S /\ Misfit(swapped \cup {u \in S : u < z}, z)
  <2>1. z \in records[w] /\ Usable(z) /\ a <= z /\ SenderOf[z] = SenderOf[p]
    BY <1>1, <1>3, <1>7
  <2>2. {u \in S : u < z} \in SUBSET S
    OBVIOUS
  <2>3. QED BY <1>6, <1>7, <2>1, <2>2 DEF w
<1>8. CASE z = p /\ Misfit(swapped \cup S, z)
  <2>1. S = {u \in S : u < p} /\ a <= p
    BY <1>1, <1>3
  <2>2. Explained(w, p)
    BY <1>1, <1>2, <1>6, <1>8, <2>1
  <2>3. QED BY <1>8, <2>2 DEF w
<1>9. p \in Txs
  BY <1>1
<1>10. QED BY <1>3, <1>5, <1>7, <1>8, <1>9, RefusedCases DEF w

\* The next victim is after the attack, the next profit transaction after the victim.
LEMMA NextVictimInOrder ==
  ASSUME IInv, CandidatesOK, NEW t \in tasks, t.victim <= N
  PROVE  LET u == NextVictim(t)
         IN  u.win = t.win /\ u.attack = t.attack /\ u.profit = 0 /\ t.attack < u.victim
<1>1. Move(t, NextVictim(t))
  BY NextVictimMoves DEF IInv
<1>2. NextVictim(t).profit = 0
  BY TaskFields DEF NextVictim, Task, IInv
<1>3. t.attack < t.victim /\ t.attack \in Nat /\ t.victim \in Nat
  BY TaskFields DEF IInv, CandidatesOK
<1>4. After(records[t.win], t.victim) \in Nat /\ t.victim < After(records[t.win], t.victim)
  BY TaskFields, AfterFacts DEF IInv
<1>5. NextVictim(t).victim = After(records[t.win], t.victim)
  BY TaskFields DEF NextVictim, Task, IInv
<1>6. QED BY <1>1, <1>2, <1>3, <1>4, <1>5 DEF Move

LEMMA FirstProfitInOrder ==
  ASSUME IInv, CandidatesOK, NEW t \in tasks, t.victim <= N
  PROVE  LET u == FirstProfit(t)
         IN  /\ u.win = t.win /\ u.attack = t.attack /\ u.victim = t.victim
             /\ u.profit = After(records[t.win], t.victim)
             /\ t.attack < u.victim /\ u.victim < u.profit
<1>1. t \in Task /\ t.attack < t.victim
  BY TaskFields DEF IInv, CandidatesOK
<1>2. t.victim < After(records[t.win], t.victim)
  BY TaskFields, AfterFacts DEF IInv
<1>3. QED BY <1>1, <1>2 DEF FirstProfit, Task

LEMMA NextProfitInOrder ==
  ASSUME IInv, CandidatesOK, NEW t \in tasks, t.profit \in Txs
  PROVE  LET u == NextProfit(t)
         IN  /\ u.win = t.win /\ u.attack = t.attack /\ u.victim = t.victim
             /\ u.profit = After(records[t.win], t.profit)
             /\ CandidateVictim(t.attack, u.victim)
             /\ t.attack < u.victim /\ u.victim < u.profit
<1>1. t \in Task /\ t.profit \in 0 .. N + 1 /\ t.profit <= N /\ t.victim \in Nat /\ t.profit \in Nat
  BY TaskFields DEF IInv, Txs
<1>2. t.victim < t.profit /\ CandidateVictim(t.attack, t.victim) /\ t.attack < t.victim
  BY ProfitPlaces DEF CandidatesOK
<1>3. t.profit < After(records[t.win], t.profit) /\ After(records[t.win], t.profit) \in Nat
  BY <1>1, TaskFields, AfterFacts DEF IInv
<1>4. t.victim < After(records[t.win], t.profit)
  BY <1>1, <1>2, <1>3
<1>5. QED BY <1>1, <1>2, <1>4 DEF NextProfit, Task

\* A step of a task to u, or to its end, with explained gaps.
LEMMA TaskKeepsGaps ==
  ASSUME GapsInv, NEW t \in tasks, NEW u,
         tasks' \subseteq (tasks \ {t}) \cup {u},
         u \in tasks \/ (u.win = t.win /\ u.attack = t.attack /\ t.attack < u.victim
                          /\ (u.profit # 0 => CandidateVictim(t.attack, u.victim) /\ u.victim < u.profit)),
         \A g \in gaps' : g \in gaps \/ (g[1] = t.win /\ Opened(t.win) /\ Explained(t.win, g[2])),
         UNCHANGED <<windowVars, next>>
  PROVE  GapsInv'
<1> USE DEF windowVars, Opened
<1>1. CandidatesOK'
  BY DEF GapsInv, CandidatesOK
<1>2. GapsOK'
  BY DEF GapsInv, GapsOK, Explained, Covers
<1>3. QED BY <1>1, <1>2 DEF GapsInv

LEMMA TaskStepKeepsGaps ==
  ASSUME IInv, GapsInv, NEW t \in tasks, TaskStep(t)
  PROVE  GapsInv'
<1> USE DEF GapsInv
<1>1. t.profit \in 0 .. N + 1 /\ (t.profit # 0 => t.victim <= N) /\ Opened(t.win) /\ N \in Nat
      /\ t.victim \in 1 .. N + 1
  BY TaskFields DEF IInv, TasksOK
<1>3. CASE EndTask(t)
  <2>1. tasks' \subseteq (tasks \ {t}) \cup {t} /\ gaps' = gaps
        /\ UNCHANGED <<windowVars, next>>
    BY <1>3 DEF EndTask
  <2>2. QED BY <2>1, TaskKeepsGaps
<1>4. CASE \/ SkipVictim(t) \/ VictimFails(t) \/ EndProfits(t)
  <2> DEFINE u == NextVictim(t)
  <2>1. t.victim <= N
    BY <1>1, <1>4 DEF SkipVictim, VictimFails, EndProfits, AtVictim
  <2>2. u.win = t.win /\ u.attack = t.attack /\ u.profit = 0 /\ t.attack < u.victim
    BY <2>1, NextVictimInOrder
  <2>3. tasks' \subseteq (tasks \ {t}) \cup {u} /\ UNCHANGED <<windowVars, next>>
    BY <1>4 DEF SkipVictim, VictimFails, EndProfits, Become
  <2> HIDE DEF u
  <2>4. CASE SkipVictim(t) \/ EndProfits(t)
    <3>1. gaps' = gaps
      BY <2>4 DEF SkipVictim, EndProfits
    <3>2. QED BY <2>2, <2>3, <3>1, TaskKeepsGaps
  <2>5. CASE VictimFails(t)
    <3>1. gaps' = gaps \cup ({t.win} \X VictimErrors(t)) /\ CandidateVictim(t.attack, t.victim)
      BY <2>5 DEF VictimFails
    <3>2. \A x \in VictimErrors(t) : Explained(t.win, x)
      BY <2>1, <3>1, VictimErrorsExplained
    <3>3. \A g \in gaps' : g \in gaps \/ (g[1] = t.win /\ Opened(t.win) /\ Explained(t.win, g[2]))
      BY <1>1, <3>1, <3>2
    <3>4. QED BY <2>2, <2>3, <3>3, TaskKeepsGaps
  <2>6. QED BY <1>4, <2>4, <2>5
<1>5. CASE OldVictim(t) \/ CheckPair(t)
  <2> DEFINE u == FirstProfit(t)
  <2>1. t.victim <= N /\ CandidateVictim(t.attack, t.victim)
    BY <1>5 DEF OldVictim, CheckPair, Swappable, AtVictim
  <2>2. /\ u.win = t.win /\ u.attack = t.attack /\ t.attack < u.victim
        /\ u.victim = t.victim /\ u.victim < u.profit
    BY <2>1, FirstProfitInOrder
  <2>3. /\ tasks' \subseteq (tasks \ {t}) \cup {u} /\ UNCHANGED <<windowVars, next>>
        /\ gaps' = gaps
    BY <1>5 DEF OldVictim, CheckPair, Become
  <2> HIDE DEF u
  <2>4. QED BY <2>1, <2>2, <2>3, TaskKeepsGaps
<1>6. CASE SkipProfit(t) \/ ProfitFails(t) \/ CheckTriple(t)
  <2> DEFINE u == NextProfit(t)
  <2>1. t.profit \in Txs
    BY <1>6 DEF SkipProfit, ProfitFails, CheckTriple, AtProfit
  <2>2. /\ u.win = t.win /\ u.attack = t.attack /\ t.attack < u.victim
        /\ CandidateVictim(t.attack, u.victim) /\ u.victim < u.profit
    BY <2>1, NextProfitInOrder
  <2>3. tasks' \subseteq (tasks \ {t}) \cup {u} /\ UNCHANGED <<windowVars, next>>
    BY <1>6 DEF SkipProfit, ProfitFails, CheckTriple, Become
  <2> HIDE DEF u
  <2>4. CASE SkipProfit(t) \/ CheckTriple(t)
    <3>1. gaps' = gaps
      BY <2>4 DEF SkipProfit, CheckTriple
    <3>2. QED BY <2>2, <2>3, <3>1, TaskKeepsGaps
  <2>5. CASE ProfitFails(t)
    <3>1. /\ gaps' = gaps \cup ({t.win} \X ProfitErrors(t))
          /\ CandidateProfit(t.win, t.attack, t.victim, t.profit)
      BY <2>5 DEF ProfitFails
    <3>2. \A x \in ProfitErrors(t) : Explained(t.win, x)
      BY <2>1, <3>1, ProfitErrorsExplained
    <3>3. \A g \in gaps' : g \in gaps \/ (g[1] = t.win /\ Opened(t.win) /\ Explained(t.win, g[2]))
      BY <1>1, <3>1, <3>2
    <3>4. QED BY <2>2, <2>3, <3>3, TaskKeepsGaps
  <2>6. QED BY <1>6, <2>4, <2>5
<1>7. QED BY <1>3, <1>4, <1>5, <1>6 DEF TaskStep

\* Search moves on to the next record, and submits an attack that is one.
LEMMA WindowStepKeepsGaps ==
  ASSUME IInv, GapsInv, NEW w \in Starts, WindowStep(w) \/ Expire(w)
  PROVE  GapsInv'
<1> USE DEF GapsInv, Opened
<1>1. /\ next \in [Starts -> 0 .. N + 1] /\ phase \in [Starts -> {"none", "searching", "waiting", "panicking", "returned"}]
  BY DEF IInv, TypeOK
<1>2. gaps' = gaps /\ records' = records /\ \A v \in Starts : Opened(v) <=> Opened(v)'
  BY <1>1 DEF WindowStep, SearchNothing, Crash, SearchEarlyExit, SkipAttack, SubmitAttack, EndLoop,
              SearchReturn, Expire, windowVars
<1>3. GapsOK'
  BY <1>2 DEF IInv, TypeOK, GapsOK, Explained, Covers
<1>4. CASE SkipAttack(w) \/ SubmitAttack(w)
  <2> DEFINE n == After(records[w], next[w])
  <2>1. /\ Opened(w) /\ next[w] \in Txs /\ next[w] \in records[w]
        /\ n \in records[w] \cup {N + 1} /\ n > next[w]
    <3>1. phase[w] = "searching" /\ ~IsLast(w, next[w])
      BY <1>4 DEF SkipAttack, SubmitAttack
    <3>2. /\ Opened(w) /\ next[w] \in Txs
          /\ n \in records[w] \cup {N + 1} /\ n > next[w]
      BY <3>1, NextAttack
    <3>3. next[w] # N + 1
      BY <3>2, SizesAssumption DEF Txs
    <3>4. QED BY <3>2, <3>3 DEF CandidatesOK
  <2>2. next' = [next EXCEPT ![w] = n]
    BY <1>4 DEF SkipAttack, SubmitAttack
  <2> HIDE DEF n
  <2>3. \A v \in Starts : Opened(v)' => next'[v] \in records[v] \cup {N + 1}
    BY <1>1, <1>2, <2>1, <2>2 DEF CandidatesOK
  <2>4. CASE SkipAttack(w)
    <3>1. tasks' = tasks
      BY <2>4 DEF SkipAttack
    <3>2. QED BY <1>2, <1>3, <2>3, <3>1 DEF CandidatesOK
  <2>5. CASE SubmitAttack(w)
    <3> DEFINE t == [win |-> w, attack |-> next[w], victim |-> n, profit |-> 0]
    <3>1. tasks' = tasks \cup {t} /\ CandidateAttack(next[w])
      BY <2>5 DEF SubmitAttack, n
    <3>2. /\ t.attack \in records[t.win] /\ CandidateAttack(t.attack) /\ t.attack < t.victim
          /\ t.profit = 0
      BY <2>1, <3>1
    <3> HIDE DEF t
    <3>3. QED BY <1>2, <1>3, <2>3, <3>1, <3>2 DEF CandidatesOK
  <2>6. QED BY <1>4, <2>4, <2>5
<1>5. CASE ~(SkipAttack(w) \/ SubmitAttack(w))
  <2>1. next' = next /\ tasks' = tasks
    BY <1>5 DEF WindowStep, SearchNothing, Crash, SearchEarlyExit, EndLoop, SearchReturn, Expire, windowVars
  <2>2. QED BY <1>2, <1>3, <2>1 DEF CandidatesOK
<1>6. QED BY <1>4, <1>5

LEMMA OpenKeepsGaps ==
  ASSUME IInv, GapsInv, OpenSearchWindow
  PROVE  GapsInv'
<1> USE DEF GapsInv, Opened
<1>1. PICK missing \in SUBSET MayMiss :
        records' = [records EXCEPT ![b] =
          {x \in Txs : BlockOf[x] \in b .. b + Window - 1 /\ BlockOf[x] \notin missing}]
  BY DEF OpenSearchWindow, StartWindow
<1>2. /\ phase' = [phase EXCEPT ![b] = "searching"]
      /\ next' = [next EXCEPT ![b] = After(records'[b], 0)]
      /\ tasks' = tasks /\ gaps' = gaps
  BY DEF OpenSearchWindow, StartWindow
<1>3. /\ next \in [Starts -> 0 .. N + 1] /\ records \in [Starts -> SUBSET Txs]
      /\ phase \in [Starts -> {"none", "searching", "waiting", "panicking", "returned"}]
  BY DEF IInv, TypeOK
<1>4. \A v \in Starts : v # b => /\ Opened(v)' <=> Opened(v)
                                 /\ records'[v] = records[v] /\ next'[v] = next[v]
  BY <1>1, <1>2, <1>3
<1>5. \A v \in Starts : Opened(v) => v # b
  <2>1. b \in Nat /\ Starts \subseteq Nat
    BY Numbers DEF IInv, TypeOK
  <2>2. QED BY <2>1 DEF IInv, PivotOK
<1>6. GapsOK'
  BY <1>2, <1>4, <1>5 DEF GapsOK, Explained, Covers, IInv, TypeOK
<1>7. ASSUME NEW t \in tasks
      PROVE  /\ t.attack \in records'[t.win] /\ CandidateAttack(t.attack) /\ t.attack < t.victim
             /\ t.profit # 0 => CandidateVictim(t.attack, t.victim) /\ t.victim < t.profit
  <2>1. t.win \in Starts /\ Opened(t.win)
    BY TaskFields DEF IInv, TasksOK
  <2>2. QED BY <1>4, <1>5, <2>1 DEF CandidatesOK
<1>8. ASSUME NEW v \in Starts, Opened(v)' PROVE next'[v] \in records'[v] \cup {N + 1}
  <2>1. CASE v = b
    <3>1. records'[b] \in SUBSET Txs /\ next'[b] = After(records'[b], 0) /\ 0 \in 0 .. N + 1
      BY <1>1, <1>2, <1>3, <2>1, SizesAssumption
    <3>2. QED BY <2>1, <3>1, AfterFacts
  <2>2. CASE v # b
    BY <1>4, <1>8, <2>2 DEF CandidatesOK
  <2>3. QED BY <2>1, <2>2
<1>9. CandidatesOK'
  BY <1>2, <1>7, <1>8 DEF CandidatesOK
<1>10. QED BY <1>6, <1>9

-----------------------------------------------------------------------------
(* Completeness.                                                           *)

\* Windows are opened from From on, one every Step blocks, each with the end of the
\* window before it as its pivot.
PivotExact(w, x) ==
  \/ w = From /\ x = From
  \/ w >= Step /\ w - Step \in Starts /\ x = w - Step + Window

WindowsOK ==
  /\ (b - From) % Step = 0
  /\ PivotExact(b, pivot)
  /\ \A w \in Starts : Opened(w) => PivotExact(w, pivotOf[w])

\* A search that cannot time out ends at the last record, and when it has returned
\* its tasks have ended.
ReturnsOK ==
  \A w \in Starts \ MayExpire :
    /\ phase[w] \in {"waiting", "returned"} => IsLast(w, next[w])
    /\ w \in expired => phase[w] \in {"panicking", "returned"} /\ TasksOf(w) = {}

\* The combinations that window w should give to the oracle.
Good(a, v, p) == IF p = 0 THEN GoodPair(a, v) ELSE GoodTriple(a, v, p)
Final(v, p) == IF p = 0 THEN v ELSE p
Wanted(w, a, v, p) ==
  /\ Opened(w) /\ Undisturbed(w) /\ Good(a, v, p)
  /\ Covers(w, a) /\ Covers(w, Final(v, p)) /\ New(w, Final(v, p))

Handled(w, a, v, p) == <<a, v, p>> \in checked \/ FoundIn(w, a, v)

\* Task t has yet to come to victim v and profit transaction p.
Ahead(t, v, p) ==
  \/ t.victim < v
  \/ t.victim = v /\ (IF p = 0 THEN t.profit = 0 ELSE t.profit <= p)

Pursued(w, a, v, p) == \E t \in tasks : t.win = w /\ t.attack = a /\ Ahead(t, v, p)

\* A combination that has been submitted is never lost: a task will come to it,
\* unless it was given to the oracle or its attack was found with an earlier victim.
ProgressOK ==
  \A w \in Starts : \A a, v \in Txs : \A p \in 0 .. N :
    Wanted(w, a, v, p) /\ a < next[w] => Handled(w, a, v, p) \/ Pursued(w, a, v, p)

CompleteInv == WindowsOK /\ ReturnsOK /\ ProgressOK

\* After returns the least later member.
LEMMA AfterIsLeast ==
  ASSUME NEW S \in SUBSET Txs, NEW x \in 0 .. N + 1, NEW y \in S, x < y
  PROVE  After(S, x) <= y
<1> DEFINE T == {z \in S : z > x}
<1>1. N \in Nat /\ x \in Nat /\ \A z \in S : z \in Nat
  BY SizesAssumption DEF Txs
<1>2. T \in SUBSET Nat /\ y \in T
  BY <1>1
<1>3. PICK z \in T : \A u \in T : z <= u
  BY <1>2, NatMin
<1>4. \E u \in S : u > x /\ \A e \in S : e > x => u <= e
  BY <1>3
<1>5. After(S, x) = CHOOSE u \in S : u > x /\ \A e \in S : e > x => u <= e
  BY <1>2 DEF After
<1>6. \A e \in S : e > x => After(S, x) <= e
  BY <1>4, <1>5
<1>7. QED BY <1>1, <1>2, <1>6

\* The transactions of a wanted combination are records of the window, in order.
LEMMA WantedFacts ==
  ASSUME IInv, NEW w \in Starts, NEW a \in Txs, NEW v \in Txs, NEW p \in 0 .. N,
         Wanted(w, a, v, p)
  PROVE  /\ records[w] \in SUBSET Txs
         /\ a \in records[w] /\ v \in records[w] /\ a < v
         /\ a \in Nat /\ v \in Nat /\ p \in Nat /\ N \in Nat
         /\ p # 0 => p \in records[w] /\ v < p
         /\ \A y \in Txs : Covers(w, y) => y \in records[w]
<1>1. a \in Nat /\ v \in Nat /\ p \in Nat /\ N \in Nat
  BY SizesAssumption DEF Txs
<1>2. a < v /\ (p # 0 => v < p)
  BY DEF Wanted, Good, GoodPair, GoodTriple
<1>3. p # 0 => p \in Txs
  BY <1>1 DEF Txs
<1>4. Final(v, p) \in Txs /\ v <= Final(v, p)
  BY <1>1, <1>2, <1>3 DEF Final
<1>5. Covers(w, a) /\ Covers(w, Final(v, p))
  BY DEF Wanted
<1>6. Covers(w, v)
  <2>1. PICK x \in Txs : x = Final(v, p)
    BY <1>4
  <2>2. Covers(w, x) /\ v <= x /\ a <= v
    BY <1>1, <1>2, <1>4, <1>5, <2>1
  <2>3. QED BY <1>5, <2>2, CoversBetween
<1>7. p # 0 => Covers(w, p)
  BY <1>5 DEF Final
<1>8. records[w] = {x \in Txs : Covers(w, x)}
  BY DEF Wanted, Undisturbed
<1>9. QED BY <1>1, <1>2, <1>3, <1>5, <1>6, <1>7, <1>8

-----------------------------------------------------------------------------
(* A task on its way to a combination.                                     *)

LEMMA NextVictimAhead ==
  ASSUME IInv, CandidatesOK, NEW t \in tasks, NEW v \in records[t.win], t.victim < v,
         NEW p \in 0 .. N
  PROVE  Ahead(NextVictim(t), v, p)
<1>1. /\ records[t.win] \in SUBSET Txs /\ t.victim \in 0 .. N + 1 /\ v \in Txs
      /\ t.victim \in Nat /\ N \in Nat
  BY TaskFields DEF IInv
<1>2. t.victim <= N /\ v \in Nat /\ v <= N /\ p \in Nat
  BY <1>1 DEF Txs
<1>3. After(records[t.win], t.victim) <= v /\ After(records[t.win], t.victim) \in Nat
  BY <1>1, AfterIsLeast, AfterFacts
<1>4. NextVictim(t).victim = After(records[t.win], t.victim) /\ NextVictim(t).profit = 0
  BY TaskFields DEF NextVictim, Task, IInv
<1> HIDE DEF NextVictim
<1>5. QED BY <1>2, <1>3, <1>4 DEF Ahead

LEMMA FirstProfitAhead ==
  ASSUME IInv, CandidatesOK, NEW t \in tasks, t.victim <= N, NEW v, NEW p \in 0 .. N,
         t.victim < v \/ (t.victim = v /\ p \in records[t.win] /\ v < p)
  PROVE  Ahead(FirstProfit(t), v, p)
<1>1. FirstProfit(t).victim = t.victim /\ FirstProfit(t).profit = After(records[t.win], t.victim)
  BY FirstProfitInOrder
<1>2. CASE t.victim < v
  BY <1>1, <1>2 DEF Ahead
<1>3. CASE t.victim = v /\ p \in records[t.win] /\ v < p
  <2>1. /\ records[t.win] \in SUBSET Txs /\ t.victim \in 0 .. N + 1 /\ t.victim \in Nat /\ N \in Nat
        /\ t.victim \in 1 .. N + 1
    BY TaskFields DEF IInv
  <2>2. After(records[t.win], t.victim) <= p
    BY <1>3, <2>1, AfterIsLeast
  <2>3. p # 0
    BY <1>3, <2>1
  <2>4. QED BY <1>1, <1>3, <2>2, <2>3 DEF Ahead
<1>4. QED BY <1>2, <1>3

LEMMA NextProfitAhead ==
  ASSUME IInv, CandidatesOK, NEW t \in tasks, t.profit \in Txs, NEW v, NEW p \in 0 .. N,
         t.victim < v \/ (t.victim = v /\ p \in records[t.win] /\ t.profit < p)
  PROVE  Ahead(NextProfit(t), v, p)
<1>1. NextProfit(t).victim = t.victim /\ NextProfit(t).profit = After(records[t.win], t.profit)
  BY NextProfitInOrder
<1>2. CASE t.victim < v
  BY <1>1, <1>2 DEF Ahead
<1>3. CASE t.victim = v /\ p \in records[t.win] /\ t.profit < p
  <2>1. records[t.win] \in SUBSET Txs /\ t.profit \in 0 .. N + 1 /\ t.profit \in Nat /\ t.profit >= 1
    BY TaskFields, SizesAssumption DEF IInv, Txs
  <2>2. After(records[t.win], t.profit) <= p
    BY <1>3, <2>1, AfterIsLeast
  <2>3. p # 0
    BY <1>3, <2>1
  <2>4. QED BY <1>1, <1>3, <2>2, <2>3 DEF Ahead
<1>4. QED BY <1>2, <1>3

\* Nothing is missing and nothing failed up to x: a refused z has no explanation.
LEMMA NotExplained ==
  ASSUME NEW w \in Starts, records[w] = {y \in Txs : Covers(w, y)},
         NEW x \in Txs, NEW senders, Reexecutable(x, senders),
         NEW z \in Txs, z <= x, SenderOf[z] \in senders
  PROVE  ~Explained(w, z)
<1> SUFFICES ASSUME NEW y \in Txs, SenderOf[y] = SenderOf[z], y < z, Covers(w, y),
                    y \notin records[w] \/ y \in Errored
             PROVE  FALSE
  BY DEF Explained
<1>1. y \in Errored
  OBVIOUS
<1>2. y \in Nat /\ z \in Nat /\ x \in Nat
  BY SizesAssumption DEF Txs
<1>3. ~(y > x)
  BY <1>2
<1>4. QED BY <1>1, <1>3 DEF Reexecutable

\* Victim and attack of a wanted combination can be re-executed.
LEMMA VictimRuns ==
  ASSUME IInv, CandidatesOK, NEW t \in tasks, NEW p \in 0 .. N, t.victim <= N,
         Wanted(t.win, t.attack, t.victim, p)
  PROVE  /\ CandidateVictim(t.attack, t.victim) /\ t.victim \notin Unverified
         /\ VictimErrors(t) = {}
         /\ (VictimFirst(t.win, t.attack, t.victim) \cup {t.victim, t.attack}) \cap Breaks = {}
<1> DEFINE w == t.win
           a == t.attack
           v == t.victim
           S == Between(records[w], v, a)
           senders == {SenderOf[a], SenderOf[v]}
<1>1. GoodPair(a, v) /\ records[w] = {x \in Txs : Covers(w, x)}
  BY DEF Wanted, Undisturbed, Good, GoodTriple
<1>2. CandidateVictim(a, v) /\ v \notin Unverified /\ Reexecutable(v, senders)
  BY <1>1 DEF GoodPair
<1>3. /\ w \in Starts /\ records[w] \in SUBSET Txs /\ a < v /\ a \in records[w]
      /\ v \in records[w] /\ \A x \in Txs : x \in Nat
      /\ VictimFirst(w, a, v) = S
  BY VictimPlaces
<1>4. \A y \in S \cup {v, a} : y \in Txs /\ y <= v /\ SenderOf[y] \in senders
  <2>1. \A y \in S : y \in Txs /\ y < v /\ SenderOf[y] = SenderOf[v]
    BY <1>3 DEF Between, Earlier
  <2>2. \A y \in S : y <= v
    BY <1>3, <2>1
  <2>3. a \in Txs /\ v \in Txs /\ a <= v /\ v <= v
    BY <1>3
  <2>4. QED BY <2>1, <2>2, <2>3
<1> HIDE DEF S, senders
<1>5. ASSUME NEW z \in VictimErrors(t) PROVE FALSE
  <2>1. Explained(w, z)
    BY <1>2, <1>5, VictimErrorsExplained
  <2>2. z \in Refused(StateAt(a), S, v, a)
    BY <1>3, <1>5 DEF VictimErrors
  <2>3. z \in S \/ z = v \/ z = a
    BY <2>2, RefusedAmong
  <2>4. z \in Txs /\ z <= v /\ SenderOf[z] \in senders
    BY <1>4, <2>3
  <2>5. QED BY <1>1, <1>2, <1>3, <2>1, <2>4, NotExplained
<1>6. \A y \in S \cup {v, a} : y \notin Breaks
  <2> SUFFICES ASSUME NEW y \in S \cup {v, a}, y \in Breaks PROVE FALSE
    OBVIOUS
  <2>1. y \in Txs /\ y <= v /\ SenderOf[y] \in senders /\ v \in Txs
    BY <1>3, <1>4
  <2>2. y > v
    BY <1>2, <2>1 DEF Reexecutable
  <2>3. QED BY <1>3, <2>1, <2>2
<1>7. QED BY <1>2, <1>3, <1>5, <1>6

\* The profit transaction of a wanted combination is accepted and can be re-executed.
LEMMA ProfitRuns ==
  ASSUME IInv, CandidatesOK, NEW t \in tasks, t.profit \in Txs,
         Wanted(t.win, t.attack, t.victim, t.profit)
  PROVE  /\ CandidateProfit(t.win, t.attack, t.victim, t.profit)
         /\ ProfitErrors(t) = {}
         /\ (ProfitFirst(t.win, t.attack, t.profit) \cup {t.profit}) \cap Breaks = {}
<1> DEFINE w == t.win
           a == t.attack
           v == t.victim
           p == t.profit
           S == Between(records[w], p, a)
           senders == {SenderOf[p]}
<1>1. p # 0
  BY SizesAssumption DEF Txs
<1>2. GoodTriple(a, v, p) /\ New(w, p) /\ records[w] = {x \in Txs : Covers(w, x)}
  BY <1>1 DEF Wanted, Undisturbed, Good, Final
<1>3. CandidateProfit(w, a, v, p) /\ Reexecutable(p, senders)
  BY <1>2 DEF GoodTriple, CandidateProfit
<1>4. /\ records[w] \in SUBSET Txs /\ \A x \in Txs : x \in Nat
      /\ w \in Starts /\ p \in records[w] /\ ProfitFirst(w, a, p) = S
  BY VictimPlaces, ProfitPlaces
<1>5. \A y \in S \cup {p} : y \in Txs /\ y <= p /\ SenderOf[y] \in senders
  <2>1. \A y \in S : y \in Txs /\ y < p /\ SenderOf[y] = SenderOf[p]
    BY <1>4 DEF Between, Earlier
  <2>2. \A y \in S : y <= p
    BY <1>4, <2>1
  <2>3. p \in Txs /\ p <= p
    BY <1>4
  <2>4. QED BY <2>1, <2>2, <2>3
<1> HIDE DEF S, senders
<1>6. ASSUME NEW z \in ProfitErrors(t) PROVE FALSE
  <2>1. Explained(w, z)
    BY <1>3, <1>6, ProfitErrorsExplained
  <2>2. z \in Refused(Swapped(w, a, v), S, p, 0)
    BY <1>4, <1>6 DEF ProfitErrors
  <2>3. z \in S \/ z = p
    BY <2>2, RefusedAmong
  <2>4. z \in Txs /\ z <= p /\ SenderOf[z] \in senders
    BY <1>5, <2>3
  <2>5. QED BY <1>2, <1>3, <1>4, <2>1, <2>4, NotExplained
<1>7. \A y \in S \cup {p} : y \notin Breaks
  <2> SUFFICES ASSUME NEW y \in S \cup {p}, y \in Breaks PROVE FALSE
    OBVIOUS
  <2>1. y \in Txs /\ y <= p /\ SenderOf[y] \in senders /\ p \in Txs
    BY <1>4, <1>5
  <2>2. y > p
    BY <1>3, <2>1 DEF Reexecutable
  <2>3. QED BY <1>4, <2>1, <2>2
<1>8. QED BY <1>3, <1>4, <1>6, <1>7

LEMMA StillPursued ==
  ASSUME NEW t, NEW u, NEW v, NEW p, Become(t, u), u.win = t.win, u.attack = t.attack,
         Ahead(u, v, p)
  PROVE  Pursued(t.win, t.attack, v, p)'
BY DEF Become, Pursued, Ahead

\* A task on its way to a wanted combination stays on its way, gives it to the oracle,
\* or ends with an attack it has found.
LEMMA TaskStepProgress ==
  ASSUME IInv, CandidatesOK, ReturnsOK, NEW t \in tasks, TaskStep(t),
         NEW v \in Txs, NEW p \in 0 .. N, Wanted(t.win, t.attack, v, p), Ahead(t, v, p)
  PROVE  \/ <<t.attack, v, p>> \in checked'
         \/ FoundIn(t.win, t.attack, v)'
         \/ Pursued(t.win, t.attack, v, p)'
<1> DEFINE w == t.win
           a == t.attack
<1>1. /\ w \in Starts /\ a \in Txs /\ t.victim \in Nat /\ t.profit \in Nat /\ N \in Nat
      /\ t.victim \in 1 .. N + 1 /\ t.profit \in 0 .. N + 1
  BY TaskFields DEF IInv, Txs
<1>2. /\ v \in records[w] /\ v \in Nat /\ p \in Nat /\ v <= N
      /\ p # 0 => p \in records[w] /\ v < p
  BY <1>1, WantedFacts DEF Txs
<1>3. t.profit # 0 => t.victim <= N
  BY DEF IInv, TasksOK
<1>4. t.victim <= v
  BY <1>1, <1>2 DEF Ahead
<1>5. CASE EndTask(t)
  <2>1. w \notin expired
    BY <1>1 DEF ReturnsOK, TasksOf, Wanted, Undisturbed
  <2>2. t.victim = N + 1
    BY <1>5, <2>1 DEF EndTask
  <2>3. QED BY <1>1, <1>2, <1>4, <2>2
<1>6. ASSUME t.victim < v, Become(t, NextVictim(t)) PROVE Pursued(w, a, v, p)'
  <2>1. Ahead(NextVictim(t), v, p)
    BY <1>2, <1>6, NextVictimAhead
  <2>2. t.victim <= N
    BY <1>1, <1>2, <1>6
  <2>3. NextVictim(t).win = w /\ NextVictim(t).attack = a
    BY <2>2, NextVictimInOrder
  <2>4. QED BY <1>6, <2>1, <2>3, StillPursued
<1>7. CASE SkipVictim(t) \/ VictimFails(t)
  <2>1. t.victim <= N /\ t.profit = 0 /\ Become(t, NextVictim(t))
    BY <1>7 DEF SkipVictim, VictimFails, AtVictim
  <2>2. ASSUME t.victim = v PROVE FALSE
    <3>1. Wanted(t.win, t.attack, t.victim, p)
      BY <2>2
    <3>2. /\ CandidateVictim(t.attack, t.victim) /\ t.victim \notin Unverified
          /\ VictimErrors(t) = {}
          /\ (VictimFirst(t.win, t.attack, t.victim) \cup {t.victim, t.attack}) \cap Breaks = {}
      BY <2>1, <3>1, VictimRuns
    <3>3. QED BY <1>7, <3>2 DEF SkipVictim, VictimFails
  <2>3. t.victim < v
    BY <1>1, <1>2, <1>4, <2>2
  <2>4. QED BY <1>6, <2>1, <2>3
<1>8. ASSUME t.victim <= N, Become(t, FirstProfit(t)), t.victim < v \/ p # 0
      PROVE  Pursued(w, a, v, p)'
  <2>1. t.victim < v \/ (t.victim = v /\ p \in records[w] /\ v < p)
    BY <1>1, <1>2, <1>4, <1>8
  <2>2. Ahead(FirstProfit(t), v, p)
    BY <1>8, <2>1, FirstProfitAhead
  <2>3. FirstProfit(t).win = w /\ FirstProfit(t).attack = a
    BY <1>8, FirstProfitInOrder
  <2>4. QED BY <1>8, <2>2, <2>3, StillPursued
<1>9. CASE OldVictim(t)
  <2>1. t.victim <= N /\ Become(t, FirstProfit(t)) /\ ~New(w, t.victim)
    BY <1>9 DEF OldVictim, Swappable, AtVictim
  <2>2. p = 0 => New(w, v)
    BY DEF Wanted, Final
  <2>3. t.victim < v \/ p # 0
    BY <1>1, <1>2, <1>4, <2>1, <2>2
  <2>4. QED BY <1>8, <2>1, <2>3
<1>10. CASE CheckPair(t)
  <2>1. /\ t.victim <= N /\ New(w, t.victim) /\ CheckOracle(<<a, t.victim, 0>>)
        /\ <<a, t.victim, 0>> \notin Matching => Become(t, FirstProfit(t))
        /\ pivotOf' = pivotOf
    BY <1>10 DEF CheckPair, Swappable, AtVictim, Pair, windowVars
  <2>2. CASE t.victim = v /\ p = 0
    BY <2>1, <2>2 DEF CheckOracle
  <2>3. CASE <<a, t.victim, 0>> \in Matching
    <3>1. <<a, t.victim, 0>> \in reported'
      BY <2>1, <2>3 DEF CheckOracle
    <3>2. t.victim \in Txs /\ Covers(w, t.victim)
      <4>1. t.victim \in records[w]
        BY <2>1, VictimPlaces
      <4>2. QED BY <1>1, <4>1, VictimPlaces, <2>1 DEF IInv, RecordsOK
    <3>3. QED BY <1>4, <2>1, <3>1, <3>2 DEF FoundIn, New, Covers
  <2>4. CASE ~(t.victim = v /\ p = 0) /\ <<a, t.victim, 0>> \notin Matching
    BY <1>1, <1>2, <1>4, <1>8, <2>1, <2>4
  <2>5. QED BY <2>2, <2>3, <2>4
<1>11. ASSUME t.profit \in Txs, Become(t, NextProfit(t)), ~(t.victim = v /\ t.profit = p)
       PROVE  Pursued(w, a, v, p)'
  <2>1. t.profit # 0
    BY <1>1, <1>11, SizesAssumption DEF Txs
  <2>2. t.victim < v \/ (t.victim = v /\ p \in records[w] /\ t.profit < p)
    BY <1>1, <1>2, <1>4, <1>11, <2>1 DEF Ahead
  <2>3. Ahead(NextProfit(t), v, p)
    BY <1>11, <2>2, NextProfitAhead
  <2>4. NextProfit(t).win = w /\ NextProfit(t).attack = a
    BY <1>11, NextProfitInOrder
  <2>5. QED BY <1>11, <2>3, <2>4, StillPursued
<1>12. CASE SkipProfit(t) \/ ProfitFails(t) \/ CheckTriple(t)
  <2>1. t.profit \in Txs /\ Become(t, NextProfit(t))
    BY <1>12 DEF SkipProfit, ProfitFails, CheckTriple, AtProfit
  <2>2. CASE t.victim = v /\ t.profit = p
    <3>1. Wanted(t.win, t.attack, t.victim, t.profit)
      BY <2>2
    <3>2. /\ CandidateProfit(t.win, t.attack, t.victim, t.profit)
          /\ ProfitErrors(t) = {}
          /\ (ProfitFirst(t.win, t.attack, t.profit) \cup {t.profit}) \cap Breaks = {}
      BY <2>1, <3>1, ProfitRuns
    <3>3. CheckTriple(t)
      BY <1>12, <3>2 DEF SkipProfit, ProfitFails
    <3>4. QED BY <2>2, <3>3 DEF CheckTriple, CheckOracle
  <2>3. QED BY <1>11, <2>1, <2>2
<1>13. CASE EndProfits(t)
  <2>1. t.profit = N + 1 /\ Become(t, NextVictim(t))
    BY <1>13 DEF EndProfits
  <2>2. t.victim < v
    BY <1>1, <1>2, <2>1 DEF Ahead
  <2>3. QED BY <1>6, <2>1, <2>2
<1>14. QED
  BY <1>5, <1>7, <1>9, <1>10, <1>12, <1>13 DEF TaskStep

-----------------------------------------------------------------------------
(* The actions keep CompleteInv.                                           *)

\* What has been given to the oracle or found is not taken back.
LEMMA HandledStays ==
  ASSUME NEW w, NEW a, NEW v, NEW p, Handled(w, a, v, p),
         checked \subseteq checked', reported \subseteq reported', pivotOf'[w] = pivotOf[w]
  PROVE  Handled(w, a, v, p)'
BY DEF Handled, FoundIn, Covers, New

LEMMA TaskStepKeepsComplete ==
  ASSUME IInv, CandidatesOK, CompleteInv, NEW t \in tasks, TaskStep(t)
  PROVE  CompleteInv'
<1> USE DEF Opened
<1>1. /\ UNCHANGED <<b, pivot, phase, records, pivotOf, next, expired>>
      /\ checked \subseteq checked' /\ reported \subseteq reported'
      /\ tasks \ {t} \subseteq tasks'
  BY DEF TaskStep, EndTask, SkipVictim, VictimFails, OldVictim, CheckPair, SkipProfit,
         ProfitFails, CheckTriple, EndProfits, Become, CheckOracle, windowVars, checkVars
<1>2. WindowsOK'
  BY <1>1 DEF CompleteInv, WindowsOK, PivotExact
<1>3. \A u \in tasks' : u \in tasks \/ u.win = t.win
  <2>1. t.victim <= N => NextVictim(t).win = t.win /\ FirstProfit(t).win = t.win
    BY NextVictimInOrder, FirstProfitInOrder
  <2>2. t.profit \in Txs => NextProfit(t).win = t.win
    BY NextProfitInOrder
  <2>3. t.profit = N + 1 => t.victim <= N
    BY SizesAssumption DEF IInv, TasksOK
  <2>4. QED
    BY <2>1, <2>2, <2>3
    DEF TaskStep, EndTask, SkipVictim, VictimFails, OldVictim, CheckPair, SkipProfit,
        ProfitFails, CheckTriple, EndProfits, Become, AtVictim, Swappable, AtProfit
<1>4. ReturnsOK'
  BY <1>1, <1>3 DEF CompleteInv, ReturnsOK, TasksOf, IsLast
<1>5. ASSUME NEW w \in Starts, NEW a \in Txs, NEW v \in Txs, NEW p \in 0 .. N,
             Wanted(w, a, v, p)', a < next'[w]
      PROVE  (Handled(w, a, v, p) \/ Pursued(w, a, v, p))'
  <2>1. Wanted(w, a, v, p) /\ a < next[w]
    BY <1>1, <1>5 DEF Wanted, Undisturbed, Covers, New
  <2>2. CASE Handled(w, a, v, p)
    BY <1>1, <2>2, HandledStays
  <2>3. CASE \E s \in tasks : s.win = w /\ s.attack = a /\ Ahead(s, v, p)
    <3>1. PICK s \in tasks : s.win = w /\ s.attack = a /\ Ahead(s, v, p)
      BY <2>3
    <3>2. CASE s = t
      <4>1. Wanted(t.win, t.attack, v, p) /\ Ahead(t, v, p)
        BY <2>1, <3>1, <3>2
      <4>2. \/ <<t.attack, v, p>> \in checked'
            \/ FoundIn(t.win, t.attack, v)'
            \/ Pursued(t.win, t.attack, v, p)'
        BY <4>1, TaskStepProgress DEF CompleteInv
      <4>3. QED BY <3>1, <3>2, <4>2 DEF Handled, FoundIn, Pursued
    <3>3. CASE s # t
      BY <1>1, <3>1, <3>3 DEF Pursued, Ahead
    <3>4. QED BY <3>2, <3>3
  <2>4. QED BY <2>1, <2>2, <2>3 DEF CompleteInv, ProgressOK, Pursued
<1>6. ProgressOK'
  BY <1>5 DEF ProgressOK
<1>7. QED BY <1>2, <1>4, <1>6 DEF CompleteInv

\* Search leaves no candidate between the records it looks at, and submits each.
LEMMA AdvanceKeepsProgress ==
  ASSUME IInv, CandidatesOK, ProgressOK, NEW w \in Starts, SkipAttack(w) \/ SubmitAttack(w)
  PROVE  ProgressOK'
<1> USE DEF Opened
<1> DEFINE n == After(records[w], next[w])
<1>1. phase[w] = "searching" /\ ~IsLast(w, next[w])
  BY DEF SkipAttack, SubmitAttack
<1>2. /\ next[w] \in Txs /\ n \in 1 .. N + 1 /\ n > next[w]
  BY <1>1, NextAttack
<1>3. /\ next' = [next EXCEPT ![w] = n] /\ tasks \subseteq tasks'
      /\ UNCHANGED <<phase, records, pivotOf, checked, reported>>
  BY DEF SkipAttack, SubmitAttack, windowVars, checkVars
<1>4. next \in [Starts -> 0 .. N + 1] /\ records[w] \in SUBSET Txs /\ N \in Nat
  BY SizesAssumption DEF IInv, TypeOK
<1> HIDE DEF n
<1>5. ASSUME NEW u \in Starts, NEW a \in Txs, NEW v \in Txs, NEW p \in 0 .. N,
             Wanted(u, a, v, p)', a < next'[u]
      PROVE  (Handled(u, a, v, p) \/ Pursued(u, a, v, p))'
  <2>1. Wanted(u, a, v, p)
    BY <1>3, <1>5 DEF Wanted, Undisturbed, Covers, New
  <2>2. CASE a < next[u]
    <3>1. CASE Handled(u, a, v, p)
      BY <1>3, <3>1, HandledStays
    <3>2. CASE Pursued(u, a, v, p)
      BY <1>3, <3>2 DEF Pursued, Ahead
    <3>3. QED BY <2>1, <2>2, <3>1, <3>2 DEF ProgressOK
  <2>3. CASE ~(a < next[u])
    <3>1. u = w /\ a < n
      BY <1>3, <1>4, <1>5, <2>3
    <3>2. /\ a \in records[w] /\ v \in records[w] /\ a < v /\ a \in Nat /\ v \in Nat /\ p \in Nat
      BY <2>1, <3>1, WantedFacts
    <3>3. next[w] \in 0 .. N + 1 /\ next[w] \in Nat /\ n \in Nat
      BY <1>2, <1>4
    <3>4. ~(next[w] < a)
      <4>1. next[w] < a => n <= a
        BY <1>4, <3>2, <3>3, AfterIsLeast DEF n
      <4>2. QED BY <3>1, <3>2, <3>3, <4>1
    <3>5. a = next[w]
      BY <2>3, <3>1, <3>2, <3>3, <3>4
    <3>6. CandidateAttack(a)
      BY <2>1 DEF Wanted, Good, GoodTriple, GoodPair
    <3>7. SubmitAttack(w)
      BY <3>5, <3>6 DEF SkipAttack
    <3> DEFINE t == [win |-> w, attack |-> a, victim |-> n, profit |-> 0]
    <3>8. t \in tasks'
      BY <3>5, <3>7 DEF SubmitAttack, n
    <3>9. n <= v
      BY <1>4, <3>2, <3>3, <3>5, AfterIsLeast DEF n
    <3>10. t.win = w /\ t.attack = a /\ t.victim = n /\ t.profit = 0
      OBVIOUS
    <3> HIDE DEF t
    <3>11. Ahead(t, v, p)
      BY <3>2, <3>3, <3>9, <3>10 DEF Ahead
    <3>12. QED BY <3>1, <3>8, <3>10, <3>11 DEF Pursued, Ahead
  <2>4. QED BY <2>2, <2>3
<1>6. QED BY <1>5 DEF ProgressOK

LEMMA WindowStepKeepsComplete ==
  ASSUME IInv, CandidatesOK, CompleteInv, NEW w \in Starts, WindowStep(w) \/ Expire(w)
  PROVE  CompleteInv'
<1> USE DEF Opened
<1>1. /\ UNCHANGED <<b, pivot, records, pivotOf, checked, reported>>
  BY DEF WindowStep, SearchNothing, Crash, SearchEarlyExit, SkipAttack, SubmitAttack, EndLoop,
         SearchReturn, Expire, windowVars, checkVars
<1>2. phase \in [Starts -> {"none", "searching", "waiting", "panicking", "returned"}] /\ expired \subseteq Starts
      /\ next \in [Starts -> 0 .. N + 1]
  BY DEF IInv, TypeOK
<1>3. \A v \in Starts : Opened(v)' <=> Opened(v)
  BY <1>2 DEF WindowStep, SearchNothing, Crash, SearchEarlyExit, SkipAttack, SubmitAttack, EndLoop,
              SearchReturn, Expire, windowVars
<1>4. WindowsOK'
  BY <1>1, <1>3 DEF CompleteInv, WindowsOK, PivotExact
<1>5. ReturnsOK'
  <2>1. ReturnsOK
    BY DEF CompleteInv
  <2>2. CASE SkipAttack(w) \/ SubmitAttack(w)
    <3>1. phase' = phase /\ phase[w] = "searching" /\ expired' = expired /\ w \notin expired
          /\ \A v \in Starts : v # w => next'[v] = next[v]
      BY <1>2, <2>2 DEF SkipAttack, SubmitAttack, windowVars
    <3>2. \A u \in tasks' : u \in tasks \/ u.win = w
      BY <2>2 DEF SkipAttack, SubmitAttack
    <3>3. ASSUME NEW v \in Starts \ MayExpire, v # w
          PROVE  /\ phase'[v] \in {"waiting", "returned"} => IsLast(v, next[v])'
                 /\ v \in expired' => phase'[v] \in {"panicking", "returned"} /\ TasksOf(v)' = {}
      BY <1>1, <2>1, <3>1, <3>2, <3>3 DEF ReturnsOK, IsLast, TasksOf
    <3>4. phase'[w] \notin {"waiting", "returned"} /\ w \notin expired'
      BY <3>1
    <3>5. QED BY <3>3, <3>4 DEF ReturnsOK
  <2>3. CASE SearchNothing(w)
    <3>1. \A u \in tasks : u.win # w
      BY <2>3 DEF SearchNothing, CandidatesOK
    <3>2. TasksOf(w) = {}
      BY <3>1 DEF TasksOf
    <3>3. QED BY <1>1, <1>2, <2>1, <2>3, <3>2 DEF SearchNothing, ReturnsOK, IsLast, TasksOf
  <2>a. CASE Crash(w)
    BY <1>1, <2>1, <2>a DEF Crash, ReturnsOK, IsLast, TasksOf, windowVars
  <2>4. CASE SearchEarlyExit(w)
    BY <1>1, <1>2, <2>1, <2>4 DEF SearchEarlyExit, ReturnsOK, IsLast, TasksOf
  <2>5. CASE EndLoop(w)
    BY <1>1, <1>2, <2>1, <2>5 DEF EndLoop, ReturnsOK, IsLast, TasksOf
  <2>6. CASE SearchReturn(w)
    BY <1>1, <1>2, <2>1, <2>6 DEF SearchReturn, ReturnsOK, IsLast, TasksOf
  <2>7. CASE Expire(w)
    BY <1>1, <2>1, <2>7 DEF Expire, ReturnsOK, IsLast, TasksOf, windowVars
  <2>8. QED BY <2>2, <2>3, <2>a, <2>4, <2>5, <2>6, <2>7 DEF WindowStep
<1>6. ProgressOK'
  <2>1. CASE SkipAttack(w) \/ SubmitAttack(w)
    BY <2>1, AdvanceKeepsProgress DEF CompleteInv
  <2>2. CASE ~(SkipAttack(w) \/ SubmitAttack(w))
    <3>1. next' = next /\ tasks' = tasks
      BY <2>2 DEF WindowStep, SearchNothing, Crash, SearchEarlyExit, EndLoop, SearchReturn, Expire, windowVars
    <3>2. QED
      BY <1>1, <1>3, <3>1
      DEF CompleteInv, ProgressOK, Wanted, Undisturbed, Covers, New, Handled, FoundIn, Pursued, Ahead
  <2>3. QED BY <2>1, <2>2
<1>7. QED BY <1>4, <1>5, <1>6 DEF CompleteInv

\* A number has one remainder.
LEMMA NoRemainder ==
  ASSUME NEW s \in Nat \ {0}, NEW q \in Int, NEW p \in Int, NEW r \in 0 .. s - 1,
         s * q = s * p + r
  PROVE  r = 0
<1>1. s * (q - p) = r
  OBVIOUS
<1>2. CASE q - p >= 1
  <2>1. s * (q - p) >= s
    BY <1>2
  <2> QED
    BY <1>1, <2>1
<1>3. CASE q - p <= -1
  <2>1. s * (q - p) <= -s
    BY <1>3
  <2> QED
    BY <1>1, <2>1
<1>4. CASE q - p = 0
  BY <1>1, <1>4
<1> QED
  BY <1>2, <1>3, <1>4

LEMMA DivMod ==
  ASSUME NEW s \in Nat \ {0}, NEW x \in Nat
  PROVE  /\ x = s * (x \div s) + (x % s)
         /\ x % s \in 0 .. s - 1
         /\ x \div s \in Nat
OBVIOUS

LEMMA NextMultiple ==
  ASSUME NEW s \in Nat \ {0}, NEW x \in Nat, x % s = 0
  PROVE  (x + s) % s = 0
<1> DEFINE p == x \div s
           q == (x + s) \div s
           r == (x + s) % s
<1>1. /\ x = s * p
      /\ p \in Nat
  BY DivMod
<1>2. /\ x + s = s * q + r
      /\ r \in 0 .. s - 1
      /\ q \in Nat
  <2>1. x + s \in Nat
    OBVIOUS
  <2> QED
    BY <2>1, DivMod
<1> HIDE DEF p, q, r
<1>3. s * (p + 1) = s * q + r
  BY <1>1, <1>2
<1>4. p + 1 \in Int /\ q \in Int
  BY <1>1, <1>2
<1>5. r = 0
  BY <1>2, <1>3, <1>4, NoRemainder
<1> QED
  BY <1>5 DEF r

\* A window is opened at a multiple of Step, with the pivot its predecessor has left.
LEMMA OpenKeepsWindows ==
  ASSUME IInv, WindowsOK, OpenSearchWindow
  PROVE  b \in Starts /\ WindowsOK'
<1> USE DEF Opened
<1>1. /\ b' = b + Step /\ pivot' = b + Window /\ b < To
      /\ pivotOf' = [pivotOf EXCEPT ![b] = pivot]
      /\ phase' = [phase EXCEPT ![b] = "searching"]
  BY DEF OpenSearchWindow, StartWindow
<1>2. /\ From \in Nat /\ To \in Nat /\ Step \in Nat \ {0} /\ Window \in Nat
      /\ b \in Nat /\ From <= b /\ (b - From) % Step = 0
  BY SizesAssumption DEF IInv, TypeOK, PivotOK, WindowsOK
<1>3. b \in Starts
  BY <1>1, <1>2 DEF Starts
<1>4. (b' - From) % Step = 0
  <2>1. b - From \in Nat
    BY <1>2
  <2>2. ((b - From) + Step) % Step = 0
    BY <1>2, <2>1, NextMultiple
  <2>3. b' - From = (b - From) + Step
    BY <1>1, <1>2
  <2>4. QED BY <2>2, <2>3
<1>5. PivotExact(b, pivot)'
  <2>1. b' >= Step /\ b' - Step = b /\ pivot' = b' - Step + Window
    BY <1>1, <1>2
  <2>2. QED BY <1>3, <2>1 DEF PivotExact
<1>6. ASSUME NEW w \in Starts, Opened(w)' PROVE PivotExact(w, pivotOf[w])'
  <2>1. pivotOf \in [Starts -> Nat] /\ phase \in [Starts -> {"none", "searching", "waiting", "panicking", "returned"}]
    BY DEF IInv, TypeOK
  <2>2. CASE w = b
    <3>1. pivotOf'[w] = pivot
      BY <1>1, <1>3, <2>1, <2>2
    <3>2. QED BY <2>2, <3>1 DEF WindowsOK, PivotExact
  <2>3. CASE w # b
    <3>1. pivotOf'[w] = pivotOf[w] /\ Opened(w)
      BY <1>1, <1>6, <2>1, <2>3
    <3>2. QED BY <3>1 DEF WindowsOK, PivotExact
  <2>4. QED BY <2>2, <2>3
<1>7. QED BY <1>3, <1>4, <1>5, <1>6 DEF WindowsOK

LEMMA OpenKeepsComplete ==
  ASSUME IInv, CandidatesOK, CompleteInv, OpenSearchWindow
  PROVE  CompleteInv'
<1> USE DEF Opened
<1>1. b \in Starts /\ WindowsOK'
  BY OpenKeepsWindows DEF CompleteInv
<1>2. PICK missing \in SUBSET MayMiss :
        records' = [records EXCEPT ![b] =
          {x \in Txs : BlockOf[x] \in b .. b + Window - 1 /\ BlockOf[x] \notin missing}]
  BY DEF OpenSearchWindow, StartWindow
<1>3. /\ phase' = [phase EXCEPT ![b] = "searching"]
      /\ pivotOf' = [pivotOf EXCEPT ![b] = pivot]
      /\ next' = [next EXCEPT ![b] = After(records'[b], 0)]
      /\ tasks' = tasks /\ expired' = expired /\ checked' = checked /\ reported' = reported
  BY DEF OpenSearchWindow, StartWindow, checkVars
<1>4. /\ next \in [Starts -> 0 .. N + 1] /\ records \in [Starts -> SUBSET Txs]
      /\ phase \in [Starts -> {"none", "searching", "waiting", "panicking", "returned"}]
      /\ pivotOf \in [Starts -> Nat]
  BY DEF IInv, TypeOK
<1>5. phase'[b] = "searching" /\ records'[b] \in SUBSET Txs /\ next'[b] = After(records'[b], 0)
  BY <1>1, <1>2, <1>3, <1>4
<1>6. \A v \in Starts : v # b => /\ phase'[v] = phase[v] /\ pivotOf'[v] = pivotOf[v]
                                 /\ records'[v] = records[v] /\ next'[v] = next[v]
  BY <1>2, <1>3, <1>4
<1>7. phase[b] = "none"
  <2>1. b \in Nat /\ ~(b < b)
    BY DEF IInv, TypeOK
  <2>2. QED BY <1>1, <2>1 DEF IInv, PivotOK
<1>8. ReturnsOK'
  <2>1. ReturnsOK
    BY DEF CompleteInv
  <2>2. b \in MayExpire \/ b \notin expired
    BY <1>1, <1>7, <2>1 DEF ReturnsOK
  <2>3. ASSUME NEW v \in Starts \ MayExpire, v # b
        PROVE  /\ phase'[v] \in {"waiting", "returned"} => IsLast(v, next[v])'
               /\ v \in expired' => phase'[v] \in {"panicking", "returned"} /\ TasksOf(v)' = {}
    BY <1>3, <1>6, <2>1, <2>3 DEF ReturnsOK, IsLast, TasksOf
  <2>4. QED BY <1>3, <1>5, <2>2, <2>3 DEF ReturnsOK
<1>9. ASSUME NEW w \in Starts, NEW a \in Txs, NEW v \in Txs, NEW p \in 0 .. N,
             Wanted(w, a, v, p)', a < next'[w]
      PROVE  (Handled(w, a, v, p) \/ Pursued(w, a, v, p))'
  <2>1. CASE w = b
    <3>1. IInv'
      BY OpenKeepsInvariant
    <3>2. a \in records'[b] /\ a \in Nat
      <4>1. Covers(w, a) /\ records'[w] = {x \in Txs : Covers(w, x)}
        BY <1>9 DEF Wanted, Undisturbed, Covers
      <4>2. QED BY <2>1, <4>1, SizesAssumption DEF Txs
    <3>3. 0 \in 0 .. N + 1 /\ 0 < a
      BY <3>2, SizesAssumption DEF Txs
    <3>4. After(records'[b], 0) <= a /\ After(records'[b], 0) \in Nat
      BY <1>5, <3>2, <3>3, AfterIsLeast, AfterFacts
    <3>5. QED BY <1>5, <1>9, <2>1, <3>2, <3>4
  <2>2. CASE w # b
    <3>1. Wanted(w, a, v, p) /\ a < next[w]
      BY <1>6, <1>9, <2>2 DEF Wanted, Undisturbed, Covers, New
    <3>2. CASE Handled(w, a, v, p)
      BY <1>3, <1>6, <2>2, <3>2, HandledStays
    <3>3. CASE Pursued(w, a, v, p)
      BY <1>3, <3>3 DEF Pursued, Ahead
    <3>4. QED BY <3>1, <3>2, <3>3 DEF CompleteInv, ProgressOK
  <2>3. QED BY <2>1, <2>2
<1>10. ProgressOK'
  BY <1>9 DEF ProgressOK
<1>11. QED BY <1>1, <1>8, <1>10 DEF CompleteInv

-----------------------------------------------------------------------------
(* Theorems.                                                               *)

\* The inductive invariant of the search holds in every reachable state.
THEOREM Invariance == Spec => []IInv
<1>1. Init => IInv
  BY InitEstablishes
<1>2. IInv /\ [Next]_vars => IInv'
  BY OpenKeepsInvariant, WindowStepKeepsInvariant, TaskStepKeepsInvariant,
     StutterKeepsInvariant DEF Next
<1>3. QED BY <1>1, <1>2, PTL DEF Spec

\* Every variable of the search keeps its type.
THEOREM TypeCorrect == Spec => []TypeOK
<1>1. IInv => TypeOK
  BY DEF IInv
<1>2. QED BY <1>1, Invariance, PTL

\* No combination of transactions is given to CheckOracle a second time, in the
\* same window or in another one (searcher.go, lines 499 and 535).
THEOREM EachCheckedOnce == Spec => []NoRepeatedCheck
<1>1. IInv => NoRepeatedCheck
  BY DEF IInv
<1>2. QED BY <1>1, Invariance, PTL

LEMMA GapsInvariance == Spec => [](IInv /\ GapsInv)
<1>1. Init => GapsInv
  BY DEF Init, GapsInv, CandidatesOK, GapsOK, Opened
<1>2. IInv /\ GapsInv /\ [Next]_vars => GapsInv'
  <2>1. IInv /\ GapsInv /\ UNCHANGED vars => GapsInv'
    BY DEF vars, GapsInv, CandidatesOK, GapsOK, Opened, Explained, Covers
  <2>2. QED BY <2>1, OpenKeepsGaps, WindowStepKeepsGaps, TaskStepKeepsGaps DEF Next
<1>3. QED BY <1>1, <1>2, Invariance, PTL DEF Spec

\* Re-execution in the swapped order stops for a nonce only where an earlier
\* transaction of that sender is not among the window's records or has an error:
\* SlicePrerequisites (tx_history.go) and the two tests on senders leave no gap and
\* apply nothing twice, on any chain.
THEOREM GapsExplainedHolds == Spec => []GapsExplained
<1>1. IInv /\ GapsInv => GapsExplained
  <2>1. IInv => \A g \in gaps : g[1] \in Starts /\ g[2] \in Txs
    BY DEF IInv, TypeOK
  <2>2. QED BY <2>1 DEF GapsInv, GapsOK, Explained, GapsExplained
<1>2. QED BY <1>1, GapsInvariance, PTL

LEMMA CompleteInvariance == Spec => [](IInv /\ GapsInv /\ CompleteInv)
<1>1. Init => CompleteInv
  <2> SUFFICES ASSUME Init PROVE CompleteInv
    OBVIOUS
  <2>1. WindowsOK
    <3>1. (From - From) % Step = 0
      BY SizesAssumption
    <3>2. QED BY <3>1 DEF Init, WindowsOK, PivotExact, Opened
  <2>2. ReturnsOK /\ ProgressOK
    BY DEF Init, ReturnsOK, ProgressOK, Wanted, Opened
  <2>3. QED BY <2>1, <2>2 DEF CompleteInv
<1>2. IInv /\ GapsInv /\ CompleteInv /\ [Next]_vars => CompleteInv'
  <2>1. CompleteInv /\ UNCHANGED vars => CompleteInv'
    <3>1. WindowsOK /\ UNCHANGED vars => WindowsOK'
      BY DEF vars, WindowsOK, PivotExact, Opened
    <3>2. ReturnsOK /\ UNCHANGED vars => ReturnsOK'
      BY DEF vars, ReturnsOK, IsLast, TasksOf
    <3>3. ProgressOK /\ UNCHANGED vars => ProgressOK'
      BY DEF vars, ProgressOK, Wanted, Undisturbed, Opened, Covers, New, Handled, FoundIn,
             Pursued, Ahead
    <3>4. QED BY <3>1, <3>2, <3>3 DEF CompleteInv
  <2>2. QED BY <2>1, OpenKeepsComplete, WindowStepKeepsComplete, TaskStepKeepsComplete
            DEF Next, GapsInv
<1>3. QED BY <1>1, <1>2, GapsInvariance, PTL DEF Spec

\* The window that should check a combination: the first one that reaches its last
\* transaction.
LEMMA TheWindow ==
  ASSUME IInv, WindowsOK, \A w \in Starts : Opened(w),
         NEW a \in Txs, NEW x \in Txs, BlockOf[a] <= BlockOf[x], From <= BlockOf[a],
         \E w \in Starts : Covers(w, x),
         BlockOf[x] + Step <= BlockOf[a] + Window
  PROVE  \E w \in Starts : Covers(w, a) /\ Covers(w, x) /\ New(w, x)
<1> DEFINE W == {w \in Starts : BlockOf[x] < w + Window}
<1>1. /\ From \in Nat /\ Window \in Nat /\ Step \in Nat /\ Step >= 1
      /\ \A w \in Starts : w \in Nat /\ From <= w
      /\ BlockOf[a] \in Nat /\ BlockOf[x] \in Nat
  BY Numbers, SizesAssumption DEF Starts
<1>2. PICK u \in Starts : u <= BlockOf[x] /\ BlockOf[x] < u + Window
  BY <1>1 DEF Covers
<1>3. W \in SUBSET Nat /\ u \in W
  BY <1>1, <1>2
<1>4. PICK w \in W : \A z \in W : w <= z
  BY <1>3, NatMin
<1>5. w \in Starts /\ w \in Nat /\ BlockOf[x] < w + Window /\ w <= u /\ u \in Nat
  BY <1>1, <1>3, <1>4
<1>6. Covers(w, x)
  BY <1>1, <1>2, <1>5 DEF Covers
<1>7. PivotExact(w, pivotOf[w])
  BY <1>5 DEF WindowsOK
<1>8. CASE w = From /\ pivotOf[w] = From
  BY <1>1, <1>5, <1>6, <1>8 DEF Covers, New
<1>9. CASE w >= Step /\ w - Step \in Starts /\ pivotOf[w] = w - Step + Window
  <2>1. w - Step \in Nat /\ ~(w <= w - Step)
    BY <1>1, <1>5, <1>9
  <2>2. ~(BlockOf[x] < w - Step + Window)
    BY <1>4, <1>9, <2>1
  <2>3. pivotOf[w] <= BlockOf[x]
    BY <1>1, <1>9, <2>1, <2>2
  <2>4. w <= BlockOf[a] /\ BlockOf[a] < w + Window
    BY <1>1, <1>5, <1>9, <2>1, <2>2
  <2>5. QED BY <1>1, <1>5, <1>6, <2>3, <2>4 DEF Covers, New
<1>10. QED BY <1>7, <1>8, <1>9 DEF PivotExact

\* At the end nothing that was to be submitted has been left out, and no task is on
\* its way: what a window wanted has been handled.
LEMMA FinishedHandled ==
  ASSUME IInv, CompleteInv, Finished,
         NEW w \in Starts, NEW a \in Txs, NEW v \in Txs, NEW p \in 0 .. N, Wanted(w, a, v, p)
  PROVE  Handled(w, a, v, p)
<1>1. /\ records[w] \in SUBSET Txs /\ v \in records[w] /\ a < v
      /\ a \in Nat /\ v \in Nat /\ N \in Nat
  BY WantedFacts
<1>2. IsLast(w, next[w])
  BY DEF CompleteInv, ReturnsOK, Finished, Wanted, Undisturbed
<1>3. next[w] \in 0 .. N + 1 /\ next[w] \in Nat /\ v <= N
  BY <1>1 DEF IInv, TypeOK, Txs
<1>4. ~(next[w] < v)
  <2>1. next[w] < v => After(records[w], next[w]) <= v
    BY <1>1, <1>3, AfterIsLeast
  <2>2. QED BY <1>1, <1>2, <1>3, <2>1 DEF IsLast
<1>5. a < next[w]
  BY <1>1, <1>3, <1>4
<1>6. ~Pursued(w, a, v, p)
  BY DEF Finished, Pursued
<1>7. QED BY <1>5, <1>6 DEF CompleteInv, ProgressOK

\* What collect guarantees, for any chain, window, step and parallelism: when all
\* searches have ended, every pair and triple that is close enough, passes the filters
\* and can be re-executed has been given to CheckOracle in the window in which it is
\* new, unless that window was cut short, missed a block, or had found the attack with
\* an earlier victim (collect.go, Search and searchVictimGivenAttack of searcher.go).
THEOREM SearchIsCompleteHolds == Spec => []SearchIsComplete
<1>1. IInv /\ CompleteInv => SearchIsComplete
  <2> SUFFICES ASSUME IInv, CompleteInv, Finished, NEW a \in Txs, NEW v \in Txs, NEW p \in 0 .. N,
                      Good(a, v, p), From <= BlockOf[a],
                      \E w \in Starts : Covers(w, Final(v, p)),
                      BlockOf[Final(v, p)] + Step <= BlockOf[a] + Window
               PROVE  \E w \in Starts :
                        /\ Covers(w, a) /\ Covers(w, Final(v, p)) /\ New(w, Final(v, p))
                        /\ \/ ~Undisturbed(w)
                           \/ <<a, v, p>> \in checked
                           \/ FoundIn(w, a, v)
    BY DEF SearchIsComplete, Good, Final
  <2>1. a \in Nat /\ v \in Nat /\ p \in Nat /\ a < v /\ (p # 0 => v < p)
    BY SizesAssumption DEF Txs, Good, GoodPair, GoodTriple
  <2>2. PICK x \in Txs : x = Final(v, p) /\ a <= x
    BY <2>1, SizesAssumption DEF Final, Txs
  <2>3. BlockOf[a] <= BlockOf[x]
    BY <2>2, ChainAssumption
  <2>4. \A w \in Starts : Opened(w)
    BY DEF Finished, Opened
  <2>5. PICK w \in Starts : Covers(w, a) /\ Covers(w, x) /\ New(w, x)
    BY <2>2, <2>3, <2>4, TheWindow DEF CompleteInv
  <2>6. CASE Undisturbed(w)
    <3>1. Wanted(w, a, v, p)
      BY <2>2, <2>4, <2>5, <2>6 DEF Wanted
    <3>2. Handled(w, a, v, p)
      BY <3>1, FinishedHandled
    <3>3. QED BY <2>2, <2>5, <3>2 DEF Handled
  <2>7. QED BY <2>2, <2>5, <2>6
<1>2. QED BY <1>1, CompleteInvariance, PTL

-----------------------------------------------------------------------------
(* The search cannot come to a standstill, and cannot go round in circles.  *)

\* What keeps the goroutine of w from going on: pool.Submit waits for a worker, or
\* wg.Wait for a task of the window.
HeldUp(w) ==
  \/ /\ phase[w] = "searching" /\ records[w] # {} /\ ~IsLast(w, next[w]) /\ w \notin expired
     /\ CandidateAttack(next[w]) /\ Cardinality(tasks) >= Workers
  \/ phase[w] = "waiting" /\ TasksOf(w) # {}

\* Until everything is finished, a task is running, which waits for nobody, or the
\* main loop can open a window, or a window's goroutine can go on.
SearchGoesOn ==
  \/ crashed \/ Finished \/ tasks # {}
  \/ b < To /\ Cardinality(InSearch) < Parallel
  \/ \E w \in Starts : phase[w] = "panicking" \/ (w \in InSearch /\ ~HeldUp(w))

\* The main loop leaves no window out, and a window starts from its beginning.
NoneLeftOut == \A w \in Starts : (w < b => Opened(w)) /\ (~Opened(w) => next[w] = 0)

GoOnInv == IInv /\ WindowsOK /\ NoneLeftOut

\* Two multiples that are less than a step apart are the same.
LEMMA SameMultiple ==
  ASSUME NEW s \in Nat \ {0}, NEW x \in Nat, NEW r \in 0 .. s - 1, x % s = 0, (x + r) % s = 0
  PROVE  r = 0
<1> DEFINE p == x \div s
           q == (x + r) \div s
<1>1. /\ x = s * p
      /\ p \in Nat
  BY DivMod
<1>2. /\ x + r = s * q
      /\ q \in Nat
  <2>1. x + r \in Nat
    OBVIOUS
  <2> QED
    BY <2>1, DivMod
<1> HIDE DEF p, q
<1>3. s * q = s * p + r
  BY <1>1, <1>2
<1>4. QED BY <1>1, <1>2, <1>3, NoRemainder

\* The next window is the only one that begins before the one after it.
LEMMA NoneBetween ==
  ASSUME IInv, WindowsOK, NEW w \in Starts, b <= w, w < b + Step
  PROVE  w = b
<1>1. /\ From \in Nat /\ Step \in Nat \ {0} /\ b \in Nat /\ From <= b /\ (b - From) % Step = 0
      /\ w \in Nat /\ From <= w /\ (w - From) % Step = 0
  BY Numbers, SizesAssumption DEF IInv, TypeOK, PivotOK, WindowsOK, Starts
<1>2. PICK x \in Nat, r \in 0 .. Step - 1 : x = b - From /\ r = w - b /\ x + r = w - From
  BY <1>1
<1>3. r = 0
  BY <1>1, <1>2, SameMultiple
<1>4. QED BY <1>1, <1>2, <1>3

\* What opening a window does to its place and to the others'.
LEMMA OpenFacts ==
  ASSUME IInv, WindowsOK, NoneLeftOut, OpenSearchWindow
  PROVE  /\ b \in Starts /\ b \in Nat /\ b' = b + Step /\ b' > b
         /\ phase[b] = "none" /\ phase'[b] = "searching" /\ next[b] = 0 /\ next'[b] \in 1 .. N + 1
         /\ \A w \in Starts : w # b => phase'[w] = phase[w] /\ next'[w] = next[w]
         /\ UNCHANGED <<expired, tasks, crashed>>
<1>1. b \in Starts
  BY OpenKeepsWindows
<1>2. /\ b' = b + Step /\ UNCHANGED <<expired, tasks, crashed>>
      /\ phase' = [phase EXCEPT ![b] = "searching"]
      /\ next' = [next EXCEPT ![b] = After(records'[b], 0)]
  BY DEF OpenSearchWindow, StartWindow
<1>3. b \in Nat /\ Step \in Nat \ {0} /\ TypeOK
  BY SizesAssumption DEF IInv, TypeOK
<1>4. phase[b] = "none" /\ next[b] = 0
  BY <1>1, <1>3 DEF IInv, PivotOK, NoneLeftOut, Opened
<1>5. TypeOK'
  BY OpenKeepsInvariant DEF IInv
<1>6. records'[b] \in SUBSET Txs
  BY <1>1, <1>5 DEF TypeOK
<1>7. After(records'[b], 0) \in 1 .. N + 1
  BY <1>6, AfterFacts, SizesAssumption
<1> DEFINE n == After(records'[b], 0)
<1> HIDE DEF n
<1>8. next' = [next EXCEPT ![b] = n] /\ n \in 1 .. N + 1
  BY <1>2, <1>7 DEF n
<1>9. next'[b] \in 1 .. N + 1 /\ \A w \in Starts : w # b => next'[w] = next[w]
  BY <1>1, <1>3, <1>8 DEF TypeOK
<1>10. phase'[b] = "searching" /\ \A w \in Starts : w # b => phase'[w] = phase[w]
  BY <1>1, <1>2, <1>3 DEF TypeOK
<1>11. QED BY <1>1, <1>2, <1>3, <1>4, <1>9, <1>10

LEMMA OpenLeavesNoneOut ==
  ASSUME IInv, WindowsOK, NoneLeftOut, OpenSearchWindow
  PROVE  NoneLeftOut'
<1> SUFFICES ASSUME NEW w \in Starts PROVE (w < b' => Opened(w)') /\ (~Opened(w)' => next'[w] = 0)
  BY DEF NoneLeftOut
<1>1. CASE w = b
  BY <1>1, OpenFacts DEF Opened
<1>2. CASE w # b
  <2>1. w \in Nat /\ b \in Nat /\ Step \in Nat /\ b' = b + Step
    BY OpenFacts, Numbers
  <2>2. w < b' => w < b
    BY <1>2, <2>1, NoneBetween
  <2>3. phase'[w] = phase[w] /\ next'[w] = next[w]
    BY <1>2, OpenFacts
  <2>4. QED BY <2>2, <2>3 DEF NoneLeftOut, Opened
<1>3. QED BY <1>1, <1>2

\* What a window's step does to its own place; the others stay.
LEMMA WindowFacts ==
  ASSUME IInv, NEW w \in Starts, WindowStep(w) \/ Expire(w)
  PROVE  /\ b' = b /\ phase[w] \in {"searching", "waiting", "panicking"}
         /\ \/ phase'[w] = phase[w]
            \/ phase[w] = "searching" /\ phase'[w] \in {"waiting", "panicking", "returned"}
            \/ phase[w] = "waiting" /\ phase'[w] = "returned"
         /\ \A v \in Starts : v # w => phase'[v] = phase[v] /\ next'[v] = next[v]
         /\ next'[w] \in Nat /\ next'[w] >= next[w]
<1>1. TypeOK
  BY DEF IInv
<1>2. next[w] \in Nat
  BY <1>1 DEF TypeOK
<1>3. CASE Crash(w) \/ Expire(w)
  BY <1>2, <1>3 DEF Crash, Expire, windowVars
<1>4. CASE SearchNothing(w) \/ SearchEarlyExit(w) \/ EndLoop(w) \/ SearchReturn(w)
  BY <1>1, <1>2, <1>4 DEF SearchNothing, SearchEarlyExit, EndLoop, SearchReturn, TypeOK
<1>5. CASE SkipAttack(w) \/ SubmitAttack(w)
  <2> DEFINE n == After(records[w], next[w])
  <2>1. n \in 1 .. N + 1 /\ n > next[w]
    BY <1>5, NextAttack DEF SkipAttack, SubmitAttack
  <2>2. next' = [next EXCEPT ![w] = n] /\ UNCHANGED <<b, phase>> /\ phase[w] = "searching"
    BY <1>5 DEF SkipAttack, SubmitAttack, windowVars
  <2> HIDE DEF n
  <2>3. next'[w] = n /\ n \in Nat /\ \A v \in Starts : v # w => next'[v] = next[v]
    BY <1>1, <2>1, <2>2, SizesAssumption DEF TypeOK
  <2>4. QED BY <1>2, <2>1, <2>2, <2>3
<1>6. QED BY <1>3, <1>4, <1>5 DEF WindowStep

\* What a task's step leaves alone.
LEMMA TaskFrame ==
  ASSUME NEW t \in tasks, TaskStep(t)
  PROVE  UNCHANGED <<b, phase, records, next, expired, crashed, pivot, pivotOf>>
BY DEF TaskStep, EndTask, SkipVictim, VictimFails, OldVictim, CheckPair, SkipProfit, ProfitFails,
       CheckTriple, EndProfits, windowVars

LEMMA LeavesNoneOut ==
  ASSUME GoOnInv, [Next]_vars
  PROVE  NoneLeftOut'
<1>1. CASE OpenSearchWindow
  BY <1>1, OpenLeavesNoneOut DEF GoOnInv
<1>2. ASSUME NEW w \in Starts, WindowStep(w) \/ Expire(w) PROVE NoneLeftOut'
  BY <1>2, WindowFacts DEF GoOnInv, NoneLeftOut, Opened
<1>3. ASSUME NEW t \in tasks, TaskStep(t) PROVE NoneLeftOut'
  BY <1>3, TaskFrame DEF GoOnInv, NoneLeftOut, Opened
<1>4. CASE UNCHANGED vars
  BY <1>4 DEF GoOnInv, NoneLeftOut, Opened, vars
<1>5. QED BY <1>1, <1>2, <1>3, <1>4 DEF Next

LEMMA GoOnInvariance == Spec => []GoOnInv
<1>1. Init => NoneLeftOut
  BY Numbers DEF Init, NoneLeftOut, Opened, Starts
<1>2. IInv /\ WindowsOK /\ NoneLeftOut /\ [Next]_vars => NoneLeftOut'
  BY LeavesNoneOut DEF GoOnInv
<1>3. IInv /\ CompleteInv => WindowsOK
  BY DEF CompleteInv
<1>4. GoOnInv <=> IInv /\ WindowsOK /\ NoneLeftOut
  BY DEF GoOnInv
<1>5. QED BY <1>1, <1>2, <1>3, <1>4, CompleteInvariance, PTL DEF Spec

\* Until the search is finished, a task is running, a window can be opened, or the
\* goroutine of a window is not held up: the semaphore, the workers and the
\* WaitGroups of Search are never all waited for, whatever their numbers.
THEOREM SearchGoesOnHolds == Spec => []SearchGoesOn
<1>1. GoOnInv => SearchGoesOn
  <2> SUFFICES ASSUME GoOnInv, tasks = {}, ~Finished, ~(b < To /\ Cardinality(InSearch) < Parallel)
               PROVE  \E w \in Starts : phase[w] = "panicking" \/ (w \in InSearch /\ ~HeldUp(w))
    BY DEF SearchGoesOn
  <2>1. Parallel \in Nat \ {0} /\ Workers \in Nat \ {0} /\ To \in Nat /\ b \in Nat
    BY SizesAssumption DEF GoOnInv, IInv, TypeOK
  <2>2. Cardinality(tasks) = 0
    BY FS_EmptySet
  <2>3. \A w \in Starts : ~HeldUp(w)
    BY <2>1, <2>2 DEF HeldUp, TasksOf
  <2>4. \E w \in Starts : phase[w] = "panicking" \/ w \in InSearch
    <3>1. CASE b < To
      <4>1. InSearch # {}
        BY <2>1, <3>1, FS_EmptySet
      <4>2. QED BY <4>1 DEF InSearch
    <3>2. CASE b >= To
      <4>1. PICK w \in Starts : phase[w] # "returned"
        BY <3>2 DEF Finished
      <4>2. w < b
        BY <2>1, <3>2, Numbers DEF Starts
      <4>3. QED BY <4>1, <4>2 DEF GoOnInv, NoneLeftOut, Opened, InSearch, IInv, TypeOK
    <3>3. QED BY <2>1, <3>1, <3>2
  <2>5. QED BY <2>3, <2>4
<1>2. QED BY <1>1, GoOnInvariance, PTL

\* How far the goroutine of a window is.
Stage(p) ==
  CASE p = "none" -> 0 [] p = "searching" -> 1 [] p = "waiting" -> 2
    [] p \in {"panicking", "returned"} -> 3

\* The main loop and the windows go forward, contexts stay done, and a process that
\* has crashed stays so.
WindowsForward ==
  /\ b' >= b /\ expired \subseteq expired' /\ (crashed => crashed')
  /\ \A w \in Starts : Stage(phase'[w]) >= Stage(phase[w]) /\ next'[w] >= next[w]

\* Task t has come to be u, further on in its two loops.
Onward(t, u) ==
  /\ u.win = t.win /\ u.attack = t.attack
  /\ t.victim < u.victim \/ (u.victim = t.victim /\ t.profit < u.profit)

\* A task that is there after a step was there before, or a task has moved on to it, or
\* it is for the attack that its window goes past in this step, for the only time.
TasksForward ==
  \A u \in tasks' :
    \/ u \in tasks
    \/ \E t \in tasks \ tasks' : Onward(t, u)
    \/ next[u.win] = u.attack /\ u.attack < next'[u.win]

\* Every step moves something that never moves back.
Moves == <<b, phase, next, expired, tasks, crashed>>' # <<b, phase, next, expired, tasks, crashed>>

NeverTurnsBack == [][WindowsForward /\ TasksForward /\ Moves]_vars

LEMMA OpenForward ==
  ASSUME GoOnInv, OpenSearchWindow
  PROVE  WindowsForward /\ TasksForward /\ Moves
<1>1. IInv /\ WindowsOK /\ NoneLeftOut
  BY DEF GoOnInv
<1>2. \A w \in Starts : next[w] \in Nat
  BY <1>1 DEF IInv, TypeOK
<1>3. \A w \in Starts : Stage(phase'[w]) >= Stage(phase[w]) /\ next'[w] >= next[w]
  <2> SUFFICES ASSUME NEW w \in Starts
               PROVE  Stage(phase'[w]) >= Stage(phase[w]) /\ next'[w] >= next[w]
    OBVIOUS
  <2>1. Stage(phase[w]) \in Nat
    BY <1>1 DEF IInv, TypeOK, Stage
  <2>2. CASE w = b
    BY <1>1, <2>2, OpenFacts DEF Stage
  <2>3. CASE w # b
    BY <1>1, <1>2, <2>1, <2>3, OpenFacts
  <2>4. QED BY <2>2, <2>3
<1>4. b' > b /\ b \in Nat /\ b' \in Nat /\ UNCHANGED <<expired, tasks, crashed>>
  BY <1>1, OpenFacts, Numbers
<1>5. WindowsForward
  BY <1>3, <1>4 DEF WindowsForward
<1>6. QED BY <1>4, <1>5 DEF TasksForward, Moves

LEMMA WindowForward ==
  ASSUME IInv, NEW w \in Starts, WindowStep(w) \/ Expire(w)
  PROVE  WindowsForward /\ TasksForward /\ Moves
<1>1. b \in Nat /\ \A v \in Starts : next[v] \in Nat /\ phase[v] \in {"none", "searching", "waiting", "panicking", "returned"}
  BY DEF IInv, TypeOK
<1>2. expired \subseteq expired' /\ (crashed => crashed')
  BY DEF WindowStep, Expire, SearchNothing, Crash, SearchEarlyExit, SkipAttack, SubmitAttack, EndLoop,
         SearchReturn
<1>3. \A v \in Starts : Stage(phase'[v]) >= Stage(phase[v]) /\ next'[v] >= next[v]
  <2> SUFFICES ASSUME NEW v \in Starts
               PROVE  Stage(phase'[v]) >= Stage(phase[v]) /\ next'[v] >= next[v]
    OBVIOUS
  <2>1. Stage(phase[v]) \in Nat
    BY <1>1 DEF Stage
  <2>2. CASE v = w
    BY <1>1, <2>1, <2>2, WindowFacts DEF Stage
  <2>3. CASE v # w
    BY <1>1, <2>1, <2>3, WindowFacts
  <2>4. QED BY <2>2, <2>3
<1>4. WindowsForward
  BY <1>1, <1>2, <1>3, WindowFacts DEF WindowsForward
<1>5. CASE SubmitAttack(w) \/ SkipAttack(w)
  <2>1. /\ next' = [next EXCEPT ![w] = After(records[w], next[w])]
        /\ After(records[w], next[w]) > next[w] /\ w \in DOMAIN next
    BY <1>5, NextAttack DEF SubmitAttack, SkipAttack, IInv, TypeOK
  <2>2. next[w] < next'[w]
    BY <1>1, <2>1
  <2>3. next' # next
    BY <1>1, <2>2
  <2>4. \A u \in tasks' : u \in tasks \/ (u.win = w /\ u.attack = next[w])
    BY <1>5 DEF SubmitAttack, SkipAttack
  <2>5. QED BY <1>4, <2>2, <2>3, <2>4 DEF TasksForward, Moves
<1>6. CASE Crash(w)
  BY <1>4, <1>6 DEF Crash, TasksForward, Moves
<1>7. CASE SearchNothing(w) \/ SearchEarlyExit(w) \/ EndLoop(w) \/ SearchReturn(w)
  <2>1. phase'[w] # phase[w] /\ tasks' = tasks
    BY <1>7 DEF SearchNothing, SearchEarlyExit, EndLoop, SearchReturn, IInv, TypeOK
  <2>2. QED BY <1>4, <2>1 DEF TasksForward, Moves
<1>8. CASE Expire(w)
  BY <1>4, <1>8 DEF Expire, TasksForward, Moves
<1>9. QED BY <1>5, <1>6, <1>7, <1>8 DEF WindowStep

\* A task that is replaced has moved on.
LEMMA BecomeForward ==
  ASSUME IInv, NEW t \in tasks, NEW u, Move(t, u), tasks' \subseteq (tasks \ {t}) \cup {u}
  PROVE  TasksForward /\ tasks' # tasks
<1>1. u # t
  BY TaskFields DEF IInv, Move
<1>2. t \notin tasks'
  BY <1>1
<1>3. Onward(t, u)
  BY DEF Move, Onward
<1>4. QED BY <1>2, <1>3 DEF TasksForward

LEMMA TaskForward ==
  ASSUME IInv, NEW t \in tasks, TaskStep(t)
  PROVE  WindowsForward /\ TasksForward /\ Moves
<1>1. TypeOK /\ TasksOK
  BY DEF IInv
<1>2. WindowsForward
  <2>1. b \in Nat /\ \A v \in Starts : next[v] \in Nat /\ Stage(phase[v]) \in Nat
    BY <1>1 DEF TypeOK, Stage
  <2>2. QED BY <2>1, TaskFrame DEF WindowsForward
<1>3. TasksForward /\ tasks' # tasks
  <2>1. CASE EndTask(t)
    BY <2>1 DEF EndTask, TasksForward
  <2>2. CASE SkipVictim(t) \/ VictimFails(t)
    BY <1>1, <2>2, NextVictimMoves, BecomeForward DEF SkipVictim, VictimFails, AtVictim, Become
  <2>3. CASE OldVictim(t) \/ CheckPair(t)
    <3>1. Move(t, FirstProfit(t))
      BY <1>1, <2>3, FirstProfitMoves DEF OldVictim, CheckPair, Swappable, AtVictim
    <3>2. tasks' \subseteq (tasks \ {t}) \cup {FirstProfit(t)}
      BY <2>3 DEF OldVictim, CheckPair, Become
    <3>3. QED BY <3>1, <3>2, BecomeForward
  <2>4. CASE SkipProfit(t) \/ ProfitFails(t) \/ CheckTriple(t)
    <3>1. Move(t, NextProfit(t))
      BY <1>1, <2>4, NextProfitMoves DEF SkipProfit, ProfitFails, CheckTriple, AtProfit
    <3>2. tasks' \subseteq (tasks \ {t}) \cup {NextProfit(t)}
      BY <2>4 DEF SkipProfit, ProfitFails, CheckTriple, Become
    <3>3. QED BY <3>1, <3>2, BecomeForward
  <2>5. CASE EndProfits(t)
    <3>1. t.victim <= N
      BY <1>1, <2>5, TaskFields DEF EndProfits, TasksOK
    <3>2. Move(t, NextVictim(t))
      BY <1>1, <3>1, NextVictimMoves
    <3>3. QED BY <2>5, <3>2, BecomeForward DEF EndProfits, Become
  <2>6. QED BY <2>1, <2>2, <2>3, <2>4, <2>5 DEF TaskStep
<1>4. QED BY <1>2, <1>3 DEF Moves

\* No step goes back and every step goes forward, in the main loop, the loop over the
\* attacks of a window or the loops over victims and profit transactions of a task,
\* and no attack is submitted again.  All of these loops have an end, so a search takes
\* finitely many steps; by SearchGoesOnHolds it stops nowhere but at its end.
THEOREM NeverTurnsBackHolds == Spec => NeverTurnsBack
<1>1. GoOnInv /\ [Next]_vars => [WindowsForward /\ TasksForward /\ Moves]_vars
  BY OpenForward, WindowForward, TaskForward DEF Next, GoOnInv
<1>2. QED BY <1>1, GoOnInvariance, PTL DEF Spec, NeverTurnsBack

=============================================================================
