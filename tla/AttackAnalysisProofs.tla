------------------------ MODULE AttackAnalysisProofs ------------------------
(***************************************************************************)
(* Proofs about AttackAnalysis, for any contracts and bounds: types, that  *)
(* the taint analyzer never goes back and is where the execution is, that  *)
(* the recorded path is complete, and what the comparison of two paths     *)
(* finds.                                                                  *)
(*                                                                         *)
(* The comparison is made of recursive functions.  Each of them is shown   *)
(* to exist and to be what it should by the least counterexample: the cut  *)
(* of the paths by what is left of them, a sum by the size of its set, the *)
(* profits by the number of the section.                                   *)
(***************************************************************************)
EXTENDS AttackAnalysis, FiniteSetTheorems, TLAPS, WellFoundedInduction

---------------------------------------------------------------------------
\* The last of a set of places.

LEMMA MaxOfPlaces ==
  ASSUME NEW n \in Nat, NEW S \in SUBSET (1 .. n), S # {}
  PROVE  Max(S) \in S
<1> DEFINE T == {n - i : i \in S}
<1>1. T \subseteq Nat /\ T # {}
  OBVIOUS
<1>2. PICK m \in T : \A y \in T : ~(<<y, m>> \in OpToRel(<, Nat))
  BY <1>1, NatLessThanWellFounded, WFMin
<1>3. \A y \in T : ~(y < m)
  BY <1>1, <1>2 DEF OpToRel
<1>4. PICK k \in S : m = n - k
  OBVIOUS
<1>5. \A i \in S : k >= i
  <2> TAKE i \in S
  <2>1. ~(n - i < m)
    BY <1>3
  <2> QED BY <2>1, <1>4
<1>6. \E x \in S : \A y \in S : x >= y
  BY <1>5
<1> QED BY <1>6 DEF Max

---------------------------------------------------------------------------
\* The analyzer.

LEMMA MergesType ==
  ASSUME NEW ref \in Seq(PathEntry), NEW index \in Nat \ {0}, NEW k \in DOMAIN Merges(ref, index)
  PROVE  /\ Merges(ref, index)[k] \in index + 1 .. Len(ref)
         /\ Key(ref[Merges(ref, index)[k]]) = k
<1> DEFINE S == {i \in index + 1 .. Len(ref) : Key(ref[i]) = k}
<1>1. k \in {Key(ref[i]) : i \in index + 1 .. Len(ref)}
  BY DEF Merges
<1>2. S # {} /\ S \in SUBSET (1 .. Len(ref)) /\ Len(ref) \in Nat
  BY <1>1
<1>3. Max(S) \in S
  BY <1>2, MaxOfPlaces
<1>4. Merges(ref, index)[k] = Max(S)
  BY <1>1 DEF Merges
<1> QED BY <1>3, <1>4

\* What the hook of a block's tail does to it: it goes on to the block that comes
\* next, or gives up.
LEMMA HookType ==
  ASSUME NEW an, NEW ref \in Seq(PathEntry), AnalyzerOK(an, ref), NEW next,
         NEW tainted \in BOOLEAN
  PROVE  LET h == Hook(an, ref, next, tainted)
         IN  /\ AnalyzerOK(h, ref)
             /\ h.index >= an.index
             /\ an.diverging /\ ~h.diverging => h.index > an.index
             /\ ~h.diverging => Key(ref[h.index]) = next
             /\ ~an.diverging /\ an.index + 1 <= Len(ref) /\ Key(ref[an.index + 1]) = next
                  => ~h.diverging /\ h.index = an.index + 1
<1> DEFINE h == Hook(an, ref, next, tainted)
<1>0. an.index \in Nat \ {0} /\ Len(ref) \in Nat /\ an.diverging \in BOOLEAN
      /\ an = [index |-> an.index, diverging |-> an.diverging, node |-> an.node, merge |-> an.merge]
  BY DEF AnalyzerOK
<1>1. CASE an.diverging /\ next \in DOMAIN an.merge
  <2>1. h = [index |-> an.merge[next], diverging |-> FALSE, node |-> FALSE, merge |-> << >>]
    BY <1>1 DEF Hook, NoAnalyzer
  <2>2. an.merge[next] \in an.index + 1 .. Len(ref) /\ Key(ref[an.merge[next]]) = next
    BY <1>1 DEF AnalyzerOK
  <2>3. DOMAIN h.merge = {}
    BY <2>1
  <2>4. h.index \in 1 .. Len(ref) + 1
    BY <2>1, <2>2, <1>0
  <2> QED BY <2>1, <2>2, <2>3, <2>4, <1>0, <1>1 DEF AnalyzerOK
<1>2. CASE an.diverging /\ next \notin DOMAIN an.merge
  <2>1. h = an
    BY <1>2 DEF Hook
  <2> QED BY <2>1, <1>0, <1>2
<1>3. CASE ~an.diverging /\ an.index >= Len(ref)
  <2>1. h = [index |-> an.index, diverging |-> TRUE, node |-> an.node, merge |-> an.merge]
    BY <1>0, <1>3 DEF Hook
  <2> QED BY <2>1, <1>0, <1>3 DEF AnalyzerOK
<1>4. CASE ~an.diverging /\ an.index < Len(ref) /\ Key(ref[an.index + 1]) = next
  <2>0. ~(an.index >= Len(ref))
    BY <1>0, <1>4
  <2>3. h = [an EXCEPT !.index = @ + 1]
    BY <2>0, <1>4 DEF Hook
  <2>1. h = [index |-> an.index + 1, diverging |-> FALSE, node |-> an.node, merge |-> an.merge]
    BY <2>3, <1>0, <1>4
  <2>2. DOMAIN an.merge = {}
    BY <1>4 DEF AnalyzerOK
  <2> QED BY <2>1, <2>2, <1>0, <1>4 DEF AnalyzerOK
<1>5. CASE ~an.diverging /\ an.index < Len(ref) /\ Key(ref[an.index + 1]) # next
  <2>0. ~(an.index >= Len(ref))
    BY <1>0, <1>5
  <2>3. h = [an EXCEPT !.diverging = TRUE, !.node = tainted, !.merge = Merges(ref, an.index)]
    BY <2>0, <1>5 DEF Hook
  <2>1. h = [index |-> an.index, diverging |-> TRUE, node |-> tainted, merge |-> Merges(ref, an.index)]
    BY <2>3, <1>0
  <2>2. \A k \in DOMAIN h.merge :
          h.merge[k] \in h.index + 1 .. Len(ref) /\ Key(ref[h.merge[k]]) = k
    BY <2>1, <1>0, MergesType
  <2> QED BY <2>1, <2>2, <1>0, <1>5 DEF AnalyzerOK
<1> QED BY <1>0, <1>1, <1>2, <1>3, <1>4, <1>5

---------------------------------------------------------------------------
\* The call stack.

FrameOK(f) ==
  f \in CallFrame /\ Len(f.open) <= 1 /\ f.code \in DOMAIN code /\ f.pc \in DOMAIN code[f.code]

FramesOK(fs) == fs \in Seq(CallFrame) /\ \A d \in DOMAIN fs : FrameOK(fs[d])

Step == [code : Accounts, pc : Nat \ {0}, pos : Position]

LEMMA StackParts ==
  ASSUME NEW fs, FramesOK(fs), fs # << >>
  PROVE  /\ FrameOK(Last(fs)) /\ FramesOK(Front(fs))
         /\ Len(fs) \in Nat \ {0} /\ Len(Front(fs)) = Len(fs) - 1
         /\ \A d \in 1 .. Len(fs) - 1 : Front(fs)[d] = fs[d]
<1>1. fs \in Seq(CallFrame) /\ Len(fs) \in Nat \ {0}
  BY DEF FramesOK
<1>2. Front(fs) = SubSeq(fs, 1, Len(fs) - 1)
  BY DEF Front
<1>3. /\ Front(fs) \in Seq(CallFrame) /\ Len(Front(fs)) = Len(fs) - 1
      /\ \A d \in 1 .. Len(fs) - 1 : Front(fs)[d] = fs[d]
  <2>1. \A d \in 1 .. Len(fs) - 1 : fs[d] \in CallFrame
    BY <1>1
  <2>2. SubSeq(fs, 1, Len(fs) - 1) = [d \in 1 .. Len(fs) - 1 |-> fs[d]]
    BY <1>1
  <2>3. Len(fs) - 1 \in Nat
    BY <1>1
  <2>4. [d \in 1 .. Len(fs) - 1 |-> fs[d]] \in Seq(CallFrame)
    BY <2>1, <2>3
  <2>5. Len([d \in 1 .. Len(fs) - 1 |-> fs[d]]) = Len(fs) - 1
    BY <2>1, <2>3
  <2> QED BY <1>2, <2>2, <2>4, <2>5
<1>4. Last(fs) = fs[Len(fs)] /\ Len(fs) \in DOMAIN fs
  BY <1>1 DEF Last
<1> QED BY <1>1, <1>3, <1>4 DEF FramesOK

LEMMA StackGrows ==
  ASSUME NEW fs, FramesOK(fs), NEW f, FrameOK(f)
  PROVE  /\ FramesOK(Append(fs, f)) /\ Append(fs, f) # << >>
         /\ Last(Append(fs, f)) = f
         /\ Append(fs, f) = fs \o <<f>>
<1>1. fs \in Seq(CallFrame) /\ f \in CallFrame /\ Len(fs) \in Nat
  BY DEF FramesOK, FrameOK
<1>2. /\ Append(fs, f) \in Seq(CallFrame) /\ Len(Append(fs, f)) = Len(fs) + 1
      /\ Append(fs, f)[Len(fs) + 1] = f /\ Append(fs, f) # << >>
      /\ \A d \in 1 .. Len(fs) : Append(fs, f)[d] = fs[d]
  BY <1>1
<1>3. Append(fs, f) = fs \o <<f>>
  BY <1>1
<1>4. \A d \in DOMAIN Append(fs, f) : FrameOK(Append(fs, f)[d])
  <2> TAKE d \in DOMAIN Append(fs, f)
  <2>1. d \in 1 .. Len(fs) \/ d = Len(fs) + 1
    BY <1>1, <1>2
  <2> QED BY <2>1, <1>1, <1>2 DEF FramesOK
<1> QED BY <1>2, <1>3, <1>4 DEF FramesOK, Last

---------------------------------------------------------------------------
\* The block of the current call.

LEMMA BlockHere ==
  ASSUME TypeOK, InCode, Running
  PROVE  /\ FramesOK(frames) /\ FrameOK(Current) /\ Current \in CallFrame
         /\ Current.code \in Accounts /\ Current.pos \in Position /\ Current.pc \in Nat \ {0}
         /\ Current.calls \in Nat /\ Current.open \in Seq(PathEntry)
         /\ At \in Block /\ At.pays \subseteq Int /\ At.tail \in Tails
         /\ At.single \in BOOLEAN /\ At.next \subseteq Nat
         /\ At.tail = "jump" => At.next \subseteq DOMAIN code[Current.code]
         /\ At.tail \in {"call", "fall"} => Current.pc + 1 \in DOMAIN code[Current.code]
         /\ DOMAIN code[Current.code] \subseteq Nat \ {0}
<1>1. FramesOK(frames)
  BY DEF TypeOK, InCode, FramesOK, FrameOK
<1>2. FrameOK(Current)
  BY <1>1, StackParts DEF Current, Running
<1>3. IsProgram(code)
  BY ProgramsAssumption DEF TypeOK
<1>4. At \in Block
      /\ (At.tail = "jump" => At.next \subseteq DOMAIN code[Current.code])
      /\ (At.tail \in {"call", "fall"} => Current.pc + 1 \in DOMAIN code[Current.code])
      /\ DOMAIN code[Current.code] \subseteq Nat \ {0}
  BY <1>2, <1>3 DEF IsProgram, FrameOK, At
<1>5. /\ At.pays \subseteq Int /\ At.tail \in Tails /\ At.single \in BOOLEAN /\ At.next \subseteq Nat
  BY <1>4 DEF Block
<1>6. /\ Current \in CallFrame
      /\ Current.code \in Accounts /\ Current.pos \in Position /\ Current.pc \in Nat \ {0}
      /\ Current.calls \in Nat /\ Current.open \in Seq(PathEntry)
  BY <1>2 DEF FrameOK, CallFrame
<1> QED BY <1>1, <1>2, <1>4, <1>5, <1>6

LEMMA EntryType ==
  ASSUME TypeOK, InCode, Running, NEW tail \in Tails \cup {"other"}, NEW amount \in Int,
         NEW holder \in Position
  PROVE  LET e == Entry(tail, amount, holder)
         IN  /\ e \in PathEntry
             /\ e.code = Current.code /\ e.pc = Current.pc /\ e.pos = Current.pos
             /\ Key(e) = Key(Current)
<1>1. Len(executed) \in Nat
  BY DEF TypeOK
<1>2. Entry(tail, amount, holder) =
        [code |-> Current.code, pc |-> Current.pc, pos |-> Current.pos, tail |-> tail,
         amount |-> amount, holder |-> holder, single |-> At.single,
         index |-> Len(executed) + 1]
  BY DEF Entry
<1> QED BY <1>1, <1>2, BlockHere DEF PathEntry, Key

\* Entering a block adds to the path and to the blocks executed.
LEMMA EnterType ==
  ASSUME TypeOK, InCode, Running, NEW block \in PathEntry, Enter(block)
  PROVE  path' \in Seq(PathEntry) /\ executed' \in Seq(Step)
<1>1. Closed(block) \in Seq(PathEntry)
  BY BlockHere DEF Closed
<1>2. [code |-> block.code, pc |-> block.pc, pos |-> block.pos] \in Step
  BY DEF PathEntry, Step
<1>3. path \in Seq(PathEntry) /\ executed \in Seq(Step)
  BY DEF TypeOK, Step
<1> QED BY <1>1, <1>2, <1>3 DEF Enter

LEMMA OpenType ==
  ASSUME NEW block \in PathEntry
  PROVE  Opened(block) \in Seq(PathEntry) /\ Len(Opened(block)) <= 1
BY DEF Opened

LEMMA MovedFields ==
  ASSUME NEW c \in CallFrame, NEW block \in PathEntry, NEW pc \in Nat \ {0}
  PROVE  LET f == Moved(c, block, pc)
         IN  /\ f \in CallFrame
             /\ f.code = c.code /\ f.pos = c.pos /\ f.calls = c.calls
             /\ f.pc = pc /\ f.open = Opened(block)
<1>1. Opened(block) \in Seq(PathEntry)
  BY OpenType
<1> QED BY <1>1 DEF CallFrame, Moved

\* The current call goes on at another block.
LEMMA MovedType ==
  ASSUME TypeOK, InCode, Running, NEW block \in PathEntry, NEW pc \in DOMAIN code[Current.code]
  PROVE  LET f == Moved(Current, block, pc)
         IN  /\ FrameOK(f) /\ f.code = Current.code /\ f.pc = pc
             /\ f.open = Opened(block) /\ f.pos = Current.pos /\ f.calls = Current.calls
             /\ FramesOK(SetCurrent(f)) /\ SetCurrent(f) # << >> /\ Last(SetCurrent(f)) = f
<1> DEFINE f == Moved(Current, block, pc)
<1>3. pc \in Nat \ {0} /\ Current.code \in DOMAIN code /\ Current \in CallFrame
  BY BlockHere DEF FrameOK
<1>4. /\ f \in CallFrame
      /\ f.code = Current.code /\ f.pos = Current.pos /\ f.calls = Current.calls
      /\ f.pc = pc /\ f.open = Opened(block)
  BY <1>3, MovedFields
<1>5. FrameOK(f)
  BY <1>3, <1>4, OpenType DEF FrameOK
<1>6. FramesOK(Front(frames))
  BY BlockHere, StackParts DEF Running
<1>7. FramesOK(SetCurrent(f)) /\ SetCurrent(f) # << >> /\ Last(SetCurrent(f)) = f
  BY <1>5, <1>6, StackGrows DEF SetCurrent
<1> QED BY <1>4, <1>5, <1>7

\* A new call, to a contract.
LEMMA FrameType ==
  ASSUME TypeOK, NEW a \in DOMAIN code, NEW pos \in Position
  PROVE  FrameOK(Frame(a, pos)) /\ Key(Frame(a, pos)) = <<a, 1>> /\ Frame(a, pos).open = << >>
<1>1. a \in Accounts /\ 1 \in DOMAIN code[a]
  BY ProgramsAssumption DEF TypeOK, IsProgram
<1> QED BY <1>1 DEF Frame, FrameOK, CallFrame, Key

\* The hook keeps the analyzer consistent, and never sends it back.
LEMMA HookedType ==
  ASSUME TypeOK, NEW next, Hooked(next)
  PROVE  /\ AnalyzerOK(analyzer', free.path)
         /\ analyzer'.index >= analyzer.index
         /\ analyzer.diverging /\ ~analyzer'.diverging => analyzer'.index > analyzer.index
         /\ phase # "attack" => analyzer' = analyzer
<1>1. AnalyzerOK(analyzer, free.path) /\ free.path \in Seq(PathEntry)
  BY DEF TypeOK
<1>2. CASE phase = "attack"
  <2>1. PICK t \in BOOLEAN : analyzer' = Hook(analyzer, free.path, next, t)
    BY <1>2 DEF Hooked
  <2> QED BY <1>1, <1>2, <2>1, HookType
<1>3. CASE phase # "attack"
  <2>1. analyzer' = analyzer
    BY <1>3 DEF Hooked
  <2>2. analyzer.index \in Nat
    BY <1>1 DEF AnalyzerOK
  <2> QED BY <1>1, <2>1, <2>2
<1> QED BY <1>2, <1>3

\* Where a tail has told where execution goes, the analyzer is there.
LEMMA TrackStep ==
  ASSUME TypeOK, InCode, Running, Tracks, exact, phase = "attack",
         NEW block, block.code = Current.code, block.pc = Current.pc, Enter(block),
         frames' # << >>, Hooked(Key(Last(frames'))), free' = free
  PROVE  Tracks'
<1> DEFINE next   == Key(Last(frames'))
           blocks == Append([i \in DOMAIN executed |-> Key(executed[i])], Key(Current))
           same   == /\ Len(blocks) <= Len(free.path)
                     /\ \A i \in DOMAIN blocks : blocks[i] = Key(free.path[i])
           later  == Append([i \in DOMAIN executed' |-> Key(executed'[i])], next)
<1>1. /\ ~analyzer.diverging => Key(free.path[analyzer.index]) = Key(Current)
      /\ same => ~analyzer.diverging /\ analyzer.index = Len(blocks)
  BY DEF Tracks, Running
<1>2. PICK t \in BOOLEAN : analyzer' = Hook(analyzer, free.path, next, t)
  BY DEF Hooked
<1>3. AnalyzerOK(analyzer, free.path) /\ free.path \in Seq(PathEntry)
  BY DEF TypeOK
<1>4. /\ ~analyzer'.diverging => Key(free.path[analyzer'.index]) = next
      /\ ~analyzer.diverging /\ analyzer.index + 1 <= Len(free.path)
         /\ Key(free.path[analyzer.index + 1]) = next
           => ~analyzer'.diverging /\ analyzer'.index = analyzer.index + 1
  BY <1>2, <1>3, HookType
<1> DEFINE n == Len(executed)
<1>5. n \in Nat /\ executed \in Seq(Step)
  BY DEF TypeOK, Step
<1>6. executed' = Append(executed, [code |-> block.code, pc |-> block.pc, pos |-> block.pos])
  BY DEF Enter
<1>7. /\ Len(executed') = n + 1 /\ DOMAIN executed' = 1 .. n + 1
      /\ \A i \in 1 .. n : executed'[i] = executed[i]
      /\ Key(executed'[n + 1]) = Key(Current)
  BY <1>5, <1>6 DEF Key
<1>8. /\ Len(blocks) = n + 1 /\ DOMAIN blocks = 1 .. n + 1
      /\ \A i \in 1 .. n : blocks[i] = Key(executed[i])
      /\ blocks[n + 1] = Key(Current)
  BY <1>5
<1>9. /\ Len(later) = n + 2 /\ DOMAIN later = 1 .. n + 2
      /\ \A i \in 1 .. n + 1 : later[i] = Key(executed'[i])
      /\ later[n + 2] = next
  BY <1>5, <1>7
<1> HIDE DEF n, next, blocks, later
<1>10. \A i \in 1 .. n + 1 : later[i] = blocks[i]
  <2> TAKE i \in 1 .. n + 1
  <2>1. i \in 1 .. n \/ i = n + 1
    BY <1>5
  <2> QED BY <2>1, <1>5, <1>7, <1>8, <1>9
<1>11. ASSUME Len(later) <= Len(free.path), \A i \in DOMAIN later : later[i] = Key(free.path[i])
       PROVE  ~analyzer'.diverging /\ analyzer'.index = Len(later)
  <2>1. same
    BY <1>3, <1>5, <1>8, <1>9, <1>10, <1>11
  <2>2. Key(free.path[n + 2]) = next
    BY <1>5, <1>9, <1>11
  <2> QED BY <1>1, <1>4, <1>5, <1>8, <1>9, <1>11, <2>1, <2>2
<1>12. Current' = Last(frames')
  BY DEF Current
<1> QED BY <1>4, <1>11, <1>12 DEF Tracks, next, later

---------------------------------------------------------------------------
\* What an operation keeps.

LEMMA TypedStep ==
  ASSUME TypeOK, code' = code, free' = free, phase' = phase,
         exact' \in BOOLEAN, outOfGas' \in BOOLEAN, FramesOK(frames'),
         path' \in Seq(PathEntry), executed' \in Seq(Step), failed' \subseteq Position,
         faulted' \subseteq failed', AnalyzerOK(analyzer', free.path)
  PROVE  TypeOK' /\ InCode'
<1>1. InCode'
  BY DEF FramesOK, FrameOK, InCode
<1>2. frames' \in Seq(CallFrame) /\ \A d \in DOMAIN frames' : Len(frames'[d].open) <= 1
  BY DEF FramesOK, FrameOK
<1> QED BY <1>1, <1>2 DEF TypeOK, Step

LEMMA IdleAnalyzer ==
  ASSUME IInv, phase' = phase, free' = free, phase # "attack" => analyzer' = analyzer
  PROVE  phase' = "attack-free" => analyzer' = NoAnalyzer /\ free'.path = << >>
BY DEF IInv

LEMMA Inexact ==
  ASSUME exact' = FALSE
  PROVE  Faithful' /\ Tracks'
BY DEF Faithful, Tracks

LEMMA LastOfOne ==
  ASSUME NEW f
  PROVE  Last(<<f>>) = f
BY DEF Last

LEMMA ExactStep ==
  ASSUME IInv, Running, exact, ~At.single, At.tail # "fall",
         NEW block \in PathEntry, Enter(block),
         block.code = Current.code, block.pc = Current.pc,
         phase' = phase, free' = free,
         \A d \in DOMAIN frames' : frames'[d].open = << >>
  PROVE  Faithful'
<1>1. /\ \A d \in DOMAIN frames : frames[d].open = << >>
      /\ Len(path) = Len(executed)
      /\ \A i \in DOMAIN path : Key(path[i]) = Key(executed[i])
      /\ executed = << >> => frames = <<Frame(Root, << >>)>>
      /\ executed # << >> => Key(executed[1]) = <<Root, 1>>
      /\ phase = "attack" => free.path # << >> /\ Key(free.path[1]) = <<Root, 1>>
  BY DEF IInv, Faithful, Running
<1>2. path \in Seq(PathEntry) /\ executed \in Seq(Step) /\ frames \in Seq(CallFrame)
  BY DEF IInv, TypeOK, Step
<1>3. Current.open = << >>
  BY <1>1, <1>2 DEF Current, Last, Running
<1>4. Closed(block) = <<block>>
  BY <1>3 DEF Closed
<1> DEFINE entered == [code |-> block.code, pc |-> block.pc, pos |-> block.pos]
<1>5. path' = path \o <<block>> /\ executed' = Append(executed, entered)
  BY <1>4 DEF Enter
<1>6. entered \in Step /\ Key(entered) = Key(block) /\ Key(block) = Key(Current)
  BY DEF PathEntry, Step, Key
<1> HIDE DEF entered
<1> DEFINE n == Len(executed)
<1>7. /\ n \in Nat /\ Len(path') = n + 1 /\ Len(executed') = n + 1
      /\ \A i \in 1 .. n : path'[i] = path[i] /\ executed'[i] = executed[i]
      /\ path'[n + 1] = block /\ executed'[n + 1] = entered
      /\ DOMAIN path' = 1 .. n + 1 /\ executed' # << >>
  BY <1>1, <1>2, <1>5, <1>6
<1>8. \A i \in DOMAIN path' : Key(path'[i]) = Key(executed'[i])
  <2> TAKE i \in DOMAIN path'
  <2>1. i \in 1 .. n \/ i = n + 1
    BY <1>7
  <2> QED BY <2>1, <1>1, <1>2, <1>6, <1>7
<1>9. Key(executed'[1]) = <<Root, 1>>
  <2>1. CASE executed = << >>
    <3>1. Current = Frame(Root, << >>)
      BY <1>1, <2>1, LastOfOne DEF Current
    <3>2. Key(Current) = <<Root, 1>>
      BY <3>1 DEF Frame, Key
    <3>3. n = 0
      BY <2>1
    <3> QED BY <3>2, <3>3, <1>6, <1>7
  <2>2. CASE executed # << >>
    <3>1. 1 \in 1 .. n
      BY <2>2, <1>2, <1>7
    <3> QED BY <3>1, <2>2, <1>1, <1>7
  <2> QED BY <2>1, <2>2
<1> QED BY <1>1, <1>7, <1>8, <1>9 DEF Faithful

\* While all is exact no block is left open.
LEMMA AllClosed ==
  ASSUME IInv, Running, exact, NEW f, FrameOK(f), f.open = << >>
  PROVE  /\ \A d \in DOMAIN Front(frames) : Front(frames)[d].open = << >>
         /\ \A d \in DOMAIN Append(Front(frames), f) : Append(Front(frames), f)[d].open = << >>
<1>1. FramesOK(frames) /\ frames # << >>
  BY BlockHere DEF IInv, Running
<1>2. /\ Len(frames) \in Nat \ {0} /\ Len(Front(frames)) = Len(frames) - 1
      /\ \A d \in 1 .. Len(frames) - 1 : Front(frames)[d] = frames[d]
      /\ FramesOK(Front(frames))
  BY <1>1, StackParts
<1>3. \A d \in 1 .. Len(frames) : frames[d].open = << >>
  BY <1>1 DEF IInv, Faithful, Running, FramesOK
<1>4. Front(frames) \in Seq(CallFrame)
  BY <1>2 DEF FramesOK
<1>5. \A d \in DOMAIN Front(frames) : Front(frames)[d].open = << >>
  BY <1>2, <1>3, <1>4
<1>6. \A d \in DOMAIN Append(Front(frames), f) :
        Append(Front(frames), f)[d] = f \/ (d \in DOMAIN Front(frames) /\ Append(Front(frames), f)[d] = Front(frames)[d])
  BY <1>4
<1> QED BY <1>5, <1>6

---------------------------------------------------------------------------
\* A step that keeps the types; where it is exact, the rest is to be shown.
LEMMA StepKeeps ==
  ASSUME IInv, Fixed, exact' \in BOOLEAN, outOfGas' \in BOOLEAN, FramesOK(frames'),
         path' \in Seq(PathEntry), executed' \in Seq(Step), failed' \subseteq Position,
         failed \subseteq failed', AnalyzerOK(analyzer', free.path),
         phase # "attack" => analyzer' = analyzer, exact' => Faithful' /\ Tracks'
  PROVE  IInv'
<1>1. code' = code /\ free' = free /\ phase' = phase /\ faulted' = faulted
  BY DEF Fixed
<1>2. TypeOK' /\ InCode'
  <2>1. faulted' \subseteq failed'
    BY <1>1 DEF IInv, TypeOK
  <2> QED BY <1>1, <2>1, TypedStep DEF IInv
<1>3. Faithful' /\ Tracks'
  BY Inexact
<1> QED BY <1>1, <1>2, <1>3, IdleAnalyzer DEF IInv

LEMMA ExactKeeps ==
  ASSUME IInv, Running, Fixed, exact, ~At.single, At.tail # "fall",
         NEW block \in PathEntry, Enter(block),
         block.code = Current.code, block.pc = Current.pc,
         \A d \in DOMAIN frames' : frames'[d].open = << >>,
         frames' # << >> => Hooked(Key(Last(frames')))
  PROVE  Faithful' /\ Tracks'
<1>1. code' = code /\ free' = free /\ phase' = phase
  BY DEF Fixed
<1>2. Faithful'
  BY <1>1, ExactStep
<1>3. CASE phase = "attack" /\ frames' # << >>
  BY <1>1, <1>2, <1>3, TrackStep DEF IInv
<1>4. CASE phase # "attack" \/ frames' = << >>
  BY <1>1, <1>2, <1>4 DEF Tracks
<1> QED BY <1>3, <1>4

---------------------------------------------------------------------------
\* The operations, one by one.

LEMMA JumpKeeps ==
  ASSUME IInv, Jump
  PROVE  IInv'
<1>1. TypeOK /\ InCode /\ Running /\ At.tail = "jump" /\ Fixed
  BY DEF IInv, Jump
<1>2. PICK pc \in At.next, amount \in At.pays :
        /\ Enter(Entry("jump", amount, Current.pos))
        /\ frames' = SetCurrent(Moved(Current, Entry("jump", amount, Current.pos), pc))
        /\ Hooked(<<Current.code, pc>>)
  BY DEF Jump
<1> DEFINE block == Entry("jump", amount, Current.pos)
           f     == Moved(Current, block, pc)
<1>3. /\ block \in PathEntry /\ block.code = Current.code /\ block.pc = Current.pc
      /\ pc \in DOMAIN code[Current.code]
  BY <1>1, EntryType, BlockHere DEF Tails
<1>4. /\ FramesOK(frames') /\ Last(frames') = f /\ FrameOK(f)
      /\ f.code = Current.code /\ f.pc = pc /\ f.open = Opened(block)
  BY <1>1, <1>2, <1>3, MovedType
<1>5. failed' = failed /\ outOfGas' = outOfGas /\ exact' = (exact /\ ~At.single)
  BY DEF Jump
<1>6. path' \in Seq(PathEntry) /\ executed' \in Seq(Step)
  BY <1>1, <1>2, <1>3, EnterType
<1>7. AnalyzerOK(analyzer', free.path) /\ (phase # "attack" => analyzer' = analyzer)
  BY <1>1, <1>2, HookedType
<1>8. /\ exact' \in BOOLEAN /\ outOfGas' \in BOOLEAN
      /\ failed' \subseteq Position /\ failed \subseteq failed'
  BY <1>1, <1>5, BlockHere DEF TypeOK
<1>9. ASSUME exact'
      PROVE  Faithful' /\ Tracks'
  <2>1. exact /\ ~At.single /\ At.tail # "fall"
    BY <1>1, <1>5, <1>9
  <2>2. f.open = << >>
    BY <2>1, <1>4 DEF Opened
  <2>3. \A d \in DOMAIN frames' : frames'[d].open = << >>
    BY <2>1, <2>2, <1>1, <1>2, <1>4, AllClosed DEF SetCurrent
  <2>4. Key(Last(frames')) = <<Current.code, pc>>
    BY <1>4 DEF Key
  <2> QED BY <2>1, <2>3, <2>4, <1>1, <1>2, <1>3, ExactKeeps
<1> QED BY <1>1, <1>4, <1>6, <1>7, <1>8, <1>9, StepKeeps

LEMMA FallKeeps ==
  ASSUME IInv, Fall
  PROVE  IInv'
<1>1. TypeOK /\ InCode /\ Running /\ At.tail = "fall" /\ Fixed
  BY DEF IInv, Fall
<1>2. PICK amount \in At.pays :
        /\ Enter(Entry("other", amount, Current.pos))
        /\ frames' = SetCurrent(Moved(Current, Entry("other", amount, Current.pos), Current.pc + 1))
  BY DEF Fall
<1> DEFINE block == Entry("other", amount, Current.pos)
<1>3. block \in PathEntry /\ Current.pc + 1 \in DOMAIN code[Current.code]
  BY <1>1, EntryType, BlockHere
<1>4. FramesOK(frames')
  BY <1>1, <1>2, <1>3, MovedType
<1>5. path' \in Seq(PathEntry) /\ executed' \in Seq(Step)
  BY <1>1, <1>2, <1>3, EnterType
<1>6. /\ exact' = FALSE /\ outOfGas' \in BOOLEAN
      /\ failed' \subseteq Position /\ failed \subseteq failed'
      /\ analyzer' = analyzer /\ AnalyzerOK(analyzer', free.path)
  BY <1>1 DEF Fall, TypeOK
<1> QED BY <1>1, <1>4, <1>5, <1>6, StepKeeps

\* What a caller becomes, and the call it makes.
LEMMA CallerType ==
  ASSUME TypeOK, InCode, Running, NEW block \in PathEntry,
         Current.pc + 1 \in DOMAIN code[Current.code]
  PROVE  LET f == Moved(Current, block, Current.pc + 1)
             c == [f EXCEPT !.calls = @ + 1]
         IN  /\ FrameOK(f) /\ FrameOK(c) /\ c.open = Opened(block)
             /\ FramesOK(SetCurrent(f)) /\ FramesOK(SetCurrent(c))
             /\ ChildPosition \in Position
<1> DEFINE f == Moved(Current, block, Current.pc + 1)
           c == [f EXCEPT !.calls = @ + 1]
<1>1. FrameOK(f) /\ FramesOK(SetCurrent(f)) /\ f.open = Opened(block)
  BY MovedType
<1>2. f \in CallFrame /\ f.code \in DOMAIN code /\ f.pc \in DOMAIN code[f.code]
  BY <1>1 DEF FrameOK
<1> HIDE DEF f
<1>3. c \in CallFrame /\ c.code = f.code /\ c.pc = f.pc /\ c.open = f.open
  BY <1>2 DEF CallFrame
<1>4. FrameOK(c)
  BY <1>1, <1>2, <1>3 DEF FrameOK
<1>5. FramesOK(Front(frames))
  BY BlockHere, StackParts DEF Running
<1>6. FramesOK(SetCurrent(c))
  BY <1>4, <1>5, StackGrows DEF SetCurrent
<1>7. ChildPosition \in Position
  BY BlockHere DEF ChildPosition, Position
<1> QED BY <1>1, <1>3, <1>4, <1>6, <1>7 DEF f

LEMMA CallKeeps ==
  ASSUME IInv, Call
  PROVE  IInv'
<1>1. TypeOK /\ InCode /\ Running /\ At.tail = "call" /\ Fixed
  BY DEF IInv, Call
<1> DEFINE Holder(a)         == IF At.value THEN ChildPosition ELSE Current.pos
           Entered(a, amount) == Entry("call", amount, Holder(a))
           Caller(a, amount)  == [Moved(Current, Entered(a, amount), Current.pc + 1)
                                    EXCEPT !.calls = @ + 1]
<1>2. PICK a \in At.to, amount \in At.pays :
        /\ Enter(Entered(a, amount))
        /\ frames' = SetCurrent(Caller(a, amount))
                     \o (IF a \in DOMAIN code THEN <<Frame(a, ChildPosition)>> ELSE << >>)
        /\ Hooked(<<a, 1>>)
        /\ exact' = (exact /\ ~At.single /\ a \in DOMAIN code)
  BY DEF Call
<1> DEFINE block == Entered(a, amount)
           c     == Caller(a, amount)
<1>3. ChildPosition \in Position /\ Current.pc + 1 \in DOMAIN code[Current.code]
  BY <1>1, BlockHere DEF ChildPosition, Position
<1>4. Holder(a) \in Position /\ amount \in Int
  BY <1>1, <1>3, BlockHere
<1>5. block \in PathEntry /\ block.code = Current.code /\ block.pc = Current.pc
  <2> HIDE DEF Holder
  <2> QED BY <1>1, <1>4, EntryType DEF Tails
<1> HIDE DEF Entered
<1>6. FrameOK(c) /\ FramesOK(SetCurrent(c)) /\ c.open = Opened(block)
  BY <1>1, <1>3, <1>5, CallerType
<1> HIDE DEF Caller
<1>7. CASE a \in DOMAIN code
  <2> DEFINE g == Frame(a, ChildPosition)
  <2>1. FrameOK(g) /\ Key(g) = <<a, 1>> /\ g.open = << >>
    BY <1>1, <1>3, <1>7, FrameType
  <2> HIDE DEF g
  <2>2. frames' = SetCurrent(c) \o <<g>>
    BY <1>2, <1>7 DEF g
  <2>3. frames' = Append(SetCurrent(c), g) /\ FramesOK(frames') /\ Last(frames') = g
    BY <1>6, <2>1, <2>2, StackGrows
  <2>4. ASSUME exact'
        PROVE  Faithful' /\ Tracks'
    <3>1. exact /\ ~At.single /\ At.tail # "fall"
      BY <1>1, <1>2, <2>4
    <3>2. c.open = << >>
      BY <3>1, <1>6 DEF Opened
    <3>3. \A d \in DOMAIN SetCurrent(c) : SetCurrent(c)[d].open = << >>
      BY <3>1, <3>2, <1>1, <1>6, AllClosed DEF SetCurrent
    <3>4. \A d \in DOMAIN frames' : frames'[d].open = << >>
      <4>1. SetCurrent(c) \in Seq(CallFrame)
        BY <1>6 DEF FramesOK
      <4>2. \A d \in DOMAIN frames' :
              frames'[d] = g \/ (d \in DOMAIN SetCurrent(c) /\ frames'[d] = SetCurrent(c)[d])
        BY <2>3, <4>1
      <4> QED BY <2>1, <3>3, <4>2
    <3> QED BY <2>1, <2>3, <3>1, <3>4, <1>1, <1>2, <1>5, ExactKeeps
  <2> QED BY <1>1, <1>2, <1>5, <2>3, <2>4, EnterType, HookedType, StepKeeps, BlockHere
          DEF Call, TypeOK
<1>8. CASE a \notin DOMAIN code
  <2>1. SetCurrent(c) \in Seq(CallFrame)
    BY <1>6 DEF FramesOK
  <2>2. frames' = SetCurrent(c)
    BY <1>2, <1>8, <2>1
  <2>3. exact' = FALSE
    BY <1>2, <1>8
  <2> QED BY <1>1, <1>2, <1>5, <1>6, <2>2, <2>3, EnterType, HookedType, StepKeeps
          DEF Call, TypeOK
<1> QED BY <1>7, <1>8

LEMMA RefusedCallKeeps ==
  ASSUME IInv, RefusedCall
  PROVE  IInv'
<1>1. TypeOK /\ InCode /\ Running /\ At.tail = "call" /\ Fixed
  BY DEF IInv, RefusedCall
<1> DEFINE block == Entry("call", 0, Current.pos)
<1>2. PICK a \in At.to :
        /\ Enter(block) /\ Hooked(<<a, 1>>)
        /\ frames' = SetCurrent(Moved(Current, block, Current.pc + 1))
  BY DEF RefusedCall
<1>3. block \in PathEntry /\ Current.pc + 1 \in DOMAIN code[Current.code]
  BY <1>1, EntryType, BlockHere DEF Tails
<1>4. FramesOK(frames') /\ path' \in Seq(PathEntry) /\ executed' \in Seq(Step)
  BY <1>1, <1>2, <1>3, MovedType, EnterType
<1>5. AnalyzerOK(analyzer', free.path) /\ (phase # "attack" => analyzer' = analyzer)
  BY <1>1, <1>2, HookedType
<1>6. /\ exact' = FALSE /\ outOfGas' \in BOOLEAN
      /\ failed' \subseteq Position /\ failed \subseteq failed'
  BY <1>1 DEF RefusedCall, TypeOK
<1> QED BY <1>1, <1>4, <1>5, <1>6, StepKeeps

\* The caller goes on, with nothing left open.
LEMMA ReturnKeeps ==
  ASSUME IInv, Return
  PROVE  IInv'
<1>1. TypeOK /\ InCode /\ Running /\ At.tail \in {"return", "revert"} /\ Fixed
  BY DEF IInv, Return
<1>2. PICK amount \in At.pays : Enter(Entry(At.tail, amount, Current.pos))
  BY DEF Return
<1> DEFINE block == Entry(At.tail, amount, Current.pos)
<1>3. block \in PathEntry /\ block.code = Current.code /\ block.pc = Current.pc
  BY <1>1, EntryType, BlockHere
<1>4. frames' = Front(frames) /\ FramesOK(frames')
  BY <1>1, StackParts, BlockHere DEF Return, Running
<1>5. path' \in Seq(PathEntry) /\ executed' \in Seq(Step)
  BY <1>1, <1>2, <1>3, EnterType
<1>6. AnalyzerOK(analyzer', free.path) /\ (phase # "attack" => analyzer' = analyzer)
  BY <1>1, HookedType DEF Return
<1>7. /\ exact' \in BOOLEAN /\ outOfGas' \in BOOLEAN
      /\ failed' \subseteq Position /\ failed \subseteq failed'
  BY <1>1, BlockHere DEF Return, TypeOK
<1>8. ASSUME exact'
      PROVE  Faithful' /\ Tracks'
  <2>1. exact /\ ~At.single /\ At.tail # "fall"
    BY <1>1, <1>8 DEF Return
  <2>2. \A d \in DOMAIN frames' : frames'[d].open = << >>
    <3>1. \A d \in DOMAIN frames : frames[d].open = << >>
      BY <2>1, <1>1 DEF IInv, Faithful, Running
    <3>2. /\ Len(frames) \in Nat \ {0} /\ Len(frames') = Len(frames) - 1
          /\ \A d \in 1 .. Len(frames) - 1 : frames'[d] = frames[d]
          /\ frames \in Seq(CallFrame) /\ frames' \in Seq(CallFrame)
      BY <1>1, <1>4, StackParts, BlockHere DEF Running, FramesOK
    <3> QED BY <3>1, <3>2
  <2>3. ASSUME frames' # << >>
        PROVE  Hooked(Key(Last(frames')))
    <3>1. /\ Len(frames) \in Nat \ {0} /\ Len(frames') = Len(frames) - 1
          /\ \A d \in 1 .. Len(frames) - 1 : frames'[d] = frames[d]
          /\ frames' \in Seq(CallFrame)
      BY <1>1, <1>4, StackParts, BlockHere DEF Running, FramesOK
    <3>2. Len(frames') # 0
      BY <2>3, <3>1
    <3>3. Last(frames') = frames[Len(frames) - 1]
      BY <3>1, <3>2 DEF Last
    <3>4. Resumed = Key(Last(frames'))
      BY <3>1, <3>2, <3>3 DEF Resumed
    <3> QED BY <3>4 DEF Return
  <2> QED BY <2>1, <2>2, <2>3, <1>1, <1>2, <1>3, ExactKeeps
<1> QED BY <1>1, <1>4, <1>5, <1>6, <1>7, <1>8, StepKeeps

\* A call that fails loses its frame, and exactness.
LEMMA FailsKeeps ==
  ASSUME IInv, Running, Fails, outOfGas' \in BOOLEAN,
         path' \in Seq(PathEntry), executed' \in Seq(Step),
         AnalyzerOK(analyzer', free.path), phase # "attack" => analyzer' = analyzer
  PROVE  IInv'
<1>1. TypeOK /\ InCode
  BY DEF IInv
<1>2. frames' = Front(frames) /\ FramesOK(frames')
  BY <1>1, StackParts, BlockHere DEF Fails, Running
<1>3. Fixed /\ exact' = FALSE
  BY DEF Fails
<1>4. failed' \subseteq Position /\ failed \subseteq failed'
  BY <1>1, BlockHere DEF Fails, TypeOK
<1> QED BY <1>2, <1>3, <1>4, StepKeeps

LEMMA FaultAtTailKeeps ==
  ASSUME IInv, FaultAtTail
  PROVE  IInv'
<1> DEFINE nexts == IF At.tail # "jump" THEN NextBlocks
                    ELSE {NoBlock} \cup {<<Current.code, pc>> : pc \in DOMAIN code[Current.code]}
<1>1. TypeOK /\ InCode /\ Running /\ Fails /\ outOfGas' = outOfGas
      /\ Enter(Entry(At.tail, 0, Current.pos)) /\ \E next \in nexts : Hooked(next)
  BY DEF IInv, FaultAtTail
<1> HIDE DEF nexts
<1>2. PICK next \in nexts : Hooked(next)
  BY <1>1
<1>3. Entry(At.tail, 0, Current.pos) \in PathEntry
  <2>1. At.tail \in Tails \cup {"other"} /\ Current.pos \in Position /\ 0 \in Int
    BY <1>1, BlockHere
  <2> QED BY <2>1, <1>1, EntryType
<1>4. path' \in Seq(PathEntry) /\ executed' \in Seq(Step)
  BY <1>1, <1>3, EnterType
<1>5. AnalyzerOK(analyzer', free.path) /\ (phase # "attack" => analyzer' = analyzer)
  BY <1>1, <1>2, HookedType
<1> QED BY <1>1, <1>4, <1>5, FailsKeeps DEF TypeOK

LEMMA StillAnalyzer ==
  ASSUME IInv, analyzer' = analyzer
  PROVE  AnalyzerOK(analyzer', free.path)
BY DEF IInv, TypeOK

LEMMA ListOf ==
  ASSUME NEW n \in Nat, NEW r \in [1 .. n -> PathEntry]
  PROVE  r \in Seq(PathEntry) /\ Len(r) = n
OBVIOUS

\* The block in which an operation fails is lost, and its call with it.
LEMMA FaultInsideKeeps ==
  ASSUME IInv, FaultInside
  PROVE  IInv'
<1> DEFINE entered == [code |-> Current.code, pc |-> Current.pc, pos |-> Current.pos]
<1>1. TypeOK /\ InCode /\ Running /\ frames' = Front(frames) /\ path' = path \o Current.open
      /\ executed' = Append(executed, entered)
  BY DEF IInv, FaultInside
<1>2. /\ code' = code /\ phase' = phase /\ free' = free /\ analyzer' = analyzer
      /\ outOfGas' = outOfGas /\ exact' = FALSE
      /\ failed' = failed \cup {Current.pos} /\ faulted' = faulted \cup {Current.pos}
  BY DEF FaultInside
<1>3. entered \in Step /\ Current.open \in Seq(PathEntry) /\ Current.pos \in Position
  BY <1>1, BlockHere DEF Step
<1> HIDE DEF entered
<1>4. path' \in Seq(PathEntry) /\ executed' \in Seq(Step)
  BY <1>1, <1>3 DEF TypeOK, Step
<1>5. FramesOK(frames')
  BY <1>1, StackParts, BlockHere DEF Running
<1>6. /\ failed' \subseteq Position /\ faulted' \subseteq failed'
      /\ exact' \in BOOLEAN /\ outOfGas' \in BOOLEAN
  BY <1>1, <1>2, <1>3 DEF TypeOK
<1>7. AnalyzerOK(analyzer', free.path)
  BY <1>2, StillAnalyzer
<1>8. TypeOK' /\ InCode'
  BY <1>1, <1>2, <1>4, <1>5, <1>6, <1>7, TypedStep
<1>9. Faithful' /\ Tracks'
  BY <1>2, Inexact
<1> QED BY <1>2, <1>8, <1>9, IdleAnalyzer DEF IInv

LEMMA ClosedType ==
  ASSUME NEW e \in PathEntry, NEW tail \in Tails \cup {"other"}
  PROVE  [e EXCEPT !.tail = tail] \in PathEntry
BY DEF PathEntry

LEMMA OutOfGasAtHeadKeeps ==
  ASSUME IInv, OutOfGasAtHead
  PROVE  IInv'
<1>1. TypeOK /\ InCode /\ Running /\ Fails /\ outOfGas' = TRUE /\ executed' = executed
      /\ path' = path \o ClosedByError
  BY DEF IInv, OutOfGasAtHead
<1>2. ClosedByError \in Seq(PathEntry)
  <2> DEFINE open == Current.open
             tail == IF At.single /\ At.tail # "fall" THEN At.tail ELSE "other"
  <2>1. open \in Seq(PathEntry)
    BY <1>1, BlockHere
  <2>0. tail \in Tails \cup {"other"}
    BY <1>1, BlockHere
  <2> HIDE DEF open, tail
  <2>2. \A b \in DOMAIN open : [open[b] EXCEPT !.tail = tail] \in PathEntry
    <3>1. \A e \in PathEntry : [e EXCEPT !.tail = tail] \in PathEntry
      BY <2>0, ClosedType
    <3>2. \A b \in DOMAIN open : open[b] \in PathEntry
      BY <2>1
    <3> QED BY <3>1, <3>2, Zenon
  <2> DEFINE n == Len(open)
             r == [b \in 1 .. n |-> [open[b] EXCEPT !.tail = tail]]
  <2>3. n \in Nat /\ DOMAIN open = 1 .. n
    BY <2>1
  <2>4. r \in [1 .. n -> PathEntry]
    BY <2>2, <2>3
  <2> HIDE DEF n
  <2>5. r \in Seq(PathEntry)
    BY <2>3, <2>4, ListOf, Zenon
  <2>6. [b \in DOMAIN open |-> [open[b] EXCEPT !.tail = tail]] \in Seq(PathEntry)
    BY <2>3, <2>5
  <2> QED BY <2>6 DEF open, tail, ClosedByError
<1>3. path' \in Seq(PathEntry) /\ executed' \in Seq(Step)
  BY <1>1, <1>2 DEF TypeOK, Step
<1>4. AnalyzerOK(analyzer', free.path) /\ (phase # "attack" => analyzer' = analyzer)
  <2>1. CASE At.single /\ At.tail # "fall"
    <3>1. PICK next \in NextBlocks : Hooked(next)
      BY <2>1 DEF OutOfGasAtHead
    <3> QED BY <1>1, <3>1, HookedType
  <2>2. CASE ~(At.single /\ At.tail # "fall")
    BY <2>2, StillAnalyzer DEF OutOfGasAtHead
  <2> QED BY <2>1, <2>2
<1> QED BY <1>1, <1>3, <1>4, FailsKeeps

LEMMA OutOfGasInsideKeeps ==
  ASSUME IInv, OutOfGasInside
  PROVE  IInv'
<1> DEFINE block == Entry("other", 0, Current.pos)
           entered == [code |-> Current.code, pc |-> Current.pc, pos |-> Current.pos]
<1>1. TypeOK /\ InCode /\ Running /\ Fails /\ outOfGas' = TRUE /\ analyzer' = analyzer
      /\ path' = path \o Current.open \o <<block>> /\ executed' = Append(executed, entered)
  BY DEF IInv, OutOfGasInside
<1>2. block \in PathEntry
  <2>1. Current.pos \in Position /\ 0 \in Int
    BY <1>1, BlockHere
  <2> QED BY <2>1, <1>1, EntryType
<1>3. entered \in Step /\ Current.open \in Seq(PathEntry)
  BY <1>1, BlockHere DEF Step
<1> HIDE DEF block, entered
<1>4. path' \in Seq(PathEntry) /\ executed' \in Seq(Step)
  BY <1>1, <1>2, <1>3 DEF TypeOK, Step
<1> QED BY <1>1, <1>4, StillAnalyzer, FailsKeeps

LEMMA OutOfGasAtTailKeeps ==
  ASSUME IInv, OutOfGasAtTail
  PROVE  IInv'
<1>1. TypeOK /\ InCode /\ Running /\ Fails /\ outOfGas' = TRUE
      /\ Enter(Entry(At.tail, 0, Current.pos))
  BY DEF IInv, OutOfGasAtTail
<1>2. PICK next \in NextBlocks : Hooked(next)
  BY DEF OutOfGasAtTail
<1>3. Entry(At.tail, 0, Current.pos) \in PathEntry
  <2>1. At.tail \in Tails \cup {"other"} /\ Current.pos \in Position /\ 0 \in Int
    BY <1>1, BlockHere
  <2> QED BY <2>1, <1>1, EntryType
<1>4. path' \in Seq(PathEntry) /\ executed' \in Seq(Step)
  BY <1>1, <1>3, EnterType
<1>5. AnalyzerOK(analyzer', free.path) /\ (phase # "attack" => analyzer' = analyzer)
  BY <1>1, <1>2, HookedType
<1> QED BY <1>1, <1>4, <1>5, FailsKeeps

---------------------------------------------------------------------------
\* Before, between and after the executions.

LEMMA NewAnalyzer ==
  ASSUME NEW ref \in Seq(PathEntry)
  PROVE  AnalyzerOK(NoAnalyzer, ref)
<1>1. Len(ref) \in Nat
  OBVIOUS
<1> QED BY <1>1 DEF AnalyzerOK, NoAnalyzer

LEMMA FirstFrame ==
  ASSUME code \in Programs
  PROVE  LET fs == <<Frame(Root, << >>)>>
         IN  /\ fs \in Seq(CallFrame)
             /\ \A d \in DOMAIN fs : Len(fs[d].open) <= 1 /\ fs[d].open = << >>
             /\ \A d \in DOMAIN fs : fs[d].code \in DOMAIN code /\ fs[d].pc \in DOMAIN code[fs[d].code]
<1> DEFINE f == Frame(Root, << >>)
<1>1. Root \in DOMAIN code /\ Root \in Accounts /\ 1 \in DOMAIN code[Root]
  BY ProgramsAssumption, RootAssumption DEF IsProgram
<1>2. << >> \in Position /\ << >> \in Seq(PathEntry) /\ Len(<< >>) = 0
  BY DEF Position
<1>3. f \in CallFrame /\ f.open = << >> /\ Len(f.open) <= 1
      /\ f.code \in DOMAIN code /\ f.pc \in DOMAIN code[f.code]
  BY <1>1, <1>2 DEF Frame, CallFrame
<1> HIDE DEF f
<1>4. <<f>> \in Seq(CallFrame) /\ DOMAIN <<f>> = {1} /\ <<f>>[1] = f
  BY <1>3
<1>5. /\ \A d \in DOMAIN <<f>> : Len(<<f>>[d].open) <= 1 /\ <<f>>[d].open = << >>
      /\ \A d \in DOMAIN <<f>> : <<f>>[d].code \in DOMAIN code /\ <<f>>[d].pc \in DOMAIN code[<<f>>[d].code]
  BY <1>3, <1>4
<1> QED BY <1>4, <1>5 DEF f

LEMMA InitKeeps ==
  ASSUME Init
  PROVE  IInv
<1>1. /\ code \in Programs /\ phase = "attack-free" /\ frames = <<Frame(Root, << >>)>>
      /\ path = << >> /\ executed = << >> /\ failed = {} /\ outOfGas = FALSE
      /\ faulted = {} /\ free.path = << >> /\ analyzer = NoAnalyzer /\ exact = TRUE
  BY DEF Init
<1>2. TypeOK
  <2>1. << >> \in Seq(PathEntry) /\ << >> \in Seq([code : Accounts, pc : Nat \ {0}, pos : Position])
    OBVIOUS
  <2> QED BY <1>1, <2>1, FirstFrame, NewAnalyzer DEF TypeOK
<1>3. InCode
  BY <1>1, FirstFrame DEF InCode
<1>4. Faithful
  BY <1>1, FirstFrame DEF Faithful
<1>5. Tracks
  BY <1>1 DEF Tracks
<1> QED BY <1>1, <1>2, <1>3, <1>4, <1>5 DEF IInv

\* The root comes first in the path of the first execution, where the analyzer starts.
LEMMA StartAttackKeeps ==
  ASSUME IInv, StartAttack
  PROVE  IInv'
<1>1. /\ TypeOK /\ Faithful /\ phase = "attack-free" /\ frames = << >> /\ analyzer = NoAnalyzer
      /\ code' = code /\ phase' = "attack" /\ frames' = <<Frame(Root, << >>)>>
      /\ path' = << >> /\ executed' = << >> /\ failed' = {} /\ outOfGas' = FALSE
      /\ faulted' = {} /\ free'.path = path /\ analyzer' = analyzer /\ exact' = exact
  BY DEF IInv, StartAttack
<1>2. TypeOK'
  <2>1. << >> \in Seq(PathEntry) /\ << >> \in Seq([code : Accounts, pc : Nat \ {0}, pos : Position])
    OBVIOUS
  <2> QED BY <1>1, <2>1, FirstFrame, NewAnalyzer DEF TypeOK
<1>3. InCode'
  BY <1>1, FirstFrame DEF InCode, TypeOK
<1>4. ASSUME exact
      PROVE  path # << >> /\ Key(path[1]) = <<Root, 1>> /\ Len(path) >= 1
  <2>1. executed # << >>
    BY <1>1, <1>4 DEF Faithful
  <2>2. Len(executed) \in Nat \ {0} /\ Len(path) = Len(executed)
    BY <1>1, <1>4, <2>1 DEF Faithful, TypeOK
  <2>3. 1 \in DOMAIN path /\ path # << >>
    BY <1>1, <2>2 DEF TypeOK
  <2> QED BY <1>1, <1>4, <2>1, <2>2, <2>3 DEF Faithful
<1>5. Faithful'
  BY <1>1, <1>4, FirstFrame DEF Faithful, TypeOK
<1>6. Tracks'
  <2> SUFFICES ASSUME exact
               PROVE  Tracks'
    BY <1>1 DEF Tracks
  <2>1. Current' = Frame(Root, << >>)
    BY <1>1, LastOfOne DEF Current
  <2>2. Key(Current') = <<Root, 1>>
    BY <2>1 DEF Frame, Key
  <2> DEFINE blocks == Append([i \in DOMAIN executed' |-> Key(executed'[i])], Key(Current'))
  <2>3. Len(blocks) = 1
    BY <1>1
  <2>4. ~analyzer'.diverging /\ analyzer'.index = 1
    BY <1>1 DEF NoAnalyzer
  <2> HIDE DEF blocks
  <2> QED BY <1>1, <1>4, <2>2, <2>3, <2>4 DEF Tracks, blocks
<1> QED BY <1>1, <1>2, <1>3, <1>5, <1>6 DEF IInv

LEMMA RestKeeps ==
  ASSUME IInv, EndAttack \/ Analyze \/ UNCHANGED vars
  PROVE  IInv'
<1>1. CASE EndAttack \/ Analyze
  <2>1. /\ phase' \in {"compare", "done"}
        /\ UNCHANGED <<code, frames, path, failed, outOfGas, free, analyzer, executed, faulted,
                       exact>>
    BY <1>1 DEF EndAttack, Analyze
  <2>2. TypeOK' /\ InCode'
    BY <2>1 DEF IInv, TypeOK, InCode
  <2>3. Faithful' /\ Tracks'
    BY <2>1 DEF Faithful, Tracks
  <2> QED BY <2>1, <2>2, <2>3 DEF IInv
<1>2. CASE UNCHANGED vars
  BY <1>2 DEF vars, IInv, TypeOK, InCode, Faithful, Tracks, Current
<1> QED BY <1>1, <1>2

LEMMA NextKeeps ==
  ASSUME IInv, [Next]_vars
  PROVE  IInv'
BY JumpKeeps, FallKeeps, CallKeeps, RefusedCallKeeps, ReturnKeeps, FaultAtTailKeeps,
   FaultInsideKeeps, OutOfGasAtHeadKeeps, OutOfGasInsideKeeps, OutOfGasAtTailKeeps, StartAttackKeeps, RestKeeps
   DEF Next

LEMMA Inductive == Spec => []IInv
BY InitKeeps, NextKeeps, PTL DEF Spec

---------------------------------------------------------------------------
\* The path is complete.

LEMMA IndexType ==
  ASSUME NEW b \in PathEntry
  PROVE  b.index \in Nat \ {0} /\ b.single \in BOOLEAN
BY DEF PathEntry

\* Recording a block keeps the path in order when it is single or comes after all
\* the others.
LEMMA RecordOne ==
  ASSUME NEW p \in Seq(PathEntry), InOrder(p), NEW b \in PathEntry, b.index \notin Indexes(p),
         b.single \/ \A k \in Indexes(p) : k < b.index
  PROVE  LET q == p \o <<b>>
         IN  /\ q \in Seq(PathEntry) /\ InOrder(q)
             /\ Indexes(q) = Indexes(p) \cup {b.index}
<1> DEFINE q == p \o <<b>>
<1>1. /\ q \in Seq(PathEntry) /\ Len(p) \in Nat /\ Len(q) = Len(p) + 1
      /\ q[Len(q)] = b /\ \A i \in 1 .. Len(p) : q[i] = p[i]
  OBVIOUS
<1>2. \A i \in DOMAIN p : p[i] \in PathEntry /\ p[i].index \in Nat
  <2>1. \A i \in DOMAIN p : p[i] \in PathEntry
    OBVIOUS
  <2> QED BY <2>1, IndexType
<1>3. b.index \in Nat
  BY IndexType
<1> HIDE DEF q
<1>4. Indexes(q) = Indexes(p) \cup {b.index}
  <2>1. DOMAIN q = 1 .. Len(p) \cup {Len(q)} /\ 1 .. Len(p) = DOMAIN p
    BY <1>1
  <2> QED BY <1>1, <2>1 DEF Indexes
<1>5. ASSUME NEW i \in DOMAIN q, NEW j \in DOMAIN q
      PROVE  /\ q[i].index = q[j].index => i = j
             /\ i < j /\ q[i].index > q[j].index => q[j].single
  <2>1. (i \in 1 .. Len(p) \/ i = Len(q)) /\ (j \in 1 .. Len(p) \/ j = Len(q))
    BY <1>1
  <2>2. CASE i \in 1 .. Len(p) /\ j \in 1 .. Len(p)
    BY <2>2, <1>1 DEF InOrder
  <2>3. CASE i = Len(q) /\ j \in 1 .. Len(p)
    <3>1. q[j].index \in Indexes(p) /\ q[i] = b /\ ~(i < j)
      BY <2>3, <1>1 DEF Indexes
    <3> QED BY <3>1
  <2>4. CASE i \in 1 .. Len(p) /\ j = Len(q)
    <3>1. q[i].index \in Indexes(p) /\ q[j] = b
      BY <2>4, <1>1 DEF Indexes
    <3>2. q[i].index \in Nat
      BY <2>4, <1>1, <1>2
    <3> QED BY <3>1, <3>2, <1>3
  <2> QED BY <2>1, <2>2, <2>3, <2>4
<1> QED BY <1>1, <1>4, <1>5 DEF InOrder, q

\* The calls under way, and the ones below the current one.
LEMMA StackFacts ==
  ASSUME IInv, Running
  PROVE  LET n == Len(frames)
         IN  /\ frames \in Seq(CallFrame) /\ n \in Nat \ {0} /\ Current = frames[n]
             /\ \A d \in 1 .. n : /\ frames[d] \in CallFrame /\ frames[d].pos \in Seq(Nat)
                                  /\ frames[d].calls \in Nat
                                  /\ frames[d].open \in Seq(PathEntry)
                                  /\ Len(frames[d].open) <= 1
             /\ Front(frames) \in Seq(CallFrame) /\ Len(Front(frames)) = n - 1
             /\ \A d \in 1 .. n - 1 : Front(frames)[d] = frames[d]
<1>1. FramesOK(frames) /\ frames # << >>
  BY BlockHere DEF IInv, Running
<1>2. frames \in Seq(CallFrame) /\ Len(frames) \in Nat \ {0} /\ Current = frames[Len(frames)]
  BY <1>1, StackParts DEF FramesOK, Current, Last
<1>3. /\ Front(frames) \in Seq(CallFrame) /\ Len(Front(frames)) = Len(frames) - 1
      /\ \A d \in 1 .. Len(frames) - 1 : Front(frames)[d] = frames[d]
  BY <1>1, StackParts DEF FramesOK
<1>4. \A d \in 1 .. Len(frames) : FrameOK(frames[d]) /\ frames[d] \in CallFrame
  BY <1>1, <1>2 DEF FramesOK
<1>5. \A f \in CallFrame : f.pos \in Seq(Nat) /\ f.calls \in Nat /\ f.open \in Seq(PathEntry)
  BY DEF CallFrame, Position
<1> QED BY <1>2, <1>3, <1>4, <1>5 DEF FrameOK

\* The block that the current call has left open.
Own == IF Current.open = << >> THEN {} ELSE {Current.open[1].index}

LEMMA OneOnly ==
  ASSUME NEW S, NEW s \in Seq(S), s # << >>, Len(s) <= 1
  PROVE  Len(s) = 1 /\ s = <<s[1]>> /\ s[1] \in S
<1>1. Len(s) \in Nat /\ Len(s) # 0
  OBVIOUS
<1>2. Len(s) = 1
  BY <1>1
<1>3. s[1] \in S
  BY <1>2
<1>4. s = <<s[1]>>
  BY <1>2
<1> QED BY <1>2, <1>3, <1>4

\* The path once that block is recorded, as it is or with another tail.
LEMMA Settled ==
  ASSUME IInv, PathInv, Running, NEW r \in Seq(PathEntry), Len(r) = Len(Current.open),
         r # << >> => /\ r[1].index = Current.open[1].index
                      /\ r[1].single = Current.open[1].single
  PROVE  LET q == path \o r
         IN  /\ q \in Seq(PathEntry) /\ InOrder(q)
             /\ Indexes(q) = Indexes(path) \cup Own
             /\ Indexes(q) \subseteq 1 .. Len(executed)
<1>1. /\ path \in Seq(PathEntry) /\ InOrder(path) /\ Indexes(path) \subseteq 1 .. Len(executed)
      /\ Len(executed) \in Nat
  BY DEF IInv, TypeOK, PathInv
<1>2. Current.open \in Seq(PathEntry) /\ Len(Current.open) <= 1 /\ Len(Current.open) \in Nat
  BY StackFacts
<1>3. CASE Current.open = << >>
  <2>1. r = << >>
    BY <1>2, <1>3
  <2>2. path \o r = path
    BY <1>1, <2>1
  <2> QED BY <1>1, <1>3, <2>2 DEF Own
<1>4. CASE Current.open # << >>
  <2>1. Len(r) = 1 /\ r # << >> /\ r = <<r[1]>> /\ r[1] \in PathEntry
    <3>1. Len(Current.open) = 1
      BY <1>2, <1>4, OneOnly, Zenon
    <3>2. Len(r) <= 1 /\ r # << >>
      BY <3>1
    <3> QED BY <3>2, OneOnly
  <2>2. Pending(Len(frames)) /\ frames[Len(frames)] = Current /\ Len(frames) \in DOMAIN frames
    BY <1>4, StackFacts DEF Pending
  <2> DEFINE b == r[1]
  <2>3. /\ b.index \in 1 .. Len(executed) /\ b.index \notin Indexes(path)
        /\ b.single \/ b.index = Len(executed)
    BY <2>1, <2>2 DEF PathInv, PendingOK
  <2>4. b.single \/ \A k \in Indexes(path) : k < b.index
    BY <1>1, <2>3
  <2> HIDE DEF b
  <2>5. b \in PathEntry /\ r = <<b>> /\ b.index = Current.open[1].index
    BY <2>1 DEF b
  <2>6. LET q == path \o <<b>>
        IN q \in Seq(PathEntry) /\ InOrder(q) /\ Indexes(q) = Indexes(path) \cup {b.index}
    BY <1>1, <2>3, <2>4, <2>5, RecordOne
  <2> QED BY <1>1, <1>4, <2>3, <2>5, <2>6 DEF Own
<1> QED BY <1>3, <1>4

\* Then the block that is executed now may be recorded too.
LEMMA SettledThen ==
  ASSUME IInv, NEW q \in Seq(PathEntry), InOrder(q), Indexes(q) \subseteq 1 .. Len(executed),
         NEW b \in PathEntry, b.index = Len(executed) + 1
  PROVE  LET p == q \o <<b>>
         IN  /\ p \in Seq(PathEntry) /\ InOrder(p)
             /\ Indexes(p) = Indexes(q) \cup {Len(executed) + 1}
<1>1. Len(executed) \in Nat
  BY DEF IInv, TypeOK
<1>2. b.index \notin Indexes(q) /\ \A k \in Indexes(q) : k < b.index
  BY <1>1
<1> QED BY <1>2, RecordOne

\* Nothing or one block of the current call is executed.
ExecutedHere ==
  LET N == Len(executed)
  IN  /\ executed' \in Seq(Step) /\ Len(executed') \in {N, N + 1}
      /\ \A i \in 1 .. N : executed'[i] = executed[i]
      /\ Len(executed') = N + 1 => executed'[N + 1].pos = Current.pos

\* The place of the current call in the nesting.
LEMMA PositionFacts ==
  ASSUME IInv, PathInv, Running
  PROVE  LET n == Len(frames)
         IN  /\ Len(Current.pos) = n - 1
             /\ \A d \in 1 .. n : Len(frames[d].pos) = d - 1
             /\ \A d \in 1 .. n - 1 : Below(Current.pos, frames[d]) /\ Current.pos[d] < frames[d].calls
             /\ \A d \in 1 .. n : EarlierChild(Current.pos, frames[d])
<1> DEFINE n == Len(frames)
<1>1. n \in Nat \ {0} /\ Current = frames[n] /\ 1 .. n = DOMAIN frames
  BY StackFacts
<1>0. Nested
  BY DEF PathInv
<1>2. \A d \in 1 .. n : Len(frames[d].pos) = d - 1
  BY <1>0, <1>1 DEF Nested
<1>3. \A d \in 1 .. n - 1 : Below(Current.pos, frames[d]) /\ EarlierChild(Current.pos, frames[d])
  <2> TAKE d \in 1 .. n - 1
  <2>1. d \in DOMAIN frames /\ n \in d + 1 .. n
    BY <1>1
  <2> QED BY <1>0, <1>1, <2>1 DEF Nested
<1>4. \A d \in 1 .. n - 1 : Current.pos[d] < frames[d].calls
  <2> TAKE d \in 1 .. n - 1
  <2>1. Len(frames[d].pos) + 1 = d
    BY <1>1, <1>2
  <2> QED BY <2>1, <1>3 DEF EarlierChild
<1>5. EarlierChild(Current.pos, Current)
  BY <1>1, <1>2 DEF EarlierChild, Below
<1>6. \A d \in 1 .. n : EarlierChild(Current.pos, frames[d])
  BY <1>1, <1>3, <1>5
<1>7. Len(Current.pos) = n - 1
  BY <1>1, <1>2
<1> HIDE DEF n
<1>8. /\ \A d \in 1 .. n - 1 : Below(Current.pos, frames[d]) /\ Current.pos[d] < frames[d].calls
      /\ n = Len(frames)
  BY <1>3, <1>4 DEF n
<1> QED BY <1>2, <1>6, <1>7, <1>8

\* What is executed in the current call is numbered before the calls still to come.
LEMMA ExecutedNumbered ==
  ASSUME IInv, PathInv, Running, ExecutedHere, NEW i \in DOMAIN executed', NEW d \in 1 .. Len(frames)
  PROVE  /\ EarlierChild(executed'[i].pos, frames[d])
         /\ (i \in DOMAIN executed /\ executed'[i] = executed[i]) \/ i = Len(executed) + 1
<1>1. /\ Len(executed) \in Nat /\ 1 .. Len(executed) = DOMAIN executed /\ 1 .. Len(executed') = DOMAIN executed'
      /\ d \in DOMAIN frames
  BY StackFacts DEF IInv, TypeOK, ExecutedHere
<1>2. CASE i \in 1 .. Len(executed)
  BY <1>1, <1>2 DEF PathInv, Numbered, ExecutedHere
<1>3. CASE i = Len(executed) + 1
  <2>1. Len(executed') = Len(executed) + 1
    BY <1>1, <1>3 DEF ExecutedHere
  <2>2. executed'[i].pos = Current.pos
    BY <1>3, <2>1 DEF ExecutedHere
  <2> QED BY <1>3, <2>2, PositionFacts
<1>4. i \in 1 .. Len(executed) \/ i = Len(executed) + 1
  BY <1>1 DEF ExecutedHere
<1> QED BY <1>2, <1>3, <1>4

\* Only the current call's block waits under its index.
LEMMA OwnFacts ==
  ASSUME IInv, PathInv, Running, NEW d \in 1 .. Len(frames) - 1, Pending(d)
  PROVE  LET b == frames[d].open[1]
         IN  /\ b.index \in 1 .. Len(executed) /\ b.index \notin Indexes(path) \cup Own
             /\ b.single
             /\ \A e \in 1 .. Len(frames) - 1 :
                  Pending(e) /\ frames[e].open[1].index = b.index => e = d
<1>1. /\ Len(frames) \in Nat \ {0} /\ Current = frames[Len(frames)]
      /\ d \in DOMAIN frames /\ Len(frames) \in DOMAIN frames /\ d # Len(frames)
      /\ \A e \in 1 .. Len(frames) - 1 : e \in DOMAIN frames
  BY StackFacts
<1>2. /\ frames[d].open[1].index \in 1 .. Len(executed) /\ frames[d].open[1].index \notin Indexes(path)
      /\ frames[d].open[1].single
      /\ \A e \in DOMAIN frames : Pending(e) /\ frames[e].open[1].index = frames[d].open[1].index => e = d
  BY <1>1 DEF PathInv, PendingOK
<1>3. Own # {} => Pending(Len(frames)) /\ Own = {frames[Len(frames)].open[1].index}
  BY <1>1 DEF Own, Pending
<1>4. frames[d].open[1].index \notin Own
  BY <1>1, <1>2, <1>3
<1> QED BY <1>1, <1>2, <1>4

\* A block that was recorded, waits below the current call or has ended its call
\* before is still accounted for.
LEMMA AccountedBefore ==
  ASSUME IInv, PathInv, Running, NEW i \in DOMAIN executed
  PROVE  \/ i \in Indexes(path) \cup Own \/ EndedCall(i)
         \/ \E d \in 1 .. Len(frames) - 1 : Pending(d) /\ frames[d].open[1].index = i
<1>1. /\ Len(frames) \in Nat \ {0} /\ Current = frames[Len(frames)] /\ 1 .. Len(frames) = DOMAIN frames
  BY StackFacts
<1>2. CASE \E d \in DOMAIN frames : Pending(d) /\ frames[d].open[1].index = i
  <2>1. PICK d \in DOMAIN frames : Pending(d) /\ frames[d].open[1].index = i
    BY <1>2
  <2>2. CASE d = Len(frames)
    BY <1>1, <2>1, <2>2 DEF Own, Pending
  <2> QED BY <1>1, <2>1, <2>2
<1> QED BY <1>2 DEF PathInv

\* A call that has ended is not the current one, and is not entered again.
LEMMA EndedKept ==
  ASSUME IInv, PathInv, Running, code' = code, faulted \subseteq faulted', ExecutedHere,
         NEW i \in DOMAIN executed, EndedCall(i),
         \A d \in DOMAIN frames' : frames'[d].pos # executed[i].pos
  PROVE  EndedCall(i)'
<1>1. /\ Len(frames) \in DOMAIN frames /\ Current = frames[Len(frames)]
      /\ Len(executed) \in Nat /\ i \in 1 .. Len(executed)
  BY StackFacts DEF IInv, TypeOK
<1>2. Current.pos # executed[i].pos
  BY <1>1 DEF EndedCall
<1>3. executed'[i] = executed[i]
  BY <1>1 DEF ExecutedHere
<1>4. \A j \in i + 1 .. Len(executed') : executed'[j].pos # executed[i].pos
  <2> TAKE j \in i + 1 .. Len(executed')
  <2>1. j \in 1 .. Len(executed) \/ (j = Len(executed) + 1 /\ Len(executed') = Len(executed) + 1)
    BY <1>1 DEF ExecutedHere
  <2>2. CASE j \in 1 .. Len(executed)
    BY <2>2, <1>1 DEF ExecutedHere, EndedCall
  <2> QED BY <2>1, <2>2, <1>2 DEF ExecutedHere
<1> QED BY <1>3, <1>4 DEF EndedCall

\* What a step of the current call records: what the path had, what the call had
\* left open, and perhaps the block executed now.
RecordedHere ==
  /\ path' \in Seq(PathEntry) /\ InOrder(path')
  /\ Indexes(path) \cup Own \subseteq Indexes(path')
  /\ Indexes(path') \subseteq Indexes(path) \cup Own \cup (Len(executed) + 1 .. Len(executed'))

\* A call that ends leaves the calls below it as they were.
LEMMA PopKeepsPath ==
  ASSUME IInv, PathInv, Running, code' = code, faulted \subseteq faulted', frames' = Front(frames),
         ExecutedHere, RecordedHere,
         Len(executed') = Len(executed) + 1 =>
           \/ Len(executed') \in Indexes(path')
           \/ code[executed'[Len(executed')].code][executed'[Len(executed')].pc].single
           \/ Current.pos \in faulted'
  PROVE  PathInv'
<1> DEFINE n == Len(frames)
           N == Len(executed)
<1>1. /\ n \in Nat \ {0} /\ 1 .. n = DOMAIN frames /\ 1 .. n - 1 = DOMAIN frames' /\ Len(frames') = n - 1
      /\ \A d \in 1 .. n - 1 : frames'[d] = frames[d]
  <2>1. /\ n \in Nat \ {0} /\ frames \in Seq(CallFrame) /\ frames' \in Seq(CallFrame)
        /\ Len(frames') = n - 1 /\ \A d \in 1 .. n - 1 : frames'[d] = frames[d]
    BY StackFacts, Zenon
  <2>2. 1 .. n = DOMAIN frames
    BY <2>1
  <2> HIDE DEF n
  <2>3. 1 .. n - 1 = DOMAIN frames'
    BY <2>1
  <2> QED BY <2>1, <2>2, <2>3
<1>2. /\ N \in Nat /\ Len(executed') \in Nat /\ N <= Len(executed')
      /\ 1 .. N = DOMAIN executed /\ 1 .. Len(executed') = DOMAIN executed'
  <2>1. executed \in Seq(Step)
    BY DEF IInv, TypeOK, Step
  <2>2. executed' \in Seq(Step) /\ Len(executed') \in {Len(executed), Len(executed) + 1}
    BY DEF ExecutedHere
  <2>3. N \in Nat /\ 1 .. N = DOMAIN executed
    BY <2>1
  <2>4. Len(executed') \in Nat /\ 1 .. Len(executed') = DOMAIN executed'
    BY <2>2
  <2> HIDE DEF N
  <2> QED BY <2>2, <2>3, <2>4 DEF N
<1>3. Indexes(path') \subseteq 1 .. Len(executed')
  <2>1. Indexes(path) \subseteq 1 .. N
    BY DEF PathInv
  <2>2. Own \subseteq 1 .. N
    <3>1. ASSUME Current.open # << >>
          PROVE  Current.open[1].index \in 1 .. N
      <4>1. Pending(n) /\ Current = frames[n] /\ n \in DOMAIN frames
        BY <3>1, <1>1, StackFacts DEF Pending
      <4> QED BY <4>1 DEF PathInv, PendingOK
    <3> QED BY <3>1 DEF Own
  <2>3. Indexes(path') \subseteq Indexes(path) \cup Own \cup (N + 1 .. Len(executed'))
    BY DEF RecordedHere
  <2>4. (1 .. N) \subseteq (1 .. Len(executed')) /\ (N + 1 .. Len(executed')) \subseteq (1 .. Len(executed'))
    BY <1>2
  <2> QED BY <2>1, <2>2, <2>3, <2>4, Zenon
<1>4. PendingOK'
  <2>1. \A d \in 1 .. n - 1 : Pending(d)' <=> Pending(d)
    BY <1>1 DEF Pending
  <2>2. ASSUME NEW d \in 1 .. n - 1, Pending(d)
        PROVE  LET b == frames[d].open[1]
               IN  /\ b.index \in 1 .. Len(executed') /\ b.index \notin Indexes(path')
                   /\ b.single
                   /\ \A e \in 1 .. n - 1 : Pending(e) /\ frames[e].open[1].index = b.index => e = d
    <3>1. frames[d].open[1].index \in 1 .. N /\ frames[d].open[1].index \notin Indexes(path) \cup Own
      BY <2>2, OwnFacts
    <3>2. frames[d].open[1].index \in 1 .. Len(executed') /\ frames[d].open[1].index \notin Indexes(path')
      BY <1>2, <3>1 DEF RecordedHere
    <3> QED BY <2>2, <3>2, OwnFacts
  <2>3. ASSUME NEW d \in DOMAIN frames', Pending(d)'
        PROVE  /\ frames'[d].open[1].index \in 1 .. Len(executed')
               /\ frames'[d].open[1].index \notin Indexes(path')
               /\ frames'[d].open[1].single
               /\ \A e \in DOMAIN frames' :
                    Pending(e)' /\ frames'[e].open[1].index = frames'[d].open[1].index => e = d
    BY <1>1, <2>1, <2>2, <2>3
  <2> QED BY <2>3 DEF PendingOK
<1>5. Nested'
  <2>0. Nested
    BY DEF PathInv
  <2>1. ASSUME NEW d \in 1 .. n - 1, NEW e \in d + 1 .. n - 1
        PROVE  Below(frames[e].pos, frames[d])' /\ EarlierChild(frames[e].pos, frames[d])'
    <3>1. /\ d \in DOMAIN frames /\ e \in d + 1 .. Len(frames) /\ e \in 1 .. n - 1
      BY <1>1
    <3>2. Below(frames[e].pos, frames[d]) /\ EarlierChild(frames[e].pos, frames[d])
      BY <2>0, <3>1 DEF Nested
    <3>3. frames'[d] = frames[d] /\ frames'[e] = frames[e]
      BY <1>1, <3>1
    <3> QED BY <3>2, <3>3 DEF Below, EarlierChild
  <2>2. ASSUME NEW d \in 1 .. n - 1
        PROVE  Len(frames'[d].pos) = d - 1
    BY <2>0, <1>1 DEF Nested
  <2> QED BY <1>1, <2>1, <2>2 DEF Nested
<1>6. Numbered'
  <2>1. ASSUME NEW d \in 1 .. n - 1, NEW i \in DOMAIN executed'
        PROVE  EarlierChild(executed[i].pos, frames[d])'
    <3>1. frames'[d] = frames[d] /\ d \in 1 .. Len(frames)
      BY <1>1
    <3>2. EarlierChild(executed'[i].pos, frames[d])
      BY <3>1, ExecutedNumbered
    <3> QED BY <3>1, <3>2 DEF EarlierChild, Below
  <2> QED BY <1>1, <2>1 DEF Numbered
<1>7. ASSUME NEW i \in DOMAIN executed'
      PROVE  \/ i \in Indexes(path') \/ EndedCall(i)'
             \/ \E d \in DOMAIN frames' : Pending(d)' /\ frames'[d].open[1].index = i
  <2>1. CASE i \in DOMAIN executed
    <3>1. CASE i \in Indexes(path) \cup Own
      BY <3>1 DEF RecordedHere
    <3>2. CASE EndedCall(i)
      <4>1. \A d \in DOMAIN frames' : frames'[d].pos # executed[i].pos
        BY <1>1, <3>2 DEF EndedCall
      <4> QED BY <2>1, <3>2, <4>1, EndedKept
    <3>3. CASE \E d \in 1 .. n - 1 : Pending(d) /\ frames[d].open[1].index = i
      BY <1>1, <3>3 DEF Pending
    <3> QED BY <2>1, <3>1, <3>2, <3>3, AccountedBefore
  <2>2. CASE i = N + 1 /\ i \notin Indexes(path')
    <3>1. /\ Len(executed') = N + 1 /\ executed'[i].pos = Current.pos
          /\ code'[executed'[i].code][executed'[i].pc].single \/ executed'[i].pos \in faulted'
      BY <1>2, <2>2 DEF ExecutedHere
    <3>2. \A d \in DOMAIN frames' : frames'[d].pos # executed'[i].pos
      <4>1. Len(Current.pos) = n - 1 /\ \A d \in 1 .. n - 1 : Len(frames[d].pos) = d - 1
        BY <1>1, PositionFacts
      <4>2. ASSUME NEW d \in 1 .. n - 1
            PROVE  frames[d].pos # Current.pos
        <5>1. Len(frames[d].pos) = d - 1 /\ Len(Current.pos) = n - 1 /\ d - 1 # n - 1
          BY <1>1, <4>1
        <5> QED BY <5>1
      <4> QED BY <1>1, <3>1, <4>2
    <3>3. \A j \in i + 1 .. Len(executed') : executed'[j].pos # executed'[i].pos
      BY <1>2, <2>2, <3>1
    <3> QED BY <3>1, <3>2, <3>3 DEF EndedCall
  <2> QED BY <1>2, <2>1, <2>2 DEF ExecutedHere
<1> QED BY <1>3, <1>4, <1>5, <1>6, <1>7 DEF PathInv, RecordedHere

LEMMA PredOf ==
  ASSUME NEW a \in Nat, NEW b, b = a + 1
  PROVE  b - 1 = a
OBVIOUS

\* The indexes of a position.
LEMMA PlaceDomain ==
  ASSUME NEW pos \in Seq(Nat)
  PROVE  DOMAIN pos = 1 .. Len(pos) /\ Len(pos) \in Nat
OBVIOUS

\* Calls that are made later do not change what was made before.
LEMMA LaterChild ==
  ASSUME NEW pos \in Seq(Nat), NEW f, NEW g, g.pos \in Seq(Nat), f.pos = g.pos, f.calls \in Nat,
         g.calls \in Nat, f.calls >= g.calls, EarlierChild(pos, g)
  PROVE  EarlierChild(pos, f)
<1> SUFFICES ASSUME Below(pos, f)
             PROVE  pos[Len(f.pos) + 1] < f.calls
  BY DEF EarlierChild
<1>1. Below(pos, g)
  BY DEF Below
<1>2. pos[Len(g.pos) + 1] < g.calls
  BY <1>1 DEF EarlierChild
<1>3. Len(g.pos) \in Nat /\ Len(g.pos) + 1 \in 1 .. Len(pos)
  BY <1>1 DEF Below
<1>4. pos[Len(g.pos) + 1] \in Nat
  BY <1>3
<1> QED BY <1>2, <1>4

\* The current call goes on, or makes a call; the block it has executed is recorded
\* or left open.
LEMMA StayKeepsPath ==
  ASSUME IInv, PathInv, Running, code' = code, faulted' = faulted, ExecutedHere, RecordedHere,
         Len(executed') = Len(executed) + 1,
         NEW f, NEW m \in {Len(frames), Len(frames) + 1}, Len(frames') = m, 1 .. m = DOMAIN frames',
         \A d \in 1 .. Len(frames) - 1 : frames'[d] = frames[d],
         frames'[Len(frames)] = f, f.pos = Current.pos, f.calls \in Nat, f.calls >= Current.calls,
         f.open = << >> => Len(executed') \in Indexes(path'),
         f.open # << >> => /\ f.open[1].index = Len(executed') /\ Len(executed') \notin Indexes(path')
                           /\ f.open[1].single \/ m = Len(frames),
         m = Len(frames) + 1 => LET g == frames'[m]
                                IN  /\ g.pos = ChildPosition /\ g.open = << >>
                                    /\ f.calls > Current.calls
  PROVE  PathInv'
<1>a. PICK n : n = Len(frames)
  OBVIOUS
<1>b. PICK N : N = Len(executed)
  OBVIOUS
<1>1. /\ n \in Nat \ {0} /\ 1 .. n = DOMAIN frames /\ Current = frames[n]
      /\ Current.pos \in Seq(Nat) /\ Current.calls \in Nat
      /\ \A d \in 1 .. n - 1 : frames[d].pos \in Seq(Nat) /\ frames[d].calls \in Nat
  BY <1>a, StackFacts
<1>2. /\ N \in Nat /\ Len(executed') = N + 1
      /\ 1 .. N = DOMAIN executed /\ 1 .. N + 1 = DOMAIN executed'
  BY <1>b DEF IInv, TypeOK, ExecutedHere
<1>c. /\ m \in {n, n + 1} /\ Len(frames') = m /\ frames'[n] = f
      /\ \A d \in 1 .. n - 1 : frames'[d] = frames[d]
      /\ f.open = << >> => N + 1 \in Indexes(path')
      /\ f.open # << >> => /\ f.open[1].index = N + 1 /\ N + 1 \notin Indexes(path')
                           /\ f.open[1].single \/ m = n
      /\ m = n + 1 => /\ frames'[m].pos = ChildPosition /\ frames'[m].open = << >>
                      /\ f.calls > Current.calls
  BY <1>a, <1>2
<1>d. /\ Indexes(path) \cup Own \subseteq Indexes(path')
      /\ Indexes(path') \subseteq Indexes(path) \cup Own \cup {N + 1}
  <2>1. Len(executed) + 1 .. Len(executed') = {N + 1}
    BY <1>b, <1>2
  <2> QED BY <2>1 DEF RecordedHere
<1>3. Own \subseteq 1 .. N /\ Indexes(path) \subseteq 1 .. N
  <2>1. ASSUME Current.open # << >>
        PROVE  Current.open[1].index \in 1 .. N
    <3>1. Pending(n) /\ n \in DOMAIN frames
      BY <2>1, <1>1 DEF Pending
    <3>2. PendingOK
      BY DEF PathInv
    <3>3. frames[n].open[1].index \in 1 .. Len(executed)
      BY <3>1, <3>2 DEF PendingOK
    <3> QED BY <3>3, <1>1, <1>b
  <2>2. Own \subseteq 1 .. N
    BY <2>1 DEF Own
  <2>3. Indexes(path) \subseteq 1 .. N
    BY <1>b DEF PathInv
  <2> QED BY <2>2, <2>3
<1>4. Indexes(path') \subseteq 1 .. N + 1
  <2>1. (1 .. N) \subseteq (1 .. N + 1) /\ N + 1 \in 1 .. N + 1
    BY <1>2
  <2> QED BY <1>3, <1>d, <2>1
<1>5. \A d \in DOMAIN frames' : (d \in 1 .. n - 1) \/ (d = n) \/ (d = n + 1 /\ m = n + 1)
  BY <1>1, <1>c
<1>6. PendingOK'
  <2>1. \A d \in 1 .. n - 1 : Pending(d)' <=> Pending(d)
    BY <1>c DEF Pending
  <2>2. m = n + 1 => ~Pending(m)'
    BY <1>c DEF Pending
  <2>3. Pending(n)' <=> f.open # << >>
    BY <1>c DEF Pending
  <2> SUFFICES ASSUME NEW d \in DOMAIN frames', Pending(d)'
               PROVE  LET b == frames'[d].open[1]
                      IN  /\ b.index \in 1 .. N + 1 /\ b.index \notin Indexes(path')
                          /\ b.single \/ (d = m /\ b.index = N + 1)
                          /\ \A e \in DOMAIN frames' : Pending(e)' /\ frames'[e].open[1].index = b.index => e = d
    BY <1>2, <1>c DEF PendingOK
  <2>4. CASE d \in 1 .. n - 1
    <3> DEFINE b == frames[d].open[1]
    <3>1. /\ Pending(d) /\ b.index \in 1 .. N /\ b.index \notin Indexes(path) \cup Own /\ b.single
          /\ \A e \in 1 .. n - 1 : Pending(e) /\ frames[e].open[1].index = b.index => e = d
      BY <1>a, <1>b, <2>1, <2>4, OwnFacts
    <3>2. frames'[d].open[1] = b
      BY <1>c, <2>4
    <3> HIDE DEF b
    <3>3. b.index \in 1 .. N + 1 /\ b.index # N + 1 /\ b.index \notin Indexes(path')
      BY <1>2, <1>d, <3>1
    <3>4. \A e \in DOMAIN frames' : Pending(e)' /\ frames'[e].open[1].index = b.index => e = d
      <4> SUFFICES ASSUME NEW e \in DOMAIN frames', Pending(e)', frames'[e].open[1].index = b.index
                   PROVE  e = d
        OBVIOUS
      <4>1. CASE e \in 1 .. n - 1
        <5>1. Pending(e) /\ frames[e].open[1].index = b.index
          BY <4>1, <2>1, <1>c
        <5> QED BY <4>1, <5>1, <3>1
      <4>2. CASE e = n
        <5>1. f.open # << >> /\ f.open[1].index = b.index
          BY <4>2, <2>3, <1>c
        <5> QED BY <5>1, <3>3, <1>c
      <4> QED BY <4>1, <4>2, <2>2, <1>5
    <3> QED BY <3>1, <3>2, <3>3, <3>4
  <2>5. CASE d = n
    <3>1. f.open # << >> /\ frames'[d].open[1] = f.open[1] /\ f.open[1].index = N + 1
      BY <2>3, <2>5, <1>c
    <3>2. \A e \in DOMAIN frames' : Pending(e)' /\ frames'[e].open[1].index = N + 1 => e = d
      <4> SUFFICES ASSUME NEW e \in 1 .. n - 1, Pending(e)
                   PROVE  frames'[e].open[1].index # N + 1
        BY <1>5, <2>1, <2>2, <2>5
      <4>1. frames[e].open[1].index \in 1 .. N /\ frames'[e] = frames[e]
        BY <1>a, <1>b, <1>c, OwnFacts
      <4> QED BY <4>1, <1>2
    <3>3. f.open[1].single \/ m = n
      BY <1>c, <3>1
    <3>4. N + 1 \in 1 .. N + 1 /\ N + 1 \notin Indexes(path')
      BY <1>2, <1>c, <3>1
    <3> QED BY <2>5, <3>1, <3>2, <3>3, <3>4
  <2> QED BY <1>5, <2>2, <2>4, <2>5
<1>e. /\ Len(Current.pos) = n - 1
      /\ \A d \in 1 .. n : Len(frames[d].pos) = d - 1
      /\ \A d \in 1 .. n - 1 : Below(Current.pos, frames[d]) /\ EarlierChild(Current.pos, frames[d])
      /\ \A d \in 1 .. n - 1 : Current.pos[d] < frames[d].calls /\ Len(frames[d].pos) = d - 1
  <2>1. /\ Len(Current.pos) = n - 1
        /\ \A d \in 1 .. n : Len(frames[d].pos) = d - 1
        /\ \A d \in 1 .. n : EarlierChild(Current.pos, frames[d])
        /\ \A d \in 1 .. n - 1 : Below(Current.pos, frames[d]) /\ Current.pos[d] < frames[d].calls
    BY <1>a, PositionFacts
  <2>2. \A d \in 1 .. n - 1 : d \in 1 .. n
    BY <1>1
  <2> QED BY <2>1, <2>2
<1>7. \A d \in 1 .. n : Len(frames'[d].pos) = d - 1
  <2> TAKE d \in 1 .. n
  <2>1. CASE d \in 1 .. n - 1
    BY <2>1, <1>c, <1>e
  <2>2. CASE d = n
    BY <2>2, <1>c, <1>e
  <2> QED BY <2>1, <2>2, <1>1
<1>8. \A pos \in Seq(Nat) : EarlierChild(pos, Current) => EarlierChild(pos, f)
  BY <1>1, LaterChild
<1>9. /\ ChildPosition \in Seq(Nat) /\ Len(ChildPosition) = n
      /\ \A k \in 1 .. n - 1 : ChildPosition[k] = Current.pos[k]
      /\ ChildPosition[n] = Current.calls
  <2>1. \A s \in Seq(Nat), c \in Nat :
          /\ Append(s, c) \in Seq(Nat) /\ Len(Append(s, c)) = Len(s) + 1
          /\ \A k \in 1 .. Len(s) : Append(s, c)[k] = s[k]
          /\ Append(s, c)[Len(s) + 1] = c
    OBVIOUS
  <2>2. /\ ChildPosition \in Seq(Nat) /\ Len(ChildPosition) = Len(Current.pos) + 1
        /\ \A k \in 1 .. Len(Current.pos) : ChildPosition[k] = Current.pos[k]
        /\ ChildPosition[Len(Current.pos) + 1] = Current.calls
    BY <1>1, <2>1 DEF ChildPosition
  <2>3. Len(Current.pos) = n - 1 /\ Len(Current.pos) + 1 = n
    BY <1>1, <1>e
  <2> QED BY <2>2, <2>3
<1>10. Nested'
  <2>0. Nested
    BY DEF PathInv
  <2>1. ASSUME NEW d \in 1 .. m
        PROVE  Len(frames'[d].pos) = d - 1
    <3>1. CASE d \in 1 .. n
      BY <3>1, <1>7
    <3>2. CASE d = n + 1 /\ m = n + 1
      <4>1. frames'[d].pos = ChildPosition
        BY <3>2, <1>c
      <4> QED BY <4>1, <3>2, <1>9, <1>1
    <3> QED BY <3>1, <3>2, <1>1, <1>c
  <2>2. ASSUME NEW d \in 1 .. m, NEW e \in d + 1 .. m, d \in 1 .. n - 1
        PROVE  Below(frames'[e].pos, frames'[d]) /\ EarlierChild(frames'[e].pos, frames'[d])
    <3>0. frames'[d] = frames[d] /\ d \in DOMAIN frames
      BY <2>2, <1>1, <1>c
    <3>1. CASE e \in 1 .. n - 1
      <4>1. e \in d + 1 .. Len(frames)
        BY <1>1, <1>a, <2>2, <3>1
      <4>2. Below(frames[e].pos, frames[d]) /\ EarlierChild(frames[e].pos, frames[d])
        BY <2>0, <3>0, <4>1 DEF Nested
      <4>3. frames'[e] = frames[e]
        BY <3>1, <1>c
      <4> QED BY <3>0, <4>2, <4>3
    <3>2. CASE e = n
      <4>1. Below(Current.pos, frames[d]) /\ EarlierChild(Current.pos, frames[d])
        BY <2>2, <1>e, Zenon
      <4>2. frames'[e].pos = Current.pos
        BY <3>2, <1>c
      <4> QED BY <3>0, <4>1, <4>2
    <3>3. CASE e = n + 1 /\ m = n + 1
      <4>1. Below(Current.pos, frames[d]) /\ Current.pos[d] < frames[d].calls /\ Len(frames[d].pos) = d - 1
            /\ Len(Current.pos) = n - 1
        BY <2>2, <1>1, <1>e, Zenon
      <4>2. Below(ChildPosition, frames[d])
        <5>0. ASSUME NEW k \in DOMAIN frames[d].pos
              PROVE  k \in 1 .. n - 1
          <6>1. frames[d].pos \in Seq(Nat) /\ Len(frames[d].pos) = d - 1
            BY <2>2, <1>1, <4>1
          <6>2. DOMAIN frames[d].pos = 1 .. Len(frames[d].pos)
            BY <6>1, PlaceDomain
          <6>3. k \in 1 .. d - 1
            BY <5>0, <6>1, <6>2
          <6> QED BY <6>3, <2>2, <1>1
        <5>1. \A k \in DOMAIN frames[d].pos : k \in 1 .. n - 1 /\ ChildPosition[k] = frames[d].pos[k]
          BY <1>9, <4>1, <5>0 DEF Below
        <5>2. Len(ChildPosition) > Len(frames[d].pos)
          BY <1>1, <1>9, <2>2, <3>3, <4>1
        <5> QED BY <5>1, <5>2 DEF Below
      <4>3. EarlierChild(ChildPosition, frames[d])
        <5>0. Len(frames[d].pos) + 1 = d
          BY <1>1, <2>2, <4>1
        <5>1. ChildPosition[d] = Current.pos[d] /\ Len(frames[d].pos) + 1 = d
          BY <1>9, <2>2, <5>0, Zenon
        <5> QED BY <4>1, <5>1 DEF EarlierChild
      <4>4. frames'[e].pos = ChildPosition
        BY <3>3, <1>c
      <4> QED BY <3>0, <4>2, <4>3, <4>4
    <3>4. e \in 1 .. n - 1 \/ e = n \/ (e = n + 1 /\ m = n + 1)
      BY <1>1, <1>c, <2>2
    <3> QED BY <3>1, <3>2, <3>3, <3>4
  <2>3. ASSUME m = n + 1
        PROVE  Below(frames'[m].pos, frames'[n]) /\ EarlierChild(frames'[m].pos, frames'[n])
    <3>1. frames'[m].pos = ChildPosition /\ frames'[n] = f /\ Len(Current.pos) = n - 1
      BY <2>3, <1>c, <1>e
    <3>2. Below(ChildPosition, f)
      <4>1. Len(ChildPosition) > Len(Current.pos)
        BY <1>1, <1>9, <3>1
      <4>2. \A k \in DOMAIN Current.pos : k \in 1 .. n - 1
        <5>1. DOMAIN Current.pos = 1 .. Len(Current.pos)
          BY <1>1, PlaceDomain
        <5> QED BY <3>1, <5>1
      <4>3. \A k \in DOMAIN Current.pos : ChildPosition[k] = Current.pos[k]
        BY <1>9, <4>2
      <4> QED BY <4>1, <4>3 DEF Below
    <3>3. ChildPosition[Len(f.pos) + 1] = Current.calls /\ f.calls > Current.calls
      BY <1>1, <1>9, <1>c, <2>3, <3>1
    <3> QED BY <1>1, <3>1, <3>2, <3>3 DEF EarlierChild
  <2>4. ASSUME NEW d \in 1 .. m, NEW e \in d + 1 .. m
        PROVE  Below(frames[e].pos, frames[d])' /\ EarlierChild(frames[e].pos, frames[d])'
    <3>1. d \in 1 .. n - 1 \/ (d = n /\ e = m /\ m = n + 1)
      BY <1>1, <1>c
    <3>2. Below(frames'[e].pos, frames'[d]) /\ EarlierChild(frames'[e].pos, frames'[d])
      BY <2>2, <2>3, <3>1
    <3> QED BY <3>2 DEF Below, EarlierChild
  <2> QED BY <1>c, <2>1, <2>4 DEF Nested
<1>11. \A i \in DOMAIN executed' : executed'[i].pos \in Seq(Nat)
  <2>1. \A x \in Step : x.pos \in Seq(Nat)
    BY DEF Step, Position
  <2>2. \A i \in DOMAIN executed' : executed'[i] \in Step
    BY DEF ExecutedHere
  <2> QED BY <2>1, <2>2
<1>12. ASSUME NEW i \in DOMAIN executed', m = n + 1
       PROVE  ~Below(executed'[i].pos, frames'[m]) /\ executed'[i].pos # frames'[m].pos
  <2> DEFINE pos == executed'[i].pos
  <2>1. pos \in Seq(Nat) /\ EarlierChild(pos, Current)
    <3>1. n \in 1 .. Len(frames) /\ Current = frames[n]
      BY <1>1, <1>a
    <3> QED BY <1>11, <3>1, ExecutedNumbered
  <2>2. frames'[m].pos = ChildPosition /\ Len(Current.pos) = n - 1 /\ Len(Current.pos) + 1 = n
    BY <1>1, <1>c, <1>e, <1>12
  <2> HIDE DEF pos
  <2>3. ASSUME Len(pos) >= n, \A k \in 1 .. n : pos[k] = ChildPosition[k]
        PROVE  FALSE
    <3>1. \A k \in DOMAIN Current.pos : k \in 1 .. n - 1 /\ k \in 1 .. n
      <4>1. DOMAIN Current.pos = 1 .. n - 1
        <5>1. DOMAIN Current.pos = 1 .. Len(Current.pos)
          BY <1>1, PlaceDomain
        <5> QED BY <2>2, <5>1
      <4>2. \A k \in 1 .. n - 1 : k \in 1 .. n
        BY <1>1
      <4> QED BY <4>1, <4>2
    <3>2. Len(pos) > Len(Current.pos)
      BY <1>1, <2>1, <2>2, <2>3
    <3>3. Below(pos, Current)
      BY <1>9, <2>3, <3>1, <3>2 DEF Below
    <3>4. pos[n] < Current.calls
      BY <2>1, <2>2, <3>3 DEF EarlierChild
    <3>5. pos[n] = Current.calls
      BY <1>1, <1>9, <2>3
    <3> QED BY <1>1, <3>4, <3>5
  <2>4. DOMAIN ChildPosition = 1 .. n /\ Len(ChildPosition) = n
    BY <1>9, <1>1
  <2>5. ~Below(pos, frames'[m])
    <3> SUFFICES ASSUME Below(pos, frames'[m])
                 PROVE  FALSE
      OBVIOUS
    <3>1. Len(pos) > n /\ \A k \in 1 .. n : pos[k] = ChildPosition[k]
      BY <2>2, <2>4 DEF Below
    <3> QED BY <1>1, <2>1, <2>3, <3>1
  <2>6. pos # frames'[m].pos
    <3> SUFFICES ASSUME pos = ChildPosition
                 PROVE  FALSE
      BY <2>2
    <3> QED BY <1>1, <2>3, <2>4
  <2> QED BY <2>5, <2>6 DEF pos
<1>13. Numbered'
  <2>1. ASSUME NEW d \in DOMAIN frames', NEW i \in DOMAIN executed'
        PROVE  EarlierChild(executed'[i].pos, frames'[d])
    <3>1. CASE d \in 1 .. n - 1
      <4>1. d \in 1 .. Len(frames) /\ frames'[d] = frames[d]
        <5>1. d \in 1 .. n
          BY <1>1, <3>1
        <5>2. frames'[d] = frames[d]
          BY <1>c, <3>1
        <5> QED BY <1>a, <5>1, <5>2
      <4> QED BY <4>1, ExecutedNumbered
    <3>2. CASE d = n
      <4>1. n \in 1 .. Len(frames) /\ Current = frames[n]
        BY <1>1, <1>a
      <4>2. EarlierChild(executed'[i].pos, Current)
        BY <4>1, ExecutedNumbered
      <4>3. executed'[i].pos \in Seq(Nat) /\ frames'[d] = f
        BY <3>2, <1>c, <1>11
      <4> QED BY <1>8, <4>2, <4>3
    <3>3. CASE d = n + 1 /\ m = n + 1
      BY <1>12, <3>3 DEF EarlierChild
    <3> QED BY <1>5, <3>1, <3>2, <3>3
  <2>2. ASSUME NEW d \in DOMAIN frames', NEW i \in DOMAIN executed'
        PROVE  EarlierChild(executed[i].pos, frames[d])'
    BY <2>1 DEF EarlierChild, Below
  <2> QED BY <2>2 DEF Numbered
<1>14. ASSUME NEW i \in DOMAIN executed'
       PROVE  \/ i \in Indexes(path') \/ EndedCall(i)'
              \/ \E d \in DOMAIN frames' : Pending(d)' /\ frames'[d].open[1].index = i
  <2>0. \A d \in 1 .. n : d \in DOMAIN frames'
    BY <1>1, <1>c
  <2>1. CASE i \in DOMAIN executed
    <3>1. CASE i \in Indexes(path) \cup Own
      BY <3>1 DEF RecordedHere
    <3>2. CASE EndedCall(i)
      <4>1. executed'[i] = executed[i]
        BY <1>2, <2>1 DEF ExecutedHere
      <4>2. \A d \in DOMAIN frames' : frames'[d].pos # executed[i].pos
        <5> TAKE d \in DOMAIN frames'
        <5>1. CASE d \in 1 .. n
          <6>1. d \in DOMAIN frames /\ frames'[d].pos = frames[d].pos
            <7>1. d \in 1 .. n - 1 \/ d = n
              BY <1>1, <5>1
            <7> QED BY <7>1, <1>1, <1>c
          <6> QED BY <3>2, <6>1 DEF EndedCall
        <5>2. CASE d = n + 1 /\ m = n + 1
          BY <1>12, <4>1, <5>2
        <5> QED BY <1>1, <1>5, <5>1, <5>2
      <4> QED BY <2>1, <3>2, <4>2, EndedKept
    <3>3. CASE \E d \in 1 .. n - 1 : Pending(d) /\ frames[d].open[1].index = i
      <4>1. PICK d \in 1 .. n - 1 : Pending(d) /\ frames[d].open[1].index = i
        BY <3>3
      <4>2. frames'[d] = frames[d] /\ d \in DOMAIN frames'
        BY <1>1, <1>c
      <4>3. Pending(d)' /\ frames'[d].open[1].index = i
        BY <4>1, <4>2 DEF Pending
      <4> QED BY <4>2, <4>3
    <3>4. \/ i \in Indexes(path) \cup Own \/ EndedCall(i)
          \/ \E d \in 1 .. n - 1 : Pending(d) /\ frames[d].open[1].index = i
      BY <1>a, <2>1, AccountedBefore
    <3> QED BY <3>1, <3>2, <3>3, <3>4
  <2>2. CASE i = N + 1
    <3>1. CASE f.open = << >>
      BY <1>c, <2>2, <3>1
    <3>2. CASE f.open # << >>
      <4>1. n \in DOMAIN frames' /\ Pending(n)' /\ frames'[n].open[1].index = i
        BY <1>1, <1>c, <2>0, <2>2, <3>2 DEF Pending
      <4> QED BY <4>1
    <3> QED BY <3>1, <3>2
  <2>3. i \in DOMAIN executed \/ i = N + 1
    BY <1>2
  <2> QED BY <2>1, <2>2, <2>3
<1> QED BY <1>2, <1>4, <1>6, <1>10, <1>13, <1>14 DEF PathInv, RecordedHere

LEMMA ConcatEmpty ==
  ASSUME NEW S, NEW p \in Seq(S)
  PROVE  p \o << >> = p
OBVIOUS

LEMMA ConcatThree ==
  ASSUME NEW p \in Seq(PathEntry), NEW q \in Seq(PathEntry), NEW b \in PathEntry
  PROVE  p \o (q \o <<b>>) = (p \o q) \o <<b>>
OBVIOUS

\* What is entered is executed, and recorded unless it is left open.
LEMMA EnterRecords ==
  ASSUME IInv, PathInv, Running, NEW b \in PathEntry, Enter(b), b.index = Len(executed) + 1,
         b.code = Current.code, b.pc = Current.pc, b.pos = Current.pos
  PROVE  /\ ExecutedHere /\ RecordedHere /\ Len(executed') = Len(executed) + 1
         /\ Len(executed') \in Indexes(path') <=> ~(At.single \/ At.tail = "fall")
         /\ Len(executed') \notin Indexes(path') => Closed(b) = Current.open
         /\ LET x == executed'[Len(executed')] IN x.code = Current.code /\ x.pc = Current.pc
<1> DEFINE N == Len(executed)
           x == [code |-> b.code, pc |-> b.pc, pos |-> b.pos]
           q == path \o Current.open
<1>1. /\ N \in Nat /\ executed \in Seq(Step) /\ path \in Seq(PathEntry)
      /\ Current.open \in Seq(PathEntry)
  BY BlockHere DEF IInv, TypeOK, Step
<1>2. x \in Step /\ executed' = Append(executed, x)
  BY DEF Step, PathEntry, Enter
<1>3. ExecutedHere /\ Len(executed') = N + 1 /\ executed'[N + 1] = x
  BY <1>1, <1>2 DEF ExecutedHere
<1>4. /\ q \in Seq(PathEntry) /\ InOrder(q) /\ Indexes(q) = Indexes(path) \cup Own
      /\ Indexes(q) \subseteq 1 .. N
  BY <1>1, Settled
<1>5. CASE At.single \/ At.tail = "fall"
  <2>1. Closed(b) = Current.open
    <3>1. Closed(b) = Current.open \o << >>
      BY <1>5 DEF Closed
    <3> QED BY <1>1, <3>1, ConcatEmpty
  <2>2. path' = q
    BY <2>1 DEF Enter
  <2> QED BY <1>1, <1>3, <1>4, <1>5, <2>1, <2>2 DEF RecordedHere
<1>6. CASE ~(At.single \/ At.tail = "fall")
  <2>1. path' = path \o (Current.open \o <<b>>)
    BY <1>6 DEF Closed, Enter
  <2>2. path' = q \o <<b>>
    <3>1. path \o (Current.open \o <<b>>) = (path \o Current.open) \o <<b>>
      BY <1>1, ConcatThree, Zenon
    <3> QED BY <2>1, <3>1
  <2> HIDE DEF q
  <2>3. path' \in Seq(PathEntry) /\ InOrder(path') /\ Indexes(path') = Indexes(q) \cup {N + 1}
    BY <1>4, <2>2, SettledThen
  <2>4. N + 1 .. Len(executed') = {N + 1}
    BY <1>1, <1>3
  <2> QED BY <1>3, <1>4, <1>6, <2>3, <2>4 DEF RecordedHere
<1> QED BY <1>5, <1>6

\* Entry numbers the blocks in the order in which they are executed.
LEMMA EntryIndex ==
  ASSUME NEW tail, NEW amount, NEW holder
  PROVE  LET e == Entry(tail, amount, holder)
         IN  e.index = Len(executed) + 1 /\ e.single = At.single
BY DEF Entry

\* What is on the stack when the current call is another one, or has made a call.
LEMMA StackNext ==
  ASSUME IInv, Running, NEW f, FrameOK(f)
  PROVE  LET n == Len(frames)
             s == SetCurrent(f)
         IN  /\ s \in Seq(CallFrame) /\ Len(s) = n /\ 1 .. n = DOMAIN s /\ s[n] = f
             /\ \A d \in 1 .. n - 1 : s[d] = frames[d]
<1> DEFINE n == Len(frames)
           low == Front(frames)
<1>1. /\ n \in Nat \ {0} /\ low \in Seq(CallFrame) /\ Len(low) = n - 1
      /\ \A d \in 1 .. n - 1 : low[d] = frames[d]
  BY StackFacts
<1> HIDE DEF low
<1> DEFINE s == Append(low, f)
<1>2. f \in CallFrame
  BY DEF FrameOK
<1>3. /\ s \in Seq(CallFrame) /\ Len(s) = n /\ 1 .. n = DOMAIN s /\ s[n] = f
      /\ \A d \in 1 .. n - 1 : s[d] = low[d]
  BY <1>1, <1>2
<1> HIDE DEF s
<1>4. s = SetCurrent(f)
  BY DEF s, low, SetCurrent
<1> QED BY <1>1, <1>3, <1>4

LEMMA StackCalls ==
  ASSUME IInv, Running, NEW f, FrameOK(f), NEW g, frames' = Append(SetCurrent(f), g)
  PROVE  /\ Len(frames') = Len(frames) + 1 /\ 1 .. Len(frames) + 1 = DOMAIN frames'
         /\ frames'[Len(frames)] = f /\ frames'[Len(frames) + 1] = g
         /\ \A d \in 1 .. Len(frames) - 1 : frames'[d] = frames[d]
<1> DEFINE s == SetCurrent(f)
           n == Len(frames)
<1>1. /\ s \in Seq(CallFrame) /\ Len(s) = n /\ s[n] = f
      /\ \A d \in 1 .. n - 1 : s[d] = frames[d]
  BY StackNext
<1>2. n \in Nat \ {0}
  BY StackFacts
<1>3. frames' = Append(s, g)
  OBVIOUS
<1> HIDE DEF s, n
<1>4. /\ Len(frames') = n + 1 /\ 1 .. n + 1 = DOMAIN frames'
      /\ frames'[n + 1] = g /\ \A d \in 1 .. n : frames'[d] = s[d]
  BY <1>1, <1>2, <1>3
<1>5. /\ n \in 1 .. n /\ \A d \in 1 .. n - 1 : d \in 1 .. n
  BY <1>2
<1> QED BY <1>1, <1>4, <1>5 DEF n

\* The current call moves on to another block.
LEMMA MoveKeepsPath ==
  ASSUME IInv, PathInv, Running, code' = code, faulted' = faulted, NEW b \in PathEntry, Enter(b),
         b.index = Len(executed) + 1, b.single = At.single,
         b.code = Current.code, b.pc = Current.pc, b.pos = Current.pos,
         NEW pc \in DOMAIN code[Current.code], frames' = SetCurrent(Moved(Current, b, pc))
  PROVE  PathInv'
<1> DEFINE f == Moved(Current, b, pc)
<1>1. FrameOK(f) /\ f.open = Opened(b) /\ f.pos = Current.pos /\ f.calls = Current.calls
  BY MovedType DEF IInv
<1>2. f.calls \in Nat /\ f.calls >= Current.calls
  BY <1>1, StackFacts
<1>3. /\ ExecutedHere /\ RecordedHere /\ Len(executed') = Len(executed) + 1
      /\ Len(executed') \in Indexes(path') <=> ~(At.single \/ At.tail = "fall")
  BY EnterRecords
<1>4. /\ f.open = << >> <=> ~(At.single \/ At.tail = "fall")
      /\ f.open # << >> => f.open[1] = b
  BY <1>1 DEF Opened
<1> HIDE DEF f
<1>5. /\ Len(frames') = Len(frames) /\ 1 .. Len(frames) = DOMAIN frames' /\ frames'[Len(frames)] = f
      /\ \A d \in 1 .. Len(frames) - 1 : frames'[d] = frames[d]
  BY <1>1, StackNext DEF f
<1>6. Len(frames) # Len(frames) + 1
  BY StackFacts
<1> QED BY <1>1, <1>2, <1>3, <1>4, <1>5, <1>6, StayKeepsPath

LEMMA JumpPath ==
  ASSUME IInv, PathInv, Jump
  PROVE  PathInv'
<1>1. TypeOK /\ InCode /\ Running /\ At.tail = "jump" /\ code' = code /\ faulted' = faulted
  BY DEF IInv, Jump, Fixed
<1>2. PICK pc \in At.next, amount \in At.pays :
        /\ Enter(Entry("jump", amount, Current.pos))
        /\ frames' = SetCurrent(Moved(Current, Entry("jump", amount, Current.pos), pc))
  BY DEF Jump
<1> DEFINE b == Entry("jump", amount, Current.pos)
<1>3. /\ b \in PathEntry /\ b.code = Current.code /\ b.pc = Current.pc /\ b.pos = Current.pos
      /\ pc \in DOMAIN code[Current.code]
  BY <1>1, EntryType, BlockHere DEF Tails
<1>4. b.index = Len(executed) + 1 /\ b.single = At.single
  BY EntryIndex
<1>5. Enter(b) /\ frames' = SetCurrent(Moved(Current, b, pc))
  BY <1>2
<1> HIDE DEF b
<1> QED BY <1>1, <1>3, <1>4, <1>5, MoveKeepsPath

LEMMA FallPath ==
  ASSUME IInv, PathInv, Fall
  PROVE  PathInv'
<1>1. TypeOK /\ InCode /\ Running /\ At.tail = "fall" /\ code' = code /\ faulted' = faulted
  BY DEF IInv, Fall, Fixed
<1>2. PICK amount \in At.pays :
        /\ Enter(Entry("other", amount, Current.pos))
        /\ frames' = SetCurrent(Moved(Current, Entry("other", amount, Current.pos), Current.pc + 1))
  BY DEF Fall
<1> DEFINE b == Entry("other", amount, Current.pos)
<1>3. /\ b \in PathEntry /\ b.code = Current.code /\ b.pc = Current.pc /\ b.pos = Current.pos
      /\ Current.pc + 1 \in DOMAIN code[Current.code]
  <2>1. /\ Current.pc + 1 \in DOMAIN code[Current.code] /\ amount \in Int
        /\ Current.pos \in Position
    BY <1>1, BlockHere
  <2>2. b \in PathEntry /\ b.code = Current.code /\ b.pc = Current.pc /\ b.pos = Current.pos
    BY <1>1, <2>1, EntryType
  <2> QED BY <2>1, <2>2
<1>4. b.index = Len(executed) + 1 /\ b.single = At.single
  BY EntryIndex
<1>5. Enter(b) /\ frames' = SetCurrent(Moved(Current, b, Current.pc + 1))
  BY <1>2
<1> HIDE DEF b
<1> QED BY <1>1, <1>3, <1>4, <1>5, MoveKeepsPath

LEMMA RefusedCallPath ==
  ASSUME IInv, PathInv, RefusedCall
  PROVE  PathInv'
<1> DEFINE b == Entry("call", 0, Current.pos)
<1>1. TypeOK /\ InCode /\ Running /\ At.tail = "call" /\ code' = code /\ faulted' = faulted
      /\ Enter(b) /\ frames' = SetCurrent(Moved(Current, b, Current.pc + 1))
  BY DEF IInv, RefusedCall, Fixed
<1>2. /\ b \in PathEntry /\ b.code = Current.code /\ b.pc = Current.pc /\ b.pos = Current.pos
      /\ Current.pc + 1 \in DOMAIN code[Current.code]
  BY <1>1, EntryType, BlockHere DEF Tails
<1>3. b.index = Len(executed) + 1 /\ b.single = At.single
  BY EntryIndex
<1> HIDE DEF b
<1> QED BY <1>1, <1>2, <1>3, MoveKeepsPath

LEMMA CallPath ==
  ASSUME IInv, PathInv, Call
  PROVE  PathInv'
<1>1. TypeOK /\ InCode /\ Running /\ At.tail = "call" /\ code' = code /\ faulted' = faulted
  BY DEF IInv, Call, Fixed
<1> DEFINE Holder == IF At.value THEN ChildPosition ELSE Current.pos
           Entered(amount) == Entry("call", amount, Holder)
           Caller(amount)  == [Moved(Current, Entered(amount), Current.pc + 1) EXCEPT !.calls = @ + 1]
<1>2. PICK a \in At.to, amount \in At.pays :
        /\ Enter(Entered(amount))
        /\ frames' = SetCurrent(Caller(amount))
                     \o (IF a \in DOMAIN code THEN <<Frame(a, ChildPosition)>> ELSE << >>)
  BY DEF Call
<1> DEFINE b == Entered(amount)
           f == Caller(amount)
<1>3. ChildPosition \in Position /\ Current.pc + 1 \in DOMAIN code[Current.code]
  BY <1>1, BlockHere DEF ChildPosition, Position
<1>4. Holder \in Position /\ amount \in Int
  BY <1>1, <1>3, BlockHere
<1>5. /\ b \in PathEntry /\ b.code = Current.code /\ b.pc = Current.pc /\ b.pos = Current.pos
      /\ b.index = Len(executed) + 1 /\ b.single = At.single
  <2> HIDE DEF Holder
  <2> QED BY <1>1, <1>4, EntryType, EntryIndex DEF Tails
<1> HIDE DEF Entered
<1>6. FrameOK(f) /\ FramesOK(SetCurrent(f)) /\ f.open = Opened(b)
  BY <1>1, <1>3, <1>5, CallerType
<1>7. f.pos = Current.pos /\ f.calls = Current.calls + 1
  <2> DEFINE h == Moved(Current, b, Current.pc + 1)
  <2>1. h \in CallFrame /\ h.pos = Current.pos /\ h.calls = Current.calls
    BY <1>1, <1>3, <1>5, MovedType DEF FrameOK
  <2> HIDE DEF h
  <2>2. f = [h EXCEPT !.calls = @ + 1]
    BY DEF h
  <2> HIDE DEF Caller
  <2> QED BY <2>1, <2>2 DEF CallFrame
<1>8. Enter(b) /\ frames' = SetCurrent(f) \o (IF a \in DOMAIN code THEN <<Frame(a, ChildPosition)>> ELSE << >>)
  BY <1>2
<1> HIDE DEF Caller
<1>9. /\ ExecutedHere /\ RecordedHere /\ Len(executed') = Len(executed) + 1
      /\ Len(executed') \in Indexes(path') <=> ~At.single
  BY <1>1, <1>5, <1>8, EnterRecords
<1>10. /\ f.open = << >> <=> ~At.single
       /\ f.open # << >> => f.open[1] = b
  BY <1>1, <1>6 DEF Opened
<1>11. f.calls \in Nat /\ f.calls > Current.calls /\ f.calls >= Current.calls
  BY <1>1, <1>7, StackFacts
<1>12. SetCurrent(f) \in Seq(CallFrame)
  BY <1>6 DEF FramesOK
<1>13. CASE a \notin DOMAIN code
  <2>1. frames' = SetCurrent(f)
    BY <1>8, <1>12, <1>13
  <2>2. /\ Len(frames') = Len(frames) /\ 1 .. Len(frames) = DOMAIN frames' /\ frames'[Len(frames)] = f
        /\ \A d \in 1 .. Len(frames) - 1 : frames'[d] = frames[d]
    BY <1>1, <1>6, <2>1, StackNext
  <2>3. Len(frames) # Len(frames) + 1
    BY <1>1, StackFacts
  <2> QED BY <1>1, <1>5, <1>7, <1>9, <1>10, <1>11, <2>2, <2>3, StayKeepsPath
<1>14. CASE a \in DOMAIN code
  <2> DEFINE g == Frame(a, ChildPosition)
  <2>1. g.pos = ChildPosition /\ g.open = << >>
    BY DEF Frame
  <2>2. frames' = Append(SetCurrent(f), g)
    <3> HIDE DEF g
    <3>1. frames' = SetCurrent(f) \o <<g>>
      BY <1>8, <1>14 DEF g
    <3> QED BY <1>12, <3>1
  <2> HIDE DEF g
  <2>3. /\ Len(frames') = Len(frames) + 1 /\ 1 .. Len(frames) + 1 = DOMAIN frames'
        /\ frames'[Len(frames)] = f /\ frames'[Len(frames) + 1] = g
        /\ \A d \in 1 .. Len(frames) - 1 : frames'[d] = frames[d]
    BY <1>1, <1>6, <2>2, StackCalls
  <2>4. f.open # << >> => f.open[1].single
    BY <1>5, <1>10
  <2> QED BY <1>1, <1>5, <1>7, <1>9, <1>10, <1>11, <2>1, <2>3, <2>4, StayKeepsPath
<1> QED BY <1>13, <1>14

\* A call ends with the block executed now, at its tail.
LEMMA EndPath ==
  ASSUME IInv, PathInv, Running, code' = code, faulted' = faulted, frames' = Front(frames), At.tail # "fall",
         NEW tail \in Tails \cup {"other"}, NEW amount \in Int, Enter(Entry(tail, amount, Current.pos))
  PROVE  PathInv'
<1> DEFINE b == Entry(tail, amount, Current.pos)
<1>1. /\ b \in PathEntry /\ b.code = Current.code /\ b.pc = Current.pc /\ b.pos = Current.pos
      /\ b.index = Len(executed) + 1
  BY EntryType, EntryIndex, BlockHere DEF IInv
<1> HIDE DEF b
<1>2. /\ ExecutedHere /\ RecordedHere /\ Len(executed') = Len(executed) + 1
      /\ Len(executed') \in Indexes(path') <=> ~At.single
      /\ LET x == executed'[Len(executed')] IN x.code = Current.code /\ x.pc = Current.pc
  BY <1>1, EnterRecords DEF b
<1>3. Len(executed') \in Indexes(path') \/ code[executed'[Len(executed')].code][executed'[Len(executed')].pc].single
  BY <1>2 DEF At
<1> QED BY <1>2, <1>3, PopKeepsPath

LEMMA ReturnPath ==
  ASSUME IInv, PathInv, Return
  PROVE  PathInv'
<1>1. TypeOK /\ InCode /\ Running /\ At.tail \in {"return", "revert"} /\ code' = code /\ faulted' = faulted /\ frames' = Front(frames)
  BY DEF IInv, Return, Fixed
<1>2. PICK amount \in At.pays : Enter(Entry(At.tail, amount, Current.pos))
  BY DEF Return
<1>3. amount \in Int /\ At.tail \in Tails \cup {"other"} /\ At.tail # "fall"
  BY <1>1, BlockHere
<1> QED BY <1>1, <1>2, <1>3, EndPath

LEMMA FaultAtTailPath ==
  ASSUME IInv, PathInv, FaultAtTail
  PROVE  PathInv'
<1>1. TypeOK /\ InCode /\ Running /\ At.tail # "fall" /\ code' = code /\ faulted' = faulted
      /\ frames' = Front(frames) /\ Enter(Entry(At.tail, 0, Current.pos))
  BY DEF IInv, FaultAtTail, Fails, Fixed
<1>2. 0 \in Int /\ At.tail \in Tails \cup {"other"}
  BY <1>1, BlockHere
<1> QED BY <1>1, <1>2, EndPath

LEMMA OutOfGasAtTailPath ==
  ASSUME IInv, PathInv, OutOfGasAtTail
  PROVE  PathInv'
<1>1. TypeOK /\ InCode /\ Running /\ At.tail # "fall" /\ code' = code /\ faulted' = faulted /\ frames' = Front(frames)
      /\ Enter(Entry(At.tail, 0, Current.pos))
  BY DEF IInv, OutOfGasAtTail, Fails, Fixed
<1>2. 0 \in Int /\ At.tail \in Tails \cup {"other"}
  BY <1>1, BlockHere
<1> QED BY <1>1, <1>2, EndPath

\* Between head and tail the block is recorded, after the one left open.
LEMMA OutOfGasInsidePath ==
  ASSUME IInv, PathInv, OutOfGasInside
  PROVE  PathInv'
<1> DEFINE b == Entry("other", 0, Current.pos)
           x == [code |-> Current.code, pc |-> Current.pc, pos |-> Current.pos]
           q == path \o Current.open
           N == Len(executed)
<1>1. /\ TypeOK /\ InCode /\ Running /\ code' = code /\ faulted' = faulted /\ frames' = Front(frames)
      /\ path' = path \o Current.open \o <<b>> /\ executed' = Append(executed, x)
  BY DEF IInv, OutOfGasInside, Fails, Fixed
<1>2. b \in PathEntry /\ b.index = N + 1
  <2>1. Current.pos \in Position /\ 0 \in Int
    BY <1>1, BlockHere
  <2> DEFINE other == "other"
  <2>2. other \in Tails \cup {"other"} /\ b = Entry(other, 0, Current.pos)
    OBVIOUS
  <2> HIDE DEF other, b
  <2>3. Entry(other, 0, Current.pos) \in PathEntry
    BY <2>1, <2>2, <1>1, EntryType
  <2>4. Entry(other, 0, Current.pos).index = N + 1
    BY EntryIndex
  <2> QED BY <2>2, <2>3, <2>4
<1> HIDE DEF b
<1>3. N \in Nat /\ executed \in Seq(Step) /\ x \in Step /\ Current.open \in Seq(PathEntry)
  BY <1>1, BlockHere DEF TypeOK, Step
<1>4. ExecutedHere /\ Len(executed') = N + 1
  BY <1>1, <1>3 DEF ExecutedHere
<1>5. /\ q \in Seq(PathEntry) /\ InOrder(q) /\ Indexes(q) = Indexes(path) \cup Own
      /\ Indexes(q) \subseteq 1 .. N
  BY <1>1, <1>3, Settled
<1>6. path' = q \o <<b>>
  BY <1>1
<1> HIDE DEF q
<1>7. path' \in Seq(PathEntry) /\ InOrder(path') /\ Indexes(path') = Indexes(q) \cup {N + 1}
  BY <1>2, <1>5, <1>6, SettledThen
<1>8. RecordedHere
  <2>1. N + 1 .. Len(executed') = {N + 1}
    BY <1>3, <1>4
  <2> QED BY <1>5, <1>7, <2>1 DEF RecordedHere
<1>9. Len(executed') \in Indexes(path')
  BY <1>4, <1>7
<1> QED BY <1>1, <1>4, <1>8, <1>9, PopKeepsPath

\* The block left open before is recorded, the one in which an operation fails is not.
LEMMA FaultInsidePath ==
  ASSUME IInv, PathInv, FaultInside
  PROVE  PathInv'
<1> DEFINE x == [code |-> Current.code, pc |-> Current.pc, pos |-> Current.pos]
           N == Len(executed)
<1>1. /\ TypeOK /\ InCode /\ Running /\ code' = code /\ frames' = Front(frames)
      /\ path' = path \o Current.open /\ executed' = Append(executed, x)
      /\ faulted' = faulted \cup {Current.pos}
  BY DEF IInv, FaultInside
<1>2. faulted \subseteq faulted' /\ Current.pos \in faulted'
  BY <1>1
<1>3. N \in Nat /\ executed \in Seq(Step) /\ x \in Step /\ Current.open \in Seq(PathEntry)
  BY <1>1, BlockHere DEF TypeOK, Step
<1>4. ExecutedHere
  BY <1>1, <1>3 DEF ExecutedHere
<1>5. path' \in Seq(PathEntry) /\ InOrder(path') /\ Indexes(path') = Indexes(path) \cup Own
  BY <1>1, <1>3, Settled
<1>6. RecordedHere
  BY <1>5 DEF RecordedHere
<1> QED BY <1>1, <1>2, <1>4, <1>6, PopKeepsPath

\* At the head of a block nothing is executed; the block left open is recorded.
LEMMA OutOfGasAtHeadPath ==
  ASSUME IInv, PathInv, OutOfGasAtHead
  PROVE  PathInv'
<1> DEFINE open == Current.open
           tail == IF At.single /\ At.tail # "fall" THEN At.tail ELSE "other"
           r    == [k \in DOMAIN open |-> [open[k] EXCEPT !.tail = tail]]
           N    == Len(executed)
<1>1. /\ TypeOK /\ InCode /\ Running /\ code' = code /\ faulted' = faulted /\ frames' = Front(frames)
      /\ path' = path \o r /\ executed' = executed
  BY DEF IInv, OutOfGasAtHead, ClosedByError, Fails, Fixed
<1>2. open \in Seq(PathEntry) /\ Len(open) \in Nat /\ tail \in Tails \cup {"other"}
  BY <1>1, BlockHere
<1> HIDE DEF open, tail
<1>3. \A e \in PathEntry : LET c == [e EXCEPT !.tail = tail]
                           IN  c \in PathEntry /\ c.index = e.index /\ c.single = e.single
  BY <1>2 DEF PathEntry
<1>4. /\ r \in Seq(PathEntry) /\ Len(r) = Len(open)
      /\ r # << >> => r[1].index = open[1].index /\ r[1].single = open[1].single
  <2>1. \A k \in DOMAIN open : open[k] \in PathEntry
    BY <1>2
  <2>2. \A k \in DOMAIN open : r[k] \in PathEntry /\ r[k].index = open[k].index /\ r[k].single = open[k].single
    BY <1>3, <2>1
  <2>3. 1 .. Len(open) = DOMAIN r /\ 1 .. Len(open) = DOMAIN open
    BY <1>2
  <2> HIDE DEF r
  <2>4. r = [k \in 1 .. Len(open) |-> r[k]]
    BY <2>3 DEF r
  <2>5. r \in Seq(PathEntry) /\ Len(r) = Len(open)
    <3>1. r \in [1 .. Len(open) -> PathEntry]
      BY <2>2, <2>3, <2>4, Zenon
    <3> QED BY <1>2, <3>1, ListOf
  <2>6. r # << >> => 1 \in DOMAIN open
    BY <1>2, <2>5
  <2> QED BY <2>2, <2>5, <2>6
<1> HIDE DEF r
<1>5. /\ path' \in Seq(PathEntry) /\ InOrder(path') /\ Indexes(path') = Indexes(path) \cup Own
  BY <1>1, <1>4, Settled DEF open
<1>6. N \in Nat /\ executed \in Seq(Step)
  BY <1>1 DEF TypeOK, Step
<1>7. ExecutedHere /\ Len(executed') # N + 1
  BY <1>1, <1>6 DEF ExecutedHere
<1>8. RecordedHere
  BY <1>5 DEF RecordedHere
<1> QED BY <1>1, <1>7, <1>8, PopKeepsPath

\* An execution begins with nothing executed and one call, at the root.
LEMMA BeginPath ==
  ASSUME TypeOK', path' = << >>, executed' = << >>, frames' = <<Frame(Root, << >>)>>
  PROVE  PathInv'
<1> DEFINE f == Frame(Root, << >>)
<1>1. f.open = << >> /\ f.pos = << >> /\ Len(f.pos) = 0
  BY DEF Frame
<1> HIDE DEF f
<1>2. Len(frames') = 1 /\ DOMAIN frames' = {1} /\ frames'[1] = f
  BY DEF f
<1>3. DOMAIN path' = {} /\ DOMAIN executed' = {}
  OBVIOUS
<1>4. InOrder(path') /\ Indexes(path') = {}
  BY <1>3 DEF InOrder, Indexes
<1>5. PendingOK' /\ Numbered'
  BY <1>1, <1>2, <1>3 DEF PendingOK, Pending, Numbered
<1>6. Nested'
  BY <1>1, <1>2 DEF Nested
<1> QED BY <1>3, <1>4, <1>5, <1>6 DEF PathInv

\* The same of the first state.
LEMMA InitPath ==
  ASSUME Init
  PROVE  PathInv
<1> DEFINE f == Frame(Root, << >>)
<1>1. f.open = << >> /\ f.pos = << >> /\ Len(f.pos) = 0
  BY DEF Frame
<1> HIDE DEF f
<1>2. Len(frames) = 1 /\ DOMAIN frames = {1} /\ frames[1] = f /\ path = << >> /\ executed = << >>
  BY DEF f, Init
<1>3. DOMAIN path = {} /\ DOMAIN executed = {}
  BY <1>2
<1>4. InOrder(path) /\ Indexes(path) = {}
  BY <1>3 DEF InOrder, Indexes
<1>5. PendingOK /\ Numbered
  BY <1>1, <1>2, <1>3 DEF PendingOK, Pending, Numbered
<1>6. Nested
  BY <1>1, <1>2 DEF Nested
<1> QED BY <1>3, <1>4, <1>5, <1>6 DEF PathInv

LEMMA UnchangedPath ==
  ASSUME PathInv, UNCHANGED <<code, frames, path, executed, faulted>>
  PROVE  PathInv'
<1>1. InOrder(path') /\ Indexes(path') \subseteq 1 .. Len(executed')
  BY DEF PathInv
<1>2. PendingOK' /\ Nested' /\ Numbered'
  BY DEF PathInv, PendingOK, Pending, Nested, Numbered, Below, EarlierChild
<1>3. \A i \in DOMAIN executed' :
       \/ i \in Indexes(path') \/ EndedCall(i)'
       \/ \E d \in DOMAIN frames' : Pending(d)' /\ frames'[d].open[1].index = i
  BY DEF PathInv, EndedCall, Pending
<1> QED BY <1>1, <1>2, <1>3 DEF PathInv

LEMMA NextPath ==
  ASSUME IInv, PathInv, [Next]_vars
  PROVE  PathInv'
<1>1. CASE StartAttack
  <2>1. TypeOK' /\ path' = << >> /\ executed' = << >> /\ frames' = <<Frame(Root, << >>)>>
    BY <1>1, NextKeeps DEF IInv, StartAttack
  <2> QED BY <2>1, BeginPath
<1>2. CASE EndAttack \/ Analyze \/ UNCHANGED vars
  BY <1>2, UnchangedPath DEF EndAttack, Analyze, vars
<1> QED BY <1>1, <1>2, JumpPath, FallPath, CallPath, RefusedCallPath, ReturnPath, FaultAtTailPath,
           FaultInsidePath, OutOfGasAtHeadPath, OutOfGasInsidePath, OutOfGasAtTailPath DEF Next

LEMMA PathInductive == Spec => []PathInv
BY InitPath, NextPath, Inductive, PTL DEF Spec

---------------------------------------------------------------------------
\* The first block of both paths.

LEMMA ConcatFirst ==
  ASSUME NEW p \in Seq(PathEntry), NEW q \in Seq(PathEntry)
  PROVE  /\ p # << >> => p \o q # << >> /\ (p \o q)[1] = p[1]
         /\ << >> \o q = q
OBVIOUS

LEMMA FirstProgram ==
  ASSUME IInv, Running, frames = <<Frame(Root, << >>)>>
  PROVE  /\ Current = Frame(Root, << >>) /\ Front(frames) = << >>
         /\ At.tail \in {"jump", "call"} => ~At.single
<1>1. Current = Frame(Root, << >>)
  BY LastOfOne DEF Current
<1>2. IsProgram(code)
  BY ProgramsAssumption DEF IInv, TypeOK
<1>3. Current.code = Root /\ Current.pc = 1 /\ Root \in DOMAIN code /\ 1 \in DOMAIN code[Root]
  BY <1>1, <1>2 DEF Frame, IsProgram
<1>4. At.tail \in {"jump", "call"} => ~At.single
  BY <1>2, <1>3 DEF IsProgram, At
<1>5. Front(frames) = << >>
  BY DEF Front
<1> QED BY <1>1, <1>4, <1>5

\* A path that grows keeps its first block, or takes the one left open for it.
LEMMA FirstGrows ==
  ASSUME IInv, FirstBlock, Running, NEW new \in Seq(PathEntry),
         path' = path \o new, free' = free,
         path = << >> => \/ new # << >> /\ IsFirst(new[1])
                         \/ new = << >> /\ frames' = << >>
                         \/ /\ new = << >> /\ Len(frames') = 1
                            /\ frames'[1].open # << >> /\ IsFirst(frames'[1].open[1])
  PROVE  FirstBlock'
<1>1. path \in Seq(PathEntry)
  BY DEF IInv, TypeOK
<1>2. path # << >> => path' # << >> /\ path'[1] = path[1]
  BY <1>1, ConcatFirst
<1>3. path = << >> => path' = new
  BY <1>1, ConcatFirst
<1>4. CASE path # << >>
  BY <1>2, <1>4 DEF FirstBlock, IsFirst
<1>5. CASE path = << >>
  BY <1>3, <1>5 DEF FirstBlock, IsFirst
<1> QED BY <1>4, <1>5

\* The block that is entered first is the first block.
LEMMA EnterFirst ==
  ASSUME IInv, FirstBlock, Running, NEW b \in PathEntry, Enter(b), free' = free,
         b.code = Current.code, b.pc = Current.pc, b.pos = Current.pos,
         frames = <<Frame(Root, << >>)>> /\ (At.single \/ At.tail = "fall") =>
           \/ frames' = << >>
           \/ Len(frames') = 1 /\ frames'[1].open = <<b>>
  PROVE  FirstBlock'
<1> DEFINE new == Closed(b)
<1>1. Current.open \in Seq(PathEntry) /\ frames \in Seq(CallFrame)
  BY BlockHere DEF IInv, TypeOK
<1>2. new \in Seq(PathEntry) /\ path' = path \o new
  BY <1>1 DEF Closed, Enter
<1>3. CASE path # << >>
  BY <1>2, <1>3, FirstGrows
<1>4. CASE path = << >> /\ frames = <<Frame(Root, << >>)>>
  <2>1. IsFirst(b) /\ Current.open = << >>
    BY <1>4, FirstProgram DEF Frame, IsFirst
  <2>2. CASE At.single \/ At.tail = "fall"
    <3>1. new = << >>
      BY <2>1, <2>2 DEF Closed
    <3>2. <<b>> # << >> /\ <<b>>[1] = b
      OBVIOUS
    <3> HIDE DEF new
    <3> QED BY <1>2, <1>4, <2>1, <2>2, <3>1, <3>2, FirstGrows
  <2>3. CASE ~(At.single \/ At.tail = "fall")
    <3>1. new = <<b>>
      BY <2>1, <2>3 DEF Closed
    <3>2. <<b>> # << >> /\ <<b>>[1] = b
      OBVIOUS
    <3> HIDE DEF new
    <3> QED BY <1>2, <1>4, <2>1, <3>1, <3>2, FirstGrows
  <2> QED BY <2>2, <2>3
<1>5. CASE path = << >> /\ Len(frames) = 1 /\ frames[1].open # << >> /\ IsFirst(frames[1].open[1])
  <2>1. Current = frames[1]
    BY <1>1, <1>5 DEF Current, Last
  <2>2. new # << >> /\ new[1] = Current.open[1]
    <3> DEFINE rest == IF At.single \/ At.tail = "fall" THEN << >> ELSE <<b>>
    <3>1. rest \in Seq(PathEntry) /\ new = Current.open \o rest
      BY DEF Closed
    <3> HIDE DEF rest, new
    <3> QED BY <1>1, <1>5, <2>1, <3>1, ConcatFirst
  <2> HIDE DEF new
  <2> QED BY <1>2, <1>5, <2>1, <2>2, FirstGrows
<1>6. frames # << >>
  BY DEF Running
<1> QED BY <1>3, <1>4, <1>5, <1>6 DEF FirstBlock

\* A block goes on in the same call only if it is not single.
LEMMA GoesOnFirst ==
  ASSUME IInv, Running, NEW f, frames' = SetCurrent(f), frames = <<Frame(Root, << >>)>>
  PROVE  Len(frames') = 1 /\ frames'[1] = f
<1>1. frames' = <<f>>
  BY FirstProgram DEF SetCurrent
<1> QED BY <1>1

LEMMA FirstKeeps ==
  ASSUME IInv, FirstBlock, [Next]_vars
  PROVE  FirstBlock'
<1>0. TypeOK /\ InCode
  BY DEF IInv
<1>1. CASE Jump
  <2>1. Running /\ At.tail = "jump" /\ free' = free /\ "jump" \in Tails \cup {"other"}
    BY <1>1 DEF Jump, Fixed, Tails
  <2>2. PICK pc \in At.next, amount \in At.pays : Enter(Entry("jump", amount, Current.pos))
    BY <1>1 DEF Jump
  <2>3. amount \in Int /\ Current.pos \in Position
    BY <1>0, <2>1, BlockHere
  <2> DEFINE e == Entry("jump", amount, Current.pos)
  <2>4. e \in PathEntry /\ e.code = Current.code /\ e.pc = Current.pc /\ e.pos = Current.pos
    BY <1>0, <2>1, <2>3, EntryType
  <2> HIDE DEF e
  <2> QED BY <2>1, <2>2, <2>4, FirstProgram, EnterFirst DEF e
<1>2. CASE Fall
  <2>1. Running /\ At.tail = "fall" /\ free' = free /\ "other" \in Tails \cup {"other"}
    BY <1>2 DEF Fall, Fixed
  <2>2. PICK amount \in At.pays :
          /\ Enter(Entry("other", amount, Current.pos))
          /\ frames' = SetCurrent(Moved(Current, Entry("other", amount, Current.pos), Current.pc + 1))
    BY <1>2 DEF Fall
  <2>3. amount \in Int /\ Current.pos \in Position /\ Current.pc + 1 \in DOMAIN code[Current.code]
    BY <1>0, <2>1, BlockHere
  <2> DEFINE e == Entry("other", amount, Current.pos)
             f == Moved(Current, e, Current.pc + 1)
  <2>4. e \in PathEntry /\ e.code = Current.code /\ e.pc = Current.pc /\ e.pos = Current.pos
    BY <1>0, <2>1, <2>3, EntryType
  <2> HIDE DEF e
  <2>5. f.open = <<e>>
    BY <1>0, <2>1, <2>3, <2>4, MovedType DEF Opened
  <2>6. Enter(e) /\ frames' = SetCurrent(f)
    BY <2>2 DEF e
  <2> HIDE DEF f
  <2>7. frames = <<Frame(Root, << >>)>> => Len(frames') = 1 /\ frames'[1] = f
    BY <2>1, <2>6, GoesOnFirst
  <2> QED BY <2>1, <2>4, <2>5, <2>6, <2>7, EnterFirst
<1>3. CASE Call
  <2>1. Running /\ At.tail = "call" /\ free' = free /\ "call" \in Tails \cup {"other"}
    BY <1>3 DEF Call, Fixed, Tails
  <2>2. PICK a \in At.to, amount \in At.pays :
          Enter(Entry("call", amount, IF At.value THEN ChildPosition ELSE Current.pos))
    BY <1>3 DEF Call
  <2> DEFINE holder == IF At.value THEN ChildPosition ELSE Current.pos
             e      == Entry("call", amount, holder)
  <2>3. amount \in Int /\ holder \in Position
    BY <1>0, <2>1, BlockHere DEF ChildPosition, Position
  <2>4. Enter(e)
    BY <2>2
  <2> HIDE DEF holder
  <2>5. e \in PathEntry /\ e.code = Current.code /\ e.pc = Current.pc /\ e.pos = Current.pos
    BY <1>0, <2>1, <2>3, EntryType
  <2> HIDE DEF e
  <2> QED BY <2>1, <2>4, <2>5, FirstProgram, EnterFirst
<1>4. CASE RefusedCall
  <2>1. Running /\ At.tail = "call" /\ free' = free /\ "call" \in Tails \cup {"other"} /\ 0 \in Int
    BY <1>4 DEF RefusedCall, Fixed, Tails
  <2>2. Enter(Entry("call", 0, Current.pos))
    BY <1>4 DEF RefusedCall
  <2>3. Current.pos \in Position
    BY <1>0, <2>1, BlockHere
  <2> DEFINE e == Entry("call", 0, Current.pos)
  <2>4. e \in PathEntry /\ e.code = Current.code /\ e.pc = Current.pc /\ e.pos = Current.pos
    BY <1>0, <2>1, <2>3, EntryType
  <2> HIDE DEF e
  <2> QED BY <2>1, <2>2, <2>4, FirstProgram, EnterFirst DEF e
<1>5. CASE Return
  <2>1. Running /\ At.tail \in {"return", "revert"} /\ free' = free /\ frames' = Front(frames)
        /\ At.tail \in Tails \cup {"other"}
    BY <1>5 DEF Return, Fixed, Tails
  <2>2. PICK amount \in At.pays : Enter(Entry(At.tail, amount, Current.pos))
    BY <1>5 DEF Return
  <2>3. amount \in Int /\ Current.pos \in Position
    BY <1>0, <2>1, BlockHere
  <2> DEFINE e == Entry(At.tail, amount, Current.pos)
  <2>4. e \in PathEntry /\ e.code = Current.code /\ e.pc = Current.pc /\ e.pos = Current.pos
    BY <1>0, <2>1, <2>3, EntryType
  <2> HIDE DEF e
  <2> QED BY <2>1, <2>2, <2>4, FirstProgram, EnterFirst DEF e
<1>6. CASE FaultAtTail
  <2>1. Running /\ free' = free /\ 0 \in Int /\ frames' = Front(frames)
        /\ Enter(Entry(At.tail, 0, Current.pos))
    BY <1>6 DEF FaultAtTail, Fails, Fixed
  <2>3. Current.pos \in Position /\ At.tail \in Tails \cup {"other"}
    BY <1>0, <2>1, BlockHere
  <2> DEFINE e == Entry(At.tail, 0, Current.pos)
  <2>4. e \in PathEntry /\ e.code = Current.code /\ e.pc = Current.pc /\ e.pos = Current.pos
    BY <1>0, <2>1, <2>3, EntryType
  <2> HIDE DEF e
  <2> QED BY <2>1, <2>4, FirstProgram, EnterFirst DEF e
<1>7. CASE OutOfGasAtTail
  <2>1. Running /\ free' = free /\ 0 \in Int /\ frames' = Front(frames)
        /\ Enter(Entry(At.tail, 0, Current.pos))
    BY <1>7 DEF OutOfGasAtTail, Fails, Fixed
  <2>3. Current.pos \in Position /\ At.tail \in Tails \cup {"other"}
    BY <1>0, <2>1, BlockHere
  <2> DEFINE e == Entry(At.tail, 0, Current.pos)
  <2>4. e \in PathEntry /\ e.code = Current.code /\ e.pc = Current.pc /\ e.pos = Current.pos
    BY <1>0, <2>1, <2>3, EntryType
  <2> HIDE DEF e
  <2> QED BY <2>1, <2>4, FirstProgram, EnterFirst DEF e
<1>8. CASE OutOfGasAtHead
  <2>1. Running /\ free' = free /\ frames' = Front(frames) /\ path' = path \o ClosedByError
    BY <1>8 DEF OutOfGasAtHead, Fails, Fixed
  <2> DEFINE new  == ClosedByError
             tail == IF At.single /\ At.tail # "fall" THEN At.tail ELSE "other"
  <2>2. Current.open \in Seq(PathEntry) /\ frames \in Seq(CallFrame)
        /\ tail \in Tails \cup {"other"}
    BY <1>0, <2>1, BlockHere DEF TypeOK
  <2>a. new = [k \in DOMAIN Current.open |-> [Current.open[k] EXCEPT !.tail = tail]]
    BY DEF ClosedByError
  <2> HIDE DEF new, tail
  <2>3. \A x \in PathEntry : LET c == [x EXCEPT !.tail = tail]
                             IN  c \in PathEntry /\ (IsFirst(x) => IsFirst(c))
    BY <2>2 DEF PathEntry, IsFirst
  <2>4. /\ new \in Seq(PathEntry) /\ Len(new) = Len(Current.open)
        /\ Current.open # << >> => new # << >> /\ (IsFirst(Current.open[1]) => IsFirst(new[1]))
    <3>1. \A k \in 1 .. Len(Current.open) : Current.open[k] \in PathEntry
      BY <2>2
    <3>2. new = [k \in 1 .. Len(Current.open) |-> [Current.open[k] EXCEPT !.tail = tail]]
      BY <2>2, <2>a
    <3>3. \A k \in 1 .. Len(Current.open) :
            new[k] \in PathEntry /\ (IsFirst(Current.open[k]) => IsFirst(new[k]))
      BY <2>3, <3>1, <3>2
    <3>4. Len(Current.open) \in Nat /\ new = [k \in 1 .. Len(Current.open) |-> new[k]]
      BY <2>2, <3>2
    <3>5. new \in [1 .. Len(Current.open) -> PathEntry]
      BY <3>3, <3>4, Zenon
    <3>6. new \in Seq(PathEntry) /\ Len(new) = Len(Current.open)
      BY <3>4, <3>5, ListOf
    <3>7. Current.open # << >> => 1 \in 1 .. Len(Current.open) /\ new # << >>
      BY <2>2, <3>6
    <3> QED BY <3>3, <3>6, <3>7
  <2>5. path' = path \o new
    BY <2>1 DEF new
  <2>6. CASE path # << >>
    BY <2>1, <2>4, <2>5, <2>6, FirstGrows
  <2>7. CASE path = << >> /\ frames = <<Frame(Root, << >>)>>
    <3>1. frames' = << >> /\ Current.open = << >>
      BY <2>1, <2>7, FirstProgram DEF Frame
    <3>2. new = << >>
      BY <2>4, <3>1
    <3> QED BY <2>1, <2>4, <2>5, <2>7, <3>1, <3>2, FirstGrows
  <2>8. CASE path = << >> /\ Len(frames) = 1 /\ frames[1].open # << >> /\ IsFirst(frames[1].open[1])
    <3>1. Current = frames[1]
      BY <2>2, <2>8 DEF Current, Last
    <3> QED BY <2>1, <2>4, <2>5, <2>8, <3>1, FirstGrows
  <2> QED BY <2>1, <2>6, <2>7, <2>8 DEF FirstBlock, Running
<1>9. CASE OutOfGasInside
  <2> DEFINE e   == Entry("other", 0, Current.pos)
             new == Current.open \o <<e>>
  <2>1. Running /\ free' = free /\ "other" \in Tails \cup {"other"} /\ 0 \in Int
        /\ path' = path \o Current.open \o <<e>>
    BY <1>9 DEF OutOfGasInside, Fails, Fixed
  <2>2. Current.pos \in Position /\ Current.open \in Seq(PathEntry) /\ path \in Seq(PathEntry)
        /\ frames \in Seq(CallFrame)
    BY <1>0, <2>1, BlockHere DEF TypeOK
  <2>3. e \in PathEntry /\ e.code = Current.code /\ e.pc = Current.pc /\ e.pos = Current.pos
    BY <1>0, <2>1, <2>2, EntryType
  <2> HIDE DEF e
  <2>4. path' = path \o new
    BY <2>1, <2>2, <2>3, ConcatThree
  <2>5. new \in Seq(PathEntry) /\ <<e>> \in Seq(PathEntry) /\ <<e>> # << >> /\ <<e>>[1] = e
    BY <2>2, <2>3
  <2>6. CASE path # << >>
    BY <2>1, <2>4, <2>5, <2>6, FirstGrows
  <2>7. CASE path = << >> /\ frames = <<Frame(Root, << >>)>>
    <3>1. Current.open = << >> /\ IsFirst(e)
      BY <2>1, <2>3, <2>7, FirstProgram DEF Frame, IsFirst
    <3>2. new = <<e>>
      BY <2>5, <3>1, ConcatFirst
    <3> HIDE DEF new
    <3> QED BY <2>1, <2>4, <2>5, <2>7, <3>1, <3>2, FirstGrows
  <2>8. CASE path = << >> /\ Len(frames) = 1 /\ frames[1].open # << >> /\ IsFirst(frames[1].open[1])
    <3>1. Current = frames[1]
      BY <2>2, <2>8 DEF Current, Last
    <3>2. new # << >> /\ new[1] = Current.open[1]
      BY <2>2, <2>5, <2>8, <3>1, ConcatFirst
    <3> HIDE DEF new
    <3> QED BY <2>1, <2>4, <2>5, <2>8, <3>1, <3>2, FirstGrows
  <2> QED BY <2>1, <2>6, <2>7, <2>8 DEF FirstBlock, Running
<1>12. CASE FaultInside
  <2> DEFINE new == Current.open
  <2>1. Running /\ free' = free /\ frames' = Front(frames) /\ path' = path \o new
    BY <1>12 DEF FaultInside
  <2>2. new \in Seq(PathEntry) /\ frames \in Seq(CallFrame)
    BY <1>0, <2>1, BlockHere DEF TypeOK
  <2>6. CASE path # << >>
    BY <2>1, <2>2, <2>6, FirstGrows
  <2>7. CASE path = << >> /\ frames = <<Frame(Root, << >>)>>
    <3>1. frames' = << >> /\ new = << >>
      BY <2>1, <2>7, FirstProgram DEF Frame
    <3> QED BY <2>1, <2>2, <2>7, <3>1, FirstGrows
  <2>8. CASE path = << >> /\ Len(frames) = 1 /\ frames[1].open # << >> /\ IsFirst(frames[1].open[1])
    <3>1. Current = frames[1]
      BY <2>2, <2>8 DEF Current, Last
    <3>2. new # << >> /\ IsFirst(new[1])
      BY <2>8, <3>1
    <3> HIDE DEF new
    <3> QED BY <2>1, <2>2, <2>8, <3>2, FirstGrows
  <2> QED BY <2>1, <2>6, <2>7, <2>8 DEF FirstBlock, Running
<1>10. CASE StartAttack
  <2>1. path' = << >> /\ free'.path = path /\ frames' = <<Frame(Root, << >>)>>
    BY <1>10 DEF StartAttack
  <2> QED BY <2>1 DEF FirstBlock, IsFirst
<1>11. CASE EndAttack \/ Analyze \/ UNCHANGED vars
  <2>1. UNCHANGED <<path, free, frames>>
    BY <1>11 DEF EndAttack, Analyze, vars
  <2> QED BY <2>1 DEF FirstBlock, IsFirst
<1> QED BY <1>1, <1>2, <1>3, <1>4, <1>5, <1>6, <1>7, <1>8, <1>9, <1>10, <1>11, <1>12 DEF Next

LEMMA FirstInductive == Spec => []FirstBlock
<1>1. Init => FirstBlock
  BY DEF Init, FirstBlock
<1> QED BY <1>1, FirstKeeps, Inductive, PTL DEF Spec

---------------------------------------------------------------------------
\* The sections of the two paths.

LEMMA NatMin ==
  ASSUME NEW T \in SUBSET Nat, T # {}
  PROVE  \E x \in T : \A y \in T : x <= y
<1>1. PICK x \in T : \A y \in T : ~(<<y, x>> \in OpToRel(<, Nat))
  BY NatLessThanWellFounded, WFMin
<1>2. \A y \in T : ~(y < x)
  BY <1>1 DEF OpToRel
<1> QED BY <1>2

LEMMA MinOfPlaces ==
  ASSUME NEW T \in SUBSET Nat, T # {}
  PROVE  Min(T) \in T /\ \A y \in T : Min(T) <= y
BY NatMin DEF Min

PathsOK == path \in Seq(PathEntry) /\ free.path \in Seq(PathEntry)

SectionType == [kind : {"common", "branch", "rest"}, from1 : Nat \ {0}, to1 : Nat \ {0},
                from2 : Nat \ {0}, to2 : Nat \ {0}]

From(s) == <<s.from1, s.from2>>
To(s)   == <<s.to1, s.to2>>

\* The first pair of equal blocks is one.
LEMMA FirstOfMeets ==
  ASSUME NEW pairs \in SUBSET (Nat \X Nat), pairs # {}
  PROVE  FirstOf(pairs) \in pairs
<1> DEFINE firsts == {q[1] : q \in pairs}
           j1     == Min(firsts)
           rest   == {q \in pairs : q[1] = j1}
           j2     == Min({q[2] : q \in rest})
<1>1. firsts \in SUBSET Nat /\ firsts # {}
  OBVIOUS
<1>2. j1 \in firsts
  BY <1>1, MinOfPlaces
<1>3. rest # {}
  BY <1>2
<1>4. {q[2] : q \in rest} \in SUBSET Nat /\ {q[2] : q \in rest} # {}
  BY <1>3
<1>5. j2 \in {q[2] : q \in rest}
  BY <1>4, MinOfPlaces
<1>6. PICK q \in rest : q[2] = j2
  BY <1>5
<1>7. q = <<j1, j2>> /\ q \in pairs
  BY <1>6
<1>8. FirstOf(pairs) = <<j1, j2>>
  BY DEF FirstOf
<1> QED BY <1>7, <1>8

\* A section begins where it should, and leads on; a block of both is the same,
\* and where they part, the blocks are not.
LEMMA SectionFacts ==
  ASSUME PathsOK, NEW p \in Places, ~AtEnd(p)
  PROVE  LET s == SectionAt(p)
         IN  /\ s \in SectionType /\ From(s) = p /\ To(s) \in Places
             /\ p[1] <= s.to1 /\ p[2] <= s.to2 /\ p[1] + p[2] < s.to1 + s.to2
             /\ s.kind = "common" =>
                  Same(path[p[1]], free.path[p[2]]) /\ s.to1 = p[1] + 1 /\ s.to2 = p[2] + 1
             /\ s.kind # "common" => ~Same(path[p[1]], free.path[p[2]])
             /\ s.kind = "branch" =>
                  ~AtEnd(To(s)) /\ Same(path[s.to1], free.path[s.to2])
             /\ s.kind = "rest" => s.to1 = Len(path) + 1 /\ s.to2 = Len(free.path) + 1
<1> DEFINE n1 == Len(path)
           n2 == Len(free.path)
           s  == SectionAt(p)
<1>1. n1 \in Nat /\ n2 \in Nat
  BY DEF PathsOK
<1>2. /\ p = <<p[1], p[2]>> /\ p[1] \in 1 .. n1 + 1 /\ p[2] \in 1 .. n2 + 1
      /\ p[1] <= n1 /\ p[2] <= n2
  BY <1>1 DEF Places, AtEnd
<1>3. /\ \A j \in Meeting(p) :
           /\ j = <<j[1], j[2]>> /\ j[1] \in p[1] .. n1 /\ j[2] \in p[2] .. n2
           /\ Same(path[j[1]], free.path[j[2]])
      /\ p \in Meeting(p) <=> Same(path[p[1]], free.path[p[2]])
  BY <1>1, <1>2 DEF Meeting
<1>4. CASE Meeting(p) = {}
  <2>1. s = [kind |-> "rest", from1 |-> p[1], to1 |-> n1 + 1, from2 |-> p[2], to2 |-> n2 + 1]
    BY <1>4 DEF SectionAt, Section
  <2>2. ~Same(path[p[1]], free.path[p[2]])
    BY <1>3, <1>4
  <2> HIDE DEF s
  <2>3. /\ s.kind = "rest" /\ s.from1 = p[1] /\ s.from2 = p[2]
        /\ s.to1 = n1 + 1 /\ s.to2 = n2 + 1 /\ s \in SectionType
    BY <1>1, <1>2, <2>1 DEF SectionType
  <2>4. From(s) = p /\ To(s) \in Places
    BY <1>1, <1>2, <2>3 DEF From, To, Places
  <2>5. p[1] <= s.to1 /\ p[2] <= s.to2 /\ p[1] + p[2] < s.to1 + s.to2
    <3> HIDE DEF n1, n2
    <3>1. p[1] \in Nat /\ p[2] \in Nat /\ p[1] < n1 + 1 /\ p[2] < n2 + 1
      BY <1>1, <1>2
    <3>2. p[1] + p[2] < (n1 + 1) + (n2 + 1)
      BY <1>1, <3>1
    <3>3. s.to1 = n1 + 1 /\ s.to2 = n2 + 1
      BY <2>3
    <3>4. p[1] <= s.to1 /\ p[2] <= s.to2
      BY <1>1, <3>1, <3>3
    <3>5. p[1] + p[2] < s.to1 + s.to2
      BY <3>2, <3>3
    <3> QED BY <3>4, <3>5
  <2>6. s.kind # "common" /\ s.kind # "branch"
    BY <2>3
  <2> QED BY <2>2, <2>3, <2>4, <2>5, <2>6 DEF s
<1>5. CASE p \in Meeting(p)
  <2>1. s = [kind |-> "common", from1 |-> p[1], to1 |-> p[1] + 1, from2 |-> p[2], to2 |-> p[2] + 1]
    BY <1>5 DEF SectionAt, Section
  <2>2. Same(path[p[1]], free.path[p[2]])
    BY <1>3, <1>5
  <2> HIDE DEF s
  <2>3. /\ s.kind = "common" /\ s.from1 = p[1] /\ s.from2 = p[2]
        /\ s.to1 = p[1] + 1 /\ s.to2 = p[2] + 1
    BY <2>1
  <2>4. s \in SectionType
    BY <1>1, <1>2, <2>1 DEF SectionType
  <2>5. From(s) = p /\ To(s) \in Places
    <3>1. p[1] + 1 \in 1 .. n1 + 1 /\ p[2] + 1 \in 1 .. n2 + 1
      BY <1>1, <1>2
    <3> QED BY <1>2, <2>3, <3>1 DEF From, To, Places
  <2>6. p[1] <= s.to1 /\ p[2] <= s.to2 /\ p[1] + p[2] < s.to1 + s.to2
    BY <1>1, <1>2, <2>3
  <2>7. s.kind # "branch" /\ s.kind # "rest"
    BY <2>3
  <2> QED BY <2>2, <2>3, <2>4, <2>5, <2>6, <2>7 DEF s
<1>6. CASE Meeting(p) # {} /\ p \notin Meeting(p)
  <2> DEFINE j == FirstOf(Meeting(p))
  <2>1. Meeting(p) \in SUBSET (Nat \X Nat)
    BY <1>1, <1>2 DEF Meeting
  <2>2. j \in Meeting(p)
    BY <1>6, <2>1, FirstOfMeets
  <2>3. s = [kind |-> "branch", from1 |-> p[1], to1 |-> j[1], from2 |-> p[2], to2 |-> j[2]]
    BY <1>6 DEF SectionAt, Section
  <2>4. /\ j = <<j[1], j[2]>> /\ j[1] \in p[1] .. n1 /\ j[2] \in p[2] .. n2 /\ j # p
        /\ Same(path[j[1]], free.path[j[2]]) /\ ~Same(path[p[1]], free.path[p[2]])
    BY <1>3, <1>6, <2>2
  <2> HIDE DEF s, j
  <2>5. j[1] # p[1] \/ j[2] # p[2]
    BY <1>2, <2>4
  <2>6. /\ s.kind = "branch" /\ s.from1 = p[1] /\ s.from2 = p[2]
        /\ s.to1 = j[1] /\ s.to2 = j[2] /\ s \in SectionType
    BY <1>1, <1>2, <2>3, <2>4 DEF SectionType
  <2>7. To(s) \in Places /\ ~AtEnd(To(s))
    BY <1>1, <1>2, <2>4, <2>6 DEF To, Places, AtEnd
  <2> QED BY <1>1, <1>2, <2>4, <2>5, <2>6, <2>7 DEF From, s
<1> QED BY <1>4, <1>5, <1>6

\* What is left to cut.
Weight(p) == Len(path) + 1 - p[1] + (Len(free.path) + 1 - p[2])

\* The equation of the cut, for the places with at most that much left.
CutAt(cut, p) == IF AtEnd(p) THEN << >> ELSE <<SectionAt(p)>> \o cut[To(SectionAt(p))]
Light(m)      == {p \in Places : Weight(p) <= m}
IsCut(cut, m) == cut = [p \in Light(m) |-> CutAt(cut, p)]

LEMMA WeightFacts ==
  ASSUME PathsOK, NEW p \in Places
  PROVE  /\ Weight(p) \in Nat /\ Weight(p) <= Len(path) + Len(free.path)
         /\ ~AtEnd(p) => To(SectionAt(p)) \in Places /\ Weight(To(SectionAt(p))) < Weight(p)
<1> DEFINE n1 == Len(path)
           n2 == Len(free.path)
<1>1. n1 \in Nat /\ n2 \in Nat
  BY DEF PathsOK
<1>2. p[1] \in 1 .. n1 + 1 /\ p[2] \in 1 .. n2 + 1
  BY <1>1 DEF Places
<1>0. \A q : Weight(q) = n1 + 1 - q[1] + (n2 + 1 - q[2])
  BY DEF Weight
<1> HIDE DEF n1, n2
<1>3. ASSUME ~AtEnd(p)
      PROVE  To(SectionAt(p)) \in Places /\ Weight(To(SectionAt(p))) < Weight(p)
  <2> DEFINE s == SectionAt(p)
  <2>1. To(s) \in Places /\ p[1] + p[2] < s.to1 + s.to2 /\ s.to1 \in Nat /\ s.to2 \in Nat
    BY <1>3, SectionFacts DEF SectionType
  <2> HIDE DEF s
  <2>2. To(s)[1] = s.to1 /\ To(s)[2] = s.to2
    BY DEF To
  <2>3. Weight(To(s)) = n1 + 1 - s.to1 + (n2 + 1 - s.to2)
    BY <1>0, <2>2
  <2>4. Weight(p) = n1 + 1 - p[1] + (n2 + 1 - p[2])
    BY <1>0
  <2>5. Weight(To(s)) < Weight(p)
    BY <1>1, <1>2, <2>1, <2>3, <2>4
  <2> QED BY <2>1, <2>5 DEF s
<1>4. Weight(p) = n1 + 1 - p[1] + (n2 + 1 - p[2])
  BY <1>0
<1>5. Weight(p) \in Nat /\ Weight(p) <= n1 + n2
  BY <1>1, <1>2, <1>4
<1> QED BY <1>3, <1>5 DEF n1, n2

LEMMA CutExists ==
  ASSUME PathsOK, NEW m \in Nat
  PROVE  \E cut : IsCut(cut, m)
<1> DEFINE D == {k \in Nat : ~\E cut : IsCut(cut, k)}
<1> SUFFICES ASSUME D # {} PROVE FALSE
  OBVIOUS
<1>1. PICK k \in D : \A i \in D : k <= i
  <2>1. D \in SUBSET Nat
    OBVIOUS
  <2> HIDE DEF D
  <2> QED BY <2>1, NatMin
<1>2. k \in Nat /\ ~\E cut : IsCut(cut, k)
  BY <1>1
<1>3. \E old : k # 0 => IsCut(old, k - 1)
  <2>1. CASE k = 0
    BY <2>1
  <2>2. CASE k # 0
    <3>1. k - 1 \in Nat /\ ~(k <= k - 1)
      BY <1>2, <2>2
    <3>2. k - 1 \notin D
      BY <1>1, <3>1
    <3> QED BY <3>1, <3>2
  <2> QED BY <2>1, <2>2
<1>4. PICK old : k # 0 => IsCut(old, k - 1)
  BY <1>3
<1> DEFINE new == [p \in Light(k) |-> CutAt(old, p)]
<1>5. ASSUME NEW p \in Light(k)
      PROVE  CutAt(old, p) = CutAt(new, p)
  <2> DEFINE t == To(SectionAt(p))
  <2>1. p \in Places /\ Weight(p) \in Nat /\ Weight(p) <= k
    BY <1>5, WeightFacts DEF Light
  <2>2. CASE AtEnd(p)
    BY <2>2 DEF CutAt
  <2>3. CASE ~AtEnd(p)
    <3>1. t \in Places /\ Weight(t) < Weight(p)
      BY <2>1, <2>3, WeightFacts
    <3>2. Weight(t) \in Nat
      BY <3>1, WeightFacts
    <3> HIDE DEF t
    <3>3. k # 0 /\ Weight(t) <= k - 1 /\ Weight(t) <= k
      BY <1>2, <2>1, <3>1, <3>2
    <3>4. t \in Light(k - 1) /\ t \in Light(k)
      BY <3>1, <3>3 DEF Light
    <3>5. old[t] = CutAt(old, t)
      BY <1>4, <3>3, <3>4 DEF IsCut
    <3>6. new[t] = CutAt(old, t)
      BY <3>4
    <3> QED BY <3>5, <3>6 DEF CutAt, t
  <2> QED BY <2>2, <2>3
<1>6. IsCut(new, k)
  BY <1>5 DEF IsCut
<1> QED BY <1>2, <1>6

\* Sections is the value of a function that is such a cut everywhere.
LEMMA SectionsCut ==
  ASSUME PathsOK
  PROVE  \E cut : /\ Sections = cut[<<1, 1>>]
                  /\ \A p \in Places : cut[p] = CutAt(cut, p)
<1> DEFINE all     == Len(path) + Len(free.path)
           Eq(cut) == cut = [p \in Places |-> CutAt(cut, p)]
<1>1. all \in Nat
  BY DEF PathsOK
<1>2. Light(all) = Places
  BY WeightFacts DEF Light
<1>3. \E cut : Eq(cut)
  BY <1>1, <1>2, CutExists DEF IsCut
<1> DEFINE c == CHOOSE cut : Eq(cut)
<1>4. Eq(c)
  BY <1>3
<1>5. Sections = c[<<1, 1>>]
  BY DEF Sections, CutAt, To
<1> HIDE DEF c
<1> QED BY <1>4, <1>5

\* The sections from p on: each begins where the one before ends.
Chain(p, s) ==
  /\ s \in Seq(SectionType)
  /\ s = << >> <=> AtEnd(p)
  /\ s # << >> => From(s[1]) = p /\ AtEnd(To(s[Len(s)]))
  /\ \A k \in 1 .. Len(s) : /\ From(s[k]) \in Places /\ ~AtEnd(From(s[k]))
                            /\ s[k] = SectionAt(From(s[k]))
  /\ \A k \in 1 .. Len(s) - 1 : From(s[k + 1]) = To(s[k])

LEMMA ChainGrows ==
  ASSUME PathsOK, NEW p \in Places, ~AtEnd(p), NEW t, Chain(To(SectionAt(p)), t)
  PROVE  Chain(p, <<SectionAt(p)>> \o t)
<1> DEFINE c == SectionAt(p)
           s == <<c>> \o t
<1>1. c \in SectionType /\ From(c) = p
  BY SectionFacts
<1>2. t \in Seq(SectionType) /\ Len(t) \in Nat
  BY DEF Chain
<1> DEFINE q == To(c)
<1>3. Chain(q, t)
  OBVIOUS
<1>0. c = SectionAt(From(c))
  BY <1>1
<1> HIDE DEF c, q
<1>4. /\ s \in Seq(SectionType) /\ Len(s) = Len(t) + 1 /\ s # << >> /\ s[1] = c
      /\ \A k \in 1 .. Len(t) : s[k + 1] = t[k]
  BY <1>1, <1>2
<1> HIDE DEF s
<1>5. AtEnd(To(s[Len(s)]))
  <2>1. CASE t = << >>
    <3>1. Len(s) = 1 /\ AtEnd(q)
      BY <1>2, <1>3, <1>4, <2>1 DEF Chain
    <3> QED BY <1>4, <3>1 DEF q
  <2>2. CASE t # << >>
    <3>1. Len(t) \in 1 .. Len(t)
      BY <1>2, <2>2
    <3>2. s[Len(s)] = t[Len(t)]
      BY <1>4, <3>1
    <3> QED BY <1>3, <2>2, <3>2 DEF Chain
  <2> QED BY <2>1, <2>2
<1>6. ASSUME NEW k \in 1 .. Len(s)
      PROVE  From(s[k]) \in Places /\ ~AtEnd(From(s[k])) /\ s[k] = SectionAt(From(s[k]))
  <2>1. CASE k = 1
    BY <1>1, <1>0, <1>4, <2>1
  <2>2. CASE k # 1
    <3>1. k - 1 \in 1 .. Len(t) /\ (k - 1) + 1 = k
      BY <1>2, <1>4, <2>2
    <3>2. s[k] = t[k - 1]
      BY <1>4, <3>1
    <3> QED BY <1>3, <3>1, <3>2 DEF Chain
  <2> QED BY <2>1, <2>2
<1>7. ASSUME NEW k \in 1 .. Len(s) - 1
      PROVE  From(s[k + 1]) = To(s[k])
  <2>0. k \in 1 .. Len(t) /\ s[k + 1] = t[k]
    BY <1>2, <1>4
  <2>1. CASE k = 1
    <3>1. t # << >>
      BY <1>2, <2>0
    <3>2. From(t[1]) = q
      BY <1>3, <3>1 DEF Chain
    <3> QED BY <1>4, <2>0, <2>1, <3>2 DEF q
  <2>2. CASE k # 1
    <3>1. k - 1 \in 1 .. Len(t) - 1 /\ k - 1 \in 1 .. Len(t) /\ (k - 1) + 1 = k
      BY <1>2, <2>0, <2>2
    <3>2. s[k] = t[k - 1]
      BY <1>4, <3>1
    <3>3. From(t[(k - 1) + 1]) = To(t[k - 1])
      BY <1>3, <3>1 DEF Chain
    <3> QED BY <2>0, <3>1, <3>2, <3>3
  <2> QED BY <2>1, <2>2
<1>8. From(s[1]) = p /\ s # << >>
  BY <1>1, <1>4
<1>9. Chain(p, s)
  BY <1>4, <1>5, <1>6, <1>7, <1>8 DEF Chain
<1> QED BY <1>9 DEF s, c

LEMMA CutChains ==
  ASSUME PathsOK, NEW cut, \A p \in Places : cut[p] = CutAt(cut, p),
         NEW p \in Places
  PROVE  Chain(p, cut[p])
<1> DEFINE W == {Weight(q) : q \in {r \in Places : ~Chain(r, cut[r])}}
<1> SUFFICES ASSUME W # {} PROVE FALSE
  OBVIOUS
<1>1. PICK w \in W : \A v \in W : w <= v
  <2>1. W \in SUBSET Nat
    BY WeightFacts
  <2> HIDE DEF W
  <2> QED BY <2>1, NatMin
<1>2. PICK q \in Places : w = Weight(q) /\ ~Chain(q, cut[q])
  BY <1>1
<1>3. CASE AtEnd(q)
  <2>1. cut[q] = << >>
    BY <1>3 DEF CutAt
  <2>2. Chain(q, << >>)
    BY <1>3 DEF Chain
  <2> QED BY <1>2, <2>1, <2>2
<1>4. CASE ~AtEnd(q)
  <2> DEFINE r == To(SectionAt(q))
  <2>1. r \in Places /\ Weight(r) < Weight(q) /\ Weight(q) \in Nat
    BY <1>4, WeightFacts
  <2>2. Weight(r) \in Nat
    BY <2>1, WeightFacts
  <2>3. Chain(r, cut[r])
    <3> SUFFICES ASSUME ~Chain(r, cut[r]) PROVE FALSE
      OBVIOUS
    <3>1. Weight(r) \in W
      BY <2>1
    <3> HIDE DEF W, r
    <3> QED BY <1>1, <1>2, <2>1, <2>2, <3>1
  <2>4. cut[q] = <<SectionAt(q)>> \o cut[r]
    BY <1>4 DEF CutAt
  <2>5. Chain(q, <<SectionAt(q)>> \o cut[r])
    BY <1>4, <2>3, ChainGrows
  <2> QED BY <1>2, <2>4, <2>5
<1> QED BY <1>3, <1>4

LEMMA SectionsChain ==
  ASSUME PathsOK
  PROVE  Chain(<<1, 1>>, Sections)
<1>1. <<1, 1>> \in Places
  BY DEF Places, PathsOK
<1>2. PICK cut : /\ Sections = cut[<<1, 1>>]
                 /\ \A p \in Places : cut[p] = CutAt(cut, p)
  BY SectionsCut
<1> QED BY <1>1, <1>2, CutChains

LEMMA ChainType ==
  ASSUME PathsOK, NEW s, Chain(<<1, 1>>, s), NEW k \in 1 .. Len(s)
  PROVE  /\ s[k] \in SectionType
         /\ From(s[k]) \in Places /\ ~AtEnd(From(s[k])) /\ s[k] = SectionAt(From(s[k]))
         /\ s[k].from1 \in DOMAIN path /\ s[k].from2 \in DOMAIN free.path
         /\ s[k].to1 \in s[k].from1 .. Len(path) + 1
         /\ s[k].to2 \in s[k].from2 .. Len(free.path) + 1
<1>1. /\ s[k] \in SectionType
      /\ From(s[k]) \in Places /\ ~AtEnd(From(s[k])) /\ s[k] = SectionAt(From(s[k]))
  BY DEF Chain
<1>2. /\ s[k].from1 \in Nat \ {0} /\ s[k].from2 \in Nat \ {0}
      /\ s[k].to1 \in Nat \ {0} /\ s[k].to2 \in Nat \ {0}
  BY <1>1 DEF SectionType
<1>3. Len(path) \in Nat /\ Len(free.path) \in Nat
  BY DEF PathsOK
<1>4. From(s[k])[1] = s[k].from1 /\ From(s[k])[2] = s[k].from2
  BY DEF From
<1>5. To(s[k]) \in Places /\ s[k].from1 <= s[k].to1 /\ s[k].from2 <= s[k].to2
  BY <1>1, <1>4, SectionFacts
<1>6. s[k].from1 <= Len(path) /\ s[k].from2 <= Len(free.path)
  BY <1>1, <1>2, <1>3, <1>4 DEF AtEnd
<1>7. s[k].to1 <= Len(path) + 1 /\ s[k].to2 <= Len(free.path) + 1
  BY <1>3, <1>5 DEF To, Places
<1>8. s[k].from1 \in 1 .. Len(path) /\ s[k].from2 \in 1 .. Len(free.path)
  BY <1>2, <1>6
<1>9. s[k].from1 \in DOMAIN path /\ s[k].from2 \in DOMAIN free.path
  BY <1>8 DEF PathsOK
<1> QED BY <1>1, <1>2, <1>3, <1>5, <1>7, <1>9

\* Where the paths part, they have just been at the same block.
LEMMA PartAfterSame ==
  ASSUME PathsOK, FirstBlock, NEW s, Chain(<<1, 1>>, s), NEW k \in 1 .. Len(s),
         s[k].kind # "common"
  PROVE  /\ s[k].from1 - 1 \in DOMAIN path /\ s[k].from2 - 1 \in DOMAIN free.path
         /\ Same(path[s[k].from1 - 1], free.path[s[k].from2 - 1])
         /\ ~Same(path[s[k].from1], free.path[s[k].from2])
<1> DEFINE f1 == s[k].from1
           f2 == s[k].from2
<1>1. /\ s[k] \in SectionType
      /\ From(s[k]) \in Places /\ ~AtEnd(From(s[k])) /\ s[k] = SectionAt(From(s[k]))
      /\ f1 \in DOMAIN path /\ f2 \in DOMAIN free.path
  BY ChainType
<1>2. f1 \in 1 .. Len(path) /\ f2 \in 1 .. Len(free.path) /\ From(s[k]) = <<f1, f2>>
      /\ Len(path) \in Nat /\ Len(free.path) \in Nat
  BY <1>1 DEF PathsOK, From
<1> HIDE DEF f1, f2
<1>3. ~Same(path[f1], free.path[f2])
  BY <1>1, <1>2, SectionFacts
<1>4. k # 1
  <2> SUFFICES ASSUME k = 1 PROVE FALSE
    OBVIOUS
  <2>1. s # << >>
    BY DEF Chain
  <2>2. f1 = 1 /\ f2 = 1
    BY <1>2, <2>1 DEF Chain
  <2>3. path # << >> /\ free.path # << >>
    BY <1>2
  <2>4. IsFirst(path[1]) /\ IsFirst(free.path[1])
    BY <2>3 DEF FirstBlock
  <2> QED BY <1>3, <2>2, <2>4 DEF IsFirst, Same
<1> DEFINE j == k - 1
<1>5. j \in 1 .. Len(s) - 1 /\ j \in 1 .. Len(s) /\ j + 1 = k
  <2>1. Len(s) \in Nat
    BY DEF Chain
  <2> QED BY <1>4, <2>1
<1> HIDE DEF j
<1>6. To(s[j]) = <<f1, f2>>
  <2>1. From(s[j + 1]) = To(s[j])
    BY <1>5 DEF Chain
  <2> QED BY <1>2, <1>5, <2>1
<1>7. /\ s[j] \in SectionType
      /\ From(s[j]) \in Places /\ ~AtEnd(From(s[j])) /\ s[j] = SectionAt(From(s[j]))
      /\ s[j].from1 \in DOMAIN path /\ s[j].from2 \in DOMAIN free.path
  BY <1>5, ChainType
<1>8. From(s[j])[1] = s[j].from1 /\ From(s[j])[2] = s[j].from2 /\ s[j].to1 = f1 /\ s[j].to2 = f2
  BY <1>6 DEF From, To
<1>9. CASE s[j].kind = "common"
  <2>1. /\ Same(path[s[j].from1], free.path[s[j].from2])
        /\ f1 = s[j].from1 + 1 /\ f2 = s[j].from2 + 1
    BY <1>7, <1>8, <1>9, SectionFacts
  <2>2. s[j].from1 \in Nat /\ s[j].from2 \in Nat
    BY <1>7 DEF SectionType
  <2>3. f1 - 1 = s[j].from1 /\ f2 - 1 = s[j].from2
    BY <2>1, <2>2, PredOf, Zenon
  <2> QED BY <1>3, <1>7, <2>1, <2>3 DEF f1, f2
<1>10. CASE s[j].kind = "branch"
  <2>1. Same(path[f1], free.path[f2])
    BY <1>7, <1>8, <1>10, SectionFacts
  <2> QED BY <1>3, <2>1
<1>11. CASE s[j].kind = "rest"
  <2>1. f1 = Len(path) + 1
    BY <1>7, <1>8, <1>11, SectionFacts
  <2> QED BY <1>2, <2>1
<1> QED BY <1>7, <1>9, <1>10, <1>11 DEF SectionType

\* What PointsMatter says, of a result of locateConsequencePoint.
PointsOK(located) ==
  /\ \A p \in located.points :
       p \in DOMAIN path /\ (~located.diverge => Inside(Attacked, p) # 0)
  /\ \A p \in located.pairs :
       /\ p[1] \in DOMAIN path
       /\ p[2] \in DOMAIN free.path /\ Same(path[p[1]], free.path[p[2]])
       /\ ~Same(path[p[1] + 1], free.path[p[2] + 1])

LEMMA LocateOK ==
  ASSUME PathsOK, FirstBlock
  PROVE  PointsOK(Locate)
<1>1. PICK s : s = Sections
  OBVIOUS
<1>2. Chain(<<1, 1>>, s)
  BY <1>1, SectionsChain
<1>3. Len(s) \in Nat /\ 1 .. Len(s) = DOMAIN s
  BY <1>2 DEF Chain
<1>4. CASE Decisive(s) # {}
  <2> DEFINE m == Min(Decisive(s))
             d == Divergences(s, m)
  <2>1. Decisive(s) \in SUBSET (1 .. Len(s))
    BY <1>3 DEF Decisive
  <2>2. m \in 1 .. Len(s)
    BY <1>3, <1>4, <2>1, MinOfPlaces
  <2> HIDE DEF m
  <2>3. \A p \in d : \E k \in 1 .. Len(s) :
           s[k].kind # "common" /\ p = <<s[k].from1 - 1, s[k].from2 - 1>>
    BY <1>3, <2>2 DEF Divergences
  <2> HIDE DEF d
  <2>4. ASSUME NEW p \in d
        PROVE  /\ p[1] \in DOMAIN path
               /\ p[2] \in DOMAIN free.path /\ Same(path[p[1]], free.path[p[2]])
               /\ ~Same(path[p[1] + 1], free.path[p[2] + 1])
    <3>1. PICK k \in 1 .. Len(s) :
             s[k].kind # "common" /\ p = <<s[k].from1 - 1, s[k].from2 - 1>>
      BY <2>3
    <3>2. /\ s[k].from1 - 1 \in DOMAIN path /\ s[k].from2 - 1 \in DOMAIN free.path
          /\ Same(path[s[k].from1 - 1], free.path[s[k].from2 - 1])
          /\ ~Same(path[s[k].from1], free.path[s[k].from2])
      BY <1>2, <3>1, PartAfterSame
    <3>3. s[k] \in SectionType
      BY <1>2 DEF Chain
    <3>4. s[k].from1 \in Nat /\ s[k].from2 \in Nat
      BY <3>3 DEF SectionType
    <3>5. p[1] = s[k].from1 - 1 /\ p[2] = s[k].from2 - 1
      BY <3>1
    <3>6. p[1] + 1 = s[k].from1 /\ p[2] + 1 = s[k].from2
      BY <3>4, <3>5
    <3> QED BY <3>2, <3>5, <3>6
  <2>5. Locate = [pairs |-> d, diverge |-> TRUE, points |-> {p[1] : p \in d}]
    BY <1>1, <1>4 DEF Locate, d, m
  <2>6. Locate.pairs = d /\ Locate.diverge = TRUE /\ Locate.points = {p[1] : p \in d}
    BY <2>5
  <2> QED BY <2>4, <2>6 DEF PointsOK
<1>5. CASE Decisive(s) = {}
  <2>1. Locate = [pairs |-> {}, diverge |-> FALSE, points |-> Differences(s)]
    BY <1>1, <1>5 DEF Locate
  <2>2. Locate.pairs = {} /\ Locate.points = Differences(s)
    BY <2>1
  <2>3. ASSUME NEW p \in Differences(s)
        PROVE  p \in DOMAIN path /\ Inside(Attacked, p) # 0
    <3>1. PICK t \in Range(s) : /\ Pays(Attacked, t.from1, t.to1) # {}
                                /\ p = Max(Pays(Attacked, t.from1, t.to1))
      BY DEF Differences
    <3>2. PICK k \in 1 .. Len(s) : t = s[k]
      BY <1>3 DEF Range
    <3>3. /\ t.from1 \in DOMAIN path /\ t.to1 \in t.from1 .. Len(path) + 1
          /\ t \in SectionType
      BY <1>2, <3>2, ChainType
    <3>4. Len(path) \in Nat /\ 1 .. Len(path) = DOMAIN path /\ t.from1 \in Nat /\ t.from1 >= 1
      BY <3>3 DEF PathsOK, SectionType
    <3>5. Pays(Attacked, t.from1, t.to1) \in SUBSET (1 .. Len(path))
      BY <3>3, <3>4 DEF Pays
    <3>6. p \in Pays(Attacked, t.from1, t.to1)
      BY <3>1, <3>4, <3>5, MaxOfPlaces
    <3> QED BY <3>4, <3>5, <3>6 DEF Pays
  <2> QED BY <2>2, <2>3 DEF PointsOK
<1> QED BY <1>4, <1>5

---------------------------------------------------------------------------
\* Sums over a part of a path.

\* The equation by which the library sums over a set, for the sets of D.
SumAt(sum, run, s) ==
  IF s = {} THEN 0 ELSE LET x == CHOOSE x \in s : TRUE IN Inside(run, x) + sum[s \ {x}]
IsSum(sum, run, D) == sum = [s \in D |-> SumAt(sum, run, s)]
UpTo(S, m)         == {s \in SUBSET S : Cardinality(s) <= m}

LEMMA SmallerSet ==
  ASSUME NEW S, IsFiniteSet(S), NEW s \in SUBSET S, NEW x \in s
  PROVE  /\ s \ {x} \in SUBSET S /\ Cardinality(s) \in Nat /\ Cardinality(s \ {x}) \in Nat
         /\ Cardinality(s \ {x}) = Cardinality(s) - 1
<1>1. IsFiniteSet(s)
  BY FS_Subset
<1>2. IsFiniteSet(s \ {x}) /\ Cardinality(s \ {x}) = Cardinality(s) - 1
  BY <1>1, FS_RemoveElement
<1> QED BY <1>1, <1>2, FS_CardinalityType

LEMMA SumExistsUpTo ==
  ASSUME NEW S, IsFiniteSet(S), NEW run, NEW m \in Nat
  PROVE  \E sum : IsSum(sum, run, UpTo(S, m))
<1> DEFINE D == {k \in Nat : ~\E sum : IsSum(sum, run, UpTo(S, k))}
<1> SUFFICES ASSUME D # {} PROVE FALSE
  OBVIOUS
<1>1. PICK k \in D : \A i \in D : k <= i
  <2>1. D \in SUBSET Nat
    OBVIOUS
  <2> HIDE DEF D
  <2> QED BY <2>1, NatMin
<1>2. k \in Nat /\ ~\E sum : IsSum(sum, run, UpTo(S, k))
  BY <1>1
<1>3. \E old : k # 0 => IsSum(old, run, UpTo(S, k - 1))
  <2>1. CASE k = 0
    BY <2>1
  <2>2. CASE k # 0
    <3>1. k - 1 \in Nat /\ ~(k <= k - 1)
      BY <1>2, <2>2
    <3>2. k - 1 \notin D
      BY <1>1, <3>1
    <3> QED BY <3>1, <3>2
  <2> QED BY <2>1, <2>2
<1>4. PICK old : k # 0 => IsSum(old, run, UpTo(S, k - 1))
  BY <1>3
<1> DEFINE new == [s \in UpTo(S, k) |-> SumAt(old, run, s)]
<1>5. ASSUME NEW s \in UpTo(S, k)
      PROVE  SumAt(old, run, s) = SumAt(new, run, s)
  <2> DEFINE x == CHOOSE x \in s : TRUE
             t == s \ {x}
  <2>1. s \in SUBSET S /\ Cardinality(s) <= k
    BY DEF UpTo
  <2>2. CASE s = {}
    BY <2>2 DEF SumAt
  <2>3. CASE s # {}
    <3>1. x \in s
      BY <2>3
    <3> HIDE DEF x
    <3>2. t \in SUBSET S /\ Cardinality(s) \in Nat /\ Cardinality(t) \in Nat
          /\ Cardinality(t) = Cardinality(s) - 1
      BY <2>1, <3>1, SmallerSet
    <3> HIDE DEF t
    <3>3. k # 0 /\ Cardinality(t) <= k - 1 /\ Cardinality(t) <= k
      BY <1>2, <2>1, <3>2
    <3>4. t \in UpTo(S, k - 1) /\ t \in UpTo(S, k)
      BY <3>2, <3>3 DEF UpTo
    <3>5. old[t] = SumAt(old, run, t)
      BY <1>4, <3>3, <3>4 DEF IsSum
    <3>6. new[t] = SumAt(old, run, t)
      BY <3>4
    <3>7. SumAt(old, run, s) = Inside(run, x) + old[t] /\ SumAt(new, run, s) = Inside(run, x) + new[t]
      BY <2>3 DEF SumAt, x, t
    <3> QED BY <3>5, <3>6, <3>7
  <2> QED BY <2>2, <2>3
<1>6. IsSum(new, run, UpTo(S, k))
  BY <1>5 DEF IsSum
<1> QED BY <1>2, <1>6

SumsOver(sum, run, S) == IsSum(sum, run, SUBSET S)

\* Any element of a set may be taken first.
LEMMA SumFacts ==
  ASSUME NEW S, IsFiniteSet(S), NEW run, \A x \in S : Inside(run, x) \in Int,
         NEW sum, SumsOver(sum, run, S), NEW s \in SUBSET S
  PROVE  sum[s] \in Int /\ \A x \in s : sum[s] = Inside(run, x) + sum[s \ {x}]
<1> DEFINE Good(t) == sum[t] \in Int /\ \A x \in t : sum[t] = Inside(run, x) + sum[t \ {x}]
           W == {Cardinality(t) : t \in {u \in SUBSET S : ~Good(u)}}
<1> SUFFICES ASSUME W # {} PROVE FALSE
  OBVIOUS
<1>1. PICK w \in W : \A v \in W : w <= v
  <2>1. W \in SUBSET Nat
    <3>1. \A u \in SUBSET S : Cardinality(u) \in Nat
      BY FS_Subset, FS_CardinalityType
    <3> QED BY <3>1
  <2> HIDE DEF W
  <2> QED BY <2>1, NatMin
<1>2. PICK t \in SUBSET S : w = Cardinality(t) /\ ~Good(t)
  BY <1>1
<1>3. \A u \in SUBSET S : Cardinality(u) \in Nat /\ Cardinality(u) < Cardinality(t) => Good(u)
  <2> TAKE u \in SUBSET S
  <2> SUFFICES ASSUME Cardinality(u) \in Nat, Cardinality(u) < Cardinality(t), ~Good(u) PROVE FALSE
    OBVIOUS
  <2>1. Cardinality(u) \in W
    OBVIOUS
  <2>2. Cardinality(t) \in Nat
    BY FS_Subset, FS_CardinalityType
  <2> HIDE DEF W, Good
  <2> QED BY <1>1, <1>2, <2>1, <2>2
<1>4. \A u \in SUBSET S : sum[u] = SumAt(sum, run, u)
  BY DEF SumsOver, IsSum
<1>5. CASE t = {}
  <2>1. sum[t] = 0
    BY <1>4, <1>5 DEF SumAt
  <2> QED BY <1>2, <1>5, <2>1
<1>6. CASE t # {}
  <2>1. PICK c \in t : c = CHOOSE x \in t : TRUE
    BY <1>6
  <2>2. sum[t] = Inside(run, c) + sum[t \ {c}]
    BY <1>4, <1>6, <2>1 DEF SumAt
  <2>3. \A x \in t : /\ t \ {x} \in SUBSET S /\ Cardinality(t) \in Nat /\ Cardinality(t \ {x}) \in Nat
                     /\ Cardinality(t \ {x}) < Cardinality(t)
    <3> TAKE x \in t
    <3>1. t \ {x} \in SUBSET S /\ Cardinality(t) \in Nat /\ Cardinality(t \ {x}) \in Nat
          /\ Cardinality(t \ {x}) = Cardinality(t) - 1
      BY SmallerSet
    <3> QED BY <3>1
  <2>4. \A x \in t : Good(t \ {x})
    BY <1>3, <2>3
  <2>5. \A x \in t : Inside(run, x) \in Int
    OBVIOUS
  <2>6. sum[t] \in Int
    <3>1. PICK a \in Int : a = sum[t \ {c}]
      BY <2>4
    <3>2. PICK b \in Int : b = Inside(run, c)
      BY <2>5
    <3>3. sum[t] = b + a
      BY <2>2, <3>1, <3>2
    <3> QED BY <3>3
  <2>7. ASSUME NEW x \in t, x # c
        PROVE  sum[t] = Inside(run, x) + sum[t \ {x}]
    <3>1. sum[t \ {c}] = Inside(run, x) + sum[(t \ {c}) \ {x}]
      BY <2>4, <2>7
    <3>2. sum[t \ {x}] = Inside(run, c) + sum[(t \ {x}) \ {c}]
      BY <2>4, <2>7
    <3>3. (t \ {x}) \ {c} = (t \ {c}) \ {x}
      OBVIOUS
    <3>4. (t \ {c}) \ {x} \in SUBSET S
      OBVIOUS
    <3>5. sum[(t \ {c}) \ {x}] \in Int
      <4> DEFINE u == t \ {c}
      <4>1. u \in SUBSET S /\ x \in u /\ Cardinality(u) < Cardinality(t) /\ Cardinality(u) \in Nat
            /\ Cardinality(t) \in Nat
        BY <2>3, <2>7
      <4>2. Cardinality(u \ {x}) \in Nat /\ Cardinality(u \ {x}) = Cardinality(u) - 1 /\ u \ {x} \in SUBSET S
        BY <4>1, SmallerSet
      <4>3. Cardinality(u \ {x}) < Cardinality(t)
        BY <4>1, <4>2
      <4> DEFINE v == u \ {x}
      <4>4. v \in SUBSET S /\ Cardinality(v) \in Nat /\ Cardinality(v) < Cardinality(t)
        BY <4>2, <4>3
      <4> HIDE DEF v, Good
      <4>5. Good(v)
        BY <1>3, <4>4
      <4>6. sum[v] \in Int
        BY <4>5 DEF Good
      <4> QED BY <4>6 DEF v
    <3>6. PICK a \in Int : a = sum[(t \ {c}) \ {x}]
      BY <3>5
    <3>7. PICK b \in Int, d \in Int : b = Inside(run, c) /\ d = Inside(run, x)
      BY <2>5, <2>7
    <3>8. sum[t \ {c}] = d + a /\ sum[t \ {x}] = b + a
      BY <3>1, <3>2, <3>3, <3>6, <3>7
    <3>9. sum[t] = b + (d + a)
      BY <2>2, <3>7, <3>8
    <3>10. b + (d + a) = d + (b + a)
      BY <3>6, <3>7
    <3> QED BY <3>7, <3>8, <3>9, <3>10
  <2>8. Good(t)
    BY <2>2, <2>6, <2>7
  <2> QED BY <1>2, <2>8
<1> QED BY <1>5, <1>6

\* A smaller set has the same sum in both.
LEMMA SumAgrees ==
  ASSUME NEW S, IsFiniteSet(S), NEW T \in SUBSET S, NEW run, NEW f, SumsOver(f, run, S),
         NEW g, SumsOver(g, run, T), NEW s \in SUBSET T
  PROVE  f[s] = g[s]
<1> DEFINE W == {Cardinality(t) : t \in {u \in SUBSET T : f[u] # g[u]}}
<1> SUFFICES ASSUME W # {} PROVE FALSE
  OBVIOUS
<1>0. IsFiniteSet(T)
  BY FS_Subset
<1>1. PICK w \in W : \A v \in W : w <= v
  <2>1. W \in SUBSET Nat
    <3>1. \A u \in SUBSET T : Cardinality(u) \in Nat
      BY <1>0, FS_Subset, FS_CardinalityType
    <3> QED BY <3>1
  <2> HIDE DEF W
  <2> QED BY <2>1, NatMin
<1>2. PICK t \in SUBSET T : w = Cardinality(t) /\ f[t] # g[t]
  BY <1>1
<1>3. f[t] = SumAt(f, run, t) /\ g[t] = SumAt(g, run, t)
  BY DEF SumsOver, IsSum
<1>4. t # {}
  BY <1>2, <1>3 DEF SumAt
<1>5. PICK c \in t : c = CHOOSE x \in t : TRUE
  BY <1>4
<1>6. f[t] = Inside(run, c) + f[t \ {c}] /\ g[t] = Inside(run, c) + g[t \ {c}]
  BY <1>3, <1>4, <1>5 DEF SumAt
<1> DEFINE u == t \ {c}
<1>7. u \in SUBSET T /\ Cardinality(t) \in Nat /\ Cardinality(u) \in Nat
      /\ Cardinality(u) = Cardinality(t) - 1
  BY <1>0, SmallerSet
<1>8. f[u] = g[u]
  <2> SUFFICES ASSUME f[u] # g[u] PROVE FALSE
    OBVIOUS
  <2>1. Cardinality(u) \in W
    BY <1>7
  <2> HIDE DEF W, u
  <2> QED BY <1>1, <1>2, <1>7, <2>1
<1> QED BY <1>2, <1>6, <1>8

RunOK(run) == run.path \in Seq(PathEntry)

LEMMA InsideType ==
  ASSUME NEW run, RunOK(run), NEW i \in 1 .. Len(run.path)
  PROVE  Inside(run, i) \in Int
<1>1. run.path[i] \in PathEntry
  BY DEF RunOK
<1>2. run.path[i].amount \in Int
  BY <1>1 DEF PathEntry
<1> QED BY <1>2 DEF Inside

LEMMA SumIs ==
  ASSUME NEW run, NEW lo \in Int, NEW hi \in Int
  PROVE  \E sum : SumsOver(sum, run, lo .. hi - 1) /\ Sum(run, lo, hi) = sum[lo .. hi - 1]
<1> DEFINE S == lo .. hi - 1
<1>1. IsFiniteSet(S) /\ Cardinality(S) \in Nat
  BY FS_Interval, FS_CardinalityType
<1>2. Sum(run, lo, hi) = (CHOOSE sum : SumsOver(sum, run, S))[S]
  BY DEF Sum, MapThenSumSet, MapThenFoldSet, SumsOver, IsSum, SumAt
<1> HIDE DEF S
<1>3. PICK m \in Nat : m = Cardinality(S)
  BY <1>1
<1>4. \E sum : SumsOver(sum, run, S)
  <2>1. UpTo(S, m) = SUBSET S
    BY <1>1, <1>3, FS_Subset DEF UpTo
  <2>2. \E sum : IsSum(sum, run, UpTo(S, m))
    BY <1>1, SumExistsUpTo
  <2> QED BY <2>1, <2>2 DEF SumsOver
<1>5. PICK f : f = CHOOSE sum : SumsOver(sum, run, S)
  OBVIOUS
<1>6. SumsOver(f, run, S)
  BY <1>4, <1>5
<1> QED BY <1>2, <1>5, <1>6 DEF S

LEMMA SumEmpty ==
  ASSUME NEW run, NEW lo \in Int
  PROVE  Sum(run, lo, lo) = 0
<1>1. PICK sum : SumsOver(sum, run, lo .. lo - 1) /\ Sum(run, lo, lo) = sum[lo .. lo - 1]
  BY SumIs
<1>2. lo .. lo - 1 = {}
  OBVIOUS
<1>3. sum[{}] = SumAt(sum, run, {})
  BY <1>1, <1>2 DEF SumsOver, IsSum
<1> QED BY <1>1, <1>2, <1>3 DEF SumAt

LEMMA SumTakes ==
  ASSUME NEW S, IsFiniteSet(S), NEW x \in S,
         NEW run, \A y \in S : Inside(run, y) \in Int,
         NEW f, SumsOver(f, run, S), NEW g, SumsOver(g, run, S \ {x})
  PROVE  f[S] = g[S \ {x}] + Inside(run, x) /\ f[S] \in Int
<1>0. PICK T : T = S \ {x}
  OBVIOUS
<1>1. S \in SUBSET S /\ T \in SUBSET T /\ T \in SUBSET S /\ SumsOver(g, run, T)
  BY <1>0
<1>2. f[S] \in Int /\ \A y \in S : f[S] = Inside(run, y) + f[S \ {y}]
  BY <1>1, SumFacts
<1>3. f[T] \in Int
  BY <1>1, SumFacts
<1>4. f[T] = g[T]
  BY <1>1, SumAgrees
<1>5. f[S] = Inside(run, x) + f[T]
  BY <1>0, <1>2
<1>6. Inside(run, x) \in Int
  OBVIOUS
<1> QED BY <1>0, <1>2, <1>3, <1>4, <1>5, <1>6

LEMMA SumNext ==
  ASSUME NEW run, RunOK(run), NEW lo \in Nat \ {0}, NEW hi \in 1 .. Len(run.path), lo <= hi
  PROVE  Sum(run, lo, hi + 1) = Sum(run, lo, hi) + Inside(run, hi) /\ Sum(run, lo, hi + 1) \in Int
<1>0. Len(run.path) \in Nat /\ hi \in Int /\ hi + 1 \in Int /\ lo \in Int /\ (hi + 1) - 1 = hi
  BY DEF RunOK
<1>1. PICK S, T : S = lo .. hi /\ T = lo .. hi - 1
  OBVIOUS
<1>2. PICK f : SumsOver(f, run, S) /\ Sum(run, lo, hi + 1) = f[S]
  <2>1. \E f : SumsOver(f, run, lo .. (hi + 1) - 1) /\ Sum(run, lo, hi + 1) = f[lo .. (hi + 1) - 1]
    BY <1>0, SumIs
  <2> QED BY <1>0, <1>1, <2>1
<1>3. PICK g : SumsOver(g, run, T) /\ Sum(run, lo, hi) = g[T]
  <2>1. \E g : SumsOver(g, run, lo .. hi - 1) /\ Sum(run, lo, hi) = g[lo .. hi - 1]
    BY <1>0, SumIs
  <2> QED BY <1>1, <2>1
<1>4. IsFiniteSet(S)
  BY <1>0, <1>1, FS_Interval
<1>5. hi \in S /\ T \in SUBSET S
  BY <1>0, <1>1
<1>6. S \ {hi} = T
  <2>1. \A x \in Int : x \in S /\ x # hi <=> x \in T
    BY <1>0, <1>1
  <2>2. S \in SUBSET Int /\ T \in SUBSET Int
    BY <1>1
  <2> QED BY <2>1, <2>2
<1>7. \A x \in S : Inside(run, x) \in Int
  <2>1. \A x \in S : x \in 1 .. Len(run.path)
    BY <1>0, <1>1
  <2> QED BY <2>1, InsideType
<1>8. SumsOver(f, run, S) /\ SumsOver(g, run, S \ {hi})
  BY <1>2, <1>3, <1>6
<1>9. f[S] = g[S \ {hi}] + Inside(run, hi) /\ f[S] \in Int
  BY <1>4, <1>5, <1>7, <1>8, SumTakes
<1> QED BY <1>2, <1>3, <1>6, <1>9

\* A part of a path, cut in two; and a part that pays nothing.
LEMMA SumSplit ==
  ASSUME NEW run, RunOK(run), NEW lo \in Nat \ {0}, NEW mid \in Nat, NEW hi \in Nat,
         lo <= mid, mid <= hi, hi <= Len(run.path) + 1
  PROVE  /\ Sum(run, lo, hi) = Sum(run, lo, mid) + Sum(run, mid, hi)
         /\ Sum(run, lo, hi) \in Int /\ Sum(run, lo, mid) \in Int /\ Sum(run, mid, hi) \in Int
<1>0. Len(run.path) \in Nat
  BY DEF RunOK
<1>1. ASSUME NEW from \in Nat \ {0}
      PROVE  \A to \in from .. Len(run.path) + 1 : Sum(run, from, to) \in Int
  <2> TAKE to \in from .. Len(run.path) + 1
  <2>1. CASE to = from
    BY <2>1, SumEmpty
  <2>2. CASE to # from
    <3> DEFINE h == to - 1
    <3>1. h \in 1 .. Len(run.path) /\ from <= h /\ h + 1 = to
      BY <1>0, <2>2
    <3> HIDE DEF h
    <3> QED BY <3>1, SumNext
  <2> QED BY <2>1, <2>2
<1> DEFINE D == {h \in mid .. Len(run.path) + 1 : Sum(run, lo, h) # Sum(run, lo, mid) + Sum(run, mid, h)}
<1>2. D = {}
  <2> SUFFICES ASSUME D # {} PROVE FALSE
    OBVIOUS
  <2>1. PICK h \in D : \A i \in D : h <= i
    <3>1. D \in SUBSET Nat
      BY <1>0
    <3> HIDE DEF D
    <3> QED BY <3>1, NatMin
  <2>2. h \in mid .. Len(run.path) + 1 /\ Sum(run, lo, h) # Sum(run, lo, mid) + Sum(run, mid, h)
    BY <2>1
  <2>3. mid \in lo .. Len(run.path) + 1 /\ mid \in Nat \ {0}
    BY <1>0
  <2>4. CASE h = mid
    BY <1>1, <2>2, <2>3, <2>4, SumEmpty
  <2>5. CASE h # mid
    <3> DEFINE k == h - 1
    <3>1. /\ k \in 1 .. Len(run.path) /\ lo <= k /\ mid <= k /\ k + 1 = h
          /\ k \in mid .. Len(run.path) + 1 /\ ~(h <= k) /\ k \in lo .. Len(run.path) + 1
      BY <1>0, <2>2, <2>3, <2>5
    <3> HIDE DEF k
    <3>2. k \notin D
      BY <2>1, <3>1
    <3>3. Sum(run, lo, k) = Sum(run, lo, mid) + Sum(run, mid, k)
      BY <3>1, <3>2
    <3>4. Sum(run, lo, h) = Sum(run, lo, k) + Inside(run, k)
      BY <3>1, SumNext
    <3>5. Sum(run, mid, h) = Sum(run, mid, k) + Inside(run, k)
      BY <2>3, <3>1, SumNext
    <3>6. Inside(run, k) \in Int /\ Sum(run, lo, k) \in Int /\ Sum(run, mid, k) \in Int /\ Sum(run, lo, mid) \in Int
      BY <1>1, <2>3, <3>1, InsideType
    <3> QED BY <2>2, <3>3, <3>4, <3>5, <3>6
  <2> QED BY <2>4, <2>5
<1>3. hi \in mid .. Len(run.path) + 1 /\ hi \notin D
  BY <1>0, <1>2
<1>4. Sum(run, lo, hi) = Sum(run, lo, mid) + Sum(run, mid, hi)
  BY <1>3
<1>5. /\ hi \in lo .. Len(run.path) + 1 /\ mid \in lo .. Len(run.path) + 1 /\ mid \in Nat \ {0}
  BY <1>0
<1> QED BY <1>1, <1>3, <1>4, <1>5

LEMMA SumOfNothing ==
  ASSUME NEW run, RunOK(run), NEW lo \in Nat \ {0}, NEW hi \in lo .. Len(run.path) + 1,
         Pays(run, lo, hi) = {}
  PROVE  Sum(run, lo, hi) = 0
<1>0. Len(run.path) \in Nat
  BY DEF RunOK
<1> DEFINE D == {h \in lo .. hi : Sum(run, lo, h) # 0}
<1>1. D = {}
  <2> SUFFICES ASSUME D # {} PROVE FALSE
    OBVIOUS
  <2>1. PICK h \in D : \A i \in D : h <= i
    <3>1. D \in SUBSET Nat
      BY <1>0
    <3> HIDE DEF D
    <3> QED BY <3>1, NatMin
  <2>2. h \in lo .. hi /\ Sum(run, lo, h) # 0
    BY <2>1
  <2>3. h # lo
    BY <2>2, SumEmpty
  <2> DEFINE k == h - 1
  <2>4. /\ k \in 1 .. Len(run.path) /\ lo <= k /\ k + 1 = h /\ k \in lo .. hi /\ ~(h <= k)
        /\ k \in lo .. hi - 1
    BY <1>0, <2>2, <2>3
  <2> HIDE DEF k
  <2>5. k \notin D
    BY <2>1, <2>4
  <2>6. Sum(run, lo, k) = 0
    BY <2>4, <2>5
  <2>7. Inside(run, k) = 0
    BY <2>4 DEF Pays
  <2>8. Sum(run, lo, h) = Sum(run, lo, k) + Inside(run, k)
    BY <2>4, SumNext
  <2> QED BY <2>2, <2>6, <2>7, <2>8
<1>2. hi \in lo .. hi
  BY <1>0
<1> QED BY <1>1, <1>2

---------------------------------------------------------------------------
\* Profits, when no call has failed: the sums up to the end of a section.

\* The equation of Profit1 and Profit2, from where each section begins and ends.
IsTotal(total, n, run, begin, end) ==
  total = [k \in 0 .. n |->
             IF k = 0 THEN 0
             ELSE (IF Reverts(run, begin[k], end[k]) THEN 0 ELSE total[k - 1])
                  + Sum(run, begin[k], end[k])]
TotalTo(n, run, end) == [k \in 0 .. n |-> IF k = 0 THEN 0 ELSE Sum(run, 1, end[k])]

\* Sections that follow each other from the first block on.
Adjoin(n, run, begin, end) ==
  /\ \A k \in 1 .. n : /\ begin[k] \in Nat \ {0} /\ end[k] \in Nat
                       /\ begin[k] <= end[k] /\ end[k] <= Len(run.path) + 1
                       /\ k = 1 => begin[k] = 1
  /\ \A k \in 1 .. n - 1 : begin[k + 1] = end[k]

LEMMA TotalStep ==
  ASSUME NEW n \in Nat, NEW run, RunOK(run), NEW begin, NEW end, Adjoin(n, run, begin, end),
         NEW k \in 1 .. n
  PROVE  /\ TotalTo(n, run, end)[k] = TotalTo(n, run, end)[k - 1] + Sum(run, begin[k], end[k])
         /\ TotalTo(n, run, end)[k] = Sum(run, 1, end[k])
<1> DEFINE T == TotalTo(n, run, end)
<1>1. /\ begin[k] \in Nat \ {0} /\ end[k] \in Nat
      /\ begin[k] <= end[k] /\ end[k] <= Len(run.path) + 1
      /\ k = 1 => begin[k] = 1
  BY DEF Adjoin
<1>2. T[k] = Sum(run, 1, end[k])
  BY DEF TotalTo
<1>3. CASE k = 1
  <2>1. T[k - 1] = 0
    BY <1>3 DEF TotalTo
  <2>2. begin[k] = 1 /\ Sum(run, 1, end[k]) \in Int
    BY <1>1, <1>3, SumSplit
  <2> QED BY <1>2, <2>1, <2>2
<1>4. CASE k # 1
  <2>1. k - 1 \in 1 .. n - 1 /\ k - 1 \in 0 .. n /\ k - 1 # 0 /\ (k - 1) + 1 = k
    BY <1>4
  <2>2. begin[k] = end[k - 1]
    <3>1. begin[(k - 1) + 1] = end[k - 1]
      BY <2>1 DEF Adjoin
    <3> QED BY <2>1, <3>1
  <2>3. T[k - 1] = Sum(run, 1, begin[k])
    BY <2>1, <2>2 DEF TotalTo
  <2>4. 1 \in Nat \ {0} /\ begin[k] \in Nat /\ 1 <= begin[k]
    BY <1>1
  <2>5. Sum(run, 1, end[k]) = Sum(run, 1, begin[k]) + Sum(run, begin[k], end[k])
    BY <1>1, <2>4, SumSplit
  <2> QED BY <1>2, <2>3, <2>5
<1> QED BY <1>2, <1>3, <1>4

LEMMA TotalIs ==
  ASSUME NEW n \in Nat, NEW run, RunOK(run), run.failed = {}, NEW begin, NEW end,
         Adjoin(n, run, begin, end)
  PROVE  /\ IsTotal(TotalTo(n, run, end), n, run, begin, end)
         /\ \A total : IsTotal(total, n, run, begin, end) => total = TotalTo(n, run, end)
<1> DEFINE T == TotalTo(n, run, end)
<1>1. \A k \in 1 .. n : ~Reverts(run, begin[k], end[k])
  BY DEF Reverts
<1>2. \A k \in 1 .. n : T[k] = T[k - 1] + Sum(run, begin[k], end[k])
  BY TotalStep
<1>3. T[0] = 0 /\ T = [k \in 0 .. n |-> T[k]]
  BY DEF TotalTo
<1> HIDE DEF T
<1>4. IsTotal(T, n, run, begin, end)
  <2>1. \A k \in 0 .. n :
           T[k] = IF k = 0 THEN 0
                  ELSE (IF Reverts(run, begin[k], end[k]) THEN 0 ELSE T[k - 1])
                       + Sum(run, begin[k], end[k])
    <3> TAKE k \in 0 .. n
    <3>1. CASE k = 0
      BY <1>3, <3>1
    <3>2. CASE k # 0
      <4>1. k \in 1 .. n
        BY <3>2
      <4> QED BY <1>1, <1>2, <3>2, <4>1
    <3> QED BY <3>1, <3>2
  <2> QED BY <1>3, <2>1 DEF IsTotal
<1>5. ASSUME NEW total, IsTotal(total, n, run, begin, end)
      PROVE  total = T
  <2>1. \A k \in 0 .. n :
           total[k] = IF k = 0 THEN 0
                      ELSE (IF Reverts(run, begin[k], end[k]) THEN 0 ELSE total[k - 1])
                           + Sum(run, begin[k], end[k])
    BY <1>5 DEF IsTotal
  <2> DEFINE D == {k \in 0 .. n : total[k] # T[k]}
  <2>2. D = {}
    <3> SUFFICES ASSUME D # {} PROVE FALSE
      OBVIOUS
    <3>1. PICK k \in D : \A i \in D : k <= i
      <4>1. D \in SUBSET Nat
        OBVIOUS
      <4> HIDE DEF D
      <4> QED BY <4>1, NatMin
    <3>2. k \in 0 .. n /\ total[k] # T[k]
      BY <3>1
    <3>3. k # 0
      BY <1>3, <2>1, <3>2
    <3>4. k \in 1 .. n /\ k - 1 \in 0 .. n /\ ~(k <= k - 1)
      BY <3>2, <3>3
    <3>5. k - 1 \notin D
      BY <3>1, <3>4
    <3>6. total[k - 1] = T[k - 1]
      BY <3>4, <3>5
    <3>7. total[k] = total[k - 1] + Sum(run, begin[k], end[k])
      BY <1>1, <2>1, <3>2, <3>3, <3>4
    <3> QED BY <1>2, <3>2, <3>4, <3>6, <3>7
  <2>3. \A k \in 0 .. n : total[k] = T[k]
    BY <2>2
  <2>4. total = [k \in 0 .. n |-> total[k]]
    BY <1>5 DEF IsTotal
  <2> HIDE DEF D
  <2> QED BY <1>3, <2>3, <2>4
<1> QED BY <1>4, <1>5 DEF T

\* The same of one of the two paths: its sections adjoin.
LEMMA ChainAdjoins ==
  ASSUME PathsOK, NEW s, Chain(<<1, 1>>, s)
  PROVE  /\ Len(s) \in Nat
         /\ Adjoin(Len(s), Attacked, [k \in 1 .. Len(s) |-> s[k].from1], [k \in 1 .. Len(s) |-> s[k].to1])
         /\ Adjoin(Len(s), Unattacked, [k \in 1 .. Len(s) |-> s[k].from2], [k \in 1 .. Len(s) |-> s[k].to2])
<1>1. Len(s) \in Nat
  BY DEF Chain
<1>2. Attacked.path = path /\ Unattacked.path = free.path
  BY DEF Attacked, Unattacked, With
<1>3. \A k \in 1 .. Len(s) :
        /\ s[k].from1 \in Nat \ {0} /\ s[k].from2 \in Nat \ {0} /\ s[k].to1 \in Nat /\ s[k].to2 \in Nat
        /\ s[k].from1 <= s[k].to1 /\ s[k].to1 <= Len(path) + 1
        /\ s[k].from2 <= s[k].to2 /\ s[k].to2 <= Len(free.path) + 1
        /\ k = 1 => s[k].from1 = 1 /\ s[k].from2 = 1
  <2> TAKE k \in 1 .. Len(s)
  <2>1. /\ s[k] \in SectionType
        /\ s[k].to1 \in s[k].from1 .. Len(path) + 1
        /\ s[k].to2 \in s[k].from2 .. Len(free.path) + 1
    BY ChainType
  <2>2. /\ s[k].from1 \in Nat \ {0} /\ s[k].from2 \in Nat \ {0}
        /\ s[k].to1 \in Nat \ {0} /\ s[k].to2 \in Nat \ {0}
    BY <2>1 DEF SectionType
  <2>3. Len(path) \in Nat /\ Len(free.path) \in Nat
    BY DEF PathsOK
  <2>4. k = 1 => s[k].from1 = 1 /\ s[k].from2 = 1
    <3>1. s # << >>
      BY DEF Chain
    <3>2. From(s[1]) = <<1, 1>>
      BY <3>1 DEF Chain
    <3> QED BY <3>2 DEF From
  <2> QED BY <2>1, <2>2, <2>3, <2>4
<1>4. \A k \in 1 .. Len(s) - 1 : s[k + 1].from1 = s[k].to1 /\ s[k + 1].from2 = s[k].to2
  BY DEF Chain, From, To
<1>5. \A k \in 1 .. Len(s) - 1 : k \in 1 .. Len(s) /\ k + 1 \in 1 .. Len(s)
  BY <1>1
<1>6. Adjoin(Len(s), Attacked, [k \in 1 .. Len(s) |-> s[k].from1], [k \in 1 .. Len(s) |-> s[k].to1])
  BY <1>1, <1>2, <1>3, <1>4, <1>5 DEF Adjoin
<1>7. Adjoin(Len(s), Unattacked, [k \in 1 .. Len(s) |-> s[k].from2], [k \in 1 .. Len(s) |-> s[k].to2])
  BY <1>1, <1>2, <1>3, <1>4, <1>5 DEF Adjoin
<1> QED BY <1>1, <1>6, <1>7

LEMMA RunsOK ==
  ASSUME PathsOK
  PROVE  RunOK(Attacked) /\ RunOK(Unattacked)
BY DEF PathsOK, RunOK, Attacked, Unattacked, With

LEMMA Profit1Is ==
  ASSUME PathsOK, failed = {}, NEW s, Chain(<<1, 1>>, s)
  PROVE  Profit1(s) = TotalTo(Len(s), Attacked, [k \in 1 .. Len(s) |-> s[k].to1])
<1> DEFINE n     == Len(s)
           begin == [k \in 1 .. n |-> s[k].from1]
           end   == [k \in 1 .. n |-> s[k].to1]
           Eq(total) == total = [k \in 0 .. n |->
             IF k = 0 THEN 0
             ELSE (IF Reverts(Attacked, s[k].from1, s[k].to1) THEN 0 ELSE total[k - 1])
                  + Sum(Attacked, s[k].from1, s[k].to1)]
<1>1. n \in Nat /\ RunOK(Attacked) /\ Attacked.failed = {} /\ Adjoin(n, Attacked, begin, end)
  BY ChainAdjoins, RunsOK DEF Attacked, With
<1>2. \A total : Eq(total) <=> IsTotal(total, n, Attacked, begin, end)
  <2> TAKE total
  <2>1. [k \in 0 .. n |->
             IF k = 0 THEN 0
             ELSE (IF Reverts(Attacked, s[k].from1, s[k].to1) THEN 0 ELSE total[k - 1])
                  + Sum(Attacked, s[k].from1, s[k].to1)]
        = [k \in 0 .. n |->
             IF k = 0 THEN 0
             ELSE (IF Reverts(Attacked, begin[k], end[k]) THEN 0 ELSE total[k - 1])
                  + Sum(Attacked, begin[k], end[k])]
    <3>1. \A k \in 0 .. n : k # 0 => begin[k] = s[k].from1 /\ end[k] = s[k].to1
      BY <1>1
    <3> HIDE DEF begin, end
    <3> QED BY <3>1
  <2> QED BY <2>1 DEF IsTotal
<1>3. Profit1(s) = CHOOSE total : Eq(total)
  BY DEF Profit1
<1> HIDE DEF n, begin, end, Eq
<1>4. PICK T : T = TotalTo(n, Attacked, end)
  OBVIOUS
<1>5. IsTotal(T, n, Attacked, begin, end) /\ \A total : IsTotal(total, n, Attacked, begin, end) => total = T
  BY <1>1, <1>4, TotalIs
<1>6. Eq(T) /\ \A total : Eq(total) => total = T
  BY <1>2, <1>5
<1>7. Profit1(s) = T
  BY <1>3, <1>6
<1> QED BY <1>4, <1>7 DEF n, end

LEMMA Profit2Is ==
  ASSUME PathsOK, free.failed = {}, NEW s, Chain(<<1, 1>>, s)
  PROVE  Profit2(s) = TotalTo(Len(s), Unattacked, [k \in 1 .. Len(s) |-> s[k].to2])
<1> DEFINE n     == Len(s)
           begin == [k \in 1 .. n |-> s[k].from2]
           end   == [k \in 1 .. n |-> s[k].to2]
           Eq(total) == total = [k \in 0 .. n |->
             IF k = 0 THEN 0
             ELSE (IF Reverts(Unattacked, s[k].from2, s[k].to2) THEN 0 ELSE total[k - 1])
                  + Sum(Unattacked, s[k].from2, s[k].to2)]
<1>1. n \in Nat /\ RunOK(Unattacked) /\ Unattacked.failed = {} /\ Adjoin(n, Unattacked, begin, end)
  BY ChainAdjoins, RunsOK DEF Unattacked, With
<1>2. \A total : Eq(total) <=> IsTotal(total, n, Unattacked, begin, end)
  <2> TAKE total
  <2>1. [k \in 0 .. n |->
             IF k = 0 THEN 0
             ELSE (IF Reverts(Unattacked, s[k].from2, s[k].to2) THEN 0 ELSE total[k - 1])
                  + Sum(Unattacked, s[k].from2, s[k].to2)]
        = [k \in 0 .. n |->
             IF k = 0 THEN 0
             ELSE (IF Reverts(Unattacked, begin[k], end[k]) THEN 0 ELSE total[k - 1])
                  + Sum(Unattacked, begin[k], end[k])]
    <3>1. \A k \in 0 .. n : k # 0 => begin[k] = s[k].from2 /\ end[k] = s[k].to2
      BY <1>1
    <3> HIDE DEF begin, end
    <3> QED BY <3>1
  <2> QED BY <2>1 DEF IsTotal
<1>3. Profit2(s) = CHOOSE total : Eq(total)
  BY DEF Profit2
<1> HIDE DEF n, begin, end, Eq
<1>4. PICK T : T = TotalTo(n, Unattacked, end)
  OBVIOUS
<1>5. IsTotal(T, n, Unattacked, begin, end) /\ \A total : IsTotal(total, n, Unattacked, begin, end) => total = T
  BY <1>1, <1>4, TotalIs
<1>6. Eq(T) /\ \A total : Eq(total) => total = T
  BY <1>2, <1>5
<1>7. Profit2(s) = T
  BY <1>3, <1>6
<1> QED BY <1>4, <1>7 DEF n, end

\* A section that pays differently and gives no point leaves the profits equal.
LEMMA ProfitsStayEqual ==
  ASSUME PathsOK, failed = {}, free.failed = {}, NEW s, Chain(<<1, 1>>, s),
         Decisive(s) = {}, Differences(s) = {},
         \A t \in Range(s) :
           t.kind = "common" /\ Pays(Unattacked, t.from2, t.to2) # {} =>
             Pays(Attacked, t.from1, t.to1) # {},
         NEW k \in 1 .. Len(s), Profit1(s)[k - 1] = Profit2(s)[k - 1]
  PROVE  Profit1(s)[k] = Profit2(s)[k]
<1> DEFINE s1 == Sum(Attacked, s[k].from1, s[k].to1)
           s2 == Sum(Unattacked, s[k].from2, s[k].to2)
<1>0. Len(s) \in Nat /\ 1 .. Len(s) = DOMAIN s /\ s[k] \in Range(s)
  <2>1. s \in Seq(SectionType)
    BY DEF Chain
  <2> QED BY <2>1 DEF Range
<1>1. Profit1(s)[k] = Profit1(s)[k - 1] + s1
  <2>1. PICK T, begin, end : /\ T = TotalTo(Len(s), Attacked, end)
                             /\ begin = [j \in 1 .. Len(s) |-> s[j].from1]
                             /\ end = [j \in 1 .. Len(s) |-> s[j].to1]
    OBVIOUS
  <2>2. Adjoin(Len(s), Attacked, begin, end) /\ Profit1(s) = T
    BY <2>1, ChainAdjoins, Profit1Is
  <2>3. T[k] = T[k - 1] + Sum(Attacked, begin[k], end[k])
    BY <1>0, <2>1, <2>2, RunsOK, TotalStep
  <2>4. begin[k] = s[k].from1 /\ end[k] = s[k].to1
    BY <2>1
  <2> QED BY <2>2, <2>3, <2>4
<1>2. Profit2(s)[k] = Profit2(s)[k - 1] + s2
  <2>1. PICK T, begin, end : /\ T = TotalTo(Len(s), Unattacked, end)
                             /\ begin = [j \in 1 .. Len(s) |-> s[j].from2]
                             /\ end = [j \in 1 .. Len(s) |-> s[j].to2]
    OBVIOUS
  <2>2. Adjoin(Len(s), Unattacked, begin, end) /\ Profit2(s) = T
    BY <2>1, ChainAdjoins, Profit2Is
  <2>3. T[k] = T[k - 1] + Sum(Unattacked, begin[k], end[k])
    BY <1>0, <2>1, <2>2, RunsOK, TotalStep
  <2>4. begin[k] = s[k].from2 /\ end[k] = s[k].to2
    BY <2>1
  <2> QED BY <2>2, <2>3, <2>4
<1>3. CASE s1 = s2
  BY <1>1, <1>2, <1>3
<1>4. CASE s1 # s2
  <2>1. /\ s[k] \in SectionType
        /\ s[k].to1 \in s[k].from1 .. Len(path) + 1
        /\ s[k].to2 \in s[k].from2 .. Len(free.path) + 1
    BY ChainType
  <2>2. s[k].from1 \in Nat \ {0} /\ s[k].from2 \in Nat \ {0}
        /\ s[k].kind \in {"common", "branch", "rest"}
    BY <2>1 DEF SectionType
  <2>3. Attacked.path = path /\ Unattacked.path = free.path /\ RunOK(Attacked) /\ RunOK(Unattacked)
    BY RunsOK DEF Attacked, Unattacked, With
  <2>4. Pays(Attacked, s[k].from1, s[k].to1) = {}
    BY <1>0, <1>4 DEF Differences
  <2>5. s1 = 0
    BY <2>1, <2>2, <2>3, <2>4, SumOfNothing
  <2>6. ASSUME Pays(Unattacked, s[k].from2, s[k].to2) = {} PROVE FALSE
    <3>1. s2 = 0
      BY <2>1, <2>2, <2>3, <2>6, SumOfNothing
    <3> QED BY <1>4, <2>5, <3>1
  <2>7. s[k].kind # "common"
    BY <1>0, <2>4, <2>6
  <2>8. Updated(s[k])
    BY <2>6 DEF Updated
  <2>9. k \notin Decisive(s) /\ k \in DOMAIN s
    BY <1>0
  <2> QED BY <2>2, <2>7, <2>8, <2>9 DEF Decisive
<1> QED BY <1>3, <1>4

LEMMA Explains ==
  ASSUME PathsOK, failed = {}, free.failed = {}, NEW s, s = Sections, s # << >>,
         Sum(Attacked, 1, Len(path) + 1) # Sum(Unattacked, 1, Len(free.path) + 1),
         Last(s).to1 = Len(path) + 1, Last(s).to2 = Len(free.path) + 1,
         \A t \in Range(s) :
           t.kind = "common" /\ Pays(Unattacked, t.from2, t.to2) # {} =>
             Pays(Attacked, t.from1, t.to1) # {}
  PROVE  Locate.points # {}
<1> SUFFICES ASSUME Locate.points = {} PROVE FALSE
  OBVIOUS
<1>1. Chain(<<1, 1>>, s)
  BY SectionsChain
<1>2. Len(s) \in Nat \ {0} /\ 1 .. Len(s) = DOMAIN s /\ Last(s) = s[Len(s)]
  BY <1>1 DEF Chain, Last
<1>3. Decisive(s) = {}
  <2> SUFFICES ASSUME Decisive(s) # {} PROVE FALSE
    OBVIOUS
  <2> DEFINE m == Min(Decisive(s))
             d == Divergences(s, m)
  <2>1. Decisive(s) \in SUBSET Nat
    BY <1>2 DEF Decisive
  <2>2. m \in Decisive(s)
    BY <2>1, MinOfPlaces
  <2> HIDE DEF m
  <2>3. m \in 1 .. Len(s) /\ s[m].kind # "common"
    BY <1>2, <2>2 DEF Decisive
  <2>4. m \in 1 .. m
    BY <2>3
  <2>5. <<s[m].from1 - 1, s[m].from2 - 1>> \in d
    BY <2>3, <2>4 DEF Divergences
  <2> HIDE DEF d
  <2>6. Locate.points = {p[1] : p \in d}
    BY DEF Locate, d, m
  <2> QED BY <2>5, <2>6
<1>4. Differences(s) = {}
  <2>1. Locate.points = Differences(s)
    BY <1>3 DEF Locate
  <2> QED BY <2>1
<1>5. Profit1(s)[0] = 0 /\ Profit2(s)[0] = 0
  <2>1. 0 \in 0 .. Len(s)
    BY <1>2
  <2> QED BY <1>1, <2>1, Profit1Is, Profit2Is DEF TotalTo
<1>6. Profit1(s)[Len(s)] = Profit2(s)[Len(s)]
  <2> DEFINE D == {k \in 0 .. Len(s) : Profit1(s)[k] # Profit2(s)[k]}
  <2>1. D = {}
    <3> SUFFICES ASSUME D # {} PROVE FALSE
      OBVIOUS
    <3>1. PICK k \in D : \A i \in D : k <= i
      <4>1. D \in SUBSET Nat
        BY <1>2
      <4> HIDE DEF D
      <4> QED BY <4>1, NatMin
    <3>2. k \in 0 .. Len(s) /\ Profit1(s)[k] # Profit2(s)[k]
      BY <3>1
    <3>3. k \in 1 .. Len(s) /\ k - 1 \in 0 .. Len(s) /\ ~(k <= k - 1)
      BY <1>2, <1>5, <3>2
    <3>4. k - 1 \notin D
      BY <3>1, <3>3
    <3>5. Profit1(s)[k - 1] = Profit2(s)[k - 1]
      BY <3>3, <3>4
    <3>6. Profit1(s)[k] = Profit2(s)[k]
      BY <1>1, <1>3, <1>4, <3>3, <3>5, ProfitsStayEqual
    <3> QED BY <3>2, <3>6
  <2>2. Len(s) \in 0 .. Len(s)
    BY <1>2
  <2> QED BY <2>1, <2>2
<1>7. Len(s) \in 1 .. Len(s) /\ Len(s) \in 0 .. Len(s) /\ Len(s) # 0
  BY <1>2
<1>8. Profit1(s)[Len(s)] = Sum(Attacked, 1, Len(path) + 1)
  <2>1. Profit1(s)[Len(s)] = Sum(Attacked, 1, s[Len(s)].to1)
    BY <1>1, <1>7, Profit1Is DEF TotalTo
  <2> QED BY <1>2, <2>1
<1>9. Profit2(s)[Len(s)] = Sum(Unattacked, 1, Len(free.path) + 1)
  <2>1. Profit2(s)[Len(s)] = Sum(Unattacked, 1, s[Len(s)].to2)
    BY <1>1, <1>7, Profit2Is DEF TotalTo
  <2> QED BY <1>2, <2>1
<1> QED BY <1>6, <1>8, <1>9

\* The sections depend on the two paths only.
SectionsOf(p1, p2) ==
  LET meets(p) == {j \in (p[1] .. Len(p1)) \X (p[2] .. Len(p2)) : Same(p1[j[1]], p2[j[2]])}
      at(p) == IF meets(p) = {} THEN Section("rest", p, <<Len(p1) + 1, Len(p2) + 1>>)
               ELSE IF p \in meets(p) THEN Section("common", p, <<p[1] + 1, p[2] + 1>>)
               ELSE Section("branch", p, FirstOf(meets(p)))
      cut[p \in (1 .. Len(p1) + 1) \X (1 .. Len(p2) + 1)] ==
        IF p[1] > Len(p1) \/ p[2] > Len(p2) THEN << >>
        ELSE LET s == at(p) IN <<s>> \o cut[<<s.to1, s.to2>>]
  IN  cut[<<1, 1>>]

LEMMA SectionsKept ==
  ASSUME UNCHANGED <<path, free>>
  PROVE  Sections' = Sections
<1>1. Sections = SectionsOf(path, free.path)
  BY DEF Sections, SectionsOf, SectionAt, Meeting, Places, AtEnd
<1>2. Sections' = SectionsOf(path', free'.path)
  BY DEF Sections, SectionsOf, SectionAt, Meeting, Places, AtEnd
<1> QED BY <1>1, <1>2

---------------------------------------------------------------------------
\* The results.

\* Every variable has its type in every reachable state; the analyzer points into
\* the path of the first execution, and where it may merge is ahead of it, at the
\* last place of that block (potentialMergeBlock).
THEOREM TypeCorrect == Spec => []TypeOK
<1>1. IInv => TypeOK
  BY DEF IInv
<1> QED BY <1>1, Inductive, PTL

\* While every tail tells where execution goes, the analyzer is at the block that
\* is executed or is diverging, and does not diverge from an execution that is the
\* reference's own (attachBasicBlockTailHook).
THEOREM TracksExecution == Spec => []Tracks
<1>1. IInv => Tracks
  BY DEF IInv
<1> QED BY <1>1, Inductive, PTL

\* The recorded path has every block that was executed, once, and in the order of
\* execution but for blocks of one operation, whatever calls are made and whatever
\* fails; only a block of one operation that ended its call is missing
\* (CaptureState and appendBasicBlock of nested.go).
THEOREM PathCompleteHolds == Spec => []PathComplete
<1>1. ASSUME IInv, PathInv
      PROVE  PathComplete
  <2>1. \A d \in DOMAIN frames : frames[d].open \in Seq(PathEntry) /\ Len(frames[d].open) <= 1
    <3>1. frames \in Seq(CallFrame) /\ \A d \in DOMAIN frames : Len(frames[d].open) <= 1
      BY <1>1 DEF IInv, TypeOK
    <3>2. \A c \in CallFrame : c.open \in Seq(PathEntry)
      BY DEF CallFrame
    <3>3. \A d \in DOMAIN frames : frames[d] \in CallFrame
      BY <3>1
    <3> QED BY <3>1, <3>2, <3>3
  <2>2. \A d \in DOMAIN frames : \A k \in DOMAIN frames[d].open : k = 1 /\ Pending(d)
    BY <2>1 DEF Pending
  <2>3. \A d \in DOMAIN frames : Pending(d) => 1 \in DOMAIN frames[d].open
    BY <2>1 DEF Pending
  <2>4. \A b \in OpenBlocks : \E d \in DOMAIN frames : Pending(d) /\ b = frames[d].open[1]
    BY <2>2 DEF OpenBlocks
  <2>5. \A d \in DOMAIN frames : Pending(d) => frames[d].open[1] \in OpenBlocks
    BY <2>3 DEF OpenBlocks
  <2>6. \A b \in OpenBlocks : b.index \notin Indexes(path)
    BY <1>1, <2>4 DEF PathInv, PendingOK
  <2>7. \A i \in DOMAIN executed :
          i \in Indexes(path) \cup {b.index : b \in OpenBlocks} \/ EndedCall(i)
    BY <1>1, <2>5 DEF PathInv
  <2> QED BY <1>1, <2>6, <2>7 DEF PathInv, PathComplete
<1> QED BY <1>1, Inductive, PathInductive, PTL

\* Whatever fails, the analyzer does not go back along the reference path, and
\* ends diverging only further on: no block of it is merged into twice.
THEOREM AnalyzerMovesOn == Spec => NeverBack
<1> DEFINE Onward == /\ analyzer'.index >= analyzer.index
                     /\ analyzer.diverging /\ ~analyzer'.diverging => analyzer'.index > analyzer.index
<1>1. ASSUME IInv, [Next]_vars
      PROVE  [Onward]_vars
  <2>1. TypeOK /\ analyzer.index \in Nat
    BY <1>1 DEF IInv, TypeOK, AnalyzerOK
  <2>2. CASE \E next : Hooked(next)
    BY <2>1, <2>2, HookedType
  <2>3. CASE analyzer' = analyzer
    BY <2>1, <2>3
  <2>4. CASE UNCHANGED vars
    BY <2>4
  <2>5. Jump \/ Call \/ RefusedCall \/ Return \/ FaultAtTail \/ OutOfGasAtTail =>
          \E next : Hooked(next)
    BY DEF Jump, Call, RefusedCall, Return, FaultAtTail, OutOfGasAtTail
  <2>6. OutOfGasAtHead => (\E next : Hooked(next)) \/ analyzer' = analyzer
    BY DEF OutOfGasAtHead
  <2>7. Fall \/ FaultInside \/ OutOfGasInside \/ StartAttack \/ EndAttack \/ Analyze =>
          analyzer' = analyzer
    BY DEF Fall, FaultInside, OutOfGasInside, StartAttack, EndAttack, Analyze
  <2> QED BY <1>1, <2>2, <2>3, <2>4, <2>5, <2>6, <2>7 DEF Next
<1> QED BY <1>1, Inductive, PTL DEF Spec, NeverBack

\* The points of a divergence are blocks of both paths, followed by different
\* blocks, and never before the first one (locateConsequencePoint takes i - 1);
\* the other points pay the victim.
THEOREM PointsMatterHolds == Spec => []PointsMatter
<1>1. Init => PointsMatter
  BY DEF Init, PointsMatter
<1>2. ASSUME IInv, FirstBlock, PointsMatter, [Next]_vars
      PROVE  PointsMatter'
  <2>1. CASE UNCHANGED vars
    BY <1>2, <2>1 DEF vars, PointsMatter, Inside, Attacked, With, Same
  <2>2. CASE Analyze
    <3>1. PathsOK
      BY <1>2 DEF IInv, TypeOK, PathsOK
    <3>2. PICK l : l = Locate
      OBVIOUS
    <3>3. PointsOK(l)
      BY <1>2, <3>1, <3>2, LocateOK
    <3>4. /\ UNCHANGED <<path, free, failed>>
          /\ analysis'.points = l.points /\ analysis'.pairs = l.pairs
          /\ analysis'.pattern = Pattern(l)
      BY <2>2, <3>2 DEF Analyze
    <3>5. Pattern(l) = "ComputationAlteration" => ~l.diverge
      BY DEF Pattern
    <3>6. Inside(Attacked, 0)' = Inside(Attacked, 0) /\ Attacked' = Attacked
      BY <3>4 DEF Inside, Attacked, With
    <3>7. \A p \in analysis'.points :
             /\ p \in DOMAIN path'
             /\ analysis'.pattern = "ComputationAlteration" => Inside(Attacked', p) # 0
      BY <3>3, <3>4, <3>5, <3>6 DEF PointsOK
    <3>8. \A p \in analysis'.pairs :
             /\ p[2] \in DOMAIN free'.path /\ Same(path'[p[1]], free'.path[p[2]])
             /\ ~Same(path'[p[1] + 1], free'.path[p[2] + 1])
      BY <3>3, <3>4 DEF PointsOK
    <3> QED BY <3>7, <3>8 DEF PointsMatter, Inside, Same
  <2>3. CASE ~(UNCHANGED vars) /\ ~Analyze
    <3>1. phase' # "done"
      BY <1>2, <2>3 DEF Next, Jump, Fall, Call, RefusedCall, Return, FaultAtTail, FaultInside, OutOfGasAtHead,
         OutOfGasInside, OutOfGasAtTail, StartAttack, EndAttack, Running, Fails, Fixed
    <3> QED BY <3>1 DEF PointsMatter
  <2> QED BY <2>1, <2>2, <2>3
<1> QED BY <1>1, <1>2, Inductive, FirstInductive, PTL DEF Spec

\* When no call fails, neither path stops short of the other and no payment
\* vanishes from a block of both, a victim whose profit is not the same has
\* blocks that explain it (consequencePoints is not empty).
THEOREM ConsequenceFoundHolds == Spec => []ConsequenceFound
<1>1. Init => ConsequenceFound
  BY DEF Init, ConsequenceFound
<1>2. ASSUME IInv, ConsequenceFound, [Next]_vars
      PROVE  ConsequenceFound'
  <2>1. CASE UNCHANGED vars
    <3>1. Sections' = Sections /\ UNCHANGED <<path, free, failed, analysis, phase>>
      BY <2>1, SectionsKept DEF vars
    <3>2. Attacked' = Attacked /\ Unattacked' = Unattacked
      BY <3>1 DEF Attacked, Unattacked, With
    <3> QED BY <1>2, <3>1, <3>2 DEF ConsequenceFound
  <2>2. CASE Analyze
    <3>1. PathsOK
      BY <1>2 DEF IInv, TypeOK, PathsOK
    <3>2. PICK l : l = Locate
      OBVIOUS
    <3>3. UNCHANGED <<path, free, failed>> /\ analysis'.points = l.points
      BY <2>2, <3>2 DEF Analyze
    <3>4. PICK s : s = Sections
      OBVIOUS
    <3>5. Sections' = s /\ Attacked' = Attacked /\ Unattacked' = Unattacked
      BY <3>3, <3>4, SectionsKept DEF Attacked, Unattacked, With
    <3>6. ASSUME failed = {}, free.failed = {}, s # << >>,
                 Sum(Attacked, 1, Len(path) + 1) # Sum(Unattacked, 1, Len(free.path) + 1),
                 Last(s).to1 = Len(path) + 1, Last(s).to2 = Len(free.path) + 1,
                 \A t \in Range(s) :
                   t.kind = "common" /\ Pays(Unattacked, t.from2, t.to2) # {} =>
                     Pays(Attacked, t.from1, t.to1) # {}
          PROVE  l.points # {}
      BY <3>1, <3>2, <3>4, <3>6, Explains
    <3> QED BY <3>3, <3>5, <3>6 DEF ConsequenceFound
  <2>3. CASE ~(UNCHANGED vars) /\ ~Analyze
    <3>1. phase' # "done"
      BY <1>2, <2>3 DEF Next, Jump, Fall, Call, RefusedCall, Return, FaultAtTail, FaultInside, OutOfGasAtHead,
         OutOfGasInside, OutOfGasAtTail, StartAttack, EndAttack, Running, Fails, Fixed
    <3> QED BY <3>1 DEF ConsequenceFound
  <2> QED BY <2>1, <2>2, <2>3
<1> QED BY <1>1, <1>2, Inductive, PTL DEF Spec
=============================================================================
