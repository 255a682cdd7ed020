--------------------------- MODULE AttackAnalysis ---------------------------
(***************************************************************************)
(* How an attack is explained:  dataset/attack_analysis.go, and the parts  *)
(* it rests on, the execution paths of dyengine/tracers (nested.go,        *)
(* location.go, msgcall.go) and the tracking of a reference path by the    *)
(* taint analyzer (dataset/taint_analysis.go).                             *)
(*                                                                         *)
(* The victim's transaction is executed twice, without the attack and with *)
(* it.  Both executions walk through the basic blocks of the contracts;    *)
(* what the two states make different (where jumps go, which calls fail,   *)
(* how much is paid) is left open.  A tracer records the blocks of every   *)
(* call; the flattened path has them in the order in which they are        *)
(* closed.  In the second execution the taint analyzer follows the path of *)
(* the first one.  Then Analyze compares the two paths, to find the blocks *)
(* that explain why the victim's profit is not the same.                   *)
(*                                                                         *)
(* A block is named by its contract and the place of its head, its "pc";   *)
(* the operation after its tail is the head of the block pc + 1.  A block  *)
(* may fall through into the next one, a JUMPDEST.  A block is single when *)
(* its only operation is the one that ends it.                             *)
(***************************************************************************)
EXTENDS Integers, FiniteSets, Sequences, SequencesExt, FiniteSetsExt

CONSTANTS
  Accounts,    \* contracts, and accounts without code
  Root,        \* the receiver of the victim's transaction
  Programs,    \* the choices of the contracts' blocks
  MaxBlocks,   \* bound on the blocks of one execution
  MaxFailures  \* bound on the calls that fail, other than by reverting

Tails == {"jump", "call", "return", "revert", "fall"}

\* pays: what the block may give the victim, or take from it; Ether when its call
\* carries the value, a token otherwise.
Block == [tail : Tails, single : BOOLEAN, next : SUBSET Nat, to : SUBSET Accounts,
          pays : SUBSET Int, value : BOOLEAN]

ASSUME RootAssumption == Root \in Accounts

\* Execution never runs off the blocks of a contract.  The first operation of a
\* call finds no operands on the stack, so that it is no jump or call.
IsProgram(contracts) ==
  /\ Root \in DOMAIN contracts /\ DOMAIN contracts \subseteq Accounts
  /\ \A a \in DOMAIN contracts :
       /\ DOMAIN contracts[a] \subseteq Nat \ {0} /\ 1 \in DOMAIN contracts[a]
       /\ \A pc \in DOMAIN contracts[a] :
            LET b == contracts[a][pc]
            IN  /\ b \in Block
                /\ b.tail = "jump" => b.next \subseteq DOMAIN contracts[a] /\ b.next # {}
                /\ b.tail \in {"call", "fall"} => pc + 1 \in DOMAIN contracts[a]
                /\ b.tail = "call" => b.to # {}
                /\ b.value => b.tail = "call"
                /\ b.tail \in {"jump", "call"} /\ pc = 1 => ~b.single
                /\ b.pays # {}

ASSUME ProgramsAssumption == \A contracts \in Programs : IsProgram(contracts)

VARIABLES
  code,      \* the blocks of the contracts
  phase,     \* "attack-free", "attack", "compare" or "done"
  frames,    \* the message calls under way, the current one last
  path,      \* the blocks closed so far:  FlattenedExecutionPath
  failed,    \* the positions of the calls that have ended with an error
  outOfGas,  \* whether some call ran out of gas:  MsgCall.OutOfGas
  free,      \* the same three of the execution without the attack
  analyzer,  \* what the taint analyzer knows of the reference path
  analysis,  \* the answer of Analyze
  executed,  \* history: the blocks entered, in order
  faulted,   \* history: the calls ended by an operation inside a block
  exact      \* history: every tail was recorded and told where execution went

vars == <<code, phase, frames, path, failed, outOfGas, free, analyzer, analysis,
          executed, faulted, exact>>

---------------------------------------------------------------------------
\* The message call and its trace.

NoBlock == <<"none", 0>>
Key(b)  == <<b.code, b.pc>>

\* A new call: lastLocation is nil, so its first operation is a head.
Frame(a, pos) == [code |-> a, pos |-> pos, pc |-> 1, calls |-> 0, open |-> << >>]

Current == Last(frames)
At      == code[Current.code][Current.pc]

\* GenChildPosition.
ChildPosition == Append(Current.pos, Current.calls)

\* A traceBlock.  tail: what its last operation is.  A transfer of its operations
\* is kept in a call's data:  the call itself, or for Ether the callee;  it counts
\* unless that call fails.
Entry(tail, amount, holder) ==
  [code |-> Current.code, pc |-> Current.pc, pos |-> Current.pos, tail |-> tail,
   amount |-> amount, holder |-> holder, single |-> At.single,
   index |-> Len(executed) + 1]

\* CaptureState at the head of a block appends the block left open before.  At
\* the tail of a block of several operations it appends this one; a block that
\* is only a head, or has no tail operation, stays open.
Closed(block) == Current.open \o (IF At.single \/ At.tail = "fall" THEN << >> ELSE <<block>>)
Opened(block) == IF At.single \/ At.tail = "fall" THEN <<block>> ELSE << >>

\* The last operation of a block without an error, and where the caller resumes.
Enter(block) ==
  /\ Len(executed) < MaxBlocks
  /\ path' = path \o Closed(block)
  /\ executed' = Append(executed, [code |-> block.code, pc |-> block.pc, pos |-> block.pos])

Moved(f, block, pc) == [f EXCEPT !.pc = pc, !.open = Opened(block)]
SetCurrent(f)       == Append(Front(frames), f)

\* Bug: the call itself.
ResumedAtCall ==
  IF Len(frames) = 1 THEN NoBlock
  ELSE <<frames[Len(frames) - 1].code, frames[Len(frames) - 1].pc - 1>>

\* getNextBlock: the target of a jump, the first block of a callee (with code or
\* without), the operation of the caller after the call.
Resumed == IF Len(frames) = 1 THEN NoBlock ELSE Key(frames[Len(frames) - 1])

NextBlocks ==
  CASE At.tail = "jump" -> {<<Current.code, pc>> : pc \in At.next}
    [] At.tail = "call" -> {<<a, 1>> : a \in At.to}
    [] OTHER            -> {Resumed}

---------------------------------------------------------------------------
\* The taint analyzer.

NoAnalyzer == [index |-> 1, diverging |-> FALSE, node |-> FALSE, merge |-> << >>]

\* Bugs: blocks that are behind too; the place before.
MergesAnywhere(ref, index) ==
  [k \in {Key(ref[i]) : i \in DOMAIN ref} |-> Min({i \in DOMAIN ref : Key(ref[i]) = k})]

MergesEarly(ref, index) ==
  LET coming == index + 1 .. Len(ref)
  IN  [k \in {Key(ref[i]) : i \in coming} |-> Max({i \in coming : Key(ref[i]) = k}) - 1]

\* potentialMergeBlock: for the blocks still to come, the last place of each.
Merges(ref, index) ==
  LET coming == index + 1 .. Len(ref)
  IN  [k \in {Key(ref[i]) : i \in coming} |-> Max({i \in coming : Key(ref[i]) = k})]

\* attachBasicBlockTailHook, after the flow of the tail operation: next is what
\* getNextBlock says, tainted whether lastTaintedSink is set.
Hook(an, ref, next, tainted) ==
  IF an.diverging
  THEN IF next \in DOMAIN an.merge THEN [NoAnalyzer EXCEPT !.index = an.merge[next]] ELSE an
  ELSE IF an.index >= Len(ref) THEN [an EXCEPT !.diverging = TRUE]
  ELSE IF Key(ref[an.index + 1]) = next THEN [an EXCEPT !.index = @ + 1]
  ELSE [an EXCEPT !.diverging = TRUE, !.node = tainted, !.merge = Merges(ref, an.index)]

\* Only the execution with the attack has the analyzer's policy.
Hooked(next) ==
  IF phase = "attack"
  THEN \E tainted \in BOOLEAN : analyzer' = Hook(analyzer, free.path, next, tainted)
  ELSE UNCHANGED analyzer

---------------------------------------------------------------------------
\* The executions.

Init ==
  /\ code \in Programs
  /\ phase = "attack-free"
  /\ frames = <<Frame(Root, << >>)>>
  /\ path = << >> /\ executed = << >>
  /\ failed = {} /\ outOfGas = FALSE /\ faulted = {}
  /\ free = [path |-> << >>, failed |-> {}, outOfGas |-> FALSE]
  /\ analyzer = NoAnalyzer
  /\ analysis = [points |-> {}, pairs |-> {}, pattern |-> "none", consequence |-> 0]
  /\ exact = TRUE

Running == phase \in {"attack-free", "attack"} /\ frames # << >>

Fixed == UNCHANGED <<code, phase, free, analysis, faulted>>

\* JUMP and JUMPI.
Jump ==
  /\ Running /\ At.tail = "jump"
  /\ \E pc \in At.next, amount \in At.pays :
       LET block == Entry("jump", amount, Current.pos)
       IN  /\ Enter(block)
           /\ frames' = SetCurrent(Moved(Current, block, pc))
           /\ Hooked(<<Current.code, pc>>)
  /\ exact' = (exact /\ ~At.single)
  /\ UNCHANGED <<failed, outOfGas>> /\ Fixed

\* The next operation is a JUMPDEST: no tail, and no hook.
Fall ==
  /\ Running /\ At.tail = "fall"
  /\ \E amount \in At.pays :
       LET block == Entry("other", amount, Current.pos)
       IN  Enter(block) /\ frames' = SetCurrent(Moved(Current, block, Current.pc + 1))
  /\ exact' = FALSE
  /\ UNCHANGED <<failed, outOfGas, analyzer>> /\ Fixed

\* CALL:  CaptureEnter appends a call, which ends at once when the callee has
\* no code.
Call ==
  /\ Running /\ At.tail = "call"
  /\ \E a \in At.to, amount \in At.pays :
       LET holder == IF At.value THEN ChildPosition ELSE Current.pos
           block  == Entry("call", amount, holder)
           caller == [Moved(Current, block, Current.pc + 1) EXCEPT !.calls = @ + 1]
       IN  /\ Enter(block)
           /\ frames' = SetCurrent(caller)
                        \o (IF a \in DOMAIN code THEN <<Frame(a, ChildPosition)>> ELSE << >>)
           /\ Hooked(<<a, 1>>)
           /\ exact' = (exact /\ ~At.single /\ a \in DOMAIN code)
  /\ UNCHANGED <<failed, outOfGas>> /\ Fixed

\* A CALL the machine refuses, for want of balance or depth: nothing is entered.
RefusedCall ==
  /\ Running /\ At.tail = "call" /\ At.value
  /\ \E a \in At.to :
       LET block == Entry("call", 0, Current.pos)
       IN  /\ Enter(block)
           /\ frames' = SetCurrent(Moved(Current, block, Current.pc + 1))
           /\ Hooked(<<a, 1>>)
  /\ exact' = FALSE
  /\ UNCHANGED <<failed, outOfGas>> /\ Fixed

\* RETURN, STOP and SELFDESTRUCT, REVERT and INVALID:  what is open is lost.
Return ==
  /\ Running /\ At.tail \in {"return", "revert"}
  /\ \E amount \in At.pays : Enter(Entry(At.tail, amount, Current.pos))
  /\ frames' = Front(frames)
  /\ Hooked(Resumed)
  /\ failed' = IF At.tail = "revert" THEN failed \cup {Current.pos} ELSE failed
  /\ exact' = (exact /\ ~At.single)
  /\ UNCHANGED outOfGas /\ Fixed

Failures == Cardinality(failed) < MaxFailures

Fails ==
  /\ Failures
  /\ frames' = Front(frames)
  /\ failed' = failed \cup {Current.pos}
  /\ exact' = FALSE
  /\ Fixed

\* A tail fails as it is executed: a jump to no JUMPDEST, wherever that is; a call
\* with a value, a creation or a SELFDESTRUCT in a static call.  It has been recorded
\* by then.
FaultAtTail ==
  /\ Running /\ At.tail \in {"jump", "call", "return"}
  /\ Enter(Entry(At.tail, 0, Current.pos))
  /\ \E next \in IF At.tail # "jump" THEN NextBlocks
                 ELSE {NoBlock} \cup {<<Current.code, pc>> : pc \in DOMAIN code[Current.code]} :
       Hooked(next)
  /\ Fails
  /\ UNCHANGED outOfGas

\* Any other operation fails as it is executed: a read beyond the return data, a
\* write in a static call, an undefined operation.  CaptureState has put it into the
\* current block, CaptureFault closes nothing, and the call ends: the block is lost.
FaultInside ==
  /\ Running
  /\ ~At.single \/ At.tail = "fall"
  /\ Len(executed) < MaxBlocks /\ Failures
  /\ path' = path \o Current.open
  /\ executed' = Append(executed, [code |-> Current.code, pc |-> Current.pc, pos |-> Current.pos])
  /\ frames' = Front(frames)
  /\ failed' = failed \cup {Current.pos} /\ faulted' = faulted \cup {Current.pos}
  /\ exact' = FALSE
  /\ UNCHANGED <<code, phase, free, analysis, analyzer, outOfGas>>

\* Bug: leaving the block open in a call that is over.
LeftOpen == << >>

\* An operation that cannot be paid for:  CaptureState closes the block that is
\* open with it.  At the head of a block that is the one before, if any.
ClosedByError ==
  LET tail == IF At.single /\ At.tail # "fall" THEN At.tail ELSE "other"
  IN  [b \in DOMAIN Current.open |-> [Current.open[b] EXCEPT !.tail = tail]]

OutOfGasAtHead ==
  /\ Running
  /\ path' = path \o ClosedByError
  /\ IF At.single /\ At.tail # "fall"
     THEN \E next \in NextBlocks : Hooked(next) ELSE UNCHANGED analyzer
  /\ outOfGas' = TRUE
  /\ Fails
  /\ UNCHANGED executed

\* Between head and tail, where no policy has a hook.
OutOfGasInside ==
  /\ Running /\ ~At.single /\ Len(executed) < MaxBlocks
  /\ path' = path \o Current.open \o <<Entry("other", 0, Current.pos)>>
  /\ executed' = Append(executed, [code |-> Current.code, pc |-> Current.pc, pos |-> Current.pos])
  /\ outOfGas' = TRUE
  /\ Fails
  /\ UNCHANGED analyzer

\* At the tail of a block of several operations: the policies look at no error.
OutOfGasAtTail ==
  /\ Running /\ ~At.single /\ At.tail # "fall"
  /\ Enter(Entry(At.tail, 0, Current.pos))
  /\ \E next \in NextBlocks : Hooked(next)
  /\ outOfGas' = TRUE
  /\ Fails

\* The transaction ends; the one with the attack starts from the same block.
StartAttack ==
  /\ phase = "attack-free" /\ frames = << >>
  /\ phase' = "attack"
  /\ free' = [path |-> path, failed |-> failed, outOfGas |-> outOfGas]
  /\ frames' = <<Frame(Root, << >>)>>
  /\ path' = << >> /\ failed' = {} /\ outOfGas' = FALSE
  /\ executed' = << >> /\ faulted' = {}
  /\ UNCHANGED <<code, analyzer, analysis, exact>>

EndAttack ==
  /\ phase = "attack" /\ frames = << >>
  /\ phase' = "compare"
  /\ UNCHANGED <<code, frames, path, failed, outOfGas, free, analyzer, analysis, executed,
                 faulted, exact>>

---------------------------------------------------------------------------
\* The comparison of the two paths:  1 is the execution with the attack.

With(p, f) == [path |-> p, failed |-> f]
Attacked   == With(path, failed)
Unattacked == With(free.path, free.failed)

\* blocksEqual.
Same(b1, b2) == b1.code = b2.code /\ b1.pc = b2.pc /\ b1.pos = b2.pos

\* consequenceInside of OverallTransfers: what the victim gets in a block, but
\* for the transfers of calls that failed, themselves or an outer one.
Inside(run, i) ==
  LET b == run.path[i]
  IN  IF \E pos \in run.failed : IsPrefix(pos, b.holder) THEN 0 ELSE b.amount

Pays(run, lo, hi) == {i \in lo .. hi - 1 : Inside(run, i) # 0}
Sum(run, lo, hi)  == MapThenSumSet(LAMBDA i : Inside(run, i), lo .. hi - 1)

\* The loop proceedTogether cuts the paths into sections:  a block of both; the
\* two branches up to the first pair of equal blocks; the rest, if they never
\* merge.  What remains of a longer path is in no section.
Section(kind, p, q) ==
  [kind |-> kind, from1 |-> p[1], to1 |-> q[1], from2 |-> p[2], to2 |-> q[2]]

Meeting(p) ==
  {j \in (p[1] .. Len(path)) \X (p[2] .. Len(free.path)) : Same(path[j[1]], free.path[j[2]])}

\* The first pair: j1 is the outer loop.
FirstOf(pairs) ==
  LET j1 == Min({p[1] : p \in pairs})
  IN  <<j1, Min({p[2] : p \in {q \in pairs : q[1] = j1}})>>

SectionAt(p) ==
  LET meeting == Meeting(p)
  IN  IF meeting = {} THEN Section("rest", p, <<Len(path) + 1, Len(free.path) + 1>>)
      ELSE IF p \in meeting THEN Section("common", p, <<p[1] + 1, p[2] + 1>>)
      ELSE Section("branch", p, FirstOf(meeting))

\* A pair of places, behind the end of a path when that path has been cut.
Places   == (1 .. Len(path) + 1) \X (1 .. Len(free.path) + 1)
AtEnd(p) == p[1] > Len(path) \/ p[2] > Len(free.path)

Sections ==
  LET cut[p \in Places] ==
        IF AtEnd(p) THEN << >>
        ELSE LET s == SectionAt(p) IN <<s>> \o cut[<<s.to1, s.to2>>]
  IN  cut[<<1, 1>>]

\* updateProfits: a block of a call that failed forgets all profits before the
\* section, of whatever call; then the section's own are added.
Reverts(run, lo, hi) == \E i \in lo .. hi - 1 : run.path[i].pos \in run.failed

Profit1(sections) ==
  LET total[k \in 0 .. Len(sections)] ==
        IF k = 0 THEN 0
        ELSE LET s == sections[k]
             IN  (IF Reverts(Attacked, s.from1, s.to1) THEN 0 ELSE total[k - 1])
                 + Sum(Attacked, s.from1, s.to1)
  IN  total

Profit2(sections) ==
  LET total[k \in 0 .. Len(sections)] ==
        IF k = 0 THEN 0
        ELSE LET s == sections[k]
             IN  (IF Reverts(Unattacked, s.from2, s.to2) THEN 0 ELSE total[k - 1])
                 + Sum(Unattacked, s.from2, s.to2)
  IN  total

\* Bug: looking at the path of the attack only.
UpdatedByAttack(s) ==
  Reverts(Attacked, s.from1, s.to1) \/ Pays(Attacked, s.from1, s.to1) # {}

Updated(s) ==
  \/ Reverts(Attacked, s.from1, s.to1) \/ Pays(Attacked, s.from1, s.to1) # {}
  \/ Reverts(Unattacked, s.from2, s.to2) \/ Pays(Unattacked, s.from2, s.to2) # {}

\* The sections after which the search ends: the profits differ, or the paths
\* never merge again.
Decisive(sections) ==
  {k \in DOMAIN sections :
     \/ sections[k].kind = "branch" /\ Updated(sections[k])
                                    /\ Profit1(sections)[k] # Profit2(sections)[k]
     \/ sections[k].kind = "rest" /\ Updated(sections[k])}

\* Bug: the blocks where the paths differ already.
DivergencesLate(sections, k) ==
  {<<sections[j].from1, sections[j].from2>> :
     j \in {i \in 1 .. k : sections[i].kind # "common"}}

\* The blocks before the divergences, in both paths.
Divergences(sections, k) ==
  {<<sections[j].from1 - 1, sections[j].from2 - 1>> :
     j \in {i \in 1 .. k : sections[i].kind # "common"}}

\* The last paying block of each section of the attack's path that does not pay
\* the same as the other one.
Differences(sections) ==
  LET unequal == {s \in Range(sections) :
                    Sum(Attacked, s.from1, s.to1) # Sum(Unattacked, s.from2, s.to2)}
  IN  {Max(Pays(Attacked, s.from1, s.to1)) :
         s \in {t \in unequal : Pays(Attacked, t.from1, t.to1) # {}}}

\* locateConsequencePoint: points of the two paths, and divergePoint.
Locate ==
  LET sections == Sections
      decisive == Decisive(sections)
  IN  IF decisive # {}
      THEN [pairs |-> Divergences(sections, Min(decisive)), diverge |-> TRUE,
            points |-> {p[1] : p \in Divergences(sections, Min(decisive))}]
      ELSE [pairs |-> {}, diverge |-> FALSE, points |-> Differences(sections)]

\* The points that can be looked up among the tainted operations: the tail of a
\* block, or the operation of a transfer.
Explained(located) ==
  {p \in located.points :
     IF located.diverge THEN path[p].tail \in {"jump", "call"} ELSE Inside(Attacked, p) # 0}

Pattern(located) ==
  IF located.points = {} THEN "none"
  ELSE IF ~located.diverge THEN "ComputationAlteration"
  ELSE IF outOfGas # free.outOfGas THEN "GasEstimationGriefing" ELSE "PathConditionAlteration"

\* Analyze: for a shared variable, the last point its value has reached, which
\* data decides; none if it has reached none.
Analyze ==
  /\ phase = "compare"
  /\ phase' = "done"
  /\ LET located == Locate
     IN  \E c \in Explained(located) \cup {0} :
           analysis' = [points |-> located.points, pairs |-> located.pairs,
                        pattern |-> Pattern(located), consequence |-> c]
  /\ UNCHANGED <<code, frames, path, failed, outOfGas, free, analyzer, executed, faulted,
                 exact>>

Next ==
  \/ Jump \/ Fall \/ Call \/ RefusedCall \/ Return
  \/ FaultAtTail \/ FaultInside \/ OutOfGasAtHead \/ OutOfGasInside \/ OutOfGasAtTail
  \/ StartAttack \/ EndAttack \/ Analyze

Spec == Init /\ [][Next]_vars

---------------------------------------------------------------------------
\* Properties.

Position  == Seq(Nat)
PathEntry == [code : Accounts, pc : Nat \ {0}, pos : Position, tail : Tails \cup {"other"},
              amount : Int, holder : Position, single : BOOLEAN, index : Nat \ {0}]
CallFrame == [code : Accounts, pos : Position, pc : Nat \ {0}, calls : Nat, open : Seq(PathEntry)]

\* The analyzer points into the reference path, and a place where it may merge is
\* a later one of that very block.
AnalyzerOK(an, ref) ==
  /\ an \in [index : 1 .. Len(ref) + 1, diverging : BOOLEAN, node : BOOLEAN, merge : {an.merge}]
  /\ \A k \in DOMAIN an.merge :
       an.merge[k] \in an.index + 1 .. Len(ref) /\ Key(ref[an.merge[k]]) = k
  /\ ~an.diverging => DOMAIN an.merge = {}

\* Every variable has its type, and the analyzer is consistent with the path of
\* the first execution (currentBlockIndex, potentialMergeBlock).
TypeOK ==
  /\ code \in Programs /\ phase \in {"attack-free", "attack", "compare", "done"}
  /\ exact \in BOOLEAN /\ outOfGas \in BOOLEAN
  /\ frames \in Seq(CallFrame) /\ \A d \in DOMAIN frames : Len(frames[d].open) <= 1
  /\ path \in Seq(PathEntry) /\ failed \subseteq Position /\ faulted \subseteq failed
  /\ executed \in Seq([code : Accounts, pc : Nat \ {0}, pos : Position])
  /\ free.path \in Seq(PathEntry) /\ AnalyzerOK(analyzer, free.path)

\* The path has every block that was executed, once and in order; a block with
\* one operation may come late, after the calls below it.  A block is missing only
\* when its call ended with it, and either that was its only operation or the call
\* ended inside it, by an operation that failed as it was executed; one that could
\* not be paid for loses no block (CaptureState, appendBasicBlock).
OpenBlocks == UNION {{frames[d].open[i] : i \in DOMAIN frames[d].open} : d \in DOMAIN frames}

Indexes(p) == {p[i].index : i \in DOMAIN p}

InOrder(p) ==
  \A i, j \in DOMAIN p :
    /\ p[i].index = p[j].index => i = j
    /\ i < j /\ p[i].index > p[j].index => p[j].single

\* A block that its call ended with, of one operation or by a failing one.
EndedCall(i) ==
  /\ code[executed[i].code][executed[i].pc].single \/ executed[i].pos \in faulted
  /\ \A d \in DOMAIN frames : frames[d].pos # executed[i].pos
  /\ \A j \in i + 1 .. Len(executed) : executed[j].pos # executed[i].pos

PathComplete ==
  LET open == {b.index : b \in OpenBlocks}
  IN  /\ InOrder(path) /\ Indexes(path) \cap open = {}
      /\ \A i \in DOMAIN executed : i \in Indexes(path) \cup open \/ EndedCall(i)

\* As long as every tail tells where execution goes, the analyzer is at the block
\* that is executed, unless it is diverging; and it is not diverging while the
\* blocks are those of the reference path (currentBlockIndex, isDiverging).
Tracks ==
  phase = "attack" /\ exact /\ frames # << >> =>
    LET blocks == Append([i \in DOMAIN executed |-> Key(executed[i])], Key(Current))
        same   == /\ Len(blocks) <= Len(free.path)
                  /\ \A i \in DOMAIN blocks : blocks[i] = Key(free.path[i])
    IN  /\ ~analyzer.diverging => Key(free.path[analyzer.index]) = Key(Current)
        /\ same => ~analyzer.diverging /\ analyzer.index = Len(blocks)

\* The analyzer never goes back along the reference path, and gives up diverging
\* only to go on behind the block where it left it.
NeverBack ==
  [][/\ analyzer'.index >= analyzer.index
     /\ analyzer.diverging /\ ~analyzer'.diverging => analyzer'.index > analyzer.index]_vars

\* When no call fails, neither path stops short of the other and the attack makes
\* no payment vanish from a block of both, a victim whose profit is not the same
\* has blocks that explain it (len(consequencePoints) <= 0 "should not happen").
ConsequenceFound ==
  phase = "done" /\ failed = {} /\ free.failed = {} =>
    LET sections == Sections
    IN  /\ Sum(Attacked, 1, Len(path) + 1) # Sum(Unattacked, 1, Len(free.path) + 1)
        /\ sections # << >>
        /\ Last(sections).to1 = Len(path) + 1 /\ Last(sections).to2 = Len(free.path) + 1
        /\ \A s \in Range(sections) :
             s.kind = "common" /\ Pays(Unattacked, s.from2, s.to2) # {} =>
               Pays(Attacked, s.from1, s.to1) # {}
        => analysis.points # {}

\* The points of a divergence are blocks of both paths, followed by different
\* blocks; the other ones pay the victim.
PointsMatter ==
  phase = "done" =>
    /\ \A p \in analysis.points :
         /\ p \in DOMAIN path
         /\ analysis.pattern = "ComputationAlteration" => Inside(Attacked, p) # 0
    /\ \A p \in analysis.pairs :
         /\ p[2] \in DOMAIN free.path /\ Same(path[p[1]], free.path[p[2]])
         /\ ~Same(path[p[1] + 1], free.path[p[2] + 1])
---------------------------------------------------------------------------
\* What Tracks needs to be inductive: the execution is in the contracts, nothing
\* is analyzed yet without the attack, and while all is exact the path is what
\* was executed, from the root on.
InCode == \A d \in DOMAIN frames :
            frames[d].code \in DOMAIN code /\ frames[d].pc \in DOMAIN code[frames[d].code]

Faithful ==
  phase \in {"attack-free", "attack"} /\ exact =>
    /\ \A d \in DOMAIN frames : frames[d].open = << >>
    /\ Len(path) = Len(executed)
    /\ \A i \in DOMAIN path : Key(path[i]) = Key(executed[i])
    /\ executed = << >> => frames = <<Frame(Root, << >>)>>
    /\ executed # << >> => Key(executed[1]) = <<Root, 1>>
    /\ phase = "attack" => free.path # << >> /\ Key(free.path[1]) = <<Root, 1>>

IInv ==
  /\ TypeOK /\ InCode /\ Faithful /\ Tracks
  /\ phase = "attack-free" => analyzer = NoAnalyzer /\ free.path = << >>

\* What PathComplete needs to be inductive.  The calls under way are nested, and a
\* call made later has a later number than the ones in which blocks were executed.
Below(pos, f)        == Len(pos) > Len(f.pos) /\ \A k \in DOMAIN f.pos : pos[k] = f.pos[k]
EarlierChild(pos, f) == Below(pos, f) => pos[Len(f.pos) + 1] < f.calls

Nested ==
  \A d \in DOMAIN frames :
    /\ Len(frames[d].pos) = d - 1
    /\ \A e \in d + 1 .. Len(frames) :
         Below(frames[e].pos, frames[d]) /\ EarlierChild(frames[e].pos, frames[d])

Numbered ==
  \A d \in DOMAIN frames, i \in DOMAIN executed : EarlierChild(executed[i].pos, frames[d])

\* A block left open was executed and is not recorded yet; unless it is single, it
\* is the block that was executed last.
Pending(d) == frames[d].open # << >>

PendingOK ==
  \A d \in DOMAIN frames : Pending(d) =>
    LET b == frames[d].open[1]
    IN  /\ b.index \in 1 .. Len(executed) /\ b.index \notin Indexes(path)
        /\ b.single \/ (d = Len(frames) /\ b.index = Len(executed))
        /\ \A e \in DOMAIN frames : Pending(e) /\ frames[e].open[1].index = b.index => e = d

PathInv ==
  /\ InOrder(path) /\ Indexes(path) \subseteq 1 .. Len(executed)
  /\ PendingOK /\ Nested /\ Numbered
  /\ \A i \in DOMAIN executed :
       \/ i \in Indexes(path) \/ EndedCall(i)
       \/ \E d \in DOMAIN frames : Pending(d) /\ frames[d].open[1].index = i

\* What PointsMatter needs: the first block of the receiver is the first of both
\* paths; as long as a path is empty, that block is being executed or is left open.
IsFirst(b) == b.code = Root /\ b.pc = 1 /\ b.pos = << >>

FirstBlock ==
  /\ path # << >> => IsFirst(path[1])
  /\ free.path # << >> => IsFirst(free.path[1])
  /\ path = << >> /\ frames # << >> =>
       \/ frames = <<Frame(Root, << >>)>>
       \/ Len(frames) = 1 /\ frames[1].open # << >> /\ IsFirst(frames[1].open[1])

=============================================================================
