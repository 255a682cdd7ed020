------------------------------ MODULE DataFlow ------------------------------
(***************************************************************************)
(* The data-flow tracer (analysis/data_flow): it follows a transaction     *)
(* with a mirror of the EVM's stack, memory, storage, call data, return    *)
(* data, balances and codes, which holds flow nodes where the EVM holds    *)
(* values, and tells its analyzer when a node reaches a sink.              *)
(*                                                                         *)
(* The EVM is external: it runs beside the mirror, and of its values only  *)
(* the truth is kept: whether a unit of data depends on what the analyzer  *)
(* calls a source.  A word has Granularity units (32 bytes in the code,    *)
(* where the mirror of memory knows words only).  A contract is a sequence *)
(* of steps, each one of several operations; operands that only say where  *)
(* data lies belong to the operation, or come from the stack as n more.    *)
(***************************************************************************)
EXTENDS Integers, Sequences, FiniteSets

CONSTANTS
  Accounts,     \* addresses
  Root,         \* receiver of the transaction
  Codeless,     \* precompiled contracts and accounts without code
  Granularity,  \* units of a word: memoryGranularity
  Words,        \* words of memory, call data and return data
  Programs,     \* codes: from accounts to sequences of sets of operations
  Analyzers,    \* what an analyzer takes for sources: sets of <<opcode, account>>
  MaxCalls      \* bound on open calls

ASSUME FlowAssumption ==
  /\ Root \in Accounts \ Codeless /\ Codeless \subseteq Accounts /\ "root" \notin Accounts
  /\ Granularity \in Nat \ {0} /\ Words \in Nat /\ MaxCalls \in Nat

Size == Words * Granularity
Units == 0 .. Size - 1

\* <<first unit, number of units>> of memory, call data or return data.
Spans == {s \in (0 .. Size) \X (0 .. Size) : s[1] + s[2] <= Size}

Kinds == {"CALL", "CALLCODE", "DELEGATECALL", "STATICCALL", "CREATE"}

IsOperation(op) ==
  /\ op.n \in Nat
  /\ op.name \in {"DUP", "SWAP"} => op.n > 0
  /\ op.name \in {"MLOAD", "KECCAK256", "CALLDATALOAD", "MSTORE", "CODECOPY", "LOG",
                  "RETURN", "REVERT"} => op.span \in Spans
  /\ op.name \in {"BALANCE", "EXTCODESIZE", "SELFDESTRUCT"} \/ (op.name = "CODECOPY" /\ op.n > 0)
       => op.at \in Accounts
  /\ op.name \in {"CALLDATACOPY", "RETURNDATACOPY"} =>
       op.into \in Spans /\ op.from \in Nat /\ <<op.from, op.into[2]>> \in Spans
  /\ op.name \in Kinds =>
       /\ op.n \in {0, 1} /\ op.to \in {0, 1}
       /\ op.at \in Accounts /\ op.args \in Spans /\ op.into \in Spans

ASSUME ProgramsAssumption ==
  \A p \in Programs : \A a \in Accounts :
    /\ Len(p[a]) \in Nat
    /\ \A i \in 1 .. Len(p[a]) : \A op \in p[a][i] : IsOperation(op)

(***************************************************************************)
(* A node is known by the sources it can be traced back to along From():   *)
(* UntaintedValue is no node, a blank node leads nowhere, a loaded one to  *)
(* a source.                                                               *)
(***************************************************************************)
UntaintedValue == "untainted"
Node == {UntaintedValue, "blank", "loaded"}

VARIABLES
  frames,   \* open message calls, the outermost first
  tracker,  \* globalStorages and globalChains, the root call's storage apart
  chain,    \* dependence of storage, balances and codes
  sink,     \* the last operation: was it reported as a sink, has it dependent data
  program,  \* the contracts' codes
  sources,  \* the analyzer at work
  lossy,    \* the tracer has met a case in which it loses nodes
  blurred   \* or one in which it keeps too many

vars == <<frames, tracker, chain, sink, program, sources, lossy, blurred>>

---------------------------------------------------------------------------
\* Nodes.

Tainted(nodes) == \E n \in nodes : n # UntaintedValue

\* NewFlowNode and AddUpstream.
NewNode(upstream, source) ==
  IF source \/ "loaded" \in upstream THEN "loaded" ELSE "blank"

\* What most operations produce: a node below its tainted inputs, or a new
\* one at a source.
Produced(inputs, source) ==
  IF Tainted(inputs) \/ source THEN NewNode(inputs, source) ELSE UntaintedValue

\* A source marks what carries nothing; data with a node of its own keeps it.
Marks(node, source) == IF source /\ node = UntaintedValue THEN "loaded" ELSE node

\* Is this operation a source?  (CheckOperation)
Source(op, a) == <<op, a>> \in sources

---------------------------------------------------------------------------
\* The mirror of memory, at the granularity of words.

Blank == [w \in 0 .. Words - 1 |-> UntaintedValue]

\* From the word with the first unit to that with the last.
Touched(span) == span[1] \div Granularity .. (span[1] + span[2] - 1) \div Granularity

WordsOf(span) == IF span[2] = 0 THEN {} ELSE Touched(span)

Aligned(span) == span[1] % Granularity = 0 /\ span[2] % Granularity = 0

Whole(w, span) ==
  span[1] =< w * Granularity /\ (w + 1) * Granularity =< span[1] + span[2]

Load(mem, span) == {mem[w] : w \in WordsOf(span)} \ {UntaintedValue}

\* A bug that would let every value replace what the word held, and one that
\* would keep the old node when a value without a node is written.
PutOver(old, node, whole) == node
PutKeep(old, node, whole) == IF node = UntaintedValue THEN old ELSE node

\* What a word holds after a node was written into the whole of it, or a part.
Put(old, node, whole) ==
  IF whole \/ old = UntaintedValue THEN node
  ELSE IF node = UntaintedValue THEN old ELSE NewNode({node, old}, FALSE)

Store(mem, span, node) ==
  [w \in DOMAIN mem |->
     IF w \in WordsOf(span) THEN Put(mem[w], node, Whole(w, span)) ELSE mem[w]]

\* A bug that would leave the words where they were.
TakenUnmoved(mem, span) ==
  [w \in 0 .. Words - 1 |-> IF w \in WordsOf(span) THEN mem[w] ELSE UntaintedValue]

\* StoreData and StoreReturnData: the words of a span, the first one first.
Taken(mem, span) ==
  [w \in 0 .. Words - 1 |->
     IF w + span[1] \div Granularity \in WordsOf(span)
     THEN mem[w + span[1] \div Granularity] ELSE UntaintedValue]

\* StoreCallData and StoreCallReturnData: word by word from the offset on, to
\* as many words from the destination on; a length of zero is no exception.
Copied(mem, data, dest, offset) ==
  LET from(w) == w - dest[1] \div Granularity + offset \div Granularity
  IN  [w \in DOMAIN mem |->
         IF from(w) \in Touched(<<offset, dest[2]>>)
         THEN Put(mem[w], data[from(w)], Whole(w, dest)) ELSE mem[w]]

\* A call's own source stands in for data that carries nothing.
OrSource(nodes, call) ==
  IF nodes = {} THEN {call.source} \ {UntaintedValue} ELSE nodes

\* GetData.
Data(call, span) ==
  IF span[2] = 0 THEN {} ELSE OrSource(Load(call.data, span), call)

GetAllReturnData(call) ==
  OrSource({call.ret[w] : w \in 0 .. Words - 1} \ {UntaintedValue}, call)

GetSuccess(call) ==
  IF call.success # UntaintedValue THEN call.success ELSE call.source

\* newCall, setFlowSource and StoreData.
NewCall(data, source) ==
  [data |-> data, ret |-> Blank, success |-> UntaintedValue, source |-> source]

---------------------------------------------------------------------------
\* The EVM's own data, unit by unit.

Within(u, span) == span[1] =< u /\ u < span[1] + span[2]
Clean == [u \in Units |-> FALSE]
Depends(bytes, span) == \E u \in Units : Within(u, span) /\ bytes[u]
Some(data) == \E i \in DOMAIN data : data[i]
Section(bytes, span) == [i \in 1 .. span[2] |-> bytes[span[1] + i - 1]]

\* Data written to a span; beyond its end there are zeros.
Written(bytes, data, span, offset) ==
  [u \in Units |->
     IF Within(u, span)
     THEN LET i == offset + u - span[1] + 1 IN i \in DOMAIN data /\ data[i]
     ELSE bytes[u]]

Marked(bytes, span, dep) ==
  [u \in Units |-> IF Within(u, span) THEN dep ELSE bytes[u]]

---------------------------------------------------------------------------
\* Message calls.

Frame(kind, self, code, store, static, call, args) ==
  [kind |-> kind, self |-> self, code |-> code, store |-> store, static |-> static,
   pc |-> 1, stack |-> << >>, real |-> << >>, mem |-> Blank, bytes |-> Clean,
   call |-> call, args |-> args, paid |-> UntaintedValue, value |-> FALSE,
   child |-> NewCall(Blank, UntaintedValue), output |-> << >>,
   into |-> <<0, 0>>, wrote |-> FALSE, before |-> chain]

\* TransactionStart.
Init ==
  /\ chain = [slot    |-> [a \in Accounts |-> FALSE],
              balance |-> [a \in Accounts |-> FALSE],
              code    |-> [a \in Accounts |-> FALSE]]
  /\ tracker = [slot    |-> [s \in Accounts \cup {"root"} |-> UntaintedValue],
                balance |-> [a \in Accounts |-> UntaintedValue],
                code    |-> [a \in Accounts |-> UntaintedValue]]
  /\ frames = <<Frame("CALL", Root, Root, "root", FALSE,
                      NewCall(Blank, UntaintedValue), << >>)>>
  /\ program \in Programs
  /\ sources \in Analyzers
  /\ sink = [seen |-> FALSE, dep |-> FALSE]
  /\ lossy = FALSE /\ blurred = FALSE

Top == frames[Len(frames)]
Ended(frame) == frame.pc > Len(program[frame.code])

\* What the running contract may do next.
Offers ==
  IF frames = << >> \/ Ended(Top) THEN {} ELSE program[Top.code][Top.pc]

Quiet == [seen |-> FALSE, dep |-> FALSE]

Pop(s, n) == SubSeq(s, n + 1, Len(s))
Args(n) == {Top.stack[i] : i \in 1 .. n}
Operands(n) == \E i \in 1 .. n : Top.real[i]

\* op is an operation of this name, and its n operands are on the stack.
Runs(op, name, n) == op.name = name /\ Len(Top.real) >= n

\* The frame after an operation that pops n operands, and one that also pushes
\* a result.
Popped(n) == [Top EXCEPT !.stack = Pop(@, n), !.real = Pop(@, n), !.pc = @ + 1]

Result(n, node, dep) ==
  [Popped(n) EXCEPT !.stack = <<node>> \o @, !.real = <<dep>> \o @]

\* CaptureState: an operation that only changes its frame.
Local(frame, lost, blur) ==
  /\ frames' = [frames EXCEPT ![Len(frames)] = frame]
  /\ sink' = Quiet
  /\ lossy' = (lossy \/ lost)
  /\ blurred' = (blurred \/ blur)
  /\ UNCHANGED <<tracker, chain, program, sources>>

---------------------------------------------------------------------------
\* The flow of each operation, by its class.

\* pushFlow, txConstReadToStackOpFlow.
Push(op) ==
  /\ Runs(op, "PUSH", 0)
  /\ LET source == Source("PUSH", Top.self)
     IN  Local(Result(0, Produced({}, source), source), FALSE, FALSE)

\* POP: noopFlow.
Drop(op) == Runs(op, "POP", 1) /\ Local(Popped(1), FALSE, FALSE)

\* dupFlow: the node itself.
Dup(op) ==
  /\ Runs(op, "DUP", op.n)
  /\ LET source == Source("DUP", Top.self)
     IN  Local(Result(0, Marks(Top.stack[op.n], source), Top.real[op.n] \/ source),
               source /\ Top.stack[op.n] = "blank", FALSE)

Swapped(s, n) == [s EXCEPT ![1] = s[n + 1], ![n + 1] = s[1]]

\* swapFlow.
Swap(op) ==
  /\ Runs(op, "SWAP", op.n + 1)
  /\ Local([Popped(0) EXCEPT
              !.stack = Swapped(@, op.n),
              !.real = [@ EXCEPT ![1] = Top.real[op.n + 1], ![op.n + 1] = Top.real[1]]],
           FALSE, FALSE)

\* pureOpFlow.
Pure(op) ==
  /\ Runs(op, "PURE", op.n)
  /\ LET source == Source("PURE", Top.self)
     IN  Local(Result(op.n, Produced(Args(op.n), source), Operands(op.n) \/ source),
               FALSE, FALSE)

\* Reading data from somewhere to the stack; n is 1 if the place comes from
\* the stack.
Read(opcode, a, n, nodes, dep, lost, blur) ==
  Local(Result(n, Produced(nodes \cup Args(n), Source(opcode, a)),
               dep \/ Operands(n) \/ Source(opcode, a)),
        lost, blur)

\* mloadFlow.
MLoad(op) ==
  /\ Runs(op, "MLOAD", op.n)
  /\ Read("MLOAD", Top.self, op.n, Load(Top.mem, op.span), Depends(Top.bytes, op.span),
          FALSE, ~ Aligned(op.span))

\* hashOpFlow: from the slice of memory.
Hash(op) ==
  /\ Runs(op, "KECCAK256", 0)
  /\ Read("KECCAK256", Top.self, 0, Load(Top.mem, op.span), Depends(Top.bytes, op.span),
          FALSE, ~ Aligned(op.span))

\* The storage of the root call's contract has a tracker that only the root
\* call uses.
Split == Top.self = Root /\ Len(frames) > 1

\* sloadFlow.
SLoad(op) ==
  /\ Runs(op, "SLOAD", op.n)
  /\ Read("SLOAD", Top.self, op.n, {tracker.slot[Top.store]}, chain.slot[Top.self],
          Split, Split)

\* balanceFlow, selfBalanceFlow.
Balance(op) ==
  /\ Runs(op, "BALANCE", 1)
  /\ Read("BALANCE", op.at, 1, {tracker.balance[op.at]}, chain.balance[op.at],
          FALSE, FALSE)

SelfBalance(op) ==
  /\ Runs(op, "SELFBALANCE", 0)
  /\ Read("BALANCE", Top.self, 0, {tracker.balance[Top.self]},
          chain.balance[Top.self], FALSE, FALSE)

\* A constructor's code is not that of its account yet.
Constructing == Top.kind = "CREATE"

\* codeSizeFlow.
CodeSize(op) ==
  /\ Runs(op, "CODESIZE", 0)
  /\ Read("CODE", Top.code, 0, {tracker.code[Top.code]}, chain.code[Top.code],
          Constructing, Constructing)

\* extCodeSizeFlow and extCodeHashFlow.
ExtCodeSize(op) ==
  /\ Runs(op, "EXTCODESIZE", 1)
  /\ Read("CODE", op.at, 1, {tracker.code[op.at]}, chain.code[op.at], FALSE, FALSE)

\* callValueFlow: a call's value is never set.
CallValue(op) ==
  /\ Runs(op, "CALLVALUE", 0)
  /\ Read("CALLVALUE", Top.self, 0, {}, Top.value, Top.value, FALSE)

\* callDataLoadFlow.
CallDataLoad(op) ==
  /\ Runs(op, "CALLDATALOAD", op.n)
  /\ Read("CALLDATALOAD", Top.self, op.n, Data(Top.call, op.span),
          \E i \in DOMAIN Top.args : Within(i - 1, op.span) /\ Top.args[i],
          FALSE, ~ Aligned(op.span))

\* mstoreFlow and mstore8Flow.
MStore(op) ==
  /\ Runs(op, "MSTORE", 1)
  /\ LET node   == Top.stack[1]
         source == Source("MSTORE", Top.self)
     IN  Local([Popped(1) EXCEPT !.mem = Store(@, op.span, Marks(node, source)),
                                 !.bytes = Marked(@, op.span, Top.real[1] \/ source)],
               source /\ node = "blank", ~ Aligned(op.span))

\* codeCopyFlow and extCodeCopyFlow.
CodeCopy(op) ==
  /\ Runs(op, "CODECOPY", op.n)
  /\ LET a      == IF op.n = 0 THEN Top.code ELSE op.at
         source == Source("CODE", a)
         node   == IF Tainted(Args(op.n))
                   THEN NewNode(Args(op.n) \cup {tracker.code[a]}, source)
                   ELSE Marks(tracker.code[a], source)
     IN  Local([Popped(op.n) EXCEPT
                  !.mem = Store(@, op.span, node),
                  !.bytes = Marked(@, op.span, chain.code[a] \/ Operands(op.n) \/ source)],
               (op.n = 0 /\ Constructing) \/ (source /\ node = "blank"),
               (op.n = 0 /\ Constructing) \/ ~ Aligned(op.span))

\* Two offsets that lie differently in their words.
OutOfPhase(x, y) == x % Granularity # y % Granularity

\* callDataCopyFlow and returnDataCopyFlow: data copied to memory, and a node
\* where nothing at all came along if the operation is a source.
CopyToMemory(op, nodes, data) ==
  LET dest   == op.into
      span   == <<op.from, dest[2]>>
      mem    == Copied(Top.mem, nodes, dest, op.from)
      bytes  == Written(Top.bytes, data, dest, op.from)
      source == Source(op.name, Top.self)
      none   == Load(mem, dest) = {}
  IN  Local([Popped(0) EXCEPT
               !.mem = IF source /\ none THEN Store(mem, dest, "loaded") ELSE mem,
               !.bytes = IF source THEN Marked(bytes, dest, TRUE) ELSE bytes],
            OutOfPhase(dest[1], op.from)
              \/ (source /\ ~ none /\ \E w \in WordsOf(dest) : mem[w] # "loaded"),
            ~ Aligned(dest) \/ ~ Aligned(span))

CallDataCopy(op) ==
  Runs(op, "CALLDATACOPY", 0) /\ CopyToMemory(op, Top.call.data, Top.args)

\* The EVM refuses to read beyond the end of the return data.
ReturnDataCopy(op) ==
  /\ Runs(op, "RETURNDATACOPY", 0)
  /\ op.from + op.into[2] =< Len(Top.output)
  /\ CopyToMemory(op, Top.child.ret, Top.output)

\* sstoreFlow: the node of the slot.
Slotted ==
  [tracker EXCEPT !.slot[Top.store] = Produced(Args(1), Source("SSTORE", Top.self))]

SStore(op) ==
  /\ Runs(op, "SSTORE", 1) /\ ~ Top.static
  /\ tracker' = Slotted
  /\ chain' = [chain EXCEPT !.slot[Top.self] = Top.real[1] \/ Source("SSTORE", Top.self)]
  /\ frames' = [frames EXCEPT ![Len(frames)] = [Popped(1) EXCEPT !.wrote = TRUE]]
  /\ sink' = Quiet
  /\ lossy' = (lossy \/ Split) /\ blurred' = (blurred \/ Split)
  /\ UNCHANGED <<program, sources>>

---------------------------------------------------------------------------
\* Sinks of TaintAnalyzer: jumps, logs, calls and SELFDESTRUCT.

Reported(nodes, dep) == [seen |-> Tainted(nodes), dep |-> dep]

Sink(n, nodes, dep, blur) ==
  /\ frames' = [frames EXCEPT ![Len(frames)] = Popped(n)]
  /\ sink' = Reported(nodes \cup Args(n), dep \/ Operands(n))
  /\ blurred' = (blurred \/ blur)
  /\ UNCHANGED <<tracker, chain, program, sources, lossy>>

\* jumpFlow and jumpiFlow, with destination and condition.
Jump(op) == Runs(op, "JUMP", op.n) /\ Sink(op.n, {}, FALSE, FALSE)

\* logFlow, with n topics.
Log(op) ==
  /\ Runs(op, "LOG", op.n) /\ ~ Top.static
  /\ Sink(op.n, Load(Top.mem, op.span), Depends(Top.bytes, op.span), ~ Aligned(op.span))

---------------------------------------------------------------------------
\* Calls: callFlow, callCodeFlow, delegateCallFlow, staticCallFlow, createFlow.

\* Operands of a call: the value, if n is 1, and the account called, if to is 1.
\* Which account that is does not count as data.
Arity(op) == op.n + op.to

\* CALL with a value reads the balance.
CallSource(op) ==
  \/ Source(op.name, Top.self)
  \/ op.name = "CALL" /\ op.n = 1 /\ Source("BALANCE", Top.self)

\* The balances of both parties get the node of the value, n is 1 if there is
\* one; a CALLCODE moves none, but the caller's node is replaced all the same.
\* That of a new contract is set when it has been created.
Paid(op) ==
  IF op.n = 0 \/ op.name = "CREATE" THEN tracker
  ELSE [tracker EXCEPT !.balance =
          [a \in Accounts |->
             IF a = Top.self \/ (op.name = "CALL" /\ a = op.at) THEN Top.stack[1] ELSE @[a]]]

\* What the EVM does with the value.
Spent(op) ==
  IF op.n = 0 \/ op.name = "CALLCODE" THEN chain
  ELSE [chain EXCEPT !.balance =
          [a \in Accounts |-> @[a] \/ (a \in {Top.self, op.at} /\ Top.real[1])]]

\* Old nodes of these balances are forgotten.
PayLoses(op) ==
  op.n = 1 /\ IF op.name = "CREATE" THEN Top.real[1]
              ELSE chain.balance[Top.self] \/ (op.name = "CALL" /\ chain.balance[op.at])

\* CaptureState before a call: value and sink.
Called(op) ==
  /\ op.name \in Kinds /\ Runs(op, op.name, Arity(op))
  /\ op.name \in {"DELEGATECALL", "STATICCALL"} => op.n = 0
  /\ sink' = Reported(Load(Top.mem, op.args) \cup Args(Arity(op)),
                      Depends(Top.bytes, op.args) \/ Operands(Arity(op)))

\* The EVM goes on with the call.
Calling(op) ==
  /\ Called(op)
  /\ Top.static => op.name # "CREATE" /\ (op.name = "CALL" => op.n = 0)
  /\ tracker' = Paid(op)
  /\ UNCHANGED <<program, sources>>

\* The call data a caller prepares.
Child(op) ==
  NewCall(Taken(Top.mem, op.args), IF CallSource(op) THEN "loaded" ELSE UntaintedValue)

\* CaptureEnter: the callee's frame takes the call that the caller prepared.  A
\* constructor has no call data, but the nodes of its code are taken for it.
Enter(op) ==
  /\ Calling(op)
  /\ op.at \notin Codeless /\ Len(frames) < MaxCalls
  /\ LET self  == IF op.name \in {"CALL", "STATICCALL", "CREATE"} THEN op.at ELSE Top.self
         frame == Frame(op.name, self, op.at, self,
                        Top.static \/ op.name = "STATICCALL", Child(op),
                        IF op.name = "CREATE" THEN << >> ELSE Section(Top.bytes, op.args))
     IN  frames' = Append([frames EXCEPT ![Len(frames)] = Popped(Arity(op))],
           [frame EXCEPT !.into = op.into, !.wrote = (op.n = 1 \/ op.name = "CREATE"),
              !.paid = IF op.n = 1 THEN Top.stack[1] ELSE UntaintedValue,
              !.value = (op.n = 1 /\ Top.real[1])])
  /\ chain' = Spent(op)
  /\ lossy' = (lossy \/ OutOfPhase(op.args[1], 0) \/ PayLoses(op)
                 \/ (op.name = "CREATE" /\ CallSource(op)))
  /\ blurred' = (blurred \/ ~ Aligned(op.args) \/ CallSource(op)
                   \/ (op.n = 1 /\ op.name = "CALLCODE")
                   \/ (op.name = "CREATE" /\ Load(Top.mem, op.args) # {}))

\* After a call: its status, and its return data for the caller's memory.
Returned(caller, into, call, data, dep) ==
  [caller EXCEPT
     !.child = call, !.output = data,
     !.stack = <<GetSuccess(call)>> \o @,
     !.real = <<dep>> \o @,
     !.mem = Copied(@, call.ret, into, 0),
     !.bytes = Written(@, data, <<into[1], IF Len(data) < into[2] THEN Len(data) ELSE into[2]>>, 0)]

\* A bug that would push nothing after a creation.
CreatedBare(caller, call, data, dep) ==
  [caller EXCEPT !.child = call, !.output = data, !.real = <<dep>> \o @]

\* After a creation: the new address, which has no node.
Created(caller, call, data, dep) ==
  [caller EXCEPT !.child = call, !.output = data,
                 !.stack = <<UntaintedValue>> \o @, !.real = <<dep>> \o @]

\* What the caller's memory keeps because the callee returned less.
Kept(caller, into, data) ==
  \E u \in Units : Within(u, into) /\ u >= into[1] + Len(data) /\ caller.bytes[u]

\* A call that runs no contract code: a precompiled contract gives an output,
\* an account without code none, and some calls fail before they begin.
CallOut(op, outcome) ==
  /\ Calling(op) /\ op.name # "CREATE"
  /\ outcome # "failed" => op.at \in Codeless
  /\ LET data == IF outcome = "output"
                 THEN [i \in 1 .. op.into[2] |-> Depends(Top.bytes, op.args)] ELSE << >>
     IN  /\ frames' = [frames EXCEPT ![Len(frames)] =
                         [Returned(Popped(Arity(op)), op.into, Child(op), data, CallSource(op))
                            EXCEPT !.wrote = @ \/ op.n = 1]]
         /\ lossy' = (lossy \/ PayLoses(op) \/ Kept(Top, op.into, data)
                        \/ (data # << >> /\ Depends(Top.bytes, op.args)))
  /\ chain' = IF outcome = "failed" THEN chain ELSE Spent(op)
  /\ blurred' = (blurred \/ ~ Aligned(op.args) \/ ~ Aligned(op.into) \/ CallSource(op)
                   \/ (op.n = 1 /\ (op.name = "CALLCODE" \/ outcome = "failed")))

\* A new contract gets the node of its code and of its value.
Deployed(tr, call) ==
  [tr EXCEPT !.code[Top.self] = Produced(GetAllReturnData(call), FALSE),
             !.balance[Top.self] = Top.paid]

\* CaptureExit of a frame, and the caller's hook at its next operation; tr and
\* ch are the mirror and the truth of the chain when the call ends well.
Leave(frame, ok, call, data, dep, tr, ch, lost, blur) ==
  LET caller == frames[Len(frames) - 1]
      undone == ~ ok /\ frame.wrote
      new    == frame.kind = "CREATE"
      status == dep \/ frame.call.source # UntaintedValue
      back   == IF new THEN Created(caller, call, IF ok THEN << >> ELSE data, status)
                ELSE Returned(caller, frame.into, call, data, status)
  IN  /\ frames' = IF Len(frames) = 1 THEN << >>
                   ELSE Append(SubSeq(frames, 1, Len(frames) - 2),
                               [back EXCEPT !.wrote = @ \/ (ok /\ frame.wrote)])
      /\ tracker' = IF new /\ ok THEN Deployed(tr, call) ELSE tr
      /\ chain' = IF ~ ok THEN frame.before
                  ELSE IF new THEN [ch EXCEPT !.code[frame.self] = Some(data)]
                  ELSE ch
      /\ lossy' = (lossy \/ undone \/ lost
                     \/ (new /\ (dep \/ (ok /\ ch.balance[frame.self])))
                     \/ (Len(frames) > 1 /\ ~ new
                           /\ (OutOfPhase(frame.into[1], 0) \/ Kept(caller, frame.into, data))))
      /\ blurred' = (blurred \/ undone \/ blur \/ ~ Aligned(frame.into))
      /\ UNCHANGED <<program, sources>>

\* returnFlow and revertFlow: return data and status.
Answer(op) ==
  [Top.call EXCEPT !.ret = Taken(Top.mem, op.span),
                   !.success = IF Source(op.name, Top.self) THEN "loaded" ELSE @]

Return(op) ==
  /\ op.name \in {"RETURN", "REVERT"} /\ Runs(op, op.name, 0)
  /\ Leave(Top, op.name = "RETURN", Answer(op), Section(Top.bytes, op.span),
           Source(op.name, Top.self), tracker, chain,
           OutOfPhase(op.span[1], 0), ~ Aligned(op.span))
  /\ sink' = Quiet

\* STOP, which ends a code, is a noopFlow.
Stop ==
  /\ frames # << >> /\ Ended(Top)
  /\ Leave(Top, TRUE, Top.call, << >>, FALSE, tracker, chain, FALSE, FALSE)
  /\ sink' = Quiet

\* selfDestructFlow: the balance goes to the heir; the emptied one gets a node
\* whether or not there is a source.
Emptied(op) ==
  LET source == Source("SELFDESTRUCT", Top.self)
  IN  [tracker EXCEPT
         !.code[Top.self] = IF source THEN "loaded" ELSE @,
         !.balance[op.at] = tracker.balance[Top.self],
         !.balance[Top.self] = NewNode({}, source)]

\* Call and sink of a SELFDESTRUCT whose heir comes from the stack if n is 1; a
\* source is not taken for a sink.
Destroyed ==
  [Top.call EXCEPT !.success = IF Source("SELFDESTRUCT", Top.self) THEN "loaded" ELSE @]

Destroying(op) ==
  /\ Runs(op, "SELFDESTRUCT", op.n)
  /\ sink' = Reported(IF Source("SELFDESTRUCT", Top.self) THEN {} ELSE Args(op.n), Operands(op.n))

Unreported(op) == Source("SELFDESTRUCT", Top.self) /\ Operands(op.n)

SelfDestruct(op) ==
  /\ Destroying(op) /\ ~ Top.static
  /\ LET self   == Top.self
         source == Source("SELFDESTRUCT", self)
     IN  Leave([Top EXCEPT !.wrote = TRUE], TRUE, Destroyed, << >>, source, Emptied(op),
               [chain EXCEPT
                  !.code[self] = @ \/ source,
                  !.balance = [a \in Accounts |->
                     IF a = self THEN source ELSE @[a] \/ (a = op.at /\ @[self])]],
               chain.balance[op.at] \/ Unreported(op), TRUE)

---------------------------------------------------------------------------
\* Operations that fail by themselves: no gas, a write in a static call, a jump to
\* nowhere, a read beyond the return data.  CaptureState has run their flow, and
\* CaptureFault takes nothing back: the call ends, with what the flow left in its
\* call and in the mirror tr of the chain.

\* Where the chain is mirrored: a contract's slots.
Place(a) == IF a = Root THEN "root" ELSE a

\* Does tr replace a node of data that depends on a source (or does not)?
Replaces(tr, dep) ==
  \E a \in Accounts :
    \/ chain.slot[a] = dep /\ tr.slot[Place(a)] # tracker.slot[Place(a)]
    \/ chain.balance[a] = dep /\ tr.balance[a] # tracker.balance[a]
    \/ chain.code[a] = dep /\ tr.code[a] # tracker.code[a]

Fault(call, dep, tr, lost, blur) ==
  Leave(Top, FALSE, call, << >>, dep, tr, chain,
        Replaces(tr, TRUE) \/ lost, Replaces(tr, FALSE) \/ blur)

SStoreFault(op) ==
  /\ Runs(op, "SSTORE", 1)
  /\ Fault(Top.call, FALSE, Slotted, FALSE, FALSE)
  /\ sink' = Quiet

JumpFault(op) ==
  /\ Runs(op, "JUMP", op.n)
  /\ Fault(Top.call, FALSE, tracker, FALSE, FALSE)
  /\ sink' = Reported(Args(op.n), Operands(op.n))

LogFault(op) ==
  /\ Runs(op, "LOG", op.n)
  /\ Fault(Top.call, FALSE, tracker, FALSE, ~ Aligned(op.span))
  /\ sink' = Reported(Load(Top.mem, op.span) \cup Args(op.n),
                      Depends(Top.bytes, op.span) \/ Operands(op.n))

CallFault(op) ==
  Called(op) /\ Fault(Top.call, FALSE, Paid(op), FALSE, ~ Aligned(op.args))

\* The EVM returns nothing, the mirror has the data.
ReturnFault(op) ==
  /\ op.name \in {"RETURN", "REVERT"} /\ Runs(op, op.name, 0)
  /\ Fault(Answer(op), Source(op.name, Top.self), tracker, FALSE, Answer(op).ret # Blank)
  /\ sink' = Quiet

SelfDestructFault(op) ==
  /\ Destroying(op)
  /\ Fault(Destroyed, Source("SELFDESTRUCT", Top.self), Emptied(op), Unreported(op), FALSE)

\* invalidFlow: a sink that is always reported, with no operand.
Invalid(op) ==
  /\ Runs(op, "INVALID", 0)
  /\ Fault(Top.call, FALSE, tracker, FALSE, TRUE)
  /\ sink' = [seen |-> TRUE, dep |-> FALSE]

\* The flow of all others ends in the frame, which is gone.
LocalFault(op) ==
  /\ op.name \notin Kinds \cup {"SSTORE", "JUMP", "LOG", "RETURN", "REVERT",
                               "SELFDESTRUCT", "INVALID"}
  /\ Runs(op, op.name, op.n)
  /\ Fault(Top.call, FALSE, tracker, FALSE, FALSE)
  /\ sink' = Quiet

---------------------------------------------------------------------------
Next ==
  \/ \E op \in Offers : Push(op)
  \/ \E op \in Offers : Drop(op)
  \/ \E op \in Offers : Dup(op)
  \/ \E op \in Offers : Swap(op)
  \/ \E op \in Offers : Pure(op)
  \/ \E op \in Offers : MLoad(op)
  \/ \E op \in Offers : Hash(op)
  \/ \E op \in Offers : SLoad(op)
  \/ \E op \in Offers : Balance(op)
  \/ \E op \in Offers : SelfBalance(op)
  \/ \E op \in Offers : CodeSize(op)
  \/ \E op \in Offers : ExtCodeSize(op)
  \/ \E op \in Offers : CallValue(op)
  \/ \E op \in Offers : CallDataLoad(op)
  \/ \E op \in Offers : MStore(op)
  \/ \E op \in Offers : CodeCopy(op)
  \/ \E op \in Offers : CallDataCopy(op)
  \/ \E op \in Offers : ReturnDataCopy(op)
  \/ \E op \in Offers : SStore(op)
  \/ \E op \in Offers : Jump(op)
  \/ \E op \in Offers : Log(op)
  \/ \E op \in Offers : Enter(op)
  \/ \E op \in Offers : Return(op)
  \/ \E op \in Offers : SelfDestruct(op)
  \/ \E op \in Offers, outcome \in {"output", "empty", "failed"} : CallOut(op, outcome)
  \/ Stop
  \/ \E op \in Offers : SStoreFault(op)
  \/ \E op \in Offers : JumpFault(op)
  \/ \E op \in Offers : LogFault(op)
  \/ \E op \in Offers : CallFault(op)
  \/ \E op \in Offers : ReturnFault(op)
  \/ \E op \in Offers : SelfDestructFault(op)
  \/ \E op \in Offers : Invalid(op)
  \/ \E op \in Offers : LocalFault(op)

Spec == Init /\ [][Next]_vars

---------------------------------------------------------------------------
Memory == [0 .. Words - 1 -> Node]
Bits == {d \in Seq(BOOLEAN) : Len(d) <= Size}

Calls == [data : Memory, ret : Memory, success : Node, source : {UntaintedValue, "loaded"}]

Chain == [slot : [Accounts -> BOOLEAN], balance : [Accounts -> BOOLEAN],
          code : [Accounts -> BOOLEAN]]

Tracker == [slot : [Accounts \cup {"root"} -> Node],
            balance : [Accounts -> Node], code : [Accounts -> Node]]

Frames ==
  [kind : Kinds, self : Accounts, code : Accounts, store : Accounts \cup {"root"},
   static : BOOLEAN, pc : Nat \ {0}, stack : Seq(Node), real : Seq(BOOLEAN),
   mem : Memory, bytes : [Units -> BOOLEAN], call : Calls, args : Bits,
   paid : Node, value : BOOLEAN, child : Calls, output : Bits, into : Spans,
   wrote : BOOLEAN, before : Chain]

\* Everything has its type, and the mirror's stack is as high as the EVM's.
TypeOK ==
  /\ frames \in Seq(Frames)
  /\ \A i \in DOMAIN frames : Len(frames[i].stack) = Len(frames[i].real)
  /\ tracker \in Tracker /\ chain \in Chain
  /\ sink \in [seen : BOOLEAN, dep : BOOLEAN]
  /\ program \in Programs /\ sources \in Analyzers
  /\ lossy \in BOOLEAN /\ blurred \in BOOLEAN

SlotNode(a) == tracker.slot[Place(a)]

\* Where the mirror and the EVM can be compared, pairs of a node and whether
\* the value there depends on a source.
MirrorOf(f) ==
  {<<f.stack[j], f.real[j]>> : j \in DOMAIN f.stack}
  \cup {<<f.mem[u \div Granularity], f.bytes[u]>> : u \in Units}
  \cup {<<f.call.data[(j - 1) \div Granularity], f.args[j]>> : j \in DOMAIN f.args}
  \cup {<<f.child.ret[(j - 1) \div Granularity], f.output[j]>> : j \in DOMAIN f.output}

Mirrored ==
  (UNION {MirrorOf(frames[i]) : i \in DOMAIN frames})
  \cup {<<SlotNode(a), chain.slot[a]>> : a \in Accounts}
  \cup {<<tracker.balance[a], chain.balance[a]>> : a \in Accounts}
  \cup {<<tracker.code[a], chain.code[a]>> : a \in Accounts}

\* Whatever operations and calls a transaction is made of, a value that depends
\* on a source has a node in the mirror that leads back to a source, at its
\* place on the stack, in memory, in call data, in return data and on chain;
\* but for the cases marked as lossy.
Complete == ~ lossy => \A m \in Mirrored : m[2] => m[1] = "loaded"

\* A sink with an operand or data that depends on a source is reported.
SinksSeen == ~ lossy /\ sink.dep => sink.seen

\* As long as words are read and written whole, the mirror holds no node where
\* the value does not depend on a source: a value written over a tainted one
\* takes its place.
Precise ==
  ~ blurred => /\ \A m \in Mirrored : m[1] # UntaintedValue => m[2]
               /\ sink.seen => sink.dep

---------------------------------------------------------------------------
(* Why they hold.                                                          *)

\* Units of data beside the nodes of their words: the mirror is sound if a node leads
\* to a source wherever data depends on one, exact if it has nodes only there.
Sound(mem, bytes) == \A u \in Units : bytes[u] => mem[u \div Granularity] = "loaded"
Exact(mem, bytes) == \A u \in Units : mem[u \div Granularity] # UntaintedValue => bytes[u]

\* Call data and return data, with zeros beyond the end.
Padded(data) == [u \in Units |-> u + 1 \in DOMAIN data /\ data[u + 1]]

FrameSound(f) ==
  /\ \A j \in DOMAIN f.stack : f.real[j] => f.stack[j] = "loaded"
  /\ Sound(f.mem, f.bytes)
  /\ Sound(f.call.data, Padded(f.args))
  /\ Sound(f.child.ret, Padded(f.output))

\* Beyond the end of call data there are no nodes either; no call is a source.
FrameExact(f) ==
  /\ \A j \in DOMAIN f.stack : f.stack[j] # UntaintedValue => f.real[j]
  /\ Exact(f.mem, f.bytes)
  /\ Exact(f.call.data, Padded(f.args))
  /\ \A u \in Units : u + 1 \in DOMAIN f.output =>
       (f.child.ret[u \div Granularity] # UntaintedValue => f.output[u + 1])
  /\ f.call.source = UntaintedValue

ChainSound(tr, ch) ==
  \A a \in Accounts : /\ ch.slot[a] => tr.slot[Place(a)] = "loaded"
                      /\ ch.balance[a] => tr.balance[a] = "loaded"
                      /\ ch.code[a] => tr.code[a] = "loaded"

ChainExact(tr, ch) ==
  \A a \in Accounts : /\ tr.slot[Place(a)] # UntaintedValue => ch.slot[a]
                      /\ tr.balance[a] # UntaintedValue => ch.balance[a]
                      /\ tr.code[a] # UntaintedValue => ch.code[a]

\* The chain as the call that frame i waits for would leave it if it failed.
ChainAt(i) == IF i = Len(frames) THEN chain ELSE frames[i + 1].before

\* A frame that changed nothing on chain can be undone without loss; an open call
\* has no result yet; storage is found in the same place.
FramesInv ==
  \A i \in DOMAIN frames : LET f == frames[i] IN
    /\ f.wrote \/ f.before = ChainAt(i)
    /\ f.kind = "CREATE" => f.wrote
    /\ f.call.ret = Blank /\ f.call.success = UntaintedValue
    /\ f.store = (IF i = 1 THEN "root" ELSE f.self)
    /\ i = 1 => f.self = Root /\ f.kind = "CALL"

\* A creation is not a source: its address has no node.
LossyInv ==
  ~ lossy => /\ \A i \in DOMAIN frames :
                  /\ FrameSound(frames[i])
                  /\ frames[i].kind = "CREATE" => frames[i].call.source = UntaintedValue
             /\ ChainSound(tracker, chain)
             /\ sink.dep => sink.seen

\* The balance of a new contract depends on a source as long as its value waits to
\* be recorded.
BlurredInv ==
  ~ blurred => /\ \A i \in DOMAIN frames :
                    /\ FrameExact(frames[i])
                    /\ frames[i].kind = "CREATE" /\ frames[i].paid # UntaintedValue =>
                         \A j \in i .. Len(frames) : ChainAt(j).balance[frames[i].self]
               /\ ChainExact(tracker, chain)
               /\ sink.seen => sink.dep

FlowInv == TypeOK /\ FramesInv /\ LossyInv /\ BlurredInv
=============================================================================
