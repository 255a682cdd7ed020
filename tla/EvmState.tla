------------------------------ MODULE EvmState ------------------------------
(***************************************************************************)
(* What the EVM, running inside dyengine.ExeVM, expects of its state: the   *)
(* accounts of the chain at the fork block, changed by the operations of    *)
(* transactions, with calls that are undone as a whole.  The interface is   *)
(* vm.StateDB of go-ethereum, as dyengine/state.go embeds it.               *)
(*                                                                          *)
(* Balance, code and nonce are fields with a small number as value, 0 for   *)
(* none; of the access list the addresses are kept.                         *)
(***************************************************************************)
EXTENDS Naturals, Sequences

CONSTANTS
  Accounts, Keys,
  Values,         \* of fields and slots, 0 among them
  Fields,         \* the fields in the order in which they are inherited
  RemoteInfo,     \* RemoteInfo[a][f] at the fork block
  RemoteStorage   \* RemoteStorage[a][k] at the fork block

FieldSet == {Fields[i] : i \in 1 .. Len(Fields)}
ContractField == Fields[Len(Fields)]   \* the nonce, at least 1 for a contract
NoInfo == [f \in FieldSet |-> 0]
NoStorage == [k \in Keys |-> 0]

ASSUME FieldsAssumption ==
  /\ Fields \in Seq(STRING) /\ Len(Fields) >= 2
  /\ "balance" \in FieldSet /\ ContractField # "balance"
\* On the chain only contracts have storage.
ASSUME RemoteAssumption ==
  /\ Values \subseteq Nat /\ {0, 1} \subseteq Values
  /\ RemoteInfo \in [Accounts -> [FieldSet -> Values]]
  /\ RemoteStorage \in [Accounts -> [Keys -> Values]]
  /\ \A a \in Accounts : RemoteInfo[a][ContractField] = 0 => RemoteStorage[a] = NoStorage

VARIABLES
  world,   \* the accounts as the running frame sees them
  worlds   \* worlds[i]: world when frame i began; frame 1 is the transaction

World == [info    : [Accounts -> [FieldSet -> Values]],
          storage : [Accounts -> [Keys -> Values]],
          settled : [Accounts -> [Keys -> Values]],  \* storage before the transaction
          dead    : SUBSET Accounts,                 \* destructed in the transaction
          warm    : SUBSET Accounts]                 \* access list

EvmTypeOK == world \in World /\ worlds \in Seq(World)

EvmInit ==
  /\ world = [info |-> RemoteInfo, storage |-> RemoteStorage, settled |-> RemoteStorage,
              dead |-> {}, warm |-> {}]
  /\ worlds = << >>

Running == worlds # << >>
Depth == Len(worlds)

Update(w) == world' = w /\ UNCHANGED worlds

EvmSetInfo(a, f, v) == Update([world EXCEPT !.info[a][f] = v])
EvmSetState(a, k, v) == Update([world EXCEPT !.storage[a][k] = v])
EvmSuicide(a) ==
  Update([world EXCEPT !.dead = @ \cup {a}, !.info[a]["balance"] = 0])
EvmWarm(a) == Update([world EXCEPT !.warm = @ \cup {a}])

\* A new contract: its nonce is 1, it keeps a balance and has no storage.
EvmCreate(a) ==
  Update([world EXCEPT !.info[a][ContractField] = 1, !.storage[a] = NoStorage])

EvmEnter == worlds' = Append(worlds, world) /\ UNCHANGED world

\* A frame that succeeds hands its changes to its caller.
EvmLeave ==
  /\ worlds' = SubSeq(worlds, 1, Depth - 1)
  /\ UNCHANGED world

EvmRevert ==
  /\ world' = worlds[Depth]
  /\ worlds' = SubSeq(worlds, 1, Depth - 1)

EvmBegin ==
  /\ worlds' = <<world>>
  /\ world' = [world EXCEPT !.warm = {}]

\* Whatever the frames, the transaction has no effect.
EvmAbort ==
  /\ world' = worlds[1]
  /\ worlds' = << >>

\* Accounts that were destructed, or are empty, are deleted.
Gone(a) == a \in world.dead \/ world.info[a] = NoInfo

EvmFinish ==
  /\ LET storage == [a \in Accounts |-> IF Gone(a) THEN NoStorage ELSE world.storage[a]]
     IN  world' = [world EXCEPT
           !.info = [a \in Accounts |-> IF Gone(a) THEN NoInfo ELSE world.info[a]],
           !.storage = storage, !.settled = storage, !.dead = {}]
  /\ worlds' = << >>
=============================================================================
