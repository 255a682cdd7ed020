---------------------------- MODULE ForkedState ----------------------------
(***************************************************************************)
(* dyengine/state/forked.go: a state that begins as the chain at a block    *)
(* and fetches accounts and storage slots from a node the first time they   *)
(* are used.  It is a go-ethereum StateDB, which knows nothing of the chain,*)
(* plus sets of what has been inherited.  ApplyTx of dyengine/exevm.go runs *)
(* transactions on it; its calls take snapshots and may revert to them.     *)
(*                                                                          *)
(* Every action is a step of EvmState, what the EVM means by the operation, *)
(* together with what the code does.  The properties compare the two.       *)
(*                                                                          *)
(* A frame keeps the snapshot it took; the list the code keeps snapshots in *)
(* is in module Snapshots.  The StateDB is external: its objects, the       *)
(* accounts in its journal (touched), and its access list (warm).           *)
(***************************************************************************)
EXTENDS EvmState

CONSTANTS
  Mortal,     \* accounts that may be destructed or created
  Unset,      \* no value
  MaxDepth,   \* bound on frames, the transaction's included
  MaxTxs,     \* bound on transactions
  MaxCalls,   \* bound on inner calls
  MaxOps,     \* bound on operations
  MaxFaults   \* bound on failing requests to the node

VARIABLES
  overlay,    \* what a snapshot restores
  accessList, \* ForkedState.accessList, the copy of StateDB's
  lastErr,    \* lastErr is not nil
  saved,      \* saved[i]: what Snapshot of frame i returned
  failed,     \* a request of this transaction failed
  undone,     \* an inner call of this transaction was undone
  reverted,   \* some inner call was, in this transaction or an earlier one
  txs, calls, ops, faults

counters == <<txs, calls, ops, faults>>
history == <<failed, undone, reverted>>
vars == <<world, worlds, overlay, accessList, lastErr, saved, failed, undone,
          reverted, txs, calls, ops, faults>>

ASSUME UnsetAssumption == Unset \notin Values
ASSUME BoundsAssumption ==
  MaxDepth \in Nat \ {0} /\ MaxTxs \in Nat /\ MaxCalls \in Nat /\ MaxOps \in Nat /\ MaxFaults \in Nat

Slot == Values \cup {Unset}

\* An object of StateDB; settled is what go-ethereum calls pending storage.
Object == [info : [FieldSet -> Values], dirty : [Keys -> Slot],
           settled : [Keys -> Values], suicided : BOOLEAN, exists : BOOLEAN]

Overlay == [object : [Accounts -> Object],
            touched : SUBSET Accounts,
            warm : SUBSET Accounts,
            stateInherited : SUBSET Accounts,
            storageInherited : [Accounts -> SUBSET Keys],
            dirtyCleared : [Accounts -> [Keys -> {"none", "true", "false"}]],
            committedCleared : [Accounts -> SUBSET Keys]]

TypeOK ==
  /\ EvmTypeOK
  /\ overlay \in Overlay
  /\ accessList \subseteq Accounts
  /\ lastErr \in BOOLEAN
  /\ saved \in Seq([overlay : Overlay, lastErr : BOOLEAN])
  /\ Len(saved) = Depth /\ Depth <= MaxDepth
  /\ failed \in BOOLEAN /\ undone \in BOOLEAN /\ reverted \in BOOLEAN
  /\ txs \in 0 .. MaxTxs /\ calls \in 0 .. MaxCalls
  /\ ops \in 0 .. MaxOps /\ faults \in 0 .. MaxFaults

NoObject == [info |-> NoInfo, dirty |-> [k \in Keys |-> Unset], settled |-> NoStorage,
             suicided |-> FALSE, exists |-> FALSE]
NothingCleared == [k \in Keys |-> "none"]

\* NewForkedState
Init ==
  /\ EvmInit
  /\ overlay = [object |-> [a \in Accounts |-> NoObject],
                touched |-> {}, warm |-> {}, stateInherited |-> {},
                storageInherited |-> [a \in Accounts |-> {}],
                dirtyCleared |-> [a \in Accounts |-> NothingCleared],
                committedCleared |-> [a \in Accounts |-> {}]]
  /\ accessList = {} /\ lastErr = FALSE /\ saved = << >>
  /\ failed = FALSE /\ undone = FALSE /\ reverted = FALSE
  /\ txs = 0 /\ calls = 0 /\ ops = 0 /\ faults = 0

-----------------------------------------------------------------------------
(* The StateDB: operations on an overlay o, as go-ethereum performs them.  *)

Exist(o, a) == o.object[a].exists

\* GetOrNewStateObject
WithObject(o, a) ==
  IF Exist(o, a) THEN o
  ELSE [o EXCEPT !.object[a] = [NoObject EXCEPT !.exists = TRUE], !.touched = @ \cup {a}]

DbSetInfo(o, a, f, v) ==
  [WithObject(o, a) EXCEPT !.object[a].info[f] = v, !.touched = @ \cup {a}]

DbGetState(o, a, k) ==
  LET obj == o.object[a]
  IN  IF ~obj.exists THEN 0 ELSE IF obj.dirty[k] # Unset THEN obj.dirty[k] ELSE obj.settled[k]

DbGetCommittedState(o, a, k) == IF Exist(o, a) THEN o.object[a].settled[k] ELSE 0

DbSetState(o, a, k, v) ==
  LET p == WithObject(o, a)
  IN  IF DbGetState(p, a, k) = v THEN p
      ELSE [p EXCEPT !.object[a].dirty[k] = v, !.touched = @ \cup {a}]

DbSuicide(o, a) ==
  IF ~Exist(o, a) THEN o
  ELSE [o EXCEPT !.object[a].suicided = TRUE, !.object[a].info["balance"] = 0,
                 !.touched = @ \cup {a}]

\* CreateAccount and the nonce of a new contract.
DbCreate(o, a) ==
  LET new == [NoObject EXCEPT !.exists = TRUE,
                !.info["balance"] = o.object[a].info["balance"],
                !.info[ContractField] = 1]
  IN  [o EXCEPT !.object[a] = new, !.touched = @ \cup {a}]

\* Finalise visits the accounts in the journal.
DbFinalise(o) ==
  LET done(obj) ==
        IF obj.suicided \/ obj.info = NoInfo THEN NoObject
        ELSE [obj EXCEPT
               !.settled = [k \in Keys |-> IF obj.dirty[k] = Unset THEN @[k] ELSE obj.dirty[k]],
               !.dirty = [k \in Keys |-> Unset]]
  IN  [o EXCEPT !.object = [a \in Accounts |->
                  IF a \in o.touched /\ Exist(o, a) THEN done(@[a]) ELSE @[a]],
                !.touched = {}]

-----------------------------------------------------------------------------
(* Inheriting from the node.                                               *)

\* inheritAccountState, when the node answers n of the requests for the fields.
\* The marks and the maps come last.
InheritAccount(o, a, n) ==
  IF a \in o.stateInherited \/ Exist(o, a) THEN o
  ELSE LET got == {i \in 1 .. n : RemoteInfo[a][Fields[i]] # 0}
           info == [f \in FieldSet |->
                      IF \E i \in got : Fields[i] = f THEN RemoteInfo[a][f] ELSE 0]
           p == IF got = {} THEN o ELSE [WithObject(o, a) EXCEPT !.object[a].info = info]
       IN  IF n < Len(Fields) THEN p
           ELSE [p EXCEPT !.stateInherited = @ \cup {a}, !.storageInherited[a] = {},
                          !.dirtyCleared[a] = NothingCleared]

\* inheritAccountStorage, when the node answers or not.
InheritStorage(o, a, k, ok) ==
  IF k \in o.storageInherited[a] \/ ~ok THEN o
  ELSE LET p == IF RemoteStorage[a][k] = 0 THEN o ELSE DbSetState(o, a, k, RemoteStorage[a][k])
       IN  [p EXCEPT !.storageInherited[a] = @ \cup {k}]

\* The requests an operation on account a makes, and on its slot k, and how many
\* of them the node answers.
Fetches(a) == IF a \in overlay.stateInherited \/ Exist(overlay, a) THEN 0 ELSE Len(Fields)

Asks(a, k) == k \notin overlay.storageInherited[a]

\* The requests of an operation; one of them failed or not.
Requests(bad) ==
  /\ bad => faults < MaxFaults
  /\ lastErr' = (lastErr \/ bad)
  /\ failed' = (failed \/ bad)
  /\ faults' = IF bad THEN faults + 1 ELSE faults

\* An operation that needs account a, answered for n fields.
Inherit(a, n) == n \in 0 .. Fetches(a) /\ Requests(n < Fetches(a))

\* An operation that needs slot k of a: account, answered for n fields, and slot.
InheritSlot(a, k, n, ok) ==
  /\ n \in 0 .. Fetches(a)
  /\ ok \/ Asks(a, k)
  /\ Requests(n < Fetches(a) \/ ~ok)

Operation == Running /\ ops < MaxOps /\ ops' = ops + 1 /\ UNCHANGED <<txs, calls, undone, reverted>>

\* Only contracts that run use storage or destruct themselves.
IsContract(a) == world.info[a][ContractField] # 0

-----------------------------------------------------------------------------
(* Operations of the EVM.                                                  *)

\* GetBalance, GetNonce, GetCode, GetCodeHash, GetCodeSize, Exist, Empty,
\* HasSuicided
GetInfo(a, n) ==
  /\ Operation
  /\ Inherit(a, n)
  /\ overlay' = InheritAccount(overlay, a, n)
  /\ UNCHANGED <<world, worlds, accessList, saved>>

\* AddBalance, SubBalance, SetNonce, SetCode.  The change is made to what could
\* be inherited.  Nonces and code are never set to nothing.
SetInfo(a, f, v, n) ==
  /\ Operation
  /\ f # "balance" => v # 0
  /\ EvmSetInfo(a, f, v)
  /\ Inherit(a, n)
  /\ overlay' = DbSetInfo(InheritAccount(overlay, a, n), a, f, v)
  /\ UNCHANGED <<accessList, saved>>

GetState(a, k, n, ok) ==
  /\ Operation
  /\ IsContract(a)
  /\ InheritSlot(a, k, n, ok)
  /\ overlay' = InheritStorage(InheritAccount(overlay, a, n), a, k, ok)
  /\ UNCHANGED <<world, worlds, accessList, saved>>

\* GetCommittedState asks the node again for a slot that is zero and was not
\* cleared by an earlier transaction.
AsksAgain(o, a, k) == DbGetCommittedState(o, a, k) = 0 /\ k \notin o.committedCleared[a]

GetCommittedState(a, k, n, ok, again) ==
  /\ Operation
  /\ IsContract(a)
  /\ overlay' = InheritStorage(InheritAccount(overlay, a, n), a, k, ok)
  /\ n \in 0 .. Fetches(a)
  /\ ok \/ Asks(a, k)
  /\ again \/ AsksAgain(overlay', a, k)
  /\ Requests(n < Fetches(a) \/ ~ok \/ ~again)
  /\ UNCHANGED <<world, worlds, accessList, saved>>

\* dirtyClearedStorage[addr] is a map only if the account was inherited.
HasMap(a, n) == a \in overlay.stateInherited \/ (~Exist(overlay, a) /\ n = Len(Fields))

MarkCleared(o, a, k, v) ==
  [o EXCEPT !.dirtyCleared[a][k] = IF v = 0 THEN "true" ELSE "false"]

SetState(a, k, v, n, ok) ==
  /\ Operation
  /\ IsContract(a)
  /\ HasMap(a, n)
  /\ EvmSetState(a, k, v)
  /\ InheritSlot(a, k, n, ok)
  /\ LET p == InheritStorage(InheritAccount(overlay, a, n), a, k, ok)
     IN  overlay' = MarkCleared(DbSetState(p, a, k, v), a, k, v)
  /\ UNCHANGED <<accessList, saved>>

\* Writing to a nil map panics; ApplyTx recovers and returns an error, and the
\* state stays as the transaction left it.
SetStatePanics(a, k, v, n, ok) ==
  /\ Operation
  /\ IsContract(a)
  /\ ~HasMap(a, n)
  /\ EvmAbort
  /\ InheritSlot(a, k, n, ok)
  /\ overlay' = DbSetState(InheritStorage(InheritAccount(overlay, a, n), a, k, ok), a, k, v)
  /\ saved' = << >>
  /\ UNCHANGED accessList

Suicide(a, n) ==
  /\ Operation
  /\ IsContract(a)
  /\ EvmSuicide(a)
  /\ Inherit(a, n)
  /\ overlay' = DbSuicide(InheritAccount(overlay, a, n), a)
  /\ UNCHANGED <<accessList, saved>>

\* StateDB's CreateAccount, after the EVM found neither code nor nonce at a.
Create(a, n) ==
  /\ Operation
  /\ \A f \in FieldSet \ {"balance"} : world.info[a][f] = 0
  /\ EvmCreate(a)
  /\ Inherit(a, n)
  /\ overlay' = DbCreate(InheritAccount(overlay, a, n), a)
  /\ UNCHANGED <<accessList, saved>>

AddAddressToAccessList(a) ==
  /\ Operation
  /\ EvmWarm(a)
  /\ accessList' = accessList \cup {a}
  /\ overlay' = [overlay EXCEPT !.warm = @ \cup {a}]
  /\ UNCHANGED <<lastErr, saved, failed, faults>>

-----------------------------------------------------------------------------
(* Frames.                                                                 *)

\* Copy: StateDB.Copy begins an empty journal, and the access list is filled
\* from ForkedState's own.
Copy == [overlay |-> [overlay EXCEPT !.touched = {}, !.warm = accessList],
         lastErr |-> lastErr]

\* Mutated forms: the marks of inherited accounts, or slots, are not restored.
RestoreNotAccounts(snap) ==
  /\ overlay' = [snap.overlay EXCEPT !.stateInherited = overlay.stateInherited]
  /\ lastErr' = snap.lastErr
RestoreNotSlots(snap) ==
  /\ overlay' = [snap.overlay EXCEPT !.storageInherited = overlay.storageInherited]
  /\ lastErr' = snap.lastErr

\* RevertToSnapshot
Restore(snap) == overlay' = snap.overlay /\ lastErr' = snap.lastErr

\* ApplyTx up to the first operation: Prepare, Snapshot, PrepareAccessList.
Begin ==
  /\ ~Running /\ txs < MaxTxs
  /\ EvmBegin
  /\ saved' = <<Copy>>
  /\ overlay' = [overlay EXCEPT !.warm = {}]
  /\ accessList' = {}
  /\ failed' = FALSE /\ undone' = FALSE
  /\ txs' = txs + 1
  /\ UNCHANGED <<lastErr, reverted, calls, ops, faults>>

Enter ==
  /\ Running /\ Depth < MaxDepth /\ calls < MaxCalls
  /\ EvmEnter
  /\ saved' = Append(saved, Copy)
  /\ calls' = calls + 1
  /\ UNCHANGED <<overlay, accessList, lastErr, history, txs, ops, faults>>

Leave ==
  /\ Depth > 1
  /\ EvmLeave
  /\ saved' = SubSeq(saved, 1, Depth - 1)
  /\ UNCHANGED <<overlay, accessList, lastErr, history, counters>>

RevertCall ==
  /\ Depth > 1
  /\ EvmRevert
  /\ Restore(saved[Depth])
  /\ saved' = SubSeq(saved, 1, Depth - 1)
  /\ undone' = TRUE /\ reverted' = TRUE
  /\ UNCHANGED <<accessList, failed, counters>>

\* ApplyMessage failed, or LastError is set.
Reject ==
  /\ Depth = 1
  /\ EvmAbort
  /\ Restore(saved[1])
  /\ saved' = << >>
  /\ UNCHANGED <<accessList, history, counters>>

Finalise(o) ==
  LET p == DbFinalise(o)
  IN  [p EXCEPT !.committedCleared = [a \in Accounts |->
         {k \in Keys : \/ p.dirtyCleared[a][k] = "true"
                       \/ p.dirtyCleared[a][k] = "none" /\ k \in @[a]}]]

\* Mutated form: the last error is not looked at.
AcceptAnyway ==
  /\ Depth = 1
  /\ EvmFinish
  /\ overlay' = Finalise(overlay)
  /\ saved' = << >>
  /\ UNCHANGED <<accessList, lastErr, history, counters>>

Accept ==
  /\ Depth = 1
  /\ ~lastErr
  /\ EvmFinish
  /\ overlay' = Finalise(overlay)
  /\ saved' = << >>
  /\ UNCHANGED <<accessList, lastErr, history, counters>>

-----------------------------------------------------------------------------

AccountStep(a, n) ==
  \/ GetInfo(a, n)
  \/ \E f \in FieldSet, v \in Values : SetInfo(a, f, v, n)
  \/ a \in Mortal /\ Suicide(a, n)
  \/ a \in Mortal /\ Create(a, n)

SlotStep(a, k, n, ok) ==
  \/ GetState(a, k, n, ok)
  \/ \E again \in BOOLEAN : GetCommittedState(a, k, n, ok, again)
  \/ \E v \in Values : SetState(a, k, v, n, ok) \/ SetStatePanics(a, k, v, n, ok)

Next ==
  \/ \E a \in Accounts :
       \/ \E n \in 0 .. Len(Fields) : AccountStep(a, n)
       \/ \E k \in Keys, n \in 0 .. Len(Fields), ok \in BOOLEAN : SlotStep(a, k, n, ok)
       \/ AddAddressToAccessList(a)
  \/ Begin \/ Enter \/ Leave \/ RevertCall \/ Reject \/ Accept

Spec == Init /\ [][Next]_vars

-----------------------------------------------------------------------------
(* What the getters would return, answered by the node.                    *)

InfoOf(a, f) ==
  IF Exist(overlay, a) \/ a \in overlay.stateInherited
  THEN overlay.object[a].info[f] ELSE RemoteInfo[a][f]

StateOf(a, k) ==
  IF k \in overlay.storageInherited[a] \/ RemoteStorage[a][k] = 0
  THEN DbGetState(overlay, a, k) ELSE RemoteStorage[a][k]

CommittedOf(a, k) ==
  IF AsksAgain(overlay, a, k) THEN RemoteStorage[a][k] ELSE DbGetCommittedState(overlay, a, k)

-----------------------------------------------------------------------------
(* Safety, while no request has failed.  The revert of an inner call leaves a *)
(* StateDB with an empty journal: Finalise then neither deletes the accounts   *)
(* destructed before the call nor settles the slots written before it.  The    *)
(* properties say how far the state is right in spite of that.                 *)

\* What no revert has cut off from Finalise.
Trusted(a) == ~reverted \/ a \notin Mortal

\* Balances, code, nonces are those the EVM means: the first use of an account,
\* before or after any change, call, revert or transaction, finds the chain's
\* value exactly if nothing has replaced it.
InfoAgrees ==
  ~lastErr => \A a \in Accounts, f \in FieldSet :
                Trusted(a) => InfoOf(a, f) = world.info[a][f]

\* The slots of a contract that was destructed are asked for once more, which
\* matters if it had storage on the chain.
Followed(a) == Trusted(a) /\ (a \in Mortal => RemoteStorage[a] = NoStorage)

\* Storage likewise: no write is overwritten by a late inheritance and no reverted
\* inheritance is taken for done.
CurrentAgrees ==
  \A a \in Accounts, k \in Keys : Followed(a) => StateOf(a, k) = world.storage[a][k]

\* As long as no inner call has been undone, GetCommittedState is the slot before
\* the transaction, also when the value is still in the dirty storage of the
\* transaction that inherited it or when an earlier transaction has cleared it.
CommittedAgrees ==
  ~reverted => \A a \in Accounts, k \in Keys :
                 Followed(a) => CommittedOf(a, k) = world.settled[a][k]

\* Both, until the node has failed: GetState and GetCommittedState give what the EVM
\* means by a slot and by its value before the transaction.
StorageAgrees == ~lastErr => CurrentAgrees /\ CommittedAgrees

\* "check whether there are errors in ForkedState" (exevm.go line 230): a
\* transaction that was answered with zeroes for lack of data is not accepted,
\* unless an inner call of this very transaction has been undone; calls undone in
\* earlier transactions are no excuse.
FailuresSeen == [][Accept /\ ~undone => ~failed]_vars
=============================================================================
