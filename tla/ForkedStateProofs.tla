------------------------- MODULE ForkedStateProofs -------------------------
(***************************************************************************)
(* Proofs about the forked state, for any accounts, slots, fields, values   *)
(* and contents of the chain, and any number of transactions, calls, states *)
(* and snapshots: that it gives what the EVM means (ForkedState), and that  *)
(* the lists of shared snapshots behave as a stack of contents for every    *)
(* state (Snapshots).                                                       *)
(*                                                                          *)
(* The argument of the first part.  Take one account, as the overlay has    *)
(* it and as the EVM means it.  Sound says how the two belong together: an  *)
(* account, or slot, not yet inherited is the chain's in both, one that is  *)
(* inherited has its value in the object.  This must hold of the running    *)
(* frame and of what every open frame would go back to, so that a revert    *)
(* undoes marks and values together.  An operation inherits what it needs,  *)
(* which changes the overlay and not the world, and then changes both.      *)
(* Finalise visits the accounts in the journal only: JournalKept says that  *)
(* everything unsettled is there, until a revert of a call empties it.      *)
(* After a failed request nothing is known until the transaction is undone. *)
(*                                                                          *)
(* The argument of the second part.  The snapshot of an open frame has a    *)
(* core that no state and no other frame has (Unshared): it was new when    *)
(* the snapshot was taken, and only the revert of that frame hands it out.  *)
(* So no write reaches it.  The positions of the frames of a state grow,    *)
(* and the list of each snapshot is the part of the list before it          *)
(* (PrefixLists): a revert finds the snapshots of the outer frames where    *)
(* they were.                                                               *)
(***************************************************************************)
EXTENDS ForkedState, Snapshots, SequenceTheorems, TLAPS

-----------------------------------------------------------------------------
(* Sequences.                                                              *)

LEMMA PrefixProperties ==
  ASSUME NEW S, NEW q \in Seq(S), NEW p \in 1 .. Len(q)
  PROVE  /\ SubSeq(q, 1, p - 1) \in Seq(S)
         /\ Len(SubSeq(q, 1, p - 1)) = p - 1
         /\ \A i \in 1 .. p - 1 : SubSeq(q, 1, p - 1)[i] = q[i]
  <1>1. p - 1 \in Int /\ \A i \in 1 .. p - 1 : q[i] \in S
    BY ElementOfSeq
  <1>2. /\ SubSeq(q, 1, p - 1) \in Seq(S)
        /\ Len(SubSeq(q, 1, p - 1)) = IF 1 <= p - 1 THEN p - 1 - 1 + 1 ELSE 0
        /\ \A i \in 1 .. p - 1 - 1 + 1 : SubSeq(q, 1, p - 1)[i] = q[1 + i - 1]
    BY <1>1, SubSeqProperties
  <1> QED
    BY <1>2

-----------------------------------------------------------------------------
(* What an overlay o and a world w have to do with each other; rev: a call *)
(* has been undone.                                                        *)

\* A contract that may be destructed and inherited anew has no slots to inherit.
Keeps(a) == a \in Mortal => RemoteStorage[a] = NoStorage

\* What exists has been inherited, and what does not is blank.
Present(o, a) ==
  /\ Exist(o, a) => a \in o.stateInherited
  /\ ~Exist(o, a) => o.object[a] = NoObject

\* The fields of an account, and its destruction.
SoundInfo(o, w, a) ==
  /\ IF a \in o.stateInherited THEN w.info[a] = o.object[a].info
     ELSE w.info[a] = RemoteInfo[a]
  /\ a \in w.dead <=> o.object[a].suicided
  /\ a \in w.dead => a \in Mortal /\ w.info[a][ContractField] # 0

\* The value of slot k of an object.
ValueOf(obj, k) == IF obj.dirty[k] # Unset THEN obj.dirty[k] ELSE obj.settled[k]

\* Its slots.
SoundSlots(o, w, a) ==
  /\ w.info[a][ContractField] = 0 => w.storage[a] = NoStorage
  /\ a \notin o.stateInherited => o.storageInherited[a] = {}
  /\ \A k \in Keys :
       IF k \in o.storageInherited[a] THEN ValueOf(o.object[a], k) = w.storage[a][k]
       ELSE /\ o.object[a].dirty[k] = Unset /\ o.object[a].settled[k] = 0
            /\ w.storage[a][k] = RemoteStorage[a][k]

\* Its slots before the transaction: zero in the overlay means the chain's, unless
\* an earlier transaction has cleared it; what this one has cleared is known.
SoundSettled(o, w, a) ==
  /\ w.info[a][ContractField] = 0 => w.settled[a] = NoStorage
  /\ \A k \in Keys :
       /\ w.settled[a][k] =
            IF o.object[a].settled[k] = 0 /\ k \notin o.committedCleared[a]
            THEN RemoteStorage[a][k] ELSE o.object[a].settled[k]
       /\ k \notin o.storageInherited[a] =>
            o.dirtyCleared[a][k] = "none" /\ k \notin o.committedCleared[a]
       /\ w.storage[a][k] = 0 /\ RemoteStorage[a][k] # 0 => o.dirtyCleared[a][k] = "true"

\* A revert may spoil mortal accounts, and what is settled of all.
SoundAt(o, w, rev, a) ==
  /\ Present(o, a)
  /\ ~rev \/ a \notin Mortal =>
       /\ SoundInfo(o, w, a)
       /\ Keeps(a) => SoundSlots(o, w, a) /\ (~rev => SoundSettled(o, w, a))
Sound(o, w, rev) == \A a \in Accounts : SoundAt(o, w, rev, a)

\* Objects that Finalise has to visit, and whether it will.
Loose(obj) == obj.suicided \/ \E k \in Keys : obj.dirty[k] # Unset
Journalled(o) == \A a \in Accounts : Loose(o.object[a]) => a \in o.touched
Clean(o) == \A a \in Accounts : ~Loose(o.object[a])

-----------------------------------------------------------------------------
(* What the operations of the StateDB do to an object.                     *)

LEMMA Constants ==
  /\ "balance" \in FieldSet /\ ContractField \in FieldSet /\ ContractField # "balance"
  /\ Len(Fields) \in Nat
  /\ 0 \in Values /\ 1 \in Values /\ Unset \in Slot /\ Values \subseteq Slot /\ Unset \notin Values
  /\ NoInfo \in [FieldSet -> Values] /\ NoStorage \in [Keys -> Values]
  /\ RemoteInfo \in [Accounts -> [FieldSet -> Values]]
  /\ RemoteStorage \in [Accounts -> [Keys -> Values]]
  <1>1. Len(Fields) \in Nat /\ Len(Fields) >= 2
    BY FieldsAssumption
  <1>2. Len(Fields) \in 1 .. Len(Fields)
    BY <1>1
  <1>3. ContractField \in FieldSet
    BY <1>2 DEF FieldSet, ContractField
  <1>4. "balance" \in FieldSet /\ ContractField # "balance"
    BY FieldsAssumption
  <1>5. /\ 0 \in Values /\ 1 \in Values
        /\ RemoteInfo \in [Accounts -> [FieldSet -> Values]]
        /\ RemoteStorage \in [Accounts -> [Keys -> Values]]
    BY RemoteAssumption
  <1>6. Unset \in Slot /\ Values \subseteq Slot /\ Unset \notin Values
    BY UnsetAssumption DEF Slot
  <1>7. NoInfo \in [FieldSet -> Values] /\ NoStorage \in [Keys -> Values]
    BY <1>5 DEF NoInfo, NoStorage
  <1> QED
    BY <1>1, <1>3, <1>4, <1>5, <1>6, <1>7

LEMMA NoObjectType == NoObject \in Object
  BY Constants DEF NoObject, Object

\* The object an operation works on.
Base(obj) == IF obj.exists THEN obj ELSE [NoObject EXCEPT !.exists = TRUE]

LEMMA BaseType == \A obj \in Object : Base(obj) \in Object /\ Base(obj).exists
  BY NoObjectType DEF Base, Object

\* p is o with the object obj in the place of that of account a.
Puts(o, p, a, obj) ==
  /\ p \in Overlay
  /\ p.object = [o.object EXCEPT ![a] = obj]
  /\ p.stateInherited = o.stateInherited /\ p.storageInherited = o.storageInherited
  /\ p.dirtyCleared = o.dirtyCleared /\ p.committedCleared = o.committedCleared
  /\ o.touched \subseteq p.touched
  /\ obj = o.object[a] \/ a \in p.touched

\* o with the object obj for a, and the journal T.
Put(o, a, obj, T) == [o EXCEPT !.object = [@ EXCEPT ![a] = obj], !.touched = T]

LEMMA PutsObject ==
  ASSUME NEW o \in Overlay, NEW a \in Accounts, NEW obj \in Object, NEW T \in SUBSET Accounts,
         o.touched \subseteq T, obj = o.object[a] \/ a \in T
  PROVE  Puts(o, Put(o, a, obj, T), a, obj)
  BY DEF Put, Puts, Overlay

LEMMA PutsNothing ==
  ASSUME NEW o \in Overlay, NEW a \in Accounts
  PROVE  Puts(o, o, a, o.object[a])
  BY DEF Puts, Overlay

LEMMA PutsTwice ==
  ASSUME NEW o \in Overlay, NEW q, NEW p, NEW a \in Accounts, NEW x, NEW y,
         Puts(o, q, a, x), Puts(q, p, a, y)
  PROVE  Puts(o, p, a, y)
  BY DEF Puts, Overlay

LEMMA WithObjectPuts ==
  ASSUME NEW o \in Overlay, NEW a \in Accounts
  PROVE  Puts(o, WithObject(o, a), a, Base(o.object[a]))
  <1>1. o.object[a] \in Object /\ o.touched \in SUBSET Accounts
    BY DEF Overlay
  <1>2. CASE Exist(o, a)
    BY <1>2, PutsNothing DEF WithObject, Exist, Base
  <1>3. CASE ~Exist(o, a)
    <2>1. WithObject(o, a) =
            Put(o, a, Base(o.object[a]), o.touched \cup {a})
      BY <1>3 DEF Put, WithObject, Exist, Base, Overlay
    <2> QED
      BY <2>1, <1>1, PutsObject, BaseType
  <1> QED
    BY <1>2, <1>3

LEMMA SetInfoPuts ==
  ASSUME NEW o \in Overlay, NEW a \in Accounts, NEW f \in FieldSet, NEW v \in Values
  PROVE  Puts(o, DbSetInfo(o, a, f, v), a, [Base(o.object[a]) EXCEPT !.info[f] = v])
  <1> DEFINE p == WithObject(o, a)
             obj == [Base(o.object[a]) EXCEPT !.info[f] = v]
  <1>1. Puts(o, p, a, Base(o.object[a]))
    BY WithObjectPuts
  <1>2. Base(o.object[a]) \in Object /\ obj \in Object
    <2>1. o.object[a] \in Object
      BY DEF Overlay
    <2>2. Base(o.object[a]) \in Object
      BY <2>1, BaseType
    <2> QED
      BY <2>2 DEF Object
  <1>3. DbSetInfo(o, a, f, v) =
          Put(p, a, obj, p.touched \cup {a})
    BY <1>1, <1>2 DEF Put, DbSetInfo, Puts, Overlay
  <1>4. p \in Overlay /\ p.touched \cup {a} \in SUBSET Accounts
    BY <1>1 DEF Puts, Overlay
  <1>5. Puts(p, DbSetInfo(o, a, f, v), a, obj)
    BY <1>2, <1>3, <1>4, PutsObject
  <1> HIDE DEF p
  <1> QED
    BY <1>1, <1>5, PutsTwice

LEMMA StatesTypes ==
  ASSUME NEW o \in Overlay, NEW a \in Accounts, NEW k \in Keys
  PROVE  DbGetState(o, a, k) \in Values /\ DbGetCommittedState(o, a, k) \in Values
  BY Constants DEF DbGetState, DbGetCommittedState, Exist, Overlay, Object, Slot

\* What DbSetState makes of an object.
Written(obj, k, v) ==
  IF ValueOf(Base(obj), k) = v THEN Base(obj) ELSE [Base(obj) EXCEPT !.dirty[k] = v]

LEMMA WrittenType ==
  \A obj \in Object, k \in Keys, v \in Values : Written(obj, k, v) \in Object
  <1> SUFFICES ASSUME NEW obj \in Object, NEW k \in Keys, NEW v \in Values
               PROVE  Written(obj, k, v) \in Object
    OBVIOUS
  <1>1. Base(obj) \in Object
    BY BaseType
  <1> QED
    BY <1>1, Constants DEF Written, Object

LEMMA SetStatePuts ==
  ASSUME NEW o \in Overlay, NEW a \in Accounts, NEW k \in Keys, NEW v \in Values
  PROVE  Puts(o, DbSetState(o, a, k, v), a, Written(o.object[a], k, v))
  <1> DEFINE p == WithObject(o, a)
             b == Base(o.object[a])
             obj == [b EXCEPT !.dirty[k] = v]
  <1>1. Puts(o, p, a, b)
    BY WithObjectPuts
  <1>2. b \in Object /\ b.exists /\ obj \in Object
    <2>1. o.object[a] \in Object
      BY DEF Overlay
    <2>2. b \in Object /\ b.exists
      BY <2>1, BaseType
    <2> QED
      BY <2>2, Constants DEF Object
  <1>3. p \in Overlay /\ p.object[a] = b /\ p.touched \cup {a} \in SUBSET Accounts
    BY <1>1, <1>2 DEF Puts, Overlay
  <1>4. DbGetState(p, a, k) = ValueOf(b, k)
    BY <1>2, <1>3 DEF DbGetState, ValueOf
  <1>5. CASE DbGetState(p, a, k) = v
    <2>1. DbSetState(o, a, k, v) = p /\ Written(o.object[a], k, v) = b
      BY <1>4, <1>5 DEF DbSetState, Written
    <2> QED
      BY <2>1, <1>1
  <1>6. CASE DbGetState(p, a, k) # v
    <2>1. /\ DbSetState(o, a, k, v) =
               Put(p, a, obj, p.touched \cup {a})
          /\ Written(o.object[a], k, v) = obj
      BY <1>2, <1>3, <1>4, <1>6 DEF Put, DbSetState, Written, Overlay
    <2>2. Puts(p, DbSetState(o, a, k, v), a, obj)
      BY <2>1, <1>2, <1>3, PutsObject
    <2> HIDE DEF p, b, obj
    <2> QED
      BY <2>1, <2>2, <1>1, PutsTwice
  <1> QED
    BY <1>5, <1>6

\* What DbSuicide makes of an object, and what DbCreate does.
Destructed(obj) == [obj EXCEPT !.suicided = TRUE, !.info["balance"] = 0]

LEMMA SuicidePuts ==
  ASSUME NEW o \in Overlay, NEW a \in Accounts
  PROVE  Puts(o, DbSuicide(o, a), a,
              IF o.object[a].exists THEN Destructed(o.object[a]) ELSE o.object[a])
  <1>1. o.object[a] \in Object /\ Destructed(o.object[a]) \in Object
    <2>1. o.object[a] \in Object
      BY DEF Overlay
    <2> QED
      BY <2>1, Constants DEF Object, Destructed
  <1>2. CASE Exist(o, a)
    <2>1. DbSuicide(o, a) =
            Put(o, a, Destructed(o.object[a]), o.touched \cup {a})
      <3>1. o.object \in [Accounts -> Object] /\ o.object[a] \in Object
        BY DEF Overlay
      <3>2. [o.object EXCEPT ![a].suicided = TRUE, ![a].info["balance"] = 0] =
              [o.object EXCEPT ![a] = Destructed(o.object[a])]
        BY <3>1 DEF Destructed
      <3> QED
        BY <1>2, <3>2 DEF Put, DbSuicide
    <2>2. o.touched \cup {a} \in SUBSET Accounts
      BY DEF Overlay
    <2> QED
      BY <2>1, <2>2, <1>1, <1>2, PutsObject DEF Exist
  <1>3. CASE ~Exist(o, a)
    BY <1>3, PutsNothing DEF DbSuicide, Exist
  <1> QED
    BY <1>2, <1>3

Created(obj) ==
  [NoObject EXCEPT !.exists = TRUE, !.info["balance"] = obj.info["balance"],
                   !.info[ContractField] = 1]

LEMMA CreatePuts ==
  ASSUME NEW o \in Overlay, NEW a \in Accounts
  PROVE  Puts(o, DbCreate(o, a), a, Created(o.object[a]))
  <1>1. o.object[a] \in Object /\ Created(o.object[a]) \in Object
    <2>1. o.object[a] \in Object
      BY DEF Overlay
    <2>2. o.object[a].info["balance"] \in Values
      BY <2>1, Constants DEF Object
    <2> QED
      BY <2>1, <2>2, Constants, NoObjectType DEF Object, Created
  <1>2. DbCreate(o, a) =
          Put(o, a, Created(o.object[a]), o.touched \cup {a})
    BY DEF Put, DbCreate, Created, Overlay
  <1>3. o.touched \cup {a} \in SUBSET Accounts
    BY DEF Overlay
  <1> QED
    BY <1>1, <1>2, <1>3, PutsObject

-----------------------------------------------------------------------------
(* Inheriting.                                                             *)

\* The account as the chain has it.
Inherited(a) ==
  IF RemoteInfo[a] = NoInfo THEN NoObject
  ELSE [NoObject EXCEPT !.exists = TRUE, !.info = RemoteInfo[a]]

\* p is o after account a has been inherited.
InheritAccountOn(o, p, a) ==
  /\ p \in Overlay
  /\ p.object = [o.object EXCEPT ![a] = Inherited(a)]
  /\ p.stateInherited = o.stateInherited \cup {a}
  /\ p.storageInherited = [o.storageInherited EXCEPT ![a] = {}]
  /\ p.dirtyCleared = [o.dirtyCleared EXCEPT ![a] = NothingCleared]
  /\ p.committedCleared = o.committedCleared
  /\ o.touched \subseteq p.touched

LEMMA PartialType ==
  ASSUME NEW o \in Overlay, NEW a \in Accounts, NEW n \in 0 .. Len(Fields)
  PROVE  InheritAccount(o, a, n) \in Overlay
  <1> DEFINE got == {i \in 1 .. n : RemoteInfo[a][Fields[i]] # 0}
             info == [f \in FieldSet |->
                        IF \E i \in got : Fields[i] = f THEN RemoteInfo[a][f] ELSE 0]
             q == WithObject(o, a)
             p == IF got = {} THEN o ELSE [q EXCEPT !.object[a].info = info]
  <1>1. info \in [FieldSet -> Values]
    BY Constants
  <1>2. q \in Overlay
    BY WithObjectPuts DEF Puts
  <1> HIDE DEF info, q
  <1>3. [q EXCEPT !.object[a].info = info] \in Overlay
    <2>1. q.object[a] \in Object /\ q.object \in [Accounts -> Object]
      BY <1>2 DEF Overlay
    <2>2. [q.object[a] EXCEPT !.info = info] \in Object
      BY <1>1, <2>1 DEF Object
    <2>3. [q.object EXCEPT ![a].info = info] \in [Accounts -> Object]
      BY <2>1, <2>2
    <2> QED
      BY <1>2, <2>3 DEF Overlay
  <1>4. p \in Overlay
    BY <1>3
  <1> HIDE DEF p
  <1>5. NothingCleared \in [Keys -> {"none", "true", "false"}]
    BY DEF NothingCleared
  <1>6. [p EXCEPT !.stateInherited = @ \cup {a}, !.storageInherited[a] = {},
                  !.dirtyCleared[a] = NothingCleared] \in Overlay
    BY <1>4, <1>5 DEF Overlay
  <1>7. CASE a \in o.stateInherited \/ Exist(o, a)
    BY <1>7 DEF InheritAccount
  <1>8. CASE ~(a \in o.stateInherited \/ Exist(o, a))
    <2>1. InheritAccount(o, a, n) =
            IF n < Len(Fields) THEN p
            ELSE [p EXCEPT !.stateInherited = @ \cup {a}, !.storageInherited[a] = {},
                           !.dirtyCleared[a] = NothingCleared]
      BY <1>8 DEF InheritAccount, p, q, info
    <2> QED
      BY <2>1, <1>4, <1>6
  <1> QED
    BY <1>7, <1>8

LEMMA InheritAccountWhole ==
  ASSUME NEW o \in Overlay, NEW a \in Accounts,
         a \notin o.stateInherited, ~Exist(o, a), o.object[a] = NoObject
  PROVE  InheritAccountOn(o, InheritAccount(o, a, Len(Fields)), a)
  <1> DEFINE n == Len(Fields)
             got == {i \in 1 .. n : RemoteInfo[a][Fields[i]] # 0}
             info == [f \in FieldSet |->
                        IF \E i \in got : Fields[i] = f THEN RemoteInfo[a][f] ELSE 0]
             q == WithObject(o, a)
             p == IF got = {} THEN o ELSE [q EXCEPT !.object[a].info = info]
  <1>1. RemoteInfo[a] \in [FieldSet -> Values] /\ n \in Nat
    BY Constants
  <1>2. ASSUME NEW f \in FieldSet
        PROVE  (\E i \in got : Fields[i] = f) <=> RemoteInfo[a][f] # 0
    <2>1. PICK i \in 1 .. n : Fields[i] = f
      BY DEF FieldSet
    <2> QED
      BY <2>1
  <1>3. info = RemoteInfo[a]
    BY <1>1, <1>2
  <1>4. got = {} <=> RemoteInfo[a] = NoInfo
    <2>1. got = {} => \A f \in FieldSet : RemoteInfo[a][f] = 0
      BY <1>2
    <2>2. (\A f \in FieldSet : RemoteInfo[a][f] = 0) => got = {}
      BY DEF FieldSet
    <2>3. (\A f \in FieldSet : RemoteInfo[a][f] = 0) <=> RemoteInfo[a] = NoInfo
      BY <1>1 DEF NoInfo
    <2> QED
      BY <2>1, <2>2, <2>3
  <1>5. Puts(o, q, a, [NoObject EXCEPT !.exists = TRUE])
    <2>1. Base(o.object[a]) = [NoObject EXCEPT !.exists = TRUE]
      BY DEF Base, Exist
    <2> QED
      BY <2>1, WithObjectPuts
  <1>6. Puts(o, p, a, Inherited(a))
    <2>1. CASE got = {}
      BY <2>1, <1>4, PutsNothing DEF Inherited
    <2>2. CASE got # {}
      <3>1. Inherited(a) = [NoObject EXCEPT !.exists = TRUE, !.info = RemoteInfo[a]]
        BY <2>2, <1>4 DEF Inherited
      <3>2. [NoObject EXCEPT !.exists = TRUE] \in Object
        BY NoObjectType DEF Object
      <3>3. q \in Overlay /\ q.object[a] = [NoObject EXCEPT !.exists = TRUE]
        BY <1>5, <3>2 DEF Puts, Overlay
      <3>4. a \in q.touched
        BY <1>5, <3>2 DEF Puts, Exist, NoObject
      <3>5. p = Put(q, a, Inherited(a), q.touched)
        BY <2>2, <1>3, <3>1, <3>3 DEF Put, Overlay, Object
      <3>6. Inherited(a) \in Object
        BY <3>1, <3>2, <1>1 DEF Object
      <3> HIDE DEF p, q
      <3>7. q.touched \in SUBSET Accounts
        BY <3>3 DEF Overlay
      <3>8. Puts(q, p, a, Inherited(a))
        BY <3>3, <3>4, <3>5, <3>6, <3>7, PutsObject
      <3> QED
        BY <3>8, <1>5, PutsTwice
    <2> QED
      BY <2>1, <2>2
  <1> DEFINE r == [p EXCEPT !.stateInherited = @ \cup {a}, !.storageInherited[a] = {},
                            !.dirtyCleared[a] = NothingCleared]
  <1>7. InheritAccount(o, a, Len(Fields)) = r
    BY <1>1 DEF InheritAccount
  <1>8. NothingCleared \in [Keys -> {"none", "true", "false"}]
    BY DEF NothingCleared
  <1> HIDE DEF p
  <1>9. p \in Overlay
    BY <1>6 DEF Puts
  <1>10. /\ r \in Overlay
         /\ r.object = p.object /\ r.stateInherited = p.stateInherited \cup {a}
         /\ r.storageInherited = [p.storageInherited EXCEPT ![a] = {}]
         /\ r.dirtyCleared = [p.dirtyCleared EXCEPT ![a] = NothingCleared]
         /\ r.committedCleared = p.committedCleared /\ r.touched = p.touched
    BY <1>8, <1>9 DEF Overlay
  <1> HIDE DEF r
  <1>11. InheritAccountOn(o, r, a)
    BY <1>6, <1>10 DEF InheritAccountOn, Puts
  <1> QED
    BY <1>7, <1>11

\* The account a of p, and its slots, are those of o.
Same(o, p, a) ==
  /\ p.object[a] = o.object[a]
  /\ a \in p.stateInherited <=> a \in o.stateInherited
  /\ p.storageInherited[a] = o.storageInherited[a]
  /\ p.dirtyCleared[a] = o.dirtyCleared[a]
  /\ p.committedCleared[a] = o.committedCleared[a]

\* p is o but for account a.
Elsewhere(o, p, a) == \A b \in Accounts \ {a} : Same(o, p, b)

\* The same in two worlds.
SameWorld(w, u, a) ==
  /\ u.info[a] = w.info[a] /\ u.storage[a] = w.storage[a] /\ u.settled[a] = w.settled[a]
  /\ a \in u.dead <=> a \in w.dead

LEMMA SoundSame ==
  ASSUME NEW o, NEW p, NEW w, NEW u, NEW rev, NEW a \in Accounts,
         SoundAt(o, w, rev, a), Same(o, p, a), SameWorld(w, u, a)
  PROVE  SoundAt(p, u, rev, a)
  BY DEF SoundAt, Same, SameWorld, Present, SoundInfo, SoundSlots, SoundSettled, Exist

LEMMA PutsElsewhere ==
  ASSUME NEW o \in Overlay, NEW p, NEW a \in Accounts, NEW obj, Puts(o, p, a, obj)
  PROVE  Elsewhere(o, p, a) /\ p.object[a] = obj /\ p \in Overlay
  BY DEF Puts, Elsewhere, Same, Overlay

LEMMA SoundStep ==
  ASSUME NEW o, NEW p, NEW w, NEW u, NEW rev, NEW a \in Accounts,
         Sound(o, w, rev), Elsewhere(o, p, a), SoundAt(p, u, rev, a),
         \A b \in Accounts \ {a} : SameWorld(w, u, b)
  PROVE  Sound(p, u, rev)
  <1> SUFFICES ASSUME NEW b \in Accounts PROVE SoundAt(p, u, rev, b)
    BY DEF Sound
  <1>1. CASE b = a
    BY <1>1
  <1>2. CASE b # a
    <2>1. SoundAt(o, w, rev, b) /\ Same(o, p, b) /\ SameWorld(w, u, b)
      BY <1>2 DEF Sound, Elsewhere
    <2> QED
      BY <2>1, SoundSame
  <1> QED
    BY <1>1, <1>2

LEMMA PutsJournalled ==
  ASSUME NEW o \in Overlay, NEW p, NEW a \in Accounts, NEW obj, Puts(o, p, a, obj),
         Journalled(o)
  PROVE  Journalled(p)
  BY DEF Puts, Journalled, Overlay

LEMMA InheritedFacts ==
  ASSUME NEW a \in Accounts
  PROVE  /\ Inherited(a) \in Object
         /\ Inherited(a).info = RemoteInfo[a]
         /\ ~Inherited(a).suicided
         /\ \A k \in Keys : Inherited(a).dirty[k] = Unset /\ Inherited(a).settled[k] = 0
         /\ ~Inherited(a).exists => Inherited(a) = NoObject
  BY Constants, NoObjectType DEF Inherited, NoObject, NoStorage, Object

LEMMA NoObjectFacts ==
  /\ NoObject.info = NoInfo /\ ~NoObject.suicided /\ ~NoObject.exists
  /\ \A k \in Keys : NoObject.dirty[k] = Unset /\ NoObject.settled[k] = 0
  BY DEF NoObject, NoStorage

LEMMA AccountSound ==
  ASSUME NEW o \in Overlay, NEW w \in World, NEW rev \in BOOLEAN, NEW a \in Accounts,
         Sound(o, w, rev), NEW p, InheritAccountOn(o, p, a),
         a \notin o.stateInherited, ~Exist(o, a), o.object[a] = NoObject
  PROVE  /\ Sound(p, w, rev) /\ a \in p.stateInherited
         /\ Journalled(o) => Journalled(p)
  <1>1. Elsewhere(o, p, a)
    BY DEF InheritAccountOn, Elsewhere, Same, Overlay
  <1>2. /\ p.object[a] = Inherited(a) /\ a \in p.stateInherited
        /\ p.storageInherited[a] = {} /\ p.dirtyCleared[a] = NothingCleared
        /\ p.committedCleared[a] = o.committedCleared[a]
        /\ o.touched \subseteq p.touched
    BY DEF InheritAccountOn, Overlay
  <1>3. SoundAt(o, w, rev, a)
    BY DEF Sound
  <1>4. Present(p, a)
    BY <1>2, InheritedFacts DEF Present, Exist
  <1>5. ASSUME SoundInfo(o, w, a)
        PROVE  SoundInfo(p, w, a)
    BY <1>2, <1>5, InheritedFacts, NoObjectFacts DEF SoundInfo
  <1>6. ASSUME SoundSlots(o, w, a)
        PROVE  SoundSlots(p, w, a)
    BY <1>2, <1>6, InheritedFacts DEF SoundSlots
  <1>7. ASSUME SoundSlots(o, w, a), SoundSettled(o, w, a)
        PROVE  SoundSettled(p, w, a)
    <2>1. ASSUME NEW k \in Keys
          PROVE  /\ o.object[a].settled[k] = 0 /\ p.object[a].settled[k] = 0
                 /\ k \notin o.committedCleared[a]
                 /\ w.storage[a][k] = RemoteStorage[a][k]
                 /\ p.dirtyCleared[a][k] = "none"
      BY <1>2, <1>7, InheritedFacts DEF SoundSlots, SoundSettled, NothingCleared
    <2> QED
      BY <2>1, <1>2, <1>7 DEF SoundSettled
  <1>8. SoundAt(p, w, rev, a)
    BY <1>3, <1>4, <1>5, <1>6, <1>7 DEF SoundAt
  <1>9. \A b \in Accounts \ {a} : SameWorld(w, w, b)
    BY DEF SameWorld
  <1>10. Sound(p, w, rev)
    BY <1>1, <1>8, <1>9, SoundStep
  <1>11. Journalled(o) => Journalled(p)
    BY <1>1, <1>2, InheritedFacts DEF Journalled, Elsewhere, Same, Loose
  <1> QED
    BY <1>2, <1>10, <1>11

\* The requests for account a have all been answered.
LEMMA InheritAccountSound ==
  ASSUME NEW o \in Overlay, NEW w \in World, NEW rev \in BOOLEAN, NEW a \in Accounts,
         Sound(o, w, rev),
         NEW n \in 0 .. Len(Fields),
         a \in o.stateInherited \/ Exist(o, a) \/ n = Len(Fields)
  PROVE  LET p == InheritAccount(o, a, n)
         IN  /\ p \in Overlay /\ Sound(p, w, rev) /\ a \in p.stateInherited
             /\ Journalled(o) => Journalled(p)
  <1>1. Present(o, a)
    BY DEF Sound, SoundAt
  <1>2. CASE a \in o.stateInherited \/ Exist(o, a)
    BY <1>1, <1>2 DEF InheritAccount, Present
  <1>3. CASE ~(a \in o.stateInherited \/ Exist(o, a))
    <2>1. o.object[a] = NoObject /\ n = Len(Fields)
      BY <1>1, <1>3 DEF Present
    <2>2. InheritAccountOn(o, InheritAccount(o, a, n), a)
      BY <2>1, <1>3, InheritAccountWhole
    <2> DEFINE p == InheritAccount(o, a, n)
    <2> HIDE DEF p
    <2>3. /\ p \in Overlay /\ Sound(p, w, rev) /\ a \in p.stateInherited
          /\ Journalled(o) => Journalled(p)
      <3>1. InheritAccountOn(o, p, a)
        BY <2>2 DEF p
      <3>2. a \notin o.stateInherited /\ ~Exist(o, a) /\ o.object[a] = NoObject
        BY <2>1, <1>3
      <3>3. p \in Overlay
        BY <3>1 DEF InheritAccountOn
      <3>4. /\ Sound(p, w, rev) /\ a \in p.stateInherited
            /\ Journalled(o) => Journalled(p)
        BY <3>1, <3>2, AccountSound
      <3> QED
        BY <3>3, <3>4
    <2> QED
      BY <2>3 DEF p
  <1> QED
    BY <1>2, <1>3

LEMMA StateIs ==
  ASSUME NEW o, NEW a \in Accounts, NEW k \in Keys, Present(o, a)
  PROVE  /\ DbGetState(o, a, k) = ValueOf(o.object[a], k)
         /\ DbGetCommittedState(o, a, k) = o.object[a].settled[k]
  BY NoObjectFacts DEF Present, DbGetState, DbGetCommittedState, ValueOf, Exist

LEMMA BaseFacts ==
  ASSUME NEW obj \in Object, ~obj.exists => obj = NoObject
  PROVE  /\ Base(obj) \in Object /\ Base(obj).exists
         /\ Base(obj).info = obj.info /\ Base(obj).suicided = obj.suicided
         /\ Base(obj).dirty = obj.dirty /\ Base(obj).settled = obj.settled
  BY BaseType DEF Base, NoObject

LEMMA WrittenFacts ==
  ASSUME NEW obj \in Object, ~obj.exists => obj = NoObject, NEW k \in Keys, NEW v \in Values
  PROVE  LET x == Written(obj, k, v)
         IN  /\ x \in Object /\ x.exists
             /\ x.info = obj.info /\ x.suicided = obj.suicided /\ x.settled = obj.settled
             /\ ValueOf(x, k) = v
             /\ \A j \in Keys \ {k} : x.dirty[j] = obj.dirty[j]
  <1>1. /\ Base(obj) \in Object /\ Base(obj).exists
        /\ Base(obj).info = obj.info /\ Base(obj).suicided = obj.suicided
        /\ Base(obj).dirty = obj.dirty /\ Base(obj).settled = obj.settled
    BY BaseFacts
  <1>2. v # Unset
    BY Constants
  <1>3. Written(obj, k, v) \in Object
    BY WrittenType
  <1> QED
    BY <1>1, <1>2, <1>3 DEF Written, ValueOf, Object

-----------------------------------------------------------------------------
(* Inheriting a slot.                                                      *)

LEMMA SlotType ==
  ASSUME NEW o \in Overlay, NEW a \in Accounts, NEW k \in Keys, NEW ok \in BOOLEAN
  PROVE  InheritStorage(o, a, k, ok) \in Overlay
  <1> DEFINE r == RemoteStorage[a][k]
             q == IF r = 0 THEN o ELSE DbSetState(o, a, k, r)
  <1>1. r \in Values
    BY Constants
  <1>2. q \in Overlay
    BY <1>1, SetStatePuts DEF Puts
  <1> HIDE DEF q
  <1>3. [q EXCEPT !.storageInherited[a] = @ \cup {k}] \in Overlay
    BY <1>2 DEF Overlay
  <1> QED
    BY <1>3 DEF InheritStorage, q

\* p is o after slot k of a has been inherited, which made its object obj.
SlotOn(o, p, a, k, obj) ==
  /\ p \in Overlay
  /\ p.object = [o.object EXCEPT ![a] = obj]
  /\ p.stateInherited = o.stateInherited
  /\ p.storageInherited = [o.storageInherited EXCEPT ![a] = @ \cup {k}]
  /\ p.dirtyCleared = o.dirtyCleared /\ p.committedCleared = o.committedCleared
  /\ o.touched \subseteq p.touched
  /\ obj = o.object[a] \/ a \in p.touched

LEMMA InheritStorageWhole ==
  ASSUME NEW o \in Overlay, NEW a \in Accounts, NEW k \in Keys, k \notin o.storageInherited[a]
  PROVE  SlotOn(o, InheritStorage(o, a, k, TRUE), a, k,
                IF RemoteStorage[a][k] = 0 THEN o.object[a]
                ELSE Written(o.object[a], k, RemoteStorage[a][k]))
  <1> DEFINE r == RemoteStorage[a][k]
             q == IF r = 0 THEN o ELSE DbSetState(o, a, k, r)
             obj == IF r = 0 THEN o.object[a] ELSE Written(o.object[a], k, r)
             p == [q EXCEPT !.storageInherited[a] = @ \cup {k}]
  <1>1. r \in Values
    BY Constants
  <1>2. Puts(o, q, a, obj)
    BY <1>1, SetStatePuts, PutsNothing
  <1>3. InheritStorage(o, a, k, TRUE) = p
    BY DEF InheritStorage
  <1> HIDE DEF q, obj
  <1>4. q \in Overlay
    BY <1>2 DEF Puts
  <1>5. /\ p \in Overlay /\ p.object = q.object /\ p.stateInherited = q.stateInherited
        /\ p.storageInherited = [q.storageInherited EXCEPT ![a] = @ \cup {k}]
        /\ p.dirtyCleared = q.dirtyCleared /\ p.committedCleared = q.committedCleared
        /\ p.touched = q.touched
    BY <1>4 DEF Overlay
  <1> HIDE DEF p
  <1>6. SlotOn(o, p, a, k, obj)
    BY <1>2, <1>5 DEF SlotOn, Puts
  <1> QED
    BY <1>3, <1>6 DEF obj

LEMMA SlotSound ==
  ASSUME NEW o \in Overlay, NEW w \in World, NEW rev \in BOOLEAN, NEW a \in Accounts,
         NEW k \in Keys, NEW obj, NEW p,
         Sound(o, w, rev), a \in o.stateInherited, k \notin o.storageInherited[a],
         SlotOn(o, p, a, k, obj),
         obj = IF RemoteStorage[a][k] = 0 THEN o.object[a]
               ELSE Written(o.object[a], k, RemoteStorage[a][k])
  PROVE  Sound(p, w, rev) /\ (Journalled(o) => Journalled(p))
  <1>1. Elsewhere(o, p, a)
    BY DEF SlotOn, Elsewhere, Same, Overlay
  <1>2. /\ p.object[a] = obj /\ a \in p.stateInherited
        /\ p.storageInherited[a] = o.storageInherited[a] \cup {k}
        /\ p.dirtyCleared[a] = o.dirtyCleared[a] /\ p.committedCleared[a] = o.committedCleared[a]
    BY DEF SlotOn, Overlay
  <1>3. SoundAt(o, w, rev, a) /\ Present(o, a)
    BY DEF Sound, SoundAt
  <1>4. o.object[a] \in Object /\ (~o.object[a].exists => o.object[a] = NoObject)
    BY <1>3 DEF Overlay, Present, Exist
  <1>5. RemoteStorage[a][k] \in Values
    BY Constants
  <1>6. /\ obj.info = o.object[a].info /\ obj.suicided = o.object[a].suicided
        /\ obj.settled = o.object[a].settled
        /\ obj = o.object[a] \/ obj.exists
        /\ RemoteStorage[a][k] # 0 => ValueOf(obj, k) = RemoteStorage[a][k]
        /\ \A j \in Keys \ {k} : obj.dirty[j] = o.object[a].dirty[j]
    BY <1>4, <1>5, WrittenFacts
  <1>7. Present(p, a)
    BY <1>2, <1>3, <1>6 DEF Present, Exist
  <1>8. ASSUME SoundInfo(o, w, a)
        PROVE  SoundInfo(p, w, a)
    BY <1>2, <1>6, <1>8 DEF SoundInfo
  <1>9. ASSUME SoundSlots(o, w, a)
        PROVE  SoundSlots(p, w, a)
    <2>1. ValueOf(obj, k) = w.storage[a][k]
      BY <1>6, <1>9 DEF SoundSlots, ValueOf
    <2>2. \A j \in Keys \ {k} : ValueOf(obj, j) = ValueOf(o.object[a], j)
      BY <1>6 DEF ValueOf
    <2>3. ASSUME NEW j \in Keys, j # k
          PROVE  IF j \in p.storageInherited[a] THEN ValueOf(p.object[a], j) = w.storage[a][j]
                 ELSE /\ p.object[a].dirty[j] = Unset /\ p.object[a].settled[j] = 0
                      /\ w.storage[a][j] = RemoteStorage[a][j]
      <3>1. p.object[a] = obj /\ (j \in p.storageInherited[a] <=> j \in o.storageInherited[a])
        BY <1>2, <2>3
      <3>2. IF j \in o.storageInherited[a] THEN ValueOf(o.object[a], j) = w.storage[a][j]
            ELSE /\ o.object[a].dirty[j] = Unset /\ o.object[a].settled[j] = 0
                 /\ w.storage[a][j] = RemoteStorage[a][j]
        BY <1>9 DEF SoundSlots
      <3>3. obj.dirty[j] = o.object[a].dirty[j] /\ obj.settled = o.object[a].settled
        BY <1>6, <2>3
      <3> QED
        BY <2>2, <2>3, <3>1, <3>2, <3>3
    <2>4. k \in p.storageInherited[a] /\ p.object[a] = obj /\ a \in p.stateInherited
      BY <1>2
    <2>5. w.info[a][ContractField] = 0 => w.storage[a] = NoStorage
      BY <1>9 DEF SoundSlots
    <2> QED
      BY <2>1, <2>3, <2>4, <2>5 DEF SoundSlots
  <1>10. ASSUME SoundSettled(o, w, a)
         PROVE  SoundSettled(p, w, a)
    <2>1. /\ p.object[a].settled = o.object[a].settled
          /\ o.storageInherited[a] \subseteq p.storageInherited[a]
          /\ p.dirtyCleared[a] = o.dirtyCleared[a] /\ p.committedCleared[a] = o.committedCleared[a]
      BY <1>2, <1>6
    <2> QED
      BY <1>10, <2>1 DEF SoundSettled
  <1>11. SoundAt(p, w, rev, a)
    BY <1>3, <1>7, <1>8, <1>9, <1>10 DEF SoundAt
  <1>12. \A b \in Accounts \ {a} : SameWorld(w, w, b)
    BY DEF SameWorld
  <1>13. Sound(p, w, rev)
    BY <1>1, <1>11, <1>12, SoundStep
  <1>14. Journalled(o) => Journalled(p)
    BY <1>1, <1>2 DEF Journalled, Elsewhere, Same, SlotOn
  <1> QED
    BY <1>13, <1>14

\* The request for slot k of an inherited account has been answered.
LEMMA InheritStorageSound ==
  ASSUME NEW o \in Overlay, NEW w \in World, NEW rev \in BOOLEAN, NEW a \in Accounts,
         NEW k \in Keys, Sound(o, w, rev), a \in o.stateInherited
  PROVE  LET p == InheritStorage(o, a, k, TRUE)
         IN  /\ p \in Overlay /\ Sound(p, w, rev) /\ a \in p.stateInherited
             /\ k \in p.storageInherited[a]
             /\ Journalled(o) => Journalled(p)
  <1>1. CASE k \in o.storageInherited[a]
    BY <1>1 DEF InheritStorage
  <1>2. CASE k \notin o.storageInherited[a]
    <2> DEFINE p == InheritStorage(o, a, k, TRUE)
               obj == IF RemoteStorage[a][k] = 0 THEN o.object[a]
                      ELSE Written(o.object[a], k, RemoteStorage[a][k])
    <2>1. SlotOn(o, p, a, k, obj)
      BY <1>2, InheritStorageWhole
    <2>2. PICK x : x = obj
      OBVIOUS
    <2>3. PICK q : q = p
      OBVIOUS
    <2>4. SlotOn(o, q, a, k, x)
      BY <2>1, <2>2, <2>3
    <2>5. Sound(q, w, rev) /\ (Journalled(o) => Journalled(q))
      BY <2>2, <2>4, <1>2, SlotSound
    <2>6. q \in Overlay /\ a \in q.stateInherited /\ k \in q.storageInherited[a]
      BY <2>4 DEF SlotOn, Overlay
    <2> QED
      BY <2>3, <2>5, <2>6
  <1> QED
    BY <1>1, <1>2

-----------------------------------------------------------------------------
(* The changes of a transaction.                                           *)

LEMMA SoundAll ==
  ASSUME NEW o, NEW p, NEW w, NEW u, NEW rev, Sound(o, w, rev),
         \A a \in Accounts : Same(o, p, a) /\ SameWorld(w, u, a)
  PROVE  Sound(p, u, rev)
  BY SoundSame DEF Sound

LEMMA SoundWeaker ==
  ASSUME NEW o, NEW w, NEW rev \in BOOLEAN, Sound(o, w, rev)
  PROVE  Sound(o, w, TRUE)
  BY DEF Sound, SoundAt

\* The object of an inherited account.
LEMMA ObjectFacts ==
  ASSUME NEW o \in Overlay, NEW w, NEW rev, NEW a \in Accounts, Sound(o, w, rev)
  PROVE  /\ SoundAt(o, w, rev, a) /\ Present(o, a)
         /\ o.object[a] \in Object
         /\ ~o.object[a].exists => o.object[a] = NoObject
  BY DEF Sound, SoundAt, Present, Exist, Overlay

LEMMA SetInfoSound ==
  ASSUME NEW o \in Overlay, NEW w \in World, NEW rev \in BOOLEAN, NEW a \in Accounts,
         NEW f \in FieldSet, NEW v \in Values, f # "balance" => v # 0,
         Sound(o, w, rev), a \in o.stateInherited
  PROVE  Sound(DbSetInfo(o, a, f, v), [w EXCEPT !.info[a][f] = v], rev)
  <1> DEFINE p == DbSetInfo(o, a, f, v)
             u == [w EXCEPT !.info[a][f] = v]
             obj == [Base(o.object[a]) EXCEPT !.info[f] = v]
  <1>1. Puts(o, p, a, obj)
    BY SetInfoPuts
  <1>2. /\ SoundAt(o, w, rev, a) /\ Present(o, a)
        /\ o.object[a] \in Object /\ (~o.object[a].exists => o.object[a] = NoObject)
    BY ObjectFacts
  <1>3. /\ Base(o.object[a]) \in Object /\ Base(o.object[a]).exists
        /\ Base(o.object[a]).info = o.object[a].info
        /\ Base(o.object[a]).suicided = o.object[a].suicided
        /\ Base(o.object[a]).dirty = o.object[a].dirty
        /\ Base(o.object[a]).settled = o.object[a].settled
    BY <1>2, BaseFacts
  <1>4. /\ obj.exists /\ obj.info = [o.object[a].info EXCEPT ![f] = v]
        /\ obj.suicided = o.object[a].suicided
        /\ obj.dirty = o.object[a].dirty /\ obj.settled = o.object[a].settled
    BY <1>3 DEF Object
  <1>5. /\ u.info[a] = [w.info[a] EXCEPT ![f] = v] /\ u.storage = w.storage
        /\ u.settled = w.settled /\ u.dead = w.dead
        /\ \A b \in Accounts \ {a} : u.info[b] = w.info[b]
        /\ w.info[a] \in [FieldSet -> Values]
    BY DEF World
  <1>6. u.info[a][ContractField] = 0 => w.info[a][ContractField] = 0
    BY <1>5, Constants
  <1> HIDE DEF p, u, obj
  <1>7. Elsewhere(o, p, a) /\ p.object[a] = obj
    BY <1>1, PutsElsewhere
  <1>8. /\ p.stateInherited = o.stateInherited /\ p.storageInherited = o.storageInherited
        /\ p.dirtyCleared = o.dirtyCleared /\ p.committedCleared = o.committedCleared
    BY <1>1 DEF Puts
  <1>9. Present(p, a)
    BY <1>4, <1>7, <1>8 DEF Present, Exist
  <1>10. SoundInfo(o, w, a) => SoundInfo(p, u, a)
    <2>1. u.info[a][ContractField] # 0 \/ w.info[a][ContractField] = 0
      BY <1>6
    <2> QED
      BY <2>1, <1>4, <1>5, <1>7, <1>8 DEF SoundInfo
  <1>11. SoundSlots(o, w, a) => SoundSlots(p, u, a)
    BY <1>4, <1>5, <1>6, <1>7, <1>8 DEF SoundSlots, ValueOf
  <1>12. SoundSettled(o, w, a) => SoundSettled(p, u, a)
    BY <1>4, <1>5, <1>6, <1>7, <1>8 DEF SoundSettled
  <1>13. SoundAt(p, u, rev, a)
    BY <1>2, <1>9, <1>10, <1>11, <1>12 DEF SoundAt
  <1>14. \A b \in Accounts \ {a} : SameWorld(w, u, b)
    BY <1>5 DEF SameWorld
  <1>15. Sound(p, u, rev)
    BY <1>7, <1>13, <1>14, SoundStep
  <1> QED
    BY <1>15 DEF p, u

LEMMA MarkClearedIs ==
  ASSUME NEW o \in Overlay, NEW a \in Accounts, NEW k \in Keys, NEW v \in Values
  PROVE  LET p == MarkCleared(o, a, k, v)
         IN  /\ p \in Overlay
             /\ p.object = o.object /\ p.stateInherited = o.stateInherited
             /\ p.storageInherited = o.storageInherited
             /\ p.dirtyCleared = [o.dirtyCleared EXCEPT ![a] =
                                    [@ EXCEPT ![k] = IF v = 0 THEN "true" ELSE "false"]]
             /\ p.committedCleared = o.committedCleared /\ p.touched = o.touched
  BY DEF MarkCleared, Overlay

LEMMA SetStateSound ==
  ASSUME NEW o \in Overlay, NEW w \in World, NEW rev \in BOOLEAN, NEW a \in Accounts,
         NEW k \in Keys, NEW v \in Values,
         Sound(o, w, rev), a \in o.stateInherited, k \in o.storageInherited[a],
         w.info[a][ContractField] # 0
  PROVE  Sound(MarkCleared(DbSetState(o, a, k, v), a, k, v), [w EXCEPT !.storage[a][k] = v], rev)
  <1> DEFINE q == DbSetState(o, a, k, v)
             p == MarkCleared(q, a, k, v)
             u == [w EXCEPT !.storage[a][k] = v]
             obj == Written(o.object[a], k, v)
             mark == IF v = 0 THEN "true" ELSE "false"
  <1>1. Puts(o, q, a, obj)
    BY SetStatePuts
  <1>2. /\ SoundAt(o, w, rev, a) /\ Present(o, a)
        /\ o.object[a] \in Object /\ (~o.object[a].exists => o.object[a] = NoObject)
    BY ObjectFacts
  <1>3. /\ obj.exists /\ obj.info = o.object[a].info
        /\ obj.suicided = o.object[a].suicided /\ obj.settled = o.object[a].settled
        /\ ValueOf(obj, k) = v
        /\ \A j \in Keys \ {k} : obj.dirty[j] = o.object[a].dirty[j]
    BY <1>2, WrittenFacts
  <1>4. /\ u.storage[a] = [w.storage[a] EXCEPT ![k] = v] /\ u.info = w.info
        /\ u.settled = w.settled /\ u.dead = w.dead
        /\ \A b \in Accounts \ {a} : u.storage[b] = w.storage[b]
        /\ w.storage[a] \in [Keys -> Values]
    BY DEF World
  <1>5. q \in Overlay
    BY <1>1 DEF Puts
  <1> HIDE DEF q, obj
  <1>6. /\ p.object = q.object /\ p.stateInherited = q.stateInherited
        /\ p.storageInherited = q.storageInherited
        /\ p.dirtyCleared = [q.dirtyCleared EXCEPT ![a] = [@ EXCEPT ![k] = mark]]
        /\ p.committedCleared = q.committedCleared
    BY <1>5, MarkClearedIs
  <1> HIDE DEF p, u
  <1>7. /\ p.object[a] = obj /\ p.stateInherited = o.stateInherited
        /\ p.storageInherited = o.storageInherited
        /\ p.dirtyCleared[a] = [o.dirtyCleared[a] EXCEPT ![k] = mark]
        /\ o.dirtyCleared[a] \in [Keys -> {"none", "true", "false"}]
        /\ p.committedCleared = o.committedCleared
    BY <1>1, <1>6 DEF Puts, Overlay
  <1>8. Elsewhere(o, p, a)
    BY <1>1, <1>6 DEF Puts, Overlay, Elsewhere, Same
  <1>9. Present(p, a)
    BY <1>3, <1>7 DEF Present, Exist
  <1>10. SoundInfo(o, w, a) => SoundInfo(p, u, a)
    BY <1>3, <1>4, <1>7 DEF SoundInfo
  <1>11. SoundSlots(o, w, a) => SoundSlots(p, u, a)
    <2>1. \A j \in Keys \ {k} : ValueOf(obj, j) = ValueOf(o.object[a], j)
      BY <1>3 DEF ValueOf
    <2> QED
      BY <2>1, <1>3, <1>4, <1>7 DEF SoundSlots
  <1>12. SoundSettled(o, w, a) => SoundSettled(p, u, a)
    <2> SUFFICES ASSUME SoundSettled(o, w, a) PROVE SoundSettled(p, u, a)
      OBVIOUS
    <2>1. ASSUME NEW j \in Keys, u.storage[a][j] = 0, RemoteStorage[a][j] # 0
          PROVE  p.dirtyCleared[a][j] = "true"
      BY <2>1, <1>4, <1>7 DEF SoundSettled
    <2>2. ASSUME NEW j \in Keys, j \notin p.storageInherited[a]
          PROVE  p.dirtyCleared[a][j] = "none" /\ j \notin p.committedCleared[a]
      BY <2>2, <1>7 DEF SoundSettled
    <2> QED
      BY <2>1, <2>2, <1>3, <1>4, <1>7 DEF SoundSettled
  <1>13. SoundAt(p, u, rev, a)
    BY <1>2, <1>9, <1>10, <1>11, <1>12 DEF SoundAt
  <1>14. \A b \in Accounts \ {a} : SameWorld(w, u, b)
    BY <1>4 DEF SameWorld
  <1>15. Sound(p, u, rev)
    BY <1>8, <1>13, <1>14, SoundStep
  <1> QED
    BY <1>15 DEF p, u, q

LEMMA SuicideSound ==
  ASSUME NEW o \in Overlay, NEW w \in World, NEW rev \in BOOLEAN, NEW a \in Accounts,
         a \in Mortal, Sound(o, w, rev), a \in o.stateInherited,
         w.info[a][ContractField] # 0
  PROVE  Sound(DbSuicide(o, a),
               [w EXCEPT !.dead = @ \cup {a}, !.info[a]["balance"] = 0], rev)
  <1> DEFINE p == DbSuicide(o, a)
             u == [w EXCEPT !.dead = @ \cup {a}, !.info[a]["balance"] = 0]
             obj == IF o.object[a].exists THEN Destructed(o.object[a]) ELSE o.object[a]
  <1>1. Puts(o, p, a, obj)
    BY SuicidePuts
  <1>2. /\ SoundAt(o, w, rev, a) /\ Present(o, a)
        /\ o.object[a] \in Object /\ (~o.object[a].exists => o.object[a] = NoObject)
    BY ObjectFacts
  <1>3. /\ obj.exists = o.object[a].exists
        /\ obj.dirty = o.object[a].dirty /\ obj.settled = o.object[a].settled
        /\ ~o.object[a].exists => obj = NoObject
        /\ o.object[a].exists =>
             obj.suicided /\ obj.info = [o.object[a].info EXCEPT !["balance"] = 0]
    BY <1>2 DEF Object, Destructed
  <1>4. /\ u.info[a] = [w.info[a] EXCEPT !["balance"] = 0] /\ u.storage = w.storage
        /\ u.settled = w.settled /\ u.dead = w.dead \cup {a}
        /\ \A b \in Accounts \ {a} : u.info[b] = w.info[b]
        /\ w.info[a] \in [FieldSet -> Values]
    BY DEF World
  <1>5. u.info[a][ContractField] = w.info[a][ContractField]
    BY <1>4, Constants
  <1> HIDE DEF p, u, obj
  <1>6. Elsewhere(o, p, a) /\ p.object[a] = obj
    BY <1>1, PutsElsewhere
  <1>7. /\ p.stateInherited = o.stateInherited /\ p.storageInherited = o.storageInherited
        /\ p.dirtyCleared = o.dirtyCleared /\ p.committedCleared = o.committedCleared
    BY <1>1 DEF Puts
  <1>8. Present(p, a)
    BY <1>3, <1>6, <1>7 DEF Present, Exist
  <1>9. SoundInfo(o, w, a) => SoundInfo(p, u, a)
    <2> SUFFICES ASSUME SoundInfo(o, w, a) PROVE SoundInfo(p, u, a)
      OBVIOUS
    <2>1. o.object[a].exists
      <3>1. NoInfo[ContractField] = 0
        BY Constants DEF NoInfo
      <3>2. w.info[a] = o.object[a].info
        BY DEF SoundInfo
      <3> QED
        BY <3>1, <3>2, <1>2, NoObjectFacts
    <2> QED
      BY <2>1, <1>3, <1>4, <1>5, <1>6, <1>7 DEF SoundInfo
  <1>10. SoundSlots(o, w, a) => SoundSlots(p, u, a)
    BY <1>3, <1>4, <1>5, <1>6, <1>7 DEF SoundSlots, ValueOf
  <1>11. SoundSettled(o, w, a) => SoundSettled(p, u, a)
    BY <1>3, <1>4, <1>5, <1>6, <1>7 DEF SoundSettled
  <1>12. SoundAt(p, u, rev, a)
    BY <1>2, <1>8, <1>9, <1>10, <1>11 DEF SoundAt
  <1>13. \A b \in Accounts \ {a} : SameWorld(w, u, b)
    BY <1>4 DEF SameWorld
  <1>14. Sound(p, u, rev)
    BY <1>6, <1>12, <1>13, SoundStep
  <1> QED
    BY <1>14 DEF p, u

LEMMA CreateSound ==
  ASSUME NEW o \in Overlay, NEW w \in World, NEW rev \in BOOLEAN, NEW a \in Accounts,
         a \in Mortal, Sound(o, w, rev), a \in o.stateInherited,
         \A f \in FieldSet \ {"balance"} : w.info[a][f] = 0
  PROVE  Sound(DbCreate(o, a),
               [w EXCEPT !.info[a][ContractField] = 1, !.storage[a] = NoStorage], rev)
  <1> DEFINE p == DbCreate(o, a)
             u == [w EXCEPT !.info[a][ContractField] = 1, !.storage[a] = NoStorage]
             obj == Created(o.object[a])
  <1>1. Puts(o, p, a, obj)
    BY CreatePuts
  <1>2. SoundAt(o, w, rev, a) /\ o.object[a] \in Object
    BY ObjectFacts
  <1>3. /\ obj.exists /\ ~obj.suicided
        /\ \A k \in Keys : obj.dirty[k] = Unset /\ obj.settled[k] = 0
        /\ obj.info = [NoInfo EXCEPT !["balance"] = o.object[a].info["balance"],
                                     ![ContractField] = 1]
    BY DEF Created, NoObject, NoStorage
  <1>4. /\ u.info[a] = [w.info[a] EXCEPT ![ContractField] = 1] /\ u.storage[a] = NoStorage
        /\ u.settled = w.settled /\ u.dead = w.dead
        /\ \A b \in Accounts \ {a} : u.info[b] = w.info[b] /\ u.storage[b] = w.storage[b]
        /\ w.info[a] \in [FieldSet -> Values]
    BY DEF World
  <1>5. u.info[a][ContractField] = 1 /\ w.info[a][ContractField] = 0
    BY <1>4, Constants
  <1> HIDE DEF p, u, obj
  <1>6. Elsewhere(o, p, a) /\ p.object[a] = obj
    BY <1>1, PutsElsewhere
  <1>7. /\ p.stateInherited = o.stateInherited /\ p.storageInherited = o.storageInherited
        /\ p.dirtyCleared = o.dirtyCleared /\ p.committedCleared = o.committedCleared
    BY <1>1 DEF Puts
  <1>8. Present(p, a)
    BY <1>3, <1>6, <1>7 DEF Present, Exist
  <1>9. SoundInfo(o, w, a) => SoundInfo(p, u, a)
    <2> SUFFICES ASSUME SoundInfo(o, w, a) PROVE SoundInfo(p, u, a)
      OBVIOUS
    <2>1. w.info[a] = o.object[a].info
      BY DEF SoundInfo
    <2>2. w.info[a] = [NoInfo EXCEPT !["balance"] = w.info[a]["balance"]]
      BY <1>4, Constants DEF NoInfo
    <2>3. u.info[a] = obj.info
      <3>1. [w.info[a] EXCEPT ![ContractField] = 1] =
              [NoInfo EXCEPT !["balance"] = w.info[a]["balance"], ![ContractField] = 1]
        BY <2>2
      <3> QED
        BY <3>1, <2>1, <1>3, <1>4
    <2>4. a \notin w.dead
      BY <1>5 DEF SoundInfo
    <2> QED
      BY <2>3, <2>4, <1>3, <1>4, <1>6, <1>7 DEF SoundInfo
  <1>10. ASSUME SoundSlots(o, w, a), Keeps(a)
         PROVE  SoundSlots(p, u, a)
    <2>1. \A k \in Keys : /\ ValueOf(obj, k) = 0 /\ u.storage[a][k] = 0
                          /\ RemoteStorage[a][k] = 0
      BY <1>3, <1>4, <1>10 DEF ValueOf, NoStorage, Keeps
    <2> QED
      BY <2>1, <1>3, <1>4, <1>6, <1>7 DEF SoundSlots
  <1>11. ASSUME SoundSettled(o, w, a), Keeps(a)
         PROVE  SoundSettled(p, u, a)
    <2>1. \A k \in Keys : w.settled[a][k] = 0 /\ RemoteStorage[a][k] = 0
      BY <1>5, <1>11 DEF SoundSettled, NoStorage, Keeps
    <2> QED
      BY <2>1, <1>3, <1>4, <1>5, <1>6, <1>7, <1>11 DEF SoundSettled
  <1>12. SoundAt(p, u, rev, a)
    BY <1>2, <1>8, <1>9, <1>10, <1>11 DEF SoundAt
  <1>13. \A b \in Accounts \ {a} : SameWorld(w, u, b)
    BY <1>4 DEF SameWorld
  <1>14. Sound(p, u, rev)
    BY <1>6, <1>12, <1>13, SoundStep
  <1> QED
    BY <1>14 DEF p, u

-----------------------------------------------------------------------------
(* The end of a transaction.                                               *)

\* What Finalise makes of an object in the journal.
Done(obj) ==
  IF obj.suicided \/ obj.info = NoInfo THEN NoObject
  ELSE [obj EXCEPT
         !.settled = [k \in Keys |-> IF obj.dirty[k] = Unset THEN @[k] ELSE obj.dirty[k]],
         !.dirty = [k \in Keys |-> Unset]]

LEMMA DoneFacts ==
  ASSUME NEW obj \in Object, obj.exists
  PROVE  LET x == Done(obj)
         IN  /\ x \in Object /\ ~Loose(x)
             /\ IF obj.suicided \/ obj.info = NoInfo THEN x = NoObject
                ELSE /\ x.exists /\ x.info = obj.info /\ ~x.suicided
                     /\ \A k \in Keys : ValueOf(x, k) = ValueOf(obj, k)
             /\ \A k \in Keys : x.dirty[k] = Unset
             /\ \A k \in Keys : obj.dirty[k] = Unset /\ obj.settled[k] = 0 => x.settled[k] = 0
  <1>1. CASE obj.suicided \/ obj.info = NoInfo
    BY <1>1, NoObjectType, NoObjectFacts DEF Done, Loose
  <1>2. CASE ~(obj.suicided \/ obj.info = NoInfo)
    <2> DEFINE s == [k \in Keys |-> IF obj.dirty[k] = Unset THEN obj.settled[k]
                                    ELSE obj.dirty[k]]
               d == [k \in Keys |-> Unset]
    <2>1. Done(obj) = [obj EXCEPT !.settled = s, !.dirty = d]
      BY <1>2 DEF Done, Object
    <2>2. s \in [Keys -> Values] /\ d \in [Keys -> Slot]
      BY Constants DEF Object, Slot
    <2>3. /\ \A k \in Keys : s[k] = ValueOf(obj, k) /\ d[k] = Unset
          /\ \A k \in Keys : obj.dirty[k] = Unset => s[k] = obj.settled[k]
      BY DEF ValueOf
    <2> HIDE DEF s, d
    <2> DEFINE x == [obj EXCEPT !.settled = s, !.dirty = d]
    <2>4. /\ x \in Object /\ x.exists = obj.exists /\ x.info = obj.info
          /\ x.suicided = obj.suicided /\ x.settled = s /\ x.dirty = d
      BY <2>2 DEF Object
    <2> HIDE DEF x
    <2>5. \A k \in Keys : ValueOf(x, k) = ValueOf(obj, k)
      BY <2>3, <2>4 DEF ValueOf
    <2>6. ~Loose(x)
      BY <1>2, <2>3, <2>4 DEF Loose
    <2>7. /\ x \in Object /\ ~Loose(x)
          /\ x.exists /\ x.info = obj.info /\ ~x.suicided
          /\ \A k \in Keys : ValueOf(x, k) = ValueOf(obj, k)
          /\ \A k \in Keys : x.dirty[k] = Unset
          /\ \A k \in Keys : obj.dirty[k] = Unset /\ obj.settled[k] = 0 => x.settled[k] = 0
      BY <1>2, <2>3, <2>4, <2>5, <2>6
    <2>8. Done(obj) = x
      BY <2>1 DEF x
    <2> QED
      BY <1>2, <2>7, <2>8
  <1> QED
    BY <1>1, <1>2

FinaliseOn(o, p) ==
  /\ p \in Overlay
  /\ \A a \in Accounts :
       /\ p.object[a] = IF a \in o.touched /\ o.object[a].exists THEN Done(o.object[a])
                        ELSE o.object[a]
       /\ p.committedCleared[a] =
            {k \in Keys : \/ o.dirtyCleared[a][k] = "true"
                          \/ o.dirtyCleared[a][k] = "none" /\ k \in o.committedCleared[a]}
  /\ p.stateInherited = o.stateInherited /\ p.storageInherited = o.storageInherited
  /\ p.dirtyCleared = o.dirtyCleared

LEMMA FinaliseIs ==
  ASSUME NEW o \in Overlay
  PROVE  FinaliseOn(o, Finalise(o))
  <1> DEFINE objects == [a \in Accounts |->
                IF a \in o.touched /\ o.object[a].exists THEN Done(o.object[a])
                ELSE o.object[a]]
             q == [o EXCEPT !.object = objects, !.touched = {}]
             cleared == [a \in Accounts |->
                {k \in Keys : \/ o.dirtyCleared[a][k] = "true"
                              \/ o.dirtyCleared[a][k] = "none" /\ k \in o.committedCleared[a]}]
             p == [q EXCEPT !.committedCleared = cleared]
  <1>1. \A a \in Accounts : o.object[a] \in Object
    BY DEF Overlay
  <1>2. objects \in [Accounts -> Object]
    BY <1>1, DoneFacts
  <1>3. cleared \in [Accounts -> SUBSET Keys]
    OBVIOUS
  <1>4. DbFinalise(o) = q
    BY DEF DbFinalise, Done, Exist, Overlay
  <1>5. q.dirtyCleared = o.dirtyCleared /\ q.committedCleared = o.committedCleared
    BY DEF Overlay
  <1>6. Finalise(o) = p
    BY <1>4, <1>5 DEF Finalise
  <1> HIDE DEF objects, cleared
  <1>7. /\ p \in Overlay /\ p.object = objects /\ p.committedCleared = cleared
        /\ p.stateInherited = o.stateInherited /\ p.storageInherited = o.storageInherited
        /\ p.dirtyCleared = o.dirtyCleared
    BY <1>2, <1>3 DEF Overlay
  <1> HIDE DEF p, q
  <1>8. FinaliseOn(o, p)
    BY <1>7 DEF FinaliseOn, objects, cleared
  <1> QED
    BY <1>6, <1>8

\* What EvmFinish makes of a world.
Finished(w, u) ==
  /\ u.dead = {}
  /\ \A a \in Accounts :
       LET gone == a \in w.dead \/ w.info[a] = NoInfo
       IN  /\ u.info[a] = IF gone THEN NoInfo ELSE w.info[a]
           /\ u.storage[a] = IF gone THEN NoStorage ELSE w.storage[a]
           /\ u.settled[a] = u.storage[a]

LEMMA FinishAt ==
  ASSUME NEW o \in Overlay, NEW p, NEW w \in World, NEW u, NEW rev \in BOOLEAN,
         NEW a \in Accounts,
         Sound(o, w, rev), ~rev => Journalled(o), FinaliseOn(o, p), Finished(w, u)
  PROVE  SoundAt(p, u, rev, a) /\ (~rev => ~Loose(p.object[a]))
  <1> DEFINE x == o.object[a]
             y == p.object[a]
             gone == a \in w.dead \/ w.info[a] = NoInfo
  <1>1. /\ SoundAt(o, w, rev, a) /\ Present(o, a)
        /\ x \in Object /\ (~x.exists => x = NoObject)
    BY ObjectFacts
  <1>2. /\ y = IF a \in o.touched /\ x.exists THEN Done(x) ELSE x
        /\ p.committedCleared[a] =
             {k \in Keys : \/ o.dirtyCleared[a][k] = "true"
                           \/ o.dirtyCleared[a][k] = "none" /\ k \in o.committedCleared[a]}
        /\ p.stateInherited = o.stateInherited /\ p.storageInherited = o.storageInherited
        /\ p.dirtyCleared = o.dirtyCleared
    BY DEF FinaliseOn
  <1>3. /\ u.info[a] = IF gone THEN NoInfo ELSE w.info[a]
        /\ u.storage[a] = IF gone THEN NoStorage ELSE w.storage[a]
        /\ u.settled[a] = u.storage[a] /\ a \notin u.dead
    BY DEF Finished
  <1>4. x.exists => /\ Done(x) \in Object /\ ~Loose(Done(x))
                    /\ IF x.suicided \/ x.info = NoInfo THEN Done(x) = NoObject
                       ELSE /\ Done(x).exists /\ Done(x).info = x.info /\ ~Done(x).suicided
                            /\ \A k \in Keys : ValueOf(Done(x), k) = ValueOf(x, k)
                    /\ \A k \in Keys : Done(x).dirty[k] = Unset
                    /\ \A k \in Keys : x.dirty[k] = Unset /\ x.settled[k] = 0
                                         => Done(x).settled[k] = 0
    BY <1>1, DoneFacts
  <1>5. NoInfo[ContractField] = 0 /\ \A k \in Keys : NoStorage[k] = 0
    BY Constants DEF NoInfo, NoStorage
  <1>6. /\ ~NoObject.suicided /\ NoObject.info = NoInfo /\ ~NoObject.exists
        /\ ~Loose(NoObject)
        /\ \A k \in Keys : /\ NoObject.dirty[k] = Unset /\ NoObject.settled[k] = 0
                           /\ ValueOf(NoObject, k) = 0
    BY NoObjectFacts DEF Loose, ValueOf
  <1> HIDE DEF x, y, gone
  \* Destructed accounts are deleted: they are in the journal.
  <1>7. ~rev => (x.suicided => x.exists /\ a \in o.touched)
    BY <1>1, <1>6 DEF Journalled, Loose, x
  <1>8. ~rev => ~Loose(y)
    <2>1. ~rev /\ ~(a \in o.touched) => ~Loose(x)
      BY DEF Journalled, x
    <2>2. ~x.exists => ~Loose(x)
      BY <1>1, <1>6
    <2> QED
      BY <2>1, <2>2, <1>2, <1>4
  <1>9. Present(p, a)
    BY <1>1, <1>2, <1>4, <1>6 DEF Present, Exist, x, y
  <1> DEFINE trusted == ~rev \/ a \notin Mortal
  <1>10. ASSUME trusted
         PROVE  /\ SoundInfo(o, w, a)
                /\ x.suicided => x.exists /\ a \in o.touched
                /\ x.suicided <=> a \in w.dead
                /\ a \in o.stateInherited => w.info[a] = x.info
                /\ a \notin o.stateInherited => x = NoObject /\ w.info[a] = RemoteInfo[a]
                /\ gone <=> x.suicided \/ w.info[a] = NoInfo
    <2>1. SoundInfo(o, w, a)
      BY <1>1, <1>10 DEF SoundAt
    <2>2. a \notin Mortal => ~x.suicided
      BY <2>1 DEF SoundInfo, x
    <2>3. a \notin o.stateInherited => x = NoObject
      BY <1>1 DEF Present, Exist, x
    <2> QED
      BY <2>1, <2>2, <2>3, <1>7, <1>10 DEF SoundInfo, x, gone
  <1>11. ASSUME trusted
         PROVE  SoundInfo(p, u, a)
    <2>1. ~y.suicided
      BY <1>2, <1>4, <1>6, <1>10, <1>11
    <2>2. CASE a \in o.stateInherited
      <3>1. u.info[a] = y.info
        BY <2>2, <1>1, <1>2, <1>3, <1>4, <1>6, <1>10, <1>11
      <3> QED
        BY <3>1, <2>1, <2>2, <1>2, <1>3 DEF SoundInfo, y
    <2>3. CASE a \notin o.stateInherited
      <3>1. u.info[a] = RemoteInfo[a]
        BY <2>3, <1>3, <1>6, <1>10, <1>11
      <3> QED
        BY <3>1, <2>1, <2>3, <1>2, <1>3 DEF SoundInfo, y
    <2> QED
      BY <2>2, <2>3
  <1>12. ASSUME trusted, Keeps(a), SoundSlots(o, w, a)
         PROVE  /\ SoundSlots(p, u, a)
                /\ \A k \in Keys : /\ u.storage[a][k] = 0 /\ RemoteStorage[a][k] # 0
                                      => w.storage[a][k] = 0
                                   /\ k \in o.storageInherited[a]
                                        => ValueOf(y, k) = u.storage[a][k]
                                   /\ k \notin o.storageInherited[a]
                                        => /\ y.dirty[k] = Unset /\ y.settled[k] = 0
                                           /\ u.storage[a][k] = RemoteStorage[a][k]
                /\ u.info[a][ContractField] = 0 => u.storage[a] = NoStorage
    <2>1. w.info[a] = NoInfo => w.storage[a] = NoStorage
      BY <1>5, <1>12 DEF SoundSlots
    <2>2. x.suicided => RemoteStorage[a] = NoStorage
      BY <1>10, <1>12 DEF SoundInfo, Keeps
    <2>3. u.info[a][ContractField] = 0 => u.storage[a] = NoStorage
      BY <1>3, <1>12 DEF SoundSlots
    <2>4. ASSUME NEW k \in Keys, u.storage[a][k] = 0, RemoteStorage[a][k] # 0
          PROVE  w.storage[a][k] = 0
      BY <2>1, <2>2, <2>4, <1>3, <1>5, <1>10, <1>12
    <2>5. ASSUME NEW k \in Keys, k \in o.storageInherited[a]
          PROVE  ValueOf(y, k) = u.storage[a][k]
      <3>1. ValueOf(x, k) = w.storage[a][k]
        BY <2>5, <1>12 DEF SoundSlots, x
      <3>2. CASE x.suicided
        BY <3>2, <1>2, <1>3, <1>4, <1>5, <1>6, <1>10, <1>12
      <3>3. CASE ~x.suicided /\ w.info[a] = NoInfo
        <4>1. u.storage[a][k] = 0 /\ w.storage[a][k] = 0
          BY <3>3, <2>1, <1>3, <1>5
        <4> QED
          BY <4>1, <3>1, <3>3, <1>2, <1>4, <1>6
      <3>4. CASE ~x.suicided /\ w.info[a] # NoInfo
        <4>1. u.storage[a][k] = w.storage[a][k]
          BY <3>4, <1>3, <1>10, <1>12
        <4>2. x.exists => x.info # NoInfo
          BY <3>4, <1>6, <1>10, <1>12
        <4> QED
          BY <4>1, <4>2, <3>1, <3>4, <1>2, <1>4
      <3> QED
        BY <3>2, <3>3, <3>4
    <2>6. ASSUME NEW k \in Keys, k \notin o.storageInherited[a]
          PROVE  /\ y.dirty[k] = Unset /\ y.settled[k] = 0
                 /\ u.storage[a][k] = RemoteStorage[a][k]
      <3>1. x.dirty[k] = Unset /\ x.settled[k] = 0 /\ w.storage[a][k] = RemoteStorage[a][k]
        BY <2>6, <1>12 DEF SoundSlots, x
      <3>2. u.storage[a][k] = RemoteStorage[a][k]
        BY <3>1, <2>1, <2>2, <1>3, <1>5, <1>10, <1>12
      <3> QED
        BY <3>1, <3>2, <1>2, <1>4
    <2>7. SoundSlots(p, u, a)
      BY <2>3, <2>5, <2>6, <1>2, <1>12 DEF SoundSlots, y
    <2> QED
      BY <2>3, <2>4, <2>5, <2>6, <2>7
  <1>13. ASSUME ~rev, Keeps(a), SoundSlots(o, w, a), SoundSettled(o, w, a)
         PROVE  SoundSettled(p, u, a)
    <2>1. trusted
      BY <1>13
    <2>2. ASSUME NEW k \in Keys
          PROVE  /\ u.settled[a][k] =
                      IF y.settled[k] = 0 /\ k \notin p.committedCleared[a]
                      THEN RemoteStorage[a][k] ELSE y.settled[k]
                 /\ k \notin p.storageInherited[a] =>
                      p.dirtyCleared[a][k] = "none" /\ k \notin p.committedCleared[a]
                 /\ u.storage[a][k] = 0 /\ RemoteStorage[a][k] # 0
                      => p.dirtyCleared[a][k] = "true"
      <3>1. y.dirty[k] = Unset
        BY <1>8, <1>13 DEF Loose
      <3>2. u.storage[a][k] = 0 /\ RemoteStorage[a][k] # 0 => p.dirtyCleared[a][k] = "true"
        BY <2>1, <1>2, <1>12, <1>13 DEF SoundSettled
      <3>3. k \notin p.storageInherited[a] =>
              p.dirtyCleared[a][k] = "none" /\ k \notin p.committedCleared[a]
        BY <1>2, <1>13 DEF SoundSettled
      <3>4. CASE k \in o.storageInherited[a]
        <4>1. y.settled[k] = u.storage[a][k]
          BY <3>1, <3>4, <2>1, <1>12, <1>13 DEF ValueOf
        <4>2. p.dirtyCleared[a][k] = "true" => k \in p.committedCleared[a]
          BY <1>2
        <4> QED
          BY <4>1, <4>2, <3>2, <3>3, <1>3
      <3>5. CASE k \notin o.storageInherited[a]
        <4>1. y.settled[k] = 0 /\ u.storage[a][k] = RemoteStorage[a][k]
          BY <3>5, <2>1, <1>12, <1>13
        <4>2. k \notin p.committedCleared[a]
          BY <3>3, <3>5, <1>2
        <4> QED
          BY <4>1, <4>2, <3>2, <3>3, <1>3
      <3> QED
        BY <3>4, <3>5
    <2>3. u.info[a][ContractField] = 0 => u.settled[a] = NoStorage
      BY <2>1, <1>3, <1>12, <1>13
    <2> QED
      BY <2>2, <2>3 DEF SoundSettled, y
  <1>14. SoundAt(p, u, rev, a)
    BY <1>1, <1>9, <1>11, <1>12, <1>13 DEF SoundAt
  <1> QED
    BY <1>8, <1>14 DEF y

LEMMA FinishSound ==
  ASSUME NEW o \in Overlay, NEW p, NEW w \in World, NEW u, NEW rev \in BOOLEAN,
         Sound(o, w, rev), ~rev => Journalled(o), FinaliseOn(o, p), Finished(w, u)
  PROVE  Sound(p, u, rev) /\ (~rev => Clean(p))
  BY FinishAt DEF Sound, Clean

-----------------------------------------------------------------------------
(* The invariant.                                                          *)

\* The running frame.
CurrentSound == lastErr \/ Sound(overlay, world, reverted)

\* What frame i would go back to.
SavedSound ==
  \A i \in 1 .. Depth :
    saved[i].lastErr \/ Sound(saved[i].overlay, worlds[i], reverted)

\* What Finalise has to visit it will visit, and a transaction begins with nothing to
\* visit.
JournalKept ==
  ~reverted =>
    /\ lastErr \/ Journalled(overlay)
    /\ ~Running => lastErr \/ Clean(overlay)
    /\ Running => saved[1].lastErr \/ Clean(saved[1].overlay)

\* A failure is remembered while no call of its transaction is undone.
FailureKept == Running /\ failed /\ ~undone => lastErr

ForkedInv == TypeOK /\ CurrentSound /\ SavedSound /\ JournalKept /\ FailureKept

Snap == [overlay : Overlay, lastErr : BOOLEAN]

LEMMA DepthType == TypeOK => Depth \in Nat /\ (Running <=> Depth > 0) /\ Len(saved) = Depth
  <1> SUFFICES ASSUME TypeOK PROVE Depth \in Nat /\ (Running <=> Depth > 0)
    BY DEF TypeOK
  <1>1. worlds \in Seq(World)
    BY DEF TypeOK, EvmTypeOK
  <1> QED
    BY <1>1, EmptySeq DEF Depth, Running

\* What Requests does, if bad says whether one failed.
Answered(bad) ==
  /\ lastErr' \in BOOLEAN /\ failed' \in BOOLEAN /\ faults' \in 0 .. MaxFaults
  /\ lastErr' <=> lastErr \/ bad
  /\ failed' <=> failed \/ bad

LEMMA RequestsType ==
  ASSUME TypeOK, NEW bad \in BOOLEAN, Requests(bad)
  PROVE  Answered(bad)
  BY BoundsAssumption DEF Requests, TypeOK, Answered

LEMMA WorldTypes ==
  ASSUME NEW w \in World, NEW a \in Accounts, NEW v \in Values
  PROVE  /\ \A f \in FieldSet : [w EXCEPT !.info[a][f] = v] \in World
         /\ \A k \in Keys : [w EXCEPT !.storage[a][k] = v] \in World
         /\ [w EXCEPT !.dead = @ \cup {a}, !.info[a]["balance"] = 0] \in World
         /\ [w EXCEPT !.warm = @ \cup {a}] \in World
         /\ [w EXCEPT !.info[a][ContractField] = 1, !.storage[a] = NoStorage] \in World
         /\ [w EXCEPT !.warm = {}] \in World
  BY Constants DEF World

LEMMA FirstWorld ==
  [info |-> RemoteInfo, storage |-> RemoteStorage, settled |-> RemoteStorage,
   dead |-> {}, warm |-> {}] \in World
  BY Constants DEF World

LEMMA FinishedWorld ==
  ASSUME world \in World, EvmFinish
  PROVE  world' \in World /\ Finished(world, world')
  <1> DEFINE info == [a \in Accounts |-> IF Gone(a) THEN NoInfo ELSE world.info[a]]
             storage == [a \in Accounts |-> IF Gone(a) THEN NoStorage ELSE world.storage[a]]
  <1>1. /\ info \in [Accounts -> [FieldSet -> Values]]
        /\ storage \in [Accounts -> [Keys -> Values]]
    BY Constants DEF World
  <1>2. world' = [world EXCEPT !.info = info, !.storage = storage, !.settled = storage,
                               !.dead = {}]
    BY DEF EvmFinish
  <1>3. \A a \in Accounts :
          LET gone == a \in world.dead \/ world.info[a] = NoInfo
          IN  /\ info[a] = IF gone THEN NoInfo ELSE world.info[a]
              /\ storage[a] = IF gone THEN NoStorage ELSE world.storage[a]
    BY DEF Gone
  <1> HIDE DEF info, storage
  <1>4. /\ world' \in World /\ world'.info = info /\ world'.storage = storage
        /\ world'.settled = storage /\ world'.dead = {}
    BY <1>1, <1>2 DEF World
  <1> QED
    BY <1>3, <1>4 DEF Finished

\* An operation that changes the state and leaves the frames alone.
LEMMA OperationKeeps ==
  ASSUME ForkedInv, Operation, UNCHANGED <<worlds, saved>>,
         overlay' \in Overlay, world' \in World, accessList' \subseteq Accounts,
         lastErr' \in BOOLEAN, failed' \in BOOLEAN, faults' \in 0 .. MaxFaults,
         failed' => failed \/ lastErr', lastErr => lastErr',
         lastErr' \/ Sound(overlay', world', reverted),
         reverted \/ lastErr' \/ Journalled(overlay')
  PROVE  ForkedInv'
  <1>1. /\ TypeOK /\ Running /\ ops' = ops + 1 /\ ops < MaxOps
        /\ UNCHANGED <<txs, calls, undone, reverted, Depth>>
    BY DEF ForkedInv, Operation, Depth
  <1>2. ops' \in 0 .. MaxOps
    BY <1>1, BoundsAssumption DEF TypeOK
  <1>3. TypeOK'
    BY <1>1, <1>2 DEF TypeOK, EvmTypeOK, Depth
  <1>4. CurrentSound'
    BY <1>1 DEF CurrentSound
  <1>5. SavedSound'
    BY <1>1 DEF ForkedInv, SavedSound
  <1>6. JournalKept'
    BY <1>1 DEF ForkedInv, JournalKept, Running
  <1>7. FailureKept'
    BY <1>1 DEF ForkedInv, FailureKept
  <1> QED
    BY <1>3, <1>4, <1>5, <1>6, <1>7 DEF ForkedInv

LEMMA FetchesType ==
  ASSUME NEW a \in Accounts
  PROVE  Fetches(a) \in Nat /\ Fetches(a) <= Len(Fields)
  BY Constants DEF Fetches

LEMMA InheritsAccount ==
  ASSUME ForkedInv, NEW a \in Accounts, NEW n \in 0 .. Fetches(a)
  PROVE  /\ n \in 0 .. Len(Fields)
         /\ InheritAccount(overlay, a, n) \in Overlay
         /\ ~lastErr /\ ~(n < Fetches(a)) =>
              /\ Sound(InheritAccount(overlay, a, n), world, reverted)
              /\ a \in InheritAccount(overlay, a, n).stateInherited
              /\ reverted \/ Journalled(InheritAccount(overlay, a, n))
  <1>1. /\ overlay \in Overlay /\ world \in World /\ reverted \in BOOLEAN /\ TypeOK
    BY DEF ForkedInv, TypeOK, EvmTypeOK
  <1>2. n \in 0 .. Len(Fields)
    BY Constants DEF Fetches
  <1>3. ASSUME ~lastErr, ~(n < Fetches(a))
        PROVE  /\ Sound(InheritAccount(overlay, a, n), world, reverted)
               /\ a \in InheritAccount(overlay, a, n).stateInherited
               /\ reverted \/ Journalled(InheritAccount(overlay, a, n))
    <2>1. Sound(overlay, world, reverted) /\ (reverted \/ Journalled(overlay))
      BY <1>3 DEF ForkedInv, CurrentSound, JournalKept
    <2>2. a \in overlay.stateInherited \/ Exist(overlay, a) \/ n = Len(Fields)
      BY <1>2, <1>3, Constants DEF Fetches
    <2> QED
      BY <1>1, <1>2, <2>1, <2>2, InheritAccountSound
  <1> QED
    BY <1>1, <1>2, <1>3, PartialType

LEMMA GetInfoKeeps ==
  ASSUME ForkedInv, NEW a \in Accounts, NEW n \in 0 .. Len(Fields), GetInfo(a, n)
  PROVE  ForkedInv'
  <1>1. /\ n \in 0 .. Fetches(a) /\ Requests(n < Fetches(a)) /\ Operation
        /\ overlay' = InheritAccount(overlay, a, n)
        /\ UNCHANGED <<world, worlds, accessList, saved>>
    BY DEF GetInfo, Inherit
  <1>2. /\ lastErr' \in BOOLEAN /\ failed' \in BOOLEAN /\ faults' \in 0 .. MaxFaults
        /\ lastErr' <=> lastErr \/ n < Fetches(a)
        /\ failed' <=> failed \/ n < Fetches(a)
    <2> DEFINE bad == n < Fetches(a)
    <2>1. bad \in BOOLEAN /\ Requests(bad)
      BY <1>1, FetchesType
    <2> HIDE DEF bad
    <2>2. Answered(bad)
      BY <2>1, RequestsType DEF ForkedInv
    <2> QED
      BY <2>2 DEF Answered, bad
  <1>3. world \in World /\ accessList \subseteq Accounts
    BY DEF ForkedInv, TypeOK, EvmTypeOK
  <1>4. /\ overlay' \in Overlay
        /\ lastErr' \/ Sound(overlay', world', reverted)
        /\ reverted \/ lastErr' \/ Journalled(overlay')
    BY <1>1, <1>2, InheritsAccount
  <1> QED
    BY <1>1, <1>2, <1>3, <1>4, OperationKeeps

LEMMA SetInfoKeeps ==
  ASSUME ForkedInv, NEW a \in Accounts, NEW f \in FieldSet, NEW v \in Values,
         NEW n \in 0 .. Len(Fields), SetInfo(a, f, v, n)
  PROVE  ForkedInv'
  <1> DEFINE p == InheritAccount(overlay, a, n)
  <1>1. /\ n \in 0 .. Fetches(a) /\ Requests(n < Fetches(a)) /\ Operation
        /\ overlay' = DbSetInfo(p, a, f, v)
        /\ world' = [world EXCEPT !.info[a][f] = v]
        /\ f # "balance" => v # 0
        /\ UNCHANGED <<worlds, accessList, saved>>
    BY DEF SetInfo, Inherit, EvmSetInfo, Update
  <1>2. /\ lastErr' \in BOOLEAN /\ failed' \in BOOLEAN /\ faults' \in 0 .. MaxFaults
        /\ lastErr' <=> lastErr \/ n < Fetches(a)
        /\ failed' <=> failed \/ n < Fetches(a)
    <2> DEFINE bad == n < Fetches(a)
    <2>1. bad \in BOOLEAN /\ Requests(bad)
      BY <1>1, FetchesType
    <2> HIDE DEF bad
    <2>2. Answered(bad)
      BY <2>1, RequestsType DEF ForkedInv
    <2> QED
      BY <2>2 DEF Answered, bad
  <1>3. world \in World /\ accessList \subseteq Accounts /\ reverted \in BOOLEAN
    BY DEF ForkedInv, TypeOK, EvmTypeOK
  <1>4. /\ p \in Overlay
        /\ ~lastErr' => /\ Sound(p, world, reverted) /\ a \in p.stateInherited
                        /\ reverted \/ Journalled(p)
    BY <1>1, <1>2, InheritsAccount
  <1> HIDE DEF p
  <1>5. Puts(p, overlay', a, [Base(p.object[a]) EXCEPT !.info[f] = v])
    BY <1>1, <1>4, SetInfoPuts
  <1>6. overlay' \in Overlay /\ world' \in World
    <2>1. overlay' \in Overlay
      BY <1>5 DEF Puts
    <2>2. world.info \in [Accounts -> [FieldSet -> Values]]
      BY <1>3 DEF World
    <2>3. [world.info EXCEPT ![a][f] = v] \in [Accounts -> [FieldSet -> Values]]
      BY <2>2
    <2>4. [world EXCEPT !.info = [@ EXCEPT ![a][f] = v]] \in World
      BY <1>3, <2>3 DEF World
    <2> QED
      BY <2>1, <2>4, <1>1
  <1>7. lastErr' \/ Sound(overlay', world', reverted)
    <2>1. ~lastErr' =>
            Sound(DbSetInfo(p, a, f, v), [world EXCEPT !.info[a][f] = v], reverted)
      BY <1>1, <1>3, <1>4, SetInfoSound
    <2> QED
      BY <2>1, <1>1
  <1>8. reverted \/ lastErr' \/ Journalled(overlay')
    BY <1>4, <1>5, PutsJournalled
  <1> QED
    BY <1>1, <1>2, <1>3, <1>6, <1>7, <1>8, OperationKeeps

LEMMA InheritsSlot ==
  ASSUME ForkedInv, NEW a \in Accounts, NEW k \in Keys, NEW n \in 0 .. Fetches(a), NEW ok \in BOOLEAN
  PROVE  LET p == InheritStorage(InheritAccount(overlay, a, n), a, k, ok)
         IN  /\ p \in Overlay
             /\ ~lastErr /\ ~(n < Fetches(a)) /\ ok =>
                  /\ Sound(p, world, reverted)
                  /\ a \in p.stateInherited /\ k \in p.storageInherited[a]
                  /\ reverted \/ Journalled(p)
  <1> DEFINE q == InheritAccount(overlay, a, n)
  <1>1. world \in World /\ reverted \in BOOLEAN
    BY DEF ForkedInv, TypeOK, EvmTypeOK
  <1>2. /\ q \in Overlay
        /\ ~lastErr /\ ~(n < Fetches(a)) =>
             Sound(q, world, reverted) /\ a \in q.stateInherited /\ (reverted \/ Journalled(q))
    BY InheritsAccount
  <1> HIDE DEF q
  <1>3. InheritStorage(q, a, k, ok) \in Overlay
    BY <1>2, SlotType
  <1>4. ASSUME ~lastErr, ~(n < Fetches(a)), ok
        PROVE  LET p == InheritStorage(q, a, k, ok)
               IN  /\ Sound(p, world, reverted)
                   /\ a \in p.stateInherited /\ k \in p.storageInherited[a]
                   /\ reverted \/ Journalled(p)
    <2>1. InheritStorage(q, a, k, ok) = InheritStorage(q, a, k, TRUE)
      BY <1>4 DEF InheritStorage
    <2>2. LET p == InheritStorage(q, a, k, TRUE)
          IN  /\ Sound(p, world, reverted)
              /\ a \in p.stateInherited /\ k \in p.storageInherited[a]
              /\ reverted \/ Journalled(p)
      BY <1>1, <1>2, <1>4, InheritStorageSound
    <2> QED
      BY <2>1, <2>2
  <1> QED
    BY <1>3, <1>4 DEF q

LEMMA GetStateKeeps ==
  ASSUME ForkedInv, NEW a \in Accounts, NEW k \in Keys, NEW n \in 0 .. Len(Fields), NEW ok \in BOOLEAN,
         GetState(a, k, n, ok)
  PROVE  ForkedInv'
  <1>1. /\ n \in 0 .. Fetches(a) /\ Requests(n < Fetches(a) \/ ~ok) /\ Operation
        /\ overlay' = InheritStorage(InheritAccount(overlay, a, n), a, k, ok)
        /\ UNCHANGED <<world, worlds, accessList, saved>>
    BY DEF GetState, InheritSlot
  <1>2. /\ lastErr' \in BOOLEAN /\ failed' \in BOOLEAN /\ faults' \in 0 .. MaxFaults
        /\ lastErr' <=> lastErr \/ n < Fetches(a) \/ ~ok
        /\ failed' <=> failed \/ n < Fetches(a) \/ ~ok
    <2> DEFINE bad == n < Fetches(a) \/ ~ok
    <2>1. bad \in BOOLEAN /\ Requests(bad)
      BY <1>1, FetchesType
    <2> HIDE DEF bad
    <2>2. Answered(bad)
      BY <2>1, RequestsType DEF ForkedInv
    <2> QED
      BY <2>2 DEF Answered, bad
  <1>3. world \in World /\ accessList \subseteq Accounts
    BY DEF ForkedInv, TypeOK, EvmTypeOK
  <1>4. /\ overlay' \in Overlay
        /\ ~lastErr /\ ~(n < Fetches(a)) /\ ok =>
             Sound(overlay', world, reverted) /\ (reverted \/ Journalled(overlay'))
    BY <1>1, InheritsSlot
  <1>5. /\ lastErr' \/ Sound(overlay', world', reverted)
        /\ reverted \/ lastErr' \/ Journalled(overlay')
    BY <1>1, <1>2, <1>4
  <1> QED
    BY <1>1, <1>2, <1>3, <1>4, <1>5, OperationKeeps

LEMMA GetCommittedStateKeeps ==
  ASSUME ForkedInv, NEW a \in Accounts, NEW k \in Keys, NEW n \in 0 .. Len(Fields), NEW ok \in BOOLEAN,
         NEW again \in BOOLEAN, GetCommittedState(a, k, n, ok, again)
  PROVE  ForkedInv'
  <1>1. /\ n \in 0 .. Fetches(a) /\ Requests(n < Fetches(a) \/ ~ok \/ ~again) /\ Operation
        /\ overlay' = InheritStorage(InheritAccount(overlay, a, n), a, k, ok)
        /\ UNCHANGED <<world, worlds, accessList, saved>>
    BY DEF GetCommittedState
  <1>2. /\ lastErr' \in BOOLEAN /\ failed' \in BOOLEAN /\ faults' \in 0 .. MaxFaults
        /\ lastErr' <=> lastErr \/ n < Fetches(a) \/ ~ok \/ ~again
        /\ failed' <=> failed \/ n < Fetches(a) \/ ~ok \/ ~again
    <2> DEFINE bad == n < Fetches(a) \/ ~ok \/ ~again
    <2>1. bad \in BOOLEAN /\ Requests(bad)
      BY <1>1, FetchesType
    <2> HIDE DEF bad
    <2>2. Answered(bad)
      BY <2>1, RequestsType DEF ForkedInv
    <2> QED
      BY <2>2 DEF Answered, bad
  <1>3. world \in World /\ accessList \subseteq Accounts
    BY DEF ForkedInv, TypeOK, EvmTypeOK
  <1>4. /\ overlay' \in Overlay
        /\ ~lastErr /\ ~(n < Fetches(a)) /\ ok =>
             Sound(overlay', world, reverted) /\ (reverted \/ Journalled(overlay'))
    BY <1>1, InheritsSlot
  <1>5. /\ lastErr' \/ Sound(overlay', world', reverted)
        /\ reverted \/ lastErr' \/ Journalled(overlay')
    BY <1>1, <1>2, <1>4
  <1> QED
    BY <1>1, <1>2, <1>3, <1>4, <1>5, OperationKeeps

LEMMA SetStateKeeps ==
  ASSUME ForkedInv, NEW a \in Accounts, NEW k \in Keys, NEW v \in Values, NEW n \in 0 .. Len(Fields),
         NEW ok \in BOOLEAN, SetState(a, k, v, n, ok)
  PROVE  ForkedInv'
  <1> DEFINE p == InheritStorage(InheritAccount(overlay, a, n), a, k, ok)
  <1>1. /\ n \in 0 .. Fetches(a) /\ Requests(n < Fetches(a) \/ ~ok) /\ Operation
        /\ overlay' = MarkCleared(DbSetState(p, a, k, v), a, k, v)
        /\ world' = [world EXCEPT !.storage[a][k] = v]
        /\ world.info[a][ContractField] # 0
        /\ UNCHANGED <<worlds, accessList, saved>>
    BY DEF SetState, InheritSlot, EvmSetState, Update, IsContract
  <1>2. /\ lastErr' \in BOOLEAN /\ failed' \in BOOLEAN /\ faults' \in 0 .. MaxFaults
        /\ lastErr' <=> lastErr \/ n < Fetches(a) \/ ~ok
        /\ failed' <=> failed \/ n < Fetches(a) \/ ~ok
    <2> DEFINE bad == n < Fetches(a) \/ ~ok
    <2>1. bad \in BOOLEAN /\ Requests(bad)
      BY <1>1, FetchesType
    <2> HIDE DEF bad
    <2>2. Answered(bad)
      BY <2>1, RequestsType DEF ForkedInv
    <2> QED
      BY <2>2 DEF Answered, bad
  <1>3. world \in World /\ accessList \subseteq Accounts /\ reverted \in BOOLEAN
    BY DEF ForkedInv, TypeOK, EvmTypeOK
  <1>4. /\ p \in Overlay
        /\ ~lastErr' =>
             /\ Sound(p, world, reverted) /\ (reverted \/ Journalled(p))
             /\ a \in p.stateInherited /\ k \in p.storageInherited[a]
    BY <1>1, <1>2, InheritsSlot
  <1> HIDE DEF p
  <1> DEFINE q == DbSetState(p, a, k, v)
  <1>5. PICK obj : Puts(p, q, a, obj)
    BY <1>4, SetStatePuts
  <1>6. q \in Overlay /\ (reverted \/ lastErr' \/ Journalled(q))
    <2> HIDE DEF q
    <2>1. q \in Overlay
      BY <1>5 DEF Puts
    <2> QED
      BY <2>1, <1>4, <1>5, PutsJournalled
  <1>7. lastErr' \/ Sound(overlay', world', reverted)
    <2>1. ~lastErr' =>
            Sound(MarkCleared(DbSetState(p, a, k, v), a, k, v),
                  [world EXCEPT !.storage[a][k] = v], reverted)
      BY <1>1, <1>3, <1>4, SetStateSound
    <2> QED
      BY <2>1, <1>1
  <1> HIDE DEF q
  <1>a. overlay' = MarkCleared(q, a, k, v)
    BY <1>1 DEF q
  <1>b. LET m == MarkCleared(q, a, k, v)
        IN  m \in Overlay /\ m.object = q.object /\ m.touched = q.touched
    BY <1>6 DEF MarkCleared, Overlay
  <1>8. overlay' \in Overlay /\ overlay'.object = q.object /\ overlay'.touched = q.touched
    BY <1>a, <1>b
  <1>9. reverted \/ lastErr' \/ Journalled(overlay')
    BY <1>6, <1>8 DEF Journalled
  <1>10. world' \in World
    BY <1>1, <1>3, WorldTypes
  <1> QED
    BY <1>1, <1>2, <1>3, <1>7, <1>8, <1>9, <1>10, OperationKeeps

LEMMA SuicideKeeps ==
  ASSUME ForkedInv, NEW a \in Accounts, NEW n \in 0 .. Len(Fields), a \in Mortal, Suicide(a, n)
  PROVE  ForkedInv'
  <1> DEFINE p == InheritAccount(overlay, a, n)
  <1>1. /\ n \in 0 .. Fetches(a) /\ Requests(n < Fetches(a)) /\ Operation
        /\ overlay' = DbSuicide(p, a)
        /\ world' = [world EXCEPT !.dead = @ \cup {a}, !.info[a]["balance"] = 0]
        /\ world.info[a][ContractField] # 0
        /\ UNCHANGED <<worlds, accessList, saved>>
    BY DEF Suicide, Inherit, EvmSuicide, Update, IsContract
  <1>2. /\ lastErr' \in BOOLEAN /\ failed' \in BOOLEAN /\ faults' \in 0 .. MaxFaults
        /\ lastErr' <=> lastErr \/ n < Fetches(a)
        /\ failed' <=> failed \/ n < Fetches(a)
    <2> DEFINE bad == n < Fetches(a)
    <2>1. bad \in BOOLEAN /\ Requests(bad)
      BY <1>1, FetchesType
    <2> HIDE DEF bad
    <2>2. Answered(bad)
      BY <2>1, RequestsType DEF ForkedInv
    <2> QED
      BY <2>2 DEF Answered, bad
  <1>3. world \in World /\ accessList \subseteq Accounts /\ reverted \in BOOLEAN
    BY DEF ForkedInv, TypeOK, EvmTypeOK
  <1>4. /\ p \in Overlay
        /\ ~lastErr' => /\ Sound(p, world, reverted) /\ a \in p.stateInherited
                        /\ reverted \/ Journalled(p)
    BY <1>1, <1>2, InheritsAccount
  <1> HIDE DEF p
  <1>5. PICK obj : Puts(p, overlay', a, obj)
    BY <1>1, <1>4, SuicidePuts
  <1>6. overlay' \in Overlay
    BY <1>5 DEF Puts
  <1>7. lastErr' \/ Sound(overlay', world', reverted)
    <2>1. ~lastErr' =>
            Sound(DbSuicide(p, a),
                  [world EXCEPT !.dead = @ \cup {a}, !.info[a]["balance"] = 0], reverted)
      BY <1>1, <1>3, <1>4, SuicideSound
    <2> QED
      BY <2>1, <1>1
  <1>8. reverted \/ lastErr' \/ Journalled(overlay')
    BY <1>4, <1>5, PutsJournalled
  <1>9. world' \in World
    BY <1>1, <1>3, WorldTypes, Constants
  <1> QED
    BY <1>1, <1>2, <1>3, <1>6, <1>7, <1>8, <1>9, OperationKeeps

LEMMA CreateKeeps ==
  ASSUME ForkedInv, NEW a \in Accounts, NEW n \in 0 .. Len(Fields), a \in Mortal, Create(a, n)
  PROVE  ForkedInv'
  <1> DEFINE p == InheritAccount(overlay, a, n)
  <1>1. /\ n \in 0 .. Fetches(a) /\ Requests(n < Fetches(a)) /\ Operation
        /\ overlay' = DbCreate(p, a)
        /\ world' = [world EXCEPT !.info[a][ContractField] = 1, !.storage[a] = NoStorage]
        /\ \A f \in FieldSet \ {"balance"} : world.info[a][f] = 0
        /\ UNCHANGED <<worlds, accessList, saved>>
    BY DEF Create, Inherit, EvmCreate, Update
  <1>2. /\ lastErr' \in BOOLEAN /\ failed' \in BOOLEAN /\ faults' \in 0 .. MaxFaults
        /\ lastErr' <=> lastErr \/ n < Fetches(a)
        /\ failed' <=> failed \/ n < Fetches(a)
    <2> DEFINE bad == n < Fetches(a)
    <2>1. bad \in BOOLEAN /\ Requests(bad)
      BY <1>1, FetchesType
    <2> HIDE DEF bad
    <2>2. Answered(bad)
      BY <2>1, RequestsType DEF ForkedInv
    <2> QED
      BY <2>2 DEF Answered, bad
  <1>3. world \in World /\ accessList \subseteq Accounts /\ reverted \in BOOLEAN
    BY DEF ForkedInv, TypeOK, EvmTypeOK
  <1>4. /\ p \in Overlay
        /\ ~lastErr' => /\ Sound(p, world, reverted) /\ a \in p.stateInherited
                        /\ reverted \/ Journalled(p)
    BY <1>1, <1>2, InheritsAccount
  <1> HIDE DEF p
  <1>5. PICK obj : Puts(p, overlay', a, obj)
    BY <1>1, <1>4, CreatePuts
  <1>6. overlay' \in Overlay
    BY <1>5 DEF Puts
  <1>7. lastErr' \/ Sound(overlay', world', reverted)
    <2>1. ~lastErr' =>
            Sound(DbCreate(p, a),
                  [world EXCEPT !.info[a][ContractField] = 1, !.storage[a] = NoStorage],
                  reverted)
      BY <1>1, <1>3, <1>4, CreateSound
    <2> QED
      BY <2>1, <1>1
  <1>8. reverted \/ lastErr' \/ Journalled(overlay')
    BY <1>4, <1>5, PutsJournalled
  <1>9. world' \in World
    BY <1>1, <1>3, WorldTypes, Constants
  <1> QED
    BY <1>1, <1>2, <1>3, <1>6, <1>7, <1>8, <1>9, OperationKeeps

LEMMA WarmKeeps ==
  ASSUME ForkedInv, NEW a \in Accounts, AddAddressToAccessList(a)
  PROVE  ForkedInv'
  <1>1. /\ Operation /\ world' = [world EXCEPT !.warm = @ \cup {a}]
        /\ accessList' = accessList \cup {a}
        /\ overlay' = [overlay EXCEPT !.warm = @ \cup {a}]
        /\ UNCHANGED <<worlds, lastErr, saved, failed, faults>>
    BY DEF AddAddressToAccessList, EvmWarm, Update
  <1>2. /\ world \in World /\ accessList \subseteq Accounts /\ overlay \in Overlay
        /\ lastErr \in BOOLEAN /\ failed \in BOOLEAN /\ faults \in 0 .. MaxFaults
    BY DEF ForkedInv, TypeOK, EvmTypeOK
  <1>3. /\ overlay' \in Overlay /\ overlay'.object = overlay.object
        /\ overlay'.touched = overlay.touched
        /\ \A b \in Accounts : Same(overlay, overlay', b)
    BY <1>1, <1>2 DEF Overlay, Same
  <1>4. world' \in World /\ \A b \in Accounts : SameWorld(world, world', b)
    BY <1>1, <1>2 DEF World, SameWorld
  <1>5. lastErr' \/ Sound(overlay', world', reverted)
    BY <1>1, <1>3, <1>4, SoundAll DEF ForkedInv, CurrentSound
  <1>6. reverted \/ lastErr' \/ Journalled(overlay')
    BY <1>1, <1>3 DEF ForkedInv, JournalKept, Journalled
  <1> QED
    BY <1>1, <1>2, <1>3, <1>4, <1>5, <1>6, OperationKeeps

-----------------------------------------------------------------------------
(* The frames.                                                             *)

LEMMA CopyFacts ==
  ASSUME TypeOK
  PROVE  /\ Copy \in Snap /\ Copy.lastErr = lastErr
         /\ Copy.overlay.object = overlay.object
         /\ \A a \in Accounts : Same(overlay, Copy.overlay, a)
  <1>1. overlay \in Overlay /\ accessList \subseteq Accounts /\ lastErr \in BOOLEAN
    BY DEF TypeOK
  <1> DEFINE p == [overlay EXCEPT !.touched = {}, !.warm = accessList]
  <1>2. /\ p \in Overlay /\ p.object = overlay.object
        /\ \A a \in Accounts : Same(overlay, p, a)
    BY <1>1 DEF Overlay, Same
  <1>3. Copy.overlay = p /\ Copy.lastErr = lastErr /\ Copy = [overlay |-> p, lastErr |-> lastErr]
    BY DEF Copy
  <1> HIDE DEF p
  <1> QED
    BY <1>1, <1>2, <1>3 DEF Snap

LEMMA Typed ==
  ASSUME ForkedInv
  PROVE  /\ TypeOK /\ overlay \in Overlay /\ world \in World /\ worlds \in Seq(World)
         /\ saved \in Seq(Snap) /\ reverted \in BOOLEAN /\ lastErr \in BOOLEAN
         /\ failed \in BOOLEAN /\ accessList \subseteq Accounts
         /\ Depth \in Nat /\ Len(worlds) = Depth /\ Len(saved) = Depth
         /\ Running <=> Depth > 0
  BY DepthType DEF ForkedInv, TypeOK, EvmTypeOK, Snap, Depth

\* The state and world of frame i.
LEMMA SavedTyped ==
  ASSUME ForkedInv, NEW i \in 1 .. Depth
  PROVE  /\ saved[i] \in Snap /\ saved[i].overlay \in Overlay
         /\ saved[i].lastErr \in BOOLEAN
         /\ worlds[i] \in World
         /\ saved[i].lastErr \/ Sound(saved[i].overlay, worlds[i], reverted)
  <1>1. saved[i] \in Snap /\ worlds[i] \in World
    BY Typed, ElementOfSeq
  <1> QED
    BY <1>1 DEF Snap, ForkedInv, SavedSound

LEMMA BeginKeeps ==
  ASSUME ForkedInv, Begin
  PROVE  ForkedInv'
  <1>1. /\ ~Running /\ txs < MaxTxs
        /\ worlds' = <<world>> /\ world' = [world EXCEPT !.warm = {}]
        /\ saved' = <<Copy>> /\ overlay' = [overlay EXCEPT !.warm = {}]
        /\ accessList' = {} /\ failed' = FALSE /\ undone' = FALSE /\ txs' = txs + 1
        /\ UNCHANGED <<lastErr, reverted, calls, ops, faults>>
    BY DEF Begin, EvmBegin
  <1>2. /\ Copy \in Snap /\ Copy.lastErr = lastErr
        /\ Copy.overlay.object = overlay.object
        /\ \A a \in Accounts : Same(overlay, Copy.overlay, a)
    BY Typed, CopyFacts
  <1>3. /\ overlay' \in Overlay /\ overlay'.object = overlay.object
        /\ overlay'.touched = overlay.touched
        /\ \A a \in Accounts : Same(overlay, overlay', a)
    BY <1>1, Typed DEF Overlay, Same
  <1>4. /\ world' \in World
        /\ \A a \in Accounts : SameWorld(world, world', a) /\ SameWorld(world, world, a)
    BY <1>1, Typed DEF World, SameWorld
  <1>5. /\ worlds' \in Seq(World) /\ Len(worlds') = 1 /\ worlds'[1] = world
        /\ saved' \in Seq(Snap) /\ Len(saved') = 1 /\ saved'[1] = Copy
    BY <1>1, <1>2, Typed
  <1>6. Depth' = 1 /\ Running'
    BY <1>1, <1>5, EmptySeq DEF Depth, Running
  <1>7. TypeOK'
    <2>1. txs' \in 0 .. MaxTxs /\ 1 <= MaxDepth
      BY <1>1, Typed, BoundsAssumption DEF TypeOK
    <2> QED
      BY <2>1, <1>1, <1>3, <1>4, <1>5, <1>6, Typed DEF TypeOK, EvmTypeOK, Snap
  <1>8. CurrentSound'
    BY <1>1, <1>3, <1>4, SoundAll DEF ForkedInv, CurrentSound
  <1>9. SavedSound'
    <2>1. lastErr \/ Sound(Copy.overlay, world, reverted)
      BY <1>2, <1>4, SoundAll DEF ForkedInv, CurrentSound
    <2> QED
      BY <2>1, <1>1, <1>2, <1>5, <1>6 DEF SavedSound
  <1>10. JournalKept'
    BY <1>1, <1>2, <1>3, <1>5, <1>6 DEF ForkedInv, JournalKept, Journalled, Clean
  <1>11. FailureKept'
    BY <1>1 DEF FailureKept
  <1> QED
    BY <1>7, <1>8, <1>9, <1>10, <1>11 DEF ForkedInv

LEMMA EnterKeeps ==
  ASSUME ForkedInv, Enter
  PROVE  ForkedInv'
  <1>1. /\ Running /\ Depth < MaxDepth /\ calls < MaxCalls
        /\ worlds' = Append(worlds, world) /\ saved' = Append(saved, Copy)
        /\ calls' = calls + 1
        /\ UNCHANGED <<world, overlay, accessList, lastErr, failed, undone, reverted, txs, ops, faults>>
    BY DEF Enter, EvmEnter, history
  <1>2. /\ Copy \in Snap /\ Copy.lastErr = lastErr
        /\ \A a \in Accounts : Same(overlay, Copy.overlay, a)
    BY Typed, CopyFacts
  <1>3. /\ worlds' \in Seq(World) /\ Len(worlds') = Depth + 1
        /\ saved' \in Seq(Snap) /\ Len(saved') = Depth + 1
        /\ \A i \in 1 .. Depth : worlds'[i] = worlds[i] /\ saved'[i] = saved[i]
        /\ worlds'[Depth + 1] = world /\ saved'[Depth + 1] = Copy
    BY <1>1, <1>2, Typed, AppendProperties
  <1>4. Depth' = Depth + 1 /\ Depth \in Nat /\ Running' /\ Depth > 0
    BY <1>1, <1>3, Typed, EmptySeq DEF Depth, Running
  <1>5. TypeOK'
    <2>1. calls' \in 0 .. MaxCalls /\ Depth + 1 <= MaxDepth
      BY <1>1, Typed, BoundsAssumption DEF TypeOK
    <2> QED
      BY <2>1, <1>1, <1>3, <1>4, Typed DEF TypeOK, EvmTypeOK, Snap
  <1>6. CurrentSound'
    BY <1>1 DEF ForkedInv, CurrentSound
  <1>7. SavedSound'
    <2>1. lastErr \/ Sound(Copy.overlay, world, reverted)
      BY <1>2, SoundAll DEF ForkedInv, CurrentSound, SameWorld
    <2>2. ASSUME NEW i \in 1 .. Depth + 1
          PROVE  saved'[i].lastErr \/ Sound(saved'[i].overlay, worlds'[i], reverted)
      <3>1. CASE i = Depth + 1
        BY <3>1, <2>1, <1>2, <1>3
      <3>2. CASE i \in 1 .. Depth
        BY <3>2, <1>3, SavedTyped
      <3> QED
        BY <3>1, <3>2, <1>4
    <2> QED
      BY <2>2, <1>1, <1>4 DEF SavedSound
  <1>8. JournalKept'
    BY <1>1, <1>3, <1>4 DEF ForkedInv, JournalKept
  <1>9. FailureKept'
    BY <1>1 DEF ForkedInv, FailureKept
  <1> QED
    BY <1>5, <1>6, <1>7, <1>8, <1>9 DEF ForkedInv

LEMMA PopFacts ==
  ASSUME ForkedInv, Depth > 1,
         worlds' = SubSeq(worlds, 1, Depth - 1), saved' = SubSeq(saved, 1, Depth - 1)
  PROVE  /\ worlds' \in Seq(World) /\ saved' \in Seq(Snap) /\ Len(saved') = Depth'
         /\ Depth' = Depth - 1 /\ Running' /\ Depth \in Nat
         /\ \A i \in 1 .. Depth - 1 : worlds'[i] = worlds[i] /\ saved'[i] = saved[i]
  <1>1. Depth \in 1 .. Len(worlds) /\ Depth \in 1 .. Len(saved)
    BY Typed
  <1>2. /\ worlds' \in Seq(World) /\ Len(worlds') = Depth - 1
        /\ \A i \in 1 .. Depth - 1 : worlds'[i] = worlds[i]
    BY <1>1, Typed, PrefixProperties
  <1>3. /\ saved' \in Seq(Snap) /\ Len(saved') = Depth - 1
        /\ \A i \in 1 .. Depth - 1 : saved'[i] = saved[i]
    BY <1>1, Typed, PrefixProperties
  <1>4. Depth' = Depth - 1 /\ Depth \in Nat
    BY <1>2, Typed DEF Depth
  <1>5. Running'
    <2>1. worlds' = << >> => Len(worlds') = 0
      OBVIOUS
    <2>2. Len(worlds') # 0
      BY <1>2, <1>4
    <2> QED
      BY <2>1, <2>2 DEF Running
  <1> QED
    BY <1>2, <1>3, <1>4, <1>5

LEMMA LeaveKeeps ==
  ASSUME ForkedInv, Leave
  PROVE  ForkedInv'
  <1>1. /\ Depth > 1
        /\ worlds' = SubSeq(worlds, 1, Depth - 1) /\ saved' = SubSeq(saved, 1, Depth - 1)
        /\ UNCHANGED <<world, overlay, accessList, lastErr, failed, undone, reverted, txs, calls, ops,
                       faults>>
    BY DEF Leave, EvmLeave, history, counters
  <1>2. /\ worlds' \in Seq(World) /\ saved' \in Seq(Snap) /\ Len(saved') = Depth'
        /\ Depth' = Depth - 1 /\ Running' /\ Depth \in Nat
        /\ \A i \in 1 .. Depth - 1 : worlds'[i] = worlds[i] /\ saved'[i] = saved[i]
    BY <1>1, PopFacts
  <1>3. TypeOK'
    <2>1. Depth' <= MaxDepth
      BY <1>2, Typed, BoundsAssumption DEF TypeOK
    <2> QED
      BY <2>1, <1>1, <1>2, Typed DEF TypeOK, EvmTypeOK, Snap
  <1>4. CurrentSound'
    BY <1>1 DEF ForkedInv, CurrentSound
  <1>5. SavedSound'
    BY <1>1, <1>2, SavedTyped DEF SavedSound
  <1>6. JournalKept'
    <2>1. saved'[1] = saved[1] /\ Running
      BY <1>1, <1>2, Typed
    <2> QED
      BY <2>1, <1>1, <1>2 DEF ForkedInv, JournalKept
  <1>7. FailureKept'
    <2>1. Running
      BY <1>1, Typed
    <2> QED
      BY <2>1, <1>1 DEF ForkedInv, FailureKept
  <1> QED
    BY <1>3, <1>4, <1>5, <1>6, <1>7 DEF ForkedInv

LEMMA RevertCallKeeps ==
  ASSUME ForkedInv, RevertCall
  PROVE  ForkedInv'
  <1>1. /\ Depth > 1
        /\ world' = worlds[Depth] /\ overlay' = saved[Depth].overlay
        /\ lastErr' = saved[Depth].lastErr
        /\ worlds' = SubSeq(worlds, 1, Depth - 1) /\ saved' = SubSeq(saved, 1, Depth - 1)
        /\ undone' = TRUE /\ reverted' = TRUE
        /\ UNCHANGED <<accessList, failed, txs, calls, ops, faults>>
    BY DEF RevertCall, EvmRevert, Restore, counters
  <1>2. /\ worlds' \in Seq(World) /\ saved' \in Seq(Snap) /\ Len(saved') = Depth'
        /\ Depth' = Depth - 1 /\ Running' /\ Depth \in Nat
        /\ \A i \in 1 .. Depth - 1 : worlds'[i] = worlds[i] /\ saved'[i] = saved[i]
    BY <1>1, PopFacts
  <1>3. /\ overlay' \in Overlay /\ lastErr' \in BOOLEAN /\ world' \in World
        /\ lastErr' \/ Sound(overlay', world', reverted)
    BY <1>1, <1>2, SavedTyped
  <1>4. TypeOK'
    <2>1. Depth' <= MaxDepth
      BY <1>2, Typed, BoundsAssumption DEF TypeOK
    <2> QED
      BY <2>1, <1>1, <1>2, <1>3, Typed DEF TypeOK, EvmTypeOK, Snap
  <1>5. CurrentSound'
    BY <1>1, <1>3, Typed, SoundWeaker DEF CurrentSound
  <1>6. SavedSound'
    <2>1. ASSUME NEW i \in 1 .. Depth - 1
          PROVE  saved'[i].lastErr \/ Sound(saved'[i].overlay, worlds'[i], TRUE)
      <3>1. saved[i].lastErr \/ Sound(saved[i].overlay, worlds[i], reverted)
        BY <1>2, SavedTyped
      <3>2. saved[i].lastErr \/ Sound(saved[i].overlay, worlds[i], TRUE)
        BY <3>1, Typed, SoundWeaker
      <3> QED
        BY <3>2, <1>2
    <2> QED
      BY <2>1, <1>1, <1>2 DEF SavedSound
  <1>7. JournalKept' /\ FailureKept'
    BY <1>1 DEF JournalKept, FailureKept
  <1> QED
    BY <1>4, <1>5, <1>6, <1>7 DEF ForkedInv

\* The transaction is over: no frame is left.
LEMMA OverFacts ==
  ASSUME worlds' = << >>, saved' = << >>
  PROVE  /\ Depth' = 0 /\ ~Running' /\ Len(saved') = Depth'
         /\ worlds' \in Seq(World) /\ saved' \in Seq(Snap)
  BY DEF Depth, Running

LEMMA RejectKeeps ==
  ASSUME ForkedInv, Reject
  PROVE  ForkedInv'
  <1>1. /\ Depth = 1
        /\ world' = worlds[1] /\ worlds' = << >>
        /\ overlay' = saved[1].overlay /\ lastErr' = saved[1].lastErr
        /\ saved' = << >>
        /\ UNCHANGED <<accessList, failed, undone, reverted, txs, calls, ops, faults>>
    BY DEF Reject, EvmAbort, Restore, history, counters
  <1>2. /\ Depth' = 0 /\ ~Running' /\ Len(saved') = Depth'
        /\ worlds' \in Seq(World) /\ saved' \in Seq(Snap)
    BY <1>1, OverFacts
  <1>3. /\ overlay' \in Overlay /\ lastErr' \in BOOLEAN /\ world' \in World
        /\ lastErr' \/ Sound(overlay', world', reverted)
    BY <1>1, SavedTyped
  <1>4. TypeOK'
    <2>1. Depth' <= MaxDepth
      BY <1>2, BoundsAssumption
    <2> QED
      BY <2>1, <1>1, <1>2, <1>3, Typed DEF TypeOK, EvmTypeOK, Snap
  <1>5. CurrentSound'
    BY <1>1, <1>3 DEF CurrentSound
  <1>6. SavedSound'
    BY <1>2 DEF SavedSound
  <1>7. JournalKept'
    <2>1. Running
      BY <1>1, Typed
    <2>2. reverted \/ lastErr' \/ Clean(overlay')
      BY <2>1, <1>1 DEF ForkedInv, JournalKept
    <2> QED
      BY <2>2, <1>1, <1>2 DEF JournalKept, Clean, Journalled
  <1>8. FailureKept'
    BY <1>2 DEF FailureKept
  <1> QED
    BY <1>4, <1>5, <1>6, <1>7, <1>8 DEF ForkedInv

LEMMA AcceptKeeps ==
  ASSUME ForkedInv, Accept
  PROVE  ForkedInv'
  <1>1. /\ Depth = 1 /\ ~lastErr /\ EvmFinish
        /\ worlds' = << >> /\ overlay' = Finalise(overlay) /\ saved' = << >>
        /\ UNCHANGED <<accessList, lastErr, failed, undone, reverted, txs, calls, ops, faults>>
    BY DEF Accept, EvmFinish, history, counters
  <1>2. /\ Depth' = 0 /\ ~Running' /\ Len(saved') = Depth'
        /\ worlds' \in Seq(World) /\ saved' \in Seq(Snap)
    BY <1>1, OverFacts
  <1>3. FinaliseOn(overlay, overlay') /\ world' \in World /\ Finished(world, world')
    BY <1>1, Typed, FinaliseIs, FinishedWorld
  <1>4. Sound(overlay, world, reverted) /\ (~reverted => Journalled(overlay))
    BY <1>1 DEF ForkedInv, CurrentSound, JournalKept
  <1>5. Sound(overlay', world', reverted) /\ (~reverted => Clean(overlay'))
    BY <1>3, <1>4, Typed, FinishSound
  <1>6. TypeOK'
    <2>1. Depth' <= MaxDepth
      BY <1>2, BoundsAssumption
    <2> QED
      BY <2>1, <1>1, <1>2, <1>3, Typed DEF TypeOK, EvmTypeOK, Snap, FinaliseOn
  <1>7. CurrentSound'
    BY <1>1, <1>5 DEF CurrentSound
  <1>8. SavedSound'
    BY <1>2 DEF SavedSound
  <1>9. JournalKept'
    BY <1>1, <1>2, <1>5 DEF JournalKept, Clean, Journalled
  <1>10. FailureKept'
    BY <1>2 DEF FailureKept
  <1> QED
    BY <1>6, <1>7, <1>8, <1>9, <1>10 DEF ForkedInv

LEMMA SetStatePanicsKeeps ==
  ASSUME ForkedInv, NEW a \in Accounts, NEW k \in Keys, NEW v \in Values, NEW n \in 0 .. Len(Fields),
         NEW ok \in BOOLEAN, SetStatePanics(a, k, v, n, ok)
  PROVE  ForkedInv'
  <1> DEFINE p == InheritStorage(InheritAccount(overlay, a, n), a, k, ok)
  <1>1. /\ n \in 0 .. Fetches(a) /\ Requests(n < Fetches(a) \/ ~ok)
        /\ overlay' = DbSetState(p, a, k, v)
        /\ world' = worlds[1] /\ worlds' = << >> /\ saved' = << >>
        /\ ~HasMap(a, n)
        /\ Running /\ ops < MaxOps /\ ops' = ops + 1
        /\ UNCHANGED <<accessList, txs, calls, undone, reverted>>
    BY DEF SetStatePanics, InheritSlot, EvmAbort, Operation
  <1>2. /\ lastErr' \in BOOLEAN /\ failed' \in BOOLEAN /\ faults' \in 0 .. MaxFaults
        /\ lastErr' <=> lastErr \/ n < Fetches(a) \/ ~ok
        /\ failed' <=> failed \/ n < Fetches(a) \/ ~ok
    <2> DEFINE bad == n < Fetches(a) \/ ~ok
    <2>1. bad \in BOOLEAN /\ Requests(bad)
      BY <1>1, FetchesType
    <2> HIDE DEF bad
    <2>2. Answered(bad)
      BY <2>1, RequestsType DEF ForkedInv
    <2> QED
      BY <2>2 DEF Answered, bad
  \* Only what a failed request has left behind has no map.
  <1>3. lastErr'
    <2>1. CASE lastErr
      BY <2>1, <1>2
    <2>2. CASE ~lastErr
      <3>1. Exist(overlay, a) => a \in overlay.stateInherited
        BY <2>2 DEF ForkedInv, CurrentSound, Sound, SoundAt, Present
      <3>2. n < Fetches(a)
        BY <3>1, <1>1, Constants DEF HasMap, Fetches
      <3> QED
        BY <3>2, <1>2
    <2> QED
      BY <2>1, <2>2
  <1>4. /\ Depth' = 0 /\ ~Running' /\ Len(saved') = Depth'
        /\ worlds' \in Seq(World) /\ saved' \in Seq(Snap)
    BY <1>1, OverFacts
  <1>5. world' \in World
    BY <1>1, Typed, SavedTyped
  <1>6. overlay' \in Overlay
    <2>1. p \in Overlay
      BY <1>1, InheritsSlot
    <2> HIDE DEF p
    <2> QED
      BY <2>1, <1>1, SetStatePuts DEF Puts
  <1>7. TypeOK'
    <2>1. Depth' <= MaxDepth /\ ops' \in 0 .. MaxOps
      BY <1>1, <1>4, Typed, BoundsAssumption DEF TypeOK
    <2> QED
      BY <2>1, <1>1, <1>2, <1>4, <1>5, <1>6, Typed DEF TypeOK, EvmTypeOK, Snap
  <1>8. CurrentSound' /\ SavedSound' /\ JournalKept' /\ FailureKept'
    BY <1>3, <1>4 DEF CurrentSound, SavedSound, JournalKept, FailureKept
  <1> QED
    BY <1>7, <1>8 DEF ForkedInv

-----------------------------------------------------------------------------

LEMMA InitHolds == Init => ForkedInv
  <1> SUFFICES ASSUME Init PROVE ForkedInv
    OBVIOUS
  <1>1. /\ worlds = << >> /\ saved = << >> /\ lastErr = FALSE /\ failed = FALSE
        /\ undone = FALSE /\ reverted = FALSE /\ accessList = {}
        /\ txs = 0 /\ calls = 0 /\ ops = 0 /\ faults = 0
        /\ world = [info |-> RemoteInfo, storage |-> RemoteStorage, settled |-> RemoteStorage,
                    dead |-> {}, warm |-> {}]
        /\ overlay = [object |-> [a \in Accounts |-> NoObject],
                      touched |-> {}, warm |-> {}, stateInherited |-> {},
                      storageInherited |-> [a \in Accounts |-> {}],
                      dirtyCleared |-> [a \in Accounts |-> NothingCleared],
                      committedCleared |-> [a \in Accounts |-> {}]]
    BY DEF Init, EvmInit
  <1>2. overlay \in Overlay
    BY <1>1, NoObjectType DEF Overlay, NothingCleared
  <1>3. world \in World
    BY <1>1, FirstWorld
  <1>4. Depth = 0 /\ ~Running /\ worlds \in Seq(World) /\ saved \in Seq(Snap)
        /\ Len(saved) = 0
    BY <1>1 DEF Depth, Running
  <1>5. TypeOK
    <2>1. EvmTypeOK
      BY <1>3, <1>4 DEF EvmTypeOK
    <2>2. saved \in Seq([overlay : Overlay, lastErr : BOOLEAN]) /\ Len(saved) = Depth
      BY <1>4 DEF Snap
    <2>3. Depth <= MaxDepth
      BY <1>4, BoundsAssumption
    <2>4. txs \in 0 .. MaxTxs /\ calls \in 0 .. MaxCalls /\ ops \in 0 .. MaxOps
          /\ faults \in 0 .. MaxFaults
      BY <1>1, BoundsAssumption
    <2>5. accessList \subseteq Accounts /\ lastErr \in BOOLEAN /\ failed \in BOOLEAN
          /\ undone \in BOOLEAN /\ reverted \in BOOLEAN
      BY <1>1
    <2> QED
      BY <1>2, <2>1, <2>2, <2>3, <2>4, <2>5 DEF TypeOK
  <1>6. ASSUME NEW a \in Accounts
        PROVE  SoundAt(overlay, world, reverted, a)
    <2>1. /\ overlay.object[a] = NoObject /\ a \notin overlay.stateInherited
          /\ overlay.storageInherited[a] = {} /\ overlay.dirtyCleared[a] = NothingCleared
          /\ overlay.committedCleared[a] = {}
          /\ world.info[a] = RemoteInfo[a] /\ world.storage[a] = RemoteStorage[a]
          /\ world.settled[a] = RemoteStorage[a] /\ a \notin world.dead
      BY <1>1
    <2>2. RemoteInfo[a][ContractField] = 0 => RemoteStorage[a] = NoStorage
      BY RemoteAssumption
    <2>3. Present(overlay, a) /\ SoundInfo(overlay, world, a)
      BY <2>1, NoObjectFacts DEF Present, Exist, SoundInfo
    <2>4. SoundSlots(overlay, world, a)
      BY <2>1, <2>2, NoObjectFacts DEF SoundSlots
    <2>5. SoundSettled(overlay, world, a)
      BY <2>1, <2>2, NoObjectFacts DEF SoundSettled, NothingCleared
    <2> QED
      BY <2>3, <2>4, <2>5 DEF SoundAt
  <1>7. CurrentSound /\ SavedSound
    BY <1>4, <1>6 DEF CurrentSound, SavedSound, Sound
  <1>8. JournalKept
    BY <1>1, <1>4, NoObjectFacts DEF JournalKept, Journalled, Clean, Loose
  <1>9. FailureKept
    BY <1>1 DEF FailureKept
  <1> QED
    BY <1>5, <1>7, <1>8, <1>9 DEF ForkedInv

LEMMA NextKeeps == ForkedInv /\ [Next]_vars => ForkedInv'
  <1> SUFFICES ASSUME ForkedInv, [Next]_vars PROVE ForkedInv'
    OBVIOUS
  <1>1. CASE UNCHANGED vars
    BY <1>1 DEF vars, ForkedInv, TypeOK, EvmTypeOK, CurrentSound, SavedSound, JournalKept,
                FailureKept, Depth, Running
  <1>2. ASSUME NEW a \in Accounts, NEW n \in 0 .. Len(Fields), AccountStep(a, n)
        PROVE  ForkedInv'
    BY <1>2, GetInfoKeeps, SetInfoKeeps, SuicideKeeps, CreateKeeps DEF AccountStep
  <1>3. ASSUME NEW a \in Accounts, NEW k \in Keys, NEW n \in 0 .. Len(Fields),
               NEW ok \in BOOLEAN, SlotStep(a, k, n, ok)
        PROVE  ForkedInv'
    BY <1>3, GetStateKeeps, GetCommittedStateKeeps, SetStateKeeps, SetStatePanicsKeeps
       DEF SlotStep
  <1>4. ASSUME NEW a \in Accounts, AddAddressToAccessList(a)
        PROVE  ForkedInv'
    BY <1>4, WarmKeeps
  <1>5. CASE Begin \/ Enter \/ Leave \/ RevertCall \/ Reject \/ Accept
    BY <1>5, BeginKeeps, EnterKeeps, LeaveKeeps, RevertCallKeeps, RejectKeeps, AcceptKeeps
  <1> QED
    BY <1>1, <1>2, <1>3, <1>4, <1>5 DEF Next

\* ForkedInv is an invariant of the forked state.
THEOREM ForkedInvariance == Spec => []ForkedInv
  BY InitHolds, NextKeeps, PTL DEF Spec

LEMMA InfoFollows == ForkedInv => InfoAgrees
  <1> SUFFICES ASSUME ForkedInv, ~lastErr, NEW a \in Accounts, NEW f \in FieldSet, Trusted(a)
               PROVE  InfoOf(a, f) = world.info[a][f]
    BY DEF InfoAgrees
  <1>1. Present(overlay, a) /\ SoundInfo(overlay, world, a)
    BY DEF ForkedInv, CurrentSound, Sound, SoundAt, Trusted
  <1> QED
    BY <1>1 DEF Present, SoundInfo, InfoOf

LEMMA StorageFollows == ForkedInv => StorageAgrees
  <1> SUFFICES ASSUME ForkedInv, ~lastErr, NEW a \in Accounts, NEW k \in Keys, Followed(a)
               PROVE  /\ StateOf(a, k) = world.storage[a][k]
                      /\ ~reverted => CommittedOf(a, k) = world.settled[a][k]
    BY DEF StorageAgrees, CurrentAgrees, CommittedAgrees
  <1>1. /\ Present(overlay, a) /\ SoundSlots(overlay, world, a)
        /\ ~reverted => SoundSettled(overlay, world, a)
    BY DEF ForkedInv, CurrentSound, Sound, SoundAt, Followed, Trusted, Keeps
  <1>2. /\ DbGetState(overlay, a, k) = ValueOf(overlay.object[a], k)
        /\ DbGetCommittedState(overlay, a, k) = overlay.object[a].settled[k]
    BY <1>1, StateIs
  <1>3. StateOf(a, k) = world.storage[a][k]
    BY <1>1, <1>2 DEF SoundSlots, StateOf, ValueOf
  <1>4. ~reverted => CommittedOf(a, k) = world.settled[a][k]
    BY <1>1, <1>2 DEF SoundSettled, CommittedOf, AsksAgain
  <1> QED
    BY <1>3, <1>4

\* Type correctness: snapshots are as many as open frames, all bounds are kept.
THEOREM ForkedTypeCorrect == Spec => []TypeOK
  BY ForkedInvariance, PTL DEF ForkedInv

\* Balances, codes and nonces are those the EVM means, after any sequence of
\* inheritances, changes, calls, reverts and transactions.
THEOREM InfoAgreesHolds == Spec => []InfoAgrees
  BY ForkedInvariance, InfoFollows, PTL

\* GetState gives what the EVM means by a slot after any sequence of operations, calls,
\* reverts and transactions; GetCommittedState gives its value before the transaction as
\* long as no inner call has ever been undone, and nothing is said of it afterwards.
THEOREM StorageAgreesHolds == Spec => []StorageAgrees
  BY ForkedInvariance, StorageFollows, PTL

LEMMA FailuresStep == ForkedInv => (Accept /\ ~undone => ~failed)
  <1> SUFFICES ASSUME ForkedInv, Accept, ~undone PROVE ~failed
    OBVIOUS
  <1>1. Running /\ ~lastErr
    BY Typed DEF Accept
  <1> QED
    BY <1>1 DEF ForkedInv, FailureKept

\* ApplyTx accepts no transaction in which a request failed, unless a call of that
\* very transaction was undone, whatever was undone in transactions before it.
THEOREM FailuresSeenHolds == Spec => FailuresSeen
  <1>1. ForkedInv /\ [Next]_vars => [Accept /\ ~undone => ~failed]_vars
    BY FailuresStep
  <1> QED
    BY <1>1, ForkedInvariance, PTL DEF Spec, FailuresSeen

-----------------------------------------------------------------------------
(* The lists of snapshots.                                                 *)

\* States not yet in use have no frames.
NoFrames == \A s \in States \ live : frames[s] = << >>

ListInv == ListTypeOK /\ Unshared /\ PrefixLists /\ NoFrames


LEMMA PopProperties ==
  ASSUME NEW S, NEW q \in Seq(S), q # << >>
  PROVE  /\ Pop(q) \in Seq(S)
         /\ Len(q) \in Nat \ {0} /\ Len(Pop(q)) = Len(q) - 1
         /\ \A i \in 1 .. Len(q) - 1 : Pop(q)[i] = q[i]
  <1>1. Len(q) \in Nat \ {0} /\ Len(q) \in 1 .. Len(q)
    BY EmptySeq
  <1> QED
    BY <1>1, PrefixProperties DEF Pop

LEMMA PrefixOfPrefix ==
  ASSUME NEW S, NEW q \in Seq(S), NEW p \in 1 .. Len(q), NEW r \in 1 .. p - 1
  PROVE  SubSeq(SubSeq(q, 1, p - 1), 1, r - 1) = SubSeq(q, 1, r - 1)
  <1> DEFINE u == SubSeq(q, 1, p - 1)
  <1>1. u \in Seq(S) /\ Len(u) = p - 1 /\ \A i \in 1 .. p - 1 : u[i] = q[i]
    BY PrefixProperties
  <1>2. /\ SubSeq(u, 1, r - 1) \in Seq(S) /\ Len(SubSeq(u, 1, r - 1)) = r - 1
        /\ \A i \in 1 .. r - 1 : SubSeq(u, 1, r - 1)[i] = u[i]
    BY <1>1, PrefixProperties
  <1>3. /\ SubSeq(q, 1, r - 1) \in Seq(S) /\ Len(SubSeq(q, 1, r - 1)) = r - 1
        /\ \A i \in 1 .. r - 1 : SubSeq(q, 1, r - 1)[i] = q[i]
    BY PrefixProperties
  <1> QED
    BY <1>1, <1>2, <1>3, SeqEqual

LEMMA PrefixOfAppend ==
  ASSUME NEW S, NEW q \in Seq(S), NEW x \in S, NEW p \in 1 .. Len(q) + 1
  PROVE  SubSeq(Append(q, x), 1, p - 1) = SubSeq(q, 1, p - 1)
  <1> DEFINE u == Append(q, x)
  <1>1. u \in Seq(S) /\ Len(u) = Len(q) + 1 /\ \A i \in 1 .. Len(q) : u[i] = q[i]
    BY AppendProperties
  <1>2. /\ SubSeq(u, 1, p - 1) \in Seq(S) /\ Len(SubSeq(u, 1, p - 1)) = p - 1
        /\ \A i \in 1 .. p - 1 : SubSeq(u, 1, p - 1)[i] = u[i]
    BY <1>1, PrefixProperties
  <1>3. /\ SubSeq(q, 1, p - 1) \in Seq(S) /\ Len(SubSeq(q, 1, p - 1)) = p - 1
        /\ \A i \in 1 .. p - 1 : SubSeq(q, 1, p - 1)[i] = q[i]
    <2>1. p - 1 \in Int /\ \A i \in 1 .. p - 1 : q[i] \in S
      BY ElementOfSeq
    <2>2. /\ SubSeq(q, 1, p - 1) \in Seq(S)
          /\ Len(SubSeq(q, 1, p - 1)) = IF 1 <= p - 1 THEN p - 1 - 1 + 1 ELSE 0
          /\ \A i \in 1 .. p - 1 - 1 + 1 : SubSeq(q, 1, p - 1)[i] = q[1 + i - 1]
      BY <2>1, SubSeqProperties
    <2> QED
      BY <2>2
  <1> QED
    BY <1>1, <1>2, <1>3, SeqEqual

LEMMA SeqSubset ==
  ASSUME NEW S, NEW T, S \subseteq T
  PROVE  Seq(S) \subseteq Seq(T)
  BY SeqMonotonic

-----------------------------------------------------------------------------
(* The invariant.                                                          *)

\* The domains of the sequences, and where a frame's snapshot is.
LEMMA Positions ==
  ASSUME ListTypeOK, PrefixLists, NEW s \in live
  PROVE  /\ s \in States /\ core[s] \in Cores
         /\ list[s] \in Seq(Numbers) /\ frames[s] \in Seq(Nat \ {0})
         /\ DOMAIN frames[s] = 1 .. Len(frames[s]) /\ DOMAIN list[s] = 1 .. Len(list[s])
         /\ \A p \in 1 .. Len(list[s]) : list[s][p] \in Numbers
         /\ \A i \in 1 .. Len(frames[s]) :
              /\ frames[s][i] \in 1 .. Len(list[s])
              /\ list[s][frames[s][i]] \in Numbers
              /\ CoreOf(s, i) \in Cores
  <1>1. s \in States /\ core[s] \in Cores
    BY DEF ListTypeOK
  <1>2. list[s] \in Seq(Numbers) /\ frames[s] \in Seq(Nat \ {0})
    BY <1>1 DEF ListTypeOK
  <1>3. DOMAIN frames[s] = 1 .. Len(frames[s]) /\ DOMAIN list[s] = 1 .. Len(list[s])
    BY <1>2
  <1>4. \A p \in 1 .. Len(list[s]) : list[s][p] \in Numbers
    BY <1>2, ElementOfSeq
  <1>5. ASSUME NEW i \in 1 .. Len(frames[s])
        PROVE  /\ frames[s][i] \in 1 .. Len(list[s])
               /\ list[s][frames[s][i]] \in Numbers
               /\ CoreOf(s, i) \in Cores
    <2>1. frames[s][i] \in 1 .. Len(list[s])
      BY <1>3 DEF PrefixLists
    <2>2. list[s][frames[s][i]] \in Numbers
      BY <2>1, <1>4
    <2>3. snapshots[list[s][frames[s][i]]] \in [core : Cores, list : Seq(Numbers)]
      BY <2>2, ElementOfSeq DEF ListTypeOK, Numbers
    <2> QED
      BY <2>1, <2>2, <2>3 DEF CoreOf
  <1> QED
    BY <1>1, <1>2, <1>3, <1>4, <1>5

LEMMA InitInvariant == ListInit => ListInv
  <1> SUFFICES ASSUME ListInit PROVE ListInv
    OBVIOUS
  <1>1. First \in States /\ Initial \in Contents
    BY StatesAssumption
  <1>2. contents \in Seq(Contents) /\ Len(contents) = 1
    BY <1>1 DEF ListInit
  <1>3. ListTypeOK
    BY <1>1, <1>2 DEF ListInit, ListTypeOK, Cores, Numbers
  <1>4. /\ live = {First} /\ NoFrames
        /\ \A s \in live : DOMAIN list[s] = {} /\ DOMAIN frames[s] = {}
    <2>1. DOMAIN << >> = {}
      OBVIOUS
    <2> QED
      BY <1>1, <2>1 DEF ListInit, NoFrames
  <1>5. Unshared /\ PrefixLists
    BY <1>4 DEF Unshared, PrefixLists
  <1> QED
    BY <1>3, <1>4, <1>5 DEF ListInv

LEMMA WriteKeeps ==
  ASSUME ListInv, NEW s \in States, NEW v \in Contents, Write(s, v)
  PROVE  ListInv'
  <1>1. contents' \in Seq(Contents) /\ Len(contents') = Len(contents)
    BY ExceptSeq DEF ListInv, ListTypeOK, Write, Cores
  <1>2. ListTypeOK'
    BY <1>1 DEF ListInv, ListTypeOK, Write, Cores, Numbers
  <1>3. Unshared' /\ PrefixLists' /\ NoFrames'
    BY DEF ListInv, Unshared, PrefixLists, NoFrames, CoreOf, Write
  <1> QED
    BY <1>2, <1>3 DEF ListInv

\* The new core and the new number of a snapshot are new to everything, and the
\* frames there are keep their snapshots.
LEMMA SnapshotAdds ==
  ASSUME ListInv, NEW s \in States, Snapshot(s)
  PROVE  /\ ListTypeOK'
         /\ contents' = Append(contents, contents[core[s]])
         /\ Cores \subseteq Cores' /\ Len(contents) + 1 \in Cores' \ Cores
         /\ \A m \in Numbers : snapshots'[m] = snapshots[m]
         /\ snapshots'[Len(snapshots) + 1] = [core |-> Len(contents) + 1, list |-> list[s]]
         /\ Len(snapshots) + 1 \in Numbers' /\ Numbers \subseteq Numbers'
         /\ Len(list'[s]) = Len(list[s]) + 1 /\ list'[s][Len(list[s]) + 1] = Len(snapshots) + 1
         /\ \A p \in 1 .. Len(list[s]) : list'[s][p] = list[s][p]
         /\ Len(frames'[s]) = Len(frames[s]) + 1
         /\ frames'[s][Len(frames[s]) + 1] = Len(list[s]) + 1
         /\ \A i \in 1 .. Len(frames[s]) : frames'[s][i] = frames[s][i]
         /\ \A t \in States \ {s} : list'[t] = list[t] /\ frames'[t] = frames[t]
         /\ \A t \in live : \A i \in 1 .. Len(frames[t]) :
              snapshots'[list'[t][frames'[t][i]]].core = CoreOf(t, i)
         /\ snapshots'[list'[s][frames'[s][Len(frames[s]) + 1]]].core = Len(contents) + 1
  <1> DEFINE n == Len(snapshots) + 1
             k == Len(contents) + 1
             f == Len(frames[s]) + 1
             snap == [core |-> k, list |-> list[s]]
             CoreNext(t, i) == snapshots'[list'[t][frames'[t][i]]].core
  <1>0. s \in live /\ ListTypeOK /\ PrefixLists
    BY DEF Snapshot, ListInv
  <1>1. /\ contents' \in Seq(Contents) /\ Len(contents') = k
        /\ Cores \subseteq Cores' /\ k \in Cores' \ Cores
    <2>1. contents[core[s]] \in Contents
      BY <1>0, Positions, ElementOfSeq DEF ListTypeOK, Cores
    <2> QED
      BY <1>0, <2>1, AppendProperties DEF ListTypeOK, Snapshot, CopyCore, Cores
  <1>2. /\ list[s] \in Seq(Numbers) /\ frames[s] \in Seq(Nat \ {0})
        /\ Len(list[s]) \in Nat /\ Len(frames[s]) \in Nat /\ Len(snapshots) \in Nat
    BY <1>0, Positions DEF ListTypeOK
  <1>3. /\ snapshots' = Append(snapshots, snap)
        /\ list' = [list EXCEPT ![s] = Append(list[s], n)]
        /\ frames' = [frames EXCEPT ![s] = Append(frames[s], Len(list[s]) + 1)]
        /\ UNCHANGED <<live, core>>
    BY DEF Snapshot
  <1>4. /\ Len(snapshots') = n /\ snapshots'[n] = snap
        /\ \A m \in Numbers : snapshots'[m] = snapshots[m]
        /\ Numbers \subseteq Numbers' /\ n \in Numbers'
    <2>1. snapshots \in Seq([core : Cores', list : Seq(Numbers)])
      <3>1. [core : Cores, list : Seq(Numbers)] \subseteq [core : Cores', list : Seq(Numbers)]
        BY <1>1
      <3> QED
        BY <1>0, <3>1, SeqSubset DEF ListTypeOK
    <2>2. snap \in [core : Cores', list : Seq(Numbers)]
      BY <1>1, <1>2
    <2> QED
      BY <1>3, <2>1, <2>2, AppendProperties DEF Numbers
  <1>5. ListTypeOK'
    <2>1. Seq(Numbers) \subseteq Seq(Numbers')
      BY <1>4, SeqSubset
    <2>2. list' \in [States -> Seq(Numbers')]
      <3>1. list[s] \in Seq(Numbers') /\ n \in Numbers'
        BY <1>2, <1>4, <2>1
      <3>2. Append(list[s], n) \in Seq(Numbers')
        BY <3>1, AppendProperties
      <3> QED
        BY <1>0, <1>3, <2>1, <3>2 DEF ListTypeOK
    <2>3. frames' \in [States -> Seq(Nat \ {0})]
      <3>1. Append(frames[s], Len(list[s]) + 1) \in Seq(Nat \ {0})
        BY <1>2, AppendProperties
      <3> QED
        BY <1>0, <1>3, <3>1 DEF ListTypeOK
    <2>4. snapshots' \in Seq([core : Cores', list : Seq(Numbers')])
      <3>1. [core : Cores, list : Seq(Numbers)] \subseteq [core : Cores', list : Seq(Numbers')]
        BY <1>1, <2>1
      <3>2. snapshots \in Seq([core : Cores', list : Seq(Numbers')])
        BY <1>0, <3>1, SeqSubset DEF ListTypeOK
      <3>3. snap \in [core : Cores', list : Seq(Numbers')]
        BY <1>1, <1>2, <2>1
      <3> QED
        BY <1>3, <3>2, <3>3, AppendProperties
    <2>5. live' \subseteq States /\ core' \in [States -> Cores']
      BY <1>0, <1>1, <1>3 DEF ListTypeOK
    <2> QED
      BY <1>1, <2>2, <2>3, <2>4, <2>5 DEF ListTypeOK
  <1>6. /\ Len(list'[s]) = Len(list[s]) + 1 /\ list'[s][Len(list[s]) + 1] = n
        /\ \A p \in 1 .. Len(list[s]) : list'[s][p] = list[s][p]
        /\ Len(frames'[s]) = f /\ frames'[s][f] = Len(list[s]) + 1
        /\ \A i \in 1 .. Len(frames[s]) : frames'[s][i] = frames[s][i]
        /\ \A t \in States \ {s} : list'[t] = list[t] /\ frames'[t] = frames[t]
    <2>1. list'[s] = Append(list[s], n) /\ frames'[s] = Append(frames[s], Len(list[s]) + 1)
      BY <1>0, <1>3 DEF ListTypeOK
    <2>2. list[s] \in Seq(Numbers') /\ n \in Numbers'
      BY <1>2, <1>4, SeqSubset
    <2> QED
      BY <1>0, <1>2, <1>3, <2>1, <2>2, AppendProperties DEF ListTypeOK
  <1>7. /\ \A t \in live : \A i \in 1 .. Len(frames[t]) : CoreNext(t, i) = CoreOf(t, i)
        /\ CoreNext(s, f) = k
    <2>1. ASSUME NEW t \in live, NEW i \in 1 .. Len(frames[t])
          PROVE  CoreNext(t, i) = CoreOf(t, i)
      <3>1. /\ t \in States /\ frames[t][i] \in 1 .. Len(list[t])
            /\ list[t][frames[t][i]] \in Numbers
        BY <1>0, Positions
      <3>2. frames'[t][i] = frames[t][i] /\ list'[t][frames[t][i]] = list[t][frames[t][i]]
        <4>1. CASE t = s
          <5>1. frames'[s][i] = frames[s][i]
            BY <1>6, <4>1
          <5>2. list'[s][frames[s][i]] = list[s][frames[s][i]]
            BY <1>6, <3>1, <4>1
          <5> QED
            BY <4>1, <5>1, <5>2
        <4>2. CASE t # s
          <5>1. frames'[t] = frames[t] /\ list'[t] = list[t]
            BY <1>6, <3>1, <4>2
          <5> QED
            BY <5>1
        <4> QED
          BY <4>1, <4>2
      <3> QED
        BY <1>4, <3>1, <3>2 DEF CoreOf
    <2>2. CoreNext(s, f) = k
      <3>1. list'[s][frames'[s][f]] = n
        BY <1>6
      <3> QED
        BY <1>4, <3>1
    <2> QED
      BY <2>1, <2>2
  <1>8. contents' = Append(contents, contents[core[s]])
    BY DEF Snapshot, CopyCore
  <1> QED
    BY <1>1, <1>4, <1>5, <1>6, <1>7, <1>8

LEMMA SnapshotKeeps ==
  ASSUME ListInv, NEW s \in States, Snapshot(s)
  PROVE  ListInv'
  <1> DEFINE n == Len(snapshots) + 1
             k == Len(contents) + 1
             f == Len(frames[s]) + 1
             snap == [core |-> k, list |-> list[s]]
             CoreNext(t, i) == snapshots'[list'[t][frames'[t][i]]].core
  <1>0. s \in live /\ ListTypeOK /\ PrefixLists
    BY DEF Snapshot, ListInv
  <1>1. Cores \subseteq Cores' /\ k \in Cores' \ Cores
    BY SnapshotAdds
  <1>2. /\ list[s] \in Seq(Numbers) /\ frames[s] \in Seq(Nat \ {0})
        /\ Len(list[s]) \in Nat /\ Len(frames[s]) \in Nat /\ Len(snapshots) \in Nat
    BY <1>0, Positions DEF ListTypeOK
  <1>3. /\ snapshots' = Append(snapshots, snap)
        /\ list' = [list EXCEPT ![s] = Append(list[s], n)]
        /\ frames' = [frames EXCEPT ![s] = Append(frames[s], Len(list[s]) + 1)]
        /\ UNCHANGED <<live, core>>
    BY DEF Snapshot
  <1>4. /\ snapshots'[n] = snap
        /\ \A m \in Numbers : snapshots'[m] = snapshots[m]
        /\ Numbers \subseteq Numbers' /\ n \in Numbers'
    BY SnapshotAdds
  <1>5. ListTypeOK'
    BY SnapshotAdds
  <1>6. /\ Len(list'[s]) = Len(list[s]) + 1 /\ list'[s][Len(list[s]) + 1] = n
        /\ \A p \in 1 .. Len(list[s]) : list'[s][p] = list[s][p]
        /\ Len(frames'[s]) = f /\ frames'[s][f] = Len(list[s]) + 1
        /\ \A i \in 1 .. Len(frames[s]) : frames'[s][i] = frames[s][i]
        /\ \A t \in States \ {s} : list'[t] = list[t] /\ frames'[t] = frames[t]
    BY SnapshotAdds
  <1>7. /\ \A t \in live : \A i \in 1 .. Len(frames[t]) : CoreNext(t, i) = CoreOf(t, i)
        /\ CoreNext(s, f) = k
    BY SnapshotAdds
  <1>8. Unshared'
    <2>1. \A t \in live : core'[t] = core[t] /\ core[t] \in Cores
      BY <1>0, <1>3, Positions
    <2>2. \A t \in live : \A i \in 1 .. Len(frames[t]) : CoreOf(t, i) \in Cores
      BY <1>0, Positions
    <2> DEFINE bound(t) == IF t = s THEN f ELSE Len(frames[t])
    <2>3. \A t \in live : DOMAIN frames'[t] = 1 .. bound(t)
      <3>1. ASSUME NEW t \in live PROVE frames'[t] \in Seq(Nat \ {0})
        BY <1>5, <1>0 DEF ListTypeOK
      <3> QED
        BY <1>0, <1>6, <3>1 DEF ListTypeOK
    <2>4. Unshared /\ \A t \in live : DOMAIN frames[t] = 1 .. Len(frames[t])
      BY <1>0, Positions DEF ListInv
    <2>5. ASSUME NEW t \in live, NEW i \in 1 .. bound(t)
          PROVE  \/ i \in 1 .. Len(frames[t]) /\ CoreNext(t, i) = CoreOf(t, i)
                 \/ t = s /\ i = f /\ CoreNext(t, i) = k
      <3>1. CASE t = s
        <4>1. i \in 1 .. Len(frames[s]) \/ i = f
          BY <1>2, <3>1
        <4> QED
          BY <1>0, <1>7, <3>1, <4>1
      <3>2. CASE t # s
        BY <1>7, <3>2
      <3> QED
        BY <3>1, <3>2
    <2>6. ASSUME NEW t \in live, NEW u \in live, NEW i \in 1 .. bound(t)
          PROVE  /\ CoreNext(t, i) # core'[u]
                 /\ \A j \in 1 .. bound(u) : CoreNext(t, i) = CoreNext(u, j) => t = u /\ i = j
      <3>1. CoreNext(t, i) # core'[u]
        BY <1>1, <2>1, <2>4, <2>5 DEF Unshared
      <3>2. ASSUME NEW j \in 1 .. bound(u), CoreNext(t, i) = CoreNext(u, j)
            PROVE  t = u /\ i = j
        <4> HIDE DEF CoreNext, bound
        <4>1. CASE i \in 1 .. Len(frames[t]) /\ CoreNext(t, i) = CoreOf(t, i)
          <5>1. CoreOf(t, i) \in Cores
            BY <2>2, <4>1
          <5>2. j \in 1 .. Len(frames[u]) /\ CoreNext(u, j) = CoreOf(u, j)
            <6>1. k \notin Cores /\ CoreNext(u, j) # k
              BY <1>1, <3>2, <4>1, <5>1
            <6> QED
              BY <2>5, <6>1
          <5>3. i \in DOMAIN frames[t] /\ j \in DOMAIN frames[u]
            BY <2>4, <4>1, <5>2
          <5>4. CoreOf(t, i) = CoreOf(u, j)
            BY <3>2, <4>1, <5>2
          <5> QED
            BY <2>4, <5>3, <5>4 DEF Unshared
        <4>2. CASE t = s /\ i = f /\ CoreNext(t, i) = k
          <5>1. CoreNext(u, j) \notin Cores
            BY <1>1, <3>2, <4>2
          <5>2. u = s /\ j = f
            BY <2>2, <2>5, <5>1
          <5> QED
            BY <4>2, <5>2
        <4> QED
          BY <2>5, <4>1, <4>2
      <3> QED
        BY <3>1, <3>2
    <2>7. \A t, u \in live : t # u => core'[t] # core'[u]
      BY <2>1, <2>4 DEF Unshared
    <2> QED
      <3>1. ASSUME NEW t \in live, NEW u \in live, NEW i \in DOMAIN frames'[t]
            PROVE  /\ CoreNext(t, i) # core'[u]
                   /\ \A j \in DOMAIN frames'[u] :
                        CoreNext(t, i) = CoreNext(u, j) => t = u /\ i = j
        <4> HIDE DEF CoreNext, bound
        <4>1. i \in 1 .. bound(t) /\ DOMAIN frames'[u] = 1 .. bound(u)
          BY <2>3
        <4>2. CoreNext(t, i) # core'[u]
          BY <2>6, <4>1
        <4>3. ASSUME NEW j \in DOMAIN frames'[u], CoreNext(t, i) = CoreNext(u, j)
              PROVE  t = u /\ i = j
          BY <2>6, <4>1, <4>3
        <4> QED
          BY <4>2, <4>3
      <3>2. live' = live
        BY <1>3
      <3>3. \A t, u \in live :
              /\ t # u => core'[t] # core'[u]
              /\ \A i \in DOMAIN frames'[t] :
                   /\ CoreNext(t, i) # core'[u]
                   /\ \A j \in DOMAIN frames'[u] :
                        CoreNext(t, i) = CoreNext(u, j) => t = u /\ i = j
        BY <2>7, <3>1
      <3> QED
        BY <3>2, <3>3 DEF Unshared, CoreOf
  <1>9. PrefixLists'
    <2>1. ASSUME NEW t \in live, t # s
          PROVE  /\ \A p \in DOMAIN list'[t] :
                      snapshots'[list'[t][p]].list = SubSeq(list'[t], 1, p - 1)
                 /\ \A i \in DOMAIN frames'[t] : frames'[t][i] \in DOMAIN list'[t]
                 /\ \A i, j \in DOMAIN frames'[t] : i < j => frames'[t][i] < frames'[t][j]
      <3>1. list'[t] = list[t] /\ frames'[t] = frames[t]
        BY <1>0, <1>6, <2>1 DEF ListTypeOK
      <3>2. \A p \in DOMAIN list[t] : list[t][p] \in Numbers
        BY <1>0, Positions
      <3> QED
        BY <1>0, <1>4, <3>1, <3>2 DEF PrefixLists
    <2>2. DOMAIN list'[s] = 1 .. Len(list[s]) + 1 /\ DOMAIN frames'[s] = 1 .. f
      <3>1. list'[s] \in Seq(Numbers') /\ frames'[s] \in Seq(Nat \ {0})
        BY <1>0, <1>5 DEF ListTypeOK
      <3> QED
        BY <1>6, <3>1
    <2>3. ASSUME NEW p \in DOMAIN list'[s]
          PROVE  snapshots'[list'[s][p]].list = SubSeq(list'[s], 1, p - 1)
      <3>1. p \in 1 .. Len(list[s]) + 1
        BY <2>2
      <3>2. SubSeq(list'[s], 1, p - 1) = SubSeq(list[s], 1, p - 1)
        <4>1. list[s] \in Seq(Numbers') /\ n \in Numbers' /\ list'[s] = Append(list[s], n)
          BY <1>0, <1>2, <1>3, <1>4, SeqSubset DEF ListTypeOK
        <4> QED
          BY <3>1, <4>1, PrefixOfAppend
      <3>3. CASE p = Len(list[s]) + 1
        <4>1. snapshots'[list'[s][p]].list = list[s]
          BY <1>4, <1>6, <3>3
        <4>2. SubSeq(list[s], 1, p - 1) = list[s]
          BY <1>2, <3>3, SubSeqFull
        <4> QED
          BY <3>2, <4>1, <4>2
      <3>4. CASE p \in 1 .. Len(list[s])
        <4>1. list'[s][p] = list[s][p] /\ list[s][p] \in Numbers
          BY <1>0, <1>6, <3>4, Positions
        <4>2. snapshots[list[s][p]].list = SubSeq(list[s], 1, p - 1)
          BY <1>0, <3>4, Positions DEF PrefixLists
        <4> QED
          BY <1>4, <3>2, <4>1, <4>2
      <3> QED
        BY <1>2, <3>1, <3>3, <3>4
    <2>4. ASSUME NEW i \in 1 .. f PROVE frames'[s][i] \in DOMAIN list'[s]
      <3>1. \A q \in 1 .. Len(frames[s]) : frames[s][q] \in 1 .. Len(list[s])
        BY <1>0, Positions
      <3> QED
        <4>1. CASE i = f
          BY <1>2, <1>6, <2>2, <4>1
        <4>2. CASE i \in 1 .. Len(frames[s])
          <5>1. frames'[s][i] = frames[s][i]
            BY <1>6, <4>2
          <5>2. frames[s][i] \in 1 .. Len(list[s])
            BY <3>1, <4>2
          <5>3. DOMAIN list'[s] = 1 .. Len(list[s]) + 1
            BY <2>2
          <5> QED
            BY <1>2, <5>1, <5>2, <5>3
        <4>3. i = f \/ i \in 1 .. Len(frames[s])
          <5>1. f = Len(frames[s]) + 1 /\ Len(frames[s]) \in Nat
            BY <1>2
          <5> HIDE DEF f
          <5> QED
            BY <2>4, <5>1
        <4> QED
          BY <4>1, <4>2, <4>3
    <2>5. ASSUME NEW i \in 1 .. f, NEW j \in 1 .. f, i < j
          PROVE  frames'[s][i] < frames'[s][j]
      <3>1. \A q \in 1 .. Len(frames[s]) : frames[s][q] \in 1 .. Len(list[s])
        BY <1>0, Positions
      <3>2. \A q, r \in 1 .. Len(frames[s]) : q < r => frames[s][q] < frames[s][r]
        BY <1>0, Positions DEF PrefixLists
      <3> QED
        <4>1. CASE j = f
          <5>1. i \in 1 .. Len(frames[s]) /\ frames'[s][i] = frames[s][i]
            <6>1. f = Len(frames[s]) + 1 /\ Len(frames[s]) \in Nat
              BY <1>2
            <6>2. i \in 1 .. Len(frames[s])
              <7> HIDE DEF f
              <7> QED
                BY <2>5, <4>1, <6>1
            <6> QED
              BY <1>6, <6>2
          <5>2. frames[s][i] \in 1 .. Len(list[s])
            BY <3>1, <5>1
          <5>3. frames'[s][j] = Len(list[s]) + 1 /\ Len(list[s]) \in Nat
            BY <1>2, <1>6, <4>1
          <5> QED
            BY <5>1, <5>2, <5>3
        <4>2. CASE j \in 1 .. Len(frames[s])
          <5>1. i \in 1 .. Len(frames[s])
            BY <1>2, <2>2, <2>5, <4>2
          <5> QED
            BY <1>6, <2>5, <3>2, <4>2, <5>1
        <4>3. j = f \/ j \in 1 .. Len(frames[s])
          <5>1. f = Len(frames[s]) + 1 /\ Len(frames[s]) \in Nat
            BY <1>2
          <5> HIDE DEF f
          <5> QED
            BY <2>5, <5>1
        <4> QED
          BY <4>1, <4>2, <4>3
    <2> QED
      BY <1>3, <2>1, <2>2, <2>3, <2>4, <2>5 DEF PrefixLists
  <1>10. NoFrames'
    BY <1>0, <1>3, <1>6 DEF ListInv, NoFrames
  <1> QED
    BY <1>5, <1>8, <1>9, <1>10 DEF ListInv

\* The frames that are left when the last frame of s ends.
LEMMA PopFrames ==
  ASSUME ListTypeOK, NEW s \in live, frames[s] # << >>, frames' = [frames EXCEPT ![s] = Pop(@)]
  PROVE  /\ frames' \in [States -> Seq(Nat \ {0})]
         /\ \A t \in States :
              /\ DOMAIN frames'[t] \subseteq DOMAIN frames[t]
              /\ \A i \in DOMAIN frames'[t] : frames'[t][i] = frames[t][i]
         /\ Len(frames[s]) \in DOMAIN frames[s] /\ Len(frames[s]) \in Nat \ {0}
         /\ DOMAIN frames'[s] = 1 .. Len(frames[s]) - 1
  <1>1. s \in States /\ frames[s] \in Seq(Nat \ {0})
    BY DEF ListTypeOK
  <1>2. /\ Pop(frames[s]) \in Seq(Nat \ {0})
        /\ Len(frames[s]) \in Nat \ {0} /\ Len(Pop(frames[s])) = Len(frames[s]) - 1
        /\ \A i \in 1 .. Len(frames[s]) - 1 : Pop(frames[s])[i] = frames[s][i]
    BY <1>1, PopProperties
  <1>3. frames'[s] = Pop(frames[s]) /\ \A t \in States \ {s} : frames'[t] = frames[t]
    BY <1>1 DEF ListTypeOK
  <1>4. /\ DOMAIN frames[s] = 1 .. Len(frames[s])
        /\ DOMAIN Pop(frames[s]) = 1 .. Len(frames[s]) - 1
    BY <1>1, <1>2
  <1>5. frames' \in [States -> Seq(Nat \ {0})]
    BY <1>1, <1>2 DEF ListTypeOK
  <1>6. ASSUME NEW t \in States
        PROVE  /\ DOMAIN frames'[t] \subseteq DOMAIN frames[t]
               /\ \A i \in DOMAIN frames'[t] : frames'[t][i] = frames[t][i]
    <2>1. CASE t = s
      <3>1. DOMAIN frames'[s] = 1 .. Len(frames[s]) - 1
        BY <1>3, <1>4
      <3>2. 1 .. Len(frames[s]) - 1 \subseteq 1 .. Len(frames[s])
        BY <1>2
      <3> QED
        BY <1>2, <1>3, <1>4, <2>1, <3>1, <3>2
    <2>2. CASE t # s
      BY <1>3, <2>2
    <2> QED
      BY <2>1, <2>2
  <1>7. Len(frames[s]) \in DOMAIN frames[s]
    BY <1>2, <1>4
  <1> QED
    BY <1>2, <1>3, <1>4, <1>5, <1>6, <1>7

LEMMA ReturnKeeps ==
  ASSUME ListInv, NEW s \in States, Return(s)
  PROVE  ListInv'
  <1>0. s \in live /\ ListTypeOK /\ Unshared /\ PrefixLists /\ NoFrames
    BY DEF Return, ListInv
  <1>1. UNCHANGED <<live, core, list, snapshots, contents>>
    BY DEF Return
  <1>2. /\ frames' \in [States -> Seq(Nat \ {0})]
        /\ \A t \in States :
             /\ DOMAIN frames'[t] \subseteq DOMAIN frames[t]
             /\ \A i \in DOMAIN frames'[t] : frames'[t][i] = frames[t][i]
    BY <1>0, PopFrames DEF Return
  <1>3. ListTypeOK'
    BY <1>0, <1>1, <1>2 DEF ListTypeOK, Cores, Numbers
  <1>4. live \subseteq States
    BY <1>0 DEF ListTypeOK
  <1>5. Unshared'
    <2>1. ASSUME NEW t \in live, NEW i \in DOMAIN frames'[t]
          PROVE  /\ i \in DOMAIN frames[t]
                 /\ snapshots'[list'[t][frames'[t][i]]].core = CoreOf(t, i)
      BY <1>1, <1>2, <1>4 DEF CoreOf
    <2>2. ASSUME NEW t \in live, NEW u \in live, NEW i \in DOMAIN frames'[t]
          PROVE  /\ CoreOf(t, i) # core[u]
                 /\ \A j \in DOMAIN frames'[u] : CoreOf(t, i) = CoreOf(u, j) => t = u /\ i = j
      BY <1>0, <2>1 DEF Unshared
    <2>3. \A t, u \in live : t # u => core'[t] # core'[u]
      BY <1>0, <1>1 DEF Unshared
    <2> QED
      BY <1>1, <2>1, <2>2, <2>3 DEF Unshared, CoreOf
  <1>6. PrefixLists'
    <2> SUFFICES ASSUME NEW t \in live
                 PROVE  /\ \A p \in DOMAIN list[t] :
                             snapshots[list[t][p]].list = SubSeq(list[t], 1, p - 1)
                        /\ \A i \in DOMAIN frames'[t] : frames'[t][i] \in DOMAIN list[t]
                        /\ \A i, j \in DOMAIN frames'[t] :
                             i < j => frames'[t][i] < frames'[t][j]
      BY <1>1 DEF PrefixLists
    <2>1. /\ DOMAIN frames'[t] \subseteq DOMAIN frames[t]
          /\ \A i \in DOMAIN frames'[t] : frames'[t][i] = frames[t][i]
      BY <1>2, <1>4
    <2> QED
      BY <1>0, <2>1 DEF PrefixLists
  <1>7. NoFrames'
    BY <1>0, <1>1 DEF NoFrames, Return, ListTypeOK
  <1> QED
    BY <1>3, <1>5, <1>6, <1>7 DEF ListInv

\* What a revert finds: the core of the last frame, and the list before its
\* snapshot, in which the outer frames have the snapshots they had.
LEMMA RevertFinds ==
  ASSUME ListInv, NEW s \in States, RevertToSnapshot(s)
  PROVE  /\ core' = [core EXCEPT ![s] = CoreOf(s, Len(frames[s]))]
         /\ list' = [list EXCEPT ![s] = SubSeq(list[s], 1, Top(s) - 1)]
         /\ Top(s) \in 1 .. Len(list[s]) /\ CoreOf(s, Len(frames[s])) \in Cores
         /\ \A t \in live : \A i \in DOMAIN frames'[t] :
              /\ frames'[t][i] \in 1 .. Len(list'[t])
              /\ snapshots'[list'[t][frames'[t][i]]].core = CoreOf(t, i)
  <1>0. s \in live /\ ListTypeOK /\ Unshared /\ PrefixLists
    BY DEF RevertToSnapshot, ListInv
  <1>1. UNCHANGED <<live, snapshots, contents>> /\ frames[s] # << >>
    BY DEF RevertToSnapshot
  <1> DEFINE n == Len(frames[s])
  <1>2. /\ \A t \in States :
             /\ DOMAIN frames'[t] \subseteq DOMAIN frames[t]
             /\ \A i \in DOMAIN frames'[t] : frames'[t][i] = frames[t][i]
        /\ n \in DOMAIN frames[s] /\ n \in Nat \ {0} /\ DOMAIN frames'[s] = 1 .. n - 1
    BY <1>0, PopFrames DEF RevertToSnapshot
  <1>3. /\ Top(s) \in 1 .. Len(list[s]) /\ CoreOf(s, n) \in Cores
        /\ list[s] \in Seq(Numbers)
        /\ DOMAIN list[s] = 1 .. Len(list[s]) /\ DOMAIN frames[s] = 1 .. n
    BY <1>0, <1>2, Positions DEF Top
  <1>4. core' = [core EXCEPT ![s] = CoreOf(s, n)]
    BY DEF RevertToSnapshot, CoreOf, Top
  <1>5. list' = [list EXCEPT ![s] = SubSeq(list[s], 1, Top(s) - 1)]
    <2>1. snapshots[list[s][Top(s)]].list = SubSeq(list[s], 1, Top(s) - 1)
      BY <1>0, <1>3 DEF PrefixLists
    <2> QED
      BY <2>1 DEF RevertToSnapshot
  <1>6. /\ list'[s] = SubSeq(list[s], 1, Top(s) - 1) /\ Len(list'[s]) = Top(s) - 1
        /\ \A p \in 1 .. Top(s) - 1 : list'[s][p] = list[s][p]
        /\ \A t \in States \ {s} : list'[t] = list[t]
    <2>1. list'[s] = SubSeq(list[s], 1, Top(s) - 1) /\ \A t \in States \ {s} : list'[t] = list[t]
      BY <1>5, <1>0 DEF ListTypeOK
    <2> QED
      BY <1>3, <2>1, PrefixProperties
  <1>7. ASSUME NEW t \in live, NEW i \in DOMAIN frames'[t]
        PROVE  /\ frames'[t][i] \in 1 .. Len(list'[t])
               /\ snapshots'[list'[t][frames'[t][i]]].core = CoreOf(t, i)
    <2>1. t \in States
      BY <1>0 DEF ListTypeOK
    <2>2. i \in DOMAIN frames[t] /\ frames'[t][i] = frames[t][i]
      BY <1>2, <2>1
    <2>3. frames[t][i] \in 1 .. Len(list[t])
      BY <1>0, <2>2, Positions
    <2>4. CASE t = s
      <3>1. i \in 1 .. n - 1 /\ i < n
        BY <1>2, <2>4
      <3>2. frames[s][i] < Top(s)
        BY <1>0, <1>2, <2>2, <2>4, <3>1 DEF PrefixLists, Top
      <3>3. frames[s][i] \in 1 .. Top(s) - 1
        BY <1>3, <2>3, <2>4, <3>2
      <3> QED
        BY <1>1, <1>6, <2>2, <2>4, <3>3 DEF CoreOf
    <2>5. CASE t # s
      <3>1. list'[t] = list[t]
        BY <1>6, <2>1, <2>5
      <3> QED
        BY <1>1, <2>2, <2>3, <3>1 DEF CoreOf
    <2> QED
      BY <2>4, <2>5
  <1> QED
    BY <1>3, <1>4, <1>5, <1>7

LEMMA RevertKeeps ==
  ASSUME ListInv, NEW s \in States, RevertToSnapshot(s)
  PROVE  ListInv'
  <1>0. s \in live /\ ListTypeOK /\ Unshared /\ PrefixLists /\ NoFrames /\ live \subseteq States
    BY DEF RevertToSnapshot, ListInv, ListTypeOK
  <1>1. UNCHANGED <<live, snapshots, contents>> /\ frames[s] # << >>
    BY DEF RevertToSnapshot
  <1> DEFINE n == Len(frames[s])
             CoreNext(t, i) == snapshots'[list'[t][frames'[t][i]]].core
  <1>2. /\ frames' \in [States -> Seq(Nat \ {0})]
        /\ \A t \in States :
             /\ DOMAIN frames'[t] \subseteq DOMAIN frames[t]
             /\ \A i \in DOMAIN frames'[t] : frames'[t][i] = frames[t][i]
        /\ n \in DOMAIN frames[s] /\ n \in Nat \ {0} /\ DOMAIN frames'[s] = 1 .. n - 1
    BY <1>0, PopFrames DEF RevertToSnapshot
  <1>3. /\ core' = [core EXCEPT ![s] = CoreOf(s, n)]
        /\ list' = [list EXCEPT ![s] = SubSeq(list[s], 1, Top(s) - 1)]
        /\ Top(s) \in 1 .. Len(list[s]) /\ CoreOf(s, n) \in Cores
        /\ \A t \in live : \A i \in DOMAIN frames'[t] :
             /\ frames'[t][i] \in 1 .. Len(list'[t]) /\ CoreNext(t, i) = CoreOf(t, i)
    BY RevertFinds
  <1>4. list[s] \in Seq(Numbers) /\ DOMAIN list[s] = 1 .. Len(list[s])
    BY <1>0, Positions
  <1>5. /\ SubSeq(list[s], 1, Top(s) - 1) \in Seq(Numbers)
        /\ Len(SubSeq(list[s], 1, Top(s) - 1)) = Top(s) - 1
        /\ \A p \in 1 .. Top(s) - 1 : SubSeq(list[s], 1, Top(s) - 1)[p] = list[s][p]
    BY <1>3, <1>4, PrefixProperties
  <1>6. ListTypeOK'
    BY <1>0, <1>1, <1>2, <1>3, <1>5 DEF ListTypeOK, Cores, Numbers
  <1>7. /\ core'[s] = CoreOf(s, n) /\ list'[s] = SubSeq(list[s], 1, Top(s) - 1)
        /\ \A t \in States \ {s} : core'[t] = core[t] /\ list'[t] = list[t]
    BY <1>0, <1>3 DEF ListTypeOK
  <1>8. Unshared'
    <2>1. ASSUME NEW t \in live, NEW u \in live, t # u PROVE core'[t] # core'[u]
      BY <1>0, <1>2, <1>7, <2>1 DEF Unshared
    <2>2. ASSUME NEW t \in live, NEW u \in live, NEW i \in DOMAIN frames'[t]
          PROVE  /\ CoreNext(t, i) # core'[u]
                 /\ \A j \in DOMAIN frames'[u] :
                      CoreNext(t, i) = CoreNext(u, j) => t = u /\ i = j
      <3>1. i \in DOMAIN frames[t] /\ CoreNext(t, i) = CoreOf(t, i)
        BY <1>0, <1>2, <1>3
      <3>2. CoreOf(t, i) # core'[u]
        <4>1. CASE u = s
          <5>1. CoreOf(t, i) = CoreOf(s, n) => t = s /\ i = n
            BY <1>0, <1>2, <3>1 DEF Unshared
          <5>2. t = s => i # n
            BY <1>2
          <5> QED
            BY <1>7, <4>1, <5>1, <5>2
        <4>2. CASE u # s
          BY <1>0, <1>7, <3>1, <4>2 DEF Unshared
        <4> QED
          BY <4>1, <4>2
      <3>3. \A j \in DOMAIN frames'[u] : j \in DOMAIN frames[u] /\ CoreNext(u, j) = CoreOf(u, j)
        BY <1>0, <1>2, <1>3
      <3>4. \A j \in DOMAIN frames[u] : CoreOf(t, i) = CoreOf(u, j) => t = u /\ i = j
        BY <1>0, <3>1 DEF Unshared
      <3> HIDE DEF CoreNext
      <3> QED
        BY <3>1, <3>2, <3>3, <3>4
    <2> QED
      BY <1>1, <2>1, <2>2 DEF Unshared, CoreOf
  <1>9. PrefixLists'
    <2>1. ASSUME NEW t \in live, NEW p \in DOMAIN list'[t]
          PROVE  snapshots'[list'[t][p]].list = SubSeq(list'[t], 1, p - 1)
      <3>1. CASE t = s
        <4>1. p \in 1 .. Top(s) - 1 /\ p \in DOMAIN list[s] /\ list'[s][p] = list[s][p]
          BY <1>3, <1>4, <1>5, <1>7, <2>1, <3>1
        <4>2. SubSeq(list'[s], 1, p - 1) = SubSeq(list[s], 1, p - 1)
          BY <1>3, <1>4, <1>7, <4>1, PrefixOfPrefix
        <4>3. snapshots[list[s][p]].list = SubSeq(list[s], 1, p - 1)
          BY <1>0, <4>1 DEF PrefixLists
        <4> QED
          BY <1>1, <3>1, <4>1, <4>2, <4>3
      <3>2. CASE t # s
        <4>1. list'[t] = list[t]
          BY <1>0, <1>7, <3>2
        <4> QED
          BY <1>0, <1>1, <4>1 DEF PrefixLists
      <3> QED
        BY <3>1, <3>2
    <2>2. ASSUME NEW t \in live, NEW i \in DOMAIN frames'[t]
          PROVE  frames'[t][i] \in DOMAIN list'[t]
      <3>1. list'[t] \in Seq(Numbers')
        BY <1>0, <1>6 DEF ListTypeOK
      <3> QED
        BY <1>3, <3>1
    <2>3. ASSUME NEW t \in live, NEW i \in DOMAIN frames'[t], NEW j \in DOMAIN frames'[t], i < j
          PROVE  frames'[t][i] < frames'[t][j]
      BY <1>0, <1>2, <2>3 DEF PrefixLists
    <2> QED
      BY <1>1, <2>1, <2>2, <2>3 DEF PrefixLists
  <1>10. NoFrames'
    BY <1>0, <1>1 DEF NoFrames, RevertToSnapshot, ListTypeOK
  <1> QED
    BY <1>6, <1>8, <1>9, <1>10 DEF ListInv

LEMMA CopyKeeps ==
  ASSUME ListInv, NEW s \in States, NEW t \in States, CopyState(s, t)
  PROVE  ListInv'
  <1> DEFINE k == Len(contents) + 1
  <1>0. s \in live /\ t \notin live /\ ListTypeOK /\ Unshared /\ PrefixLists /\ NoFrames
    BY DEF CopyState, ListInv
  <1>1. /\ live' = live \cup {t} /\ UNCHANGED <<frames, snapshots>>
        /\ core' = [core EXCEPT ![t] = k] /\ list' = [list EXCEPT ![t] = list[s]]
    BY DEF CopyState
  <1>2. /\ contents' \in Seq(Contents) /\ Len(contents') = k
        /\ Cores \subseteq Cores' /\ k \in Cores' \ Cores
    <2>1. contents[core[s]] \in Contents
      BY <1>0, Positions, ElementOfSeq DEF ListTypeOK, Cores
    <2> QED
      BY <1>0, <2>1, AppendProperties DEF ListTypeOK, CopyState, CopyCore, Cores
  <1>3. ListTypeOK'
    <2>1. [core : Cores, list : Seq(Numbers)] \subseteq [core : Cores', list : Seq(Numbers)]
      BY <1>2
    <2>2. snapshots' \in Seq([core : Cores', list : Seq(Numbers)])
      BY <1>0, <1>1, <2>1, SeqSubset DEF ListTypeOK
    <2>3. Numbers' = Numbers
      BY <1>1 DEF Numbers
    <2>4. core' \in [States -> Cores'] /\ list' \in [States -> Seq(Numbers)]
      BY <1>0, <1>1, <1>2 DEF ListTypeOK
    <2> QED
      BY <1>0, <1>1, <1>2, <2>2, <2>3, <2>4 DEF ListTypeOK
  <1>4. /\ core'[t] = k /\ list'[t] = list[s] /\ frames'[t] = << >> /\ DOMAIN frames'[t] = {}
        /\ \A u \in live : core'[u] = core[u] /\ core[u] \in Cores /\ list'[u] = list[u]
    <2>1. frames'[t] = << >>
      BY <1>0, <1>1 DEF NoFrames
    <2>2. DOMAIN << >> = {}
      OBVIOUS
    <2>3. core'[t] = k /\ list'[t] = list[s]
      BY <1>0, <1>1 DEF ListTypeOK
    <2>4. \A u \in live : core'[u] = core[u] /\ core[u] \in Cores /\ list'[u] = list[u]
      BY <1>0, <1>1 DEF ListTypeOK
    <2> QED
      BY <2>1, <2>2, <2>3, <2>4
  <1>5. Unshared'
    <2>1. ASSUME NEW u \in live', NEW i \in DOMAIN frames'[u]
          PROVE  /\ u \in live /\ i \in DOMAIN frames[u] /\ CoreOf(u, i) \in Cores
                 /\ snapshots'[list'[u][frames'[u][i]]].core = CoreOf(u, i)
      <3>1. u \in live /\ i \in DOMAIN frames[u]
        BY <1>1, <1>4, <2>1
      <3>2. CoreOf(u, i) \in Cores
        BY <1>0, <3>1, Positions
      <3> QED
        BY <1>1, <1>4, <3>1, <3>2 DEF CoreOf
    <2>2. ASSUME NEW u \in live', NEW w \in live', u # w PROVE core'[u] # core'[w]
      BY <1>0, <1>1, <1>2, <1>4, <2>2 DEF Unshared
    <2>3. ASSUME NEW u \in live', NEW w \in live', NEW i \in DOMAIN frames'[u]
          PROVE  /\ CoreOf(u, i) # core'[w]
                 /\ \A j \in DOMAIN frames'[w] : CoreOf(u, i) = CoreOf(w, j) => u = w /\ i = j
      <3>1. CoreOf(u, i) # core'[w]
        <4>1. CASE w = t
          BY <1>2, <1>4, <2>1, <4>1
        <4>2. CASE w # t
          BY <1>0, <1>1, <1>4, <2>1, <4>2 DEF Unshared
        <4> QED
          BY <4>1, <4>2
      <3>2. \A j \in DOMAIN frames'[w] : w \in live /\ j \in DOMAIN frames[w]
        BY <2>1
      <3>3. \A j \in DOMAIN frames'[w] : CoreOf(u, i) = CoreOf(w, j) => u = w /\ i = j
        BY <1>0, <2>1, <3>2 DEF Unshared
      <3> QED
        BY <3>1, <3>3
    <2> QED
      BY <2>1, <2>2, <2>3 DEF Unshared, CoreOf
  <1>6. PrefixLists'
    <2>1. ASSUME NEW u \in live', NEW p \in DOMAIN list'[u]
          PROVE  snapshots'[list'[u][p]].list = SubSeq(list'[u], 1, p - 1)
      BY <1>0, <1>1, <1>4 DEF PrefixLists
    <2>2. ASSUME NEW u \in live'
          PROVE  /\ \A i \in DOMAIN frames'[u] : frames'[u][i] \in DOMAIN list'[u]
                 /\ \A i, j \in DOMAIN frames'[u] : i < j => frames'[u][i] < frames'[u][j]
      BY <1>0, <1>1, <1>4 DEF PrefixLists
    <2> QED
      BY <2>1, <2>2 DEF PrefixLists
  <1>7. NoFrames'
    BY <1>0, <1>1 DEF NoFrames
  <1> QED
    BY <1>3, <1>5, <1>6, <1>7 DEF ListInv

LEMMA NextInvariant == ListInv /\ [ListNext]_listVars => ListInv'
  <1> SUFFICES ASSUME ListInv, [ListNext]_listVars PROVE ListInv'
    OBVIOUS
  <1>1. CASE UNCHANGED listVars
    BY <1>1 DEF listVars, ListInv, ListTypeOK, Cores, Numbers, Unshared, PrefixLists, NoFrames, CoreOf
  <1>2. CASE ListNext
    <2>1. PICK s \in States :
            \/ \E v \in Contents : Write(s, v)
            \/ Snapshot(s) \/ Return(s) \/ RevertToSnapshot(s)
            \/ \E t \in States : CopyState(s, t)
      BY <1>2 DEF ListNext
    <2> QED
      BY <2>1, WriteKeeps, SnapshotKeeps, ReturnKeeps, RevertKeeps, CopyKeeps
  <1> QED
    BY <1>1, <1>2

\* The invariant holds in every reachable state.
THEOREM ListInvariance == ListSpec => []ListInv
  <1> QED
    BY InitInvariant, NextInvariant, PTL DEF ListSpec

\* forked.go keeps the snapshot of every open frame apart from all states and
\* from the snapshots of all other frames, copies included.
THEOREM UnsharedHolds == ListSpec => []Unshared
  <1>1. ListInv => Unshared
    BY DEF ListInv
  <1> QED
    BY <1>1, ListInvariance, PTL

\* The list a revert takes over ends right before the snapshot gone back to.
THEOREM PrefixListsHolds == ListSpec => []PrefixLists
  <1>1. ListInv => PrefixLists
    BY DEF ListInv
  <1> QED
    BY <1>1, ListInvariance, PTL

-----------------------------------------------------------------------------
(* The refinement of SnapshotStack.                                        *)

\* The contents and the saved contents a state has, as in the refinement mapping.
ContentOf(s) == IF s \in live THEN contents[core[s]] ELSE Initial
SavedOf(s) == [i \in DOMAIN frames[s] |-> contents[CoreOf(s, i)]]

LEMMA SavedSeq ==
  ASSUME ListInv, NEW s \in live
  PROVE  /\ SavedOf(s) \in Seq(Contents) /\ Len(SavedOf(s)) = Len(frames[s])
         /\ \A i \in 1 .. Len(frames[s]) : SavedOf(s)[i] = contents[CoreOf(s, i)]
         /\ contents[core[s]] \in Contents
  <1>1. ListTypeOK /\ PrefixLists
    BY DEF ListInv
  <1>2. /\ DOMAIN frames[s] = 1 .. Len(frames[s]) /\ Len(frames[s]) \in Nat
        /\ core[s] \in Cores /\ \A i \in 1 .. Len(frames[s]) : CoreOf(s, i) \in Cores
    BY <1>1, Positions
  <1>3. \A c \in Cores : contents[c] \in Contents
    BY <1>1, ElementOfSeq DEF ListTypeOK, Cores
  <1>4. SavedOf(s) \in [1 .. Len(frames[s]) -> Contents]
    BY <1>2, <1>3 DEF SavedOf
  <1>5. SavedOf(s) \in Seq(Contents)
    BY <1>2, <1>4, SeqDef
  <1>6. Len(SavedOf(s)) = Len(frames[s])
    BY <1>2, <1>4, <1>5, LenProperties
  <1> QED
    BY <1>2, <1>3, <1>5, <1>6 DEF SavedOf

LEMMA InitRefines == ListInit => Stack!Init
  <1> SUFFICES ASSUME ListInit PROVE Stack!Init
    OBVIOUS
  <1>1. \A s \in States : ContentOf(s) = Initial
    BY DEF ListInit, ContentOf
  <1>2. \A s \in States : SavedOf(s) = << >>
    <2>1. DOMAIN << >> = {} /\ << >> \in Seq(Contents)
      OBVIOUS
    <2> SUFFICES ASSUME NEW s \in States PROVE SavedOf(s) = << >>
      OBVIOUS
    <2>2. SavedOf(s) \in [1 .. 0 -> Contents]
      BY <2>1 DEF ListInit, SavedOf
    <2>3. SavedOf(s) \in Seq(Contents)
      BY <2>2, SeqDef
    <2> QED
      BY <2>2, <2>3, EmptySeq, LenProperties
  <1>3. live = {First}
    BY DEF ListInit
  <1> QED
    BY <1>1, <1>2, <1>3 DEF Stack!Init, ContentOf, SavedOf

LEMMA WriteRefines ==
  ASSUME ListInv, NEW s \in States, NEW v \in Contents, Write(s, v)
  PROVE  Stack!Write(s, v)
  <1>0. s \in live /\ ListTypeOK /\ Unshared /\ PrefixLists
    BY DEF Write, ListInv
  <1>1. UNCHANGED <<live, core, list, frames, snapshots>>
    BY DEF Write
  <1>2. \A c \in Cores : contents'[c] = IF c = core[s] THEN v ELSE contents[c]
    <2>1. core[s] \in Cores /\ contents' = [contents EXCEPT ![core[s]] = v]
      BY <1>0 DEF Write, ListTypeOK
    <2> QED
      BY <1>0, <2>1 DEF ListTypeOK, Cores
  <1>3. \A t \in States : ContentOf(t)' = IF t = s THEN v ELSE ContentOf(t)
    BY <1>0, <1>1, <1>2 DEF ContentOf, Unshared, ListTypeOK
  <1>4. \A t \in States : SavedOf(t)' = SavedOf(t)
    <2> SUFFICES ASSUME NEW t \in States PROVE SavedOf(t)' = SavedOf(t)
      OBVIOUS
    <2>1. \A i \in DOMAIN frames[t] : contents'[CoreOf(t, i)] = contents[CoreOf(t, i)]
      <3>1. CASE t \in live
        BY <1>0, <1>2, <3>1, Positions DEF Unshared
      <3>2. CASE t \notin live
        <4>1. DOMAIN frames[t] = {}
          BY <3>2 DEF ListInv, NoFrames
        <4> QED
          BY <4>1
      <3> QED
        BY <3>1, <3>2
    <2> QED
      BY <1>1, <2>1 DEF SavedOf, CoreOf
  <1>5. [t \in States |-> ContentOf(t)]' = [[t \in States |-> ContentOf(t)] EXCEPT ![s] = v]
    BY <1>3
  <1>6. [t \in States |-> SavedOf(t)]' = [t \in States |-> SavedOf(t)]
    BY <1>4
  <1> QED
    BY <1>0, <1>1, <1>5, <1>6 DEF Stack!Write, ContentOf, SavedOf

LEMMA SnapshotRefines ==
  ASSUME ListInv, NEW s \in States, Snapshot(s)
  PROVE  Stack!Save(s)
  <1>0. s \in live /\ ListTypeOK /\ PrefixLists /\ UNCHANGED <<live, core>>
    BY DEF Snapshot, ListInv
  <1> DEFINE f == Len(frames[s]) + 1
  <1>1. /\ \A c \in Cores : contents'[c] = contents[c]
        /\ contents'[Len(contents) + 1] = contents[core[s]]
    <2>1. contents[core[s]] \in Contents /\ contents' = Append(contents, contents[core[s]])
      BY <1>0, SavedSeq, SnapshotAdds
    <2> QED
      BY <1>0, <2>1, AppendProperties DEF ListTypeOK, Cores
  <1>2. \A t \in States : ContentOf(t)' = ContentOf(t)
    BY <1>0, <1>1 DEF ContentOf, ListTypeOK
  <1>3. ASSUME NEW t \in States, t # s PROVE SavedOf(t)' = SavedOf(t)
    <2>1. frames'[t] = frames[t] /\ list'[t] = list[t]
      BY <1>3, SnapshotAdds
    <2>2. ASSUME NEW i \in DOMAIN frames[t]
          PROVE  contents'[snapshots'[list'[t][frames'[t][i]]].core] = contents[CoreOf(t, i)]
      <3>1. t \in live
        <4>1. t \notin live => DOMAIN frames[t] = {}
          BY DEF ListInv, NoFrames
        <4> QED
          BY <2>2, <4>1
      <3>2. i \in 1 .. Len(frames[t]) /\ CoreOf(t, i) \in Cores
        BY <1>0, <2>2, <3>1, Positions
      <3>3. snapshots'[list'[t][frames'[t][i]]].core = CoreOf(t, i)
        BY <3>1, <3>2, SnapshotAdds
      <3> QED
        BY <1>1, <3>2, <3>3
    <2>3. SavedOf(t)' = [i \in DOMAIN frames[t] |->
                           contents'[snapshots'[list'[t][frames'[t][i]]].core]]
      BY <2>1 DEF SavedOf, CoreOf
    <2> QED
      BY <2>2, <2>3 DEF SavedOf
  <1>4. SavedOf(s)' = Append(SavedOf(s), ContentOf(s))
    <2>1. /\ SavedOf(s) \in Seq(Contents) /\ Len(SavedOf(s)) = Len(frames[s])
          /\ \A i \in 1 .. Len(frames[s]) : SavedOf(s)[i] = contents[CoreOf(s, i)]
          /\ ContentOf(s) \in Contents /\ ContentOf(s) = contents[core[s]]
      BY <1>0, SavedSeq DEF ContentOf
    <2>2. /\ SavedOf(s)' \in Seq(Contents) /\ Len(SavedOf(s)') = f
          /\ \A i \in 1 .. f :
               SavedOf(s)'[i] = contents'[snapshots'[list'[s][frames'[s][i]]].core]
      <3>1. s \in live' /\ ListInv' /\ Len(frames'[s]) = f
        BY <1>0, SnapshotKeeps, SnapshotAdds
      <3>2. /\ SavedOf(s)' \in Seq(Contents) /\ Len(SavedOf(s)') = Len(frames'[s])
            /\ DOMAIN frames'[s] = 1 .. Len(frames'[s])
        <4> DEFINE After(i) == snapshots'[list'[s][frames'[s][i]]].core
        <4>1. /\ DOMAIN frames'[s] = 1 .. Len(frames'[s]) /\ Len(frames'[s]) \in Nat
              /\ \A i \in 1 .. Len(frames'[s]) : After(i) \in Cores'
          <5>1. frames'[s] \in Seq(Nat \ {0})
            BY <1>0, SnapshotAdds DEF ListTypeOK
          <5>2. Len(frames[s]) \in Nat /\ \A i \in 1 .. f : i \in 1 .. Len(frames[s]) \/ i = f
            BY <1>0, Positions, LenProperties
          <5>3. /\ \A i \in 1 .. Len(frames[s]) : After(i) \in Cores'
                /\ After(f) \in Cores'
            <6>1. \A i \in 1 .. Len(frames[s]) : CoreOf(s, i) \in Cores
              BY <1>0, Positions
            <6>2. /\ \A i \in 1 .. Len(frames[s]) : After(i) = CoreOf(s, i)
                  /\ After(f) = Len(contents) + 1
                  /\ Cores \subseteq Cores' /\ Len(contents) + 1 \in Cores'
              BY <1>0, SnapshotAdds
            <6> QED
              BY <6>1, <6>2
          <5> HIDE DEF After
          <5>4. \A i \in 1 .. f : After(i) \in Cores'
            BY <5>2, <5>3
          <5> QED
            BY <3>1, <5>1, <5>4, LenProperties
        <4>2. \A c \in Cores' : contents'[c] \in Contents
          BY <3>1, ElementOfSeq DEF ListInv, ListTypeOK, Cores
        <4>3. SavedOf(s)' \in [1 .. Len(frames'[s]) -> Contents]
          BY <4>1, <4>2 DEF SavedOf, CoreOf
        <4>4. SavedOf(s)' \in Seq(Contents)
          BY <4>1, <4>3, SeqDef
        <4> QED
          BY <4>1, <4>3, <4>4, LenProperties
      <3> QED
        BY <3>1, <3>2 DEF SavedOf, CoreOf
    <2>3. /\ Append(SavedOf(s), ContentOf(s)) \in Seq(Contents)
          /\ Len(Append(SavedOf(s), ContentOf(s))) = f
          /\ \A i \in 1 .. Len(frames[s]) :
               Append(SavedOf(s), ContentOf(s))[i] = contents[CoreOf(s, i)]
          /\ Append(SavedOf(s), ContentOf(s))[f] = contents[core[s]]
      BY <2>1, AppendProperties
    <2>4. \A i \in 1 .. Len(frames[s]) :
            contents'[snapshots'[list'[s][frames'[s][i]]].core] = contents[CoreOf(s, i)]
      <3>1. \A i \in 1 .. Len(frames[s]) :
              /\ snapshots'[list'[s][frames'[s][i]]].core = CoreOf(s, i)
              /\ CoreOf(s, i) \in Cores
        BY <1>0, Positions, SnapshotAdds
      <3> QED
        BY <1>1, <3>1
    <2>5. contents'[snapshots'[list'[s][frames'[s][f]]].core] = contents[core[s]]
      BY <1>1, SnapshotAdds
    <2>6. Len(frames[s]) \in Nat /\ \A i \in 1 .. f : i \in 1 .. Len(frames[s]) \/ i = f
      BY <1>0, Positions, LenProperties
    <2>7. \A i \in 1 .. f : SavedOf(s)'[i] = Append(SavedOf(s), ContentOf(s))[i]
      BY <2>2, <2>3, <2>4, <2>5, <2>6
    <2> QED
      BY <2>2, <2>3, <2>7, SeqEqual
  <1>5. [t \in States |-> ContentOf(t)]' = [t \in States |-> ContentOf(t)]
    BY <1>2
  <1>6. [t \in States |-> SavedOf(t)]'
          = [[t \in States |-> SavedOf(t)] EXCEPT ![s] = Append(SavedOf(s), ContentOf(s))]
    BY <1>3, <1>4
  <1>7. [t \in States |-> SavedOf(t)]'
          = [[t \in States |-> SavedOf(t)] EXCEPT ![s] = Append(@, [t \in States |-> ContentOf(t)][s])]
    BY <1>6
  <1> QED
    BY <1>0, <1>5, <1>7 DEF Stack!Save, ContentOf, SavedOf

\* A frame that ends takes the last saved content off the stack.
LEMMA PopSaved ==
  ASSUME ListInv, NEW s \in live, frames[s] # << >>, frames' = [frames EXCEPT ![s] = Pop(@)],
         UNCHANGED <<live, contents>>,
         \A t \in live : \A i \in DOMAIN frames'[t] : CoreOf(t, i)' = CoreOf(t, i)
  PROVE  /\ SavedOf(s) # << >> /\ SavedOf(s)[Len(SavedOf(s))] = contents[CoreOf(s, Len(frames[s]))]
         /\ [t \in States |-> SavedOf(t)]' = [[t \in States |-> SavedOf(t)] EXCEPT ![s] = Pop(@)]
  <1> DEFINE n == Len(frames[s])
  <1>0. ListTypeOK /\ PrefixLists /\ NoFrames
    BY DEF ListInv
  <1>1. /\ \A t \in States :
             /\ DOMAIN frames'[t] \subseteq DOMAIN frames[t]
             /\ \A i \in DOMAIN frames'[t] : frames'[t][i] = frames[t][i]
        /\ n \in DOMAIN frames[s] /\ n \in Nat \ {0} /\ DOMAIN frames'[s] = 1 .. n - 1
    BY <1>0, PopFrames
  <1>2. /\ SavedOf(s) \in Seq(Contents) /\ Len(SavedOf(s)) = n
        /\ \A i \in 1 .. n : SavedOf(s)[i] = contents[CoreOf(s, i)]
    BY SavedSeq
  <1>3. SavedOf(s) # << >> /\ SavedOf(s)[n] = contents[CoreOf(s, n)]
    BY <1>1, <1>2, EmptySeq
  <1>4. SavedOf(s)' = Pop(SavedOf(s))
    <2>1. /\ Pop(SavedOf(s)) \in Seq(Contents) /\ Len(Pop(SavedOf(s))) = n - 1
          /\ \A i \in 1 .. n - 1 : Pop(SavedOf(s))[i] = contents[CoreOf(s, i)]
      BY <1>1, <1>2, <1>3, PopProperties
    <2>2. SavedOf(s)' = [i \in 1 .. n - 1 |-> contents[CoreOf(s, i)]]
      BY <1>1 DEF SavedOf
    <2>3. \A i \in 1 .. n - 1 : contents[CoreOf(s, i)] \in Contents
      BY <2>1, ElementOfSeq
    <2>4. SavedOf(s)' \in [1 .. n - 1 -> Contents] /\ n - 1 \in Nat
      BY <1>1, <2>2, <2>3
    <2>5. SavedOf(s)' \in Seq(Contents)
      BY <2>4, SeqDef
    <2>6. Len(SavedOf(s)') = n - 1
      BY <2>4, <2>5, LenProperties
    <2> QED
      BY <2>1, <2>2, <2>5, <2>6, SeqEqual
  <1>5. ASSUME NEW t \in States, t # s PROVE SavedOf(t)' = SavedOf(t)
    <2>1. frames'[t] = frames[t]
      BY <1>0, <1>5 DEF ListTypeOK
    <2>2. t \notin live => DOMAIN frames[t] = {}
      BY <1>0 DEF NoFrames
    <2>3. \A i \in DOMAIN frames[t] : CoreOf(t, i)' = CoreOf(t, i)
      BY <2>1, <2>2
    <2> QED
      BY <2>1, <2>3 DEF SavedOf
  <1> QED
    BY <1>2, <1>3, <1>4, <1>5

LEMMA ReturnRefines ==
  ASSUME ListInv, NEW s \in States, Return(s)
  PROVE  Stack!Drop(s)
  <1>1. /\ s \in live /\ frames[s] # << >> /\ frames' = [frames EXCEPT ![s] = Pop(@)]
        /\ UNCHANGED <<live, core, list, snapshots, contents>>
    BY DEF Return
  <1>2. \A t \in live : \A i \in DOMAIN frames'[t] : CoreOf(t, i)' = CoreOf(t, i)
    BY <1>1, PopFrames DEF CoreOf, ListInv, ListTypeOK
  <1>3. [t \in States |-> ContentOf(t)]' = [t \in States |-> ContentOf(t)]
    BY <1>1 DEF ContentOf
  <1>4. SavedOf(s) # << >>
    BY <1>1, <1>2, PopSaved
  <1>5. [t \in States |-> SavedOf(t)]' = [[t \in States |-> SavedOf(t)] EXCEPT ![s] = Pop(@)]
    BY <1>1, <1>2, PopSaved
  <1> QED
    BY <1>1, <1>3, <1>4, <1>5 DEF Stack!Drop, Stack!Pop, Pop, ContentOf, SavedOf

LEMMA RevertRefines ==
  ASSUME ListInv, NEW s \in States, RevertToSnapshot(s)
  PROVE  Stack!Revert(s)
  <1>1. /\ s \in live /\ frames[s] # << >> /\ frames' = [frames EXCEPT ![s] = Pop(@)]
        /\ UNCHANGED <<live, snapshots, contents>>
    BY DEF RevertToSnapshot
  <1>2. \A t \in live : \A i \in DOMAIN frames'[t] : CoreOf(t, i)' = CoreOf(t, i)
    BY RevertFinds DEF CoreOf
  <1>3. /\ SavedOf(s) # << >>
        /\ SavedOf(s)[Len(SavedOf(s))] = contents[CoreOf(s, Len(frames[s]))]
    BY <1>1, <1>2, PopSaved
  <1>4. [t \in States |-> SavedOf(t)]' = [[t \in States |-> SavedOf(t)] EXCEPT ![s] = Pop(@)]
    BY <1>1, <1>2, PopSaved
  <1>5. \A t \in States :
          ContentOf(t)' = IF t = s THEN SavedOf(s)[Len(SavedOf(s))] ELSE ContentOf(t)
    <2>1. core' = [core EXCEPT ![s] = CoreOf(s, Len(frames[s]))]
      BY RevertFinds
    <2> QED
      BY <1>1, <1>3, <2>1 DEF ContentOf, ListInv, ListTypeOK
  <1>6. [t \in States |-> ContentOf(t)]'
          = [[t \in States |-> ContentOf(t)] EXCEPT ![s] = SavedOf(s)[Len(SavedOf(s))]]
    BY <1>5
  <1> QED
    BY <1>1, <1>3, <1>4, <1>6 DEF Stack!Revert, Stack!Pop, Pop, ContentOf, SavedOf

LEMMA CopyRefines ==
  ASSUME ListInv, NEW s \in States, NEW t \in States, CopyState(s, t)
  PROVE  Stack!Copy(s, t)
  <1>0. s \in live /\ t \notin live /\ ListTypeOK /\ PrefixLists /\ NoFrames
    BY DEF CopyState, ListInv
  <1>1. /\ live' = live \cup {t} /\ UNCHANGED <<frames, snapshots>>
        /\ core' = [core EXCEPT ![t] = Len(contents) + 1] /\ list' = [list EXCEPT ![t] = list[s]]
    BY DEF CopyState
  <1>2. /\ \A c \in Cores : contents'[c] = contents[c]
        /\ contents'[Len(contents) + 1] = contents[core[s]]
    <2>1. contents[core[s]] \in Contents /\ contents' = Append(contents, contents[core[s]])
      BY <1>0, SavedSeq DEF CopyState, CopyCore
    <2> QED
      BY <1>0, <2>1, AppendProperties DEF ListTypeOK, Cores
  <1>3. \A u \in States : ContentOf(u)' = IF u = t THEN ContentOf(s) ELSE ContentOf(u)
    BY <1>0, <1>1, <1>2 DEF ContentOf, ListTypeOK
  <1>4. ASSUME NEW u \in States PROVE SavedOf(u)' = SavedOf(u)
    <2>1. ASSUME NEW i \in DOMAIN frames[u]
          PROVE  contents'[snapshots'[list'[u][frames'[u][i]]].core] = contents[CoreOf(u, i)]
      <3>1. u \in live
        <4>1. u \notin live => DOMAIN frames[u] = {}
          BY <1>0 DEF NoFrames
        <4> QED
          BY <2>1, <4>1
      <3>2. CoreOf(u, i) \in Cores
        BY <1>0, <2>1, <3>1, Positions
      <3>3. list'[u] = list[u]
        BY <1>0, <1>1, <3>1 DEF ListTypeOK
      <3> QED
        BY <1>1, <1>2, <3>2, <3>3 DEF CoreOf
    <2> QED
      BY <1>1, <2>1 DEF SavedOf, CoreOf
  <1>5. [u \in States |-> ContentOf(u)]'
          = [[u \in States |-> ContentOf(u)] EXCEPT ![t] = [u \in States |-> ContentOf(u)][s]]
    BY <1>3
  <1>6. [u \in States |-> SavedOf(u)]' = [u \in States |-> SavedOf(u)]
    BY <1>4
  <1> QED
    BY <1>0, <1>1, <1>5, <1>6 DEF Stack!Copy, ContentOf, SavedOf

LEMMA NextRefines == ListInv /\ [ListNext]_listVars => [Stack!Next]_(Stack!stackVars)
  <1> SUFFICES ASSUME ListInv, [ListNext]_listVars PROVE [Stack!Next]_(Stack!stackVars)
    OBVIOUS
  <1>1. CASE UNCHANGED listVars
    BY <1>1 DEF listVars, Stack!stackVars, CoreOf
  <1>2. CASE ListNext
    <2>1. PICK s \in States :
            \/ \E v \in Contents : Write(s, v)
            \/ Snapshot(s) \/ Return(s) \/ RevertToSnapshot(s)
            \/ \E t \in States : CopyState(s, t)
      BY <1>2 DEF ListNext
    <2>2. \/ \E v \in Contents : Stack!Write(s, v)
          \/ Stack!Save(s) \/ Stack!Drop(s) \/ Stack!Revert(s)
          \/ \E t \in States : Stack!Copy(s, t)
      BY <2>1, WriteRefines, SnapshotRefines, ReturnRefines, RevertRefines, CopyRefines
    <2> QED
      BY <2>2 DEF Stack!Next
  <1> QED
    BY <1>1, <1>2

\* The snapshots of forked.go, shared and never popped, behave as a stack of saved
\* contents for every state: writes, copies and reverts of others do not reach it.
THEOREM Refinement == ListSpec => ImplementsStack
  <1> QED
    BY InitRefines, NextRefines, ListInvariance, PTL DEF ListSpec, ImplementsStack, Stack!Spec

\* A revert in forked.go goes back to the last saved content.
THEOREM RevertGoesBackHolds == ListSpec => RevertGoesBack
  <1>1. ListInv /\ [ListNext]_listVars => [\A s \in States : RevertToSnapshot(s) => Stack!Revert(s)]_listVars
    BY RevertRefines
  <1> QED
    BY <1>1, ListInvariance, PTL DEF ListSpec, RevertGoesBack
=============================================================================
