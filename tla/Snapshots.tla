----------------------------- MODULE Snapshots -----------------------------
(***************************************************************************)
(* How dyengine/state/forked.go keeps snapshots.  The StateDB and the maps  *)
(* of a ForkedState, its core here, are changed in place; Snapshot puts a   *)
(* deep copy into the list of the state and returns its position;           *)
(* RevertToSnapshot takes over the core and the list of the snapshot.  A    *)
(* copy of a state has a core of its own but shares the snapshots, "don't   *)
(* deep copy snapshots to save memory".  Snapshots of calls that succeeded  *)
(* stay in the list.                                                        *)
(*                                                                          *)
(* States are those programs hold: the one transactions run on, and copies  *)
(* made for records, replays and, inside running calls, for call summaries. *)
(***************************************************************************)
EXTENDS Naturals, Sequences

CONSTANTS
  States, First,       \* First is the state that is there from the start
  Contents, Initial,   \* what a core may hold
  MaxSnapshots,        \* bound on snapshots taken
  MaxFrames            \* bound on open frames of a state

ASSUME StatesAssumption == First \in States /\ Initial \in Contents
ASSUME ListBoundsAssumption == MaxSnapshots \in Nat /\ MaxFrames \in Nat

VARIABLES
  live,       \* the states in use
  core,       \* state -> its core
  list,       \* state -> ForkedState.snapshots, as numbers of snapshots
  frames,     \* state -> positions in list, as returned to its open frames
  snapshots,  \* number -> the core and the list of a snapshot
  contents    \* core -> its content

listVars == <<live, core, list, frames, snapshots, contents>>

Cores == 1 .. Len(contents)
Numbers == 1 .. Len(snapshots)

ListTypeOK ==
  /\ live \subseteq States
  /\ contents \in Seq(Contents)
  /\ core \in [States -> Cores]
  /\ list \in [States -> Seq(Numbers)]
  /\ frames \in [States -> Seq(Nat \ {0})]
  /\ snapshots \in Seq([core : Cores, list : Seq(Numbers)])

ListInit ==
  /\ live = {First}
  /\ core = [s \in States |-> 1]
  /\ list = [s \in States |-> << >>]
  /\ frames = [s \in States |-> << >>]
  /\ snapshots = << >>
  /\ contents = <<Initial>>

\* Any operation that changes the state.
Write(s, v) ==
  /\ s \in live
  /\ contents' = [contents EXCEPT ![core[s]] = v]
  /\ UNCHANGED <<live, core, list, frames, snapshots>>

\* Mutated form: a new core that is empty.
CopyEmpty(s) == contents' = Append(contents, Initial)

\* A new core with the content of that of s.
CopyCore(s) == contents' = Append(contents, contents[core[s]])

\* The beginning of a transaction or a call.
Snapshot(s) ==
  /\ s \in live
  /\ Len(snapshots) < MaxSnapshots /\ Len(frames[s]) < MaxFrames
  /\ CopyCore(s)
  /\ snapshots' = Append(snapshots, [core |-> Len(contents) + 1, list |-> list[s]])
  /\ list' = [list EXCEPT ![s] = Append(@, Len(snapshots) + 1)]
  /\ frames' = [frames EXCEPT ![s] = Append(@, Len(list[s]) + 1)]
  /\ UNCHANGED <<live, core>>

Top(s) == frames[s][Len(frames[s])]
Pop(q) == SubSeq(q, 1, Len(q) - 1)

\* The frame ends without error.
Return(s) ==
  /\ s \in live /\ frames[s] # << >>
  /\ frames' = [frames EXCEPT ![s] = Pop(@)]
  /\ UNCHANGED <<live, core, list, snapshots, contents>>

\* Mutated form: the core is not taken over.
RevertList(s) ==
  /\ s \in live /\ frames[s] # << >>
  /\ list' = [list EXCEPT ![s] = snapshots[list[s][Top(s)]].list]
  /\ frames' = [frames EXCEPT ![s] = Pop(@)]
  /\ UNCHANGED <<live, core, snapshots, contents>>

RevertToSnapshot(s) ==
  /\ s \in live /\ frames[s] # << >>
  /\ LET snapshot == snapshots[list[s][Top(s)]]
     IN  /\ core' = [core EXCEPT ![s] = snapshot.core]
         /\ list' = [list EXCEPT ![s] = snapshot.list]
  /\ frames' = [frames EXCEPT ![s] = Pop(@)]
  /\ UNCHANGED <<live, snapshots, contents>>

\* Mutated form: the copy shares the core of the original.
CopyShared(s, t) ==
  /\ s \in live /\ t \notin live
  /\ live' = live \cup {t}
  /\ core' = [core EXCEPT ![t] = core[s]]
  /\ list' = [list EXCEPT ![t] = list[s]]
  /\ UNCHANGED <<frames, snapshots, contents>>

\* Copy for t, which has taken none of the snapshots it shares.
CopyState(s, t) ==
  /\ s \in live /\ t \notin live
  /\ CopyCore(s)
  /\ live' = live \cup {t}
  /\ core' = [core EXCEPT ![t] = Len(contents) + 1]
  /\ list' = [list EXCEPT ![t] = list[s]]
  /\ UNCHANGED <<frames, snapshots>>

ListNext ==
  \E s \in States :
    \/ \E v \in Contents : Write(s, v)
    \/ Snapshot(s) \/ Return(s) \/ RevertToSnapshot(s)
    \/ \E t \in States : CopyState(s, t)

ListSpec == ListInit /\ [][ListNext]_listVars

-----------------------------------------------------------------------------

\* The core a frame would go back to.
CoreOf(s, i) == snapshots[list[s][frames[s][i]]].core

\* The snapshots of open frames are out of reach of every write: no state, the
\* owner of the frame or a copy that shares its snapshots, has the core of one, no
\* two frames have the same, and no two states share a core.
Unshared ==
  \A s, t \in live :
    /\ s # t => core[s] # core[t]
    /\ \A i \in DOMAIN frames[s] :
         /\ CoreOf(s, i) # core[t]
         /\ \A j \in DOMAIN frames[t] : CoreOf(s, i) = CoreOf(t, j) => s = t /\ i = j

\* A revert leaves the snapshots of the frames around it where they were: the list
\* of a snapshot is the part of the state's list before it.
PrefixLists ==
  \A s \in live :
    /\ \A p \in DOMAIN list[s] : snapshots[list[s][p]].list = SubSeq(list[s], 1, p - 1)
    /\ \A i \in DOMAIN frames[s] : frames[s][i] \in DOMAIN list[s]
    /\ \A i, j \in DOMAIN frames[s] : i < j => frames[s][i] < frames[s][j]

\* The shared, never popped snapshots behave as a stack of values per state.
Stack == INSTANCE SnapshotStack WITH
  content <- [s \in States |-> IF s \in live THEN contents[core[s]] ELSE Initial],
  saved   <- [s \in States |-> [i \in DOMAIN frames[s] |-> contents[CoreOf(s, i)]]]

ImplementsStack == Stack!Spec

\* A revert is a revert of that stack, and not another of its steps.
RevertGoesBack == [][\A s \in States : RevertToSnapshot(s) => Stack!Revert(s)]_listVars
=============================================================================
