--------------------------- MODULE SnapshotStack ---------------------------
(***************************************************************************)
(* What the EVM expects of snapshots: each state has a content and a stack  *)
(* of contents saved when its open frames began.  A frame that ends drops   *)
(* its saved content, a frame that is reverted goes back to it.  A copy is  *)
(* a state of its own, without open frames.                                 *)
(***************************************************************************)
EXTENDS Naturals, Sequences

CONSTANTS States, First, Contents, Initial

VARIABLES live, content, saved

stackVars == <<live, content, saved>>

Init ==
  /\ live = {First}
  /\ content = [s \in States |-> Initial]
  /\ saved = [s \in States |-> << >>]

Write(s, v) ==
  /\ s \in live
  /\ content' = [content EXCEPT ![s] = v]
  /\ UNCHANGED <<live, saved>>

Save(s) ==
  /\ s \in live
  /\ saved' = [saved EXCEPT ![s] = Append(@, content[s])]
  /\ UNCHANGED <<live, content>>

Pop(q) == SubSeq(q, 1, Len(q) - 1)

Drop(s) ==
  /\ s \in live /\ saved[s] # << >>
  /\ saved' = [saved EXCEPT ![s] = Pop(@)]
  /\ UNCHANGED <<live, content>>

Revert(s) ==
  /\ s \in live /\ saved[s] # << >>
  /\ content' = [content EXCEPT ![s] = saved[s][Len(saved[s])]]
  /\ saved' = [saved EXCEPT ![s] = Pop(@)]
  /\ UNCHANGED live

Copy(s, t) ==
  /\ s \in live /\ t \notin live
  /\ live' = live \cup {t}
  /\ content' = [content EXCEPT ![t] = content[s]]
  /\ UNCHANGED saved

Next ==
  \E s \in States :
    \/ \E v \in Contents : Write(s, v)
    \/ Save(s) \/ Drop(s) \/ Revert(s)
    \/ \E t \in States : Copy(s, t)

Spec == Init /\ [][Next]_stackVars
=============================================================================
