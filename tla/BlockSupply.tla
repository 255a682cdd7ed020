---------------------------- MODULE BlockSupply ----------------------------
(***************************************************************************)
(* What the block cache promises its callers, without locks, pools, slots   *)
(* or wait groups.  A cell is created for one height, computed by at most   *)
(* one activity, and never computed again.  A session is given, in one      *)
(* step, one finished cell for each height it asked for, and may keep them  *)
(* as long as it likes, whether or not the cache still knows them.          *)
(***************************************************************************)
CONSTANTS Cells, Heights, NoHeight, Sessions

VARIABLES
  phase,   \* cell -> "absent", "empty", "computing" or "ready"
  height,  \* cell -> the height it was created for
  given    \* session -> the cells it was given

supplyVars == <<phase, height, given>>

Init ==
  /\ phase  = [x \in Cells |-> "absent"]
  /\ height = [x \in Cells |-> NoHeight]
  /\ given  = [s \in Sessions |-> {}]

Create(x, h) ==
  /\ phase[x] = "absent"
  /\ phase'  = [phase EXCEPT ![x] = "empty"]
  /\ height' = [height EXCEPT ![x] = h]
  /\ UNCHANGED given

Start(x) ==
  /\ phase[x] = "empty"
  /\ phase' = [phase EXCEPT ![x] = "computing"]
  /\ UNCHANGED <<height, given>>

Finish(x) ==
  /\ phase[x] = "computing"
  /\ phase' = [phase EXCEPT ![x] = "ready"]
  /\ UNCHANGED <<height, given>>

Give(s) ==
  /\ given[s] = {}
  /\ \E S \in SUBSET {x \in Cells : phase[x] = "ready" /\ height[x] # NoHeight} :
       /\ \A x, y \in S : height[x] = height[y] => x = y
       /\ given' = [given EXCEPT ![s] = S]
  /\ UNCHANGED <<phase, height>>

Dispose(s) ==
  /\ given' = [given EXCEPT ![s] = {}]
  /\ UNCHANGED <<phase, height>>

Next ==
  \/ \E x \in Cells : \E h \in Heights : Create(x, h)
  \/ \E x \in Cells : Start(x) \/ Finish(x)
  \/ \E s \in Sessions : Give(s) \/ Dispose(s)

Spec == Init /\ [][Next]_supplyVars
=============================================================================
