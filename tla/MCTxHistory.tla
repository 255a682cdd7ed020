---------------------------- MODULE MCTxHistory ----------------------------
(* Two goroutines, of which c1 prefetches and c2 opens sessions and may also *)
(* compute without the pool; one worker; both ask for both heights, of which *)
(* the second may fail.                                                      *)
EXTENDS TxHistory

CONSTANTS c1, c2, p1

MC_Requests == {[from |-> 1, size |-> 2]}
MC_Capacity == [p \in Pools |-> 1]
MC_PoolsOf  == [c \in Callers |-> IF c = c2 THEN {p1, NoPool} ELSE {p1}]
MC_ForgetRanges == {[from |-> 1, to |-> 2]}
=============================================================================
