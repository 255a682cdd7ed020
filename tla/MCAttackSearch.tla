--------------------------- MODULE MCAttackSearch ---------------------------
(* Instances of AttackSearch for TLC: eight transactions and a block reward *)
(* in five blocks, the third of them empty.                                 *)
EXTENDS AttackSearch, TLC

\* position      1    2    3       4    5    6    7    8    9
MC_BlockOf  == <<1,   1,   1,      2,   2,   2,   2,   4,   5>>
MC_SenderOf == <<"A", "V", "zero", "V", "A", "P", "V", "P", "V">>

\* Any two transactions depend on each other.  The receiver of 1 sends 6 and 8, so that
\* these have no attackers as victims of 1; else any later transaction may be a profit.
MC_Attackers  == {1, 5}
MC_Dependent  == {k \in Txs \X Txs : k[1] < k[2] /\ k[1] \in MC_Attackers}
MC_Profitable == {k \in Txs \X Txs \X Txs :
                    /\ k[1] \in MC_Attackers /\ k[1] < k[2] /\ k[2] < k[3]
                    /\ k[1] = 1 => k[2] \notin {6, 8}}

\* (5, 6) is an attack unless 6 is skipped, (1, 2) one only with a profit
\* transaction.
MC_Matching == {<<1, 2, 6>>, <<5, 6, 0>>}
=============================================================================
