--------------------------- MODULE MCForkedState ---------------------------
(* Instances of ForkedState for TLC: a contract with storage on the chain,  *)
(* and an address with nothing.                                             *)
EXTENDS ForkedState

\* Two of the three fields: the one fetched first and the one fetched last.
MC_Fields == <<"balance", "nonce">>

MC_RemoteInfo == [a \in Accounts |-> [f \in FieldSet |-> IF a = "contract" THEN 1 ELSE 0]]
MC_RemoteStorage == [a \in Accounts |-> [k \in Keys |-> IF a = "contract" THEN 1 ELSE 0]]
=============================================================================
