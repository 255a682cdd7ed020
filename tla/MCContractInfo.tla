--------------------------- MODULE MCContractInfo ---------------------------
(* Two records of one block with two contracts: "open" is published,        *)
(* "closed" is not, and the records ask for them in different orders.       *)
EXTENDS ContractInfo

MC_Invoked ==
  [r \in Records |-> IF r = "r1" THEN <<"open", "closed">> ELSE <<"closed", "open">>]
=============================================================================
