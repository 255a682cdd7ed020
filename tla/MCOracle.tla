------------------------------ MODULE MCOracle ------------------------------
(* An attacker and a victim that trade Ether and tokens with a pool. *)
EXTENDS Oracle

MC_Accounts == {"attacker", "victim", "pool"}

Move(x, a, b, n) == [asset |-> x, from |-> a, to |-> b, amount |-> n, token |-> 1]

MC_Transfers ==
  {Move("ether", "attacker", "pool", 1), Move("ether", "pool", "attacker", 1),
   Move("ether", "pool", "attacker", 2), Move("nft", "pool", "attacker", 0),
   Move("nft", "attacker", "pool", 0), Move("ether", "victim", "pool", 1),
   Move("ether", "pool", "victim", 1), Move("nft", "Null", "victim", 0)}
=============================================================================
