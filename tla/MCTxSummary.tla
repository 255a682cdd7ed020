---------------------------- MODULE MCTxSummary ----------------------------
(* A user and two contracts; two tokens of one collection. *)
EXTENDS TxSummary

MC_Accounts == {"user", "pool", "vault"}

Mint(n)       == [asset |-> "nft", from |-> "Null", to |-> "pool", amount |-> 0, token |-> n]
Swap(a, b, n) == [asset |-> "nft", from |-> a, to |-> b, amount |-> 0, token |-> n]

MC_Emitted ==
  {Mint(1), Mint(2), Swap("pool", "vault", 1), Swap("vault", "pool", 1)}
=============================================================================
