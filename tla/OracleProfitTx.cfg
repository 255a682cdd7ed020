\* The same transfers; only what the profit transaction contributes is asked for.
SPECIFICATION OracleSpec
CONSTANTS
  Accounts <- MC_Accounts
  Fungibles = {"ether"}
  Collections = {"nft"}
  Tokens = {1}
  Ether = "ether"
  Null = "Null"
  Attackers = {"attacker"}
  Victims = {"victim"}
  Transfers <- MC_Transfers
  MaxTransfers = 3
INVARIANT ProfitTxCounts
\* CheckOracle is called once.
CHECK_DEADLOCK FALSE
