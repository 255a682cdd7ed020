\* All ways of spreading four transfers over the six summaries.
SPECIFICATION OracleSpec
CONSTANTS
  Accounts <- MC_Accounts
  Fungibles = {"ether"}
  Collections = {"nft"}
  Tokens = {1}
  Ether = "ether"
  Null = "Null"
  Attackers = {"attacker"}
  Victims = {"victim"}
  Transfers <- MC_Transfers
  MaxTransfers = 4
INVARIANTS
  ReportedIsAttack
  MissedIsUnclear
\* CheckOracle is called once.
CHECK_DEADLOCK FALSE
