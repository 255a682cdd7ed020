\* The same executions; are reads after reverted writes recorded?
SPECIFICATION Spec
CONSTANTS
  Accounts <- MC_Accounts
  Fungibles = {"ether"}
  Collections = {"nft"}
  Tokens = {1, 2}
  Ether = "ether"
  Null = "Null"
  Sender = "user"
  Contracts = {"pool", "vault"}
  Values = {0, 1}
  Amounts = {0, 1}
  Emitted <- MC_Emitted
  Fortune = 1
  MaxCalls = 3
  MaxOps = 5
INVARIANT DefClearUses
\* A transaction ends.
CHECK_DEADLOCK FALSE
