SPECIFICATION Spec
CONSTANTS
  Accounts = {"contract", "fresh"}
  Keys = {"k"}
  Values = {0, 1, 2}
  Fields <- MC_Fields
  RemoteInfo <- MC_RemoteInfo
  RemoteStorage <- MC_RemoteStorage
  Mortal = {"fresh"}
  Unset = Unset
  MaxDepth = 3
  MaxTxs = 2
  MaxCalls = 2
  MaxOps = 3
  MaxFaults = 1
INVARIANTS
  InfoAgrees
  StorageAgrees
PROPERTY
  FailuresSeen
CHECK_DEADLOCK FALSE
