SPECIFICATION ListSpec
CONSTANTS
  States = {"block", "record", "replay"}
  First = "block"
  Contents = {0, 1}
  Initial = 0
  MaxSnapshots = 3
  MaxFrames = 2
INVARIANTS
  Unshared
PROPERTIES
  ImplementsStack
  RevertGoesBack
