SPECIFICATION Spec
CONSTANTS
  G = 1
  W = 4
  Tags <- MCTags
  Payload = {0, 3}
  MaxOpen = 3
  MaxLen = 11
  Running = Running
  Error = Error
INVARIANTS LenPrefixInv
PROPERTIES ImplementsNested
CHECK_DEADLOCK FALSE
