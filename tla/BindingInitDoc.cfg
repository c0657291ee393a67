SPECIFICATION Spec
CONSTANTS
  None = None
  NotText = NotText
  ParseError = ParseError
  LookupFailed = LookupFailed
  Broken = Broken
  Words <- MCWords
  NumberBits = 6
  DenseFactor = 2
  DenseMin = 8
  Requests <- MCRequests
  HandMade <- MCHandMade
  Home <- MCHome
  HandClasses <- MCHandClasses
  EnumNumbers <- MCEnumNumbers
  TableSize = 2
  EnumBits = 4
  Missing = Missing
  Raised = Raised
INVARIANTS ConstructorHonored
CHECK_DEADLOCK FALSE
