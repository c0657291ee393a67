SPECIFICATION FairSpec
CONSTANTS
  G = 3
  W = 7
  TagBits = 2
  Code <- MCCode
  FixedLen = 2
  MaxField = 15
  N = 4
  Schemas <- MCSchemas
  Inputs <- MCInputs
  Unset = Unset
  MaxInput = 3
INVARIANTS InBounds RefusesMalformed UnknownVerbatim ReadsWhatIsWritten
PROPERTIES Terminates
CHECK_DEADLOCK FALSE
