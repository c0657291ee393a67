SPECIFICATION Spec
CONSTANTS
  New = New
  Old = Old
  Odd = Odd
  Choice = Choice
  None = None
  ValueError = ValueError
  OverflowError = OverflowError
  Class <- MCClass
  Fields <- MCFields
  Group <- MCGroup
  MaxDepth = 2
  SecondsBits = 5
  NanosBits = 4
  NanosPerMicro = 2
  MicrosPerSecond = 2
  TsMin <- FirstSecond
  TsMax = 2
  DurationMax = 3
  TimedeltaMax = 6
  Paths <- MCPaths
  Streams <- MCStreams
  Instances <- MCInstances
  Invalid <- MCInvalid
  Displaced <- MCDisplaced
  MaxRecords = 3
INVARIANTS NoOverflowError
CHECK_DEADLOCK FALSE
