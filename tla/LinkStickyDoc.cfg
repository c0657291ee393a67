SPECIFICATION Spec
CONSTANTS
  t1 = t1
  t2 = t2
  A = A
  B = B
  C = C
  S = S
  E = E
  dA = dA
  dB = dB
  dC = dC
  None = None
  Thread <- OneThread
  Class <- Classes
  Enum <- Enums
  Descriptor <- Descriptors
  DescOf <- Descs
  Kind <- Kinds
  Target <- Targets
  Plain <- PlainClasses
  PreDefined <- Some
  MaxDepth = 1
  MaxFields = 1
INVARIANTS ReadyClosed
