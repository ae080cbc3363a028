CONSTANTS
  NumSlots = 3
  LineLen = 3
  Sizes <- AllSizes
  Modulus = 32
  IntMax = 15
SPECIFICATION Spec
INVARIANTS
  ShortIsComplete
  TooBigTrue
  InsideBuffer
  SafetyInv
