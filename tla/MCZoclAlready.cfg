CONSTANTS
  Xclbins <- WithAie
  Form <- FileForm
  Uuid <- FileUuid
  Ips <- FileIps
  NumSlots = 1
  MaxApts = 3
  Blocks = {b1, b2}
  Null = Null
SPECIFICATION Spec
CHECK_DEADLOCK FALSE
SYMMETRY Symmetry
INVARIANTS
  AlreadyTrue
