CONSTANTS
  pdi = pdi
  boot = boot
  Tasks = {t1, t2, t3}
  Images = {pdi, boot}
  Kind <- MCKind
  Blocks <- OneBlock
  MaxBlocks = 1
  Buffers = {b1, b2, b3}
  None = None
  Junk = Junk
SPECIFICATION Spec
SYMMETRY Symmetry
INVARIANTS
  PdiExclusive
  SafetyInv
