CONSTANTS
  pdi = pdi
  boot = boot
  Tasks = {t1, t2}
  Images = {pdi, boot}
  Kind <- MCKind
  Blocks <- MCBlocks
  MaxBlocks = 2
  Buffers = {b1, b2}
  None = None
  Junk = Junk
SPECIFICATION FairSpec
INVARIANTS
  BuffersAccounted
  DescriptorsAccounted
  FirmwareSeesImage
PROPERTIES
  ServesPort
  CommandsEnd
