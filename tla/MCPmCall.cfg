CONSTANTS
  Base = 4096
  Half = 64
  Addresses <- MCAddresses
  Sizes <- MCSizes
  Flags <- MCFlags
  Statuses <- MCStatuses
  Values <- MCValues
SPECIFICATION Spec
INVARIANTS
  TypeOK
  FirmwareReadsImage
  CalledAsListed
  StatusLost
  AskedThenNoWorkaround
CHECK_DEADLOCK FALSE
