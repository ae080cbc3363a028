CONSTANTS
  Xclbins <- MCXclbins
  Levels = {0, 256, 257}
  LineMax = 4
  TextLen = 5
  ImageLists <- MCImageLists
  PartitionCounts = {0, 2}
SPECIFICATION ReportsSpec
INVARIANTS
  TypeOK
  TablesWhole
  IndentAccounts
  LineLenTracks
  ColumnsAligned
CHECK_DEADLOCK FALSE
