CONSTANTS
  Tasks = {t1, t2}
  NumApis = 3
  Answers <- Unsteady
  GetChipId = 1
  GetStatus = 2
SPECIFICATION Spec
SYMMETRY Symmetry
INVARIANTS
  AbsentNotUsed
  ErrorExplained
  DenialInv
