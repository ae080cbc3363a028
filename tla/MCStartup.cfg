CONSTANTS
  BootLines <- Lines
  NoLine = NoLine
  Tries = 2
  DbOptions <- Options
  MaxLine = 5
SPECIFICATION Spec
INVARIANTS
  ArgsAreWords
  VerdictFromPoll
  ShellComplete
  SafetyInv
PROPERTIES
  StartEnds
