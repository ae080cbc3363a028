CONSTANTS
  Modulus = 4
  TableWords = 4
  BootSize = 2
  IdentAt = 1
  Ident = 2
  Meta = 3
SPECIFICATION ImageSpec
INVARIANTS
  AcceptedIntact
  CommandsAgree
PROPERTIES
  DamageFound
