CONSTANT
  Lines <- MCLines
SPECIFICATION FairSpec
INVARIANTS
  Exclusive
  LineObeyed
PROPERTY
  LineEnds
