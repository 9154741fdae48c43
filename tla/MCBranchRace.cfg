SPECIFICATION Spec
CONSTANTS
  Miners = 3
  Window = 2
  Delay = 1
  MaxHeight = 3
  MaxTime = 5
INVARIANTS
  Antisymmetric
  TieMeansEquivocation
  RewritesCostBlocks
PROPERTIES
  LeadGrows
CHECK_DEADLOCK FALSE
