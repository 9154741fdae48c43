SPECIFICATION Spec
CONSTANTS
  Block = {"g", "a", "b", "c", "d", "p"}
  Genesis = "g"
  Provisional = {"p"}
  Tag = {"best", "ledger"}
  None = None
  Parent <- MCParent
  Path <- MCPath
INVARIANTS
  Inv
  CompleteIffPathHeld
  MissingDownClosed
  MissingHasACause
PROPERTIES
  ImplementsAvailability
