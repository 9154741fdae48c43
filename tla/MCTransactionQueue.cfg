SPECIFICATION Spec
CONSTANTS
  ann = ann
  bob = bob
  eve = eve
  Account = {ann, bob}
  Makerless = nobody
  Stranger = {eve}
  Makers <- MCMakers
  Transaction <- MCCrowd
  None = None
  MaxBlockWeight = 2
  MaxSubmits = 3
  MaxReverts = 1
INVARIANTS
  TypeOK
  BlocksReplay
PROPERTIES
  LeavesForAReason
  NothingWaitsForever
CHECK_DEADLOCK FALSE
