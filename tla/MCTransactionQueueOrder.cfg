SPECIFICATION Spec
CONSTANTS
  ann = ann
  bob = bob
  eve = eve
  Account = {ann, bob}
  Makerless = nobody
  Stranger = {eve}
  Makers <- MCMakers
  Transaction <- MCAnn
  None = None
  MaxBlockWeight = 2
  MaxSubmits = 3
  MaxReverts = 1
PROPERTIES
  OutOfOrderIsSaidOfGaps
CHECK_DEADLOCK FALSE
