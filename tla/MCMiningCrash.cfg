SPECIFICATION Spec
CONSTANTS
  Self = self
  r1 = r1
  r2 = r2
  Remote = {r1}
  NextCharm <- MCNextCharm
  None = None
  Window = 2
  Delay = 1
  MinerHeight = 0
  MayCrash = TRUE
  MaxHeight = 2
  MaxTime = 2
  MaxHeaders = 2
VIEW MCView
CHECK_DEADLOCK FALSE
INVARIANTS
  LedgerAvailable
  ImprovementIsReal
  SampleIsConsensus
