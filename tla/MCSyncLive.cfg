SPECIFICATION Spec
CONSTANTS
  u1 = u1
  u2 = u2
  u3 = u3
  Block = {"g", "a", "b", "c", "d", "x", "y"}
  Genesis = "g"
  Parent <- MCParent
  Path <- MCPath
  By <- MCBy
  Rank <- MCRank
  Foreign = "f"
  Refused = {}
  None = None
  Batch = 2
  Url = {u1}
  Own = {}
  Seeds = {u1}
  Chain = {"b", "c", "d", "y"}
  Threads = 6
  SampleSize = 1
  MaxRetries = 1
  MaxSearches = 8
  Lookahead = 1
  Late = FALSE
  MaxFaults = 1
PROPERTIES
  CaughtUp
  BestBecomesComplete
