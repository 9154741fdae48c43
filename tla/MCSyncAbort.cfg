INIT Init
NEXT Next
CONSTANTS
  u1 = u1
  u2 = u2
  u3 = u3
  Block = {"g", "a", "b", "c", "x", "y"}
  Genesis = "g"
  Parent <- MCParent
  Path <- MCPath
  By <- MCBy
  Rank <- MCRank
  Foreign = "f"
  Refused = {}
  None = None
  Batch = 2
  Url = {u1}
  Own = {}
  Seeds = {u1}
  Chain = {"c", "y"}
  Threads = 6
  SampleSize = 1
  MaxRetries = 1
  MaxSearches = 8
  Lookahead = 5
  Late = TRUE
  MaxFaults = 1
INVARIANTS
  NeverAborts
