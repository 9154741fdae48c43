INIT Init
NEXT Next
CONSTANTS
  u1 = u1
  u2 = u2
  u3 = u3
  Block = {"g", "a", "b", "c", "x", "y"}
  Genesis = "g"
  Parent <- MCParent
  Path <- MCPath
  By <- MCBy
  Rank <- MCRank
  Foreign = "f"
  Refused = {"c"}
  None = None
  Batch = 2
  Url = {u1, u2, u3}
  Own = {u3}
  Seeds = {u1}
  Chain = {"b", "c", "y", "f"}
  Threads = 1
  SampleSize = 1
  MaxRetries = 1
  MaxSearches = 4
  Lookahead = 5
  Late = TRUE
  MaxFaults = 1
INVARIANTS
  TypeOK
  NobodyWaitsInVain
  SearchesMatchRequests
  AbortsOnlyOnReorg
PROPERTIES
  GivesUpForAReason
