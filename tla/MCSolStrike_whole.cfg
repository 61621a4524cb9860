SPECIFICATION SystemSpec
CONSTANTS
  g1 = g1
  a1 = a1  a2 = a2
  r1 = r1  r2 = r2  r3 = r3
  i1 = i1
  Games = {g1}
  Accounts = {a1, a2}
  EndRequests <- Reports
  Invocations = {i1}
  GAME_DURATION = 1
  GAME_PROCESSING_TIMEOUT = 0
  MaxTime = 1
  Rows = {r1, r2, r3}
  Visits <- SystemVisits
  Deposits <- SystemDeposits
  StartRequests <- Starts
  UnitsPerChip = 1
  Faults = {"crash", "rpc"}
  MaxFaults = 1
SYMMETRY RowPermutations
INVARIANTS RewardsPaidFor CreditedAreRanked
PROPERTY PartsKept
