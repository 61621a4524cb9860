SPECIFICATION Spec
CONSTANTS
  a1 = a1  a2 = a2  s1 = s1  s2 = s2  s3 = s3  r1 = r1
  Gamers = {a1, a2}
  Credits <- MCCredits
  Closings = {s1}
  Resets = {}
  RankingTables = {"migrated"}
  Faults = {}
  MaxFaults = 0
CHECK_DEADLOCK FALSE
INVARIANT ClosingsSucceed
