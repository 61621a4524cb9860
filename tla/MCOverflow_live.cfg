SPECIFICATION WidthSpec
CONSTANTS
  g1 = g1  g2 = g2
  a1 = a1  a2 = a2
  i1 = i1
  Games = {g1, g2}
  Accounts = {a1, a2}
  EndRequests <- FullRequests
  Invocations = {i1}
  GAME_DURATION = 1
  GAME_PROCESSING_TIMEOUT = 0
  MaxTime = 1
  Faults = {"crash", "rpc"}
  MaxFaults = 1
  MAX_INT = 1
  MaxOrphans = 1
  MaxResets = 1
INVARIANTS WidthTypeOK CreditsPerStoppedRun
PROPERTIES ReportedGamesClose RunsEnd
