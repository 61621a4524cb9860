SPECIFICATION LedgerSpec
CONSTANTS
  g1 = g1  g2 = g2
  a1 = a1  a2 = a2
  r1 = r1  r2 = r2  r3 = r3
  Games = {g1, g2}
  Accounts = {a1, a2}
  Rows = {r1}
  Visits <- OneVisit
  Deposits <- OneDeposit
  StartRequests <- TwoGameStarts
  UnitsPerChip = 2
  Faults = {}
  MaxFaults = 0
\* Finitely many requests and events are handled, then nothing is left to do.
CHECK_DEADLOCK FALSE
INVARIANT ChipsNeverNegative
