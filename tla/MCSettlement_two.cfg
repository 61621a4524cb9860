SPECIFICATION Spec
CONSTANTS
  g1 = g1  g2 = g2
  a1 = a1  a2 = a2  a3 = a3
  i1 = i1  i2 = i2
  Games = {g1}
  Accounts = {a1, a2}
  EndRequests <- DisputedRequests
  Invocations = {i1, i2}
  GAME_DURATION = 1
  GAME_PROCESSING_TIMEOUT = 0
  MaxTime = 1
  Faults = {"crash", "db", "rpc"}
  MaxFaults = 1
SYMMETRY InvocationSymmetry
INVARIANTS
  TypeOK OneRunAtATime ClosedOnce RunIsCurrent
  LogsNeverOutrunCredits RepetitionsNeedFaults
  ClosedOnReport BooksBalance
PROPERTY ImplementsContract
