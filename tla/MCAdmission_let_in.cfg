SPECIFICATION AdmissionSpec
CONSTANTS
  a1 = a1  a2 = a2  a3 = a3  a4 = a4
  b1 = b1  b2 = b2
  Accounts = {a1, a2, a3, a4}
  Supported = {a1, a2, a3}
  Ids = {b1, b2}
  Rows = {1, 2, 3, 4, 5}
  KnownGamers <- Known
  Requests <- SomeRequests
  NaN = NaN
  MAX_AGE = 0
  MaxRequests = 2
  MaxTime = 1
  Faults = {"crash", "db"}
  MaxFaults = 1
SYMMETRY IdPermutations
INVARIANTS AdmissionTypeOK ReferrerMarked UsedCodeRefers UndatedRefused
PROPERTIES BlacklistTakesHold DeletionLifts
