SPECIFICATION PrizeSpec
CONSTANTS
  Accounts = {1, 2, 3, 4}
  MaxLength = 4
  Crowd = 12
  Grain = 420
  ResultLists <- ReportedLists
  GamerTables <- Tables
\* The game is logged and rewarded, then nothing is left to do.
CHECK_DEADLOCK FALSE
INVARIANTS
  PodiumIsRanking PrizeTypeOK SharesWithinPot OneLogPerGamer
  BestEntryLogged RewardsMatchLogs
PROPERTY Terminates
