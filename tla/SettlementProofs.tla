--------------------------- MODULE SettlementProofs ---------------------------
(***************************************************************************)
(* Theorems about Settlement, for every set of games, accounts, requests   *)
(* and invocations, and any number of faults: its processor, its contract, *)
(* its credits and logs, and its reports.                                  *)
(***************************************************************************)
EXTENDS SettlementProperties, SumLemmas

-----------------------------------------------------------------------------
(* Types *)

LEMMA EmptyReportType == EmptyReport \in Report /\ NoReports \in [Accounts -> Report]
  BY DEF EmptyReport, NoReports, Report

LEMMA IdleType == Idle \in Runs
  BY EmptyReportType DEF Idle, Runs, Stages

\* A reporter's rows, counted per result, are a report.
LEMMA ReportType ==
  ASSUME IsFiniteSet(individualLogs), NEW g, NEW a
  PROVE  IndividualEndGameResults(g, a) \in Report
<1>1. ASSUME NEW r \in Results
      PROVE  Cardinality({row \in individualLogs :
                /\ row.request.gameId = g
                /\ row.request.accountId = a
                /\ row.result = r}) \in Nat
  <2>. DEFINE S == {row \in individualLogs : /\ row.request.gameId = g
                                             /\ row.request.accountId = a
                                             /\ row.result = r}
  <2>1. IsFiniteSet(S)
    BY FS_Subset
  <2>. QED  BY <2>1, FS_CardinalityType
<1>. QED  BY <1>1 DEF IndividualEndGameResults, Report

LEMMA LogsOfType ==
  ASSUME NEW e \in EndRequests
  PROVE  LogsOf(e) \subseteq LogRow
  BY RequestsAssumption DEF LogsOf, LogRow, Results

LEMMA InitTypeOK == Init => TypeOK
<1>. SUFFICES ASSUME Init PROVE TypeOK
  OBVIOUS
<1>1. now \in 0 .. MaxTime /\ faults \in 0 .. MaxFaults
  BY ClockAssumption, FaultsAssumption DEF Init
<1>2. PartyTypes
  BY ClockAssumption DEF Init, PartyTypes
<1>3. ReportTypes
  BY FS_EmptySet DEF Init, ReportTypes
<1>4. CronTypes
  BY IdleType DEF Init, CronTypes
<1>5. LedgerTypes
  BY EmptyReportType DEF Init, LedgerTypes
<1>. QED  BY <1>1, <1>2, <1>3, <1>4, <1>5 DEF TypeOK

LEMMA ContinueType ==
  ASSUME CronTypes, NEW i \in Invocations
  PROVE  Continue(i) \in Runs
  BY IdleType DEF CronTypes, Continue, Runs, Stages

LEMMA FaultType ==
  ASSUME TypeOK, NEW kind, Fault(kind)
  PROVE  faults' \in 0 .. MaxFaults
  BY FaultsAssumption DEF TypeOK, Fault

\* Counters stay natural numbers when they are counted up.
LEMMA CountUp ==
  ASSUME NEW S, NEW counters \in [S -> Nat], NEW x, NEW n \in Nat
  PROVE  [counters EXCEPT ![x] = @ + n] \in [S -> Nat]
<1>. DEFINE new == [counters EXCEPT ![x] = @ + n]
<1>1. ASSUME NEW y \in S PROVE new[y] \in Nat
  <2>1. CASE y = x
    BY <2>1
  <2>2. CASE y # x
    BY <2>2
  <2>. QED  BY <2>1, <2>2
<1>. QED  BY <1>1

LEMMA CountUpOf ==
  ASSUME NEW S, NEW T, NEW counters \in [S -> [T -> Nat]], NEW x, NEW y
  PROVE  [counters EXCEPT ![x][y] = @ + 1] \in [S -> [T -> Nat]]
<1>. DEFINE new == [counters EXCEPT ![x][y] = @ + 1]
<1>1. ASSUME NEW z \in S PROVE new[z] \in [T -> Nat]
  <2>1. CASE z = x
    <3>1. [counters[z] EXCEPT ![y] = @ + 1] \in [T -> Nat]
      BY CountUp
    <3>. QED  BY <2>1, <3>1
  <2>2. CASE z # x
    BY <2>2
  <2>. QED  BY <2>1, <2>2
<1>. QED  BY <1>1

\* How the clients' actions keep the types.
LEMMA ClientTypeOK ==
  ASSUME TypeOK, Client
  PROVE  TypeOK'
<1>. USE DEF TypeOK
<1>1. ASSUME TimePasses PROVE TypeOK'
  <2>1. now' \in 0 .. MaxTime
    BY <1>1, ClockAssumption DEF TimePasses
  <2>. QED
    BY <1>1, <2>1 DEF TimePasses, partyVars, reportVars, cronVars, ledgerVars,
       PartyTypes, ReportTypes, CronTypes, LedgerTypes
<1>2. ASSUME NEW g \in Games, NEW a \in Accounts, StartGame(g, a) PROVE TypeOK'
  <2>1. PartyTypes'
    BY <1>2 DEF StartGame, PartyTypes
  <2>. QED
    BY <1>2, <2>1 DEF StartGame, reportVars, cronVars, ledgerVars,
       ReportTypes, CronTypes, LedgerTypes
<1>3. ASSUME NEW e \in EndRequests, EndGame(e) PROVE TypeOK'
  <2>1. ReportTypes'
    BY <1>3, LogsOfType DEF EndGame, ReportTypes
  <2>. QED
    BY <1>3, <2>1 DEF EndGame, partyVars, cronVars, ledgerVars,
       PartyTypes, CronTypes, LedgerTypes
<1>4. ASSUME NEW e \in EndRequests, NEW row \in unsaved[e], SaveLog(e, row)
      PROVE  TypeOK'
  <2>1. ReportTypes'
    <3>1. row \in LogRow
      BY DEF ReportTypes
    <3>2. individualLogs' \in SUBSET LogRow /\ IsFiniteSet(individualLogs')
      BY <1>4, <3>1, FS_AddElement DEF SaveLog, ReportTypes
    <3>3. unsaved' \in [EndRequests -> SUBSET LogRow] /\ phase' = phase
      BY <1>4 DEF SaveLog, ReportTypes
    <3>. QED  BY <3>2, <3>3 DEF ReportTypes
  <2>. QED
    BY <1>4, <2>1 DEF SaveLog, partyVars, cronVars, ledgerVars,
       PartyTypes, CronTypes, LedgerTypes
<1>5. ASSUME NEW e \in EndRequests, FinishParty(e) PROVE TypeOK'
  <2>1. PartyTypes' /\ ReportTypes'
    BY <1>5, RequestsAssumption DEF FinishParty, PartyTypes, ReportTypes
  <2>. QED
    BY <1>5, <2>1 DEF FinishParty, cronVars, ledgerVars, CronTypes, LedgerTypes
<1>. QED  BY <1>1, <1>2, <1>3, <1>4, <1>5 DEF Client

\* A run's fields, updated one by one, make a run.
LEMMA RunTypeOK ==
  ASSUME CronTypes, NEW i \in Invocations, NEW r \in Runs,
         run' = [run EXCEPT ![i] = r], isRunning' \in BOOLEAN
  PROVE  CronTypes'
  BY DEF CronTypes

\* How the steps of a run keep the types.
LEMMA RunStepTypeOK ==
  ASSUME TypeOK, NEW i \in Invocations, FetchParties(i) \/ Work(i)
  PROVE  TypeOK'
<1>. USE DEF TypeOK
<1>0. run[i] \in Runs
  BY DEF CronTypes
<1>1. CASE FetchParties(i)
  <2>1. CronTypes'
    BY <1>1, IdleType, RunTypeOK DEF FetchParties, Runs, Stages, PartyTypes
  <2>. QED
    BY <1>1, <2>1 DEF FetchParties, partyVars, reportVars, ledgerVars,
       PartyTypes, ReportTypes, LedgerTypes
<1>2. CASE FilterProcessed(i)
  <2>1. CronTypes'
    BY <1>0, <1>2 DEF FilterProcessed, Runs, Stages, CronTypes
  <2>. QED
    BY <1>2, <2>1 DEF FilterProcessed, partyVars, reportVars, ledgerVars,
       PartyTypes, ReportTypes, LedgerTypes
<1>3. ASSUME NEW g \in Games, NextGame(i, g) PROVE TypeOK'
  <2>1. CronTypes'
    BY <1>0, <1>3 DEF NextGame, Runs, Stages, CronTypes
  <2>. QED
    BY <1>3, <2>1 DEF NextGame, partyVars, reportVars, ledgerVars,
       PartyTypes, ReportTypes, LedgerTypes
<1>4. ASSUME NEW a \in Accounts, ReadReport(i, a) PROVE TypeOK'
  <2>1. IndividualEndGameResults(run[i].current, a) \in Report
    BY ReportType DEF ReportTypes
  <2>2. CronTypes'
    BY <1>0, <1>4, <2>1 DEF ReadReport, Runs, Stages, CronTypes
  <2>. QED
    BY <1>4, <2>2 DEF ReadReport, partyVars, reportVars, ledgerVars,
       PartyTypes, ReportTypes, LedgerTypes
<1>5. CASE SkipGame(i)
  BY <1>5, ContinueType, RunTypeOK DEF SkipGame, partyVars, reportVars,
     ledgerVars, PartyTypes, ReportTypes, LedgerTypes, CronTypes
<1>6. CASE DecideCancel(i)
  <2>1. CronTypes'
    BY <1>0, <1>6 DEF DecideCancel, Runs, Stages, CronTypes
  <2>. QED
    BY <1>6, <2>1 DEF DecideCancel, partyVars, reportVars, ledgerVars,
       PartyTypes, ReportTypes, LedgerTypes
<1>7. CASE DecideSettle(i)
  <2>1. PICK report \in TopHashedResults(i) :
          run' = [run EXCEPT ![i].stage = "credit", ![i].fetched = NoReports,
                             ![i].agreed = report, ![i].updates = report]
    BY <1>7 DEF DecideSettle
  <2>2. report \in Report
    BY <1>0, <2>1 DEF TopHashedResults, HashedResults, Reporters, Parties, Runs,
       CronTypes
  <2>3. CronTypes'
    BY <1>0, <1>7, <2>1, <2>2, EmptyReportType
    DEF DecideSettle, Runs, Stages, CronTypes
  <2>. QED
    BY <1>7, <2>3 DEF DecideSettle, partyVars, reportVars, ledgerVars,
       PartyTypes, ReportTypes, LedgerTypes
<1>8. ASSUME NEW r \in Results, CreditPlayer(i, r) PROVE TypeOK'
  <2>1. CronTypes'
    <3>1. [run[i].updates EXCEPT ![r] = @ - 1] \in Report
      BY <1>0, <1>8 DEF CreditPlayer, Pending, Runs, Report
    <3>. QED  BY <1>0, <1>8, <3>1 DEF CreditPlayer, Runs, CronTypes
  <2>2. LedgerTypes'
    BY <1>8, CountUpOf DEF CreditPlayer, LedgerTypes
  <2>. QED
    BY <1>8, <2>1, <2>2 DEF CreditPlayer, partyVars, reportVars,
       PartyTypes, ReportTypes
<1>9. CASE WriteGameOverLogs(i)
  <2>1. CronTypes'
    BY <1>0, <1>9 DEF WriteGameOverLogs, Runs, Stages, CronTypes
  <2>2. LedgerTypes'
    <3>1. run[i].current \in Games =>
            [a \in Accounts |->
               IF \E r \in Results : run[i].agreed[r] > 0 /\ r.accountId = a
               THEN gameOverLogs[run[i].current][a] + 1
               ELSE gameOverLogs[run[i].current][a]] \in [Accounts -> Nat]
      BY DEF LedgerTypes
    <3>2. gameOverLogs' \in [Games -> [Accounts -> Nat]]
      BY <1>9, <3>1 DEF WriteGameOverLogs, LedgerTypes
    <3>. QED  BY <1>9, <3>2 DEF WriteGameOverLogs, LedgerTypes
  <2>. QED
    BY <1>9, <2>1, <2>2 DEF WriteGameOverLogs, partyVars, reportVars,
       PartyTypes, ReportTypes
<1>10. CASE ResolveSettled(i)
  <2>1. CronTypes'
    BY <1>0, <1>10 DEF ResolveSettled, Runs, Stages, CronTypes
  <2>2. PartyTypes'
    BY <1>10 DEF ResolveSettled, ResolveGameProcessing, PartyTypes
  <2>. QED
    BY <1>10, <2>1, <2>2 DEF ResolveSettled, reportVars, ledgerVars,
       ReportTypes, LedgerTypes
<1>11. CASE ResolveCanceled(i)
  <2>1. CronTypes'
    BY <1>11, ContinueType, RunTypeOK DEF ResolveCanceled, CronTypes
  <2>2. PartyTypes'
    BY <1>11 DEF ResolveCanceled, ResolveGameProcessing, PartyTypes
  <2>. QED
    BY <1>11, <2>1, <2>2 DEF ResolveCanceled, reportVars, ledgerVars,
       ReportTypes, LedgerTypes
<1>12. CASE SendRewardTx(i)
  <2>1. CronTypes'
    BY <1>12, ContinueType, RunTypeOK DEF SendRewardTx, CronTypes
  <2>2. LedgerTypes'
    BY <1>12, CountUp DEF SendRewardTx, LedgerTypes
  <2>. QED
    BY <1>12, <2>1, <2>2 DEF SendRewardTx, partyVars, reportVars,
       PartyTypes, ReportTypes
<1>13. CASE EndRun(i)
  BY <1>13, IdleType, RunTypeOK DEF EndRun, partyVars, reportVars, ledgerVars,
     PartyTypes, ReportTypes, LedgerTypes
<1>. QED
  BY <1>1, <1>2, <1>3, <1>4, <1>5, <1>6, <1>7, <1>8, <1>9, <1>10, <1>11, <1>12,
     <1>13 DEF Work

LEMMA AbortType ==
  ASSUME CronTypes, NEW i \in Invocations, Abort(i)
  PROVE  CronTypes'
  BY IdleType, RunTypeOK DEF Abort

\* How failures, and what they leave in flight, keep the types.
LEMMA FailureTypeOK ==
  ASSUME TypeOK,
         Failure \/ \E g \in Games, r \in Results : OrphanedCredit(g, r)
  PROVE  TypeOK'
<1>. USE DEF TypeOK
<1>1. ASSUME NEW i \in Invocations, StatementFails(i) PROVE TypeOK'
  BY <1>1, AbortType, FaultType DEF StatementFails, partyVars, reportVars,
     ledgerVars, PartyTypes, ReportTypes, LedgerTypes
<1>2. ASSUME NEW i \in Invocations, NEW r \in Results, CreditFails(i, r)
      PROVE  TypeOK'
  <2>1. [q \in Results |-> orphaned[run[i].current][q] + run[i].updates[q]
           - IF q = r THEN 1 ELSE 0] \in Report
         \/ run[i].current \notin Games
    BY <1>2 DEF CreditFails, Pending, CronTypes, LedgerTypes, Runs, Report
  <2>2. LedgerTypes'
    BY <1>2, <2>1 DEF CreditFails, LedgerTypes
  <2>. QED
    BY <1>2, <2>2, AbortType, FaultType DEF CreditFails, partyVars, reportVars,
       PartyTypes, ReportTypes
<1>3. ASSUME NEW i \in Invocations, RewardFails(i) PROVE TypeOK'
  <2>1. PICK landed \in {0, 1} :
          rewardTxs' = [rewardTxs EXCEPT ![run[i].current] = @ + landed]
    BY <1>3 DEF RewardFails
  <2>2. LedgerTypes'
    <3>1. rewardTxs \in [Games -> Nat] /\ landed \in Nat
      BY DEF LedgerTypes
    <3>2. rewardTxs' \in [Games -> Nat]
      BY <2>1, <3>1, CountUp
    <3>. QED  BY <1>3, <3>2 DEF RewardFails, LedgerTypes
  <2>. QED
    BY <1>3, <2>2, AbortType, FaultType DEF RewardFails, partyVars, reportVars,
       PartyTypes, ReportTypes
<1>4. ASSUME NEW e \in EndRequests, NEW row \in unsaved[e], SaveLogFails(e, row)
      PROVE  TypeOK'
  <2>1. ReportTypes'
    BY <1>4 DEF SaveLogFails, ReportTypes
  <2>. QED
    BY <1>4, <2>1, FaultType DEF SaveLogFails, partyVars, cronVars, ledgerVars,
       PartyTypes, CronTypes, LedgerTypes
<1>5. ASSUME NEW e \in EndRequests, FinishFails(e) PROVE TypeOK'
  <2>1. ReportTypes'
    BY <1>5 DEF FinishFails, ReportTypes
  <2>. QED
    BY <1>5, <2>1, FaultType DEF FinishFails, partyVars, cronVars, ledgerVars,
       PartyTypes, CronTypes, LedgerTypes
<1>6. ASSUME Crash PROVE TypeOK'
  <2>1. ReportTypes'
    BY <1>6 DEF Crash, ReportTypes
  <2>2. CronTypes' /\ LedgerTypes'
    BY <1>6, IdleType, EmptyReportType DEF Crash, CronTypes, LedgerTypes
  <2>. QED
    BY <1>6, <2>1, <2>2, FaultType DEF Crash, partyVars, PartyTypes
<1>7. ASSUME NEW g \in Games, NEW r \in Results, OrphanedCredit(g, r)
      PROVE  TypeOK'
  <2>1. [orphaned[g] EXCEPT ![r] = @ - 1] \in Report
    BY <1>7 DEF OrphanedCredit, LedgerTypes, Report
  <2>2. LedgerTypes'
    BY <1>7, <2>1, CountUpOf DEF OrphanedCredit, LedgerTypes
  <2>. QED
    BY <1>7, <2>2 DEF OrphanedCredit, partyVars, reportVars, cronVars,
       PartyTypes, ReportTypes, CronTypes
<1>. QED  BY <1>1, <1>2, <1>3, <1>4, <1>5, <1>6, <1>7 DEF Failure

LEMMA NextTypeOK ==
  ASSUME TypeOK, [Next]_vars
  PROVE  TypeOK'
<1>1. CASE UNCHANGED vars
  BY <1>1 DEF vars, partyVars, reportVars, cronVars, ledgerVars,
     TypeOK, PartyTypes, ReportTypes, CronTypes, LedgerTypes
<1>. QED  BY <1>1, ClientTypeOK, RunStepTypeOK, FailureTypeOK DEF Next

(* Every value of every variable stays within its type.                      *)
THEOREM TypeCorrect == Spec => []TypeOK
  BY InitTypeOK, NextTypeOK, PTL DEF Spec

-----------------------------------------------------------------------------
(* The processor: one run at a time, each game closed and paid once *)

LEMMA InitIInv == Init => IInv
  BY InitTypeOK, EmptyReportType
  DEF Init, IInv, OneRunAtATime, ClosedOnce, RunIsCurrent, Active, Closed, Idle

\* A step of the active run, whatever it does, leaves one run active.
LEMMA RunMoves ==
  ASSUME TypeOK, OneRunAtATime, NEW i \in Invocations, Active(i),
         run'[i].stage # "idle", \A j \in Invocations \ {i} : run'[j] = run[j],
         isRunning' = isRunning
  PROVE  OneRunAtATime' /\ \A j \in Invocations : Active(j)' => j = i
  BY DEF OneRunAtATime, Active

\* A run that ends, well or not, leaves none active.
LEMMA RunStops ==
  ASSUME TypeOK, OneRunAtATime, NEW i \in Invocations, Active(i), Abort(i)
  PROVE  OneRunAtATime' /\ RunIsCurrent'
<1>1. \A j \in Invocations : ~Active(j)'
  BY DEF TypeOK, CronTypes, OneRunAtATime, Active, Abort, Idle
<1>. QED  BY <1>1 DEF OneRunAtATime, RunIsCurrent, Abort

\* What a run knows of the games stays true when only parties join.
LEMMA PartiesJoin ==
  ASSUME IInv, UNCHANGED <<resultsProcessed, outcome, cronVars, gameOverLogs,
                           rewardTxs>>,
         \A g \in Games : parties[g] \subseteq parties'[g]
  PROVE  OneRunAtATime' /\ ClosedOnce' /\ RunIsCurrent'
<1>. USE DEF IInv, cronVars
<1>1. OneRunAtATime'
  BY DEF OneRunAtATime, Active
<1>2. ClosedOnce'
  BY DEF ClosedOnce, Closed
<1>3. RunIsCurrent'
  <2>. SUFFICES ASSUME NEW i \in Invocations, Active(i)' PROVE WorkIsCurrent(i)'
    BY DEF RunIsCurrent
  <2>1. WorkIsCurrent(i)
    BY DEF RunIsCurrent, Active
  <2>. QED
    BY <2>1 DEF WorkIsCurrent, Closed, TwoParties
<1>. QED  BY <1>1, <1>2, <1>3

LEMMA NotEmpty ==
  ASSUME NEW S, Cardinality(S) >= 2
  PROVE  S # {}
  BY FS_EmptySet

\* The steps of a run that do not touch the games' rows, logs or payments.
LEMMA QuietStep ==
  ASSUME IInv, NEW i \in Invocations, Active(i),
         UNCHANGED <<parties, resultsProcessed, outcome, gameOverLogs, rewardTxs,
                     isRunning>>,
         NEW r, run' = [run EXCEPT ![i] = r], r.stage # "idle",
         WorkIsCurrent(i)'
  PROVE  OneRunAtATime' /\ ClosedOnce' /\ RunIsCurrent'
<1>. USE DEF IInv
<1>1. run'[i] = r /\ \A j \in Invocations \ {i} : run'[j] = run[j]
  BY DEF TypeOK, CronTypes
<1>2. OneRunAtATime' /\ \A j \in Invocations : Active(j)' => j = i
  BY <1>1, RunMoves
<1>3. ClosedOnce'
  BY DEF ClosedOnce, Closed
<1>. QED  BY <1>2, <1>3 DEF RunIsCurrent

LEMMA RunStepIInv ==
  ASSUME IInv, NEW i \in Invocations, Work(i)
  PROVE  OneRunAtATime' /\ ClosedOnce' /\ RunIsCurrent'
<1>. DEFINE Goal == OneRunAtATime' /\ ClosedOnce' /\ RunIsCurrent'
<1>. USE DEF IInv
<1>0. /\ run[i] \in Runs /\ run \in [Invocations -> Runs]
      /\ Active(i) => WorkIsCurrent(i)
  BY DEF TypeOK, CronTypes, RunIsCurrent
<1>1. ASSUME FilterProcessed(i) PROVE Goal
  <2>. DEFINE r == [run[i] EXCEPT !.stage = "next",
                      !.todo = {g \in Games : /\ resultsProcessed[g] = {}
                                              /\ TwoParties(i, g)}]
  <2>1. run' = [run EXCEPT ![i] = r] /\ r.stage = "next" /\ Active(i)
    BY <1>0, <1>1 DEF FilterProcessed, Active, Runs
  <2>2. run'[i] = r
    BY <1>0, <2>1
  <2>3. WorkIsCurrent(i)'
    <3>1. /\ r.snapshot = run[i].snapshot
          /\ r.todo = {g \in Games : /\ resultsProcessed[g] = {}
                                     /\ TwoParties(i, g)}
      BY <1>0 DEF Runs
    <3>2. \A g \in Games : TwoParties(i, g)' <=> TwoParties(i, g)
      BY <2>2, <3>1 DEF TwoParties
    <3>3. \A g \in r.todo : ~Closed(g)' /\ TwoParties(i, g)'
      BY <1>1, <3>1, <3>2 DEF FilterProcessed, partyVars, ClosedOnce, Closed
    <3>. QED
      BY <1>0, <1>1, <2>1, <2>2, <3>1, <3>3
      DEF FilterProcessed, WorkIsCurrent, AtGame, partyVars
  <2>. QED
    BY <1>1, <2>1, <2>3, QuietStep DEF FilterProcessed, partyVars, ledgerVars
<1>2. ASSUME NEW g \in Games, NextGame(i, g) PROVE Goal
  <2>. DEFINE r == [run[i] EXCEPT !.stage = "read", !.todo = @ \ {g},
                                  !.current = g, !.unread = run[i].snapshot[g]]
  <2>1. run' = [run EXCEPT ![i] = r] /\ r.stage = "read" /\ Active(i)
    BY <1>0, <1>2 DEF NextGame, Active, Runs
  <2>2. run'[i] = r
    BY <1>0, <2>1
  <2>3. WorkIsCurrent(i)'
    BY <1>0, <1>2, <2>1, <2>2
    DEF NextGame, WorkIsCurrent, TwoParties, AtGame, Closed, Runs, partyVars
  <2>. QED
    BY <1>2, <2>1, <2>3, QuietStep DEF NextGame, partyVars, ledgerVars
<1>3. ASSUME NEW a \in Accounts, ReadReport(i, a) PROVE Goal
  <2>1. PICK r : /\ run' = [run EXCEPT ![i] = r]
                 /\ r.stage \in {"read", "decide"}
                 /\ r.snapshot = run[i].snapshot /\ r.todo = run[i].todo
                 /\ r.current = run[i].current
    <3>. DEFINE r == [run[i] EXCEPT
                 !.unread = @ \ {a},
                 !.fetched[a] = IndividualEndGameResults(run[i].current, a),
                 !.stage = IF run[i].unread = {a} THEN "decide" ELSE "read"]
    <3>1. run' = [run EXCEPT ![i] = r]
      BY <1>0, <1>3 DEF ReadReport, Runs
    <3>2. /\ r.stage \in {"read", "decide"}
          /\ r.snapshot = run[i].snapshot /\ r.todo = run[i].todo
          /\ r.current = run[i].current
      BY <1>0 DEF Runs
    <3>. QED  BY <3>1, <3>2
  <2>2. run'[i] = r /\ Active(i)
    BY <1>0, <1>3, <2>1 DEF ReadReport, Active
  <2>3. WorkIsCurrent(i)'
    BY <1>0, <1>3, <2>1, <2>2
    DEF ReadReport, WorkIsCurrent, TwoParties, AtGame, Closed, partyVars
  <2>. QED
    BY <1>3, <2>1, <2>2, <2>3, QuietStep DEF ReadReport, partyVars, ledgerVars
<1>4. ASSUME SkipGame(i) PROVE Goal
  <2>1. run'[i] = Continue(i) /\ Active(i) /\ Continue(i).stage = "next"
    BY <1>0, <1>4 DEF SkipGame, Active, Continue, Idle
  <2>2. WorkIsCurrent(i)'
    BY <1>0, <1>4, <2>1
    DEF SkipGame, WorkIsCurrent, TwoParties, AtGame, Closed, partyVars,
        Continue, Idle
  <2>. QED
    BY <1>4, <2>1, <2>2, QuietStep DEF SkipGame, partyVars, ledgerVars
<1>5. ASSUME DecideCancel(i) PROVE Goal
  <2>. DEFINE r == [run[i] EXCEPT !.stage = "cancel"]
  <2>1. run' = [run EXCEPT ![i] = r] /\ r.stage = "cancel" /\ Active(i)
    BY <1>0, <1>5 DEF DecideCancel, Active, Runs
  <2>2. run'[i] = r
    BY <1>0, <2>1
  <2>3. WorkIsCurrent(i)'
    BY <1>0, <1>5, <2>1, <2>2
    DEF DecideCancel, WorkIsCurrent, TwoParties, AtGame, Closed, Runs, partyVars
  <2>. QED
    BY <1>5, <2>1, <2>3, QuietStep DEF DecideCancel, partyVars, ledgerVars
<1>6. ASSUME DecideSettle(i) PROVE Goal
  <2>1. PICK report \in TopHashedResults(i) :
          run' = [run EXCEPT ![i].stage = "credit", ![i].fetched = NoReports,
                             ![i].agreed = report, ![i].updates = report]
    BY <1>6 DEF DecideSettle
  <2>. DEFINE r == [run[i] EXCEPT !.stage = "credit", !.fetched = NoReports,
                                  !.agreed = report, !.updates = report]
  <2>2. \E q \in Results : report[q] > 0
    <3>1. run[i].current \in Games /\ run[i].snapshot \in [Games -> SUBSET Accounts]
      BY <1>0, <1>6 DEF DecideSettle, WorkIsCurrent, Active, AtGame, Runs
    <3>2. Reporters(i) \subseteq Accounts
      BY <3>1 DEF Reporters, Parties
    <3>3. report \in Report /\ report # EmptyReport
      BY <1>0, <2>1, <3>2 DEF TopHashedResults, HashedResults, Reporters, Runs
    <3>. QED  BY <3>3 DEF Report, EmptyReport
  <2>3. run' = [run EXCEPT ![i] = r] /\ r.stage = "credit" /\ Active(i)
    BY <1>0, <1>6, <2>1 DEF DecideSettle, Active, Runs
  <2>4. run'[i] = r
    BY <1>0, <2>3
  <2>5. WorkIsCurrent(i)'
    BY <1>0, <1>6, <2>2, <2>3, <2>4
    DEF DecideSettle, WorkIsCurrent, TwoParties, AtGame, Closed, Runs, partyVars
  <2>. QED
    BY <1>6, <2>3, <2>5, QuietStep DEF DecideSettle, partyVars, ledgerVars
<1>7. ASSUME NEW q \in Results, CreditPlayer(i, q) PROVE Goal
  <2>. DEFINE r == [run[i] EXCEPT !.updates[q] = @ - 1]
  <2>1. run' = [run EXCEPT ![i] = r] /\ r.stage = "credit" /\ Active(i)
    BY <1>0, <1>7 DEF CreditPlayer, Active, Runs
  <2>2. run'[i] = r
    BY <1>0, <2>1
  <2>3. WorkIsCurrent(i)'
    BY <1>0, <1>7, <2>1, <2>2
    DEF CreditPlayer, WorkIsCurrent, TwoParties, AtGame, Closed, Runs, partyVars
  <2>. QED
    BY <1>7, <2>1, <2>3, QuietStep DEF CreditPlayer, partyVars
<1>8. ASSUME WriteGameOverLogs(i) PROVE Goal
  <2>. DEFINE r == [run[i] EXCEPT !.stage = "resolve"]
              c == run[i].current
  <2>1. run' = [run EXCEPT ![i] = r] /\ r.stage = "resolve" /\ Active(i)
    BY <1>0, <1>8 DEF WriteGameOverLogs, Active, Runs
  <2>2. run'[i] = r /\ \A j \in Invocations \ {i} : run'[j] = run[j]
    BY <1>0, <2>1
  <2>3. OneRunAtATime' /\ \A j \in Invocations : Active(j)' => j = i
    BY <1>8, <2>1, <2>2, RunMoves DEF WriteGameOverLogs
  <2>4. /\ c \in Games /\ WorkIsCurrent(i)
        /\ \E q \in Results : run[i].agreed[q] > 0
    BY <1>0, <1>8 DEF WriteGameOverLogs, WorkIsCurrent, Active, AtGame
  <2>5. /\ \A g \in Games, a \in Accounts :
             gameOverLogs[g][a] > 0 => gameOverLogs'[g][a] > 0
        /\ \E a \in Accounts : gameOverLogs'[c][a] > 0
    <3>1. \A g \in Games, a \in Accounts : gameOverLogs[g][a] \in Nat
      BY DEF TypeOK, LedgerTypes
    <3>2. gameOverLogs' = [gameOverLogs EXCEPT ![c] =
            [a \in Accounts |->
               IF \E q \in Results : run[i].agreed[q] > 0 /\ q.accountId = a
               THEN @[a] + 1 ELSE @[a]]]
      BY <1>8 DEF WriteGameOverLogs
    <3>3. \A g \in Games \ {c} : gameOverLogs'[g] = gameOverLogs[g]
      BY <3>2 DEF TypeOK, LedgerTypes
    <3>4. \A a \in Accounts : gameOverLogs'[c][a] =
            IF \E q \in Results : run[i].agreed[q] > 0 /\ q.accountId = a
            THEN gameOverLogs[c][a] + 1 ELSE gameOverLogs[c][a]
      BY <2>4, <3>2 DEF TypeOK, LedgerTypes
    <3>5. \A q \in Results : q.accountId \in Accounts
      BY RequestsAssumption DEF Results
    <3>. QED  BY <2>4, <3>1, <3>3, <3>4, <3>5
  <2>6. ClosedOnce'
    BY <1>8, <2>5 DEF WriteGameOverLogs, ClosedOnce, Closed, partyVars
  <2>7. WorkIsCurrent(i)'
    BY <1>0, <1>8, <2>1, <2>2, <2>4, <2>5
    DEF WriteGameOverLogs, WorkIsCurrent, TwoParties, AtGame, Closed, Runs,
        partyVars
  <2>. QED  BY <2>3, <2>6, <2>7 DEF RunIsCurrent
<1>9. ASSUME ResolveSettled(i) PROVE Goal
  <2>. DEFINE r == [run[i] EXCEPT !.stage = "reward"]
              c == run[i].current
  <2>1. run' = [run EXCEPT ![i] = r] /\ r.stage = "reward" /\ Active(i)
    BY <1>0, <1>9 DEF ResolveSettled, Active, Runs
  <2>2. run'[i] = r /\ \A j \in Invocations \ {i} : run'[j] = run[j]
    BY <1>0, <2>1
  <2>3. OneRunAtATime' /\ \A j \in Invocations : Active(j)' => j = i
    BY <1>9, <2>1, <2>2, RunMoves DEF ResolveSettled
  <2>4. /\ c \in Games \ run[i].todo /\ WorkIsCurrent(i) /\ ~Closed(c)
        /\ parties[c] # {} /\ \E a \in Accounts : gameOverLogs[c][a] > 0
    BY <1>0, <1>9, NotEmpty
    DEF ResolveSettled, WorkIsCurrent, Active, AtGame, TwoParties
  <2>5. /\ \A g \in Games \ {c} : /\ outcome'[g] = outcome[g]
                                  /\ resultsProcessed'[g] = resultsProcessed[g]
        /\ outcome'[c] = "settled" /\ resultsProcessed'[c] = parties[c]
        /\ UNCHANGED <<parties, gameOverLogs, rewardTxs>>
    BY <1>9, <2>4 DEF ResolveSettled, ResolveGameProcessing, TypeOK, PartyTypes,
       ledgerVars
  <2>6. ClosedOnce'
    BY <2>4, <2>5 DEF ClosedOnce, Closed
  <2>7. rewardTxs[c] = 0
    <3>1. rewardTxs[c] \in Nat /\ rewardTxs[c] <= 1 /\ rewardTxs[c] # 1
      BY <2>4 DEF ClosedOnce, Closed, TypeOK, LedgerTypes
    <3>. QED  BY <3>1
  <2>8. WorkIsCurrent(i)'
    <3>1. /\ r.snapshot = run[i].snapshot /\ r.todo = run[i].todo
          /\ r.current = c
      BY <1>0 DEF Runs
    <3>2. run[i].todo \subseteq Games /\ TwoParties(i, c)
      BY <1>0, <1>9, <2>4 DEF Runs, WorkIsCurrent, AtGame, ResolveSettled
    <3>3. \A g \in run[i].todo : ~Closed(g)' /\ TwoParties(i, g)'
      BY <2>2, <2>4, <2>5, <3>1, <3>2 DEF WorkIsCurrent, Closed, TwoParties
    <3>4. TwoParties(i, c)'
      BY <2>2, <3>1, <3>2 DEF TwoParties
    <3>. QED
      BY <2>1, <2>2, <2>4, <2>5, <2>7, <3>1, <3>3, <3>4
      DEF WorkIsCurrent, AtGame
  <2>. QED  BY <2>3, <2>6, <2>8 DEF RunIsCurrent
<1>10. ASSUME ResolveCanceled(i) PROVE Goal
  <2>. DEFINE c == run[i].current
  <2>1. /\ run' = [run EXCEPT ![i] = Continue(i)] /\ Active(i)
        /\ Continue(i).stage = "next" /\ Continue(i).todo = run[i].todo
        /\ Continue(i).snapshot = run[i].snapshot
    BY <1>0, <1>10 DEF ResolveCanceled, Active, Continue, Idle
  <2>2. run'[i] = Continue(i) /\ \A j \in Invocations \ {i} : run'[j] = run[j]
    BY <1>0, <2>1
  <2>3. OneRunAtATime' /\ \A j \in Invocations : Active(j)' => j = i
    BY <1>10, <2>1, <2>2, RunMoves DEF ResolveCanceled
  <2>4. /\ c \in Games \ run[i].todo /\ WorkIsCurrent(i) /\ ~Closed(c)
        /\ parties[c] # {} /\ run[i].todo \subseteq Games
    BY <1>0, <1>10, NotEmpty
    DEF ResolveCanceled, WorkIsCurrent, Active, AtGame, TwoParties, Runs
  <2>5. /\ \A g \in Games \ {c} : /\ outcome'[g] = outcome[g]
                                  /\ resultsProcessed'[g] = resultsProcessed[g]
        /\ outcome'[c] = "canceled" /\ resultsProcessed'[c] = parties[c]
        /\ UNCHANGED <<parties, gameOverLogs, rewardTxs>>
    BY <1>10, <2>4 DEF ResolveCanceled, ResolveGameProcessing, TypeOK, PartyTypes,
       ledgerVars
  <2>6. ClosedOnce'
    BY <2>4, <2>5 DEF ClosedOnce, Closed
  <2>7. WorkIsCurrent(i)'
    <3>1. \A g \in run[i].todo : ~Closed(g)' /\ TwoParties(i, g)'
      BY <2>1, <2>2, <2>4, <2>5 DEF WorkIsCurrent, Closed, TwoParties
    <3>. QED  BY <2>1, <2>2, <2>4, <2>5, <3>1 DEF WorkIsCurrent, AtGame
  <2>. QED  BY <2>3, <2>6, <2>7 DEF RunIsCurrent
<1>11. ASSUME SendRewardTx(i) PROVE Goal
  <2>. DEFINE c == run[i].current
  <2>1. /\ run' = [run EXCEPT ![i] = Continue(i)] /\ Active(i)
        /\ Continue(i).stage = "next" /\ Continue(i).todo = run[i].todo
        /\ Continue(i).snapshot = run[i].snapshot
    BY <1>0, <1>11 DEF SendRewardTx, Active, Continue, Idle
  <2>2. run'[i] = Continue(i) /\ \A j \in Invocations \ {i} : run'[j] = run[j]
    BY <1>0, <2>1
  <2>3. OneRunAtATime' /\ \A j \in Invocations : Active(j)' => j = i
    BY <1>11, <2>1, <2>2, RunMoves DEF SendRewardTx
  <2>4. /\ c \in Games /\ WorkIsCurrent(i)
        /\ outcome[c] = "settled" /\ rewardTxs[c] = 0
    BY <1>0, <1>11 DEF SendRewardTx, WorkIsCurrent, Active, AtGame
  <2>5. /\ rewardTxs'[c] = 1
        /\ \A g \in Games \ {c} : rewardTxs'[g] = rewardTxs[g]
        /\ UNCHANGED <<parties, resultsProcessed, outcome, gameOverLogs>>
    BY <1>11, <2>4 DEF SendRewardTx, partyVars, TypeOK, LedgerTypes
  <2>6. ClosedOnce'
    BY <2>4, <2>5 DEF ClosedOnce, Closed
  <2>7. WorkIsCurrent(i)'
    <3>1. \A g \in run[i].todo : ~Closed(g)' /\ TwoParties(i, g)'
      BY <2>1, <2>2, <2>4, <2>5 DEF WorkIsCurrent, Closed, TwoParties
    <3>. QED  BY <2>1, <2>2, <2>4, <2>5, <3>1 DEF WorkIsCurrent, AtGame
  <2>. QED  BY <2>3, <2>6, <2>7 DEF RunIsCurrent
<1>12. ASSUME EndRun(i) PROVE Goal
  <2>1. Active(i) /\ Abort(i)
    BY <1>12 DEF EndRun, Active, Abort
  <2>2. ClosedOnce'
    BY <1>12 DEF EndRun, ClosedOnce, Closed, partyVars, ledgerVars
  <2>. QED  BY <2>1, <2>2, RunStops
<1>. QED
  BY <1>1, <1>2, <1>3, <1>4, <1>5, <1>6, <1>7, <1>8, <1>9, <1>10, <1>11, <1>12
  DEF Work

\* A failed reward call may or may not have paid: as SendRewardTx, or not at all.
LEMMA RewardFailsPays ==
  ASSUME IInv, NEW i \in Invocations, RewardFails(i)
  PROVE  /\ run[i].current \in Games
         /\ outcome[run[i].current] = "settled" /\ rewardTxs[run[i].current] = 0
         /\ UNCHANGED <<parties, resultsProcessed, outcome, gameOverLogs>>
         /\ \/ UNCHANGED rewardTxs
            \/ rewardTxs' = [rewardTxs EXCEPT ![run[i].current] = 1]
<1>1. /\ run[i].current \in Games
      /\ outcome[run[i].current] = "settled" /\ rewardTxs[run[i].current] = 0
  BY DEF RewardFails, IInv, RunIsCurrent, WorkIsCurrent, Active, AtGame
<1>2. PICK landed \in {0, 1} :
        rewardTxs' = [rewardTxs EXCEPT ![run[i].current] = @ + landed]
  BY DEF RewardFails
<1>3. rewardTxs \in [Games -> Nat]
  BY DEF IInv, TypeOK, LedgerTypes
<1>4. CASE landed = 0
  BY <1>1, <1>2, <1>3, <1>4 DEF RewardFails, partyVars
<1>5. CASE landed = 1
  <2>1. rewardTxs[run[i].current] + landed = 1
    BY <1>1, <1>5
  <2>2. rewardTxs' = [rewardTxs EXCEPT ![run[i].current] = 1]
    BY <1>2, <2>1
  <2>. QED  BY <1>1, <2>2 DEF RewardFails, partyVars
<1>. QED  BY <1>4, <1>5

LEMMA NextIInv ==
  ASSUME IInv, [Next]_vars
  PROVE  IInv'
<1>. DEFINE Goal == OneRunAtATime' /\ ClosedOnce' /\ RunIsCurrent'
<1>1. TypeOK'
  BY NextTypeOK DEF IInv
<1>2. ASSUME Client PROVE Goal
  <2>1. UNCHANGED <<resultsProcessed, outcome, cronVars, gameOverLogs, rewardTxs>>
    BY <1>2 DEF Client, TimePasses, StartGame, EndGame, SaveLog, FinishParty,
       partyVars, ledgerVars
  <2>2. \A g \in Games : parties[g] \subseteq parties'[g]
    BY <1>2 DEF Client, TimePasses, StartGame, EndGame, SaveLog, FinishParty,
       partyVars, IInv, TypeOK, PartyTypes
  <2>. QED  BY <2>1, <2>2, PartiesJoin
<1>3. ASSUME NEW i \in Invocations, FetchParties(i) PROVE Goal
  <2>1. \A j \in Invocations : ~Active(j)
    BY <1>3 DEF FetchParties, MayStart, IInv, OneRunAtATime
  <2>. DEFINE r == [Idle EXCEPT !.stage = "filter",
                                !.snapshot = [g \in Games |->
                                                parties[g] \ resultsProcessed[g]]]
  <2>2. /\ run'[i] = r /\ \A j \in Invocations \ {i} : run'[j] = run[j]
        /\ isRunning' = TRUE
    BY <1>3 DEF FetchParties, IInv, TypeOK, CronTypes
  <2>3. /\ r.stage = "filter" /\ r.todo = {}
        /\ \A g \in Games : r.snapshot[g] \subseteq parties[g]
    BY DEF Idle
  <2>4. OneRunAtATime' /\ \A j \in Invocations : Active(j)' => j = i
    BY <2>1, <2>2, <2>3 DEF OneRunAtATime, Active
  <2>5. WorkIsCurrent(i)' /\ ClosedOnce'
    BY <1>3, <2>2, <2>3 DEF FetchParties, WorkIsCurrent, AtGame, IInv, ClosedOnce,
       Closed, partyVars, ledgerVars
  <2>. QED  BY <2>4, <2>5 DEF RunIsCurrent
<1>4. ASSUME NEW i \in Invocations, Work(i) PROVE Goal
  BY <1>4, RunStepIInv
<1>5. ASSUME NEW g \in Games, NEW r \in Results, OrphanedCredit(g, r) PROVE Goal
  <2>1. UNCHANGED <<resultsProcessed, outcome, cronVars, gameOverLogs, rewardTxs>>
        /\ parties' = parties
    BY <1>5 DEF OrphanedCredit, partyVars
  <2>. QED  BY <2>1, PartiesJoin
<1>6. ASSUME NEW i \in Invocations,
             StatementFails(i) \/ \E r \in Results : CreditFails(i, r)
      PROVE  Goal
  <2>1. Active(i) /\ Abort(i)
    BY <1>6 DEF StatementFails, CreditFails, Active
  <2>2. ClosedOnce'
    BY <1>6 DEF StatementFails, CreditFails, IInv, ClosedOnce, Closed, partyVars,
       ledgerVars
  <2>. QED  BY <2>1, <2>2, RunStops DEF IInv
<1>7. ASSUME NEW i \in Invocations, RewardFails(i) PROVE Goal
  <2>1. Active(i) /\ Abort(i)
    BY <1>7 DEF RewardFails, Active
  <2>2. ClosedOnce'
    <3>1. ClosedOnce /\ rewardTxs \in [Games -> Nat]
      BY DEF IInv, TypeOK, LedgerTypes
    <3>2. CASE UNCHANGED rewardTxs
      BY <1>7, <3>1, <3>2, RewardFailsPays DEF ClosedOnce, Closed
    <3>3. CASE rewardTxs' = [rewardTxs EXCEPT ![run[i].current] = 1]
      BY <1>7, <3>1, <3>3, RewardFailsPays DEF ClosedOnce, Closed
    <3>. QED  BY <1>7, <3>2, <3>3, RewardFailsPays
  <2>. QED  BY <2>1, <2>2, RunStops DEF IInv
<1>8. ASSUME NEW e \in EndRequests,
             (\E row \in unsaved[e] : SaveLogFails(e, row)) \/ FinishFails(e)
      PROVE  Goal
  <2>1. UNCHANGED <<resultsProcessed, outcome, cronVars, gameOverLogs, rewardTxs>>
        /\ parties' = parties
    BY <1>8 DEF SaveLogFails, FinishFails, partyVars, ledgerVars
  <2>. QED  BY <2>1, PartiesJoin
<1>9. ASSUME Crash PROVE Goal
  <2>1. \A j \in Invocations : ~Active(j)'
    BY <1>9 DEF Crash, Active, Idle
  <2>2. ClosedOnce'
    BY <1>9 DEF Crash, IInv, ClosedOnce, Closed, partyVars
  <2>. QED  BY <1>9, <2>1, <2>2 DEF Crash, OneRunAtATime, RunIsCurrent
<1>10. ASSUME UNCHANGED vars PROVE Goal
  <2>1. UNCHANGED <<resultsProcessed, outcome, cronVars, gameOverLogs, rewardTxs>>
        /\ parties' = parties
    BY <1>10 DEF vars, partyVars, ledgerVars
  <2>. QED  BY <2>1, PartiesJoin
<1>. QED
  BY <1>1, <1>2, <1>3, <1>4, <1>5, <1>6, <1>7, <1>8, <1>9, <1>10
  DEF Next, Failure, IInv

(* The inductive invariant: whatever fails and whenever the process crashes,  *)
(* at most one invocation of runProcessor is at work, what it still has to do *)
(* are open games, and every game is closed and paid at most once.            *)
THEOREM ProcessorInvariant == Spec => []IInv
  BY InitIInv, NextIInv, PTL DEF Spec

(* The isRunning flag excludes overlapping cron invocations.                  *)
THEOREM MutualExclusion == Spec => []OneRunAtATime
<1>1. IInv => OneRunAtATime
  BY DEF IInv
<1>. QED  BY <1>1, ProcessorInvariant, PTL

(* A game is closed once, marked as processed when it is, and paid at most    *)
(* once, when it has been settled and logged.                                 *)
THEOREM ClosedAndPaidOnce == Spec => []ClosedOnce
<1>1. IInv => ClosedOnce
  BY DEF IInv
<1>. QED  BY <1>1, ProcessorInvariant, PTL

(* The games a run has before it are open games of at least two parties, and  *)
(* the one it is about to pay is settled and unpaid, whatever has happened    *)
(* since it read them.                                                        *)
THEOREM WorkStaysCurrent == Spec => []RunIsCurrent
<1>1. IInv => RunIsCurrent
  BY DEF IInv
<1>. QED  BY <1>1, ProcessorInvariant, PTL

-----------------------------------------------------------------------------
(* The pipeline implements its contract *)

LEMMA ContractInitially == Init => Contract!ContractInit
  BY DEF Init, Contract!ContractInit

LEMMA ContractStep ==
  ASSUME IInv, [Next]_vars
  PROVE  [Contract!ContractNext]_(Contract!contractVars)
<1>. USE DEF Contract!contractVars
<1>1. ASSUME Client PROVE UNCHANGED Contract!contractVars
  BY <1>1 DEF Client, TimePasses, StartGame, EndGame, SaveLog, FinishParty,
     partyVars, ledgerVars
<1>2. ASSUME NEW i \in Invocations, FetchParties(i)
      PROVE  UNCHANGED Contract!contractVars
  BY <1>2 DEF FetchParties, partyVars, ledgerVars
<1>3. ASSUME NEW i \in Invocations, Work(i)
      PROVE  [Contract!ContractNext]_(Contract!contractVars)
  <2>. DEFINE c == run[i].current
  <2>1. ASSUME WriteGameOverLogs(i) PROVE Contract!Log(c) /\ c \in Games
    <3>. DEFINE logged == {a \in Accounts : \E q \in Results :
                            run[i].agreed[q] > 0 /\ q.accountId = a}
    <3>1. /\ c \in Games /\ outcome[c] = "open"
          /\ \E q \in Results : run[i].agreed[q] > 0
      BY <2>1 DEF WriteGameOverLogs, IInv, RunIsCurrent, WorkIsCurrent, Active,
         AtGame, Closed
    <3>2. logged # {} /\ logged \in SUBSET Accounts
      BY <3>1, RequestsAssumption DEF Results
    <3>3. gameOverLogs' = [gameOverLogs EXCEPT ![c] =
            [a \in Accounts |-> IF a \in logged THEN @[a] + 1 ELSE @[a]]]
      BY <2>1 DEF WriteGameOverLogs
    <3>. QED
      BY <2>1, <3>1, <3>2, <3>3 DEF Contract!Log, WriteGameOverLogs, partyVars
  <2>2. ASSUME ResolveSettled(i) PROVE Contract!Settle(c) /\ c \in Games
    BY <2>2 DEF ResolveSettled, ResolveGameProcessing, IInv, RunIsCurrent,
       WorkIsCurrent, Active, AtGame, Closed, ledgerVars, Contract!Settle
  <2>3. ASSUME ResolveCanceled(i) PROVE Contract!Cancel(c) /\ c \in Games
    BY <2>3 DEF ResolveCanceled, ResolveGameProcessing, IInv, RunIsCurrent,
       WorkIsCurrent, Active, AtGame, Closed, ledgerVars, Contract!Cancel
  <2>4. ASSUME SendRewardTx(i) PROVE Contract!Pay(c) /\ c \in Games
    <3>1. c \in Games /\ outcome[c] = "settled" /\ rewardTxs[c] = 0
      BY <2>4 DEF SendRewardTx, IInv, RunIsCurrent, WorkIsCurrent, Active, AtGame
    <3>2. rewardTxs' = [rewardTxs EXCEPT ![c] = 1]
      BY <2>4, <3>1 DEF SendRewardTx
    <3>. QED  BY <2>4, <3>1, <3>2 DEF SendRewardTx, partyVars, Contract!Pay
  <2>5. ASSUME \/ FilterProcessed(i)
               \/ \E g \in Games : NextGame(i, g)
               \/ \E a \in Accounts : ReadReport(i, a)
               \/ SkipGame(i) \/ DecideCancel(i) \/ DecideSettle(i)
               \/ \E r \in Results : CreditPlayer(i, r)
               \/ EndRun(i)
        PROVE  UNCHANGED Contract!contractVars
    BY <2>5 DEF FilterProcessed, NextGame, ReadReport, SkipGame, DecideCancel,
       DecideSettle, CreditPlayer, EndRun, partyVars, ledgerVars
  <2>. QED
    BY <1>3, <2>1, <2>2, <2>3, <2>4, <2>5 DEF Work, Contract!ContractNext
<1>4. ASSUME NEW g \in Games, NEW r \in Results, OrphanedCredit(g, r)
      PROVE  UNCHANGED Contract!contractVars
  BY <1>4 DEF OrphanedCredit, partyVars
<1>5. ASSUME NEW i \in Invocations, RewardFails(i)
      PROVE  [Contract!ContractNext]_(Contract!contractVars)
  BY <1>5, RewardFailsPays DEF Contract!ContractNext, Contract!Pay
<1>6. ASSUME \/ \E i \in Invocations :
                  StatementFails(i) \/ \E r \in Results : CreditFails(i, r)
             \/ \E e \in EndRequests :
                  (\E row \in unsaved[e] : SaveLogFails(e, row)) \/ FinishFails(e)
             \/ Crash
      PROVE  UNCHANGED Contract!contractVars
  BY <1>6 DEF StatementFails, CreditFails, SaveLogFails, FinishFails, Crash,
     partyVars, ledgerVars
<1>7. CASE UNCHANGED vars
  BY <1>7 DEF vars, partyVars, ledgerVars
<1>. QED
  BY <1>1, <1>2, <1>3, <1>4, <1>5, <1>6, <1>7 DEF Next, Failure

(* The end-game pipeline keeps its contract through every interleaving, fault *)
(* and crash: a game is settled or canceled once, logged before and never     *)
(* after, and paid at most once, only when settled.                           *)
THEOREM ContractHolds == Spec => ImplementsContract
  BY ContractInitially, ContractStep, ProcessorInvariant, PTL
  DEF Spec, ImplementsContract, Contract!ContractSpec

-----------------------------------------------------------------------------
(* Late seats *)

\* Rows are marked as processed only by the run that closes the game.
LEMMA LateSeatsStep ==
  ASSUME IInv, [Next]_vars
  PROVE  [\A g \in Games :
            Closed(g) => resultsProcessed'[g] = resultsProcessed[g]]_vars
<1>. DEFINE Kept == \A g \in Games :
              Closed(g) => resultsProcessed'[g] = resultsProcessed[g]
<1>1. ASSUME NEW i \in Invocations, ResolveSettled(i) \/ ResolveCanceled(i)
      PROVE  Kept
  <2>1. ~Closed(run[i].current)
    BY <1>1 DEF ResolveSettled, ResolveCanceled, IInv, RunIsCurrent,
       WorkIsCurrent, Active, AtGame
  <2>2. resultsProcessed' = [resultsProcessed EXCEPT
                               ![run[i].current] = parties[run[i].current]]
    BY <1>1 DEF ResolveSettled, ResolveCanceled, ResolveGameProcessing
  <2>. QED  BY <2>1, <2>2 DEF IInv, TypeOK, PartyTypes
<1>2. ASSUME NEW i \in Invocations,
             \/ FetchParties(i) \/ FilterProcessed(i)
             \/ \E g \in Games : NextGame(i, g)
             \/ \E a \in Accounts : ReadReport(i, a)
             \/ SkipGame(i) \/ DecideCancel(i) \/ DecideSettle(i)
             \/ \E r \in Results : CreditPlayer(i, r)
             \/ WriteGameOverLogs(i) \/ SendRewardTx(i) \/ EndRun(i)
      PROVE  resultsProcessed' = resultsProcessed
  BY <1>2 DEF FetchParties, FilterProcessed, NextGame, ReadReport, SkipGame,
     DecideCancel, DecideSettle, CreditPlayer, WriteGameOverLogs, SendRewardTx,
     EndRun, partyVars
<1>3. ASSUME Client PROVE resultsProcessed' = resultsProcessed
  BY <1>3 DEF Client, TimePasses, StartGame, EndGame, SaveLog, FinishParty,
     partyVars
<1>4. ASSUME Failure PROVE resultsProcessed' = resultsProcessed
  BY <1>4 DEF Failure, StatementFails, CreditFails, RewardFails, SaveLogFails,
     FinishFails, Crash, partyVars
<1>5. ASSUME NEW g \in Games, NEW r \in Results, OrphanedCredit(g, r)
      PROVE  resultsProcessed' = resultsProcessed
  BY <1>5 DEF OrphanedCredit, partyVars
<1>6. CASE UNCHANGED vars
  BY <1>6
<1>. QED  BY <1>1, <1>2, <1>3, <1>4, <1>5, <1>6 DEF Next, Work

(* A seat taken in a closed game is never processed: no step of the pipeline *)
(* marks rows of a game that somebody has already decided.                   *)
THEOREM LateSeatsUntouched == Spec => LateSeatsStay
  BY LateSeatsStep, ProcessorInvariant, PTL DEF Spec, LateSeatsStay

-----------------------------------------------------------------------------
(* No game-over log without a credit of its own, none repeated without a failure *)

LEMMA InitLedgerInv == Init => LedgerInv
<1>. SUFFICES ASSUME Init PROVE LedgerInv
  OBVIOUS
<1>1. \A g \in Games, a \in Accounts : gameOverLogs[g][a] = 0 /\ statUpdates[g][a] = 0
  BY DEF Init
<1>2. \A i \in Invocations : run[i].stage = "idle"
  BY DEF Init, Idle
<1>3. faults = 0
  BY DEF Init
<1>. QED
  BY <1>1, <1>2, <1>3
  DEF LedgerInv, LogsNeverOutrunCredits, CreditsPrecedeLogs, LogsPerFault

\* The steps that write no logs: credits may come, runs may end by a failure,
\* which is counted, and a run leaves "resolve" otherwise only by closing.
LEMMA NoNewLogs ==
  ASSUME IInv, LedgerInv, TypeOK',
         UNCHANGED gameOverLogs,
         \A g \in Games, a \in Accounts : statUpdates[g][a] <= statUpdates'[g][a],
         faults' \in {faults, faults + 1},
         \A g \in Games : Closed(g) => Closed(g)',
         \A j \in Invocations : run'[j].stage = "credit" =>
            run'[j] = run[j] \/ run'[j].updates = run'[j].agreed,
         \A j \in Invocations : run[j].stage = "resolve" =>
            \/ run'[j] = run[j]
            \/ outcome'[run[j].current] # "open"
            \/ faults' = faults + 1
  PROVE  LedgerInv'
<1>1. \A g \in Games, a \in Accounts :
         /\ gameOverLogs[g][a] \in Nat /\ gameOverLogs'[g][a] = gameOverLogs[g][a]
         /\ statUpdates[g][a] \in Nat /\ statUpdates'[g][a] \in Nat
  BY DEF IInv, TypeOK, LedgerTypes
<1>2. faults \in Nat /\ faults' \in Nat
  BY FaultsAssumption DEF IInv, TypeOK
<1>3. LogsNeverOutrunCredits'
  BY <1>1 DEF LedgerInv, LogsNeverOutrunCredits
<1>4. CreditsPrecedeLogs'
  <2>. SUFFICES ASSUME NEW i \in Invocations, run'[i].stage = "credit",
                       NEW r \in Results,
                       run'[i].agreed[r] > 0, ~(run'[i].updates[r] > 0)
                PROVE  gameOverLogs'[run'[i].current][r.accountId]
                         < statUpdates'[run'[i].current][r.accountId]
    BY DEF CreditsPrecedeLogs, Pending
  <2>1. run'[i] = run[i]
    OBVIOUS
  <2>2. run[i].current \in Games /\ r.accountId \in Accounts
    BY <2>1, RequestsAssumption
    DEF IInv, RunIsCurrent, WorkIsCurrent, Active, AtGame, Results
  <2>3. gameOverLogs[run[i].current][r.accountId]
          < statUpdates[run[i].current][r.accountId]
    BY <2>1 DEF LedgerInv, CreditsPrecedeLogs, Pending
  <2>. QED  BY <1>1, <2>1, <2>2, <2>3
<1>5. LogsPerFault'
  <2>. SUFFICES ASSUME NEW g \in Games, NEW a \in Accounts
                PROVE  gameOverLogs'[g][a] <= faults' + IF Logged(g)' THEN 1 ELSE 0
    BY DEF LogsPerFault
  <2>1. gameOverLogs[g][a] <= faults + IF Logged(g) THEN 1 ELSE 0
    BY DEF LedgerInv, LogsPerFault
  <2>2. CASE faults' = faults + 1
    BY <1>1, <1>2, <2>1, <2>2
  <2>3. CASE faults' = faults
    <3>1. ASSUME Logged(g) PROVE Logged(g)'
      <4>1. CASE Closed(g)
        BY <4>1 DEF Logged
      <4>2. ASSUME NEW i \in Invocations,
                   run[i].stage = "resolve", run[i].current = g
            PROVE  Logged(g)'
        BY <1>2, <2>3, <4>2 DEF Logged, Closed
      <4>. QED  BY <3>1, <4>1, <4>2 DEF Logged
    <3>. QED  BY <1>1, <1>2, <2>1, <2>3, <3>1
  <2>. QED  BY <2>2, <2>3
<1>. QED  BY <1>3, <1>4, <1>5 DEF LedgerInv

\* The active run's record, after a step that changes only it.
LEMMA RunAfter ==
  ASSUME TypeOK, NEW i \in Invocations, NEW r, run' = [run EXCEPT ![i] = r]
  PROVE  run'[i] = r /\ \A j \in Invocations \ {i} : run'[j] = run[j]
  BY DEF TypeOK, CronTypes

LEMMA CreditKeepsLedger ==
  ASSUME IInv, LedgerInv, TypeOK',
         NEW i \in Invocations, NEW r \in Results, CreditPlayer(i, r)
  PROVE  LedgerInv'
<1>. DEFINE c == run[i].current
            u == [run[i].updates EXCEPT ![r] = @ - 1]
            s == [run[i] EXCEPT !.updates = u]
<1>0. /\ run \in [Invocations -> Runs] /\ run[i] \in Runs
      /\ statUpdates \in [Games -> [Accounts -> Nat]]
      /\ gameOverLogs \in [Games -> [Accounts -> Nat]]
  BY DEF IInv, TypeOK, CronTypes, LedgerTypes
<1>1. c \in Games /\ \A q \in Results : q.accountId \in Accounts
  BY RequestsAssumption
  DEF CreditPlayer, IInv, RunIsCurrent, WorkIsCurrent, Active, AtGame, Results
<1>2. /\ run'[i] = s /\ \A j \in Invocations \ {i} : run'[j] = run[j]
      /\ s.stage = "credit" /\ s.current = c /\ s.agreed = run[i].agreed
      /\ s.updates = u
  BY <1>0 DEF CreditPlayer, Runs
<1>3. \A j \in Invocations : run[j].stage # "idle" => j = i
  BY DEF CreditPlayer, IInv, OneRunAtATime, Active
<1>4. statUpdates' = [statUpdates EXCEPT ![c][r.accountId] = @ + 1]
      /\ gameOverLogs' = gameOverLogs
  BY DEF CreditPlayer
<1>5. \A g \in Games, a \in Accounts :
         statUpdates'[g][a] = statUpdates[g][a]
                                + IF g = c /\ a = r.accountId THEN 1 ELSE 0
  BY <1>0, <1>1, <1>4
<1>6. LogsNeverOutrunCredits'
  BY <1>0, <1>4, <1>5 DEF LedgerInv, LogsNeverOutrunCredits
<1>7. CreditsPrecedeLogs'
  <2>. SUFFICES ASSUME NEW q \in Results, s.agreed[q] > 0, ~(u[q] > 0)
                PROVE  gameOverLogs'[c][q.accountId] < statUpdates'[c][q.accountId]
    <3>1. \A j \in Invocations : run'[j].stage = "credit" => j = i
      BY <1>2, <1>3
    <3>. QED  BY <1>2, <3>1 DEF CreditsPrecedeLogs, Pending
  <2>1. CASE q = r
    BY <1>0, <1>1, <1>4, <1>5, <2>1 DEF LedgerInv, LogsNeverOutrunCredits
  <2>2. CASE q # r
    <3>1. u[q] = run[i].updates[q]
      BY <1>0, <2>2 DEF Runs, Report
    <3>2. gameOverLogs[c][q.accountId] < statUpdates[c][q.accountId]
      BY <1>2, <3>1 DEF LedgerInv, CreditsPrecedeLogs, Pending, CreditPlayer
    <3>. QED  BY <1>0, <1>1, <1>4, <1>5, <3>2
  <2>. QED  BY <2>1, <2>2
<1>8. LogsPerFault'
  <2>1. \A g \in Games : Logged(g)' <=> Logged(g)
    BY <1>2 DEF Logged, Closed, CreditPlayer, partyVars
  <2>. QED
    BY <1>4, <2>1 DEF LedgerInv, LogsPerFault, CreditPlayer
<1>. QED  BY <1>6, <1>7, <1>8 DEF LedgerInv

LEMMA LoggingKeepsLedger ==
  ASSUME IInv, LedgerInv, NEW i \in Invocations, WriteGameOverLogs(i)
  PROVE  LedgerInv'
<1>. DEFINE c == run[i].current
            Named(a) == \E r \in Results : run[i].agreed[r] > 0 /\ r.accountId = a
<1>0. /\ run \in [Invocations -> Runs] /\ run[i] \in Runs
      /\ statUpdates \in [Games -> [Accounts -> Nat]]
      /\ gameOverLogs \in [Games -> [Accounts -> Nat]]
      /\ faults \in Nat
  BY FaultsAssumption DEF IInv, TypeOK, CronTypes, LedgerTypes
<1>1. c \in Games /\ ~Closed(c)
  BY DEF WriteGameOverLogs, IInv, RunIsCurrent, WorkIsCurrent, Active, AtGame
<1>2. /\ run'[i].stage = "resolve" /\ run'[i].current = c
      /\ \A j \in Invocations \ {i} : run'[j] = run[j]
  BY <1>0 DEF WriteGameOverLogs, Runs
<1>3. \A j \in Invocations : run[j].stage # "idle" => j = i
  BY DEF WriteGameOverLogs, IInv, OneRunAtATime, Active
<1>4. \A g \in Games, a \in Accounts :
         gameOverLogs'[g][a] = gameOverLogs[g][a]
                                 + IF g = c /\ Named(a) THEN 1 ELSE 0
  BY <1>0, <1>1 DEF WriteGameOverLogs
<1>5. statUpdates' = statUpdates /\ faults' = faults /\ outcome' = outcome
  BY DEF WriteGameOverLogs, partyVars
<1>6. LogsNeverOutrunCredits'
  <2>. SUFFICES ASSUME NEW g \in Games, NEW a \in Accounts
                PROVE  gameOverLogs'[g][a] <= statUpdates[g][a]
    BY <1>5 DEF LogsNeverOutrunCredits
  <2>1. CASE g = c /\ Named(a)
    <3>1. PICK r \in Results : run[i].agreed[r] > 0 /\ r.accountId = a
      BY <2>1
    <3>2. ~Pending(i, r)
      BY DEF WriteGameOverLogs, AllCredited, EmptyReport, Pending
    <3>3. gameOverLogs[c][a] < statUpdates[c][a]
      BY <3>1, <3>2 DEF LedgerInv, CreditsPrecedeLogs, WriteGameOverLogs
    <3>. QED  BY <1>0, <1>4, <2>1, <3>3
  <2>2. CASE ~(g = c /\ Named(a))
    BY <1>0, <1>4, <2>2 DEF LedgerInv, LogsNeverOutrunCredits
  <2>. QED  BY <2>1, <2>2
<1>7. CreditsPrecedeLogs'
  BY <1>2, <1>3 DEF CreditsPrecedeLogs
<1>8. LogsPerFault'
  <2>. SUFFICES ASSUME NEW g \in Games, NEW a \in Accounts
                PROVE  gameOverLogs'[g][a] <= faults + IF Logged(g)' THEN 1 ELSE 0
    BY <1>5 DEF LogsPerFault
  <2>1. gameOverLogs[g][a] <= faults + IF Logged(g) THEN 1 ELSE 0
    BY DEF LedgerInv, LogsPerFault
  <2>2. CASE g = c
    <3>1. ~Logged(g) /\ Logged(g)'
      BY <1>1, <1>2, <1>3, <2>2 DEF Logged, WriteGameOverLogs
    <3>2. gameOverLogs[g][a] <= faults
      BY <1>0, <2>1, <2>2, <3>1
    <3>3. gameOverLogs'[g][a] \in {gameOverLogs[g][a], gameOverLogs[g][a] + 1}
      BY <1>0, <1>4
    <3>. QED  BY <1>0, <3>1, <3>2, <3>3
  <2>3. CASE g # c
    <3>1. Logged(g) => Logged(g)'
      BY <1>2, <1>3, <1>5, <2>3 DEF Logged, Closed, WriteGameOverLogs
    <3>. QED  BY <1>0, <1>4, <2>1, <2>3, <3>1
  <2>. QED  BY <2>2, <2>3
<1>. QED  BY <1>6, <1>7, <1>8 DEF LedgerInv

LEMMA WorkKeepsLedger ==
  ASSUME IInv, LedgerInv, TypeOK', NEW i \in Invocations, Work(i)
  PROVE  LedgerInv'
<1>0. /\ TypeOK /\ run[i] \in Runs
      /\ \A g \in Games, a \in Accounts : statUpdates[g][a] \in Nat
  BY DEF IInv, TypeOK, CronTypes, LedgerTypes
<1>1. ASSUME \/ FilterProcessed(i)
             \/ \E g \in Games : NextGame(i, g)
             \/ \E a \in Accounts : ReadReport(i, a)
             \/ SkipGame(i)
             \/ DecideCancel(i)
             \/ SendRewardTx(i)
             \/ EndRun(i)
      PROVE  LedgerInv'
  <2>1. /\ run'[i].stage # "credit"
        /\ \A j \in Invocations \ {i} : run'[j] = run[j]
    <3>0. run \in [Invocations -> Runs]
      BY <1>0 DEF TypeOK, CronTypes
    <3>1. CASE FilterProcessed(i)
      BY <3>0, <3>1 DEF FilterProcessed, Runs
    <3>2. CASE \E g \in Games : NextGame(i, g)
      BY <3>0, <3>2 DEF NextGame, Runs
    <3>3. CASE \E a \in Accounts : ReadReport(i, a)
      BY <3>0, <3>3 DEF ReadReport, Runs
    <3>4. CASE SkipGame(i) \/ SendRewardTx(i)
      BY <3>0, <3>4 DEF SkipGame, SendRewardTx, Continue, Idle
    <3>5. CASE DecideCancel(i)
      BY <3>0, <3>5 DEF DecideCancel, Runs
    <3>6. CASE EndRun(i)
      BY <3>0, <3>6 DEF EndRun, Idle
    <3>. QED  BY <1>1, <3>1, <3>2, <3>3, <3>4, <3>5, <3>6
  <2>2. run[i].stage # "resolve"
    BY <1>1 DEF FilterProcessed, NextGame, ReadReport, SkipGame, DecideCancel,
       SendRewardTx, EndRun
  <2>3. UNCHANGED <<gameOverLogs, statUpdates, faults, outcome>>
    BY <1>1 DEF FilterProcessed, NextGame, ReadReport, SkipGame, DecideCancel,
       SendRewardTx, EndRun, partyVars, ledgerVars
  <2>. QED  BY <1>0, <2>1, <2>2, <2>3, NoNewLogs DEF Closed
<1>2. ASSUME DecideSettle(i) PROVE LedgerInv'
  <2>1. /\ run'[i].updates = run'[i].agreed
        /\ \A j \in Invocations \ {i} : run'[j] = run[j]
    BY <1>0, <1>2 DEF TypeOK, CronTypes, DecideSettle, Runs
  <2>2. run[i].stage # "resolve"
    BY <1>2 DEF DecideSettle
  <2>3. UNCHANGED <<gameOverLogs, statUpdates, faults, outcome>>
    BY <1>2 DEF DecideSettle, partyVars, ledgerVars
  <2>. QED  BY <1>0, <2>1, <2>2, <2>3, NoNewLogs DEF Closed
<1>3. ASSUME NEW r \in Results, CreditPlayer(i, r) PROVE LedgerInv'
  BY <1>3, CreditKeepsLedger
<1>4. ASSUME WriteGameOverLogs(i) PROVE LedgerInv'
  BY <1>4, LoggingKeepsLedger
<1>5. ASSUME ResolveSettled(i) \/ ResolveCanceled(i) PROVE LedgerInv'
  <2>1. /\ run'[i].stage # "credit"
        /\ \A j \in Invocations \ {i} : run'[j] = run[j]
    BY <1>0, <1>5 DEF TypeOK, CronTypes, ResolveSettled, ResolveCanceled, Continue,
       Idle, Runs
  <2>2. run[i].current \in Games
    BY <1>5 DEF ResolveSettled, ResolveCanceled, IInv, RunIsCurrent, WorkIsCurrent,
       Active, AtGame
  <2>3. \A g \in Games : /\ Closed(g) => Closed(g)'
                         /\ g = run[i].current => Closed(g)'
    BY <1>0, <1>5, <2>2 DEF ResolveSettled, ResolveCanceled, ResolveGameProcessing,
       Closed, TypeOK, PartyTypes
  <2>4. UNCHANGED <<gameOverLogs, statUpdates, faults>>
    BY <1>5 DEF ResolveSettled, ResolveCanceled, ledgerVars
  <2>5. \A j \in Invocations : run[j].stage = "resolve" =>
           run'[j] = run[j] \/ outcome'[run[j].current] # "open"
    BY <2>1, <2>2, <2>3 DEF Closed
  <2>. QED  BY <1>0, <2>1, <2>3, <2>4, <2>5, NoNewLogs
<1>. QED
  BY <1>1, <1>2, <1>3, <1>4, <1>5 DEF Work

LEMMA NextLedgerInv ==
  ASSUME IInv, LedgerInv, [Next]_vars
  PROVE  LedgerInv'
<1>0. /\ TypeOK /\ TypeOK' /\ run \in [Invocations -> Runs]
      /\ statUpdates \in [Games -> [Accounts -> Nat]]
      /\ \A g \in Games, a \in Accounts : statUpdates[g][a] \in Nat
  BY NextTypeOK DEF IInv, TypeOK, CronTypes, LedgerTypes
<1>1. ASSUME Client \/ UNCHANGED vars PROVE LedgerInv'
  <2>1. UNCHANGED <<run, gameOverLogs, statUpdates, faults, outcome>>
    BY <1>1 DEF Client, TimePasses, StartGame, EndGame, SaveLog, FinishParty, vars,
       partyVars, cronVars, ledgerVars
  <2>. QED  BY <1>0, <2>1, NoNewLogs DEF Closed
<1>2. ASSUME NEW i \in Invocations, FetchParties(i) PROVE LedgerInv'
  <2>1. /\ run'[i].stage = "filter" /\ run[i].stage = "idle"
        /\ \A j \in Invocations \ {i} : run'[j] = run[j]
    BY <1>0, <1>2 DEF FetchParties, MayStart, Idle
  <2>2. UNCHANGED <<gameOverLogs, statUpdates, faults, outcome>>
    BY <1>2 DEF FetchParties, partyVars, ledgerVars
  <2>. QED  BY <1>0, <2>1, <2>2, NoNewLogs DEF Closed
<1>3. ASSUME NEW i \in Invocations, Work(i) PROVE LedgerInv'
  BY <1>0, <1>3, WorkKeepsLedger
<1>4. ASSUME NEW g \in Games, NEW r \in Results, OrphanedCredit(g, r)
      PROVE  LedgerInv'
  <2>1. r.accountId \in Accounts
    BY RequestsAssumption DEF Results
  <2>2. \A h \in Games, a \in Accounts : statUpdates[h][a] <= statUpdates'[h][a]
    BY <1>0, <1>4, <2>1 DEF OrphanedCredit
  <2>3. UNCHANGED <<run, gameOverLogs, faults, outcome>>
    BY <1>4 DEF OrphanedCredit, partyVars, cronVars
  <2>. QED  BY <1>0, <2>2, <2>3, NoNewLogs DEF Closed
<1>5. ASSUME Failure PROVE LedgerInv'
  <2>1. UNCHANGED <<gameOverLogs, statUpdates, outcome>> /\ faults' = faults + 1
    BY <1>5 DEF Failure, StatementFails, CreditFails, RewardFails, SaveLogFails,
       FinishFails, Crash, Fault, partyVars, ledgerVars
  <2>2. \A j \in Invocations : run'[j] = run[j] \/ run'[j].stage = "idle"
    <3>. DEFINE Goal == \A j \in Invocations :
                          run'[j] = run[j] \/ run'[j].stage = "idle"
    <3>1. ASSUME NEW i \in Invocations,
                 \/ StatementFails(i)
                 \/ \E r \in Results : CreditFails(i, r)
                 \/ RewardFails(i)
          PROVE  Goal
      <4>1. run' = [run EXCEPT ![i] = Idle]
        BY <3>1 DEF StatementFails, CreditFails, RewardFails, Abort
      <4>. QED  BY <1>0, <4>1 DEF Idle
    <3>2. ASSUME NEW e \in EndRequests,
                 (\E row \in unsaved[e] : SaveLogFails(e, row)) \/ FinishFails(e)
          PROVE  Goal
      BY <3>2 DEF SaveLogFails, FinishFails, cronVars
    <3>3. ASSUME Crash PROVE Goal
      BY <3>3 DEF Crash, Idle
    <3>. QED  BY <1>5, <3>1, <3>2, <3>3 DEF Failure
  <2>. QED  BY <1>0, <2>1, <2>2, NoNewLogs DEF Closed
<1>. QED
  BY <1>1, <1>2, <1>3, <1>4, <1>5 DEF Next

LEMMA LedgerInvariant == Spec => []LedgerInv
  BY InitLedgerInv, NextLedgerInv, ProcessorInvariant, PTL DEF Spec

(* Every game-over log stands on an executed update of its account's stats,   *)
(* through every failure, retry and crash: createLogsForGame never runs ahead *)
(* of distributeGameStatsAndPoints.                                           *)
THEOREM CreditedBeforeLogged == Spec => []LogsNeverOutrunCredits
<1>1. LedgerInv => LogsNeverOutrunCredits
  BY DEF LedgerInv
<1>. QED  BY <1>1, LedgerInvariant, PTL

(* An account is logged again for a game only after a failure stopped the     *)
(* processor between the logs and the mark in game_party.                     *)
THEOREM RetriesNeedFaults == Spec => []RepetitionsNeedFaults
<1>1. IInv /\ LedgerInv => RepetitionsNeedFaults
  <2>. SUFFICES ASSUME IInv, LedgerInv, NEW g \in Games, NEW a \in Accounts
                PROVE  gameOverLogs[g][a] <= 1 + faults
    BY DEF RepetitionsNeedFaults
  <2>1. gameOverLogs[g][a] \in Nat /\ faults \in Nat
    BY FaultsAssumption DEF IInv, TypeOK, LedgerTypes
  <2>. QED  BY <2>1 DEF LedgerInv, LogsPerFault
<1>. QED  BY <1>1, ProcessorInvariant, LedgerInvariant, PTL

-----------------------------------------------------------------------------
(* The books of a game balance as long as nothing has failed *)

LEMMA InitBooksInv == Init => BooksInv
<1>. SUFFICES ASSUME Init PROVE BooksInv
  OBVIOUS
<1>1. \A g \in Games, a \in Accounts : gameOverLogs[g][a] = 0 /\ statUpdates[g][a] = 0
  BY DEF Init
<1>2. \A i \in Invocations : run[i].stage = "idle"
  BY DEF Init, Idle
<1>3. \A g \in Games, r \in Results : orphaned[g][r] = 0
  BY DEF Init, EmptyReport
<1>4. \A g \in Games : outcome[g] # "settled"
  BY DEF Init
<1>. QED  BY <1>1, <1>2, <1>3, <1>4 DEF BooksInv, LogsBalance, Uncredited

\* A game's books are closed.
Balanced(g) ==
  \/ outcome[g] # "settled" /\ Uncredited(g)
                            /\ \A a \in Accounts : gameOverLogs[g][a] = 0
  \/ outcome[g] = "settled" /\ OneLogPerCredited(g)

\* The steps that neither touch the books nor turn a run to them.
LEMMA BooksKept ==
  ASSUME BooksInv,
         UNCHANGED <<statUpdates, gameOverLogs, orphaned, outcome, faults>>,
         \A j \in Invocations :
            run'[j] = run[j] \/ (~Settling(j) /\ ~Settling(j)')
  PROVE  BooksInv'
<1>1. ASSUME faults = 0 PROVE (\A g \in Games : LogsBalance(g))'
  BY <1>1 DEF BooksInv, LogsBalance, Uncredited, OneLogPerCredited, Settling
<1>2. ASSUME NEW j \in Invocations, Settling(j)'
      PROVE  run'[j] = run[j] /\ Settling(j)
  BY <1>2 DEF Settling
<1>. QED
  BY <1>1, <1>2 DEF BooksInv, AgreedCredits, OneLogPerCredited, Settling

\* A step of the run at game c, which leaves the books of the others alone.
LEMMA BooksOfOne ==
  ASSUME IInv, BooksInv, NEW i \in Invocations, Active(i), NEW c \in Games,
         Settling(i) => run[i].current = c,
         UNCHANGED <<orphaned, faults>>,
         \A j \in Invocations \ {i} : run'[j] = run[j],
         \A g \in Games \ {c} : /\ statUpdates'[g] = statUpdates[g]
                                /\ gameOverLogs'[g] = gameOverLogs[g]
                                /\ outcome'[g] = outcome[g],
         faults = 0 =>
           \/ ~Settling(i)' /\ Balanced(c)'
           \/ /\ Settling(i)' /\ run'[i].current = c
              /\ run'[i].stage = "credit" => AgreedCredits(i, c)'
              /\ run'[i].stage = "resolve" => OneLogPerCredited(c)'
  PROVE  BooksInv'
<1>. SUFFICES ASSUME faults = 0 PROVE BooksInv'
  BY DEF BooksInv, LogsBalance, Uncredited
<1>1. \A j \in Invocations \ {i} : ~Settling(j) /\ ~Settling(j)'
  BY DEF IInv, OneRunAtATime, Active, Settling
<1>2. ASSUME NEW g \in Games \ {c} PROVE Balanced(g)'
  <2>1. Balanced(g)
    BY <1>1 DEF BooksInv, LogsBalance, Balanced, Uncredited, OneLogPerCredited
  <2>. QED  BY <2>1 DEF Balanced, OneLogPerCredited, Uncredited
<1>3. (\A g \in Games : LogsBalance(g))'
  BY <1>2 DEF LogsBalance, Balanced, Uncredited, OneLogPerCredited
<1>4. \A j \in Invocations :
        /\ run'[j].stage = "credit" => AgreedCredits(j, run[j].current)'
        /\ run'[j].stage = "resolve" => OneLogPerCredited(run[j].current)'
  <2>. SUFFICES ASSUME Settling(i)'
                PROVE  /\ run'[i].stage = "credit" => AgreedCredits(i, run[i].current)'
                       /\ run'[i].stage = "resolve"
                            => OneLogPerCredited(run[i].current)'
    BY <1>1 DEF Settling
  <2>. QED  BY DEF AgreedCredits, OneLogPerCredited
<1>. QED  BY <1>3, <1>4 DEF BooksInv, AgreedCredits, OneLogPerCredited

\* What an active run and its game have before a step, if nothing has failed.
LEMMA BooksBefore ==
  ASSUME IInv, BooksInv, faults = 0, NEW i \in Invocations, run[i].stage \in AtGame
  PROVE  /\ run[i].current \in Games
         /\ ~Settling(i) => Balanced(run[i].current)
         /\ run[i].stage = "credit" => AgreedCredits(i, run[i].current)
         /\ run[i].stage = "resolve" => OneLogPerCredited(run[i].current)
<1>1. Active(i) /\ run[i].current \in Games
  BY DEF IInv, RunIsCurrent, WorkIsCurrent, Active, AtGame
<1>2. \A j \in Invocations : Settling(j) => j = i
  BY <1>1 DEF IInv, OneRunAtATime, Active, Settling
<1>. QED
  BY <1>1, <1>2 DEF BooksInv, LogsBalance, Balanced, Uncredited, OneLogPerCredited

LEMMA SettleKeepsBooks ==
  ASSUME IInv, BooksInv, NEW i \in Invocations, DecideSettle(i),
         NEW c \in Games, run[i].current = c
  PROVE  BooksInv'
<1>0. /\ run \in [Invocations -> Runs] /\ run[i] \in Runs
      /\ Active(i) /\ ~Settling(i) /\ ~Closed(c)
  BY DEF IInv, TypeOK, CronTypes, DecideSettle, RunIsCurrent, WorkIsCurrent, Active,
     AtGame, Settling
<1>1. /\ run'[i].stage = "credit" /\ run'[i].current = c
      /\ run'[i].updates = run'[i].agreed /\ run'[i].agreed \in Report
      /\ \A j \in Invocations \ {i} : run'[j] = run[j]
  <2>1. \A report \in TopHashedResults(i) : report \in Report
    <3>1. run[i].fetched \in [Accounts -> Report] /\ Parties(i) \subseteq Accounts
      BY <1>0 DEF Runs, Parties
    <3>. QED  BY <3>1 DEF TopHashedResults, HashedResults, Reporters
  <2>. QED  BY <1>0, <2>1 DEF DecideSettle, Runs
<1>2. UNCHANGED <<statUpdates, gameOverLogs, orphaned, outcome, faults>>
  BY DEF DecideSettle, partyVars, ledgerVars
<1>3. ASSUME faults = 0 PROVE AgreedCredits(i, c)'
  <2>1. Balanced(c)
    BY <1>0, <1>3, BooksBefore DEF DecideSettle, AtGame
  <2>2. \A a \in Accounts : statUpdates[c][a] = 0 /\ gameOverLogs[c][a] = 0
    BY <1>0, <2>1 DEF Balanced, Closed, Uncredited
  <2>3. \A r \in Results : run'[i].updates[r] = run'[i].agreed[r]
                           /\ run'[i].agreed[r] \in Nat
    BY <1>1 DEF Report
  <2>. QED  BY <1>1, <1>2, <2>2, <2>3 DEF AgreedCredits
<1>. QED  BY <1>0, <1>1, <1>2, <1>3, BooksOfOne DEF Settling

LEMMA CreditKeepsBooks ==
  ASSUME IInv, BooksInv, NEW i \in Invocations, NEW r \in Results,
         CreditPlayer(i, r), NEW c \in Games, run[i].current = c
  PROVE  BooksInv'
<1>0. /\ run \in [Invocations -> Runs] /\ run[i] \in Runs
      /\ statUpdates \in [Games -> [Accounts -> Nat]]
      /\ Active(i)
      /\ r.accountId \in Accounts
  BY RequestsAssumption
  DEF IInv, TypeOK, CronTypes, LedgerTypes, CreditPlayer, RunIsCurrent,
      WorkIsCurrent, Active, AtGame, Results
<1>1. /\ run'[i].stage = "credit" /\ run'[i].current = c
      /\ run'[i].agreed = run[i].agreed
      /\ run'[i].updates = [run[i].updates EXCEPT ![r] = @ - 1]
      /\ \A j \in Invocations \ {i} : run'[j] = run[j]
  BY <1>0 DEF CreditPlayer, Runs
<1>2. /\ UNCHANGED <<gameOverLogs, orphaned, outcome, faults>>
      /\ \A g \in Games, a \in Accounts :
           statUpdates'[g][a] = statUpdates[g][a]
                                  + IF g = c /\ a = r.accountId THEN 1 ELSE 0
      /\ \A g \in Games \ {c} : statUpdates'[g] = statUpdates[g]
  BY <1>0 DEF CreditPlayer, partyVars
<1>3. ASSUME faults = 0 PROVE AgreedCredits(i, c)'
  <2>1. AgreedCredits(i, c)
    BY <1>3, BooksBefore DEF CreditPlayer, AtGame
  <2>2. \A q \in Results :
          /\ run[i].updates[q] \in Nat /\ run[i].agreed[q] \in Nat
          /\ run'[i].agreed[q] = run[i].agreed[q]
          /\ run'[i].updates[q] = run[i].updates[q] - IF q = r THEN 1 ELSE 0
    BY <1>0, <1>1 DEF Runs, Report
  <2>3. \A q \in Results : run'[i].updates[q] <= run'[i].agreed[q]
    BY <2>1, <2>2 DEF AgreedCredits
  <2>4. ASSUME NEW a \in Accounts
        PROVE  statUpdates'[c][a] > 0 <=>
                 \E q \in Results : q.accountId = a
                                    /\ run'[i].updates[q] < run'[i].agreed[q]
    <3>1. statUpdates[c][a] \in Nat
      BY <1>0
    <3>2. CASE a = r.accountId
      <4>1. run'[i].updates[r] < run'[i].agreed[r]
        BY <2>1, <2>2 DEF AgreedCredits
      <4>2. statUpdates'[c][a] > 0
        BY <1>0, <1>2, <3>1, <3>2
      <4>. QED  BY <3>2, <4>1, <4>2
    <3>3. CASE a # r.accountId
      <4>1. statUpdates'[c][a] = statUpdates[c][a]
        BY <1>0, <1>2, <3>1, <3>3
      <4>2. \A q \in Results : q.accountId = a =>
              /\ run'[i].updates[q] = run[i].updates[q]
              /\ run'[i].agreed[q] = run[i].agreed[q]
        BY <2>2, <3>3
      <4>. QED  BY <2>1, <4>1, <4>2 DEF AgreedCredits
    <3>. QED  BY <3>2, <3>3
  <2>. QED  BY <1>2, <2>1, <2>3, <2>4 DEF AgreedCredits
<1>. QED  BY <1>0, <1>1, <1>2, <1>3, BooksOfOne DEF Settling

LEMMA LoggingKeepsBooks ==
  ASSUME IInv, BooksInv, NEW i \in Invocations, WriteGameOverLogs(i),
         NEW c \in Games, run[i].current = c
  PROVE  BooksInv'
<1>. DEFINE Named(a) == \E r \in Results : run[i].agreed[r] > 0 /\ r.accountId = a
<1>0. /\ run \in [Invocations -> Runs] /\ run[i] \in Runs
      /\ gameOverLogs \in [Games -> [Accounts -> Nat]]
      /\ Active(i)
  BY DEF IInv, TypeOK, CronTypes, LedgerTypes, WriteGameOverLogs, RunIsCurrent,
     WorkIsCurrent, Active, AtGame
<1>1. /\ run'[i].stage = "resolve" /\ run'[i].current = c
      /\ \A j \in Invocations \ {i} : run'[j] = run[j]
  BY <1>0 DEF WriteGameOverLogs, Runs
<1>2. /\ UNCHANGED <<statUpdates, orphaned, outcome, faults>>
      /\ \A g \in Games \ {c} : gameOverLogs'[g] = gameOverLogs[g]
      /\ \A a \in Accounts : gameOverLogs'[c][a]
                               = gameOverLogs[c][a] + IF Named(a) THEN 1 ELSE 0
  BY <1>0 DEF WriteGameOverLogs, partyVars
<1>3. ASSUME faults = 0 PROVE OneLogPerCredited(c)'
  <2>1. AgreedCredits(i, c)
    BY <1>3, BooksBefore DEF WriteGameOverLogs, AtGame
  <2>2. \A r \in Results : run[i].updates[r] = 0
    BY DEF WriteGameOverLogs, AllCredited, EmptyReport
  <2>3. \A a \in Accounts : statUpdates[c][a] > 0 <=> Named(a)
    BY <2>1, <2>2 DEF AgreedCredits
  <2>4. \A a \in Accounts : gameOverLogs[c][a] = 0
    BY <2>1 DEF AgreedCredits
  <2>. QED  BY <1>2, <2>3, <2>4 DEF OneLogPerCredited
<1>. QED  BY <1>0, <1>1, <1>2, <1>3, BooksOfOne DEF Settling

LEMMA ResolvingKeepsBooks ==
  ASSUME IInv, BooksInv, NEW i \in Invocations,
         ResolveSettled(i) \/ ResolveCanceled(i),
         NEW c \in Games, run[i].current = c
  PROVE  BooksInv'
<1>0. /\ run \in [Invocations -> Runs] /\ run[i] \in Runs
      /\ outcome \in [Games -> {"open", "settled", "canceled"}]
      /\ Active(i) /\ ~Closed(c)
  BY DEF IInv, TypeOK, CronTypes, PartyTypes, ResolveSettled, ResolveCanceled,
     RunIsCurrent, WorkIsCurrent, Active, AtGame
<1>1. /\ run'[i].stage \in {"reward", "next"}
      /\ \A j \in Invocations \ {i} : run'[j] = run[j]
  <2>1. CASE ResolveSettled(i)
    BY <1>0, <2>1 DEF ResolveSettled, Runs
  <2>2. CASE ResolveCanceled(i)
    BY <1>0, <2>2 DEF ResolveCanceled, Continue, Idle
  <2>. QED  BY <2>1, <2>2
<1>2. /\ UNCHANGED <<statUpdates, gameOverLogs, orphaned, faults>>
      /\ \A g \in Games \ {c} : outcome'[g] = outcome[g]
  BY <1>0 DEF ResolveSettled, ResolveCanceled, ResolveGameProcessing, ledgerVars
<1>3. ASSUME faults = 0 PROVE Balanced(c)'
  <2>1. CASE ResolveSettled(i)
    <3>1. outcome'[c] = "settled"
      BY <1>0, <2>1 DEF ResolveSettled, ResolveGameProcessing
    <3>2. OneLogPerCredited(c)
      BY <1>3, <2>1, BooksBefore DEF ResolveSettled, AtGame
    <3>. QED  BY <1>2, <3>1, <3>2 DEF Balanced, OneLogPerCredited, Uncredited
  <2>2. CASE ResolveCanceled(i)
    <3>1. outcome'[c] = "canceled"
      BY <1>0, <2>2 DEF ResolveCanceled, ResolveGameProcessing
    <3>2. Balanced(c)
      BY <1>3, <2>2, BooksBefore DEF ResolveCanceled, AtGame, Settling
    <3>. QED  BY <1>0, <1>2, <3>1, <3>2 DEF Balanced, Closed, Uncredited
  <2>. QED  BY <2>1, <2>2
<1>. QED  BY <1>0, <1>1, <1>2, <1>3, BooksOfOne DEF Settling

LEMMA WorkKeepsBooks ==
  ASSUME IInv, BooksInv, NEW i \in Invocations, Work(i)
  PROVE  BooksInv'
<1>0. run \in [Invocations -> Runs] /\ run[i] \in Runs
  BY DEF IInv, TypeOK, CronTypes
<1>1. ASSUME run[i].stage \in AtGame PROVE run[i].current \in Games
  BY <1>1 DEF IInv, RunIsCurrent, WorkIsCurrent, Active, AtGame
<1>2. ASSUME \/ FilterProcessed(i)
             \/ \E g \in Games : NextGame(i, g)
             \/ \E a \in Accounts : ReadReport(i, a)
             \/ SkipGame(i)
             \/ DecideCancel(i)
             \/ SendRewardTx(i)
             \/ EndRun(i)
      PROVE  BooksInv'
  <2>1. /\ ~Settling(i) /\ ~Settling(i)'
        /\ \A j \in Invocations \ {i} : run'[j] = run[j]
    <3>1. CASE FilterProcessed(i)
      BY <1>0, <3>1 DEF FilterProcessed, Runs, Settling
    <3>2. CASE \E g \in Games : NextGame(i, g)
      BY <1>0, <3>2 DEF NextGame, Runs, Settling
    <3>3. CASE \E a \in Accounts : ReadReport(i, a)
      BY <1>0, <3>3 DEF ReadReport, Runs, Settling
    <3>4. CASE SkipGame(i) \/ SendRewardTx(i)
      BY <1>0, <3>4 DEF SkipGame, SendRewardTx, Continue, Idle, Settling
    <3>5. CASE DecideCancel(i)
      BY <1>0, <3>5 DEF DecideCancel, Runs, Settling
    <3>6. CASE EndRun(i)
      BY <1>0, <3>6 DEF EndRun, Idle, Settling
    <3>. QED  BY <1>2, <3>1, <3>2, <3>3, <3>4, <3>5, <3>6
  <2>2. UNCHANGED <<statUpdates, gameOverLogs, orphaned, outcome, faults>>
    BY <1>2 DEF FilterProcessed, NextGame, ReadReport, SkipGame, DecideCancel,
       SendRewardTx, EndRun, partyVars, ledgerVars
  <2>. QED  BY <2>1, <2>2, BooksKept
<1>3. ASSUME DecideSettle(i) PROVE BooksInv'
  BY <1>1, <1>3, SettleKeepsBooks DEF DecideSettle, AtGame
<1>4. ASSUME NEW r \in Results, CreditPlayer(i, r) PROVE BooksInv'
  BY <1>1, <1>4, CreditKeepsBooks DEF CreditPlayer, AtGame
<1>5. ASSUME WriteGameOverLogs(i) PROVE BooksInv'
  BY <1>1, <1>5, LoggingKeepsBooks DEF WriteGameOverLogs, AtGame
<1>6. ASSUME ResolveSettled(i) \/ ResolveCanceled(i) PROVE BooksInv'
  BY <1>1, <1>6, ResolvingKeepsBooks DEF ResolveSettled, ResolveCanceled, AtGame
<1>. QED
  BY <1>2, <1>3, <1>4, <1>5, <1>6 DEF Work

LEMMA NextBooksInv ==
  ASSUME IInv, BooksInv, [Next]_vars
  PROVE  BooksInv'
<1>0. run \in [Invocations -> Runs] /\ faults \in Nat
  BY FaultsAssumption DEF IInv, TypeOK, CronTypes
<1>1. ASSUME Client \/ UNCHANGED vars PROVE BooksInv'
  <2>1. UNCHANGED <<run, statUpdates, gameOverLogs, orphaned, outcome, faults>>
    BY <1>1 DEF Client, TimePasses, StartGame, EndGame, SaveLog, FinishParty, vars,
       partyVars, cronVars, ledgerVars
  <2>. QED  BY <2>1, BooksKept
<1>2. ASSUME NEW i \in Invocations, FetchParties(i) PROVE BooksInv'
  <2>1. /\ ~Settling(i) /\ ~Settling(i)'
        /\ \A j \in Invocations \ {i} : run'[j] = run[j]
    BY <1>0, <1>2 DEF FetchParties, MayStart, Idle, Settling
  <2>2. UNCHANGED <<statUpdates, gameOverLogs, orphaned, outcome, faults>>
    BY <1>2 DEF FetchParties, partyVars, ledgerVars
  <2>. QED  BY <2>1, <2>2, BooksKept
<1>3. ASSUME NEW i \in Invocations, Work(i) PROVE BooksInv'
  BY <1>3, WorkKeepsBooks
<1>4. ASSUME NEW g \in Games, NEW r \in Results, OrphanedCredit(g, r)
      PROVE  BooksInv'
  <2>1. faults' = faults /\ orphaned[g][r] > 0
    BY <1>4 DEF OrphanedCredit
  <2>2. faults # 0
    BY <2>1 DEF BooksInv
  <2>. QED  BY <2>1, <2>2 DEF BooksInv, LogsBalance, Uncredited
<1>5. ASSUME Failure PROVE BooksInv'
  <2>1. faults' = faults + 1
    BY <1>5 DEF Failure, StatementFails, CreditFails, RewardFails, SaveLogFails,
       FinishFails, Crash, Fault
  <2>2. faults' # 0
    BY <1>0, <2>1
  <2>. QED  BY <2>2 DEF BooksInv, LogsBalance, Uncredited
<1>. QED
  BY <1>1, <1>2, <1>3, <1>4, <1>5 DEF Next

-----------------------------------------------------------------------------
(* The updates a report holds *)

\* The results of an account, and the updates of its row that a report holds.
Of(a) == {r \in Results : r.accountId = a}
Amount(report, a) == SumFunctionOnSet(report, Of(a))

\* Rows are those of a request that names each account once.
RowsAreOf(e, rows) ==
  rows \subseteq LogsOf(e) /\ (rows # {} => ~HasDuplicates(e.playerResults))
RowsInv ==
  /\ \A e \in EndRequests : RowsAreOf(e, unsaved[e])
  /\ \A row \in individualLogs : RowsAreOf(row.request, {row})

\* A report that was read has an update of an account for each of the reporter's
\* requests at most.
Backed(b, g, report) ==
  \A a \in Accounts : Amount(report, a) <= Cardinality(Heard(b, g, a))
FetchedInv ==
  \A i \in Invocations :
    /\ run[i].stage \in {"filter", "next"} => run[i].fetched = NoReports
    /\ run[i].stage \in {"read", "decide"} =>
         \A a \in Accounts : Backed(a, run[i].current, run[i].fetched[a])

\* Without a fault, what was credited for a game, and what the run at it has
\* still to credit, are of one party's report.
CreditsBacked ==
  faults = 0 =>
    /\ \A g \in Games : Uncredited(g) \/ OneReportCredited(g)
    /\ \A i \in Invocations, g \in Games : At(i, g, {"credit"}) =>
         \E b \in parties[g] : \A a \in Accounts :
           statUpdates[g][a] + Amount(run[i].updates, a)
             <= Cardinality(Heard(b, g, a))

LEMMA ResultsFinite ==
  /\ IsFiniteSet(Results)
  /\ \A a : IsFiniteSet(Of(a)) /\ Of(a) \subseteq Results
<1>1. IsFiniteSet(Results)
  <2> DEFINE bodies == {e.playerResults : e \in EndRequests}
             body == [e \in EndRequests |-> e.playerResults]
  <2>1. body \in Surjection(EndRequests, bodies)
    BY DEF Surjection
  <2>2. IsFiniteSet(bodies)
    BY <2>1, RequestsAssumption, FS_Surjection
  <2>3. \A T \in bodies : IsFiniteSet(T)
    BY RequestsAssumption
  <2>. QED  BY <2>2, <2>3, FS_UNION DEF Results
<1>2. \A a : IsFiniteSet(Of(a)) /\ Of(a) \subseteq Results
  BY <1>1, FS_Subset DEF Of
<1>. QED  BY <1>1, <1>2

LEMMA ReportAmount ==
  ASSUME NEW report \in Report, NEW a
  PROVE  IntOn(report, Of(a)) /\ Amount(report, a) \in Nat
<1>1. IsFiniteSet(Of(a)) /\ Of(a) \subseteq Results
  BY ResultsFinite
<1>2. \A r \in Of(a) : report[r] \in Nat
  BY <1>1 DEF Report
<1>3. IntOn(report, Of(a))
  BY <1>2 DEF IntOn
<1> DEFINE none == [r \in Results |-> 0]
<1>4. IntOn(none, Of(a)) /\ \A r \in Of(a) : none[r] = 0 /\ none[r] <= report[r]
  BY <1>1, <1>2 DEF IntOn
<1> HIDE DEF none
<1>5. SumFunctionOnSet(none, Of(a)) = Cardinality(Of(a)) * 0
  BY <1>1, <1>4, SumConstant
<1>6. Cardinality(Of(a)) \in Nat
  BY <1>1, FS_CardinalityType
<1>7. SumFunctionOnSet(none, Of(a)) <= SumFunctionOnSet(report, Of(a))
  BY <1>1, <1>3, <1>4, SumMonotone
<1>8. SumFunctionOnSet(report, Of(a)) \in Int
  BY <1>1, <1>3, SumInt
<1>. QED  BY <1>3, <1>5, <1>6, <1>7, <1>8 DEF Amount

LEMMA EmptyAmount == \A a : Amount(EmptyReport, a) = 0
<1> SUFFICES ASSUME NEW a PROVE Amount(EmptyReport, a) = 0
  OBVIOUS
<1>1. IsFiniteSet(Of(a)) /\ \A r \in Of(a) : EmptyReport[r] = 0
  BY ResultsFinite DEF EmptyReport
<1>2. SumFunctionOnSet(EmptyReport, Of(a)) = Cardinality(Of(a)) * 0
  BY <1>1, SumConstant
<1>. QED  BY <1>1, <1>2, FS_CardinalityType DEF Amount

\* One update less.
LEMMA AmountTaken ==
  ASSUME NEW report \in Report, NEW less \in Report, NEW r \in Results,
         less[r] = report[r] - 1, \A q \in Results \ {r} : less[q] = report[q],
         NEW a
  PROVE  Amount(less, a) = Amount(report, a) - IF r.accountId = a THEN 1 ELSE 0
<1>1. less[r] = report[r] - 1 /\ report[r] \in Nat
      /\ \A q \in Results : q # r => less[q] = report[q]
  BY DEF Report
<1>2. /\ IsFiniteSet(Of(a)) /\ Of(a) \subseteq Results
      /\ IntOn(report, Of(a)) /\ IntOn(less, Of(a)) /\ Amount(report, a) \in Nat
  BY <1>1, ResultsFinite, ReportAmount
<1>3. CASE r.accountId = a
  <2>1. r \in Of(a) /\ \A q \in Of(a) \ {r} : report[q] = less[q]
    BY <1>1, <1>2, <1>3 DEF Of
  <2>2. Amount(less, a) = Amount(report, a) - report[r] + less[r]
    <3>1. SumFunctionOnSet(less, Of(a))
            = SumFunctionOnSet(report, Of(a)) - report[r] + less[r]
      BY <1>2, <2>1, SumChanged
    <3>. QED  BY <3>1 DEF Amount
  <2>. QED  BY <1>1, <1>2, <1>3, <2>2
<1>4. CASE r.accountId # a
  <2>1. \A q \in Of(a) : report[q] = less[q]
    BY <1>1, <1>2, <1>4 DEF Of
  <2>2. Amount(report, a) = Amount(less, a)
    BY <1>2, <2>1, SumSame DEF Amount
  <2>. QED  BY <1>1, <1>2, <1>4, <2>2
<1>. QED  BY <1>3, <1>4

LEMMA HeardFinite ==
  \A b, g, a : IsFiniteSet(Heard(b, g, a)) /\ Cardinality(Heard(b, g, a)) \in Nat
  BY RequestsAssumption, FS_Subset, FS_CardinalityType DEF Heard

LEMMA HeardStays ==
  ASSUME individualLogs \subseteq individualLogs'
  PROVE  \A b, g, a : Cardinality(Heard(b, g, a)) <= Cardinality(Heard(b, g, a))'
<1> SUFFICES ASSUME NEW b, NEW g, NEW a
             PROVE  Cardinality(Heard(b, g, a)) <= Cardinality(Heard(b, g, a)')
  OBVIOUS
<1>1. Heard(b, g, a) \subseteq Heard(b, g, a)'
  BY DEF Heard
<1>2. IsFiniteSet(Heard(b, g, a)')
  BY RequestsAssumption, FS_Subset DEF Heard
<1>. QED  BY <1>1, <1>2, FS_Subset

\* A reporter's rows hold no more updates of an account than requests of its
\* name it: rows on the account are of different requests.
LEMMA ReadIsBacked ==
  ASSUME TypeOK, RowsInv, NEW g \in Games, NEW b \in Accounts
  PROVE  Backed(b, g, IndividualEndGameResults(g, b))
<1> SUFFICES ASSUME NEW a \in Accounts
             PROVE  Amount(IndividualEndGameResults(g, b), a)
                      <= Cardinality(Heard(b, g, a))
  BY DEF Backed
<1> DEFINE rows == {row \in individualLogs : row.request.gameId = g
                                             /\ row.request.accountId = b}
           resultOf == [row \in rows |-> row.result]
           its == Valued(rows, resultOf, Of(a))
           report == IndividualEndGameResults(g, b)
<1>1. individualLogs \subseteq LogRow /\ IsFiniteSet(individualLogs) /\ IsFiniteSet(rows)
  BY FS_Subset DEF TypeOK, ReportTypes
<1>2. \A r \in Of(a) : report[r] = Cardinality(Valued(rows, resultOf, {r}))
  <2> SUFFICES ASSUME NEW r \in Of(a)
               PROVE  report[r] = Cardinality(Valued(rows, resultOf, {r}))
    OBVIOUS
  <2>1. Valued(rows, resultOf, {r})
          = {row \in individualLogs : /\ row.request.gameId = g
                                      /\ row.request.accountId = b
                                      /\ row.result = r}
    BY DEF Valued
  <2>2. report[r] = Cardinality({row \in individualLogs :
                                   /\ row.request.gameId = g
                                   /\ row.request.accountId = b
                                   /\ row.result = r})
    BY ResultsFinite DEF IndividualEndGameResults
  <2>. QED  BY <2>1, <2>2, Zenon
<1>3. Amount(report, a) = Cardinality(its)
  <2>1. IsFiniteSet(Of(a)) /\ IsFiniteSet(rows)
    BY <1>1, ResultsFinite
  <2> HIDE DEF rows, resultOf, report
  <2>2. SumFunctionOnSet(report, Of(a))
          = Cardinality(its)
    BY <1>2, <2>1, SumCounts
  <2>. QED  BY <2>2 DEF Amount
<1> DEFINE request == [row \in its |-> row.request]
<1>4. request \in Injection(its, Heard(b, g, a))
  <2>1. ASSUME NEW row \in its
        PROVE  /\ row \in LogRow /\ row.result \in row.request.playerResults
               /\ row.result.accountId = a /\ row.request \in Heard(b, g, a)
               /\ ~HasDuplicates(row.request.playerResults)
    <3>1. /\ row \in LogRow /\ row.request \in EndRequests /\ row.request.gameId = g
          /\ row.request.accountId = b /\ row.result.accountId = a
          /\ row \in individualLogs
      BY <1>1 DEF LogRow, Of, Valued
    <3>2. row \in LogsOf(row.request) /\ ~HasDuplicates(row.request.playerResults)
      BY <2>1 DEF RowsInv, RowsAreOf, Valued
    <3>3. row.result \in row.request.playerResults
      BY <3>2 DEF LogsOf
    <3>. QED  BY <3>1, <3>2, <3>3 DEF Heard
  <2>2. ASSUME NEW row \in its, NEW other \in its, row.request = other.request
        PROVE  row = other
    <3>1. row.result = other.result
      BY <2>1, <2>2 DEF HasDuplicates
    <3>2. \A log \in LogRow : log = [request |-> log.request, result |-> log.result]
      BY DEF LogRow
    <3>3. row \in LogRow /\ other \in LogRow
      BY <2>1
    <3>. QED  BY <2>2, <3>1, <3>2, <3>3
  <2>. QED  BY <2>1, <2>2 DEF Injection, IsInjective
<1>5. Cardinality(its) <= Cardinality(Heard(b, g, a))
  BY <1>4, HeardFinite, FS_Injection
<1>. QED  BY <1>3, <1>5

-----------------------------------------------------------------------------
(* Rows and reports on their way to the updates *)

LEMMA RowsStay ==
  ASSUME RowsInv, UNCHANGED <<unsaved, individualLogs>>
  PROVE  RowsInv'
  BY DEF RowsInv, RowsAreOf

LEMMA ClientKeepsRows ==
  ASSUME TypeOK, RowsInv, Client
  PROVE  RowsInv'
<1>1. ASSUME NEW e \in EndRequests, EndGame(e) PROVE RowsInv'
  <2>1. /\ ~HasDuplicates(e.playerResults) /\ UNCHANGED individualLogs
        /\ unsaved' = [unsaved EXCEPT ![e] = LogsOf(e)]
    BY <1>1 DEF EndGame
  <2>. QED  BY <2>1 DEF TypeOK, ReportTypes, RowsInv, RowsAreOf
<1>2. ASSUME NEW e \in EndRequests, NEW row \in unsaved[e], SaveLog(e, row)
      PROVE  RowsInv'
  <2>1. /\ individualLogs' = individualLogs \cup {row}
        /\ unsaved' = [unsaved EXCEPT ![e] = @ \ {row}]
    BY <1>2 DEF SaveLog
  <2>2. row.request = e /\ row \in LogsOf(e) /\ ~HasDuplicates(e.playerResults)
    BY DEF RowsInv, RowsAreOf, LogsOf
  <2>3. \A log \in individualLogs' : RowsAreOf(log.request, {log})
    BY <2>1, <2>2 DEF RowsInv, RowsAreOf
  <2>4. \A f \in EndRequests : RowsAreOf(f, unsaved'[f])
    BY <2>1 DEF TypeOK, ReportTypes, RowsInv, RowsAreOf
  <2>. QED  BY <2>3, <2>4 DEF RowsInv
<1>3. ASSUME NEW e \in EndRequests, FinishParty(e) PROVE RowsInv'
  BY <1>3, RowsStay DEF FinishParty
<1>4. ASSUME TimePasses \/ \E g \in Games, a \in Accounts : StartGame(g, a)
      PROVE  RowsInv'
  BY <1>4, RowsStay DEF TimePasses, StartGame, reportVars
<1>. QED  BY <1>1, <1>2, <1>3, <1>4 DEF Client

LEMMA FailureKeepsRows ==
  ASSUME TypeOK, RowsInv, Failure
  PROVE  RowsInv'
<1>1. ASSUME NEW i \in Invocations,
             \/ StatementFails(i) \/ RewardFails(i)
             \/ \E r \in Results : CreditFails(i, r)
      PROVE  RowsInv'
  BY <1>1, RowsStay DEF StatementFails, RewardFails, CreditFails, reportVars
<1>2. ASSUME NEW e \in EndRequests, NEW row \in unsaved[e], SaveLogFails(e, row)
      PROVE  RowsInv'
  <2>1. UNCHANGED individualLogs /\ unsaved' = [unsaved EXCEPT ![e] = @ \ {row}]
    BY <1>2 DEF SaveLogFails
  <2>. QED  BY <2>1 DEF TypeOK, ReportTypes, RowsInv, RowsAreOf
<1>3. ASSUME NEW e \in EndRequests, FinishFails(e) PROVE RowsInv'
  BY <1>3, RowsStay DEF FinishFails
<1>4. CASE Crash
  BY <1>4 DEF Crash, RowsInv, RowsAreOf
<1>. QED  BY <1>1, <1>2, <1>3, <1>4 DEF Failure

\* The steps of runs and of updates in flight leave the reports alone.
LEMMA RunsKeepRows ==
  ASSUME NEW i \in Invocations, FetchParties(i) \/ Work(i)
  PROVE  UNCHANGED <<unsaved, individualLogs>>
<1>1. FetchParties(i) \/ FilterProcessed(i) => UNCHANGED reportVars
  BY DEF FetchParties, FilterProcessed
<1>2. ASSUME NEW g \in Games, NextGame(i, g) PROVE UNCHANGED reportVars
  BY <1>2 DEF NextGame
<1>3. ASSUME NEW a \in Accounts, ReadReport(i, a) PROVE UNCHANGED reportVars
  BY <1>3 DEF ReadReport
<1>4. SkipGame(i) \/ DecideCancel(i) \/ DecideSettle(i) => UNCHANGED reportVars
  BY DEF SkipGame, DecideCancel, DecideSettle
<1>5. ASSUME NEW r \in Results, CreditPlayer(i, r) PROVE UNCHANGED reportVars
  BY <1>5 DEF CreditPlayer
<1>6. WriteGameOverLogs(i) \/ SendRewardTx(i) \/ EndRun(i) => UNCHANGED reportVars
  BY DEF WriteGameOverLogs, SendRewardTx, EndRun
<1>7. ResolveSettled(i) \/ ResolveCanceled(i) => UNCHANGED reportVars
  BY DEF ResolveSettled, ResolveCanceled
<1>. QED
  BY <1>1, <1>2, <1>3, <1>4, <1>5, <1>6, <1>7 DEF Work, reportVars

LEMMA NextKeepsRows ==
  ASSUME TypeOK, RowsInv, [Next]_vars
  PROVE  RowsInv'
<1>1. CASE UNCHANGED vars
  BY <1>1, RowsStay DEF vars, reportVars
<1>2. ASSUME NEW i \in Invocations, FetchParties(i) \/ Work(i) PROVE RowsInv'
  BY <1>2, RunsKeepRows, RowsStay
<1>3. ASSUME NEW g \in Games, NEW r \in Results, OrphanedCredit(g, r)
      PROVE  RowsInv'
  BY <1>3, RowsStay DEF OrphanedCredit, reportVars
<1>. QED  BY <1>1, <1>2, <1>3, ClientKeepsRows, FailureKeepsRows DEF Next

\* What a run has fetched after a step of its own.
LEMMA FetchedMoves ==
  ASSUME TypeOK, FetchedInv, NEW i \in Invocations, NEW next,
         UNCHANGED individualLogs,
         run' = [run EXCEPT ![i] = next],
         next.stage \in {"filter", "next"} => next.fetched = NoReports,
         next.stage \in {"read", "decide"} =>
           \A a \in Accounts : Backed(a, next.current, next.fetched[a])
  PROVE  FetchedInv'
<1>1. run'[i] = next /\ \A j \in Invocations \ {i} : run'[j] = run[j]
  BY RunAfter
<1>. QED  BY <1>1 DEF FetchedInv, Backed, Heard

\* Rows are only added, and other runs fetch nothing.
LEMMA FetchedStops ==
  ASSUME TypeOK, FetchedInv, individualLogs \subseteq individualLogs',
         \A j \in Invocations : run'[j] = run[j] \/ run'[j].stage = "idle"
  PROVE  FetchedInv'
<1>1. ASSUME NEW b, NEW g, NEW report \in Report, Backed(b, g, report)
      PROVE  \A a \in Accounts : Amount(report, a) <= Cardinality(Heard(b, g, a)')
  <2> SUFFICES ASSUME NEW a \in Accounts
               PROVE  Amount(report, a) <= Cardinality(Heard(b, g, a)')
    OBVIOUS
  <2>1. /\ Amount(report, a) \in Nat /\ Cardinality(Heard(b, g, a)) \in Nat
        /\ Amount(report, a) <= Cardinality(Heard(b, g, a))
    BY <1>1, ReportAmount, HeardFinite DEF Backed
  <2>2. Cardinality(Heard(b, g, a)) <= Cardinality(Heard(b, g, a)')
    BY HeardStays
  <2>3. Cardinality(Heard(b, g, a)') \in Nat
    BY RequestsAssumption, FS_Subset, FS_CardinalityType DEF Heard
  <2>. QED  BY <2>1, <2>2, <2>3
<1>2. ASSUME NEW i \in Invocations, NEW b \in Accounts,
             run'[i].stage \in {"read", "decide"}
      PROVE  Backed(b, run[i].current, run[i].fetched[b])'
  <2>1. run'[i] = run[i] /\ run[i].fetched[b] \in Report
    BY <1>2 DEF TypeOK, CronTypes, Runs
  <2>2. Backed(b, run[i].current, run[i].fetched[b])
    BY <1>2, <2>1 DEF FetchedInv
  <2>3. \A a \in Accounts : Amount(run[i].fetched[b], a)
                              <= Cardinality(Heard(b, run[i].current, a)')
    BY <1>1, <2>1, <2>2
  <2>. QED  BY <2>1, <2>3 DEF Backed, Heard
<1>3. ASSUME NEW i \in Invocations, run'[i].stage \in {"filter", "next"}
      PROVE  run'[i].fetched = NoReports
  BY <1>3 DEF FetchedInv
<1>. QED  BY <1>2, <1>3 DEF FetchedInv

LEMMA NothingIsBacked == \A g : \A a \in Accounts : Backed(a, g, NoReports[a])
  BY EmptyAmount, HeardFinite DEF Backed, NoReports

LEMMA RunsKeepFetched ==
  ASSUME IInv, RowsInv, FetchedInv, NEW i \in Invocations, FetchParties(i) \/ Work(i)
  PROVE  FetchedInv'
<1>0. TypeOK /\ run[i] \in Runs /\ UNCHANGED individualLogs
  BY RunsKeepRows DEF IInv, TypeOK, CronTypes
<1>1. CASE FetchParties(i)
  <2> DEFINE next == [Idle EXCEPT !.stage = "filter",
                                  !.snapshot = [g \in Games |->
                                                  parties[g] \ resultsProcessed[g]]]
  <2>1. run' = [run EXCEPT ![i] = next]
    BY <1>1 DEF FetchParties
  <2>2. next.stage = "filter" /\ next.fetched = NoReports
    BY DEF Idle
  <2> HIDE DEF next
  <2>. QED  BY <1>0, <2>1, <2>2, FetchedMoves
<1>2. CASE FilterProcessed(i)
  <2> DEFINE next == [run[i] EXCEPT !.stage = "next",
                                    !.todo = {g \in Games : resultsProcessed[g] = {}
                                                            /\ TwoParties(i, g)}]
  <2>1. run[i].stage = "filter" /\ run' = [run EXCEPT ![i] = next]
    BY <1>0, <1>2 DEF FilterProcessed
  <2>2. next.stage = "next" /\ next.fetched = NoReports
    BY <1>0, <2>1 DEF Runs, FetchedInv
  <2> HIDE DEF next
  <2>. QED  BY <1>0, <2>1, <2>2, FetchedMoves
<1>3. ASSUME NEW g \in Games, NextGame(i, g) PROVE FetchedInv'
  <2> DEFINE next == [run[i] EXCEPT !.stage = "read",
                                    !.todo = @ \ {g},
                                    !.current = g,
                                    !.unread = run[i].snapshot[g]]
  <2>1. run[i].stage = "next" /\ run' = [run EXCEPT ![i] = next]
    BY <1>0, <1>3 DEF NextGame
  <2>2. next.stage = "read" /\ next.fetched = NoReports
    BY <1>0, <2>1 DEF Runs, FetchedInv
  <2> HIDE DEF next
  <2>. QED  BY <1>0, <2>1, <2>2, NothingIsBacked, FetchedMoves
<1>4. ASSUME NEW a \in Accounts, ReadReport(i, a) PROVE FetchedInv'
  <2> DEFINE next == [run[i] EXCEPT !.unread = @ \ {a},
                                    !.fetched[a] =
                                       IndividualEndGameResults(run[i].current, a),
                                    !.stage = IF run[i].unread = {a} THEN "decide"
                                                                     ELSE "read"]
  <2>1. run[i].stage = "read" /\ run' = [run EXCEPT ![i] = next]
    BY <1>0, <1>4 DEF ReadReport
  <2>2. /\ next.stage \in {"read", "decide"} /\ next.current = run[i].current
        /\ next.fetched = [run[i].fetched EXCEPT ![a] =
                             IndividualEndGameResults(run[i].current, a)]
    BY <1>0 DEF Runs
  <2>3. run[i].current \in Games
    BY <2>1 DEF IInv, RunIsCurrent, WorkIsCurrent, Active, AtGame
  <2>4. Backed(a, run[i].current, IndividualEndGameResults(run[i].current, a))
    BY <1>0, <2>3, ReadIsBacked
  <2>5. \A b \in Accounts : Backed(b, next.current, next.fetched[b])
    BY <1>0, <2>1, <2>2, <2>4 DEF FetchedInv, Runs
  <2> HIDE DEF next
  <2>. QED  BY <1>0, <2>1, <2>2, <2>5, FetchedMoves
<1>5. CASE SkipGame(i) \/ ResolveCanceled(i) \/ SendRewardTx(i)
  <2>1. run' = [run EXCEPT ![i] = Continue(i)]
    BY <1>5 DEF SkipGame, ResolveCanceled, SendRewardTx
  <2>2. Continue(i).stage = "next" /\ Continue(i).fetched = NoReports
    BY DEF Continue, Idle
  <2>. QED  BY <1>0, <2>1, <2>2, FetchedMoves
<1>6. ASSUME NEW stage \in {"cancel", "credit", "resolve", "reward"},
             run'[i].stage = stage, \A j \in Invocations \ {i} : run'[j] = run[j]
      PROVE  FetchedInv'
  BY <1>0, <1>6 DEF FetchedInv, Backed, Heard
<1>7. CASE DecideCancel(i) \/ DecideSettle(i)
  <2>1. run'[i].stage \in {"cancel", "credit"}
        /\ \A j \in Invocations \ {i} : run'[j] = run[j]
    <3>1. CASE DecideCancel(i)
      BY <1>0, <3>1 DEF DecideCancel, TypeOK, CronTypes, Runs
    <3>2. CASE DecideSettle(i)
      BY <1>0, <3>2 DEF DecideSettle, TypeOK, CronTypes, Runs
    <3>. QED  BY <1>7, <3>1, <3>2
  <2>. QED  BY <1>6, <2>1
<1>8. ASSUME NEW r \in Results, CreditPlayer(i, r) PROVE FetchedInv'
  BY <1>0, <1>6, <1>8 DEF CreditPlayer, TypeOK, CronTypes, Runs
<1>9. CASE WriteGameOverLogs(i) \/ ResolveSettled(i)
  BY <1>0, <1>6, <1>9 DEF WriteGameOverLogs, ResolveSettled, TypeOK, CronTypes, Runs
<1>10. CASE EndRun(i)
  <2>1. run' = [run EXCEPT ![i] = Idle] /\ Idle.stage = "idle"
    BY <1>10 DEF EndRun, Idle
  <2>. QED  BY <1>0, <2>1, FetchedMoves
<1>. QED
  BY <1>1, <1>2, <1>3, <1>4, <1>5, <1>7, <1>8, <1>9, <1>10 DEF Work

LEMMA NextKeepsFetched ==
  ASSUME IInv, RowsInv, FetchedInv, [Next]_vars
  PROVE  FetchedInv'
<1>0. TypeOK
  BY DEF IInv
<1>1. CASE UNCHANGED run /\ individualLogs \subseteq individualLogs'
  BY <1>0, <1>1, FetchedStops
<1>2. ASSUME NEW i \in Invocations, Abort(i), UNCHANGED individualLogs
      PROVE  FetchedInv'
  BY <1>0, <1>2, FetchedStops DEF Abort, Idle, TypeOK, CronTypes
<1>3. CASE Client
  BY <1>1, <1>3 DEF Client, TimePasses, StartGame, EndGame, SaveLog, FinishParty,
     cronVars, reportVars
<1>4. CASE Failure
  <2>1. ASSUME NEW i \in Invocations,
               \/ StatementFails(i) \/ RewardFails(i)
               \/ \E r \in Results : CreditFails(i, r)
        PROVE  FetchedInv'
    BY <1>2, <2>1 DEF StatementFails, RewardFails, CreditFails, reportVars
  <2>2. ASSUME NEW e \in EndRequests,
               FinishFails(e) \/ \E row \in unsaved[e] : SaveLogFails(e, row)
        PROVE  FetchedInv'
    BY <1>1, <2>2 DEF FinishFails, SaveLogFails, cronVars
  <2>3. CASE Crash
    BY <1>0, <2>3, FetchedStops DEF Crash, Idle
  <2>. QED  BY <1>4, <2>1, <2>2, <2>3 DEF Failure
<1>5. ASSUME NEW g \in Games, NEW r \in Results, OrphanedCredit(g, r)
      PROVE  FetchedInv'
  BY <1>1, <1>5 DEF OrphanedCredit, cronVars, reportVars
<1>6. CASE UNCHANGED vars
  BY <1>1, <1>6 DEF vars, cronVars, reportVars
<1>. QED
  BY <1>3, <1>4, <1>5, <1>6, RunsKeepFetched DEF Next

-----------------------------------------------------------------------------
(* What is credited is one party's report *)

\* The steps that credit nothing and turn no run to crediting.
LEMMA BackedStays ==
  ASSUME CreditsBacked, UNCHANGED <<statUpdates, faults>>,
         individualLogs \subseteq individualLogs',
         \A g \in Games : parties[g] \subseteq parties'[g],
         IInv,
         \A j \in Invocations : run'[j] = run[j] \/ run'[j].stage # "credit"
  PROVE  CreditsBacked'
<1> SUFFICES ASSUME faults = 0 PROVE CreditsBacked'
  BY DEF CreditsBacked
<1>0. /\ \A b, g, a : /\ Cardinality(Heard(b, g, a)) <= Cardinality(Heard(b, g, a))'
                      /\ Cardinality(Heard(b, g, a)) \in Nat
                      /\ Cardinality(Heard(b, g, a))' \in Nat
      /\ statUpdates \in [Games -> [Accounts -> Nat]]
  <2>1. \A b, g, a : Cardinality(Heard(b, g, a))' \in Nat
    BY RequestsAssumption, FS_Subset, FS_CardinalityType DEF Heard
  <2>. QED  BY <2>1, HeardFinite, HeardStays DEF IInv, TypeOK, LedgerTypes
<1>1. \A g \in Games : (Uncredited(g) \/ OneReportCredited(g))'
  <2> SUFFICES ASSUME NEW g \in Games PROVE (Uncredited(g) \/ OneReportCredited(g))'
    OBVIOUS
  <2>1. CASE Uncredited(g)
    BY <2>1 DEF Uncredited
  <2>2. CASE OneReportCredited(g)
    <3>1. PICK b \in parties[g] : \A a \in Accounts :
                                  statUpdates[g][a] <= Cardinality(Heard(b, g, a))
      BY <2>2 DEF OneReportCredited
    <3>2. \A a \in Accounts : statUpdates'[g][a] <= Cardinality(Heard(b, g, a))'
      BY <1>0, <3>1
    <3>. QED  BY <3>1, <3>2 DEF OneReportCredited
  <2>. QED  BY <2>1, <2>2 DEF CreditsBacked
<1>2. ASSUME NEW i \in Invocations, NEW g \in Games, At(i, g, {"credit"})'
      PROVE  \E b \in parties'[g] : \A a \in Accounts :
               statUpdates'[g][a] + Amount(run'[i].updates, a)
                 <= Cardinality(Heard(b, g, a))'
  <2>1. run'[i] = run[i] /\ At(i, g, {"credit"}) /\ run[i].updates \in Report
    BY <1>2 DEF At, IInv, TypeOK, CronTypes, Runs
  <2>2. PICK b \in parties[g] : \A a \in Accounts :
          statUpdates[g][a] + Amount(run[i].updates, a) <= Cardinality(Heard(b, g, a))
    BY <2>1 DEF CreditsBacked
  <2>3. \A a \in Accounts : Amount(run[i].updates, a) \in Nat
    BY <2>1, ReportAmount
  <2>4. \A a \in Accounts : statUpdates'[g][a] + Amount(run'[i].updates, a)
                               <= Cardinality(Heard(b, g, a))'
    <3> SUFFICES ASSUME NEW a \in Accounts
                 PROVE  statUpdates[g][a] + Amount(run[i].updates, a)
                          <= Cardinality(Heard(b, g, a))'
      BY <2>1
    <3>1. /\ statUpdates[g][a] \in Nat /\ Amount(run[i].updates, a) \in Nat
          /\ statUpdates[g][a] + Amount(run[i].updates, a)
               <= Cardinality(Heard(b, g, a))
      BY <1>0, <2>2, <2>3
    <3>. QED  BY <1>0, <3>1
  <2>. QED  BY <2>2, <2>4
<1>. QED  BY <1>1, <1>2 DEF CreditsBacked, At

\* A step of the run at game c that leaves it crediting one party's report.
LEMMA BackedOfOne ==
  ASSUME IInv, CreditsBacked, NEW i \in Invocations, Active(i), NEW c \in Games,
         UNCHANGED <<parties, individualLogs, faults>>,
         \A j \in Invocations \ {i} : run'[j] = run[j],
         run'[i].stage = "credit", run'[i].current = c, run'[i].updates \in Report,
         statUpdates' \in [Games -> [Accounts -> Nat]],
         \A g \in Games \ {c} : statUpdates'[g] = statUpdates[g],
         faults = 0 =>
           \E b \in parties[c] : \A a \in Accounts :
             statUpdates'[c][a] + Amount(run'[i].updates, a)
               <= Cardinality(Heard(b, c, a))
  PROVE  CreditsBacked'
<1> SUFFICES ASSUME faults = 0 PROVE CreditsBacked'
  BY DEF CreditsBacked
<1>1. PICK b \in parties[c] : \A a \in Accounts :
        statUpdates'[c][a] + Amount(run'[i].updates, a) <= Cardinality(Heard(b, c, a))
  OBVIOUS
<1>2. \A d, g, a : Heard(d, g, a)' = Heard(d, g, a)
  BY DEF Heard
<1>3. \A j \in Invocations, g \in Games : At(j, g, {"credit"})' => j = i /\ g = c
  BY DEF At, IInv, OneRunAtATime, Active
<1>4. OneReportCredited(c)'
  <2>1. \A a \in Accounts : statUpdates'[c][a] <= Cardinality(Heard(b, c, a))
    <3> SUFFICES ASSUME NEW a \in Accounts
                 PROVE  statUpdates'[c][a] <= Cardinality(Heard(b, c, a))
      OBVIOUS
    <3>1. /\ statUpdates'[c][a] \in Nat /\ Amount(run'[i].updates, a) \in Nat
          /\ Cardinality(Heard(b, c, a)) \in Nat
      BY ReportAmount, HeardFinite
    <3>. QED  BY <1>1, <3>1
  <2>. QED  BY <1>2, <2>1 DEF OneReportCredited
<1>5. \A g \in Games \ {c} : (Uncredited(g) \/ OneReportCredited(g))'
  BY <1>2 DEF CreditsBacked, Uncredited, OneReportCredited
<1>. QED  BY <1>1, <1>2, <1>3, <1>4, <1>5 DEF CreditsBacked

LEMMA SettleKeepsBacked ==
  ASSUME IInv, BooksInv, FetchedInv, CreditsBacked, NEW i \in Invocations,
         DecideSettle(i)
  PROVE  CreditsBacked'
<1>1. PICK c \in Games : c = run[i].current
  BY DEF DecideSettle, IInv, RunIsCurrent, WorkIsCurrent, Active, AtGame
<1>2. /\ run \in [Invocations -> Runs] /\ run[i] \in Runs /\ Active(i) /\ ~Closed(c)
      /\ run[i].snapshot[c] \subseteq parties[c]
      /\ statUpdates \in [Games -> [Accounts -> Nat]]
  BY <1>1 DEF DecideSettle, IInv, TypeOK, CronTypes, LedgerTypes, RunIsCurrent,
     WorkIsCurrent, Active, AtGame
<1>3. PICK report \in TopHashedResults(i) :
        run' = [run EXCEPT ![i].stage = "credit", ![i].fetched = NoReports,
                           ![i].agreed = report, ![i].updates = report]
  BY DEF DecideSettle
<1>4. PICK b \in parties[c] : b \in Accounts /\ report = run[i].fetched[b]
  <2>1. Parties(i) \subseteq parties[c] /\ Parties(i) \subseteq Accounts
    BY <1>1, <1>2 DEF Parties, Runs
  <2>. QED  BY <1>3, <2>1 DEF TopHashedResults, HashedResults, Reporters
<1>5. report \in Report /\ Backed(b, c, report)
  BY <1>1, <1>2, <1>4 DEF Runs, FetchedInv, DecideSettle
<1>6. /\ run'[i].stage = "credit" /\ run'[i].current = c /\ run'[i].updates = report
      /\ \A j \in Invocations \ {i} : run'[j] = run[j]
  BY <1>1, <1>2, <1>3 DEF Runs
<1>7. UNCHANGED <<parties, individualLogs, faults, statUpdates>>
  BY DEF DecideSettle, partyVars, reportVars, ledgerVars
<1>8. ASSUME faults = 0, NEW a \in Accounts
      PROVE  statUpdates'[c][a] + Amount(run'[i].updates, a)
               <= Cardinality(Heard(b, c, a))
  <2>1. Balanced(c)
    BY <1>1, <1>8, BooksBefore DEF DecideSettle, AtGame, Settling
  <2>2. statUpdates[c][a] = 0
    BY <1>2, <2>1 DEF Balanced, Uncredited, Closed
  <2>3. /\ Amount(report, a) \in Nat
        /\ Amount(report, a) <= Cardinality(Heard(b, c, a))
    BY <1>5, ReportAmount DEF Backed
  <2>. QED  BY <1>6, <1>7, <2>2, <2>3
<1>9. faults = 0 =>
        \E d \in parties[c] : \A a \in Accounts :
          statUpdates'[c][a] + Amount(run'[i].updates, a) <= Cardinality(Heard(d, c, a))
  BY <1>8
<1>. QED  BY <1>2, <1>5, <1>6, <1>7, <1>9, BackedOfOne

LEMMA CreditKeepsBacked ==
  ASSUME IInv, CreditsBacked, NEW i \in Invocations, NEW r \in Results,
         CreditPlayer(i, r)
  PROVE  CreditsBacked'
<1>1. PICK c \in Games : c = run[i].current
  BY DEF CreditPlayer, IInv, RunIsCurrent, WorkIsCurrent, Active, AtGame
<1>2. /\ run \in [Invocations -> Runs] /\ run[i] \in Runs /\ Active(i)
      /\ statUpdates \in [Games -> [Accounts -> Nat]]
      /\ run[i].stage = "credit" /\ run[i].updates[r] > 0
      /\ r.accountId \in Accounts
  BY RequestsAssumption DEF CreditPlayer, Pending, IInv, TypeOK, CronTypes,
     LedgerTypes, Active, Results
<1>3. /\ run'[i].stage = "credit" /\ run'[i].current = c
      /\ run'[i].updates = [run[i].updates EXCEPT ![r] = @ - 1]
      /\ \A j \in Invocations \ {i} : run'[j] = run[j]
  BY <1>1, <1>2 DEF CreditPlayer, Runs
<1>4. /\ UNCHANGED <<parties, individualLogs, faults>>
      /\ statUpdates' = [statUpdates EXCEPT ![c][r.accountId] = @ + 1]
  BY <1>1 DEF CreditPlayer, partyVars, reportVars
<1>5. /\ statUpdates' \in [Games -> [Accounts -> Nat]]
      /\ \A g \in Games \ {c} : statUpdates'[g] = statUpdates[g]
      /\ \A a \in Accounts : statUpdates'[c][a]
                               = statUpdates[c][a] + IF r.accountId = a THEN 1 ELSE 0
  BY <1>2, <1>4
<1>6. /\ run[i].updates \in Report /\ run'[i].updates \in Report
      /\ run'[i].updates[r] = run[i].updates[r] - 1
      /\ \A q \in Results \ {r} : run'[i].updates[q] = run[i].updates[q]
  BY <1>2, <1>3 DEF Runs, Report
<1>7. \A a \in Accounts :
        /\ Amount(run[i].updates, a) \in Nat
        /\ Amount(run'[i].updates, a)
             = Amount(run[i].updates, a) - IF r.accountId = a THEN 1 ELSE 0
  BY <1>6, AmountTaken, ReportAmount
<1>8. faults = 0 =>
        \E b \in parties[c] : \A a \in Accounts :
          statUpdates'[c][a] + Amount(run'[i].updates, a) <= Cardinality(Heard(b, c, a))
  <2> SUFFICES ASSUME faults = 0
               PROVE  \E b \in parties[c] : \A a \in Accounts :
                        statUpdates'[c][a] + Amount(run'[i].updates, a)
                          <= Cardinality(Heard(b, c, a))
    OBVIOUS
  <2>1. PICK b \in parties[c] : \A a \in Accounts :
          statUpdates[c][a] + Amount(run[i].updates, a) <= Cardinality(Heard(b, c, a))
    BY <1>1, <1>2 DEF CreditsBacked, At
  <2>2. \A a \in Accounts : statUpdates'[c][a] + Amount(run'[i].updates, a)
                               = statUpdates[c][a] + Amount(run[i].updates, a)
    BY <1>2, <1>5, <1>7
  <2>. QED  BY <2>1, <2>2
<1>. QED  BY <1>2, <1>3, <1>4, <1>5, <1>6, <1>8, BackedOfOne

LEMMA WorkKeepsBacked ==
  ASSUME IInv, BooksInv, FetchedInv, CreditsBacked, NEW i \in Invocations, Work(i)
  PROVE  CreditsBacked'
<1>0. /\ run \in [Invocations -> Runs] /\ run[i] \in Runs
      /\ UNCHANGED individualLogs
  BY RunsKeepRows DEF IInv, TypeOK, CronTypes
<1>1. ASSUME \/ FilterProcessed(i)
             \/ \E g \in Games : NextGame(i, g)
             \/ \E a \in Accounts : ReadReport(i, a)
             \/ SkipGame(i) \/ DecideCancel(i) \/ WriteGameOverLogs(i)
             \/ ResolveSettled(i) \/ ResolveCanceled(i)
             \/ SendRewardTx(i) \/ EndRun(i)
      PROVE  CreditsBacked'
  <2>1. run'[i].stage # "credit" /\ \A j \in Invocations \ {i} : run'[j] = run[j]
    <3>1. CASE FilterProcessed(i)
      BY <1>0, <3>1 DEF FilterProcessed, Runs
    <3>2. CASE \E g \in Games : NextGame(i, g)
      BY <1>0, <3>2 DEF NextGame, Runs
    <3>3. CASE \E a \in Accounts : ReadReport(i, a)
      BY <1>0, <3>3 DEF ReadReport, Runs
    <3>4. CASE SkipGame(i) \/ SendRewardTx(i) \/ ResolveCanceled(i)
      BY <1>0, <3>4 DEF SkipGame, SendRewardTx, ResolveCanceled, Continue, Idle
    <3>5. CASE DecideCancel(i) \/ WriteGameOverLogs(i) \/ ResolveSettled(i)
      BY <1>0, <3>5 DEF DecideCancel, WriteGameOverLogs, ResolveSettled, Runs
    <3>6. CASE EndRun(i)
      BY <1>0, <3>6 DEF EndRun, Idle
    <3>. QED  BY <1>1, <3>1, <3>2, <3>3, <3>4, <3>5, <3>6
  <2>2. UNCHANGED <<statUpdates, faults, parties>>
    BY <1>1 DEF FilterProcessed, NextGame, ReadReport, SkipGame, DecideCancel,
       WriteGameOverLogs, ResolveSettled, ResolveCanceled, ResolveGameProcessing,
       SendRewardTx, EndRun, partyVars, ledgerVars
  <2>. QED  BY <1>0, <2>1, <2>2, BackedStays
<1>. QED
  BY <1>1, SettleKeepsBacked, CreditKeepsBacked DEF Work

LEMMA NextKeepsBacked ==
  ASSUME IInv, BooksInv, FetchedInv, CreditsBacked, [Next]_vars
  PROVE  CreditsBacked'
<1>0. /\ run \in [Invocations -> Runs] /\ faults \in Nat
      /\ parties \in [Games -> SUBSET Accounts]
  BY FaultsAssumption DEF IInv, TypeOK, CronTypes, PartyTypes
<1>1. ASSUME Client \/ UNCHANGED vars PROVE CreditsBacked'
  <2>1. /\ UNCHANGED <<run, statUpdates, faults>>
        /\ individualLogs \subseteq individualLogs'
    BY <1>1 DEF Client, TimePasses, StartGame, EndGame, SaveLog, FinishParty, vars,
       cronVars, ledgerVars, reportVars
  <2>2. \A g \in Games : parties[g] \subseteq parties'[g]
    BY <1>0, <1>1 DEF Client, TimePasses, StartGame, EndGame, SaveLog, FinishParty,
       vars, partyVars
  <2>. QED  BY <2>1, <2>2, BackedStays
<1>2. ASSUME NEW i \in Invocations, FetchParties(i) PROVE CreditsBacked'
  <2>1. /\ run'[i].stage # "credit"
        /\ \A j \in Invocations \ {i} : run'[j] = run[j]
    BY <1>0, <1>2 DEF FetchParties, Idle
  <2>2. UNCHANGED <<statUpdates, faults, parties, individualLogs>>
    BY <1>2 DEF FetchParties, partyVars, ledgerVars, reportVars
  <2>. QED  BY <2>1, <2>2, BackedStays
<1>3. ASSUME NEW g \in Games, NEW r \in Results, OrphanedCredit(g, r)
      PROVE  CreditsBacked'
  <2>1. faults' = faults /\ orphaned[g][r] > 0
    BY <1>3 DEF OrphanedCredit
  <2>2. faults # 0
    BY <2>1 DEF BooksInv
  <2>. QED  BY <2>1, <2>2 DEF CreditsBacked
<1>4. ASSUME Failure PROVE CreditsBacked'
  <2>1. faults' = faults + 1
    BY <1>4 DEF Failure, StatementFails, CreditFails, RewardFails, SaveLogFails,
       FinishFails, Crash, Fault
  <2>2. faults' # 0
    BY <1>0, <2>1
  <2>. QED  BY <2>2 DEF CreditsBacked
<1>. QED
  BY <1>1, <1>2, <1>3, <1>4, WorkKeepsBacked DEF Next

LEMMA BackedInitially == Init => RowsInv /\ FetchedInv /\ CreditsBacked
<1> SUFFICES ASSUME Init PROVE RowsInv /\ FetchedInv /\ CreditsBacked
  OBVIOUS
<1>1. RowsInv /\ FetchedInv
  BY DEF Init, RowsInv, RowsAreOf, FetchedInv, Idle
<1>2. \A g \in Games : Uncredited(g)
  BY DEF Init, Uncredited
<1>3. \A i \in Invocations : run[i].stage = "idle"
  BY DEF Init, Idle
<1>. QED  BY <1>1, <1>2, <1>3 DEF CreditsBacked, At

LEMMA BooksInvariant ==
  Spec => [](IInv /\ BooksInv /\ RowsInv /\ FetchedInv /\ CreditsBacked)
<1> DEFINE Books == IInv /\ BooksInv /\ RowsInv /\ FetchedInv /\ CreditsBacked
<1>1. Init => Books
  BY InitIInv, InitBooksInv, BackedInitially
<1>2. Books /\ [Next]_vars => Books'
  <2> SUFFICES ASSUME Books, [Next]_vars PROVE Books'
    OBVIOUS
  <2>1. TypeOK
    BY DEF IInv
  <2>. QED
    BY <2>1, NextIInv, NextBooksInv, NextKeepsRows, NextKeepsFetched, NextKeepsBacked
<1>. QED  BY <1>1, <1>2, PTL DEF Spec

(* As long as nothing has failed, what is credited for a game is the report   *)
(* of one of its parties, updating an account no more often than that party   *)
(* sent a request naming it; and the stats and the game-over logs of a game   *)
(* agree whenever no run is between distributeGameStatsAndPoints and          *)
(* resolveGameProcessing: nothing is credited for a game that is open or      *)
(* canceled, and a settled one has one log for each credited account.         *)
THEOREM BooksAgree == Spec => []BooksBalance
<1>1. BooksInv /\ CreditsBacked => BooksBalance
  BY DEF BooksInv, CreditsBacked, BooksBalance
<1>. QED  BY <1>1, BooksInvariant, PTL

-----------------------------------------------------------------------------
(* Only accounts that joined a game are credited *)

LEMMA IdleCarriesNothing ==
  ASSUME NEW i, NEW r \in Results,
         /\ run[i].fetched = NoReports
         /\ run[i].agreed = EmptyReport /\ run[i].updates = EmptyReport
  PROVE  ~Carries(i, r)
  BY DEF Carries, NoReports, EmptyReport

LEMMA InitPlayersInv == Init => PlayersInv
<1>. SUFFICES ASSUME Init PROVE PlayersInv
  OBVIOUS
<1>1. OnlyPlayersCredited
  BY DEF Init, OnlyPlayersCredited
<1>2. \A i \in Invocations, r \in Results : ~Carries(i, r)
  BY IdleCarriesNothing DEF Init, Idle
<1>3. ResultsJoined
  BY <1>2 DEF Init, ResultsJoined, EmptyReport
<1>. QED  BY <1>1, <1>3 DEF PlayersInv

\* It is enough to know, before a step, that whoever it names has joined.
LEMMA NamesStay ==
  ASSUME \A g \in Games : parties[g] \subseteq parties'[g],
         \A e \in EndRequests : \A row \in unsaved'[e] : Joined(row.result.accountId),
         \A row \in individualLogs' : Joined(row.result.accountId),
         \A i \in Invocations, r \in Results :
            Carries(i, r)' => Joined(r.accountId),
         \A g \in Games, r \in Results :
            orphaned'[g][r] > 0 => Joined(r.accountId),
         \A g \in Games, a \in Accounts : statUpdates'[g][a] > 0 => Joined(a)
  PROVE  PlayersInv'
<1>1. ASSUME NEW a, Joined(a)
      PROVE  \E g \in Games : a \in parties'[g]
  BY <1>1 DEF Joined
<1>. QED
  BY <1>1 DEF PlayersInv, OnlyPlayersCredited, ResultsJoined, Joined

\* The tables named in NamesStay, as PlayersInv has them.
LEMMA NamesNow ==
  ASSUME PlayersInv
  PROVE  /\ \A e \in EndRequests : \A row \in unsaved[e] :
              Joined(row.result.accountId)
         /\ \A row \in individualLogs : Joined(row.result.accountId)
         /\ \A i \in Invocations, r \in Results :
              Carries(i, r) => Joined(r.accountId)
         /\ \A g \in Games, r \in Results :
              orphaned[g][r] > 0 => Joined(r.accountId)
         /\ \A g \in Games, a \in Accounts : statUpdates[g][a] > 0 => Joined(a)
  BY DEF PlayersInv, OnlyPlayersCredited, ResultsJoined, Joined

LEMMA ClientKeepsPlayers ==
  ASSUME TypeOK, PlayersInv, Client
  PROVE  PlayersInv'
<1>1. UNCHANGED <<run, orphaned, statUpdates>>
  BY DEF Client, TimePasses, StartGame, EndGame, SaveLog, FinishParty, cronVars,
     ledgerVars
<1>2. \A i \in Invocations, r \in Results : Carries(i, r)' <=> Carries(i, r)
  BY <1>1 DEF Carries
<1>3. \A g \in Games : parties[g] \subseteq parties'[g]
  <2>1. CASE \E g \in Games, a \in Accounts : StartGame(g, a)
    BY <2>1 DEF StartGame, TypeOK, PartyTypes
  <2>2. CASE ~\E g \in Games, a \in Accounts : StartGame(g, a)
    <3>1. UNCHANGED parties
      BY <2>2 DEF Client, TimePasses, EndGame, SaveLog, FinishParty, partyVars
    <3>. QED  BY <3>1
  <2>. QED  BY <2>1, <2>2
<1>4. \A e \in EndRequests : \A row \in unsaved'[e] : Joined(row.result.accountId)
  <2>1. CASE TimePasses \/ \E g \in Games, a \in Accounts : StartGame(g, a)
    BY <2>1, NamesNow DEF TimePasses, StartGame, reportVars
  <2>2. ASSUME NEW e \in EndRequests, EndGame(e)
        PROVE  \A f \in EndRequests : \A row \in unsaved'[f] :
                 Joined(row.result.accountId)
    <3>1. \A row \in LogsOf(e) : Joined(row.result.accountId)
      BY <2>2 DEF EndGame, LogsOf, NamesPlayers, IsPlayerInGame, Joined
    <3>2. \A f \in EndRequests : unsaved'[f] \in {LogsOf(e), unsaved[f]}
      BY <2>2 DEF EndGame, TypeOK, ReportTypes
    <3>. QED  BY <3>1, <3>2, NamesNow
  <2>3. ASSUME NEW e \in EndRequests,
               (\E row \in unsaved[e] : SaveLog(e, row)) \/ FinishParty(e)
        PROVE  \A f \in EndRequests : unsaved'[f] \subseteq unsaved[f]
    BY <2>3 DEF SaveLog, FinishParty, TypeOK, ReportTypes
  <2>. QED  BY <2>1, <2>2, <2>3, NamesNow DEF Client
<1>5. \A row \in individualLogs' : Joined(row.result.accountId)
  BY NamesNow DEF Client, TimePasses, StartGame, EndGame, SaveLog, FinishParty,
     reportVars
<1>. QED
  BY <1>1, <1>2, <1>3, <1>4, <1>5, NamesStay, NamesNow

\* Steps of the processor that credit nobody: the runs carry no new names.
LEMMA NoNewNames ==
  ASSUME PlayersInv, UNCHANGED <<parties, unsaved, individualLogs>>,
         UNCHANGED <<statUpdates, orphaned>>,
         \A i \in Invocations, r \in Results :
           Carries(i, r)' => Joined(r.accountId)
  PROVE  PlayersInv'
  BY NamesStay, NamesNow

LEMMA WorkKeepsPlayers ==
  ASSUME IInv, PlayersInv, NEW i \in Invocations, Work(i)
  PROVE  PlayersInv'
<1>. DEFINE Others == \A j \in Invocations \ {i} : run'[j] = run[j]
            SameHands == /\ run'[i].fetched = run[i].fetched
                         /\ run'[i].agreed = run[i].agreed
                         /\ run'[i].updates = run[i].updates
            EmptyHands == /\ run'[i].fetched = NoReports
                          /\ run'[i].agreed = EmptyReport
                          /\ run'[i].updates = EmptyReport
            Tables == UNCHANGED <<parties, unsaved, individualLogs, statUpdates,
                                  orphaned>>
<1>0. TypeOK /\ run \in [Invocations -> Runs] /\ run[i] \in Runs
  BY DEF IInv, TypeOK, CronTypes
<1>1. ASSUME Others, Tables, SameHands \/ EmptyHands PROVE PlayersInv'
  <2>1. ASSUME NEW j \in Invocations, NEW r \in Results, Carries(j, r)'
        PROVE  Joined(r.accountId)
    <3>1. CASE j # i \/ SameHands
      BY <1>1, <2>1, <3>1, NamesNow DEF Carries
    <3>2. CASE j = i /\ EmptyHands
      BY <2>1, <3>2 DEF Carries, NoReports, EmptyReport
    <3>. QED  BY <1>1, <3>1, <3>2
  <2>. QED  BY <1>1, <2>1, NoNewNames
<1>2. CASE \/ FilterProcessed(i)
           \/ \E g \in Games : NextGame(i, g)
           \/ DecideCancel(i)
           \/ WriteGameOverLogs(i)
           \/ ResolveSettled(i)
  <2>1. Others /\ SameHands
    <3>1. CASE FilterProcessed(i)
      BY <1>0, <3>1 DEF FilterProcessed, Runs
    <3>2. CASE \E g \in Games : NextGame(i, g)
      BY <1>0, <3>2 DEF NextGame, Runs
    <3>3. CASE DecideCancel(i)
      BY <1>0, <3>3 DEF DecideCancel, Runs
    <3>4. CASE WriteGameOverLogs(i)
      BY <1>0, <3>4 DEF WriteGameOverLogs, Runs
    <3>5. CASE ResolveSettled(i)
      BY <1>0, <3>5 DEF ResolveSettled, Runs
    <3>. QED  BY <1>2, <3>1, <3>2, <3>3, <3>4, <3>5
  <2>2. Tables
    BY <1>2 DEF FilterProcessed, NextGame, DecideCancel, WriteGameOverLogs,
       ResolveSettled, ResolveGameProcessing, partyVars, reportVars, ledgerVars
  <2>. QED  BY <1>1, <2>1, <2>2
<1>3. CASE SkipGame(i) \/ ResolveCanceled(i) \/ SendRewardTx(i) \/ EndRun(i)
  <2>1. run' = [run EXCEPT ![i] = Continue(i)] \/ run' = [run EXCEPT ![i] = Idle]
    BY <1>3 DEF SkipGame, ResolveCanceled, SendRewardTx, EndRun
  <2>2. Others /\ EmptyHands
    <3>1. /\ Idle.fetched = NoReports
          /\ Idle.agreed = EmptyReport /\ Idle.updates = EmptyReport
      BY DEF Idle
    <3>2. /\ Continue(i).fetched = NoReports
          /\ Continue(i).agreed = EmptyReport /\ Continue(i).updates = EmptyReport
      BY DEF Continue, Idle
    <3>. QED  BY <1>0, <2>1, <3>1, <3>2
  <2>3. Tables
    BY <1>3 DEF SkipGame, ResolveCanceled, SendRewardTx, EndRun,
       ResolveGameProcessing, partyVars, reportVars, ledgerVars
  <2>. QED  BY <1>1, <2>2, <2>3
<1>4. ASSUME NEW a \in Accounts, ReadReport(i, a) PROVE PlayersInv'
  <2>. DEFINE report == IndividualEndGameResults(run[i].current, a)
  <2>1. /\ Others
        /\ run'[i].fetched = [run[i].fetched EXCEPT ![a] = report]
        /\ run'[i].agreed = run[i].agreed /\ run'[i].updates = run[i].updates
    BY <1>0, <1>4 DEF ReadReport, Runs
  <2>2. ASSUME NEW r \in Results, report[r] > 0 PROVE Joined(r.accountId)
    <3>. DEFINE rows == {row \in individualLogs :
                           /\ row.request.gameId = run[i].current
                           /\ row.request.accountId = a
                           /\ row.result = r}
    <3>1. rows # {}
      BY <2>2, FS_EmptySet DEF IndividualEndGameResults
    <3>. QED  BY <3>1, NamesNow
  <2>3. ASSUME NEW j \in Invocations, NEW r \in Results, Carries(j, r)'
        PROVE  Joined(r.accountId)
    <3>1. CASE j # i
      BY <2>1, <2>3, <3>1, NamesNow DEF Carries
    <3>2. CASE j = i
      <4>1. ASSUME NEW b \in Accounts, run'[i].fetched[b][r] > 0
            PROVE  Joined(r.accountId)
        <5>1. CASE b = a
          BY <1>0, <2>1, <2>2, <4>1, <5>1 DEF Runs
        <5>2. CASE b # a
          BY <1>0, <2>1, <4>1, <5>2, NamesNow DEF Runs, Carries
        <5>. QED  BY <5>1, <5>2
      <4>. QED  BY <2>1, <2>3, <3>2, <4>1, NamesNow DEF Carries
    <3>. QED  BY <3>1, <3>2
  <2>. QED
    BY <1>4, <2>3, NoNewNames DEF ReadReport, partyVars, reportVars, ledgerVars
<1>5. ASSUME DecideSettle(i) PROVE PlayersInv'
  <2>1. PICK report \in TopHashedResults(i) :
          run' = [run EXCEPT ![i].stage = "credit", ![i].fetched = NoReports,
                             ![i].agreed = report, ![i].updates = report]
    BY <1>5 DEF DecideSettle
  <2>2. PICK a \in Reporters(i) : report = run[i].fetched[a]
    BY DEF TopHashedResults, HashedResults
  <2>3. a \in Accounts
    <3>1. run[i].current \in Games
      BY <1>5 DEF DecideSettle, IInv, RunIsCurrent, WorkIsCurrent, Active, AtGame
    <3>2. run[i].snapshot[run[i].current] \subseteq Accounts
      BY <1>0, <3>1 DEF Runs
    <3>. QED  BY <2>2, <3>2 DEF Reporters, Parties
  <2>4. /\ Others /\ run'[i].fetched = NoReports
        /\ run'[i].agreed = report /\ run'[i].updates = report
    BY <1>0, <2>1 DEF Runs
  <2>5. ASSUME NEW j \in Invocations, NEW r \in Results, Carries(j, r)'
        PROVE  Joined(r.accountId)
    <3>1. CASE j # i
      BY <2>4, <2>5, <3>1, NamesNow DEF Carries
    <3>2. CASE j = i
      <4>1. run[i].fetched[a][r] > 0
        BY <2>2, <2>4, <2>5, <3>2 DEF Carries, NoReports, EmptyReport
      <4>. QED  BY <2>3, <4>1, NamesNow DEF Carries
    <3>. QED  BY <3>1, <3>2
  <2>. QED
    BY <1>5, <2>5, NoNewNames DEF DecideSettle, partyVars, reportVars, ledgerVars
<1>6. ASSUME NEW r \in Results, CreditPlayer(i, r) PROVE PlayersInv'
  <2>1. Joined(r.accountId) /\ r.accountId \in Accounts
    BY <1>6, NamesNow, RequestsAssumption
    DEF CreditPlayer, Pending, Carries, Results
  <2>2. \A g \in Games, a \in Accounts : statUpdates'[g][a] > 0 => Joined(a)
    <3>1. statUpdates \in [Games -> [Accounts -> Nat]]
      BY <1>0 DEF TypeOK, LedgerTypes
    <3>2. \A g \in Games, a \in Accounts :
            statUpdates'[g][a] = statUpdates[g][a] \/ a = r.accountId
      BY <1>6, <3>1 DEF CreditPlayer
    <3>. QED  BY <2>1, <3>2, NamesNow
  <2>3. ASSUME NEW j \in Invocations, NEW q \in Results, Carries(j, q)'
        PROVE  Joined(q.accountId)
    <3>1. /\ Others
          /\ run'[i].fetched = run[i].fetched /\ run'[i].agreed = run[i].agreed
          /\ run'[i].updates = [run[i].updates EXCEPT ![r] = @ - 1]
      BY <1>0, <1>6 DEF CreditPlayer, Runs
    <3>2. run[i].updates \in [Results -> Nat]
      BY <1>0 DEF Runs, Report
    <3>3. run'[i].updates[q] > 0 => run[i].updates[q] > 0
      BY <3>1, <3>2
    <3>. QED  BY <2>3, <3>1, <3>3, NamesNow DEF Carries
  <2>4. UNCHANGED <<parties, unsaved, individualLogs, orphaned>>
    BY <1>6 DEF CreditPlayer, partyVars, reportVars
  <2>. QED  BY <2>2, <2>3, <2>4, NamesNow, NamesStay
<1>. QED
  BY <1>2, <1>3, <1>4, <1>5, <1>6 DEF Work

LEMMA FailureKeepsPlayers ==
  ASSUME TypeOK, PlayersInv, Failure
  PROVE  PlayersInv'
<1>. DEFINE Hands == \A j \in Invocations : run'[j] = run[j] \/ run'[j] = Idle
<1>0. run \in [Invocations -> Runs] /\ orphaned \in [Games -> Report]
  BY DEF TypeOK, CronTypes, LedgerTypes
<1>1. ASSUME Hands, NEW j \in Invocations, NEW r \in Results, Carries(j, r)'
      PROVE  Joined(r.accountId)
  BY <1>1, NamesNow DEF Carries, Idle, NoReports, EmptyReport
<1>2. ASSUME NEW i \in Invocations, StatementFails(i) \/ RewardFails(i)
      PROVE  PlayersInv'
  <2>1. Hands
    BY <1>0, <1>2 DEF StatementFails, RewardFails, Abort
  <2>. QED
    BY <1>1, <1>2, <2>1, NoNewNames
    DEF StatementFails, RewardFails, partyVars, reportVars, ledgerVars
<1>3. ASSUME NEW i \in Invocations, NEW r \in Results, CreditFails(i, r)
      PROVE  PlayersInv'
  <2>1. Hands
    BY <1>0, <1>3 DEF CreditFails, Abort
  <2>2. ASSUME NEW g \in Games, NEW q \in Results, orphaned'[g][q] > 0
        PROVE  Joined(q.accountId)
    <3>1. orphaned[g][q] \in Nat /\ run[i].updates[q] \in Nat
      BY <1>0 DEF Runs, Report
    <3>2. \/ orphaned'[g][q] = orphaned[g][q]
          \/ orphaned'[g][q] = orphaned[g][q] + run[i].updates[q]
                                 - IF q = r THEN 1 ELSE 0
      BY <1>0, <1>3 DEF CreditFails
    <3>3. orphaned[g][q] > 0 \/ run[i].updates[q] > 0
      BY <2>2, <3>1, <3>2
    <3>. QED  BY <3>3, NamesNow DEF Carries
  <2>3. UNCHANGED <<parties, unsaved, individualLogs, statUpdates>>
    BY <1>3 DEF CreditFails, partyVars, reportVars
  <2>. QED  BY <1>1, <2>1, <2>2, <2>3, NamesNow, NamesStay
<1>4. ASSUME NEW e \in EndRequests,
             (\E row \in unsaved[e] : SaveLogFails(e, row)) \/ FinishFails(e)
      PROVE  PlayersInv'
  <2>1. \A f \in EndRequests : unsaved'[f] \subseteq unsaved[f]
    BY <1>4 DEF SaveLogFails, FinishFails, TypeOK, ReportTypes
  <2>2. UNCHANGED <<parties, individualLogs, statUpdates, orphaned, run>>
    BY <1>4 DEF SaveLogFails, FinishFails, partyVars, cronVars, ledgerVars
  <2>3. \A i \in Invocations, r \in Results : Carries(i, r)' <=> Carries(i, r)
    BY <2>2 DEF Carries
  <2>. QED  BY <2>1, <2>2, <2>3, NamesNow, NamesStay
<1>5. ASSUME Crash PROVE PlayersInv'
  <2>1. Hands
    BY <1>5 DEF Crash
  <2>2. /\ UNCHANGED <<parties, individualLogs, statUpdates>>
        /\ \A e \in EndRequests : unsaved'[e] = {}
        /\ \A g \in Games, r \in Results : ~(orphaned'[g][r] > 0)
    BY <1>5 DEF Crash, partyVars, EmptyReport
  <2>. QED  BY <1>1, <2>1, <2>2, NamesNow, NamesStay
<1>. QED
  BY <1>2, <1>3, <1>4, <1>5 DEF Failure

LEMMA NextPlayersInv ==
  ASSUME IInv, PlayersInv, [Next]_vars
  PROVE  PlayersInv'
<1>0. TypeOK /\ run \in [Invocations -> Runs] /\ orphaned \in [Games -> Report]
  BY DEF IInv, TypeOK, CronTypes, LedgerTypes
<1>1. ASSUME NEW i \in Invocations, FetchParties(i) PROVE PlayersInv'
  <2>1. /\ \A j \in Invocations \ {i} : run'[j] = run[j]
        /\ run'[i].fetched = NoReports
        /\ run'[i].agreed = EmptyReport /\ run'[i].updates = EmptyReport
    BY <1>0, <1>1 DEF FetchParties, Idle
  <2>2. \A j \in Invocations, r \in Results : Carries(j, r)' => Joined(r.accountId)
    BY <2>1, NamesNow DEF Carries, NoReports, EmptyReport
  <2>. QED
    BY <1>1, <2>2, NoNewNames DEF FetchParties, partyVars, reportVars, ledgerVars
<1>2. ASSUME NEW g \in Games, NEW r \in Results, OrphanedCredit(g, r)
      PROVE  PlayersInv'
  <2>1. Joined(r.accountId)
    BY <1>2, NamesNow DEF OrphanedCredit
  <2>2. \A h \in Games, a \in Accounts : statUpdates'[h][a] > 0 => Joined(a)
    <3>1. statUpdates \in [Games -> [Accounts -> Nat]]
      BY <1>0 DEF TypeOK, LedgerTypes
    <3>2. \A h \in Games, a \in Accounts :
            statUpdates'[h][a] = statUpdates[h][a] \/ a = r.accountId
      BY <1>2, <3>1 DEF OrphanedCredit
    <3>. QED  BY <2>1, <3>2, NamesNow
  <2>3. \A h \in Games, q \in Results :
          orphaned'[h][q] > 0 => orphaned[h][q] > 0
    BY <1>0, <1>2 DEF OrphanedCredit, Report
  <2>4. UNCHANGED <<parties, unsaved, individualLogs, run>>
    BY <1>2 DEF OrphanedCredit, partyVars, reportVars, cronVars
  <2>5. \A j \in Invocations, q \in Results : Carries(j, q)' <=> Carries(j, q)
    BY <2>4 DEF Carries
  <2>. QED  BY <2>2, <2>3, <2>4, <2>5, NamesNow, NamesStay
<1>3. ASSUME UNCHANGED vars PROVE PlayersInv'
  <2>1. UNCHANGED <<parties, unsaved, individualLogs, statUpdates, orphaned, run>>
    BY <1>3 DEF vars, partyVars, reportVars, cronVars, ledgerVars
  <2>2. \A j \in Invocations, q \in Results : Carries(j, q)' <=> Carries(j, q)
    BY <2>1 DEF Carries
  <2>. QED  BY <2>1, <2>2, NamesNow, NoNewNames
<1>. QED
  BY <1>0, <1>1, <1>2, <1>3, ClientKeepsPlayers, WorkKeepsPlayers, FailureKeepsPlayers
  DEF Next

(* Whatever a request names when it is validated, the stats that are credited *)
(* in the end are those of accounts that joined a game.                       *)
THEOREM PlayersCredited == Spec => []OnlyPlayersCredited
<1>1. PlayersInv => OnlyPlayersCredited
  BY DEF PlayersInv
<1>. QED
  BY <1>1, InitPlayersInv, NextPlayersInv, ProcessorInvariant, PTL DEF Spec

-----------------------------------------------------------------------------
(* A game is decided only when it is due *)

LEMMA InitReportsInv == Init => ReportsInv
<1>. SUFFICES ASSUME Init PROVE ReportsInv
  OBVIOUS
<1>1. \A g \in Games : IsFiniteSet(parties[g]) /\ ~Closed(g)
  BY FS_EmptySet DEF Init, Closed
<1>2. \A i \in Invocations : run[i].stage = "idle"
  BY DEF Init, Idle
<1>. QED
  BY <1>1, <1>2 DEF ReportsInv, FetchedReports, DecidedWhenDue, At

\* Reporters are parties, and so finitely many.
LEMMA FewReporters ==
  ASSUME ReportsInv, NEW g \in Games
  PROVE  /\ IsFiniteSet(parties[g]) /\ IsFiniteSet(ReportersOf(g))
         /\ Cardinality(parties[g]) \in Nat /\ Cardinality(ReportersOf(g)) \in Nat
<1>1. IsFiniteSet(parties[g]) /\ ReportersOf(g) \subseteq parties[g]
  BY DEF ReportsInv, ReportersOf
<1>. QED  BY <1>1, FS_Subset, FS_CardinalityType

\* What steps of clients and faults may do to the tables: rows are added, and
\* parties grow older.
TablesGrow ==
  /\ individualLogs \subseteq individualLogs'
  /\ \A g \in Games :
       /\ parties[g] \subseteq parties'[g] /\ IsFiniteSet(parties'[g])
       /\ \A a \in parties[g] : Young(g, a)' => Young(g, a)

LEMMA StillDue ==
  ASSUME ReportsInv, TablesGrow, NEW g \in Games, Due(g)
  PROVE  Due(g)'
<1>1. /\ ReportersOf(g) \subseteq ReportersOf(g)'
      /\ ReportersOf(g)' \subseteq parties'[g]
  BY DEF TablesGrow, ReportersOf
<1>2. /\ Cardinality(parties[g]) <= Cardinality(parties'[g])
      /\ Cardinality(ReportersOf(g)) <= Cardinality(ReportersOf(g)')
      /\ Cardinality(parties'[g]) \in Nat
      /\ Cardinality(ReportersOf(g)') \in Nat
  BY <1>1, FS_Subset, FS_CardinalityType DEF TablesGrow
<1>3. Cardinality(parties[g]) \in Nat /\ Cardinality(ReportersOf(g)) \in Nat
  BY FewReporters
<1>4. Cardinality(parties'[g]) >= 2 /\ ReportersOf(g)' # {}
  BY <1>1, <1>2, <1>3 DEF Due
<1>5. ASSUME \A a \in parties'[g] : Young(g, a)'
      PROVE  Cardinality(ReportersOf(g)') >= 3
  <2>1. \A a \in parties[g] : Young(g, a)
    BY <1>5 DEF TablesGrow
  <2>. QED  BY <1>2, <1>3, <2>1 DEF Due
<1>. QED  BY <1>4, <1>5 DEF Due

\* A run that may decide on the reports it fetched decides on enough of them.
LEMMA DecisionIsDue ==
  ASSUME IInv, ReportsInv, NEW i \in Invocations, run[i].stage = "decide",
         Reporters(i) # {}, MayDecide(i)
  PROVE  Due(run[i].current)
<1>. DEFINE g == run[i].current
<1>1. g \in Games /\ Parties(i) \subseteq parties[g] /\ TwoParties(i, g)
  BY DEF IInv, RunIsCurrent, WorkIsCurrent, Active, AtGame, Parties
<1>2. Reporters(i) \subseteq ReportersOf(g)
  BY <1>1 DEF ReportsInv, FetchedReports, At
<1>3. /\ Cardinality(Parties(i)) <= Cardinality(parties[g])
      /\ Cardinality(Reporters(i)) <= Cardinality(ReportersOf(g))
      /\ Cardinality(Parties(i)) \in Nat /\ Cardinality(Reporters(i)) \in Nat
  BY <1>1, <1>2, FewReporters, FS_Subset, FS_CardinalityType
<1>4. Cardinality(parties[g]) \in Nat /\ Cardinality(ReportersOf(g)) \in Nat
  BY <1>1, FewReporters
<1>5. Cardinality(parties[g]) >= 2 /\ ReportersOf(g) # {}
  BY <1>1, <1>2, <1>3, <1>4 DEF TwoParties, Parties
<1>6. ASSUME \A a \in parties[g] : Young(g, a)
      PROVE  Cardinality(ReportersOf(g)) >= 3
  <2>1. ThreeReports(i)
    BY <1>1, <1>6 DEF MayDecide
  <2>. QED  BY <1>3, <1>4, <2>1 DEF ThreeReports
<1>. QED  BY <1>5, <1>6 DEF Due

\* What a step leaves run i with: reports that are in the table before the step,
\* or a decision that is due.
InOrder(i) ==
  /\ run'[i].stage \in {"filter", "next"} => run'[i].fetched = NoReports
  /\ \A g \in Games :
       /\ At(i, g, {"read", "decide"})' => Reporters(i)' \subseteq ReportersOf(g)
       /\ At(i, g, {"credit", "resolve", "cancel"})' => Due(g)

LEMMA ReportsStay ==
  ASSUME ReportsInv, TablesGrow,
         \A i \in Invocations : InOrder(i),
         \A g \in Games : Closed(g)' => Due(g)
  PROVE  ReportsInv'
<1>1. \A g \in Games : IsFiniteSet(parties'[g])
  BY DEF TablesGrow
<1>2. \A g \in Games : ReportersOf(g) \subseteq ReportersOf(g)'
  BY DEF TablesGrow, ReportersOf
<1>3. \A g \in Games : Due(g) => Due(g)'
  BY StillDue
<1>4. FetchedReports'
  BY <1>2 DEF FetchedReports, InOrder
<1>5. DecidedWhenDue'
  BY <1>3 DEF DecidedWhenDue, InOrder
<1>. QED  BY <1>1, <1>4, <1>5 DEF ReportsInv

LEMMA RunsKept ==
  ASSUME ReportsInv, NEW i \in Invocations,
         run'[i] = run[i] \/ run'[i].stage = "idle"
  PROVE  InOrder(i)
<1>1. CASE run'[i].stage = "idle"
  BY <1>1 DEF InOrder, At
<1>2. CASE run'[i] = run[i]
  <2>1. Reporters(i)' = Reporters(i)
    BY <1>2 DEF Reporters, Parties
  <2>. QED
    BY <1>2, <2>1 DEF InOrder, At, ReportsInv, FetchedReports, DecidedWhenDue
<1>. QED  BY <1>1, <1>2

LEMMA SameTables ==
  ASSUME ReportsInv, UNCHANGED <<now, parties, createdAt, individualLogs>>
  PROVE  TablesGrow
  BY DEF ReportsInv, TablesGrow, Young

\* A step of one run that closes no game.
LEMMA RunKeepsReports ==
  ASSUME ReportsInv, NEW i \in Invocations, InOrder(i),
         \A j \in Invocations \ {i} : run'[j] = run[j],
         UNCHANGED <<now, parties, createdAt, individualLogs, outcome>>
  PROVE  ReportsInv'
<1>1. \A j \in Invocations : InOrder(j)
  BY RunsKept
<1>2. \A g \in Games : Closed(g)' => Due(g)
  BY DEF Closed, ReportsInv, DecidedWhenDue
<1>. QED  BY <1>1, <1>2, SameTables, ReportsStay

LEMMA ClientKeepsReports ==
  ASSUME TypeOK, ReportsInv, Client
  PROVE  ReportsInv'
<1>0. /\ now \in Nat /\ createdAt \in [Games -> [Accounts -> Nat]]
      /\ GAME_DURATION \in Nat /\ GAME_PROCESSING_TIMEOUT \in Nat
      /\ parties \in [Games -> SUBSET Accounts]
      /\ \A g \in Games : IsFiniteSet(parties[g])
  BY ClockAssumption DEF TypeOK, PartyTypes, ReportsInv
<1>1. UNCHANGED <<run, outcome>>
  BY DEF Client, TimePasses, StartGame, EndGame, SaveLog, FinishParty, partyVars,
     cronVars
<1>2. TablesGrow
  <2>1. CASE TimePasses
    <3>1. UNCHANGED <<parties, createdAt, individualLogs>> /\ now' = now + 1
      BY <2>1 DEF TimePasses, partyVars, reportVars
    <3>2. \A g \in Games : \A a \in parties[g] : Young(g, a)' => Young(g, a)
      BY <1>0, <3>1 DEF Young
    <3>. QED  BY <1>0, <3>1, <3>2 DEF TablesGrow
  <2>2. ASSUME NEW g \in Games, NEW a \in Accounts, StartGame(g, a)
        PROVE  TablesGrow
    <3>1. \A h \in Games : IsFiniteSet(parties[h] \cup {a})
      BY <1>0, FS_AddElement
    <3>2. \A h \in Games : /\ parties[h] \subseteq parties'[h]
                           /\ parties'[h] \in {parties[h], parties[h] \cup {a}}
      BY <1>0, <2>2 DEF StartGame
    <3>3. \A h \in Games : \A b \in parties[h] : createdAt'[h][b] = createdAt[h][b]
      BY <1>0, <2>2 DEF StartGame
    <3>4. now' = now /\ individualLogs' = individualLogs
      BY <2>2 DEF StartGame, reportVars
    <3>. QED  BY <1>0, <3>1, <3>2, <3>3, <3>4 DEF TablesGrow, Young
  <2>3. ASSUME NEW e \in EndRequests,
               \/ EndGame(e)
               \/ \E row \in unsaved[e] : SaveLog(e, row)
               \/ FinishParty(e)
        PROVE  TablesGrow
    <3>1. /\ UNCHANGED <<now, parties, createdAt>>
          /\ individualLogs \subseteq individualLogs'
      BY <2>3 DEF EndGame, SaveLog, FinishParty, partyVars
    <3>. QED  BY <1>0, <3>1 DEF TablesGrow, Young
  <2>. QED  BY <2>1, <2>2, <2>3 DEF Client
<1>3. \A i \in Invocations : InOrder(i)
  BY <1>1, RunsKept
<1>4. \A g \in Games : Closed(g)' => Due(g)
  BY <1>1 DEF Closed, ReportsInv, DecidedWhenDue
<1>. QED  BY <1>2, <1>3, <1>4, ReportsStay

LEMMA WorkKeepsReports ==
  ASSUME IInv, ReportsInv, NEW i \in Invocations, Work(i)
  PROVE  ReportsInv'
<1>. DEFINE Others == \A j \in Invocations \ {i} : run'[j] = run[j]
            Tables == UNCHANGED <<now, parties, createdAt, individualLogs>>
<1>0. run \in [Invocations -> Runs] /\ run[i] \in Runs
  BY DEF IInv, TypeOK, CronTypes
<1>1. ASSUME FilterProcessed(i) PROVE ReportsInv'
  <2>1. /\ Others /\ run'[i].stage = "next" /\ run'[i].fetched = run[i].fetched
        /\ run[i].stage = "filter"
    BY <1>0, <1>1 DEF FilterProcessed, Runs
  <2>2. InOrder(i)
    BY <2>1 DEF InOrder, At, ReportsInv, FetchedReports
  <2>. QED
    BY <1>1, <2>1, <2>2, RunKeepsReports DEF FilterProcessed, partyVars, reportVars
<1>2. ASSUME NEW g \in Games, NextGame(i, g) PROVE ReportsInv'
  <2>1. /\ Others /\ run'[i].stage = "read" /\ run'[i].fetched = run[i].fetched
        /\ run[i].stage = "next" /\ run'[i].current = g
        /\ run'[i].snapshot = run[i].snapshot
    BY <1>0, <1>2 DEF NextGame, Runs
  <2>2. run'[i].fetched = NoReports /\ Reporters(i)' \subseteq Accounts
    <3>1. run[i].snapshot[g] \subseteq Accounts
      BY <1>0 DEF Runs
    <3>. QED
      BY <2>1, <3>1 DEF ReportsInv, FetchedReports, Reporters, Parties
  <2>3. Reporters(i)' = {}
    BY <2>2 DEF Reporters, NoReports
  <2>4. InOrder(i)
    BY <2>1, <2>3 DEF InOrder, At
  <2>. QED
    BY <1>2, <2>1, <2>4, RunKeepsReports DEF NextGame, partyVars, reportVars
<1>3. ASSUME NEW a \in Accounts, ReadReport(i, a) PROVE ReportsInv'
  <2>. DEFINE g == run[i].current
              report == IndividualEndGameResults(g, a)
  <2>1. /\ Others /\ run'[i].stage \in {"read", "decide"} /\ run'[i].current = g
        /\ run'[i].snapshot = run[i].snapshot
        /\ run'[i].fetched = [run[i].fetched EXCEPT ![a] = report]
        /\ run[i].stage = "read" /\ g \in Games
    BY <1>0, <1>3
    DEF ReadReport, Runs, IInv, RunIsCurrent, WorkIsCurrent, Active, AtGame
  <2>2. Parties(i) \subseteq parties[g] /\ Parties(i) \subseteq Accounts
    BY <1>0, <2>1 DEF IInv, RunIsCurrent, WorkIsCurrent, Active, Parties, Runs
  <2>3. ASSUME report # EmptyReport, a \in Parties(i) PROVE a \in ReportersOf(g)
    <3>1. PICK r \in Results : report[r] # 0
      BY <2>3 DEF IndividualEndGameResults, EmptyReport
    <3>2. {row \in individualLogs : /\ row.request.gameId = g
                                    /\ row.request.accountId = a
                                    /\ row.result = r} # {}
      BY <3>1, FS_EmptySet DEF IndividualEndGameResults
    <3>. QED  BY <2>2, <2>3, <3>2 DEF ReportersOf
  <2>4. ASSUME NEW b \in Reporters(i)' PROVE b \in ReportersOf(g)
    <3>1. b \in Parties(i) /\ run'[i].fetched[b] # EmptyReport
      BY <2>1, <2>4 DEF Reporters, Parties
    <3>2. CASE b = a
      BY <1>0, <2>1, <2>3, <3>1, <3>2 DEF Runs
    <3>3. CASE b # a
      <4>1. b \in Reporters(i)
        BY <1>0, <2>1, <2>2, <3>1, <3>3 DEF Runs, Reporters
      <4>. QED  BY <2>1, <4>1 DEF ReportsInv, FetchedReports, At
    <3>. QED  BY <3>2, <3>3
  <2>5. InOrder(i)
    BY <2>1, <2>4 DEF InOrder, At
  <2>. QED
    BY <1>3, <2>1, <2>5, RunKeepsReports DEF ReadReport, partyVars, reportVars
<1>4. ASSUME SkipGame(i) \/ SendRewardTx(i) \/ EndRun(i) PROVE ReportsInv'
  <2>1. Others /\ (\/ run'[i].stage = "next" /\ run'[i].fetched = NoReports
                   \/ run'[i].stage = "idle")
    <3>1. /\ Continue(i).stage = "next" /\ Continue(i).fetched = NoReports
          /\ Idle.stage = "idle"
      BY DEF Continue, Idle
    <3>2. Others /\ run'[i] \in {Continue(i), Idle}
      BY <1>0, <1>4 DEF SkipGame, SendRewardTx, EndRun
    <3>. QED  BY <3>1, <3>2
  <2>2. InOrder(i)
    BY <2>1 DEF InOrder, At
  <2>. QED
    BY <1>4, <2>1, <2>2, RunKeepsReports
    DEF SkipGame, SendRewardTx, EndRun, partyVars, reportVars
<1>5. ASSUME DecideCancel(i) \/ DecideSettle(i) PROVE ReportsInv'
  <2>1. /\ Others /\ run'[i].stage \in {"cancel", "credit"}
        /\ run'[i].current = run[i].current
    <3>1. CASE DecideCancel(i)
      BY <1>0, <3>1 DEF DecideCancel, Runs
    <3>2. CASE DecideSettle(i)
      BY <1>0, <3>2 DEF DecideSettle, Runs
    <3>. QED  BY <1>5, <3>1, <3>2
  <2>2. Due(run[i].current)
    BY <1>5, DecisionIsDue DEF DecideCancel, DecideSettle
  <2>3. InOrder(i)
    BY <2>1, <2>2 DEF InOrder, At
  <2>. QED
    BY <1>5, <2>1, <2>3, RunKeepsReports
    DEF DecideCancel, DecideSettle, partyVars, reportVars
<1>6. ASSUME (\E r \in Results : CreditPlayer(i, r)) \/ WriteGameOverLogs(i)
      PROVE  ReportsInv'
  <2>1. /\ Others /\ run'[i].stage \in {"credit", "resolve"}
        /\ run'[i].current = run[i].current /\ run[i].stage = "credit"
    <3>1. CASE \E r \in Results : CreditPlayer(i, r)
      BY <1>0, <3>1 DEF CreditPlayer, Runs
    <3>2. CASE WriteGameOverLogs(i)
      BY <1>0, <3>2 DEF WriteGameOverLogs, Runs
    <3>. QED  BY <1>6, <3>1, <3>2
  <2>2. \A g \in Games : run[i].current = g => Due(g)
    BY <2>1 DEF ReportsInv, DecidedWhenDue, At
  <2>3. InOrder(i)
    BY <2>1, <2>2 DEF InOrder, At
  <2>. QED
    BY <1>6, <2>1, <2>3, RunKeepsReports
    DEF CreditPlayer, WriteGameOverLogs, partyVars, reportVars
<1>7. ASSUME ResolveSettled(i) \/ ResolveCanceled(i) PROVE ReportsInv'
  <2>1. /\ Others /\ run[i].stage \in {"resolve", "cancel"}
        /\ \/ run'[i].stage = "reward"
           \/ run'[i].stage = "next" /\ run'[i].fetched = NoReports
    <3>1. CASE ResolveSettled(i)
      BY <1>0, <3>1 DEF ResolveSettled, Runs
    <3>2. CASE ResolveCanceled(i)
      BY <1>0, <3>2 DEF ResolveCanceled, Continue, Idle
    <3>. QED  BY <1>7, <3>1, <3>2
  <2>2. \A j \in Invocations : InOrder(j)
    BY <2>1, RunsKept DEF InOrder, At
  <2>3. \A g \in Games : Closed(g)' => Due(g)
    <3>1. \A g \in Games : Closed(g)' => Closed(g) \/ g = run[i].current
      BY <1>7 DEF ResolveSettled, ResolveCanceled, ResolveGameProcessing, Closed,
         IInv, TypeOK, PartyTypes
    <3>. QED  BY <2>1, <3>1 DEF ReportsInv, DecidedWhenDue, At
  <2>4. Tables
    BY <1>7 DEF ResolveSettled, ResolveCanceled, ResolveGameProcessing, reportVars
  <2>. QED  BY <2>2, <2>3, <2>4, SameTables, ReportsStay
<1>. QED
  BY <1>1, <1>2, <1>3, <1>4, <1>5, <1>6, <1>7 DEF Work

LEMMA NextReportsInv ==
  ASSUME IInv, ReportsInv, [Next]_vars
  PROVE  ReportsInv'
<1>0. TypeOK /\ run \in [Invocations -> Runs]
  BY DEF IInv, TypeOK, CronTypes
<1>1. ASSUME NEW i \in Invocations, FetchParties(i) PROVE ReportsInv'
  <2>1. /\ \A j \in Invocations \ {i} : run'[j] = run[j]
        /\ run'[i].stage = "filter" /\ run'[i].fetched = NoReports
    BY <1>0, <1>1 DEF FetchParties, Idle
  <2>2. InOrder(i)
    BY <2>1 DEF InOrder, At
  <2>. QED
    BY <1>1, <2>1, <2>2, RunKeepsReports DEF FetchParties, partyVars, reportVars
<1>2. ASSUME \A i \in Invocations : run'[i] = run[i] \/ run'[i] = Idle,
             UNCHANGED <<now, parties, createdAt, individualLogs, outcome>>
      PROVE  ReportsInv'
  <2>1. \A i \in Invocations : InOrder(i)
    BY <1>2, RunsKept DEF Idle
  <2>2. \A g \in Games : Closed(g)' => Due(g)
    BY <1>2 DEF Closed, ReportsInv, DecidedWhenDue
  <2>. QED  BY <1>2, <2>1, <2>2, SameTables, ReportsStay
<1>3. ASSUME NEW g \in Games, NEW r \in Results, OrphanedCredit(g, r)
      PROVE  ReportsInv'
  BY <1>2, <1>3 DEF OrphanedCredit, partyVars, reportVars, cronVars
<1>4. ASSUME NEW i \in Invocations,
             \/ StatementFails(i)
             \/ \E r \in Results : CreditFails(i, r)
             \/ RewardFails(i)
      PROVE  ReportsInv'
  BY <1>0, <1>2, <1>4
  DEF StatementFails, CreditFails, RewardFails, Abort, partyVars, reportVars
<1>5. ASSUME \/ \E e \in EndRequests :
                  (\E row \in unsaved[e] : SaveLogFails(e, row)) \/ FinishFails(e)
             \/ Crash
             \/ UNCHANGED vars
      PROVE  ReportsInv'
  BY <1>2, <1>5 DEF SaveLogFails, FinishFails, Crash, vars, partyVars, reportVars,
     cronVars
<1>. QED
  BY <1>0, <1>1, <1>3, <1>4, <1>5, ClientKeepsReports, WorkKeepsReports
  DEF Next, Failure

LEMMA ReportsInvariant == Spec => []ReportsInv
  BY InitReportsInv, NextReportsInv, ProcessorInvariant, PTL DEF Spec

(* A game is closed only when two accounts have joined it and one of them has *)
(* reported, however stale the lists and reports its run works with.          *)
THEOREM ClosedWhenReported == Spec => []ClosedOnReport
<1>1. ReportsInv => ClosedOnReport
  BY DEF ReportsInv, DecidedWhenDue, Due, ClosedOnReport
<1>. QED  BY <1>1, ReportsInvariant, PTL

(* As long as every party of a game may still be playing, it takes the        *)
(* reports of three of them to close it.                                      *)
THEOREM EarlyCloseOnThreeReports == Spec => []EarlyCloseNeedsThreeReports
<1>1. ReportsInv => EarlyCloseNeedsThreeReports
  BY DEF ReportsInv, DecidedWhenDue, Due, EarlyCloseNeedsThreeReports
<1>. QED  BY <1>1, ReportsInvariant, PTL

=============================================================================
