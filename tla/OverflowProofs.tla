---------------------------- MODULE OverflowProofs ----------------------------
(***************************************************************************)
(* Theorems about Overflow: its types, and how often a stuck game credits  *)
(* an account.  The steps of Settlement keep what SettlementProofs shows   *)
(* of them; the rejected updates are steps of Overflow's own.              *)
(***************************************************************************)
EXTENDS Overflow, SettlementProofs, SumLemmas

\* The requests about a game that name an account.
Naming(g, a) ==
  {e \in EndRequests : e.gameId = g /\ \E q \in e.playerResults : q.accountId = a}
Entries(g, a) == Cardinality(Naming(g, a))

\* Updates that were executed, or are in flight with no run to wait for them.
Spent(g, a) == statUpdates[g][a] + Amount(orphaned[g], a)
Stops == faults + overflows
Settled(g) == Closed(g) \/ \E i \in Invocations : Settling(i) /\ run[i].current = g

\* An account's updates in a game are those of the runs that were stopped and,
\* if it is closed or being settled, those of one run more.
SpentInv ==
  overflows < MaxOverflows =>
    /\ \A g \in Games, a \in Accounts :
         Spent(g, a) <= Entries(g, a) * (Stops + IF Settled(g) THEN 1 ELSE 0)
    /\ \A i \in Invocations, g \in Games, a \in Accounts :
         At(i, g, {"credit"}) =>
           Spent(g, a) + Amount(run[i].updates, a) <= Entries(g, a) * (Stops + 1)

WidthInv == WidthTypeOK /\ IInv /\ RowsInv /\ FetchedInv /\ SpentInv

-----------------------------------------------------------------------------
(* The steps, and their types *)

\* A step of Settlement, if only a stuttering one, or a rejected update.
RunOverflows == \E i \in Invocations, r \in Results : CreditOverflows(i, r)
UpdateLost == \E g \in Games, r \in Results : OrphanOverflows(g, r)

LEMMA StepKinds ==
  ASSUME [WidthNext]_widthVars
  PROVE  [Next]_vars \/ RunOverflows \/ UpdateLost
<1>1. CASE UNCHANGED widthVars
  BY <1>1 DEF widthVars
<1>2. CASE Client \/ Failure
  BY <1>2 DEF Next
<1>3. ASSUME NEW i \in Invocations, FetchParties(i) PROVE Next
  BY <1>3 DEF Next
<1>4. ASSUME NEW i \in Invocations, WidthWork(i) PROVE Next \/ RunOverflows
  BY <1>4 DEF Next, Work, WidthWork, CreditFits, RunOverflows
<1>5. ASSUME NEW g \in Games, NEW r \in Results, OrphanedCreditFits(g, r)
      PROVE  Next
  BY <1>5 DEF Next, OrphanedCreditFits
<1>6. CASE ResetPointsForAll
  BY <1>6 DEF ResetPointsForAll
<1>. QED
  BY <1>1, <1>2, <1>3, <1>4, <1>5, <1>6 DEF WidthNext, RunOverflows, UpdateLost

\* What a rejected update does to the run that waits for it and to the others
\* issued with it: as any failing update, but it is no fault.
LEMMA OverflowStops ==
  ASSUME TypeOK, OneRunAtATime, NEW i \in Invocations, NEW r \in Results,
         CreditOverflows(i, r)
  PROVE  /\ Active(i) /\ Abort(i) /\ CronTypes' /\ LedgerTypes'
         /\ UNCHANGED <<now, partyVars, reportVars, statUpdates, gameOverLogs,
                        rewardTxs, faults>>
<1>1. Active(i) /\ Abort(i)
  BY DEF CreditOverflows, EndByOverflow, Active
<1>2. CronTypes'
  BY <1>1, AbortType DEF TypeOK
<1>3. [q \in Results |-> orphaned[run[i].current][q] + run[i].updates[q]
         - IF q = r THEN 1 ELSE 0] \in Report
      \/ run[i].current \notin Games
  BY DEF CreditOverflows, Pending, TypeOK, CronTypes, LedgerTypes, Runs, Report
<1>4. LedgerTypes'
  BY <1>3 DEF CreditOverflows, TypeOK, LedgerTypes
<1>. QED  BY <1>1, <1>2, <1>4 DEF CreditOverflows

\* How an invariant of Settlement's processor is kept by Overflow's steps.
LEMMA WidthStepIInv ==
  ASSUME IInv, [WidthNext]_widthVars
  PROVE  IInv'
<1>1. CASE [Next]_vars
  BY <1>1, NextIInv
<1>2. ASSUME NEW i \in Invocations, NEW r \in Results, CreditOverflows(i, r)
      PROVE  IInv'
  <2>1. /\ Active(i) /\ Abort(i) /\ CronTypes' /\ LedgerTypes'
        /\ UNCHANGED <<now, partyVars, reportVars, statUpdates, gameOverLogs,
                       rewardTxs, faults>>
    BY <1>2, OverflowStops DEF IInv
  <2>2. OneRunAtATime' /\ RunIsCurrent'
    BY <2>1, RunStops DEF IInv
  <2>3. ClosedOnce'
    BY <2>1 DEF IInv, ClosedOnce, Closed, partyVars
  <2>4. TypeOK'
    BY <2>1 DEF IInv, TypeOK, PartyTypes, ReportTypes, partyVars, reportVars
  <2>. QED  BY <2>2, <2>3, <2>4 DEF IInv
<1>3. ASSUME NEW g \in Games, NEW r \in Results, OrphanOverflows(g, r)
      PROVE  IInv'
  <2>1. /\ UNCHANGED <<now, partyVars, reportVars, cronVars, statUpdates,
                       gameOverLogs, rewardTxs, faults>>
        /\ orphaned' = [orphaned EXCEPT ![g][r] = @ - 1] /\ orphaned[g][r] > 0
    BY <1>3 DEF OrphanOverflows
  <2>2. orphaned' \in [Games -> Report]
    <3>1. orphaned \in [Games -> Report]
      BY DEF IInv, TypeOK, LedgerTypes
    <3>2. [orphaned[g] EXCEPT ![r] = @ - 1] \in Report
      BY <2>1, <3>1 DEF Report
    <3>. QED  BY <2>1, <3>1, <3>2
  <2>3. TypeOK'
    BY <2>1, <2>2 DEF IInv, TypeOK, PartyTypes, ReportTypes, CronTypes, LedgerTypes,
       partyVars, reportVars, cronVars
  <2>4. OneRunAtATime' /\ ClosedOnce' /\ RunIsCurrent'
    BY <2>1, PartiesJoin DEF IInv, partyVars
  <2>. QED  BY <2>3, <2>4 DEF IInv
<1>. QED  BY <1>1, <1>2, <1>3, StepKinds DEF RunOverflows, UpdateLost

\* The column stays within its width, and the counters within their bounds.
LEMMA WidthInitTypes == WidthInit => WidthTypeOK /\ IInv
<1>1. MaxOverflows \in Nat
  BY WidthAssumption DEF MaxOverflows
<1>. QED  BY <1>1, InitIInv, WidthAssumption DEF WidthInit, WidthTypeOK, IInv

LEMMA WidthStepTypes ==
  ASSUME WidthTypeOK, IInv, [WidthNext]_widthVars
  PROVE  WidthTypeOK'
<1>0. TypeOK' /\ MaxOverflows \in Nat /\ MAX_INT \in Nat /\ MaxResets \in Nat
  BY WidthStepIInv, WidthAssumption DEF IInv, MaxOverflows
<1>1. CASE UNCHANGED overflowVars
  BY <1>0, <1>1 DEF WidthTypeOK, overflowVars
<1>2. ASSUME NEW r \in Results, AddScore(r), UNCHANGED <<overflows, resets>>
      PROVE  WidthTypeOK'
  <2>1. r.score \in 0 .. MAX_INT /\ r.accountId \in Accounts
    BY WidthAssumption, RequestsAssumption DEF Results
  <2>2. kills' \in [Accounts -> 0 .. MAX_INT]
    <3>1. kills \in [Accounts -> 0 .. MAX_INT]
      BY DEF WidthTypeOK
    <3>2. kills[r.accountId] + r.score \in 0 .. MAX_INT
      BY <1>0, <1>2, <2>1, <3>1 DEF AddScore, Fits
    <3>. QED  BY <1>2, <2>1, <3>1, <3>2 DEF AddScore
  <2>. QED  BY <1>0, <1>2, <2>2 DEF WidthTypeOK
<1>3. ASSUME NEW i \in Invocations, NEW r \in Results, CreditOverflows(i, r)
      PROVE  WidthTypeOK'
  BY <1>0, <1>3 DEF CreditOverflows, WidthTypeOK
<1>4. CASE ResetPointsForAll
  BY <1>0, <1>4 DEF ResetPointsForAll, WidthTypeOK
<1>5. CASE UNCHANGED widthVars
  BY <1>1, <1>5 DEF widthVars
<1>6. ASSUME NEW i \in Invocations, WidthWork(i) PROVE WidthTypeOK'
  BY <1>1, <1>2, <1>3, <1>6 DEF WidthWork, CreditFits
<1>7. ASSUME NEW g \in Games, NEW r \in Results,
             OrphanedCreditFits(g, r) \/ OrphanOverflows(g, r)
      PROVE  WidthTypeOK'
  BY <1>1, <1>2, <1>7 DEF OrphanedCreditFits, OrphanOverflows
<1>. QED  BY <1>1, <1>4, <1>5, <1>6, <1>7 DEF WidthNext

LEMMA WidthTypesInvariant == WidthSpec => [](WidthTypeOK /\ IInv)
  BY WidthInitTypes, WidthStepTypes, WidthStepIInv, PTL DEF WidthSpec

(* No sum of a gamer's scores leaves its column, whatever runs are retried,  *)
(* crash or leave in flight.                                                 *)
THEOREM WidthsKept == WidthSpec => []WidthTypeOK
  BY WidthTypesInvariant, PTL

-----------------------------------------------------------------------------
(* Updates left in flight *)

\* A run's updates but one are left in flight.
LEMMA AmountMoved ==
  ASSUME NEW before \in Report, NEW updates \in Report, NEW r \in Results,
         updates[r] > 0, NEW after,
         after = [q \in Results |-> before[q] + updates[q] - IF q = r THEN 1 ELSE 0],
         NEW a
  PROVE  /\ after \in Report
         /\ Amount(after, a) <= Amount(before, a) + Amount(updates, a)
<1> DEFINE less == [updates EXCEPT ![r] = @ - 1]
<1>2. /\ after \in Report /\ less \in Report /\ less[r] = updates[r] - 1
      /\ \A q \in Results \ {r} : less[q] = updates[q]
  BY DEF Report
<1>3. \A q \in Results : after[q] = before[q] + less[q]
  BY DEF Report
<1> HIDE DEF less
<1>1. Amount(less, a) = Amount(updates, a) - IF r.accountId = a THEN 1 ELSE 0
  BY <1>2, AmountTaken
<1>4. /\ IsFiniteSet(Of(a)) /\ Of(a) \subseteq Results
      /\ IntOn(before, Of(a)) /\ IntOn(less, Of(a))
      /\ Amount(before, a) \in Nat /\ Amount(updates, a) \in Nat
  BY <1>2, ResultsFinite, ReportAmount
<1>5. \A q \in Of(a) : after[q] = before[q] + less[q]
  BY <1>3, <1>4
<1>6. Amount(after, a) = Amount(before, a) + Amount(less, a)
  BY <1>4, <1>5, SumBoth DEF Amount
<1>. QED  BY <1>1, <1>2, <1>4, <1>6

-----------------------------------------------------------------------------
(* Rows and reports on their way to the updates *)

LEMMA EntriesFinite == \A g, a : IsFiniteSet(Naming(g, a)) /\ Entries(g, a) \in Nat
  BY RequestsAssumption, FS_Subset, FS_CardinalityType DEF Naming, Entries

LEMMA HeardAreNamed ==
  ASSUME RowsInv, TypeOK
  PROVE  \A b, g, a : Cardinality(Heard(b, g, a)) <= Entries(g, a)
<1> SUFFICES ASSUME NEW b, NEW g, NEW a
             PROVE  Heard(b, g, a) \subseteq Naming(g, a)
  BY EntriesFinite, FS_Subset DEF Entries
<1>1. ASSUME NEW row \in individualLogs
      PROVE  row.result \in row.request.playerResults
  BY <1>1 DEF RowsInv, RowsAreOf, LogsOf, TypeOK, ReportTypes, LogRow
<1>. QED  BY <1>1 DEF Heard, Naming

LEMMA RowsStep ==
  ASSUME TypeOK, RowsInv, [WidthNext]_widthVars
  PROVE  RowsInv'
<1>1. CASE [Next]_vars
  BY <1>1, NextKeepsRows
<1>2. CASE RunOverflows \/ UpdateLost
  BY <1>2, RowsStay
  DEF RunOverflows, CreditOverflows, UpdateLost, OrphanOverflows, reportVars
<1>. QED  BY <1>1, <1>2, StepKinds

LEMMA FetchedStep ==
  ASSUME IInv, RowsInv, FetchedInv, [WidthNext]_widthVars
  PROVE  FetchedInv'
<1>0. TypeOK
  BY DEF IInv
<1>1. CASE [Next]_vars
  BY <1>1, NextKeepsFetched
<1>2. ASSUME NEW g \in Games, NEW r \in Results, OrphanOverflows(g, r)
      PROVE  FetchedInv'
  BY <1>0, <1>2, FetchedStops DEF OrphanOverflows, cronVars, reportVars
<1>3. ASSUME NEW i \in Invocations, NEW r \in Results, CreditOverflows(i, r)
      PROVE  FetchedInv'
  <2>1. Abort(i) /\ UNCHANGED individualLogs
    BY <1>3 DEF CreditOverflows, EndByOverflow, reportVars
  <2>. QED  BY <1>0, <2>1, FetchedStops DEF Abort, Idle, TypeOK, CronTypes
<1>. QED  BY <1>1, <1>2, <1>3, StepKinds DEF RunOverflows, UpdateLost

-----------------------------------------------------------------------------
(* The updates of an account in a game *)

LEMMA StopsTypes ==
  ASSUME WidthTypeOK, WidthTypeOK'
  PROVE  Stops \in Nat /\ Stops' \in Nat
<1>1. faults \in Nat /\ faults' \in Nat
  BY FaultsAssumption DEF WidthTypeOK, TypeOK
<1>2. overflows \in Nat /\ overflows' \in Nat
  BY WidthAssumption DEF WidthTypeOK, MaxOverflows
<1>3. \A k, m \in Nat : k + m \in Nat
  OBVIOUS
<1>. QED  BY <1>1, <1>2, <1>3, Zenon DEF Stops

LEMMA SpentTypes ==
  ASSUME WidthTypeOK, IInv, WidthTypeOK', NEW g \in Games, NEW a \in Accounts
  PROVE  /\ Entries(g, a) \in Nat
         /\ Stops \in Nat /\ Stops' \in Nat
         /\ statUpdates[g][a] \in Nat /\ statUpdates'[g][a] \in Nat
         /\ orphaned[g] \in Report /\ orphaned'[g] \in Report
         /\ Amount(orphaned[g], a) \in Nat /\ Amount(orphaned'[g], a) \in Nat
         /\ Spent(g, a) = statUpdates[g][a] + Amount(orphaned[g], a)
         /\ Spent(g, a)' = statUpdates'[g][a] + Amount(orphaned'[g], a)
         /\ Spent(g, a) \in Nat /\ Spent(g, a)' \in Nat
<1>1. /\ orphaned[g] \in Report /\ orphaned'[g] \in Report
      /\ statUpdates[g][a] \in Nat /\ statUpdates'[g][a] \in Nat
  BY DEF WidthTypeOK, TypeOK, LedgerTypes
<1>2. Amount(orphaned[g], a) \in Nat /\ Amount(orphaned'[g], a) \in Nat
  BY <1>1, ReportAmount
<1>3. Stops \in Nat /\ Stops' \in Nat
  BY StopsTypes
<1>4. /\ Spent(g, a) = statUpdates[g][a] + Amount(orphaned[g], a)
      /\ Spent(g, a)' = statUpdates'[g][a] + Amount(orphaned'[g], a)
  BY DEF Spent, Amount
<1>5. Entries(g, a) \in Nat
  BY EntriesFinite
<1>6. Spent(g, a) \in Nat /\ Spent(g, a)' \in Nat
  BY <1>1, <1>2, <1>4
<1>. QED  BY <1>1, <1>2, <1>3, <1>4, <1>5, <1>6

LEMMA RunTypes ==
  ASSUME WidthTypeOK, IInv, WidthTypeOK', NEW i \in Invocations, run[i].stage \in AtGame
  PROVE  /\ run[i] \in Runs /\ run[i].current \in Games /\ Active(i)
         /\ \A j \in Invocations : Active(j) => j = i
         /\ run[i].stage # "reward" => ~Closed(run[i].current)
<1>1. Active(i)
  BY DEF Active, AtGame
<1>2. WorkIsCurrent(i)
  BY <1>1 DEF IInv, RunIsCurrent
<1>3. \A j \in Invocations : Active(j) => j = i
  BY <1>1 DEF IInv, OneRunAtATime
<1>. QED
  BY <1>1, <1>2, <1>3 DEF WorkIsCurrent, IInv, TypeOK, CronTypes, AtGame

LEMMA Product ==
  ASSUME NEW n \in Nat, NEW k \in Nat, NEW m \in Nat, k <= m
  PROVE  n * k <= n * m /\ n * (k + 1) = n * k + n /\ n * k \in Nat
<1>1. PICK d \in Nat : m = k + d
  <2>1. m - k \in Nat /\ m = k + (m - k)
    OBVIOUS
  <2>. QED  BY <2>1
<1>2. n * m = n * k + n * d /\ n * d \in Nat /\ n * k \in Nat
  BY <1>1
<1>. QED  BY <1>2

\* What SpentInv says of one account in one game, and of one run.
SpentBound(g, a) ==
  Spent(g, a) <= Entries(g, a) * (Stops + IF Settled(g) THEN 1 ELSE 0)
RunBound(i, g, a) ==
  Spent(g, a) + Amount(run[i].updates, a) <= Entries(g, a) * (Stops + 1)

\* A game in which a step adds no update.
LEMMA SpentElsewhere ==
  ASSUME WidthTypeOK, IInv, WidthTypeOK', SpentInv, overflows < MaxOverflows,
         Stops <= Stops', NEW g \in Games, NEW a \in Accounts,
         Spent(g, a)' <= Spent(g, a),
         Stops + 1 <= Stops' \/ (Settled(g) => Settled(g)')
  PROVE  SpentBound(g, a)'
<1>1. PICK n, before, after :
        /\ n = Entries(g, a)
        /\ before = Stops + IF Settled(g) THEN 1 ELSE 0
        /\ after = (Stops + IF Settled(g) THEN 1 ELSE 0)'
  OBVIOUS
<1>2. /\ n \in Nat /\ before \in Nat /\ after \in Nat /\ before <= after
      /\ Spent(g, a) \in Nat /\ Spent(g, a)' \in Nat
  BY <1>1, SpentTypes
<1>3. Spent(g, a) <= n * before
  BY <1>1 DEF SpentInv
<1>4. n * before <= n * after /\ n * before \in Nat /\ n * after \in Nat
  BY <1>2, Product
<1>5. Spent(g, a)' <= n * after
  BY <1>2, <1>3, <1>4
<1>. QED  BY <1>1, <1>5 DEF SpentBound, Entries, Naming

\* A step that adds no update: a game is taken out of settlement only by a stop.
LEMMA NothingSpent ==
  ASSUME WidthTypeOK, IInv, WidthTypeOK', SpentInv, Stops <= Stops', overflows <= overflows',
         \A g \in Games, a \in Accounts : Spent(g, a)' <= Spent(g, a),
         overflows' < MaxOverflows =>
           Stops + 1 <= Stops' \/ \A g \in Games : Settled(g) => Settled(g)',
         \A j \in Invocations : run'[j].stage = "credit" => run'[j] = run[j]
  PROVE  SpentInv'
<1> SUFFICES ASSUME overflows' < MaxOverflows
             PROVE  /\ \A g \in Games, a \in Accounts : SpentBound(g, a)'
                    /\ \A i \in Invocations, g \in Games, a \in Accounts :
                         At(i, g, {"credit"})' => RunBound(i, g, a)'
  BY DEF SpentInv, SpentBound, RunBound
<1>1. overflows < MaxOverflows
  BY WidthAssumption DEF WidthTypeOK, MaxOverflows
<1>2. ASSUME NEW g \in Games, NEW a \in Accounts PROVE SpentBound(g, a)'
  <2>1. Spent(g, a)' <= Spent(g, a)
    OBVIOUS
  <2>2. Stops + 1 <= Stops' \/ (Settled(g) => Settled(g)')
    OBVIOUS
  <2>. QED  BY <1>1, <2>1, <2>2, SpentElsewhere
<1>3. ASSUME NEW i \in Invocations, NEW g \in Games, NEW a \in Accounts,
             At(i, g, {"credit"})'
      PROVE  RunBound(i, g, a)'
  <2>1. run'[i] = run[i] /\ run[i].stage = "credit" /\ run[i].current = g
    BY <1>3 DEF At
  <2>2. PICK n, k : n = Entries(g, a) /\ k = Amount(run[i].updates, a)
    OBVIOUS
  <2>3. k \in Nat
    <3>1. run[i].updates \in Report
      BY <2>1, RunTypes DEF AtGame, Runs
    <3>. QED  BY <2>2, <3>1, ReportAmount
  <2>4. /\ n \in Nat /\ Stops \in Nat /\ Stops' \in Nat
        /\ Spent(g, a) \in Nat /\ Spent(g, a)' \in Nat
    BY <2>2, SpentTypes
  <2>5. Spent(g, a) + k <= n * (Stops + 1)
    BY <1>1, <2>1, <2>2 DEF SpentInv, At
  <2>6. n * (Stops + 1) <= n * (Stops' + 1)
        /\ n * (Stops + 1) \in Nat /\ n * (Stops' + 1) \in Nat
    BY <2>4, Product
  <2>7. Spent(g, a)' + k <= n * (Stops' + 1)
    BY <2>3, <2>4, <2>5, <2>6
  <2>8. RunBound(i, g, a)'
          <=> Spent(g, a)' + Amount(run'[i].updates, a) <= Entries(g, a) * (Stops' + 1)
    BY DEF RunBound, Entries, Naming
  <2>. QED  BY <2>1, <2>2, <2>7, <2>8
<1>. QED  BY <1>2, <1>3

\* What is issued for an account when a game is settled.
LEMMA SettleSpends ==
  ASSUME WidthTypeOK, IInv, WidthTypeOK', RowsInv, FetchedInv, SpentInv,
         NEW i \in Invocations, DecideSettle(i), UNCHANGED overflowVars
  PROVE  SpentInv'
<1> SUFFICES ASSUME overflows' < MaxOverflows
             PROVE  /\ \A g \in Games, a \in Accounts : SpentBound(g, a)'
                    /\ \A j \in Invocations, g \in Games, a \in Accounts :
                         At(j, g, {"credit"})' => RunBound(j, g, a)'
  BY DEF SpentInv, SpentBound, RunBound
<1>1. /\ run[i].stage = "decide" /\ overflows < MaxOverflows
      /\ UNCHANGED <<outcome, statUpdates, orphaned, faults, overflows>>
  BY DEF DecideSettle, overflowVars, partyVars, ledgerVars
<1>2. PICK c \in Games : c = run[i].current
  BY <1>1, RunTypes DEF AtGame
<1>3. /\ run[i] \in Runs /\ Active(i) /\ \A j \in Invocations : Active(j) => j = i
      /\ ~Closed(c)
  BY <1>1, <1>2, RunTypes DEF AtGame
<1>4. PICK report \in TopHashedResults(i) :
        run' = [run EXCEPT ![i].stage = "credit", ![i].fetched = NoReports,
                           ![i].agreed = report, ![i].updates = report]
  BY DEF DecideSettle
<1>5. /\ run'[i].stage = "credit" /\ run'[i].current = c /\ run'[i].updates = report
      /\ \A j \in Invocations \ {i} : run'[j] = run[j]
  BY <1>2, <1>3, <1>4 DEF IInv, TypeOK, CronTypes, Runs
<1>6. Stops' = Stops /\ Stops <= Stops'
  <2>1. Stops' = Stops
    BY <1>1 DEF Stops
  <2>. QED  BY <2>1, StopsTypes
<1>7. \A g \in Games : Settled(g) => Settled(g)'
  BY <1>1, <1>5 DEF Settled, Settling, Closed
<1>8. \A g \in Games, a \in Accounts : Spent(g, a)' = Spent(g, a)
  BY <1>1 DEF Spent
<1>9. ASSUME NEW g \in Games, NEW a \in Accounts PROVE SpentBound(g, a)'
  <2>1. Spent(g, a)' <= Spent(g, a)
    BY <1>8, SpentTypes
  <2>. QED  BY <1>1, <1>6, <1>7, <2>1, SpentElsewhere
<1>10. report \in Report /\ \A a \in Accounts : Amount(report, a) <= Entries(c, a)
  <2>1. PICK b \in Accounts : report = run[i].fetched[b]
    <3>1. report \in HashedResults(i)
      BY <1>4 DEF TopHashedResults
    <3>2. Parties(i) \subseteq Accounts
      BY <1>2, <1>3 DEF Parties, Runs
    <3>. QED  BY <3>1, <3>2 DEF HashedResults, Reporters
  <2>2. report \in Report
    BY <1>3, <2>1 DEF Runs
  <2>3. Backed(b, c, report)
    BY <1>1, <1>2, <2>1 DEF FetchedInv
  <2>4. ASSUME NEW a \in Accounts PROVE Amount(report, a) <= Entries(c, a)
    <3>1. /\ Amount(report, a) <= Cardinality(Heard(b, c, a))
          /\ Cardinality(Heard(b, c, a)) <= Entries(c, a)
      BY <2>3, HeardAreNamed DEF Backed, IInv
    <3>2. /\ Amount(report, a) \in Nat /\ Cardinality(Heard(b, c, a)) \in Nat
          /\ Entries(c, a) \in Nat
      BY <2>2, ReportAmount, HeardFinite, EntriesFinite
    <3>. QED  BY <3>1, <3>2
  <2>. QED  BY <2>2, <2>4
<1>11. ASSUME NEW a \in Accounts PROVE RunBound(i, c, a)'
  <2>1. PICK n, k : n = Entries(c, a) /\ k = Amount(report, a)
    OBVIOUS
  <2>2. n \in Nat /\ k \in Nat /\ k <= n /\ Stops \in Nat /\ Spent(c, a) \in Nat
    BY <1>10, <2>1, ReportAmount, SpentTypes
  <2>3. ~Settled(c)
    BY <1>1, <1>3 DEF Settled, Settling, Active
  <2>4. Spent(c, a) <= n * (Stops + 0)
    BY <1>1, <2>1, <2>3 DEF SpentInv
  <2>5. n * (Stops + 1) = n * Stops + n /\ n * Stops \in Nat
    BY <2>2, Product
  <2>6. Spent(c, a) + k <= n * (Stops + 1)
    BY <2>2, <2>4, <2>5
  <2>7. RunBound(i, c, a)'
          <=> Spent(c, a)' + Amount(run'[i].updates, a) <= Entries(c, a) * (Stops' + 1)
    BY DEF RunBound, Entries, Naming
  <2>. QED  BY <1>5, <1>6, <1>8, <2>1, <2>6, <2>7
<1>12. ASSUME NEW j \in Invocations, NEW g \in Games, At(j, g, {"credit"})'
       PROVE  j = i /\ g = c
  BY <1>3, <1>5, <1>12 DEF At, Active
<1>. QED  BY <1>9, <1>11, <1>12

\* An update of the run that waits for it moves from those it has issued to
\* those that were executed.
LEMMA CreditSpends ==
  ASSUME WidthTypeOK, IInv, WidthTypeOK', SpentInv,
         NEW i \in Invocations, NEW r \in Results, CreditFits(i, r)
  PROVE  SpentInv'
<1> SUFFICES ASSUME overflows' < MaxOverflows
             PROVE  /\ \A g \in Games, a \in Accounts : SpentBound(g, a)'
                    /\ \A j \in Invocations, g \in Games, a \in Accounts :
                         At(j, g, {"credit"})' => RunBound(j, g, a)'
  BY DEF SpentInv, SpentBound, RunBound
<1>1. /\ run[i].stage = "credit" /\ run[i].updates[r] > 0 /\ overflows < MaxOverflows
      /\ UNCHANGED <<outcome, orphaned, faults, overflows>>
  BY DEF CreditFits, CreditPlayer, Pending, partyVars
<1>2. PICK c \in Games : c = run[i].current
  BY <1>1, RunTypes DEF AtGame
<1>3. run[i] \in Runs /\ Active(i) /\ \A j \in Invocations : Active(j) => j = i
  BY <1>1, RunTypes DEF AtGame
<1>4. PICK b \in Accounts : b = r.accountId
  BY RequestsAssumption DEF Results
<1>5. /\ run'[i].stage = "credit" /\ run'[i].current = c
      /\ run'[i].updates = [run[i].updates EXCEPT ![r] = @ - 1]
      /\ \A j \in Invocations \ {i} : run'[j] = run[j]
      /\ statUpdates' = [statUpdates EXCEPT ![c][b] = @ + 1]
  BY <1>2, <1>3, <1>4 DEF CreditFits, CreditPlayer, IInv, TypeOK, CronTypes, Runs
<1>6. Stops' = Stops /\ Stops <= Stops'
  <2>1. Stops' = Stops
    BY <1>1 DEF Stops
  <2>. QED  BY <2>1, StopsTypes
<1>7. \A g \in Games : Settled(g) => Settled(g)'
  <2> SUFFICES ASSUME NEW g \in Games, Settled(g) PROVE Settled(g)'
    OBVIOUS
  <2>1. CASE Closed(g)
    BY <1>1, <2>1 DEF Settled, Closed
  <2>2. ASSUME NEW j \in Invocations, Settling(j), run[j].current = g
        PROVE  Settled(g)'
    <3>1. j = i /\ g = c
      BY <1>2, <1>3, <2>2 DEF Settling, Active
    <3>. QED  BY <1>5, <3>1 DEF Settled, Settling
  <2>. QED  BY <2>1, <2>2 DEF Settled
<1>8. PICK updates, less : updates = run[i].updates /\ less = run'[i].updates
  OBVIOUS
<1>9. /\ updates \in Report /\ less \in Report
      /\ less[r] = updates[r] - 1 /\ \A q \in Results \ {r} : less[q] = updates[q]
  BY <1>1, <1>3, <1>5, <1>8 DEF Runs, Report
<1>10. \A a \in Accounts : /\ Amount(updates, a) \in Nat /\ Amount(less, a) \in Nat
                           /\ Amount(less, a)
                                = Amount(updates, a) - IF b = a THEN 1 ELSE 0
  BY <1>4, <1>9, ReportAmount, AmountTaken
<1>11. \A g \in Games, a \in Accounts :
         Spent(g, a)' = Spent(g, a) + IF g = c /\ a = b THEN 1 ELSE 0
  <2> SUFFICES ASSUME NEW g \in Games, NEW a \in Accounts
               PROVE  Spent(g, a)' = Spent(g, a) + IF g = c /\ a = b THEN 1 ELSE 0
    OBVIOUS
  <2>1. statUpdates'[g][a] = statUpdates[g][a] + IF g = c /\ a = b THEN 1 ELSE 0
    BY <1>5 DEF IInv, TypeOK, LedgerTypes
  <2>2. Amount(orphaned'[g], a) = Amount(orphaned[g], a)
    BY <1>1
  <2>. QED  BY <2>1, <2>2, SpentTypes
<1>12. \A a \in Accounts : RunBound(i, c, a)
  BY <1>1, <1>2 DEF SpentInv, RunBound, At
<1>13. ASSUME NEW a \in Accounts PROVE RunBound(i, c, a)'
  <2>1. Spent(c, a) + Amount(updates, a) <= Entries(c, a) * (Stops + 1)
    BY <1>8, <1>12 DEF RunBound
  <2>2. Spent(c, a)' + Amount(less, a) = Spent(c, a) + Amount(updates, a)
    BY <1>10, <1>11, SpentTypes
  <2>3. RunBound(i, c, a)'
          <=> Spent(c, a)' + Amount(run'[i].updates, a) <= Entries(c, a) * (Stops' + 1)
    BY DEF RunBound, Entries, Naming
  <2>. QED  BY <1>6, <1>8, <2>1, <2>2, <2>3
<1>14. ASSUME NEW g \in Games, NEW a \in Accounts PROVE SpentBound(g, a)'
  <2>1. CASE ~(g = c /\ a = b)
    <3>1. Spent(g, a)' <= Spent(g, a)
      BY <1>11, <2>1, SpentTypes
    <3>. QED  BY <1>1, <1>6, <1>7, <3>1, SpentElsewhere
  <2>2. CASE g = c /\ a = b
    <3>1. PICK n : n = Entries(g, a)
      OBVIOUS
    <3>2. n \in Nat /\ n * (Stops + 1) \in Nat
      <4>1. n \in Nat /\ Stops + 1 \in Nat /\ Stops + 1 <= Stops + 1
        BY <3>1, SpentTypes
      <4>. QED  BY <4>1, Product
    <3>3. Spent(g, a) + Amount(updates, a) <= n * (Stops + 1)
      BY <1>8, <1>12, <2>2, <3>1 DEF RunBound
    <3>4. Spent(g, a)' <= n * (Stops + 1)
      BY <1>10, <1>11, <2>2, <3>2, <3>3, SpentTypes
    <3>5. Settled(g)'
      BY <1>5, <2>2 DEF Settled, Settling
    <3>. QED  BY <1>6, <3>1, <3>4, <3>5 DEF SpentBound, Entries, Naming
  <2>. QED  BY <2>1, <2>2
<1>15. ASSUME NEW j \in Invocations, NEW g \in Games, At(j, g, {"credit"})'
       PROVE  j = i /\ g = c
  BY <1>3, <1>5, <1>15 DEF At, Active
<1>. QED  BY <1>13, <1>14, <1>15

\* The updates a stopped run leaves in flight are those it had issued.
LEMMA StopLeavesSpent ==
  ASSUME WidthTypeOK, IInv, WidthTypeOK', SpentInv, overflows <= overflows',
         overflows' < MaxOverflows => Stops + 1 <= Stops',
         NEW i \in Invocations, NEW r \in Results,
         run[i].stage = "credit", Pending(i, r), Abort(i), UNCHANGED statUpdates,
         orphaned' = [orphaned EXCEPT ![run[i].current] =
           [q \in Results |-> @[q] + run[i].updates[q] - IF q = r THEN 1 ELSE 0]]
  PROVE  SpentInv'
<1> SUFFICES ASSUME overflows' < MaxOverflows
             PROVE  /\ \A g \in Games, a \in Accounts : SpentBound(g, a)'
                    /\ \A j \in Invocations, g \in Games, a \in Accounts :
                         At(j, g, {"credit"})' => RunBound(j, g, a)'
  BY DEF SpentInv, SpentBound, RunBound
<1>1. overflows < MaxOverflows /\ Stops + 1 <= Stops' /\ Stops <= Stops'
  <2>1. overflows \in Int /\ overflows' \in Int /\ MaxOverflows \in Int
    BY WidthAssumption DEF WidthTypeOK, MaxOverflows
  <2>. QED  BY <2>1, StopsTypes
<1>2. PICK c \in Games : c = run[i].current
  BY RunTypes DEF AtGame
<1>3. run[i] \in Runs /\ Active(i) /\ \A j \in Invocations : Active(j) => j = i
  BY RunTypes DEF AtGame
<1>4. \A j \in Invocations : run'[j].stage # "credit"
  BY <1>3 DEF Abort, Idle, Active, IInv, TypeOK, CronTypes
<1>5. PICK before, updates, after :
        /\ before = orphaned[c] /\ updates = run[i].updates /\ after = orphaned'[c]
  OBVIOUS
<1>6. /\ before \in Report /\ updates \in Report /\ updates[r] > 0
      /\ after = [q \in Results |-> before[q] + updates[q] - IF q = r THEN 1 ELSE 0]
      /\ \A g \in Games \ {c} : orphaned'[g] = orphaned[g]
  BY <1>2, <1>3, <1>5 DEF Pending, IInv, TypeOK, LedgerTypes, Runs
<1>7. \A a \in Accounts : Amount(after, a) <= Amount(before, a) + Amount(updates, a)
                          /\ Amount(updates, a) \in Nat
  BY <1>6, AmountMoved, ReportAmount
<1>8. ASSUME NEW g \in Games, NEW a \in Accounts, g # c PROVE SpentBound(g, a)'
  <2>1. Spent(g, a)' <= Spent(g, a)
    BY <1>6, <1>8, SpentTypes
  <2>. QED  BY <1>1, <2>1, SpentElsewhere
<1>9. ASSUME NEW a \in Accounts PROVE SpentBound(c, a)'
  <2>1. PICK n, k : n = Entries(c, a) /\ k = (Stops + IF Settled(c) THEN 1 ELSE 0)'
    OBVIOUS
  <2>2. /\ n \in Nat /\ k \in Nat /\ Stops + 1 \in Nat /\ Stops + 1 <= k
    BY <1>1, <2>1, SpentTypes
  <2>3. RunBound(i, c, a)
    BY <1>1, <1>2 DEF SpentInv, RunBound, At
  <2>4. Spent(c, a) + Amount(updates, a) <= n * (Stops + 1)
    BY <1>5, <2>1, <2>3 DEF RunBound
  <2>5. /\ Spent(c, a) = statUpdates[c][a] + Amount(before, a)
        /\ Spent(c, a)' = statUpdates[c][a] + Amount(after, a)
        /\ statUpdates[c][a] \in Nat /\ Amount(before, a) \in Nat
        /\ Amount(after, a) \in Nat
    BY <1>5, SpentTypes
  <2>6. Spent(c, a)' <= Spent(c, a) + Amount(updates, a)
    BY <1>7, <2>5
  <2>7. n * (Stops + 1) <= n * k /\ n * (Stops + 1) \in Nat /\ n * k \in Nat
    BY <2>2, Product
  <2>8. Spent(c, a)' <= n * k
    BY <1>7, <2>4, <2>5, <2>6, <2>7
  <2>. QED  BY <2>1, <2>8 DEF SpentBound, Entries, Naming
<1>. QED  BY <1>4, <1>8, <1>9 DEF At

\* A step that leaves the games and their updates as they are.
LEMMA NothingTouched ==
  ASSUME WidthTypeOK, IInv, WidthTypeOK', SpentInv,
         UNCHANGED <<outcome, statUpdates, orphaned, overflows>>,
         faults' = faults \/ faults' = faults + 1,
         \A j \in Invocations : run'[j].stage = "credit" => run'[j] = run[j],
         faults' = faults => \A g \in Games : Settled(g) => Settled(g)'
  PROVE  SpentInv'
<1>1. \A g \in Games, a \in Accounts : Spent(g, a)' <= Spent(g, a)
  <2> SUFFICES ASSUME NEW g \in Games, NEW a \in Accounts
               PROVE  Spent(g, a)' <= Spent(g, a)
    OBVIOUS
  <2>1. Spent(g, a)' = Spent(g, a)
    BY DEF Spent
  <2>. QED  BY <2>1, SpentTypes
<1>2. overflows <= overflows' /\ overflows \in Int /\ faults \in Int
  BY WidthAssumption, FaultsAssumption DEF WidthTypeOK, TypeOK, MaxOverflows
<1>3. Stops' = Stops + faults' - faults
  BY <1>2 DEF Stops
<1>4. CASE faults' = faults
  <2>1. Stops <= Stops'
    BY <1>2, <1>3, <1>4, StopsTypes
  <2>. QED  BY <1>1, <1>2, <1>4, <2>1, NothingSpent
<1>5. CASE faults' = faults + 1
  <2>1. Stops <= Stops' /\ Stops + 1 <= Stops'
    BY <1>2, <1>3, <1>5, StopsTypes
  <2>. QED  BY <1>1, <1>2, <2>1, NothingSpent
<1>. QED  BY <1>4, <1>5

\* A step of one run that issues no update, and takes the game it settles no
\* further than to its closing.
LEMMA RunSpendsNothing ==
  ASSUME WidthTypeOK, IInv, WidthTypeOK', SpentInv,
         UNCHANGED <<statUpdates, orphaned, overflows, faults>>,
         NEW i \in Invocations, run'[i].stage # "credit",
         \A j \in Invocations \ {i} : run'[j] = run[j],
         \A g \in Games : Closed(g) => Closed(g)',
         \A g \in Games : Settling(i) /\ run[i].current = g =>
           Closed(g)' \/ (Settling(i)' /\ run'[i].current = g)
  PROVE  SpentInv'
<1>1. \A g \in Games, a \in Accounts : Spent(g, a)' <= Spent(g, a)
  <2> SUFFICES ASSUME NEW g \in Games, NEW a \in Accounts
               PROVE  Spent(g, a)' <= Spent(g, a)
    OBVIOUS
  <2>1. Spent(g, a)' = Spent(g, a)
    BY DEF Spent
  <2>. QED  BY <2>1, SpentTypes
<1>2. Stops <= Stops' /\ overflows <= overflows'
  <2>1. Stops' = Stops /\ overflows \in Int
    BY WidthAssumption DEF Stops, WidthTypeOK, MaxOverflows
  <2>. QED  BY <2>1, StopsTypes
<1>3. ASSUME NEW g \in Games, Settled(g) PROVE Settled(g)'
  <2>1. CASE Closed(g)
    BY <2>1 DEF Settled
  <2>2. ASSUME NEW j \in Invocations, Settling(j), run[j].current = g
        PROVE  Settled(g)'
    <3>1. CASE j = i
      BY <2>2, <3>1 DEF Settled
    <3>2. CASE j # i
      BY <2>2, <3>2 DEF Settled, Settling
    <3>. QED  BY <3>1, <3>2
  <2>. QED  BY <1>3, <2>1, <2>2 DEF Settled
<1>. QED  BY <1>1, <1>2, <1>3, NothingSpent

\* The other steps of a run.
LEMMA RunsKeepSpent ==
  ASSUME WidthTypeOK, IInv, WidthTypeOK', SpentInv,
         NEW i \in Invocations, UNCHANGED overflows,
         \/ FetchParties(i) \/ FilterProcessed(i) \/ \E g \in Games : NextGame(i, g)
         \/ \E a \in Accounts : ReadReport(i, a)
         \/ SkipGame(i) \/ DecideCancel(i) \/ WriteGameOverLogs(i)
         \/ ResolveSettled(i) \/ ResolveCanceled(i) \/ SendRewardTx(i) \/ EndRun(i)
  PROVE  SpentInv'
<1>0. run[i] \in Runs /\ run \in [Invocations -> Runs] /\ TypeOK
  BY DEF IInv, TypeOK, CronTypes
<1>1. CASE FetchParties(i)
  <2>1. /\ run[i].stage = "idle" /\ run'[i].stage = "filter"
        /\ \A j \in Invocations \ {i} : run'[j] = run[j]
        /\ UNCHANGED <<outcome, statUpdates, orphaned, faults>>
    BY <1>0, <1>1 DEF FetchParties, MayStart, Idle, partyVars, ledgerVars
  <2>. QED  BY <2>1, RunSpendsNothing DEF Settling, Closed
<1>2. ASSUME run[i].stage \in {"filter", "next", "read", "decide", "reward"},
             run'[i].stage # "credit",
             \A j \in Invocations \ {i} : run'[j] = run[j],
             UNCHANGED <<outcome, statUpdates, orphaned, faults>>
      PROVE  SpentInv'
  BY <1>2, RunSpendsNothing DEF Settling, Closed
<1>3. CASE FilterProcessed(i)
  BY <1>0, <1>2, <1>3 DEF FilterProcessed, Runs, partyVars, ledgerVars
<1>4. ASSUME NEW g \in Games, NextGame(i, g) PROVE SpentInv'
  BY <1>0, <1>2, <1>4 DEF NextGame, Runs, partyVars, ledgerVars
<1>5. ASSUME NEW a \in Accounts, ReadReport(i, a) PROVE SpentInv'
  BY <1>0, <1>2, <1>5 DEF ReadReport, Runs, partyVars, ledgerVars
<1>6. CASE SkipGame(i)
  BY <1>0, <1>2, <1>6 DEF SkipGame, Continue, Idle, partyVars, ledgerVars
<1>7. CASE DecideCancel(i)
  BY <1>0, <1>2, <1>7 DEF DecideCancel, Runs, partyVars, ledgerVars
<1>8. CASE SendRewardTx(i)
  BY <1>0, <1>2, <1>8 DEF SendRewardTx, Continue, Idle, partyVars
<1>9. CASE EndRun(i)
  BY <1>0, <1>2, <1>9 DEF EndRun, Idle, partyVars, ledgerVars
<1>10. CASE WriteGameOverLogs(i)
  <2>1. /\ run'[i].stage = "resolve" /\ run'[i].current = run[i].current
        /\ \A j \in Invocations \ {i} : run'[j] = run[j]
        /\ UNCHANGED <<outcome, statUpdates, orphaned, faults>>
    BY <1>0, <1>10 DEF WriteGameOverLogs, Runs, partyVars
  <2>. QED  BY <2>1, RunSpendsNothing DEF Settling, Closed
<1>11. CASE ResolveSettled(i) \/ ResolveCanceled(i)
  <2>1. PICK verdict \in {"settled", "canceled"} :
          /\ ResolveGameProcessing(run[i].current, verdict)
          /\ run[i].stage \in {"resolve", "cancel"} /\ run'[i].stage # "credit"
          /\ \A j \in Invocations \ {i} : run'[j] = run[j]
          /\ UNCHANGED <<statUpdates, orphaned, faults>>
    BY <1>0, <1>11
    DEF ResolveSettled, ResolveCanceled, Continue, Idle, Runs, ledgerVars
  <2>2. PICK c \in Games : c = run[i].current
    BY <2>1, RunTypes DEF AtGame
  <2>3. Closed(c)' /\ \A g \in Games : Closed(g) => Closed(g)'
    BY <1>0, <2>1, <2>2 DEF ResolveGameProcessing, Closed, TypeOK, PartyTypes
  <2>. QED  BY <2>1, <2>2, <2>3, RunSpendsNothing
<1>. QED
  BY <1>1, <1>3, <1>4, <1>5, <1>6, <1>7, <1>8, <1>9, <1>10, <1>11

\* The updates in flight, whether they fit or not.
LEMMA FlightKeepsSpent ==
  ASSUME WidthTypeOK, IInv, WidthTypeOK', SpentInv,
         NEW c \in Games, NEW r \in Results,
         OrphanedCreditFits(c, r) \/ OrphanOverflows(c, r)
  PROVE  SpentInv'
<1>1. PICK b \in Accounts : b = r.accountId
  BY RequestsAssumption DEF Results
<1>2. /\ orphaned[c][r] > 0 /\ orphaned' = [orphaned EXCEPT ![c][r] = @ - 1]
      /\ UNCHANGED <<run, outcome, faults, overflows>>
      /\ \/ statUpdates' = [statUpdates EXCEPT ![c][b] = @ + 1]
         \/ UNCHANGED statUpdates
  BY <1>1 DEF OrphanedCreditFits, OrphanedCredit, OrphanOverflows, partyVars, cronVars,
     overflowVars
<1>3. PICK before, after : before = orphaned[c] /\ after = orphaned'[c]
  OBVIOUS
<1>4. /\ before \in Report /\ after \in Report
      /\ after[r] = before[r] - 1 /\ \A q \in Results \ {r} : after[q] = before[q]
      /\ \A g \in Games \ {c} : orphaned'[g] = orphaned[g]
  BY <1>2, <1>3 DEF WidthTypeOK, TypeOK, LedgerTypes, Report
<1>5. ASSUME NEW g \in Games, NEW a \in Accounts PROVE Spent(g, a)' <= Spent(g, a)
  <2>1. statUpdates'[g][a] <= statUpdates[g][a] + IF g = c /\ a = b THEN 1 ELSE 0
    BY <1>2, SpentTypes DEF IInv, TypeOK, LedgerTypes
  <2>2. Amount(after, a) = Amount(before, a) - IF b = a THEN 1 ELSE 0
    BY <1>1, <1>4, AmountTaken
  <2>3. Amount(orphaned'[g], a)
          = Amount(orphaned[g], a) - IF g = c /\ a = b THEN 1 ELSE 0
    <3>1. CASE g = c
      BY <1>3, <2>2, <3>1
    <3>2. CASE g # c
      BY <1>4, <3>2, SpentTypes
    <3>. QED  BY <3>1, <3>2
  <2>. QED  BY <2>1, <2>3, SpentTypes
<1>6. Stops <= Stops' /\ overflows <= overflows'
  <2>1. Stops' = Stops /\ overflows \in Int
    BY <1>2, WidthAssumption DEF Stops, WidthTypeOK, MaxOverflows
  <2>. QED  BY <1>2, <2>1, StopsTypes
<1>7. \A g \in Games : Settled(g) => Settled(g)'
  BY <1>2 DEF Settled, Settling, Closed
<1>. QED  BY <1>2, <1>5, <1>6, <1>7, NothingSpent

\* Failures: a fault of its own is what each of them adds to the stops.
LEMMA FailuresKeepSpent ==
  ASSUME WidthTypeOK, IInv, WidthTypeOK', SpentInv, Failure, UNCHANGED overflows
  PROVE  SpentInv'
<1>0. TypeOK
  BY DEF IInv
<1>1. ASSUME NEW i \in Invocations, StatementFails(i) \/ RewardFails(i)
      PROVE  SpentInv'
  <2>1. /\ Abort(i) /\ faults' = faults + 1
        /\ UNCHANGED <<outcome, statUpdates, orphaned>>
    BY <1>1 DEF StatementFails, RewardFails, Fault, partyVars, ledgerVars
  <2>2. \A j \in Invocations : run'[j].stage = "credit" => run'[j] = run[j]
    BY <1>0, <2>1 DEF Abort, Idle, TypeOK, CronTypes
  <2>3. faults' # faults
    BY <2>1, FaultsAssumption DEF WidthTypeOK, TypeOK
  <2>. QED  BY <2>1, <2>2, <2>3, NothingTouched
<1>2. ASSUME NEW i \in Invocations, NEW r \in Results, CreditFails(i, r)
      PROVE  SpentInv'
  <2>1. Stops + 1 <= Stops'
    <3>1. faults' = faults + 1 /\ faults \in Int /\ overflows \in Int
      BY <1>2, WidthAssumption, FaultsAssumption
      DEF CreditFails, Fault, WidthTypeOK, TypeOK, MaxOverflows
    <3>2. Stops' = Stops + 1
      BY <3>1 DEF Stops
    <3>. QED  BY <3>2, StopsTypes
  <2>2. overflows <= overflows'
    BY WidthAssumption DEF WidthTypeOK, MaxOverflows
  <2>. QED  BY <1>2, <2>1, <2>2, StopLeavesSpent DEF CreditFails
<1>3. ASSUME NEW e \in EndRequests,
             FinishFails(e) \/ \E row \in unsaved[e] : SaveLogFails(e, row)
      PROVE  SpentInv'
  <2>1. /\ faults' = faults + 1
        /\ UNCHANGED <<run, outcome, statUpdates, orphaned>>
    BY <1>3 DEF FinishFails, SaveLogFails, Fault, partyVars, cronVars, ledgerVars
  <2>2. faults' # faults
    BY <2>1, FaultsAssumption DEF WidthTypeOK, TypeOK
  <2>. QED  BY <2>1, <2>2, NothingTouched
<1>4. CASE Crash
  <2>1. /\ faults' = faults + 1 /\ UNCHANGED <<outcome, statUpdates>>
        /\ \A j \in Invocations : run'[j].stage # "credit"
        /\ \A g \in Games : orphaned'[g] = EmptyReport
    BY <1>4 DEF Crash, Fault, Idle, partyVars
  <2>2. ASSUME NEW g \in Games, NEW a \in Accounts PROVE Spent(g, a)' <= Spent(g, a)
    BY <2>1, EmptyAmount, SpentTypes
  <2>3. Stops + 1 <= Stops' /\ Stops <= Stops' /\ overflows <= overflows'
    <3>1. faults \in Int /\ overflows \in Int
      BY WidthAssumption, FaultsAssumption DEF WidthTypeOK, TypeOK, MaxOverflows
    <3>2. Stops' = Stops + 1
      BY <2>1, <3>1 DEF Stops
    <3>. QED  BY <3>1, <3>2, StopsTypes
  <2>. QED  BY <2>1, <2>2, <2>3, NothingSpent
<1>. QED  BY <1>1, <1>2, <1>3, <1>4 DEF Failure

LEMMA SpentStep ==
  ASSUME WidthTypeOK, IInv, WidthTypeOK', RowsInv, FetchedInv, SpentInv,
         [WidthNext]_widthVars
  PROVE  SpentInv'
<1>1. CASE UNCHANGED widthVars
  BY <1>1, NothingTouched
  DEF widthVars, vars, overflowVars, partyVars, cronVars, ledgerVars, Settled, Settling,
      Closed
<1>2. CASE Client /\ UNCHANGED overflowVars
  <2>1. UNCHANGED <<run, outcome, statUpdates, orphaned, faults, overflows>>
    BY <1>2 DEF Client, TimePasses, StartGame, EndGame, SaveLog, FinishParty,
       partyVars, cronVars, ledgerVars, overflowVars
  <2>. QED  BY <2>1, NothingTouched DEF Settled, Settling, Closed
<1>3. ASSUME NEW i \in Invocations, FetchParties(i), UNCHANGED overflowVars
      PROVE  SpentInv'
  BY <1>3, RunsKeepSpent DEF overflowVars
<1>4. ASSUME NEW i \in Invocations, WidthWork(i) PROVE SpentInv'
  <2>1. CASE DecideSettle(i) /\ UNCHANGED overflowVars
    BY <2>1, SettleSpends
  <2>2. ASSUME NEW r \in Results, CreditFits(i, r) PROVE SpentInv'
    BY <2>2, CreditSpends
  <2>3. ASSUME NEW r \in Results, CreditOverflows(i, r) PROVE SpentInv'
    <3>1. /\ run[i].stage = "credit" /\ Pending(i, r) /\ Abort(i)
          /\ UNCHANGED <<statUpdates, faults>>
          /\ overflows' = IF overflows < MaxOverflows THEN overflows + 1 ELSE overflows
      BY <2>3 DEF CreditOverflows, EndByOverflow
    <3>2. overflows \in Int /\ faults \in Int /\ MaxOverflows \in Int
      BY WidthAssumption, FaultsAssumption DEF WidthTypeOK, TypeOK, MaxOverflows
    <3>3. /\ overflows <= overflows'
          /\ overflows' < MaxOverflows => overflows' = overflows + 1
      BY <3>1, <3>2
    <3>4. Stops' = Stops + overflows' - overflows
      BY <3>1, <3>2, <3>3 DEF Stops
    <3>5. overflows' < MaxOverflows => Stops + 1 <= Stops'
      BY <3>2, <3>3, <3>4, StopsTypes
    <3>. QED  BY <2>3, <3>1, <3>3, <3>5, StopLeavesSpent DEF CreditOverflows
  <2>4. CASE /\ \/ FilterProcessed(i) \/ \E g \in Games : NextGame(i, g)
                \/ \E a \in Accounts : ReadReport(i, a)
                \/ SkipGame(i) \/ DecideCancel(i) \/ WriteGameOverLogs(i)
                \/ ResolveSettled(i) \/ ResolveCanceled(i) \/ SendRewardTx(i)
                \/ EndRun(i)
             /\ UNCHANGED overflowVars
    BY <2>4, RunsKeepSpent DEF overflowVars
  <2>. QED  BY <1>4, <2>1, <2>2, <2>3, <2>4 DEF WidthWork
<1>5. ASSUME NEW g \in Games, NEW r \in Results,
             OrphanedCreditFits(g, r) \/ OrphanOverflows(g, r)
      PROVE  SpentInv'
  BY <1>5, FlightKeepsSpent
<1>6. CASE Failure /\ UNCHANGED overflowVars
  BY <1>6, FailuresKeepSpent DEF overflowVars
<1>7. CASE ResetPointsForAll
  <2>1. UNCHANGED <<run, outcome, statUpdates, orphaned, faults, overflows>>
    BY <1>7 DEF ResetPointsForAll, vars, partyVars, cronVars, ledgerVars
  <2>. QED  BY <2>1, NothingTouched DEF Settled, Settling, Closed
<1>. QED  BY <1>1, <1>2, <1>3, <1>4, <1>5, <1>6, <1>7 DEF WidthNext

LEMMA SpentInitially == WidthInit => RowsInv /\ FetchedInv /\ SpentInv
<1> SUFFICES ASSUME WidthInit PROVE RowsInv /\ FetchedInv /\ SpentInv
  OBVIOUS
<1>1. Init /\ faults = 0 /\ overflows = 0
  BY DEF WidthInit, Init
<1>2. RowsInv /\ FetchedInv
  BY <1>1 DEF Init, RowsInv, RowsAreOf, FetchedInv, Idle
<1>3. ASSUME NEW g \in Games, NEW a \in Accounts PROVE Spent(g, a) = 0
  <2>1. statUpdates[g][a] = 0 /\ orphaned[g] = EmptyReport
    BY <1>1 DEF Init
  <2>. QED  BY <2>1, EmptyAmount DEF Spent
<1>4. \A g \in Games : ~Settled(g)
  BY <1>1 DEF Init, Settled, Settling, Closed, Idle
<1>5. \A g \in Games, a \in Accounts : Entries(g, a) \in Nat
  BY EntriesFinite
<1>6. \A i \in Invocations : run[i].stage # "credit"
  BY <1>1 DEF Init, Idle
<1>. QED  BY <1>1, <1>2, <1>3, <1>4, <1>5, <1>6 DEF SpentInv, Stops, At

LEMMA WidthInvariant == WidthSpec => []WidthInv
<1>1. WidthInit => WidthInv
  BY WidthInitTypes, SpentInitially DEF WidthInv
<1>2. WidthInv /\ [WidthNext]_widthVars => WidthInv'
  <2> SUFFICES ASSUME WidthInv, [WidthNext]_widthVars PROVE WidthInv'
    OBVIOUS
  <2>1. WidthTypeOK /\ IInv /\ RowsInv /\ FetchedInv /\ SpentInv /\ TypeOK
    BY DEF WidthInv, WidthTypeOK
  <2>2. WidthTypeOK' /\ IInv'
    BY <2>1, WidthStepTypes, WidthStepIInv
  <2>3. RowsInv' /\ FetchedInv'
    BY <2>1, RowsStep, FetchedStep
  <2>4. SpentInv'
    BY <2>1, <2>2, SpentStep
  <2>. QED  BY <2>2, <2>3, <2>4 DEF WidthInv
<1>. QED  BY <1>1, <1>2, PTL DEF WidthSpec

(* However often a stuck game is retried, it credits an account at most once *)
(* more than runs were stopped, for each request that names it.              *)
THEOREM StopsBoundCredits == WidthSpec => []CreditsPerStoppedRun
<1>1. WidthInv => CreditsPerStoppedRun
  <2> SUFFICES ASSUME WidthInv, overflows < MaxOverflows,
                      NEW g \in Games, NEW r \in Results,
                      NEW a \in Accounts, a = r.accountId
               PROVE  statUpdates[g][a] <= Entries(g, a) * (1 + faults + overflows)
    <3>1. \A r \in Results : r.accountId \in Accounts
      BY RequestsAssumption DEF Results
    <3>. QED  BY <3>1 DEF CreditsPerStoppedRun, Entries, Naming
  <2>1. /\ orphaned[g] \in Report /\ statUpdates[g][a] \in Nat
        /\ faults \in Nat /\ overflows \in Nat
    BY WidthAssumption, FaultsAssumption
    DEF WidthInv, WidthTypeOK, TypeOK, LedgerTypes, MaxOverflows
  <2>2. PICK n, k, t : /\ n = Entries(g, a)
                       /\ k = Stops + IF Settled(g) THEN 1 ELSE 0
                       /\ t = Amount(orphaned[g], a)
    OBVIOUS
  <2>3. n \in Nat /\ k \in Nat /\ k <= 1 + faults + overflows /\ t \in Nat
    BY <2>1, <2>2, EntriesFinite, ReportAmount DEF Stops
  <2>4. statUpdates[g][a] + t <= n * k
    BY <2>2 DEF WidthInv, SpentInv, Spent
  <2>5. n * k <= n * (1 + faults + overflows) /\ n * k \in Nat
        /\ n * (1 + faults + overflows) \in Nat
    <3>1. 1 + faults + overflows \in Nat
      BY <2>1
    <3>. QED  BY <2>3, <3>1, Product
  <2>. QED  BY <2>1, <2>2, <2>3, <2>4, <2>5
<1>. QED  BY <1>1, WidthInvariant, PTL

-----------------------------------------------------------------------------
(* What Settlement promises is still promised when updates are rejected *)

\* A rejected update ends the run that waits for it, and nothing else: it is in
\* no table but gamers, where it is missing.
LEMMA RejectionQuiet ==
  ASSUME IInv, RunOverflows \/ UpdateLost
  PROVE  /\ UNCHANGED <<now, partyVars, reportVars, statUpdates, gameOverLogs,
                        rewardTxs, faults>>
         /\ \A j \in Invocations :
              run'[j] = run[j] \/ (run[j].stage = "credit" /\ run'[j] = Idle)
<1>1. run \in [Invocations -> Runs]
  BY DEF IInv, TypeOK, CronTypes
<1>2. ASSUME NEW i \in Invocations, NEW r \in Results, CreditOverflows(i, r)
      PROVE  \A j \in Invocations :
               run'[j] = run[j] \/ (run[j].stage = "credit" /\ run'[j] = Idle)
  BY <1>1, <1>2 DEF CreditOverflows, EndByOverflow, Abort
<1>3. CASE RunOverflows
  BY <1>2, <1>3 DEF RunOverflows, CreditOverflows
<1>4. CASE UpdateLost
  BY <1>4 DEF UpdateLost, OrphanOverflows, cronVars
<1>. QED  BY <1>3, <1>4

LEMMA RejectionKeepsLedger ==
  ASSUME IInv, IInv', LedgerInv, RunOverflows \/ UpdateLost
  PROVE  LedgerInv'
<1>1. TypeOK' /\ faults' \in {faults, faults + 1}
  BY RejectionQuiet DEF IInv
<1>2. \A g \in Games, a \in Accounts : statUpdates[g][a] <= statUpdates'[g][a]
  <2>1. \A g \in Games, a \in Accounts : statUpdates[g][a] \in Nat
    BY DEF IInv, TypeOK, LedgerTypes
  <2>. QED  BY <2>1, RejectionQuiet
<1>3. UNCHANGED <<gameOverLogs, outcome>>
  BY RejectionQuiet DEF partyVars
<1>4. \A j \in Invocations :
        /\ run'[j].stage = "credit" => run'[j] = run[j]
        /\ run[j].stage = "resolve" => run'[j] = run[j]
  BY RejectionQuiet DEF Idle
<1>. QED  BY <1>1, <1>2, <1>3, <1>4, NoNewLogs DEF Closed

LEMMA RejectionKeepsReports ==
  ASSUME IInv, ReportsInv, RunOverflows \/ UpdateLost
  PROVE  ReportsInv'
<1>1. UNCHANGED <<now, parties, createdAt, individualLogs, outcome>>
  BY RejectionQuiet DEF partyVars, reportVars
<1>2. \A i \in Invocations : InOrder(i)
  BY RejectionQuiet, RunsKept DEF Idle
<1>3. \A g \in Games : Closed(g)' => Due(g)
  BY <1>1 DEF Closed, ReportsInv, DecidedWhenDue
<1>. QED  BY <1>1, <1>2, <1>3, SameTables, ReportsStay

LEMMA PipelineInvariant == WidthSpec => [](IInv /\ LedgerInv /\ ReportsInv)
<1>1. WidthInit => IInv /\ LedgerInv /\ ReportsInv
  BY WidthInitTypes, InitLedgerInv, InitReportsInv DEF WidthInit
<1>2. IInv /\ LedgerInv /\ ReportsInv /\ [WidthNext]_widthVars
        => (IInv /\ LedgerInv /\ ReportsInv)'
  <2> SUFFICES ASSUME IInv, LedgerInv, ReportsInv, [WidthNext]_widthVars
               PROVE  IInv' /\ LedgerInv' /\ ReportsInv'
    OBVIOUS
  <2>1. IInv'
    BY WidthStepIInv
  <2>2. CASE [Next]_vars
    BY <2>1, <2>2, NextLedgerInv, NextReportsInv
  <2>3. CASE RunOverflows \/ UpdateLost
    BY <2>1, <2>3, RejectionKeepsLedger, RejectionKeepsReports
  <2>. QED  BY <2>2, <2>3, StepKinds
<1>. QED  BY <1>1, <1>2, PTL DEF WidthSpec

(* A game whose queue is held up by a result that does not fit is still      *)
(* closed at most once, logged before and paid after: Overflow implements    *)
(* SettlementContract as Settlement does.                                    *)
THEOREM ContractSurvivesOverflows == WidthSpec => ImplementsContract
<1>1. WidthInit => Contract!ContractInit
  BY ContractInitially DEF WidthInit
<1>2. IInv /\ [WidthNext]_widthVars => [Contract!ContractNext]_(Contract!contractVars)
  <2> SUFFICES ASSUME IInv, [WidthNext]_widthVars
               PROVE  [Contract!ContractNext]_(Contract!contractVars)
    OBVIOUS
  <2>1. CASE [Next]_vars
    BY <2>1, ContractStep
  <2>2. CASE RunOverflows \/ UpdateLost
    BY <2>2, RejectionQuiet DEF Contract!contractVars, partyVars
  <2>. QED  BY <2>1, <2>2, StepKinds
<1>. QED
  BY <1>1, <1>2, PipelineInvariant, PTL
  DEF WidthSpec, ImplementsContract, Contract!ContractSpec

(* An update that is rejected, and retried, is never logged as if it had     *)
(* been executed.                                                            *)
THEOREM RejectedNotLogged == WidthSpec => []LogsNeverOutrunCredits
<1>1. LedgerInv => LogsNeverOutrunCredits
  BY DEF LedgerInv
<1>. QED  BY <1>1, PipelineInvariant, PTL

(* Runs that overflow log nothing: a second log of an account for a game     *)
(* needs a failure of another kind, however often the game was retried.      *)
THEOREM OverflowsLogNothing == WidthSpec => []RepetitionsNeedFaults
<1>1. IInv /\ LedgerInv => RepetitionsNeedFaults
  <2>. SUFFICES ASSUME IInv, LedgerInv, NEW g \in Games, NEW a \in Accounts
                PROVE  gameOverLogs[g][a] <= 1 + faults
    BY DEF RepetitionsNeedFaults
  <2>1. gameOverLogs[g][a] \in Nat /\ faults \in Nat
    BY FaultsAssumption DEF IInv, TypeOK, LedgerTypes
  <2>. QED  BY <2>1 DEF LedgerInv, LogsPerFault
<1>. QED  BY <1>1, PipelineInvariant, PTL

(* Retries after an overflow decide a game on no less than a first run does. *)
THEOREM OverflowsCloseOnReports ==
  WidthSpec => [](ClosedOnReport /\ EarlyCloseNeedsThreeReports)
<1>1. ReportsInv => ClosedOnReport /\ EarlyCloseNeedsThreeReports
  BY DEF ReportsInv, DecidedWhenDue, Due, ClosedOnReport, EarlyCloseNeedsThreeReports
<1>. QED  BY <1>1, PipelineInvariant, PTL

LEMMA RejectionKeepsPlayers ==
  ASSUME IInv, PlayersInv, RunOverflows \/ UpdateLost
  PROVE  PlayersInv'
<1>0. run \in [Invocations -> Runs] /\ orphaned \in [Games -> Report]
  BY DEF IInv, TypeOK, CronTypes, LedgerTypes
<1>1. ASSUME NEW g \in Games, NEW q \in Results, orphaned'[g][q] > 0
      PROVE  Joined(q.accountId)
  <2>1. ASSUME NEW i \in Invocations, NEW r \in Results, CreditOverflows(i, r)
        PROVE  Joined(q.accountId)
    <3>1. orphaned[g][q] \in Nat /\ run[i].updates[q] \in Nat
      BY <1>0 DEF Runs, Report
    <3>2. \/ orphaned'[g][q] = orphaned[g][q]
          \/ orphaned'[g][q] = orphaned[g][q] + run[i].updates[q]
                                 - IF q = r THEN 1 ELSE 0
      BY <1>0, <2>1 DEF CreditOverflows
    <3>3. orphaned[g][q] > 0 \/ run[i].updates[q] > 0
      BY <1>1, <3>1, <3>2
    <3>. QED  BY <3>3, NamesNow DEF Carries
  <2>2. ASSUME NEW h \in Games, NEW r \in Results, OrphanOverflows(h, r)
        PROVE  Joined(q.accountId)
    <3>1. orphaned[g][q] \in Nat
      BY <1>0 DEF Report
    <3>2. orphaned'[g][q] = orphaned[g][q] \/ orphaned'[g][q] = orphaned[g][q] - 1
      BY <1>0, <2>2 DEF OrphanOverflows, Report
    <3>. QED  BY <1>1, <3>1, <3>2, NamesNow
  <2>. QED  BY <2>1, <2>2 DEF RunOverflows, UpdateLost
<1>2. ASSUME NEW j \in Invocations, NEW r \in Results, Carries(j, r)'
      PROVE  Joined(r.accountId)
  BY <1>2, RejectionQuiet, NamesNow DEF Carries, Idle, NoReports, EmptyReport
<1>3. UNCHANGED <<parties, unsaved, individualLogs, statUpdates>>
  BY RejectionQuiet DEF partyVars, reportVars
<1>. QED  BY <1>1, <1>2, <1>3, NamesNow, NamesStay

(* Whatever is retried or rejected, only accounts that joined a game are     *)
(* credited.                                                                 *)
THEOREM OverflowsCreditPlayers == WidthSpec => []OnlyPlayersCredited
<1>1. WidthInit => PlayersInv
  BY InitPlayersInv DEF WidthInit
<1>2. IInv /\ PlayersInv /\ [WidthNext]_widthVars => PlayersInv'
  BY StepKinds, NextPlayersInv, RejectionKeepsPlayers
<1>3. PlayersInv => OnlyPlayersCredited
  BY DEF PlayersInv
<1>. QED  BY <1>1, <1>2, <1>3, PipelineInvariant, PTL DEF WidthSpec

(* A seat taken in a closed game is left alone by the retries of others.     *)
THEOREM RetriesLeaveLateSeats == WidthSpec => LateSeatsStay
<1>. DEFINE Kept == \A g \in Games :
              Closed(g) => resultsProcessed'[g] = resultsProcessed[g]
<1>1. IInv /\ [WidthNext]_widthVars => [Kept]_vars
  <2> SUFFICES ASSUME IInv, [WidthNext]_widthVars PROVE [Kept]_vars
    OBVIOUS
  <2>1. CASE [Next]_vars
    BY <2>1, LateSeatsStep
  <2>2. CASE RunOverflows \/ UpdateLost
    BY <2>2, RejectionQuiet DEF partyVars
  <2>. QED  BY <2>1, <2>2, StepKinds
<1>. QED  BY <1>1, PipelineInvariant, PTL DEF WidthSpec, LateSeatsStay

=============================================================================
