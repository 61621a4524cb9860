------------------------- MODULE SettlementProperties -------------------------
(***************************************************************************)
(* What Settlement is checked for: invariants of the pipeline as it is,    *)
(* its abstract contract, liveness, and, last, statements made by comments *)
(* and annotations of the code that the code does not keep.                *)
(***************************************************************************)
EXTENDS Settlement

Runs == [stage : Stages, snapshot : [Games -> SUBSET Accounts],
         todo : SUBSET Games, current : Games \cup {NoGame},
         unread : SUBSET Accounts, fetched : [Accounts -> Report],
         agreed : Report, updates : Report]

PartyTypes ==
  /\ parties \in [Games -> SUBSET Accounts]
  /\ createdAt \in [Games -> [Accounts -> 0 .. MaxTime]]
  /\ finished \in [Games -> SUBSET Accounts]
  /\ resultsProcessed \in [Games -> SUBSET Accounts]
  /\ outcome \in [Games -> {"open", "settled", "canceled"}]
ReportTypes ==
  /\ phase \in [EndRequests -> {"unsent", "saving", "done", "failed"}]
  /\ unsaved \in [EndRequests -> SUBSET LogRow]
  /\ individualLogs \in SUBSET LogRow
  /\ IsFiniteSet(individualLogs)
CronTypes ==
  /\ isRunning \in BOOLEAN
  /\ run \in [Invocations -> Runs]
LedgerTypes ==
  /\ statUpdates \in [Games -> [Accounts -> Nat]]
  /\ orphaned \in [Games -> Report]
  /\ gameOverLogs \in [Games -> [Accounts -> Nat]]
  /\ rewardTxs \in [Games -> Nat]

\* Every variable stays within the types of its columns and fields.
TypeOK ==
  /\ now \in 0 .. MaxTime
  /\ PartyTypes
  /\ ReportTypes
  /\ CronTypes
  /\ LedgerTypes
  /\ faults \in 0 .. MaxFaults

-----------------------------------------------------------------------------
(* The inductive invariant of the processor *)

Active(i) == run[i].stage # "idle"
AtGame == {"read", "decide", "credit", "resolve", "cancel", "reward"}
Closed(g) == outcome[g] # "open"
ReportersOf(g) ==
  {a \in parties[g] : \E row \in individualLogs :
     row.request.gameId = g /\ row.request.accountId = a}

\* The isRunning flag admits one invocation of runProcessor at a time, and is
\* set exactly while one is at work, however runs end.
OneRunAtATime ==
  /\ \A i, j \in Invocations : Active(i) /\ Active(j) => i = j
  /\ isRunning <=> \E i \in Invocations : Active(i)

\* A game whose rows are marked as processed is exactly a closed one, and has
\* rows; only a settled game was paid, at most once, and it has been logged.
ClosedOnce ==
  \A g \in Games :
    /\ Closed(g) <=> resultsProcessed[g] # {}
    /\ resultsProcessed[g] \subseteq parties[g]
    /\ rewardTxs[g] <= 1
    /\ rewardTxs[g] = 1 => outcome[g] = "settled"
    /\ outcome[g] = "settled" => \E a \in Accounts : gameOverLogs[g][a] > 0

\* What a run has still to do, and the game it is at, are open games of at
\* least two parties, although getFinishedGames was read long before; a game
\* about to be paid is settled and unpaid.
WorkIsCurrent(i) ==
  /\ \A g \in Games : run[i].snapshot[g] \subseteq parties[g]
  /\ \A g \in run[i].todo : ~Closed(g) /\ TwoParties(i, g)
  /\ run[i].stage \in AtGame =>
       /\ run[i].current \in Games \ run[i].todo
       /\ TwoParties(i, run[i].current)
  /\ run[i].stage \in AtGame \ {"reward"} => ~Closed(run[i].current)
  /\ run[i].stage = "credit" => \E r \in Results : run[i].agreed[r] > 0
  /\ run[i].stage = "resolve" =>
       \E a \in Accounts : gameOverLogs[run[i].current][a] > 0
  /\ run[i].stage = "reward" =>
       /\ outcome[run[i].current] = "settled"
       /\ rewardTxs[run[i].current] = 0
RunIsCurrent == \A i \in Invocations : Active(i) => WorkIsCurrent(i)

IInv == TypeOK /\ OneRunAtATime /\ ClosedOnce /\ RunIsCurrent

-----------------------------------------------------------------------------
(* Safety *)

(* The pipeline implements its contract: games close once, are logged before *)
(* they are settled and never after, and are paid at most once, only after   *)
(* settling, with any crash and any failing statement or call in between.    *)
Contract == INSTANCE SettlementContract
              WITH verdict <- outcome, logs <- gameOverLogs, paid <- rewardTxs
ImplementsContract == Contract!ContractSpec

(* Every game-over log of an account stands on an executed update of its     *)
(* stats of its own: createLogsForGame never runs ahead of the credits, and  *)
(* a retry that logs again has credited again.                               *)
LogsNeverOutrunCredits ==
  \A g \in Games, a \in Accounts : gameOverLogs[g][a] <= statUpdates[g][a]

(* A second game-over log for the same game and account needs a failure: the *)
(* processor retries a game only when it was stopped before resolving it.    *)
RepetitionsNeedFaults ==
  \A g \in Games, a \in Accounts : gameOverLogs[g][a] <= 1 + faults

(* Stats are credited only to accounts that have joined a game, through the  *)
(* inserts, the reads and the retries that lie between the validated request *)
(* and the update.                                                           *)
OnlyPlayersCredited ==
  \A g \in Games, a \in Accounts :
    statUpdates[g][a] > 0 => \E h \in Games : a \in parties[h]

(* A game is closed only once it has two parties and the report of one of    *)
(* them; a game nobody reported on is never touched.                         *)
ClosedOnReport ==
  \A g \in Games :
    Closed(g) => Cardinality(parties[g]) >= 2 /\ ReportersOf(g) # {}

(* While every party may still be playing, a game is closed only on the      *)
(* reports of three of its parties (the time-out of processGameResults).     *)
EarlyCloseNeedsThreeReports ==
  \A g \in Games :
    Closed(g) /\ (\A a \in parties[g] : Young(g, a))
      => Cardinality(ReportersOf(g)) >= 3

(* A seat taken in a game that is closed stays as it is: no later run takes  *)
(* the game up again for it, nor does the run that closed the game, so the   *)
(* chip it cost buys nothing.                                                *)
LateSeatsStay ==
  [][\A g \in Games :
       Closed(g) => resultsProcessed'[g] = resultsProcessed[g]]_vars

Settling(i) == run[i].stage \in {"credit", "resolve"}

\* Requests of party b with a row on account a in the table: one, unless the
\* party sent several and was heard again before the first had finished it.
Heard(b, g, a) ==
  {e \in EndRequests : e.gameId = g /\ e.accountId = b /\
     \E row \in individualLogs : row.request = e /\ row.result.accountId = a}
Uncredited(g) == \A a \in Accounts : statUpdates[g][a] = 0
OneReportCredited(g) ==
  \E b \in parties[g] : \A a \in Accounts :
    statUpdates[g][a] <= Cardinality(Heard(b, g, a))
OneLogPerCredited(g) ==
  \A a \in Accounts : gameOverLogs[g][a] = IF statUpdates[g][a] > 0 THEN 1 ELSE 0

\* A run is at the books of the game, or they are closed.
LogsBalance(g) ==
  \/ \E i \in Invocations : Settling(i) /\ run[i].current = g
  \/ outcome[g] # "settled" /\ Uncredited(g)
                            /\ \A a \in Accounts : gameOverLogs[g][a] = 0
  \/ outcome[g] = "settled" /\ OneLogPerCredited(g)

(* As long as nothing has failed, the books of a game agree: what is         *)
(* credited is the report of one party, and an account's stats are updated   *)
(* no more often than that party sent a request that names it, whatever the  *)
(* others reported; nothing is credited for an open or canceled game that no *)
(* run is settling, and in a settled one exactly the credited accounts are   *)
(* logged, once.                                                             *)
BooksBalance ==
  faults = 0 =>
    \A g \in Games : (Uncredited(g) \/ OneReportCredited(g)) /\ LogsBalance(g)

-----------------------------------------------------------------------------
(* What the safety properties rest on: inductive together with IInv *)

\* LogsNeverOutrunCredits: an account whose update in the current settlement
\* has been executed is ahead of its logs; it may be logged once more.
CreditsPrecedeLogs ==
  \A i \in Invocations : run[i].stage = "credit" =>
    \A r \in Results : run[i].agreed[r] > 0 /\ ~Pending(i, r) =>
      LET g == run[i].current a == r.accountId
      IN  gameOverLogs[g][a] < statUpdates[g][a]

\* RepetitionsNeedFaults: the one log that needs no fault is there when a run
\* is about to resolve the game, or has.
Logged(g) ==
  Closed(g) \/ \E i \in Invocations : run[i].stage = "resolve" /\ run[i].current = g
LogsPerFault ==
  \A g \in Games, a \in Accounts :
    gameOverLogs[g][a] <= faults + IF Logged(g) THEN 1 ELSE 0

LedgerInv == LogsNeverOutrunCredits /\ CreditsPrecedeLogs /\ LogsPerFault

\* BooksBalance: without a fault no update is left behind; in a game that is
\* being settled exactly the executed updates of the agreed report are credited,
\* and once it is logged the logs agree with the credits.
AgreedCredits(i, g) ==
  /\ \A r \in Results : run[i].updates[r] <= run[i].agreed[r]
  /\ \A a \in Accounts :
       /\ gameOverLogs[g][a] = 0
       /\ statUpdates[g][a] > 0 <=>
            \E r \in Results : r.accountId = a
                               /\ run[i].updates[r] < run[i].agreed[r]
BooksInv ==
  faults = 0 =>
    /\ \A g \in Games : LogsBalance(g)
    /\ \A g \in Games, r \in Results : orphaned[g][r] = 0
    /\ \A i \in Invocations :
         /\ run[i].stage = "credit" => AgreedCredits(i, run[i].current)
         /\ run[i].stage = "resolve" => OneLogPerCredited(run[i].current)

\* OnlyPlayersCredited: wherever a result is on its way from the validated
\* request to the update, its account has joined some game.
Joined(a) == \E g \in Games : a \in parties[g]
Carries(i, r) ==
  \/ \E a \in Accounts : run[i].fetched[a][r] > 0
  \/ run[i].agreed[r] > 0
  \/ run[i].updates[r] > 0
ResultsJoined ==
  /\ \A e \in EndRequests : \A row \in unsaved[e] : Joined(row.result.accountId)
  /\ \A row \in individualLogs : Joined(row.result.accountId)
  /\ \A i \in Invocations, r \in Results : Carries(i, r) => Joined(r.accountId)
  /\ \A g \in Games, r \in Results : orphaned[g][r] > 0
                                     => Joined(r.accountId)

PlayersInv == OnlyPlayersCredited /\ ResultsJoined

\* ClosedOnReport, EarlyCloseNeedsThreeReports: what a run has fetched is in the
\* table, and what it has decided was due.
At(i, g, stages) == run[i].stage \in stages /\ run[i].current = g
FetchedReports ==
  \A i \in Invocations :
    /\ run[i].stage \in {"filter", "next"} => run[i].fetched = NoReports
    /\ \A g \in Games : At(i, g, {"read", "decide"})
                          => Reporters(i) \subseteq ReportersOf(g)
Due(g) ==
  /\ Cardinality(parties[g]) >= 2 /\ ReportersOf(g) # {}
  /\ (\A a \in parties[g] : Young(g, a)) => Cardinality(ReportersOf(g)) >= 3
DecidedWhenDue ==
  \A g \in Games :
    Closed(g) \/ (\E i \in Invocations : At(i, g, {"credit", "resolve", "cancel"}))
      => Due(g)

ReportsInv ==
  (\A g \in Games : IsFiniteSet(parties[g])) /\ FetchedReports /\ DecidedWhenDue

-----------------------------------------------------------------------------
(* Liveness *)

\* A run that has begun ends: isRunning cannot stay set and stop the processor.
RunsEnd == isRunning ~> ~isRunning

-----------------------------------------------------------------------------
(* Statements of the code that do not hold *)

Votes(i, report) == Cardinality({a \in Reporters(i) : run[i].fetched[a] = report})

(* "Get the most common game result", "Cancel the game if there is no        *)
(* consensus (there are multiple results with the max score)": a game that   *)
(* is canceled has no report with more votes than every other.               *)
MostCommonResultWins ==
  \A i \in Invocations :
    run[i].stage = "cancel" =>
      \A report \in HashedResults(i) : \E other \in HashedResults(i) \ {report} :
        Votes(i, other) >= Votes(i, report)

(* "Result inconsistences found for game ..., game is canceled.": a canceled *)
(* game has parties that sent different results.                             *)
CanceledOnInconsistency ==
  \A g \in Games : outcome[g] = "canceled" =>
    \E e, f \in EndRequests :
      /\ phase[e] # "unsent" /\ phase[f] # "unsent"
      /\ e.gameId = g /\ f.gameId = g
      /\ e.playerResults # f.playerResults

=============================================================================
