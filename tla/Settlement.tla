------------------------------ MODULE Settlement ------------------------------
(***************************************************************************)
(* The end-game pipeline: players report the results of a game they joined *)
(* (POST /games/over), and the end-game processor, a cron job fired every  *)
(* second, reads the reports, decides the result of the game, credits the  *)
(* players, writes the game-over logs, marks the game as processed and     *)
(* sends the reward transaction.                                           *)
(*                                                                         *)
(* A step is one awaited database statement or RPC call together with the  *)
(* synchronous code that runs up to the next await: Node.js interleaves    *)
(* handlers and cron invocations exactly at awaits.                        *)
(***************************************************************************)
EXTENDS Integers, FiniteSets

CONSTANTS
  Games,                    \* game ids (column game_party.hash)
  Accounts,                 \* player account ids
  EndRequests,              \* POST /games/over requests clients may send
  Invocations,              \* identities of runProcessor() invocations
  GAME_DURATION, GAME_PROCESSING_TIMEOUT,
  MaxTime,                  \* bound of the clock
  Faults,                   \* kinds of fault that may happen
  MaxFaults                 \* bound on how many faults happen

(***************************************************************************)
(* A request is a record [id, gameId, accountId, playerResults]; its       *)
(* results are records [accountId, score], the score abstracting kills,    *)
(* deaths and headshots.  Two requests that differ only in id are the same *)
(* body sent twice.                                                        *)
(***************************************************************************)
Results == UNION {e.playerResults : e \in EndRequests}

ASSUME RequestsAssumption ==
  /\ IsFiniteSet(EndRequests)
  /\ \A e \in EndRequests :
       /\ e.gameId \in Games
       /\ e.accountId \in Accounts
       /\ IsFiniteSet(e.playerResults)
       /\ \A r \in e.playerResults : r.accountId \in Accounts

ASSUME ClockAssumption ==
  /\ GAME_DURATION \in Nat
  /\ GAME_PROCESSING_TIMEOUT \in Nat
  /\ MaxTime \in Nat

ASSUME FaultsAssumption ==
  /\ Faults \subseteq {"crash", "db", "rpc"}
  /\ MaxFaults \in Nat

VARIABLES
  now,
  \* table game_party: the account_ids of each game and the other columns
  parties, createdAt, finished, resultsProcessed,
  \* which branch of processGameResults closed the game (history variable)
  outcome,
  \* POST /games/over handlers and table game_over_individual_logs
  phase, unsaved, individualLogs,
  \* EndGameProcessorService
  isRunning, run,
  \* additive UPDATEs of table gamers: executed, and left behind in flight
  statUpdates, orphaned,
  \* table game_over_logs, and transactions sent to the reward program
  gameOverLogs, rewardTxs,
  faults

partyVars  == <<parties, createdAt, finished, resultsProcessed, outcome>>
reportVars == <<phase, unsaved, individualLogs>>
cronVars   == <<isRunning, run>>
ledgerVars == <<statUpdates, orphaned, gameOverLogs, rewardTxs>>
vars == <<now, partyVars, reportVars, cronVars, ledgerVars, faults>>

-----------------------------------------------------------------------------
(* Rows of game_over_individual_logs carry their request in place of the   *)
(* generated id; what a query maps them to (EndGameResultDto[], sorted) is *)
(* the bag of their results.                                               *)

LogRow == [request : EndRequests, result : Results]
Report == [Results -> Nat]
EmptyReport == [r \in Results |-> 0]
NoReports == [a \in Accounts |-> EmptyReport]

LogsOf(e) == {[request |-> e, result |-> r] : r \in e.playerResults}

\* Mutant: the condition on the reporter is left off the query.
ReportsOfAnyone(g, a) ==
  [r \in Results |->
     Cardinality({row \in individualLogs :
                    row.request.gameId = g /\ row.result = r /\ a \in Accounts})]

IndividualEndGameResults(g, a) ==
  [r \in Results |->
     Cardinality({row \in individualLogs :
                    /\ row.request.gameId = g
                    /\ row.request.accountId = a
                    /\ row.result = r})]

HasDuplicates(results) ==
  \E r1, r2 \in results : r1 # r2 /\ r1.accountId = r2.accountId

\* Mutant: the @IsPlayerInGame validator is left off EndGameResultDto.
NamesAnyone(e) == e \in EndRequests

(* @IsPlayerInGame validates the account of a nested EndGameResultDto, which *)
(* is the object its arguments carry and has no gameId: isPlayerInGame is    *)
(* asked with gameId undefined, a condition TypeORM leaves out, and finds    *)
(* the account's row of any game.                                            *)
IsPlayerInGame(a) == \E g \in Games : a \in parties[g]
NamesPlayers(e) == \A r \in e.playerResults : IsPlayerInGame(r.accountId)

\* A row this young may belong to a game that is still being played.
Young(g, a) ==
  createdAt[g][a] > now - GAME_DURATION - GAME_PROCESSING_TIMEOUT

NoGame == "none"
Stages == {"idle", "filter", "next", "read", "decide",
           "credit", "resolve", "cancel", "reward"}
Idle == [stage |-> "idle", snapshot |-> [g \in Games |-> {}], todo |-> {},
         current |-> NoGame, unread |-> {}, fetched |-> NoReports,
         agreed |-> EmptyReport, updates |-> EmptyReport]

Init ==
  /\ now = 0
  /\ parties = [g \in Games |-> {}]
  /\ createdAt = [g \in Games |-> [a \in Accounts |-> 0]]
  /\ finished = [g \in Games |-> {}]
  /\ resultsProcessed = [g \in Games |-> {}]
  /\ outcome = [g \in Games |-> "open"]
  /\ phase = [e \in EndRequests |-> "unsent"]
  /\ unsaved = [e \in EndRequests |-> {}]
  /\ individualLogs = {}
  /\ isRunning = FALSE
  /\ run = [i \in Invocations |-> Idle]
  /\ statUpdates = [g \in Games |-> [a \in Accounts |-> 0]]
  /\ orphaned = [g \in Games |-> EmptyReport]
  /\ gameOverLogs = [g \in Games |-> [a \in Accounts |-> 0]]
  /\ rewardTxs = [g \in Games |-> 0]
  /\ faults = 0

-----------------------------------------------------------------------------
(* Clients *)

TimePasses ==
  /\ now < MaxTime
  /\ now' = now + 1
  /\ UNCHANGED <<partyVars, reportVars, cronVars, ledgerVars, faults>>

(* The INSERT that ends startGame; the chip it costs is in ChipLedger.  The *)
(* unique constraint on (hash, account_id) refuses a second row.  Rows are  *)
(* created only while the bounded clock can still outlive them.             *)
StartGame(g, a) ==
  /\ a \notin parties[g]
  /\ now + GAME_DURATION + GAME_PROCESSING_TIMEOUT <= MaxTime
  /\ parties' = [parties EXCEPT ![g] = @ \cup {a}]
  /\ createdAt' = [createdAt EXCEPT ![g][a] = now]
  /\ UNCHANGED <<now, finished, resultsProcessed, outcome, reportVars,
                 cronVars, ledgerVars, faults>>

\* The parties whose row isGameInProgress finds; their game may be closed.
InProgress(g) == parties[g] \ finished[g]
IsGameInProgress(g) == InProgress(g) # {}
IsPlayerGameInProgress(e) == e.accountId \in InProgress(e.gameId)

(* The validators of EndGameDto, then endGame up to its inserts, which are *)
(* all issued at once (Promise.all).  The awaits before the inserts need no *)
(* step of their own: an insert may be executed any time later (SaveLog).  *)
EndGame(e) ==
  /\ phase[e] = "unsent"
  /\ IsGameInProgress(e.gameId)
  /\ IsPlayerGameInProgress(e)
  /\ NamesPlayers(e)
  /\ ~HasDuplicates(e.playerResults)
  /\ phase' = [phase EXCEPT ![e] = "saving"]
  /\ unsaved' = [unsaved EXCEPT ![e] = LogsOf(e)]
  /\ UNCHANGED <<now, partyVars, individualLogs, cronVars, ledgerVars, faults>>

SaveLog(e, row) ==
  /\ row \in unsaved[e]
  /\ individualLogs' = individualLogs \cup {row}
  /\ unsaved' = [unsaved EXCEPT ![e] = @ \ {row}]
  /\ UNCHANGED <<now, partyVars, phase, cronVars, ledgerVars, faults>>

FinishParty(e) ==
  /\ phase[e] = "saving"
  /\ unsaved[e] = {}
  /\ phase' = [phase EXCEPT ![e] = "done"]
  /\ finished' = [finished EXCEPT ![e.gameId] = @ \cup {e.accountId}]
  /\ UNCHANGED <<now, parties, createdAt, resultsProcessed, outcome, unsaved,
                 individualLogs, cronVars, ledgerVars, faults>>

-----------------------------------------------------------------------------
(* EndGameProcessorService *)

\* Mutant: the early return of runProcessor is missing.
AlwaysStart(i) == run[i].stage = "idle"
MayStart(i) == run[i].stage = "idle" /\ ~isRunning

\* runProcessor unless one is running, and the first query of getFinishedGames.
FetchParties(i) ==
  /\ MayStart(i)
  /\ isRunning' = TRUE
  /\ run' = [run EXCEPT ![i] =
               [Idle EXCEPT !.stage = "filter",
                            !.snapshot = [g \in Games |->
                                            parties[g] \ resultsProcessed[g]]]]
  /\ UNCHANGED <<now, partyVars, reportVars, ledgerVars, faults>>

\* Mutant: the test for fewer than two parties is off by one.
OneParty(i, g) == run[i].snapshot[g] # {}
TwoParties(i, g) == Cardinality(run[i].snapshot[g]) >= 2

\* The second query of getFinishedGames, and the test for two parties.
FilterProcessed(i) ==
  /\ run[i].stage = "filter"
  /\ run' = [run EXCEPT ![i].stage = "next",
                        ![i].todo = {g \in Games :
                           /\ resultsProcessed[g] = {}
                           /\ TwoParties(i, g)}]
  /\ UNCHANGED <<now, partyVars, reportVars, isRunning, ledgerVars, faults>>

NextGame(i, g) ==
  /\ run[i].stage = "next"
  /\ g \in run[i].todo
  /\ run' = [run EXCEPT ![i].stage = "read",
                        ![i].todo = @ \ {g},
                        ![i].current = g,
                        ![i].unread = run[i].snapshot[g]]
  /\ UNCHANGED <<now, partyVars, reportVars, isRunning, ledgerVars, faults>>

\* One of the concurrent queries for the reports of the snapshot's parties.
ReadReport(i, a) ==
  /\ run[i].stage = "read"
  /\ a \in run[i].unread
  /\ run' = [run EXCEPT ![i].unread = @ \ {a},
                        ![i].fetched[a] =
                           IndividualEndGameResults(run[i].current, a),
                        ![i].stage = IF run[i].unread = {a} THEN "decide"
                                                            ELSE "read"]
  /\ UNCHANGED <<now, partyVars, reportVars, isRunning, ledgerVars, faults>>

Parties(i) == run[i].snapshot[run[i].current]
Reporters(i) == {a \in Parties(i) : run[i].fetched[a] # EmptyReport}

\* Keyed by hash: equal reports are one entry, whose count is therefore 1.
HashedResults(i) == {run[i].fetched[a] : a \in Reporters(i)}
ResultsCounter(i) == [hash \in HashedResults(i) |-> 1]
TopHashedResults(i) ==
  {hash \in HashedResults(i) :
     \A other \in HashedResults(i) :
        ResultsCounter(i)[other] <= ResultsCounter(i)[hash]}

\* Mutant: two reports are taken for enough.
TwoReports(i) == Cardinality(Reporters(i)) >= 2
ThreeReports(i) == Cardinality(Reporters(i)) >= 3

\* With fewer than three reports the game must have timed out, judged by the
\* first row of an unordered query, so by any one of its parties.
MayDecide(i) ==
  \/ ThreeReports(i)
  \/ \E first \in Parties(i) : ~Young(run[i].current, first)
MayWait(i) ==
  /\ ~ThreeReports(i)
  /\ \E first \in Parties(i) : Young(run[i].current, first)

\* What remains of run i when it turns to its next game.
Continue(i) == [Idle EXCEPT !.stage = "next", !.snapshot = run[i].snapshot,
                            !.todo = run[i].todo]

SkipGame(i) ==
  /\ run[i].stage = "decide"
  /\ Reporters(i) = {} \/ MayWait(i)
  /\ run' = [run EXCEPT ![i] = Continue(i)]
  /\ UNCHANGED <<now, partyVars, reportVars, isRunning, ledgerVars, faults>>

DecideCancel(i) ==
  /\ run[i].stage = "decide"
  /\ Reporters(i) # {} /\ MayDecide(i)
  /\ Cardinality(TopHashedResults(i)) > 1
  /\ run' = [run EXCEPT ![i].stage = "cancel"]
  /\ UNCHANGED <<now, partyVars, reportVars, isRunning, ledgerVars, faults>>

\* Agreement: the updates of distributeGameStatsAndPoints are all issued.
DecideSettle(i) ==
  /\ run[i].stage = "decide"
  /\ Reporters(i) # {} /\ MayDecide(i)
  /\ \E report \in TopHashedResults(i) :
       /\ TopHashedResults(i) = {report}
       /\ run' = [run EXCEPT ![i].stage = "credit",
                             ![i].fetched = NoReports,
                             ![i].agreed = report,
                             ![i].updates = report]
  /\ UNCHANGED <<now, partyVars, reportVars, isRunning, ledgerVars, faults>>

\* Mutant: an update may be executed twice.
Unchecked(i, r) == r \in Results
Pending(i, r) == run[i].updates[r] > 0

CreditPlayer(i, r) ==
  /\ run[i].stage = "credit"
  /\ Pending(i, r)
  /\ run' = [run EXCEPT ![i].updates[r] = @ - 1]
  /\ statUpdates' = [statUpdates EXCEPT ![run[i].current][r.accountId] = @ + 1]
  /\ UNCHANGED <<now, partyVars, reportVars, isRunning, orphaned,
                 gameOverLogs, rewardTxs, faults>>

\* Mutant: distributeGameStatsAndPoints is not awaited.
NotAwaited(i) == TRUE
AllCredited(i) == run[i].updates = EmptyReport

\* createLogsForGame: one INSERT, a row for each gamer named in the result.
WriteGameOverLogs(i) ==
  /\ run[i].stage = "credit"
  /\ AllCredited(i)
  /\ run' = [run EXCEPT ![i].stage = "resolve"]
  /\ gameOverLogs' = [gameOverLogs EXCEPT ![run[i].current] =
       [a \in Accounts |->
          IF \E r \in Results : run[i].agreed[r] > 0 /\ r.accountId = a
          THEN @[a] + 1 ELSE @[a]]]
  /\ UNCHANGED <<now, partyVars, reportVars, isRunning, statUpdates, orphaned,
                 rewardTxs, faults>>

\* Mutant: the UPDATE of resolveGameProcessing matches no row.
ResolveNothing(g, verdict) ==
  /\ outcome' = [outcome EXCEPT ![g] = verdict]
  /\ UNCHANGED <<parties, createdAt, finished, resultsProcessed>>

\* resolveGameProcessing, whichever branch calls it: UPDATE ... WHERE gameId.
ResolveGameProcessing(g, verdict) ==
  /\ resultsProcessed' = [resultsProcessed EXCEPT ![g] = parties[g]]
  /\ outcome' = [outcome EXCEPT ![g] = verdict]
  /\ UNCHANGED <<parties, createdAt, finished>>

ResolveSettled(i) ==
  /\ run[i].stage = "resolve"
  /\ ResolveGameProcessing(run[i].current, "settled")
  /\ run' = [run EXCEPT ![i].stage = "reward"]
  /\ UNCHANGED <<now, reportVars, isRunning, ledgerVars, faults>>

ResolveCanceled(i) ==
  /\ run[i].stage = "cancel"
  /\ ResolveGameProcessing(run[i].current, "canceled")
  /\ run' = [run EXCEPT ![i] = Continue(i)]
  /\ UNCHANGED <<now, reportVars, isRunning, ledgerVars, faults>>

\* distributeRewards; nothing waits for the transaction to be confirmed.
SendRewardTx(i) ==
  /\ run[i].stage = "reward"
  /\ rewardTxs' = [rewardTxs EXCEPT ![run[i].current] = @ + 1]
  /\ run' = [run EXCEPT ![i] = Continue(i)]
  /\ UNCHANGED <<now, partyVars, reportVars, isRunning, statUpdates, orphaned,
                 gameOverLogs, faults>>

EndRun(i) ==
  /\ run[i].stage = "next"
  /\ run[i].todo = {}
  /\ isRunning' = FALSE
  /\ run' = [run EXCEPT ![i] = Idle]
  /\ UNCHANGED <<now, partyVars, reportVars, ledgerVars, faults>>

-----------------------------------------------------------------------------
(* Faults *)

Fault(kind) ==
  /\ kind \in Faults
  /\ faults < MaxFaults
  /\ faults' = faults + 1

\* Mutant: runProcessor has no finally block.
NoFinally(i) ==
  /\ UNCHANGED isRunning
  /\ run' = [run EXCEPT ![i] = Idle]

(* A rejected await leaves processFinishedGames: runProcessor logs the error *)
(* and its finally block clears isRunning; later games wait for another run. *)
Abort(i) ==
  /\ isRunning' = FALSE
  /\ run' = [run EXCEPT ![i] = Idle]

StatementFails(i) ==
  /\ Fault("db")
  /\ \/ run[i].stage \in {"filter", "read", "resolve", "cancel"}
     \/ run[i].stage = "credit" /\ AllCredited(i)
  /\ Abort(i)
  /\ UNCHANGED <<now, partyVars, reportVars, ledgerVars>>

(* One update of Promise.all rejects: the run ends, but the others were      *)
(* issued already and will still execute.                                    *)
CreditFails(i, r) ==
  /\ Fault("db")
  /\ run[i].stage = "credit"
  /\ Pending(i, r)
  /\ orphaned' = [orphaned EXCEPT ![run[i].current] =
       [q \in Results |-> @[q] + run[i].updates[q] - IF q = r THEN 1 ELSE 0]]
  /\ Abort(i)
  /\ UNCHANGED <<now, partyVars, reportVars, statUpdates, gameOverLogs,
                 rewardTxs>>

OrphanedCredit(g, r) ==
  /\ orphaned[g][r] > 0
  /\ orphaned' = [orphaned EXCEPT ![g][r] = @ - 1]
  /\ statUpdates' = [statUpdates EXCEPT ![g][r.accountId] = @ + 1]
  /\ UNCHANGED <<now, partyVars, reportVars, cronVars, gameOverLogs, rewardTxs,
                 faults>>

\* An RPC call of distributeRewards rejects; the transaction may have landed.
RewardFails(i) ==
  /\ Fault("rpc")
  /\ run[i].stage = "reward"
  /\ \E landed \in {0, 1} :
       rewardTxs' = [rewardTxs EXCEPT ![run[i].current] = @ + landed]
  /\ Abort(i)
  /\ UNCHANGED <<now, partyVars, reportVars, statUpdates, orphaned,
                 gameOverLogs>>

\* An INSERT of endGame fails; those issued with it go on.
SaveLogFails(e, row) ==
  /\ Fault("db")
  /\ row \in unsaved[e]
  /\ unsaved' = [unsaved EXCEPT ![e] = @ \ {row}]
  /\ phase' = [phase EXCEPT ![e] = "failed"]
  /\ UNCHANGED <<now, partyVars, individualLogs, cronVars, ledgerVars>>

\* The UPDATE of endGame fails: the report is in, the party not finished.
FinishFails(e) ==
  /\ Fault("db")
  /\ phase[e] = "saving"
  /\ unsaved[e] = {}
  /\ phase' = [phase EXCEPT ![e] = "failed"]
  /\ UNCHANGED <<now, partyVars, unsaved, individualLogs, cronVars, ledgerVars>>

(* The process dies and is started again: handlers, the running invocation  *)
(* and statements not yet executed are gone, isRunning starts as false.     *)
Crash ==
  /\ Fault("crash")
  /\ isRunning' = FALSE
  /\ run' = [i \in Invocations |-> Idle]
  /\ phase' = [e \in EndRequests |->
                 IF phase[e] = "saving" THEN "failed" ELSE phase[e]]
  /\ unsaved' = [e \in EndRequests |-> {}]
  /\ orphaned' = [g \in Games |-> EmptyReport]
  /\ UNCHANGED <<now, partyVars, individualLogs, statUpdates, gameOverLogs,
                 rewardTxs>>

-----------------------------------------------------------------------------

Client ==
  \/ TimePasses
  \/ \E g \in Games, a \in Accounts : StartGame(g, a)
  \/ \E e \in EndRequests :
       \/ EndGame(e)
       \/ \E row \in unsaved[e] : SaveLog(e, row)
       \/ FinishParty(e)

\* The steps of a run that has begun, other than its failures.
Work(i) ==
  \/ FilterProcessed(i)
  \/ \E g \in Games : NextGame(i, g)
  \/ \E a \in Accounts : ReadReport(i, a)
  \/ SkipGame(i)
  \/ DecideCancel(i)
  \/ DecideSettle(i)
  \/ \E r \in Results : CreditPlayer(i, r)
  \/ WriteGameOverLogs(i)
  \/ ResolveSettled(i)
  \/ ResolveCanceled(i)
  \/ SendRewardTx(i)
  \/ EndRun(i)

Failure ==
  \/ \E i \in Invocations :
       \/ StatementFails(i)
       \/ \E r \in Results : CreditFails(i, r)
       \/ RewardFails(i)
  \/ \E e \in EndRequests :
       \/ \E row \in unsaved[e] : SaveLogFails(e, row)
       \/ FinishFails(e)
  \/ Crash

Next ==
  \/ Client
  \/ \E i \in Invocations : FetchParties(i) \/ Work(i)
  \/ \E g \in Games, r \in Results : OrphanedCredit(g, r)
  \/ Failure

Spec == Init /\ [][Next]_vars

(***************************************************************************)
(* The clock advances, the cron job is fired every second, and a run that  *)
(* has begun is awaited to its end.  Clients owe nothing.                  *)
(***************************************************************************)
Fairness ==
  /\ WF_vars(TimePasses)
  /\ WF_vars(\E i \in Invocations : FetchParties(i))
  /\ \A i \in Invocations : WF_vars(Work(i))

FairSpec == Spec /\ Fairness

=============================================================================
