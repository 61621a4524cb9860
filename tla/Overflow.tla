------------------------------- MODULE Overflow -------------------------------
(***************************************************************************)
(* Settlement with the width of an integer column: kills, deaths and       *)
(* headshots of a gamer are added up in columns of 32 bits, and an update  *)
(* that does not fit is rejected by the database, today and on every       *)
(* retry, until a season's end sets the sums to 0.  One sum stands for the *)
(* three; the score of a result is what it adds.                           *)
(***************************************************************************)
EXTENDS SettlementProperties

CONSTANTS
  MAX_INT,     \* 2^31 - 1
  MaxOrphans,  \* bound on updates of one result left in flight
  MaxResets    \* bound on how many seasons end

ASSUME WidthAssumption ==
  /\ MAX_INT \in Nat /\ MaxOrphans \in Nat /\ MaxResets \in Nat
  /\ \A r \in Results : r.score \in 0 .. MAX_INT

VARIABLES
  kills,      \* column of table gamers, by account
  overflows,  \* rejected updates so far (history variable, stops at its bound)
  resets

overflowVars == <<kills, overflows, resets>>
widthVars == <<vars, overflowVars>>

\* What retries that add something can add to each account before every update
\* is rejected.
MaxOverflows == (MAX_INT + 1) * (MaxResets + 1)

WidthInit ==
  /\ Init
  /\ kills = [a \in Accounts |-> 0]
  /\ overflows = 0
  /\ resets = 0

-----------------------------------------------------------------------------

\* Mutant: the column is wide enough for anything.
AlwaysFits(r) == r \in Results
Fits(r) == kills[r.accountId] + r.score <= MAX_INT

AddScore(r) ==
  /\ Fits(r)
  /\ kills' = [kills EXCEPT ![r.accountId] = @ + r.score]

CreditFits(i, r) ==
  /\ AddScore(r)
  /\ CreditPlayer(i, r)
  /\ UNCHANGED <<overflows, resets>>

OrphanedCreditFits(g, r) ==
  /\ AddScore(r)
  /\ OrphanedCredit(g, r)
  /\ UNCHANGED <<overflows, resets>>

\* Mutant: the run ends without its finally block.
StaysRunning(i) == NoFinally(i)
\* runProcessor catches what Promise.all rejects with.
EndByOverflow(i) == Abort(i)

(* The database rejects the update: as in CreditFails the run ends, and the  *)
(* updates issued with it will still be executed.                            *)
CreditOverflows(i, r) ==
  /\ run[i].stage = "credit"
  /\ Pending(i, r)
  /\ ~Fits(r)
  /\ orphaned' = [orphaned EXCEPT ![run[i].current] =
       [q \in Results |-> @[q] + run[i].updates[q] - IF q = r THEN 1 ELSE 0]]
  /\ \A q \in Results : orphaned'[run[i].current][q] <= MaxOrphans
  /\ EndByOverflow(i)
  /\ overflows' = IF overflows < MaxOverflows THEN overflows + 1 ELSE overflows
  /\ UNCHANGED <<now, partyVars, reportVars, statUpdates, gameOverLogs,
                 rewardTxs, faults, kills, resets>>

\* The rejection of an orphaned update is seen by nobody.
OrphanOverflows(g, r) ==
  /\ orphaned[g][r] > 0
  /\ ~Fits(r)
  /\ orphaned' = [orphaned EXCEPT ![g][r] = @ - 1]
  /\ UNCHANGED <<now, partyVars, reportVars, cronVars, statUpdates,
                 gameOverLogs, rewardTxs, faults, overflowVars>>

ResetPointsForAll ==
  /\ resets < MaxResets
  /\ resets' = resets + 1
  /\ kills' = [a \in Accounts |-> 0]
  /\ UNCHANGED <<vars, overflows>>

-----------------------------------------------------------------------------

WidthWork(i) ==
  \/ /\ \/ FilterProcessed(i)
        \/ \E g \in Games : NextGame(i, g)
        \/ \E a \in Accounts : ReadReport(i, a)
        \/ SkipGame(i)
        \/ DecideCancel(i)
        \/ DecideSettle(i)
        \/ WriteGameOverLogs(i)
        \/ ResolveSettled(i)
        \/ ResolveCanceled(i)
        \/ SendRewardTx(i)
        \/ EndRun(i)
     /\ UNCHANGED overflowVars
  \/ \E r \in Results : CreditFits(i, r) \/ CreditOverflows(i, r)

WidthNext ==
  \/ Client /\ UNCHANGED overflowVars
  \/ \E i \in Invocations :
       \/ FetchParties(i) /\ UNCHANGED overflowVars
       \/ WidthWork(i)
  \/ \E g \in Games, r \in Results : OrphanedCreditFits(g, r) \/ OrphanOverflows(g, r)
  \/ Failure /\ UNCHANGED overflowVars
  \/ ResetPointsForAll

\* As in Settlement, and a statement that was issued is answered; that seasons
\* end is up to an admin.
WidthFairness ==
  /\ WF_widthVars(TimePasses /\ UNCHANGED overflowVars)
  /\ WF_widthVars((\E i \in Invocations : FetchParties(i)) /\ UNCHANGED overflowVars)
  /\ \A i \in Invocations : WF_widthVars(WidthWork(i))
  /\ \A g \in Games, r \in Results :
       WF_widthVars(OrphanedCreditFits(g, r) \/ OrphanOverflows(g, r))

WidthSpec == WidthInit /\ [][WidthNext]_widthVars /\ WidthFairness

-----------------------------------------------------------------------------
(* Properties *)

WidthTypeOK ==
  /\ TypeOK
  /\ kills \in [Accounts -> 0 .. MAX_INT]
  /\ overflows \in 0 .. MaxOverflows
  /\ resets \in 0 .. MaxResets

(* A stuck game inflates the stats of its other players with every run, but  *)
(* only so: an account is credited once more than runs were stopped, by a    *)
(* rejected update or otherwise, for each request that names it.  That holds *)
(* while the rejected updates are counted: past its bound, overflows says    *)
(* nothing of how often a result that adds nothing was credited.             *)
CreditsPerStoppedRun ==
  overflows < MaxOverflows =>
    \A g \in Games, r \in Results :
      LET entries == Cardinality({e \in EndRequests : e.gameId = g /\
                        \E q \in e.playerResults : q.accountId = r.accountId})
      IN  statUpdates[g][r.accountId] <= entries * (1 + faults + overflows)

\* An open game some reported result of which cannot be added.
Stuck(g) ==
  /\ ~Closed(g)
  /\ \E row \in individualLogs : row.request.gameId = g /\ ~Fits(row.result)

(* A game with two parties, one of whom reported, is eventually closed, with *)
(* other games before it in the queue and runs that crash or fail, unless    *)
(* some game of the queue has become stuck: nothing but an overflow keeps a  *)
(* reported game open for good.                                              *)
ReportedGamesClose ==
  \A g \in Games :
    (Cardinality(parties[g]) >= 2 /\ ReportersOf(g) # {})
      ~> (Closed(g) \/ \E h \in Games : Stuck(h))

=============================================================================
