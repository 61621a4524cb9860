------------------------------ MODULE SolStrike ------------------------------
(***************************************************************************)
(* The backend as a whole: ChipLedger, which sells seats for chips, and    *)
(* Settlement, which settles the games those seats are in.  They meet in   *)
(* table game_party, where the insert that ends startGame is both the      *)
(* ledger's InsertParty and the pipeline's StartGame, and they die         *)
(* together: they are one process.                                         *)
(***************************************************************************)
EXTENDS SettlementProperties

CONSTANTS Rows, Visits, Deposits, StartRequests, UnitsPerChip

VARIABLES
  gamers, accountId, reservedChips, partyCount,
  visit, deposit, start, gamer,
  ledgerFaults      \* faults the ledger has met; faults are the pipeline's

\* Both components have the variable parties.
Ledger == INSTANCE ChipLedger WITH faults <- ledgerFaults

\* The faults of the whole are those the ledger knows; see PipelineSteps.
ASSUME PartsAssumption ==
  /\ Ledger!ActorsAssumption
  /\ Ledger!UnitsAssumption
  /\ Ledger!LedgerFaultsAssumption

ledgerOwn == <<gamers, accountId, reservedChips, partyCount,
               visit, deposit, start, gamer, ledgerFaults>>
pipelineOwn == <<now, createdAt, finished, resultsProcessed, outcome,
                 reportVars, cronVars, ledgerVars, faults>>
system == <<vars, ledgerOwn>>

SystemInit == Init /\ Ledger!LedgerInit

-----------------------------------------------------------------------------

PlayerJoins(s) ==
  /\ Ledger!InsertParty(s)
  /\ StartGame(s.gameId, s.accountId)

\* Mutant: a second insert for a seat overwrites its row.
SeatOverwritten(s) ==
  /\ start[s] = "counted"
  /\ s.accountId \in parties[s.gameId]
  /\ start' = [start EXCEPT ![s] = "joined"]
  /\ createdAt' = [createdAt EXCEPT ![s.gameId][s.accountId] = now]
  /\ UNCHANGED <<now, parties, finished, resultsProcessed, outcome, reportVars,
                 cronVars, ledgerVars, faults, gamers, accountId, reservedChips,
                 partyCount, visit, deposit, gamer, ledgerFaults>>
\* The insert refused by the unique constraint.
SeatRefused(s) ==
  /\ Ledger!InsertParty(s)
  /\ UNCHANGED <<parties, pipelineOwn>>

LedgerSteps ==
  /\ \/ \E v \in Visits :
          Ledger!FetchOrCreate(v) \/ \E row \in Rows : Ledger!SaveGamer(v, row)
     \/ \E d \in Deposits :
          Ledger!FindDepositor(d) \/ Ledger!AddReservedChips(d) \/ Ledger!MissEvent(d)
     \/ \E s \in StartRequests :
          \/ Ledger!VerifyUniquePlayer(s)
          \/ Ledger!CheckChips(s)
          \/ Ledger!SubtractChips(s)
          \/ Ledger!IncrementPartyCount(s)
  /\ UNCHANGED pipelineOwn

PipelineSteps ==
  /\ \/ TimePasses
     \/ \E e \in EndRequests :
          \/ EndGame(e)
          \/ \E row \in unsaved[e] : SaveLog(e, row)
          \/ FinishParty(e)
     \/ \E i \in Invocations : FetchParties(i) \/ Work(i) \/ RewardFails(i)
  /\ UNCHANGED ledgerOwn

ProcessCrash == Crash /\ Ledger!LedgerCrash

SystemNext ==
  \/ \E s \in StartRequests : PlayerJoins(s) \/ SeatRefused(s)
  \/ LedgerSteps
  \/ PipelineSteps
  \/ ProcessCrash

SystemSpec == SystemInit /\ [][SystemNext]_system

-----------------------------------------------------------------------------
(* Properties *)

SeatsIn(g) == {s \in StartRequests : s.gameId = g /\ start[s] = "joined"}

(* A reward is paid out of chips: a game whose reward was sent has had two   *)
(* seats sold to two accounts, one chip each, however requests, retries and  *)
(* crashes fell between the chip, the seat and the reward.                   *)
RewardsPaidFor ==
  \A g \in Games : rewardTxs[g] > 0 =>
    /\ Cardinality({s.accountId : s \in SeatsIn(g)}) >= 2
    /\ Cardinality(SeatsIn(g)) = Cardinality(parties[g])

(* Whoever is credited is in the ranking, which asks for a party count above *)
(* 0: startGame counts the party before the seat exists, so one row of the   *)
(* account has it by the time a result can name the account.  The end of a   *)
(* season, which sets the counts back to 0, is in Seasons and not composed   *)
(* here: this is said of one season.                                         *)
CreditedAreRanked ==
  \A g \in Games, a \in Accounts : statUpdates[g][a] > 0 =>
    \E row \in Ledger!RowsOf(a) : partyCount[row] > 0

(* The whole implements both of its parts: every step of the system is a     *)
(* step of the pipeline, of the ledger, or of both.                          *)
PartsKept == Spec /\ Ledger!LedgerSpec

=============================================================================
