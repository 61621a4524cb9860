--------------------------- MODULE SolStrikeProofs ---------------------------
(***************************************************************************)
(* Theorems about the whole: that every behaviour of SolStrike is one of   *)
(* Settlement and one of ChipLedger, and what follows from the theorems    *)
(* about the two together.                                                 *)
(***************************************************************************)
EXTENDS SolStrike, SettlementProofs

\* ChipLedger once more, with what is proved about it.
Proved == INSTANCE ChipLedgerProofs WITH faults <- ledgerFaults

-----------------------------------------------------------------------------
(* The parts *)

LEMMA LedgerStepsQuiet ==
  ASSUME LedgerSteps
  PROVE  Ledger!LedgerNext /\ UNCHANGED vars
<1>1. Ledger!LedgerNext
  BY DEF LedgerSteps, Ledger!LedgerNext
<1>2. UNCHANGED parties
  BY DEF LedgerSteps, Ledger!tables, Ledger!FetchOrCreate, Ledger!SaveGamer,
     Ledger!FindDepositor, Ledger!AddReservedChips, Ledger!MissEvent,
     Ledger!VerifyUniquePlayer, Ledger!CheckChips, Ledger!SubtractChips,
     Ledger!IncrementPartyCount
<1>. QED
  BY <1>1, <1>2 DEF LedgerSteps, pipelineOwn, vars, partyVars

LEMMA PipelineStepsQuiet ==
  ASSUME PipelineSteps
  PROVE  Next /\ UNCHANGED Ledger!ledger
<1>1. Next
  BY DEF PipelineSteps, Next, Client, Failure
<1>2. UNCHANGED parties
  BY DEF PipelineSteps, TimePasses, EndGame, SaveLog, FinishParty, FetchParties,
     Work, FilterProcessed, NextGame, ReadReport, SkipGame, DecideCancel,
     DecideSettle, CreditPlayer, WriteGameOverLogs, ResolveSettled,
     ResolveCanceled, ResolveGameProcessing, SendRewardTx, EndRun, RewardFails,
     partyVars
<1>. QED
  BY <1>1, <1>2 DEF PipelineSteps, ledgerOwn, Ledger!ledger, Ledger!tables,
     Ledger!handlers

LEMMA StepOfBoth ==
  ASSUME [SystemNext]_system
  PROVE  [Next]_vars /\ [Ledger!LedgerNext]_(Ledger!ledger)
<1>1. ASSUME NEW s \in StartRequests, PlayerJoins(s)
      PROVE  Next /\ Ledger!LedgerNext
  <2>1. s.gameId \in Games /\ s.accountId \in Accounts
    BY PartsAssumption DEF Ledger!ActorsAssumption
  <2>. QED
    BY <1>1, <2>1 DEF PlayerJoins, Next, Client, Ledger!LedgerNext
<1>2. ASSUME NEW s \in StartRequests, SeatRefused(s)
      PROVE  Ledger!LedgerNext /\ UNCHANGED vars
  BY <1>2 DEF SeatRefused, Ledger!LedgerNext, pipelineOwn, vars, partyVars
<1>3. CASE LedgerSteps
  BY <1>3, LedgerStepsQuiet
<1>4. CASE PipelineSteps
  BY <1>4, PipelineStepsQuiet
<1>5. CASE ProcessCrash
  BY <1>5 DEF ProcessCrash, Next, Failure, Ledger!LedgerNext
<1>6. CASE UNCHANGED system
  BY <1>6 DEF system, vars, partyVars, ledgerOwn, Ledger!ledger, Ledger!tables,
     Ledger!handlers
<1>. QED
  BY <1>1, <1>2, <1>3, <1>4, <1>5, <1>6 DEF SystemNext

(* Every step of the backend is one of the pipeline, of the ledger, or of    *)
(* both, so that what is proved of the parts holds of the whole.             *)
THEOREM PartsImplemented == SystemSpec => PartsKept
<1>1. SystemInit => Init /\ Ledger!LedgerInit
  BY DEF SystemInit
<1>2. [SystemNext]_system => [Next]_vars /\ [Ledger!LedgerNext]_(Ledger!ledger)
  BY StepOfBoth
<1>. QED
  BY <1>1, <1>2, PTL DEF SystemSpec, PartsKept, Spec, Ledger!LedgerSpec

-----------------------------------------------------------------------------
(* What the parts say together *)

LEMMA SameLedger ==
  /\ Ledger!LedgerInit => Proved!LedgerInit
  /\ [Ledger!LedgerNext]_(Ledger!ledger) => [Proved!LedgerNext]_(Proved!ledger)
<1>1. Ledger!LedgerInit => Proved!LedgerInit
  BY DEF Ledger!LedgerInit, Proved!LedgerInit, Ledger!NoAccount,
     Proved!NoAccount, Ledger!NoRow, Proved!NoRow
<1>2. Ledger!LedgerNext => Proved!LedgerNext
  BY DEF Ledger!LedgerNext, Proved!LedgerNext, Ledger!FetchOrCreate,
     Proved!FetchOrCreate, Ledger!SaveGamer, Proved!SaveGamer,
     Ledger!FindDepositor, Proved!FindDepositor, Ledger!AddReservedChips,
     Proved!AddReservedChips, Ledger!MissEvent, Proved!MissEvent,
     Ledger!VerifyUniquePlayer, Proved!VerifyUniquePlayer, Ledger!CheckChips,
     Proved!CheckChips, Ledger!SubtractChips, Proved!SubtractChips,
     Ledger!IncrementPartyCount, Proved!IncrementPartyCount,
     Ledger!InsertParty, Proved!InsertParty, Ledger!LedgerCrash,
     Proved!LedgerCrash, Ledger!CrashedStart, Proved!CrashedStart, Ledger!Credited,
     Proved!Credited, Ledger!UniqueGameAccount, Proved!UniqueGameAccount,
     Ledger!RowsOf, Proved!RowsOf, Ledger!tables, Proved!tables
<1>. QED
  BY <1>1, <1>2 DEF Ledger!ledger, Proved!ledger, Ledger!tables, Proved!tables,
     Ledger!handlers, Proved!handlers

LEMMA LedgerInvariants ==
  SystemSpec => [](/\ Proved!LedgerTypeOK
                   /\ Proved!SeatInv
                   /\ Proved!CountInv)
<1> USE PartsAssumption DEF Ledger!ActorsAssumption, Ledger!UnitsAssumption,
        Ledger!LedgerFaultsAssumption
<1>1. Proved!LedgerSpec => []Proved!LedgerTypeOK
  BY Proved!LedgerTypeCorrect
<1>2. Proved!LedgerSpec => []Proved!SeatInv
  BY Proved!SeatInvariant
<1>3. Proved!LedgerSpec => []Proved!CountInv
  BY Proved!CountInvariant
<1>4. SystemInit => Proved!LedgerInit
  BY SameLedger DEF SystemInit
<1>5. [SystemNext]_system => [Proved!LedgerNext]_(Proved!ledger)
  BY StepOfBoth, SameLedger
<1>. QED
  BY <1>1, <1>2, <1>3, <1>4, <1>5, PTL DEF SystemSpec, Proved!LedgerSpec

\* The seats sold in a game are one to one with its parties.
LEMMA SeatsAreParties ==
  ASSUME Proved!LedgerTypeOK, Proved!SeatInv, NEW g \in Games,
         IsFiniteSet(parties[g])
  PROVE  /\ {s.accountId : s \in SeatsIn(g)} = parties[g]
         /\ Cardinality(SeatsIn(g)) = Cardinality(parties[g])
<1> USE PartsAssumption DEF Ledger!ActorsAssumption
<1>1. \A a \in parties[g] : \E s \in StartRequests : Proved!Joiners(g, a) = {s}
  BY DEF Proved!SeatInv, Proved!LedgerTypeOK
<1>2. \A s \in SeatsIn(g) : s.accountId \in parties[g]
  BY DEF SeatsIn, Proved!SeatInv, Proved!Joiners
<1>3. \A a \in parties[g] : \E s \in SeatsIn(g) : s.accountId = a
  BY <1>1 DEF SeatsIn, Proved!Joiners
<1>4. \A s, t \in SeatsIn(g) : s.accountId = t.accountId => s = t
  <2> SUFFICES ASSUME NEW s \in SeatsIn(g), NEW t \in SeatsIn(g),
                      s.accountId = t.accountId
               PROVE  s = t
    OBVIOUS
  <2>1. PICK u \in StartRequests : Proved!Joiners(g, s.accountId) = {u}
    BY <1>1, <1>2
  <2>2. s \in Proved!Joiners(g, s.accountId) /\ t \in Proved!Joiners(g, s.accountId)
    BY DEF SeatsIn, Proved!Joiners
  <2>. QED  BY <2>1, <2>2
<1> DEFINE seatOf == [a \in parties[g] |-> CHOOSE s \in SeatsIn(g) : s.accountId = a]
<1>5. \A a \in parties[g] : seatOf[a] \in SeatsIn(g) /\ seatOf[a].accountId = a
  BY <1>3
<1>6. seatOf \in Bijection(parties[g], SeatsIn(g))
  <2> seatOf \in [parties[g] -> SeatsIn(g)]
    BY <1>5
  <2> HIDE DEF seatOf
  <2>1. \A a, b \in parties[g] : seatOf[a] = seatOf[b] => a = b
    BY <1>5
  <2>2. \A s \in SeatsIn(g) : \E a \in parties[g] : seatOf[a] = s
    BY <1>2, <1>4, <1>5
  <2>. QED
    BY <2>1, <2>2 DEF Bijection, Injection, Surjection, IsInjective
<1>7. Cardinality(SeatsIn(g)) = Cardinality(parties[g])
  BY <1>6, FS_Bijection DEF ExistsBijection
<1>. QED  BY <1>2, <1>3, <1>7

(* A game whose reward was sent has had two seats sold to two accounts, one  *)
(* chip each, in whatever order requests, runs and crashes came.             *)
THEOREM RewardsAreFunded == SystemSpec => []RewardsPaidFor
<1>1. IInv /\ ReportsInv /\ ClosedOnReport /\ Proved!LedgerTypeOK /\ Proved!SeatInv
        => RewardsPaidFor
  <2> SUFFICES ASSUME IInv, ReportsInv, ClosedOnReport, Proved!LedgerTypeOK,
                      Proved!SeatInv, NEW g \in Games, rewardTxs[g] > 0
               PROVE  /\ Cardinality({s.accountId : s \in SeatsIn(g)}) >= 2
                      /\ Cardinality(SeatsIn(g)) = Cardinality(parties[g])
    BY DEF RewardsPaidFor
  <2>1. rewardTxs[g] = 1
    BY DEF IInv, ClosedOnce, TypeOK, LedgerTypes
  <2>2. Cardinality(parties[g]) >= 2
    BY <2>1 DEF IInv, ClosedOnce, ClosedOnReport, Closed
  <2>. QED
    BY <2>2, SeatsAreParties DEF ReportsInv
<1>. QED
  BY <1>1, PartsImplemented, LedgerInvariants, ProcessorInvariant,
     ReportsInvariant, ClosedWhenReported, PTL DEF PartsKept

(* Whoever is credited for a game is in the ranking: by the time a result    *)
(* can name an account its seat has been paid for and its party counted.     *)
THEOREM CreditsAreRanked == SystemSpec => []CreditedAreRanked
<1>1. OnlyPlayersCredited /\ Proved!LedgerTypeOK /\ Proved!SeatInv /\ Proved!CountInv
        => CreditedAreRanked
  <2> SUFFICES ASSUME OnlyPlayersCredited, Proved!LedgerTypeOK, Proved!SeatInv,
                      Proved!CountInv, NEW g \in Games, NEW a \in Accounts,
                      statUpdates[g][a] > 0
               PROVE  \E row \in Ledger!RowsOf(a) : partyCount[row] > 0
    BY DEF CreditedAreRanked
  <2>1. PICK h \in Games : a \in parties[h]
    BY DEF OnlyPlayersCredited
  <2>2. PICK s \in StartRequests : Proved!Joiners(h, a) = {s}
    BY <2>1 DEF Proved!SeatInv
  <2>3. s.accountId = a /\ start[s] = "joined"
    BY <2>2 DEF Proved!Joiners
  <2>4. gamer[s] \in Ledger!RowsOf(a) /\ partyCount[gamer[s]] > 0
    BY <2>3 DEF Proved!CountInv, Proved!RowsOf, Ledger!RowsOf
  <2>. QED  BY <2>4
<1>. QED
  BY <1>1, PartsImplemented, LedgerInvariants, PlayersCredited, PTL DEF PartsKept

=============================================================================
