-------------------------------- MODULE Prizes --------------------------------
(***************************************************************************)
(* What the end-game processor does with the podium of a game: the rows    *)
(* createLogsForGame writes to game_over_logs, which share out the pot,    *)
(* and the accounts distributeRewards names to the on-chain program.  That *)
(* these steps may fail and be repeated is in Settlement.                  *)
(***************************************************************************)
EXTENDS WinnersSort

CONSTANTS
  GamerTables,   \* contents that table gamers may have when it is read
  Grain          \* how finely chips and points are counted; see Unit

\* A row is a record [id, accountId, referralUserId]; 0 is the default of the
\* last column.  An account may have several rows (ChipLedger).
NoReferrer == 0

ASSUME TablesAssumption ==
  \A table \in GamerTables :
    /\ IsFiniteSet(table)
    /\ \A g, h \in table : g.id = h.id => g = h
    /\ \A list \in ResultLists : \A n \in DOMAIN list :
         \E g \in table : g.accountId = list[n].accountId

\* Fine enough that no winner's share of the points is rounded down to nothing.
ASSUME GrainAssumption ==
  /\ Grain \in Nat \ {0}
  /\ \A table \in GamerTables : Cardinality(table) <= 60 * Grain

VARIABLES
  stage,
  gamers,         \* rows that findByAccountIds has returned
  gameOverLogs,   \* rows of the game in game_over_logs
  slots,          \* accounts passed, by place; no entry for those passed as null
  reward          \* what became of the transaction

prizeVars == <<stage, gamers, gameOverLogs, slots, reward>>
allVars == <<sortVars, prizeVars>>

PrizeInit ==
  /\ SortInit
  /\ stage = "sort"
  /\ gamers = {}
  /\ gameOverLogs = {}
  /\ slots = <<>>
  /\ reward = "unsent"

-----------------------------------------------------------------------------
(* createLogsForGame.  Chips and points are in units of 1/(80 Grain), in      *)
(* which the percentages are integers; with 420 for Grain, so are the shares  *)
(* of up to eight winners, which are rounded down otherwise.                  *)

Unit == 80 * Grain
GAMER_POINTS_REWARD == 120 * Grain        \* 1.5
TOTAL_WINNERS_POINTS_REWARD == 60 * Grain \* 0.75
WINNER_MULTIPLIER == 70 * Grain           \* 0.875
REFERRAL_MULTIPLIER == Grain              \* 0.0125

\* The accounts named, and not the seats taken, are the chips in the game.
ChipsInGame == Cardinality(gamers)

Winners == {g \in gamers : g.accountId \in Range(Podium)}
\* Mutant: the winners are not taken out.
Everybody == gamers
Losers == gamers \ Winners

\* Mutant: of several entries for an account the last counts.
LastResult(a) ==
  originalResults[Max({n \in DOMAIN originalResults :
                         originalResults[n].accountId = a})]
PlayerResult(a) ==
  originalResults[Min({n \in DOMAIN originalResults :
                         originalResults[n].accountId = a})]

\* A log is written for each gamer whose referrer is missing.
GetsReferralLog(g) == g.referralUserId = NoReferrer

ReferralLog(g) ==
  [type |-> "referral", typeId |-> g.id, userId |-> g.referralUserId,
   gameChips |-> ChipsInGame * REFERRAL_MULTIPLIER, points |-> 0,
   kills |-> 0, deaths |-> 0, headshots |-> 0]

\* A row for the gamer itself, with its stats in the agreed result.
PlayerLog(type, g, gameChips, points) ==
  LET result == PlayerResult(g.accountId)
  IN  [type |-> type, typeId |-> g.id, userId |-> g.id,
       gameChips |-> gameChips, points |-> points, kills |-> result.kills,
       deaths |-> result.deaths, headshots |-> result.headshots]

\* Mutants: the pot goes to each of the winners; mul is written for div.
WholeShare(winnersCount) == ChipsInGame * WINNER_MULTIPLIER
MultipliedShare(winnersCount) == ChipsInGame * WINNER_MULTIPLIER * winnersCount
WinnerShare(winnersCount) == (ChipsInGame * WINNER_MULTIPLIER) \div winnersCount

WinnerLog(g) ==
  LET winnersCount == Cardinality(Winners)
  IN  PlayerLog("winner", g, WinnerShare(winnersCount),
                TOTAL_WINNERS_POINTS_REWARD \div winnersCount
                  + GAMER_POINTS_REWARD)
LoserLog(g) == PlayerLog("loser", g, 0, GAMER_POINTS_REWARD)

BuildLogs ==
  {ReferralLog(g) : g \in {h \in gamers : GetsReferralLog(h)}}
    \cup {WinnerLog(g) : g \in Winners}
    \cup {LoserLog(g) : g \in Losers}

FindByAccountIds ==
  /\ returned
  /\ stage = "sort"
  /\ stage' = "logs"
  /\ \E table \in GamerTables :
       gamers' = {g \in table : g.accountId \in Range(AccountIds(originalResults))}
  /\ UNCHANGED <<sortVars, gameOverLogs, slots, reward>>

InsertGameOverLogs ==
  /\ stage = "logs"
  /\ stage' = "reward"
  /\ gameOverLogs' = BuildLogs
  /\ UNCHANGED <<sortVars, gamers, slots, reward>>

-----------------------------------------------------------------------------
(* distributeRewards, up to the transaction it sends *)

\* Different accounts have different derived addresses.
FindProgramAddress(a) == <<"claimable rewards of", a>>

\* Mutant: the place is tested against the next one.
AboveLast(place) == place < Len(Podium)
Taken(place) == place <= Len(Podium)

DistributeRewards ==
  /\ stage = "reward"
  /\ stage' = "sent"
  /\ slots' = [place \in {p \in 1 .. 3 : Taken(p)} |->
                 [authority |-> Podium[place],
                  account |-> FindProgramAddress(Podium[place])]]
  /\ UNCHANGED <<sortVars, gamers, gameOverLogs, reward>>

(* The instruction's accounts: those of the first place are required, those  *)
(* of the others optional, and an account is derived from its authority.     *)
SetClaimableRewards ==
  /\ stage = "sent"
  /\ stage' = "done"
  /\ reward' =
       IF /\ 1 \in DOMAIN slots
          /\ \A place \in DOMAIN slots :
               slots[place].account = FindProgramAddress(slots[place].authority)
       THEN "accepted" ELSE "refused"
  /\ UNCHANGED <<sortVars, gamers, gameOverLogs, slots>>

-----------------------------------------------------------------------------

PrizeNext ==
  \/ SortNext /\ UNCHANGED prizeVars
  \/ FindByAccountIds
  \/ InsertGameOverLogs
  \/ DistributeRewards
  \/ SetClaimableRewards

\* winnersSort is synchronous code; what follows it may fail (Settlement).
PrizeSpec ==
  PrizeInit /\ [][PrizeNext]_allVars /\ WF_allVars(SortNext /\ UNCHANGED prizeVars)

-----------------------------------------------------------------------------
(* Properties *)

LogsOfType(type) == {log \in gameOverLogs : log.type = type}
Pot == ChipsInGame * Unit

PrizeTypeOK ==
  /\ SortTypeOK
  /\ stage \in {"sort", "logs", "reward", "sent", "done"}
  /\ gamers \in SUBSET UNION GamerTables
  /\ \A log \in gameOverLogs : log.gameChips \in 0 .. Pot /\ log.points \in Nat
  /\ DOMAIN slots \subseteq 1 .. 3
  /\ reward \in {"unsent", "accepted", "refused"}

(* The shares in the logs of a game add up to at most its pot just as long   *)
(* as at most ten of its gamers have no referrer: the winners' 87.5% and     *)
(* 1.25% for each such gamer are computed apart and bounded by nothing.      *)
SharesWithinPot ==
  gameOverLogs # {} =>
    (SumFunction([log \in gameOverLogs |-> log.gameChips]) <= Pot
       <=> Cardinality({g \in gamers : g.referralUserId = NoReferrer}) <= 10)

(* Each gamer row of an account in the agreed result has one log of its own, *)
(* as winner or as loser, and a log of a winner pays more than any loser's.  *)
OneLogPerGamer ==
  gameOverLogs # {} =>
    \A g \in gamers :
      LET own == {log \in gameOverLogs : log.type # "referral" /\ log.userId = g.id}
      IN  /\ Cardinality(own) = 1
          /\ \A log \in own, other \in LogsOfType("loser") :
               log.type = "winner" => log.gameChips > other.gameChips
                                      /\ log.points > other.points

(* The stats logged for a gamer are those of its account's entry with the    *)
(* most kills, also when a report was stored twice or two requests of one    *)
(* reporter were merged: the entry is found by the order of the reports'     *)
(* query, which createLogsForGame itself does not mention.                   *)
BestEntryLogged ==
  \A g \in gamers, log \in gameOverLogs :
    log.type # "referral" /\ log.userId = g.id =>
      \A e \in Range(originalResults) :
        e.accountId = g.accountId => log.kills >= e.kills

(* Logs and reward agree on the winners, although one goes by gamer rows and *)
(* the other by places: the accounts logged as winners are those passed to   *)
(* the program, each once, and no place is left out before a later one, so   *)
(* that the program accepts them: it requires a first place.                 *)
RewardsMatchLogs ==
  stage \in {"sent", "done"} =>
    /\ reward # "refused"
    /\ {slots[place].authority : place \in DOMAIN slots}
         = {g.accountId : g \in {h \in gamers : \E log \in LogsOfType("winner") :
                                                  log.userId = h.id}}
    /\ IsInjective(slots)
    /\ \A place \in DOMAIN slots : 1 .. place \subseteq DOMAIN slots

=============================================================================
