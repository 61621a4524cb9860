# TLA+ models of the SolStrike backend

SolStrike is a shooter whose players pay with chips that they buy on chain and
reserve for play. This backend (NestJS, TypeORM, PostgreSQL, one process) keeps
the chips, lets players take seats in games, collects what the players report at
the end of a game, agrees on a result, credits statistics, writes game-over logs
and triggers the reward transaction on Solana. These modules model that core,
the TLC configurations check it on small instances, and the `…Proofs` modules
prove their safety properties for every instance.

Paths below are relative to the repository root; the code is in `src/`.

## 1. Inventory

| Component | State | Operations | Module |
|---|---|---|---|
| End-game processor, `game/end-game-processor.service.ts` | `isRunning`; the list of games a run read and where it is in it | cron job every second: `runProcessor` → `processFinishedGames` → `processGameResults`; `winnersSort` | `Settlement`, `Overflow`, `WinnersSort` |
| Game service, `game/game.service.ts`, `game.controller.ts` | table `game_party` | `startGame`, `endGame`, `getFinishedGames`, `resolveGameProcessing`, the three `isPlayer…` queries | `ChipLedger` (start), `Settlement` (rest), `Admission` (signatures) |
| Game-over logs, `game-over-log/` | tables `game_over_individual_logs`, `game_over_logs` | `insertIndividualLogs`, `getIndividualEndGameResults`, `createLogsForGame`, the log queries | `Settlement`; shares of the pot: `Prizes` |
| Rewards distribution, `game/rewards-distributions.service.ts` | none (RPC) | `distributeRewards` | `Settlement` (that it is sent, lands or fails), `Prizes` (whom it names) |
| Gamer service, `gamer/gamer.service.ts` | table `gamers` | `fetchOrCreate`, `addReservedChips`, `subtractChips`, `incrementPartyCount`, `distributeGameStatsAndPoints`, season reset, rankings, referral codes, user name | `ChipLedger`, `Settlement`, `Overflow`, `Seasons`, `Admission` |
| Chip listener, `chips/chip-listener.service.ts` | a log subscription | `reserveChipsEvent` → `addReservedChips` | `ChipLedger` |
| Request validators, `utils/validators/` | none (queries) | `IsPlayerInGame`, `IsGameInProgress`, `IsPlayerGameInProgress`, `AccountIdValidator` | `Settlement`; the last one: `Admission` |
| Seasons, `seasons/` | tables `seasons`, `rankings`, `gamers_logs` | `closeCurrent`, `resetCurrent`, rankings and CSV files | `Seasons` |
| Blacklist, `blacklisted/` | table `blacklisted` | create, update, delete, is blacklisted | `Admission` |
| Signatures, `utils/signature.utils.ts` | none | age and signature of a message | `Admission` |
| Schema migrations, `database/pg/migrations/` | constraints, defaults | — | what the services rely on is in the modules |
| IDL of the on-chain program, `utils/idl/` | — | generated | the accounts of `setClaimableRewards`: `Prizes` |
| `reserve-chips.service.ts`, `chips.controller.ts`, `key-value-data/`, `account-not-in-game.validator.ts` | — | no module provides them, or test-only | not modelled |
| `main.ts`, `app.module.ts`, DTO and CSV mappers | — | wiring, renaming of fields | one process over one database: `SolStrike` |

**How they interact.** Requests, cron invocations and log callbacks run in one
Node.js process and interleave exactly at `await`s; they share nothing but the
database and the flag `isRunning`. A game goes through these hands:

    chip listener ──reservedChips──▶ gamers ──startGame (−1 chip)──▶ game_party
                                                                       │ endGame
    gamers ◀─stats── processor ◀──reads── game_over_individual_logs ◀──┤
                        │                                              │ finishedAt
                        ├─▶ game_over_logs
                        ├─▶ game_party.resultsProcessed
                        └─▶ reward transaction (RPC)

**What is hard.** Almost nothing is transactional. `startGame` is five
statements, `endGame` n + 1 statements of which n are issued at once, settling a
game is n + 2 statements and an RPC call; a crash, a rejected promise or another
handler may fall between any two. Closing a season is six. The processor works on a list it read at its
start. Its only guard against itself is a flag in memory. The inserts of a report are readable while
they are incomplete. Reads that guard writes (enough chips, seat free, gamer
missing) do not lock. PROJECT.json lists each of these hazards at its line.

**What makes each component correct.**

- *Processor*: one run at a time; a game is closed once, on a report and not too
  early; logs, credits and rewards follow each other in order and are repeated
  only after failures; a reported game is closed in the end, and no error stops
  the processor for good.
- *Chips*: what events added is what rows hold plus what seats took; a seat costs
  one chip; a chip lost without a seat has a known reason.
- *Podium*: the three best players by kills, deaths and headshots, each once.
- *Seasons*: what gamers collected is logged for a season before it is reset, and
  for one season only; closing a season can succeed.
- *Prizes*: at most the pot is given away; every gamer of a game has its log, from
  its own result; the accounts rewarded are those logged as winners.
- *Admission*: nothing is done for blacklisted accounts but by requests already
  checked; deleting an entry lifts it; stale or undated messages are refused; a
  referral code is used up for somebody.
- *The whole*: rewards are paid out of seats that were sold.

## 2. Modules

### Settlement

The end-game pipeline. A step is one database statement or RPC call with the
synchronous code up to the next `await`.

| Code | TLA+ |
|---|---|
| rows of `game_party` | `parties[g]`, `createdAt[g][a]`, `finished[g]` (`finished_at` set), `resultsProcessed[g]` |
| rows of `game_over_individual_logs` | `individualLogs`: pairs of request and result |
| an `endGame` handler | `phase[e]`, and `unsaved[e]`, its inserts still in flight |
| `isRunning`, the frames of `runProcessor` | `isRunning`, `run[i]`: stage, list read by `getFinishedGames` (`snapshot`, `todo`), game in hand (`current`), reports read (`fetched`), agreed report, updates still to be executed |
| additive updates of `gamers` | `statUpdates[g][a]`: how many were executed; `orphaned`: those left in flight by a rejected `Promise.all` |
| rows of `game_over_logs`, reward transactions | `gameOverLogs[g][a]`, `rewardTxs[g]`: how many |
| the branch that closed a game | `outcome[g]` (a history variable; the code does not record it) |

`StartGame` is the insert at the end of `startGame`. `EndGame`, `SaveLog`,
`FinishParty` are `POST /games/over`: validation, then each insert, then the
update of `finished_at`. `FetchParties`, `FilterProcessed` are the two queries
of `getFinishedGames`; `NextGame`, `ReadReport`, `SkipGame`, `DecideCancel`,
`DecideSettle` the decision; `CreditPlayer`, `WriteGameOverLogs`,
`ResolveSettled`, `SendRewardTx` the settlement in the order of the code;
`ResolveCanceled` the other branch; `EndRun` and `Abort` the `finally` block.

A result (kills, deaths, headshots of an account) is a record of the account and
one abstract score; a report is the bag of the results a reporter has in the
table, since the code compares reports by a hash of the sorted rows. The vote is
translated as it is written: equal reports are one entry of the map that is
counted, so every count is one. `@IsPlayerInGame` of a nested result is modelled
as it works, with a `gameId` that is undefined. Signatures and the blacklist are in `Admission`.

Faults are counted (`MaxFaults`) and of three kinds: `db`, a rejected statement;
`rpc`, a rejected call of `distributeRewards`, whose transaction may have landed;
`crash`, the death and restart of the process with everything in memory lost and
the tables kept.

### SettlementContract

The abstract specification: a game is open, settled or canceled; it may be
logged while it is open, settled once logged, canceled at any time while open,
and paid once after it was settled. `SettlementProperties` instantiates it with
`verdict <- outcome, logs <- gameOverLogs, paid <- rewardTxs`.

### SettlementProperties

Type invariant, the inductive invariant `IInv` with its parts, safety, the
refinement, liveness, and the statements of comments and annotations that the
code does not keep.

### ChipLedger

`table gamers` as rows (`Rows` bounds how many), because an account may have
several. `FetchOrCreate`/`SaveGamer` are `GET /gamers/:accountId`;
`FindDepositor`/`AddReservedChips` the chip listener; `VerifyUniquePlayer`,
`CheckChips`, `SubtractChips`, `IncrementPartyCount`, `InsertParty` are
`startGame`. A READ COMMITTED transaction is its read and its update with commit.
The unique constraint on `game_party(hash, account_id)` is in `InsertParty`,
where it bites: after the chip was taken. Chips are base units
(`UnitsPerChip`, 10^9 in production), since events carry arbitrary amounts. A
handler that fails on a missing gamer or too few chips ends `refused`; one that
took a chip and got no seat ends `stranded`. Events may be missed at any time
(`MissEvent`) without being counted: `faults` counts crashes, which are the only
fault that costs somebody a seat (`StrandedByCrashOrRace`).

### WinnersSort

`findWinners` as operators, the loop of `winnersSort` as actions: `Round`
computes the winners of what is left, `Place` handles one of them, `Return`
leaves the loop. `PodiumIsRanking` compares the outcome with a definition of the
ranking that does not mention rounds (`Outranks`).

### Seasons

The admin's requests to close and to reset a season, while games credit gamers.
A step is one statement, as above: `CreateSeason`, `GetRanking`, `SaveRanking` or
`RankingRefused`, `ReadGamers`, `InsertGamersLogs`, `ResetAfterClose` are
`closeCurrent` in its order, `ResetCurrent` is `POST /seasons/current/reset`;
`CreditPlayer` and `IncrementPartyCount` are what games do meanwhile, for accounts
that have joined one. Requests are not kept apart by anything in the code.

The sums in `gamers` (points, kills, deaths, headshots) change only by additive
updates and by being set to 0, so a row is represented by the set of updates
summed up in it, `counted`, and what a handler read, a ranking or a log by such a
set. `partied` are the gamers whose party count is above 0. A credit carries
whether it gives points, because the ranking takes only gamers with points and a
party. `closing[s].read` is what the handler of season `s` holds in memory.

`rankingTable` says which table `rankings` there is: `migrated`, the one of the
migrations, which refuses every row that the entity `Ranking` writes, or `entity`,
one changed to fit the entity. With the first no closing with a ranked gamer gets
past saving the ranking; the second is there so that the rest of `closeCurrent` is
checked as well. `credited`, `late`, `discarded` and `overlapped` are history
variables; the code records none of them. `late[s]` are the credits executed between
the copy and the reset of closing `s`, and `overlapped` the pairs of closings one of
which copied while the other was between copy and reset.

That credits in the window of a closing are lost is what the code does: nothing
prevents it, and `CreditsArchived` says that nothing else is lost. It exempts the late
credits of closings that went through; what is late for a closing that failed must
still be counted or logged, and so must everything else when closings overlap.
`LoggedForOneSeason` is about pairs: two seasons log one credit only if one of the two
failed after its copy, or if these two overlapped. Faults and overlaps of others
excuse nothing.

### Overflow

`Settlement` with the width of the columns `kills`, `deaths`, `headshots`, which
are `integer` while reports are bounded only below. One sum, `kills[a]`, stands
for the three, and the score of a result is what it adds. `CreditFits` is
`CreditPlayer` where the sum stays within `MAX_INT`; `CreditOverflows` is the
update the database rejects: `Promise.all` rejects, `runProcessor` ends by its
`finally`, and the updates issued with it are executed all the same, or rejected
unseen (`OrphanOverflows`). The next run finds the game open and starts over.
Nothing but `resetPointsForAll` makes room again.

### Prizes

What follows `winnersSort` when a game is settled, over `WinnersSort`:
`FindByAccountIds` and `InsertGameOverLogs` are `createLogsForGame`,
`DistributeRewards` chooses the accounts passed to the program and
`SetClaimableRewards` is the instruction's account list (first place required,
the others optional, accounts derived from authorities; external). The table
`gamers` is one of several contents (`GamerTables`): with and without referrers,
with two rows for an account, and with more gamers than the pot has referral
shares for. Chips and points are counted in units of 1/(80 `Grain`), in which the
percentages of the code are whole; a share among several winners is rounded down to
the unit, where the code has a binary fraction.
`buildReferralLogs` is translated as written: it writes a log for each gamer
*without* a referrer. That these statements may fail and be repeated is in
`Settlement`.

### Admission

Who is let in, and the requests `GamerService` answers itself. Admins create,
change and delete entries of `blacklisted_accounts` (`CreateBlacklisted`,
`UpdateBlacklisted`, `DeleteBlacklisted`) while requests are received, every
account they name is asked about by a query of its own (`CheckAccountId`), signed
ones have signature and age checked (`VerifySignature`), and then a gamer is
created (`FetchOrCreate`, `SaveGamer`), renamed (`UpdateUsername`), or a referral
code is used: `FindGamer`, `FindReferrer`, `MarkUsed`, `SetReferrer`, the four
statements of `useReferralCode`. `stage[q]` is where a handler is; `offList` is a
history variable.

The end of a signed message that is no number becomes `NaN`. `useReferralCode`
signs off on the fixed message `Use referral code`, which has no time, so that as
the code stands **no referral code is ever accepted**: with `signedAt = NaN` no
request gets past `VerifySignature`. As with the two tables of `Seasons`, the
instance also has requests with a dated message, so that the code behind the
check is checked as well: `ReferrerMarked`, `UsedCodeRefers` and the theorems about
them (`CodesMarked`, `CodesNotWasted`) are about code that no request reaches today.

### SolStrike

`Settlement` and `ChipLedger` (an `INSTANCE` under its own fault counter) over one
`parties`, which is where they meet: the insert that ends `startGame` is
`InsertParty` and `StartGame` at once (`PlayerJoins`), a refused one is the
ledger's alone, and a crash is one of both. `PartsKept` is the refinement: every
behaviour of the whole is one of each part. Seasons are not composed with it, so
`CreditedAreRanked` is about one season: `resetPointsForAll` sets party counts to 0,
and who is credited for a game that began before is then ranked only once another
party is counted.

### …Proofs

`SettlementProofs`, `ChipLedgerProofs`, `SeasonsProofs`, `AdmissionProofs`,
`PrizesProofs` (which is also about `WinnersSort`), `OverflowProofs` and
`SolStrikeProofs` hold the theorems about the modules they are named for, see
section 5. `OverflowProofs` and `SolStrikeProofs` use those about `Settlement`, and
`SolStrikeProofs` those about `ChipLedger`, through instances of `ChipLedgerProofs`.
`SumLemmas` holds what four of them (`ChipLedgerProofs`, `PrizesProofs`,
`SettlementProofs`, `OverflowProofs`) need about sums over sets.

`MC*` modules hold the finite sets of requests the runs use.

## 3. Runs

| Run | Configuration | Shows |
|---|---|---|
| `settle_two` | one game, two accounts, four requests (agreement, dispute, one claim sent twice), two invocations, one fault of any kind | type invariant, `OneRunAtATime`, `ClosedOnce`, `RunIsCurrent`, `LogsNeverOutrunCredits`, `RepetitionsNeedFaults`, `ClosedOnReport`, `BooksBalance`, and that the pipeline implements its contract |
| `settle_three` | one game, three accounts, two of three reports agree, clock up to 2 | `EarlyCloseNeedsThreeReports`, `OnlyPlayersCredited`, and `LateSeatsStay`: a seat taken after the closing is touched by no run |
| `settle_live` | `Overflow`: two games in one queue whose results do not both fit, one season's end, one crash or failed reward call, fairness | `WidthTypeOK`, `CreditsPerStoppedRun`, `ReportedGamesClose`, `RunsEnd` |
| `chips` | two accounts, three rows, visits, deposits, two requests for one seat, one crash and any missed events | `LedgerTypeOK`, `ChipsConserved`, `PartiesPaidOnce`, `StrandedByCrashOrRace` |
| `seasons` | two gamers, two credits, three closings, one reset, one crash or failed statement, both tables `rankings` | `TypeOK`, `CreditsArchived`, `ClosedSeasonsAreOver`, `LoggedForOneSeason` |
| `podium` | `Prizes`: every ordered list of up to four entries of four accounts over five scores, and one of twelve accounts, with five contents of table `gamers` | `PodiumIsRanking`, `Terminates`, `PrizeTypeOK`, `SharesWithinPot`, `OneLogPerGamer`, `BestEntryLogged`, `RewardsMatchLogs` |
| `whole` | `SolStrike`: two players, three requests for two seats, one report, any missed events and a crash or a failed reward call | `RewardsPaidFor`, `CreditedAreRanked`, `PartsKept` |
| `let_in` | `Admission`: any two of ten requests of four accounts, two entries of the blacklist, one crash or failed statement | `AdmissionTypeOK`, `BlacklistTakesHold`, `DeletionLifts`, `ReferrerMarked`, `UsedCodeRefers`, `UndatedRefused` |

Three properties state what is true rather than what one might wish, exactly:
`SharesWithinPot` says that the logged shares stay within the pot *if and only if*
at most ten gamers of the game have no referrer (87.5% + 10 · 1.25% = 100%, up to
the rounding of section 7), and
`ReportedGamesClose` that a reported game is closed *unless* some game of the queue
holds a result that cannot be added, in which case runs end at that game, before
those behind it. `CreditsPerStoppedRun` bounds what a stuck game credits *while* the
history variable `overflows` counts the rejected updates. Without that condition it
is false, which its proof brought out and a run of `Overflow` with a larger number of
retries confirmed: once the variable is at its bound, a result that adds nothing
(score 0, which always fits) is credited again by every retry of a game that another
result keeps from being settled.

Four further runs show that the code does not do what a line of it says; each
has one property and ends in a counterexample:

| Run | The code says | The run shows |
|---|---|---|
| `majority` | "Get the most common game result" | two equal reports and one other: canceled. Equal reports are merged before they are counted |
| `torn_report` | "Result inconsistences found" | both players send the same result and the game is canceled: one report was read half inserted |
| `overdraft` | "Gamer does not have enough chips." | two requests take the same last chip |
| `season_schema` | `@Column({ name: 'party_count' })`, `@JoinColumn({ name: 'user_id' })` | closing a season with a ranked gamer fails after the season was stored: the migrations' table has no `party_count`, and `user_id`, which is not written, must not be null |

More such divergences are in the models without a run of their own:

- the rows of a repeated report are stored twice, since the migrations lack the
  `@Unique` that `GameOverIndividualLog` declares, and the account is credited
  twice: the bound of `BooksBalance` is one update per request of the reporter that
  names the account, and no smaller one holds, even where nothing fails;
- two first visits of an account create two gamers, which is why `ChipLedger` has
  rows and `ChipsConserved` adds them up, and `Prizes` has tables with twins;
- "we need to wait for the game to finish" (`end-game-processor.service.ts:89`):
  one row of an unordered query is looked at, so `MayDecide` quantifies over the
  first row, and a game may be decided while another of its parties is still
  within its time;
- `@IsPlayerInGame()` on the account of a nested result reads `gameId` from the
  nested object, which has none (`player-game.validator.ts:21`): `IsPlayerInGame`
  asks for a row of any game, and `OnlyPlayersCredited` says what is left of the
  check (it does not say that the accounts credited are the game's);
- the filter of `buildReferralLogs` (`game-over-log.service.ts:152`) keeps the
  gamers without a referrer, `GetsReferralLog`, and logs their missing referrer;
- the fixed referral message is never fresh (`gamer.service.ts:220`,
  `signature.utils.ts:43`), see `Admission`.

**Bounds, and why they are enough.**

- *Clock*: only whether a row is older than duration + time-out matters. They
  are 1 and 0, so the clock values 0, 1, 2 give rows that are young, rows that
  are exactly at the limit and rows of both kinds in one game. Rows are created
  only while the clock can still outlive them (`StartGame`); otherwise the
  liveness property would fail only because the model's clock ends.
- *Accounts*: two parties are the least a game is processed with; three are
  where the rule for fewer than three reports changes and a majority exists.
- *Games*: the processor handles games one after the other and nothing relates
  two of them but the queue; one for safety, two for the queue.
- *Invocations*: two, so that a second cron tick meets a run in progress.
- *Faults*: one at any point; events the chip listener misses are not counted among
  them and all may be missed. A second one repeats a run that starts from tables
  which one fault already left half written; `RepetitionsNeedFaults` states the
  dependency on their number, and the theorems hold for any number.
- *Requests*: each is sent at most once; a retry is a request of its own with the
  same body, as the fourth of `settle_two` is one of the third.
- *Chips*: amounts of one and a half chips and of one chip, so that balances
  stop above, at and below the price of a seat.
- *Seasons*: three closings, which follow each other, overlap or fail and are
  retried, so that two of them can be told from a third that overlaps or fails
  beside them, and a reset that falls into or between them; one credit with points
  and one without, for a gamer who is then in no ranking. Either can be early or late.
- *Lists*: five scores separate every comparison of `findWinners`; lists of four
  entries have one more than the podium, and accounts occur repeatedly. The one
  list of twelve is there because more than ten gamers are needed for the shares to
  exceed the pot; eleven and twelve without referrers are on one side of the bound,
  ten on the other. `Grain` 420 makes the shares of up to eight winners whole, so that
  the run rounds nothing.
- *Width*: `MAX_INT` 1 and scores of 0 and 1: a sum that is full after one update. One
  update may be left in flight per result, one season ends.
- *Admission*: two requests at a time, out of ten that cover every kind, supported,
  unsupported and new accounts, signed and unsigned, fresh, stale and undated
  messages, two codes of one gamer and one's own code. Interference of requests is
  pairwise; the theorems hold for any number. Maximal age 0 and a clock of one tick
  give messages on both sides of the limit. Two entries are what a duplicate needs.
- *The whole*: one game and two players are the least that is rewarded; two requests
  for one seat race in the ledger.

Symmetry is used where values are interchangeable and no liveness is checked:
invocations in the safety runs of `Settlement`, rows in `chips` and `whole`,
closings in `seasons`, entries of the blacklist in `let_in`.

**Deadlock** is checked for `Settlement`, `Overflow` and `SolStrike`, where a next
cron tick is always possible, and `Admission`, where an admin may always act.
`ChipLedger`, `Seasons` and `Prizes` handle finitely many requests or one list and
stop.

## 4. Fairness

`FairSpec` assumes that time passes, that the cron job is fired again and again
(`EVERY_SECOND`), and that a run which has begun takes its next step as long as
it has one: every `await` in it settles, by an answer or by a rejection, and
Node.js resumes it. Nothing is assumed of clients, nor of failures, which may
happen instead of the step they replace. A run's steps are one fairness
condition per invocation, since a run has no choice of its own besides the order
in which concurrent statements execute. `settle_live` counts a crash and a
rejected reward call among its faults. `WidthFairness` is the same for `Overflow`,
and adds that an update left in flight by a rejected `Promise.all` is answered
some time, since the database has it; that a season ends is not assumed.
`winnersSort` is synchronous code and simply runs; in `Prizes` nothing is assumed of
the statements after it, which may fail.

That winners are paid eventually is not a property of the code: nothing retries a
reward transaction once a game is marked as processed, nor asks for missed events.

## 5. Proofs

For every finite set of requests to end a game, any sets of games, accounts, rows and
invocations, any lists of results and any bounds of clock, faults and counters. What
is assumed of the constants is named where they are declared:

| Module | Assumptions | Why the code justifies them |
|---|---|---|
| `Settlement` | `RequestsAssumption`, `ClockAssumption`, `FaultsAssumption` | requests are finitely many, well formed and name games and accounts of the instance; the rest are naturals |
| `ChipLedger` | `ActorsAssumption`, `UnitsAssumption`, `LedgerFaultsAssumption` | requests and events are well formed, an event adds no negative amount, no request is an event; a chip is a positive number of units |
| `WinnersSort` | `ListsAssumption` | the processor drops empty reports before it agrees on one; scores are validated to be at least 0; the query that reads a report orders it by kills |
| `Prizes` | `TablesAssumption`, `GrainAssumption` | ids of gamers are a key, and every reported account has a gamer because it has a seat; units are fine enough that no winner's share of the points is rounded down to nothing |
| `Overflow` | `WidthAssumption` | bounds are naturals and a single score fits its column, without which not even the first update would be executed |
| `Seasons` | `CreditsAssumption`, `SeasonFaultsAssumption`, `RankingTablesAssumption` | credits are for gamers of the instance; faults and tables are of the kinds named |
| `Admission` | `RequestsAssumption`, `RowsAssumption`, `BoundsAssumption` | requests are well formed; ids of rows are positive; `NaN` is no number |
| `SolStrike` | `PartsAssumption` | those of `ChipLedger`, which it instantiates |

Every invariant and every action property that a passing run checks is proved.

| Theorem | States |
|---|---|
| `TypeCorrect` | `Spec => []TypeOK` |
| `ProcessorInvariant` | `Spec => []IInv` |
| `MutualExclusion` | `Spec => []OneRunAtATime` |
| `ClosedAndPaidOnce` | `Spec => []ClosedOnce` |
| `WorkStaysCurrent` | `Spec => []RunIsCurrent` |
| `ContractHolds` | `Spec => ImplementsContract` |
| `CreditedBeforeLogged` | `Spec => []LogsNeverOutrunCredits` |
| `RetriesNeedFaults` | `Spec => []RepetitionsNeedFaults` |
| `BooksAgree` | `Spec => []BooksBalance` |
| `PlayersCredited` | `Spec => []OnlyPlayersCredited` |
| `ClosedWhenReported` | `Spec => []ClosedOnReport` |
| `EarlyCloseOnThreeReports` | `Spec => []EarlyCloseNeedsThreeReports` |
| `LateSeatsUntouched` | `Spec => LateSeatsStay` |
| `SeasonsTypeCorrect` | `Spec => []TypeOK`, of `Seasons` |
| `NothingLostOutsideWindow` | `Spec => []CreditsArchived` |
| `NothingLoggedAgain` | `Spec => []ClosedSeasonsAreOver` |
| `OneSeasonPerCredit` | `Spec => []LoggedForOneSeason` |
| `LedgerTypeCorrect` | `LedgerSpec => []LedgerTypeOK` |
| `SeatsPaidOnce` | `LedgerSpec => []PartiesPaidOnce` |
| `StrandedExplained` | `LedgerSpec => []StrandedByCrashOrRace` |
| `ChipsAddUp` | `LedgerSpec => []ChipsConserved` |
| `PodiumRanks` | `PrizeSpec => []PodiumIsRanking` |
| `PrizeTypeCorrect` | `PrizeSpec => []PrizeTypeOK` |
| `SharesAreBounded` | `PrizeSpec => []SharesWithinPot` |
| `EachGamerLogged` | `PrizeSpec => []OneLogPerGamer` |
| `BestEntriesLogged` | `PrizeSpec => []BestEntryLogged` |
| `RewardsAreLogged` | `PrizeSpec => []RewardsMatchLogs` |
| `WidthsKept` | `WidthSpec => []WidthTypeOK` |
| `StopsBoundCredits` | `WidthSpec => []CreditsPerStoppedRun` |
| `ContractSurvivesOverflows` | `WidthSpec => ImplementsContract` |
| `RejectedNotLogged` | `WidthSpec => []LogsNeverOutrunCredits` |
| `OverflowsLogNothing` | `WidthSpec => []RepetitionsNeedFaults` |
| `OverflowsCloseOnReports` | `WidthSpec => [](ClosedOnReport /\ EarlyCloseNeedsThreeReports)` |
| `OverflowsCreditPlayers` | `WidthSpec => []OnlyPlayersCredited` |
| `RetriesLeaveLateSeats` | `WidthSpec => LateSeatsStay` |
| `PartsImplemented` | `SystemSpec => PartsKept` |
| `RewardsAreFunded` | `SystemSpec => []RewardsPaidFor` |
| `CreditsAreRanked` | `SystemSpec => []CreditedAreRanked` |
| `AdmissionTypeCorrect` | `AdmissionSpec => []AdmissionTypeOK` |
| `CodesMarked` | `AdmissionSpec => []ReferrerMarked` |
| `CodesNotWasted` | `AdmissionSpec => []UsedCodeRefers` |
| `UndatedNeverPass` | `AdmissionSpec => []UndatedRefused` |
| `BlacklistHolds` | `AdmissionSpec => BlacklistTakesHold` |
| `BansLifted` | `AdmissionSpec => DeletionLifts` |

**The argument.** That a game is paid at most once is not inductive: it rests on
the run that pays holding a settled and unpaid game, which rests on no other run
having touched that game since this one read it as open, which rests on there
being no other run. So the inductive invariant `IInv` is the conjunction of

- `OneRunAtATime`: the flag is set exactly while one invocation is active;
- `ClosedOnce`: the marks in `game_party`, the verdict, the logs and the reward
  of a game agree;
- `RunIsCurrent`: for the active run, at each stage, what it still has to do and
  the game in hand are open, have two parties, and at the stage of the reward the
  game is settled and unpaid.

`RunStepIInv` goes through the steps of a run, `NextIInv` through clients, faults
and crashes; clients only add parties (`PartiesJoin`), which every part survives,
and steps that touch neither verdicts nor ledgers share `QuietStep`. The
refinement is then one step: with `IInv`, each action is a step of the contract or
leaves its variables alone (`ContractStep`); it is `RunIsCurrent` that gives the
contract's guards.

The other properties are inductive only with more, each with an invariant of its
own on top of `IInv` (in `SettlementProperties`, where TLC can evaluate them):

- `LedgerInv`, for logs and credits: while a run is crediting, every account
  whose update it has executed is ahead of its logs, so it may be logged once
  more (`CreditsPrecedeLogs`); and the one log that needs no failure is there
  only if the game is closed or about to be (`LogsPerFault`).
- `BooksInv`, for the balance: without a failure no update is left in flight, an
  account of the game being credited has been credited exactly if one of the
  agreed results for it has been executed, and from the logs on the two agree.
- `RowsInv`, `FetchedInv`, `CreditsBacked` (in `SettlementProofs`), for whose report is
  credited: the rows in the table, or in flight to it, are those of a request that
  names each account once, so a report that was read holds no more updates of an
  account than the reporter sent requests that name it (an injection of rows into
  requests, then a sum over the results of the account); what has been credited and
  what the run has still to credit together stay within one such report.
- `PlayersInv`, for who is credited: a result names an account that has joined
  some game wherever it is on its way (in flight to the table, in the table, read,
  agreed, waiting to be executed, left behind).
- `ReportsInv`, for when a game is decided: what a run has fetched is in the
  table and from parties of the game, and what it has decided to settle or cancel
  was due; `StillDue` shows that what is due stays due, since rows are only added
  and parties grow older.

In `Seasons`, two more:

- `ArchiveInv`: between its copy and its reset a closing has read, or logged,
  everything that counts except what is late. This survives the resets of other
  closings because they only make the set of what counts smaller, and it is why a
  reset loses nothing outside the window, whoever else is at work.
- `SeparateInv`: two closings that are both between copy and reset are recorded as a
  pair that overlaps (`CopiesOverlap`), and what one has read is logged for another
  season only if the other failed or the two are such a pair, whatever else failed
  or overlapped. This needs that what a season closed to its end has logged counts
  no more (`ClosedSeasonsAreOver`), which holds because a reset takes everything and
  no update is executed twice.

`LateSeatsUntouched` is an action property: a step marks rows only in the hand of a
run that resolves its game, and by `RunIsCurrent` that game is open.

In `Admission`, the invariant `AInv` says how far a request can have come on what:

- `ChecksInv`: while a request is checked, `offList` holds each of its accounts
  that is off the blacklist now or was when it was asked about; once it is admitted,
  all of them. This is what `BlacklistHolds` draws on at the step of a handler.
- `DatedInv`: whoever is past the check of messages has a dated one.
- `GamerInv`, `UsedInv`: a request that refers holds a gamer of its account that had
  no referrer, and another one as its referrer; a code that is marked was marked by
  a request that is still to write, has failed after a fault, or is done, and then
  it or another request that read the same gamer wrote the referrer that is there
  (`DoneInv`): the race is the only way besides a fault to waste a code.
- `UniqueInv`: no account has two entries.

In `ChipLedger`, `PartiesPaidOnce` counts requests, which no step lets one reason
about directly. `SeatInv` says instead which they are: a taken seat was taken by a
set of exactly one request, a free one by none; the unique constraint of
`game_party` keeps it so at the insert, the one step that may give a seat. The
counts follow. `StrandedByCrashOrRace` is inductive: no step of the ledger gives a
seat back, so whoever lost a race sees the winner's row ever after.

`ChipsConserved` is about sums over sets of any size: `HoldersInv` says that the rows,
the charges and the credits an account has at any time are finitely many, that who is
about to change a row holds one of its account, and that an unused row is empty. A
step then changes one row by what it adds to, or takes from, the other side of the
equation.

Sums are folds over sets of the community modules. `SumLemmas` proves what is needed of
them (the sum of a set with one element more, of a union, of a function changed at one
place, of two functions) by well-founded induction on the finite sets under inclusion,
a theorem that is about sets and not about an operator and that this prover can use:
`SubsetInduction` says that a family of subsets which contains a set as soon as it
contains all its proper subsets contains every finite one.

In `WinnersSort`, that a player is placed well says nothing of the next round. The
inductive `RankingInv` is: who is not placed yet still has all its entries in the
list; who is placed, or about to be, has an entry that none left in the list beats
(`Unbeaten`); and nobody is placed below one it outranks. Rounds only take entries
off the list, so the second part survives them, and the first makes the next round
look at everybody who could outrank those it finds.

`PrizesInv` then says what each stage has computed: the gamers are those of the players,
the logs are `BuildLogs` of them, the slots those of the podium. The properties of
`Prizes` follow without a further induction: `SharesWithinPot` by adding up the
shares of winners and of referral logs, `BestEntryLogged` from the order of the list,
`RewardsMatchLogs` from the injectivity of the podium and from every player having a
gamer.

`Overflow` has steps that `Settlement` has not: a rejected update ends a run as a fault
does, but is none. `StepKinds` says that its other steps are those of `Settlement`, so
that the lemmas about them apply; `RejectionQuiet` says what a rejected update leaves
alone, which is why the contract, the order of credits and logs, the conditions of
closing, who is credited and late seats survive it (`PipelineInvariant`). `BooksBalance` does not: its condition is
that there were no faults, and an overflow leaves updates in flight without one. For
`CreditsPerStoppedRun`, `SpentInv` counts the updates of an account in a game that have
been executed or left in flight, plus those the run in hand has still to issue: they
are within what the stopped runs had agreed on and one run more, that of the run which
closes the game. It needs that no report that was read names an account more often
than requests do (`RowsInv`, `FetchedInv`, which the new steps keep by the lemmas of
`SettlementProofs`).

For the whole, `StepOfBoth` shows each step of `SolStrike` to be one of each part or to
leave it alone. The invariants of the parts then meet in `parties`: a rewarded game is
settled, so it has two parties (`ReportsInv`), and each of them is the seat of exactly
one request (`SeatInv`); who is credited has a seat, and whoever has one had its parties
counted on the way (`CountInv`, a further invariant of `ChipLedger`).

TLC finds these invariants kept on the instances of the runs too (on shorter lists in
`Prizes`), and on that of `settle_live` also what section 5 states of `Overflow` beyond
the run's own properties.

**Only model-checked**: the liveness properties `ReportedGamesClose`, `RunsEnd` and
`Terminates`, since fairness is beyond this prover. That the two statements of the code
in `majority` and `torn_report`, the check of chips in `overdraft` and the closing of a
season in `season_schema` fail is shown by counterexamples of TLC.

## 6. Plan

Written, in this order: `Settlement`, `SettlementContract`, `SettlementProperties`,
`SettlementProofs`, `ChipLedger`, `WinnersSort`, `Seasons`, `SeasonsProofs`, `Prizes`,
`Overflow`, `SolStrike`, `Admission`, `AdmissionProofs`, `ChipLedgerProofs`,
`SumLemmas`, `SolStrikeProofs`, `PrizesProofs`, `OverflowProofs`. Next:

1. The safety half of termination of `winnersSort`: each round takes at least as many
   entries off the list as it has winners, so a bound on the number of its steps is an
   invariant.
2. An abstract specification of `Admission` (who may act) and of `Seasons` (what a
   season logs), with refinements, as `SettlementContract` is for the pipeline.

## 7. Not modelled, and why

- The on-chain program: its source is not in this repository; what it does with a
  reward transaction is outside.
- Cryptography: whether a signature is that of the account is a property of a
  request in `Admission`; in `Settlement` and `ChipLedger` requests are taken as
  admitted.
- Reads that feed pages and CSV files only: `getStatistics`,
  `getLeaderboardPositions`, the `findAll` of blacklist and seasons, `exportCsv`.
- That `useReferralCode` never asks whether the *referrer* is blacklisted: no line
  of the code says it should.
- Classes that no module provides, framework wiring, mappers.
- Migrations as a process: they are run once, by hand; their constraints and
  defaults are in the modules. Migration `1726691330242-game-over-logs-update-gamer.ts`
  defines a function `after_insert_game_over_logs_update_gamer_chips`, which would add
  to a gamer's statistics on every log that is inserted; no migration creates a trigger
  that calls it, so it never runs and is left out.
- The rounding of shares: `Big.js` rounds half up at its last decimal, the model
  rounds down. At exactly ten gamers without a referrer the stored shares of several
  winners of one place may exceed the pot by about 5 · 10^-16, which `SharesWithinPot`
  does not see.
- A refund for a seat taken in a closed game: `LateSeatsStay` says its row stays
  unprocessed, and no document promises more.
