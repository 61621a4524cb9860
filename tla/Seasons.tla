------------------------------- MODULE Seasons -------------------------------
(***************************************************************************)
(* Seasons: POST /seasons/current/close stores a new season, its ranking   *)
(* and a copy of all gamers, and resets what gamers have collected, in     *)
(* separate statements; POST /seasons/current/reset only resets.  Both run *)
(* while the end-game processor goes on crediting gamers.                  *)
(*                                                                         *)
(* The points, kills, deaths and headshots of table gamers are sums, and   *)
(* every credit is one additive UPDATE; they are modelled by the set of    *)
(* the credits summed up in them.                                          *)
(***************************************************************************)
EXTENDS Integers, FiniteSets

CONSTANTS
  Gamers,                   \* rows of table gamers
  Credits,                  \* updates of distributeGameStatsAndPoints
  Closings,                 \* POST current/close requests, each with its season
  Resets,                   \* POST current/reset requests
  RankingTables,            \* what table rankings may be, see RankingTable
  Faults, MaxFaults         \* kinds of fault that may happen, and how many

(***************************************************************************)
(* A credit is a record [id, gamer, points]: points is 3 * kills - deaths, *)
(* at least 0, of which only 0 or more than 0 matters.                     *)
(***************************************************************************)
ASSUME CreditsAssumption ==
  \A c \in Credits : c.gamer \in Gamers /\ c.points \in Nat

ASSUME SeasonFaultsAssumption == Faults \subseteq {"crash", "db"} /\ MaxFaults \in Nat

(***************************************************************************)
(* The migrations create rankings with a user_id that must not be null and *)
(* without party_count; the entity Ranking writes party_count and leaves   *)
(* user_id out.  "entity" is a table made to fit the entity.               *)
(***************************************************************************)
ASSUME RankingTablesAssumption == RankingTables \subseteq {"migrated", "entity"}

VARIABLES
  rankingTable,             \* the table there is
  counted, partied,         \* table gamers: credits summed up; party > 0
  joined,                   \* gamers who have ever joined a game
  closing, resetDone,       \* the handlers
  seasons, rankings, gamersLogs,    \* the tables, by the season of a closing
  faults,
  \* history: credits executed; by closing, those executed after it had copied
  \* the gamers and before it reset them; those reset on request; the pairs of
  \* closings one of which copied the gamers between copy and reset of the other
  credited, late, discarded, overlapped

gamerVars   == <<counted, partied, joined>>
seasonVars  == <<seasons, rankings, gamersLogs>>
historyVars == <<credited, late, discarded, overlapped>>
vars == <<rankingTable, gamerVars, closing, resetDone, seasonVars, faults, historyVars>>

ClosingStages == {"unsent", "ranking", "save", "copy", "insert", "reset", "done", "failed"}
Unsent == [stage |-> "unsent", read |-> {}]

Init ==
  /\ rankingTable \in RankingTables
  /\ counted = {} /\ partied = {} /\ joined = {}
  /\ closing = [s \in Closings |-> Unsent]
  /\ resetDone = [r \in Resets |-> FALSE]
  /\ seasons = {}
  /\ rankings = [s \in Closings |-> {}]
  /\ gamersLogs = [s \in Closings |-> {}]
  /\ faults = 0
  /\ credited = {} /\ discarded = {} /\ overlapped = {}
  /\ late = [s \in Closings |-> {}]

-----------------------------------------------------------------------------
(* Games go on *)

\* incrementPartyCount, called by startGame.
IncrementPartyCount(a) ==
  /\ partied' = partied \cup {a}
  /\ joined' = joined \cup {a}
  /\ UNCHANGED <<rankingTable, counted, closing, resetDone, seasonVars, faults,
                 historyVars>>

\* The closings that have copied the gamers, to log the copy or to reset.
Copied == {s \in Closings : closing[s].stage \in {"insert", "reset"}}

\* One UPDATE of distributeGameStatsAndPoints, for somebody who joined a game.
CreditPlayer(c) ==
  /\ c \in Credits \ credited
  /\ c.gamer \in joined
  /\ counted' = counted \cup {c}
  /\ credited' = credited \cup {c}
  /\ late' = [s \in Closings |-> late[s] \cup IF s \in Copied THEN {c} ELSE {}]
  /\ UNCHANGED <<rankingTable, partied, joined, closing, resetDone, seasonVars,
                 faults, discarded, overlapped>>

-----------------------------------------------------------------------------
(* closeCurrent *)

Move(s, stage) == closing' = [closing EXCEPT ![s].stage = stage]

\* Mutant: the season is only created in memory (repository.create).
NotStored(s) == s \in Closings /\ UNCHANGED seasons
Store(s) == seasons' = seasons \cup {s}

CreateSeason(s) ==
  /\ closing[s].stage = "unsent"
  /\ Move(s, "ranking")
  /\ Store(s)
  /\ UNCHANGED <<rankingTable, gamerVars, resetDone, rankings, gamersLogs, faults,
                 historyVars>>

\* getRanking: the gamers with points and a party, with what they collected.
HasPoints(a) == \E c \in counted : c.gamer = a /\ c.points > 0
Ranking == {c \in counted : HasPoints(c.gamer) /\ c.gamer \in partied}

GetRanking(s) ==
  /\ closing[s].stage = "ranking"
  /\ closing' = [closing EXCEPT ![s] = [stage |-> "save", read |-> Ranking]]
  /\ UNCHANGED <<rankingTable, gamerVars, resetDone, seasonVars, faults, historyVars>>

\* rankingsRepo.save: nothing to insert, or rows the table takes.
Fits(s) == closing[s].read = {} \/ rankingTable = "entity"

SaveRanking(s) ==
  /\ closing[s].stage = "save"
  /\ Fits(s)
  /\ closing' = [closing EXCEPT ![s] = [stage |-> "copy", read |-> {}]]
  /\ rankings' = [rankings EXCEPT ![s] = closing[s].read]
  /\ UNCHANGED <<rankingTable, gamerVars, resetDone, seasons, gamersLogs, faults,
                 historyVars>>

\* The rejection ends the handler with the season created and nothing else.
RankingRefused(s) ==
  /\ closing[s].stage = "save"
  /\ ~Fits(s)
  /\ closing' = [closing EXCEPT ![s] = [stage |-> "failed", read |-> {}]]
  /\ UNCHANGED <<rankingTable, gamerVars, resetDone, seasonVars, faults, historyVars>>

\* Mutant: the copy is taken of the ranked gamers only.
CopyRanking == Ranking
\* saveGamerLogs reads every gamer.
CopyAll == counted

ReadGamers(s) ==
  /\ closing[s].stage = "copy"
  /\ closing' = [closing EXCEPT ![s] = [stage |-> "insert", read |-> CopyAll]]
  /\ overlapped' = overlapped \cup {{s, t} : t \in Copied}
  /\ UNCHANGED <<rankingTable, gamerVars, resetDone, seasonVars, faults, credited,
                 late, discarded>>

InsertGamersLogs(s) ==
  /\ closing[s].stage = "insert"
  /\ closing' = [closing EXCEPT ![s] = [stage |-> "reset", read |-> {}]]
  /\ gamersLogs' = [gamersLogs EXCEPT ![s] = closing[s].read]
  /\ UNCHANGED <<rankingTable, gamerVars, resetDone, seasons, rankings, faults,
                 historyVars>>

\* Mutant: only gamers with a party are reset.
ResetPlayed ==
  /\ counted' = {c \in counted : c.gamer \notin partied}
  /\ partied' = {}
\* resetPointsForAll: one UPDATE of all rows.
ResetPointsForAll == counted' = {} /\ partied' = {}

ResetAfterClose(s) ==
  /\ closing[s].stage = "reset"
  /\ ResetPointsForAll
  /\ Move(s, "done")
  /\ UNCHANGED <<rankingTable, joined, resetDone, seasonVars, faults, historyVars>>

\* POST current/reset.
ResetCurrent(r) ==
  /\ ~resetDone[r]
  /\ resetDone' = [resetDone EXCEPT ![r] = TRUE]
  /\ ResetPointsForAll
  /\ discarded' = discarded \cup counted
  /\ UNCHANGED <<rankingTable, joined, closing, seasonVars, faults, credited, late,
                 overlapped>>

-----------------------------------------------------------------------------
(* Faults *)

InProgress == {s \in Closings : closing[s].stage \notin {"unsent", "done", "failed"}}
Failed == [stage |-> "failed", read |-> {}]

StatementFails(s) ==
  /\ "db" \in Faults /\ faults < MaxFaults
  /\ faults' = faults + 1
  /\ s \in InProgress
  /\ closing' = [closing EXCEPT ![s] = Failed]
  /\ UNCHANGED <<rankingTable, gamerVars, resetDone, seasonVars, historyVars>>

\* Handlers are gone, tables stay.
Crash ==
  /\ "crash" \in Faults /\ faults < MaxFaults
  /\ faults' = faults + 1
  /\ closing' = [s \in Closings |-> IF s \in InProgress THEN Failed ELSE closing[s]]
  /\ UNCHANGED <<rankingTable, gamerVars, resetDone, seasonVars, historyVars>>

-----------------------------------------------------------------------------

Close(s) ==
  \/ CreateSeason(s)
  \/ GetRanking(s)
  \/ SaveRanking(s)
  \/ RankingRefused(s)
  \/ ReadGamers(s)
  \/ InsertGamersLogs(s)
  \/ ResetAfterClose(s)

Next ==
  \/ \E a \in Gamers : IncrementPartyCount(a)
  \/ \E c \in Credits : CreditPlayer(c)
  \/ \E s \in Closings : Close(s) \/ StatementFails(s)
  \/ \E r \in Resets : ResetCurrent(r)
  \/ Crash

Spec == Init /\ [][Next]_vars

-----------------------------------------------------------------------------
(* Properties *)

\* Every variable stays within its type, and rows of rankings and gamers_logs
\* belong to a stored season.
TypeOK ==
  /\ rankingTable \in RankingTables
  /\ counted \subseteq credited /\ credited \subseteq Credits
  /\ partied \subseteq joined /\ joined \subseteq Gamers
  /\ closing \in [Closings -> [stage : ClosingStages, read : SUBSET credited]]
  /\ resetDone \in [Resets -> BOOLEAN]
  /\ seasons \subseteq Closings
  /\ rankings \in [Closings -> SUBSET credited]
  /\ gamersLogs \in [Closings -> SUBSET credited]
  /\ faults \in 0 .. MaxFaults
  /\ late \in [Closings -> SUBSET credited] /\ discarded \subseteq credited
  /\ overlapped \subseteq SUBSET Closings
  /\ \A s \in Closings \ seasons : /\ closing[s].stage = "unsent"
                                 /\ rankings[s] = {} /\ gamersLogs[s] = {}

Done(s) == closing[s].stage = "done"
Archived == UNION {gamersLogs[s] : s \in Closings}
\* What was credited between the copy of a closing and its reset.
Wiped == UNION {late[s] : s \in {t \in Closings : Done(t)}}

(* What a gamer collected is reset only after some season has logged it,     *)
(* unless a closing that went through reset it after its copy was taken, or  *)
(* the admin discarded it: what is credited while a closing is going to fail *)
(* is not lost, nor is anything else where closings overlap or follow each   *)
(* other.                                                                    *)
CreditsArchived == credited \subseteq counted \cup Archived \cup Wiped \cup discarded

(* What a season that was closed to its end has logged counts no longer, so  *)
(* that no later closing logs it again.                                      *)
ClosedSeasonsAreOver ==
  \A s \in Closings : Done(s) => counted \cap gamersLogs[s] = {}

(* Two seasons log the same credit only if one of the two failed after it    *)
(* had copied the gamers, or if these two overlapped; that others failed,    *)
(* overlapped or were retried in between excuses nothing.                    *)
LoggedForOneSeason ==
  \A s, t \in Closings :
    s # t /\ gamersLogs[s] \cap gamersLogs[t] # {} =>
      "failed" \in {closing[s].stage, closing[t].stage} \/ {s, t} \in overlapped

-----------------------------------------------------------------------------
(* What these rest on: inductive together with TypeOK *)

\* CreditsArchived: a closing that is about to reset has read, or logged,
\* everything that counts and was not late for it.
LogsOnce ==
  \A s \in Closings :
    closing[s].stage \notin {"reset", "done", "failed"} => gamersLogs[s] = {}
CopiesComplete ==
  \A s \in Closings :
    /\ closing[s].stage = "insert" => counted \subseteq closing[s].read \cup late[s]
    /\ closing[s].stage = "reset" => counted \subseteq gamersLogs[s] \cup late[s]
ArchiveInv == CreditsArchived /\ LogsOnce /\ CopiesComplete

\* LoggedForOneSeason: closings that are both between copy and reset overlap,
\* and what one of them has read is logged for another season only if they do or
\* if the other failed.
CopiesOverlap ==
  /\ \A s, t \in Copied : s # t => {s, t} \in overlapped
  /\ \A s, t \in Closings :
       /\ s # t /\ closing[s].stage = "insert"
       /\ closing[s].read \cap gamersLogs[t] # {}
       => closing[t].stage = "failed" \/ {s, t} \in overlapped
SeparateInv == LoggedForOneSeason /\ ClosedSeasonsAreOver /\ CopiesOverlap

-----------------------------------------------------------------------------
(* A statement of the code that does not hold *)

(* @Column({ name: 'party_count' }) and @JoinColumn({ name: 'user_id' }) of  *)
(* the entity Ranking: what closeCurrent saves are rows of table rankings,   *)
(* so that a closing fails only when a statement or the process does.        *)
ClosingsSucceed ==
  faults = 0 => \A s \in Closings : closing[s].stage # "failed"

=============================================================================
