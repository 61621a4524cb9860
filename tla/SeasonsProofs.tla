---------------------------- MODULE SeasonsProofs ----------------------------
(***************************************************************************)
(* Theorems about Seasons: nothing a gamer collected is reset unlogged by  *)
(* a closing that copied it in time, and nothing is logged for two seasons *)
(* without a failure or an overlap.                                        *)
(***************************************************************************)
EXTENDS Seasons, TLAPS

-----------------------------------------------------------------------------
(* Types *)

\* A step that takes the handler of one closing forward.
LEMMA OneCloses ==
  ASSUME TypeOK, NEW s \in Closings, NEW x, closing' = [closing EXCEPT ![s] = x]
  PROVE  closing'[s] = x /\ \A t \in Closings \ {s} : closing'[t] = closing[t]
  BY DEF TypeOK

\* The statements that store a season and set its handler's next stage.
LEMMA Moved ==
  ASSUME TypeOK, NEW s \in Closings, NEW stage \in ClosingStages, Move(s, stage)
  PROVE  /\ closing'[s] = [stage |-> stage, read |-> closing[s].read]
         /\ \A t \in Closings \ {s} : closing'[t] = closing[t]
         /\ closing' \in [Closings -> [stage : ClosingStages, read : SUBSET credited]]
  BY DEF TypeOK, Move

LEMMA CloseTypeOK ==
  ASSUME TypeOK, NEW s \in Closings, Close(s)
  PROVE  TypeOK'
<1>0. /\ closing[s] \in [stage : ClosingStages, read : SUBSET credited]
      /\ s \in seasons \/ closing[s].stage = "unsent"
  BY DEF TypeOK
<1>1. CASE CreateSeason(s)
  <2>1. /\ Move(s, "ranking") /\ "ranking" \in ClosingStages
        /\ seasons' = seasons \cup {s}
        /\ UNCHANGED <<rankingTable, counted, partied, joined, resetDone, rankings,
                       gamersLogs, faults, credited, late, discarded, overlapped>>
    BY <1>1 DEF CreateSeason, Store, gamerVars, historyVars, ClosingStages
  <2>. QED  BY <2>1, Moved DEF TypeOK
<1>2. CASE GetRanking(s)
  <2>1. /\ closing[s].stage = "ranking" /\ Ranking \subseteq credited
        /\ closing' = [closing EXCEPT ![s] = [stage |-> "save", read |-> Ranking]]
        /\ UNCHANGED <<rankingTable, counted, partied, joined, resetDone, seasons,
                       rankings, gamersLogs, faults, credited, late, discarded,
                       overlapped>>
    BY <1>2 DEF GetRanking, gamerVars, seasonVars, historyVars, TypeOK, Ranking
  <2>. QED  BY <1>0, <2>1, OneCloses DEF TypeOK, ClosingStages
<1>3. CASE SaveRanking(s)
  <2>1. /\ closing[s].stage = "save"
        /\ closing' = [closing EXCEPT ![s] = [stage |-> "copy", read |-> {}]]
        /\ rankings' = [rankings EXCEPT ![s] = closing[s].read]
        /\ UNCHANGED <<rankingTable, counted, partied, joined, resetDone, seasons,
                       gamersLogs, faults, credited, late, discarded, overlapped>>
    BY <1>3 DEF SaveRanking, gamerVars, historyVars
  <2>. QED  BY <1>0, <2>1, OneCloses DEF TypeOK, ClosingStages
<1>4. CASE RankingRefused(s)
  <2>1. /\ closing[s].stage = "save"
        /\ closing' = [closing EXCEPT ![s] = [stage |-> "failed", read |-> {}]]
        /\ UNCHANGED <<rankingTable, counted, partied, joined, resetDone, seasons,
                       rankings, gamersLogs, faults, credited, late, discarded,
                       overlapped>>
    BY <1>4 DEF RankingRefused, gamerVars, seasonVars, historyVars
  <2>. QED  BY <1>0, <2>1, OneCloses DEF TypeOK, ClosingStages
<1>5. CASE ReadGamers(s)
  <2>1. /\ closing[s].stage = "copy" /\ counted \subseteq credited
        /\ closing' = [closing EXCEPT ![s] = [stage |-> "insert", read |-> counted]]
        /\ overlapped' \subseteq SUBSET Closings
        /\ UNCHANGED <<rankingTable, counted, partied, joined, resetDone, seasons,
                       rankings, gamersLogs, faults, credited, late, discarded>>
    BY <1>5 DEF ReadGamers, CopyAll, Copied, gamerVars, seasonVars, TypeOK
  <2>. QED  BY <1>0, <2>1, OneCloses DEF TypeOK, ClosingStages
<1>6. CASE InsertGamersLogs(s)
  <2>1. /\ closing[s].stage = "insert"
        /\ closing' = [closing EXCEPT ![s] = [stage |-> "reset", read |-> {}]]
        /\ gamersLogs' = [gamersLogs EXCEPT ![s] = closing[s].read]
        /\ UNCHANGED <<rankingTable, counted, partied, joined, resetDone, seasons,
                       rankings, faults, credited, late, discarded, overlapped>>
    BY <1>6 DEF InsertGamersLogs, gamerVars, historyVars
  <2>. QED  BY <1>0, <2>1, OneCloses DEF TypeOK, ClosingStages
<1>7. CASE ResetAfterClose(s)
  <2>1. /\ closing[s].stage = "reset" /\ Move(s, "done") /\ "done" \in ClosingStages
        /\ counted' = {} /\ partied' = {}
        /\ UNCHANGED <<rankingTable, joined, resetDone, seasons, rankings,
                       gamersLogs, faults, credited, late, discarded, overlapped>>
    BY <1>7 DEF ResetAfterClose, ResetPointsForAll, seasonVars, historyVars,
       ClosingStages
  <2>. QED  BY <1>0, <2>1, Moved DEF TypeOK
<1>. QED
  BY <1>1, <1>2, <1>3, <1>4, <1>5, <1>6, <1>7 DEF Close

\* Handlers that end by a failure, none of them unsent.
LEMMA FailuresTypeOK ==
  ASSUME TypeOK, NEW ended \in SUBSET InProgress,
         closing' = [s \in Closings |-> IF s \in ended THEN Failed ELSE closing[s]],
         faults < MaxFaults, faults' = faults + 1,
         UNCHANGED <<rankingTable, gamerVars, resetDone, seasonVars, historyVars>>
  PROVE  TypeOK'
<1>1. closing' \in [Closings -> [stage : ClosingStages, read : SUBSET credited]]
  BY DEF TypeOK, Failed, ClosingStages
<1>2. faults' \in 0 .. MaxFaults
  BY SeasonFaultsAssumption DEF TypeOK
<1>3. \A s \in Closings \ seasons : closing'[s].stage = "unsent"
  BY DEF TypeOK, InProgress
<1>. QED
  BY <1>1, <1>2, <1>3 DEF TypeOK, gamerVars, seasonVars, historyVars

\* Both kinds of failure are of that form.
LEMMA FailureEnds ==
  ASSUME TypeOK, (\E s \in Closings : StatementFails(s)) \/ Crash
  PROVE  \E ended \in SUBSET InProgress :
            closing' = [s \in Closings |-> IF s \in ended THEN Failed ELSE closing[s]]
<1>1. ASSUME NEW s \in Closings, StatementFails(s)
      PROVE  /\ {s} \in SUBSET InProgress
             /\ closing' = [t \in Closings |-> IF t \in {s} THEN Failed ELSE closing[t]]
  BY <1>1 DEF StatementFails, TypeOK
<1>2. CASE Crash
  BY <1>2 DEF Crash
<1>. QED  BY <1>1, <1>2

LEMMA NextTypeOK ==
  ASSUME TypeOK, [Next]_vars
  PROVE  TypeOK'
<1>1. ASSUME NEW a \in Gamers, IncrementPartyCount(a) PROVE TypeOK'
  BY <1>1 DEF IncrementPartyCount, TypeOK, seasonVars, historyVars
<1>2. ASSUME NEW c \in Credits, CreditPlayer(c) PROVE TypeOK'
  <2>1. /\ counted' = counted \cup {c} /\ credited' = credited \cup {c}
        /\ late' = [s \in Closings |-> late[s] \cup IF s \in Copied THEN {c} ELSE {}]
        /\ UNCHANGED <<rankingTable, partied, joined, closing, resetDone, seasons,
                       rankings, gamersLogs, faults, discarded, overlapped>>
    BY <1>2 DEF CreditPlayer, seasonVars
  <2>2. /\ closing' \in [Closings -> [stage : ClosingStages, read : SUBSET credited']]
        /\ rankings' \in [Closings -> SUBSET credited']
        /\ gamersLogs' \in [Closings -> SUBSET credited']
        /\ late' \in [Closings -> SUBSET credited']
    BY <2>1 DEF TypeOK
  <2>. QED  BY <2>1, <2>2 DEF TypeOK
<1>3. ASSUME NEW s \in Closings, Close(s) PROVE TypeOK'
  BY <1>3, CloseTypeOK
<1>4. ASSUME NEW r \in Resets, ResetCurrent(r) PROVE TypeOK'
  BY <1>4 DEF ResetCurrent, ResetPointsForAll, TypeOK, seasonVars
<1>5. ASSUME (\E s \in Closings : StatementFails(s)) \/ Crash PROVE TypeOK'
  <2>1. /\ faults < MaxFaults /\ faults' = faults + 1
        /\ UNCHANGED <<rankingTable, gamerVars, resetDone, seasonVars, historyVars>>
    BY <1>5 DEF StatementFails, Crash
  <2>. QED  BY <1>5, <2>1, FailureEnds, FailuresTypeOK
<1>6. CASE UNCHANGED vars
  BY <1>6 DEF vars, TypeOK, gamerVars, seasonVars, historyVars
<1>. QED
  BY <1>1, <1>2, <1>3, <1>4, <1>5, <1>6 DEF Next

(* Every variable of Seasons keeps its type, and no row of rankings or        *)
(* gamers_logs is without its season.                                         *)
THEOREM SeasonsTypeCorrect == Spec => []TypeOK
<1>1. Init => TypeOK
  <2>. SUFFICES ASSUME Init PROVE TypeOK
    OBVIOUS
  <2>1. closing \in [Closings -> [stage : ClosingStages, read : SUBSET credited]]
        /\ \A s \in Closings : closing[s].stage = "unsent"
    BY DEF Init, Unsent, ClosingStages
  <2>2. faults \in 0 .. MaxFaults
    BY SeasonFaultsAssumption DEF Init
  <2>3. /\ rankings \in [Closings -> SUBSET credited]
        /\ gamersLogs \in [Closings -> SUBSET credited]
        /\ \A s \in Closings : rankings[s] = {} /\ gamersLogs[s] = {}
        /\ resetDone \in [Resets -> BOOLEAN]
    BY DEF Init
  <2>. QED  BY <2>1, <2>2, <2>3 DEF Init, TypeOK
<1>. QED
  BY <1>1, NextTypeOK, PTL DEF Spec

-----------------------------------------------------------------------------
(* Nothing is reset unlogged *)

LEMMA InitArchiveInv == Init => ArchiveInv
<1>. SUFFICES ASSUME Init PROVE ArchiveInv
  OBVIOUS
<1>1. /\ \A s \in Closings : closing[s].stage = "unsent" /\ gamersLogs[s] = {}
      /\ credited = {}
  BY DEF Init, Unsent
<1>. QED  BY <1>1 DEF ArchiveInv, CreditsArchived, LogsOnce, CopiesComplete

\* Steps that change no table of credits: a handler may end, or be at a stage
\* that is neither a copy nor later.
LEMMA ArchiveKept ==
  ASSUME ArchiveInv,
         UNCHANGED <<counted, gamersLogs, credited, late, discarded>>,
         \A s \in Closings :
            \/ closing'[s] = closing[s]
            \/ closing'[s].stage = "failed" /\ ~Done(s)
            \/ /\ closing[s].stage \notin {"reset", "done", "failed"}
               /\ closing'[s].stage \notin {"insert", "reset"}
  PROVE  ArchiveInv'
<1>1. CreditsArchived'
  BY DEF ArchiveInv, CreditsArchived, Archived, Wiped, Done
<1>2. LogsOnce'
  BY DEF ArchiveInv, LogsOnce
<1>3. CopiesComplete'
  BY DEF ArchiveInv, CopiesComplete
<1>. QED  BY <1>1, <1>2, <1>3 DEF ArchiveInv

LEMMA ReadKeepsArchive ==
  ASSUME TypeOK, ArchiveInv, NEW s \in Closings, ReadGamers(s)
  PROVE  ArchiveInv'
<1>1. /\ closing[s].stage = "copy"
      /\ closing' = [closing EXCEPT ![s] = [stage |-> "insert", read |-> counted]]
      /\ UNCHANGED <<counted, gamersLogs, credited, late, discarded>>
  BY DEF ReadGamers, CopyAll, gamerVars, seasonVars
<1>2. /\ closing'[s] = [stage |-> "insert", read |-> counted]
      /\ \A t \in Closings \ {s} : closing'[t] = closing[t]
  BY <1>1, OneCloses
<1>3. CreditsArchived'
  BY <1>1, <1>2 DEF ArchiveInv, CreditsArchived, Archived, Wiped, Done
<1>4. LogsOnce'
  BY <1>1, <1>2 DEF ArchiveInv, LogsOnce
<1>5. CopiesComplete'
  BY <1>1, <1>2 DEF ArchiveInv, CopiesComplete
<1>. QED  BY <1>3, <1>4, <1>5 DEF ArchiveInv

LEMMA InsertKeepsArchive ==
  ASSUME TypeOK, ArchiveInv, NEW s \in Closings, InsertGamersLogs(s)
  PROVE  ArchiveInv'
<1>1. /\ closing[s].stage = "insert"
      /\ closing' = [closing EXCEPT ![s] = [stage |-> "reset", read |-> {}]]
      /\ UNCHANGED <<counted, credited, late, discarded>>
  BY DEF InsertGamersLogs, gamerVars, historyVars
<1>2. /\ closing'[s] = [stage |-> "reset", read |-> {}]
      /\ \A t \in Closings \ {s} : closing'[t] = closing[t]
  BY <1>1, OneCloses
<1>3. /\ gamersLogs'[s] = closing[s].read
      /\ \A t \in Closings \ {s} : gamersLogs'[t] = gamersLogs[t]
  BY DEF InsertGamersLogs, TypeOK
<1>4. CreditsArchived'
  <2>1. gamersLogs[s] = {}
    BY <1>1 DEF ArchiveInv, LogsOnce
  <2>2. Archived \subseteq Archived'
    BY <1>3, <2>1 DEF Archived
  <2>3. Wiped' = Wiped
    BY <1>1, <1>2 DEF Wiped, Done
  <2>. QED  BY <1>1, <2>2, <2>3 DEF ArchiveInv, CreditsArchived
<1>5. LogsOnce'
  BY <1>2, <1>3 DEF ArchiveInv, LogsOnce
<1>6. CopiesComplete'
  BY <1>1, <1>2, <1>3 DEF ArchiveInv, CopiesComplete
<1>. QED  BY <1>4, <1>5, <1>6 DEF ArchiveInv

LEMMA ResetKeepsArchive ==
  ASSUME TypeOK, ArchiveInv, NEW s \in Closings, ResetAfterClose(s)
  PROVE  ArchiveInv'
<1>1. /\ closing[s].stage = "reset" /\ Move(s, "done") /\ "done" \in ClosingStages
      /\ counted' = {}
      /\ UNCHANGED <<gamersLogs, credited, late, discarded>>
  BY DEF ResetAfterClose, ResetPointsForAll, seasonVars, historyVars, ClosingStages
<1>2. /\ closing'[s].stage = "done"
      /\ \A t \in Closings \ {s} : closing'[t] = closing[t]
  BY <1>1 DEF Move, TypeOK
<1>3. CreditsArchived'
  <2>1. counted \subseteq Archived \cup late[s]
    BY <1>1 DEF ArchiveInv, CopiesComplete, Archived
  <2>2. Archived' = Archived /\ Wiped \subseteq Wiped' /\ late[s] \subseteq Wiped'
    BY <1>1, <1>2 DEF Archived, Wiped, Done
  <2>. QED  BY <1>1, <2>1, <2>2 DEF ArchiveInv, CreditsArchived
<1>4. LogsOnce'
  BY <1>1, <1>2 DEF ArchiveInv, LogsOnce
<1>5. CopiesComplete'
  BY <1>1, <1>2 DEF ArchiveInv, CopiesComplete
<1>. QED  BY <1>3, <1>4, <1>5 DEF ArchiveInv

LEMMA CloseKeepsArchive ==
  ASSUME TypeOK, ArchiveInv, NEW s \in Closings, Close(s)
  PROVE  ArchiveInv'
<1>1. ASSUME CreateSeason(s) \/ GetRanking(s) \/ SaveRanking(s) \/ RankingRefused(s)
      PROVE  ArchiveInv'
  <2>1. /\ UNCHANGED <<counted, gamersLogs, credited, late, discarded>>
        /\ closing[s].stage \notin {"reset", "done", "failed"}
    BY <1>1 DEF CreateSeason, GetRanking, SaveRanking, RankingRefused, gamerVars,
       seasonVars, historyVars
  <2>2. /\ closing'[s].stage \notin {"insert", "reset"}
        /\ \A t \in Closings \ {s} : closing'[t] = closing[t]
    BY <1>1 DEF CreateSeason, Move, GetRanking, SaveRanking, RankingRefused, TypeOK
  <2>. QED  BY <2>1, <2>2, ArchiveKept
<1>. QED
  BY <1>1, ReadKeepsArchive, InsertKeepsArchive, ResetKeepsArchive DEF Close

LEMMA NextArchiveInv ==
  ASSUME TypeOK, ArchiveInv, [Next]_vars
  PROVE  ArchiveInv'
<1>1. ASSUME (\E a \in Gamers : IncrementPartyCount(a)) \/ UNCHANGED vars
      PROVE  ArchiveInv'
  <2>1. UNCHANGED <<counted, gamersLogs, credited, late, discarded, closing>>
    BY <1>1 DEF IncrementPartyCount, vars, gamerVars, seasonVars, historyVars
  <2>. QED  BY <2>1, ArchiveKept
<1>2. ASSUME NEW c \in Credits, CreditPlayer(c) PROVE ArchiveInv'
  <2>1. /\ counted' = counted \cup {c} /\ credited' = credited \cup {c}
        /\ late' = [s \in Closings |-> late[s] \cup IF s \in Copied THEN {c} ELSE {}]
        /\ UNCHANGED <<closing, gamersLogs, discarded>>
    BY <1>2 DEF CreditPlayer, seasonVars
  <2>2. CreditsArchived'
    <3>1. Archived' = Archived /\ Wiped \subseteq Wiped'
      BY <2>1 DEF Archived, Wiped, Done
    <3>. QED  BY <2>1, <3>1 DEF ArchiveInv, CreditsArchived
  <2>3. LogsOnce'
    BY <2>1 DEF ArchiveInv, LogsOnce
  <2>4. ASSUME NEW s \in Closings, closing[s].stage \in {"insert", "reset"}
        PROVE  late'[s] = late[s] \cup {c}
    BY <2>1, <2>4 DEF Copied
  <2>5. CopiesComplete'
    BY <2>1, <2>4 DEF ArchiveInv, CopiesComplete
  <2>. QED  BY <2>2, <2>3, <2>5 DEF ArchiveInv
<1>3. ASSUME NEW s \in Closings, Close(s) PROVE ArchiveInv'
  BY <1>3, CloseKeepsArchive
<1>4. ASSUME NEW r \in Resets, ResetCurrent(r) PROVE ArchiveInv'
  <2>1. /\ counted' = {} /\ discarded' = discarded \cup counted
        /\ UNCHANGED <<closing, gamersLogs, credited, late>>
    BY <1>4 DEF ResetCurrent, ResetPointsForAll, seasonVars
  <2>. QED
    BY <2>1 DEF ArchiveInv, CreditsArchived, LogsOnce, CopiesComplete, Archived,
       Wiped, Done
<1>5. ASSUME (\E s \in Closings : StatementFails(s)) \/ Crash PROVE ArchiveInv'
  <2>1. UNCHANGED <<counted, gamersLogs, credited, late, discarded>>
    BY <1>5 DEF StatementFails, Crash, gamerVars, seasonVars, historyVars
  <2>2. \A s \in Closings : \/ closing'[s] = closing[s]
                            \/ closing'[s].stage = "failed" /\ ~Done(s)
    BY <1>5, FailureEnds DEF Failed, InProgress, Done
  <2>. QED  BY <2>1, <2>2, ArchiveKept
<1>. QED
  BY <1>1, <1>2, <1>3, <1>4, <1>5 DEF Next

(* Whatever closings, resets, failures and crashes overlap, what a gamer      *)
(* collected is wiped unlogged only if it was credited between the copy and   *)
(* the reset of a closing that went through, or discarded by the admin.       *)
THEOREM NothingLostOutsideWindow == Spec => []CreditsArchived
<1>1. ArchiveInv => CreditsArchived
  BY DEF ArchiveInv
<1>. QED
  BY <1>1, InitArchiveInv, NextArchiveInv, SeasonsTypeCorrect, PTL DEF Spec

-----------------------------------------------------------------------------
(* Nothing is logged twice without cause *)

LEMMA InitSeparateInv == Init => SeparateInv
<1>. SUFFICES ASSUME Init PROVE SeparateInv
  OBVIOUS
<1>1. \A s \in Closings : closing[s].stage = "unsent" /\ gamersLogs[s] = {}
  BY DEF Init, Unsent
<1>. QED
  BY <1>1 DEF SeparateInv, LoggedForOneSeason, ClosedSeasonsAreOver, Done,
     CopiesOverlap, Copied

\* Steps that log nothing and copy nothing; a closing that failed has failed
\* for good, and what is counted anew was never credited before.
LEMMA SeparateKept ==
  ASSUME TypeOK, SeparateInv,
         UNCHANGED <<gamersLogs, overlapped>>,
         (counted' \ counted) \cap credited = {},
         \A s \in Closings :
            \/ closing'[s] = closing[s]
            \/ /\ closing'[s].stage \notin {"insert", "reset", "done"}
               /\ closing[s].stage # "failed" \/ closing'[s].stage = "failed"
  PROVE  SeparateInv'
<1>1. LoggedForOneSeason'
  BY DEF SeparateInv, LoggedForOneSeason
<1>2. \A s \in Closings : gamersLogs[s] \subseteq credited
  BY DEF TypeOK
<1>3. ClosedSeasonsAreOver'
  BY <1>2 DEF SeparateInv, ClosedSeasonsAreOver, Done
<1>4. CopiesOverlap'
  BY DEF SeparateInv, CopiesOverlap, Copied
<1>. QED  BY <1>1, <1>3, <1>4 DEF SeparateInv

LEMMA ReadKeepsSeparate ==
  ASSUME TypeOK, ArchiveInv, SeparateInv, NEW s \in Closings, ReadGamers(s)
  PROVE  SeparateInv'
<1>1. /\ closing[s].stage = "copy"
      /\ closing' = [closing EXCEPT ![s] = [stage |-> "insert", read |-> counted]]
      /\ overlapped' = overlapped \cup {{s, t} : t \in Copied}
      /\ UNCHANGED <<counted, gamersLogs>>
  BY DEF ReadGamers, CopyAll, gamerVars, seasonVars
<1>2. /\ closing'[s] = [stage |-> "insert", read |-> counted]
      /\ \A t \in Closings \ {s} : closing'[t] = closing[t]
  BY <1>1, OneCloses
<1>3. ClosedSeasonsAreOver'
  BY <1>1, <1>2 DEF SeparateInv, ClosedSeasonsAreOver, Done
<1>4. LoggedForOneSeason'
  BY <1>1, <1>2 DEF SeparateInv, LoggedForOneSeason
<1>5. \A t \in Copied : {s, t} \in overlapped' /\ {t, s} \in overlapped'
  <2>1. \A t \in Copied : {t, s} = {s, t}
    OBVIOUS
  <2>. QED  BY <1>1, <2>1
<1>6. \A t, u \in Copied' : t # u => {t, u} \in overlapped'
  <2>1. \A t \in Copied' : t = s \/ t \in Copied
    BY <1>2 DEF Copied
  <2>2. \A t, u \in Copied : t # u => {t, u} \in overlapped'
    BY <1>1 DEF SeparateInv, CopiesOverlap
  <2>. QED  BY <1>5, <2>1, <2>2
<1>7. ASSUME NEW t \in Closings, t # s, counted \cap gamersLogs[t] # {}
      PROVE  closing[t].stage = "failed" \/ t \in Copied
  <2>1. closing[t].stage \in {"reset", "done", "failed"}
    BY <1>7 DEF ArchiveInv, LogsOnce
  <2>2. closing[t].stage # "done"
    BY <1>7 DEF SeparateInv, ClosedSeasonsAreOver, Done
  <2>. QED  BY <2>1, <2>2 DEF Copied
<1>8. CopiesOverlap'
  <2> SUFFICES ASSUME NEW t \in Closings, NEW u \in Closings, t # u,
                      closing'[t].stage = "insert",
                      closing'[t].read \cap gamersLogs[u] # {}
               PROVE  closing'[u].stage = "failed" \/ {t, u} \in overlapped'
    BY <1>1, <1>6 DEF CopiesOverlap
  <2>1. CASE t = s
    BY <1>2, <1>5, <1>7, <2>1
  <2>2. CASE t # s
    <3>1. closing[u].stage = "failed" \/ {t, u} \in overlapped
      BY <1>2, <2>2 DEF SeparateInv, CopiesOverlap
    <3>. QED  BY <1>1, <1>2, <3>1
  <2>. QED  BY <2>1, <2>2
<1>. QED  BY <1>3, <1>4, <1>8 DEF SeparateInv

LEMMA InsertKeepsSeparate ==
  ASSUME TypeOK, SeparateInv, NEW s \in Closings, InsertGamersLogs(s)
  PROVE  SeparateInv'
<1>1. /\ closing[s].stage = "insert"
      /\ closing' = [closing EXCEPT ![s] = [stage |-> "reset", read |-> {}]]
      /\ UNCHANGED <<counted, overlapped>>
  BY DEF InsertGamersLogs, gamerVars, historyVars
<1>2. /\ closing'[s] = [stage |-> "reset", read |-> {}]
      /\ \A t \in Closings \ {s} : closing'[t] = closing[t]
  BY <1>1, OneCloses
<1>3. /\ gamersLogs'[s] = closing[s].read
      /\ \A t \in Closings \ {s} : gamersLogs'[t] = gamersLogs[t]
  BY DEF InsertGamersLogs, TypeOK
<1>4. ClosedSeasonsAreOver'
  BY <1>1, <1>2, <1>3 DEF SeparateInv, ClosedSeasonsAreOver, Done
<1>5. ASSUME NEW t \in Closings, t # s, closing[s].read \cap gamersLogs[t] # {}
      PROVE  closing[t].stage = "failed" \/ ({s, t} \in overlapped /\ {t, s} \in overlapped)
  <2>1. {t, s} = {s, t}
    OBVIOUS
  <2>. QED  BY <1>1, <1>5, <2>1 DEF SeparateInv, CopiesOverlap
<1>6. LoggedForOneSeason'
  <2> SUFFICES ASSUME NEW t \in Closings, NEW u \in Closings, t # u,
                      gamersLogs'[t] \cap gamersLogs'[u] # {}
               PROVE  \/ "failed" \in {closing'[t].stage, closing'[u].stage}
                      \/ {t, u} \in overlapped
    BY <1>1 DEF LoggedForOneSeason
  <2>1. CASE t = s
    BY <1>2, <1>3, <1>5, <2>1
  <2>2. CASE u = s
    BY <1>2, <1>3, <1>5, <2>2
  <2>3. CASE t # s /\ u # s
    BY <1>2, <1>3, <2>3 DEF SeparateInv, LoggedForOneSeason
  <2>. QED  BY <2>1, <2>2, <2>3
<1>7. CopiesOverlap'
  <2>1. Copied' = Copied /\ s \in Copied
    BY <1>1, <1>2 DEF Copied
  <2> SUFFICES ASSUME NEW t \in Closings, NEW u \in Closings, t # u,
                      closing'[t].stage = "insert",
                      closing'[t].read \cap gamersLogs'[u] # {}
               PROVE  closing'[u].stage = "failed" \/ {t, u} \in overlapped
    BY <1>1, <2>1 DEF SeparateInv, CopiesOverlap
  <2>2. t # s /\ closing[t].stage = "insert" /\ t \in Copied
    BY <1>2 DEF Copied
  <2>3. CASE u = s
    BY <2>1, <2>2, <2>3 DEF SeparateInv, CopiesOverlap
  <2>4. CASE u # s
    BY <1>2, <1>3, <2>2, <2>4 DEF SeparateInv, CopiesOverlap
  <2>. QED  BY <2>3, <2>4
<1>. QED  BY <1>4, <1>6, <1>7 DEF SeparateInv

LEMMA ResetKeepsSeparate ==
  ASSUME TypeOK, SeparateInv, NEW s \in Closings, ResetAfterClose(s)
  PROVE  SeparateInv'
<1>1. /\ closing[s].stage = "reset" /\ counted' = {}
      /\ UNCHANGED <<gamersLogs, overlapped>>
  BY DEF ResetAfterClose, ResetPointsForAll, seasonVars, historyVars
<1>2. /\ closing'[s].stage = "done"
      /\ \A t \in Closings \ {s} : closing'[t] = closing[t]
  BY DEF ResetAfterClose, Move, TypeOK
<1>. QED
  BY <1>1, <1>2
  DEF SeparateInv, LoggedForOneSeason, ClosedSeasonsAreOver, CopiesOverlap, Copied

LEMMA NextSeparateInv ==
  ASSUME TypeOK, ArchiveInv, SeparateInv, [Next]_vars
  PROVE  SeparateInv'
<1>1. ASSUME (\E a \in Gamers : IncrementPartyCount(a)) \/ UNCHANGED vars
      PROVE  SeparateInv'
  <2>1. UNCHANGED <<counted, gamersLogs, overlapped, closing>>
    BY <1>1 DEF IncrementPartyCount, vars, gamerVars, seasonVars, historyVars
  <2>. QED  BY <2>1, SeparateKept
<1>2. ASSUME (\E c \in Credits : CreditPlayer(c)) \/ (\E r \in Resets : ResetCurrent(r))
      PROVE  SeparateInv'
  <2>1. UNCHANGED <<gamersLogs, overlapped, closing>>
    BY <1>2 DEF CreditPlayer, ResetCurrent, seasonVars
  <2>2. (counted' \ counted) \cap credited = {}
    BY <1>2 DEF CreditPlayer, ResetCurrent, ResetPointsForAll
  <2>. QED  BY <2>1, <2>2, SeparateKept
<1>3. ASSUME NEW s \in Closings,
             CreateSeason(s) \/ GetRanking(s) \/ SaveRanking(s) \/ RankingRefused(s)
      PROVE  SeparateInv'
  <2>1. /\ UNCHANGED <<counted, gamersLogs, overlapped>>
        /\ closing[s].stage # "failed"
    BY <1>3 DEF CreateSeason, GetRanking, SaveRanking, RankingRefused, gamerVars,
       seasonVars, historyVars
  <2>2. /\ closing'[s].stage \notin {"insert", "reset", "done"}
        /\ \A t \in Closings \ {s} : closing'[t] = closing[t]
    BY <1>3 DEF CreateSeason, Move, GetRanking, SaveRanking, RankingRefused, TypeOK
  <2>. QED  BY <2>1, <2>2, SeparateKept
<1>4. ASSUME (\E s \in Closings : StatementFails(s)) \/ Crash PROVE SeparateInv'
  <2>1. UNCHANGED <<counted, gamersLogs, overlapped>>
    BY <1>4 DEF StatementFails, Crash, gamerVars, seasonVars, historyVars
  <2>2. \A s \in Closings : closing'[s] = closing[s] \/ closing'[s].stage = "failed"
    BY <1>4, FailureEnds DEF Failed
  <2>. QED  BY <2>1, <2>2, SeparateKept
<1>. QED
  BY <1>1, <1>2, <1>3, <1>4, ReadKeepsSeparate, InsertKeepsSeparate,
     ResetKeepsSeparate
  DEF Next, Close

LEMMA SeparateInvariant == Spec => []SeparateInv
  BY InitArchiveInv, NextArchiveInv, InitSeparateInv, NextSeparateInv,
     SeasonsTypeCorrect, PTL DEF Spec

(* What a season closed to its end has logged has been reset and never counts *)
(* again, so no later season logs it.                                         *)
THEOREM NothingLoggedAgain == Spec => []ClosedSeasonsAreOver
<1>1. SeparateInv => ClosedSeasonsAreOver
  BY DEF SeparateInv
<1>. QED  BY <1>1, SeparateInvariant, PTL

(* Two seasons log the same credit only if one of them failed after its copy, *)
(* or the two overlapped, whatever else fails and overlaps.                   *)
THEOREM OneSeasonPerCredit == Spec => []LoggedForOneSeason
<1>1. SeparateInv => LoggedForOneSeason
  BY DEF SeparateInv
<1>. QED  BY <1>1, SeparateInvariant, PTL

=============================================================================
