---------------------------- MODULE ChipLedgerProofs ----------------------------
(***************************************************************************)
(* Theorems about ChipLedger, for all sets of accounts, rows, requests and *)
(* events and any number of faults.                                        *)
(***************************************************************************)
EXTENDS ChipLedger, SumLemmas

USE ActorsAssumption, UnitsAssumption, LedgerFaultsAssumption

-----------------------------------------------------------------------------
(* Types *)

LEMMA LedgerInitType == LedgerInit => LedgerTypeOK
BY DEF LedgerInit, LedgerTypeOK

LEMMA VisitType ==
  ASSUME LedgerTypeOK, NEW v \in Visits,
         FetchOrCreate(v) \/ \E row \in Rows : SaveGamer(v, row)
  PROVE  LedgerTypeOK'
<1>1. CASE FetchOrCreate(v)
  BY <1>1 DEF FetchOrCreate, LedgerTypeOK, tables
<1>2. ASSUME NEW row \in Rows, SaveGamer(v, row) PROVE LedgerTypeOK'
  BY <1>2 DEF SaveGamer, LedgerTypeOK
<1>. QED  BY <1>1, <1>2

LEMMA DepositType ==
  ASSUME LedgerTypeOK, NEW d \in Deposits,
         FindDepositor(d) \/ AddReservedChips(d) \/ MissEvent(d)
  PROVE  LedgerTypeOK'
<1>1. CASE FindDepositor(d)
  BY <1>1 DEF FindDepositor, LedgerTypeOK, tables, RowsOf
<1>2. CASE AddReservedChips(d)
  BY <1>2 DEF AddReservedChips, LedgerTypeOK
<1>3. CASE MissEvent(d)
  BY <1>3 DEF MissEvent, LedgerTypeOK, tables
<1>. QED  BY <1>1, <1>2, <1>3

LEMMA StartType ==
  ASSUME LedgerTypeOK, NEW s \in StartRequests,
         \/ VerifyUniquePlayer(s) \/ CheckChips(s) \/ SubtractChips(s)
         \/ IncrementPartyCount(s) \/ InsertParty(s)
  PROVE  LedgerTypeOK'
<1>1. CASE VerifyUniquePlayer(s)
  BY <1>1 DEF VerifyUniquePlayer, LedgerTypeOK, tables
<1>2. CASE CheckChips(s)
  <2>1. /\ \/ UNCHANGED gamer
           \/ \E row \in Rows : gamer' = [gamer EXCEPT ![s] = row]
        /\ \E stage \in {"refused", "checked"} :
             start' = [start EXCEPT ![s] = stage]
        /\ UNCHANGED <<tables, visit, deposit, faults>>
    BY <1>2 DEF CheckChips, LedgerTypeOK, RowsOf
  <2>. QED  BY <2>1 DEF LedgerTypeOK, tables
<1>3. CASE SubtractChips(s)
  <2>1. \A row \in Rows : reservedChips[row] \in Int
                        /\ reservedChips[row] - UnitsPerChip \in Int
    BY DEF LedgerTypeOK
  <2>2. reservedChips' \in [Rows -> Int]
    BY <1>3, <2>1 DEF SubtractChips, LedgerTypeOK
  <2>3. start' = [start EXCEPT ![s] = "paid"]
    BY <1>3 DEF SubtractChips
  <2>. QED
    BY <1>3, <2>2, <2>3 DEF SubtractChips, LedgerTypeOK
<1>4. CASE IncrementPartyCount(s)
  BY <1>4 DEF IncrementPartyCount, LedgerTypeOK
<1>5. CASE InsertParty(s)
  BY <1>5 DEF InsertParty, LedgerTypeOK
<1>. QED  BY <1>1, <1>2, <1>3, <1>4, <1>5

LEMMA CrashType == LedgerTypeOK /\ LedgerCrash => LedgerTypeOK'
<1>1. ASSUME LedgerTypeOK, NEW s \in StartRequests
      PROVE  CrashedStart(s) \in {"unsent", "refused", "verified", "checked",
                                  "paid", "counted", "joined", "stranded"}
  BY <1>1 DEF LedgerTypeOK, CrashedStart
<1>. QED
  BY <1>1 DEF LedgerCrash, LedgerTypeOK, tables

LEMMA LedgerTypeKept == LedgerTypeOK /\ [LedgerNext]_ledger => LedgerTypeOK'
<1>1. ASSUME LedgerTypeOK, LedgerNext PROVE LedgerTypeOK'
  BY <1>1, VisitType, DepositType, StartType, CrashType DEF LedgerNext
<1>2. ASSUME LedgerTypeOK, UNCHANGED ledger PROVE LedgerTypeOK'
  BY <1>2 DEF LedgerTypeOK, ledger, tables, handlers
<1>. QED  BY <1>1, <1>2

(* Every variable of the ledger keeps its type; chips stay integers, which   *)
(* may be negative.                                                          *)
THEOREM LedgerTypeCorrect == LedgerSpec => []LedgerTypeOK
BY LedgerInitType, LedgerTypeKept, PTL DEF LedgerSpec

-----------------------------------------------------------------------------
(* Seats *)

Joiners(g, a) ==
  {s \in StartRequests : s.gameId = g /\ s.accountId = a /\ start[s] = "joined"}

\* A seat that is taken was taken by one request, a free one by none.
SeatInv ==
  \A g \in Games, a \in Accounts :
    IF a \in parties[g] THEN \E s \in StartRequests : Joiners(g, a) = {s}
                       ELSE Joiners(g, a) = {}

LEMMA SeatsKept ==
  ASSUME SeatInv, UNCHANGED parties,
         \A s \in StartRequests : start'[s] = "joined" <=> start[s] = "joined"
  PROVE  SeatInv'
<1>1. \A g \in Games, a \in Accounts : Joiners(g, a)' = Joiners(g, a)
  BY DEF Joiners
<1>. QED  BY <1>1 DEF SeatInv

LEMMA SeatsStep == LedgerTypeOK /\ SeatInv /\ [LedgerNext]_ledger => SeatInv'
<1> SUFFICES ASSUME LedgerTypeOK, SeatInv, [LedgerNext]_ledger PROVE SeatInv'
  OBVIOUS
<1>1. CASE UNCHANGED <<parties, start>>
  BY <1>1, SeatsKept
<1>2. ASSUME NEW s \in StartRequests,
             \/ VerifyUniquePlayer(s) \/ CheckChips(s) \/ SubtractChips(s)
             \/ IncrementPartyCount(s)
      PROVE  SeatInv'
  <2>1. UNCHANGED parties /\ start[s] # "joined"
    BY <1>2 DEF VerifyUniquePlayer, CheckChips, SubtractChips,
         IncrementPartyCount, tables
  <2>2. \E stage \in {"refused", "verified", "checked", "paid", "counted"} :
          start' = [start EXCEPT ![s] = stage]
    BY <1>2 DEF VerifyUniquePlayer, CheckChips, SubtractChips, IncrementPartyCount
  <2>. QED  BY <2>1, <2>2, SeatsKept DEF LedgerTypeOK
<1>3. ASSUME NEW s \in StartRequests, InsertParty(s) PROVE SeatInv'
  <2>1. CASE s.accountId \in parties[s.gameId]
    BY <1>3, <2>1, SeatsKept DEF InsertParty, UniqueGameAccount, LedgerTypeOK
  <2>2. CASE s.accountId \notin parties[s.gameId]
    <3>1. /\ start[s] = "counted" /\ start' = [start EXCEPT ![s] = "joined"]
          /\ parties' = [parties EXCEPT ![s.gameId] = @ \cup {s.accountId}]
      BY <1>3, <2>2 DEF InsertParty, UniqueGameAccount
    <3> SUFFICES ASSUME NEW g \in Games, NEW a \in Accounts
                 PROVE  IF a \in parties'[g]
                        THEN \E t \in StartRequests : Joiners(g, a)' = {t}
                        ELSE Joiners(g, a)' = {}
      BY DEF SeatInv
    <3>2. CASE g = s.gameId /\ a = s.accountId
      <4>1. Joiners(g, a) = {}
        BY <2>2, <3>2 DEF SeatInv
      <4>2. Joiners(g, a)' = {s}
        BY <3>1, <3>2, <4>1 DEF Joiners, LedgerTypeOK
      <4>3. a \in parties'[g]
        BY <3>1, <3>2 DEF LedgerTypeOK
      <4>. QED  BY <4>2, <4>3
    <3>3. CASE ~(g = s.gameId /\ a = s.accountId)
      <4>1. Joiners(g, a)' = Joiners(g, a)
        BY <3>1, <3>3 DEF Joiners, LedgerTypeOK
      <4>2. a \in parties'[g] <=> a \in parties[g]
        BY <3>1, <3>3 DEF LedgerTypeOK
      <4>. QED  BY <4>1, <4>2 DEF SeatInv
    <3>. QED  BY <3>2, <3>3
  <2>. QED  BY <2>1, <2>2
<1>4. CASE LedgerCrash
  <2>1. \A s \in StartRequests : start'[s] = "joined" <=> start[s] = "joined"
    BY <1>4 DEF LedgerCrash, CrashedStart
  <2>. QED  BY <1>4, <2>1, SeatsKept DEF LedgerCrash, tables
<1>5. [LedgerNext]_ledger =>
        \/ UNCHANGED <<parties, start>>
        \/ \E s \in StartRequests :
              \/ VerifyUniquePlayer(s) \/ CheckChips(s) \/ SubtractChips(s)
              \/ IncrementPartyCount(s) \/ InsertParty(s)
        \/ LedgerCrash
  BY DEF LedgerNext, ledger, tables, handlers, FetchOrCreate, SaveGamer,
     FindDepositor, AddReservedChips, MissEvent
<1>. QED  BY <1>1, <1>2, <1>3, <1>4, <1>5

LEMMA SeatInvariant == LedgerSpec => []SeatInv
<1>1. LedgerInit => SeatInv
  BY DEF LedgerInit, SeatInv, Joiners
<1>. QED
  BY <1>1, SeatsStep, LedgerTypeCorrect, PTL DEF LedgerSpec

(* A seat is taken by exactly one request that paid for it, however many     *)
(* ask for it at once.                                                       *)
THEOREM SeatsPaidOnce == LedgerSpec => []PartiesPaidOnce
<1>1. SeatInv => PartiesPaidOnce
  <2> SUFFICES ASSUME SeatInv, NEW g \in Games, NEW a \in Accounts
               PROVE  Cardinality(Joiners(g, a)) = IF a \in parties[g] THEN 1 ELSE 0
    BY DEF PartiesPaidOnce, Joiners
  <2>1. CASE a \in parties[g]
    BY <2>1, FS_Singleton DEF SeatInv
  <2>2. CASE a \notin parties[g]
    BY <2>2, FS_EmptySet DEF SeatInv
  <2>. QED  BY <2>1, <2>2
<1>. QED
  BY <1>1, SeatInvariant, PTL

(* A chip is lost without a seat only to a crash or a lost race for the seat:*)
(* seats are never given back, so the race stays visible.                    *)
THEOREM StrandedExplained == LedgerSpec => []StrandedByCrashOrRace
<1>1. LedgerInit => StrandedByCrashOrRace
  BY DEF LedgerInit, StrandedByCrashOrRace
<1>2. LedgerTypeOK /\ StrandedByCrashOrRace /\ [LedgerNext]_ledger
        => StrandedByCrashOrRace'
  <2> SUFFICES ASSUME LedgerTypeOK, StrandedByCrashOrRace, [LedgerNext]_ledger,
                      NEW s \in StartRequests, start'[s] = "stranded"
               PROVE  faults' > 0 \/ s.accountId \in parties'[s.gameId]
    BY DEF StrandedByCrashOrRace
  <2>1. faults' >= faults /\ faults \in Nat /\ faults' \in Nat
    BY DEF LedgerTypeOK, LedgerNext, ledger, tables, handlers, FetchOrCreate,
       SaveGamer, FindDepositor, AddReservedChips, MissEvent,
       VerifyUniquePlayer, CheckChips, SubtractChips, IncrementPartyCount,
       InsertParty, LedgerCrash
  <2>2. parties[s.gameId] \subseteq parties'[s.gameId]
    BY DEF LedgerTypeOK, LedgerNext, ledger, tables, handlers, FetchOrCreate,
       SaveGamer, FindDepositor, AddReservedChips, MissEvent,
       VerifyUniquePlayer, CheckChips, SubtractChips, IncrementPartyCount,
       InsertParty, LedgerCrash
  <2>3. CASE start[s] = "stranded"
    BY <2>1, <2>2, <2>3 DEF StrandedByCrashOrRace
  <2>4. CASE start[s] # "stranded"
    <3>1. LedgerCrash \/ InsertParty(s)
      BY <2>4 DEF LedgerTypeOK, LedgerNext, ledger, tables, handlers,
         FetchOrCreate, SaveGamer, FindDepositor, AddReservedChips, MissEvent,
         VerifyUniquePlayer, CheckChips, SubtractChips, IncrementPartyCount,
         InsertParty
    <3>2. CASE LedgerCrash
      BY <2>1, <3>2 DEF LedgerCrash
    <3>3. CASE InsertParty(s)
      BY <3>3 DEF InsertParty, UniqueGameAccount, LedgerTypeOK
    <3>. QED  BY <3>1, <3>2, <3>3
  <2>. QED  BY <2>3, <2>4
<1>. QED
  BY <1>1, <1>2, LedgerTypeCorrect, PTL DEF LedgerSpec

-----------------------------------------------------------------------------
(* Party counts *)

\* A request that has been charged holds a row of its account, and once the
\* account's parties are counted that row has one.
CountInv ==
  \A s \in StartRequests :
    /\ start[s] \in {"checked", "paid", "counted", "joined"} =>
         gamer[s] \in RowsOf(s.accountId)
    /\ start[s] \in {"counted", "joined"} => partyCount[gamer[s]] > 0

LEMMA RowsStay ==
  ASSUME LedgerTypeOK, [LedgerNext]_ledger, NEW row \in gamers
  PROVE  row \in gamers' /\ accountId'[row] = accountId[row]
                         /\ partyCount'[row] >= partyCount[row]
<1>1. CASE UNCHANGED tables
  BY <1>1 DEF tables, LedgerTypeOK
<1>2. ASSUME NEW v \in Visits, NEW r \in Rows, SaveGamer(v, r)
      PROVE  row \in gamers' /\ accountId'[row] = accountId[row]
                             /\ partyCount'[row] >= partyCount[row]
  BY <1>2 DEF SaveGamer, LedgerTypeOK
<1>3. ASSUME UNCHANGED <<gamers, accountId, partyCount>>
      PROVE  row \in gamers' /\ accountId'[row] = accountId[row]
                             /\ partyCount'[row] >= partyCount[row]
  BY <1>3 DEF LedgerTypeOK
<1>4. ASSUME NEW s \in StartRequests, IncrementPartyCount(s)
      PROVE  row \in gamers' /\ accountId'[row] = accountId[row]
                             /\ partyCount'[row] >= partyCount[row]
  BY <1>4 DEF IncrementPartyCount, LedgerTypeOK
<1>. QED
  BY <1>1, <1>2, <1>3, <1>4 DEF LedgerNext, ledger, FetchOrCreate, FindDepositor,
     AddReservedChips, MissEvent, VerifyUniquePlayer, CheckChips, SubtractChips,
     InsertParty, LedgerCrash

LEMMA CountsStep ==
  LedgerTypeOK /\ CountInv /\ [LedgerNext]_ledger => CountInv'
<1> SUFFICES ASSUME LedgerTypeOK, CountInv, [LedgerNext]_ledger,
                    NEW s \in StartRequests
             PROVE  /\ start'[s] \in {"checked", "paid", "counted", "joined"} =>
                         gamer'[s] \in RowsOf(s.accountId)'
                    /\ start'[s] \in {"counted", "joined"} =>
                         partyCount'[gamer'[s]] > 0
  BY DEF CountInv
\* A step that leaves this request where it is, or drops it.
<1>1. ASSUME start'[s] = start[s] \/ start'[s] \in {"refused", "stranded"},
             gamer'[s] = gamer[s] \/ start[s] = "unsent" \/ start[s] = "verified"
      PROVE  /\ start'[s] \in {"checked", "paid", "counted", "joined"} =>
                  gamer'[s] \in RowsOf(s.accountId)'
             /\ start'[s] \in {"counted", "joined"} => partyCount'[gamer'[s]] > 0
  <2> SUFFICES ASSUME start'[s] \in {"checked", "paid", "counted", "joined"}
               PROVE  /\ gamer'[s] \in RowsOf(s.accountId)'
                      /\ start'[s] \in {"counted", "joined"} =>
                           partyCount'[gamer'[s]] > 0
    OBVIOUS
  <2>1. start[s] = start'[s] /\ gamer'[s] = gamer[s]
    BY <1>1
  <2>2. gamer[s] \in RowsOf(s.accountId)
    BY <2>1 DEF CountInv
  <2>3. /\ gamer[s] \in gamers' /\ accountId'[gamer[s]] = s.accountId
        /\ partyCount'[gamer[s]] >= partyCount[gamer[s]]
    BY <2>2, RowsStay DEF RowsOf
  <2>4. partyCount[gamer[s]] \in Nat /\ partyCount'[gamer[s]] \in Nat
    BY <2>2, LedgerTypeKept DEF RowsOf, LedgerTypeOK
  <2>. QED  BY <2>1, <2>2, <2>3, <2>4 DEF CountInv, RowsOf
<1>2. CASE CheckChips(s)
  BY <1>2 DEF CheckChips, RowsOf, tables, LedgerTypeOK
<1>3. CASE SubtractChips(s) \/ InsertParty(s)
  BY <1>3, RowsStay
     DEF SubtractChips, InsertParty, CountInv, RowsOf, LedgerTypeOK
<1>4. CASE IncrementPartyCount(s)
  <2>1. gamer[s] \in RowsOf(s.accountId)
    BY <1>4 DEF IncrementPartyCount, CountInv
  <2>2. partyCount'[gamer[s]] = partyCount[gamer[s]] + 1 /\ gamer[s] \in Rows
    BY <1>4, <2>1 DEF IncrementPartyCount, RowsOf, LedgerTypeOK
  <2>3. partyCount[gamer[s]] \in Nat
    BY <2>2 DEF LedgerTypeOK
  <2>. QED
    BY <1>4, <2>1, <2>2, <2>3 DEF IncrementPartyCount, RowsOf
<1>5. \/ CheckChips(s) \/ SubtractChips(s) \/ InsertParty(s)
      \/ IncrementPartyCount(s)
      \/ /\ start'[s] = start[s] \/ start'[s] \in {"refused", "stranded"}
         /\ gamer'[s] = gamer[s]
      \/ VerifyUniquePlayer(s)
  <2>1. ASSUME NEW t \in StartRequests, t # s,
               \/ VerifyUniquePlayer(t) \/ CheckChips(t) \/ SubtractChips(t)
               \/ IncrementPartyCount(t) \/ InsertParty(t)
        PROVE  start'[s] = start[s] /\ gamer'[s] = gamer[s]
    BY <2>1 DEF VerifyUniquePlayer, CheckChips, SubtractChips,
       IncrementPartyCount, InsertParty, LedgerTypeOK
  <2>2. ASSUME NEW d \in Deposits, FindDepositor(d)
        PROVE  start'[s] = start[s] /\ (gamer'[s] = gamer[s] \/ s = d)
    BY <2>2 DEF FindDepositor, LedgerTypeOK
  <2>. QED
    BY <2>1, <2>2 DEF LedgerNext, ledger, handlers, tables, FetchOrCreate,
       SaveGamer, AddReservedChips, MissEvent, LedgerCrash, CrashedStart,
       LedgerTypeOK
<1>6. ASSUME VerifyUniquePlayer(s) PROVE start'[s] \in {"refused", "verified"}
  BY <1>6 DEF VerifyUniquePlayer, LedgerTypeOK
<1>. QED  BY <1>1, <1>2, <1>3, <1>4, <1>5, <1>6

LEMMA CountInvariant == LedgerSpec => []CountInv
<1>1. LedgerInit => CountInv
  BY DEF LedgerInit, CountInv
<1>. QED
  BY <1>1, CountsStep, LedgerTypeCorrect, PTL DEF LedgerSpec

-----------------------------------------------------------------------------
(* Chips are conserved *)

\* Only finitely many rows, charges and credits exist at any time; who is about
\* to change a row holds one of its account; a row starts empty.
HoldersInv ==
  /\ IsFiniteSet(gamers)
  /\ \A a \in Accounts : IsFiniteSet(ChargesOf(a)) /\ IsFiniteSet(CreditsOf(a))
  /\ \A d \in Deposits :
       deposit[d] = "found" => gamer[d] \in RowsOf(d.accountId)
  /\ \A row \in Rows \ gamers : reservedChips[row] = 0

ConservationInv == HoldersInv /\ ChipsConserved

\* Steps that move no chips.
LEMMA ConservedWhenQuiet ==
  ASSUME ConservationInv, UNCHANGED <<gamers, accountId, reservedChips>>,
         \A s \in StartRequests : Charged(s)' <=> Charged(s),
         \A d \in Deposits :
            /\ deposit'[d] = "credited" <=> deposit[d] = "credited"
            /\ deposit'[d] = "found" => gamer'[d] \in RowsOf(d.accountId)
  PROVE  ConservationInv'
<1>1. \A a \in Accounts : /\ RowsOf(a)' = RowsOf(a) /\ ChargesOf(a)' = ChargesOf(a)
                          /\ CreditsOf(a)' = CreditsOf(a)
  BY DEF RowsOf, ChargesOf, CreditsOf
<1>2. HoldersInv'
  BY <1>1 DEF ConservationInv, HoldersInv
<1>3. ChipsConserved'
  BY <1>1 DEF ConservationInv, ChipsConserved, amounts
<1>. QED  BY <1>2, <1>3 DEF ConservationInv

LEMMA ConservedBySave ==
  ASSUME LedgerTypeOK, ConservationInv, NEW v \in Visits, NEW row \in Rows,
         SaveGamer(v, row)
  PROVE  ConservationInv'
<1>1. /\ gamers' = gamers \cup {row} /\ row \notin gamers
      /\ accountId' = [accountId EXCEPT ![row] = v.accountId]
      /\ UNCHANGED <<reservedChips, deposit, start, gamer>>
  BY DEF SaveGamer
<1>2. \A a \in Accounts : RowsOf(a)' = IF a = v.accountId THEN RowsOf(a) \cup {row}
                                                          ELSE RowsOf(a)
  BY <1>1 DEF RowsOf, LedgerTypeOK
<1>3. \A a \in Accounts : ChargesOf(a)' = ChargesOf(a) /\ CreditsOf(a)' = CreditsOf(a)
  BY <1>1 DEF ChargesOf, CreditsOf, Charged
<1>4. HoldersInv'
  <2>1. IsFiniteSet(gamers')
    BY <1>1, FS_AddElement DEF ConservationInv, HoldersInv
  <2>2. \A d \in Deposits :
          deposit'[d] = "found" => gamer'[d] \in RowsOf(d.accountId)'
    BY <1>1, <1>2 DEF ConservationInv, HoldersInv
  <2>3. \A r \in Rows \ gamers' : reservedChips'[r] = 0
    BY <1>1 DEF ConservationInv, HoldersInv
  <2>4. \A a \in Accounts : IsFiniteSet(ChargesOf(a))' /\ IsFiniteSet(CreditsOf(a))'
    BY <1>3 DEF ConservationInv, HoldersInv
  <2>. QED  BY <2>1, <2>2, <2>3, <2>4 DEF HoldersInv
<1>5. ChipsConserved'
  <2> SUFFICES ASSUME NEW a \in Accounts
               PROVE  SumFunctionOnSet(reservedChips, RowsOf(a)')
                        = SumFunctionOnSet(reservedChips, RowsOf(a))
    BY <1>1, <1>3 DEF ConservationInv, ChipsConserved, amounts
  <2>1. CASE a # v.accountId
    BY <1>2, <2>1
  <2>2. CASE a = v.accountId
    <3>1. /\ IsFiniteSet(RowsOf(a)) /\ row \notin RowsOf(a)
          /\ IntOn(reservedChips, RowsOf(a) \cup {row}) /\ IntOn(reservedChips, RowsOf(a))
      BY <1>1, FS_Subset
         DEF RowsOf, ConservationInv, HoldersInv, LedgerTypeOK, IntOn
    <3>2. SumFunctionOnSet(reservedChips, RowsOf(a) \cup {row})
            = reservedChips[row] + SumFunctionOnSet(reservedChips, RowsOf(a))
      BY <3>1, SumAdd
    <3>3. reservedChips[row] = 0
      BY <1>1 DEF ConservationInv, HoldersInv
    <3>4. SumFunctionOnSet(reservedChips, RowsOf(a)) \in Int
      BY <3>1, SumInt
    <3>5. SumFunctionOnSet(reservedChips, RowsOf(a) \cup {row})
            = SumFunctionOnSet(reservedChips, RowsOf(a))
      BY <3>2, <3>3, <3>4
    <3>6. RowsOf(a)' = RowsOf(a) \cup {row}
      BY <1>2, <2>2
    <3>. QED  BY <3>5, <3>6, Zenon
  <2>. QED  BY <2>1, <2>2
<1>. QED  BY <1>4, <1>5 DEF ConservationInv

\* What the rows of an account hold when one row of another, or of its own, is
\* changed.
LEMMA HeldAfter ==
  ASSUME LedgerTypeOK, ConservationInv, NEW b \in Accounts, NEW row \in RowsOf(b),
         NEW change \in Int,
         reservedChips' = [reservedChips EXCEPT ![row] = @ + change],
         UNCHANGED <<gamers, accountId>>
  PROVE  \A a \in Accounts :
           /\ RowsOf(a)' = RowsOf(a)
           /\ SumFunctionOnSet(reservedChips, RowsOf(a)) \in Int
           /\ SumFunctionOnSet(reservedChips', RowsOf(a))
                = SumFunctionOnSet(reservedChips, RowsOf(a))
                    + IF a = b THEN change ELSE 0
<1> SUFFICES ASSUME NEW a \in Accounts
             PROVE  /\ RowsOf(a)' = RowsOf(a)
                    /\ SumFunctionOnSet(reservedChips, RowsOf(a)) \in Int
                    /\ SumFunctionOnSet(reservedChips', RowsOf(a))
                         = SumFunctionOnSet(reservedChips, RowsOf(a))
                             + IF a = b THEN change ELSE 0
  OBVIOUS
<1>1. RowsOf(a)' = RowsOf(a)
  BY DEF RowsOf
<1>2. /\ row \in Rows /\ reservedChips[row] \in Int
      /\ reservedChips'[row] = reservedChips[row] + change
      /\ \A r \in Rows \ {row} : reservedChips'[r] = reservedChips[r]
  BY DEF RowsOf, LedgerTypeOK
<1>3. /\ IsFiniteSet(RowsOf(a)) /\ IntOn(reservedChips, RowsOf(a))
      /\ IntOn(reservedChips', RowsOf(a)) /\ RowsOf(a) \subseteq Rows
  BY <1>2, FS_Subset DEF RowsOf, ConservationInv, HoldersInv, LedgerTypeOK, IntOn
<1>4. SumFunctionOnSet(reservedChips, RowsOf(a)) \in Int
  BY <1>3, SumInt
<1>5. CASE a = b
  <2>1. \A r \in RowsOf(a) \ {row} : reservedChips[r] = reservedChips'[r]
    BY <1>2, <1>3
  <2>2. row \in RowsOf(a)
    BY <1>5
  <2>3. SumFunctionOnSet(reservedChips', RowsOf(a))
          = SumFunctionOnSet(reservedChips, RowsOf(a))
              - reservedChips[row] + reservedChips'[row]
    <3>1. \A h : IntOn(h, RowsOf(a))
                 /\ (\A r \in RowsOf(a) \ {row} : reservedChips[r] = h[r])
                => SumFunctionOnSet(h, RowsOf(a))
                     = SumFunctionOnSet(reservedChips, RowsOf(a))
                         - reservedChips[row] + h[row]
      BY <1>3, <2>2, SumChanged
    <3>. QED  BY <1>3, <2>1, <3>1
  <2>. QED  BY <1>1, <1>2, <1>4, <1>5, <2>3
<1>6. CASE a # b
  <2>1. \A r \in RowsOf(a) : reservedChips[r] = reservedChips'[r]
    BY <1>2, <1>6 DEF RowsOf, LedgerTypeOK
  <2>2. SumFunctionOnSet(reservedChips', RowsOf(a))
          = SumFunctionOnSet(reservedChips, RowsOf(a))
    BY <1>3, <2>1, SumSame
  <2>. QED  BY <1>1, <1>4, <1>6, <2>2
<1>. QED  BY <1>5, <1>6

LEMMA ConservedByCredit ==
  ASSUME LedgerTypeOK, ConservationInv, NEW d \in Deposits, AddReservedChips(d)
  PROVE  ConservationInv'
<1>1. gamer[d] \in RowsOf(d.accountId) /\ d.accountId \in Accounts /\ d.amount \in Int
  BY DEF AddReservedChips, ConservationInv, HoldersInv
<1>2. reservedChips' = [reservedChips EXCEPT ![gamer[d]] = @ + d.amount]
  <2>1. reservedChips \in [Rows -> Int] /\ gamer[d] \in Rows
    BY <1>1 DEF LedgerTypeOK, RowsOf
  <2>2. \A row \in Rows :
          reservedChips[row] + (IF row \in {gamer[d]} THEN d.amount ELSE 0)
            = [reservedChips EXCEPT ![gamer[d]] = @ + d.amount][row]
    BY <1>1, <2>1
  <2>. QED  BY <2>1, <2>2 DEF AddReservedChips, Credited
<1>3. UNCHANGED <<gamers, accountId, start, gamer>>
      /\ deposit' = [deposit EXCEPT ![d] = "credited"] /\ deposit[d] = "found"
  BY DEF AddReservedChips
<1>4. \A a \in Accounts :
        /\ RowsOf(a)' = RowsOf(a)
        /\ SumFunctionOnSet(reservedChips, RowsOf(a)) \in Int
        /\ SumFunctionOnSet(reservedChips', RowsOf(a))
             = SumFunctionOnSet(reservedChips, RowsOf(a))
                 + IF a = d.accountId THEN d.amount ELSE 0
  BY <1>1, <1>2, <1>3, HeldAfter
<1>5. \A a \in Accounts :
        /\ ChargesOf(a)' = ChargesOf(a)
        /\ CreditsOf(a)' = IF a = d.accountId THEN CreditsOf(a) \cup {d}
                                              ELSE CreditsOf(a)
        /\ d \notin CreditsOf(a)
  BY <1>3 DEF ChargesOf, CreditsOf, Charged, LedgerTypeOK
<1>6. HoldersInv'
  <2>1. \A a \in Accounts : IsFiniteSet(ChargesOf(a))' /\ IsFiniteSet(CreditsOf(a))'
    BY <1>5, FS_AddElement DEF ConservationInv, HoldersInv
  <2>2. \A e \in Deposits :
          deposit'[e] = "found" => gamer'[e] \in RowsOf(e.accountId)'
    BY <1>3, <1>4 DEF ConservationInv, HoldersInv, LedgerTypeOK
  <2>3. \A row \in Rows \ gamers' : reservedChips'[row] = 0
    BY <1>1, <1>2, <1>3 DEF ConservationInv, HoldersInv, RowsOf, LedgerTypeOK
  <2>. QED  BY <1>3, <2>1, <2>2, <2>3 DEF ConservationInv, HoldersInv
<1>7. ChipsConserved'
  <2> SUFFICES ASSUME NEW a \in Accounts
               PROVE  SumFunctionOnSet(reservedChips', RowsOf(a)')
                          + UnitsPerChip * Cardinality(ChargesOf(a)')
                        = SumFunctionOnSet(amounts, CreditsOf(a)')
    BY DEF ChipsConserved, amounts
  <2> DEFINE spent == UnitsPerChip * Cardinality(ChargesOf(a))
             added == SumFunctionOnSet(amounts, CreditsOf(a))
             held == SumFunctionOnSet(reservedChips, RowsOf(a))
  <2>1. IsFiniteSet(ChargesOf(a)) /\ IsFiniteSet(CreditsOf(a))
    BY DEF ConservationInv, HoldersInv
  <2>2. spent \in Int
    BY <2>1, FS_CardinalityType
  <2>3. IntOn(amounts, CreditsOf(a)) /\ IntOn(amounts, CreditsOf(a) \cup {d})
    BY DEF IntOn, amounts, CreditsOf
  <2>4. added \in Int
    BY <2>1, <2>3, SumInt
  <2>5. SumFunctionOnSet(amounts, CreditsOf(a) \cup {d}) = d.amount + added
    <3>1. amounts[d] = d.amount
      BY DEF amounts
    <3>. QED  BY <1>5, <2>1, <2>3, <3>1, SumAdd
  <2>6. held + spent = added /\ held \in Int
    BY <1>4 DEF ConservationInv, ChipsConserved
  <2> HIDE DEF spent, added, held
  <2>7. SumFunctionOnSet(reservedChips', RowsOf(a)')
          = held + IF a = d.accountId THEN d.amount ELSE 0
    BY <1>4 DEF held
  <2>8. SumFunctionOnSet(amounts, CreditsOf(a)')
          = added + IF a = d.accountId THEN d.amount ELSE 0
    <3>1. CASE a = d.accountId
      <4>1. CreditsOf(a)' = CreditsOf(a) \cup {d}
        BY <1>5, <3>1
      <4>2. SumFunctionOnSet(amounts, CreditsOf(a)') = d.amount + added
        BY <2>5, <4>1, Zenon
      <4>. QED  BY <1>1, <2>4, <3>1, <4>2
    <3>2. CASE a # d.accountId
      BY <1>5, <2>4, <3>2 DEF added
    <3>. QED  BY <3>1, <3>2
  <2>9. UnitsPerChip * Cardinality(ChargesOf(a)') = spent
    BY <1>5 DEF spent
  <2>. QED  BY <1>1, <2>2, <2>4, <2>6, <2>7, <2>8, <2>9
<1>. QED  BY <1>6, <1>7 DEF ConservationInv

LEMMA ConservedByCharge ==
  ASSUME LedgerTypeOK, CountInv, ConservationInv, NEW s \in StartRequests,
         SubtractChips(s)
  PROVE  ConservationInv'
<1>1. gamer[s] \in RowsOf(s.accountId) /\ s.accountId \in Accounts
  BY DEF SubtractChips, CountInv
<1>2. -UnitsPerChip \in Int /\ UnitsPerChip \in Int
  OBVIOUS
<1>3. /\ reservedChips' = [reservedChips EXCEPT ![gamer[s]] = @ + (-UnitsPerChip)]
      /\ UNCHANGED <<gamers, accountId, deposit, gamer>>
      /\ start' = [start EXCEPT ![s] = "paid"] /\ start[s] = "checked"
  <2>1. reservedChips[gamer[s]] \in Int
    BY <1>1 DEF RowsOf, LedgerTypeOK
  <2>2. reservedChips[gamer[s]] - UnitsPerChip
          = reservedChips[gamer[s]] + (-UnitsPerChip)
    BY <1>2, <2>1
  <2>. QED  BY <2>2 DEF SubtractChips
<1>4. \A a \in Accounts :
        /\ RowsOf(a)' = RowsOf(a)
        /\ SumFunctionOnSet(reservedChips, RowsOf(a)) \in Int
        /\ SumFunctionOnSet(reservedChips', RowsOf(a))
             = SumFunctionOnSet(reservedChips, RowsOf(a))
                 + IF a = s.accountId THEN -UnitsPerChip ELSE 0
  BY <1>1, <1>2, <1>3, HeldAfter
<1>5. \A a \in Accounts :
        /\ CreditsOf(a)' = CreditsOf(a)
        /\ a = s.accountId => ChargesOf(a)' = ChargesOf(a) \cup {s}
        /\ a # s.accountId => ChargesOf(a)' = ChargesOf(a)
        /\ s \notin ChargesOf(a)
  BY <1>3 DEF ChargesOf, CreditsOf, Charged, LedgerTypeOK
<1>6. HoldersInv'
  <2>1. \A a \in Accounts : IsFiniteSet(ChargesOf(a))' /\ IsFiniteSet(CreditsOf(a))'
    BY <1>5, FS_AddElement DEF ConservationInv, HoldersInv
  <2>2. \A e \in Deposits :
          deposit'[e] = "found" => gamer'[e] \in RowsOf(e.accountId)'
    BY <1>3, <1>4 DEF ConservationInv, HoldersInv
  <2>3. \A row \in Rows \ gamers' : reservedChips'[row] = 0
    BY <1>1, <1>3 DEF ConservationInv, HoldersInv, RowsOf, LedgerTypeOK
  <2>. QED  BY <1>3, <2>1, <2>2, <2>3 DEF ConservationInv, HoldersInv
<1>7. ChipsConserved'
  <2> SUFFICES ASSUME NEW a \in Accounts
               PROVE  SumFunctionOnSet(reservedChips', RowsOf(a)')
                          + UnitsPerChip * Cardinality(ChargesOf(a)')
                        = SumFunctionOnSet(amounts, CreditsOf(a))
    BY <1>5 DEF ChipsConserved, amounts
  <2>1. IsFiniteSet(ChargesOf(a))
    BY DEF ConservationInv, HoldersInv
  <2>2. PICK n \in Nat : n = Cardinality(ChargesOf(a))
    BY <2>1, FS_CardinalityType
  <2>3. SumFunctionOnSet(reservedChips, RowsOf(a)) + UnitsPerChip * n
          = SumFunctionOnSet(amounts, CreditsOf(a))
    BY <2>2 DEF ConservationInv, ChipsConserved
  <2>4. SumFunctionOnSet(reservedChips', RowsOf(a)')
          = SumFunctionOnSet(reservedChips, RowsOf(a))
              + IF a = s.accountId THEN -UnitsPerChip ELSE 0
    BY <1>4
  <2>5. CASE a = s.accountId
    <3>1. Cardinality(ChargesOf(a)') = n + 1
      BY <1>5, <2>1, <2>2, <2>5, FS_AddElement
    <3>2. UnitsPerChip * (n + 1) = UnitsPerChip * n + UnitsPerChip
          /\ UnitsPerChip * n \in Int
      BY <1>2
    <3>. QED  BY <1>2, <1>4, <2>3, <2>4, <2>5, <3>1, <3>2
  <2>6. CASE a # s.accountId
    BY <1>4, <1>5, <2>2, <2>3, <2>4, <2>6
  <2>. QED  BY <2>5, <2>6
<1>. QED  BY <1>6, <1>7 DEF ConservationInv

LEMMA ConservationStep ==
  LedgerTypeOK /\ CountInv /\ ConservationInv /\ [LedgerNext]_ledger
    => ConservationInv'
<1> SUFFICES ASSUME LedgerTypeOK, CountInv, ConservationInv, [LedgerNext]_ledger
             PROVE  ConservationInv'
  OBVIOUS
<1>1. ASSUME NEW v \in Visits, NEW row \in Rows, SaveGamer(v, row)
      PROVE  ConservationInv'
  BY <1>1, ConservedBySave
<1>2. ASSUME NEW d \in Deposits, AddReservedChips(d) PROVE ConservationInv'
  BY <1>2, ConservedByCredit
<1>3. ASSUME NEW s \in StartRequests, SubtractChips(s) PROVE ConservationInv'
  BY <1>3, ConservedByCharge
<1>4. ASSUME UNCHANGED <<gamers, accountId, reservedChips, start, deposit, gamer>>
      PROVE  ConservationInv'
  BY <1>4, ConservedWhenQuiet DEF Charged, ConservationInv, HoldersInv
<1>5. ASSUME NEW d \in Deposits, FindDepositor(d) \/ MissEvent(d)
      PROVE  ConservationInv'
  <2>1. /\ UNCHANGED <<gamers, accountId, reservedChips, start>>
        /\ \A e \in Deposits : e # d => deposit'[e] = deposit[e] /\ gamer'[e] = gamer[e]
        /\ deposit[d] = "unsent" /\ deposit'[d] \in {"lost", "found"}
        /\ deposit'[d] = "found" => gamer'[d] \in RowsOf(d.accountId)
    BY <1>5 DEF FindDepositor, MissEvent, tables, LedgerTypeOK
  <2>. QED
    BY <2>1, ConservedWhenQuiet DEF Charged, ConservationInv, HoldersInv
<1>6. ASSUME NEW s \in StartRequests,
             \/ VerifyUniquePlayer(s) \/ CheckChips(s) \/ IncrementPartyCount(s)
             \/ InsertParty(s)
      PROVE  ConservationInv'
  <2>1. UNCHANGED <<gamers, accountId, reservedChips, deposit>>
    BY <1>6 DEF VerifyUniquePlayer, CheckChips, IncrementPartyCount, InsertParty,
       tables
  <2>2. \A t \in StartRequests : Charged(t)' <=> Charged(t)
    BY <1>6 DEF VerifyUniquePlayer, CheckChips, IncrementPartyCount, InsertParty,
       LedgerTypeOK, Charged
  <2>3. \A d \in Deposits : gamer'[d] = gamer[d]
    BY <1>6 DEF VerifyUniquePlayer, CheckChips, IncrementPartyCount, InsertParty,
       LedgerTypeOK
  <2>. QED
    BY <2>1, <2>2, <2>3, ConservedWhenQuiet DEF ConservationInv, HoldersInv
<1>7. CASE LedgerCrash
  <2>1. \A s \in StartRequests : Charged(s)' <=> Charged(s)
    BY <1>7 DEF LedgerCrash, CrashedStart, Charged, LedgerTypeOK
  <2>. QED
    BY <1>7, <2>1, ConservedWhenQuiet
       DEF LedgerCrash, tables, LedgerTypeOK
<1>8. [LedgerNext]_ledger =>
        \/ UNCHANGED <<gamers, accountId, reservedChips, start, deposit, gamer>>
        \/ \E v \in Visits, row \in Rows : SaveGamer(v, row)
        \/ \E d \in Deposits : FindDepositor(d) \/ AddReservedChips(d) \/ MissEvent(d)
        \/ \E s \in StartRequests :
              \/ VerifyUniquePlayer(s) \/ CheckChips(s) \/ SubtractChips(s)
              \/ IncrementPartyCount(s) \/ InsertParty(s)
        \/ LedgerCrash
  BY DEF LedgerNext, ledger, tables, handlers, FetchOrCreate
<1>. QED  BY <1>1, <1>2, <1>3, <1>4, <1>5, <1>6, <1>7, <1>8

(* Chips are conserved: over any number of deposits, charges, duplicate rows *)
(* and crashes, what the rows of an account hold and what its games have     *)
(* taken add up to what its events have brought.                             *)
THEOREM ChipsAddUp == LedgerSpec => []ChipsConserved
<1>1. LedgerInit => ConservationInv
  <2> SUFFICES ASSUME LedgerInit PROVE ConservationInv
    OBVIOUS
  <2>1. \A a \in Accounts : RowsOf(a) = {} /\ ChargesOf(a) = {} /\ CreditsOf(a) = {}
    BY DEF LedgerInit, RowsOf, ChargesOf, CreditsOf, Charged
  <2>2. HoldersInv
    BY <2>1, FS_EmptySet DEF LedgerInit, HoldersInv
  <2>3. ChipsConserved
    <3> SUFFICES ASSUME NEW a \in Accounts
                 PROVE  SumFunctionOnSet(reservedChips, {})
                            + UnitsPerChip * Cardinality({})
                          = SumFunctionOnSet(amounts, {})
      BY <2>1 DEF ChipsConserved
    <3>. QED  BY SumEmpty, FS_EmptySet
  <2>. QED  BY <2>2, <2>3 DEF ConservationInv
<1>2. ConservationInv => ChipsConserved
  BY DEF ConservationInv
<1>. QED
  BY <1>1, <1>2, ConservationStep, CountInvariant, LedgerTypeCorrect, PTL
     DEF LedgerSpec

=============================================================================
