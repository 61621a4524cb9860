------------------------------ MODULE ChipLedger ------------------------------
(***************************************************************************)
(* The chips of table gamers: GET /gamers/:accountId creates a gamer,      *)
(* reserveChipsEvents of the on-chain program add chips, and POST          *)
(* /games/play takes one chip and adds the account to a game.              *)
(*                                                                         *)
(* A step is one database statement with the code up to the next await; a  *)
(* transaction at READ COMMITTED is its read and its update with commit.   *)
(***************************************************************************)
EXTENDS Integers, FiniteSets, Functions

CONSTANTS
  Games, Accounts,
  Rows,            \* ids of the rows table gamers may come to have (a bound)
  Visits,          \* GET /gamers/:accountId requests
  Deposits,        \* reserveChipsEvents
  StartRequests,   \* POST /games/play requests
  UnitsPerChip,    \* base units of a chip, 10^9 on chain
  Faults, MaxFaults

ASSUME ActorsAssumption ==
  /\ \A v \in Visits : v.accountId \in Accounts
  /\ \A d \in Deposits : d.accountId \in Accounts /\ d.amount \in Nat
  /\ \A s \in StartRequests : s.gameId \in Games /\ s.accountId \in Accounts
  /\ Deposits \cap StartRequests = {}

ASSUME UnitsAssumption == UnitsPerChip \in Nat \ {0}
ASSUME LedgerFaultsAssumption ==
  Faults \subseteq {"crash", "rpc"} /\ MaxFaults \in Nat

VARIABLES
  \* table gamers: rows in use, by account, and columns in base units
  gamers, accountId, reservedChips, partyCount,
  \* table game_party
  parties,
  \* where each request or event is, and the row its handler has read
  visit, deposit, start, gamer,
  \* crashes so far
  faults

tables   == <<gamers, accountId, reservedChips, partyCount, parties>>
handlers == <<visit, deposit, start, gamer>>
ledger   == <<tables, handlers, faults>>

NoAccount == "none"
NoRow == "no row"
RowsOf(a) == {row \in gamers : accountId[row] = a}

LedgerInit ==
  /\ gamers = {}
  /\ accountId = [row \in Rows |-> NoAccount]
  /\ reservedChips = [row \in Rows |-> 0]
  /\ partyCount = [row \in Rows |-> 0]
  /\ parties = [g \in Games |-> {}]
  /\ visit = [v \in Visits |-> "unsent"]
  /\ deposit = [d \in Deposits |-> "unsent"]
  /\ start = [s \in StartRequests |-> "unsent"]
  /\ gamer = [x \in Deposits \cup StartRequests |-> NoRow]
  /\ faults = 0

-----------------------------------------------------------------------------
(* GET /gamers/:accountId *)

\* fetchOrCreate up to its test for the gamer.
FetchOrCreate(v) ==
  /\ visit[v] = "unsent"
  /\ visit' = [visit EXCEPT ![v] = IF RowsOf(v.accountId) = {} THEN "saving"
                                                               ELSE "done"]
  /\ UNCHANGED <<tables, deposit, start, gamer, faults>>

SaveGamer(v, row) ==
  /\ visit[v] = "saving"
  /\ row \notin gamers
  /\ visit' = [visit EXCEPT ![v] = "done"]
  /\ gamers' = gamers \cup {row}
  /\ accountId' = [accountId EXCEPT ![row] = v.accountId]
  /\ UNCHANGED <<reservedChips, partyCount, parties, deposit, start, gamer,
                 faults>>

-----------------------------------------------------------------------------
(* ChipListenerService: addReservedChips *)

\* findOneByOrFail: one of the account's rows, or the event is lost.
FindDepositor(d) ==
  /\ deposit[d] = "unsent"
  /\ IF RowsOf(d.accountId) = {}
     THEN deposit' = [deposit EXCEPT ![d] = "lost"] /\ UNCHANGED gamer
     ELSE /\ deposit' = [deposit EXCEPT ![d] = "found"]
          /\ \E row \in RowsOf(d.accountId) : gamer' = [gamer EXCEPT ![d] = row]
  /\ UNCHANGED <<tables, visit, start, faults>>

\* Mutant: the update is by accountId, as incrementPartyCount's is.
CreditedByAccount(d) == RowsOf(d.accountId)
Credited(d) == {gamer[d]}

AddReservedChips(d) ==
  /\ deposit[d] = "found"
  /\ deposit' = [deposit EXCEPT ![d] = "credited"]
  /\ reservedChips' = [row \in Rows |->
       reservedChips[row] + IF row \in Credited(d) THEN d.amount ELSE 0]
  /\ UNCHANGED <<gamers, accountId, partyCount, parties, visit, start, gamer,
                 faults>>

-----------------------------------------------------------------------------
(* POST /games/play: startGame *)

VerifyUniquePlayer(s) ==
  /\ start[s] = "unsent"
  /\ start' = [start EXCEPT ![s] = IF s.accountId \in parties[s.gameId]
                                   THEN "refused" ELSE "verified"]
  /\ UNCHANGED <<tables, visit, deposit, gamer, faults>>

\* subtractChips: the transaction's read, and its test for enough chips.
CheckChips(s) ==
  /\ start[s] = "verified"
  /\ \/ /\ RowsOf(s.accountId) = {}
        /\ start' = [start EXCEPT ![s] = "refused"]
        /\ UNCHANGED gamer
     \/ \E row \in RowsOf(s.accountId) :
          /\ start' = [start EXCEPT ![s] = IF reservedChips[row] < UnitsPerChip
                                           THEN "refused" ELSE "checked"]
          /\ gamer' = [gamer EXCEPT ![s] = row]
  /\ UNCHANGED <<tables, visit, deposit, faults>>

\* The transaction's relative UPDATE, committed.
SubtractChips(s) ==
  /\ start[s] = "checked"
  /\ start' = [start EXCEPT ![s] = "paid"]
  /\ reservedChips' = [reservedChips EXCEPT ![gamer[s]] = @ - UnitsPerChip]
  /\ UNCHANGED <<gamers, accountId, partyCount, parties, visit, deposit, gamer,
                 faults>>

\* Mutants: the party count is updated by a wrong key; it goes down with the chip.
CountNobody(s) ==
  /\ start[s] = "paid"
  /\ start' = [start EXCEPT ![s] = "counted"]
  /\ UNCHANGED <<gamers, accountId, reservedChips, partyCount, parties, visit,
                 deposit, gamer, faults>>
DecrementPartyCount(s) ==
  /\ start[s] = "paid"
  /\ start' = [start EXCEPT ![s] = "counted"]
  /\ partyCount' = [row \in Rows |->
       partyCount[row] - IF row \in RowsOf(s.accountId) THEN 1 ELSE 0]
  /\ UNCHANGED <<gamers, accountId, reservedChips, parties, visit, deposit,
                 gamer, faults>>

IncrementPartyCount(s) ==
  /\ start[s] = "paid"
  /\ start' = [start EXCEPT ![s] = "counted"]
  /\ partyCount' = [row \in Rows |->
       partyCount[row] + IF row \in RowsOf(s.accountId) THEN 1 ELSE 0]
  /\ UNCHANGED <<gamers, accountId, reservedChips, parties, visit, deposit,
                 gamer, faults>>

\* Mutants: no constraint on game_party; a constraint of one account per game.
NoConstraint(s) == s \in StartRequests
UniqueGame(s) == parties[s.gameId] = {}
UniqueGameAccount(s) == s.accountId \notin parties[s.gameId]

\* The INSERT, refused by the unique constraint after the chip is gone.
InsertParty(s) ==
  /\ start[s] = "counted"
  /\ IF UniqueGameAccount(s)
     THEN /\ start' = [start EXCEPT ![s] = "joined"]
          /\ parties' = [parties EXCEPT ![s.gameId] = @ \cup {s.accountId}]
     ELSE /\ start' = [start EXCEPT ![s] = "stranded"]
          /\ UNCHANGED parties
  /\ UNCHANGED <<gamers, accountId, reservedChips, partyCount, visit, deposit,
                 gamer, faults>>

-----------------------------------------------------------------------------
(* Faults *)

\* The log subscription misses an event; nothing asks for it again.
MissEvent(d) ==
  /\ "rpc" \in Faults
  /\ deposit[d] = "unsent"
  /\ deposit' = [deposit EXCEPT ![d] = "lost"]
  /\ UNCHANGED <<tables, visit, start, gamer, faults>>

\* The process dies: open transactions roll back, committed chips are gone.
CrashedStart(s) ==
  CASE start[s] \in {"verified", "checked"} -> "refused"
    [] start[s] \in {"paid", "counted"} -> "stranded"
    [] OTHER -> start[s]

LedgerCrash ==
  /\ "crash" \in Faults
  /\ faults < MaxFaults
  /\ faults' = faults + 1
  /\ visit' = [v \in Visits |-> IF visit[v] = "saving" THEN "done" ELSE visit[v]]
  /\ deposit' = [d \in Deposits |->
                   IF deposit[d] = "found" THEN "lost" ELSE deposit[d]]
  /\ start' = [s \in StartRequests |-> CrashedStart(s)]
  /\ UNCHANGED <<tables, gamer>>

-----------------------------------------------------------------------------

LedgerNext ==
  \/ \E v \in Visits : FetchOrCreate(v) \/ \E row \in Rows : SaveGamer(v, row)
  \/ \E d \in Deposits : FindDepositor(d) \/ AddReservedChips(d) \/ MissEvent(d)
  \/ \E s \in StartRequests :
       \/ VerifyUniquePlayer(s)
       \/ CheckChips(s)
       \/ SubtractChips(s)
       \/ IncrementPartyCount(s)
       \/ InsertParty(s)
  \/ LedgerCrash

LedgerSpec == LedgerInit /\ [][LedgerNext]_ledger

-----------------------------------------------------------------------------
(* Properties *)

LedgerTypeOK ==
  /\ gamers \subseteq Rows
  /\ accountId \in [Rows -> Accounts \cup {NoAccount}]
  /\ reservedChips \in [Rows -> Int]
  /\ partyCount \in [Rows -> Nat]
  /\ parties \in [Games -> SUBSET Accounts]
  /\ visit \in [Visits -> {"unsent", "saving", "done"}]
  /\ deposit \in [Deposits -> {"unsent", "found", "credited", "lost"}]
  /\ start \in [StartRequests -> {"unsent", "refused", "verified", "checked",
                                  "paid", "counted", "joined", "stranded"}]
  /\ gamer \in [Deposits \cup StartRequests -> Rows \cup {NoRow}]
  /\ faults \in 0 .. MaxFaults

Charged(s) == start[s] \in {"paid", "counted", "joined", "stranded"}
ChargesOf(a) == {s \in StartRequests : s.accountId = a /\ Charged(s)}
CreditsOf(a) == {d \in Deposits : d.accountId = a /\ deposit[d] = "credited"}
amounts == [d \in Deposits |-> d.amount]

(* Chips are conserved: what an account's rows hold and what its games have  *)
(* taken is what its events have added, whichever of its rows a handler read *)
(* and whatever ran in between.                                              *)
ChipsConserved ==
  \A a \in Accounts :
    SumFunctionOnSet(reservedChips, RowsOf(a))
        + UnitsPerChip * Cardinality(ChargesOf(a))
      = SumFunctionOnSet(amounts, CreditsOf(a))

(* Every row of game_party was paid for by one chip of its account, and only *)
(* by one, however many requests for it were in flight.                      *)
PartiesPaidOnce ==
  \A g \in Games, a \in Accounts :
    Cardinality({s \in StartRequests : s.gameId = g /\ s.accountId = a
                                       /\ start[s] = "joined"})
      = IF a \in parties[g] THEN 1 ELSE 0

(* A chip is lost without a seat only to a crash, or to another request for  *)
(* the same seat that was let in; a missed event costs nobody a seat.        *)
StrandedByCrashOrRace ==
  \A s \in StartRequests :
    start[s] = "stranded" => faults > 0 \/ s.accountId \in parties[s.gameId]

(* "Gamer does not have enough chips.": a gamer's chips are never spent      *)
(* below zero.                                                               *)
ChipsNeverNegative == \A row \in Rows : reservedChips[row] >= 0

=============================================================================
