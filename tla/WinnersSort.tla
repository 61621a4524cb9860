------------------------------ MODULE WinnersSort ------------------------------
(***************************************************************************)
(* winnersSort of the end-game processor: the podium of a game, computed   *)
(* from the agreed result by rounds that each find the best players left.  *)
(* A step is a round of its while loop up to the inner loop, or one        *)
(* iteration of the inner loop, which places one winner of the round.      *)
(***************************************************************************)
EXTENDS Integers, FiniteSets, SequencesExt

CONSTANT ResultLists    \* gameResultLists the processor may agree on

\* An entry of a list is a record [accountId, kills, deaths, headshots].  Empty
\* lists are filtered out before one is agreed on, and the query that reads a
\* list orders it by kills first.
ASSUME ListsAssumption ==
  \A list \in ResultLists :
    /\ list \in Seq(Range(list)) /\ list # <<>>
    /\ \A e \in Range(list) :
         e.kills \in Nat /\ e.deaths \in Nat /\ e.headshots \in Nat
    /\ \A m, n \in DOMAIN list : m < n => list[m].kills >= list[n].kills

VARIABLES originalResults, gameResultList, winners, sortedWinners, returned

sortVars ==
  <<originalResults, gameResultList, winners, sortedWinners, returned>>

SortInit ==
  /\ originalResults \in ResultLists
  /\ gameResultList = originalResults
  /\ winners = <<>>
  /\ sortedWinners = <<>>
  /\ returned = FALSE

\* The places in a list that a filter keeps of those it is given.
MostKills(list, places) ==
  {n \in places : \A m \in places : list[n].kills >= list[m].kills}
FewestDeaths(list, places) ==
  {n \in places : \A m \in places : list[n].deaths <= list[m].deaths}
MostHeadshots(list, places) ==
  {n \in places : \A m \in places : list[n].headshots >= list[m].headshots}

\* The n-th of some places, in the order of the list.
Nth(places, n) == CHOOSE m \in places : Cardinality({k \in places : k < m}) = n - 1

AccountIds(list) == [n \in DOMAIN list |-> list[n].accountId]
AccountsAt(list, places) ==
  [n \in 1 .. Cardinality(places) |-> list[Nth(places, n)].accountId]

\* Mutant: headshots are compared before deaths.
HeadshotsFirst(list) ==
  AccountsAt(list, FewestDeaths(list, MostHeadshots(list,
                     MostKills(list, DOMAIN list))))
\* The early returns on a single player are what the later filters would give.
FindWinners(list) ==
  AccountsAt(list, MostHeadshots(list, FewestDeaths(list,
                     MostKills(list, DOMAIN list))))

\* Mutant: the entry is looked up and left in the list.
DropNone(list, account) == list
\* Array.splice(idx, 1) at the first entry of the account, if it has one.
DropFirst(list, account) ==
  LET idx == {n \in DOMAIN list : list[n].accountId = account}
  IN  IF idx = {} THEN list ELSE RemoveAt(list, Min(idx))

PushOnce(sorted, winner) ==
  IF Contains(sorted, winner) THEN sorted ELSE Append(sorted, winner)

PodiumFull(sorted) == Len(sorted) >= 3

LoopEnds == gameResultList = <<>> \/ PodiumFull(sortedWinners)

Round ==
  /\ ~returned
  /\ winners = <<>>
  /\ ~LoopEnds
  /\ winners' = FindWinners(gameResultList)
  /\ UNCHANGED <<originalResults, gameResultList, sortedWinners, returned>>

Place ==
  /\ winners # <<>>
  /\ sortedWinners' = PushOnce(sortedWinners, Head(winners))
  /\ gameResultList' = DropFirst(gameResultList, Head(winners))
  /\ winners' = Tail(winners)
  /\ UNCHANGED <<originalResults, returned>>

Return ==
  /\ ~returned
  /\ winners = <<>>
  /\ LoopEnds
  /\ returned' = TRUE
  /\ UNCHANGED <<originalResults, gameResultList, winners, sortedWinners>>

SortNext == Round \/ Place \/ Return

\* The loop is synchronous code: it runs.
SortSpec == SortInit /\ [][SortNext]_sortVars /\ WF_sortVars(SortNext)

Podium == SubSeq(sortedWinners, 1, Min({3, Len(sortedWinners)}))

-----------------------------------------------------------------------------

Players == {e.accountId : e \in Range(originalResults)}

SortTypeOK ==
  /\ gameResultList \in Seq(Range(originalResults))
  /\ winners \in Seq(Players)
  /\ sortedWinners \in Seq(Players)
  /\ returned \in BOOLEAN

\* Entry e beats entry f: more kills, then fewer deaths, then more headshots.
Beats(e, f) ==
  \/ e.kills > f.kills
  \/ e.kills = f.kills /\ e.deaths < f.deaths
  \/ e.kills = f.kills /\ e.deaths = f.deaths /\ e.headshots > f.headshots

\* An account beats another when its best entry does.
Outranks(a, b) ==
  \E e \in Range(originalResults) :
    /\ e.accountId = a
    /\ \A f \in Range(originalResults) : f.accountId = b => Beats(e, f)

(* The podium is three players, or all of them if they are fewer, each once, *)
(* none below one it outranks, and none off it that outranks one on it: the  *)
(* rounds compute the ranking they stand for, also from a list that holds    *)
(* several entries of an account.                                            *)
PodiumIsRanking ==
  returned =>
    /\ Len(Podium) = Min({3, Cardinality(Players)})
    /\ IsInjective(Podium)
    /\ \A m, n \in DOMAIN Podium : m < n => ~Outranks(Podium[n], Podium[m])
    /\ \A a \in Players \ Range(Podium) : \A n \in DOMAIN Podium :
         ~Outranks(a, Podium[n])

(* The loop ends: every round takes at least one entry off the list.         *)
Terminates == <>returned

=============================================================================
