----------------------------- MODULE PrizesProofs -----------------------------
(***************************************************************************)
(* Theorems about WinnersSort and Prizes, for every list a game may be     *)
(* settled on and every content of table gamers.                           *)
(***************************************************************************)
EXTENDS Prizes, SequenceTheorems, SumLemmas

USE ListsAssumption

-----------------------------------------------------------------------------
(* Places in a list *)

LEMMA MinIsLeast ==
  ASSUME NEW S \in SUBSET Nat, S # {}
  PROVE  Min(S) \in S /\ \A x \in S : Min(S) <= x
BY LeastNat DEF Min

LEMMA PlacesAreFinite ==
  ASSUME NEW T, NEW list \in Seq(T), NEW places \in SUBSET DOMAIN list
  PROVE  places \in SUBSET Nat /\ IsFiniteSet(places)
<1>1. IsFiniteSet(1 .. Len(list)) /\ 1 .. Len(list) = DOMAIN list
  BY FS_Interval
<1>. QED  BY <1>1, FS_Subset

\* There is an n-th place for every n up to their number: the number of places
\* before one is a bijection of the places and 0 .. Cardinality(places) - 1.
LEMMA NthIsPlace ==
  ASSUME NEW places \in SUBSET Nat, IsFiniteSet(places),
         NEW n \in 1 .. Cardinality(places)
  PROVE  Nth(places, n) \in places
<1> DEFINE before(m) == {k \in places : k < m}
           rank == [m \in places |-> Cardinality(before(m))]
           ranks == 0 .. Cardinality(places) - 1
<1>0. Cardinality(places) \in Nat /\ \A k \in places : k \in Nat
  BY FS_CardinalityType
<1>1. \A m \in places : IsFiniteSet(before(m)) /\ Cardinality(before(m)) \in Nat
  BY FS_Subset, FS_CardinalityType
<1>2. \A m \in places : Cardinality(before(m)) < Cardinality(places)
  <2> SUFFICES ASSUME NEW m \in places
               PROVE  Cardinality(before(m)) < Cardinality(places)
    OBVIOUS
  <2>1. before(m) \subseteq places /\ before(m) # places
    OBVIOUS
  <2> HIDE DEF before
  <2>. QED  BY <1>0, <1>1, <2>1, FS_Subset
<1>3. \A l, m \in places : l < m => Cardinality(before(l)) < Cardinality(before(m))
  <2> SUFFICES ASSUME NEW l \in places, NEW m \in places, l < m
               PROVE  Cardinality(before(l)) < Cardinality(before(m))
    OBVIOUS
  <2>1. \A k \in places : k < l => k < m
    BY <1>0
  <2>2. before(l) \subseteq before(m) /\ l \in before(m) /\ l \notin before(l)
    <3>1. ~(l < l)
      BY <1>0
    <3>. QED  BY <2>1, <3>1
  <2> HIDE DEF before
  <2>. QED  BY <1>1, <2>2, FS_Subset
<1>4. rank \in Injection(places, ranks)
  <2>1. rank \in [places -> ranks]
    <3>1. \A m \in places : Cardinality(before(m)) \in ranks
      BY <1>0, <1>1, <1>2
    <3> HIDE DEF before, ranks
    <3>. QED  BY <3>1
  <2>2. \A l, m \in places : rank[l] = rank[m] => l = m
    <3> SUFFICES ASSUME NEW l \in places, NEW m \in places, l # m
                 PROVE  rank[l] # rank[m]
      OBVIOUS
    <3>1. l < m \/ m < l
      OBVIOUS
    <3>2. rank[l] = Cardinality(before(l)) /\ rank[m] = Cardinality(before(m))
      OBVIOUS
    <3> HIDE DEF rank, before
    <3>. QED  BY <1>1, <1>3, <3>1, <3>2
  <2> HIDE DEF rank, ranks
  <2>. QED  BY <2>1, <2>2 DEF Injection, IsInjective
<1>5. IsFiniteSet(ranks) /\ Cardinality(ranks) = Cardinality(places)
  <2>1. 0 \in Int /\ Cardinality(places) - 1 \in Int
    BY <1>0
  <2>2. IsFiniteSet(ranks) /\ Cardinality(ranks) =
          IF 0 > Cardinality(places) - 1 THEN 0
                                        ELSE Cardinality(places) - 1 - 0 + 1
    BY <2>1, FS_Interval
  <2> HIDE DEF ranks
  <2>. QED  BY <1>0, <2>2
<1>6. \E m \in places : rank[m] = n - 1
  <2>1. n - 1 \in ranks
    BY <1>0
  <2> HIDE DEF rank, ranks
  <2>2. rank \in Surjection(places, ranks)
    BY <1>4, <1>5, FS_Injection
  <2>. QED  BY <2>1, <2>2 DEF Surjection
<1>. QED  BY <1>6 DEF Nth

-----------------------------------------------------------------------------
(* A round finds entries that no other beats *)

Entry(e) == e.kills \in Nat /\ e.deaths \in Nat /\ e.headshots \in Nat

Unbeaten(e, list) == \A f \in Range(list) : ~Beats(f, e)

LEMMA KeptAreUnbeaten ==
  ASSUME NEW T, NEW list \in Seq(T), \A e \in Range(list) : Entry(e),
         NEW n \in MostHeadshots(list, FewestDeaths(list,
                                         MostKills(list, DOMAIN list)))
  PROVE  n \in DOMAIN list /\ Unbeaten(list[n], list)
<1>1. n \in DOMAIN list
  BY DEF MostHeadshots, FewestDeaths, MostKills
<1> SUFFICES ASSUME NEW m \in DOMAIN list PROVE ~Beats(list[m], list[n])
  BY <1>1 DEF Unbeaten, Range
<1>2. \A k \in DOMAIN list : Entry(list[k])
  BY DEF Range
<1>3. \A k \in DOMAIN list : list[n].kills >= list[k].kills
  BY DEF MostHeadshots, FewestDeaths, MostKills
<1>4. \A k \in DOMAIN list :
        list[k].kills = list[n].kills => k \in MostKills(list, DOMAIN list)
  BY <1>3 DEF MostKills
<1>5. \A k \in DOMAIN list :
        list[k].kills = list[n].kills => list[n].deaths <= list[k].deaths
  BY <1>4 DEF MostHeadshots, FewestDeaths
<1>6. \A k \in DOMAIN list :
        list[k].kills = list[n].kills /\ list[k].deaths = list[n].deaths
          => list[n].headshots >= list[k].headshots
  BY <1>4, <1>5 DEF MostHeadshots, FewestDeaths
<1>. QED
  BY <1>1, <1>2, <1>3, <1>5, <1>6 DEF Beats, Entry

LEMMA WinnersAreUnbeaten ==
  ASSUME NEW T, NEW list \in Seq(T), \A e \in Range(list) : Entry(e)
  PROVE  \A i \in DOMAIN FindWinners(list) :
           \E e \in Range(list) :
             e.accountId = FindWinners(list)[i] /\ Unbeaten(e, list)
<1> DEFINE places == MostHeadshots(list, FewestDeaths(list,
                                           MostKills(list, DOMAIN list)))
<1>1. places \in SUBSET DOMAIN list
  BY DEF MostHeadshots, FewestDeaths, MostKills
<1>2. \A n \in places : n \in DOMAIN list /\ Unbeaten(list[n], list)
  BY KeptAreUnbeaten
<1>3. FindWinners(list) = AccountsAt(list, places)
  BY DEF FindWinners
<1> HIDE DEF places
<1>4. places \in SUBSET Nat /\ IsFiniteSet(places)
  BY <1>1, PlacesAreFinite
<1>5. \A i \in 1 .. Cardinality(places) : Nth(places, i) \in places
  BY <1>4, NthIsPlace
<1>. QED  BY <1>2, <1>3, <1>5 DEF AccountsAt, Range

LEMMA WinnersAreASequence ==
  ASSUME NEW T, NEW list \in Seq(T), \A e \in Range(list) : Entry(e),
         NEW A, \A e \in Range(list) : e.accountId \in A
  PROVE  FindWinners(list) \in Seq(A)
<1> DEFINE places == MostHeadshots(list, FewestDeaths(list,
                                           MostKills(list, DOMAIN list)))
<1>1. places \in SUBSET DOMAIN list
  BY DEF MostHeadshots, FewestDeaths, MostKills
<1>2. FindWinners(list) = AccountsAt(list, places)
  BY DEF FindWinners
<1> HIDE DEF places
<1>3. Cardinality(places) \in Nat
  BY <1>1, PlacesAreFinite, FS_CardinalityType
<1>4. \A i \in 1 .. Cardinality(places) : FindWinners(list)[i] \in A
  BY <1>2, WinnersAreUnbeaten DEF AccountsAt
<1>. QED  BY <1>2, <1>3, <1>4, IsASeq DEF AccountsAt

\* A winner leaves the list with one entry of its account and no other.
LEMMA OthersStay ==
  ASSUME NEW T, NEW list \in Seq(T), NEW a
  PROVE  /\ DropFirst(list, a) \in Seq(T)
         /\ Range(DropFirst(list, a)) \subseteq Range(list)
         /\ \A e \in Range(list) :
              e.accountId # a => e \in Range(DropFirst(list, a))
<1> DEFINE idx == {n \in DOMAIN list : list[n].accountId = a}
<1>1. CASE idx = {}
  BY <1>1 DEF DropFirst
<1>2. CASE idx # {}
  <2>1. PICK i \in idx : DropFirst(list, a) = RemoveAt(list, i)
    <3>1. idx \in SUBSET Nat
      BY PlacesAreFinite
    <3>. QED  BY <1>2, <3>1, MinIsLeast DEF DropFirst
  <2>2. i \in 1 .. Len(list) /\ Len(list) \in Nat /\ list[i].accountId = a
    OBVIOUS
  <2> DEFINE front == SubSeq(list, 1, i - 1)
             back == SubSeq(list, i + 1, Len(list))
  <2>3. \A n \in 1 .. Len(list) : list[n] \in T
    OBVIOUS
  <2>4. /\ front \in Seq(T) /\ Len(front) = i - 1
        /\ \A n \in 1 .. i - 1 : front[n] = list[n]
    BY <2>2, <2>3, SubSeqProperties
  <2>5. /\ back \in Seq(T) /\ Len(back) = Len(list) - i
        /\ \A n \in 1 .. Len(list) - i : back[n] = list[i + n]
    BY <2>2, <2>3, SubSeqProperties
  <2>6. DropFirst(list, a) = front \o back
    BY <2>1 DEF RemoveAt
  <2> HIDE DEF front, back
  <2>7. Range(DropFirst(list, a)) = Range(front) \cup Range(back)
    BY <2>4, <2>5, <2>6, RangeConcatenation
  <2>8. DropFirst(list, a) \in Seq(T)
    BY <2>4, <2>5, <2>6, ConcatProperties
  <2>9. Range(front) \subseteq Range(list) /\ Range(back) \subseteq Range(list)
    <3>1. Range(front) = {front[n] : n \in 1 .. Len(front)}
      BY <2>4, RangeEquality
    <3>2. Range(back) = {back[n] : n \in 1 .. Len(back)}
      BY <2>5, RangeEquality
    <3>3. \A n \in 1 .. Len(list) : list[n] \in Range(list)
      BY DEF Range
    <3>4. \A n \in 1 .. Len(front) : front[n] \in Range(list)
      BY <2>2, <2>4, <3>3
    <3>5. \A n \in 1 .. Len(back) : back[n] \in Range(list)
      <4> SUFFICES ASSUME NEW n \in 1 .. Len(back) PROVE back[n] \in Range(list)
        OBVIOUS
      <4>1. i + n \in 1 .. Len(list) /\ back[n] = list[i + n]
        BY <2>2, <2>5
      <4>. QED  BY <3>3, <4>1
    <3>. QED  BY <3>1, <3>2, <3>4, <3>5
  <2>10. ASSUME NEW e \in Range(list), e.accountId # a
         PROVE  e \in Range(front) \cup Range(back)
    <3>1. PICK n \in 1 .. Len(list) : list[n] = e
      BY DEF Range
    <3>2. n # i
      BY <2>2, <2>10, <3>1
    <3>3. CASE n < i
      <4>1. n \in 1 .. Len(front) /\ front[n] = e
        BY <2>2, <2>4, <3>1, <3>3
      <4>. QED  BY <2>4, <4>1, RangeEquality
    <3>4. CASE n > i
      <4>0. n - i \in 1 .. Len(list) - i /\ i + (n - i) = n
        BY <2>2, <3>4
      <4>1. n - i \in 1 .. Len(back) /\ back[n - i] = e
        BY <2>5, <3>1, <4>0
      <4>. QED  BY <2>5, <4>1, RangeEquality
    <3>. QED  BY <2>2, <3>2, <3>3, <3>4
  <2>. QED  BY <2>7, <2>8, <2>9, <2>10
<1>. QED  BY <1>1, <1>2

-----------------------------------------------------------------------------
(* The rounds compute the ranking *)

\* Whoever is not placed yet still has all its entries in the list, and whoever
\* is placed or about to be has an entry that none in the list beats; so nobody
\* is placed below one it outranks.
RankingInv ==
  /\ originalResults \in ResultLists
  /\ SortTypeOK
  /\ returned => winners = <<>> /\ LoopEnds
  /\ IsInjective(sortedWinners)
  /\ \A e \in Range(originalResults) :
       e.accountId \notin Range(sortedWinners) => e \in Range(gameResultList)
  /\ \A a \in Range(sortedWinners) \cup Range(winners) :
       \E e \in Range(originalResults) :
         e.accountId = a /\ Unbeaten(e, gameResultList)
  /\ \A m, n \in DOMAIN sortedWinners :
       m < n => ~Outranks(sortedWinners[n], sortedWinners[m])

LEMMA RankingInit == SortInit => RankingInv
<1> SUFFICES ASSUME SortInit PROVE RankingInv
  OBVIOUS
<1>1. /\ originalResults \in ResultLists /\ gameResultList = originalResults
      /\ winners = <<>> /\ sortedWinners = <<>> /\ returned = FALSE
  BY DEF SortInit
<1>2. originalResults \in Seq(Range(originalResults))
  BY <1>1
<1>3. <<>> \in Seq(Players) /\ DOMAIN <<>> = {} /\ Range(<<>>) = {}
  BY DEF Range
<1>. QED  BY <1>1, <1>2, <1>3 DEF RankingInv, SortTypeOK, IsInjective

LEMMA RankingRound ==
  ASSUME RankingInv, Round
  PROVE  RankingInv'
<1>1. /\ winners' = FindWinners(gameResultList) /\ ~returned
      /\ UNCHANGED <<originalResults, gameResultList, sortedWinners, returned>>
  BY DEF Round
<1>2. /\ gameResultList \in Seq(Range(originalResults))
      /\ Range(gameResultList) \subseteq Range(originalResults)
  BY RangeOfSeq DEF RankingInv, SortTypeOK
<1>3. \A e \in Range(gameResultList) : Entry(e) /\ e.accountId \in Players
  BY <1>2 DEF RankingInv, Entry, Players
<1>4. winners' \in Seq(Players)
  BY <1>1, <1>2, <1>3, WinnersAreASequence
<1>5. \A a \in Range(winners') : \E e \in Range(originalResults) :
        e.accountId = a /\ Unbeaten(e, gameResultList)
  <2>1. \A i \in DOMAIN FindWinners(gameResultList) :
          \E e \in Range(gameResultList) :
            e.accountId = FindWinners(gameResultList)[i] /\ Unbeaten(e, gameResultList)
    BY <1>2, <1>3, WinnersAreUnbeaten
  <2>. QED  BY <1>1, <1>2, <2>1 DEF Range
<1>6. Players' = Players /\ \A a, b : Outranks(a, b)' = Outranks(a, b)
  BY <1>1 DEF Players, Outranks
<1>. QED
  BY <1>1, <1>4, <1>5, <1>6 DEF RankingInv, SortTypeOK, Unbeaten

\* What appending the next winner does to the places taken.
Takes(A, sorted, w, pushed) ==
  /\ pushed \in Seq(A)
  /\ IsInjective(pushed)
  /\ Range(pushed) = Range(sorted) \cup {w}
  /\ w \in Range(sorted) => pushed = sorted
  /\ w \notin Range(sorted) =>
       /\ DOMAIN pushed = DOMAIN sorted \cup {Len(sorted) + 1}
       /\ pushed[Len(sorted) + 1] = w
       /\ \A n \in DOMAIN sorted : pushed[n] = sorted[n]

LEMMA Placed ==
  ASSUME NEW A, NEW sorted \in Seq(A), NEW w \in A, IsInjective(sorted)
  PROVE  Takes(A, sorted, w, PushOnce(sorted, w))
<1>1. Contains(sorted, w) <=> w \in Range(sorted)
  BY DEF Contains, Range
<1>2. CASE w \in Range(sorted)
  <2>1. PushOnce(sorted, w) = sorted
    BY <1>1, <1>2 DEF PushOnce
  <2>2. Range(sorted) \cup {w} = Range(sorted)
    BY <1>2
  <2>. QED  BY <1>2, <2>1, <2>2 DEF Takes
<1>3. CASE w \notin Range(sorted)
  <2> DEFINE longer == Append(sorted, w)
  <2>1. PushOnce(sorted, w) = longer
    BY <1>1, <1>3 DEF PushOnce
  <2>2. /\ longer \in Seq(A) /\ Len(longer) = Len(sorted) + 1
        /\ \A n \in 1 .. Len(sorted) : longer[n] = sorted[n]
        /\ longer[Len(sorted) + 1] = w
    BY AppendProperties
  <2>3. DOMAIN longer = DOMAIN sorted \cup {Len(sorted) + 1}
    <3>1. Len(sorted) \in Nat /\ DOMAIN sorted = 1 .. Len(sorted)
      OBVIOUS
    <3>2. DOMAIN longer = 1 .. Len(sorted) + 1
      BY <2>2
    <3>. QED  BY <3>1, <3>2
  <2> HIDE DEF longer
  <2>4. Range(longer) = Range(sorted) \cup {w}
    BY <2>2, <2>3 DEF Range
  <2>5. IsInjective(longer)
    <3>1. \A n \in DOMAIN sorted : sorted[n] # w
      BY <1>3 DEF Range
    <3>2. \A m, n \in DOMAIN sorted : sorted[m] = sorted[n] => m = n
      BY DEF IsInjective
    <3>3. \A n \in DOMAIN sorted : longer[n] = sorted[n]
      BY <2>2
    <3>. QED  BY <2>2, <2>3, <3>1, <3>2, <3>3 DEF IsInjective
  <2>. QED
    BY <1>3, <2>1, <2>2, <2>3, <2>4, <2>5 DEF Takes
<1>. QED  BY <1>2, <1>3

LEMMA RankingPlace ==
  ASSUME RankingInv, Place
  PROVE  RankingInv'
<1> DEFINE w == Head(winners)
<1>1. /\ winners # <<>> /\ sortedWinners' = PushOnce(sortedWinners, w)
      /\ gameResultList' = DropFirst(gameResultList, w)
      /\ winners' = Tail(winners) /\ UNCHANGED <<originalResults, returned>>
  BY DEF Place
<1>2. /\ winners \in Seq(Players) /\ sortedWinners \in Seq(Players)
      /\ gameResultList \in Seq(Range(originalResults))
  BY DEF RankingInv, SortTypeOK
<1>3. /\ w \in Players /\ w \in Range(winners) /\ winners' \in Seq(Players)
      /\ Range(winners') \subseteq Range(winners)
  <2>1. w = winners[1] /\ 1 \in DOMAIN winners
    BY <1>1, <1>2
  <2>2. /\ Tail(winners) \in Seq(Players) /\ Len(Tail(winners)) = Len(winners) - 1
        /\ \A i \in 1 .. Len(Tail(winners)) : Tail(winners)[i] = winners[i + 1]
    BY <1>1, <1>2, HeadTailProperties
  <2>3. \A i \in 1 .. Len(Tail(winners)) : i + 1 \in DOMAIN winners
    BY <1>2, <2>2
  <2>4. Range(Tail(winners)) = {Tail(winners)[i] : i \in 1 .. Len(Tail(winners))}
    BY <2>2, RangeEquality
  <2>5. Range(Tail(winners)) \subseteq Range(winners)
    BY <2>2, <2>3, <2>4 DEF Range
  <2>. QED  BY <1>1, <1>2, <2>1, <2>2, <2>5 DEF Range
<1> HIDE DEF w
<1>4. /\ gameResultList' \in Seq(Range(originalResults))
      /\ Range(gameResultList') \subseteq Range(gameResultList)
      /\ \A e \in Range(gameResultList) : e.accountId # w => e \in Range(gameResultList')
  BY <1>1, <1>2, OthersStay
<1>5. IsInjective(sortedWinners)
  BY DEF RankingInv
<1>6. /\ sortedWinners' \in Seq(Players) /\ IsInjective(sortedWinners')
      /\ Range(sortedWinners') = Range(sortedWinners) \cup {w}
      /\ w \in Range(sortedWinners) => sortedWinners' = sortedWinners
      /\ w \notin Range(sortedWinners) =>
              /\ DOMAIN sortedWinners' = DOMAIN sortedWinners \cup {Len(sortedWinners) + 1}
              /\ sortedWinners'[Len(sortedWinners) + 1] = w
              /\ \A n \in DOMAIN sortedWinners : sortedWinners'[n] = sortedWinners[n]
  <2>1. Takes(Players, sortedWinners, w, PushOnce(sortedWinners, w))
    BY <1>2, <1>3, <1>5, Placed
  <2>2. Takes(Players, sortedWinners, w, sortedWinners')
    BY <1>1, <2>1, Zenon
  <2>. QED  BY <2>2 DEF Takes
<1>7. Players' = Players /\ \A a, b : Outranks(a, b)' = Outranks(a, b)
  BY <1>1 DEF Players, Outranks
<1>8. ASSUME NEW e \in Range(originalResults), e.accountId \notin Range(sortedWinners')
      PROVE  e \in Range(gameResultList')
  BY <1>4, <1>6, <1>8 DEF RankingInv
<1>9. ASSUME NEW a \in Range(sortedWinners') \cup Range(winners')
      PROVE  \E e \in Range(originalResults) :
               e.accountId = a /\ Unbeaten(e, gameResultList')
  <2>1. a \in Range(sortedWinners) \cup Range(winners)
    BY <1>3, <1>6
  <2>. QED  BY <1>4, <2>1 DEF RankingInv, Unbeaten
<1>10. ASSUME NEW m \in DOMAIN sortedWinners', NEW n \in DOMAIN sortedWinners', m < n
       PROVE  ~Outranks(sortedWinners'[n], sortedWinners'[m])
  <2>1. CASE w \in Range(sortedWinners)
    BY <1>6, <1>10, <2>1 DEF RankingInv
  <2>2. CASE w \notin Range(sortedWinners)
    <3>1. /\ DOMAIN sortedWinners = 1 .. Len(sortedWinners) /\ Len(sortedWinners) \in Nat
          /\ m \in DOMAIN sortedWinners
      <4>1. DOMAIN sortedWinners = 1 .. Len(sortedWinners) /\ Len(sortedWinners) \in Nat
        BY <1>2
      <4>. QED  BY <1>6, <1>10, <2>2, <4>1
    <3>2. sortedWinners'[m] = sortedWinners[m]
      BY <1>6, <2>2, <3>1
    <3>3. CASE n \in DOMAIN sortedWinners
      BY <1>6, <1>10, <2>2, <3>1, <3>2, <3>3 DEF RankingInv
    <3>4. CASE n = Len(sortedWinners) + 1
      <4>1. sortedWinners'[n] = w
        BY <1>6, <2>2, <3>4
      <4>2. PICK e \in Range(originalResults) :
              e.accountId = sortedWinners[m] /\ Unbeaten(e, gameResultList)
        BY <3>1 DEF RankingInv, Range
      <4>3. \A f \in Range(originalResults) :
              f.accountId = w => f \in Range(gameResultList)
        BY <2>2 DEF RankingInv
      <4>. QED  BY <3>2, <4>1, <4>2, <4>3 DEF Outranks, Unbeaten
    <3>. QED  BY <1>6, <2>2, <3>3, <3>4
  <2>. QED  BY <2>1, <2>2
<1>11. ~returned'
  BY <1>1 DEF RankingInv
<1>. QED
  BY <1>1, <1>3, <1>4, <1>6, <1>7, <1>8, <1>9, <1>10, <1>11
     DEF RankingInv, SortTypeOK

LEMMA RankingStep == RankingInv /\ [SortNext]_sortVars => RankingInv'
<1> SUFFICES ASSUME RankingInv, [SortNext]_sortVars PROVE RankingInv'
  OBVIOUS
<1>1. CASE Return
  BY <1>1 DEF Return, RankingInv, SortTypeOK, LoopEnds, Players, Outranks, Unbeaten
<1>2. CASE UNCHANGED sortVars
  BY <1>2 DEF sortVars, RankingInv, SortTypeOK, LoopEnds, Players, Outranks, Unbeaten
<1>. QED  BY <1>1, <1>2, RankingRound, RankingPlace DEF SortNext

-----------------------------------------------------------------------------
(* The podium *)

LEMMA LesserOfThree ==
  ASSUME NEW k \in Nat
  PROVE  Min({3, k}) = IF k >= 3 THEN 3 ELSE k
<1>1. Min({3, k}) \in {3, k} /\ \A x \in {3, k} : Min({3, k}) <= x
  BY MinIsLeast
<1>. QED  BY <1>1

LEMMA PodiumShape ==
  ASSUME RankingInv
  PROVE  /\ Podium \in Seq(Players) /\ IsInjective(Podium)
         /\ Len(sortedWinners) \in Nat
         /\ Len(Podium) = Min({3, Len(sortedWinners)})
         /\ \A n \in DOMAIN Podium : n \in DOMAIN sortedWinners
                                     /\ Podium[n] = sortedWinners[n]
<1>1. sortedWinners \in Seq(Players) /\ IsInjective(sortedWinners)
  BY DEF RankingInv, SortTypeOK
<1>2. Len(sortedWinners) \in Nat /\ DOMAIN sortedWinners = 1 .. Len(sortedWinners)
  BY <1>1
<1>3. PICK k \in Nat : k = Min({3, Len(sortedWinners)}) /\ k <= Len(sortedWinners)
  BY <1>2, LesserOfThree
<1>4. \A n \in 1 .. k : sortedWinners[n] \in Players
  BY <1>1, <1>2, <1>3
<1>5. Podium = SubSeq(sortedWinners, 1, k)
  BY <1>3 DEF Podium
<1>6. /\ Podium \in Seq(Players) /\ Len(Podium) = k
      /\ \A n \in 1 .. k : Podium[n] = sortedWinners[n]
  <2>1. 1 \in Int /\ k \in Int /\ k - 1 + 1 = k /\ \A n \in 1 .. k : 1 + n - 1 = n
    OBVIOUS
  <2>2. (IF 1 <= k THEN k - 1 + 1 ELSE 0) = k
    BY <1>3
  <2>. QED  BY <1>4, <1>5, <2>1, <2>2, SubSeqProperties
<1>7. DOMAIN Podium = 1 .. k
  BY <1>6
<1>8. \A n \in 1 .. k : n \in DOMAIN sortedWinners
  BY <1>2, <1>3
<1>. QED  BY <1>1, <1>2, <1>3, <1>6, <1>7, <1>8 DEF IsInjective

LEMMA PlayersCounted ==
  ASSUME RankingInv, returned
  PROVE  /\ IsFiniteSet(Players) /\ Players # {}
         /\ Len(sortedWinners) >= 3 => Cardinality(Players) >= 3
         /\ Len(sortedWinners) < 3 =>
              /\ Cardinality(Players) = Len(sortedWinners)
              /\ Players = Range(sortedWinners)
<1>1. /\ sortedWinners \in Seq(Players) /\ IsInjective(sortedWinners)
      /\ originalResults \in Seq(Range(originalResults)) /\ originalResults # <<>>
  BY DEF RankingInv, SortTypeOK
<1>2. IsFiniteSet(Players) /\ Players # {}
  <2> DEFINE places == 1 .. Len(originalResults)
             account == [n \in places |-> originalResults[n].accountId]
  <2>1. IsFiniteSet(places) /\ places # {} /\ places = DOMAIN originalResults
    <3>1. Len(originalResults) \in Nat /\ Len(originalResults) # 0
      BY <1>1, EmptySeq
    <3>2. IsFiniteSet(places)
      BY <3>1, FS_Interval
    <3>3. 1 \in places
      BY <3>1
    <3>. QED  BY <1>1, <3>2, <3>3
  <2>2. Players = {originalResults[n].accountId : n \in places}
    BY <2>1 DEF Players, Range
  <2>3. \A n \in places : account[n] = originalResults[n].accountId
    OBVIOUS
  <2>4. account \in [places -> Players]
    BY <2>2
  <2> HIDE DEF places, account
  <2>5. account \in Surjection(places, Players)
    BY <2>2, <2>3, <2>4 DEF Surjection
  <2>. QED  BY <2>1, <2>2, <2>5, FS_Surjection
<1> DEFINE taken == 1 .. Len(sortedWinners)
<1>3. Len(sortedWinners) \in Nat /\ DOMAIN sortedWinners = taken
  BY <1>1
<1>4. IsFiniteSet(taken) /\ Cardinality(taken) = Len(sortedWinners)
  <2>1. 1 \in Int /\ Len(sortedWinners) \in Int
    BY <1>3
  <2>2. IsFiniteSet(taken) /\ Cardinality(taken) =
          IF 1 > Len(sortedWinners) THEN 0 ELSE Len(sortedWinners) - 1 + 1
    BY <2>1, FS_Interval
  <2>. QED  BY <1>3, <2>2
<1>5. sortedWinners \in Injection(taken, Players)
  BY <1>1, <1>3 DEF Injection, IsInjective
<1>6. Len(sortedWinners) <= Cardinality(Players) /\ Cardinality(Players) \in Nat
  BY <1>2, <1>4, <1>5, FS_Injection, FS_CardinalityType
<1>7. ASSUME Len(sortedWinners) < 3
      PROVE  Players = Range(sortedWinners)
  <2>1. gameResultList = <<>>
    BY <1>3, <1>7 DEF RankingInv, LoopEnds, PodiumFull
  <2>2. Range(gameResultList) = {}
    BY <2>1 DEF Range
  <2>3. Players \subseteq Range(sortedWinners)
    BY <2>2 DEF RankingInv, Players
  <2>4. Range(sortedWinners) \subseteq Players
    BY <1>1, RangeOfSeq
  <2>. QED  BY <2>3, <2>4
<1>8. ASSUME Len(sortedWinners) < 3
      PROVE  Cardinality(Players) = Len(sortedWinners)
  <2>1. sortedWinners \in Surjection(taken, Players)
    BY <1>1, <1>3, <1>5, <1>7, <1>8 DEF Surjection, Injection, Range
  <2>. QED  BY <1>2, <1>4, <1>5, <2>1, FS_Injection
<1>. QED  BY <1>2, <1>3, <1>6, <1>7, <1>8

LEMMA RankingInvariant == PrizeSpec => []RankingInv
<1>1. PrizeInit => RankingInv
  BY RankingInit DEF PrizeInit
<1>2. [PrizeNext]_allVars => [SortNext]_sortVars
  BY DEF PrizeNext, allVars, FindByAccountIds, InsertGameOverLogs,
     DistributeRewards, SetClaimableRewards
<1>. QED  BY <1>1, <1>2, RankingStep, PTL DEF PrizeSpec

(* The podium is the ranking of the agreed result: three players or all of   *)
(* them, none of them twice, and nobody below or off it outranks one on it,  *)
(* for every list, also with several entries of an account.                  *)
THEOREM PodiumRanks == PrizeSpec => []PodiumIsRanking
<1>1. RankingInv => PodiumIsRanking
  <2> SUFFICES ASSUME RankingInv, returned
               PROVE  /\ Len(Podium) = Min({3, Cardinality(Players)})
                      /\ IsInjective(Podium)
                      /\ \A m, n \in DOMAIN Podium :
                           m < n => ~Outranks(Podium[n], Podium[m])
                      /\ \A a \in Players \ Range(Podium) : \A n \in DOMAIN Podium :
                           ~Outranks(a, Podium[n])
    BY DEF PodiumIsRanking
  <2>1. Len(sortedWinners) \in Nat /\ Cardinality(Players) \in Nat
    BY PodiumShape, PlayersCounted, FS_CardinalityType
  <2>2. Min({3, Len(sortedWinners)}) = Min({3, Cardinality(Players)})
    BY <2>1, PlayersCounted, LesserOfThree
  <2>3. \A m, n \in DOMAIN Podium : m < n => ~Outranks(Podium[n], Podium[m])
    BY PodiumShape DEF RankingInv
  <2>4. ASSUME NEW a \in Players \ Range(Podium), NEW n \in DOMAIN Podium
        PROVE  ~Outranks(a, Podium[n])
    <3>1. n \in DOMAIN sortedWinners /\ Podium[n] = sortedWinners[n]
      BY PodiumShape
    <3>2. CASE a \in Range(sortedWinners)
      <4>1. PICK m \in DOMAIN sortedWinners : sortedWinners[m] = a
        BY <3>2 DEF Range
      <4>2. m \notin DOMAIN Podium
        BY <4>1, PodiumShape DEF Range
      <4>3. DOMAIN Podium = 1 .. Len(Podium) /\ Len(Podium) \in Nat
        BY PodiumShape
      <4>4. DOMAIN sortedWinners = 1 .. Len(sortedWinners)
        BY DEF RankingInv, SortTypeOK
      <4>5. n < m
        BY <4>2, <4>3, <4>4
      <4>. QED  BY <3>1, <4>1, <4>5 DEF RankingInv
    <3>3. CASE a \notin Range(sortedWinners)
      <4>1. PICK e \in Range(originalResults) :
              e.accountId = sortedWinners[n] /\ Unbeaten(e, gameResultList)
        BY <3>1 DEF RankingInv, Range
      <4>2. \A f \in Range(originalResults) :
              f.accountId = a => f \in Range(gameResultList)
        BY <3>3 DEF RankingInv
      <4>. QED  BY <3>1, <4>1, <4>2 DEF Outranks, Unbeaten
    <3>. QED  BY <3>2, <3>3
  <2>. QED  BY <2>2, <2>3, <2>4, PodiumShape
<1>. QED  BY <1>1, RankingInvariant, PTL

-----------------------------------------------------------------------------
(* What is done with the podium *)

PodiumSlots ==
  [place \in {p \in 1 .. 3 : Taken(p)} |->
     [authority |-> Podium[place], account |-> FindProgramAddress(Podium[place])]]

\* Once the podium is there the stages follow each other, and each leaves what
\* it computes from the podium and from one content of table gamers.
PrizesInv ==
  /\ RankingInv
  /\ stage \in {"sort", "logs", "reward", "sent", "done"}
  /\ stage = "sort" => gamers = {}
  /\ stage # "sort" =>
       /\ returned
       /\ \E table \in GamerTables :
            gamers = {g \in table : g.accountId \in Players}
  /\ gameOverLogs = IF stage \in {"sort", "logs"} THEN {} ELSE BuildLogs
  /\ slots = IF stage \in {"sent", "done"} THEN PodiumSlots ELSE <<>>
  /\ reward = IF stage = "done" THEN "accepted" ELSE "unsent"

LEMMA PodiumNotEmpty ==
  ASSUME RankingInv, returned
  PROVE  /\ Len(Podium) \in 1 .. 3
         /\ DOMAIN Podium = 1 .. Len(Podium)
         /\ {p \in 1 .. 3 : Taken(p)} = DOMAIN Podium
<1>1. Cardinality(Players) \in Nat /\ Cardinality(Players) # 0
  BY PlayersCounted, FS_CardinalityType, FS_EmptySet
<1>2. Len(sortedWinners) \in Nat /\ Len(sortedWinners) # 0
  BY <1>1, PlayersCounted, PodiumShape
<1>3. Len(Podium) \in 1 .. 3
  <2>1. Len(Podium) = Min({3, Len(sortedWinners)})
    BY PodiumShape
  <2>2. Min({3, Len(sortedWinners)})
          = IF Len(sortedWinners) >= 3 THEN 3 ELSE Len(sortedWinners)
    BY <1>2, LesserOfThree
  <2>3. Len(Podium) = IF Len(sortedWinners) >= 3 THEN 3 ELSE Len(sortedWinners)
    BY <2>1, <2>2, Zenon
  <2>4. PICK k \in Nat : k = Len(sortedWinners) /\ k # 0
    BY <1>2
  <2>5. (IF k >= 3 THEN 3 ELSE k) \in 1 .. 3
    BY <2>4
  <2>. QED  BY <2>3, <2>4, <2>5, Zenon
<1>4. DOMAIN Podium = 1 .. Len(Podium)
  BY PodiumShape
<1>. QED  BY <1>3, <1>4 DEF Taken

LEMMA PrizesInit == PrizeInit => PrizesInv
BY RankingInit DEF PrizeInit, PrizesInv

\* When the podium has been returned the rounds are over.
LEMMA SortIsOver ==
  ASSUME RankingInv, returned, [SortNext]_sortVars
  PROVE  UNCHANGED sortVars
BY DEF RankingInv, SortNext, Round, Place, Return

LEMMA DefinedBySort ==
  ASSUME UNCHANGED <<sortVars, gamers>>
  PROVE  /\ Players' = Players /\ Podium' = Podium /\ BuildLogs' = BuildLogs
         /\ PodiumSlots' = PodiumSlots
<1>1. Podium' = Podium /\ Players' = Players
  BY DEF sortVars, Podium, Players
<1>2. Winners' = Winners
  BY <1>1 DEF Winners
<1>3. PodiumSlots' = PodiumSlots
  BY <1>1 DEF PodiumSlots, Taken, FindProgramAddress
<1>4. \A a : PlayerResult(a)' = PlayerResult(a)
  BY DEF sortVars, PlayerResult
<1>5. BuildLogs' = BuildLogs
  <2>1. Losers' = Losers /\ ChipsInGame' = ChipsInGame
    BY <1>2 DEF Losers, ChipsInGame
  <2>2. \A g : LoserLog(g)' = LoserLog(g)
    BY <1>4 DEF LoserLog, PlayerLog
  <2>3. \A g : WinnerLog(g)' = WinnerLog(g)
    BY <1>2, <1>4, <2>1 DEF WinnerLog, PlayerLog, WinnerShare
  <2>4. \A g : ReferralLog(g)' = ReferralLog(g)
    BY <2>1 DEF ReferralLog
  <2>5. {ReferralLog(g) : g \in {h \in gamers : GetsReferralLog(h)}}'
          = {ReferralLog(g) : g \in {h \in gamers : GetsReferralLog(h)}}
    BY <2>4 DEF GetsReferralLog
  <2>6. {WinnerLog(g) : g \in Winners}' = {WinnerLog(g) : g \in Winners}
    BY <1>2, <2>3
  <2>7. {LoserLog(g) : g \in Losers}' = {LoserLog(g) : g \in Losers}
    BY <2>1, <2>2
  <2>. QED  BY <2>5, <2>6, <2>7 DEF BuildLogs
<1>. QED  BY <1>1, <1>3, <1>5

LEMMA PrizesStep == PrizesInv /\ [PrizeNext]_allVars => PrizesInv'
<1> SUFFICES ASSUME PrizesInv, [PrizeNext]_allVars PROVE PrizesInv'
  OBVIOUS
<1>1. RankingInv'
  <2>1. [SortNext]_sortVars
    BY DEF PrizeNext, allVars, FindByAccountIds, InsertGameOverLogs,
       DistributeRewards, SetClaimableRewards
  <2>. QED  BY <2>1, RankingStep DEF PrizesInv
<1>2. CASE UNCHANGED prizeVars /\ [SortNext]_sortVars
  <2>1. CASE stage = "sort"
    BY <1>1, <1>2, <2>1 DEF PrizesInv, prizeVars
  <2>2. CASE stage # "sort"
    <3>1. UNCHANGED <<sortVars, gamers>>
      BY <1>2, <2>2, SortIsOver DEF PrizesInv, prizeVars
    <3>2. returned' = returned
      BY <3>1 DEF sortVars
    <3>. QED
      BY <1>1, <1>2, <2>2, <3>1, <3>2, DefinedBySort DEF PrizesInv, prizeVars
  <2>. QED  BY <2>1, <2>2
<1>3. CASE FindByAccountIds
  <2>1. Range(AccountIds(originalResults)) = Players
    BY DEF AccountIds, Players, Range
  <2>2. PICK table \in GamerTables :
          gamers' = {g \in table : g.accountId \in Range(AccountIds(originalResults))}
    BY <1>3 DEF FindByAccountIds
  <2>3. gamers' = {g \in table : g.accountId \in Players'}
    BY <1>3, <2>1, <2>2 DEF FindByAccountIds, Players, sortVars
  <2>4. /\ stage' = "logs" /\ returned' /\ gameOverLogs' = {} /\ slots' = <<>>
        /\ reward' = "unsent"
    BY <1>3 DEF FindByAccountIds, PrizesInv, sortVars
  <2>. QED  BY <1>1, <2>3, <2>4 DEF PrizesInv
<1>4. ASSUME InsertGameOverLogs \/ DistributeRewards \/ SetClaimableRewards
      PROVE  PrizesInv'
  <2>1. /\ UNCHANGED <<sortVars, gamers>> /\ stage # "sort" /\ stage' # "sort"
        /\ returned'
    BY <1>4 DEF InsertGameOverLogs, DistributeRewards, SetClaimableRewards,
       PrizesInv, sortVars
  <2>2. CASE InsertGameOverLogs
    BY <1>1, <2>1, <2>2, DefinedBySort DEF InsertGameOverLogs, PrizesInv
  <2>3. CASE DistributeRewards
    <3>1. slots' = PodiumSlots
      BY <2>3 DEF DistributeRewards, PodiumSlots
    <3>. QED
      BY <1>1, <2>1, <2>3, <3>1, DefinedBySort DEF DistributeRewards, PrizesInv
  <2>4. CASE SetClaimableRewards
    <3>1. slots = PodiumSlots
      BY <2>4 DEF SetClaimableRewards, PrizesInv
    <3>2. 1 \in DOMAIN slots
      BY <3>1, <2>1, PodiumNotEmpty DEF PodiumSlots, PrizesInv
    <3>3. \A place \in DOMAIN slots :
            slots[place].account = FindProgramAddress(slots[place].authority)
      BY <3>1 DEF PodiumSlots
    <3>4. reward' = "accepted" /\ stage' = "done" /\ stage = "sent"
      BY <2>4, <3>2, <3>3 DEF SetClaimableRewards
    <3>. QED
      BY <1>1, <2>1, <2>4, <3>1, <3>4, DefinedBySort
         DEF SetClaimableRewards, PrizesInv
  <2>. QED  BY <1>4, <2>2, <2>3, <2>4
<1>. QED
  BY <1>2, <1>3, <1>4 DEF PrizeNext, allVars

LEMMA PrizesInvariant == PrizeSpec => []PrizesInv
BY PrizesInit, PrizesStep, PTL DEF PrizeSpec

-----------------------------------------------------------------------------
(* The shares *)

LEMMA Division ==
  ASSUME NEW x \in Nat, NEW w \in Nat, w # 0
  PROVE  /\ x \div w \in Nat /\ x \div w <= x
         /\ w * (x \div w) <= x /\ x < w * (x \div w) + w
         /\ x >= w => x \div w >= 1
OBVIOUS

\* Who is paid: rows of one content of the table, at least one of them a winner's.
LEMMA SharersCounted ==
  ASSUME PrizesInv, stage # "sort"
  PROVE  /\ IsFiniteSet(gamers) /\ IsFiniteSet(Winners) /\ IsFiniteSet(Losers)
         /\ \A g, h \in gamers : g.id = h.id => g = h
         /\ \A g \in gamers : g.accountId \in Players
         /\ \A a \in Players : \E g \in gamers : g.accountId = a
         /\ ChipsInGame \in Nat /\ Cardinality(Winners) \in Nat
         /\ 1 <= Cardinality(Winners) /\ Cardinality(Winners) <= ChipsInGame
         /\ ChipsInGame <= 60 * Grain
<1> USE TablesAssumption, GrainAssumption
<1>1. PICK table \in GamerTables : gamers = {g \in table : g.accountId \in Players}
  BY DEF PrizesInv
<1>2. IsFiniteSet(table) /\ gamers \subseteq table /\ Cardinality(table) <= 60 * Grain
  BY <1>1
<1>3. IsFiniteSet(gamers) /\ Cardinality(gamers) <= Cardinality(table)
  BY <1>2, FS_Subset
<1>4. Winners \subseteq gamers /\ Losers \subseteq gamers
  BY DEF Winners, Losers
<1>5. /\ IsFiniteSet(Winners) /\ IsFiniteSet(Losers)
      /\ Cardinality(Winners) <= Cardinality(gamers)
  BY <1>3, <1>4, FS_Subset
<1>6. /\ Cardinality(table) \in Nat /\ Cardinality(gamers) \in Nat
      /\ Cardinality(Winners) \in Nat
  BY <1>2, <1>3, <1>5, FS_CardinalityType
<1>7. \A a \in Players : \E g \in gamers : g.accountId = a
  <2> SUFFICES ASSUME NEW a \in Players PROVE \E g \in gamers : g.accountId = a
    OBVIOUS
  <2>1. PICK n \in DOMAIN originalResults : originalResults[n].accountId = a
    BY DEF Players, Range
  <2>2. originalResults \in ResultLists
    BY DEF PrizesInv, RankingInv
  <2>3. PICK g \in table : g.accountId = a
    BY <2>1, <2>2
  <2>. QED  BY <1>1, <2>3
<1>8. Winners # {}
  <2>1. 1 \in DOMAIN Podium /\ Podium \in Seq(Players)
    BY PodiumNotEmpty, PodiumShape DEF PrizesInv
  <2>2. Podium[1] \in Players /\ Podium[1] \in Range(Podium)
    BY <2>1 DEF Range
  <2>. QED  BY <1>7, <2>2 DEF Winners
<1>9. Cardinality(Winners) # 0
  BY <1>5, <1>8, FS_EmptySet
<1>10. \A g \in gamers : g.accountId \in Players
  BY <1>1
<1>11. \A g, h \in gamers : g.id = h.id => g = h
  BY <1>1
<1>12. Cardinality(gamers) <= 60 * Grain
  BY <1>2, <1>3, <1>6
<1>. QED
  BY <1>3, <1>5, <1>6, <1>7, <1>9, <1>10, <1>11, <1>12 DEF ChipsInGame

\* A share of the pot, p being what one per cent and a quarter of it is worth.
LEMMA SharesBounded ==
  ASSUME PrizesInv, stage # "sort",
         NEW p, p = ChipsInGame * Grain
  PROVE  LET share == WinnerShare(Cardinality(Winners))
             points == TOTAL_WINNERS_POINTS_REWARD \div Cardinality(Winners)
         IN  /\ p \in Nat /\ p >= 1 /\ Pot = 80 * p
             /\ ChipsInGame * REFERRAL_MULTIPLIER = p
             /\ share \in Nat /\ 1 <= share /\ share <= 70 * p
             /\ Cardinality(Winners) * share <= 70 * p
             /\ Cardinality(Winners) * share > 69 * p
             /\ points \in Nat /\ 1 <= points
<1> USE GrainAssumption
<1>1. PICK c \in Nat, w \in Nat :
        /\ c = ChipsInGame /\ w = Cardinality(Winners) /\ 1 <= w /\ w <= c
        /\ c <= 60 * Grain
  BY SharersCounted
<1>2. p \in Nat /\ c <= p /\ w <= p /\ p >= 1
  <2>1. p = c * Grain /\ Grain >= 1 /\ Grain \in Nat
    BY <1>1
  <2>2. c * Grain >= c /\ c * Grain \in Nat
    BY <2>1
  <2>. QED  BY <1>1, <2>1, <2>2
<1>3. c * WINNER_MULTIPLIER = 70 * p /\ Pot = 80 * p
      /\ ChipsInGame * REFERRAL_MULTIPLIER = p
  <2>1. c * (70 * Grain) = 70 * (c * Grain) /\ c * (80 * Grain) = 80 * (c * Grain)
    BY <1>1
  <2>. QED  BY <1>1, <2>1 DEF WINNER_MULTIPLIER, Pot, Unit, REFERRAL_MULTIPLIER
<1>4. PICK share \in Nat : share = (70 * p) \div w
  BY <1>1, <1>2, Division
<1>5. /\ share <= 70 * p /\ w * share <= 70 * p /\ 70 * p < w * share + w
      /\ 1 <= share
  <2>1. PICK x \in Nat : x = 70 * p /\ x >= w
    BY <1>1, <1>2
  <2>2. w # 0
    BY <1>1
  <2>3. /\ x \div w <= x /\ w * (x \div w) <= x /\ x < w * (x \div w) + w
        /\ x \div w >= 1
    BY <2>1, <2>2, Division
  <2>. QED  BY <1>4, <2>1, <2>3
<1>6. WinnerShare(Cardinality(Winners)) = share
  BY <1>1, <1>3, <1>4 DEF WinnerShare
<1>7. w * share > 69 * p
  <2>1. w * share \in Nat
    BY <1>1
  <2>. QED  BY <1>1, <1>2, <1>5, <2>1
<1>8. /\ TOTAL_WINNERS_POINTS_REWARD \div w \in Nat
      /\ TOTAL_WINNERS_POINTS_REWARD \div w >= 1
  <2>1. TOTAL_WINNERS_POINTS_REWARD \in Nat /\ TOTAL_WINNERS_POINTS_REWARD >= w
    BY <1>1 DEF TOTAL_WINNERS_POINTS_REWARD
  <2>. QED  BY <1>1, <2>1, Division
<1>. QED  BY <1>1, <1>2, <1>3, <1>5, <1>6, <1>7, <1>8

\* The three kinds of logs.
Referred == {g \in gamers : GetsReferralLog(g)}
ReferralLogs == {ReferralLog(g) : g \in Referred}
WinnerLogs == {WinnerLog(g) : g \in Winners}
LoserLogs == {LoserLog(g) : g \in Losers}

LEMMA LogsOfGame ==
  ASSUME PrizesInv
  PROVE  /\ gameOverLogs # {} => stage # "sort"
         /\ gameOverLogs # {} =>
              gameOverLogs = (ReferralLogs \cup WinnerLogs) \cup LoserLogs
         /\ stage \in {"reward", "sent", "done"} =>
              gameOverLogs = (ReferralLogs \cup WinnerLogs) \cup LoserLogs
         /\ LogsOfType("referral") \subseteq ReferralLogs
         /\ LogsOfType("winner") \subseteq WinnerLogs
         /\ LogsOfType("loser") \subseteq LoserLogs
<1>1. gameOverLogs \subseteq (ReferralLogs \cup WinnerLogs) \cup LoserLogs
  BY DEF PrizesInv, BuildLogs, ReferralLogs, WinnerLogs, LoserLogs, Referred
<1>2. /\ \A log \in ReferralLogs : log.type = "referral"
      /\ \A log \in WinnerLogs : log.type = "winner"
      /\ \A log \in LoserLogs : log.type = "loser"
  BY DEF ReferralLogs, WinnerLogs, LoserLogs, ReferralLog, WinnerLog, LoserLog,
     PlayerLog
<1>3. /\ LogsOfType("referral") \subseteq ReferralLogs
      /\ LogsOfType("winner") \subseteq WinnerLogs
      /\ LogsOfType("loser") \subseteq LoserLogs
  BY <1>1, <1>2 DEF LogsOfType
<1>. QED
  BY <1>3 DEF PrizesInv, BuildLogs, ReferralLogs, WinnerLogs, LoserLogs, Referred

\* What each kind of log is worth, and whose it is.
LEMMA LogValues ==
  ASSUME PrizesInv, stage # "sort", NEW p, p = ChipsInGame * Grain
  PROVE  LET points == TOTAL_WINNERS_POINTS_REWARD \div Cardinality(Winners)
         IN  /\ \A g \in Referred :
                  /\ ReferralLog(g).type = "referral" /\ ReferralLog(g).typeId = g.id
                  /\ ReferralLog(g).gameChips = p /\ ReferralLog(g).points = 0
             /\ \A g \in Winners :
                  /\ WinnerLog(g).type = "winner" /\ WinnerLog(g).typeId = g.id
                  /\ WinnerLog(g).userId = g.id
                  /\ WinnerLog(g).gameChips = WinnerShare(Cardinality(Winners))
                  /\ WinnerLog(g).points = points + GAMER_POINTS_REWARD
             /\ \A g \in Losers :
                  /\ LoserLog(g).type = "loser" /\ LoserLog(g).typeId = g.id
                  /\ LoserLog(g).userId = g.id /\ LoserLog(g).gameChips = 0
                  /\ LoserLog(g).points = GAMER_POINTS_REWARD
<1>1. ChipsInGame * REFERRAL_MULTIPLIER = p
  BY SharesBounded
<1>. QED  BY <1>1 DEF ReferralLog, WinnerLog, LoserLog, PlayerLog

(* Whatever is logged for a game is a natural number of points and chips, no *)
(* single log is worth more than its pot, and at most three places are paid. *)
THEOREM PrizeTypeCorrect == PrizeSpec => []PrizeTypeOK
<1>1. PrizesInv => PrizeTypeOK
  <2> SUFFICES ASSUME PrizesInv PROVE PrizeTypeOK
    OBVIOUS
  <2>1. SortTypeOK
    BY DEF PrizesInv, RankingInv
  <2>2. gamers \in SUBSET UNION GamerTables
    BY DEF PrizesInv
  <2>3. DOMAIN slots \subseteq 1 .. 3
    BY DEF PrizesInv, PodiumSlots
  <2>4. ASSUME NEW log \in gameOverLogs
        PROVE  log.gameChips \in 0 .. Pot /\ log.points \in Nat
    <3>1. stage # "sort" /\ log \in (ReferralLogs \cup WinnerLogs) \cup LoserLogs
      BY LogsOfGame
    <3>2. PICK p : p = ChipsInGame * Grain
      OBVIOUS
    <3>3. PICK share, points :
            /\ share = WinnerShare(Cardinality(Winners))
            /\ points = TOTAL_WINNERS_POINTS_REWARD \div Cardinality(Winners)
      OBVIOUS
    <3>4. /\ p \in Nat /\ Pot = 80 * p /\ share \in Nat /\ share <= 70 * p
          /\ points \in Nat
      BY <3>1, <3>2, <3>3, SharesBounded
    <3>5. GAMER_POINTS_REWARD \in Nat
      BY GrainAssumption DEF GAMER_POINTS_REWARD
    <3>6. \/ log.gameChips = p /\ log.points = 0
          \/ log.gameChips = share /\ log.points = points + GAMER_POINTS_REWARD
          \/ log.gameChips = 0 /\ log.points = GAMER_POINTS_REWARD
      BY <3>1, <3>2, <3>3, LogValues DEF ReferralLogs, WinnerLogs, LoserLogs
    <3>. QED  BY <3>4, <3>5, <3>6
  <2>. QED
    BY <2>1, <2>2, <2>3, <2>4 DEF PrizesInv, PrizeTypeOK
<1>. QED  BY <1>1, PrizesInvariant, PTL

\* A set of logs, one for each row of a set of gamers, that are worth the same.
LEMMA LogsAddUp ==
  ASSUME NEW rows, IsFiniteSet(rows), NEW logOf, NEW c \in Int, NEW f,
         \A g, h \in rows : logOf[g] = logOf[h] => g = h,
         \A g \in rows : f[logOf[g]] = c
  PROVE  LET logs == {logOf[g] : g \in rows}
         IN  /\ IsFiniteSet(logs)
             /\ SumFunctionOnSet(f, logs) = Cardinality(rows) * c
<1> DEFINE logs == {logOf[g] : g \in rows}
           onRows == [g \in rows |-> logOf[g]]
<1>1. onRows \in [rows -> logs] /\ \A g \in rows : onRows[g] = logOf[g]
  OBVIOUS
<1>2. \A log \in logs : \E g \in rows : log = logOf[g]
  OBVIOUS
<1>3. \A log \in logs : f[log] = c
  OBVIOUS
<1> HIDE DEF onRows, logs
<1>4. onRows \in Bijection(rows, logs)
  BY <1>1, <1>2 DEF Bijection, Injection, Surjection, IsInjective
<1>5. IsFiniteSet(logs) /\ Cardinality(logs) = Cardinality(rows)
  BY <1>4, FS_Bijection DEF ExistsBijection
<1>6. SumFunctionOnSet(f, logs) = Cardinality(logs) * c
  BY <1>3, <1>5, SumConstant
<1>. QED  BY <1>5, <1>6 DEF logs

\* What the logs of a game add up to.
LEMMA LogsTotal ==
  ASSUME PrizesInv, gameOverLogs # {}, NEW p, p = ChipsInGame * Grain
  PROVE  SumFunction([log \in gameOverLogs |-> log.gameChips])
           = Cardinality(Referred) * p
               + Cardinality(Winners) * WinnerShare(Cardinality(Winners))
<1>1. /\ stage # "sort"
      /\ gameOverLogs = (ReferralLogs \cup WinnerLogs) \cup LoserLogs
  BY LogsOfGame
<1>2. /\ IsFiniteSet(gamers) /\ IsFiniteSet(Winners) /\ IsFiniteSet(Losers)
      /\ \A g, h \in gamers : g.id = h.id => g = h
  BY <1>1, SharersCounted
<1>3. /\ Referred \subseteq gamers /\ Winners \subseteq gamers /\ Losers \subseteq gamers
      /\ IsFiniteSet(Referred)
  BY <1>2, FS_Subset DEF Referred, Winners, Losers
<1>4. PICK share : share = WinnerShare(Cardinality(Winners))
  OBVIOUS
<1>5. p \in Int /\ share \in Int
  BY <1>1, <1>4, SharesBounded
<1>6. /\ \A g \in Referred : /\ ReferralLog(g).type = "referral"
                             /\ ReferralLog(g).typeId = g.id
                             /\ ReferralLog(g).gameChips = p
      /\ \A g \in Winners : /\ WinnerLog(g).type = "winner"
                            /\ WinnerLog(g).typeId = g.id
                            /\ WinnerLog(g).gameChips = share
      /\ \A g \in Losers : /\ LoserLog(g).type = "loser"
                           /\ LoserLog(g).typeId = g.id
                           /\ LoserLog(g).gameChips = 0
  BY <1>1, <1>4, LogValues
<1> DEFINE chips == [log \in gameOverLogs |-> log.gameChips]
<1>7. IsFiniteSet(ReferralLogs)
      /\ SumFunctionOnSet(chips, ReferralLogs) = Cardinality(Referred) * p
  <2> DEFINE logOf == [g \in Referred |-> ReferralLog(g)]
  <2>1. ReferralLogs = {logOf[g] : g \in Referred}
    BY DEF ReferralLogs
  <2>2. \A g \in Referred : logOf[g].typeId = g.id /\ chips[logOf[g]] = p
    BY <1>1, <1>6 DEF ReferralLogs
  <2> HIDE DEF logOf, chips
  <2>3. \A g, h \in Referred : logOf[g] = logOf[h] => g = h
    BY <1>2, <1>3, <2>2
  <2>4. LET logs == {logOf[g] : g \in Referred}
        IN  /\ IsFiniteSet(logs)
            /\ SumFunctionOnSet(chips, logs) = Cardinality(Referred) * p
    BY <1>3, <1>5, <2>2, <2>3, LogsAddUp
  <2>. QED  BY <2>1, <2>4, Zenon
<1>8. IsFiniteSet(WinnerLogs)
      /\ SumFunctionOnSet(chips, WinnerLogs) = Cardinality(Winners) * share
  <2> DEFINE logOf == [g \in Winners |-> WinnerLog(g)]
  <2>1. WinnerLogs = {logOf[g] : g \in Winners}
    BY DEF WinnerLogs
  <2>2. \A g \in Winners : logOf[g].typeId = g.id /\ chips[logOf[g]] = share
    BY <1>1, <1>6 DEF WinnerLogs
  <2> HIDE DEF logOf, chips
  <2>3. \A g, h \in Winners : logOf[g] = logOf[h] => g = h
    BY <1>2, <1>3, <2>2
  <2>4. LET logs == {logOf[g] : g \in Winners}
        IN  /\ IsFiniteSet(logs)
            /\ SumFunctionOnSet(chips, logs) = Cardinality(Winners) * share
    <3>1. IsFiniteSet(Winners) /\ share \in Int
      BY <1>2, <1>5
    <3>2. \A g \in Winners : chips[logOf[g]] = share
      BY <2>2
    <3>. QED  BY <2>3, <3>1, <3>2, LogsAddUp
  <2>. QED  BY <2>1, <2>4, Zenon
<1>9. IsFiniteSet(LoserLogs)
      /\ SumFunctionOnSet(chips, LoserLogs) = Cardinality(Losers) * 0
  <2> DEFINE logOf == [g \in Losers |-> LoserLog(g)]
  <2>1. LoserLogs = {logOf[g] : g \in Losers}
    BY DEF LoserLogs
  <2>2. \A g \in Losers : logOf[g].typeId = g.id /\ chips[logOf[g]] = 0
    BY <1>1, <1>6 DEF LoserLogs
  <2> HIDE DEF logOf, chips
  <2>3. \A g, h \in Losers : logOf[g] = logOf[h] => g = h
    BY <1>2, <1>3, <2>2
  <2>4. LET logs == {logOf[g] : g \in Losers}
        IN  /\ IsFiniteSet(logs)
            /\ SumFunctionOnSet(chips, logs) = Cardinality(Losers) * 0
    BY <1>2, <2>2, <2>3, LogsAddUp
  <2>. QED  BY <2>1, <2>4, Zenon
<1>10. /\ ReferralLogs \cap WinnerLogs = {}
       /\ (ReferralLogs \cup WinnerLogs) \cap LoserLogs = {}
  BY <1>6 DEF ReferralLogs, WinnerLogs, LoserLogs
<1>11. \A log \in gameOverLogs : chips[log] \in Int
  BY <1>1, <1>5, <1>6 DEF ReferralLogs, WinnerLogs, LoserLogs
<1>12. SumFunction(chips) = SumFunctionOnSet(chips, gameOverLogs)
  BY DEF SumFunction
<1> HIDE DEF chips
<1>13. SumFunctionOnSet(chips, ReferralLogs \cup WinnerLogs)
         = Cardinality(Referred) * p + Cardinality(Winners) * share
  <2>1. IntOn(chips, ReferralLogs \cup WinnerLogs)
    BY <1>1, <1>11 DEF IntOn
  <2>2. SumFunctionOnSet(chips, ReferralLogs \cup WinnerLogs)
          = SumFunctionOnSet(chips, ReferralLogs) + SumFunctionOnSet(chips, WinnerLogs)
    BY <1>7, <1>8, <1>10, <2>1, SumUnion
  <2>. QED  BY <1>7, <1>8, <2>2
<1>14. SumFunctionOnSet(chips, (ReferralLogs \cup WinnerLogs) \cup LoserLogs)
         = SumFunctionOnSet(chips, ReferralLogs \cup WinnerLogs)
             + SumFunctionOnSet(chips, LoserLogs)
  <2>1. IntOn(chips, (ReferralLogs \cup WinnerLogs) \cup LoserLogs)
    BY <1>1, <1>11 DEF IntOn
  <2>2. IsFiniteSet(ReferralLogs \cup WinnerLogs)
    BY <1>7, <1>8, FS_Union
  <2>. QED  BY <1>9, <1>10, <2>1, <2>2, SumUnion
<1>15. /\ Cardinality(Losers) * 0 = 0
       /\ Cardinality(Referred) * p + Cardinality(Winners) * share \in Int
  <2>1. /\ Cardinality(Losers) \in Int /\ Cardinality(Referred) \in Int
        /\ Cardinality(Winners) \in Int
    BY <1>2, <1>3, FS_CardinalityType
  <2>. QED  BY <1>5, <2>1
<1>16. SumFunctionOnSet(chips, gameOverLogs)
         = SumFunctionOnSet(chips, (ReferralLogs \cup WinnerLogs) \cup LoserLogs)
  BY <1>1, Zenon
<1>. QED  BY <1>4, <1>9, <1>12, <1>13, <1>14, <1>15, <1>16 DEF chips

(* The logs of a game share out at most its pot just as long as at most ten  *)
(* of its gamers have no referrer, whatever the number of winners and however*)
(* their shares are rounded.                                                 *)
THEOREM SharesAreBounded == PrizeSpec => []SharesWithinPot
<1>1. PrizesInv => SharesWithinPot
  <2> SUFFICES ASSUME PrizesInv, gameOverLogs # {}
               PROVE  SumFunction([log \in gameOverLogs |-> log.gameChips]) <= Pot
                        <=> Cardinality(Referred) <= 10
    BY DEF SharesWithinPot, Referred, GetsReferralLog
  <2>1. stage # "sort"
    BY LogsOfGame
  <2>2. PICK p : p = ChipsInGame * Grain
    OBVIOUS
  <2>3. PICK won : won = Cardinality(Winners) * WinnerShare(Cardinality(Winners))
    OBVIOUS
  <2>4. /\ p \in Nat /\ p >= 1 /\ Pot = 80 * p /\ won <= 70 * p /\ won > 69 * p
        /\ won \in Int
    <3>1. Cardinality(Winners) \in Int
      BY <2>1, SharersCounted
    <3>. QED  BY <2>1, <2>2, <2>3, <3>1, SharesBounded
  <2>5. PICK k \in Nat : k = Cardinality(Referred)
    <3>1. IsFiniteSet(Referred)
      BY <2>1, SharersCounted, FS_Subset DEF Referred
    <3>. QED  BY <3>1, FS_CardinalityType
  <2>6. SumFunction([log \in gameOverLogs |-> log.gameChips]) = k * p + won
    BY <2>2, <2>3, <2>5, LogsTotal
  <2>7. k <= 10 => k * p + won <= 80 * p
    <3>1. k <= 10 => k * p <= 10 * p
      BY <2>4
    <3>. QED  BY <2>4, <3>1
  <2>8. k > 10 => k * p + won > 80 * p
    <3>1. k >= 11 => k * p >= 11 * p
      BY <2>4
    <3>. QED  BY <2>4, <3>1
  <2>9. k * p + won \in Int /\ 80 * p \in Int
    BY <2>4
  <2>. QED  BY <2>4, <2>5, <2>6, <2>7, <2>8, <2>9
<1>. QED  BY <1>1, PrizesInvariant, PTL

-----------------------------------------------------------------------------
(* Who the logs are of *)

\* A gamer's own logs in a game: that of a winner, or that of a loser.
LEMMA OwnLog ==
  ASSUME PrizesInv, NEW g \in gamers, NEW log \in gameOverLogs,
         log.type # "referral", log.userId = g.id
  PROVE  log = IF g \in Winners THEN WinnerLog(g) ELSE LoserLog(g)
<1>1. /\ stage # "sort"
      /\ gameOverLogs = (ReferralLogs \cup WinnerLogs) \cup LoserLogs
  BY LogsOfGame
<1>2. \A h \in gamers : g.id = h.id => g = h
  BY <1>1, SharersCounted
<1>3. PICK p : p = ChipsInGame * Grain
  OBVIOUS
<1>4. /\ \A h \in Referred : ReferralLog(h).type = "referral"
      /\ \A h \in Winners : WinnerLog(h).userId = h.id
      /\ \A h \in Losers : LoserLog(h).userId = h.id
  BY <1>1, <1>3, LogValues
<1>5. Winners \subseteq gamers /\ Losers = gamers \ Winners
  BY DEF Winners, Losers
<1>6. CASE log \in ReferralLogs
  BY <1>4, <1>6 DEF ReferralLogs
<1>7. CASE log \in WinnerLogs
  <2>1. PICK h \in Winners : log = WinnerLog(h)
    BY <1>7 DEF WinnerLogs
  <2>. QED  BY <1>2, <1>4, <1>5, <2>1
<1>8. CASE log \in LoserLogs
  <2>1. PICK h \in Losers : log = LoserLog(h)
    BY <1>8 DEF LoserLogs
  <2>. QED  BY <1>2, <1>4, <1>5, <2>1
<1>. QED  BY <1>1, <1>6, <1>7, <1>8

(* Each gamer row of an account in the agreed result has one log of its own, *)
(* and a winner's pays more than any loser's, for every number of winners.   *)
THEOREM EachGamerLogged == PrizeSpec => []OneLogPerGamer
<1>1. PrizesInv => OneLogPerGamer
  <2> SUFFICES ASSUME PrizesInv, gameOverLogs # {}, NEW g \in gamers,
                      NEW own, own = {log \in gameOverLogs :
                                        log.type # "referral" /\ log.userId = g.id}
               PROVE  /\ Cardinality(own) = 1
                      /\ \A log \in own, other \in LogsOfType("loser") :
                           log.type = "winner" => log.gameChips > other.gameChips
                                                  /\ log.points > other.points
    BY DEF OneLogPerGamer
  <2> DEFINE its == IF g \in Winners THEN WinnerLog(g) ELSE LoserLog(g)
  <2>1. /\ stage # "sort"
        /\ gameOverLogs = (ReferralLogs \cup WinnerLogs) \cup LoserLogs
        /\ LogsOfType("loser") \subseteq LoserLogs
    BY LogsOfGame
  <2>2. PICK p, share, points :
          /\ p = ChipsInGame * Grain
          /\ share = WinnerShare(Cardinality(Winners))
          /\ points = TOTAL_WINNERS_POINTS_REWARD \div Cardinality(Winners)
    OBVIOUS
  <2>3. share \in Nat /\ 1 <= share /\ points \in Nat /\ 1 <= points
    BY <2>1, <2>2, SharesBounded
  <2>4. GAMER_POINTS_REWARD \in Nat
    BY GrainAssumption DEF GAMER_POINTS_REWARD
  <2>5. /\ \A h \in Winners : /\ WinnerLog(h).type = "winner"
                              /\ WinnerLog(h).userId = h.id
                              /\ WinnerLog(h).gameChips = share
                              /\ WinnerLog(h).points = points + GAMER_POINTS_REWARD
        /\ \A h \in Losers : /\ LoserLog(h).type = "loser"
                             /\ LoserLog(h).userId = h.id
                             /\ LoserLog(h).gameChips = 0
                             /\ LoserLog(h).points = GAMER_POINTS_REWARD
    BY <2>1, <2>2, LogValues
  <2>6. g \in Winners \/ g \in Losers
    BY DEF Losers
  <2>7. own = {its}
    <3>1. \A log \in own : log = its
      BY OwnLog
    <3>2. its \in gameOverLogs
      BY <2>1, <2>6 DEF WinnerLogs, LoserLogs, Losers
    <3>3. its.type # "referral" /\ its.userId = g.id
      BY <2>5, <2>6
    <3> HIDE DEF its
    <3>. QED  BY <3>1, <3>2, <3>3
  <2>8. Cardinality(own) = 1
    BY <2>7, FS_Singleton
  <2>9. ASSUME NEW log \in own, NEW other \in LogsOfType("loser"), log.type = "winner"
        PROVE  log.gameChips > other.gameChips /\ log.points > other.points
    <3>1. PICK h \in Losers : other = LoserLog(h)
      BY <2>1 DEF LoserLogs
    <3>2. g \in Winners /\ log = WinnerLog(g)
      BY <2>5, <2>6, <2>7, <2>9
    <3>3. /\ log.gameChips = share /\ log.points = points + GAMER_POINTS_REWARD
          /\ other.gameChips = 0 /\ other.points = GAMER_POINTS_REWARD
      BY <2>5, <3>1, <3>2
    <3>. QED  BY <2>3, <2>4, <3>3
  <2>. QED  BY <2>8, <2>9
<1>. QED  BY <1>1, PrizesInvariant, PTL

\* The first entry of an account in an ordered list is one with the most kills.
LEMMA FirstIsBest ==
  ASSUME NEW list \in ResultLists, NEW idx \in SUBSET DOMAIN list, NEW n \in idx
  PROVE  /\ list[Min(idx)].kills \in Nat /\ list[n].kills \in Nat
         /\ list[Min(idx)].kills >= list[n].kills
<1>1. /\ list \in Seq(Range(list))
      /\ \A e \in Range(list) : e.kills \in Nat
      /\ \A k, m \in DOMAIN list : k < m => list[k].kills >= list[m].kills
  BY ListsAssumption
<1>2. idx \in SUBSET Nat /\ idx # {}
  BY <1>1, PlacesAreFinite
<1>3. PICK first : first = Min(idx)
  OBVIOUS
<1>4. first \in idx /\ first <= n
  BY <1>2, <1>3, MinIsLeast
<1>5. first \in DOMAIN list /\ n \in DOMAIN list /\ first \in Nat /\ n \in Nat
  BY <1>2, <1>4
<1>6. list[first].kills \in Nat /\ list[n].kills \in Nat
  BY <1>1, <1>5 DEF Range
<1>7. list[first].kills >= list[n].kills
  BY <1>1, <1>4, <1>5, <1>6
<1>. QED  BY <1>3, <1>6, <1>7

(* The stats logged for a gamer are those of the entry of its account with   *)
(* the most kills: the first it has in the order of the reports' query.      *)
THEOREM BestEntriesLogged == PrizeSpec => []BestEntryLogged
<1>1. PrizesInv => BestEntryLogged
  <2> SUFFICES ASSUME PrizesInv, NEW g \in gamers, NEW log \in gameOverLogs,
                      log.type # "referral", log.userId = g.id,
                      NEW e \in Range(originalResults), e.accountId = g.accountId
               PROVE  log.kills >= e.kills
    BY DEF BestEntryLogged
  <2> DEFINE idx == {n \in DOMAIN originalResults :
                       originalResults[n].accountId = g.accountId}
  <2>1. log.kills = originalResults[Min(idx)].kills
    BY OwnLog DEF WinnerLog, LoserLog, PlayerLog, PlayerResult
  <2>2. PICK n \in idx : e = originalResults[n]
    BY DEF Range
  <2>3. originalResults \in ResultLists
    BY DEF PrizesInv, RankingInv
  <2>4. idx \in SUBSET DOMAIN originalResults
    OBVIOUS
  <2> HIDE DEF idx
  <2>. QED  BY <2>1, <2>2, <2>3, <2>4, FirstIsBest
<1>. QED  BY <1>1, PrizesInvariant, PTL

-----------------------------------------------------------------------------
(* The accounts rewarded *)

\* The accounts that hold a winner's log are those on the podium.
LEMMA WinnersLogged ==
  ASSUME PrizesInv, stage \in {"reward", "sent", "done"}
  PROVE  {g.accountId : g \in {h \in gamers : \E log \in LogsOfType("winner") :
                                               log.userId = h.id}} = Range(Podium)
<1> DEFINE logged == {h \in gamers : \E log \in LogsOfType("winner") :
                                       log.userId = h.id}
<1>1. gameOverLogs = (ReferralLogs \cup WinnerLogs) \cup LoserLogs
  BY LogsOfGame
<1>2. /\ \A g, h \in gamers : g.id = h.id => g = h
      /\ \A a \in Players : \E g \in gamers : g.accountId = a
  BY SharersCounted
<1>3. PICK p : p = ChipsInGame * Grain
  OBVIOUS
<1>4. \A h \in Winners : WinnerLog(h).type = "winner" /\ WinnerLog(h).userId = h.id
  BY <1>3, LogValues
<1>5. \A h \in Winners : WinnerLog(h) \in LogsOfType("winner")
  BY <1>1, <1>4 DEF LogsOfType, WinnerLogs
<1>6. Winners \subseteq logged
  BY <1>4, <1>5 DEF Winners
<1>7. logged \subseteq Winners
  <2> SUFFICES ASSUME NEW h \in gamers, NEW log \in LogsOfType("winner"),
                      log.userId = h.id
               PROVE  h \in Winners
    OBVIOUS
  <2>1. PICK g \in Winners : log = WinnerLog(g)
    BY LogsOfGame DEF WinnerLogs
  <2>2. g \in gamers /\ g.id = h.id
    BY <1>4, <2>1 DEF Winners
  <2>. QED  BY <1>2, <2>1, <2>2
<1>8. Range(Podium) \subseteq Players
  BY PodiumShape DEF PrizesInv, Range
<1>. QED  BY <1>2, <1>6, <1>7, <1>8 DEF Winners

(* Logs and reward agree on the winners: the accounts logged as winners are  *)
(* those passed to the program, each once and without a gap between places,  *)
(* and the program never refuses them for want of a first place.             *)
THEOREM RewardsAreLogged == PrizeSpec => []RewardsMatchLogs
<1>1. PrizesInv => RewardsMatchLogs
  <2> SUFFICES ASSUME PrizesInv, stage \in {"sent", "done"}
               PROVE  /\ reward # "refused"
                      /\ {slots[place].authority : place \in DOMAIN slots}
                           = Range(Podium)
                      /\ IsInjective(slots)
                      /\ \A place \in DOMAIN slots : 1 .. place \subseteq DOMAIN slots
    BY WinnersLogged DEF RewardsMatchLogs
  <2>1. reward # "refused" /\ slots = PodiumSlots /\ RankingInv /\ returned
    BY DEF PrizesInv
  <2>2. /\ Len(Podium) \in 1 .. 3 /\ DOMAIN Podium = 1 .. Len(Podium)
        /\ {p \in 1 .. 3 : Taken(p)} = DOMAIN Podium
    BY <2>1, PodiumNotEmpty
  <2>3. /\ DOMAIN slots = DOMAIN Podium
        /\ \A place \in DOMAIN Podium : slots[place].authority = Podium[place]
    BY <2>1, <2>2 DEF PodiumSlots
  <2>4. IsInjective(slots)
    <3>1. \A m, n \in DOMAIN Podium : Podium[m] = Podium[n] => m = n
      BY <2>1, PodiumShape DEF IsInjective
    <3>2. \A m, n \in DOMAIN slots : slots[m] = slots[n] => m = n
      BY <2>3, <3>1
    <3>. QED  BY <3>2 DEF IsInjective
  <2>5. {slots[place].authority : place \in DOMAIN slots} = Range(Podium)
    BY <2>3 DEF Range
  <2>6. \A place \in DOMAIN slots : 1 .. place \subseteq DOMAIN slots
    BY <2>2, <2>3
  <2>. QED  BY <2>1, <2>4, <2>5, <2>6
<1>. QED  BY <1>1, PrizesInvariant, PTL

=============================================================================
