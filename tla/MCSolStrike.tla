----------------------------- MODULE MCSolStrike -----------------------------
(* An instance of SolStrike: two players, three requests for two seats. *)
EXTENDS SolStrike, TLC

CONSTANTS g1, a1, a2, r1, r2, r3, i1

\* One of them reports on both; the other's report is awaited until time is up.
Reports ==
  {[id |-> 1, gameId |-> g1, accountId |-> a1,
    playerResults |-> {[accountId |-> a1, score |-> 0],
                       [accountId |-> a2, score |-> 0]}]}

\* a1 visits twice, buys two chips and asks twice for the same seat.
SystemVisits ==
  {[kind |-> "visit", id |-> id, accountId |-> a1] : id \in 1 .. 2}
    \cup {[kind |-> "visit", id |-> 3, accountId |-> a2]}
SystemDeposits ==
  {[kind |-> "deposit", id |-> 1, accountId |-> a1, amount |-> 2],
   [kind |-> "deposit", id |-> 2, accountId |-> a2, amount |-> 1]}
Starts ==
  {[kind |-> "start", id |-> id, gameId |-> g1, accountId |-> a1] : id \in 1 .. 2}
    \cup {[kind |-> "start", id |-> 3, gameId |-> g1, accountId |-> a2]}

RowPermutations == Permutations(Rows)
=============================================================================
