----------------------------- MODULE MCSettlement -----------------------------
(* Instances of Settlement: the requests clients may send in each run. *)
EXTENDS SettlementProperties, TLC

CONSTANTS g1, g2, a1, a2, a3, i1, i2

Request(id, g, a, results) ==
  [id |-> id, gameId |-> g, accountId |-> a, playerResults |-> results]
Score(a, s) == [accountId |-> a, score |-> s]

\* Both players of a game report the same full result.
Agreed == {Score(a1, 0), Score(a2, 0)}
AgreedRequests == {Request(1, g1, a1, Agreed), Request(2, g1, a2, Agreed)}

\* The second player may claim another result beside the one reported, and send
\* that claim twice.
DisputedRequests ==
  {Request(1, g1, a1, Agreed), Request(2, g1, a2, Agreed),
   Request(3, g1, a2, {Score(a2, 1)}), Request(4, g1, a2, {Score(a2, 1)})}

\* Three players, two of whom agree, on a result for the third.
MajorityRequests ==
  {Request(1, g1, a1, {Score(a3, 0)}), Request(2, g1, a2, {Score(a3, 0)}),
   Request(3, g1, a3, {Score(a1, 0)})}

InvocationSymmetry == Permutations({i1, i2})
=============================================================================
