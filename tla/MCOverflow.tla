------------------------------ MODULE MCOverflow ------------------------------
(* Instances of Overflow: games whose results do not both fit. *)
EXTENDS Overflow

CONSTANTS g1, g2, a1, a2, i1

Request(id, g, a, results) ==
  [id |-> id, gameId |-> g, accountId |-> a, playerResults |-> results]
Score(a, s) == [accountId |-> a, score |-> s]

\* Two games of the same two players, one report each; both give a1 a score, of
\* which only one fits.
FullRequests ==
  {Request(1, g1, a1, {Score(a1, 1), Score(a2, 1)}), Request(1, g2, a2, {Score(a1, 1)})}
=============================================================================
