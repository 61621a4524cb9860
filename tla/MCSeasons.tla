------------------------------ MODULE MCSeasons ------------------------------
(* An instance of Seasons: two gamers, one of whom has no points. *)
EXTENDS Seasons, TLC

CONSTANTS a1, a2, s1, s2, s3, r1

Credit(n, a, points) == [id |-> n, gamer |-> a, points |-> points]
MCCredits == {Credit(1, a1, 1), Credit(2, a2, 0)}

ClosingSymmetry == Permutations({s1, s2, s3})
=============================================================================
