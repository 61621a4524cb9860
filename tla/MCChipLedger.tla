----------------------------- MODULE MCChipLedger -----------------------------
(* Instances of ChipLedger: visits, deposits and start requests. *)
EXTENDS ChipLedger, TLC

CONSTANTS g1, g2, a1, a2, r1, r2, r3

Visit(id, a) == [kind |-> "visit", id |-> id, accountId |-> a]
Deposit(id, a, n) == [kind |-> "deposit", id |-> id, accountId |-> a, amount |-> n]
Start(id, g, a) == [kind |-> "start", id |-> id, gameId |-> g, accountId |-> a]

\* One account visits twice and gets a chip and a half, then three halves.
TwoVisits == {Visit(1, a1), Visit(2, a1), Visit(3, a2)}
TwoDeposits == {Deposit(1, a1, 3), Deposit(2, a1, 2), Deposit(3, a2, 2)}
\* It asks twice for a seat in one game; another account joins the same game.
RacingStarts == {Start(1, g1, a1), Start(2, g1, a1), Start(3, g1, a2)}

OneVisit == {Visit(1, a1)}
OneDeposit == {Deposit(1, a1, 2)}
TwoGameStarts == {Start(1, g1, a1), Start(2, g2, a1)}

RowSymmetry == Permutations(Rows)
=============================================================================
