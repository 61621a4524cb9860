----------------------------- MODULE MCAdmission -----------------------------
(* An instance of Admission: a1 and a2 are known, a2 by two rows and so with *)
(* two codes; a3 is new, and a4 is no account id.                            *)
EXTENDS Admission, TLC

CONSTANTS a1, a2, a3, a4, b1, b2

Request(id, kind, a, named, code, signed, signedAt) ==
  [id |-> id, kind |-> kind, accountId |-> a, named |-> named, code |-> code,
   username |-> "new name", signed |-> signed, signedAt |-> signedAt]

\* Entries of the blacklist are told apart by nothing but their ids.
IdPermutations == Permutations(Ids)

Known == <<a1, a2, a2>>

\* Among others a1 uses two codes, and one of them with the fixed message.
SomeRequests ==
  {Request(1, "visit", a3, {}, 0, FALSE, NaN),
   Request(2, "rename", a1, {}, 0, FALSE, NaN),
   Request(3, "refer", a1, {}, 2, TRUE, 0),
   Request(4, "refer", a1, {}, 3, TRUE, 0),
   Request(5, "refer", a1, {}, 2, TRUE, NaN),
   Request(6, "refer", a2, {}, 2, TRUE, 1),
   Request(7, "refer", a3, {}, 4, TRUE, 1),
   Request(8, "play", a1, {}, 0, FALSE, 0),
   Request(9, "play", a4, {}, 0, TRUE, 0),
   Request(10, "over", a2, {a1, a2}, 0, TRUE, 1)}
=============================================================================
