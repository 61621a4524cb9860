------------------------------- MODULE MCPrizes -------------------------------
(* Every list the reports' query may yield, over scores that decide each of  *)
(* the comparisons: kills, then deaths, then headshots, then none of them;   *)
(* and one list of more gamers than the pot has shares for.                  *)
EXTENDS Prizes, TLC

CONSTANTS Accounts, MaxLength, Crowd

Score(a, s) ==
  [accountId |-> a, kills |-> s[1], deaths |-> s[2], headshots |-> s[3]]
Scores ==
  {Score(a, s) : a \in Accounts,
     s \in {<<1, 0, 0>>, <<1, 0, 1>>, <<1, 1, 1>>, <<0, 0, 0>>, <<0, 1, 1>>}}

(* ORDER BY kills DESC, deaths DESC, headshots DESC, playerAccountId DESC;   *)
(* an account that reported twice has several rows.                          *)
InOrder(e, f) ==
  \/ e.kills > f.kills
  \/ e.kills = f.kills /\ e.deaths > f.deaths
  \/ e.kills = f.kills /\ e.deaths = f.deaths /\ e.headshots > f.headshots
  \/ /\ e.kills = f.kills /\ e.deaths = f.deaths /\ e.headshots = f.headshots
     /\ e.accountId >= f.accountId

Extend(list) ==
  {Append(list, e) : e \in {f \in Scores : list = <<>> \/ InOrder(Last(list), f)}}

ListsOfLength[n \in 0 .. MaxLength] ==
  IF n = 0 THEN {<<>>} ELSE UNION {Extend(list) : list \in ListsOfLength[n - 1]}
CrowdedList == [n \in 1 .. Crowd |-> Score(Crowd + 1 - n, <<0, 0, 0>>)]
ReportedLists ==
  UNION {ListsOfLength[n] : n \in 1 .. MaxLength} \cup {CrowdedList}

\* Every account has a row, those in twins a second one; the accounts in
\* referred have a referrer.
Table(twins, referred) ==
  {[id |-> a, accountId |-> a,
    referralUserId |-> IF a \in referred THEN 1 ELSE NoReferrer] : a \in 1 .. Crowd}
  \cup {[id |-> Crowd + a, accountId |-> a, referralUserId |-> NoReferrer] :
          a \in twins}
Tables ==
  {Table({}, {}), Table({}, {2}), Table({}, {1, 2}), Table({1}, {1, 2}),
   Table({1, 2}, {})}
=============================================================================
