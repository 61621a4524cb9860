-------------------------- MODULE SettlementContract --------------------------
(***************************************************************************)
(* What the end-game pipeline promises about a game, whatever is in flight *)
(* and whatever crashes: it is closed at most once, settled or canceled;   *)
(* its game-over logs are written before it is settled and are final from  *)
(* then on; and its winners are paid at most once, only after it has been  *)
(* settled.                                                                *)
(***************************************************************************)
EXTENDS Integers

CONSTANTS Games, Accounts

VARIABLES
  verdict,    \* "open", "settled" or "canceled"
  logs,       \* how many game-over logs each account has for each game
  paid        \* how many reward transactions a game has had

contractVars == <<verdict, logs, paid>>

ContractInit ==
  /\ verdict = [g \in Games |-> "open"]
  /\ logs = [g \in Games |-> [a \in Accounts |-> 0]]
  /\ paid = [g \in Games |-> 0]

Log(g) ==
  /\ verdict[g] = "open"
  /\ \E logged \in SUBSET Accounts :
       /\ logged # {}
       /\ logs' = [logs EXCEPT ![g] =
                     [a \in Accounts |-> IF a \in logged THEN @[a] + 1
                                                         ELSE @[a]]]
  /\ UNCHANGED <<verdict, paid>>

Settle(g) ==
  /\ verdict[g] = "open"
  /\ \E a \in Accounts : logs[g][a] > 0
  /\ verdict' = [verdict EXCEPT ![g] = "settled"]
  /\ UNCHANGED <<logs, paid>>

Cancel(g) ==
  /\ verdict[g] = "open"
  /\ verdict' = [verdict EXCEPT ![g] = "canceled"]
  /\ UNCHANGED <<logs, paid>>

Pay(g) ==
  /\ verdict[g] = "settled"
  /\ paid[g] = 0
  /\ paid' = [paid EXCEPT ![g] = 1]
  /\ UNCHANGED <<verdict, logs>>

ContractNext == \E g \in Games : Log(g) \/ Settle(g) \/ Cancel(g) \/ Pay(g)

ContractSpec == ContractInit /\ [][ContractNext]_contractVars

=============================================================================
