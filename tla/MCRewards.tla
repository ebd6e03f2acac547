------------------------------ MODULE MCRewards ------------------------------
(* Instances of RewardLedger for TLC. *)
EXTENDS RewardLedger, TLC

CONSTANTS u1, cash, code, web2, adm2

\* Every key is the one student's.
OneOwner == [k \in Keys |-> u1]

\* Enough points for two of the cheap codes and for one payout.
TwoPoints == [u \in Users |-> 2]
OnePoint == [u \in Users |-> 1]

\* One unit of everything on the shelf.
OneUnit == [r \in Rewards |-> 1]

\* A code costs 1 point, a payout 2.
SeedPrice == [r \in Rewards |-> IF r = cash THEN 2 ELSE 1]

\* The whole is too many states: a behaviour is one of four scenes.  Two
\* students and an admin who reprices the payout; who changes the code's stock,
\* NULL included; who sets balances and withdraws the code; and one student and
\* two admins, who move the payout between the categories.
VARIABLE scene

MCInit ==
  /\ Init
  /\ scene \in {"prices"} \cup (IF Stocks = {} THEN {} ELSE {"stock", "balance", "admins"})

MCNext ==
  /\ Next /\ UNCHANGED scene
  /\ \A w \in (IF scene = "admins" THEN {web2} ELSE {adm2}) \cap Workers : UNCHANGED job[w]
  /\ IF scene = "prices" THEN UNCHANGED active ELSE UNCHANGED cost
  /\ IF scene = "balance" THEN UNCHANGED active[cash] ELSE UNCHANGED active
  /\ job' = job => (IF scene = "stock" THEN UNCHANGED stock[cash] ELSE UNCHANGED stock)
  /\ scene # "balance" => (job' = job => UNCHANGED points)
  /\ IF scene = "admins" THEN UNCHANGED category[code] ELSE UNCHANGED category

MCSpec == MCInit /\ [][MCNext]_<<vars, scene>> /\ Fairness
=============================================================================
