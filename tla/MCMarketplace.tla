---------------------------- MODULE MCMarketplace ----------------------------
(* Instances of Marketplace for TLC: one student, and rewards that cost what *)
(* the first deposit and its challenge bonus earn together.                  *)
EXTENDS Marketplace, TLC

CONSTANTS u1, web2, code

OneOwner == [o \in Ops |-> u1]
KeysOfOne == [k \in Keys |-> u1]
OnePointEach == [p \in Positions |-> 1]
TwoUnits == [r \in Rewards |-> 2]
TwoPointPrice == [r \in Rewards |-> 2]

MarketSymmetry == Permutations(Ops) \cup Permutations(Keys) \cup Permutations(Admins)

\* The whole is too many states: a behaviour is one of two scenes.  In "codes"
\* two student threads redeem and cancel codes while two threads award; in
\* "payouts" two admins decide on one student thread's payouts while one awards.
VARIABLE scene

MCInit ==
  /\ Init
  /\ scene \in {"codes"} \cup (IF Admins = {} THEN {} ELSE {"payouts"})

MCNext ==
  /\ Next
  /\ UNCHANGED <<scene, cost, active, category>>
  /\ request' = request => UNCHANGED stock
  /\ \A k \in Keys : redemption'[k].reward \in
       {NoReward} \cup (IF scene = "codes" THEN {code} ELSE Rewards \ {code})
  /\ \A w \in Students : request'[w].reward \in
       {NoReward} \cup (IF scene = "codes" THEN {code} ELSE Rewards \ {code})
  /\ scene = "payouts" =>
       request'[web2] = R!Idle /\ \A w \in Creators : deposit'[w].at # "award"
  /\ scene = "codes" => \A w \in Admins : request'[w] = R!Idle

MCSpec == MCInit /\ [][MCNext]_<<vars, scene>>
=============================================================================
