----------------------------- MODULE Marketplace -----------------------------
(***************************************************************************)
(* Deposits and redemptions on the one column they share, users.points.    *)
(* The two services never call each other: award_points (points_           *)
(* transaction.py) writes the balance it read when the event arrived plus  *)
(* the award, while redeem, admin_reject and user_cancel_available         *)
(* (reward_service.py) let the database compute the new balance under the  *)
(* row's lock.                                                             *)
(***************************************************************************)
EXTENDS Integers, FiniteSets, Functions

CONSTANTS
  Users,
  Ops, NoOp, Owner, Positions, PolicyPoints, LivePhases,
  BonusPosition, BonusTarget, BonusPoints,
  Creators, Capturers, Cancellers, Telemetry, Completers,
  Keys, NoKey, KeyOwner, Rewards, NoReward, Cash, Null, Stocks, Shelf,
  Price, Prices, Free, Students, Admins

VARIABLES
  points,                                             \* users.points
  status, expected, potential, lapsed, waste,         \* DepositLifecycle
  claimed, board, faculty, commands, deposit,
  stock, redemption, cost, active, category, holder,  \* RewardLedger
  answer, request,
  overruled   \* history: per student, the refunds a later decision paid out again

\* The balances start empty: what is spent was earned here.
D == INSTANCE DepositLifecycle WITH job <- deposit
R == INSTANCE RewardLedger WITH
       job <- request, Opening <- [u \in Users |-> 0], Balances <- {}

ASSUME MarketAssumption == D!DepositAssumption /\ R!RewardAssumption

depositVars ==
  <<status, expected, potential, lapsed, waste, claimed, board, faculty,
    commands, deposit>>
rewardVars ==
  <<stock, redemption, cost, active, category, holder, answer, request, overruled>>
vars == <<points, depositVars, rewardVars>>

Init == D!Init /\ R!Init /\ overruled = [u \in Users |-> 0]

\* The UPDATE of a balance waits for the transaction that has the row locked.
\* A restart (D!Restart) also ends redemptions: each by an Abort of its own.
DepositStepUnlocked ==         \* variant: it overtakes the lock's holder
  /\ D!Next
  /\ UNCHANGED rewardVars

DepositStep ==
  /\ D!Next
  /\ \A u \in Users : points'[u] # points[u] => holder[u] = Free
  /\ UNCHANGED rewardVars

\* A decision is written over a refund: the payout goes out, the points stay.
Overrule ==
  \E k \in Keys :
    /\ R!Revived(k)
    /\ overruled' = [overruled EXCEPT ![KeyOwner[k]] = @ + redemption[k].spent]

RewardStep ==
  /\ R!Next
  /\ IF \E k \in Keys : R!Revived(k) THEN Overrule ELSE UNCHANGED overruled
  /\ UNCHANGED depositVars

\* Threads that serve both kinds of request serve one at a time.
OneRequestPerThread ==
  \A w \in D!Workers \cap R!Workers : deposit[w] # D!Idle => request[w] = R!Idle

Next == (DepositStep \/ RewardStep) /\ OneRequestPerThread'

Spec == Init /\ [][Next]_vars

-----------------------------------------------------------------------------
\* What the redemptions a student still holds were paid with.
Spent(u) ==
  LET paid == [k \in Keys |-> redemption[k].spent]
  IN SumFunctionOnSet(paid, {k \in R!Live : KeyOwner[k] = u})

\* What was given back to a student.
Refunded(u) ==
  LET paid == [k \in Keys |-> redemption[k].spent]
      back == {k \in Keys : redemption[k].status \in {"cancelled", "rejected"}}
  IN SumFunctionOnSet(paid, {k \in back : KeyOwner[k] = u})

\* No interleaving of duplicated events, callbacks, restarts, challenge races,
\* redemptions and refunds credits a student with more than the waste events,
\* the challenge row and the refunds account for; a refund whose redemption a
\* stale decision of a second admin pays out all the same counts each time.
NoPointsFromNothing ==
  \A u \in Users : points[u] <= D!Earned(u) + Refunded(u) + overruled[u]

\* Every balance is what was earned less what was spent: no award undoes a
\* redemption's deduction or a refund, and no redemption undoes an award
\* (award_points' read-then-write against reward_service's UPDATE).
JointLedger == \A u \in Users : points[u] = D!Earned(u) - Spent(u)

\* A balance is never negative, whatever the order of awards and redemptions:
\* the deduction is checked on the locked row, not on the balance a stale
\* award is about to write.
NeverOverdrawn == \A u \in Users : points[u] >= 0
=============================================================================
