---------------------------- MODULE RewardContract ----------------------------
(***************************************************************************)
(* What the rewards marketplace promises (services/reward_service.py, the  *)
(* POINTS INTEGRITY CONTRACT of its docstring): a redemption, a refund and *)
(* an admin's decision are each one indivisible step over the balance, the *)
(* stock and the redemption row.  RewardLedger implements it with several  *)
(* statements, row locks and reads that may be stale by the time of the    *)
(* write.                                                                  *)
(***************************************************************************)
EXTENDS Integers

CONSTANTS
  Users,      \* students
  Keys,       \* idempotency keys a client generated
  KeyOwner,   \* KeyOwner[k]: the student whose client generated k
  Rewards,    \* the catalog
  NoReward,   \* the reward of a redemption that does not exist
  Null,       \* the stock of a reward that is not limited
  Stocks,     \* stock an admin may set (PATCH /admin/rewards), Null among them
  Balances    \* balances an admin may set (PATCH /admin/users)

VARIABLES
  points,     \* users.points
  stock,      \* rewards.stock
  redemption  \* reward_redemptions, by its UNIQUE (user_id, idempotency_key)

CodeStatus == {"available", "used", "cancelled"}
CashStatus == {"pending", "approved", "fulfilled", "rejected"}

Row(s, r, n) == [status |-> s, reward |-> r, spent |-> n]
NoRow == Row("none", NoReward, 0)

Limited(r) == stock[r] # Null

SetStatus(k, s) ==
  redemption' = [redemption EXCEPT ![k] =
                   Row(s, redemption[k].reward, redemption[k].spent)]

\* The balance, the unit of stock and the row of a redemption, together.
Grant(k, r, cost, s, unit) ==
  /\ redemption' = [redemption EXCEPT ![k] = Row(s, r, cost)]
  /\ points' = [points EXCEPT ![KeyOwner[k]] = @ - cost]
  /\ stock' = IF unit THEN [stock EXCEPT ![r] = @ - 1] ELSE stock

\* The same three given back.
GiveBack(k, s) ==
  LET row == redemption[k] IN
  /\ SetStatus(k, s)
  /\ points' = [points EXCEPT ![KeyOwner[k]] = @ + row.spent]
  /\ stock' = IF Limited(row.reward)
              THEN [stock EXCEPT ![row.reward] = @ + 1] ELSE stock

\* A code is usable at once, a payout waits for an admin.
Redeem(k) ==
  /\ redemption[k] = NoRow
  /\ \E r \in Rewards, s \in {"available", "pending"} :
       LET cost == redemption'[k].spent IN
       /\ cost \in Nat /\ points[KeyOwner[k]] >= cost
       /\ Limited(r) => stock[r] > 0
       /\ Grant(k, r, cost, s, Limited(r))

\* Whom a refund may still reach.
RefundTo == [available |-> "cancelled", pending |-> "rejected", approved |-> "rejected"]

Refund(k) ==
  /\ redemption[k].status \in DOMAIN RefundTo
  /\ GiveBack(k, RefundTo[redemption[k].status])

\* Decisions that move no points.
DecideTo ==
  [available |-> {"used"}, pending |-> {"approved", "fulfilled"},
   approved |-> {"fulfilled"}]

Decide(k) ==
  /\ redemption[k].status \in DOMAIN DecideTo
  /\ \E s \in DecideTo[redemption[k].status] : SetStatus(k, s)
  /\ UNCHANGED <<points, stock>>

\* An admin sets a balance or a stock.
Edit ==
  /\ \/ /\ \E u \in Users, n \in Balances : points' = [points EXCEPT ![u] = n]
        /\ UNCHANGED stock
     \/ /\ \E r \in Rewards, n \in Stocks : stock' = [stock EXCEPT ![r] = n]
        /\ UNCHANGED points
  /\ UNCHANGED redemption

ContractInit ==
  /\ redemption = [k \in Keys |-> NoRow]
  /\ points \in [Users -> Nat]
  /\ stock \in [Rewards -> Nat \cup {Null}]

ContractNext ==
  \/ \E k \in Keys : Redeem(k) \/ Refund(k) \/ Decide(k)
  \/ Edit

Contract == ContractInit /\ [][ContractNext]_<<points, stock, redemption>>
=============================================================================
