----------------------------- MODULE RewardLedger -----------------------------
(***************************************************************************)
(* The rewards marketplace, statement by statement (services/              *)
(* reward_service.py and the redemption and catalog endpoints of           *)
(* routers/rewards.py and routers/admin.py) on PostgreSQL at READ          *)
(* COMMITTED.                                                              *)
(*                                                                         *)
(* points, stock, cost, active, category and redemption are the committed  *)
(* rows.  An UPDATE takes the row's lock, waits while another transaction  *)
(* holds it, re-evaluates its WHERE clause on what that one committed, and *)
(* keeps the lock to the COMMIT: what a transaction has pending is its     *)
(* job, applied when it commits and forgotten when it rolls back.  A       *)
(* SELECT takes no lock, so what it read may be stale when the transaction *)
(* writes.                                                                 *)
(***************************************************************************)
EXTENDS RewardContract, FiniteSets, Functions

CONSTANTS
  Opening,    \* Opening[u]: points before the first redemption
  Shelf,      \* Shelf[r]: stock the reward is created with
  Cash,       \* rewards created in the category "cash"
  Price,      \* Price[r]: points_cost the reward is created with
  Prices,     \* points_cost an admin may change a reward to
  NoKey,      \* the key of a thread that serves none
  Free,       \* the holder of a row nobody has locked
  Students,   \* threads that serve students' requests
  Admins      \* threads that serve admins' requests

Workers == Students \cup Admins

ASSUME RewardAssumption ==
  /\ KeyOwner \in [Keys -> Users]
  /\ NoKey \notin Keys /\ NoReward \notin Rewards /\ Free \notin Workers
  /\ Cash \subseteq Rewards /\ Null \notin Int
  /\ Opening \in [Users -> Nat] /\ Shelf \in [Rewards -> Nat \cup {Null}]
  /\ Price \in [Rewards -> Nat \ {0}] /\ Prices \subseteq Nat \ {0}
  /\ Stocks \subseteq Nat \cup {Null} /\ Balances \subseteq Nat
  /\ Users \cap Rewards = {} /\ Users \cap Keys = {} /\ Keys \cap Rewards = {}

VARIABLES
  cost,       \* rewards.points_cost
  active,     \* rewards.is_active
  category,   \* rewards.category: a cash payout or a code
  holder,     \* holder[row]: the transaction that has the row locked
  answer,     \* answer[k]: what the last redeem request of k was told
  job         \* per thread: the transaction it is in

vars == <<points, stock, redemption, cost, active, category, holder, answer, job>>

Rows == Users \cup Rewards \cup Keys

\* Stages of redeem: reserve, deduct, insert; of a refund: refund, restock; stamp
\* is a decision read from a copy and written later.  target: the status that is
\* written; unit: a unit of stock is reserved.
Stage == {"idle", "reserve", "deduct", "insert", "refund", "restock", "stamp"}
Target == {"none", "available", "pending", "cancelled", "rejected", "approved", "fulfilled"}
JobRecords ==
  [at: Stage, key: Keys \cup {NoKey}, reward: Rewards \cup {NoReward},
   spent: Nat, target: Target, unit: BOOLEAN]
Jobs == {j \in JobRecords : j.at # "idle" => j.key \in Keys /\ j.reward \in Rewards}

Job(stage, k, r, n, s) ==
  [at |-> stage, key |-> k, reward |-> r, spent |-> n, target |-> s, unit |-> FALSE]
Idle == Job("idle", NoKey, NoReward, 0, "none")

Categories == {"cash", "code"}

Init ==
  /\ points = Opening
  /\ stock = Shelf
  /\ redemption = [k \in Keys |-> NoRow]
  /\ cost = Price
  /\ active = [r \in Rewards |-> TRUE]
  /\ category = [r \in Rewards |-> IF r \in Cash THEN "cash" ELSE "code"]
  /\ holder = [x \in Rows |-> Free]
  /\ answer = [k \in Keys |-> "none"]
  /\ job = [w \in Workers |-> Idle]

-----------------------------------------------------------------------------
\* Locks and transactions.

Lock(w, x) == holder[x] = Free /\ holder' = [holder EXCEPT ![x] = w]
Release(w) == holder' = [x \in Rows |-> IF holder[x] = w THEN Free ELSE holder[x]]
Become(w, j) == job' = [job EXCEPT ![w] = j]

\* COMMIT or ROLLBACK: the locks go and the thread is free again.
EndTransaction(w) == Release(w) /\ Become(w, Idle)

Answer(k, a) == answer' = [answer EXCEPT ![k] = a]
ledger == <<points, stock, redemption>>
catalog == <<cost, active, category>>

\* The thread's job, one stage on.
Advance(w, stage) == Become(w, [job[w] EXCEPT !.at = stage])

RefuseHolding(w) ==            \* variant: the session is not closed
  /\ Become(w, Idle)
  /\ Answer(job[w].key, "refused")
  /\ UNCHANGED <<ledger, catalog, holder>>

\* RewardError: get_db closes the session, which rolls back, and the client is
\* told no.
Refuse(w) ==
  /\ EndTransaction(w)
  /\ Answer(job[w].key, "refused")
  /\ UNCHANGED <<ledger, catalog>>

-----------------------------------------------------------------------------
\* redeem.

\* _status_for: a cash reward waits for an admin, a code is usable at once.
StatusFor(r) == IF category[r] = "cash" THEN "pending" ELSE "available"

\* The key is looked up and the reward is read, for good: no lock is taken.  A
\* stock that is NULL now is not asked about again.
RedeemStart(w, k, r) ==
  /\ w \in Students /\ job[w].at = "idle"
  /\ IF redemption[k] # NoRow
     THEN Answer(k, "redeemed") /\ UNCHANGED job
     ELSE IF active[r]
     THEN /\ Become(w, Job(IF Limited(r) THEN "reserve" ELSE "deduct",
                          k, r, cost[r], StatusFor(r)))
          /\ UNCHANGED answer
     ELSE Answer(k, "refused") /\ UNCHANGED job
  /\ UNCHANGED <<ledger, catalog, holder>>

ReserveUnguarded(w) ==         \* variant: without stock > 0
  /\ job[w].at = "reserve" /\ Limited(job[w].reward)
  /\ Lock(w, job[w].reward)
  /\ Become(w, [job[w] EXCEPT !.at = "deduct", !.unit = TRUE])
  /\ UNCHANGED <<ledger, catalog, answer>>

\* UPDATE rewards SET stock = stock - 1 WHERE stock > 0: no row matches a stock
\* that has become NULL.
Reserve(w) ==
  /\ job[w].at = "reserve"
  /\ LET r == job[w].reward IN
     /\ holder[r] = Free
     /\ IF Limited(r) /\ stock[r] > 0
        THEN /\ Lock(w, r)
             /\ Become(w, [job[w] EXCEPT !.at = "deduct", !.unit = TRUE])
             /\ UNCHANGED <<ledger, catalog, answer>>
        ELSE Refuse(w)

\* UPDATE users SET points = points - cost WHERE points >= cost.
Deduct(w) ==
  /\ job[w].at = "deduct"
  /\ LET u == KeyOwner[job[w].key] IN
     /\ holder[u] = Free
     /\ IF points[u] >= job[w].spent
        THEN /\ Lock(w, u)
             /\ Advance(w, "insert")
             /\ UNCHANGED <<ledger, catalog, answer>>
        ELSE Refuse(w)

InsertAgain(w) ==              \* variant: without uq_redemption_idem
  /\ job[w].at = "insert"
  /\ Grant(job[w].key, job[w].reward, job[w].spent, job[w].target, job[w].unit)
  /\ EndTransaction(w)
  /\ Answer(job[w].key, "redeemed")
  /\ UNCHANGED catalog

\* The INSERT and the COMMIT.  A row of the same user and key committed
\* meanwhile refuses it; everything is rolled back and that row is returned.
Insert(w) ==
  /\ job[w].at = "insert"
  /\ IF redemption[job[w].key] = NoRow
     THEN Grant(job[w].key, job[w].reward, job[w].spent, job[w].target, job[w].unit)
     ELSE UNCHANGED ledger
  /\ EndTransaction(w)
  /\ Answer(job[w].key, "redeemed")
  /\ UNCHANGED catalog

-----------------------------------------------------------------------------
\* admin_reject and user_cancel_available: the row is claimed by a conditional
\* UPDATE, and what follows is the refund of whoever won it.

Claim(w, k, from, to) ==
  /\ job[w].at = "idle"
  /\ redemption[k].status \in from
  /\ Lock(w, k)
  /\ Become(w, Job("refund", k, redemption[k].reward, redemption[k].spent, to))
  /\ UNCHANGED <<ledger, catalog, answer>>

ClaimCancelUnlocked(w, k) ==   \* variant: the status is checked on a SELECT
  /\ w \in Students /\ job[w].at = "idle" /\ redemption[k].status = "available"
  /\ Become(w, Job("refund", k, redemption[k].reward, redemption[k].spent,
                   "cancelled"))
  /\ UNCHANGED <<ledger, catalog, holder, answer>>

ClaimCancel(w, k) == w \in Students /\ Claim(w, k, {"available"}, "cancelled")

ClaimReject(w, k) == w \in Admins /\ Claim(w, k, {"pending", "approved"}, "rejected")

\* UPDATE users SET points = points + spent.
RefundPoints(w) ==
  /\ job[w].at = "refund"
  /\ Lock(w, KeyOwner[job[w].key])
  /\ Advance(w, "restock")
  /\ UNCHANGED <<ledger, catalog, answer>>

RestockRepriced(w) ==          \* variant: refunds today's price
  /\ job[w].at = "restock"
  /\ holder[job[w].reward] = Free
  /\ LET k == job[w].key IN
     /\ SetStatus(k, job[w].target)
     /\ points' = [points EXCEPT ![KeyOwner[k]] = @ + cost[job[w].reward]]
     /\ stock' = IF Limited(job[w].reward)
                 THEN [stock EXCEPT ![job[w].reward] = @ + 1] ELSE stock
  /\ EndTransaction(w)
  /\ UNCHANGED <<catalog, answer>>

\* _restore_reserved_stock, if the reward is limited now, and the COMMIT.
Restock(w) ==
  /\ job[w].at = "restock"
  /\ holder[job[w].reward] = Free
  /\ GiveBack(job[w].key, job[w].target)
  /\ EndTransaction(w)
  /\ UNCHANGED <<catalog, answer>>

-----------------------------------------------------------------------------
\* Decisions.

\* mark_used: one conditional UPDATE, committed at once.
MarkUsed(w, k) ==
  /\ w \in Admins /\ job[w].at = "idle"
  /\ holder[k] = Free /\ redemption[k].status = "available"
  /\ SetStatus(k, "used")
  /\ UNCHANGED <<points, stock, catalog, holder, answer, job>>

\* approve_redemption and fulfill_redemption decide on the row they loaded...
StampLoad(w, k, from, to) ==
  /\ w \in Admins /\ job[w].at = "idle"
  /\ redemption[k].status \in from
  /\ Become(w, Job("stamp", k, redemption[k].reward, redemption[k].spent, to))
  /\ UNCHANGED <<ledger, catalog, holder, answer>>

ApproveLoad(w, k) == StampLoad(w, k, {"pending"}, "approved")

FulfillLoad(w, k) ==
  /\ StampLoad(w, k, {"pending", "approved"}, "fulfilled")
  /\ category[redemption[k].reward] = "cash"

\* ... and write it by its primary key alone.
Stamp(w) ==
  /\ job[w].at = "stamp"
  /\ holder[job[w].key] = Free
  /\ SetStatus(job[w].key, job[w].target)
  /\ Become(w, Idle)
  /\ UNCHANGED <<points, stock, catalog, holder, answer>>

\* PATCH /admin/rewards: the columns a form changes, price, is_active, category
\* and stock, NULL included; SQLAlchemy writes no column that has the value read.
Edited(f, r, S) == {f} \cup {[f EXCEPT ![r] = x] : x \in S}

PatchReward(w, r) ==
  /\ w \in Admins /\ job[w].at = "idle" /\ holder[r] = Free
  /\ cost' \in Edited(cost, r, Prices)
  /\ active' \in Edited(active, r, BOOLEAN)
  /\ category' \in Edited(category, r, Categories)
  /\ stock' \in Edited(stock, r, Stocks)
  /\ UNCHANGED <<points, redemption, holder, answer, job>>

\* PATCH /admin/users sets a balance.
PatchUser(w, u, n) ==
  /\ w \in Admins /\ job[w].at = "idle" /\ holder[u] = Free
  /\ points' = [points EXCEPT ![u] = n]
  /\ UNCHANGED <<stock, redemption, catalog, holder, answer, job>>

\* The transaction dies with its connection or process, or as the victim the
\* deadlock detector picks: rolled back, and the client hears nothing.
Abort(w) ==
  /\ job[w].at # "idle"
  /\ EndTransaction(w)
  /\ UNCHANGED <<ledger, catalog, answer>>

-----------------------------------------------------------------------------
Proceed(w) ==
  \/ Reserve(w) \/ Deduct(w) \/ Insert(w)
  \/ RefundPoints(w) \/ Restock(w)
  \/ Stamp(w)

Request(w) ==
  \/ \E k \in Keys, r \in Rewards : RedeemStart(w, k, r)
  \/ \E k \in Keys : \/ ClaimCancel(w, k) \/ ClaimReject(w, k)
                     \/ MarkUsed(w, k) \/ ApproveLoad(w, k) \/ FulfillLoad(w, k)
  \/ \E r \in Rewards : PatchReward(w, r)
  \/ \E u \in Users, n \in Balances : PatchUser(w, u, n)

Next == \E w \in Workers : Request(w) \/ Proceed(w) \/ Abort(w)

Spec == Init /\ [][Next]_vars

\* What a thread waits for, and the circular waits PostgreSQL breaks up.
Wanted(w) ==
  CASE job[w].at = "reserve" -> {job[w].reward}
    [] job[w].at \in {"deduct", "refund"} -> {KeyOwner[job[w].key]}
    [] job[w].at = "restock" -> {job[w].reward}
    [] job[w].at = "stamp" -> {job[w].key}
    [] OTHER -> {}
WaitsFor(v, w) == \E x \in Wanted(v) : holder[x] = w
Deadlocked(w) ==
  \E D \in SUBSET Workers :
    /\ w \in D
    /\ \A v \in D : /\ \E b \in D : WaitsFor(v, b)
                    /\ \E b \in D : WaitsFor(b, v)

DeadlockVictim(w) == Deadlocked(w) /\ Abort(w)

\* A request a worker has accepted is executed to its end: the lock queues are
\* first come first served, and one of the transactions of a circular wait is
\* aborted.  Nothing is assumed about new requests or lost connections.
Fairness == \A w \in Workers : SF_vars(Proceed(w)) /\ WF_vars(DeadlockVictim(w))
FairSpec == Spec /\ Fairness

-----------------------------------------------------------------------------
\* The two defects of a read that is not repeated: a decision is written over
\* what has been settled since (a refund, or a payout), ...
StaleStamp(w) ==
  Stamp(w) /\ redemption[job[w].key].status \in {"fulfilled", "rejected"}

\* ... and a unit is handed out without being taken, because the stock was NULL
\* when the reward was read.
UnreservedInsert(w) ==
  Insert(w) /\ ~job[w].unit /\ Limited(job[w].reward)

\* The type of the rows, and of what a transaction carries.
TypeOK ==
  /\ points \in [Users -> Int]
  /\ stock \in [Rewards -> Int \cup {Null}]
  /\ redemption \in [Keys -> {NoRow}
       \cup [status: CodeStatus \cup CashStatus, reward: Rewards, spent: Nat]]
  /\ cost \in [Rewards -> Nat]
  /\ active \in [Rewards -> BOOLEAN]
  /\ category \in [Rewards -> Categories]
  /\ holder \in [Rows -> Workers \cup {Free}]
  /\ answer \in [Keys -> {"none", "redeemed", "refused"}]
  /\ job \in [Workers -> Jobs]

\* "Points can NEVER go negative, even under parallel requests", nor does the
\* stock of a limited reward, whatever admins set meanwhile.
NeverNegative ==
  /\ \A u \in Users : points[u] >= 0
  /\ \A r \in Rewards : Limited(r) => stock[r] >= 0

\* Redemptions whose points are spent: all but the refunded ones.
Live == {k \in Keys : redemption[k].status \notin {"none", "cancelled", "rejected"}}

\* What a student has, or has spent and not got back.
Holding(u) ==
  LET spent == [k \in Keys |-> redemption[k].spent]
  IN points[u] + SumFunctionOnSet(spent, {k \in Live : KeyOwner[k] = u})

\* The units of a limited reward, on the shelf and handed out.
Units(r) == stock[r] + Cardinality({k \in Live : redemption[k].reward = r})

\* A refunded redemption comes back to life under a stale decision.
Revived(k) ==
  redemption[k].status = "rejected" /\ \E w \in Workers : job[w].key = k /\ StaleStamp(w)

\* A redemption never exists without its deduction and its unit, nor they
\* without it, and a refund gives back what was taken, once, though the price
\* may have changed since: through refusals, constraint errors, deadlocks, lost
\* connections and rewards that gain or lose their limit, the totals move only
\* when an admin sets a balance or a stock, and by the two defects above.
ResourcesConserved ==
  [][/\ \A u \in Users :
          \/ Holding(u)' = Holding(u)
          \/ \E w \in Admins, n \in Balances : PatchUser(w, u, n)
          \/ \E k \in Keys : KeyOwner[k] = u /\ Revived(k)
     /\ \A r \in Rewards : Limited(r) =>
          \/ \E w \in Admins : PatchReward(w, r)
          \/ Units(r)' = Units(r)
          \/ \E w \in Students : job[w].reward = r /\ UnreservedInsert(w)
          \/ \E k \in Keys : redemption[k].reward = r /\ Revived(k)]_vars

\* A code is consumed or cancelled once and for all, however many students and
\* admins act on it at the same time (mark_used against user_cancel_available).
CodeSettledOnce ==
  [][\A k \in Keys : redemption[k].status \in {"used", "cancelled"}
                       => redemption'[k] = redemption[k]]_vars

\* A client that is told no has not been charged for that key: a retry of a
\* redemption that went through gets the original back.
RetryReturnsOriginal ==
  [][\A k \in Keys : answer'[k] = "refused" /\ answer[k] # "refused"
                       => redemption[k] = NoRow]_vars

\* The marketplace keeps its contract although its transactions interleave: a
\* commit is one step of it, unless it is one of the two defects above.
KeepsContract ==
  /\ ContractInit
  /\ [][\/ ContractNext
        \/ \E w \in Workers : StaleStamp(w) \/ UnreservedInsert(w)
       ]_<<points, stock, redemption>>

\* Every transaction a worker starts ends, deadlocks included.
RequestEnds == \A w \in Workers : job[w].at # "idle" ~> job[w].at = "idle"
=============================================================================
