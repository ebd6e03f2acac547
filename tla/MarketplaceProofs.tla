-------------------------- MODULE MarketplaceProofs --------------------------
(***************************************************************************)
(* The balance the deposits and the marketplace share, for any number of   *)
(* students, deposits, redemptions and threads: it never goes below zero   *)
(* and never above what was earned and given back, although an award       *)
(* writes a balance it read long before and a redemption lets the database *)
(* subtract.                                                               *)
(*                                                                         *)
(* Each component's invariant is proved where the component is; what is    *)
(* left is that it survives the other component's steps.  The lemmas of    *)
(* DepositProofs and RewardProofs are cited as DP and RP, and expanded     *)
(* where they are cited: they hold under their modules' assumptions.       *)
(***************************************************************************)
EXTENDS Marketplace, TLAPS

DP == INSTANCE DepositProofs WITH job <- deposit
RP == INSTANCE RewardProofs WITH
        job <- request, Opening <- [u \in Users |-> 0], Balances <- {}

LEMMA DepositAssumed == DP!DepositAssumption
BY MarketAssumption
   DEF D!DepositAssumption, DP!DepositAssumption, D!NoPosition, DP!NoPosition,
       D!MachineStatus, DP!MachineStatus

LEMMA RewardAssumed == RP!RewardAssumption
BY MarketAssumption DEF R!RewardAssumption, RP!RewardAssumption, R!Workers, RP!Workers

\* The deposits composed here are the deposits proved about ...
LEMMA SameDeposits ==
  /\ D!Init <=> DP!Init
  /\ D!Next <=> DP!Next
  /\ D!Workers = DP!Workers
  /\ \A u : D!Earned(u) = DP!Earned(u)
<1>. USE DEF D!Workers, DP!Workers, D!Becomes, DP!Becomes, D!Finish, DP!Finish,
       D!Idle, DP!Idle, D!Job, DP!Job, D!NoPosition, DP!NoPosition, D!Open, DP!Open,
       D!MachineStatus, DP!MachineStatus, D!Terminal, DP!Terminal,
       D!Absent, DP!Absent, D!Verdict, DP!Verdict, D!NoWaste, DP!NoWaste,
       D!sessionVars, DP!sessionVars, D!awardVars, DP!awardVars
<1>1. D!Init <=> DP!Init
  BY DEF D!Init, DP!Init
<1>2. \A w : D!Create(w) <=> DP!Create(w)
  BY DEF D!Create, DP!Create, D!CreateCapture, DP!CreateCapture,
         D!CreateRouted, DP!CreateRouted, D!ToPublish, DP!ToPublish
<1>3. \A w : D!Publish(w) <=> DP!Publish(w)
  BY DEF D!Publish, DP!Publish
<1>4. \A w : D!Capture(w) <=> DP!Capture(w)
  BY DEF D!Capture, DP!Capture, D!CaptureLoad, DP!CaptureLoad,
         D!CaptureAnalyzing, DP!CaptureAnalyzing, D!CaptureRetake, DP!CaptureRetake,
         D!CaptureUnroutable, DP!CaptureUnroutable, D!CaptureTooLow, DP!CaptureTooLow,
         D!CaptureRouted, DP!CaptureRouted, D!WritePrediction, DP!WritePrediction,
         D!WriteStatus, DP!WriteStatus, D!ToPublish, DP!ToPublish
<1>5. /\ \A w, o : D!CancelLoad(w, o) <=> DP!CancelLoad(w, o)
      /\ \A w, o, t : D!PhaseLoad(w, o, t) <=> DP!PhaseLoad(w, o, t)
      /\ \A w : D!StatusCommit(w) <=> DP!StatusCommit(w)
  BY DEF D!CancelLoad, DP!CancelLoad, D!PhaseLoad, DP!PhaseLoad, D!Rank, DP!Rank,
         D!StatusCommit, DP!StatusCommit, D!Loaded, DP!Loaded,
         D!WriteStatus, DP!WriteStatus
<1>6. \A w : D!Complete(w) <=> DP!Complete(w)
  BY DEF D!Complete, DP!Complete, D!ResultLoad, DP!ResultLoad, D!Loaded, DP!Loaded,
         D!Events, DP!Events, D!PhysicallyValid, DP!PhysicallyValid,
         D!RejectCommit, DP!RejectCommit, D!Refused, DP!Refused,
         D!AwardCommit, DP!AwardCommit, D!BonusDue, DP!BonusDue, D!Upsert, DP!Upsert,
         D!Cardinality, DP!Cardinality, D!AwardAbort, DP!AwardAbort
<1>7. (\A o : D!Lapse(o) <=> DP!Lapse(o)) /\ (D!Restart <=> DP!Restart)
  BY DEF D!Lapse, DP!Lapse, D!Restart, DP!Restart
<1>8. D!Next <=> DP!Next
  BY <1>2, <1>3, <1>4, <1>5, <1>6, <1>7 DEF D!Next, DP!Next
<1>9. \A u : D!Earned(u) = DP!Earned(u)
  BY DEF D!Earned, DP!Earned, D!Cardinality, DP!Cardinality,
         D!SumFunctionOnSet, DP!SumFunctionOnSet, D!FoldFunctionOnSet,
         DP!FoldFunctionOnSet, D!MapThenFoldSet, DP!MapThenFoldSet
<1>. QED
  BY <1>1, <1>8, <1>9

\* ... and so are the redemptions.
LEMMA SameRedemptions ==
  /\ R!Init <=> RP!Init
  /\ R!Next <=> RP!Next
  /\ \A k : R!Revived(k) <=> RP!Revived(k)
  /\ \A u : Refunded(u) = RP!GivenBack(u)
<1>. USE DEF R!Workers, RP!Workers, R!Become, RP!Become, R!Advance, RP!Advance,
       R!Idle, RP!Idle, R!Job, RP!Job, R!NoRow, RP!NoRow, R!Row, RP!Row,
       R!Rows, RP!Rows, R!Lock, RP!Lock, R!Release, RP!Release,
       R!EndTransaction, RP!EndTransaction, R!Answer, RP!Answer, R!Refuse, RP!Refuse,
       R!ledger, RP!ledger, R!catalog, RP!catalog, R!SetStatus, RP!SetStatus,
       R!Limited, RP!Limited, R!StatusFor, RP!StatusFor, R!Categories, RP!Categories
<1>1. R!Init <=> RP!Init
  BY DEF R!Init, RP!Init
<1>2. \A w, k, r : R!RedeemStart(w, k, r) <=> RP!RedeemStart(w, k, r)
  BY DEF R!RedeemStart, RP!RedeemStart
<1>3. \A w, k : /\ R!ClaimCancel(w, k) <=> RP!ClaimCancel(w, k)
                /\ R!ClaimReject(w, k) <=> RP!ClaimReject(w, k)
                /\ R!MarkUsed(w, k) <=> RP!MarkUsed(w, k)
                /\ R!ApproveLoad(w, k) <=> RP!ApproveLoad(w, k)
                /\ R!FulfillLoad(w, k) <=> RP!FulfillLoad(w, k)
  BY DEF R!ClaimCancel, RP!ClaimCancel, R!ClaimReject, RP!ClaimReject, R!Claim, RP!Claim,
         R!MarkUsed, RP!MarkUsed, R!ApproveLoad, RP!ApproveLoad,
         R!FulfillLoad, RP!FulfillLoad, R!StampLoad, RP!StampLoad
<1>4. /\ \A w, r : R!PatchReward(w, r) <=> RP!PatchReward(w, r)
      /\ \A w, u, n : R!PatchUser(w, u, n) <=> RP!PatchUser(w, u, n)
  BY DEF R!PatchReward, RP!PatchReward, R!Edited, RP!Edited, R!PatchUser, RP!PatchUser
<1>5. \A w : R!Request(w) <=> RP!Request(w)
  BY <1>2, <1>3, <1>4 DEF R!Request, RP!Request
<1>6. \A w : R!Proceed(w) <=> RP!Proceed(w)
  BY DEF R!Proceed, RP!Proceed, R!Reserve, RP!Reserve, R!Deduct, RP!Deduct,
         R!Insert, RP!Insert, R!Grant, RP!Grant,
         R!RefundPoints, RP!RefundPoints, R!Restock, RP!Restock,
         R!GiveBack, RP!GiveBack, R!Stamp, RP!Stamp
<1>7. \A w : R!Abort(w) <=> RP!Abort(w)
  BY DEF R!Abort, RP!Abort
<1>8. R!Next <=> RP!Next
  BY <1>5, <1>6, <1>7 DEF R!Next, RP!Next
<1>9. \A u : Refunded(u) = RP!GivenBack(u)
  BY DEF Refunded, RP!GivenBack, RP!SpentBy, RP!Spends, RP!Back,
         SumFunctionOnSet, RP!SumFunctionOnSet, FoldFunctionOnSet,
         RP!FoldFunctionOnSet, MapThenFoldSet, RP!MapThenFoldSet
<1>10. \A k : R!Revived(k) <=> RP!Revived(k)
  BY DEF R!Revived, RP!Revived, R!StaleStamp, RP!StaleStamp, R!Stamp, RP!Stamp
<1>. QED
  BY <1>1, <1>8, <1>9, <1>10

-----------------------------------------------------------------------------
\* What each component needs of its own rows and threads.  RP!Inv has that
\* whoever is past the guarded UPDATE of a balance has it locked, and that it
\* still covers the price.
BalanceInv == DP!TypeOK /\ RP!Inv

LEMMA BalanceInit == Init => BalanceInv
BY DepositAssumed, RewardAssumed, SameDeposits, SameRedemptions, DP!InitType, RP!InvInit
   DEF Init, BalanceInv, DP!InitType, RP!InvInit

\* A deposit writes naturals into balances nobody has locked, so into none a
\* redemption counts on.
LEMMA DepositKeeps ==
  ASSUME BalanceInv, DepositStep
  PROVE  BalanceInv'
<1>1. DP!TypeOK'
  BY DepositAssumed, SameDeposits, DP!TypeStep DEF BalanceInv, DepositStep, DP!TypeStep
<1>2. points \in [Users -> Nat] /\ points' \in [Users -> Nat]
  BY <1>1 DEF BalanceInv, DP!TypeOK
<1>3. UNCHANGED <<stock, redemption, cost, active, category, holder, answer,
                  request>>
  BY DEF DepositStep, rewardVars
<1>4. RP!TypeOK' /\ RP!NeverNegative'
  BY <1>2, <1>3
     DEF BalanceInv, RP!Inv, RP!TypeOK, RP!NeverNegative, RP!NoRow, RP!Row, RP!CodeStatus,
         RP!CashStatus, RP!Rows, RP!Workers, RP!Jobs, RP!JobRecords, RP!Stage, RP!Target,
         RP!Limited, RP!Categories
<1>5. ASSUME NEW w \in RP!Workers
      PROVE  RP!InFlight(w)'
  <2>1. RP!HoldsBalance(w)'
    <3>. SUFFICES ASSUME request[w].at = "insert"
                  PROVE  LET u == KeyOwner[request[w].key]
                         IN holder[u] = w /\ points'[u] >= request[w].spent
      BY <1>3 DEF RP!HoldsBalance
    <3>. DEFINE u == KeyOwner[request[w].key]
    <3>1. u \in Users /\ holder[u] = w /\ points[u] >= request[w].spent /\ w # Free
      BY RewardAssumed
         DEF BalanceInv, RP!Inv, RP!TypeOK, RP!Jobs, RP!JobRecords, RP!RewardAssumption,
             RP!InFlight, RP!HoldsBalance
    <3>2. points'[u] = points[u]
      BY <3>1 DEF DepositStep
    <3>. QED
      BY <3>1, <3>2
  <2>2. RP!HoldsStock(w)' /\ RP!HoldsRow(w)' /\ RP!StampsCash(w)' /\ RP!InsertsNew(w)'
    BY <1>3
       DEF BalanceInv, RP!Inv, RP!InFlight, RP!HoldsStock, RP!HoldsRow, RP!StampsCash,
           RP!InsertsNew, RP!RefundTo, RP!CashStatus, RP!Limited
  <2>. QED
    BY <2>1, <2>2 DEF RP!InFlight
<1>. QED
  BY <1>1, <1>4, <1>5 DEF BalanceInv, RP!Inv, RP!Workers

\* A redemption or a refund leaves balances that are naturals.
LEMMA RewardKeeps ==
  ASSUME BalanceInv, RewardStep
  PROVE  BalanceInv'
<1>1. RP!Inv'
  BY RewardAssumed, SameRedemptions, RP!InvStep DEF BalanceInv, RewardStep, RP!InvStep
<1>2. points' \in [Users -> Nat]
  BY <1>1 DEF RP!Inv, RP!TypeOK, RP!NeverNegative
<1>3. UNCHANGED <<status, expected, potential, lapsed, waste, claimed, board, faculty,
                  commands, deposit>>
  BY DEF RewardStep, depositVars
<1>4. DP!TypeOK'
  BY <1>2, <1>3
     DEF BalanceInv, DP!TypeOK, DP!Workers, DP!Jobs, DP!JobRecords, DP!Stage, DP!Open,
         DP!Terminal, DP!MachineStatus, DP!Absent, DP!NoPosition
<1>. QED
  BY <1>1, <1>4 DEF BalanceInv

LEMMA BalanceStep == BalanceInv /\ [Next]_vars => BalanceInv'
<1>1. ASSUME BalanceInv, UNCHANGED vars
      PROVE  BalanceInv'
  <2>1. UNCHANGED <<status, expected, potential, lapsed, waste, points, claimed, board,
                    faculty, commands, deposit>>
    BY <1>1 DEF vars, depositVars
  <2>2. UNCHANGED <<points, stock, redemption, cost, active, category, holder, answer,
                  request>>
    BY <1>1 DEF vars, rewardVars
  <2>3. DP!TypeOK'
    BY <1>1, <2>1, DepositAssumed, DP!TypeStep
       DEF BalanceInv, DP!TypeStep, DP!vars, DP!sessionVars, DP!awardVars
  <2>4. RP!Inv'
    BY <1>1, <2>2, RewardAssumed, RP!InvStep DEF BalanceInv, RP!InvStep, RP!vars
  <2>. QED
    BY <2>3, <2>4 DEF BalanceInv
<1>. QED
  BY <1>1, DepositKeeps, RewardKeeps DEF Next

\* No balance is ever negative, whatever the order of awards, redemptions,
\* refunds, duplicates, crashes and restarts, for any number of students and
\* threads: the deduction is guarded on the row it locks, and an award writes
\* a balance that was read plus points that are not negative.
THEOREM BalanceNeverNegative == Spec => []NeverOverdrawn
<1>1. BalanceInv => NeverOverdrawn
  BY DEF BalanceInv, DP!TypeOK, NeverOverdrawn
<1>. QED
  BY <1>1, BalanceInit, BalanceStep, PTL DEF Spec

-----------------------------------------------------------------------------
\* Where points come from.

\* What a student's balance may be at the most, and it never shrinks: what a
\* decision written over a refund takes out of what was given back is overruled.
Credit(u) == DP!Earned(u) + RP!GivenBack(u) + overruled[u]

\* What was read is no more than that, for good, and so is what is written.
Covered ==
  /\ \A u \in Users : points[u] <= Credit(u)
  /\ \A w \in DP!Workers, u \in Users :
       deposit[w].at = "award" /\ u = Owner[deposit[w].op] => deposit[w].bal <= Credit(u)

CreditInv ==
  DP!EarnedInv /\ RP!BackInv /\ Covered /\ overruled \in [Users -> Nat]

LEMMA CreditFields ==
  ASSUME CreditInv
  PROVE  /\ BalanceInv
         /\ \A u \in Users : /\ DP!Earned(u) \in Nat /\ RP!GivenBack(u) \in Nat
                             /\ points[u] \in Nat /\ overruled[u] \in Nat
         /\ \A w \in DP!Workers : deposit[w].at = "award" =>
              Owner[deposit[w].op] \in Users /\ deposit[w].bal \in Nat
<1>1. BalanceInv
  BY DEF CreditInv, BalanceInv, DP!EarnedInv, RP!BackInv
<1>2. \A u \in Users : DP!Earned(u) \in Nat
  BY DepositAssumed, DP!PaidType DEF CreditInv, DP!PaidType
<1>3. \A u \in Users : RP!GivenBack(u) \in Nat
  BY RewardAssumed, RP!BackFields DEF CreditInv, RP!BackFields
<1>4. \A u \in Users : points[u] \in Nat
  BY <1>1 DEF BalanceInv, DP!TypeOK
<1>5. \A w \in DP!Workers : deposit[w].at = "award" =>
        Owner[deposit[w].op] \in Users /\ deposit[w].bal \in Nat
  BY <1>1, DepositAssumed, DP!JobFields
     DEF BalanceInv, DP!JobFields, DP!DepositAssumption
<1>. QED
  BY <1>1, <1>2, <1>3, <1>4, <1>5 DEF CreditInv

\* A deposit writes a balance it read plus what its student now earned more.
LEMMA DepositCredits ==
  ASSUME CreditInv, DepositStep
  PROVE  CreditInv'
<1>1. UNCHANGED <<stock, redemption, cost, active, category, holder, answer,
                  request>>
  BY DEF DepositStep, rewardVars
<1>2. /\ DP!EarnedInv'
      /\ \/ DP!Unawarded
         \/ \E w \in DP!Workers :
              deposit[w].at = "award" /\ DP!Awarded(w, Owner[deposit[w].op])
  BY DepositAssumed, SameDeposits, DP!EarnedStep
     DEF CreditInv, DepositStep, DP!EarnedStep
<1>3. RP!Inv'
  BY CreditFields, DepositKeeps DEF BalanceInv
<1>4. RP!BackInv'
  BY <1>1, <1>3
     DEF CreditInv, RP!BackInv, RP!Back
<1>5. overruled' = overruled /\ \A u : RP!GivenBack(u)' = RP!GivenBack(u)
  BY <1>1 DEF DepositStep, rewardVars, RP!GivenBack, RP!SpentBy, RP!Spends, RP!Back
<1>6. ASSUME DP!Unawarded
      PROVE  Covered'
  BY <1>5, <1>6, CreditFields DEF CreditInv, Covered, Credit, DP!Unawarded, DP!Workers
<1>7. ASSUME NEW w \in DP!Workers, deposit[w].at = "award", NEW u \in Users,
             u = Owner[deposit[w].op], DP!Awarded(w, u)
      PROVE  Covered'
  <2>1. PICK pts \in Nat, bonus \in {0, BonusPoints} :
          /\ DP!Earned(u)' = DP!Earned(u) + (pts + bonus)
          /\ \A x \in Users \ {u} : DP!Earned(x)' = DP!Earned(x)
          /\ points' = IF pts + bonus = 0 THEN points
                       ELSE [points EXCEPT ![u] = deposit[w].bal + (pts + bonus)]
          /\ DP!Finish(w)
    BY <1>7 DEF DP!Awarded
  <2>2. /\ deposit[w].bal \in Nat /\ bonus \in Nat
        /\ points \in [Users -> Nat] /\ deposit[w].bal <= Credit(u)
    BY <1>7, CreditFields, DepositAssumed
       DEF BalanceInv, DP!TypeOK, DP!DepositAssumption, CreditInv, Covered
  <2>3. \A x \in Users : Credit(x)' >= Credit(x) /\ Credit(x) \in Nat /\ Credit(x)' \in Nat
    BY <1>5, <2>1, <2>2, CreditFields DEF Credit
  <2>4. points'[u] <= Credit(u)'
    <3>1. Credit(u)' = Credit(u) + (pts + bonus) /\ Credit(u) \in Nat
      <4>1. DP!Earned(u) \in Nat /\ RP!GivenBack(u) \in Nat /\ overruled[u] \in Nat
        BY CreditFields
      <4>2. /\ DP!Earned(u)' = DP!Earned(u) + (pts + bonus)
            /\ RP!GivenBack(u)' = RP!GivenBack(u) /\ overruled'[u] = overruled[u]
        BY <1>5, <2>1
      <4>. QED
        BY <2>2, <4>1, <4>2 DEF Credit
    <3>2. points'[u] = points[u] \/ points'[u] = deposit[w].bal + (pts + bonus)
      BY <2>1, <2>2
    <3>3. points[u] <= Credit(u) /\ points[u] \in Nat
      BY <2>2 DEF CreditInv, Covered
    <3>. QED
      BY <2>2, <3>1, <3>2, <3>3
  <2>5. \A x \in Users \ {u} : points'[x] <= Credit(x)'
    <3>1. \A x \in Users \ {u} : points'[x] = points[x] /\ points[x] <= Credit(x)
      BY <2>1, <2>2 DEF CreditInv, Covered
    <3>. QED
      BY <2>2, <2>3, <3>1
  <2>6. \A v \in DP!Workers : deposit'[v].at = "award" => deposit'[v] = deposit[v]
    BY <2>1, CreditFields
       DEF BalanceInv, DP!TypeOK, DP!Finish, DP!Becomes, DP!Idle, DP!Job
  <2>7. ASSUME NEW v \in DP!Workers, NEW x \in Users, deposit'[v].at = "award",
               x = Owner[deposit'[v].op]
        PROVE  deposit'[v].bal <= Credit(x)'
    <3>1. deposit[v].bal <= Credit(x) /\ deposit[v].bal \in Nat
      BY <2>6, <2>7, CreditFields DEF CreditInv, Covered
    <3>. QED
      BY <2>3, <2>6, <2>7, <3>1
  <2>. QED
    BY <2>4, <2>5, <2>7 DEF Covered, DP!Workers
<1>8. ASSUME NEW w \in DP!Workers, deposit[w].at = "award"
      PROVE  Owner[deposit[w].op] \in Users
  BY <1>8, CreditFields
<1>. QED
  BY <1>2, <1>4, <1>5, <1>6, <1>7, <1>8 DEF CreditInv

\* A redemption adds to a balance no more than it gives back, and a decision
\* written over a refund moves it from what was given back to what is overruled.
LEMMA RewardCredits ==
  ASSUME CreditInv, RewardStep
  PROVE  CreditInv'
<1>1. UNCHANGED <<status, expected, potential, lapsed, waste, claimed, board, faculty,
                  commands, deposit>>
  BY DEF RewardStep, depositVars
<1>2. RP!BackInv'
  BY RewardAssumed, SameRedemptions, RP!BackStep DEF CreditInv, RewardStep, RP!BackStep
<1>9. ASSUME NEW u \in Users
      PROVE  /\ overruled' \in [Users -> Nat] /\ RP!GivenBack(u)' \in Nat
             /\ RP!GivenBack(u)' + overruled'[u] >= RP!GivenBack(u) + overruled[u]
             /\ points'[u] - points[u]
                  <= (RP!GivenBack(u)' + overruled'[u]) - (RP!GivenBack(u) + overruled[u])
  <2>0. /\ overruled \in [Users -> Nat] /\ RP!GivenBack(u) \in Nat
        /\ points[u] \in Nat
    BY CreditFields DEF CreditInv
  <2>1. CASE \E k \in Keys : R!Revived(k)
    <3>1. PICK k \in Keys :
            /\ R!Revived(k)
            /\ overruled' = [overruled EXCEPT ![KeyOwner[k]] = @ + redemption[k].spent]
      BY <2>1 DEF RewardStep, Overrule
    <3>2. PICK w \in RP!Workers : request[w].key = k /\ RP!StaleStamp(w)
      BY <3>1, SameRedemptions DEF RP!Revived
    <3>3. /\ RP!Revived(k) /\ RP!Reversed(k)
          /\ KeyOwner[k] # u => RP!Repaid(u)
      BY <3>1, <3>2, SameRedemptions, RewardAssumed, RP!StaleRepays
         DEF CreditInv, RP!StaleRepays
    <3>4. KeyOwner[k] \in Users /\ redemption[k].spent \in Nat
      BY <3>3, RewardAssumed DEF RP!Reversed, RP!RewardAssumption
    <3>5. /\ overruled' \in [Users -> Nat]
          /\ overruled'[u] = IF KeyOwner[k] = u THEN overruled[u] + redemption[k].spent
                             ELSE overruled[u]
      BY <2>0, <3>1, <3>4
    <3>6. CASE KeyOwner[k] = u
      <4>1. /\ RP!GivenBack(u)' \in Nat /\ points'[u] = points[u]
            /\ RP!GivenBack(u) = RP!GivenBack(u)' + redemption[k].spent
        BY <3>3, <3>6 DEF RP!Reversed
      <4>2. overruled[u] \in Nat /\ overruled'[u] = overruled[u] + redemption[k].spent
        BY <2>0, <3>5, <3>6
      <4>3. /\ RP!GivenBack(u)' + overruled'[u] = RP!GivenBack(u) + overruled[u]
            /\ points'[u] - points[u] = 0
        BY <2>0, <3>4, <4>1, <4>2
      <4>4. RP!GivenBack(u) + overruled[u] \in Nat
        BY <2>0
      <4>. QED
        BY <3>5, <4>1, <4>3, <4>4
    <3>7. CASE KeyOwner[k] # u
      <4>1. /\ RP!GivenBack(u)' \in Nat /\ RP!GivenBack(u)' >= RP!GivenBack(u)
            /\ points'[u] - points[u] <= RP!GivenBack(u)' - RP!GivenBack(u)
        BY <3>3, <3>7 DEF RP!Repaid
      <4>2. overruled[u] \in Nat /\ overruled'[u] = overruled[u]
        BY <2>0, <3>5, <3>7
      <4>. QED
        BY <2>0, <3>5, <4>1, <4>2
    <3>. QED
      BY <3>6, <3>7
  <2>2. CASE ~\E k \in Keys : R!Revived(k)
    <3>1. RP!Repaid(u)
      BY <2>2, RewardAssumed, SameRedemptions, RP!BackStep
         DEF CreditInv, RewardStep, RP!BackStep
    <3>2. /\ RP!GivenBack(u)' \in Nat /\ RP!GivenBack(u)' >= RP!GivenBack(u)
          /\ points'[u] - points[u] <= RP!GivenBack(u)' - RP!GivenBack(u)
      BY <3>1 DEF RP!Repaid
    <3>3. overruled' = overruled
      BY <2>2 DEF RewardStep
    <3>. QED
      BY <2>0, <3>2, <3>3
  <2>. QED
    BY <2>1, <2>2
<1>10. overruled' \in [Users -> Nat]
  <2>1. CASE Users = {}
    BY <2>1, CreditFields DEF CreditInv, RewardStep, Overrule
  <2>. QED
    BY <1>9, <2>1
<1>3. BalanceInv'
  BY CreditFields, RewardKeeps
<1>4. DP!EarnedInv'
  BY <1>1, <1>3
     DEF BalanceInv, CreditInv, DP!EarnedInv, DP!AwardChecked, DP!ClaimedInTime, DP!Confirmed,
         DP!Counted, DP!Paid, DP!Workers, DP!NoPosition
<1>5. \A u : DP!Earned(u)' = DP!Earned(u)
  BY <1>1 DEF DP!Earned
<1>6. ASSUME NEW u \in Users
      PROVE  Credit(u)' >= Credit(u) /\ Credit(u) \in Nat /\ points'[u] <= Credit(u)'
             /\ Credit(u)' \in Nat
  <2>1. points[u] \in Nat /\ points'[u] \in Nat /\ overruled'[u] \in Nat
    BY <1>3, <1>10, CreditFields DEF BalanceInv, DP!TypeOK
  <2>2. /\ points[u] <= DP!Earned(u) + RP!GivenBack(u) + overruled[u]
        /\ DP!Earned(u) \in Nat /\ RP!GivenBack(u) \in Nat /\ overruled[u] \in Nat
    BY CreditFields DEF CreditInv, Covered, Credit
  <2>. QED
    BY <1>5, <1>9, <2>1, <2>2 DEF Credit
<1>7. ASSUME NEW w \in DP!Workers, NEW u \in Users, deposit[w].at = "award",
             u = Owner[deposit[w].op]
      PROVE  deposit[w].bal <= Credit(u)'
  <2>1. deposit[w].bal <= Credit(u) /\ deposit[w].bal \in Nat
    BY <1>7, CreditFields DEF CreditInv, Covered
  <2>. QED
    BY <1>6, <2>1
<1>8. Covered'
  BY <1>1, <1>6, <1>7 DEF Covered, DP!Workers
<1>. QED
  BY <1>2, <1>4, <1>8, <1>10 DEF CreditInv

LEMMA CreditInit == Init => CreditInv
<1>. SUFFICES ASSUME Init
              PROVE  CreditInv
  OBVIOUS
<1>1. DP!EarnedInv /\ \A u \in Users : DP!Earned(u) = 0
  BY DepositAssumed, SameDeposits, DP!EarnedInit DEF Init, DP!EarnedInit
<1>2. RP!BackInv /\ \A u : RP!GivenBack(u) = 0
  BY RewardAssumed, SameRedemptions, RP!BackInit DEF Init, RP!BackInit
<1>3. /\ \A u \in Users : points[u] = 0
      /\ overruled = [u \in Users |-> 0]
      /\ \A w \in DP!Workers : deposit[w].at # "award"
  BY SameDeposits DEF Init, DP!Init, DP!Idle, DP!Job
<1>. QED
  BY <1>1, <1>2, <1>3 DEF CreditInv, Covered, Credit

LEMMA CreditStep == CreditInv /\ [Next]_vars => CreditInv'
<1>1. ASSUME CreditInv, UNCHANGED vars
      PROVE  CreditInv'
  <2>1. UNCHANGED <<status, expected, potential, lapsed, waste, points, claimed, board,
                    faculty, commands, deposit>>
    BY <1>1 DEF vars, depositVars
  <2>2. UNCHANGED <<points, stock, redemption, cost, active, category, holder, answer,
                  request>>
    BY <1>1 DEF vars, rewardVars
  <2>3. BalanceInv'
    BY <1>1, CreditFields, BalanceStep
  <2>4. DP!EarnedInv' /\ \A u : DP!Earned(u)' = DP!Earned(u)
    BY <1>1, <2>1, <2>3
       DEF BalanceInv, CreditInv, DP!EarnedInv, DP!AwardChecked, DP!ClaimedInTime,
           DP!Confirmed, DP!Counted, DP!Paid, DP!Workers, DP!NoPosition, DP!Earned
  <2>5. RP!BackInv' /\ \A u : RP!GivenBack(u)' = RP!GivenBack(u)
    BY <1>1, <2>2, <2>3
       DEF BalanceInv, CreditInv, RP!BackInv, RP!Back, RP!GivenBack, RP!SpentBy, RP!Spends
  <2>6. overruled' = overruled
    BY <1>1 DEF vars, rewardVars
  <2>. QED
    BY <1>1, <2>1, <2>4, <2>5, <2>6 DEF CreditInv, Covered, Credit, DP!Workers
<1>. QED
  BY <1>1, DepositCredits, RewardCredits DEF Next

\* Nobody is credited with more than confirmed deposits, the challenge once,
\* refunds and the refunds paid out again account for: for any number of
\* students, deposits, redemptions, admins and threads, however events are
\* duplicated and awards, redemptions and decisions overlap.
THEOREM NothingFromNothing == Spec => []NoPointsFromNothing
<1>1. CreditInv => NoPointsFromNothing
  BY SameDeposits, SameRedemptions DEF CreditInv, Covered, Credit, NoPointsFromNothing
<1>. QED
  BY <1>1, CreditInit, CreditStep, PTL DEF Spec
=============================================================================
