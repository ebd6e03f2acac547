----------------------------- MODULE RewardProofs -----------------------------
(***************************************************************************)
(* Theorems about RewardLedger for every catalog, every set of keys and    *)
(* every number of student and admin threads: nothing goes negative, a     *)
(* code is settled once, the interleaved transactions implement            *)
(* RewardContract but for the two defects RewardLedger names, and the      *)
(* totals move by nothing else.                                            *)
(***************************************************************************)
EXTENDS RewardLedger, SumProofs

\* What a transaction in flight can rely on.  A unit it reserved is of a reward
\* that is locked and still limited and in stock, a balance it deducts from is
\* locked and still covers the price, a row it refunds is locked and still
\* refundable, a decision it will stamp is about a cash payout, and what a
\* student's request inserts is new.
HoldsStock(w) ==
  job[w].at \in {"deduct", "insert"} /\ job[w].unit =>
    LET r == job[w].reward
    IN holder[r] = w /\ Limited(r) /\ stock[r] > 0

HoldsBalance(w) ==
  job[w].at = "insert" =>
    LET u == KeyOwner[job[w].key]
    IN holder[u] = w /\ points[u] >= job[w].spent

HoldsRow(w) ==
  job[w].at \in {"refund", "restock"} =>
    LET k == job[w].key
    IN /\ holder[k] = w
       /\ redemption[k].status \in DOMAIN RefundTo
       /\ job[w].target = RefundTo[redemption[k].status]

StampsCash(w) ==
  job[w].at = "stamp" =>
    /\ redemption[job[w].key].status \in CashStatus
    /\ job[w].target \in {"approved", "fulfilled"}

InsertsNew(w) ==
  job[w].at \in {"reserve", "deduct", "insert"} =>
    w \in Students /\ job[w].target \in {"available", "pending"}

InFlight(w) ==
  HoldsStock(w) /\ HoldsBalance(w) /\ HoldsRow(w) /\ StampsCash(w) /\ InsertsNew(w)

Inv == TypeOK /\ NeverNegative /\ \A w \in Workers : InFlight(w)

-----------------------------------------------------------------------------
\* Types of the parts an action changes.

\* The records the actions build are jobs.
LEMMA JobType ==
  ASSUME NEW stage \in Stage, NEW k \in Keys, NEW r \in Rewards, NEW n \in Nat,
         NEW s \in Target
  PROVE  Job(stage, k, r, n, s) \in Jobs
BY DEF Job, Jobs, JobRecords

\* So is the record of an idle thread.
LEMMA IdleType == Idle \in Jobs /\ Idle.at = "idle"
BY DEF Idle, Job, Jobs, JobRecords, Stage, Target

\* The fields of a job in flight.
LEMMA JobFields ==
  ASSUME TypeOK, NEW w \in Workers
  PROVE  /\ job[w].at \in Stage
         /\ job[w].at # "idle" => /\ job[w].key \in Keys
                                  /\ job[w].reward \in Rewards
                                  /\ KeyOwner[job[w].key] \in Users
         /\ job[w].spent \in Nat
         /\ job[w].target \in Target /\ job[w].unit \in BOOLEAN
BY RewardAssumption DEF TypeOK, Jobs, JobRecords

\* A thread that takes on a job leaves the others theirs.
LEMMA BecomeType ==
  ASSUME TypeOK, NEW w \in Workers, NEW j \in Jobs, Become(w, j)
  PROVE  /\ job' \in [Workers -> Jobs]
         /\ job'[w] = j
         /\ \A v \in Workers \ {w} : job'[v] = job[v]
BY DEF TypeOK, Become

\* The next stage of a job keeps the rest of it.
LEMMA AdvanceType ==
  ASSUME TypeOK, NEW w \in Workers, job[w].at # "idle", NEW stage \in Stage,
         Advance(w, stage)
  PROVE  /\ job' \in [Workers -> Jobs]
         /\ job'[w].at = stage /\ job'[w].key = job[w].key
         /\ job'[w].reward = job[w].reward /\ job'[w].spent = job[w].spent
         /\ job'[w].target = job[w].target /\ job'[w].unit = job[w].unit
         /\ \A v \in Workers \ {w} : job'[v] = job[v]
<1>. DEFINE j == [job[w] EXCEPT !.at = stage]
<1>1. /\ j \in Jobs
      /\ j.at = stage /\ j.key = job[w].key /\ j.reward = job[w].reward
      /\ j.spent = job[w].spent /\ j.target = job[w].target /\ j.unit = job[w].unit
  BY JobFields DEF TypeOK, Jobs, JobRecords
<1>2. Become(w, j)
  BY DEF Advance
<1>. HIDE DEF j
<1>. QED
  BY <1>1, <1>2, BecomeType

\* So does the reservation's, with its unit.
LEMMA ReservedType ==
  ASSUME TypeOK, NEW w \in Workers, job[w].at # "idle",
         Become(w, [job[w] EXCEPT !.at = "deduct", !.unit = TRUE])
  PROVE  /\ job' \in [Workers -> Jobs]
         /\ job'[w].at = "deduct" /\ job'[w].reward = job[w].reward
         /\ job'[w].target = job[w].target /\ job'[w].unit
         /\ \A v \in Workers \ {w} : job'[v] = job[v]
<1>. DEFINE j == [job[w] EXCEPT !.at = "deduct", !.unit = TRUE]
<1>1. /\ j \in Jobs
      /\ j.at = "deduct" /\ j.reward = job[w].reward
      /\ j.target = job[w].target /\ j.unit
  <2>1. job[w] \in JobRecords /\ job[w].key \in Keys /\ job[w].reward \in Rewards
    BY JobFields DEF TypeOK, Jobs
  <2>2. j \in JobRecords /\ j.at = "deduct" /\ j.key = job[w].key /\ j.unit = TRUE
        /\ j.reward = job[w].reward /\ j.target = job[w].target
    BY <2>1 DEF JobRecords, Stage
  <2>. QED
    BY <2>1, <2>2 DEF Jobs
<1>2. Become(w, j)
  OBVIOUS
<1>. HIDE DEF j
<1>. QED
  BY <1>1, <1>2, BecomeType

\* A lock taken is the thread's, and no other lock moves.
LEMMA LockType ==
  ASSUME TypeOK, NEW w \in Workers, NEW x \in Rows, Lock(w, x)
  PROVE  /\ holder' \in [Rows -> Workers \cup {Free}]
         /\ holder'[x] = w /\ holder[x] = Free
         /\ \A y \in Rows \ {x} : holder'[y] = holder[y]
BY DEF TypeOK, Lock

\* The end of a transaction frees its locks and nobody else's.
LEMMA EndType ==
  ASSUME TypeOK, NEW w \in Workers, EndTransaction(w)
  PROVE  /\ job' \in [Workers -> Jobs]
         /\ job'[w].at = "idle"
         /\ \A v \in Workers \ {w} : job'[v] = job[v]
         /\ holder' \in [Rows -> Workers \cup {Free}]
         /\ \A x \in Rows, v \in Workers \ {w} : holder[x] = v => holder'[x] = v
<1>1. /\ job' \in [Workers -> Jobs] /\ job'[w].at = "idle"
      /\ \A v \in Workers \ {w} : job'[v] = job[v]
  BY IdleType, BecomeType DEF EndTransaction
<1>2. /\ holder' \in [Rows -> Workers \cup {Free}]
      /\ \A x \in Rows, v \in Workers \ {w} : holder[x] = v => holder'[x] = v
  BY DEF EndTransaction, Release, TypeOK
<1>. QED
  BY <1>1, <1>2

\* A row that exists has a reward and a price, and one of the two kinds of status.
LEMMA RowFields ==
  ASSUME TypeOK, NEW k \in Keys, redemption[k].status # "none"
  PROVE  /\ redemption[k].reward \in Rewards /\ redemption[k].spent \in Nat
         /\ redemption[k].status \in CodeStatus \cup CashStatus
         /\ redemption[k] # NoRow
BY RewardAssumption DEF TypeOK, NoRow, Row

\* A status of its own kind keeps the row typed.
LEMMA SetStatusType ==
  ASSUME TypeOK, NEW k \in Keys, redemption[k].status # "none", NEW s,
         \/ s \in CashStatus /\ redemption[k].status \in CashStatus
         \/ s \in CodeStatus /\ redemption[k].status \in CodeStatus,
         SetStatus(k, s)
  PROVE  /\ redemption' \in [Keys -> {NoRow}
                       \cup [status: CodeStatus \cup CashStatus, reward: Rewards, spent: Nat]]
         /\ redemption'[k].status = s
         /\ redemption'[k].reward = redemption[k].reward
         /\ redemption'[k].spent = redemption[k].spent
         /\ \A q \in Keys \ {k} : redemption'[q] = redemption[q]
<1>2. Row(s, redemption[k].reward, redemption[k].spent) \in
        [status: CodeStatus \cup CashStatus, reward: Rewards, spent: Nat]
  BY RowFields DEF Row
<1>3. redemption' = [redemption EXCEPT ![k] =
                       Row(s, redemption[k].reward, redemption[k].spent)]
  BY DEF SetStatus
<1>. QED
  BY <1>2, <1>3 DEF TypeOK, Row

-----------------------------------------------------------------------------
\* What one thread's step must leave to another thread in flight.

Respects(v) ==
  /\ job'[v] = job[v]
  /\ \A x \in Rows : holder[x] = v => holder'[x] = v
  /\ \A r \in Rewards : holder[r] = v => stock'[r] = stock[r]
  /\ \A u \in Users : holder[u] = v => points'[u] = points[u]
  /\ \A k \in Keys : holder[k] = v => redemption'[k] = redemption[k]
  /\ \A k \in Keys : redemption[k].status \in CashStatus
                       => redemption'[k].status \in CashStatus

\* A thread so respected stays in flight.
LEMMA RespectedInFlight ==
  ASSUME TypeOK, NEW v \in Workers, InFlight(v), Respects(v)
  PROVE  InFlight(v)'
<1>1. job'[v] = job[v] /\ (job[v].at # "idle" =>
        /\ job[v].key \in Keys /\ job[v].reward \in Rewards
        /\ KeyOwner[job[v].key] \in Users)
  BY JobFields DEF Respects
<1>2. HoldsStock(v)'
  BY <1>1 DEF InFlight, HoldsStock, Limited, Respects, Rows
<1>3. HoldsBalance(v)'
  BY <1>1 DEF InFlight, HoldsBalance, Respects, Rows
<1>4. HoldsRow(v)'
  BY <1>1 DEF InFlight, HoldsRow, Respects, Rows
<1>5. StampsCash(v)'
  BY <1>1 DEF InFlight, StampsCash, Respects
<1>6. InsertsNew(v)'
  BY <1>1 DEF InFlight, InsertsNew
<1>. QED
  BY <1>2, <1>3, <1>4, <1>5, <1>6 DEF InFlight

\* An idle thread relies on nothing.
LEMMA IdleInFlight ==
  ASSUME NEW v \in Workers, job'[v].at = "idle"
  PROVE  InFlight(v)'
BY DEF InFlight, HoldsStock, HoldsBalance, HoldsRow, StampsCash, InsertsNew

\* A transaction that ends without writing respects everybody and leaves the
\* rows as they were.
LEMMA RollbackStep ==
  ASSUME Inv, NEW w \in Workers, EndTransaction(w), UNCHANGED <<ledger, catalog>>,
         answer' \in [Keys -> {"none", "redeemed", "refused"}]
  PROVE  Inv'
<1>1. TypeOK'
  BY EndType DEF Inv, TypeOK, ledger, catalog
<1>2. \A v \in Workers : InFlight(v)'
  <2>1. InFlight(w)'
    BY EndType, IdleInFlight DEF Inv
  <2>2. \A v \in Workers \ {w} : Respects(v)
    BY EndType DEF Inv, Respects, ledger
  <2>. QED
    BY <2>1, <2>2, RespectedInFlight DEF Inv
<1>. QED
  BY <1>1, <1>2 DEF Inv, NeverNegative, Limited, ledger

-----------------------------------------------------------------------------
\* redeem keeps Inv.

\* A request that is answered at once, or starts, touches no row.
LEMMA StartStep ==
  ASSUME Inv, NEW w \in Workers, NEW k \in Keys, NEW r \in Rewards,
         RedeemStart(w, k, r)
  PROVE  Inv'
<1>1. PICK j \in Jobs :
        /\ Become(w, j) /\ j.at \in {"idle", "reserve", "deduct"}
        /\ j.at # "idle" => w \in Students /\ ~j.unit /\ j.target \in {"available", "pending"}
  <2>. DEFINE stage == IF Limited(r) THEN "reserve" ELSE "deduct"
              j == Job(stage, k, r, cost[r], StatusFor(r))
  <2>1. stage \in Stage /\ StatusFor(r) \in Target /\ cost[r] \in Nat
    BY DEF Inv, TypeOK, Stage, Target, StatusFor
  <2>2. j \in Jobs
    BY <2>1, JobType
  <2>3. /\ j.at \in {"reserve", "deduct"} /\ ~j.unit
        /\ j.target \in {"available", "pending"}
    BY DEF Job, StatusFor
  <2>4. job[w] \in Jobs /\ (UNCHANGED job => Become(w, job[w]))
    BY DEF Inv, TypeOK, Become
  <2>5. job[w].at = "idle" /\ w \in Students /\ (Become(w, j) \/ UNCHANGED job)
    BY DEF RedeemStart
  <2>. HIDE DEF j
  <2>. QED
    BY <2>2, <2>3, <2>4, <2>5
<1>2. answer' \in [Keys -> {"none", "redeemed", "refused"}]
  BY DEF RedeemStart, Answer, Inv, TypeOK
<1>3. UNCHANGED <<ledger, catalog, holder>>
  BY DEF RedeemStart
<1>4. TypeOK'
  BY <1>1, <1>2, <1>3, BecomeType DEF Inv, TypeOK, ledger, catalog
<1>5. InFlight(w)'
  BY <1>1, BecomeType
     DEF Inv, InFlight, HoldsStock, HoldsBalance, HoldsRow, StampsCash, InsertsNew
<1>6. \A v \in Workers \ {w} : InFlight(v)'
  <2>1. \A v \in Workers \ {w} : Respects(v)
    BY <1>1, <1>3, BecomeType DEF Inv, Respects, ledger
  <2>. QED
    BY <2>1, RespectedInFlight DEF Inv
<1>. QED
  BY <1>3, <1>4, <1>5, <1>6 DEF Inv, NeverNegative, Limited, ledger

\* A step that only takes a lock and moves on keeps Inv when the thread then
\* holds what its new stage relies on.
LEMMA LockStep ==
  ASSUME Inv, NEW w \in Workers, job[w].at # "idle", NEW stage \in Stage,
         Advance(w, stage), UNCHANGED <<ledger, catalog, answer>>,
         \/ UNCHANGED holder
         \/ \E x \in Rows : Lock(w, x),
         InFlight(w)'
  PROVE  Inv'
<1>1. /\ holder' \in [Rows -> Workers \cup {Free}]
      /\ \A x \in Rows, v \in Workers \ {w} : holder[x] = v => holder'[x] = v
  BY LockType, RewardAssumption DEF Inv, TypeOK
<1>2. TypeOK'
  BY <1>1, AdvanceType DEF Inv, TypeOK, ledger, catalog
<1>3. \A v \in Workers \ {w} : InFlight(v)'
  <2>1. \A v \in Workers \ {w} : Respects(v)
    BY <1>1, AdvanceType DEF Inv, Respects, ledger
  <2>. QED
    BY <2>1, RespectedInFlight DEF Inv
<1>. QED
  BY <1>2, <1>3 DEF Inv, NeverNegative, Limited, ledger

\* A refusal rolls back.
LEMMA RefuseStep ==
  ASSUME Inv, NEW w \in Workers, job[w].at # "idle", Refuse(w)
  PROVE  Inv'
<1>1. answer' \in [Keys -> {"none", "redeemed", "refused"}]
  BY JobFields DEF Inv, TypeOK, Refuse, Answer
<1>. QED
  BY <1>1, RollbackStep DEF Refuse

\* The reservation keeps a unit for whoever wins it.
LEMMA ReserveStep ==
  ASSUME Inv, NEW w \in Workers, Reserve(w)
  PROVE  Inv'
<1>. DEFINE r == job[w].reward
<1>0. /\ job[w].at = "reserve" /\ r \in Rewards /\ r \in Rows /\ w \in Students
      /\ job[w].target \in {"available", "pending"}
  BY JobFields DEF Reserve, Inv, Stage, Rows, InFlight, InsertsNew
<1>1. CASE Limited(r) /\ stock[r] > 0
  <2>1. /\ Lock(w, r) /\ Become(w, [job[w] EXCEPT !.at = "deduct", !.unit = TRUE])
        /\ UNCHANGED <<ledger, catalog, answer>>
    BY <1>1 DEF Reserve
  <2>2. /\ job' \in [Workers -> Jobs]
        /\ job'[w].at = "deduct" /\ job'[w].reward = r /\ job'[w].unit
        /\ job'[w].target = job[w].target
        /\ \A v \in Workers \ {w} : job'[v] = job[v]
    BY <1>0, <2>1, ReservedType DEF Inv
  <2>3. /\ holder' \in [Rows -> Workers \cup {Free}] /\ holder'[r] = w
        /\ \A x \in Rows, v \in Workers \ {w} : holder[x] = v => holder'[x] = v
    BY <1>0, <2>1, LockType, RewardAssumption DEF Inv
  <2>4. InFlight(w)'
    BY <1>0, <1>1, <2>1, <2>2, <2>3 DEF InFlight, HoldsStock, HoldsBalance, HoldsRow,
                                        StampsCash, InsertsNew, Limited, ledger
  <2>5. \A v \in Workers \ {w} : InFlight(v)'
    <3>1. \A v \in Workers \ {w} : Respects(v)
      BY <2>1, <2>2, <2>3 DEF Respects, ledger
    <3>. QED
      BY <3>1, RespectedInFlight DEF Inv
  <2>6. TypeOK' /\ NeverNegative'
    BY <2>1, <2>2, <2>3 DEF Inv, TypeOK, NeverNegative, Limited, ledger, catalog
  <2>. QED
    BY <2>4, <2>5, <2>6 DEF Inv
<1>2. CASE ~(Limited(r) /\ stock[r] > 0)
  BY <1>0, <1>2, RefuseStep DEF Reserve
<1>. QED
  BY <1>1, <1>2

\* The balance guard keeps the price for whoever passes it.
LEMMA DeductStep ==
  ASSUME Inv, NEW w \in Workers, Deduct(w)
  PROVE  Inv'
<1>. DEFINE u == KeyOwner[job[w].key]
<1>0. job[w].at = "deduct" /\ u \in Users /\ "insert" \in Stage
      /\ job[w].reward \in Rewards /\ u \in Rows /\ job[w].reward \in Rows
  BY JobFields DEF Deduct, Inv, Stage, Rows
<1>1. CASE points[u] >= job[w].spent
  <2>1. /\ Lock(w, u) /\ Advance(w, "insert")
        /\ UNCHANGED <<ledger, catalog, answer>>
    BY <1>1 DEF Deduct
  <2>2. /\ job'[w].at = "insert" /\ job'[w].key = job[w].key
        /\ job'[w].spent = job[w].spent /\ job'[w].reward = job[w].reward
        /\ job'[w].target = job[w].target /\ job'[w].unit = job[w].unit
        /\ holder'[u] = w
        /\ \A y \in Rows : holder[y] = w => holder'[y] = w
    BY <1>0, <2>1, AdvanceType, LockType, RewardAssumption DEF Inv
  <2>3. HoldsStock(w)'
    BY <1>0, <2>1, <2>2 DEF Inv, InFlight, HoldsStock, Limited, ledger
  <2>4. HoldsBalance(w)'
    BY <1>1, <2>1, <2>2 DEF HoldsBalance, ledger
  <2>5. InFlight(w)'
    BY <1>0, <2>2, <2>3, <2>4 DEF Inv, InFlight, HoldsRow, StampsCash, InsertsNew
  <2>. QED
    BY <1>0, <2>1, <2>5, LockStep
<1>2. CASE ~(points[u] >= job[w].spent)
  BY <1>0, <1>2, RefuseStep DEF Deduct
<1>. QED
  BY <1>1, <1>2

\* The INSERT commits the deduction its transaction can rely on.
LEMMA InsertStep ==
  ASSUME Inv, NEW w \in Workers, Insert(w)
  PROVE  Inv'
<1>. DEFINE k == job[w].key
            r == job[w].reward
            n == job[w].spent
            u == KeyOwner[k]
<1>0. /\ job[w].at = "insert" /\ k \in Keys /\ r \in Rewards /\ u \in Users
      /\ n \in Nat /\ u \in Rows /\ r \in Rows
      /\ holder[u] = w /\ points[u] >= n
      /\ job[w].unit => holder[r] = w /\ Limited(r) /\ stock[r] > 0
      /\ job[w].target \in {"available", "pending"}
      /\ EndTransaction(w) /\ UNCHANGED catalog
  BY JobFields DEF Insert, Inv, Rows, InFlight, HoldsStock, HoldsBalance, InsertsNew
<1>1. answer' \in [Keys -> {"none", "redeemed", "refused"}]
  BY <1>0 DEF Insert, Answer, Inv, TypeOK
<1>2. CASE redemption[k] = NoRow
  <2>1. Grant(k, r, n, job[w].target, job[w].unit)
    BY <1>2 DEF Insert
  <2>2. Row(job[w].target, r, n) \in
          [status: CodeStatus \cup CashStatus, reward: Rewards, spent: Nat]
    BY <1>0 DEF Row, CodeStatus, CashStatus
  <2>3. redemption' = [redemption EXCEPT ![k] = Row(job[w].target, r, n)]
    BY <2>1 DEF Grant
  <2>4. /\ points' \in [Users -> Int] /\ points'[u] >= 0
        /\ \A q \in Users \ {u} : points'[q] = points[q]
    BY <1>0, <2>1 DEF Grant, Inv, TypeOK
  <2>5. /\ stock' \in [Rewards -> Int \cup {Null}]
        /\ stock'[r] # Null => stock'[r] >= 0
        /\ \A q \in Rewards : q # r \/ ~job[w].unit => stock'[q] = stock[q]
    <3>1. stock[r] \in Int \cup {Null} /\ (Limited(r) => stock[r] >= 0)
      BY <1>0 DEF Inv, TypeOK, NeverNegative
    <3>2. CASE job[w].unit
      <4>1. stock' = [stock EXCEPT ![r] = stock[r] - 1] /\ stock[r] \in Int /\ stock[r] > 0
        BY <1>0, <2>1, <3>1, <3>2 DEF Grant, Limited
      <4>. QED
        BY <1>0, <3>2, <4>1 DEF Inv, TypeOK, Limited
    <3>3. CASE ~job[w].unit
      BY <1>0, <2>1, <3>1, <3>3 DEF Grant, Inv, TypeOK, Limited
    <3>. QED
      BY <3>2, <3>3
  <2>. HIDE DEF k, r, n, u
  <2>6. TypeOK'
    BY <1>0, <1>1, <2>2, <2>3, <2>4, <2>5, EndType DEF Inv, TypeOK, catalog
  <2>7. NeverNegative'
    BY <1>0, <2>4, <2>5 DEF Inv, NeverNegative, Limited
  <2>8. InFlight(w)'
    BY <1>0, EndType, IdleInFlight DEF Inv
  <2>9. ASSUME NEW v \in Workers \ {w}
        PROVE  InFlight(v)'
    <3>1. InFlight(v) /\ job'[v] = job[v]
      BY <1>0, EndType DEF Inv
    <3>2. /\ \A x \in Rows : holder[x] = v => holder'[x] = v
          /\ \A q \in Rewards : holder[q] = v => stock'[q] = stock[q]
          /\ \A q \in Users : holder[q] = v => points'[q] = points[q]
      BY <1>0, <2>4, <2>5, EndType DEF Inv
    <3>3. /\ \A q \in Keys \ {k} : redemption'[q] = redemption[q]
          /\ redemption[k].status = "none"
      BY <1>2, <2>3 DEF Inv, TypeOK, NoRow, Row
    <3>4. CASE job[v].at \in {"refund", "restock"}
      <4>1. job[v].key \in Keys \ {k}
        BY <3>1, <3>3, <3>4, JobFields DEF Inv, InFlight, HoldsRow, RefundTo
      <4>2. job[v].key \in Rows
        BY <4>1 DEF Rows
      <4>3. HoldsRow(v)'
        BY <3>1, <3>2, <3>3, <4>1, <4>2, <3>4 DEF InFlight, HoldsRow
      <4>. QED
        BY <3>1, <3>4, <4>3 DEF InFlight, HoldsStock, HoldsBalance, StampsCash, InsertsNew
    <3>5. CASE job[v].at = "stamp"
      <4>1. job[v].key \in Keys \ {k}
        BY <3>1, <3>3, <3>5, JobFields DEF Inv, InFlight, StampsCash, CashStatus
      <4>. QED
        BY <3>1, <3>3, <3>5, <4>1
           DEF InFlight, HoldsStock, HoldsBalance, HoldsRow, StampsCash, InsertsNew
    <3>6. CASE job[v].at \in {"deduct", "insert"}
      <4>1. job[v].reward \in Rewards /\ KeyOwner[job[v].key] \in Users
        BY <3>6, JobFields DEF Inv
      <4>. QED
        BY <3>1, <3>2, <3>6, <4>1
           DEF Rows, InFlight, HoldsStock, HoldsBalance, HoldsRow, StampsCash, InsertsNew,
               Limited
    <3>7. CASE job[v].at \in {"idle", "reserve"}
      BY <3>1, <3>7 DEF InFlight, HoldsStock, HoldsBalance, HoldsRow, StampsCash, InsertsNew
    <3>. QED
      BY <3>4, <3>5, <3>6, <3>7, JobFields DEF Inv, Stage
  <2>. QED
    BY <2>6, <2>7, <2>8, <2>9 DEF Inv
<1>3. CASE redemption[k] # NoRow
  BY <1>0, <1>1, <1>3, RollbackStep DEF Insert
<1>. QED
  BY <1>2, <1>3

-----------------------------------------------------------------------------
\* The refunds keep Inv.

\* The claim's conditional UPDATE finds the row refundable and locks it.
LEMMA ClaimStep ==
  ASSUME Inv, NEW w \in Workers, NEW k \in Keys,
         ClaimCancel(w, k) \/ ClaimReject(w, k)
  PROVE  Inv'
<1>1. PICK from \in {{"available"}, {"pending", "approved"}},
           to \in {"cancelled", "rejected"} :
        /\ Claim(w, k, from, to)
        /\ \A s \in from : s \in DOMAIN RefundTo /\ RefundTo[s] = to
  BY DEF ClaimCancel, ClaimReject, RefundTo
<1>. DEFINE j == Job("refund", k, redemption[k].reward, redemption[k].spent, to)
<1>2. /\ redemption[k].status # "none"
      /\ redemption[k].status \in DOMAIN RefundTo /\ RefundTo[redemption[k].status] = to
  BY <1>1 DEF Claim
<1>3. j \in Jobs
  BY <1>2, RowFields, JobType DEF Inv, Stage, Target
<1>4. j.at = "refund" /\ j.key = k /\ j.target = to
  BY DEF Job
<1>5. /\ Become(w, j) /\ Lock(w, k) /\ k \in Rows
      /\ UNCHANGED <<ledger, catalog, answer>>
  BY <1>1 DEF Claim, Rows
<1>. HIDE DEF j
<1>6. /\ holder' \in [Rows -> Workers \cup {Free}] /\ holder'[k] = w
      /\ \A x \in Rows, v \in Workers \ {w} : holder[x] = v => holder'[x] = v
  BY <1>5, LockType, RewardAssumption DEF Inv
<1>7. TypeOK'
  BY <1>3, <1>5, <1>6, BecomeType DEF Inv, TypeOK, ledger, catalog
<1>8. InFlight(w)'
  <2>1. job'[w] = j
    BY <1>3, <1>5, BecomeType DEF Inv
  <2>. QED
    BY <1>2, <1>4, <1>5, <1>6, <2>1
       DEF InFlight, HoldsStock, HoldsBalance, HoldsRow, StampsCash, InsertsNew, ledger
<1>9. \A v \in Workers \ {w} : InFlight(v)'
  <2>1. \A v \in Workers \ {w} : Respects(v)
    BY <1>3, <1>5, <1>6, BecomeType DEF Inv, Respects, ledger
  <2>. QED
    BY <2>1, RespectedInFlight DEF Inv
<1>. QED
  BY <1>5, <1>7, <1>8, <1>9 DEF Inv, NeverNegative, Limited, ledger

\* The points go back under the claim's lock.
LEMMA RefundPointsStep ==
  ASSUME Inv, NEW w \in Workers, RefundPoints(w)
  PROVE  Inv'
<1>. DEFINE u == KeyOwner[job[w].key]
<1>1. /\ job[w].at = "refund" /\ u \in Users /\ u \in Rows /\ "restock" \in Stage
      /\ job[w].key \in Keys /\ job[w].key \in Rows
      /\ Lock(w, u) /\ Advance(w, "restock")
      /\ UNCHANGED <<ledger, catalog, answer>>
  BY JobFields DEF RefundPoints, Inv, Rows, Stage
<1>2. /\ job'[w].at = "restock" /\ job'[w].key = job[w].key
      /\ job'[w].target = job[w].target
      /\ \A x \in Rows : holder[x] = w => holder'[x] = w
  BY <1>1, AdvanceType, LockType, RewardAssumption DEF Inv
<1>3. HoldsRow(w)'
  BY <1>1, <1>2 DEF Inv, InFlight, HoldsRow, ledger
<1>4. InFlight(w)'
  BY <1>2, <1>3 DEF InFlight, HoldsStock, HoldsBalance, StampsCash, InsertsNew
<1>. QED
  BY <1>1, <1>4, LockStep

\* The refund's commit moves the claimed row to where its claim aimed.
LEMMA RestockStep ==
  ASSUME Inv, NEW w \in Workers, Restock(w)
  PROVE  Inv'
<1>. DEFINE k == job[w].key
            u == KeyOwner[k]
            r == redemption[k].reward
            n == redemption[k].spent
<1>0. /\ k \in Keys /\ u \in Users /\ k \in Rows
      /\ holder[k] = w /\ redemption[k].status \in DOMAIN RefundTo
      /\ job[w].target = RefundTo[redemption[k].status]
      /\ EndTransaction(w) /\ UNCHANGED <<catalog, answer>>
      /\ GiveBack(k, job[w].target)
  BY JobFields DEF Restock, Inv, Rows, InFlight, HoldsRow
<1>1. /\ redemption[k].status # "none"
      /\ \/ job[w].target \in CashStatus /\ redemption[k].status \in CashStatus
         \/ job[w].target \in CodeStatus /\ redemption[k].status \in CodeStatus
  BY <1>0 DEF RefundTo, CashStatus, CodeStatus
<1>2. r \in Rewards /\ n \in Nat
  BY <1>0, <1>1, RowFields DEF Inv
<1>3. SetStatus(k, job[w].target)
  BY <1>0 DEF GiveBack
<1>4. /\ redemption' \in [Keys -> {NoRow}
                    \cup [status: CodeStatus \cup CashStatus, reward: Rewards, spent: Nat]]
      /\ redemption'[k].status = job[w].target
      /\ \A q \in Keys \ {k} : redemption'[q] = redemption[q]
  BY <1>0, <1>1, <1>3, SetStatusType DEF Inv
<1>5. /\ points' \in [Users -> Int] /\ \A q \in Users : points'[q] >= points[q]
  BY <1>0, <1>2 DEF GiveBack, Inv, TypeOK
<1>6. /\ stock' \in [Rewards -> Int \cup {Null}]
      /\ \A q \in Rewards : \/ stock'[q] = stock[q]
                            \/ stock[q] \in Int /\ stock'[q] = stock[q] + 1
  <2>1. stock[r] \in Int \cup {Null}
    BY <1>2 DEF Inv, TypeOK
  <2>2. CASE Limited(r)
    <3>1. stock' = [stock EXCEPT ![r] = stock[r] + 1] /\ stock[r] \in Int
      BY <1>0, <2>1, <2>2 DEF GiveBack, Limited
    <3>. QED
      BY <1>2, <3>1 DEF Inv, TypeOK
  <2>3. CASE ~Limited(r)
    BY <1>0, <2>3 DEF GiveBack, Inv, TypeOK
  <2>. QED
    BY <2>2, <2>3
<1>. HIDE DEF k, u, r, n
<1>7. TypeOK'
  BY <1>0, <1>4, <1>5, <1>6, EndType DEF Inv, TypeOK, catalog
<1>8. NeverNegative'
  <2>1. \A q \in Users : points'[q] >= 0
    BY <1>5 DEF Inv, NeverNegative, TypeOK
  <2>2. ASSUME NEW q \in Rewards, stock'[q] # Null
        PROVE  stock'[q] >= 0
    <3>1. stock[q] \in Int \cup {Null} /\ (stock[q] # Null => stock[q] >= 0)
      BY DEF Inv, TypeOK, NeverNegative, Limited
    <3>. QED
      BY <1>6, <2>2, <3>1, RewardAssumption
  <2>. QED
    BY <2>1, <2>2 DEF NeverNegative, Limited
<1>9. InFlight(w)'
  BY <1>0, EndType, IdleInFlight DEF Inv
<1>10. ASSUME NEW v \in Workers \ {w}
       PROVE  InFlight(v)'
  <2>1. /\ InFlight(v) /\ job'[v] = job[v]
        /\ \A x \in Rows : holder[x] = v => holder'[x] = v
        /\ v # w
    BY <1>0, EndType DEF Inv
  <2>2. HoldsStock(v)'
    <3>1. job[v].at # "idle" => job[v].reward \in Rewards /\ job[v].reward \in Rows
      BY JobFields DEF Inv, Rows
    <3>2. ASSUME NEW q \in Rewards, stock[q] # Null, stock[q] > 0
          PROVE  stock'[q] # Null /\ stock'[q] > 0
      BY <1>6, <3>2, RewardAssumption DEF Inv, TypeOK
    <3>. QED
      BY <2>1, <3>1, <3>2 DEF InFlight, HoldsStock, Limited
  <2>3. HoldsBalance(v)'
    <3>1. job[v].at # "idle" =>
            /\ KeyOwner[job[v].key] \in Users /\ KeyOwner[job[v].key] \in Rows
      BY JobFields DEF Inv, Rows
    <3>2. ASSUME NEW q \in Users, NEW m \in Nat, points[q] >= m
          PROVE  points'[q] >= m
      BY <1>5, <3>2 DEF Inv, TypeOK
    <3>3. job[v].spent \in Nat
      BY JobFields DEF Inv
    <3>. QED
      BY <2>1, <3>1, <3>2, <3>3 DEF InFlight, HoldsBalance
  <2>4. HoldsRow(v)'
    <3>1. job[v].at \in {"refund", "restock"} =>
            job[v].key \in Keys \ {k} /\ job[v].key \in Rows
      BY <1>0, <2>1, JobFields DEF Inv, InFlight, HoldsRow, Rows
    <3>. QED
      BY <1>4, <2>1, <3>1 DEF InFlight, HoldsRow
  <2>5. StampsCash(v)'
    <3>1. CodeStatus \cap CashStatus = {}
      BY DEF CodeStatus, CashStatus
    <3>2. \A q \in Keys : redemption[q].status \in CashStatus
                            => redemption'[q].status \in CashStatus
      BY <1>1, <1>4, <3>1
    <3>3. job[v].at = "stamp" => job[v].key \in Keys
      BY JobFields DEF Inv
    <3>. QED
      BY <2>1, <3>2, <3>3 DEF InFlight, StampsCash
  <2>6. InsertsNew(v)'
    BY <2>1 DEF InFlight, InsertsNew
  <2>. QED
    BY <2>2, <2>3, <2>4, <2>5, <2>6 DEF InFlight
<1>. QED
  BY <1>7, <1>8, <1>9, <1>10 DEF Inv

-----------------------------------------------------------------------------
\* Decisions and edits keep Inv.

\* A status written to an unlocked row of its own kind.
LEMMA UnlockedWrite ==
  ASSUME Inv, NEW w \in Workers, NEW k \in Keys, holder[k] = Free,
         redemption[k].status # "none", NEW s,
         \/ s \in CashStatus /\ redemption[k].status \in CashStatus
         \/ s \in CodeStatus /\ redemption[k].status \in CodeStatus,
         SetStatus(k, s), UNCHANGED <<points, stock, catalog, holder, answer>>,
         \/ UNCHANGED job
         \/ Become(w, Idle)
  PROVE  Inv'
<1>1. /\ redemption' \in [Keys -> {NoRow}
                    \cup [status: CodeStatus \cup CashStatus, reward: Rewards, spent: Nat]]
      /\ redemption'[k].status = s
      /\ \A q \in Keys \ {k} : redemption'[q] = redemption[q]
  BY SetStatusType DEF Inv
<1>2. /\ job' \in [Workers -> Jobs]
      /\ \A v \in Workers : job'[v] = job[v] \/ job'[v].at = "idle"
  BY IdleType, BecomeType DEF Inv, TypeOK
<1>3. TypeOK'
  BY <1>1, <1>2 DEF Inv, TypeOK, catalog
<1>4. ASSUME NEW v \in Workers
      PROVE  InFlight(v)'
  <2>1. CASE job'[v].at = "idle"
    BY <2>1, IdleInFlight
  <2>2. CASE job'[v] = job[v]
    <3>1. CodeStatus \cap CashStatus = {}
      BY DEF CodeStatus, CashStatus
    <3>2. \A q \in Keys : holder[q] = v => redemption'[q] = redemption[q]
      BY <1>1, RewardAssumption
    <3>3. \A q \in Keys : redemption[q].status \in CashStatus
                            => redemption'[q].status \in CashStatus
      BY <1>1, <3>1
    <3>4. Respects(v)
      BY <2>2, <3>2, <3>3 DEF Respects
    <3>. QED
      BY <3>4, RespectedInFlight DEF Inv
  <2>. QED
    BY <1>2, <2>1, <2>2
<1>. QED
  BY <1>3, <1>4 DEF Inv, NeverNegative, Limited

\* A code is consumed under no one's lock.
LEMMA MarkUsedStep ==
  ASSUME Inv, NEW w \in Workers, NEW k \in Keys, MarkUsed(w, k)
  PROVE  Inv'
<1>1. /\ redemption[k].status = "available" /\ SetStatus(k, "used")
      /\ holder[k] = Free /\ UNCHANGED <<points, stock, catalog, holder, answer, job>>
  BY DEF MarkUsed
<1>2. "used" \in CodeStatus /\ "available" \in CodeStatus
  BY DEF CodeStatus
<1>. QED
  BY <1>1, <1>2, UnlockedWrite

\* What an approval or a fulfilment stamps is a cash status on a cash row.
LEMMA StampStep ==
  ASSUME Inv, NEW w \in Workers, Stamp(w)
  PROVE  Inv'
<1>. DEFINE k == job[w].key
            s == job[w].target
<1>1. /\ k \in Keys /\ s \in CashStatus /\ redemption[k].status \in CashStatus
      /\ redemption[k].status # "none" /\ holder[k] = Free
      /\ SetStatus(k, s) /\ Become(w, Idle)
      /\ UNCHANGED <<points, stock, catalog, holder, answer>>
  BY JobFields DEF Stamp, Inv, InFlight, StampsCash, CashStatus
<1>. HIDE DEF k, s
<1>. QED
  BY <1>1, UnlockedWrite

\* A decision loaded from a cash row is about a cash row.
LEMMA StampLoadStep ==
  ASSUME Inv, NEW w \in Workers, NEW k \in Keys,
         ApproveLoad(w, k) \/ FulfillLoad(w, k)
  PROVE  Inv'
<1>1. PICK to \in {"approved", "fulfilled"} :
        /\ redemption[k].status \in {"pending", "approved"}
        /\ Become(w, Job("stamp", k, redemption[k].reward, redemption[k].spent, to))
        /\ UNCHANGED <<ledger, catalog, holder, answer>>
  BY DEF ApproveLoad, FulfillLoad, StampLoad
<1>. DEFINE j == Job("stamp", k, redemption[k].reward, redemption[k].spent, to)
<1>2. j \in Jobs
  BY <1>1, RowFields, JobType DEF Inv, Stage, Target
<1>3. j.at = "stamp" /\ j.key = k /\ j.target = to /\ Become(w, j)
  BY <1>1 DEF Job
<1>. HIDE DEF j
<1>4. TypeOK'
  BY <1>1, <1>2, <1>3, BecomeType DEF Inv, TypeOK, ledger, catalog
<1>5. InFlight(w)'
  <2>1. job'[w] = j
    BY <1>2, <1>3, BecomeType DEF Inv
  <2>. QED
    BY <1>1, <1>3, <2>1 DEF InFlight, HoldsStock, HoldsBalance, HoldsRow, StampsCash, InsertsNew,
                             ledger, CashStatus
<1>6. \A v \in Workers \ {w} : InFlight(v)'
  <2>1. \A v \in Workers \ {w} : Respects(v)
    BY <1>1, <1>2, <1>3, BecomeType DEF Inv, Respects, ledger
  <2>. QED
    BY <2>1, RespectedInFlight DEF Inv
<1>. QED
  BY <1>1, <1>4, <1>5, <1>6 DEF Inv, NeverNegative, Limited, ledger

\* An edit of an unlocked reward or balance keeps what others hold.
LEMMA PatchStep ==
  ASSUME Inv, NEW w \in Workers,
         \/ \E r \in Rewards : PatchReward(w, r)
         \/ \E u \in Users, n \in Balances : PatchUser(w, u, n)
  PROVE  Inv'
<1>1. ASSUME NEW r \in Rewards, PatchReward(w, r)
      PROVE  Inv'
  <2>1. /\ holder[r] = Free /\ UNCHANGED <<points, redemption, holder, answer, job>>
        /\ cost' \in Edited(cost, r, Prices) /\ active' \in Edited(active, r, BOOLEAN)
        /\ category' \in Edited(category, r, Categories)
        /\ stock' \in Edited(stock, r, Stocks)
    BY <1>1 DEF PatchReward
  <2>2. /\ stock' \in [Rewards -> Int \cup {Null}]
        /\ \A q \in Rewards : stock'[q] # Null => stock'[q] >= 0
        /\ \A q \in Rewards \ {r} : stock'[q] = stock[q]
    BY <2>1, RewardAssumption DEF Edited, Inv, TypeOK, NeverNegative, Limited
  <2>3. TypeOK'
    <3>1. cost' \in [Rewards -> Nat] /\ active' \in [Rewards -> BOOLEAN]
          /\ category' \in [Rewards -> Categories]
      BY <2>1, RewardAssumption DEF Edited, Inv, TypeOK
    <3>. QED
      BY <2>1, <2>2, <3>1 DEF Inv, TypeOK
  <2>4. \A v \in Workers : Respects(v)
    BY <2>1, <2>2, RewardAssumption DEF Respects
  <2>. QED
    BY <2>1, <2>2, <2>3, <2>4, RespectedInFlight DEF Inv, NeverNegative, Limited
<1>2. ASSUME NEW u \in Users, NEW n \in Balances, PatchUser(w, u, n)
      PROVE  Inv'
  <2>1. /\ holder[u] = Free /\ UNCHANGED <<stock, redemption, holder, answer, job, catalog>>
        /\ points' = [points EXCEPT ![u] = n]
    BY <1>2 DEF PatchUser
  <2>2. /\ points' \in [Users -> Int] /\ \A q \in Users : points'[q] >= 0
        /\ \A q \in Users \ {u} : points'[q] = points[q]
    BY <2>1, RewardAssumption DEF Inv, TypeOK, NeverNegative
  <2>3. TypeOK'
    BY <2>1, <2>2 DEF Inv, TypeOK, catalog
  <2>4. \A v \in Workers : Respects(v)
    BY <2>1, <2>2, RewardAssumption DEF Respects
  <2>. QED
    BY <2>1, <2>2, <2>3, <2>4, RespectedInFlight DEF Inv, NeverNegative, Limited
<1>. QED
  BY <1>1, <1>2

\* An abort rolls back.
LEMMA AbortStep ==
  ASSUME Inv, NEW w \in Workers, Abort(w)
  PROVE  Inv'
<1>1. answer' \in [Keys -> {"none", "redeemed", "refused"}]
  BY DEF Abort, Inv, TypeOK
<1>. QED
  BY <1>1, RollbackStep DEF Abort

-----------------------------------------------------------------------------
\* Every step keeps Inv.
LEMMA InvStep == Inv /\ [Next]_vars => Inv'
<1>. SUFFICES ASSUME Inv, [Next]_vars
              PROVE  Inv'
  OBVIOUS
<1>1. CASE UNCHANGED vars
  <2>1. TypeOK' /\ NeverNegative'
    BY <1>1 DEF vars, Inv, TypeOK, NeverNegative, Limited
  <2>2. \A v \in Workers : Respects(v)
    BY <1>1 DEF vars, Respects
  <2>. QED
    BY <2>1, <2>2, RespectedInFlight DEF Inv
<1>2. ASSUME NEW w \in Workers, Request(w)
      PROVE  Inv'
  BY <1>2, StartStep, ClaimStep, MarkUsedStep, StampLoadStep, PatchStep DEF Request
<1>3. ASSUME NEW w \in Workers, Proceed(w)
      PROVE  Inv'
  BY <1>3, ReserveStep, DeductStep, InsertStep, RefundPointsStep, RestockStep,
     StampStep DEF Proceed
<1>4. ASSUME NEW w \in Workers, Abort(w)
      PROVE  Inv'
  BY <1>4, AbortStep
<1>. QED
  BY <1>1, <1>2, <1>3, <1>4 DEF Next

\* The marketplace opens in order.
LEMMA InvInit == Init => Inv
<1>. SUFFICES ASSUME Init
              PROVE  Inv
  OBVIOUS
<1>1. TypeOK
  BY IdleType, RewardAssumption DEF Init, TypeOK, Categories
<1>2. NeverNegative
  BY RewardAssumption DEF Init, NeverNegative, Limited
<1>3. \A w \in Workers : InFlight(w)
  BY IdleType DEF Init, InFlight, HoldsStock, HoldsBalance, HoldsRow, StampsCash, InsertsNew
<1>. QED
  BY <1>1, <1>2, <1>3 DEF Inv

\* Whatever transactions are in flight, the rows keep their types.
THEOREM TypeCorrect == Spec => []TypeOK
BY InvInit, InvStep, PTL DEF Spec, Inv

\* "Points can NEVER go negative, even under parallel requests", and neither
\* does a limited stock, for every number of threads, prices and edits.
THEOREM BalancesNeverNegative == Spec => []NeverNegative
BY InvInit, InvStep, PTL DEF Spec, Inv

-----------------------------------------------------------------------------
(* Every code is settled once, however many threads there are.  What a      *)
(* payout is told is not: approve_redemption and fulfill_redemption write   *)
(* what they decided on a copy.                                             *)

\* How a step can change a redemption: an insertion, or a status of its own
\* kind written by a refund or a decision.
LEMMA RowStep ==
  ASSUME Inv, [Next]_vars, NEW k \in Keys, redemption'[k] # redemption[k]
  PROVE  \/ redemption[k] = NoRow
         \/ \E w \in Workers :
              /\ job[w].key = k
              /\ \/ Restock(w) /\ redemption[k].status \in DOMAIN RefundTo
                 \/ Stamp(w) /\ redemption[k].status \in CashStatus
         \/ \E w \in Workers : MarkUsed(w, k)
<1>1. ASSUME NEW w \in Workers, Insert(w)
      PROVE  redemption[k] = NoRow
  BY <1>1, JobFields DEF Insert, Grant, Inv, TypeOK, ledger
<1>2. ASSUME NEW w \in Workers, Restock(w)
      PROVE  job[w].key = k /\ redemption[k].status \in DOMAIN RefundTo
  <2>1. job[w].key = k
    BY <1>2, JobFields DEF Restock, GiveBack, SetStatus, Inv, TypeOK
  <2>. QED
    BY <1>2, <2>1 DEF Restock, Inv, InFlight, HoldsRow
<1>3. ASSUME NEW w \in Workers, Stamp(w)
      PROVE  job[w].key = k /\ redemption[k].status \in CashStatus
  <2>1. job[w].key = k
    BY <1>3, JobFields DEF Stamp, SetStatus, Inv, TypeOK
  <2>. QED
    BY <1>3, <2>1 DEF Stamp, Inv, InFlight, StampsCash
<1>4. ASSUME NEW w \in Workers, NEW q \in Keys, MarkUsed(w, q)
      PROVE  q = k
  BY <1>4 DEF MarkUsed, SetStatus, Inv, TypeOK
<1>5. ASSUME NEW w \in Workers,
             \/ Reserve(w) \/ Deduct(w) \/ RefundPoints(w) \/ Abort(w)
             \/ \E q \in Keys, r \in Rewards : RedeemStart(w, q, r)
             \/ \E q \in Keys : \/ ClaimCancel(w, q) \/ ClaimReject(w, q)
                                \/ ApproveLoad(w, q) \/ FulfillLoad(w, q)
             \/ \E r \in Rewards : PatchReward(w, r)
             \/ \E u \in Users, n \in Balances : PatchUser(w, u, n)
      PROVE  redemption' = redemption
  BY <1>5 DEF Reserve, Deduct, RefundPoints, Abort, Refuse, RedeemStart, ClaimCancel,
              ClaimReject, Claim, ApproveLoad, FulfillLoad, StampLoad, PatchReward,
              PatchUser, ledger
<1>. QED
  BY <1>1, <1>2, <1>3, <1>4, <1>5 DEF Next, Request, Proceed, vars

\* A code that was used or cancelled is in no transaction's reach.
LEMMA CodeStep ==
  ASSUME Inv, [Next]_vars, NEW k \in Keys, redemption[k].status \in {"used", "cancelled"}
  PROVE  redemption'[k] = redemption[k]
<1>1. redemption[k] # NoRow
  BY RowFields DEF Inv
<1>2. redemption[k].status \notin DOMAIN RefundTo /\ redemption[k].status \notin CashStatus
  BY DEF RefundTo, CashStatus
<1>3. \A w \in Workers : ~MarkUsed(w, k)
  BY DEF MarkUsed
<1>. QED
  BY <1>1, <1>2, <1>3, RowStep

\* The merchant's confirmation and the student's cancellation of a code: one of
\* them wins, once, for any number of threads.
THEOREM CodesSettleOnce == Spec => CodeSettledOnce
<1>1. Inv /\ [Next]_vars
        => [\A k \in Keys : redemption[k].status \in {"used", "cancelled"}
                              => redemption'[k] = redemption[k]]_vars
  BY CodeStep
<1>. QED
  BY <1>1, InvInit, InvStep, PTL DEF Spec, CodeSettledOnce

-----------------------------------------------------------------------------
\* What a step does to the ledger: a commit is one step of the contract or one of
\* the two defects, an edit is an admin's, and the rest leaves it alone.
LEMMA CommitStep ==
  ASSUME Inv, [Next]_vars
  PROVE  \/ \E k \in Keys : Redeem(k) \/ Refund(k) \/ Decide(k)
         \/ \E w \in Workers : \/ UnreservedInsert(w) /\ redemption[job[w].key] = NoRow
                             \/ StaleStamp(w)
         \/ \E w \in Admins, u \in Users, n \in Balances : PatchUser(w, u, n)
         \/ \E w \in Admins, r \in Rewards : PatchReward(w, r)
         \/ UNCHANGED ledger
<1>. DEFINE Commits == \E k \in Keys : Redeem(k) \/ Refund(k) \/ Decide(k)
<1>0. TypeOK
  BY DEF Inv
<1>1. ASSUME NEW w \in Workers, Insert(w), redemption[job[w].key] = NoRow
      PROVE  Commits \/ UnreservedInsert(w)
  <2>. DEFINE k == job[w].key
              r == job[w].reward
              n == job[w].spent
              s == job[w].target
  <2>1. /\ k \in Keys /\ r \in Rewards /\ n \in Nat /\ s \in {"available", "pending"}
        /\ points[KeyOwner[k]] >= n /\ (job[w].unit => Limited(r) /\ stock[r] > 0)
        /\ Grant(k, r, n, s, job[w].unit) /\ job[w].unit \in BOOLEAN
    BY <1>0, <1>1, JobFields
       DEF Insert, Inv, InFlight, HoldsStock, HoldsBalance, InsertsNew
  <2>2. redemption'[k].spent = n
    BY <1>0, <2>1 DEF Grant, TypeOK, Row
  <2>3. CASE job[w].unit = Limited(r)
    <3>1. Grant(k, r, n, s, Limited(r)) /\ (Limited(r) => stock[r] > 0)
      BY <2>1, <2>3
    <3>. HIDE DEF k, r, n, s
    <3>2. Redeem(k)
      BY <1>1, <2>1, <2>2, <3>1 DEF Redeem, k
    <3>. QED
      BY <2>1, <3>2
  <2>4. CASE job[w].unit # Limited(r)
    BY <1>1, <2>1, <2>4 DEF UnreservedInsert, Limited
  <2>. QED
    BY <2>3, <2>4
<1>2. ASSUME NEW w \in Workers, Restock(w)
      PROVE  Commits
  <2>1. job[w].key \in Keys /\ Refund(job[w].key)
    BY <1>0, <1>2, JobFields DEF Restock, Refund, Inv, InFlight, HoldsRow
  <2>. QED
    BY <2>1
<1>3. ASSUME NEW w \in Workers, Stamp(w)
      PROVE  Commits \/ StaleStamp(w) \/ UNCHANGED ledger
  <2>. DEFINE k == job[w].key
              s == job[w].target
  <2>1. /\ k \in Keys /\ s \in {"approved", "fulfilled"}
        /\ redemption[k].status \in CashStatus
        /\ SetStatus(k, s) /\ UNCHANGED <<points, stock>>
    BY <1>0, <1>3, JobFields DEF Stamp, Inv, InFlight, StampsCash
  <2>2. CASE redemption[k].status \in {"fulfilled", "rejected"}
    BY <1>3, <2>2 DEF StaleStamp
  <2>3. CASE redemption[k].status = "approved" /\ s = "approved"
    <3>1. Row(s, redemption[k].reward, redemption[k].spent) = redemption[k]
      BY <1>0, <2>1, <2>3 DEF TypeOK, Row, NoRow
    <3>2. redemption' = redemption
      BY <1>0, <2>1, <3>1 DEF TypeOK, SetStatus
    <3>. QED
      BY <2>1, <3>2 DEF ledger
  <2>4. CASE \/ redemption[k].status = "pending"
             \/ redemption[k].status = "approved" /\ s = "fulfilled"
    <3>1. /\ redemption[k].status \in DOMAIN DecideTo
          /\ s \in DecideTo[redemption[k].status]
      BY <2>1, <2>4 DEF DecideTo
    <3>2. Decide(k)
      BY <2>1, <3>1 DEF Decide
    <3>. QED
      BY <2>1, <3>2
  <2>. QED
    BY <2>1, <2>2, <2>3, <2>4 DEF CashStatus
<1>4. ASSUME NEW w \in Workers, NEW k \in Keys, MarkUsed(w, k)
      PROVE  Commits
  BY <1>4 DEF MarkUsed, Decide, DecideTo
<1>5. ASSUME NEW w \in Workers,
             \/ Reserve(w) \/ Deduct(w) \/ RefundPoints(w) \/ Abort(w)
             \/ Insert(w) /\ redemption[job[w].key] # NoRow
             \/ \E q \in Keys, r \in Rewards : RedeemStart(w, q, r)
             \/ \E q \in Keys : \/ ClaimCancel(w, q) \/ ClaimReject(w, q)
                                \/ ApproveLoad(w, q) \/ FulfillLoad(w, q)
      PROVE  UNCHANGED ledger
  BY <1>5 DEF Reserve, Deduct, RefundPoints, Abort, Refuse, Insert, RedeemStart,
              ClaimCancel, ClaimReject, Claim, ApproveLoad, FulfillLoad, StampLoad, ledger
<1>6. ASSUME NEW w \in Workers,
             \/ \E r \in Rewards : PatchReward(w, r)
             \/ \E u \in Users, n \in Balances : PatchUser(w, u, n)
      PROVE  w \in Admins
  BY <1>6 DEF PatchReward, PatchUser
<1>7. UNCHANGED vars => UNCHANGED ledger
  BY DEF vars, ledger
<1>. QED
  BY <1>1, <1>2, <1>3, <1>4, <1>5, <1>6, <1>7 DEF Next, Request, Proceed

LEMMA ContractStep ==
  ASSUME Inv, [Next]_vars
  PROVE  [\/ ContractNext
          \/ \E w \in Workers : StaleStamp(w) \/ UnreservedInsert(w)
         ]_<<points, stock, redemption>>
<1>1. ASSUME NEW w \in Admins, NEW r \in Rewards, PatchReward(w, r)
      PROVE  ContractNext \/ UNCHANGED <<points, stock, redemption>>
  BY <1>1 DEF PatchReward, Edited, ContractNext, Edit
<1>2. ASSUME NEW w \in Admins, NEW u \in Users, NEW n \in Balances, PatchUser(w, u, n)
      PROVE  ContractNext
  BY <1>2 DEF PatchUser, ContractNext, Edit
<1>. QED
  BY <1>1, <1>2, CommitStep DEF ContractNext, ledger

\* The interleaved transactions of redeem, cancel, reject, approve, fulfil and
\* mark-used implement the contract's indivisible steps, for any number of
\* students, admins, keys and rewards; what breaks it is a decision written over
\* a settled payout and a unit that was not asked for, and nothing else.
THEOREM ImplementsContract == Spec => KeepsContract
<1>1. Init => Inv /\ ContractInit
  <2>1. Init => ContractInit
    BY RewardAssumption DEF Init, ContractInit
  <2>. QED
    BY <2>1, InvInit
<1>2. Inv /\ [Next]_vars => Inv'
  BY InvStep
<1>3. Inv /\ [Next]_vars
        => [\/ ContractNext
            \/ \E w \in Workers : StaleStamp(w) \/ UnreservedInsert(w)
           ]_<<points, stock, redemption>>
  BY ContractStep
<1>. QED
  BY <1>1, <1>2, <1>3, PTL DEF Spec, KeepsContract

-----------------------------------------------------------------------------
\* What is spent and handed out, summed over the live redemptions.

ConservedInv == Inv /\ IsFiniteSet(Live)

\* The points spent on each key, of redemptions as in rows.
Spends(rows) == [k \in Keys |-> rows[k].spent]

\* Of the keys of L: what u has spent on them, and the units of r.
SpentBy(rows, L, u) == SumFunctionOnSet(Spends(rows), {k \in L : KeyOwner[k] = u})
HandedOut(rows, L, r) == Cardinality({k \in L : rows[k].reward = r})

LEMMA TotalsAre ==
  ASSUME NEW u, NEW r
  PROVE  /\ Holding(u) = points[u] + SpentBy(redemption, Live, u)
         /\ Holding(u)' = points'[u] + SpentBy(redemption', Live', u)
         /\ Units(r) = stock[r] + HandedOut(redemption, Live, r)
         /\ Units(r)' = stock'[r] + HandedOut(redemption', Live', r)
BY DEF Holding, Units, SpentBy, HandedOut, Spends

\* k is no key of L, whose redemptions are as dear in a as in b.
MoreBy(a, b, L, k) ==
  /\ L \subseteq Keys /\ IsFiniteSet(L) /\ k \in Keys \ L
  /\ \A q \in L : a[q].spent = b[q].spent /\ a[q].reward = b[q].reward
  /\ \A q \in L \cup {k} : b[q].spent \in Nat

\* A key more among the live ones adds its points to its owner's ...
LEMMA SpentMore ==
  ASSUME NEW a, NEW b, NEW L, NEW k, MoreBy(a, b, L, k), NEW u
  PROVE  /\ SpentBy(a, L, u) \in Nat
         /\ KeyOwner[k] # u => SpentBy(b, L \cup {k}, u) = SpentBy(a, L, u)
         /\ KeyOwner[k] = u
              => SpentBy(b, L \cup {k}, u) = SpentBy(a, L, u) + b[k].spent
<1>. USE DEF MoreBy
<1>. DEFINE S == {q \in L : KeyOwner[q] = u}
            T == {q \in L \cup {k} : KeyOwner[q] = u}
            f == Spends(a)
            g == Spends(b)
<1>1. IsFiniteSet(S) /\ k \notin S
  <2>1. S \in SUBSET L
    OBVIOUS
  <2>. QED
    BY <2>1, FS_Subset
<1>2. /\ \A q \in S : f[q] = g[q] /\ f[q] \in Nat
      /\ \A q \in S \cup {k} : g[q] \in Nat
      /\ g[k] = b[k].spent
  BY DEF Spends
<1>3. T = IF KeyOwner[k] = u THEN S \cup {k} ELSE S
  OBVIOUS
<1>. HIDE DEF S, T, f, g
<1>4. SumFunctionOnSet(f, S) = SumFunctionOnSet(g, S) /\ SumFunctionOnSet(f, S) \in Nat
  BY <1>1, <1>2, SumSame, SumType
<1>5. SumFunctionOnSet(g, S \cup {k}) = SumFunctionOnSet(g, S) + g[k]
  BY <1>1, <1>2, SumAdd
<1>6. /\ KeyOwner[k] # u => SumFunctionOnSet(g, T) = SumFunctionOnSet(f, S)
      /\ KeyOwner[k] = u => SumFunctionOnSet(g, T) = SumFunctionOnSet(f, S) + b[k].spent
  BY <1>2, <1>3, <1>4, <1>5
<1>. QED
  BY <1>4, <1>6 DEF S, T, f, g, SpentBy

\* ... and its unit to its reward's, and nothing to another's.
LEMMA HandedMore ==
  ASSUME NEW a, NEW b, NEW L, NEW k, MoreBy(a, b, L, k), NEW r
  PROVE  /\ HandedOut(a, L, r) \in Nat
         /\ b[k].reward # r => HandedOut(b, L \cup {k}, r) = HandedOut(a, L, r)
         /\ b[k].reward = r
              => HandedOut(b, L \cup {k}, r) = HandedOut(a, L, r) + 1
<1>. USE DEF MoreBy
<1>. DEFINE S == {q \in L : a[q].reward = r}
            T == {q \in L \cup {k} : b[q].reward = r}
<1>1. IsFiniteSet(S) /\ k \notin S
  <2>1. S \in SUBSET L
    OBVIOUS
  <2>. QED
    BY <2>1, FS_Subset
<1>2. T = IF b[k].reward = r THEN S \cup {k} ELSE S
  OBVIOUS
<1>. HIDE DEF S, T
<1>3. Cardinality(S \cup {k}) = Cardinality(S) + 1 /\ Cardinality(S) \in Nat
  BY <1>1, FS_AddElement, FS_CardinalityType
<1>4. /\ b[k].reward # r => Cardinality(T) = Cardinality(S)
      /\ b[k].reward = r => Cardinality(T) = Cardinality(S) + 1
  BY <1>2, <1>3
<1>. QED
  BY <1>3, <1>4 DEF S, T, HandedOut

\* Redemptions that stay live, at the price and with the reward they had.
LEMMA StayLive ==
  ASSUME TypeOK, IsFiniteSet(Live), Live' = Live,
         \A k \in Live : /\ redemption'[k].spent = redemption[k].spent
                        /\ redemption'[k].reward = redemption[k].reward
  PROVE  /\ IsFiniteSet(Live')
         /\ \A u \in Users : points'[u] = points[u] => Holding(u)' = Holding(u)
         /\ \A r \in Rewards : stock'[r] = stock[r] => Units(r)' = Units(r)
<1>1. ASSUME NEW u \in Users, points'[u] = points[u]
      PROVE  Holding(u)' = Holding(u)
  <2>. DEFINE S == {k \in Live : KeyOwner[k] = u}
  <2>1. IsFiniteSet(S) /\ \A k \in S : k \in Keys /\ k \in Live
    <3>1. S \in SUBSET Live
      OBVIOUS
    <3>. QED
      BY <3>1, FS_Subset DEF Live
  <2>2. \A k \in S : Spends(redemption)[k] = Spends(redemption')[k]
    BY <2>1 DEF Spends
  <2>3. SumFunctionOnSet(Spends(redemption), S) = SumFunctionOnSet(Spends(redemption'), S)
    <3>. HIDE DEF S
    <3>. QED
      BY <2>1, <2>2, SumSame
  <2>. QED
    BY <1>1, <2>3 DEF Holding, Spends
<1>2. ASSUME NEW r \in Rewards, stock'[r] = stock[r]
      PROVE  Units(r)' = Units(r)
  <2>1. {k \in Live : redemption'[k].reward = r} = {k \in Live : redemption[k].reward = r}
    OBVIOUS
  <2>. QED
    BY <1>2, <2>1 DEF Units
<1>. QED
  BY <1>1, <1>2

\* A key of which nothing is left over is not live; the statuses of the live.
LEMMA LiveStatus ==
  ASSUME TypeOK, NEW k \in Keys
  PROVE  /\ k \in Live <=> redemption[k].status \notin {"none", "cancelled", "rejected"}
         /\ k \in Live => redemption[k].spent \in Nat
         /\ redemption[k] = NoRow => k \notin Live
BY RowFields DEF Live, NoRow, Row, TypeOK

\* A redemption takes what it grants, and the unit if there is one.
LEMMA GrantConserves ==
  ASSUME ConservedInv, TypeOK', NEW k \in Keys, redemption[k] = NoRow,
         NEW x \in Rewards, NEW n \in Nat, NEW s \in {"available", "pending"},
         NEW unit \in BOOLEAN, unit => Limited(x), Grant(k, x, n, s, unit)
  PROVE  /\ IsFiniteSet(Live')
         /\ \A u \in Users : Holding(u)' = Holding(u)
         /\ \A r \in Rewards : Limited(r) /\ (r = x => unit) => Units(r)' = Units(r)
<1>0. TypeOK /\ IsFiniteSet(Live) /\ Live \subseteq Keys /\ KeyOwner[k] \in Users
  BY RewardAssumption DEF ConservedInv, Inv, Live
<1>2. /\ redemption'[k] = Row(s, x, n)
      /\ \A q \in Keys \ {k} : redemption'[q] = redemption[q]
  BY <1>0 DEF Grant, TypeOK
<1>3. k \notin Live /\ Live' = Live \cup {k}
  BY <1>0, <1>2, LiveStatus DEF Live, Row
<1>4. redemption'[k].spent = n /\ redemption'[k].reward = x
  BY <1>2 DEF Row
<1>5. /\ \A q \in Live : /\ redemption[q].spent = redemption'[q].spent
                         /\ redemption[q].reward = redemption'[q].reward
      /\ \A q \in Live \cup {k} : redemption'[q].spent \in Nat
  BY <1>0, <1>2, <1>3, <1>4, LiveStatus
<1>6. MoreBy(redemption, redemption', Live, k)
  BY <1>0, <1>3, <1>5 DEF MoreBy
<1>7. ASSUME NEW u \in Users
      PROVE  Holding(u)' = Holding(u)
  <2>1. /\ SpentBy(redemption, Live, u) \in Nat
        /\ KeyOwner[k] # u
             => SpentBy(redemption', Live', u) = SpentBy(redemption, Live, u)
        /\ KeyOwner[k] = u
             => SpentBy(redemption', Live', u) = SpentBy(redemption, Live, u) + n
    BY <1>3, <1>4, <1>6, SpentMore
  <2>2. /\ points[u] \in Int
        /\ points'[u] = IF KeyOwner[k] = u THEN points[u] - n ELSE points[u]
    BY <1>0 DEF Grant, TypeOK
  <2>. QED
    BY <2>1, <2>2, TotalsAre
<1>8. ASSUME NEW r \in Rewards, Limited(r), r = x => unit
      PROVE  Units(r)' = Units(r)
  <2>1. /\ HandedOut(redemption, Live, r) \in Nat
        /\ x # r => HandedOut(redemption', Live', r) = HandedOut(redemption, Live, r)
        /\ x = r
             => HandedOut(redemption', Live', r) = HandedOut(redemption, Live, r) + 1
    <3>1. /\ HandedOut(redemption, Live, r) \in Nat
          /\ redemption'[k].reward # r
               => HandedOut(redemption', Live \cup {k}, r) = HandedOut(redemption, Live, r)
          /\ redemption'[k].reward = r
               => HandedOut(redemption', Live \cup {k}, r) = HandedOut(redemption, Live, r) + 1
      BY <1>6, HandedMore
    <3>. QED
      BY <1>3, <1>4, <3>1
  <2>2. stock[r] \in Int /\ stock'[r] = IF x = r THEN stock[r] - 1 ELSE stock[r]
    BY <1>0, <1>8 DEF Grant, TypeOK, Limited
  <2>. QED
    BY <2>1, <2>2, TotalsAre
<1>9. IsFiniteSet(Live')
  BY <1>0, <1>3, FS_AddElement
<1>. QED
  BY <1>7, <1>8, <1>9

LEMMA RedeemConserves ==
  ASSUME ConservedInv, TypeOK', NEW k \in Keys, Redeem(k)
  PROVE  /\ IsFiniteSet(Live')
         /\ \A u \in Users : Holding(u)' = Holding(u)
         /\ \A r \in Rewards : Limited(r) => Units(r)' = Units(r)
<1>1. PICK x \in Rewards, n \in Nat, s \in {"available", "pending"} :
        redemption[k] = NoRow /\ Grant(k, x, n, s, Limited(x))
  BY DEF Redeem
<1>2. Limited(x) \in BOOLEAN
  BY DEF Limited
<1>. HIDE DEF Limited
<1>. QED
  BY <1>1, <1>2, GrantConserves

\* A refund gives back what the redemption took.
LEMMA RefundConserves ==
  ASSUME ConservedInv, TypeOK', NEW k \in Keys, Refund(k)
  PROVE  /\ IsFiniteSet(Live')
         /\ \A u \in Users : Holding(u)' = Holding(u)
         /\ \A r \in Rewards : Limited(r) => Units(r)' = Units(r)
<1>0. TypeOK /\ IsFiniteSet(Live) /\ Live \subseteq Keys /\ KeyOwner[k] \in Users
  BY RewardAssumption DEF ConservedInv, Inv, Live
<1>. DEFINE x == redemption[k].reward
            n == redemption[k].spent
            s == RefundTo[redemption[k].status]
<1>1. /\ redemption[k].status \in DOMAIN RefundTo /\ s \in {"cancelled", "rejected"}
      /\ GiveBack(k, s)
  BY DEF Refund, RefundTo
<1>2. /\ redemption'[k] = Row(s, x, n)
      /\ \A q \in Keys \ {k} : redemption'[q] = redemption[q]
  BY <1>0, <1>1 DEF GiveBack, SetStatus, TypeOK
<1>3. k \in Live /\ Live' = Live \ {k}
  BY <1>0, <1>1, <1>2, LiveStatus DEF Live, RefundTo, Row
<1>4. n \in Nat
  BY <1>0, <1>3, LiveStatus
<1>5. /\ \A q \in Live' : /\ redemption'[q].spent = redemption[q].spent
                          /\ redemption'[q].reward = redemption[q].reward
      /\ \A q \in Live' \cup {k} : redemption[q].spent \in Nat
  BY <1>0, <1>2, <1>3, LiveStatus
<1>6. IsFiniteSet(Live') /\ Live' \cup {k} = Live /\ k \in Keys \ Live' /\ Live' \subseteq Keys
  BY <1>0, <1>3, FS_RemoveElement
<1>7. MoreBy(redemption', redemption, Live', k)
  BY <1>5, <1>6 DEF MoreBy
<1>8. ASSUME NEW u \in Users
      PROVE  Holding(u)' = Holding(u)
  <2>1. /\ SpentBy(redemption', Live', u) \in Nat
        /\ KeyOwner[k] # u
             => SpentBy(redemption, Live, u) = SpentBy(redemption', Live', u)
        /\ KeyOwner[k] = u
             => SpentBy(redemption, Live, u) = SpentBy(redemption', Live', u) + n
    BY <1>6, <1>7, SpentMore
  <2>2. /\ points[u] \in Int
        /\ points'[u] = IF KeyOwner[k] = u THEN points[u] + n ELSE points[u]
    BY <1>0, <1>1 DEF GiveBack, TypeOK
  <2>. HIDE DEF n
  <2>. QED
    BY <1>4, <2>1, <2>2, TotalsAre
<1>9. ASSUME NEW r \in Rewards, Limited(r)
      PROVE  Units(r)' = Units(r)
  <2>1. /\ HandedOut(redemption', Live', r) \in Nat
        /\ x # r => HandedOut(redemption, Live, r) = HandedOut(redemption', Live', r)
        /\ x = r
             => HandedOut(redemption, Live, r) = HandedOut(redemption', Live', r) + 1
    BY <1>6, <1>7, HandedMore
  <2>2. stock[r] \in Int /\ stock'[r] = IF x = r THEN stock[r] + 1 ELSE stock[r]
    BY <1>0, <1>1, <1>9 DEF GiveBack, TypeOK, Limited
  <2>. HIDE DEF x
  <2>. QED
    BY <2>1, <2>2, TotalsAre
<1>. QED
  BY <1>6, <1>8, <1>9

\* A decision keeps a live redemption live.
LEMMA DecideConserves ==
  ASSUME ConservedInv, TypeOK', NEW k \in Keys, Decide(k)
  PROVE  /\ IsFiniteSet(Live')
         /\ \A u \in Users : Holding(u)' = Holding(u)
         /\ \A r \in Rewards : Limited(r) => Units(r)' = Units(r)
<1>0. TypeOK /\ IsFiniteSet(Live)
  BY DEF ConservedInv, Inv
<1>1. PICK s \in {"used", "approved", "fulfilled"} :
        /\ redemption[k].status \in {"available", "pending", "approved"}
        /\ SetStatus(k, s) /\ UNCHANGED <<points, stock>>
  BY DEF Decide, DecideTo
<1>2. /\ redemption'[k] = Row(s, redemption[k].reward, redemption[k].spent)
      /\ \A q \in Keys \ {k} : redemption'[q] = redemption[q]
  BY <1>0, <1>1 DEF SetStatus, TypeOK
<1>3. Live' = Live
  BY <1>1, <1>2 DEF Live, Row
<1>4. \A q \in Live : /\ redemption'[q].spent = redemption[q].spent
                      /\ redemption'[q].reward = redemption[q].reward
  BY <1>2 DEF Live, Row
<1>. QED
  BY <1>0, <1>1, <1>3, <1>4, StayLive

\* A decision written over a settled payout moves nothing, and brings a refunded
\* one back to life.
LEMMA StaleConserves ==
  ASSUME ConservedInv, TypeOK', NEW w \in Workers, StaleStamp(w)
  PROVE  LET k == job[w].key IN
         /\ k \in Keys /\ IsFiniteSet(Live')
         /\ \A u \in Users : (Revived(k) => KeyOwner[k] # u) => Holding(u)' = Holding(u)
         /\ \A r \in Rewards :
              (Revived(k) => redemption[k].reward # r) => Units(r)' = Units(r)
<1>. DEFINE k == job[w].key
            s == job[w].target
<1>0. /\ TypeOK /\ IsFiniteSet(Live) /\ Live \subseteq Keys
      /\ k \in Keys /\ KeyOwner[k] \in Users /\ s \in {"approved", "fulfilled"}
      /\ redemption[k].status \in {"fulfilled", "rejected"}
      /\ SetStatus(k, s) /\ UNCHANGED <<points, stock>>
  BY JobFields, RewardAssumption
     DEF ConservedInv, Inv, Live, StaleStamp, Stamp, InFlight, StampsCash
<1>1. /\ redemption'[k] = Row(s, redemption[k].reward, redemption[k].spent)
      /\ \A q \in Keys \ {k} : redemption'[q] = redemption[q]
  BY <1>0 DEF SetStatus, TypeOK
<1>2. CASE redemption[k].status = "fulfilled"
  <2>1. Live' = Live
    BY <1>0, <1>1, <1>2 DEF Live, Row
  <2>2. \A q \in Live : /\ redemption'[q].spent = redemption[q].spent
                        /\ redemption'[q].reward = redemption[q].reward
    BY <1>1 DEF Live, Row
  <2>3. /\ IsFiniteSet(Live')
        /\ \A u \in Users : Holding(u)' = Holding(u)
        /\ \A r \in Rewards : Units(r)' = Units(r)
    BY <1>0, <2>1, <2>2, StayLive
  <2>. QED
    BY <1>0, <2>3
<1>3. CASE redemption[k].status = "rejected"
  <2>1. Revived(k)
    BY <1>3 DEF Revived
  <2>2. k \notin Live /\ Live' = Live \cup {k}
    BY <1>0, <1>1, <1>3 DEF Live, Row
  <2>3. /\ redemption'[k].spent = redemption[k].spent
        /\ redemption'[k].reward = redemption[k].reward
        /\ redemption[k].spent \in Nat
    BY <1>0, <1>1, <1>3, RowFields DEF Row
  <2>4. MoreBy(redemption, redemption', Live, k)
    BY <1>0, <1>1, <2>2, <2>3, LiveStatus DEF MoreBy
  <2>5. ASSUME NEW u \in Users, KeyOwner[k] # u
        PROVE  Holding(u)' = Holding(u)
    <3>1. SpentBy(redemption', Live', u) = SpentBy(redemption, Live, u)
      BY <2>2, <2>4, <2>5, SpentMore
    <3>. QED
      BY <1>0, <3>1, TotalsAre
  <2>6. ASSUME NEW r \in Rewards, redemption[k].reward # r
        PROVE  Units(r)' = Units(r)
    <3>1. HandedOut(redemption', Live', r) = HandedOut(redemption, Live, r)
      BY <2>2, <2>3, <2>4, <2>6, HandedMore
    <3>. QED
      BY <1>0, <3>1, TotalsAre
  <2>7. IsFiniteSet(Live')
    BY <1>0, <2>2, FS_AddElement
  <2>. QED
    BY <1>0, <2>1, <2>5, <2>6, <2>7
<1>. QED
  BY <1>0, <1>2, <1>3

\* A step moves a total only as an admin's edit of it or as one of the defects.
Conserves ==
  /\ \A u \in Users :
       \/ Holding(u)' = Holding(u)
       \/ \E w \in Admins, n \in Balances : PatchUser(w, u, n)
       \/ \E k \in Keys : KeyOwner[k] = u /\ Revived(k)
  /\ \A r \in Rewards : Limited(r) =>
       \/ \E w \in Admins : PatchReward(w, r)
       \/ Units(r)' = Units(r)
       \/ \E w \in Students : job[w].reward = r /\ UnreservedInsert(w)
       \/ \E k \in Keys : redemption[k].reward = r /\ Revived(k)

LEMMA ConservedStep ==
  ASSUME ConservedInv, TypeOK', [Next]_vars
  PROVE  IsFiniteSet(Live') /\ Conserves
<1>0. TypeOK /\ IsFiniteSet(Live)
  BY DEF ConservedInv, Inv
<1>1. ASSUME redemption' = redemption
      PROVE  /\ IsFiniteSet(Live')
             /\ \A u \in Users : points'[u] = points[u] => Holding(u)' = Holding(u)
             /\ \A r \in Rewards : stock'[r] = stock[r] => Units(r)' = Units(r)
  <2>1. Live' = Live
    BY <1>1 DEF Live
  <2>. QED
    BY <1>0, <1>1, <2>1, StayLive
<1>2. ASSUME NEW w \in Admins, NEW u \in Users, NEW n \in Balances, PatchUser(w, u, n)
      PROVE  /\ redemption' = redemption /\ stock' = stock
             /\ \A v \in Users : points'[v] = points[v] \/ v = u
  BY <1>0, <1>2 DEF PatchUser, TypeOK
<1>3. ASSUME NEW w \in Admins, NEW r \in Rewards, PatchReward(w, r)
      PROVE  /\ redemption' = redemption /\ points' = points
             /\ \A x \in Rewards : stock'[x] = stock[x] \/ x = r
  BY <1>0, <1>3 DEF PatchReward, Edited, TypeOK
<1>4. CASE UNCHANGED ledger
  BY <1>0, <1>1, <1>4 DEF ledger, Conserves
<1>5. CASE \E k \in Keys : Redeem(k) \/ Refund(k) \/ Decide(k)
  <2>1. /\ IsFiniteSet(Live')
        /\ \A u \in Users : Holding(u)' = Holding(u)
        /\ \A r \in Rewards : Limited(r) => Units(r)' = Units(r)
    BY <1>5, RedeemConserves, RefundConserves, DecideConserves
  <2>. QED
    BY <2>1 DEF Conserves
<1>6. CASE \E w \in Admins, u \in Users, n \in Balances : PatchUser(w, u, n)
  BY <1>0, <1>1, <1>2, <1>6 DEF Conserves
<1>7. CASE \E w \in Admins, r \in Rewards : PatchReward(w, r)
  BY <1>0, <1>1, <1>3, <1>7 DEF Conserves
<1>8. ASSUME NEW w \in Workers, UnreservedInsert(w), redemption[job[w].key] = NoRow
      PROVE  IsFiniteSet(Live') /\ Conserves
  <2>. DEFINE k == job[w].key
              x == job[w].reward
  <2>1. /\ k \in Keys /\ x \in Rewards /\ job[w].spent \in Nat
        /\ job[w].target \in {"available", "pending"} /\ ~job[w].unit
        /\ Grant(k, x, job[w].spent, job[w].target, FALSE)
    BY <1>8, JobFields
       DEF UnreservedInsert, Insert, ConservedInv, Inv, InFlight, InsertsNew
  <2>2. /\ IsFiniteSet(Live')
        /\ \A u \in Users : Holding(u)' = Holding(u)
        /\ \A r \in Rewards : Limited(r) /\ r # x => Units(r)' = Units(r)
    BY <1>8, <2>1, GrantConserves
  <2>3. w \in Students
    BY <1>8 DEF UnreservedInsert, Insert, ConservedInv, Inv, InFlight, InsertsNew
  <2>. QED
    BY <1>8, <2>2, <2>3 DEF Conserves
<1>9. ASSUME NEW w \in Workers, StaleStamp(w)
      PROVE  IsFiniteSet(Live') /\ Conserves
  BY <1>9, StaleConserves DEF Conserves
<1>. QED
  BY <1>4, <1>5, <1>6, <1>7, <1>8, <1>9, CommitStep DEF ConservedInv

\* What a student has and has spent, and the units on the shelf and handed out,
\* move only when an admin sets a balance or a stock, or by one of the two
\* defects: for any number of students, admins, keys and rewards, however their
\* transactions interleave, are refused, deadlock or are cut off.
THEOREM TotalsConserved == Spec => ResourcesConserved
<1>1. Init => ConservedInv
  <2>1. Init => Live = {}
    BY DEF Init, Live, NoRow, Row
  <2>. QED
    BY <2>1, InvInit, FS_EmptySet DEF ConservedInv
<1>2. ConservedInv /\ [Next]_vars => ConservedInv' /\ [Conserves]_vars
  BY InvStep, ConservedStep DEF ConservedInv, Inv
<1>. QED
  BY <1>1, <1>2, PTL DEF Spec, ResourcesConserved, Conserves

-----------------------------------------------------------------------------
\* What was given back, summed over the refunded redemptions.

Back == {k \in Keys : redemption[k].status \in {"cancelled", "rejected"}}
GivenBack(u) == SpentBy(redemption, Back, u)

BackInv == Inv /\ IsFiniteSet(Back)

\* A step is an admin's edit of a balance, or adds to it what it gives back at
\* the most.
Repaid(u) ==
  \/ \E w \in Admins, n \in Balances : PatchUser(w, u, n)
  \/ /\ GivenBack(u)' \in Nat /\ GivenBack(u)' >= GivenBack(u)
     /\ points'[u] - points[u] <= GivenBack(u)' - GivenBack(u)

LEMMA BackFields ==
  ASSUME BackInv
  PROVE  /\ TypeOK /\ Back \subseteq Keys
         /\ \A k \in Back : redemption[k].spent \in Nat /\ redemption[k] # NoRow
         /\ \A u : GivenBack(u) \in Nat
<1>1. TypeOK /\ Back \subseteq Keys
  BY DEF BackInv, Inv, Back
<1>2. \A k \in Back : redemption[k].spent \in Nat /\ redemption[k] # NoRow
  BY <1>1, RowFields DEF Back
<1>3. ASSUME NEW u
      PROVE  GivenBack(u) \in Nat
  <2>. DEFINE S == {k \in Back : KeyOwner[k] = u}
              f == Spends(redemption)
  <2>1. IsFiniteSet(S)
    <3>1. S \in SUBSET Back
      OBVIOUS
    <3>. QED
      BY <3>1, FS_Subset DEF BackInv
  <2>2. \A k \in S : f[k] \in Nat
    BY <1>1, <1>2 DEF Spends
  <2>. HIDE DEF S, f
  <2>3. SumFunctionOnSet(f, S) \in Nat
    BY <2>1, <2>2, SumType
  <2>. QED
    BY <2>3 DEF S, f, GivenBack, SpentBy
<1>. QED
  BY <1>1, <1>2, <1>3

\* The refunded rows stay, and nothing is given back.
LEMMA BackFrame ==
  ASSUME BackInv, Back' = Back, \A k \in Back : redemption'[k] = redemption[k]
  PROVE  IsFiniteSet(Back') /\ \A u : GivenBack(u)' = GivenBack(u)
<1>1. ASSUME NEW u
      PROVE  GivenBack(u)' = GivenBack(u)
  <2>. DEFINE S == {k \in Back : KeyOwner[k] = u}
              f == Spends(redemption)
              g == Spends(redemption')
  <2>1. IsFiniteSet(S)
    <3>1. S \in SUBSET Back
      OBVIOUS
    <3>. QED
      BY <3>1, FS_Subset DEF BackInv
  <2>2. \A k \in S : f[k] = g[k]
    BY BackFields DEF Spends
  <2>. HIDE DEF S, f, g
  <2>3. SumFunctionOnSet(f, S) = SumFunctionOnSet(g, S)
    BY <2>1, <2>2, SumSame
  <2>. QED
    BY <2>3 DEF S, f, g, GivenBack, SpentBy
<1>. QED
  BY <1>1 DEF BackInv

\* A refund adds to the balance what it adds to what was given back.
LEMMA RefundRepays ==
  ASSUME BackInv, TypeOK', NEW k \in Keys, Refund(k)
  PROVE  /\ IsFiniteSet(Back')
         /\ \A u \in Users : /\ GivenBack(u)' \in Nat /\ GivenBack(u)' >= GivenBack(u)
                             /\ points'[u] - points[u] <= GivenBack(u)' - GivenBack(u)
<1>0. TypeOK /\ IsFiniteSet(Back) /\ Back \subseteq Keys /\ KeyOwner[k] \in Users
  BY BackFields, RewardAssumption DEF BackInv
<1>. DEFINE n == redemption[k].spent
            s == RefundTo[redemption[k].status]
<1>1. /\ redemption[k].status \in DOMAIN RefundTo /\ s \in {"cancelled", "rejected"}
      /\ GiveBack(k, s)
  BY DEF Refund, RefundTo
<1>2. /\ redemption'[k] = Row(s, redemption[k].reward, n)
      /\ \A q \in Keys \ {k} : redemption'[q] = redemption[q]
  BY <1>0, <1>1 DEF GiveBack, SetStatus, TypeOK
<1>3. n \in Nat
  BY <1>0, <1>1, RowFields DEF RefundTo
<1>4. k \in Keys \ Back /\ Back' = Back \cup {k}
  BY <1>0, <1>1, <1>2 DEF Back, RefundTo, Row
<1>5. /\ \A q \in Back : /\ redemption[q].spent = redemption'[q].spent
                         /\ redemption[q].reward = redemption'[q].reward
      /\ \A q \in Back \cup {k} : redemption'[q].spent \in Nat
      /\ redemption'[k].spent = n
  BY <1>0, <1>2, <1>3, <1>4, BackFields DEF Row
<1>6. MoreBy(redemption, redemption', Back, k)
  BY <1>0, <1>4, <1>5 DEF MoreBy
<1>7. ASSUME NEW u \in Users
      PROVE  /\ GivenBack(u)' \in Nat /\ GivenBack(u)' >= GivenBack(u)
             /\ points'[u] - points[u] <= GivenBack(u)' - GivenBack(u)
  <2>1. /\ SpentBy(redemption, Back, u) \in Nat
        /\ KeyOwner[k] # u => SpentBy(redemption', Back', u) = SpentBy(redemption, Back, u)
        /\ KeyOwner[k] = u
             => SpentBy(redemption', Back', u) = SpentBy(redemption, Back, u) + n
    BY <1>4, <1>5, <1>6, SpentMore
  <2>2. /\ points[u] \in Int
        /\ points'[u] = IF KeyOwner[k] = u THEN points[u] + n ELSE points[u]
    BY <1>0, <1>1 DEF GiveBack, TypeOK
  <2>. HIDE DEF n
  <2>. QED
    BY <1>3, <2>1, <2>2 DEF GivenBack
<1>8. IsFiniteSet(Back')
  BY <1>0, <1>4, FS_AddElement
<1>. QED
  BY <1>7, <1>8

\* A decision written over a refund takes it, and no more, out of what was given
\* back to its student, and leaves the balances alone.
Reversed(k) ==
  LET u == KeyOwner[k] IN
  /\ redemption[k].spent \in Nat /\ GivenBack(u)' \in Nat
  /\ GivenBack(u) = GivenBack(u)' + redemption[k].spent
  /\ points'[u] = points[u]

LEMMA StaleRepays ==
  ASSUME BackInv, NEW w \in Workers, NEW k \in Keys, k = job[w].key, StaleStamp(w)
  PROVE  /\ IsFiniteSet(Back')
         /\ \A u \in Users : (Revived(k) => KeyOwner[k] # u) => Repaid(u)
         /\ Revived(k) => Reversed(k)
<1>. DEFINE s == job[w].target
<1>0. /\ TypeOK /\ IsFiniteSet(Back) /\ Back \subseteq Keys /\ k \in Keys
      /\ s \in {"approved", "fulfilled"}
      /\ redemption[k].status \in {"fulfilled", "rejected"}
      /\ SetStatus(k, s) /\ UNCHANGED <<points, stock>>
  BY JobFields DEF BackInv, Inv, Back, StaleStamp, Stamp, InFlight, StampsCash
<1>1. /\ redemption'[k] = Row(s, redemption[k].reward, redemption[k].spent)
      /\ \A q \in Keys \ {k} : redemption'[q] = redemption[q]
  BY <1>0 DEF SetStatus, TypeOK
<1>2. CASE redemption[k].status = "fulfilled"
  <2>1. Back' = Back /\ \A q \in Back : redemption'[q] = redemption[q]
    BY <1>0, <1>1, <1>2 DEF Back, Row
  <2>2. IsFiniteSet(Back') /\ \A u : GivenBack(u)' = GivenBack(u) /\ GivenBack(u) \in Nat
    BY <2>1, BackFrame, BackFields
  <2>3. \A u \in Users : points[u] \in Int /\ points'[u] = points[u]
    BY <1>0 DEF TypeOK
  <2>4. \A u \in Users : Repaid(u)
    BY <2>2, <2>3 DEF Repaid
  <2>5. ~Revived(k)
    BY <1>2 DEF Revived
  <2>. QED
    BY <1>0, <2>2, <2>4, <2>5
<1>3. CASE redemption[k].status = "rejected"
  <2>1. Revived(k)
    BY <1>3 DEF Revived
  <2>2. k \in Back /\ Back' = Back \ {k}
    BY <1>0, <1>1, <1>3 DEF Back, Row
  <2>3. IsFiniteSet(Back') /\ Back' \cup {k} = Back /\ k \in Keys \ Back' /\ Back' \subseteq Keys
    BY <1>0, <2>2, FS_RemoveElement
  <2>4. MoreBy(redemption', redemption, Back', k)
    BY <1>0, <1>1, <2>2, <2>3, BackFields DEF MoreBy
  <2>5. ASSUME NEW u \in Users, KeyOwner[k] # u
        PROVE  Repaid(u)
    <3>1. /\ SpentBy(redemption', Back', u) \in Nat
          /\ SpentBy(redemption, Back, u) = SpentBy(redemption', Back', u)
      BY <2>3, <2>4, <2>5, SpentMore
    <3>2. points[u] \in Int /\ points'[u] = points[u]
      BY <1>0 DEF TypeOK
    <3>. QED
      BY <3>1, <3>2 DEF Repaid, GivenBack
  <2>6. Reversed(k)
    <3>1. /\ SpentBy(redemption', Back', KeyOwner[k]) \in Nat
          /\ SpentBy(redemption, Back, KeyOwner[k])
               = SpentBy(redemption', Back', KeyOwner[k]) + redemption[k].spent
      BY <2>3, <2>4, SpentMore
    <3>2. redemption[k].spent \in Nat /\ points' = points
      BY <1>0, <2>2, BackFields
    <3>. QED
      BY <3>1, <3>2 DEF Reversed, GivenBack
  <2>. QED
    BY <1>0, <2>1, <2>3, <2>5, <2>6
<1>. QED
  BY <1>0, <1>2, <1>3

\* Balances rise by refunds and edits alone, and a refund stays one unless a
\* stale decision is written over it.
LEMMA BackStep ==
  ASSUME BackInv, [Next]_vars
  PROVE  /\ BackInv'
         /\ \A u \in Users : Repaid(u) \/ \E k \in Keys : KeyOwner[k] = u /\ Revived(k)
<1>0. TypeOK /\ TypeOK' /\ Inv'
  BY InvStep DEF BackInv, Inv
<1>1. ASSUME Back' = Back, \A k \in Back : redemption'[k] = redemption[k],
             NEW u \in Users, points'[u] <= points[u]
      PROVE  Repaid(u)
  <2>1. points[u] \in Int /\ points'[u] \in Int /\ GivenBack(u) \in Nat
    BY <1>0, BackFields DEF TypeOK
  <2>2. GivenBack(u)' = GivenBack(u)
    BY <1>1, BackFrame
  <2>. QED
    BY <1>1, <2>1, <2>2 DEF Repaid
<1>2. ASSUME redemption' = redemption
      PROVE  Back' = Back /\ IsFiniteSet(Back')
  BY <1>2 DEF Back, BackInv
<1>3. ASSUME NEW k \in Keys,
             \/ Redeem(k)
             \/ \E w \in Workers :
                  /\ k = job[w].key /\ redemption[k] = NoRow /\ UnreservedInsert(w)
      PROVE  IsFiniteSet(Back') /\ \A u \in Users : Repaid(u)
  <2>1. PICK x \in Rewards, n \in Nat, s \in {"available", "pending"}, unit \in BOOLEAN :
          redemption[k] = NoRow /\ Grant(k, x, n, s, unit)
    <3>1. ASSUME NEW w \in Workers, k = job[w].key, redemption[k] = NoRow,
                 UnreservedInsert(w)
          PROVE  /\ Grant(k, job[w].reward, job[w].spent, job[w].target, job[w].unit)
                 /\ job[w].reward \in Rewards /\ job[w].spent \in Nat
                 /\ job[w].target \in {"available", "pending"} /\ job[w].unit \in BOOLEAN
      BY <1>0, <3>1, JobFields
         DEF UnreservedInsert, Insert, BackInv, Inv, InFlight, InsertsNew
    <3>2. CASE Redeem(k)
      BY <3>2 DEF Redeem, Limited
    <3>. QED
      BY <1>3, <3>1, <3>2
  <2>2. /\ redemption'[k] = Row(s, x, n)
        /\ \A q \in Keys \ {k} : redemption'[q] = redemption[q]
    BY <1>0, <2>1 DEF Grant, TypeOK
  <2>3. Back' = Back /\ k \notin Back
    BY <2>1, <2>2 DEF Back, NoRow, Row
  <2>4. \A u \in Users : points'[u] <= points[u]
    BY <1>0, <2>1 DEF Grant, TypeOK
  <2>5. \A q \in Back : redemption'[q] = redemption[q]
    BY <2>2, <2>3, BackFields
  <2>. QED
    BY <1>1, <2>3, <2>4, <2>5, BackFrame
<1>4. ASSUME NEW k \in Keys, Refund(k)
      PROVE  IsFiniteSet(Back') /\ \A u \in Users : Repaid(u)
  BY <1>0, <1>4, RefundRepays DEF Repaid
<1>5. ASSUME NEW k \in Keys, Decide(k)
      PROVE  IsFiniteSet(Back') /\ \A u \in Users : Repaid(u)
  <2>1. PICK s \in {"used", "approved", "fulfilled"} :
          /\ redemption[k].status \in {"available", "pending", "approved"}
          /\ SetStatus(k, s) /\ UNCHANGED <<points, stock>>
    BY <1>5 DEF Decide, DecideTo
  <2>2. /\ redemption'[k] = Row(s, redemption[k].reward, redemption[k].spent)
        /\ \A q \in Keys \ {k} : redemption'[q] = redemption[q]
    BY <1>0, <2>1 DEF SetStatus, TypeOK
  <2>3. Back' = Back /\ k \notin Back
    BY <2>1, <2>2 DEF Back, Row
  <2>4. \A u \in Users : points'[u] <= points[u]
    BY <1>0, <2>1 DEF TypeOK
  <2>5. \A q \in Back : redemption'[q] = redemption[q]
    BY <2>2, <2>3, BackFields
  <2>. QED
    BY <1>1, <2>3, <2>4, <2>5, BackFrame
<1>6. ASSUME NEW w \in Admins, NEW v \in Users, NEW n \in Balances, PatchUser(w, v, n)
      PROVE  IsFiniteSet(Back') /\ \A u \in Users : Repaid(u)
  <2>1. redemption' = redemption /\ \A u \in Users \ {v} : points'[u] = points[u]
    BY <1>0, <1>6 DEF PatchUser, TypeOK
  <2>2. Repaid(v)
    BY <1>6 DEF Repaid
  <2>3. \A u \in Users \ {v} : points'[u] <= points[u]
    BY <1>0, <2>1 DEF TypeOK
  <2>. QED
    BY <1>1, <1>2, <2>1, <2>2, <2>3
<1>7. CASE UNCHANGED <<points, redemption>>
  <2>1. \A u \in Users : points'[u] <= points[u]
    BY <1>0, <1>7 DEF TypeOK
  <2>. QED
    BY <1>0, <1>1, <1>2, <1>7, <2>1 DEF BackInv
<1>8. ASSUME NEW w \in Admins, NEW r \in Rewards, PatchReward(w, r)
      PROVE  UNCHANGED <<points, redemption>>
  BY <1>8 DEF PatchReward
<1>9. ASSUME NEW w \in Workers, StaleStamp(w)
      PROVE  /\ IsFiniteSet(Back')
             /\ \A u \in Users : Repaid(u) \/ \E k \in Keys : KeyOwner[k] = u /\ Revived(k)
  <2>1. job[w].key \in Keys
    BY <1>0, <1>9, JobFields DEF StaleStamp, Stamp
  <2>. QED
    BY <1>9, <2>1, StaleRepays
<1>10. ASSUME NEW w \in Workers, UnreservedInsert(w), redemption[job[w].key] = NoRow
       PROVE  IsFiniteSet(Back') /\ \A u \in Users : Repaid(u)
  <2>1. job[w].key \in Keys
    BY <1>0, <1>10, JobFields DEF UnreservedInsert, Insert
  <2>. QED
    BY <1>3, <1>10, <2>1
<1>. QED
  BY <1>0, <1>3, <1>4, <1>5, <1>6, <1>7, <1>8, <1>9, <1>10, CommitStep DEF BackInv, ledger

\* Nothing was given back yet.
LEMMA BackInit ==
  ASSUME Init
  PROVE  BackInv /\ \A u : GivenBack(u) = 0
<1>1. Back = {} /\ IsFiniteSet({})
  BY FS_EmptySet DEF Init, Back, NoRow, Row
<1>3. SumFunctionOnSet(Spends(redemption), {}) = 0
  BY <1>1, SumStep
<1>4. ASSUME NEW u
      PROVE  GivenBack(u) = 0
  <2>1. {k \in {} : KeyOwner[k] = u} = {}
    OBVIOUS
  <2>. QED
    BY <1>1, <1>3, <2>1 DEF GivenBack, SpentBy
<1>. QED
  BY <1>1, <1>4, InvInit DEF BackInv
=============================================================================
