---------------------------- MODULE BackendProofs ----------------------------
(***************************************************************************)
(* The parts of the backend beside deposits and rewards, and its data      *)
(* tools, each for any value of its constants: the minting of operation    *)
(* ids, the rate limiter, the accounts, the classifier behind the AI       *)
(* service, the admin back office, the migrations and the splitting of the *)
(* dataset.  They share no variable: each part has an inductive invariant  *)
(* of its own and is proved alone.  Two results about accounts take one    *)
(* thread at a time as a hypothesis: changing passwords, moderating.       *)
(***************************************************************************)
EXTENDS Accounts, OperationCounter, RateLimiter, BackOffice, Serving, Schema,
        Dataset, SumProofs

-----------------------------------------------------------------------------
(* Minting: whoever is about to commit holds the day's row, or the right   *)
(* to insert it, and has read its current value.                           *)

\* The last number of a day; a day without a row has minted none.
Current(d) == IF d \in DOMAIN counter THEN counter[d] ELSE 0

MintRecords == [at : {"idle", "insert", "update"}, day : Days, value : Nat]

CounterTypes ==
  /\ today \in Days
  /\ DOMAIN counter \subseteq Days /\ \A d \in DOMAIN counter : counter[d] \in Nat
  /\ holder \in [Days -> Threads \cup {Nobody}]
  /\ minted \in [Days -> Seq(Nat)]
  /\ mint \in [Threads -> MintRecords]

\* What a transaction has read is still so when it commits.
HoldsWhatItRead ==
  \A t \in Threads :
    mint[t].at = "update" =>
      holder[mint[t].day] = t /\ mint[t].value = Current(mint[t].day)

CounterInv == CounterTypes /\ HoldsWhatItRead /\ MintedDense

\* One more number behind 1, 2, ... n.
LEMMA DenseAppend ==
  ASSUME NEW n \in Nat
  PROVE  Append([i \in 1..n |-> i], n + 1) = [i \in 1..n + 1 |-> i]
<1>. DEFINE s == [i \in 1..n |-> i]
<1>1. s \in Seq(Nat) /\ Len(s) = n
  OBVIOUS
<1>2. Append(s, n + 1) = [i \in 1..n + 1 |-> IF i = n + 1 THEN n + 1 ELSE s[i]]
  BY <1>1
<1>3. \A i \in 1..n + 1 : (IF i = n + 1 THEN n + 1 ELSE s[i]) = i
  OBVIOUS
<1>. QED
  BY <1>2, <1>3

LEMMA InitCounter ==
  ASSUME CounterAssumption, CounterInit
  PROVE  CounterInv
<1>1. 0 \in Days
  BY DEF CounterAssumption, Days
<1>2. CounterTypes
  BY <1>1 DEF CounterInit, CounterTypes, NoMint, MintRecords
<1>3. HoldsWhatItRead
  BY DEF CounterInit, HoldsWhatItRead, NoMint
<1>4. MintedDense
  BY <1>1 DEF CounterInit, MintedDense
<1>. QED
  BY <1>2, <1>3, <1>4 DEF CounterInv

\* SELECT ... FOR UPDATE, for a day with a row and for one without.
LEMMA SelectKeeps ==
  ASSUME CounterAssumption, CounterInv, NEW t \in Threads, Select(t)
  PROVE  CounterInv'
<1>. USE DEF CounterInv
<1>1. CASE today \in DOMAIN counter
  <2>1. /\ holder[today] = Nobody
        /\ holder' = [holder EXCEPT ![today] = t]
        /\ mint' = [mint EXCEPT ![t] = [at |-> "update", day |-> today,
                                      value |-> counter[today]]]
        /\ UNCHANGED <<today, counter, minted>>
    BY <1>1 DEF Select, Goes
  <2>2. CounterTypes'
    BY <1>1, <2>1 DEF CounterTypes, MintRecords
  <2>3. HoldsWhatItRead'
    <3>. SUFFICES ASSUME NEW u \in Threads, mint'[u].at = "update"
                  PROVE  (holder[mint[u].day] = u /\ mint[u].value = Current(mint[u].day))'
      BY DEF HoldsWhatItRead
    <3>1. CASE u = t
      BY <1>1, <2>1, <3>1 DEF CounterTypes, Current
    <3>2. CASE u # t
      <4>1. mint'[u] = mint[u]
        BY <2>1, <3>2 DEF CounterTypes
      <4>2. holder[mint[u].day] = u /\ mint[u].value = Current(mint[u].day)
        BY <4>1 DEF HoldsWhatItRead
      <4>3. mint[u].day # today
        BY <2>1, <4>2 DEF CounterAssumption
      <4>. QED
        BY <2>1, <4>1, <4>2, <4>3 DEF CounterTypes, Current
    <3>. QED
      BY <3>1, <3>2
  <2>4. MintedDense'
    BY <2>1 DEF MintedDense
  <2>. QED
    BY <2>2, <2>3, <2>4
<1>2. CASE today \notin DOMAIN counter
  <2>1. /\ mint' = [mint EXCEPT ![t] = [at |-> "insert", day |-> today, value |-> 0]]
        /\ UNCHANGED <<today, counter, holder, minted>>
    BY <1>2 DEF Select, Goes
  <2>2. CounterTypes'
    BY <2>1 DEF CounterTypes, MintRecords
  <2>3. HoldsWhatItRead'
    BY <2>1 DEF CounterTypes, HoldsWhatItRead, Current
  <2>4. MintedDense'
    BY <2>1 DEF MintedDense
  <2>. QED
    BY <2>2, <2>3, <2>4
<1>. QED
  BY <1>1, <1>2

\* The first INSERT of a day, and the ones the primary key refuses.
LEMMA InsertKeeps ==
  ASSUME CounterAssumption, CounterInv, NEW t \in Threads, Insert(t)
  PROVE  CounterInv'
<1>. USE DEF CounterInv
<1>. DEFINE d == mint[t].day
<1>0. d \in Days /\ holder[d] = Nobody
  BY DEF CounterTypes, MintRecords, Insert
<1>1. CASE d \in DOMAIN counter
  <2>1. /\ mint' = [mint EXCEPT ![t] = NoMint]
        /\ UNCHANGED <<today, counter, holder, minted>>
    BY <1>1 DEF Insert
  <2>2. CounterTypes'
    BY <2>1 DEF CounterTypes, MintRecords, NoMint, Days, CounterAssumption
  <2>3. HoldsWhatItRead'
    BY <2>1 DEF CounterTypes, HoldsWhatItRead, Current, NoMint
  <2>4. MintedDense'
    BY <2>1 DEF MintedDense
  <2>. QED
    BY <2>2, <2>3, <2>4
<1>2. CASE d \notin DOMAIN counter
  <2>1. /\ holder' = [holder EXCEPT ![d] = t]
        /\ mint' = [mint EXCEPT ![t] = [at |-> "update", day |-> d, value |-> 0]]
        /\ UNCHANGED <<today, counter, minted>>
    BY <1>2 DEF Insert, Goes
  <2>2. CounterTypes'
    BY <1>0, <2>1 DEF CounterTypes, MintRecords
  <2>3. HoldsWhatItRead'
    <3>. SUFFICES ASSUME NEW u \in Threads, mint'[u].at = "update"
                  PROVE  (holder[mint[u].day] = u /\ mint[u].value = Current(mint[u].day))'
      BY DEF HoldsWhatItRead
    <3>1. CASE u = t
      BY <1>0, <1>2, <2>1, <3>1 DEF CounterTypes, Current
    <3>2. CASE u # t
      <4>1. mint'[u] = mint[u]
        BY <2>1, <3>2 DEF CounterTypes
      <4>2. holder[mint[u].day] = u /\ mint[u].value = Current(mint[u].day)
        BY <4>1 DEF HoldsWhatItRead
      <4>3. mint[u].day # d
        BY <1>0, <4>2 DEF CounterAssumption
      <4>. QED
        BY <2>1, <4>1, <4>2, <4>3 DEF CounterTypes, Current
    <3>. QED
      BY <3>1, <3>2
  <2>4. MintedDense'
    BY <2>1 DEF MintedDense
  <2>. QED
    BY <2>2, <2>3, <2>4
<1>. QED
  BY <1>1, <1>2

\* The commit gives the next number: the holder alone is about to commit.
LEMMA CommitKeeps ==
  ASSUME CounterAssumption, CounterInv, NEW t \in Threads, Commit(t)
  PROVE  CounterInv'
<1>. USE DEF CounterInv
<1>. DEFINE d == mint[t].day
            n == mint[t].value
<1>1. /\ d \in Days /\ n \in Nat /\ holder[d] = t /\ n = Current(d)
      /\ counter' = [e \in DOMAIN counter \cup {d} |-> IF e = d THEN n + 1 ELSE counter[e]]
      /\ minted' = [minted EXCEPT ![d] = Append(minted[d], n + 1)]
      /\ holder' = [holder EXCEPT ![d] = Nobody]
      /\ mint' = [mint EXCEPT ![t] = NoMint]
      /\ today' = today
  BY DEF Commit, CounterTypes, MintRecords, HoldsWhatItRead
<1>2. CounterTypes'
  <2>1. minted' \in [Days -> Seq(Nat)]
    BY <1>1 DEF CounterTypes
  <2>2. DOMAIN counter' \subseteq Days /\ \A e \in DOMAIN counter' : counter'[e] \in Nat
    BY <1>1 DEF CounterTypes
  <2>3. mint' \in [Threads -> MintRecords]
    BY <1>1 DEF CounterTypes, MintRecords, NoMint, Days, CounterAssumption
  <2>. QED
    BY <1>1, <2>1, <2>2, <2>3 DEF CounterTypes
<1>3. HoldsWhatItRead'
  <2>. SUFFICES ASSUME NEW u \in Threads, mint'[u].at = "update"
                PROVE  (holder[mint[u].day] = u /\ mint[u].value = Current(mint[u].day))'
    BY DEF HoldsWhatItRead
  <2>1. u # t /\ mint'[u] = mint[u]
    BY <1>1 DEF CounterTypes, NoMint
  <2>2. holder[mint[u].day] = u /\ mint[u].value = Current(mint[u].day)
    BY <2>1 DEF HoldsWhatItRead
  <2>3. mint[u].day # d
    BY <1>1, <2>1, <2>2
  <2>4. mint[u].day \in Days
    BY DEF CounterTypes, MintRecords
  <2>. QED
    BY <1>1, <2>1, <2>2, <2>3, <2>4 DEF CounterTypes, Current
<1>4. MintedDense'
  <2>. SUFFICES ASSUME NEW e \in Days
                PROVE  minted'[e] = [i \in 1..Current(e)' |-> i]
    BY DEF MintedDense, Current
  <2>1. minted[e] = [i \in 1..Current(e) |-> i]
    BY DEF MintedDense, Current
  <2>2. CASE e = d
    <3>1. Current(e)' = n + 1
      BY <1>1, <2>2 DEF Current
    <3>2. minted'[e] = Append([i \in 1..n |-> i], n + 1)
      BY <1>1, <2>1, <2>2 DEF CounterTypes
    <3>. QED
      BY <1>1, <3>1, <3>2, DenseAppend
  <2>3. CASE e # d
    <3>1. Current(e)' = Current(e)
      BY <1>1, <2>3 DEF Current
    <3>2. minted'[e] = minted[e]
      BY <1>1, <2>3 DEF CounterTypes
    <3>. QED
      BY <2>1, <3>1, <3>2
  <2>. QED
    BY <2>2, <2>3
<1>. QED
  BY <1>2, <1>3, <1>4

\* A rollback frees what its own transaction held and nothing else.
LEMMA RollbackKeeps ==
  ASSUME CounterAssumption, CounterInv, NEW t \in Threads, Rollback(t)
  PROVE  CounterInv'
<1>. USE DEF CounterInv
<1>1. /\ holder' = [d \in Days |-> IF holder[d] = t THEN Nobody ELSE holder[d]]
      /\ mint' = [mint EXCEPT ![t] = NoMint]
      /\ UNCHANGED <<today, counter, minted>>
  BY DEF Rollback
<1>2. CounterTypes'
  BY <1>1 DEF CounterTypes, MintRecords, NoMint, Days, CounterAssumption
<1>3. HoldsWhatItRead'
  BY <1>1 DEF CounterTypes, MintRecords, HoldsWhatItRead, Current, NoMint
<1>4. MintedDense'
  BY <1>1 DEF MintedDense
<1>. QED
  BY <1>2, <1>3, <1>4

\* A boot finds no transaction and changes the number of no day.
LEMMA BootKeeps ==
  ASSUME CounterAssumption, CounterInv, Boot
  PROVE  CounterInv'
<1>. USE DEF CounterInv
<1>1. CounterTypes'
  BY DEF Boot, CounterTypes, MintRecords, NoMint, Days, CounterAssumption
<1>2. HoldsWhatItRead'
  BY DEF Boot, HoldsWhatItRead, NoMint
<1>3. MintedDense'
  <2>. SUFFICES ASSUME NEW d \in Days
                PROVE  minted'[d] = [i \in 1..Current(d)' |-> i]
    BY DEF MintedDense, Current
  <2>1. Current(d)' = Current(d)
    BY DEF Boot, Current
  <2>2. minted'[d] = minted[d]
    BY DEF Boot
  <2>. QED
    BY <2>1, <2>2 DEF MintedDense, Current
<1>. QED
  BY <1>1, <1>2, <1>3

\* "Concurrent minting cannot collide": however many threads mint, roll back,
\* cross midnight and are killed, the committed sessions of every day are
\* numbered 1, 2, 3 ... (next_operation_id in services/seed.py).
THEOREM MintingIsDense ==
  ASSUME CounterAssumption
  PROVE  CounterSpec => []MintedDense
<1>1. CounterInit => CounterInv
  BY InitCounter
<1>2. CounterInv /\ [CounterNext]_counterVars => CounterInv'
  <2>. SUFFICES ASSUME CounterInv, [CounterNext]_counterVars PROVE CounterInv'
    OBVIOUS
  <2>1. CASE Midnight
    <3>1. today' \in Days
      BY <2>1 DEF Midnight, CounterInv, CounterTypes, Days, CounterAssumption
    <3>. QED
      BY <2>1, <3>1 DEF Midnight, CounterInv, CounterTypes, HoldsWhatItRead, MintedDense, Current
  <2>2. CASE Boot
    BY <2>2, BootKeeps
  <2>3. ASSUME NEW t \in Threads, Select(t) \/ Insert(t) \/ Commit(t) \/ Rollback(t)
        PROVE  CounterInv'
    BY <2>3, SelectKeeps, InsertKeeps, CommitKeeps, RollbackKeeps
  <2>4. CASE UNCHANGED counterVars
    BY <2>4 DEF counterVars, CounterInv, CounterTypes, HoldsWhatItRead, MintedDense, Current
  <2>. QED
    BY <2>1, <2>2, <2>3, <2>4 DEF CounterNext
<1>3. CounterInv => MintedDense
  BY DEF CounterInv
<1>. QED
  BY <1>1, <1>2, <1>3, PTL DEF CounterSpec

-----------------------------------------------------------------------------
(* The rate limiter: a bucket is the end of what was admitted, and what    *)
(* was pruned from it is a window old.                                     *)

\* A bucket holds the end of what was admitted, each entry at most Lag before
\* its admission, and what has left it is a window old.
BucketOK(k) ==
  LET bucket == hits[k]
      all == admitted[k]
      left == Len(all) - Len(bucket)
  IN /\ left \in Nat
     /\ \A j \in 1..Len(bucket) : all[left + j] <= bucket[j] + Lag
     /\ \A i \in 1..left : now - all[i] > Window - Lag

LimiterTypes ==
  /\ now \in Nat
  /\ hits \in [Keys -> Seq(Nat)] /\ admitted \in [Keys -> Seq(Nat)]
  /\ waiting \in [Callers -> [key: Keys \cup {"none"}, time: Nat]]
  /\ \A t \in Callers : waiting[t] # NoAttempt =>
       waiting[t].key \in Keys /\ now - waiting[t].time \in 0..Lag

LimiterInv == LimiterTypes /\ (\A k \in Keys : BucketOK(k)) /\ WindowBound

\* What Prune drops is older than the window, and is the head of the bucket.
LEMMA PruneDrops ==
  ASSUME LimiterAssumption, NEW bucket \in Seq(Nat), NEW time \in Nat
  PROVE  \E d \in 0..Len(bucket) :
           /\ Prune(bucket, time) = SubSeq(bucket, d + 1, Len(bucket))
           /\ \A j \in 1..d : time - bucket[j] > Window
<1>. DEFINE Young == {i \in 1..Len(bucket) : time - bucket[i] <= Window}
<1>0. Len(bucket) \in Nat /\ Window \in Nat /\ Young \subseteq Nat
  BY DEF LimiterAssumption
<1>1. CASE Young = {}
  <2>1. ~ \E i \in 1..Len(bucket) : time - bucket[i] <= Window
    BY <1>1
  <2>2. Prune(bucket, time) = <<>>
    BY <2>1 DEF Prune
  <2>3. SubSeq(bucket, Len(bucket) + 1, Len(bucket)) = <<>>
    BY <1>0
  <2>4. \A j \in 1..Len(bucket) : time - bucket[j] > Window
    BY <1>0, <2>1
  <2>. QED
    BY <1>0, <2>2, <2>3, <2>4
<1>2. CASE Young # {}
  <2>1. PICK first \in Young : \A j \in Young : ~(<<j, first>> \in OpToRel(<, Nat))
    <3>. HIDE DEF Young
    <3>. QED
      BY <1>0, <1>2, NatLessThanWellFounded, WFMin
  <2>2. first \in 1..Len(bucket)
    OBVIOUS
  <2>3. ASSUME NEW j \in 1..first - 1
        PROVE  time - bucket[j] > Window
    <3>1. j \in 1..Len(bucket) /\ j \in Nat /\ first \in Nat /\ j < first
      BY <1>0, <2>2
    <3>2. j \notin Young
      BY <2>1, <3>1 DEF OpToRel
    <3>3. ~(time - bucket[j] <= Window)
      BY <3>1, <3>2
    <3>. QED
      BY <1>0, <3>1, <3>3
  <2>. DEFINE Earliest(i) == /\ time - bucket[i] <= Window
                             /\ \A j \in 1..i - 1 : time - bucket[j] > Window
              chosen == CHOOSE i \in 1..Len(bucket) : Earliest(i)
  <2>4. \E i \in 1..Len(bucket) : Earliest(i)
    BY <2>1, <2>3
  <2>5. chosen \in 1..Len(bucket) /\ Earliest(chosen)
    BY <2>4
  <2>6. Prune(bucket, time) = SubSeq(bucket, chosen, Len(bucket))
    BY <2>1 DEF Prune
  <2>. HIDE DEF chosen
  <2>7. chosen - 1 \in 0..Len(bucket) /\ chosen - 1 + 1 = chosen
    BY <1>0, <2>5
  <2>. QED
    BY <2>5, <2>6, <2>7
<1>. QED
  BY <1>1, <1>2

LEMMA LimiterStarts ==
  ASSUME LimiterAssumption, LimiterInit
  PROVE  LimiterInv
BY DEF LimiterInit, LimiterInv, LimiterTypes, BucketOK, WindowBound, NoAttempt, LimiterAssumption

\* The clock leaves every entry at least as old.
LEMMA TickKeeps ==
  ASSUME LimiterAssumption, LimiterInv, Tick
  PROVE  LimiterInv'
<1>. USE DEF LimiterInv
<1>1. now \in Nat /\ now' = now + 1 /\ UNCHANGED <<hits, waiting, admitted>>
  BY DEF Tick, LimiterTypes
<1>2. LimiterTypes'
  <2>1. ASSUME NEW t \in Callers, waiting[t] # NoAttempt
        PROVE  now' - waiting[t].time \in 0..Lag
    BY <1>1, <2>1 DEF Tick, LimiterTypes, LimiterAssumption
  <2>. QED
    BY <1>1, <2>1 DEF LimiterTypes
<1>3. ASSUME NEW k \in Keys PROVE BucketOK(k)'
  <2>. DEFINE all == admitted[k]
              left == Len(all) - Len(hits[k])
  <2>1. /\ left \in Nat
        /\ \A j \in 1..Len(hits[k]) : all[left + j] <= hits[k][j] + Lag
        /\ all \in Seq(Nat) /\ Window \in Nat /\ Lag \in Nat
    BY DEF BucketOK, LimiterTypes, LimiterAssumption
  <2>2. ASSUME NEW i \in 1..left
        PROVE  now' - all[i] > Window - Lag
    <3>1. now - all[i] > Window - Lag /\ i \in 1..Len(all)
      BY <1>1, <2>1 DEF BucketOK, LimiterTypes
    <3>2. all[i] \in Nat
      BY <2>1, <3>1
    <3>. QED
      BY <1>1, <2>1, <3>1, <3>2
  <2>3. all' = all /\ left' = left /\ hits'[k] = hits[k]
    BY <1>1
  <2>. HIDE DEF left, all, LimiterInv
  <2>4. BucketOK(k)' = ( /\ left' \in Nat
                         /\ \A j \in 1..Len(hits'[k]) : all'[left' + j] <= hits'[k][j] + Lag
                         /\ \A i \in 1..left' : now' - all'[i] > Window - Lag )
    BY DEF BucketOK, left, all
  <2>. QED
    BY <2>1, <2>2, <2>3, <2>4
<1>4. WindowBound'
  BY <1>1 DEF WindowBound
<1>. QED
  BY <1>2, <1>3, <1>4

LEMMA AttemptKeeps ==
  ASSUME LimiterAssumption, LimiterInv, NEW t \in Callers, NEW k \in Keys, Attempt(t, k)
  PROVE  LimiterInv'
<1>. USE DEF LimiterInv
<1>1. /\ waiting' = [waiting EXCEPT ![t] = [key |-> k, time |-> now]]
      /\ UNCHANGED <<now, hits, admitted>>
  BY DEF Attempt
<1>2. LimiterTypes'
  BY <1>1 DEF LimiterTypes, LimiterAssumption
<1>3. (\A l \in Keys : BucketOK(l))' /\ WindowBound'
  BY <1>1 DEF BucketOK, WindowBound
<1>. QED
  BY <1>2, <1>3

\* An entry read as older than the window was admitted nearly a window ago.
LEMMA DroppedLongAgo ==
  ASSUME NEW n \in Nat, NEW time \in Nat, NEW entry \in Nat, NEW at \in Nat,
         Window \in Nat, Lag \in Nat,
         time <= n, time - entry > Window, at <= entry + Lag
  PROVE  n - at > Window - Lag
OBVIOUS

\* What Prune leaves of a bucket is still the end of what was admitted, and what
\* it dropped was admitted a window ago, but for the Lag.
LEMMA PrunedOK ==
  ASSUME LimiterAssumption, LimiterInv, NEW t \in Callers, waiting[t] # NoAttempt
  PROVE  LET k == waiting[t].key
             bucket == Prune(hits[k], waiting[t].time)
             left == Len(admitted[k]) - Len(bucket)
         IN /\ k \in Keys /\ bucket \in Seq(Nat) /\ left \in Nat
            /\ \A j \in 1..Len(bucket) : admitted[k][left + j] <= bucket[j] + Lag
            /\ \A i \in 1..left : now - admitted[k][i] > Window - Lag
<1>. USE DEF LimiterInv
<1>. DEFINE k == waiting[t].key
            time == waiting[t].time
            old == hits[k]
            all == admitted[k]
            bucket == Prune(old, time)
            past == Len(all) - Len(old)
            left == Len(all) - Len(bucket)
<1>1. /\ k \in Keys /\ time \in Nat /\ now \in Nat /\ time <= now
      /\ old \in Seq(Nat) /\ all \in Seq(Nat)
      /\ Window \in Nat /\ Lag \in Nat
  BY DEF LimiterTypes, LimiterAssumption
<1>2. /\ past \in Nat
      /\ \A j \in 1..Len(old) : all[past + j] <= old[j] + Lag
      /\ \A i \in 1..past : now - all[i] > Window - Lag
  BY <1>1 DEF BucketOK
<1>. HIDE DEF k, time, old, all, bucket
<1>3. PICK d \in 0..Len(old) : /\ bucket = SubSeq(old, d + 1, Len(old))
                               /\ \A j \in 1..d : time - old[j] > Window
  BY <1>1, PruneDrops DEF bucket
<1>4. /\ bucket \in Seq(Nat) /\ Len(bucket) = Len(old) - d
      /\ \A j \in 1..Len(bucket) : bucket[j] = old[d + j]
  BY <1>1, <1>3
<1>5. left = past + d /\ left \in Nat /\ Len(all) \in Nat /\ Len(old) \in Nat
  BY <1>1, <1>2, <1>4
<1>6. ASSUME NEW j \in 1..Len(bucket)
      PROVE  all[left + j] <= bucket[j] + Lag
  <2>1. d + j \in 1..Len(old) /\ left + j = past + (d + j)
    BY <1>2, <1>4, <1>5
  <2>. QED
    BY <1>2, <1>4, <2>1
<1>7. ASSUME NEW i \in 1..left
      PROVE  now - all[i] > Window - Lag
  <2>1. CASE i <= past
    BY <1>2, <1>5, <2>1
  <2>2. CASE ~(i <= past)
    <3>1. PICK j \in 1..d : i = past + j
      <4>1. i - past \in 1..d /\ i = past + (i - past)
        BY <1>2, <1>5, <2>2
      <4>. QED
        BY <4>1
    <3>2. i \in 1..Len(all) /\ j \in 1..Len(old)
      BY <1>4, <1>5
    <3>3. all[i] <= old[j] + Lag /\ time - old[j] > Window
      BY <1>2, <1>3, <3>1, <3>2
    <3>4. all[i] \in Nat /\ old[j] \in Nat
      BY <1>1, <3>2
    <3>. QED
      BY <1>1, <3>3, <3>4, DroppedLongAgo
  <2>. QED
    BY <2>1, <2>2
<1>. QED
  BY <1>1, <1>4, <1>5, <1>6, <1>7 DEF k, time, old, all, bucket

LEMMA HitKeeps ==
  ASSUME LimiterAssumption, LimiterInv, NEW t \in Callers, Hit(t)
  PROVE  LimiterInv'
<1>. USE DEF LimiterInv
<1>. DEFINE k == waiting[t].key
            time == waiting[t].time
            all == admitted[k]
            bucket == Prune(hits[k], time)
            left == Len(all) - Len(bucket)
<1>1. /\ waiting[t] # NoAttempt
      /\ waiting' = [waiting EXCEPT ![t] = NoAttempt] /\ now' = now
  BY DEF Hit
<1>2. /\ k \in Keys /\ bucket \in Seq(Nat) /\ left \in Nat
      /\ \A j \in 1..Len(bucket) : all[left + j] <= bucket[j] + Lag
      /\ \A i \in 1..left : now - all[i] > Window - Lag
  BY <1>1, PrunedOK
<1>3. /\ time \in Nat /\ now \in Nat /\ now - time \in 0..Lag /\ all \in Seq(Nat)
      /\ Window \in Nat /\ Lag \in Nat /\ Limit \in Nat
  BY <1>1 DEF LimiterTypes, LimiterAssumption
<1>4. waiting' \in [Callers -> [key: Keys \cup {"none"}, time: Nat]]
      /\ \A u \in Callers : waiting'[u] # NoAttempt => waiting'[u] = waiting[u]
  BY <1>1 DEF LimiterTypes, NoAttempt
<1>5. CASE Len(bucket) >= Limit
  <2>1. hits' = [hits EXCEPT ![k] = bucket] /\ admitted' = admitted
    BY <1>5 DEF Hit
  <2>2. LimiterTypes'
    <3>1. hits' \in [Keys -> Seq(Nat)]
      BY <1>2, <2>1 DEF LimiterTypes
    <3>. QED
      BY <1>1, <1>4, <2>1, <3>1 DEF LimiterTypes
  <2>3. ASSUME NEW l \in Keys PROVE BucketOK(l)'
    <3>1. CASE l = k
      <4>1. hits'[l] = bucket /\ admitted'[l] = all
        BY <1>2, <2>1, <3>1 DEF LimiterTypes
      <4>. QED
        BY <1>1, <1>2, <4>1 DEF BucketOK
    <3>2. CASE l # k
      <4>1. hits'[l] = hits[l]
        BY <2>1, <3>2 DEF LimiterTypes
      <4>. QED
        BY <1>1, <2>1, <4>1 DEF BucketOK
    <3>. QED
      BY <3>1, <3>2
  <2>4. WindowBound'
    BY <2>1 DEF WindowBound
  <2>. QED
    BY <2>2, <2>3, <2>4
<1>6. CASE ~(Len(bucket) >= Limit)
  <2>1. /\ hits' = [hits EXCEPT ![k] = Append(bucket, time)]
        /\ admitted' = [admitted EXCEPT ![k] = Append(all, now)]
    BY <1>6 DEF Hit
  <2>2. /\ hits'[k] = Append(bucket, time) /\ admitted'[k] = Append(all, now)
        /\ \A l \in Keys : l # k => hits'[l] = hits[l] /\ admitted'[l] = admitted[l]
    BY <1>2, <2>1 DEF LimiterTypes
  <2>. HIDE DEF k, time, all, bucket
  <2>3. /\ Append(bucket, time) \in Seq(Nat) /\ Append(all, now) \in Seq(Nat)
        /\ Len(Append(bucket, time)) = Len(bucket) + 1
        /\ Len(Append(all, now)) = Len(all) + 1
        /\ Len(bucket) \in Nat /\ Len(all) \in Nat
        /\ \A j \in 1..Len(bucket) : Append(bucket, time)[j] = bucket[j]
        /\ \A i \in 1..Len(all) : Append(all, now)[i] = all[i]
        /\ Append(bucket, time)[Len(bucket) + 1] = time
        /\ Append(all, now)[Len(all) + 1] = now
    BY <1>2, <1>3
  <2>4. LimiterTypes'
    <3>1. hits' \in [Keys -> Seq(Nat)] /\ admitted' \in [Keys -> Seq(Nat)]
      BY <2>1, <2>3 DEF LimiterTypes
    <3>. QED
      BY <1>1, <1>4, <3>1 DEF LimiterTypes
  <2>5. ASSUME NEW l \in Keys PROVE BucketOK(l)'
    <3>1. CASE l = k
      <4>1. Len(admitted'[k]) - Len(hits'[k]) = left
        BY <2>2, <2>3
      <4>2. ASSUME NEW j \in 1..Len(hits'[k])
            PROVE  admitted'[k][left + j] <= hits'[k][j] + Lag
        <5>1. CASE j = Len(bucket) + 1
          <6>1. left + j = Len(all) + 1
            BY <1>2, <2>3, <5>1
          <6>. QED
            BY <1>3, <2>2, <2>3, <5>1, <6>1
        <5>2. CASE j # Len(bucket) + 1
          <6>1. Len(hits'[k]) = Len(bucket) + 1
            BY <2>2, <2>3
          <6>2. j \in 1..Len(bucket)
            BY <2>3, <5>2, <6>1
          <6>3. left \in Nat /\ left = Len(all) - Len(bucket)
            BY <1>2
          <6>4. left + j \in 1..Len(all)
            BY <2>3, <6>2, <6>3
          <6>5. hits'[k][j] = bucket[j] /\ admitted'[k][left + j] = all[left + j]
            BY <2>2, <2>3, <6>2, <6>4
          <6>. QED
            BY <1>2, <6>2, <6>5
        <5>. QED
          BY <5>1, <5>2
      <4>3. ASSUME NEW i \in 1..left
            PROVE  now - admitted'[k][i] > Window - Lag
        BY <1>2, <2>2, <2>3
      <4>. QED
        BY <1>1, <1>2, <3>1, <4>1, <4>2, <4>3 DEF BucketOK
    <3>2. CASE l # k
      BY <1>1, <2>2, <3>2 DEF BucketOK
    <3>. QED
      BY <3>1, <3>2
  <2>6. WindowBound'
    <3>. SUFFICES ASSUME NEW l \in Keys, NEW i \in 1..Len(admitted'[l]) - Limit
                  PROVE  admitted'[l][i + Limit] - admitted'[l][i] > Window - Lag
      BY DEF WindowBound
    <3>1. CASE l # k
      BY <2>2, <3>1 DEF WindowBound
    <3>2. CASE l = k /\ i + Limit = Len(all) + 1
      <4>1. (i \in 1..left /\ i \in 1..Len(all)) \/ Limit = 0
        BY <1>2, <1>3, <1>6, <2>3, <3>2
      <4>2. Limit # 0
        BY DEF LimiterAssumption
      <4>. QED
        BY <1>2, <2>2, <2>3, <3>2, <4>1, <4>2
    <3>3. CASE l = k /\ i + Limit # Len(all) + 1
      <4>1. /\ i \in 1..Len(all) - Limit /\ i \in 1..Len(all)
            /\ i + Limit \in 1..Len(all)
        BY <1>3, <2>2, <2>3, <3>3
      <4>2. all[i + Limit] - all[i] > Window - Lag
        BY <1>2, <4>1 DEF WindowBound, all
      <4>. QED
        BY <2>2, <2>3, <3>3, <4>1, <4>2
    <3>. QED
      BY <3>1, <3>2, <3>3
  <2>. QED
    BY <2>4, <2>5, <2>6
<1>. QED
  BY <1>5, <1>6

\* "Brute force gets 5 attempts/minute/IP", whatever the limit, the window and
\* the number of threads: hit of security/rate_limit.py reads the clock outside
\* its lock and appends out of order, and still Limit + 1 allowed attempts are
\* more than a window apart, but for the time a thread was held up.
THEOREM WindowHolds ==
  ASSUME LimiterAssumption
  PROVE  LimiterSpec => []WindowBound
<1>1. LimiterInit => LimiterInv
  BY LimiterStarts
<1>2. LimiterInv /\ [LimiterNext]_limiterVars => LimiterInv'
  <2>. SUFFICES ASSUME LimiterInv, [LimiterNext]_limiterVars PROVE LimiterInv'
    OBVIOUS
  <2>1. CASE Tick
    BY <2>1, TickKeeps
  <2>2. CASE LimiterRestart
    BY <2>2 DEF LimiterRestart, LimiterInv, LimiterTypes, BucketOK, WindowBound,
      NoAttempt, LimiterAssumption
  <2>3. ASSUME NEW t \in Callers, Hit(t) \/ \E k \in Keys : Attempt(t, k)
        PROVE  LimiterInv'
    BY <2>3, HitKeeps, AttemptKeeps
  <2>4. CASE UNCHANGED limiterVars
    BY <2>4 DEF limiterVars, LimiterInv, LimiterTypes, BucketOK, WindowBound
  <2>. QED
    BY <2>1, <2>2, <2>3, <2>4 DEF LimiterNext
<1>3. LimiterInv => WindowBound
  BY DEF LimiterInv
<1>. QED
  BY <1>1, <1>2, <1>3, PTL DEF LimiterSpec

-----------------------------------------------------------------------------
(* The AI service: what ties a classifier in memory to the files it was    *)
(* built from is whether anything was written since.                       *)

\* A frame the gate lets through.
Passes(f) == Assess(f) = "VALID_FRAME" /\ TooLarge \notin f

Classifiers ==
  [kind: {"real", "development"}, model: Releases \cup {NoRelease},
   classes: Releases \cup {NoRelease}, since: Nat, torn: BOOLEAN]

\* A trained classifier has a model, and unless a training wrote since it was
\* built, or had been cut short then, the files are the ones it was built from.
Built(c) ==
  /\ c \in Classifiers /\ c.since <= writes
  /\ c.kind = "real" =>
       /\ c.model # NoRelease
       /\ c.since = writes /\ ~c.torn => c.model = model /\ ~torn

Complete(c) ==
  /\ Built(c)
  /\ c.kind = "real" /\ c.since = writes /\ ~c.torn => c.classes = model

\* What may be stored: a trained model's answer names its model, and when
\* nothing was written meanwhile all of it is of that model.
Sound(a) ==
  a.kind # "development" =>
    /\ a.model # NoRelease
    /\ a.settled => {a.classes, a.geometry} = {a.model}

RequestOK(w) ==
  /\ DOMAIN req[w] = {"at", "frame", "by", "answer", "result"}
  /\ req[w].at \in {"classifier", "load", "predict"} => Passes(req[w].frame)
  /\ AtStep(w, "load") => Built(req[w].by)
  /\ AtStep(w, "predict") => Complete(req[w].by)
  /\ AtStep(w, "answer") /\ req[w].answer = "200" =>
       Passes(req[w].frame) /\ Sound(req[w].result)

\* Metadata that is not torn is the model's, whoever runs train.py.
FilesOK ==
  /\ {model, meta, trainer} \subseteq Releases \cup {NoRelease}
  /\ torn \in BOOLEAN /\ writes \in Nat
  /\ ~torn => meta = model

StoredOK ==
  stored # NoRelease =>
    /\ Passes(stored.frame)
    /\ stored.source = "ai" => Sound(stored.answer) /\ stored.answer.kind # "development"

ServingInv ==
  /\ FilesOK /\ StoredOK
  /\ cache # NoRelease => Complete(cache)
  /\ DOMAIN req = Slots /\ \A w \in Slots : RequestOK(w)

\* What Set writes: the fields it names, of one request.
LEMMA SetWrites ==
  ASSUME ServingInv, NEW w \in Slots, NEW r, Set(w, r)
  PROVE  /\ DOMAIN req' = Slots
         /\ \A v \in Slots \ {w} : req'[v] = req[v]
         /\ DOMAIN req'[w] = {"at", "frame", "by", "answer", "result"}
         /\ \A c \in {"at", "frame", "by", "answer", "result"} :
              req'[w][c] = IF c \in DOMAIN r THEN r[c] ELSE req[w][c]
<1>1. DOMAIN req = Slots /\ DOMAIN req[w] = {"at", "frame", "by", "answer", "result"}
  BY DEF ServingInv, RequestOK
<1>. QED
  BY <1>1 DEF Set

\* A step of one request that leaves the files alone.
LEMMA OneRequest ==
  ASSUME ServingInv, NEW w \in Slots, UNCHANGED files,
         DOMAIN req' = Slots, \A v \in Slots \ {w} : req'[v] = req[v],
         RequestOK(w)', StoredOK', cache' # NoRelease => Complete(cache)'
  PROVE  ServingInv'
<1>1. FilesOK'
  BY DEF ServingInv, FilesOK, files
<1>2. ASSUME NEW v \in Slots \ {w} PROVE RequestOK(v)'
  <2>1. RequestOK(v)
    BY DEF ServingInv
  <2>. QED
    BY <2>1 DEF RequestOK, Built, Complete, AtStep, files
<1>. QED
  BY <1>1, <1>2 DEF ServingInv

LEMMA StoredStays ==
  ASSUME ServingInv, UNCHANGED stored
  PROVE  StoredOK'
BY DEF ServingInv, StoredOK

LEMMA CacheStays ==
  ASSUME ServingInv, UNCHANGED <<files, cache>>
  PROVE  cache' # NoRelease => Complete(cache)'
BY DEF ServingInv, Complete, Built, files

LEMMA GateKeeps ==
  ASSUME ServingInv, NEW w \in Slots, NEW f \in Frames, Gate(w, f)
  PROVE  ServingInv'
<1>1. UNCHANGED <<files, cache, stored>>
  BY DEF Gate
<1>2. CASE Passes(f)
  <2>1. Set(w, [at |-> "classifier", frame |-> f])
    BY <1>2 DEF Gate, Passes
  <2>2. req'[w].at = "classifier" /\ req'[w].frame = f
    BY <2>1, SetWrites
  <2>3. RequestOK(w)'
    BY <1>2, <2>1, <2>2, SetWrites DEF RequestOK, AtStep
  <2>. QED
    BY <1>1, <2>1, <2>3, SetWrites, OneRequest, StoredStays, CacheStays
<1>3. CASE ~Passes(f)
  <2>1. PICK a \in {"413", "CORRUPT_IMAGE", "LOW_QUALITY", "NO_OBJECT"} :
          Set(w, [at |-> "answer", frame |-> f, answer |-> a])
    BY <1>3 DEF Gate, Passes, Assess
  <2>2. req'[w].at = "answer" /\ req'[w].answer = a
    BY <2>1, SetWrites
  <2>3. RequestOK(w)'
    BY <2>1, <2>2, SetWrites DEF RequestOK, AtStep
  <2>. QED
    BY <1>1, <2>1, <2>3, SetWrites, OneRequest, StoredStays, CacheStays
<1>. QED
  BY <1>2, <1>3

LEMMA AnswerKeeps ==
  ASSUME ServingInv, NEW w \in Slots, NEW a \in {"500", "503"}, Answer(w, a),
         UNCHANGED <<files, cache, stored>>
  PROVE  ServingInv'
<1>1. Set(w, [at |-> "answer", answer |-> a])
  BY DEF Answer
<1>2. req'[w].at = "answer" /\ req'[w].answer = a
  BY <1>1, SetWrites
<1>3. RequestOK(w)'
  BY <1>1, <1>2, SetWrites DEF RequestOK, AtStep
<1>. QED
  BY <1>1, <1>3, SetWrites, OneRequest, StoredStays, CacheStays

LEMMA ClassifierKeeps ==
  ASSUME ServingInv, NEW w \in Slots, GetClassifier(w)
  PROVE  ServingInv'
<1>1. /\ UNCHANGED <<files, stored>> /\ Passes(req[w].frame) /\ FilesOK
  BY DEF GetClassifier, ServingInv, RequestOK, AtStep
<1>2. ASSUME NEW c, Complete(c), Set(w, [at |-> "predict", by |-> c]),
             cache' # NoRelease => Complete(cache)'
      PROVE  ServingInv'
  <2>1. req'[w].at = "predict" /\ req'[w].by = c /\ req'[w].frame = req[w].frame
    BY <1>2, SetWrites
  <2>2. Complete(c)'
    BY <1>1, <1>2 DEF Complete, Built, files
  <2>3. RequestOK(w)'
    BY <1>1, <1>2, <2>1, <2>2, SetWrites DEF RequestOK, AtStep
  <2>. QED
    BY <1>1, <1>2, <2>3, SetWrites, OneRequest, StoredStays
<1>3. CASE cache # NoRelease
  <2>1. Complete(cache) /\ UNCHANGED cache
    BY <1>3 DEF GetClassifier, ServingInv
  <2>. QED
    BY <1>1, <1>2, <1>3, <2>1, CacheStays DEF GetClassifier
<1>4. CASE cache = NoRelease /\ mode = "development"
  <2>1. PICK c : c = [kind |-> "development", model |-> NoRelease, classes |-> NoRelease,
                      since |-> writes, torn |-> FALSE]
    OBVIOUS
  <2>2. cache' = c /\ Set(w, [at |-> "predict", by |-> c])
    BY <1>4, <2>1 DEF GetClassifier
  <2>3. Complete(c) /\ Complete(c)'
    BY <1>1, <2>1 DEF Complete, Built, Classifiers, FilesOK, files
  <2>. QED
    BY <1>2, <2>2, <2>3
<1>5. CASE cache = NoRelease /\ mode # "development" /\ model = NoRelease
  BY <1>1, <1>5, AnswerKeeps DEF GetClassifier
<1>6. CASE cache = NoRelease /\ mode # "development" /\ model # NoRelease
  <2>1. PICK c : c = [kind |-> "real", model |-> model, classes |-> NoRelease,
                      since |-> writes, torn |-> torn]
    OBVIOUS
  <2>2. Set(w, [at |-> "load", by |-> c]) /\ UNCHANGED cache
    BY <1>6, <2>1 DEF GetClassifier
  <2>3. Built(c)'
    BY <1>1, <1>6, <2>1 DEF Built, Classifiers, FilesOK, files
  <2>4. req'[w].at = "load" /\ req'[w].by = c /\ req'[w].frame = req[w].frame
    BY <2>2, SetWrites
  <2>5. RequestOK(w)'
    BY <1>1, <2>2, <2>3, <2>4, SetWrites DEF RequestOK, AtStep
  <2>. QED
    BY <1>1, <2>2, <2>5, SetWrites, OneRequest, StoredStays, CacheStays
<1>. QED
  BY <1>3, <1>4, <1>5, <1>6

\* What is not torn was written for the model that is there.
LEMMA LoadKeeps ==
  ASSUME ServingInv, NEW w \in Slots, LoadMetadata(w)
  PROVE  ServingInv'
<1>1. PICK c : c = [req[w].by EXCEPT !.classes = meta]
  OBVIOUS
<1>2. /\ UNCHANGED <<files, stored>> /\ Passes(req[w].frame) /\ FilesOK
      /\ Built(req[w].by) /\ cache' = c /\ Set(w, [at |-> "predict", by |-> c])
  BY <1>1 DEF LoadMetadata, ServingInv, RequestOK, AtStep
<1>3. /\ c \in Classifiers /\ c.classes = meta
      /\ \A x \in {"kind", "model", "since", "torn"} : c[x] = req[w].by[x]
  BY <1>1, <1>2 DEF Built, Classifiers, FilesOK
<1>4. Complete(c)'
  BY <1>2, <1>3 DEF Complete, Built, FilesOK, files
<1>5. req'[w].at = "predict" /\ req'[w].by = c /\ req'[w].frame = req[w].frame
  BY <1>2, SetWrites
<1>6. RequestOK(w)'
  BY <1>2, <1>4, <1>5, SetWrites DEF RequestOK, AtStep
<1>. QED
  BY <1>2, <1>4, <1>6, SetWrites, OneRequest, StoredStays

LEMMA ClassifyKeeps ==
  ASSUME ServingInv, NEW w \in Slots, Classify(w)
  PROVE  ServingInv'
<1>. DEFINE c == req[w].by
            a == [kind |-> c.kind, model |-> c.model, classes |-> c.classes, geometry |-> meta,
                  settled |-> ~c.torn /\ c.since = writes]
<1>1. /\ UNCHANGED <<files, cache, stored>> /\ Passes(req[w].frame) /\ FilesOK
      /\ Complete(c)
  BY DEF Classify, ServingInv, RequestOK, AtStep
<1>2. CASE Answer(w, "500")
  BY <1>1, <1>2, AnswerKeeps
<1>3. CASE Set(w, [at |-> "answer", answer |-> "200", result |-> a])
  <2>1. Sound(a)
    BY <1>1 DEF Complete, Built, Classifiers, FilesOK, Sound
  <2>. HIDE DEF a
  <2>2. req'[w].at = "answer" /\ req'[w].result = a /\ req'[w].frame = req[w].frame
    BY <1>3, SetWrites
  <2>3. RequestOK(w)'
    BY <1>1, <1>3, <2>1, <2>2, SetWrites DEF RequestOK, AtStep
  <2>. QED
    BY <1>1, <1>3, <2>3, SetWrites, OneRequest, StoredStays, CacheStays
<1>. QED
  BY <1>2, <1>3 DEF Classify

LEMMA NoRequestOK ==
  ASSUME NEW w, req'[w] = NoRequest
  PROVE  RequestOK(w)'
<1>1. NoRequest.at = "idle" /\ DOMAIN NoRequest = {"at", "frame", "by", "answer", "result"}
  BY DEF NoRequest
<1>. QED
  BY <1>1 DEF RequestOK, AtStep

\* The answer is stored, or nobody waits for it any more.
LEMMA LeaveKeeps ==
  ASSUME ServingInv, NEW w \in Slots, Store(w) \/ Timeout(w)
  PROVE  ServingInv'
<1>1. UNCHANGED <<files, cache>> /\ req' = [req EXCEPT ![w] = NoRequest]
  BY DEF Store, Timeout
<1>2. DOMAIN req' = Slots /\ req'[w] = NoRequest /\ \A v \in Slots \ {w} : req'[v] = req[v]
  BY <1>1 DEF ServingInv
<1>3. StoredOK'
  <2>1. CASE UNCHANGED stored
    BY <2>1, StoredStays
  <2>2. CASE Store(w) /\ ~UNCHANGED stored
    <3>1. Passes(req[w].frame) /\ Sound(req[w].result)
      BY <2>2 DEF Store, ServingInv, RequestOK
    <3>. QED
      BY <2>2, <3>1 DEF Store, StoredOK
  <2>. QED
    BY <2>1, <2>2 DEF Timeout
<1>. QED
  BY <1>1, <1>2, <1>3, NoRequestOK, OneRequest, CacheStays

LEMMA RestartKeeps ==
  ASSUME ServingInv, NEW m, ServingRestart(m)
  PROVE  ServingInv'
<1>1. UNCHANGED <<files, stored>> /\ cache' = NoRelease /\ req' = [w \in Slots |-> NoRequest]
  BY DEF ServingRestart
<1>2. FilesOK'
  BY <1>1 DEF ServingInv, FilesOK, files
<1>. QED
  BY <1>1, <1>2, NoRequestOK, StoredStays DEF ServingInv

\* A training changes the files under the requests: what was built before it
\* wrote is not of the last writing.
LEMMA TrainingKeeps ==
  ASSUME ServingAssumption, ServingInv,
         (\E r \in Releases : Export(r) \/ EvalOnly(r)) \/ WriteMeta \/ TrainKill
  PROVE  ServingInv'
<1>1. /\ UNCHANGED <<cache, req, stored>> /\ FilesOK
      /\ \/ writes' = writes + 1
         \/ UNCHANGED <<writes, model, torn>>
  BY DEF Export, EvalOnly, WriteMeta, TrainKill, ServingInv
<1>2. FilesOK'
  <2>1. ASSUME NEW r \in Releases, Export(r) PROVE FilesOK'
    BY <1>1, <2>1 DEF Export, FilesOK
  <2>2. ASSUME NEW r \in Releases, EvalOnly(r) PROVE FilesOK'
    BY <1>1, <2>2 DEF EvalOnly, FilesOK
  <2>3. CASE WriteMeta
    <3>1. /\ meta' = trainer /\ model' = model /\ trainer' = NoRelease
          /\ writes' = writes + 1 /\ torn' = (trainer # model)
      BY <2>3 DEF WriteMeta
    <3>2. torn' \in BOOLEAN /\ (~torn' => meta' = model')
      BY <3>1
    <3>3. {model', meta', trainer'} \subseteq Releases \cup {NoRelease} /\ writes' \in Nat
      BY <1>1, <3>1 DEF FilesOK
    <3>. QED
      BY <3>2, <3>3 DEF FilesOK
  <2>4. CASE TrainKill
    BY <1>1, <2>4 DEF TrainKill, FilesOK
  <2>. QED
    BY <2>1, <2>2, <2>3, <2>4
<1>3. ASSUME NEW c, Built(c) PROVE Built(c)'
  BY <1>1, <1>3 DEF Built, FilesOK, Classifiers
<1>4. ASSUME NEW c, Complete(c) PROVE Complete(c)'
  <2>1. c.since \in Nat /\ c.since <= writes
    BY <1>4 DEF Complete, Built, Classifiers
  <2>. QED
    BY <1>1, <1>3, <1>4, <2>1 DEF Complete, FilesOK
<1>5. ASSUME NEW w \in Slots PROVE RequestOK(w)'
  BY <1>1, <1>3, <1>4 DEF ServingInv, RequestOK, AtStep
<1>. QED
  BY <1>1, <1>2, <1>4, <1>5, StoredStays DEF ServingInv

LEMMA ServingStarts == ServingInit => ServingInv
<1>. SUFFICES ASSUME ServingInit PROVE ServingInv
  OBVIOUS
<1>1. FilesOK /\ StoredOK
  BY DEF ServingInit, FilesOK, StoredOK
<1>2. \A w \in Slots : RequestOK(w)
  BY DEF ServingInit, RequestOK, NoRequest, AtStep
<1>. QED
  BY <1>1, <1>2 DEF ServingInit, ServingInv

LEMMA ServingStep ==
  ASSUME ServingAssumption
  PROVE  ServingInv /\ [ServingNext]_servingVars => ServingInv'
<1>. SUFFICES ASSUME ServingInv, [ServingNext]_servingVars PROVE ServingInv'
  OBVIOUS
<1>1. CASE (\E r \in Releases : Export(r) \/ EvalOnly(r)) \/ WriteMeta \/ TrainKill
  BY <1>1, TrainingKeeps
<1>2. CASE \E m \in {"real", "development"} : ServingRestart(m)
  BY <1>2, RestartKeeps
<1>3. ASSUME NEW w \in Slots,
             \/ \E f \in Frames : Gate(w, f)
             \/ GetClassifier(w) \/ LoadMetadata(w) \/ Classify(w) \/ Store(w) \/ Timeout(w)
      PROVE  ServingInv'
  BY <1>3, GateKeeps, ClassifierKeeps, LoadKeeps, ClassifyKeeps, LeaveKeeps
<1>4. CASE UNCHANGED servingVars
  BY <1>4 DEF servingVars, ServingInv, FilesOK, StoredOK, RequestOK, Complete, Built, AtStep
<1>. QED
  BY <1>1, <1>2, <1>3, <1>4 DEF ServingNext

\* "Can never be routed as high-confidence waste": for any frames, releases and
\* requests at once, no prediction is stored of a frame the gate of
\* tools/quality_gate.py refuses, and the AI's are a trained model's.
THEOREM StoredIsGated ==
  ASSUME ServingAssumption
  PROVE  ServingSpec => []GatedAndHonest
<1>1. ServingInv => GatedAndHonest
  BY DEF ServingInv, StoredOK, GatedAndHonest, Passes, Sound
<1>. QED
  BY <1>1, ServingStarts, ServingStep, PTL DEF ServingSpec

\* "By reading the same preprocess.json the training pipeline wrote": unless
\* train.py wrote since the classifier of inference/__init__.py was built, or had
\* then been cut short or left the metadata of an --eval-only by another release,
\* model, classes and geometry are of one training, however trainings,
\* evaluations, kills, restarts and requests interleave.
THEOREM OneTrainingAnswers ==
  ASSUME ServingAssumption
  PROVE  ServingSpec => []OwnPreprocessing
<1>1. ServingInv => OwnPreprocessing
  BY DEF ServingInv, StoredOK, OwnPreprocessing, Sound
<1>. QED
  BY <1>1, ServingStarts, ServingStep, PTL DEF ServingSpec

-----------------------------------------------------------------------------
(* The back office: every commit checks again what the rows it refers to   *)
(* have become, so what was read ahead of it cannot orphan them.           *)

\* With the shape of a student's row.
OfficeInv ==
  /\ \A u \in DOMAIN student : {"faculty", "points"} \subseteq DOMAIN student[u]
  /\ NoOrphans

LEMMA OfficeStarts == OfficeInit => OfficeInv
BY DEF OfficeInit, OfficeInv, NoOrphans

\* Boot and reset rank again whoever is there.
LEMMA RankedAgain ==
  ASSUME OfficeInv, OfficeBoot \/ ResetUsers
  PROVE  OfficeInv'
<1>1. CASE OfficeBoot
  <2>1. /\ UNCHANGED <<student, history>> /\ item \subseteq item'
        /\ DOMAIN board' = DOMAIN student
        /\ DOMAIN ranking' = DOMAIN faculty' \cup DOMAIN ranking
    BY <1>1 DEF OfficeBoot, Rebuilt, Reranked
  <2>2. DOMAIN faculty \subseteq DOMAIN faculty'
    BY <1>1 DEF OfficeBoot
  <2>. QED
    BY <2>1, <2>2 DEF OfficeInv, NoOrphans
<1>2. CASE ResetUsers
  <2>1. /\ DOMAIN student' = {} /\ DOMAIN board' = {} /\ history' = {} /\ faculty' = faculty
    BY <1>2 DEF ResetUsers
  <2>2. DOMAIN ranking' = DOMAIN ranking \cup {student[u].faculty : u \in DOMAIN student}
    BY <1>2 DEF ResetUsers
  <2>3. DOMAIN ranking' \subseteq DOMAIN faculty'
    BY <2>1, <2>2 DEF OfficeInv, NoOrphans
  <2>. QED
    BY <2>1, <2>3 DEF OfficeInv, NoOrphans
<1>. QED
  BY <1>1, <1>2

\* The faculties: a name changes no key, and one is dropped when nobody is in it.
LEMMA FacultyKeeps ==
  ASSUME OfficeInv, NEW w \in Staff, CreateCommit(w) \/ RenameCommit(w) \/ DropCommit(w)
  PROVE  OfficeInv'
<1>. DEFINE f == task[w].f
<1>0. UNCHANGED <<student, item, history, board>>
  BY DEF CreateCommit, RenameCommit, DropCommit
<1>1. CASE UNCHANGED <<faculty, ranking>>
  BY <1>0, <1>1 DEF OfficeInv, NoOrphans
<1>2. CASE CreateCommit(w) /\ faculty' = Put(faculty, f, task[w].n)
  <2>1. DOMAIN faculty' = DOMAIN faculty \cup {f} /\ ranking' = ranking
    BY <1>2 DEF CreateCommit, Put
  <2>. QED
    BY <1>0, <2>1 DEF OfficeInv, NoOrphans
<1>3. CASE RenameCommit(w) /\ f \in DOMAIN faculty /\ faculty' = Put(faculty, f, task[w].n)
  <2>1. DOMAIN faculty' = DOMAIN faculty
    BY <1>3 DEF Put
  <2>2. DOMAIN ranking' = DOMAIN ranking
    BY <1>3 DEF RenameCommit
  <2>. QED
    BY <1>0, <2>1, <2>2 DEF OfficeInv, NoOrphans
<1>4. CASE DropCommit(w) /\ Enrolled(f) = {}
  <2>1. DOMAIN faculty' = DOMAIN faculty \ {f} /\ DOMAIN ranking' = DOMAIN ranking \ {f}
    BY <1>4 DEF DropCommit, Minus
  <2>2. \A u \in DOMAIN student : student[u].faculty # f
    BY <1>4 DEF Enrolled
  <2>. QED
    BY <1>0, <2>1, <2>2 DEF OfficeInv, NoOrphans
<1>. QED
  BY <1>1, <1>2, <1>3, <1>4 DEF CreateCommit, RenameCommit, DropCommit

\* What is written of a student comes with a faculty that is there.
LEMMA StudentKeeps ==
  ASSUME OfficeInv, NEW w \in Staff,
         \/ EnrolCommit(w)
         \/ \E u \in Students : Award(w, u) \/ \E n \in 0..MaxPoints : SetPoints(w, u, n)
  PROVE  OfficeInv'
<1>1. CASE EnrolCommit(w)
  BY <1>1 DEF EnrolCommit, Put, OfficeInv, NoOrphans
<1>2. ASSUME NEW u \in Students, NEW n \in 0..MaxPoints, SetPoints(w, u, n)
      PROVE  OfficeInv'
  BY <1>2 DEF SetPoints, OfficeInv, NoOrphans
<1>3. ASSUME NEW u \in Students, Award(w, u)
      PROVE  OfficeInv'
  <2>1. /\ u \in DOMAIN student /\ UNCHANGED <<faculty, item, history>>
        /\ DOMAIN student' = DOMAIN student
        /\ \A v \in DOMAIN student : /\ DOMAIN student'[v] = DOMAIN student[v]
                                     /\ student'[v].faculty = student[v].faculty
    BY <1>3 DEF Award, OfficeInv
  <2>2. /\ DOMAIN board' = DOMAIN board \cup {u}
        /\ DOMAIN ranking' = DOMAIN ranking \cup {student[u].faculty}
    BY <1>3 DEF Award, Put
  <2>. QED
    BY <2>1, <2>2 DEF OfficeInv, NoOrphans
<1>. QED
  BY <1>1, <1>2, <1>3

\* Items and history.
LEMMA HistoryKeeps ==
  ASSUME OfficeInv, NEW w \in Staff,
         \/ UseCommit(w) \/ ItemDeleteCommit(w) \/ RemoveCommit(w)
         \/ \E x \in Items : CreateItem(w, x)
  PROVE  OfficeInv'
<1>1. CASE UseCommit(w)
  <2>. DEFINE h == <<task[w].u, task[w].x>>
  <2>1. \/ history' = history
        \/ history' = history \cup {h} /\ h[1] \in DOMAIN student /\ h[2] \in item
    BY <1>1 DEF UseCommit
  <2>. HIDE DEF h
  <2>. QED
    BY <1>1, <2>1 DEF UseCommit, OfficeInv, NoOrphans
<1>2. CASE ItemDeleteCommit(w)
  BY <1>2 DEF ItemDeleteCommit, Used, OfficeInv, NoOrphans
<1>3. CASE RemoveCommit(w)
  BY <1>3 DEF RemoveCommit, Minus, OfficeInv, NoOrphans
<1>4. CASE \E x \in Items : CreateItem(w, x)
  BY <1>4 DEF CreateItem, OfficeInv, NoOrphans
<1>. QED
  BY <1>1, <1>2, <1>3, <1>4

\* What is read ahead of a commit writes no row.
LEMMA LoadsWriteNothing ==
  ASSUME NEW w \in Staff,
         \/ \E f \in Faculties, n \in Names : CreateLoad(w, f, n) \/ RenameLoad(w, f, n)
         \/ \E f \in Faculties : DropLoad(w, f)
         \/ \E u \in Students : \/ \E f \in Faculties : EnrolLoad(w, u, f)
                                \/ \E x \in Items : UseLoad(w, u, x)
                                \/ RemoveLoad(w, u)
         \/ \E x \in Items : ItemDeleteLoad(w, x)
  PROVE  UNCHANGED officeRows
BY DEF CreateLoad, RenameLoad, DropLoad, EnrolLoad, UseLoad, RemoveLoad, ItemDeleteLoad, Plan

LEMMA RowsStay ==
  ASSUME OfficeInv, UNCHANGED officeRows
  PROVE  OfficeInv'
BY DEF officeRows, OfficeInv, NoOrphans

\* However enrolling, depositing, deleting, resetting and booting interleave
\* between the checks of routers/admin.py and their commits, no student is
\* without a faculty and no history without its student and item, for any
\* number of each.
THEOREM NobodyOrphaned == OfficeSpec => []NoOrphans
<1>1. OfficeInv /\ [OfficeNext]_officeVars => OfficeInv'
  <2>. SUFFICES ASSUME OfficeInv, [OfficeNext]_officeVars PROVE OfficeInv'
    OBVIOUS
  <2>1. CASE OfficeBoot \/ ResetUsers
    BY <2>1, RankedAgain
  <2>2. ASSUME NEW w \in Staff, Handle(w) PROVE OfficeInv'
    BY <2>2, LoadsWriteNothing, RowsStay, StudentKeeps, HistoryKeeps DEF Handle
  <2>3. ASSUME NEW w \in Staff, TaskCommit(w) PROVE OfficeInv'
    BY <2>3, FacultyKeeps, StudentKeeps, HistoryKeeps DEF TaskCommit
  <2>4. CASE UNCHANGED officeVars
    BY <2>4, RowsStay DEF officeVars, officeRows
  <2>. QED
    BY <2>1, <2>2, <2>3, <2>4 DEF OfficeNext
<1>2. OfficeInv => NoOrphans
  BY DEF OfficeInv
<1>. QED
  BY <1>1, <1>2, OfficeStarts, PTL DEF OfficeSpec

\* What a deposit or a redemption leaves goes only with its student: no deletion
\* of a station, a challenge or a reward and no boot erases history, whatever
\* was checked before.
THEOREM HistoryIsKept == OfficeSpec => HistoryKept
<1>. DEFINE Kept == \A h \in history : h[1] \in DOMAIN student' => h \in history'
<1>1. [OfficeNext]_officeVars => [Kept]_officeVars
  <2>. SUFFICES ASSUME OfficeNext PROVE Kept
    OBVIOUS
  <2>1. CASE OfficeBoot \/ ResetUsers
    BY <2>1 DEF OfficeBoot, ResetUsers
  <2>2. ASSUME NEW w \in Staff, Handle(w) PROVE Kept
    <3>1. UNCHANGED history
      BY <2>2, LoadsWriteNothing DEF Handle, SetPoints, Award, CreateItem, officeRows
    <3>. QED
      BY <3>1
  <2>3. ASSUME NEW w \in Staff, TaskCommit(w) PROVE Kept
    <3>1. CASE RemoveCommit(w)
      BY <3>1 DEF RemoveCommit, Minus
    <3>2. CASE ~RemoveCommit(w)
      <4>1. history \subseteq history'
        BY <2>3, <3>2 DEF TaskCommit, CreateCommit, RenameCommit, DropCommit, EnrolCommit,
          UseCommit, ItemDeleteCommit
      <4>. QED
        BY <4>1
    <3>. QED
      BY <3>1, <3>2
  <2>. QED
    BY <2>1, <2>2, <2>3 DEF OfficeNext
<1>. QED
  BY <1>1, PTL DEF OfficeSpec, HistoryKept

-----------------------------------------------------------------------------
(* The migrations: the schema is what the revision says, whichever         *)
(* commands were run, and the transaction of a command moves nobody.       *)

Columns == {"rev", "has", "fac", "member", "bare"}

UpTo(r) == UNION {Adds[n] : n \in 1..r}

\* What the revision says is there, but for the default of the flags, which a
\* downgrade may have dropped and create_all does not make; or, at head, nothing.
Regular(d) ==
  \/ d.has \ {"default"} = UpTo(d.rev) \ {"default"}
  \/ d.rev = Latest /\ d.has = {}

DatabaseOK(d) ==
  /\ DOMAIN d = Columns /\ d.rev \in 0..Latest
  /\ AllEnrolled(d)
  /\ ~bypassed => Regular(d)

\* The transaction of a command has moved nobody, unless it takes everything down.
RunOK ==
  /\ DOMAIN run = {"to", "work", "on"}
  /\ run.on =>
       /\ ~up
       /\ run.to \in 0..Latest /\ DatabaseOK(run.work)
       /\ run.to = 0 /\ run.work.rev = 0 => run.work = EmptyDb
       /\ \/ run.to = 0 /\ run.work = EmptyDb
          \/ Moved(run.work, Legacy, Engineering) = home

SchemaInv == DatabaseOK(db) /\ RunOK /\ FacultyKept /\ UpgradeWorks

LEMMA NineRevisions == Latest = 9
BY DEF Latest, Adds

\* What each revision adds.
LEMMA AddsAre ==
  /\ Adds[1] = {"core"} /\ Adds[2] = {"capture"} /\ Adds[3] = {"roles", "auth"}
  /\ Adds[4] = {"flags", "default"} /\ Adds[5] = {} /\ Adds[6] = {"token"}
  /\ Adds[7] = {"avatar"} /\ Adds[8] = {"rewards"} /\ Adds[9] = {"mechanism"}
BY DEF Adds, InitialTables, CaptureColumns, Hardening, ChallengeBools, TokenVersion,
  AvatarVersion, RewardTables, StationMechanism

\* No two revisions add the same.
LEMMA AddsDisjoint ==
  ASSUME NEW m \in 1..9, NEW n \in 1..9, m # n
  PROVE  Adds[m] \cap Adds[n] = {}
<1>1. ASSUME NEW i \in 1..9, NEW j \in 1..9, i < j PROVE Adds[i] \cap Adds[j] = {}
  <2>1. CASE i \in {1, 2, 3}
    BY <1>1, <2>1, AddsAre
  <2>2. CASE i \in {4, 5, 6}
    BY <1>1, <2>2, AddsAre
  <2>3. CASE i \in {7, 8, 9}
    BY <1>1, <2>3, AddsAre
  <2>. QED
    BY <2>1, <2>2, <2>3
<1>. QED
  BY <1>1

LEMMA UpToNext ==
  ASSUME NEW r \in 0..8
  PROVE  /\ UpTo(r + 1) = UpTo(r) \cup Adds[r + 1]
         /\ UpTo(r) \cap Adds[r + 1] = {}
         /\ r >= 1 => "core" \in UpTo(r)
<1>1. UpTo(r + 1) = UpTo(r) \cup Adds[r + 1]
  <2>1. 1..r + 1 = 1..r \cup {r + 1}
    OBVIOUS
  <2>. QED
    BY <2>1 DEF UpTo
<1>2. UpTo(r) \cap Adds[r + 1] = {}
  <2>1. \A n \in 1..r : Adds[n] \cap Adds[r + 1] = {}
    BY AddsDisjoint
  <2>. QED
    BY <2>1 DEF UpTo
<1>3. ASSUME r >= 1 PROVE "core" \in UpTo(r)
  <2>1. 1 \in 1..r
    BY <1>3
  <2>. QED
    BY <2>1, AddsAre DEF UpTo
<1>. QED
  BY <1>1, <1>2, <1>3

LEMMA UpToNothing == UpTo(0) = {}
BY DEF UpTo

\* The models declare what the nine revisions add, without the default.
LEMMA ModelsAre == Models = UpTo(Latest) \ {"default"} /\ Tables \subseteq Models
<1>1. Range(Adds) = {Adds[n] : n \in 1..9}
  BY DEF Range, Adds
<1>2. Models = UpTo(Latest) \ {"default"}
  BY <1>1, NineRevisions DEF Models, UpTo
<1>3. {"core", "auth", "rewards"} \subseteq UpTo(9)
  <2>1. \A n \in 1..9 : Adds[n] \subseteq UpTo(9)
    BY DEF UpTo
  <2>. QED
    BY <2>1, AddsAre
<1>. QED
  BY <1>2, <1>3, NineRevisions DEF Tables

\* Merging the retired faculties a second time moves nobody, and neither does
\* merging them after a downgrade took some of them back.
LEMMA MovedTwice ==
  ASSUME SchemaAssumption, NEW d, NEW e, Members(e) = Members(d),
         \A u \in Members(d) :
           \/ e.member[u] = d.member[u]
           \/ d.member[u] \in Legacy /\ e.member[u] = Engineering
           \/ d.member[u] = Engineering /\ e.member[u] \in Legacy
  PROVE  Moved(e, Legacy, Engineering) = Moved(d, Legacy, Engineering)
<1>1. Engineering \notin Legacy
  BY DEF SchemaAssumption
<1>. QED
  BY <1>1 DEF Moved

LEMMA NobodyMoved == Moved(EmptyDb, Legacy, Engineering) = EmptyDb.member
BY DEF Moved, Members, EmptyDb

\* One script up: it fits a regular database, leaves a regular one, and users
\* have a faculty, which is theirs.
LEMMA ClimbKeeps ==
  ASSUME SchemaAssumption, NEW d, DatabaseOK(d), d.rev < 9,
         NEW e, e = Upgraded(d.rev + 1, d)
  PROVE  /\ DOMAIN e = Columns /\ e.rev = d.rev + 1 /\ AllEnrolled(e)
         /\ ~bypassed => Regular(e) /\ UpFits(d.rev + 1, d)
         /\ Moved(e, Legacy, Engineering) = Moved(d, Legacy, Engineering)
<1>. DEFINE n == d.rev + 1
<1>1. d.rev \in 0..8 /\ n \in 1..9 /\ DOMAIN d = Columns /\ AllEnrolled(d)
  BY NineRevisions DEF DatabaseOK
<1>2. /\ DOMAIN e = Columns /\ e.rev = n /\ e.has = d.has \cup Adds[n]
      /\ n # 5 => e.fac = d.fac /\ e.member = d.member
      /\ n = 5 => /\ e.fac = (d.fac \cup Canonical) \ Legacy
                  /\ e.member = Moved(d, Legacy, Engineering)
  BY <1>1 DEF Upgraded, Canonicalise, Columns, Moved, Members
<1>3. /\ Members(e) = Members(d)
      /\ n # 5 => \A u \in Members(d) : e.member[u] = d.member[u]
      /\ n = 5 => \A u \in Members(d) :
           e.member[u] = IF d.member[u] \in Legacy THEN Engineering ELSE d.member[u]
  BY <1>2 DEF Members, Moved
<1>4. AllEnrolled(e)
  BY <1>1, <1>2, <1>3 DEF AllEnrolled, SchemaAssumption
<1>5. Moved(e, Legacy, Engineering) = Moved(d, Legacy, Engineering)
  BY <1>3, MovedTwice
<1>6. ASSUME ~bypassed PROVE Regular(e) /\ UpFits(n, d)
  <2>1. d.has \ {"default"} = UpTo(d.rev) \ {"default"}
    BY <1>1, <1>6, NineRevisions DEF DatabaseOK, Regular
  <2>2. /\ UpTo(n) = UpTo(d.rev) \cup Adds[n] /\ UpTo(d.rev) \cap Adds[n] = {}
        /\ d.rev >= 1 => "core" \in UpTo(d.rev)
    BY <1>1, UpToNext
  <2>3. Regular(e)
    BY <1>2, <2>1, <2>2 DEF Regular
  <2>4. (Adds[n] \ {"flags", "default"}) \cap d.has = {}
    BY <2>1, <2>2
  <2>5. n > 1 => "core" \in d.has
    BY <1>1, <2>1, <2>2
  <2>. QED
    BY <2>3, <2>4, <2>5 DEF UpFits
<1>. QED
  BY <1>2, <1>4, <1>5, <1>6

\* One script down, where it fits.
LEMMA DescendKeeps ==
  ASSUME SchemaAssumption, NEW d, DatabaseOK(d), d.rev > 0, DownFits(d.rev, d),
         NEW e, e = Downgraded(d.rev, d)
  PROVE  /\ DOMAIN e = Columns /\ e.rev = d.rev - 1
         /\ ~bypassed => Regular(e)
         /\ \/ d.rev = 1 /\ e = EmptyDb
            \/ d.rev # 1 /\ Moved(e, Legacy, Engineering) = Moved(d, Legacy, Engineering)
<1>1. d.rev \in 1..9 /\ DOMAIN d = Columns
  BY NineRevisions DEF DatabaseOK
<1>2. CASE d.rev = 1
  <2>1. e = EmptyDb
    BY <1>2 DEF Downgraded
  <2>2. DOMAIN e = Columns /\ e.rev = 0 /\ e.has = {}
    BY <2>1 DEF EmptyDb, Columns
  <2>. QED
    BY <1>2, <2>1, <2>2, UpToNothing DEF Regular
<1>3. CASE d.rev # 1
  <2>1. /\ DOMAIN e = Columns /\ e.rev = d.rev - 1 /\ e.has = d.has \ Adds[d.rev]
        /\ d.rev # 5 => e.member = d.member
        /\ d.rev = 5 => e.member = Moved(d, {Engineering}, OldEngineering)
    BY <1>1, <1>3 DEF Downgraded, Retire, Columns, Moved, Members
  <2>2. /\ Members(e) = Members(d)
        /\ \A u \in Members(d) :
             \/ e.member[u] = d.member[u]
             \/ d.member[u] = Engineering /\ e.member[u] = OldEngineering
    BY <2>1 DEF Members, Moved
  <2>3. Moved(e, Legacy, Engineering) = Moved(d, Legacy, Engineering)
    BY <2>2, MovedTwice DEF SchemaAssumption
  <2>4. ASSUME ~bypassed PROVE Regular(e)
    <3>1. d.has # {} \/ d.rev = 5
      BY <1>1, AddsAre DEF DownFits
    <3>2. d.has \ {"default"} = UpTo(d.rev) \ {"default"}
      BY <2>4, <3>1, NineRevisions DEF DatabaseOK, Regular
    <3>3. /\ UpTo(d.rev) = UpTo(d.rev - 1) \cup Adds[d.rev]
          /\ UpTo(d.rev - 1) \cap Adds[d.rev] = {}
      <4>1. d.rev - 1 \in 0..8 /\ d.rev - 1 + 1 = d.rev
        BY <1>1
      <4>. QED
        BY <4>1, UpToNext
    <3>. QED
      BY <2>1, <3>2, <3>3 DEF Regular
  <2>. QED
    BY <1>3, <2>1, <2>3, <2>4
<1>. QED
  BY <1>2, <1>3

\* One script of a command, or the rollback of all of them.
LEMMA MigrateKeeps ==
  ASSUME SchemaAssumption, SchemaInv, Migrate
  PROVE  SchemaInv'
<1>. DEFINE d == run.work
            climb == d.rev < run.to
            e == IF climb THEN Upgraded(d.rev + 1, d) ELSE Downgraded(d.rev, d)
            fits == IF climb THEN UpFits(d.rev + 1, d) ELSE DownFits(d.rev, d)
<1>1. /\ run.on /\ ~up /\ d.rev # run.to /\ UNCHANGED <<db, up, bypassed, home>>
      /\ run.to \in 0..9 /\ DatabaseOK(d) /\ d.rev \in 0..9
      /\ DOMAIN run = {"to", "work", "on"}
      /\ run.to = 0 /\ d.rev = 0 => d = EmptyDb
      /\ \/ run.to = 0 /\ d = EmptyDb
         \/ Moved(d, Legacy, Engineering) = home
  BY NineRevisions DEF Migrate, SchemaInv, RunOK, DatabaseOK
<1>2. DatabaseOK(db)' /\ FacultyKept'
  BY <1>1 DEF SchemaInv, DatabaseOK, Regular, AllEnrolled, Members, FacultyKept, Moved
<1>3. CASE fits /\ AllEnrolled(e)
  <2>1. run' = [run EXCEPT !.work = e] /\ UNCHANGED failed
    BY <1>3 DEF Migrate
  <2>2. run'.work = e /\ run'.on = run.on /\ run'.to = run.to /\ DOMAIN run' = DOMAIN run
    BY <1>1, <2>1
  <2>3. PICK n : n = e
    OBVIOUS
  <2>4. /\ DOMAIN n = Columns /\ n.rev \in 0..9 /\ AllEnrolled(n)
        /\ ~bypassed => Regular(n)
        /\ run.to = 0 /\ n.rev = 0 => n = EmptyDb
        /\ \/ run.to = 0 /\ n = EmptyDb
           \/ Moved(n, Legacy, Engineering) = home
    <3>1. CASE climb
      BY <1>1, <1>3, <2>3, <3>1, ClimbKeeps
    <3>2. CASE ~climb
      <4>1. d.rev > 0 /\ DownFits(d.rev, d) /\ n = Downgraded(d.rev, d) /\ n.rev = d.rev - 1
        BY <1>1, <1>3, <2>3, <3>2, DescendKeeps
      <4>2. d # EmptyDb
        BY <4>1 DEF EmptyDb
      <4>. QED
        BY <1>1, <1>3, <2>3, <3>2, <4>1, <4>2, DescendKeeps
    <3>. QED
      BY <3>1, <3>2
  <2>5. DatabaseOK(n)'
    BY <1>1, <2>4, NineRevisions DEF DatabaseOK, Regular
  <2>6. RunOK'
    BY <1>1, <2>2, <2>3, <2>4, <2>5, NineRevisions DEF RunOK, Moved, Members
  <2>. QED
    BY <1>1, <1>2, <2>1, <2>6 DEF SchemaInv, UpgradeWorks
<1>4. CASE ~(fits /\ AllEnrolled(e))
  <2>1. run' = NoRun /\ failed' = (failed \/ climb)
    BY <1>4 DEF Migrate
  <2>2. RunOK'
    BY <2>1 DEF RunOK, NoRun
  <2>3. climb => bypassed
    BY <1>1, <1>4, ClimbKeeps
  <2>. QED
    BY <1>1, <1>2, <2>1, <2>2, <2>3 DEF SchemaInv, UpgradeWorks
<1>. QED
  BY <1>3, <1>4

\* Begun, committed, killed.
LEMMA CommandKeeps ==
  ASSUME SchemaAssumption, SchemaInv,
         (\E r \in 0..Latest : Command(r)) \/ RunCommit \/ Kill
  PROVE  SchemaInv'
<1>1. ASSUME NEW r \in 0..Latest, Command(r) PROVE SchemaInv'
  <2>1. /\ run' = [to |-> r, work |-> db, on |-> TRUE] /\ r # db.rev
        /\ ~up' /\ UNCHANGED <<db, bypassed, failed, home>>
    BY <1>1 DEF Command
  <2>2. run'.to = r /\ run'.work = db /\ DOMAIN run' = {"to", "work", "on"}
    BY <2>1
  <2>3. DatabaseOK(db)' /\ FacultyKept' /\ UpgradeWorks'
    BY <2>1 DEF SchemaInv, DatabaseOK, Regular, AllEnrolled, Members, FacultyKept, Moved,
      UpgradeWorks
  <2>4. RunOK'
    BY <2>1, <2>2, <2>3 DEF RunOK, FacultyKept
  <2>. QED
    BY <2>3, <2>4 DEF SchemaInv
<1>2. CASE RunCommit
  <2>1. /\ run.on /\ run.work.rev = run.to /\ db' = run.work /\ run' = NoRun
        /\ home' = (IF run.to = 0 THEN EmptyDb.member ELSE home)
        /\ UNCHANGED <<bypassed, failed>>
    BY <1>2 DEF RunCommit
  <2>2. DatabaseOK(db)'
    BY <2>1 DEF SchemaInv, RunOK, DatabaseOK, Regular, AllEnrolled, Members
  <2>3. RunOK'
    BY <2>1 DEF RunOK, NoRun
  <2>4. FacultyKept'
    <3>1. CASE run.to = 0
      <4>1. db' = EmptyDb /\ home' = EmptyDb.member
        BY <2>1, <3>1 DEF SchemaInv, RunOK
      <4>. QED
        BY <4>1, NobodyMoved DEF FacultyKept
    <3>2. CASE run.to # 0
      <4>1. Moved(run.work, Legacy, Engineering) = home /\ home' = home
        BY <2>1, <3>2 DEF SchemaInv, RunOK
      <4>. QED
        BY <2>1, <4>1 DEF FacultyKept
    <3>. QED
      BY <3>1, <3>2
  <2>. QED
    BY <2>1, <2>2, <2>3, <2>4 DEF SchemaInv, UpgradeWorks
<1>3. CASE Kill
  <2>1. run' = NoRun /\ UNCHANGED <<db, up, bypassed, failed, home>>
    BY <1>3 DEF Kill
  <2>. QED
    BY <2>1 DEF SchemaInv, RunOK, NoRun, DatabaseOK, Regular, AllEnrolled, Members,
      FacultyKept, Moved, UpgradeWorks
<1>. QED
  BY <1>1, <1>2, <1>3

\* Without a command in progress only the database is to be shown.
LEMMA SchemaAtRest ==
  ASSUME SchemaInv, ~run.on, UNCHANGED <<run, failed>>, bypassed => bypassed',
         DatabaseOK(db)', FacultyKept'
  PROVE  SchemaInv'
BY DEF SchemaInv, RunOK, UpgradeWorks

LEMMA SchemaBootKeeps ==
  ASSUME SchemaAssumption, SchemaInv, SchemaBoot
  PROVE  SchemaInv'
<1>1. PICK d : d = Created(db)
  OBVIOUS
<1>2. /\ ~run.on /\ UNCHANGED <<run, failed, home>>
      /\ bypassed' = (bypassed \/ (d.has # db.has /\ db.rev # Latest))
      /\ \/ db' = d
         \/ d.fac = {} /\ db' = [d EXCEPT !.fac = Canonical]
  BY <1>1 DEF SchemaBoot
<1>3. /\ DOMAIN db = Columns /\ db.rev \in 0..Latest /\ AllEnrolled(db)
      /\ ~bypassed => Regular(db)
  BY DEF SchemaInv, DatabaseOK
<1>4. /\ DOMAIN d = Columns /\ d.rev = db.rev /\ d.member = db.member /\ d.fac = db.fac
      /\ d.has = IF "core" \in db.has THEN db.has \cup Tables ELSE Models
  BY <1>1, <1>3 DEF Created, Columns
<1>5. /\ DOMAIN db' = Columns /\ db'.rev = db.rev /\ db'.member = db.member
      /\ db'.has = d.has /\ (db'.fac = db.fac \/ db.fac = {})
  BY <1>2, <1>4 DEF Columns
<1>6. AllEnrolled(db)'
  BY <1>3, <1>5 DEF AllEnrolled, Members
<1>7. ASSUME ~bypassed' PROVE Regular(db)'
  <2>1. Regular(db) /\ (d.has = db.has \/ db.rev = Latest)
    BY <1>2, <1>3, <1>7
  <2>2. CASE d.has = db.has
    BY <1>5, <2>1, <2>2 DEF Regular
  <2>3. CASE db.rev = Latest
    <3>1. "default" \notin Tables /\ "default" \notin Models
      BY DEF Tables, Models
    <3>2. d.has \ {"default"} = UpTo(Latest) \ {"default"}
      BY <1>4, <2>1, <2>3, <3>1, ModelsAre DEF Regular
    <3>. QED
      BY <1>5, <2>3, <3>2 DEF Regular
  <2>. QED
    BY <2>1, <2>2, <2>3
<1>8. DatabaseOK(db)'
  BY <1>3, <1>5, <1>6, <1>7 DEF DatabaseOK
<1>9. FacultyKept'
  BY <1>2, <1>5 DEF SchemaInv, FacultyKept, Moved, Members
<1>. QED
  BY <1>2, <1>8, <1>9, SchemaAtRest

LEMMA DropKeeps ==
  ASSUME SchemaInv, Drop
  PROVE  SchemaInv'
<1>1. /\ ~run.on /\ UNCHANGED <<run, failed>>
      /\ db' = [EmptyDb EXCEPT !.rev = db.rev] /\ home' = EmptyDb.member
      /\ bypassed' = (bypassed \/ db.rev # Latest) /\ db.rev \in 0..Latest
  BY DEF Drop, SchemaInv, DatabaseOK
<1>2. /\ DOMAIN db' = Columns /\ db'.rev = db.rev /\ db'.has = {}
      /\ db'.member = EmptyDb.member /\ DOMAIN EmptyDb.member = {}
  BY <1>1 DEF EmptyDb, Columns
<1>3. DatabaseOK(db)'
  BY <1>1, <1>2 DEF DatabaseOK, AllEnrolled, Members, Regular
<1>4. FacultyKept'
  BY <1>1, <1>2, NobodyMoved DEF FacultyKept, Moved, Members
<1>. QED
  BY <1>1, <1>3, <1>4, SchemaAtRest

\* What the running backend writes: a student in a faculty of the seed.
LEMMA EnrolKeeps ==
  ASSUME SchemaAssumption, SchemaInv, NEW u \in Population, NEW f \in Canonical, Enrol(u, f)
  PROVE  SchemaInv'
<1>1. /\ ~run.on /\ f \in db.fac /\ f \notin Legacy /\ u \notin Members(db)
      /\ db' = [db EXCEPT !.member = [v \in Members(db) \cup {u} |->
                                        IF v = u THEN f ELSE db.member[v]]]
      /\ home' = [v \in DOMAIN home \cup {u} |-> IF v = u THEN f ELSE home[v]]
      /\ UNCHANGED <<run, up, bypassed, failed>>
  BY DEF Enrol, SchemaAssumption, SchemaInv, RunOK
<1>2. /\ DOMAIN db' = Columns
      /\ db'.rev = db.rev /\ db'.has = db.has /\ db'.fac = db.fac
      /\ db'.member = [v \in Members(db) \cup {u} |-> IF v = u THEN f ELSE db.member[v]]
  BY <1>1 DEF SchemaInv, DatabaseOK, Columns
<1>3. DatabaseOK(db)'
  BY <1>1, <1>2 DEF SchemaInv, DatabaseOK, AllEnrolled, Members, Regular
<1>4. FacultyKept'
  BY <1>1, <1>2 DEF SchemaInv, FacultyKept, Moved, Members
<1>. QED
  BY <1>1, <1>3, <1>4, SchemaAtRest

\* A capture-first session, and the end of the process.
LEMMA CaptureKeeps ==
  ASSUME SchemaInv, Capture \/ Stop
  PROVE  SchemaInv'
<1>1. ~run.on /\ UNCHANGED <<run, bypassed, failed, home>>
  BY DEF Capture, Stop, SchemaInv, RunOK
<1>2. /\ DOMAIN db' = Columns
      /\ db'.rev = db.rev /\ db'.has = db.has /\ db'.fac = db.fac /\ db'.member = db.member
  BY DEF Capture, Stop, SchemaInv, DatabaseOK, Columns
<1>3. DatabaseOK(db)' /\ FacultyKept'
  BY <1>1, <1>2 DEF SchemaInv, DatabaseOK, AllEnrolled, Members, Regular, FacultyKept, Moved
<1>. QED
  BY <1>1, <1>3, SchemaAtRest

LEMMA SchemaStarts == SchemaInit => SchemaInv
<1>. SUFFICES ASSUME SchemaInit PROVE SchemaInv
  OBVIOUS
<1>1. PICK r \in 0..Latest, U \in SUBSET Population, b \in BOOLEAN :
        LET fac == IF r = 0 THEN {} ELSE IF r < 5 THEN Legacy ELSE Canonical IN
        \E m \in [U -> fac] :
          db = [rev |-> r, has |-> UpTo(r), fac |-> fac, member |-> m, bare |-> b]
  BY DEF SchemaInit, UpTo
<1>2. DatabaseOK(db)
  BY <1>1 DEF DatabaseOK, Columns, AllEnrolled, Members, Regular
<1>. QED
  BY <1>2 DEF SchemaInit, SchemaInv, RunOK, NoRun, FacultyKept, UpgradeWorks

LEMMA SchemaStep ==
  ASSUME SchemaAssumption
  PROVE  SchemaInv /\ [SchemaNext]_schemaVars => SchemaInv'
<1>. SUFFICES ASSUME SchemaInv, [SchemaNext]_schemaVars PROVE SchemaInv'
  OBVIOUS
<1>1. CASE UNCHANGED schemaVars
  BY <1>1 DEF schemaVars, SchemaInv, RunOK, DatabaseOK, Regular, AllEnrolled, Members,
    FacultyKept, Moved, UpgradeWorks
<1>. QED
  BY <1>1, MigrateKeeps, CommandKeeps, SchemaBootKeeps, DropKeeps, EnrolKeeps, CaptureKeeps
  DEF SchemaNext

\* "Alembic owns the schema": by any sequence of upgrades, downgrades, kills,
\* resets at head and boots, with any students and faculties, `alembic upgrade`
\* fails only on a database that create_all or drop_all was let at below head.
THEOREM UpgradeAlwaysWorks ==
  ASSUME SchemaAssumption
  PROVE  SchemaSpec => []UpgradeWorks
<1>1. SchemaInv => UpgradeWorks
  BY DEF SchemaInv
<1>. QED
  BY <1>1, SchemaStarts, SchemaStep, PTL DEF SchemaSpec

\* "Users are remapped by name match where possible" (0005_faculty_canonical.py):
\* whatever is committed, every user is in the faculty they chose, or in the one
\* it was merged into.
THEOREM NobodyMisplaced ==
  ASSUME SchemaAssumption
  PROVE  SchemaSpec => []FacultyKept
<1>1. SchemaInv => FacultyKept
  BY DEF SchemaInv
<1>. QED
  BY <1>1, SchemaStarts, SchemaStep, PTL DEF SchemaSpec

-----------------------------------------------------------------------------
(* The dataset: groups go to a part whole, each part's directory lists     *)
(* some of what the first split gave it, and a count of the groups of a    *)
(* class says which parts it reaches.                                      *)

\* What is read and what is loaded, while the first split is the only one: each
\* part's directory lists some of what the split gave the part, and what was
\* loaded is listed.
FirstSplit ==
  /\ runs = 0 => dirs = Nothing /\ plan = Nothing
  /\ runs <= 1 =>
       /\ \A p, q \in Parts : \A i \in split[p], j \in split[q] :
            p # q => Session[i] # Session[j]
       /\ \A p \in Parts : plan[p] \cup dirs[p] \subseteq split[p] /\ seen[p] \subseteq dirs[p]

DatasetTypes ==
  /\ rows \in Seq(Images) /\ rendered \in Seq(Images)
  /\ collector \in Images \cup {NoImage}
  /\ runs \in Nat
  /\ DOMAIN plan = Parts /\ DOMAIN dirs = Parts /\ DOMAIN seen = Parts

DatasetInv == DatasetTypes /\ FirstSplit /\ SplitCovers

\* The class of a group is the class of one of its images, the first by row.
LEMMA FirstRow ==
  ASSUME NEW r, r \in Seq(Images), NEW g, g # {}, g \subseteq Range(r)
  PROVE  \E i \in g : ClassOf(g, r) = Class[i]
<1>. DEFINE T == {n \in 1..Len(r) : r[n] \in g}
            Earliest(n) == r[n] \in g /\ \A m \in 1..n - 1 : r[m] \notin g
<1>1. DOMAIN r = 1..Len(r) /\ T \subseteq Nat
  OBVIOUS
<1>2. T # {}
  BY <1>1 DEF Range
<1>3. PICK x \in T : \A y \in T : x <= y
  <2>. HIDE DEF T
  <2>. QED
    BY <1>1, <1>2, LeastNatural
<1>4. Earliest(x)
  <2>1. ASSUME NEW m \in 1..x - 1 PROVE r[m] \notin g
    <3>1. m \in 1..Len(r) /\ ~(x <= m)
      BY <1>1
    <3>. QED
      BY <1>3, <3>1
  <2>. QED
    BY <2>1
<1>5. Earliest(CHOOSE n \in DOMAIN r : Earliest(n))
  BY <1>1, <1>4
<1>. QED
  BY <1>5 DEF ClassOf

\* Of finite sets, there is always a smallest.
LEMMA SmallestIsThere ==
  ASSUME NEW S, S # {}, \A g \in S : IsFiniteSet(g)
  PROVE  Smallest(S) # {}
<1>. DEFINE T == {Cardinality(g) : g \in S}
<1>1. \A g \in S : Cardinality(g) \in Nat
  BY FS_CardinalityType
<1>2. PICK x \in T : \A y \in T : x <= y
  <2>1. T \subseteq Nat /\ T # {}
    BY <1>1
  <2>. HIDE DEF T
  <2>. QED
    BY <2>1, LeastNatural
<1>3. PICK g \in S : x = Cardinality(g)
  OBVIOUS
<1>4. g \in Smallest(S)
  BY <1>2, <1>3 DEF Smallest
<1>. QED
  BY <1>4

\* The arithmetic of the shares: fewer than three groups hold none out, three
\* or more hold out one at least and less than half.
LEMMA Shares ==
  ASSUME NEW n \in Nat
  PROVE  /\ HeldOut(n) \in Nat
         /\ n < 3 => HeldOut(n) = 0
         /\ n >= 3 => HeldOut(n) >= 1 /\ 2 * HeldOut(n) < n
<1>1. CASE n < 3
  BY <1>1 DEF HeldOut
<1>2. CASE n >= 3
  <2>. DEFINE whole == (15 * n) \div 100
              rest == (15 * n) % 100
              round == IF rest > 50 \/ (rest = 50 /\ whole % 2 = 1) THEN whole + 1 ELSE whole
              M == Max({1, round})
  <2>1. /\ whole \in Nat /\ rest \in 0..99 /\ 15 * n = 100 * whole + rest
    OBVIOUS
  <2>2. round \in Nat /\ 2 * round < n
    <3>1. round = whole \/ (round = whole + 1 /\ rest >= 50)
      BY <2>1
    <3>. HIDE DEF whole, rest, round
    <3>. QED
      BY <1>2, <2>1, <3>1
  <2>. HIDE DEF round
  <2>3. M \in {1, round} /\ M >= 1
    <3>1. \E x \in {1, round} : \A y \in {1, round} : x >= y
      <4>1. CASE round >= 1
        BY <2>2, <4>1
      <4>2. CASE ~(round >= 1)
        BY <2>2, <4>2
      <4>. QED
        BY <4>1, <4>2
    <3>2. M \in {1, round} /\ \A y \in {1, round} : M >= y
      BY <3>1 DEF Max
    <3>. QED
      BY <3>2
  <2>4. HeldOut(n) = M
    BY <1>2 DEF HeldOut, round
  <2>. QED
    BY <1>2, <2>2, <2>3, <2>4
<1>. QED
  BY <1>1, <1>2

\* One donor for a part that lacks the class, from the train part as long as
\* that has any; or nothing is to be done, or nobody to do it.
Inherited(G, a, p, b) ==
  \/ /\ b = a
     /\ \/ \E g \in G : a[g] = p
        \/ \A g \in G : a[g] # "train" /\ a[g] # "test"
  \/ \E d \in G : /\ b = [a EXCEPT ![d] = p]
                  /\ \A g \in G : a[g] # p
                  /\ \/ a[d] = "train"
                     \/ a[d] = "test" /\ \A g \in G : a[g] # "train"

LEMMA InheritGives ==
  ASSUME NEW G, \A g \in G : IsFiniteSet(g), NEW a \in [G -> Parts], NEW p \in Parts,
         NEW b \in Inherit(a, p)
  PROVE  b \in [G -> Parts] /\ Inherited(G, a, p, b)
<1>. DEFINE of(q) == {g \in DOMAIN a : a[g] = q}
            from == IF of("train") # {} THEN of("train") ELSE of("test")
            donors == Smallest(from)
<1>1. DOMAIN a = G /\ from \subseteq G
  OBVIOUS
<1>2. donors \subseteq from /\ (from # {} => donors # {})
  <2>1. \A g \in from : IsFiniteSet(g)
    BY <1>1
  <2>. HIDE DEF from
  <2>. QED
    BY <2>1, SmallestIsThere DEF Smallest
<1>3. CASE of(p) # {} \/ donors = {}
  <2>1. b = a
    BY <1>3 DEF Inherit
  <2>2. of(p) # {} \/ from = {}
    BY <1>2, <1>3
  <2>. HIDE DEF donors
  <2>. QED
    BY <1>1, <2>1, <2>2 DEF Inherited
<1>4. CASE ~(of(p) # {} \/ donors = {})
  <2>1. PICK d \in donors : b = [a EXCEPT ![d] = p]
    BY <1>4 DEF Inherit
  <2>2. d \in from
    BY <1>2
  <2>. HIDE DEF donors
  <2>. QED
    BY <1>1, <1>4, <2>1, <2>2 DEF Inherited
<1>. QED
  BY <1>3, <1>4

\* What the two shares leave of three or more groups is trained on.
LEMMA StratifiedGives ==
  ASSUME NEW G, IsFiniteSet(G), NEW a \in Stratified(G)
  PROVE  /\ a \in [G -> Parts]
         /\ Cardinality(G) < 3 => \A g \in G : a[g] = "train"
         /\ Cardinality(G) >= 3 => \A p \in Parts : \E g \in G : a[g] = p
<1>. DEFINE n == Cardinality(G)
            Of(p) == {g \in G : a[g] = p}
<1>1. /\ n \in Nat /\ a \in [G -> Parts]
      /\ Cardinality(Of("val")) = HeldOut(n) /\ Cardinality(Of("test")) = HeldOut(n)
  BY FS_CardinalityType DEF Stratified
<1>2. ASSUME NEW p PROVE IsFiniteSet(Of(p)) /\ (Cardinality(Of(p)) = 0 <=> Of(p) = {})
  <2>1. Of(p) \in SUBSET G
    OBVIOUS
  <2>2. IsFiniteSet(Of(p))
    BY <2>1, FS_Subset
  <2>. HIDE DEF Of
  <2>. QED
    BY <2>2, FS_EmptySet
<1>3. ASSUME n < 3, NEW g \in G PROVE a[g] = "train"
  <2>1. Of("val") = {} /\ Of("test") = {}
    BY <1>1, <1>2, <1>3, Shares
  <2>2. a[g] \in {"train", "val", "test"}
    BY <1>1 DEF Parts
  <2>. QED
    BY <2>1, <2>2
<1>4. ASSUME n >= 3, NEW p \in Parts PROVE \E g \in G : a[g] = p
  <2>1. HeldOut(n) >= 1 /\ 2 * HeldOut(n) < n /\ HeldOut(n) \in Nat
    BY <1>1, <1>4, Shares
  <2>2. CASE p \in {"val", "test"}
    <3>1. Of(p) # {}
      <4>. HIDE DEF Of
      <4>. QED
        BY <1>1, <1>2, <2>1, <2>2
    <3>. QED
      BY <3>1
  <2>3. CASE p = "train"
    <3>. DEFINE held == Of("val") \cup Of("test")
    <3>1. Cardinality(held) <= 2 * HeldOut(n)
      <4>. HIDE DEF Of
      <4>1. IsFiniteSet(Of("val")) /\ IsFiniteSet(Of("test"))
        BY <1>2
      <4>2. IsFiniteSet(Of("val") \cap Of("test"))
        BY <4>1, FS_Intersection
      <4>3. Cardinality(Of("val") \cap Of("test")) \in Nat
        BY <4>2, FS_CardinalityType
      <4>4. Cardinality(held) = HeldOut(n) + HeldOut(n) - Cardinality(Of("val") \cap Of("test"))
        BY <1>1, <4>1, FS_Union
      <4>. QED
        BY <2>1, <4>3, <4>4
    <3>2. held # G
      BY <1>1, <2>1, <3>1
    <3>3. PICK g \in G : g \notin held
      BY <3>2
    <3>. QED
      BY <1>1, <2>3, <3>3 DEF Parts
  <2>. QED
    BY <2>2, <2>3 DEF Parts
<1>. QED
  BY <1>1, <1>3, <1>4

\* A class is validated as soon as it has a group, tested with two, trained on
\* with three, in any order of the shuffle and for any sizes of the groups.
LEMMA ClassIsCovered ==
  ASSUME NEW G, IsFiniteSet(G), \A g \in G : IsFiniteSet(g), NEW a \in SplitOfClass(G)
  PROVE  /\ a \in [G -> Parts]
         /\ Cardinality(G) >= 1 => \E g \in G : a[g] = "val"
         /\ Cardinality(G) >= 2 => \E g \in G : a[g] = "test"
         /\ Cardinality(G) >= 3 => \E g \in G : a[g] = "train"
<1>. DEFINE n == Cardinality(G)
<1>1. /\ n \in Nat
      /\ n >= 1 => \E g \in G : TRUE
      /\ n >= 2 => \A g \in G : \E h \in G : h # g
  <2>1. n \in Nat /\ (n = 0 <=> G = {})
    BY FS_CardinalityType, FS_EmptySet
  <2>2. ASSUME n >= 2, NEW g \in G PROVE \E h \in G : h # g
    <3>1. G # {g}
      BY <2>1, <2>2, FS_Singleton
    <3>. QED
      BY <3>1
  <2>. QED
    BY <2>1, <2>2
<1>2. PICK a2 \in Rebalance(Rebalance(Stratified(G), "train"), "val") : a \in Inherit(a2, "test")
  BY DEF SplitOfClass, Rebalance
<1>3. PICK a1 \in Rebalance(Stratified(G), "train") : a2 \in Inherit(a1, "val")
  BY DEF Rebalance
<1>4. PICK a0 \in Stratified(G) : a1 \in Inherit(a0, "train")
  BY DEF Rebalance
<1>5. a0 \in [G -> Parts]
  BY StratifiedGives
<1>6. a1 \in [G -> Parts] /\ Inherited(G, a0, "train", a1)
  BY <1>4, <1>5, InheritGives DEF Parts
<1>7. a2 \in [G -> Parts] /\ Inherited(G, a1, "val", a2)
  BY <1>3, <1>6, InheritGives DEF Parts
<1>8. a \in [G -> Parts] /\ Inherited(G, a2, "test", a)
  BY <1>2, <1>7, InheritGives DEF Parts
<1>9. CASE n >= 3
  <2>1. \A p \in {"train", "val", "test"} : \E g \in G : a0[g] = p
    BY <1>9, StratifiedGives DEF Parts
  <2>2. a1 = a0
    BY <1>6, <2>1 DEF Inherited
  <2>3. a2 = a0
    BY <1>7, <2>1, <2>2 DEF Inherited
  <2>4. a = a0
    BY <1>8, <2>1, <2>3 DEF Inherited
  <2>. QED
    BY <1>8, <2>1, <2>4
<1>10. CASE n \in {1, 2}
  <2>1. \A g \in G : a0[g] = "train"
    BY <1>10, StratifiedGives
  <2>2. a1 = a0
    BY <1>1, <1>6, <1>10, <2>1 DEF Inherited
  <2>3. PICK v \in G : a2 = [a1 EXCEPT ![v] = "val"]
    BY <1>1, <1>7, <1>10, <2>1, <2>2 DEF Inherited
  <2>4. /\ a2[v] = "val" /\ \A g \in G : g # v => a2[g] = "train"
    BY <1>5, <2>1, <2>2, <2>3
  <2>5. \/ a = a2 /\ \A g \in G : a2[g] # "train"
        \/ \E d \in G : a = [a2 EXCEPT ![d] = "test"] /\ a2[d] # "val"
    BY <1>8, <2>4 DEF Inherited
  <2>6. a[v] = "val"
    BY <1>7, <2>4, <2>5
  <2>7. ASSUME n = 2 PROVE \E g \in G : a[g] = "test"
    <3>1. PICK h \in G : h # v
      BY <1>1, <2>7
    <3>. QED
      BY <1>7, <2>4, <2>5, <3>1
  <2>. QED
    BY <1>8, <1>10, <2>6, <2>7
<1>. QED
  BY <1>1, <1>8, <1>9, <1>10

\* Grouped by session, the images fall into finitely many groups, each found
\* again by any of its images.
LEMMA GroupsAre ==
  ASSUME NEW S, IsFiniteSet(S)
  PROVE  /\ IsFiniteSet(GroupBySession(S))
         /\ \A g \in GroupBySession(S) : g # {} /\ g \subseteq S /\ IsFiniteSet(g)
         /\ \A g \in GroupBySession(S) : \A i \in g :
              g = {j \in S : Session[j] = Session[i]}
         /\ \A i \in S : {j \in S : Session[j] = Session[i]} \in GroupBySession(S)
<1>1. GroupBySession(S) \in SUBSET (SUBSET S)
  BY DEF GroupBySession
<1>2. IsFiniteSet(SUBSET S)
  BY FS_SUBSET
<1>3. IsFiniteSet(GroupBySession(S))
  BY <1>1, <1>2, FS_Subset
<1>4. \A g \in GroupBySession(S) : g \subseteq S /\ IsFiniteSet(g)
  BY <1>1, FS_Subset
<1>. QED
  BY <1>3, <1>4 DEF GroupBySession

\* The assignments a split consists of, one for each class.
LEMMA SplitIs ==
  ASSUME NEW S, NEW r, NEW s \in SessionAwareSplit(S, r)
  PROVE  \E f :
           /\ \A c \in Classes :
                f[c] \in SplitOfClass({g \in GroupBySession(S) : ClassOf(g, r) = c})
           /\ DOMAIN s = Parts
           /\ \A p \in Parts :
                s[p] = UNION {g \in GroupBySession(S) : f[ClassOf(g, r)][g] = p}
BY DEF SessionAwareSplit

\* Groups go to a part whole.
LEMMA SessionsStayWhole ==
  ASSUME NEW S, IsFiniteSet(S), NEW r, NEW s \in SessionAwareSplit(S, r),
         NEW p \in Parts, NEW q \in Parts, NEW i \in s[p], NEW j \in s[q],
         Session[i] = Session[j]
  PROVE  p = q
<1>1. PICK f : \A part \in Parts :
        s[part] = UNION {g \in GroupBySession(S) : f[ClassOf(g, r)][g] = part}
  BY SplitIs
<1>2. PICK g \in GroupBySession(S) : i \in g /\ f[ClassOf(g, r)][g] = p
  BY <1>1
<1>3. PICK h \in GroupBySession(S) : j \in h /\ f[ClassOf(h, r)][h] = q
  BY <1>1
<1>4. g = {k \in S : Session[k] = Session[i]}
  BY <1>2, GroupsAre
<1>5. h = {k \in S : Session[k] = Session[j]}
  BY <1>3, GroupsAre
<1>6. g = h
  BY <1>4, <1>5
<1>. QED
  BY <1>2, <1>3, <1>6

LEMMA ListedAreFinite ==
  ASSUME NEW r, r \in Seq(Images), NEW S, S \subseteq Range(r)
  PROVE  IsFiniteSet(S)
<1>1. DOMAIN r = 1..Len(r) /\ Len(r) \in Nat
  OBVIOUS
<1>2. r \in Surjection(1..Len(r), Range(r))
  BY <1>1 DEF Surjection, Range
<1>3. IsFiniteSet(1..Len(r))
  BY <1>1, FS_Interval
<1>4. IsFiniteSet(Range(r))
  BY <1>2, <1>3, FS_Surjection
<1>. QED
  BY <1>4, FS_Subset

\* A split covers every class, counted by its sessions of that class alone.
LEMMA SplitIsCovering ==
  ASSUME DatasetAssumption, NEW r, r \in Seq(Images), NEW S, S \subseteq Range(r),
         split' \in SessionAwareSplit(S, r)
  PROVE  SplitCovers'
<1>. DEFINE groups == GroupBySession(S)
            Of(c) == {g \in groups : ClassOf(g, r) = c}
<1>1. IsFiniteSet(S) /\ S \subseteq Images
  BY ListedAreFinite DEF Range
<1>2. \A g \in groups : \E i \in g : ClassOf(g, r) = Class[i]
  BY <1>1, GroupsAre, FirstRow
<1>3. \A g \in groups : ClassOf(g, r) \in Classes
  BY <1>1, <1>2, GroupsAre DEF DatasetAssumption, Classes, Range
<1>4. PICK f :
        /\ \A c \in Classes : f[c] \in SplitOfClass(Of(c))
        /\ \A p \in Parts : split'[p] = UNION {g \in groups : f[ClassOf(g, r)][g] = p}
  BY SplitIs
<1>5. ASSUME NEW c \in Classes
      PROVE  /\ IsFiniteSet(Of(c)) /\ f[c] \in [Of(c) -> Parts]
             /\ Cardinality(Of(c)) >= 1 => \E g \in Of(c) : f[c][g] = "val"
             /\ Cardinality(Of(c)) >= 2 => \E g \in Of(c) : f[c][g] = "test"
             /\ Cardinality(Of(c)) >= 3 => \E g \in Of(c) : f[c][g] = "train"
  <2>1. Of(c) \in SUBSET groups
    OBVIOUS
  <2>2. IsFiniteSet(Of(c)) /\ \A g \in Of(c) : IsFiniteSet(g)
    BY <1>1, <2>1, GroupsAre, FS_Subset
  <2>3. f[c] \in SplitOfClass(Of(c))
    BY <1>4
  <2>. HIDE DEF Of
  <2>. QED
    BY <2>2, <2>3, ClassIsCovered
<1>6. ASSUME NEW c \in Classes, NEW p \in Parts, NEW g \in Of(c), f[c][g] = p
      PROVE  \E i \in split'[p] : Class[i] = c
  BY <1>2, <1>4, <1>6
<1>7. UNION {split'[p] : p \in Parts} = S
  <2>1. ASSUME NEW i \in S PROVE \E p \in Parts : i \in split'[p]
    <3>. DEFINE g == {j \in S : Session[j] = Session[i]}
    <3>1. g \in groups /\ i \in g
      BY <1>1, GroupsAre
    <3>. HIDE DEF g
    <3>2. g \in Of(ClassOf(g, r)) /\ ClassOf(g, r) \in Classes
      BY <1>3, <3>1
    <3>3. f[ClassOf(g, r)][g] \in Parts
      <4>. HIDE DEF Of
      <4>. QED
        BY <1>5, <3>2
    <3>. QED
      BY <1>4, <3>1, <3>3
  <2>2. \A p \in Parts : split'[p] \subseteq S
    BY <1>1, <1>4, GroupsAre
  <2>. QED
    BY <2>1, <2>2
<1>8. ASSUME NEW c \in Classes
      PROVE  LET own == {s \in Range(Session) :
                           \E i \in S : Session[i] = s
                           /\ \A j \in S : Session[j] = s => Class[j] = c}
             IN IsFiniteSet(own) /\ Cardinality(own) <= Cardinality(Of(c))
  <2>. DEFINE own == {s \in Range(Session) :
                        \E i \in S : Session[i] = s
                        /\ \A j \in S : Session[j] = s => Class[j] = c}
              group == [s \in own |-> {j \in S : Session[j] = s}]
  <2>1. ASSUME NEW s \in own PROVE group[s] \in Of(c) /\ group[s] # {}
    <3>1. PICK i \in S : Session[i] = s
      OBVIOUS
    <3>2. group[s] = {j \in S : Session[j] = Session[i]} /\ i \in group[s]
      BY <3>1
    <3>3. group[s] \in groups
      BY <1>1, <3>2, GroupsAre
    <3>4. \A j \in group[s] : Class[j] = c
      OBVIOUS
    <3>. HIDE DEF group
    <3>. QED
      BY <1>2, <3>2, <3>3, <3>4
  <2>2. group \in Injection(own, Of(c))
    <3>1. group \in [own -> Of(c)]
      BY <2>1
    <3>2. ASSUME NEW s \in own, NEW t \in own, group[s] = group[t] PROVE s = t
      <4>1. PICK i : i \in group[s]
        BY <2>1
      <4>. QED
        BY <3>2, <4>1
    <3>. QED
      BY <3>1, <3>2 DEF Injection, IsInjective
  <2>. HIDE DEF own, group, Of
  <2>. QED
    BY <1>5, <2>2, FS_Injection DEF own
<1>9. ASSUME NEW c \in Classes
      PROVE  LET n == Cardinality({s \in Range(Session) :
                                     \E i \in S : Session[i] = s
                                     /\ \A j \in S : Session[j] = s => Class[j] = c})
             IN /\ n >= 1 => \E i \in split'["val"] : Class[i] = c
                /\ n >= 2 => \E i \in split'["test"] : Class[i] = c
                /\ n >= 3 => \E i \in split'["train"] : Class[i] = c
  <2>. DEFINE own == {s \in Range(Session) :
                        \E i \in S : Session[i] = s
                        /\ \A j \in S : Session[j] = s => Class[j] = c}
  <2>. HIDE DEF Of
  <2>1. IsFiniteSet(own) /\ Cardinality(own) <= Cardinality(Of(c))
    BY <1>8
  <2>. HIDE DEF own
  <2>2. Cardinality(own) \in Nat /\ Cardinality(Of(c)) \in Nat
    BY <1>5, <2>1, FS_CardinalityType
  <2>3. /\ Cardinality(own) >= 1 => \E g \in Of(c) : f[c][g] = "val"
        /\ Cardinality(own) >= 2 => \E g \in Of(c) : f[c][g] = "test"
        /\ Cardinality(own) >= 3 => \E g \in Of(c) : f[c][g] = "train"
    BY <1>5, <2>1, <2>2
  <2>. QED
    BY <1>6, <2>3 DEF own, Parts
<1>. QED
  BY <1>7, <1>9 DEF SplitCovers

LEMMA DatasetStarts == DatasetInit => DatasetInv
BY DEF DatasetInit, DatasetInv, DatasetTypes, FirstSplit, SplitCovers, Nothing, Parts

\* The tools that label: no split, and rows of images.
LEMMA LabelKeeps ==
  ASSUME DatasetAssumption, DatasetInv,
         \/ \E i \in Images : CollectSave(i) \/ PilotSave(i)
         \/ CollectAppend \/ CollectKill \/ PilotWrite \/ PilotKill
  PROVE  DatasetInv'
<1>1. UNCHANGED <<plan, split, runs, dirs, seen>>
  BY DEF CollectSave, PilotSave, CollectAppend, CollectKill, PilotWrite, PilotKill
<1>2. rows' \in Seq(Images)
  <2>1. CASE CollectAppend
    BY <2>1 DEF CollectAppend, DatasetInv, DatasetTypes
  <2>2. CASE PilotWrite
    BY <2>2 DEF PilotWrite, DatasetInv, DatasetTypes
  <2>. QED
    BY <2>1, <2>2 DEF DatasetInv, DatasetTypes, CollectSave, PilotSave, CollectKill, PilotKill
<1>3. rendered' \in Seq(Images)
  <2>1. ASSUME NEW i \in Images, PilotSave(i) PROVE rendered' \in Seq(Images)
    BY <2>1 DEF PilotSave, DatasetInv, DatasetTypes
  <2>2. <<>> \in Seq(Images)
    OBVIOUS
  <2>. QED
    BY <2>1, <2>2 DEF DatasetInv, DatasetTypes, CollectSave, CollectAppend, CollectKill,
      PilotWrite, PilotKill
<1>4. collector' \in Images \cup {NoImage}
  BY DEF DatasetInv, DatasetTypes, CollectSave, PilotSave, CollectAppend, CollectKill,
    PilotWrite, PilotKill
<1>5. DatasetTypes'
  BY <1>1, <1>2, <1>3, <1>4 DEF DatasetInv, DatasetTypes
<1>6. FirstSplit' /\ SplitCovers'
  BY <1>1 DEF DatasetInv, FirstSplit, SplitCovers
<1>. QED
  BY <1>5, <1>6 DEF DatasetInv

LEMMA SplitStartKeeps ==
  ASSUME DatasetAssumption, DatasetInv, SplitStart
  PROVE  DatasetInv'
<1>. DEFINE S == Range(rows) \cap disk
<1>1. /\ runs' = runs + 1 /\ runs \in Nat /\ rows \in Seq(Images) /\ IsFiniteSet(S)
      /\ split' \in SessionAwareSplit(S, rows) /\ plan' = split'
      /\ UNCHANGED <<disk, rows, collector, rendered, dirs, seen>>
  BY ListedAreFinite DEF SplitStart, DatasetInv, DatasetTypes
<1>2. DOMAIN split' = Parts
  BY <1>1, SplitIs
<1>3. DatasetTypes'
  BY <1>1, <1>2 DEF DatasetInv, DatasetTypes
<1>4. SplitCovers'
  BY <1>1, SplitIsCovering
<1>5. FirstSplit'
  <2>1. ~(runs' = 0) /\ (runs' <= 1 => runs = 0)
    BY <1>1
  <2>2. ASSUME NEW p \in Parts, NEW q \in Parts, NEW i \in split'[p], NEW j \in split'[q], p # q
        PROVE  Session[i] # Session[j]
    BY <1>1, <2>2, SessionsStayWhole
  <2>3. runs = 0 => \A p \in Parts : dirs[p] = {} /\ seen[p] = {}
    BY DEF DatasetInv, FirstSplit, Nothing
  <2>. QED
    BY <1>1, <2>1, <2>2, <2>3 DEF FirstSplit
<1>. QED
  BY <1>3, <1>4, <1>5 DEF DatasetInv

LEMMA SplitLinkKeeps ==
  ASSUME DatasetInv, (\E p \in Parts, i \in Images : SplitLink(p, i)) \/ SplitKill
  PROVE  DatasetInv'
<1>1. UNCHANGED <<rows, collector, rendered, split, runs, seen>>
  BY DEF SplitLink, SplitKill
<1>2. /\ DOMAIN plan' = Parts /\ DOMAIN dirs' = Parts
      /\ \A q \in Parts : /\ plan'[q] \subseteq plan[q]
                          /\ dirs[q] \subseteq dirs'[q]
                          /\ dirs'[q] \subseteq dirs[q] \cup plan[q]
  BY DEF SplitLink, SplitKill, DatasetInv, DatasetTypes, Nothing
<1>3. runs = 0 => dirs' = Nothing /\ plan' = Nothing
  BY DEF SplitLink, SplitKill, DatasetInv, FirstSplit, Nothing
<1>4. DatasetTypes' /\ SplitCovers'
  BY <1>1, <1>2 DEF DatasetInv, DatasetTypes, SplitCovers
<1>5. FirstSplit'
  BY <1>1, <1>2, <1>3 DEF DatasetInv, FirstSplit
<1>. QED
  BY <1>4, <1>5 DEF DatasetInv

LEMMA LoadKeepsSplit ==
  ASSUME DatasetInv, (\E p \in Parts : Load(p)) \/ Unload
  PROVE  DatasetInv'
<1>1. UNCHANGED <<rows, collector, rendered, plan, split, runs, dirs>>
  BY DEF Load, Unload
<1>2. DOMAIN seen' = Parts /\ \A q \in Parts : seen'[q] \subseteq seen[q] \cup dirs[q]
  BY DEF Load, Unload, DatasetInv, DatasetTypes, Nothing
<1>3. DatasetTypes' /\ SplitCovers'
  BY <1>1, <1>2 DEF DatasetInv, DatasetTypes, SplitCovers
<1>4. FirstSplit'
  BY <1>1, <1>2 DEF DatasetInv, FirstSplit
<1>. QED
  BY <1>3, <1>4 DEF DatasetInv

LEMMA DatasetStep ==
  ASSUME DatasetAssumption
  PROVE  DatasetInv /\ [DatasetNext]_datasetVars => DatasetInv'
<1>. SUFFICES ASSUME DatasetInv, [DatasetNext]_datasetVars PROVE DatasetInv'
  OBVIOUS
<1>1. CASE UNCHANGED datasetVars
  BY <1>1 DEF datasetVars, DatasetInv, DatasetTypes, FirstSplit, SplitCovers
<1>. QED
  BY <1>1, LabelKeeps, SplitStartKeeps, SplitLinkKeeps, LoadKeepsSplit DEF DatasetNext

\* "An object never straddles train/val/test": for any images, sessions and
\* classes, whatever is loaded while the first split is linked file by file, or
\* after it was killed, no session trained on is validated or tested on
\* (session_aware_split of tools/common.py).
THEOREM ObjectsNeverStraddle ==
  ASSUME DatasetAssumption
  PROVE  DatasetSpec => []TestSetUnseen
<1>1. DatasetInv => TestSetUnseen
  BY DEF DatasetInv, FirstSplit, TestSetUnseen
<1>. QED
  BY <1>1, DatasetStarts, DatasetStep, PTL DEF DatasetSpec

\* "Final class coverage is enforced": for any number of groups, of any sizes and
\* in any order of the shuffle, a class is validated as soon as it has one group,
\* tested from two on, and trained from three on.
THEOREM ClassesAreCovered ==
  ASSUME DatasetAssumption
  PROVE  DatasetSpec => []SplitCovers
<1>1. DatasetInv => SplitCovers
  BY DEF DatasetInv
<1>. QED
  BY <1>1, DatasetStarts, DatasetStep, PTL DEF DatasetSpec

-----------------------------------------------------------------------------
(* Accounts: a one-time link acts once, whatever deletes, restarts and      *)
(* aborts come between its reading, its claim and its commit; a token that  *)
(* was logged out stays out while the process lives; a token dies with the  *)
(* password it was got with, unless a change of that account was overtaken; *)
(* and only a moderator who lost his own rights ends the last administrator. *)

AccountRows == [password : Passwords, version : Nat, active : BOOLEAN,
                verified : BOOLEAN, role : {"admin", "student"}, overtaken : BOOLEAN]

\* What a patch writes: some of the two fields.
IsEdit(e) ==
  /\ e = [f \in DOMAIN e |-> e[f]] /\ DOMAIN e \subseteq {"active", "role"}
  /\ "active" \in DOMAIN e => e["active"] \in BOOLEAN
  /\ "role" \in DOMAIN e => e["role"] \in {"admin", "student"}

\* What a handler has read, by its stage.
HasRead(j) ==
  /\ j.at = "patch" => IsEdit(j.seen.edit)
  /\ j.at = "login" => j.seen \in AccountRows
  /\ j.at = "password" => j.seen \in Nat
  /\ j.at = "script" => j.seen \in Nat \cup {-1}
  /\ j.at \in {"register", "script"} => j.user \in Users

AccountTypes ==
  /\ DOMAIN row \subseteq Users /\ row \in [DOMAIN row -> AccountRows]
  /\ DOMAIN job = Workers /\ \A w \in Workers : HasRead(job[w])

LEMMA InitTypes ==
  ASSUME AccountAssumption, Init
  PROVE  AccountTypes
BY DEF AccountAssumption, Init, AccountTypes, AccountRows, Account, HasRead, Idle

\* The reads: the accounts stay, and w holds what it has read.
LEMMA ReadTypes ==
  ASSUME AccountTypes, NEW w \in Workers, UNCHANGED row,
         \/ UNCHANGED job \/ Done(w)
         \/ \E s, u, l, x : /\ Become(w, s, u, l, x)
                            /\ HasRead([at |-> s, user |-> u, link |-> l, seen |-> x])
  PROVE  AccountTypes'
<1>1. \A j : HasRead(j)' <=> HasRead(j)
  BY DEF HasRead, IsEdit, AccountRows
<1>2. HasRead(Idle)
  BY DEF HasRead, Idle
<1>3. AccountRows' = AccountRows
  BY DEF AccountRows
<1>. QED
  BY <1>1, <1>2, <1>3 DEF AccountTypes, Done, Become

\* One account is written or made.
LEMMA WriteTypes ==
  ASSUME AccountTypes, NEW w \in Workers, NEW u \in Users, NEW r \in AccountRows,
         \/ u \in DOMAIN row /\ row' = [row EXCEPT ![u] = r]
         \/ row' = With(row, u, r),
         Done(w) \/ \E x, l, y : Become(w, "welcome", x, l, y)
  PROVE  AccountTypes'
<1>1. DOMAIN row' \subseteq Users /\ row' \in [DOMAIN row' -> AccountRows]
  BY DEF AccountTypes, With
<1>2. \A v \in Workers : v # w => job'[v] = job[v]
  BY DEF AccountTypes, Done, Become
<1>3. DOMAIN job' = Workers /\ HasRead(job'[w])
  BY DEF AccountTypes, Done, Become, HasRead, Idle
<1>4. \A v \in Workers : HasRead(job'[v])
  BY <1>2, <1>3 DEF AccountTypes
<1>. QED
  BY <1>1, <1>3, <1>4 DEF AccountTypes, AccountRows, HasRead, IsEdit

\* A patch writes its fields over the account's.
LEMMA EditTypes ==
  ASSUME NEW r \in AccountRows, NEW e, IsEdit(e)
  PROVE  /\ Over(e, r) \in AccountRows
         /\ Over(e, r).password = r.password /\ Over(e, r).version = r.version
         /\ Over(e, r).overtaken = r.overtaken
         /\ DOMAIN e = {} => Over(e, r) = r
<1>. DEFINE q == Over(e, r)
<1>1. q = [f \in {"password", "version", "active", "verified", "role", "overtaken"} |->
             IF f \in DOMAIN e THEN e[f] ELSE r[f]]
  BY DEF AccountRows, IsEdit, Over
<1>2. /\ q.password = r.password /\ q.version = r.version /\ q.verified = r.verified
      /\ q.overtaken = r.overtaken /\ q.active \in BOOLEAN /\ q.role \in {"admin", "student"}
  BY <1>1 DEF AccountRows, IsEdit
<1>3. q = [password |-> q.password, version |-> q.version, active |-> q.active,
           verified |-> q.verified, role |-> q.role, overtaken |-> q.overtaken]
  BY <1>1
<1>4. q \in AccountRows
  BY <1>2, <1>3 DEF AccountRows
<1>5. DOMAIN e = {} => q = r
  BY <1>1 DEF AccountRows
<1>. QED
  BY <1>2, <1>4, <1>5

\* What a new password does to an account.
LEMMA RenewedTypes ==
  ASSUME NEW r \in AccountRows, NEW p \in Passwords, NEW v \in Nat \cup {-1}
  PROVE  /\ Renewed(r, p, v) \in AccountRows
         /\ [Renewed(r, p, v) EXCEPT !.role = "admin", !.verified = TRUE] \in AccountRows
         /\ Renewed(r, p, v).version = v + 1
         /\ ~Renewed(r, p, v).overtaken => ~r.overtaken /\ v = r.version
         /\ Renewed(r, p, v).role = r.role /\ Renewed(r, p, v).active = r.active
<1>1. v + 1 \in Nat
  OBVIOUS
<1>. QED
  BY <1>1 DEF Renewed, AccountRows

LEMMA LoadTypes ==
  ASSUME AccountAssumption, AccountTypes, NEW w \in Workers,
         \/ \E u \in Users : RegisterLoad(w, u) \/ ScriptLoad(w, u) \/ ForgotPassword(w, u)
         \/ \E u \in Users, p \in Passwords : LoginLoad(w, u, p) \/ ChangeLoad(w, u, p)
         \/ LoginMint(w) \/ (\E j \in Jtis : Logout(w, j)) \/ Welcome(w)
         \/ (\E l \in Links : LinkLoad(w, l)) \/ LinkClaim(w) \/ LinkFollow(w)
         \/ \E a, u \in Users : DeleteLoad(w, a, u)
         \/ Abort(w)
  PROVE  AccountTypes'
<1>1. \A u \in DOMAIN row : row[u] \in AccountRows /\ row[u].version \in Nat
  BY DEF AccountTypes, AccountRows
<1>2. ASSUME NEW u \in Users, RegisterLoad(w, u) \/ ScriptLoad(w, u)
      PROVE  AccountTypes'
  BY <1>1, <1>2, ReadTypes DEF RegisterLoad, ScriptLoad, HasRead
<1>3. ASSUME NEW u \in Users, NEW p \in Passwords, LoginLoad(w, u, p)
      PROVE  AccountTypes'
  BY <1>1, <1>3, ReadTypes DEF LoginLoad, HasRead
<1>4. ASSUME NEW u \in Users, NEW p \in Passwords, ChangeLoad(w, u, p)
      PROVE  AccountTypes'
  BY <1>1, <1>4, ReadTypes DEF ChangeLoad, Signed, Authenticates, HasRead
<1>5. ASSUME (\E l \in Links : LinkLoad(w, l)) \/ LinkClaim(w)
      PROVE  AccountTypes'
  BY <1>5, ReadTypes DEF LinkLoad, LinkClaim, HasRead
<1>8. ASSUME NEW a \in Users, NEW u \in Users, DeleteLoad(w, a, u)
      PROVE  AccountTypes'
  <2>1. Become(w, "delete", u, None, [by |-> a, edit |-> <<>>]) /\ UNCHANGED row
    BY <1>8 DEF DeleteLoad
  <2>2. HasRead([at |-> "delete", user |-> u, link |-> None,
                 seen |-> [by |-> a, edit |-> <<>>]])
    BY DEF HasRead
  <2>. QED
    BY <2>1, <2>2, ReadTypes
<1>6. CASE LinkFollow(w)
  BY <1>1, <1>6, ReadTypes DEF LinkFollow, HasRead
<1>7. ASSUME \/ LoginMint(w) \/ (\E j \in Jtis : Logout(w, j)) \/ Welcome(w) \/ Abort(w)
             \/ \E u \in Users : ForgotPassword(w, u)
      PROVE  AccountTypes'
  BY <1>7, ReadTypes DEF LoginMint, Logout, Welcome, Abort, ForgotPassword
<1>. QED
  BY <1>2, <1>3, <1>4, <1>5, <1>6, <1>7, <1>8

LEMMA PatchTypes ==
  ASSUME AccountAssumption, AccountTypes, NEW w \in Workers,
         (\E a, u \in Users : PatchLoad(w, a, u)) \/ PatchCommit(w)
  PROVE  AccountTypes'
<1>1. ASSUME NEW u \in DOMAIN row, NEW on \in BOOLEAN, NEW role \in {"admin", "student"}
      PROVE  IsEdit(Edit(u, on, role))
  BY DEF Edit, IsEdit
<1>2. ASSUME NEW a \in Users, NEW u \in Users, PatchLoad(w, a, u)
      PROVE  AccountTypes'
  <2>1. PICK on \in BOOLEAN, role \in {"admin", "student"} :
          Become(w, "patch", u, None, [by |-> a, edit |-> Edit(u, on, role)])
    BY <1>2 DEF PatchLoad
  <2>2. u \in DOMAIN row /\ UNCHANGED row
    BY <1>2 DEF PatchLoad
  <2>3. HasRead([at |-> "patch", user |-> u, link |-> None,
                 seen |-> [by |-> a, edit |-> Edit(u, on, role)]])
    BY <1>1, <2>2 DEF HasRead
  <2>. QED
    BY <2>1, <2>2, <2>3, ReadTypes
<1>3. CASE PatchCommit(w)
  <2>. DEFINE u == job[w].user
  <2>1. CASE u \in DOMAIN row
    <3>1. u \in Users /\ row[u] \in AccountRows /\ IsEdit(job[w].seen.edit)
      BY <1>3, <2>1 DEF AccountTypes, HasRead, PatchCommit, At
    <3>2. Over(job[w].seen.edit, row[u]) \in AccountRows
      BY <3>1, EditTypes
    <3>3. row' = [row EXCEPT ![u] = Over(job[w].seen.edit, row[u])] /\ Done(w)
      BY <1>3, <2>1 DEF PatchCommit
    <3>. QED
      BY <2>1, <3>1, <3>2, <3>3, WriteTypes
  <2>2. CASE u \notin DOMAIN row
    BY <1>3, <2>2, ReadTypes DEF PatchCommit
  <2>. QED
    BY <2>1, <2>2
<1>. QED
  BY <1>2, <1>3

LEMMA CommitTypes ==
  ASSUME AccountAssumption, AccountTypes, NEW w \in Workers,
         \/ \E p \in Passwords : RegisterCommit(w, p) \/ SetPassword(w, p) \/ ScriptCommit(w, p)
         \/ Verify(w) \/ DeleteCommit(w)
  PROVE  AccountTypes'
<1>. DEFINE u == job[w].user
<1>1. u \in DOMAIN row => u \in Users /\ row[u] \in AccountRows
  BY DEF AccountTypes
<1>2. HasRead(job[w])
  BY DEF AccountTypes
<1>3. ASSUME NEW p \in Passwords, RegisterCommit(w, p)
      PROVE  AccountTypes'
  <2>1. u \in Users /\ Account(p, "student") \in AccountRows
    BY <1>2, <1>3 DEF HasRead, RegisterCommit, At, Account, AccountRows
  <2>2. \/ Done(w) /\ UNCHANGED row
        \/ /\ row' = With(row, u, Account(p, "student"))
           /\ Become(w, "welcome", u, None, 0)
    BY <1>3 DEF RegisterCommit
  <2>. QED
    BY <2>1, <2>2, ReadTypes, WriteTypes
<1>4. ASSUME NEW p \in Passwords, SetPassword(w, p)
      PROVE  AccountTypes'
  <2>1. job[w].seen \in Nat
    BY <1>2, <1>4 DEF HasRead, SetPassword, At
  <2>2. \/ UNCHANGED row
        \/ u \in DOMAIN row /\ row' = [row EXCEPT ![u] = Renewed(row[u], p, job[w].seen)]
    BY <1>4 DEF SetPassword
  <2>3. u \in DOMAIN row => Renewed(row[u], p, job[w].seen) \in AccountRows
    BY <1>1, <2>1, RenewedTypes
  <2>4. Done(w)
    BY <1>4 DEF SetPassword
  <2>. QED
    BY <1>1, <2>2, <2>3, <2>4, ReadTypes, WriteTypes
<1>5. ASSUME NEW p \in Passwords, ScriptCommit(w, p)
      PROVE  AccountTypes'
  <2>1. u \in Users /\ job[w].seen \in Nat \cup {-1}
    BY <1>2, <1>5 DEF HasRead, ScriptCommit, At
  <2>. DEFINE new == [Account(p, "admin") EXCEPT !.verified = TRUE]
              forced == [Renewed(row[u], p, job[w].seen) EXCEPT
                          !.role = "admin", !.verified = TRUE]
  <2>2. \/ UNCHANGED row
        \/ row' = With(row, u, new)
        \/ /\ u \in DOMAIN row /\ job[w].seen # -1
           /\ row' = [row EXCEPT ![u] = forced]
    BY <1>5 DEF ScriptCommit
  <2>3. new \in AccountRows
    BY DEF Account, AccountRows
  <2>4. u \in DOMAIN row /\ job[w].seen # -1 => forced \in AccountRows
    BY <1>1, <2>1, RenewedTypes
  <2>5. Done(w)
    BY <1>5 DEF ScriptCommit
  <2>. QED
    BY <2>1, <2>2, <2>3, <2>4, <2>5, ReadTypes, WriteTypes
<1>6. CASE Verify(w)
  <2>1. \/ UNCHANGED row
        \/ /\ u \in DOMAIN row
           /\ row' = [row EXCEPT ![u] = [row[u] EXCEPT !.verified = TRUE]]
    BY <1>6 DEF Verify
  <2>2. u \in DOMAIN row => [row[u] EXCEPT !.verified = TRUE] \in AccountRows
    BY <1>1 DEF AccountRows
  <2>3. Done(w)
    BY <1>6 DEF Verify
  <2>. QED
    BY <1>1, <2>1, <2>2, <2>3, ReadTypes, WriteTypes
<1>7. CASE DeleteCommit(w)
  <2>1. /\ row' = [x \in DOMAIN row \ {u} |-> row[x]]
        /\ job' = [job EXCEPT ![w] = Idle]
    BY <1>7 DEF DeleteCommit, Without, Done
  <2>2. HasRead(Idle)
    BY DEF HasRead, Idle
  <2>3. DOMAIN job' = Workers /\ \A v \in Workers : HasRead(job'[v])
    BY <2>1, <2>2 DEF AccountTypes
  <2>. QED
    BY <2>1, <2>3 DEF AccountTypes
<1>. QED
  BY <1>3, <1>4, <1>5, <1>6, <1>7

\* The accounts and what the handlers have read of them keep their types.
LEMMA TypesStep ==
  ASSUME AccountAssumption, AccountTypes, [Next]_vars
  PROVE  AccountTypes'
<1>1. ASSUME NEW w \in Workers, Visit(w)
      PROVE  AccountTypes'
  BY <1>1, LoadTypes, CommitTypes DEF Visit
<1>2. ASSUME NEW w \in Workers, Moderate(w) \/ Abort(w)
      PROVE  AccountTypes'
  BY <1>2, LoadTypes, PatchTypes, CommitTypes DEF Moderate
<1>3. CASE Restart
  <2>1. HasRead(Idle)
    BY DEF HasRead, Idle
  <2>. QED
    BY <1>3, <2>1 DEF Restart, AccountTypes
<1>4. ASSUME (\E j \in Jtis : Expire(j)) \/ (\E l \in Links : LinkExpires(l))
             \/ UNCHANGED vars
      PROVE  AccountTypes'
  BY <1>4 DEF Expire, LinkExpires, vars, AccountTypes
<1>. QED
  BY <1>1, <1>2, <1>3, <1>4 DEF Next

-----------------------------------------------------------------------------
\* A link belongs to an account or to a deleted one.
Owners == DOMAIN row \cup gone

LinkRows == [user : Owners, purpose : {"email_verification", "password_reset"},
             used : BOOLEAN, live : BOOLEAN, spent : Nat]

LinkTypes ==
  /\ DOMAIN job = Workers
  /\ DOMAIN link \subseteq Links /\ link \in [DOMAIN link -> LinkRows]

\* A thread that has claimed a link and not yet done what it is for.
Follows(w) == job[w].at \in {"follow", "password", "verify"} /\ job[w].link # None

\* A deleted id is no account.
Owned == DOMAIN row \cap gone = {}

\* Whoever follows a link for an account that is still there has it marked
\* used, alone and not yet spent.  The link of a deleted account is deleted with
\* it, and its follower finds the account gone.
ClaimedOnce ==
  /\ \A w \in Workers :
       Follows(w) =>
         \/ job[w].user \in gone
         \/ /\ job[w].link \in DOMAIN link
            /\ link[job[w].link].user = job[w].user
            /\ link[job[w].link].used
            /\ link[job[w].link].spent = 0
  /\ \A v, w \in Workers :
       Follows(v) /\ Follows(w) /\ job[v].link = job[w].link /\ v # w =>
         job[v].user \in gone \/ job[w].user \in gone
  /\ \A l \in DOMAIN link : ~link[l].used => link[l].spent = 0

LinkInv == LinkTypes /\ Owned /\ ClaimedOnce /\ LinkSpentOnce

LEMMA InitLinks ==
  ASSUME AccountAssumption, Init
  PROVE  LinkInv
BY DEF Init, LinkInv, LinkTypes, Owned, ClaimedOnce, LinkSpentOnce, Follows, Idle

-----------------------------------------------------------------------------
\* A step that leaves the links, lets no id come back, and in which nobody but
\* w moves, w following afterwards only what it followed before.
LEMMA Bystander ==
  ASSUME LinkInv, NEW w \in Workers,
         link' = link, DOMAIN row \cup gone \subseteq DOMAIN row' \cup gone',
         gone \subseteq gone', DOMAIN row' \cap gone' = {}, DOMAIN job' = Workers,
         \A v \in Workers \ {w} : job'[v] = job[v],
         Follows(w)' => Follows(w) /\ job'[w].link = job[w].link
                                   /\ job'[w].user = job[w].user
  PROVE  LinkInv'
<1>1. LinkTypes'
  BY DEF LinkInv, LinkTypes, LinkRows, Owners
<1>2. Owned'
  BY DEF Owned
<1>3. \A v \in Workers : Follows(v)' => Follows(v) /\ job'[v].link = job[v].link
                                                  /\ job'[v].user = job[v].user
  BY DEF Follows
<1>4. ClaimedOnce'
  BY <1>3 DEF LinkInv, ClaimedOnce
<1>5. LinkSpentOnce'
  BY DEF LinkInv, LinkSpentOnce
<1>. QED
  BY <1>1, <1>2, <1>4, <1>5 DEF LinkInv

\* A handler that only goes on to stage s, without a link.
LEMMA Moves ==
  ASSUME LinkInv, NEW w \in Workers, NEW s, NEW u, NEW x,
         Become(w, s, u, None, x) \/ Done(w) \/ UNCHANGED job,
         link' = link, DOMAIN row \cup gone \subseteq DOMAIN row' \cup gone',
         gone \subseteq gone', DOMAIN row' \cap gone' = {}
  PROVE  LinkInv'
<1>1. DOMAIN job = Workers
  BY DEF LinkInv, LinkTypes
<1>2. CASE UNCHANGED job
  BY <1>1, <1>2, Bystander DEF Follows
<1>3. CASE Done(w)
  BY <1>1, <1>3, Bystander DEF Follows, Done, Idle
<1>4. CASE Become(w, s, u, None, x)
  BY <1>1, <1>4, Bystander DEF Follows, Become
<1>. QED
  BY <1>2, <1>3, <1>4

-----------------------------------------------------------------------------
\* Registering, logging in and out, and the moderators' reads and patches.
LEMMA AccountLinks ==
  ASSUME AccountAssumption, LinkInv, NEW w \in Workers,
         \/ \E u \in Users : RegisterLoad(w, u) \/ ScriptLoad(w, u)
         \/ \E u \in Users, p \in Passwords : LoginLoad(w, u, p) \/ ChangeLoad(w, u, p)
         \/ LoginMint(w) \/ \E j \in Jtis : Logout(w, j)
         \/ \E a, u \in Users : PatchLoad(w, a, u) \/ DeleteLoad(w, a, u)
         \/ PatchCommit(w) \/ Abort(w)
  PROVE  LinkInv'
<1>1. DOMAIN row \cap gone = {}
  BY DEF LinkInv, Owned
<1>2. link' = link /\ gone' = gone /\ DOMAIN row' = DOMAIN row
  BY DEF RegisterLoad, ScriptLoad, LoginLoad, ChangeLoad, LoginMint, Logout, PatchLoad,
         DeleteLoad, PatchCommit, Abort
<1>3. \E s, u, x : Become(w, s, u, None, x) \/ Done(w) \/ UNCHANGED job
  BY DEF RegisterLoad, ScriptLoad, LoginLoad, ChangeLoad, LoginMint, Logout, PatchLoad,
         DeleteLoad, PatchCommit, Abort
<1>. QED
  BY <1>1, <1>2, <1>3, Moves

\* The commits that make an account: its id was not one of the deleted.
LEMMA NewAccountLinks ==
  ASSUME AccountAssumption, LinkInv, NEW w \in Workers, NEW p \in Passwords,
         RegisterCommit(w, p) \/ ScriptCommit(w, p)
  PROVE  LinkInv'
<1>1. DOMAIN row \cap gone = {}
  BY DEF LinkInv, Owned
<1>2. link' = link /\ gone' = gone
  BY DEF RegisterCommit, ScriptCommit
<1>3. \/ DOMAIN row' = DOMAIN row
      \/ job[w].user \notin gone /\ DOMAIN row' = DOMAIN row \cup {job[w].user}
  <2>1. CASE RegisterCommit(w, p)
    BY <2>1 DEF RegisterCommit, With
  <2>2. CASE ScriptCommit(w, p)
    BY <2>2 DEF ScriptCommit, With
  <2>. QED
    BY <2>1, <2>2
<1>4. Done(w) \/ \E s, u, x : Become(w, s, u, None, x)
  BY DEF RegisterCommit, ScriptCommit
<1>. QED
  BY <1>1, <1>2, <1>3, <1>4, Moves

\* A link is made: unused, and its number is followed by nobody whose account
\* is still there.
LEMMA IssueLinks ==
  ASSUME AccountAssumption, LinkInv, NEW w \in Workers,
         Welcome(w) \/ \E u \in Users : ForgotPassword(w, u)
  PROVE  LinkInv'
<1>1. UNCHANGED <<row, gone>> /\ (Done(w) \/ UNCHANGED job)
  BY DEF Welcome, ForgotPassword
<1>2. CASE link' = link
  BY <1>1, <1>2, Moves DEF LinkInv, Owned
<1>3. ASSUME NEW l \in Links \ DOMAIN link, NEW u \in DOMAIN row,
             NEW p \in {"email_verification", "password_reset"},
             link' = With(link, l, [user |-> u, purpose |-> p, used |-> FALSE,
                                    live |-> TRUE, spent |-> 0])
      PROVE  LinkInv'
  <2>1. /\ DOMAIN link' = DOMAIN link \cup {l}
        /\ link'[l] = [user |-> u, purpose |-> p, used |-> FALSE, live |-> TRUE,
                       spent |-> 0]
        /\ \A k \in DOMAIN link : link'[k] = link[k]
        /\ link' = [k \in DOMAIN link' |-> link'[k]]
    BY <1>3 DEF With
  <2>2. /\ DOMAIN job' = Workers
        /\ \A v \in Workers : Follows(v)' => Follows(v) /\ job'[v] = job[v]
    BY <1>1 DEF LinkInv, LinkTypes, Done, Idle, Follows
  <2>3. LinkTypes'
    <3>1. LinkRows' = LinkRows
      BY <1>1 DEF LinkRows, Owners
    <3>2. link'[l] \in LinkRows
      BY <2>1 DEF LinkRows, Owners
    <3>3. link' \in [DOMAIN link' -> LinkRows]
      BY <2>1, <3>2 DEF LinkInv, LinkTypes
    <3>. QED
      BY <1>3, <2>1, <2>2, <3>1, <3>3 DEF LinkInv, LinkTypes
  <2>4. Owned'
    BY <1>1 DEF LinkInv, Owned
  <2>5. ClaimedOnce'
    BY <1>1, <2>1, <2>2 DEF LinkInv, ClaimedOnce
  <2>6. LinkSpentOnce'
    BY <2>1 DEF LinkInv, LinkSpentOnce
  <2>. QED
    BY <2>3, <2>4, <2>5, <2>6 DEF LinkInv
<1>4. ASSUME NEW u \in DOMAIN row, NEW p \in {"email_verification", "password_reset"},
             Issue(u, p)
      PROVE  LinkInv'
  BY <1>3, <1>4 DEF Issue
<1>5. CASE Welcome(w)
  BY <1>2, <1>4, <1>5 DEF Welcome
<1>6. ASSUME NEW u \in Users, ForgotPassword(w, u)
      PROVE  LinkInv'
  BY <1>4, <1>6 DEF ForgotPassword
<1>. QED
  BY <1>5, <1>6

\* The claim: used_at was NULL, so nobody with a living account follows it.
LEMMA ClaimLinks ==
  ASSUME AccountAssumption, LinkInv, NEW w \in Workers, LinkClaim(w)
  PROVE  LinkInv'
<1>. DEFINE l == job[w].link
<1>1. UNCHANGED <<row, gone>>
  BY DEF LinkClaim
<1>2. CASE l \in DOMAIN link /\ ~link[l].used
  <2>1. /\ link' = [link EXCEPT ![l].used = TRUE]
        /\ job' = [job EXCEPT ![w] = [at |-> "follow", user |-> link[l].user,
                                      link |-> l, seen |-> 0]]
    BY <1>2 DEF LinkClaim, Become
  <2>2. link[l] \in LinkRows /\ link[l].spent = 0 /\ DOMAIN job = Workers
    BY <1>2 DEF LinkInv, LinkTypes, ClaimedOnce
  <2>3. /\ DOMAIN link' = DOMAIN link
        /\ link'[l] \in LinkRows /\ link'[l].used /\ link'[l].spent = 0
        /\ link'[l].user = link[l].user
        /\ \A k \in DOMAIN link : k # l => link'[k] = link[k]
        /\ link' = [k \in DOMAIN link' |-> link'[k]]
    BY <1>2, <2>1, <2>2 DEF LinkRows
  <2>4. /\ DOMAIN job' = Workers
        /\ job'[w].link = l /\ job'[w].user = link[l].user
        /\ \A v \in Workers : v # w => job'[v] = job[v]
    BY <2>1, <2>2
  <2>5. \A v \in Workers : v # w /\ Follows(v) /\ job[v].link = l => job[v].user \in gone
    BY <1>2 DEF LinkInv, ClaimedOnce
  <2>6. LinkTypes'
    <3>1. LinkRows' = LinkRows
      BY <1>1 DEF LinkRows, Owners
    <3>. QED
      BY <2>3, <2>4, <3>1 DEF LinkInv, LinkTypes
  <2>7. Owned'
    BY <1>1 DEF LinkInv, Owned
  <2>8. \A v \in Workers : v # w => (Follows(v)' <=> Follows(v))
    BY <2>4 DEF Follows
  <2>9. ClaimedOnce'
    <3>1. ASSUME NEW v \in Workers, Follows(v)'
          PROVE  \/ job'[v].user \in gone'
                 \/ /\ job'[v].link \in DOMAIN link'
                    /\ link'[job'[v].link].user = job'[v].user
                    /\ link'[job'[v].link].used
                    /\ link'[job'[v].link].spent = 0
      <4>1. CASE v = w
        BY <1>2, <2>3, <2>4, <4>1
      <4>2. CASE v # w /\ job[v].link = l
        BY <1>1, <2>4, <2>5, <2>8, <3>1, <4>2
      <4>3. CASE v # w /\ job[v].link # l
        BY <1>1, <2>3, <2>4, <2>8, <3>1, <4>3 DEF LinkInv, ClaimedOnce
      <4>. QED
        BY <4>1, <4>2, <4>3
    <3>2. ASSUME NEW v \in Workers, NEW x \in Workers, Follows(v)', Follows(x)',
                 job'[v].link = job'[x].link, v # x
          PROVE  job'[v].user \in gone' \/ job'[x].user \in gone'
      <4>1. CASE v = w
        BY <1>1, <2>4, <2>5, <2>8, <3>2, <4>1
      <4>2. CASE x = w
        BY <1>1, <2>4, <2>5, <2>8, <3>2, <4>2
      <4>3. CASE v # w /\ x # w
        BY <1>1, <2>4, <2>8, <3>2, <4>3 DEF LinkInv, ClaimedOnce
      <4>. QED
        BY <4>1, <4>2, <4>3
    <3>3. \A k \in DOMAIN link' : ~link'[k].used => link'[k].spent = 0
      BY <2>3 DEF LinkInv, ClaimedOnce
    <3>. QED
      BY <3>1, <3>2, <3>3 DEF ClaimedOnce
  <2>10. LinkSpentOnce'
    BY <2>3 DEF LinkInv, LinkSpentOnce
  <2>. QED
    BY <2>6, <2>7, <2>9, <2>10 DEF LinkInv
<1>3. CASE ~(l \in DOMAIN link /\ ~link[l].used)
  BY <1>1, <1>3, Moves DEF LinkClaim, LinkInv, Owned
<1>. QED
  BY <1>2, <1>3

\* Reading a link, and reading the account of a claimed one.
LEMMA FollowLinks ==
  ASSUME AccountAssumption, LinkInv, NEW w \in Workers,
         LinkFollow(w) \/ \E l \in Links : LinkLoad(w, l)
  PROVE  LinkInv'
<1>1. UNCHANGED <<row, gone, link>> /\ DOMAIN job = Workers /\ DOMAIN row \cap gone = {}
  BY DEF LinkFollow, LinkLoad, LinkInv, LinkTypes, Owned
<1>2. ASSUME NEW l \in Links, LinkLoad(w, l)
      PROVE  LinkInv'
  <2>1. job' = [job EXCEPT ![w] = [at |-> "link", user |-> None, link |-> l, seen |-> 0]]
    BY <1>2 DEF LinkLoad, Become
  <2>. QED
    BY <1>1, <2>1, Bystander DEF Follows
<1>3. CASE LinkFollow(w)
  <2>1. job[w].at = "follow"
    BY <1>3 DEF LinkFollow, At
  <2>2. CASE Done(w)
    BY <1>1, <2>2, Moves
  <2>3. ASSUME NEW s \in {"password", "verify"}, NEW x,
               Become(w, s, job[w].user, job[w].link, x)
        PROVE  LinkInv'
    <3>1. job' = [job EXCEPT ![w] = [at |-> s, user |-> job[w].user,
                                     link |-> job[w].link, seen |-> x]]
      BY <2>3 DEF Become
    <3>. QED
      BY <1>1, <2>1, <3>1, Bystander DEF Follows
  <2>. QED
    BY <1>3, <2>2, <2>3 DEF LinkFollow
<1>. QED
  BY <1>2, <1>3

\* The commit that a link is for.  Its account is there, so the link is
\* followed by this thread alone, marked used and not yet spent.
LEMMA SpendLinks ==
  ASSUME AccountAssumption, LinkInv, NEW w \in Workers,
         Verify(w) \/ \E p \in Passwords : SetPassword(w, p)
  PROVE  LinkInv'
<1>. DEFINE l == job[w].link
            u == job[w].user
<1>1. /\ gone' = gone /\ DOMAIN row' = DOMAIN row /\ Done(w)
      /\ job[w].at \in {"password", "verify"}
  BY DEF Verify, SetPassword, At
<1>2. DOMAIN row \cap gone = {} /\ DOMAIN job = Workers
  BY DEF LinkInv, Owned, LinkTypes
<1>3. CASE link' = link
  BY <1>1, <1>2, <1>3, Moves
<1>4. CASE u \in DOMAIN row /\ l # None /\ link' = [link EXCEPT ![l].spent = @ + 1]
  <2>1. Follows(w) /\ u \notin gone
    BY <1>1, <1>2, <1>4 DEF Follows
  <2>2. l \in DOMAIN link /\ link[l].used /\ link[l].spent = 0 /\ link[l] \in LinkRows
    BY <2>1 DEF LinkInv, ClaimedOnce, LinkTypes
  <2>3. \A v \in Workers : v # w /\ Follows(v) /\ job[v].link = l => job[v].user \in gone
    BY <2>1 DEF LinkInv, ClaimedOnce
  <2>4. /\ DOMAIN link' = DOMAIN link
        /\ link'[l] \in LinkRows /\ link'[l].used /\ link'[l].spent = 1
        /\ link'[l].user = link[l].user
        /\ \A k \in DOMAIN link : k # l => link'[k] = link[k]
        /\ link' = [k \in DOMAIN link' |-> link'[k]]
    <3>1. link' = [link EXCEPT ![l] = [link[l] EXCEPT !.spent = 1]]
      BY <1>4, <2>2 DEF LinkRows
    <3>2. link[l].user = [link[l] EXCEPT !.spent = 1].user
          /\ [link[l] EXCEPT !.spent = 1] \in LinkRows
          /\ [link[l] EXCEPT !.spent = 1].used /\ [link[l] EXCEPT !.spent = 1].spent = 1
      BY <2>2 DEF LinkRows
    <3>. QED
      BY <2>2, <3>1, <3>2
  <2>5. /\ DOMAIN job' = Workers /\ ~Follows(w)'
        /\ \A v \in Workers : v # w => job'[v] = job[v] /\ (Follows(v)' <=> Follows(v))
    BY <1>1, <1>2 DEF Done, Idle, Follows
  <2>6. LinkTypes'
    <3>1. LinkRows' = LinkRows
      BY <1>1 DEF LinkRows, Owners
    <3>. QED
      BY <2>4, <2>5, <3>1 DEF LinkInv, LinkTypes
  <2>7. Owned'
    BY <1>1 DEF LinkInv, Owned
  <2>8. ClaimedOnce'
    <3>1. ASSUME NEW v \in Workers, Follows(v)'
          PROVE  \/ job'[v].user \in gone'
                 \/ /\ job'[v].link \in DOMAIN link'
                    /\ link'[job'[v].link].user = job'[v].user
                    /\ link'[job'[v].link].used
                    /\ link'[job'[v].link].spent = 0
      <4>1. CASE job[v].link = l
        BY <1>1, <2>3, <2>5, <3>1, <4>1
      <4>2. CASE job[v].link # l
        BY <1>1, <2>4, <2>5, <3>1, <4>2 DEF LinkInv, ClaimedOnce
      <4>. QED
        BY <4>1, <4>2
    <3>2. ASSUME NEW v \in Workers, NEW x \in Workers, Follows(v)', Follows(x)',
                 job'[v].link = job'[x].link, v # x
          PROVE  job'[v].user \in gone' \/ job'[x].user \in gone'
      BY <1>1, <2>5, <3>2 DEF LinkInv, ClaimedOnce
    <3>3. \A k \in DOMAIN link' : ~link'[k].used => link'[k].spent = 0
      BY <2>4 DEF LinkInv, ClaimedOnce
    <3>. QED
      BY <3>1, <3>2, <3>3 DEF ClaimedOnce
  <2>9. LinkSpentOnce'
    BY <2>4 DEF LinkInv, LinkSpentOnce
  <2>. QED
    BY <2>6, <2>7, <2>8, <2>9 DEF LinkInv
<1>5. ASSUME l = None, link' = [link EXCEPT ![l].spent = @ + 1]
      PROVE  link' = link
  BY <1>5 DEF AccountAssumption, LinkInv, LinkTypes
<1>. QED
  BY <1>3, <1>4, <1>5 DEF Verify, SetPassword

\* delete_user: the account's id is gone for good, and its links with it.
LEMMA DeleteLinks ==
  ASSUME AccountAssumption, AccountTypes, LinkInv, NEW w \in Workers, DeleteCommit(w)
  PROVE  LinkInv'
<1>. DEFINE u == job[w].user
<1>1. /\ row' = [x \in DOMAIN row \ {u} |-> row[x]]
      /\ gone' = gone \cup ({u} \cap DOMAIN row)
                      \cup {l \in DOMAIN link : link[l].user = u}
      /\ link' = [k \in DOMAIN link \ {l \in DOMAIN link : link[l].user = u} |-> link[k]]
      /\ job' = [job EXCEPT ![w] = Idle]
  BY DEF DeleteCommit, Without, Done
<1>2. \A k \in DOMAIN link' : k \in DOMAIN link /\ link'[k] = link[k] /\ link[k].user # u
  BY <1>1
<1>3. /\ DOMAIN job' = Workers
      /\ \A v \in Workers : Follows(v)' => Follows(v) /\ job'[v] = job[v]
  BY <1>1 DEF LinkInv, LinkTypes, Follows, Idle
<1>4. LinkTypes'
  <2>1. LinkRows \subseteq LinkRows'
    BY <1>1 DEF LinkRows, Owners
  <2>. QED
    BY <1>1, <1>2, <1>3, <2>1 DEF LinkInv, LinkTypes
<1>5. Owned'
  <2>1. DOMAIN row \cap DOMAIN link = {}
    BY DEF AccountAssumption, AccountTypes, LinkInv, LinkTypes
  <2>. QED
    BY <1>1, <2>1 DEF LinkInv, Owned
<1>6. ClaimedOnce'
  <2>1. ASSUME NEW v \in Workers, Follows(v)'
        PROVE  \/ job'[v].user \in gone'
               \/ /\ job'[v].link \in DOMAIN link'
                  /\ link'[job'[v].link].user = job'[v].user
                  /\ link'[job'[v].link].used
                  /\ link'[job'[v].link].spent = 0
    <3>1. Follows(v) /\ job'[v] = job[v]
      BY <1>3, <2>1
    <3>2. CASE job[v].user \in gone
      BY <1>1, <3>1, <3>2
    <3>3. CASE job[v].user \notin gone
      <4>1. /\ job[v].link \in DOMAIN link
            /\ link[job[v].link].user = job[v].user
            /\ link[job[v].link].used
            /\ link[job[v].link].spent = 0
        BY <3>1, <3>3 DEF LinkInv, ClaimedOnce
      <4>2. CASE job[v].user = u
        <5>1. u \in DOMAIN row
          BY <3>3, <4>1, <4>2 DEF LinkInv, LinkTypes, LinkRows, Owners
        <5>. QED
          BY <1>1, <3>1, <4>2, <5>1
      <4>3. CASE job[v].user # u
        BY <1>1, <3>1, <4>1, <4>3
      <4>. QED
        BY <4>2, <4>3
    <3>. QED
      BY <3>2, <3>3
  <2>2. ASSUME NEW v \in Workers, NEW x \in Workers, Follows(v)', Follows(x)',
               job'[v].link = job'[x].link, v # x
        PROVE  job'[v].user \in gone' \/ job'[x].user \in gone'
    BY <1>1, <1>3, <2>2 DEF LinkInv, ClaimedOnce
  <2>3. \A k \in DOMAIN link' : ~link'[k].used => link'[k].spent = 0
    BY <1>2 DEF LinkInv, ClaimedOnce
  <2>. QED
    BY <2>1, <2>2, <2>3 DEF ClaimedOnce
<1>7. LinkSpentOnce'
  BY <1>2 DEF LinkInv, LinkSpentOnce
<1>. QED
  BY <1>4, <1>5, <1>6, <1>7 DEF LinkInv

\* Time, and the death of the process: a link's ttl passes, a token's exp.
LEMMA EnvironmentLinks ==
  ASSUME AccountAssumption, LinkInv,
         \/ \E l \in Links : LinkExpires(l)
         \/ \E j \in Jtis : Expire(j)
         \/ Restart \/ UNCHANGED vars
  PROVE  LinkInv'
<1>1. ASSUME NEW l \in Links, LinkExpires(l)
      PROVE  LinkInv'
  <2>1. /\ DOMAIN link' = DOMAIN link /\ link' \in [DOMAIN link -> LinkRows]
        /\ \A k \in DOMAIN link : /\ link'[k].user = link[k].user
                                  /\ link'[k].used = link[k].used
                                  /\ link'[k].spent = link[k].spent
    BY <1>1 DEF LinkExpires, LinkInv, LinkTypes, LinkRows
  <2>2. UNCHANGED <<row, gone, job>> /\ LinkRows' = LinkRows
    BY <1>1 DEF LinkExpires, LinkRows, Owners
  <2>. QED
    BY <2>1, <2>2 DEF LinkInv, LinkTypes, Owned, ClaimedOnce, LinkSpentOnce, Follows
<1>2. CASE Restart
  BY <1>2 DEF Restart, LinkInv, LinkTypes, LinkRows, Owners, Owned, ClaimedOnce,
              LinkSpentOnce, Follows, Idle
<1>3. CASE (\E j \in Jtis : Expire(j)) \/ UNCHANGED vars
  <2>1. UNCHANGED <<row, gone, link, job>>
    BY <1>3 DEF Expire, vars
  <2>. QED
    BY <2>1 DEF LinkInv, LinkTypes, LinkRows, Owners, Owned, ClaimedOnce, LinkSpentOnce,
                Follows
<1>. QED
  BY <1>1, <1>2, <1>3

LEMMA LinksStep ==
  ASSUME AccountAssumption, AccountTypes, LinkInv, [Next]_vars
  PROVE  LinkInv'
<1>1. ASSUME NEW w \in Workers, Visit(w)
      PROVE  LinkInv'
  BY <1>1, AccountLinks, NewAccountLinks, IssueLinks, ClaimLinks, FollowLinks, SpendLinks
     DEF Visit
<1>2. ASSUME NEW w \in Workers, Moderate(w) \/ Abort(w)
      PROVE  LinkInv'
  BY <1>2, AccountLinks, DeleteLinks DEF Moderate
<1>. QED
  BY <1>1, <1>2, EnvironmentLinks DEF Next

\* "Two simultaneous password-reset tab clicks cannot both succeed": a link
\* resets a password or verifies an address at most once, however many
\* threads have read it and whatever is deleted, aborted or restarted between
\* _consume_token's claim and the commit of what it is for.
THEOREM LinksAreSpentOnce ==
  ASSUME AccountAssumption
  PROVE  Spec => []LinkSpentOnce
<1>1. Init => AccountTypes /\ LinkInv
  BY InitTypes, InitLinks
<1>2. AccountTypes /\ LinkInv /\ [Next]_vars => (AccountTypes /\ LinkInv)'
  BY TypesStep, LinksStep
<1>3. LinkInv => LinkSpentOnce
  BY DEF LinkInv
<1>. QED
  BY <1>1, <1>2, <1>3, PTL DEF Spec

-----------------------------------------------------------------------------
\* The fields of every token.
TokenTypes ==
  \A j \in DOMAIN jwt : DOMAIN jwt[j] = {"user", "version", "under", "live"}

LEMMA TokenSteps ==
  ASSUME [Next]_vars
  PROVE  \/ UNCHANGED jwt
         \/ \E w \in Workers : LoginMint(w)
         \/ \E j \in Jtis : Expire(j)
<1>1. ASSUME NEW w \in Workers, Visit(w)
      PROVE  UNCHANGED jwt \/ LoginMint(w)
  BY <1>1 DEF Visit, RegisterLoad, ForgotPassword, ScriptLoad, LoginLoad, ChangeLoad,
              RegisterCommit, SetPassword, ScriptCommit, Welcome, Logout, LinkLoad,
              LinkClaim, LinkFollow, Verify
<1>2. ASSUME NEW w \in Workers, Moderate(w) \/ Abort(w)
      PROVE  UNCHANGED jwt
  BY <1>2 DEF Moderate, Abort, PatchLoad, DeleteLoad, PatchCommit, DeleteCommit
<1>. QED
  BY <1>1, <1>2 DEF Next, LinkExpires, Restart, vars


LEMMA TokenTypesStep ==
  ASSUME TokenTypes, [Next]_vars
  PROVE  TokenTypes'
<1>1. ASSUME NEW w \in Workers, LoginMint(w)
      PROVE  TokenTypes'
  BY <1>1 DEF LoginMint, With, TokenTypes
<1>2. ASSUME NEW j \in Jtis, Expire(j)
      PROVE  TokenTypes'
  BY <1>2 DEF Expire, TokenTypes
<1>. QED
  BY <1>1, <1>2, TokenSteps DEF TokenTypes

\* What is in the store stays there, but for a restart and for a token whose
\* exp has passed.
LEMMA RevokedSteps ==
  ASSUME [Next]_vars, ~Restart
  PROVE  revoked \subseteq revoked'
         \/ \E j \in Jtis : Expire(j) /\ revoked' = revoked \ {j}
<1>1. ASSUME NEW w \in Workers, Visit(w)
      PROVE  revoked \subseteq revoked'
  BY <1>1 DEF Visit, RegisterLoad, ForgotPassword, ScriptLoad, LoginLoad, ChangeLoad,
              RegisterCommit, SetPassword, ScriptCommit, Welcome, LoginMint, Logout,
              LinkLoad, LinkClaim, LinkFollow, Verify
<1>2. ASSUME NEW w \in Workers, Moderate(w) \/ Abort(w)
      PROVE  UNCHANGED revoked
  BY <1>2 DEF Moderate, Abort, PatchLoad, DeleteLoad, PatchCommit, DeleteCommit
<1>3. ASSUME NEW j \in Jtis, Expire(j)
      PROVE  revoked \subseteq revoked' \/ (Expire(j) /\ revoked' = revoked \ {j})
  BY <1>3 DEF Expire
<1>. QED
  BY <1>1, <1>2, <1>3 DEF Next, LinkExpires, vars

\* Pruning cannot bring a logged-out token back: what _prune_locked forgets
\* has expired, and only a restart forgets more (RevocationStore).
THEOREM LogoutIsFinal ==
  ASSUME AccountAssumption
  PROVE  Spec => LogoutHolds
<1>1. Init => TokenTypes
  BY DEF Init, TokenTypes
<1>2. TokenTypes /\ [Next]_vars => TokenTypes'
  BY TokenTypesStep
<1>3. TokenTypes /\ [Next]_vars =>
        [\A j \in revoked : (\E u \in Users : Authenticates(j, u))' => Restart]_vars
  <2>. SUFFICES ASSUME TokenTypes, [Next]_vars, ~Restart, NEW j \in revoked
                PROVE  ~(\E u \in Users : Authenticates(j, u))'
    OBVIOUS
  <2>1. CASE revoked \subseteq revoked'
    BY <2>1 DEF Authenticates
  <2>2. ASSUME Expire(j)
        PROVE  ~(\E u \in Users : Authenticates(j, u))'
    <3>1. jwt' = [jwt EXCEPT ![j] = [jwt[j] EXCEPT !.live = FALSE]] /\ j \in DOMAIN jwt
      BY <2>2 DEF Expire
    <3>2. jwt'[j].live = FALSE
      BY <3>1 DEF TokenTypes
    <3>. QED
      BY <3>2 DEF Authenticates, Expired
  <2>. QED
    BY <2>1, <2>2, RevokedSteps DEF Authenticates
<1>. QED
  BY <1>1, <1>2, <1>3, PTL DEF Spec, LogoutHolds

-----------------------------------------------------------------------------
\* Version v of u, held with password p, is not ahead of the account, and if it
\* is the account's the password is too, unless a change was overtaken.  A
\* deleted account's id is nobody's.
Dated(u, v, p) ==
  /\ v \in Nat /\ u \in Owners
  /\ u \in DOMAIN row /\ ~row[u].overtaken =>
       v <= row[u].version /\ (v = row[u].version => p = row[u].password)

\* The tokens in clients' hands and the logins that are about to mint one.
TokensDated ==
  /\ \A j \in DOMAIN jwt : Dated(jwt[j].user, jwt[j].version, jwt[j].under)
  /\ \A w \in Workers : At(w, "login") =>
       Dated(job[w].user, job[w].seen.version, job[w].seen.password)

LEMMA InitTokens ==
  ASSUME AccountAssumption, Init
  PROVE  TokensDated
BY DEF AccountAssumption, Init, TokensDated, Idle, At

-----------------------------------------------------------------------------
\* An account that is not overtaken after a step was not before it, and keeps
\* its version and password or gets the next version.
MovesOn(u) ==
  ~row'[u].overtaken =>
    /\ ~row[u].overtaken
    /\ \/ row'[u].version = row[u].version /\ row'[u].password = row[u].password
       \/ row'[u].version = row[u].version + 1

VersionsMove == \A u \in DOMAIN row \cap DOMAIN row' : MovesOn(u)

\* A deleted id stays so, and a new one was neither an account nor deleted.
IdsKept ==
  /\ Owners \subseteq Owners' /\ gone \subseteq gone'
  /\ (DOMAIN row' \ DOMAIN row) \cap Owners = {}

LEMMA WriteSteps ==
  ASSUME [Next]_vars
  PROVE  \/ UNCHANGED <<row, gone>>
         \/ \E w \in Workers, p \in Passwords :
              RegisterCommit(w, p) \/ SetPassword(w, p) \/ ScriptCommit(w, p)
         \/ \E w \in Workers : Verify(w) \/ PatchCommit(w) \/ DeleteCommit(w)
<1>1. ASSUME NEW w \in Workers, Visit(w)
      PROVE  \/ UNCHANGED <<row, gone>> \/ Verify(w)
             \/ \E p \in Passwords :
                  RegisterCommit(w, p) \/ SetPassword(w, p) \/ ScriptCommit(w, p)
  BY <1>1 DEF Visit, RegisterLoad, ForgotPassword, ScriptLoad, LoginLoad, ChangeLoad,
              Welcome, LoginMint, Logout, LinkLoad, LinkClaim, LinkFollow
<1>2. ASSUME NEW w \in Workers, Moderate(w) \/ Abort(w)
      PROVE  UNCHANGED <<row, gone>> \/ PatchCommit(w) \/ DeleteCommit(w)
  BY <1>2 DEF Moderate, Abort, PatchLoad, DeleteLoad
<1>. QED
  BY <1>1, <1>2 DEF Next, Expire, LinkExpires, Restart, vars

LEMMA VersionSteps ==
  ASSUME AccountAssumption, AccountTypes, Owned, [Next]_vars
  PROVE  IdsKept /\ VersionsMove
<1>1. \A u \in DOMAIN row : row[u] \in AccountRows
  BY DEF AccountTypes
<1>2. CASE UNCHANGED <<row, gone>>
  BY <1>2 DEF IdsKept, VersionsMove, MovesOn, Owners
<1>3. ASSUME NEW w \in Workers, NEW p \in Passwords, RegisterCommit(w, p)
      PROVE  IdsKept /\ VersionsMove
  BY <1>3 DEF RegisterCommit, With, IdsKept, VersionsMove, MovesOn, Owners
<1>4. ASSUME NEW w \in Workers, NEW p \in Passwords, SetPassword(w, p)
      PROVE  IdsKept /\ VersionsMove
  <2>. DEFINE u == job[w].user
              r == Renewed(row[u], p, job[w].seen)
  <2>1. /\ job[w].at = "password" /\ gone' = gone
        /\ \/ row' = row
           \/ u \in DOMAIN row /\ row' = [row EXCEPT ![u] = r]
    BY <1>4 DEF SetPassword, At
  <2>2. job[w].seen \in Nat
    BY <2>1 DEF AccountTypes, HasRead
  <2>3. u \in DOMAIN row /\ ~r.overtaken =>
          ~row[u].overtaken /\ r.version = row[u].version + 1
    <3>1. u \in DOMAIN row => row[u] \in AccountRows
      BY <1>1
    <3>2. u \in DOMAIN row =>
            /\ r.version = job[w].seen + 1
            /\ ~r.overtaken => ~row[u].overtaken /\ job[w].seen = row[u].version
      <4>1. ASSUME NEW v, v \in Nat \cup {-1}, u \in DOMAIN row
            PROVE  LET q == Renewed(row[u], p, v)
                   IN  q.version = v + 1 /\ (~q.overtaken => ~row[u].overtaken /\ v = row[u].version)
        BY <3>1, <4>1, RenewedTypes
      <4>. QED
        BY <2>2, <4>1, Zenon
    <3>. QED
      BY <3>2
  <2>4. IdsKept
    BY <2>1 DEF IdsKept, Owners
  <2>. HIDE DEF r
  <2>. QED
    BY <2>1, <2>3, <2>4 DEF VersionsMove, MovesOn
<1>5. ASSUME NEW w \in Workers, NEW p \in Passwords, ScriptCommit(w, p)
      PROVE  IdsKept /\ VersionsMove
  <2>. DEFINE u == job[w].user
              q == Renewed(row[u], p, job[w].seen)
              r == [q EXCEPT !.role = "admin", !.verified = TRUE]
              n == [Account(p, "admin") EXCEPT !.verified = TRUE]
  <2>1. /\ job[w].at = "script" /\ gone' = gone
        /\ \/ row' = row
           \/ u \notin DOMAIN row \cup gone /\ row' = With(row, u, n)
           \/ u \in DOMAIN row /\ row' = [row EXCEPT ![u] = r]
    BY <1>5 DEF ScriptCommit, At
  <2>2. job[w].seen \in Nat \cup {-1}
    BY <2>1 DEF AccountTypes, HasRead
  <2>3. u \in DOMAIN row /\ ~r.overtaken =>
          ~row[u].overtaken /\ r.version = row[u].version + 1
    <3>1. u \in DOMAIN row => row[u] \in AccountRows
      BY <1>1
    <3>2. ASSUME NEW v, v \in Nat \cup {-1}, u \in DOMAIN row
          PROVE  LET x == Renewed(row[u], p, v)
                 IN  /\ x \in AccountRows /\ x.version = v + 1
                     /\ ~x.overtaken => ~row[u].overtaken /\ v = row[u].version
      BY <3>1, <3>2, RenewedTypes
    <3>3. u \in DOMAIN row =>
            /\ q \in AccountRows /\ q.version = job[w].seen + 1
            /\ ~q.overtaken => ~row[u].overtaken /\ job[w].seen = row[u].version
      BY <2>2, <3>2, Zenon
    <3>4. q \in AccountRows => r.overtaken = q.overtaken /\ r.version = q.version
      BY DEF AccountRows
    <3>. QED
      BY <3>3, <3>4
  <2>4. IdsKept
    BY <2>1 DEF IdsKept, Owners, With
  <2>. HIDE DEF r
  <2>. QED
    BY <2>1, <2>3, <2>4 DEF VersionsMove, MovesOn, With
<1>6. ASSUME NEW w \in Workers, Verify(w)
      PROVE  IdsKept /\ VersionsMove
  <2>1. /\ gone' = gone
        /\ \/ row' = row
           \/ /\ job[w].user \in DOMAIN row
              /\ row' = [row EXCEPT ![job[w].user] = [row[job[w].user] EXCEPT !.verified = TRUE]]
    BY <1>6 DEF Verify
  <2>. QED
    BY <1>1, <2>1 DEF IdsKept, VersionsMove, MovesOn, Owners, AccountRows
<1>7. ASSUME NEW w \in Workers, PatchCommit(w)
      PROVE  IdsKept /\ VersionsMove
  <2>. DEFINE u == job[w].user
              r == Over(job[w].seen.edit, row[u])
  <2>1. /\ gone' = gone
        /\ \/ row' = row
           \/ u \in DOMAIN row /\ row' = [row EXCEPT ![u] = r]
    BY <1>7 DEF PatchCommit
  <2>2. IsEdit(job[w].seen.edit)
    BY <1>7 DEF PatchCommit, At, AccountTypes, HasRead
  <2>3. u \in DOMAIN row => /\ r.password = row[u].password /\ r.version = row[u].version
                            /\ r.overtaken = row[u].overtaken
    BY <1>1, <2>2, EditTypes
  <2>. HIDE DEF r
  <2>. QED
    BY <2>1, <2>3 DEF IdsKept, VersionsMove, MovesOn, Owners
<1>8. ASSUME NEW w \in Workers, DeleteCommit(w)
      PROVE  IdsKept /\ VersionsMove
  BY <1>8 DEF DeleteCommit, Without, IdsKept, VersionsMove, MovesOn, Owners
<1>. QED
  BY <1>2, <1>3, <1>4, <1>5, <1>6, <1>7, <1>8, WriteSteps

LEMMA DatedKept ==
  ASSUME AccountTypes, IdsKept, VersionsMove, NEW u, NEW v, NEW p, Dated(u, v, p)
  PROVE  Dated(u, v, p)'
<1>1. v \in Nat /\ u \in Owners'
  BY DEF Dated, IdsKept
<1>2. ASSUME u \in DOMAIN row', ~row'[u].overtaken
      PROVE  v <= row'[u].version /\ (v = row'[u].version => p = row'[u].password)
  <2>1. u \in DOMAIN row
    BY <1>2 DEF IdsKept, Dated
  <2>2. row[u].version \in Nat
    BY <2>1 DEF AccountTypes, AccountRows
  <2>3. /\ ~row[u].overtaken
        /\ \/ row'[u].version = row[u].version /\ row'[u].password = row[u].password
           \/ row'[u].version = row[u].version + 1
    BY <1>2, <2>1 DEF VersionsMove, MovesOn
  <2>4. v <= row[u].version /\ (v = row[u].version => p = row[u].password)
    BY <2>1, <2>3 DEF Dated
  <2>. QED
    BY <1>1, <2>2, <2>3, <2>4
<1>. QED
  BY <1>1, <1>2 DEF Dated

\* Only a mint makes a token and only a login's read comes before it.

-----------------------------------------------------------------------------
\* A thread goes on by itself: what its next stage may be, and after which step.
LEMMA JobSteps ==
  ASSUME AccountTypes, [Next]_vars, NEW w \in Workers
  PROVE  \/ job'[w] = job[w] \/ job'[w] = Idle
         \/ job'[w].at \in {"register", "welcome", "verify"}
         \/ /\ job'[w].at \in {"patch", "delete"}
            /\ \E a, u \in Users : PatchLoad(w, a, u) \/ DeleteLoad(w, a, u)
         \/ \E u \in Users, p \in Passwords : LoginLoad(w, u, p) \/ ChangeLoad(w, u, p)
         \/ \E u \in Users : ScriptLoad(w, u)
         \/ (\E l \in Links : LinkLoad(w, l)) \/ LinkClaim(w) \/ LinkFollow(w)
<1>1. DOMAIN job = Workers
  BY DEF AccountTypes
<1>2. ASSUME NEW v \in Workers, v # w,
             Done(v) \/ UNCHANGED job \/ \E s, u, l, x : Become(v, s, u, l, x)
      PROVE  job'[w] = job[w]
  BY <1>1, <1>2 DEF Done, Become
<1>3. ASSUME NEW v \in Workers, Visit(v)
      PROVE  Done(v) \/ UNCHANGED job \/ \E s, u, l, x : Become(v, s, u, l, x)
  <2>1. ASSUME NEW p \in Passwords, RegisterCommit(v, p) \/ SetPassword(v, p)
                                    \/ ScriptCommit(v, p)
        PROVE  Done(v) \/ \E s, u, l, x : Become(v, s, u, l, x)
    BY <2>1 DEF RegisterCommit, SetPassword, ScriptCommit
  <2>2. LinkClaim(v) \/ LinkFollow(v) \/ Verify(v) \/ Welcome(v) \/ LoginMint(v) =>
          Done(v) \/ \E s, u, l, x : Become(v, s, u, l, x)
    BY DEF LinkClaim, LinkFollow, Verify, Welcome, LoginMint
  <2>. QED
    BY <1>3, <2>1, <2>2 DEF Visit, RegisterLoad, ForgotPassword, ScriptLoad, LoginLoad,
                            ChangeLoad, Logout, LinkLoad
<1>4. ASSUME NEW v \in Workers, Moderate(v) \/ Abort(v)
      PROVE  Done(v) \/ \E s \in {"patch", "delete"} : \E u, l, x : Become(v, s, u, l, x)
  BY <1>4 DEF Moderate, Abort, PatchLoad, DeleteLoad, PatchCommit, DeleteCommit
<1>5. ASSUME NEW p \in Passwords, RegisterCommit(w, p) \/ SetPassword(w, p)
                                  \/ ScriptCommit(w, p)
      PROVE  job'[w] = Idle \/ job'[w].at = "welcome"
  BY <1>1, <1>5 DEF RegisterCommit, SetPassword, ScriptCommit, Done, Become
<1>6. ASSUME \/ \E u \in Users : RegisterLoad(w, u) \/ ForgotPassword(w, u)
             \/ Welcome(w) \/ LoginMint(w) \/ (\E j \in Jtis : Logout(w, j))
             \/ Verify(w)
      PROVE  job'[w] = job[w] \/ job'[w] = Idle \/ job'[w].at = "register"
  BY <1>1, <1>6 DEF RegisterLoad, ForgotPassword, Welcome, LoginMint, Logout, Verify,
                    Done, Become
<1>7. CASE \E v \in Workers : Visit(v) \/ Moderate(v) \/ Abort(v)
  <2>1. CASE Visit(w)
    BY <1>5, <1>6, <2>1 DEF Visit
  <2>2. CASE Moderate(w) \/ Abort(w)
    <3>1. job'[w] = Idle \/ \E a, u \in Users : PatchLoad(w, a, u) \/ DeleteLoad(w, a, u)
      BY <1>1, <2>2 DEF Moderate, Abort, PatchCommit, DeleteCommit, Done
    <3>. QED
      BY <1>1, <1>4, <2>2, <3>1 DEF Done, Become
  <2>. QED
    BY <1>2, <1>3, <1>4, <1>7, <2>1, <2>2
<1>. QED
  BY <1>7 DEF Next, Expire, LinkExpires, Restart, vars

\* What a login has read, and what it mints, is dated by the row it read.
LEMMA TokensStep ==
  ASSUME AccountAssumption, AccountTypes, Owned, TokenTypes, TokensDated, [Next]_vars
  PROVE  TokensDated'
<1>1. \A u, v, p : Dated(u, v, p) => Dated(u, v, p)'
  BY VersionSteps, DatedKept
<1>2. ASSUME NEW w \in Workers, At(w, "login")'
      PROVE  Dated(job[w].user, job[w].seen.version, job[w].seen.password)'
  <2>1. CASE job'[w] = job[w]
    BY <1>1, <1>2, <2>1 DEF TokensDated, At
  <2>2. ASSUME NEW u \in Users, NEW p \in Passwords, LoginLoad(w, u, p)
        PROVE  Dated(job[w].user, job[w].seen.version, job[w].seen.password)'
    <3>1. /\ u \in DOMAIN row /\ row' = row /\ job'[w].user = u /\ job'[w].seen = row[u]
      BY <2>2 DEF LoginLoad, Become, AccountTypes
    <3>2. row[u].version \in Nat
      BY <3>1 DEF AccountTypes, AccountRows
    <3>. QED
      BY <3>1, <3>2 DEF Dated, Owners
  <2>3. job'[w].at = "login"
    BY <1>2 DEF At
  <2>4. ~(\E u \in Users, p \in Passwords : ChangeLoad(w, u, p))
    BY <2>3 DEF ChangeLoad, Become, AccountTypes
  <2>5. ~(\E u \in Users : ScriptLoad(w, u)) /\ ~(\E l \in Links : LinkLoad(w, l))
        /\ ~LinkClaim(w) /\ ~LinkFollow(w)
    BY <2>3 DEF ScriptLoad, LinkLoad, LinkClaim, LinkFollow, Become, Done, Idle, AccountTypes
  <2>. QED
    BY <2>1, <2>2, <2>3, <2>4, <2>5, JobSteps DEF Idle
<1>3. ASSUME NEW j \in DOMAIN jwt'
      PROVE  Dated(jwt[j].user, jwt[j].version, jwt[j].under)'
  <2>1. ASSUME j \in DOMAIN jwt, jwt'[j].user = jwt[j].user,
               jwt'[j].version = jwt[j].version, jwt'[j].under = jwt[j].under
        PROVE  Dated(jwt[j].user, jwt[j].version, jwt[j].under)'
    BY <1>1, <2>1 DEF TokensDated
  <2>2. ASSUME NEW w \in Workers, LoginMint(w)
        PROVE  Dated(jwt[j].user, jwt[j].version, jwt[j].under)'
    <3>1. At(w, "login")
          /\ \/ j \in DOMAIN jwt /\ jwt'[j] = jwt[j]
             \/ jwt'[j] = [user |-> job[w].user, version |-> job[w].seen.version,
                           under |-> job[w].seen.password, live |-> TRUE]
      BY <2>2 DEF LoginMint, With
    <3>. QED
      BY <1>1, <2>1, <3>1 DEF TokensDated
  <2>3. ASSUME NEW k \in Jtis, Expire(k)
        PROVE  Dated(jwt[j].user, jwt[j].version, jwt[j].under)'
    <3>1. /\ j \in DOMAIN jwt /\ jwt'[j].user = jwt[j].user
          /\ jwt'[j].version = jwt[j].version /\ jwt'[j].under = jwt[j].under
      BY <2>3, <1>3 DEF Expire, TokenTypes
    <3>. QED
      BY <2>1, <3>1
  <2>. QED
    BY <2>1, <2>2, <2>3, TokenSteps, <1>3 DEF TokenTypes
<1>. QED
  BY <1>2, <1>3 DEF TokensDated

\* "Invalidates EVERY outstanding access token" (change_password): what a token
\* was got with is the password the account still has, for any number of threads
\* that sign in, reset, change, run the script, delete and restart, unless one
\* of the account's changes wrote its version over a later one.
THEOREM OldPasswordsDie ==
  ASSUME AccountAssumption
  PROVE  Spec => []OldPasswordDies
<1>. DEFINE Inv == AccountTypes /\ TokenTypes /\ LinkInv /\ TokensDated
<1>1. Init => Inv
  BY InitTypes, InitLinks, InitTokens DEF Init, TokenTypes
<1>2. Inv /\ [Next]_vars => Inv'
  <2>. SUFFICES ASSUME Inv, [Next]_vars PROVE Inv'
    OBVIOUS
  <2>1. LinkTypes /\ Owned
    BY DEF LinkInv
  <2>2. AccountTypes' /\ TokenTypes' /\ LinkInv'
    BY TypesStep, TokenTypesStep, LinksStep
  <2>3. TokensDated'
    BY <2>1, TokensStep
  <2>. QED
    BY <2>2, <2>3
<1>3. Inv => OldPasswordDies
  BY DEF TokensDated, Dated, OldPasswordDies, Authenticates
<1>. QED
  BY <1>1, <1>2, <1>3, PTL DEF Spec

-----------------------------------------------------------------------------
\* What w is about to do spares the administrator it acts for: it is about
\* another account, or a patch that changes nothing.
Spares(w) ==
  /\ job[w].at \in {"patch", "delete"} => w \in Managers /\ job[w].seen.by \in Users
  /\ At(w, "patch") /\ job[w].user = job[w].seen.by => DOMAIN job[w].seen.edit = {}
  /\ At(w, "delete") => job[w].user # job[w].seen.by

\* What ends an administrator: a patch that changes something, or a deletion.
Ends(w, a) ==
  /\ job[w].user = a
  /\ DeleteCommit(w) \/ (PatchCommit(w) /\ DOMAIN job[w].seen.edit # {})

LEMMA AdminSteps ==
  ASSUME AccountTypes, [Next]_vars, NEW a \in Users, Administers(a)
  PROVE  Administers(a)' \/ \E w \in Workers : Ends(w, a)
<1>1. a \in DOMAIN row /\ row[a] \in AccountRows /\ row[a].role = "admin" /\ row[a].active
  BY DEF Administers, AccountTypes
<1>2. CASE UNCHANGED <<row, gone>>
  BY <1>2 DEF Administers
<1>3. ASSUME NEW w \in Workers, NEW p \in Passwords, RegisterCommit(w, p)
      PROVE  Administers(a)'
  BY <1>1, <1>3 DEF RegisterCommit, With, Administers
<1>4. ASSUME NEW w \in Workers, NEW p \in Passwords, SetPassword(w, p)
      PROVE  Administers(a)'
  <2>. DEFINE u == job[w].user
              r == Renewed(row[u], p, job[w].seen)
  <2>1. row' = row \/ (u \in DOMAIN row /\ row' = [row EXCEPT ![u] = r])
    BY <1>4 DEF SetPassword
  <2>2. a = u => r.role = "admin" /\ r.active
    BY <1>1 DEF AccountRows, Renewed
  <2>. QED
    BY <1>1, <2>1, <2>2 DEF Administers
<1>5. ASSUME NEW w \in Workers, NEW p \in Passwords, ScriptCommit(w, p)
      PROVE  Administers(a)'
  <2>. DEFINE u == job[w].user
              r == [Renewed(row[u], p, job[w].seen) EXCEPT !.role = "admin", !.verified = TRUE]
              n == [Account(p, "admin") EXCEPT !.verified = TRUE]
  <2>1. \/ row' = row
        \/ u \notin DOMAIN row /\ row' = With(row, u, n)
        \/ u \in DOMAIN row /\ row' = [row EXCEPT ![u] = r]
    BY <1>5 DEF ScriptCommit
  <2>2. a = u => r.role = "admin" /\ r.active
    BY <1>1 DEF AccountRows, Renewed
  <2>. QED
    BY <1>1, <2>1, <2>2 DEF Administers, With
<1>6. ASSUME NEW w \in Workers, Verify(w)
      PROVE  Administers(a)'
  <2>. DEFINE u == job[w].user
              r == [row[u] EXCEPT !.verified = TRUE]
  <2>1. row' = row \/ (u \in DOMAIN row /\ row' = [row EXCEPT ![u] = r])
    BY <1>6 DEF Verify
  <2>2. a = u => r.role = "admin" /\ r.active
    BY <1>1 DEF AccountRows
  <2>. QED
    BY <1>1, <2>1, <2>2 DEF Administers
<1>7. ASSUME NEW w \in Workers, PatchCommit(w), ~Ends(w, a)
      PROVE  Administers(a)'
  <2>. DEFINE u == job[w].user
              r == Over(job[w].seen.edit, row[u])
  <2>1. row' = row \/ (u \in DOMAIN row /\ row' = [row EXCEPT ![u] = r])
    BY <1>7 DEF PatchCommit
  <2>2. a = u => r = row[u]
    <3>1. a = u => DOMAIN job[w].seen.edit = {}
      BY <1>7 DEF Ends
    <3>2. IsEdit(job[w].seen.edit)
      BY <1>7 DEF PatchCommit, At, AccountTypes, HasRead
    <3>. QED
      BY <1>1, <3>1, <3>2, EditTypes
  <2>. QED
    BY <1>1, <2>1, <2>2 DEF Administers
<1>8. ASSUME NEW w \in Workers, DeleteCommit(w), ~Ends(w, a)
      PROVE  Administers(a)'
  BY <1>1, <1>8 DEF DeleteCommit, Without, Ends, Administers
<1>. QED
  BY <1>2, <1>3, <1>4, <1>5, <1>6, <1>7, <1>8, WriteSteps

\* Nobody reads himself for a change of his own rights, whoever reads meanwhile.
LEMMA SparesStep ==
  ASSUME AccountTypes, [Next]_vars, NEW w \in Workers, Spares(w)
  PROVE  Spares(w)'
<1>1. DOMAIN job = Workers
  BY DEF AccountTypes
<1>2. CASE job'[w] = job[w]
  BY <1>2 DEF Spares, At
<1>3. ASSUME NEW a \in Users, NEW u \in Users, PatchLoad(w, a, u)
      PROVE  Spares(w)'
  <2>1. w \in Managers /\ row[a] \in AccountRows /\ row[a].role = "admin" /\ row[a].active
    <3>1. Manage(w, a)
      BY <1>3 DEF PatchLoad
    <3>. QED
      BY <3>1 DEF Manage, Signed, Authenticates, AccountTypes
  <2>2. PICK on \in BOOLEAN, role \in {"admin", "student"} :
          /\ u = a => on /\ role = "admin"
          /\ Become(w, "patch", u, None, [by |-> a, edit |-> Edit(u, on, role)])
    BY <1>3 DEF PatchLoad
  <2>3. job'[w] = [at |-> "patch", user |-> u, link |-> None,
                   seen |-> [by |-> a, edit |-> Edit(u, on, role)]]
    BY <1>1, <2>2 DEF Become
  <2>4. a = u => DOMAIN Edit(u, on, role) = {}
    <3>. SUFFICES ASSUME a = u PROVE DOMAIN Edit(u, on, role) = {}
      OBVIOUS
    <3>. DEFINE new == [active |-> on, role |-> role]
    <3>1. row[u].active = TRUE /\ row[u].role = "admin"
      BY <2>1 DEF AccountRows
    <3>2. new["active"] = TRUE /\ new["role"] = "admin"
      BY <2>2
    <3>3. DOMAIN Edit(u, on, role) = {g \in {"active", "role"} : new[g] # row[u][g]}
      BY DEF Edit
    <3>. HIDE DEF new
    <3>. QED
      BY <3>1, <3>2, <3>3
  <2>. QED
    BY <2>1, <2>3, <2>4 DEF Spares, At
<1>4. ASSUME NEW a \in Users, NEW u \in Users, DeleteLoad(w, a, u)
      PROVE  Spares(w)'
  BY <1>1, <1>4 DEF DeleteLoad, Manage, Spares, Become, At
<1>5. CASE job'[w].at \notin {"patch", "delete"}
  BY <1>5 DEF Spares, At
<1>6. \/ \E u \in Users, p \in Passwords : LoginLoad(w, u, p) \/ ChangeLoad(w, u, p)
      \/ \E u \in Users : ScriptLoad(w, u)
      \/ \E l \in Links : LinkLoad(w, l)
      \/ LinkClaim(w) \/ LinkFollow(w)
      => job'[w].at \notin {"patch", "delete"}
  BY <1>1 DEF LoginLoad, ChangeLoad, ScriptLoad, LinkLoad, LinkClaim, LinkFollow,
              Become, Done, Idle
<1>. QED
  BY <1>2, <1>3, <1>4, <1>5, <1>6, JobSteps DEF Idle

\* A commit that ends an administrator either leaves the one it acts for, or
\* acts for one who is none any more.
LEMMA EndsLeaveOne ==
  ASSUME AccountTypes, \A w \in Workers : Spares(w), [Next]_vars,
         NEW u \in Users, Administers(u),
         ~(\E w \in Managers : Outdated(w))
  PROVE  (\E v \in Users : Administers(v))'
<1>1. CASE Administers(u)'
  BY <1>1
<1>2. ASSUME NEW w \in Workers, Ends(w, u)
      PROVE  (\E v \in Users : Administers(v))'
  <2>. PICK b : b = job[w].seen.by
    OBVIOUS
  <2>1. /\ job[w].at \in {"patch", "delete"} /\ job' = [job EXCEPT ![w] = Idle]
        /\ PatchCommit(w) \/ DeleteCommit(w)
    BY <1>2 DEF Ends, PatchCommit, DeleteCommit, At, Done
  <2>2. w \in Managers /\ b \in Users /\ b # u
    BY <1>2, <2>1 DEF Spares, Ends, PatchCommit, DeleteCommit
  <2>3. Administers(b)
    BY <2>1, <2>2 DEF Outdated
  <2>4. ASSUME NEW v \in Workers, Ends(v, b)
        PROVE  FALSE
    <3>1. job[v].at \in {"patch", "delete"} /\ job'[v] = Idle
      BY <2>4 DEF Ends, PatchCommit, DeleteCommit, At, Done, AccountTypes
    <3>2. v # w
      BY <1>2, <2>2, <2>4 DEF Ends
    <3>. QED
      BY <2>1, <3>1, <3>2 DEF AccountTypes, Idle
  <2>5. Administers(b)'
    BY <2>2, <2>3, <2>4, AdminSteps
  <2>. QED
    BY <2>2, <2>5
<1>. QED
  BY <1>1, <1>2, AdminSteps

\* There is always somebody left to administer: patch_user refuses self-demotion
\* and self-deactivation and delete_user self-deletion, so whoever acts stays,
\* for any number of threads that serve administrators, unless he lost his own
\* rights after they were checked.
THEOREM AdministratorRemains ==
  ASSUME AccountAssumption
  PROVE  Spec => (\E u \in Users : Administers(u)) /\ AdminRemains
<1>. DEFINE Inv == AccountTypes /\ \A w \in Workers : Spares(w)
<1>1. Init => Inv /\ \E u \in Users : Administers(u)
  BY InitTypes DEF Init, Spares, At, Idle, AccountAssumption, Account, Administers
<1>2. Inv /\ [Next]_vars => Inv'
  BY TypesStep, SparesStep
<1>3. Inv /\ [Next]_vars =>
        \A u \in Users : Administers(u) =>
          (\E v \in Users : Administers(v))' \/ \E w \in Managers : Outdated(w)
  BY EndsLeaveOne
<1>. QED
  BY <1>1, <1>2, <1>3, PTL DEF Spec, AdminRemains
=============================================================================
