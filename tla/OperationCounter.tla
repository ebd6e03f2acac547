--------------------------- MODULE OperationCounter ---------------------------
(***************************************************************************)
(* next_operation_id (services/seed.py): the per-day counter behind the    *)
(* readable ids OP-YYYYMMDD-NNNNNN.  It runs inside the transaction that   *)
(* inserts the deposit session, on PostgreSQL at READ COMMITTED.           *)
(***************************************************************************)
EXTENDS Integers, Sequences

CONSTANTS
  Threads,
  Nobody,     \* holds a row nobody has locked
  LastDay,    \* bound on the days
  MaxPerDay   \* bound on the sessions of a day

CounterAssumption ==
  Nobody \notin Threads /\ LastDay \in Nat /\ MaxPerDay \in Nat

Days == 0..LastDay

VARIABLES
  today,
  counter,    \* operation_counters: counter[d], for the days that have a row
  holder,     \* the transaction that has today's row locked or is inserting it
  minted,     \* minted[d]: numbers of d's committed sessions, in commit order
  mint         \* per thread: what it has read

counterVars == <<today, counter, holder, minted, mint>>

NoMint == [at |-> "idle", day |-> 0, value |-> 0]

\* seed leaves a row for the day of the boot.
CounterInit ==
  /\ today = 0
  /\ counter = [d \in {0} |-> 0]
  /\ holder = [d \in Days |-> Nobody]
  /\ minted = [d \in Days |-> <<>>]
  /\ mint = [t \in Threads |-> NoMint]

Midnight ==
  /\ today < LastDay
  /\ today' = today + 1
  /\ UNCHANGED <<counter, holder, minted, mint>>

Goes(t, stage, d, n) == mint' = [mint EXCEPT ![t] = [at |-> stage, day |-> d, value |-> n]]

SelectUnlocked(t) ==           \* variant: without with_for_update
  /\ mint[t].at = "idle"
  /\ IF today \in DOMAIN counter
     THEN counter[today] < MaxPerDay /\ Goes(t, "update", today, counter[today])
     ELSE Goes(t, "insert", today, 0)
  /\ UNCHANGED <<today, counter, holder, minted>>

\* SELECT ... FOR UPDATE waits for the row's holder and reads what it left; it
\* locks nothing when the day has no row yet.
Select(t) ==
  /\ mint[t].at = "idle"
  /\ IF today \in DOMAIN counter
     THEN /\ holder[today] = Nobody /\ counter[today] < MaxPerDay
          /\ holder' = [holder EXCEPT ![today] = t]
          /\ Goes(t, "update", today, counter[today])
     ELSE Goes(t, "insert", today, 0) /\ UNCHANGED holder
  /\ UNCHANGED <<today, counter, minted>>

\* The INSERT of a day's row waits for another one's, and the primary key
\* refuses it once that is committed: the request fails.
Insert(t) ==
  /\ mint[t].at = "insert" /\ holder[mint[t].day] = Nobody
  /\ IF mint[t].day \in DOMAIN counter
     THEN mint' = [mint EXCEPT ![t] = NoMint] /\ UNCHANGED holder
     ELSE /\ holder' = [holder EXCEPT ![mint[t].day] = t]
          /\ Goes(t, "update", mint[t].day, 0)
  /\ UNCHANGED <<today, counter, minted>>

\* COMMIT: the counter's new value and the session that carries it.
Commit(t) ==
  /\ mint[t].at = "update"
  /\ LET d == mint[t].day
         n == mint[t].value + 1
     IN /\ counter' = [e \in DOMAIN counter \cup {d} |-> IF e = d THEN n ELSE counter[e]]
        /\ minted' = [minted EXCEPT ![d] = Append(@, n)]
        /\ holder' = [holder EXCEPT ![d] = IF @ = t THEN Nobody ELSE @]
  /\ mint' = [mint EXCEPT ![t] = NoMint]
  /\ UNCHANGED today

\* ROLLBACK: of the counter and of the session alike.
Rollback(t) ==
  /\ mint[t].at # "idle"
  /\ holder' = [d \in Days |-> IF holder[d] = t THEN Nobody ELSE holder[d]]
  /\ mint' = [mint EXCEPT ![t] = NoMint]
  /\ UNCHANGED <<today, counter, minted>>

\* The backend dies and boots: its transactions are rolled back, and seed adds
\* the day's row if there is none.
Boot ==
  /\ counter' = [d \in DOMAIN counter \cup {today} |->
                   IF d \in DOMAIN counter THEN counter[d] ELSE 0]
  /\ holder' = [d \in Days |-> Nobody]
  /\ mint' = [t \in Threads |-> NoMint]
  /\ UNCHANGED <<today, minted>>

CounterNext ==
  \/ Midnight \/ Boot
  \/ \E t \in Threads : Select(t) \/ Insert(t) \/ Commit(t) \/ Rollback(t)

CounterSpec == CounterInit /\ [][CounterNext]_counterVars

-----------------------------------------------------------------------------
\* "Concurrent minting cannot collide": the committed sessions of a day are
\* numbered 1, 2, 3 ... without a gap or a number given twice, through
\* rollbacks, midnight and the first mint of a day.
MintedDense ==
  \A d \in Days :
    minted[d] = [i \in 1..(IF d \in DOMAIN counter THEN counter[d] ELSE 0) |-> i]
=============================================================================
