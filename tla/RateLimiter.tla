----------------------------- MODULE RateLimiter -----------------------------
(***************************************************************************)
(* MemoryRateLimiter of security/rate_limit.py, which the handlers of      *)
(* routers/auth.py ask first.  hit reads the clock before it takes the     *)
(* lock, so threads append to a bucket out of order: a thread may be held  *)
(* up between the two for at most Lag ticks.                               *)
(***************************************************************************)
EXTENDS Integers, Sequences

CONSTANTS
  Keys,      \* client identities
  Callers,
  Limit, Window,
  Lag,       \* bound: ticks between the clock and the lock
  EndOfTime  \* bound on the clock

LimiterAssumption ==
  Limit \in Nat \ {0} /\ Window \in Nat /\ Lag \in 0..Window /\ EndOfTime \in Nat

VARIABLES
  now,       \* time.monotonic()
  hits,      \* _hits[k]: the bucket of k, oldest entry first
  waiting,   \* waiting[t]: the attempt whose lock t waits for
  admitted   \* history: when attempts of k were allowed, since the start

limiterVars == <<now, hits, waiting, admitted>>

NoAttempt == [key |-> "none", time |-> 0]

LimiterInit ==
  /\ now = 0
  /\ hits = [k \in Keys |-> <<>>]
  /\ waiting = [t \in Callers |-> NoAttempt]
  /\ admitted = [k \in Keys |-> <<>>]

Tick ==
  /\ now < EndOfTime
  /\ \A t \in Callers : waiting[t] # NoAttempt => now - waiting[t].time < Lag
  /\ now' = now + 1
  /\ UNCHANGED <<hits, waiting, admitted>>

\* now = time.monotonic()
Attempt(t, k) ==
  /\ waiting[t] = NoAttempt
  /\ waiting' = [waiting EXCEPT ![t] = [key |-> k, time |-> now]]
  /\ UNCHANGED <<now, hits, admitted>>

PruneEarly(bucket, time) ==     \* variant: drops what is a whole window old
  IF \E i \in 1..Len(bucket) : time - bucket[i] < Window
  THEN LET first == CHOOSE i \in 1..Len(bucket) :
                      /\ time - bucket[i] < Window
                      /\ \A j \in 1..i - 1 : time - bucket[j] >= Window
       IN SubSeq(bucket, first, Len(bucket))
  ELSE <<>>

\* The entries from the first one that is not older than the window: what an
\* entry out of order has before it keeps it in the bucket.
Prune(bucket, time) ==
  IF \E i \in 1..Len(bucket) : time - bucket[i] <= Window
  THEN LET first == CHOOSE i \in 1..Len(bucket) :
                      /\ time - bucket[i] <= Window
                      /\ \A j \in 1..i - 1 : time - bucket[j] > Window
       IN SubSeq(bucket, first, Len(bucket))
  ELSE <<>>

\* The rest of hit, under the lock.
Hit(t) ==
  /\ waiting[t] # NoAttempt
  /\ LET k == waiting[t].key
         bucket == Prune(hits[k], waiting[t].time)
     IN IF Len(bucket) >= Limit
        THEN /\ hits' = [hits EXCEPT ![k] = bucket]
             /\ UNCHANGED admitted
        ELSE /\ hits' = [hits EXCEPT ![k] = Append(bucket, waiting[t].time)]
             /\ admitted' = [admitted EXCEPT ![k] = Append(@, now)]
  /\ waiting' = [waiting EXCEPT ![t] = NoAttempt]
  /\ UNCHANGED now

\* The map is the process's own.
LimiterRestart ==
  /\ hits' = [k \in Keys |-> <<>>]
  /\ waiting' = [t \in Callers |-> NoAttempt]
  /\ admitted' = [k \in Keys |-> <<>>]
  /\ UNCHANGED now

LimiterNext ==
  \/ Tick \/ LimiterRestart
  \/ \E t \in Callers : Hit(t) \/ \E k \in Keys : Attempt(t, k)

LimiterSpec == LimiterInit /\ [][LimiterNext]_limiterVars

-----------------------------------------------------------------------------
(* Properties.                                                              *)

\* "Brute force gets 5 attempts/minute/IP": however many threads ask at once and
\* however they are held up, Limit + 1 allowed attempts are more than a window
\* apart, but for the time a thread was held up.
WindowBound ==
  \A k \in Keys : \A i \in 1..Len(admitted[k]) - Limit :
    admitted[k][i + Limit] - admitted[k][i] > Window - Lag
=============================================================================
