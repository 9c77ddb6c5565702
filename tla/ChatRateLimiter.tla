--------------------------- MODULE ChatRateLimiter ---------------------------
(***************************************************************************)
(* The token bucket every message of the chat passes (ChatRateLimiter and  *)
(* _rate_limit_key of api/auth.py).                                        *)
(*                                                                         *)
(* check() reads its clock BEFORE it takes the lock, so requests pass the  *)
(* lock in another order than their readings; a sweep under the same lock  *)
(* forgets the buckets that must be full again.  Time is in ticks of one   *)
(* token: a bucket of Capacity tokens is full again after Capacity ticks.  *)
(***************************************************************************)
EXTENDS Integers, Sequences, FiniteSets

CONSTANTS
  Keys,        \* the sub of a caller, else its address
  Threads,     \* requests in flight at once
  Capacity,    \* per_minute
  EvictEvery,  \* _EVICT_EVERY
  MaxDelay,    \* bound: ticks between a reading and the lock
  MaxClock, MaxChecks   \* bounds

ASSUME LimiterAssumption ==
  /\ Capacity \in Nat \ {0} /\ EvictEvery \in Nat \ {0}
  /\ MaxDelay \in Nat /\ MaxClock \in Nat /\ MaxChecks \in Nat

VARIABLES
  clock,      \* time.monotonic()
  reading,    \* per thread the key and the time of the check it is in, or Idle
  buckets,    \* per key its _TokenBucket, or Absent
  sinceSweep, \* _checks_since_sweep
  admitted,   \* history: per key the checks let through, in the order of the lock
  early       \* history: per key the tokens its forgotten buckets may have given too early

limiterVars == <<clock, reading, buckets, sinceSweep, admitted, early>>

Absent == [tokens |-> 0, lastRefill |-> -1]
Idle == [key |-> "none", now |-> -1]

LimiterTypeOK ==
  /\ clock \in Nat /\ sinceSweep \in Nat
  /\ reading \in [Threads -> {Idle} \union [key : Keys, now : Nat]]
  /\ buckets \in [Keys -> {Absent} \union [tokens : Int, lastRefill : Nat]]
  /\ admitted \in [Keys -> Seq([at : Nat, early : Nat])]
  /\ early \in [Keys -> Nat]

Admissions == Cardinality({check \in Keys \X (1..MaxChecks) : check[2] <= Len(admitted[check[1]])})

LimiterInit ==
  /\ clock = 0 /\ sinceSweep = 0
  /\ reading = [t \in Threads |-> Idle]
  /\ buckets = [k \in Keys |-> Absent]
  /\ admitted = [k \in Keys |-> << >>] /\ early = [k \in Keys |-> 0]

\* A thread that has read its clock reaches the lock within MaxDelay ticks.
Tick ==
  /\ clock < MaxClock
  /\ \A t \in Threads : reading[t] # Idle => clock - reading[t].now < MaxDelay
  /\ clock' = clock + 1
  /\ UNCHANGED <<reading, buckets, sinceSweep, admitted, early>>

ReadClock(t, k) ==
  /\ reading[t] = Idle /\ Admissions < MaxChecks
  /\ reading' = [reading EXCEPT ![t] = [key |-> k, now |-> clock]]
  /\ UNCHANGED <<clock, buckets, sinceSweep, admitted, early>>

\* Mutant: what a bucket gains while it rests is not capped.
RefilledPastItsSize(bucket, now) ==
  IF bucket = Absent THEN Capacity ELSE bucket.tokens + (now - bucket.lastRefill)

\* A bucket not known is full; a reading older than the last one takes tokens back.
Refilled(bucket, now) ==
  IF bucket = Absent THEN Capacity
  ELSE LET tokens == bucket.tokens + (now - bucket.lastRefill)
       IN  IF tokens < Capacity THEN tokens ELSE Capacity

\* _evict_idle_buckets
Kept(bucket, now) == IF now - bucket.lastRefill > Capacity THEN Absent ELSE bucket

\* What a check forgets was last refilled by a reading up to MaxDelay older than the newest
\* one of its key, and comes back full for a reading up to MaxDelay older than the sweep's.
EarlyAfter(before, after) ==
  [k \in Keys |-> IF before[k] # Absent /\ after[k] = Absent THEN early[k] + 2 * MaxDelay ELSE early[k]]

Check(t) ==
  LET k == reading[t].key
      now == reading[t].now
      tokens == Refilled(buckets[k], now)
      pass == tokens >= 1
      spent == [buckets EXCEPT ![k] = [tokens |-> IF pass THEN tokens - 1 ELSE tokens,
                                       lastRefill |-> now]]
      sweep == sinceSweep + 1 >= EvictEvery
  IN  /\ reading[t] # Idle
      /\ reading' = [reading EXCEPT ![t] = Idle]
      /\ sinceSweep' = IF sweep THEN 0 ELSE sinceSweep + 1
      /\ buckets' = IF sweep THEN [j \in Keys |-> Kept(spent[j], now)] ELSE spent
      /\ admitted' = IF pass THEN [admitted EXCEPT ![k] = Append(@, [at |-> now, early |-> early[k]])]
                      ELSE admitted
      /\ early' = EarlyAfter(spent, buckets')
      /\ UNCHANGED clock

LimiterNext ==
  \/ Tick
  \/ \E t \in Threads : Check(t) \/ \E k \in Keys : ReadClock(t, k)

LimiterSpec == LimiterInit /\ [][LimiterNext]_limiterVars

-----------------------------------------------------------------------------
\* Over any stretch of its requests a caller is let through no more often than a full bucket and
\* the time that passed allow, whatever order the requests took the lock in.  A sweep may forget
\* a bucket that is not full yet; what that gives away is no more than twice the delay each time.
AdmittedWithinRate ==
  \A k \in Keys : \A i, j \in DOMAIN admitted[k] :
    LET first == admitted[k][i]
        last  == admitted[k][j]
    IN  i <= j => j - i + 1 <= Capacity + (last.at - first.at) + (last.early - first.early)
=============================================================================
