----------------------------- MODULE JwksCache ------------------------------
(***************************************************************************)
(* The signing-key cache of Auth0Provider (core/identity_auth0.py).  Every *)
(* request names a key id before anything about it has been verified; the  *)
(* requests resolve on worker threads that share one cache.  Two bounds    *)
(* stand in front of the tenant's endpoint, a minimum interval between     *)
(* fetches and a negative cache, and callers that arrive during a fetch    *)
(* ride it.  The lock is held for one decision at a time, never during the *)
(* fetch or a wait, and the clock is read before the lock is taken.        *)
(***************************************************************************)
EXTENDS Integers, Sequences

CONSTANTS
  Requests,      \* the calls of _public_key_for_kid
  Kids,          \* the key ids they name
  Interval,      \* _MIN_FETCH_INTERVAL_SECONDS
  NegativeTTL,   \* _NEGATIVE_TTL_SECONDS
  NegativeMax,   \* _NEGATIVE_MAX_ENTRIES
  FetchWait,     \* _FETCH_WAIT_SECONDS
  FetchTime,     \* from the clock reading of a claim to the end of its fetch, at most
  Delay,         \* from a clock reading to the locked section after it, at most
  Horizon        \* bound: the clock stops here

\* A fetch is over before the next one is due: its four phases have a
\* timeout of 3 seconds each, and the interval is 60 seconds.  (httpx counts
\* the read timeout anew for every chunk; the answer is taken to be short.)
ASSUME JwksAssumption ==
  /\ Interval \in Nat /\ NegativeTTL \in Nat /\ FetchWait \in Nat
  /\ FetchTime \in Nat /\ Delay \in Nat /\ Horizon \in Nat
  /\ NegativeMax \in Nat \ {0} /\ Kids # {}
  /\ Delay <= FetchTime
  /\ FetchTime < Interval
  /\ Interval <= NegativeTTL

VARIABLES
  clock,      \* time.monotonic()
  keys,       \* _keys_by_kid
  negative,   \* _negative_kids, oldest first: [kid, at]
  lastFetch,  \* _last_fetch_at
  inFlight,   \* _fetch_in_flight, an index of attempts
  lastError,  \* _last_fetch_error is set
  attempts,   \* every _JwksFetchAttempt so far, in the order of their claims
  pc,         \* per request, what it does next, or how it ended
  kid,        \* per request, the key id it names
  now,        \* per request, the clock reading it holds
  mine,       \* per request, the attempt it performs or rides
  response,   \* per request, what the tenant answered and when
  unlisted    \* history: when the newest of the published lists without a key id was read

cacheVars   == <<keys, negative, lastFetch, inFlight, lastError, attempts>>
requestVars == <<pc, kid, now, mine, response>>
vars == <<clock, cacheVars, requestVars, unlisted>>

Never     == -1
NoAttempt == 0
AnyKid    == CHOOSE k \in Kids : TRUE
Silence   == [keys |-> {}, at |-> 0]

Attempt  == [at : Nat, status : {"open", "ok", "failed"}]
Entry    == [kid : Kids, at : Nat]
Response == [keys : SUBSET Kids, at : Nat]

Result == {"key", "unknown", "unavailable"}
Place  == {"new", "deciding", "fetching", "swapping", "releasing", "failing", "riding", "confirming"}

TypeOK ==
  /\ clock \in Nat
  /\ keys \subseteq Kids
  /\ negative \in Seq(Entry) /\ Len(negative) <= NegativeMax
  /\ lastFetch \in Nat \union {Never}
  /\ attempts \in Seq(Attempt)
  /\ inFlight \in 0 .. Len(attempts)
  /\ lastError \in BOOLEAN
  /\ pc \in [Requests -> Place \union Result]
  /\ kid \in [Requests -> Kids]
  /\ now \in [Requests -> Nat]
  /\ mine \in [Requests -> Nat]
  /\ \A r \in Requests : mine[r] <= Len(attempts)
  /\ response \in [Requests -> Response]
  /\ unlisted \in [Kids -> Nat \union {Never}]

Init ==
  /\ clock = 0
  /\ keys = {} /\ negative = <<>>
  /\ lastFetch = Never /\ inFlight = NoAttempt /\ lastError = FALSE
  /\ attempts = <<>>
  /\ pc = [r \in Requests |-> "new"]
  /\ kid = [r \in Requests |-> AnyKid]
  /\ now = [r \in Requests |-> 0]
  /\ mine = [r \in Requests |-> NoAttempt]
  /\ response = [r \in Requests |-> Silence]
  /\ unlisted = [k \in Kids |-> Never]

-----------------------------------------------------------------------------
Step(r, from, to) == pc[r] = from /\ pc' = [pc EXCEPT ![r] = to]

\* The call is over, and its local variables are gone.
Ends(r, from, result) ==
  /\ Step(r, from, result)
  /\ kid' = [kid EXCEPT ![r] = AnyKid]
  /\ now' = [now EXCEPT ![r] = 0]
  /\ mine' = [mine EXCEPT ![r] = NoAttempt]
  /\ response' = [response EXCEPT ![r] = Silence]

ReadsClock(r) == now' = [now EXCEPT ![r] = clock]

\* The negative cache without a key id (there is one entry of it at most),
\* and cut down to what leaves room for one more.
Popped(k) ==
  LET at == CHOOSE i \in DOMAIN negative : negative[i].kid = k IN
  IF \E i \in DOMAIN negative : negative[i].kid = k
  THEN SubSeq(negative, 1, at - 1) \o SubSeq(negative, at + 1, Len(negative))
  ELSE negative

Evicted(s) ==
  IF Len(s) >= NegativeMax THEN SubSeq(s, Len(s) - NegativeMax + 2, Len(s)) ELSE s

ConfirmedAbsent(k, time) ==
  \E i \in DOMAIN negative : negative[i].kid = k /\ time - negative[i].at < NegativeTTL

Recent(time) == lastFetch # Never /\ time - lastFetch < Interval

\* The whole of _cached_jwk_or_fetch_attempt is one locked section; Hit to
\* Claim are its returns, in the order of its tests.
Start(r, k) ==
  /\ Step(r, "new", "deciding")
  /\ kid' = [kid EXCEPT ![r] = k]
  /\ ReadsClock(r)
  /\ UNCHANGED <<clock, cacheVars, mine, response, unlisted>>

Hit(r) ==
  /\ kid[r] \in keys
  /\ Ends(r, "deciding", "key")
  /\ negative' = Popped(kid[r])
  /\ UNCHANGED <<clock, keys, lastFetch, inFlight, lastError, attempts, unlisted>>

Missed(r) == kid[r] \notin keys /\ ~ ConfirmedAbsent(kid[r], now[r])

KnownAbsent(r) ==
  /\ kid[r] \notin keys /\ ConfirmedAbsent(kid[r], now[r])
  /\ Ends(r, "deciding", "unknown")
  /\ UNCHANGED <<clock, cacheVars, unlisted>>

Ride(r) ==
  /\ Missed(r) /\ Recent(now[r])
  /\ inFlight # NoAttempt
  /\ Step(r, "deciding", "riding")
  /\ ReadsClock(r)
  /\ mine' = [mine EXCEPT ![r] = inFlight]
  /\ UNCHANGED <<clock, cacheVars, kid, response, unlisted>>

Outage(r) ==
  /\ Missed(r) /\ Recent(now[r])
  /\ inFlight = NoAttempt /\ lastError
  /\ Ends(r, "deciding", "unavailable")
  /\ UNCHANGED <<clock, cacheVars, unlisted>>

Suppressed(r) ==
  /\ Missed(r) /\ Recent(now[r])
  /\ inFlight = NoAttempt /\ ~ lastError
  /\ Ends(r, "deciding", "unknown")
  /\ UNCHANGED <<clock, cacheVars, unlisted>>

Claimed(r) ==
  /\ Step(r, "deciding", "fetching")
  /\ attempts' = Append(attempts, [at |-> now[r], status |-> "open"])
  /\ inFlight' = Len(attempts) + 1
  /\ mine' = [mine EXCEPT ![r] = Len(attempts) + 1]
  /\ UNCHANGED <<clock, keys, negative, lastError, kid, now, response, unlisted>>

\* Mutant: the slot is claimed by a fetch that has succeeded, not by the attempt.
ClaimLater(r) ==
  /\ Missed(r) /\ ~ Recent(now[r])
  /\ Claimed(r)
  /\ UNCHANGED lastFetch

Claim(r) ==
  /\ Missed(r) /\ ~ Recent(now[r])
  /\ Claimed(r)
  /\ lastFetch' = now[r]

Decide(r) ==
  Hit(r) \/ KnownAbsent(r) \/ Ride(r) \/ Outage(r) \/ Suppressed(r) \/ Claim(r)

-----------------------------------------------------------------------------
\* The fetch, off the lock: the tenant, which rotates its keys when it likes,
\* answers with what it lists then; or the request fails (no connection, a
\* timeout, a status, a body that is not a key set).
Respond(r) ==
  /\ Step(r, "fetching", "swapping")
  /\ \E listed \in SUBSET Kids :
       response' = [response EXCEPT ![r] = [keys |-> listed, at |-> clock]]
  /\ UNCHANGED <<clock, cacheVars, kid, now, mine, unlisted>>

FetchFails(r) ==
  /\ Step(r, "fetching", "failing")
  /\ UNCHANGED <<clock, cacheVars, kid, now, mine, response, unlisted>>

Swap(r) ==
  /\ Step(r, "swapping", "releasing")
  /\ keys' = response[r].keys
  /\ unlisted' = [k \in Kids |-> IF k \in response[r].keys THEN unlisted[k] ELSE response[r].at]
  /\ UNCHANGED <<clock, negative, lastFetch, inFlight, lastError, attempts>>
  /\ UNCHANGED <<kid, now, mine, response>>

\* The finally of _run_fetch: the marker is cleared under the lock, then the
\* attempt's event is set.
Finish(r, status) ==
  /\ lastError' = (status = "failed")
  /\ inFlight' = NoAttempt
  /\ attempts' = [attempts EXCEPT ![mine[r]] =
        [at |-> attempts[mine[r]].at, status |-> status]]

\* What the fetch found is looked up next, with a new clock reading.
Release(r) ==
  /\ Step(r, "releasing", "confirming")
  /\ Finish(r, "ok")
  /\ ReadsClock(r)
  /\ UNCHANGED <<clock, keys, negative, lastFetch, kid, mine, response, unlisted>>

\* Mutant: no finally, so a fetch that raises leaves its marker and its riders.
RaiseAtOnce(r) ==
  /\ Ends(r, "failing", "unavailable")
  /\ UNCHANGED <<clock, cacheVars, unlisted>>

\* Mutant: a failed fetch gives its slot back.
ReleaseFailedSlot(r) ==
  /\ Ends(r, "failing", "unavailable")
  /\ Finish(r, "failed")
  /\ lastFetch' = Never
  /\ UNCHANGED <<clock, keys, negative, unlisted>>

\* The fault goes on to the caller, which reports it as the tenant's.
ReleaseFailed(r) ==
  /\ Ends(r, "failing", "unavailable")
  /\ Finish(r, "failed")
  /\ UNCHANGED <<clock, keys, negative, lastFetch, unlisted>>

Done(i) == attempts[i].status # "open"

\* Mutant: a rider looks its key up whatever became of the fetch.
WakeRegardless(r) ==
  /\ Step(r, "riding", "confirming")
  /\ Done(mine[r])
  /\ ReadsClock(r)
  /\ UNCHANGED <<clock, cacheVars, kid, mine, response, unlisted>>

Wake(r) ==
  /\ Step(r, "riding", "confirming")
  /\ attempts[mine[r]].status = "ok"
  /\ ReadsClock(r)
  /\ UNCHANGED <<clock, cacheVars, kid, mine, response, unlisted>>

WakeToFailure(r) ==
  /\ Ends(r, "riding", "unavailable")
  /\ attempts[mine[r]].status = "failed"
  /\ UNCHANGED <<clock, cacheVars, unlisted>>

GiveUp(r) ==
  /\ Ends(r, "riding", "unavailable")
  /\ ~ Done(mine[r])
  /\ clock - now[r] >= FetchWait
  /\ UNCHANGED <<clock, cacheVars, unlisted>>

\* _jwk_after_fetch: the key, or its absence goes on record.
Found(r) ==
  /\ kid[r] \in keys
  /\ Ends(r, "confirming", "key")
  /\ negative' = Popped(kid[r])
  /\ UNCHANGED <<clock, keys, lastFetch, inFlight, lastError, attempts, unlisted>>

RecordAbsence(r) ==
  /\ kid[r] \notin keys
  /\ Ends(r, "confirming", "unknown")
  /\ negative' = Append(Evicted(Popped(kid[r])), [kid |-> kid[r], at |-> now[r]])
  /\ UNCHANGED <<clock, keys, lastFetch, inFlight, lastError, attempts, unlisted>>

Resolve(r) ==
  \/ Decide(r)
  \/ Respond(r) \/ FetchFails(r) \/ Swap(r) \/ Release(r) \/ ReleaseFailed(r)
  \/ Wake(r) \/ WakeToFailure(r) \/ GiveUp(r)
  \/ Found(r) \/ RecordAbsence(r)

-----------------------------------------------------------------------------
\* Time passes, but no faster than the bounds allow: the running fetch, a
\* rider whose fetch is over and a thread on its way to the lock come first.
Tick ==
  /\ clock < Horizon
  /\ \A r \in Requests :
       /\ pc[r] \in {"fetching", "swapping", "releasing", "failing"} =>
            clock - attempts[mine[r]].at < FetchTime
       /\ pc[r] = "riding" /\ Done(mine[r]) =>
            clock - attempts[mine[r]].at < FetchTime + Delay
       /\ pc[r] \in {"deciding", "confirming"} => clock - now[r] < Delay
  /\ clock' = clock + 1
  /\ UNCHANGED <<cacheVars, requestVars, unlisted>>

Next ==
  \/ \E r \in Requests, k \in Kids : Start(r, k)
  \/ \E r \in Requests : Resolve(r)
  \/ Tick

Spec == Init /\ [][Next]_vars

-----------------------------------------------------------------------------
Fetching(r) == pc[r] \in {"fetching", "swapping", "releasing", "failing"}

\* At most one thread is at the tenant's endpoint, and while one is, the
\* marker names its attempt, so that later callers can ride it: the finally
\* of one fetch never clears the marker of another.
SingleFlight ==
  /\ \A r, q \in Requests : Fetching(r) /\ Fetching(q) => r = q
  /\ \A r \in Requests : Fetching(r) => inFlight = mine[r]
  /\ inFlight # NoAttempt => \E r \in Requests : Fetching(r)

\* At most one fetch per interval, whatever the key ids, whoever asks and
\* however the fetches end; readings of the clock may be old when used.
FetchesAreSpaced ==
  \A i, j \in DOMAIN attempts : i < j => attempts[j].at - attempts[i].at >= Interval

\* Both: one fetch at a time, and one per interval.
FetchesAreFew == SingleFlight /\ FetchesAreSpaced

\* A caller is told that its key is unknown only if the tenant itself, in a
\* fetch that succeeded, did not list it, and not longer ago than the
\* negative entry and the delays around it last.  An outage is never
\* reported as a bad key, and a key that was rotated in is refused for a
\* bounded time only.
VerdictIsFresh ==
  [][\A r \in Requests : pc[r] # "unknown" /\ pc'[r] = "unknown" =>
       /\ unlisted[kid[r]] # Never
       /\ clock - unlisted[kid[r]] < NegativeTTL + FetchTime + 2 * Delay]_vars

\* A rider is not parked longer than the fetch it rides can take; a fetch
\* that raises releases it like one that succeeds.
RidersAreReleased ==
  \A r \in Requests : pc[r] = "riding" => clock - now[r] <= FetchTime + Delay
=============================================================================
