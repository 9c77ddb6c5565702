--------------------------- MODULE JwksCacheProofs --------------------------
(***************************************************************************)
(* Proofs about JwksCache, for any requests, key ids and bounds: while a   *)
(* fetch is over before the next is due, there is one fetch at a time and  *)
(* one per interval, riders are released, and a key is called unknown only *)
(* when the tenant has said so recently.                                   *)
(***************************************************************************)
EXTENDS JwksCache, TLAPS, SequenceTheorems

\* The slot is the newest claim, and no claim is younger than the clock.
Claims ==
  /\ attempts = <<>> <=> lastFetch = Never
  /\ lastFetch <= clock
  /\ \A i \in DOMAIN attempts :
       /\ i = Len(attempts) => attempts[i].at = lastFetch
       /\ attempts[i].at <= lastFetch
  /\ FetchesAreSpaced

\* The thread that fetches performs the newest attempt, in time; any other
\* attempt is over, and lastError is the newest one's.
Fetches ==
  /\ SingleFlight
  /\ \A r \in Requests : Fetching(r) =>
       /\ mine[r] = Len(attempts) /\ attempts # <<>>
       /\ clock - lastFetch <= FetchTime
  /\ \A i \in DOMAIN attempts : attempts[i].status = "open" <=> i = inFlight
  /\ inFlight = NoAttempt /\ attempts # <<>> =>
       attempts[Len(attempts)].status = (IF lastError THEN "failed" ELSE "ok")

\* Clock readings that are about to be used are not old.
Readings ==
  \A r \in Requests :
    /\ now[r] <= clock
    /\ pc[r] \in {"deciding", "confirming"} => clock - now[r] <= Delay
    /\ pc[r] = "riding" =>
         /\ mine[r] \in DOMAIN attempts
         /\ attempts[mine[r]].at <= now[r]
         /\ clock - attempts[mine[r]].at <= FetchTime + Delay

\* Lists of keys are read during their own fetch, and a key that is not
\* cached was missing from a list at least as new as any finished fetch.
Lists ==
  /\ \A k \in Kids :
       /\ attempts = <<>> => unlisted[k] = Never
       /\ unlisted[k] <= lastFetch + FetchTime
  /\ \A r \in Requests :
       /\ pc[r] \in {"fetching", "swapping"} => \A k \in Kids : unlisted[k] <= lastFetch
       /\ pc[r] = "swapping" => lastFetch <= response[r].at /\ response[r].at <= clock
       /\ pc[r] = "releasing" => \A k \in Kids \ keys : lastFetch <= unlisted[k]
       /\ pc[r] = "confirming" => \A k \in Kids \ keys :
            unlisted[k] # Never /\ now[r] - unlisted[k] <= FetchTime + Delay
  /\ \A i \in DOMAIN attempts, k \in Kids \ keys :
       attempts[i].status = "ok" => attempts[i].at <= unlisted[k]

Justified(s, seen) ==
  \A i \in DOMAIN s : seen[s[i].kid] # Never /\ s[i].at - seen[s[i].kid] <= FetchTime + Delay

JwksInv == TypeOK /\ Claims /\ Fetches /\ Readings /\ Lists /\ Justified(negative, unlisted)
-----------------------------------------------------------------------------
(* The negative cache as a sequence.                                        *)

LEMMA PartsAreJustified ==
  ASSUME NEW s, NEW t, NEW seen, Justified(s, seen),
         \A i \in DOMAIN t : \E j \in DOMAIN s : t[i] = s[j]
  PROVE  Justified(t, seen)
BY Zenon DEF Justified

LEMMA PoppedIsPart ==
  ASSUME TypeOK, Justified(negative, unlisted), NEW k \in Kids
  PROVE  /\ Popped(k) \in Seq(Entry) /\ Len(Popped(k)) <= NegativeMax
         /\ Justified(Popped(k), unlisted)
<1> DEFINE n == Len(negative)
           at == CHOOSE i \in DOMAIN negative : negative[i].kid = k
           s1 == SubSeq(negative, 1, at - 1)
           s2 == SubSeq(negative, at + 1, n)
<1>1. /\ n \in Nat /\ DOMAIN negative = 1 .. n /\ n <= NegativeMax
      /\ \A i \in 1 .. n : negative[i] \in Entry
  BY LenProperties, ElementOfSeq DEF TypeOK
<1>2. CASE ~ \E i \in DOMAIN negative : negative[i].kid = k
  BY <1>2 DEF Popped, TypeOK
<1>3. CASE \E i \in DOMAIN negative : negative[i].kid = k
  <2>1. at \in 1 .. n
    BY <1>1, <1>3
  <2> HIDE DEF at
  <2>2. /\ s1 \in Seq(Entry) /\ Len(s1) = at - 1
        /\ \A i \in 1 .. at - 1 : s1[i] = negative[i]
    <3>1. \A i \in 1 .. at - 1 : negative[i] \in Entry
      BY <1>1, <2>1
    <3>2. /\ s1 \in Seq(Entry)
          /\ Len(s1) = IF 1 <= at - 1 THEN (at - 1) - 1 + 1 ELSE 0
          /\ \A i \in 1 .. (at - 1) - 1 + 1 : s1[i] = negative[1 + i - 1]
      BY <2>1, <3>1, SubSeqProperties, Z3
    <3>3. QED
      BY <2>1, <3>2
  <2>3. /\ s2 \in Seq(Entry) /\ Len(s2) = n - at
        /\ \A i \in 1 .. n - at : s2[i] = negative[at + i]
    <3>1. \A i \in at + 1 .. n : negative[i] \in Entry
      BY <1>1, <2>1
    <3>2. /\ s2 \in Seq(Entry)
          /\ Len(s2) = IF at + 1 <= n THEN n - (at + 1) + 1 ELSE 0
          /\ \A i \in 1 .. n - (at + 1) + 1 : s2[i] = negative[(at + 1) + i - 1]
      BY <1>1, <2>1, <3>1, SubSeqProperties, Z3
    <3>3. QED
      BY <1>1, <2>1, <3>2
  <2>4. Popped(k) = s1 \o s2
    BY <1>3 DEF Popped, at
  <2>5. /\ s1 \o s2 \in Seq(Entry) /\ Len(s1 \o s2) = n - 1
        /\ \A i \in 1 .. n - 1 : \E j \in 1 .. n : (s1 \o s2)[i] = negative[j]
    <3>1. /\ s1 \o s2 \in Seq(Entry) /\ Len(s1 \o s2) = Len(s1) + Len(s2)
          /\ \A i \in 1 .. Len(s1) + Len(s2) : (s1 \o s2)[i] =
                 IF i <= Len(s1) THEN s1[i] ELSE s2[i - Len(s1)]
      BY <2>2, <2>3, ConcatProperties
    <3> HIDE DEF s1, s2
    <3>2. ASSUME NEW i \in 1 .. n - 1
          PROVE  \E j \in 1 .. n : (s1 \o s2)[i] = negative[j]
      <4>1. CASE i <= at - 1
        <5>1. (s1 \o s2)[i] = negative[i]
          BY <1>1, <2>1, <2>2, <2>3, <3>1, <4>1
        <5>2. QED
          BY <1>1, <5>1
      <4>2. CASE i > at - 1
        <5>1. (s1 \o s2)[i] = s2[i - (at - 1)] /\ i - (at - 1) \in 1 .. n - at
          BY <1>1, <2>1, <2>2, <2>3, <3>1, <4>2
        <5>2. (s1 \o s2)[i] = negative[at + (i - (at - 1))]
          BY <2>3, <5>1
        <5>3. at + (i - (at - 1)) \in 1 .. n
          BY <1>1, <2>1
        <5>4. QED
          BY <5>2, <5>3, Zenon
      <4>3. i <= at - 1 \/ i > at - 1
        BY <1>1, <2>1
      <4>4. QED
        BY <4>1, <4>2, <4>3, Zenon
    <3>3. Len(s1) + Len(s2) = n - 1
      BY <1>1, <2>1, <2>2, <2>3
    <3>4. QED
      BY <3>1, <3>2, <3>3, Zenon
  <2> HIDE DEF s1, s2
  <2>6. DOMAIN (s1 \o s2) = 1 .. n - 1
    BY <2>5, LenProperties
  <2>7. Justified(Popped(k), unlisted)
    BY <1>1, <2>4, <2>5, <2>6, PartsAreJustified, Zenon
  <2>8. n - 1 <= NegativeMax
    BY <1>1, JwksAssumption DEF JwksAssumption
  <2>9. QED
    BY <2>4, <2>5, <2>7, <2>8, Zenon
<1>4. QED
  BY <1>2, <1>3

LEMMA EvictedLeavesRoom ==
  ASSUME NEW s \in Seq(Entry), Len(s) <= NegativeMax, NEW seen, Justified(s, seen)
  PROVE  /\ Evicted(s) \in Seq(Entry) /\ Len(Evicted(s)) < NegativeMax
         /\ Justified(Evicted(s), seen)
<1> DEFINE n == Len(s)
           m == n - NegativeMax + 2
<1>1. n \in Nat /\ DOMAIN s = 1 .. n /\ (\A i \in 1 .. n : s[i] \in Entry)
  BY LenProperties, ElementOfSeq
<1> HIDE DEF n
<1>0. n <= NegativeMax
  BY DEF n
<1>2. NegativeMax \in Nat \ {0}
  BY JwksAssumption DEF JwksAssumption
<1>3. CASE n < NegativeMax
  BY <1>1, <1>2, <1>3 DEF Evicted, n
<1>4. CASE n = NegativeMax
  <2>1. Evicted(s) = SubSeq(s, m, n) /\ m = 2
    BY <1>1, <1>2, <1>4 DEF Evicted, n
  <2>2. \A i \in m .. n : s[i] \in Entry
    BY <1>1, <2>1
  <2>3. /\ SubSeq(s, m, n) \in Seq(Entry)
        /\ Len(SubSeq(s, m, n)) = IF m <= n THEN n - m + 1 ELSE 0
        /\ \A i \in 1 .. n - m + 1 : SubSeq(s, m, n)[i] = s[m + i - 1]
    BY <1>1, <1>2, <2>1, <2>2, SubSeqProperties
  <2>4. /\ Evicted(s) \in Seq(Entry) /\ Len(Evicted(s)) = n - 1
        /\ \A i \in 1 .. n - 1 : Evicted(s)[i] = s[i + 1]
    <3> HIDE DEF m
    <3>1. n - m + 1 = n - 1 /\ (m <= n <=> n >= 2)
      BY <1>1, <2>1
    <3>2. \A i \in 1 .. n - 1 : Evicted(s)[i] = s[i + 1]
      <4> TAKE i \in 1 .. n - 1
      <4>1. m + i - 1 = i + 1
        BY <1>1, <2>1
      <4>2. QED
        BY <2>1, <2>3, <3>1, <4>1
    <3>3. QED
      BY <1>1, <1>2, <1>4, <2>1, <2>3, <3>1, <3>2
  <2>5. DOMAIN Evicted(s) = 1 .. n - 1 /\ \A i \in 1 .. n - 1 : i + 1 \in DOMAIN s
    BY <1>1, <2>4, LenProperties
  <2>6. Justified(Evicted(s), seen)
    BY <2>4, <2>5, PartsAreJustified, Zenon
  <2>7. n - 1 < NegativeMax
    BY <1>1, <1>2, <1>4
  <2>8. QED
    BY <2>4, <2>6, <2>7, Zenon
<1>5. n < NegativeMax \/ n = NegativeMax
  BY <1>0, <1>1, <1>2
<1>6. QED
  BY <1>3, <1>4, <1>5, Zenon

-----------------------------------------------------------------------------
(* Steps that leave the attempts alone.                                     *)

LEMMA Bounds ==
  ASSUME JwksInv
  PROVE  /\ clock \in Nat /\ lastFetch \in Int /\ lastFetch >= -1
         /\ Interval \in Nat /\ FetchTime \in Nat /\ Delay \in Nat /\ NegativeTTL \in Nat
         /\ Delay <= FetchTime /\ FetchTime < Interval /\ Interval <= NegativeTTL
         /\ AnyKid \in Kids
         /\ Len(attempts) \in Nat /\ DOMAIN attempts = 1 .. Len(attempts)
         /\ (attempts = <<>> <=> Len(attempts) = 0)
         /\ \A i \in DOMAIN attempts : attempts[i] \in Attempt
         /\ \A k \in Kids : unlisted[k] \in Int /\ unlisted[k] >= -1
         /\ \A r \in Requests : now[r] \in Nat /\ mine[r] \in Nat /\ kid[r] \in Kids
<1>1. attempts \in Seq(Attempt)
  BY DEF JwksInv, TypeOK
<1>2. /\ Len(attempts) \in Nat /\ DOMAIN attempts = 1 .. Len(attempts)
      /\ \A i \in DOMAIN attempts : attempts[i] \in Attempt
      /\ (attempts = <<>> <=> Len(attempts) = 0)
  BY <1>1, LenProperties, ElementOfSeq, EmptySeq
<1>3. AnyKid \in Kids
  BY JwksAssumption DEF JwksAssumption, AnyKid
<1>4. \A k \in Kids : unlisted[k] \in Int /\ unlisted[k] >= -1
  BY DEF JwksInv, TypeOK, Never
<1>5. QED
  BY <1>2, <1>3, <1>4, JwksAssumption DEF JwksAssumption, JwksInv, TypeOK, Never

\* A call that ends, with whatever it makes of the negative cache.
LEMMA Ending ==
  ASSUME JwksInv, NEW r \in Requests,
         NEW from \in {"deciding", "riding", "confirming"}, NEW result \in Result,
         Ends(r, from, result),
         UNCHANGED <<clock, keys, lastFetch, inFlight, lastError, attempts, unlisted>>,
         negative' \in Seq(Entry), Len(negative') <= NegativeMax,
         Justified(negative', unlisted)
  PROVE  JwksInv'
<1>1. /\ pc[r] = from /\ pc' = [pc EXCEPT ![r] = result]
      /\ kid' = [kid EXCEPT ![r] = AnyKid]
      /\ now' = [now EXCEPT ![r] = 0]
      /\ mine' = [mine EXCEPT ![r] = NoAttempt]
      /\ response' = [response EXCEPT ![r] = Silence]
  BY DEF Ends, Step
<1>2. /\ pc'[r] = result /\ now'[r] = 0
      /\ \A q \in Requests \ {r} : /\ pc'[q] = pc[q] /\ now'[q] = now[q]
                                   /\ mine'[q] = mine[q] /\ response'[q] = response[q]
  BY <1>1 DEF JwksInv, TypeOK
<1>3. \A q \in Requests : (Fetching(q))' <=> Fetching(q)
  BY <1>1, <1>2 DEF Fetching, Result
<1>4. TypeOK'
  <2>1. Silence \in Response /\ AnyKid \in Kids /\ NoAttempt \in Nat
    BY Bounds DEF Silence, Response, NoAttempt
  <2>2. /\ pc' \in [Requests -> Place \union Result] /\ kid' \in [Requests -> Kids]
        /\ now' \in [Requests -> Nat] /\ mine' \in [Requests -> Nat]
        /\ response' \in [Requests -> Response]
    BY <1>1, <2>1 DEF JwksInv, TypeOK
  <2>3. \A q \in Requests : mine'[q] <= Len(attempts)
    BY <1>1, Bounds DEF JwksInv, TypeOK, NoAttempt
  <2>4. QED
    BY <2>2, <2>3 DEF JwksInv, TypeOK
<1>5. Claims'
  BY DEF JwksInv, Claims, FetchesAreSpaced
<1>6. Fetches'
  <2>1. \A q \in Requests : Fetching(q) => (Fetching(q))' /\ mine'[q] = mine[q]
    BY <1>1, <1>2, <1>3 DEF Fetching
  <2>2. SingleFlight'
    BY <1>3, <2>1 DEF JwksInv, Fetches, SingleFlight
  <2>3. \A q \in Requests : (Fetching(q))' =>
          (mine[q] = Len(attempts) /\ attempts # <<>> /\ clock - lastFetch <= FetchTime)'
    BY <1>3, <2>1 DEF JwksInv, Fetches
  <2>4. QED
    BY <2>2, <2>3 DEF JwksInv, Fetches
<1>7. Readings'
  <2>1. pc'[r] \notin {"deciding", "confirming", "riding"} /\ now'[r] = 0
    BY <1>2 DEF Result
  <2>2. QED
    BY <1>2, <2>1, Bounds DEF JwksInv, Readings
<1>8. Lists'
  <2>1. pc'[r] \notin {"fetching", "swapping", "releasing", "confirming"}
    BY <1>2 DEF Result
  <2>2. \A q \in Requests :
          /\ pc'[q] \in {"fetching", "swapping"} => \A k \in Kids : unlisted[k] <= lastFetch
          /\ pc'[q] = "swapping" => lastFetch <= response'[q].at /\ response'[q].at <= clock
          /\ pc'[q] = "releasing" => \A k \in Kids \ keys : lastFetch <= unlisted[k]
          /\ pc'[q] = "confirming" => \A k \in Kids \ keys :
               unlisted[k] # Never /\ now'[q] - unlisted[k] <= FetchTime + Delay
    BY <1>2, <2>1 DEF JwksInv, Lists
  <2>3. QED
    BY <2>2 DEF JwksInv, Lists
<1>9. QED
  BY <1>4, <1>5, <1>6, <1>7, <1>8 DEF JwksInv

LEMMA EndingQuietly ==
  ASSUME JwksInv, NEW r \in Requests,
         NEW from \in {"deciding", "riding", "confirming"}, NEW result \in Result,
         Ends(r, from, result), UNCHANGED <<clock, cacheVars, unlisted>>
  PROVE  JwksInv'
<1>1. /\ UNCHANGED <<clock, keys, lastFetch, inFlight, lastError, attempts, unlisted>>
      /\ negative' = negative
  BY DEF cacheVars
<1>2. /\ negative' \in Seq(Entry) /\ Len(negative') <= NegativeMax
      /\ Justified(negative', unlisted)
  BY <1>1 DEF JwksInv, TypeOK
<1>3. QED
  BY <1>1, <1>2, Ending

LEMMA HitOrFound ==
  ASSUME JwksInv, NEW r \in Requests, Hit(r) \/ Found(r)
  PROVE  JwksInv'
<1>1. kid[r] \in Kids
  BY Bounds
<1>2. /\ Popped(kid[r]) \in Seq(Entry) /\ Len(Popped(kid[r])) <= NegativeMax
      /\ Justified(Popped(kid[r]), unlisted)
  BY <1>1, PoppedIsPart DEF JwksInv
<1>3. "key" \in Result
  BY DEF Result
<1>4. CASE Hit(r)
  BY <1>2, <1>3, <1>4, Ending DEF Hit
<1>5. CASE Found(r)
  BY <1>2, <1>3, <1>5, Ending DEF Found
<1>6. QED
  BY <1>4, <1>5

LEMMA RecordAbsenceStep ==
  ASSUME JwksInv, NEW r \in Requests, RecordAbsence(r)
  PROVE  JwksInv'
<1> DEFINE e == [kid |-> kid[r], at |-> now[r]]
           s == Evicted(Popped(kid[r]))
<1>1. kid[r] \in Kids /\ now[r] \in Nat /\ pc[r] = "confirming" /\ kid[r] \notin keys
  BY Bounds DEF RecordAbsence, Ends, Step
<1>2. s \in Seq(Entry) /\ Len(s) < NegativeMax /\ Justified(s, unlisted)
  BY <1>1, PoppedIsPart, EvictedLeavesRoom DEF JwksInv
<1>3. e \in Entry /\ e.kid = kid[r] /\ e.at = now[r]
  BY <1>1 DEF Entry
<1>4. unlisted[kid[r]] # Never /\ now[r] - unlisted[kid[r]] <= FetchTime + Delay
  BY <1>1 DEF JwksInv, Lists
<1> HIDE DEF s, e
<1>5. /\ Append(s, e) \in Seq(Entry) /\ Len(Append(s, e)) = Len(s) + 1
      /\ \A i \in 1 .. Len(s) : Append(s, e)[i] = s[i]
      /\ Append(s, e)[Len(s) + 1] = e
      /\ DOMAIN Append(s, e) = 1 .. Len(s) + 1 /\ DOMAIN s = 1 .. Len(s) /\ Len(s) \in Nat
  BY <1>2, <1>3, AppendProperties, LenProperties
<1>6. Justified(Append(s, e), unlisted)
  <2>1. ASSUME NEW i \in 1 .. Len(s) + 1
        PROVE  /\ unlisted[Append(s, e)[i].kid] # Never
               /\ Append(s, e)[i].at - unlisted[Append(s, e)[i].kid] <= FetchTime + Delay
    <3>1. CASE i \in 1 .. Len(s)
      BY <1>2, <1>5, <3>1 DEF Justified
    <3>2. CASE i = Len(s) + 1
      BY <1>3, <1>4, <1>5, <3>2
    <3>3. QED
      BY <1>5, <3>1, <3>2
  <2>2. QED
    BY <1>5, <2>1 DEF Justified
<1>7. Len(Append(s, e)) <= NegativeMax
  BY <1>2, <1>5, JwksAssumption DEF JwksAssumption
<1>8. negative' = Append(s, e) /\ "unknown" \in Result
  BY DEF RecordAbsence, s, e, Result
<1>9. QED
  BY <1>5, <1>6, <1>7, <1>8, Ending DEF RecordAbsence

\* What every step of one request leaves of the others.
LEMMA Aged ==
  ASSUME NEW c \in Int, NEW a \in Int, NEW u \in Int, NEW d \in Int, a <= u, c - a <= d
  PROVE  c - u <= d
OBVIOUS

LEMMA NatIsNotNever ==
  ASSUME NEW a \in Nat, NEW u \in Int, a <= u
  PROVE  u # Never
BY DEF Never

Others(r) ==
  \A q \in Requests \ {r} :
    pc'[q] = pc[q] /\ now'[q] = now[q] /\ mine'[q] = mine[q] /\ response'[q] = response[q]

LEMMA StartStep ==
  ASSUME JwksInv, NEW r \in Requests, NEW k \in Kids, Start(r, k)
  PROVE  JwksInv'
<1>1. /\ pc[r] = "new" /\ pc'[r] = "deciding" /\ now'[r] = clock /\ Others(r)
      /\ mine' = mine /\ response' = response
      /\ UNCHANGED <<clock, keys, negative, lastFetch, inFlight, lastError, attempts, unlisted>>
  BY DEF Start, Step, ReadsClock, JwksInv, TypeOK, cacheVars, Others
<1>2. TypeOK'
  BY Bounds DEF Start, Step, ReadsClock, JwksInv, TypeOK, cacheVars, Place
<1>3. Claims'
  BY <1>1 DEF JwksInv, Claims, FetchesAreSpaced
<1>4. \A q \in Requests : (Fetching(q))' <=> Fetching(q)
  BY <1>1 DEF Fetching, Others
<1>5. Fetches'
  BY <1>1, <1>4 DEF JwksInv, Fetches, SingleFlight
<1>6. Readings'
  BY <1>1, Bounds DEF JwksInv, Readings, Others
<1>7. Lists'
  BY <1>1 DEF JwksInv, Lists, Others
<1>8. QED
  BY <1>1, <1>2, <1>3, <1>5, <1>6, <1>7 DEF JwksInv

LEMMA RideStep ==
  ASSUME JwksInv, NEW r \in Requests, Ride(r)
  PROVE  JwksInv'
<1>1. /\ pc[r] = "deciding" /\ pc'[r] = "riding" /\ now'[r] = clock /\ Others(r)
      /\ inFlight # NoAttempt /\ mine'[r] = inFlight /\ response' = response
      /\ \A q \in Requests \ {r} : mine'[q] = mine[q]
      /\ UNCHANGED <<clock, keys, negative, lastFetch, inFlight, lastError, attempts, unlisted>>
  BY DEF Ride, Step, ReadsClock, JwksInv, TypeOK, cacheVars, Others
<1>2. PICK f \in Requests : Fetching(f) /\ mine[f] = inFlight
  BY <1>1 DEF JwksInv, Fetches, SingleFlight
<1>3. /\ inFlight = Len(attempts) /\ inFlight \in DOMAIN attempts
      /\ attempts[inFlight].at = lastFetch /\ lastFetch <= clock /\ clock - lastFetch <= FetchTime
  BY <1>2, Bounds DEF JwksInv, Fetches, Claims
<1>4. TypeOK'
  <2>1. inFlight \in Nat /\ inFlight <= Len(attempts)
    BY <1>3, Bounds
  <2>2. /\ pc' \in [Requests -> Place \union Result]
        /\ now' \in [Requests -> Nat] /\ mine' \in [Requests -> Nat]
    BY <2>1, Bounds DEF Ride, Step, ReadsClock, JwksInv, TypeOK, Place
  <2>3. \A q \in Requests : mine'[q] <= Len(attempts')
    BY <1>1, <2>1 DEF JwksInv, TypeOK
  <2>4. QED
    BY <1>1, <2>2, <2>3 DEF JwksInv, TypeOK, Ride
<1>5. Claims'
  BY <1>1 DEF JwksInv, Claims, FetchesAreSpaced
<1>6. \A q \in Requests : (Fetching(q))' <=> Fetching(q)
  BY <1>1 DEF Fetching, Others
<1>7. \A q \in Requests : Fetching(q) => mine'[q] = mine[q]
  BY <1>1 DEF Fetching
<1>8. Fetches'
  BY <1>1, <1>6, <1>7 DEF JwksInv, Fetches, SingleFlight
<1>9. Readings'
  <2>1. /\ mine'[r] \in DOMAIN attempts /\ now'[r] <= clock
        /\ attempts[mine'[r]].at <= now'[r] /\ clock - attempts[mine'[r]].at <= FetchTime + Delay
    BY <1>1, <1>3, Bounds
  <2>2. QED
    BY <1>1, <2>1 DEF JwksInv, Readings, Others
<1>10. Lists'
  BY <1>1 DEF JwksInv, Lists, Others
<1>11. QED
  BY <1>1, <1>4, <1>5, <1>8, <1>9, <1>10 DEF JwksInv

LEMMA WakeStep ==
  ASSUME JwksInv, NEW r \in Requests, Wake(r)
  PROVE  JwksInv'
<1>1. /\ pc[r] = "riding" /\ pc'[r] = "confirming" /\ now'[r] = clock /\ Others(r)
      /\ mine' = mine /\ response' = response /\ attempts[mine[r]].status = "ok"
      /\ UNCHANGED <<clock, keys, negative, lastFetch, inFlight, lastError, attempts, unlisted>>
  BY DEF Wake, Step, ReadsClock, JwksInv, TypeOK, cacheVars, Others
<1>2. TypeOK'
  BY Bounds DEF Wake, Step, ReadsClock, JwksInv, TypeOK, cacheVars, Place
<1>3. Claims'
  BY <1>1 DEF JwksInv, Claims, FetchesAreSpaced
<1>4. \A q \in Requests : (Fetching(q))' <=> Fetching(q)
  BY <1>1 DEF Fetching, Others
<1>5. Fetches'
  BY <1>1, <1>4 DEF JwksInv, Fetches, SingleFlight
<1>6. Readings'
  <2>1. clock \in Nat /\ Delay \in Nat
    BY Bounds
  <2>2. now'[r] <= clock /\ clock - now'[r] <= Delay
    BY <1>1, <2>1
  <2>3. QED
    BY <1>1, <2>2 DEF JwksInv, Readings, Others
<1>7. Lists'
  <2>1. mine[r] \in DOMAIN attempts /\ clock - attempts[mine[r]].at <= FetchTime + Delay
    BY <1>1 DEF JwksInv, Readings
  <2>2. attempts[mine[r]].at \in Nat
    BY <2>1, Bounds DEF Attempt
  <2>3. \A k \in Kids \ keys : attempts[mine[r]].at <= unlisted[k]
    BY <1>1, <2>1 DEF JwksInv, Lists
  <2>4. ASSUME NEW k \in Kids \ keys
        PROVE  unlisted[k] # Never /\ clock - unlisted[k] <= FetchTime + Delay
    <3>1. clock \in Int /\ FetchTime + Delay \in Int
      BY Bounds
    <3>2. unlisted[k] \in Int /\ attempts[mine[r]].at <= unlisted[k]
      BY <2>3, Bounds
    <3>3. QED
      BY <2>1, <2>2, <3>1, <3>2, Aged, NatIsNotNever
  <2>5. QED
    BY <1>1, <2>4 DEF JwksInv, Lists, Others
<1>8. QED
  BY <1>1, <1>2, <1>3, <1>5, <1>6, <1>7 DEF JwksInv

-----------------------------------------------------------------------------
(* The fetch.                                                               *)

\* Whoever may claim the slot finds no fetch running: the one that claimed it
\* last has been over for some time.
LEMMA FreeSlot ==
  ASSUME JwksInv, NEW r \in Requests, pc[r] = "deciding", ~ Recent(now[r])
  PROVE  /\ \A q \in Requests : ~ Fetching(q)
         /\ inFlight = NoAttempt
         /\ attempts # <<>> => now[r] - lastFetch >= Interval
<1>1. attempts # <<>> => now[r] - lastFetch >= Interval
  BY Bounds DEF JwksInv, Claims, Recent, Never
<1>2. now[r] <= clock
  BY DEF JwksInv, Readings
<1>3. ASSUME NEW q \in Requests, Fetching(q) PROVE FALSE
  <2>1. attempts # <<>> /\ clock - lastFetch <= FetchTime
    BY <1>3 DEF JwksInv, Fetches
  <2>2. QED
    BY <1>1, <1>2, <2>1, Bounds
<1>4. QED
  BY <1>1, <1>3 DEF JwksInv, Fetches, SingleFlight

LEMMA ClaimStep ==
  ASSUME JwksInv, NEW r \in Requests, Claim(r)
  PROVE  JwksInv'
<1> DEFINE n == Len(attempts)
           a == [at |-> now[r], status |-> "open"]
<1>1. /\ pc[r] = "deciding" /\ pc'[r] = "fetching" /\ Others(r)
      /\ now' = now /\ response' = response
      /\ mine'[r] = n + 1 /\ inFlight' = n + 1 /\ lastFetch' = now[r]
      /\ attempts' = Append(attempts, a)
      /\ UNCHANGED <<clock, keys, negative, lastError, unlisted>>
  BY DEF Claim, Claimed, Step, JwksInv, TypeOK, Others
<1>2. /\ \A q \in Requests : ~ Fetching(q)
      /\ attempts # <<>> => now[r] - lastFetch >= Interval
  BY <1>1, FreeSlot DEF Claim
<1>3. now[r] \in Nat /\ now[r] <= clock /\ clock - now[r] <= Delay
  BY <1>1, Bounds DEF JwksInv, Readings
<1>4. a \in Attempt /\ a.at = now[r] /\ a.status = "open" /\ n \in Nat
  BY <1>3, Bounds DEF Attempt
<1> HIDE DEF a
<1>5. /\ attempts' \in Seq(Attempt) /\ attempts' # <<>> /\ Len(attempts') = n + 1
      /\ DOMAIN attempts' = 1 .. n + 1 /\ attempts'[n + 1] = a
      /\ DOMAIN attempts = 1 .. n
      /\ \A i \in 1 .. n : attempts'[i] = attempts[i]
  <2>1. attempts \in Seq(Attempt)
    BY DEF JwksInv, TypeOK
  <2>2. /\ Append(attempts, a) \in Seq(Attempt) /\ Append(attempts, a) # <<>>
        /\ Len(Append(attempts, a)) = n + 1
        /\ \A i \in 1 .. n : Append(attempts, a)[i] = attempts[i]
        /\ Append(attempts, a)[n + 1] = a
    BY <1>4, <2>1, AppendProperties
  <2>3. DOMAIN attempts' = 1 .. n + 1 /\ DOMAIN attempts = 1 .. n
    BY <1>1, <2>1, <2>2, LenProperties
  <2>4. QED
    BY <1>1, <2>2, <2>3
<1> HIDE DEF n
<1>6. TypeOK'
  <2>1. /\ pc' \in [Requests -> Place \union Result] /\ mine' \in [Requests -> Nat]
        /\ kid' = kid
    <3>1. mine' = [mine EXCEPT ![r] = n + 1] /\ n + 1 \in Nat
      BY <1>4 DEF Claim, Claimed, n
    <3>2. pc' = [pc EXCEPT ![r] = "fetching"] /\ kid' = kid
      BY DEF Claim, Claimed, Step
    <3>3. QED
      BY <3>1, <3>2 DEF JwksInv, TypeOK, Place
  <2>2. \A q \in Requests : mine'[q] <= n + 1
    <3>1. \A q \in Requests : mine[q] \in Nat /\ mine[q] <= n
      BY DEF JwksInv, TypeOK, n
    <3>2. QED
      BY <1>1, <1>4, <3>1 DEF Others
  <2>3. lastFetch' \in Nat \union {Never} /\ inFlight' \in 0 .. n + 1
    BY <1>1, <1>3, <1>4
  <2>4. QED
    BY <1>1, <1>5, <2>1, <2>2, <2>3 DEF JwksInv, TypeOK
<1>7. \A i \in 1 .. n : attempts[i].at \in Nat /\ now[r] - attempts[i].at >= Interval
  <2>1. ASSUME NEW i \in 1 .. n
        PROVE  attempts[i].at \in Nat /\ attempts[i].at <= lastFetch /\ attempts # <<>>
    <3>1. i \in DOMAIN attempts /\ attempts[i] \in Attempt
      BY <1>5, Bounds
    <3>2. attempts # <<>>
      BY <3>1, Bounds
    <3>3. QED
      BY <3>1, <3>2 DEF JwksInv, Claims, Attempt
  <2>2. QED
    BY <1>2, <1>3, <2>1, Bounds
<1>8. Claims'
  <2>1. FetchesAreSpaced'
    <3>1. ASSUME NEW i \in 1 .. n + 1, NEW j \in 1 .. n + 1, i < j
          PROVE  attempts'[j].at - attempts'[i].at >= Interval
      <4>1. i \in 1 .. n
        BY <1>4, <3>1
      <4>2. CASE j \in 1 .. n
        BY <1>5, <3>1, <4>1, <4>2 DEF JwksInv, Claims, FetchesAreSpaced
      <4>3. CASE j = n + 1
        BY <1>4, <1>5, <1>7, <4>1, <4>3
      <4>4. QED
        BY <4>2, <4>3, <1>4
    <3>2. QED
      BY <1>5, <3>1 DEF FetchesAreSpaced
  <2>2. \A i \in 1 .. n : attempts'[i].at <= now[r]
    BY <1>3, <1>5, <1>7, Bounds
  <2>3. attempts'[n + 1].at = now[r] /\ now[r] # Never
    BY <1>3, <1>4, <1>5 DEF Never
  <2>4. \A i \in 1 .. n + 1 : attempts'[i].at <= now[r] /\ (i = n + 1 => attempts'[i].at = now[r])
    BY <1>3, <1>4, <2>2, <2>3
  <2>5. QED
    BY <1>1, <1>3, <1>5, <2>1, <2>3, <2>4 DEF Claims
<1>9. \A q \in Requests : (Fetching(q))' <=> q = r
  BY <1>1, <1>2 DEF Fetching, Others
<1>10. Fetches'
  <2>1. \A i \in 1 .. n : attempts'[i].status # "open"
    <3>1. \A i \in 1 .. n : i # inFlight
      BY <1>1, FreeSlot DEF Claim, NoAttempt
    <3>2. QED
      BY <1>5, <3>1 DEF JwksInv, Fetches
  <2>2. \A i \in 1 .. n + 1 : attempts'[i].status = "open" <=> i = n + 1
    BY <1>4, <1>5, <2>1
  <2>3. clock - now[r] <= FetchTime /\ n + 1 # NoAttempt
    BY <1>3, <1>4, Bounds DEF NoAttempt
  <2>4. SingleFlight'
    BY <1>1, <1>9 DEF SingleFlight
  <2>5. \A q \in Requests : (Fetching(q))' =>
          (mine[q] = Len(attempts) /\ attempts # <<>> /\ clock - lastFetch <= FetchTime)'
    BY <1>1, <1>5, <1>9, <2>3
  <2>6. (\A i \in DOMAIN attempts : attempts[i].status = "open" <=> i = inFlight)'
    BY <1>1, <1>5, <2>2
  <2>7. inFlight' # NoAttempt
    BY <1>1, <2>3
  <2>8. QED
    BY <2>4, <2>5, <2>6, <2>7 DEF Fetches
<1>11. Readings'
  <2>1. ASSUME NEW q \in Requests \ {r}, pc[q] = "riding"
        PROVE  mine[q] \in DOMAIN attempts' /\ attempts'[mine[q]] = attempts[mine[q]]
    <3>1. mine[q] \in 1 .. n
      BY <1>5, <2>1 DEF JwksInv, Readings
    <3>2. QED
      BY <1>4, <1>5, <3>1
  <2>2. QED
    BY <1>1, <2>1 DEF JwksInv, Readings, Others
<1>12. Lists'
  <2>1. \A k \in Kids : unlisted[k] <= now[r] /\ unlisted[k] <= now[r] + FetchTime
    <3>1. CASE attempts = <<>>
      <4>1. \A k \in Kids : unlisted[k] = -1
        BY <3>1 DEF JwksInv, Lists, Never
      <4>2. QED
        BY <1>3, <4>1, Bounds
    <3>2. CASE attempts # <<>>
      BY <1>2, <1>3, <3>2, Bounds DEF JwksInv, Lists
    <3>3. QED
      BY <3>1, <3>2
  <2>2. \A q \in Requests \ {r} : pc'[q] \notin {"fetching", "swapping", "releasing"}
    BY <1>1, <1>2 DEF Fetching, Others
  <2>3. \A i \in DOMAIN attempts', k \in Kids \ keys :
          attempts'[i].status = "ok" => attempts'[i].at <= unlisted[k]
    <3>1. ASSUME NEW i \in 1 .. n + 1, attempts'[i].status = "ok"
          PROVE  i \in 1 .. n /\ attempts'[i] = attempts[i]
      BY <1>4, <1>5, <3>1
    <3>2. QED
      BY <1>5, <3>1 DEF JwksInv, Lists
  <2>4. QED
    BY <1>1, <2>1, <2>2, <2>3 DEF JwksInv, Lists, Others
<1>13. QED
  BY <1>1, <1>6, <1>8, <1>10, <1>11, <1>12 DEF JwksInv

\* One thread fetches, and its attempt is the newest.
LEMMA TheFetcher ==
  ASSUME JwksInv, NEW r \in Requests, Fetching(r)
  PROVE  /\ \A q \in Requests : Fetching(q) => q = r
         /\ mine[r] = Len(attempts) /\ inFlight = Len(attempts)
         /\ attempts # <<>> /\ Len(attempts) \in DOMAIN attempts
         /\ attempts[Len(attempts)].at = lastFetch /\ lastFetch \in Nat
         /\ lastFetch <= clock /\ clock - lastFetch <= FetchTime
<1>1. /\ \A q \in Requests : Fetching(q) => q = r
      /\ mine[r] = Len(attempts) /\ inFlight = Len(attempts)
      /\ attempts # <<>> /\ clock - lastFetch <= FetchTime
  BY DEF JwksInv, Fetches, SingleFlight
<1>2. Len(attempts) \in DOMAIN attempts
  BY <1>1, Bounds
<1>3. attempts[Len(attempts)].at = lastFetch /\ attempts[Len(attempts)] \in Attempt
  BY <1>2, Bounds DEF JwksInv, Claims
<1>4. QED
  BY <1>1, <1>2, <1>3 DEF JwksInv, Claims, Attempt

LEMMA RespondStep ==
  ASSUME JwksInv, NEW r \in Requests, Respond(r)
  PROVE  JwksInv'
<1>1. PICK listed \in SUBSET Kids :
        response' = [response EXCEPT ![r] = [keys |-> listed, at |-> clock]]
  BY DEF Respond
<1>2. /\ pc[r] = "fetching" /\ pc'[r] = "swapping" /\ Others(r)
      /\ now' = now /\ mine' = mine /\ kid' = kid /\ response'[r].at = clock
      /\ UNCHANGED <<clock, keys, negative, lastFetch, inFlight, lastError, attempts, unlisted>>
  BY <1>1 DEF Respond, Step, JwksInv, TypeOK, cacheVars, Others
<1>3. lastFetch <= clock
  BY <1>2, TheFetcher DEF Fetching
<1>4. TypeOK'
  <2>1. [keys |-> listed, at |-> clock] \in Response
    BY Bounds DEF Response
  <2>2. response' \in [Requests -> Response]
    BY <1>1, <2>1 DEF JwksInv, TypeOK
  <2>3. pc' \in [Requests -> Place \union Result]
    BY DEF Respond, Step, JwksInv, TypeOK, Place
  <2>4. QED
    BY <1>2, <2>2, <2>3 DEF JwksInv, TypeOK
<1>5. Claims'
  BY <1>2 DEF JwksInv, Claims, FetchesAreSpaced
<1>6. \A q \in Requests : (Fetching(q))' <=> Fetching(q)
  BY <1>2 DEF Fetching, Others
<1>7. Fetches'
  BY <1>2, <1>6 DEF JwksInv, Fetches, SingleFlight
<1>8. Readings'
  BY <1>2 DEF JwksInv, Readings, Others
<1>9. Lists'
  BY <1>2, <1>3, Bounds DEF JwksInv, Lists, Others
<1>10. QED
  BY <1>2, <1>4, <1>5, <1>7, <1>8, <1>9 DEF JwksInv

LEMMA FetchFailsStep ==
  ASSUME JwksInv, NEW r \in Requests, FetchFails(r)
  PROVE  JwksInv'
<1>1. /\ pc[r] = "fetching" /\ pc'[r] = "failing" /\ Others(r)
      /\ now' = now /\ mine' = mine /\ kid' = kid /\ response' = response
      /\ UNCHANGED <<clock, keys, negative, lastFetch, inFlight, lastError, attempts, unlisted>>
  BY DEF FetchFails, Step, JwksInv, TypeOK, cacheVars, Others
<1>2. TypeOK'
  <2>1. pc' \in [Requests -> Place \union Result]
    BY DEF FetchFails, Step, JwksInv, TypeOK, Place
  <2>2. QED
    BY <1>1, <2>1 DEF JwksInv, TypeOK
<1>3. Claims'
  BY <1>1 DEF JwksInv, Claims, FetchesAreSpaced
<1>4. \A q \in Requests : (Fetching(q))' <=> Fetching(q)
  BY <1>1 DEF Fetching, Others
<1>5. Fetches'
  BY <1>1, <1>4 DEF JwksInv, Fetches, SingleFlight
<1>6. Readings'
  BY <1>1 DEF JwksInv, Readings, Others
<1>7. Lists'
  BY <1>1 DEF JwksInv, Lists, Others
<1>8. QED
  BY <1>1, <1>2, <1>3, <1>5, <1>6, <1>7 DEF JwksInv

LEMMA SwapStep ==
  ASSUME JwksInv, NEW r \in Requests, Swap(r)
  PROVE  JwksInv'
<1> DEFINE list == response[r]
<1>1. /\ pc[r] = "swapping" /\ pc'[r] = "releasing" /\ Others(r)
      /\ now' = now /\ mine' = mine /\ kid' = kid /\ response' = response
      /\ keys' = list.keys
      /\ unlisted' = [k \in Kids |-> IF k \in list.keys THEN unlisted[k] ELSE list.at]
      /\ UNCHANGED <<clock, negative, lastFetch, inFlight, lastError, attempts>>
  BY DEF Swap, Step, JwksInv, TypeOK, Others
<1>2. list.keys \in SUBSET Kids /\ list.at \in Nat
  BY DEF JwksInv, TypeOK, Response
<1>3. /\ \A q \in Requests : Fetching(q) => q = r
      /\ attempts # <<>> /\ lastFetch \in Nat
      /\ lastFetch <= list.at /\ list.at <= clock /\ clock - lastFetch <= FetchTime
      /\ \A k \in Kids : unlisted[k] <= lastFetch
  BY <1>1, TheFetcher DEF Fetching, JwksInv, Lists
<1> HIDE DEF list
\* The list that is published is newer than any before it.
<1>4. /\ \A k \in Kids : /\ unlisted'[k] \in Nat \union {Never}
                         /\ unlisted[k] <= unlisted'[k] /\ unlisted'[k] <= clock
      /\ \A k \in Kids \ keys' : unlisted'[k] = list.at
  <2>1. \A k \in Kids : unlisted'[k] = IF k \in list.keys THEN unlisted[k] ELSE list.at
    BY <1>1
  <2>2. \A k \in Kids : unlisted[k] \in Nat \union {Never}
    BY DEF JwksInv, TypeOK
  <2>3. ASSUME NEW k \in Kids
        PROVE  /\ unlisted'[k] \in Nat \union {Never}
               /\ unlisted[k] <= unlisted'[k] /\ unlisted'[k] <= clock
    <3>1. unlisted[k] \in Nat \union {Never} /\ unlisted[k] <= lastFetch
      BY <1>3, <2>2
    <3>2. unlisted'[k] = unlisted[k] \/ unlisted'[k] = list.at
      BY <2>1
    <3>3. QED
      BY <1>2, <1>3, <3>1, <3>2, Bounds DEF Never
  <2>4. QED
    BY <1>1, <2>1, <2>3
<1>5. TypeOK'
  <2>1. unlisted' \in [Kids -> Nat \union {Never}]
    BY <1>1, <1>4
  <2>2. pc' \in [Requests -> Place \union Result]
    BY DEF Swap, Step, JwksInv, TypeOK, Place
  <2>3. QED
    BY <1>1, <1>2, <2>1, <2>2 DEF JwksInv, TypeOK
<1>6. Claims'
  BY <1>1 DEF JwksInv, Claims, FetchesAreSpaced
<1>7. \A q \in Requests : (Fetching(q))' <=> Fetching(q)
  BY <1>1 DEF Fetching, Others
<1>8. Fetches'
  BY <1>1, <1>7 DEF JwksInv, Fetches, SingleFlight
<1>9. Readings'
  BY <1>1 DEF JwksInv, Readings, Others
<1>10. Lists'
  <2>1. \A k \in Kids : unlisted'[k] <= lastFetch + FetchTime
    BY <1>3, <1>4, Bounds DEF Never
  <2>2. \A q \in Requests : pc'[q] \notin {"fetching", "swapping"}
    BY <1>1, <1>3 DEF Fetching, Others
  <2>3. \A k \in Kids \ keys' : lastFetch <= unlisted'[k] /\ unlisted'[k] # Never
    BY <1>2, <1>3, <1>4 DEF Never
  <2>4. ASSUME NEW q \in Requests, pc'[q] = "confirming", NEW k \in Kids \ keys'
        PROVE  unlisted'[k] # Never /\ now'[q] - unlisted'[k] <= FetchTime + Delay
    <3>1. now'[q] \in Nat /\ now'[q] <= clock
      BY <1>1, Bounds DEF JwksInv, Readings
    <3>2. unlisted'[k] = list.at
      BY <1>4
    <3>3. QED
      BY <1>2, <1>3, <2>3, <3>1, <3>2, Bounds
  <2>5. ASSUME NEW i \in DOMAIN attempts', NEW k \in Kids \ keys'
        PROVE  attempts'[i].at <= unlisted'[k]
    <3>1. attempts'[i].at \in Nat /\ attempts'[i].at <= lastFetch
      BY <1>1, Bounds DEF JwksInv, Claims, Attempt
    <3>2. QED
      BY <1>2, <1>3, <1>4, <3>1
  <2>6. QED
    BY <1>1, <1>3, <2>1, <2>2, <2>3, <2>4, <2>5 DEF Lists
<1>11. Justified(negative, unlisted)'
  <2>1. ASSUME NEW i \in DOMAIN negative
        PROVE  /\ unlisted'[negative[i].kid] # Never
               /\ negative[i].at - unlisted'[negative[i].kid] <= FetchTime + Delay
    <3> DEFINE k == negative[i].kid
    <3>1. negative[i] \in Entry
      BY LenProperties, ElementOfSeq DEF JwksInv, TypeOK
    <3>2. negative[i].kid \in Kids /\ negative[i].at \in Nat
      BY <3>1 DEF Entry
    <3>3. /\ unlisted[negative[i].kid] # Never
          /\ negative[i].at - unlisted[negative[i].kid] <= FetchTime + Delay
      BY DEF JwksInv, Justified
    <3>4. unlisted[k] \in Nat
      BY <3>2, <3>3 DEF JwksInv, TypeOK
    <3>5. unlisted'[k] \in Int /\ unlisted[k] <= unlisted'[k]
      <4>1. unlisted'[k] \in Nat \union {Never} /\ unlisted[k] <= unlisted'[k]
        BY <1>4, <3>2
      <4>2. QED
        BY <4>1 DEF Never
    <3> HIDE DEF k
    <3>6. negative[i].at \in Int /\ unlisted[k] \in Int /\ FetchTime + Delay \in Int
      BY <3>2, <3>4, Bounds
    <3>7. negative[i].at - unlisted'[k] <= FetchTime + Delay
      BY <3>3, <3>5, <3>6, Aged DEF k
    <3>8. QED
      BY <3>4, <3>5, <3>7, NatIsNotNever DEF k
  <2>2. QED
    BY <1>1, <2>1 DEF Justified
<1>12. QED
  BY <1>5, <1>6, <1>8, <1>9, <1>10, <1>11 DEF JwksInv

\* What the finally of _run_fetch does to the attempts: the newest is over.
LEMMA FinishAttempts ==
  ASSUME JwksInv, NEW r \in Requests, Fetching(r), NEW status \in {"ok", "failed"},
         Finish(r, status), lastFetch' = lastFetch, clock' = clock
  PROVE  /\ attempts' \in Seq(Attempt) /\ DOMAIN attempts' = DOMAIN attempts
         /\ Len(attempts') = Len(attempts) /\ attempts' # <<>>
         /\ \A i \in DOMAIN attempts :
              /\ attempts'[i].at = attempts[i].at
              /\ i = Len(attempts) => attempts'[i].status = status
              /\ i # Len(attempts) => attempts'[i] = attempts[i] /\ attempts[i].status # "open"
         /\ inFlight' = NoAttempt /\ lastError' = (status = "failed")
         /\ Claims'
<1> DEFINE n == Len(attempts)
           a == [at |-> attempts[n].at, status |-> status]
<1>1. /\ mine[r] = n /\ inFlight = n /\ n \in DOMAIN attempts /\ attempts # <<>>
  BY TheFetcher
<1>2. attempts' = [attempts EXCEPT ![n] = a]
  BY <1>1 DEF Finish
<1>3. attempts \in Seq(Attempt) /\ n \in Nat /\ DOMAIN attempts = 1 .. n
  BY Bounds DEF JwksInv, TypeOK
<1>4. attempts[n].at \in Nat
  BY <1>1, Bounds DEF Attempt
<1>5. a \in Attempt /\ a.at = attempts[n].at /\ a.status = status
  BY <1>4 DEF Attempt
<1> HIDE DEF a, n
<1>6. /\ attempts' \in Seq(Attempt) /\ Len(attempts') = n
      /\ \A i \in 1 .. n : attempts'[i] = IF i = n THEN a ELSE attempts[i]
  <2>1. n \in 1 .. Len(attempts)
    BY <1>1, <1>3 DEF n
  <2>2. QED
    BY <1>1, <1>2, <1>3, <1>5, <2>1, ExceptSeq DEF n
<1>7. DOMAIN attempts' = 1 .. n /\ attempts' # <<>>
  BY <1>1, <1>3, <1>6, LenProperties, EmptySeq
<1>8. \A i \in 1 .. n : attempts'[i].at = attempts[i].at
  BY <1>5, <1>6
<1>9. \A i \in 1 .. n : i # n => attempts[i].status # "open"
  BY <1>1, <1>3 DEF JwksInv, Fetches
<1>10. Claims'
  BY <1>1, <1>3, <1>6, <1>7, <1>8 DEF JwksInv, Claims, FetchesAreSpaced, n
<1>11. QED
  BY <1>1, <1>3, <1>5, <1>6, <1>7, <1>8, <1>9, <1>10 DEF Finish, n

\* The rest of what both endings of a fetch share: nobody fetches any more,
\* and riders find their attempt over.
LEMMA FetchIsOver ==
  ASSUME JwksInv, NEW r \in Requests, Fetching(r), NEW status \in {"ok", "failed"},
         Finish(r, status), UNCHANGED <<clock, keys, negative, lastFetch, unlisted>>,
         \A q \in Requests \ {r} : pc'[q] = pc[q] /\ now'[q] = now[q] /\ mine'[q] = mine[q],
         pc'[r] \in Result \union {"confirming"}, now'[r] = clock \/ now'[r] = 0,
         pc'[r] = "confirming" => now'[r] = clock
  PROVE  Claims' /\ Fetches' /\ Readings'
<1> DEFINE n == Len(attempts)
<1>1. /\ attempts' \in Seq(Attempt) /\ DOMAIN attempts' = DOMAIN attempts
      /\ Len(attempts') = n /\ attempts' # <<>>
      /\ \A i \in DOMAIN attempts :
           /\ attempts'[i].at = attempts[i].at
           /\ i = n => attempts'[i].status = status
           /\ i # n => attempts'[i] = attempts[i] /\ attempts[i].status # "open"
      /\ inFlight' = NoAttempt /\ lastError' = (status = "failed") /\ Claims'
  BY FinishAttempts
<1>2. /\ \A q \in Requests : Fetching(q) => q = r
      /\ n \in DOMAIN attempts
  BY TheFetcher
<1>3. DOMAIN attempts = 1 .. n /\ n \in Nat
  BY Bounds
<1> HIDE DEF n
<1>4. Fetches'
  <2>1. \A q \in Requests : ~ (Fetching(q))'
    <3>1. \A q \in Requests \ {r} : ~ (Fetching(q))'
      BY <1>2 DEF Fetching
    <3>2. ~ (Fetching(r))'
      BY DEF Fetching, Result
    <3>3. QED
      BY <3>1, <3>2
  <2>2. SingleFlight'
    BY <1>1, <2>1 DEF SingleFlight
  <2>3. \A i \in DOMAIN attempts' : attempts'[i].status # "open" /\ i # NoAttempt
    BY <1>1, <1>3 DEF NoAttempt
  <2>4. attempts'[n].status = status /\ status = (IF lastError' THEN "failed" ELSE "ok")
    BY <1>1, <1>2
  <2>5. QED
    BY <1>1, <2>1, <2>2, <2>3, <2>4 DEF Fetches
<1>5. Readings'
  <2>1. pc'[r] \notin {"deciding", "riding"}
    BY DEF Result
  <2>2. \A q \in Requests \ {r} :
          /\ now'[q] <= clock
          /\ pc'[q] \in {"deciding", "confirming"} => clock - now'[q] <= Delay
          /\ pc'[q] = "riding" =>
               /\ mine'[q] \in DOMAIN attempts'
               /\ attempts'[mine'[q]].at <= now'[q]
               /\ clock - attempts'[mine'[q]].at <= FetchTime + Delay
    BY <1>1 DEF JwksInv, Readings
  <2>3. now'[r] <= clock /\ (pc'[r] = "confirming" => clock - now'[r] <= Delay)
    BY Bounds
  <2>4. QED
    BY <2>1, <2>2, <2>3 DEF Readings
<1>6. QED
  BY <1>1, <1>4, <1>5

LEMMA ReleaseStep ==
  ASSUME JwksInv, NEW r \in Requests, Release(r)
  PROVE  JwksInv'
<1>1. /\ pc[r] = "releasing" /\ pc'[r] = "confirming" /\ Others(r)
      /\ now'[r] = clock /\ mine' = mine /\ kid' = kid /\ response' = response
      /\ Finish(r, "ok") /\ Fetching(r)
      /\ UNCHANGED <<clock, keys, negative, lastFetch, unlisted>>
  BY DEF Release, Step, ReadsClock, Fetching, JwksInv, TypeOK, Others
<1>2. Claims' /\ Fetches' /\ Readings'
  BY <1>1, FetchIsOver DEF Others
<1>3. /\ attempts' \in Seq(Attempt) /\ DOMAIN attempts' = DOMAIN attempts
      /\ Len(attempts') = Len(attempts)
      /\ \A i \in DOMAIN attempts :
           /\ attempts'[i].at = attempts[i].at
           /\ i # Len(attempts) => attempts'[i] = attempts[i]
      /\ inFlight' = NoAttempt /\ lastError' = ("ok" = "failed") /\ attempts' # <<>>
  BY <1>1, FinishAttempts
<1>4. TypeOK'
  <2>1. inFlight' \in 0 .. Len(attempts') /\ lastError' \in BOOLEAN
    BY <1>3, Bounds DEF NoAttempt
  <2>2. pc' \in [Requests -> Place \union Result] /\ now' \in [Requests -> Nat]
    BY Bounds DEF Release, Step, ReadsClock, JwksInv, TypeOK, Place
  <2>3. QED
    BY <1>1, <1>3, <2>1, <2>2 DEF JwksInv, TypeOK
<1>5. Lists'
  <2>1. /\ attempts[Len(attempts)].at = lastFetch /\ lastFetch \in Nat
        /\ clock - lastFetch <= FetchTime /\ attempts # <<>>
        /\ \A q \in Requests : Fetching(q) => q = r
    BY <1>1, TheFetcher
  <2>2. \A k \in Kids \ keys : lastFetch <= unlisted[k]
    BY <1>1 DEF JwksInv, Lists
  <2>3. \A k \in Kids \ keys : unlisted[k] # Never /\ clock - unlisted[k] <= FetchTime + Delay
    BY <2>1, <2>2, Bounds DEF Never
  <2>4. \A q \in Requests : pc'[q] \notin {"fetching", "swapping", "releasing"}
    BY <1>1, <2>1 DEF Fetching, Others
  <2>5. ASSUME NEW i \in DOMAIN attempts', NEW k \in Kids \ keys, attempts'[i].status = "ok"
        PROVE  attempts'[i].at <= unlisted[k]
    <3>1. CASE i = Len(attempts)
      BY <1>3, <2>1, <2>2, <3>1
    <3>2. CASE i # Len(attempts)
      BY <1>3, <2>5, <3>2 DEF JwksInv, Lists
    <3>3. QED
      BY <3>1, <3>2
  <2>6. \A k \in Kids : unlisted[k] <= lastFetch + FetchTime
    BY DEF JwksInv, Lists
  <2>7. \A q \in Requests : pc'[q] = "confirming" => \A k \in Kids \ keys :
          unlisted[k] # Never /\ now'[q] - unlisted[k] <= FetchTime + Delay
    BY <1>1, <2>3 DEF JwksInv, Lists, Others
  <2>8. QED
    BY <1>1, <1>3, <2>4, <2>5, <2>6, <2>7 DEF Lists
<1>6. QED
  BY <1>1, <1>2, <1>4, <1>5 DEF JwksInv

LEMMA ReleaseFailedStep ==
  ASSUME JwksInv, NEW r \in Requests, ReleaseFailed(r)
  PROVE  JwksInv'
<1>1. /\ pc[r] = "failing" /\ pc'[r] = "unavailable" /\ Others(r) /\ now'[r] = 0
      /\ Finish(r, "failed") /\ Fetching(r)
      /\ UNCHANGED <<clock, keys, negative, lastFetch, unlisted>>
  BY DEF ReleaseFailed, Ends, Step, Fetching, JwksInv, TypeOK, Others
<1>2. Claims' /\ Fetches' /\ Readings'
  BY <1>1, FetchIsOver DEF Others, Result
<1>3. /\ attempts' \in Seq(Attempt) /\ DOMAIN attempts' = DOMAIN attempts
      /\ Len(attempts') = Len(attempts)
      /\ \A i \in DOMAIN attempts :
           /\ attempts'[i].at = attempts[i].at
           /\ i = Len(attempts) => attempts'[i].status = "failed"
           /\ i # Len(attempts) => attempts'[i] = attempts[i]
      /\ inFlight' = NoAttempt /\ lastError' = ("failed" = "failed") /\ attempts' # <<>>
  BY <1>1, FinishAttempts
<1>4. TypeOK'
  <2>1. inFlight' \in 0 .. Len(attempts') /\ lastError' \in BOOLEAN
    BY <1>3, Bounds DEF NoAttempt
  <2>2. Silence \in Response /\ AnyKid \in Kids /\ NoAttempt \in Nat
    BY Bounds DEF Silence, Response, NoAttempt
  <2>3. /\ pc' \in [Requests -> Place \union Result] /\ kid' \in [Requests -> Kids]
        /\ now' \in [Requests -> Nat] /\ mine' \in [Requests -> Nat]
        /\ response' \in [Requests -> Response]
    BY <2>2 DEF ReleaseFailed, Ends, Step, JwksInv, TypeOK, Result
  <2>4. \A q \in Requests : mine'[q] <= Len(attempts')
    BY <1>3, Bounds DEF ReleaseFailed, Ends, JwksInv, TypeOK, NoAttempt
  <2>5. QED
    BY <1>1, <1>3, <2>1, <2>3, <2>4 DEF JwksInv, TypeOK
<1>5. Lists'
  <2>1. \A i \in DOMAIN attempts' : attempts'[i].status = "ok" =>
          i \in DOMAIN attempts /\ attempts'[i] = attempts[i]
    BY <1>3
  <2>2. pc'[r] \notin {"fetching", "swapping", "releasing", "confirming"}
    BY <1>1
  <2>3. QED
    BY <1>1, <1>3, <2>1, <2>2 DEF JwksInv, Lists, Others
<1>6. QED
  BY <1>1, <1>2, <1>4, <1>5 DEF JwksInv

-----------------------------------------------------------------------------
LEMMA TickStep ==
  ASSUME JwksInv, Tick
  PROVE  JwksInv'
<1>1. /\ clock' = clock + 1
      /\ UNCHANGED <<keys, negative, lastFetch, inFlight, lastError, attempts>>
      /\ UNCHANGED <<pc, kid, now, mine, response, unlisted>>
  BY DEF Tick, cacheVars, requestVars
<1>2. TypeOK'
  BY <1>1 DEF JwksInv, TypeOK
<1>3. Claims'
  BY <1>1, Bounds DEF JwksInv, Claims, FetchesAreSpaced
<1>4. \A q \in Requests : (Fetching(q))' <=> Fetching(q)
  BY <1>1 DEF Fetching
<1>5. Fetches'
  <2>1. \A q \in Requests : Fetching(q) => clock + 1 - lastFetch <= FetchTime
    <3>1. ASSUME NEW q \in Requests, Fetching(q)
          PROVE  clock + 1 - lastFetch <= FetchTime
      <4>1. clock - attempts[mine[q]].at < FetchTime
        BY <3>1 DEF Tick, Fetching
      <4>2. attempts[mine[q]].at = lastFetch
        BY <3>1, TheFetcher
      <4>3. QED
        BY <4>1, <4>2, Bounds
    <3>2. QED
      BY <3>1
  <2>2. SingleFlight'
    BY <1>1, <1>4 DEF JwksInv, Fetches, SingleFlight
  <2>3. \A q \in Requests : (Fetching(q))' =>
          (mine[q] = Len(attempts) /\ attempts # <<>> /\ clock - lastFetch <= FetchTime)'
    <3>1. ASSUME NEW q \in Requests, Fetching(q)
          PROVE  /\ mine[q] = Len(attempts) /\ attempts # <<>>
                 /\ clock' - lastFetch <= FetchTime
      <4>1. mine[q] = Len(attempts) /\ attempts # <<>>
        BY <3>1 DEF JwksInv, Fetches
      <4>2. clock + 1 - lastFetch <= FetchTime
        BY <2>1, <3>1
      <4>3. clock' - lastFetch <= FetchTime
        BY <1>1, <4>2, Bounds
      <4>4. QED
        BY <4>1, <4>3
    <3>2. QED
      BY <1>1, <1>4, <3>1
  <2>4. QED
    BY <1>1, <2>2, <2>3 DEF JwksInv, Fetches
<1>6. Readings'
  <2>1. ASSUME NEW q \in Requests, pc[q] = "riding"
        PROVE  /\ clock + 1 - attempts[mine[q]].at <= FetchTime + Delay
               /\ attempts[mine[q]].at \in Nat
    <3>1. mine[q] \in DOMAIN attempts
      BY <2>1 DEF JwksInv, Readings
    <3>2. attempts[mine[q]].at \in Nat
      BY <3>1, Bounds DEF Attempt
    <3>3. CASE Done(mine[q])
      <4>1. PICK a \in Nat : a = attempts[mine[q]].at
        BY <3>2
      <4>2. clock - a < FetchTime + Delay
        BY <2>1, <3>3, <4>1 DEF Tick
      <4>3. clock + 1 - a <= FetchTime + Delay
        BY <4>2, Bounds, JwksAssumption DEF JwksAssumption
      <4>4. QED
        BY <3>2, <4>1, <4>3
    <3>4. CASE ~ Done(mine[q])
      <4>1. mine[q] = inFlight /\ inFlight # NoAttempt
        BY <3>1, <3>4, Bounds DEF Done, JwksInv, Fetches, NoAttempt
      <4>2. PICK f \in Requests : Fetching(f)
        BY <4>1 DEF JwksInv, Fetches, SingleFlight
      <4>3. attempts[mine[q]].at = lastFetch /\ clock - attempts[mine[f]].at < FetchTime
            /\ attempts[mine[f]].at = lastFetch
        BY <4>1, <4>2, TheFetcher DEF Tick, Fetching
      <4>4. QED
        BY <3>2, <4>1, <4>3, Bounds
    <3>5. QED
      BY <3>2, <3>3, <3>4
  <2>2. ASSUME NEW q \in Requests, pc[q] \in {"deciding", "confirming"}
        PROVE  clock + 1 - now[q] <= Delay
    BY <2>2, Bounds DEF Tick
  <2>3. \A q \in Requests : now[q] <= clock + 1
    BY Bounds DEF JwksInv, Readings
  <2>4. \A q \in Requests : pc[q] = "riding" =>
          mine[q] \in DOMAIN attempts /\ attempts[mine[q]].at <= now[q]
    BY DEF JwksInv, Readings
  <2>5. ASSUME NEW q \in Requests
        PROVE  /\ now[q] <= clock'
               /\ pc[q] \in {"deciding", "confirming"} => clock' - now[q] <= Delay
               /\ pc[q] = "riding" =>
                    /\ mine[q] \in DOMAIN attempts
                    /\ attempts[mine[q]].at <= now[q]
                    /\ clock' - attempts[mine[q]].at <= FetchTime + Delay
    <3>1. now[q] <= clock'
      BY <1>1, <2>3
    <3>2. pc[q] \in {"deciding", "confirming"} => clock' - now[q] <= Delay
      <4>1. pc[q] \in {"deciding", "confirming"} => clock + 1 - now[q] <= Delay
        BY <2>2
      <4>2. QED
        BY <1>1, <4>1, Bounds
    <3>3. ASSUME pc[q] = "riding" PROVE clock' - attempts[mine[q]].at <= FetchTime + Delay
      <4>1. clock + 1 - attempts[mine[q]].at <= FetchTime + Delay
        BY <2>1, <3>3, Zenon
      <4>2. clock' = clock + 1
        BY <1>1
      <4>3. clock \in Nat /\ attempts[mine[q]].at \in Nat
        BY <2>1, <3>3, Bounds
      <4>4. QED
        BY <4>1, <4>2, <4>3
    <3>4. QED
      BY <2>4, <3>1, <3>2, <3>3, Zenon
  <2>6. QED
    BY <1>1, <2>5, Zenon DEF Readings
<1>7. Lists'
  <2>1. \A q \in Requests : pc[q] = "swapping" => response[q].at <= clock + 1
    BY Bounds DEF JwksInv, Lists, TypeOK, Response
  <2>2. QED
    BY <1>1, <2>1 DEF JwksInv, Lists
<1>8. QED
  BY <1>1, <1>2, <1>3, <1>5, <1>6, <1>7 DEF JwksInv

\* The invariant is inductive.
LEMMA Invariance == Spec => []JwksInv
<1>1. Init => JwksInv
  <2> SUFFICES ASSUME Init PROVE JwksInv
    OBVIOUS
  <2>1. /\ Len(attempts) = 0 /\ attempts \in Seq(Attempt) /\ DOMAIN attempts = {}
        /\ Len(negative) = 0 /\ negative \in Seq(Entry) /\ DOMAIN negative = {}
    BY EmptySeq, LenProperties DEF Init
  <2>2. AnyKid \in Kids /\ FetchTime \in Nat /\ Delay \in Nat /\ NegativeMax \in Nat
    BY JwksAssumption DEF JwksAssumption, AnyKid
  <2>3. TypeOK
    <3>1. Silence \in Response /\ "new" \in Place \union Result /\ NoAttempt = 0 /\ Never = -1
      BY DEF Silence, Response, Place, NoAttempt, Never
    <3>2. /\ pc \in [Requests -> Place \union Result] /\ kid \in [Requests -> Kids]
          /\ now \in [Requests -> Nat] /\ mine \in [Requests -> Nat]
          /\ response \in [Requests -> Response] /\ unlisted \in [Kids -> Nat \union {Never}]
          /\ \A r \in Requests : mine[r] = 0
      BY <2>2, <3>1 DEF Init
    <3>3. /\ clock \in Nat /\ keys \subseteq Kids /\ lastFetch \in Nat \union {Never}
          /\ inFlight = 0 /\ lastError \in BOOLEAN
      BY <3>1 DEF Init
    <3>4. Len(negative) <= NegativeMax /\ inFlight \in 0 .. Len(attempts)
      BY <2>1, <2>2, <3>3
    <3>5. QED
      BY <2>1, <3>2, <3>3, <3>4 DEF TypeOK
  <2>4. Claims
    BY <2>1 DEF Init, Claims, FetchesAreSpaced, Never
  <2>5. Fetches
    BY <2>1 DEF Init, Fetches, SingleFlight, Fetching, NoAttempt
  <2>6. Readings
    <3>1. clock = 0 /\ (\A r \in Requests : now[r] = 0) /\ (\A r \in Requests : pc[r] = "new")
      BY DEF Init
    <3>2. ASSUME NEW r \in Requests PROVE now[r] <= clock
      <4>1. now[r] = 0
        BY <3>1
      <4>2. now[r] \in Int /\ clock \in Int /\ now[r] = clock
        BY <3>1, <4>1
      <4>3. QED
        BY <4>2
    <3>3. \A r \in Requests : pc[r] \notin {"deciding", "confirming"} /\ pc[r] # "riding"
      BY <3>1
    <3>4. QED
      BY <3>2, <3>3, Zenon DEF Readings
  <2>7. Lists
    BY <2>1, <2>2 DEF Init, Lists, Never
  <2>8. Justified(negative, unlisted)
    BY <2>1 DEF Justified
  <2>9. QED
    BY <2>3, <2>4, <2>5, <2>6, <2>7, <2>8 DEF JwksInv
<1>2. JwksInv /\ [Next]_vars => JwksInv'
  <2> SUFFICES ASSUME JwksInv, [Next]_vars PROVE JwksInv'
    OBVIOUS
  <2>1. ASSUME NEW r \in Requests, NEW k \in Kids, Start(r, k) PROVE JwksInv'
    BY <2>1, StartStep
  <2>2. ASSUME NEW r \in Requests, Resolve(r) PROVE JwksInv'
    <3>0. "unknown" \in Result /\ "unavailable" \in Result
      BY DEF Result
    <3>1. CASE Hit(r) \/ Found(r)
      BY <3>1, HitOrFound
    <3>2. CASE KnownAbsent(r)
      BY <3>0, <3>2, EndingQuietly DEF KnownAbsent
    <3>3. CASE Ride(r)
      BY <3>3, RideStep
    <3>4. CASE Outage(r)
      BY <3>0, <3>4, EndingQuietly DEF Outage
    <3>5. CASE Suppressed(r)
      BY <3>0, <3>5, EndingQuietly DEF Suppressed
    <3>6. CASE Claim(r)
      BY <3>6, ClaimStep
    <3>7. CASE Respond(r)
      BY <3>7, RespondStep
    <3>8. CASE FetchFails(r)
      BY <3>8, FetchFailsStep
    <3>9. CASE Swap(r)
      BY <3>9, SwapStep
    <3>10. CASE Release(r)
      BY <3>10, ReleaseStep
    <3>11. CASE ReleaseFailed(r)
      BY <3>11, ReleaseFailedStep
    <3>12. CASE Wake(r)
      BY <3>12, WakeStep
    <3>13. CASE WakeToFailure(r)
      BY <3>0, <3>13, EndingQuietly DEF WakeToFailure
    <3>14. CASE GiveUp(r)
      BY <3>0, <3>14, EndingQuietly DEF GiveUp
    <3>15. CASE RecordAbsence(r)
      BY <3>15, RecordAbsenceStep
    <3>16. QED
      BY <2>2, <3>1, <3>2, <3>3, <3>4, <3>5, <3>6, <3>7, <3>8, <3>9, <3>10, <3>11, <3>12,
         <3>13, <3>14, <3>15, Zenon DEF Resolve, Decide
  <2>3. ASSUME Tick PROVE JwksInv'
    BY <2>3, TickStep
  <2>4. ASSUME UNCHANGED vars PROVE JwksInv'
    BY <2>4 DEF vars, cacheVars, requestVars, JwksInv, TypeOK, Claims, Fetches, Readings, Lists,
         Justified, FetchesAreSpaced, SingleFlight, Fetching
  <2>5. QED
    BY <2>1, <2>2, <2>3, <2>4 DEF Next
<1>3. QED
  BY <1>1, <1>2, PTL DEF Spec

\* The cache keeps its shape; the negative entries stay within their bound.
THEOREM CacheTyped == Spec => []TypeOK
<1>1. JwksInv => TypeOK
  BY DEF JwksInv
<1>2. QED
  BY <1>1, Invariance, PTL

\* One fetch at a time, and the marker is its own.
LEMMA OneFetchAtATime == Spec => []SingleFlight
<1>1. JwksInv => SingleFlight
  BY DEF JwksInv, Fetches
<1>2. QED
  BY <1>1, Invariance, PTL

\* One fetch per interval.
LEMMA OneFetchPerInterval == Spec => []FetchesAreSpaced
<1>1. JwksInv => FetchesAreSpaced
  BY DEF JwksInv, Claims
<1>2. QED
  BY <1>1, Invariance, PTL

\* Both, for any number of threads and of key ids.
THEOREM EndpointIsSpared == Spec => []FetchesAreFew
<1>1. SingleFlight /\ FetchesAreSpaced => FetchesAreFew
  BY DEF FetchesAreFew
<1>2. QED
  BY <1>1, OneFetchAtATime, OneFetchPerInterval, PTL

\* No rider waits longer than a fetch can take.
THEOREM NoRiderIsStranded == Spec => []RidersAreReleased
<1>1. JwksInv => RidersAreReleased
  <2> SUFFICES ASSUME JwksInv, NEW r \in Requests, pc[r] = "riding"
               PROVE  clock - now[r] <= FetchTime + Delay
    BY DEF RidersAreReleased
  <2>1. /\ mine[r] \in DOMAIN attempts /\ attempts[mine[r]].at <= now[r]
        /\ clock - attempts[mine[r]].at <= FetchTime + Delay
    BY DEF JwksInv, Readings
  <2>2. attempts[mine[r]].at \in Nat
    BY <2>1, Bounds DEF Attempt
  <2>3. QED
    BY <2>1, <2>2, Bounds
<1>2. QED
  BY <1>1, Invariance, PTL

\* Bounds on ages add up: of a refusal from the negative cache, of one that looks nothing
\* up, and of one after a fetch.
LEMMA CachedAge ==
  ASSUME NEW c \in Int, NEW n \in Int, NEW m \in Int, NEW u \in Int,
         NEW d \in Nat, NEW f \in Nat, NEW t \in Nat,
         c - n <= d, n - m < t, m - u <= f + d
  PROVE  c - u < t + f + 2 * d
OBVIOUS

LEMMA SuppressedAge ==
  ASSUME NEW c \in Int, NEW n \in Int, NEW l \in Int, NEW u \in Int,
         NEW d \in Nat, NEW f \in Nat, NEW t \in Nat, NEW i \in Nat,
         c - n <= d, n - l < i, i <= t, l <= u
  PROVE  c - u < t + f + 2 * d
OBVIOUS

LEMMA ConfirmedAge ==
  ASSUME NEW c \in Int, NEW n \in Int, NEW u \in Int,
         NEW d \in Nat, NEW f \in Nat, NEW t \in Nat, NEW i \in Nat,
         c - n <= d, n - u <= f + d, f < i, i <= t
  PROVE  c - u < t + f + 2 * d
OBVIOUS

\* A key is called unknown only when the tenant itself has said so, not long ago.
THEOREM VerdictsAreFresh == Spec => VerdictIsFresh
<1> DEFINE Fresh(r) == /\ unlisted[kid[r]] # Never
                       /\ clock - unlisted[kid[r]] < NegativeTTL + FetchTime + 2 * Delay
<1>1. JwksInv /\ [Next]_vars =>
        [\A r \in Requests : pc[r] # "unknown" /\ pc'[r] = "unknown" => Fresh(r)]_vars
  <2> SUFFICES ASSUME JwksInv, Next, NEW r \in Requests, pc[r] # "unknown", pc'[r] = "unknown"
               PROVE  Fresh(r)
    BY Zenon
  <2>1. KnownAbsent(r) \/ Suppressed(r) \/ RecordAbsence(r)
    <3>1. pc' # pc
      OBVIOUS
    <3>2. PICK q \in Requests : Resolve(q) \/ \E k \in Kids : Start(q, k)
      BY <3>1 DEF Next, Tick, requestVars
    <3>3. q = r
      BY <3>2 DEF Resolve, Decide, Hit, KnownAbsent, Ride, Outage, Suppressed, Claim, Claimed,
           Respond, FetchFails, Swap, Release, ReleaseFailed, Wake, WakeToFailure, GiveUp, Found,
           RecordAbsence, Start, Ends, Step, JwksInv, TypeOK
    <3>4. QED
      BY <3>2, <3>3 DEF Resolve, Decide, Hit, Ride, Outage, Claim, Claimed,
           Respond, FetchFails, Swap, Release, ReleaseFailed, Wake, WakeToFailure, GiveUp, Found,
           Start, Ends, Step, JwksInv, TypeOK
  <2>2. /\ kid[r] \in Kids /\ unlisted[kid[r]] \in Int /\ now[r] \in Int /\ clock \in Int
        /\ Delay \in Nat /\ FetchTime \in Nat /\ NegativeTTL \in Nat /\ Interval \in Nat
        /\ FetchTime < Interval /\ Interval <= NegativeTTL
    BY Bounds
  <2>3. CASE KnownAbsent(r)
    <3>1. pc[r] = "deciding" /\ clock - now[r] <= Delay
      BY <2>3 DEF KnownAbsent, Ends, Step, JwksInv, Readings
    <3>2. PICK i \in DOMAIN negative : negative[i].kid = kid[r] /\ now[r] - negative[i].at < NegativeTTL
      BY <2>3 DEF KnownAbsent, ConfirmedAbsent
    <3>3. /\ unlisted[kid[r]] # Never
          /\ negative[i].at - unlisted[kid[r]] <= FetchTime + Delay
      BY <3>2 DEF JwksInv, Justified
    <3>4. negative[i].at \in Nat
      <4>1. negative[i] \in Entry
        BY LenProperties, ElementOfSeq DEF JwksInv, TypeOK
      <4>2. QED
        BY <4>1 DEF Entry
    <3>5. negative[i].at \in Int
      BY <3>4
    <3>6. clock - unlisted[kid[r]] < NegativeTTL + FetchTime + 2 * Delay
      BY <2>2, <3>1, <3>2, <3>3, <3>5, CachedAge
    <3>7. QED
      BY <3>3, <3>6, Zenon
  <2>4. CASE Suppressed(r)
    <3>1. /\ pc[r] = "deciding" /\ clock - now[r] <= Delay /\ kid[r] \notin keys
          /\ now[r] - lastFetch < Interval /\ lastFetch # Never
          /\ inFlight = NoAttempt /\ ~ lastError
      BY <2>4 DEF Suppressed, Missed, Recent, Ends, Step, JwksInv, Readings
    <3>2. attempts # <<>> /\ Len(attempts) \in DOMAIN attempts
      BY <3>1, Bounds DEF JwksInv, Claims
    <3>3. attempts[Len(attempts)].at = lastFetch /\ attempts[Len(attempts)].status = "ok"
      BY <3>1, <3>2 DEF JwksInv, Claims, Fetches
    <3>4. lastFetch <= unlisted[kid[r]]
      BY <2>2, <3>1, <3>2, <3>3 DEF JwksInv, Lists
    <3>5. lastFetch \in Nat
      BY <3>1 DEF JwksInv, TypeOK
    <3>6. unlisted[kid[r]] # Never
      BY <2>2, <3>4, <3>5, NatIsNotNever
    <3>7. lastFetch \in Int
      BY <3>5
    <3>8. clock - unlisted[kid[r]] < NegativeTTL + FetchTime + 2 * Delay
      BY <2>2, <3>1, <3>4, <3>7, SuppressedAge
    <3>9. QED
      BY <3>6, <3>8, Zenon
  <2>5. CASE RecordAbsence(r)
    <3>1. pc[r] = "confirming" /\ clock - now[r] <= Delay /\ kid[r] \notin keys
      BY <2>5 DEF RecordAbsence, Ends, Step, JwksInv, Readings
    <3>2. unlisted[kid[r]] # Never /\ now[r] - unlisted[kid[r]] <= FetchTime + Delay
      BY <2>2, <3>1 DEF JwksInv, Lists
    <3>3. clock - unlisted[kid[r]] < NegativeTTL + FetchTime + 2 * Delay
      BY <2>2, <3>1, <3>2, ConfirmedAge
    <3>4. QED
      BY <3>2, <3>3, Zenon
  <2>6. QED
    BY <2>1, <2>3, <2>4, <2>5
<1>2. QED
  BY <1>1, Invariance, PTL DEF Spec, VerdictIsFresh
=============================================================================
