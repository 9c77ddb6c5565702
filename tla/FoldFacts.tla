----------------------------- MODULE FoldFacts -----------------------------
(***************************************************************************)
(* What the fold of a sequence from the left computes, for any operator    *)
(* and any sequence: the code's loops that build a value one element at a  *)
(* time (a message out of its frames, a bubble out of its chunks) are      *)
(* modelled with FoldLeft.  Induction is by the least counterexample, over *)
(* a set in place of a predicate.                                          *)
(***************************************************************************)
EXTENDS Integers, Sequences, SequencesExt, TLAPS, NaturalsInduction, WellFoundedInduction

CONSTANT Op(_, _)

\* One step at a time: the first so many elements of a sequence folded.
IsFold(f, base, s) ==
  /\ DOMAIN f = 0..Len(s) /\ f[0] = base
  /\ \A i \in 1..Len(s) : f[i] = Op(f[i - 1], s[i])

\* A set of numbers that is not empty has a least member.
LEMMA Least ==
  ASSUME NEW S \in SUBSET Nat, S # {}
  PROVE  \E m \in S : \A k \in S : m <= k
<1> DEFINE Less == {p \in Nat \X Nat : p[1] < p[2]}
<1>1. IsWellFoundedOn(Less, Nat)
  BY NatLessThanWellFounded DEF OpToRel
<1>2. PICK m \in S : \A y \in S : <<y, m>> \notin Less
  BY <1>1, WFMin, Zenon
<1>3. \A k \in S : ~(k < m)
  BY <1>2
<1> QED
  BY <1>3

\* A set that has zero, and with each number the next, has them all.
LEMMA Induction ==
  ASSUME NEW S \in SUBSET Nat, 0 \in S, \A n \in S : n + 1 \in S
  PROVE  S = Nat
<1> SUFFICES ASSUME S # Nat PROVE FALSE
  OBVIOUS
<1>1. PICK m \in Nat \ S : \A k \in Nat \ S : m <= k
  <2>1. Nat \ S \in SUBSET Nat /\ Nat \ S # {}
    OBVIOUS
  <2> QED
    BY <2>1, Least
<1>2. m # 0 /\ m - 1 \in Nat
  BY <1>1
<1>3. m - 1 \in S
  BY <1>1, <1>2
<1> QED
  BY <1>1, <1>2, <1>3

\* The greatest number of a set that has the bound is the bound.
LEMMA MaxIs ==
  ASSUME NEW n \in Nat
  PROVE  \A t \in SUBSET (1..n + 1) : n + 1 \in t => Max(t) = n + 1
<1> SUFFICES ASSUME NEW t \in SUBSET (1..n + 1), n + 1 \in t PROVE Max(t) = n + 1
  OBVIOUS
<1>1. \A y \in t : n + 1 >= y
  OBVIOUS
<1>2. \A x \in t : (\A y \in t : x >= y) => x = n + 1
  BY <1>1
<1> QED
  BY <1>1, <1>2 DEF Max

\* The function FoldLeft chooses, on the subsets of an initial part of the sequence.
Solves(iter, base, s, n) ==
  iter = [t \in SUBSET (1..n) |->
            IF t = {} THEN base ELSE Op(iter[t \ {Max(t)}], s[Max(t)])]

\* There is such a function, for every length.
LEMMA Solvable ==
  ASSUME NEW base, NEW s
  PROVE  \A n \in Nat : \E iter : Solves(iter, base, s, n)
<1> DEFINE S == {n \in Nat : \E iter : Solves(iter, base, s, n)}
<1>1. 0 \in S
  <2> DEFINE it == [t \in SUBSET (1..0) |-> base]
  <2>1. SUBSET (1..0) = {{}}
    OBVIOUS
  <2>2. Solves(it, base, s, 0)
    BY <2>1 DEF Solves
  <2> QED
    BY <2>2
<1>2. ASSUME NEW n \in S PROVE n + 1 \in S
  <2>1. PICK old : Solves(old, base, s, n)
    OBVIOUS
  <2> DEFINE it == [t \in SUBSET (1..n + 1) |->
                      IF n + 1 \in t THEN Op(old[t \ {n + 1}], s[n + 1]) ELSE old[t]]
             val(t) == IF t = {} THEN base ELSE Op(it[t \ {Max(t)}], s[Max(t)])
  <2>2. ASSUME NEW t \in SUBSET (1..n + 1) PROVE it[t] = val(t)
    <3>1. CASE n + 1 \in t
      <4>1. Max(t) = n + 1
        BY <3>1, MaxIs
      <4>2. t \ {n + 1} \in SUBSET (1..n) /\ n + 1 \notin t \ {n + 1}
        OBVIOUS
      <4>3. it[t \ {n + 1}] = old[t \ {n + 1}]
        BY <4>2
      <4>4. it[t] = Op(old[t \ {n + 1}], s[n + 1])
        BY <3>1
      <4> QED
        BY <3>1, <4>1, <4>3, <4>4
    <3>2. CASE n + 1 \notin t
      <4>1. t \in SUBSET (1..n)
        BY <3>2
      <4>2. it[t] = old[t]
        BY <3>2
      <4>3. old[t] = IF t = {} THEN base ELSE Op(old[t \ {Max(t)}], s[Max(t)])
        BY <2>1, <4>1 DEF Solves
      <4>4. it[t \ {Max(t)}] = old[t \ {Max(t)}]
        BY <3>2
      <4> QED
        BY <4>2, <4>3, <4>4
    <3> QED
      BY <3>1, <3>2
  <2>3. it = [t \in SUBSET (1..n + 1) |-> val(t)]
    BY <2>2
  <2>4. Solves(it, base, s, n + 1)
    BY <2>3 DEF Solves
  <2> QED
    BY <2>4
<1> HIDE DEF S
<1>3. S = Nat
  <2>1. S \in SUBSET Nat
    BY DEF S
  <2> QED
    BY <1>1, <1>2, <2>1, Induction
<1> QED
  BY <1>3 DEF S

\* FoldLeft is the value of such a function on all the places.
LEMMA FoldIs ==
  ASSUME NEW base, NEW T, NEW s \in Seq(T)
  PROVE  \E iter : Solves(iter, base, s, Len(s)) /\ FoldLeft(Op, base, s) = iter[1..Len(s)]
<1> DEFINE it == CHOOSE iter : Solves(iter, base, s, Len(s))
<1>1. DOMAIN s = 1..Len(s) /\ Len(s) \in Nat
  OBVIOUS
<1>2. FoldLeft(Op, base, s) = it[1..Len(s)]
  BY <1>1 DEF FoldLeft, MapThenFoldSet, Solves
<1>3. Solves(it, base, s, Len(s))
  BY <1>1, Solvable
<1> QED
  BY <1>2, <1>3

\* Whatever function takes the steps of the fold ends where FoldLeft does.
LEMMA FoldUnique ==
  ASSUME NEW base, NEW T, NEW s \in Seq(T), NEW f, IsFold(f, base, s)
  PROVE  FoldLeft(Op, base, s) = f[Len(s)]
<1>1. PICK it : Solves(it, base, s, Len(s)) /\ FoldLeft(Op, base, s) = it[1..Len(s)]
  BY FoldIs
<1>2. Len(s) \in Nat
  OBVIOUS
<1> DEFINE S == {k \in Nat : k <= Len(s) => it[1..k] = f[k]}
<1>3. ASSUME NEW t \in SUBSET (1..Len(s))
      PROVE  it[t] = IF t = {} THEN base ELSE Op(it[t \ {Max(t)}], s[Max(t)])
  BY <1>1 DEF Solves
<1>4. 0 \in S
  <2>1. 1..0 = {}
    OBVIOUS
  <2> QED
    BY <1>2, <1>3, <2>1 DEF IsFold
<1>5. ASSUME NEW k \in S PROVE k + 1 \in S
  <2> SUFFICES ASSUME k + 1 <= Len(s) PROVE it[1..k + 1] = f[k + 1]
    OBVIOUS
  <2>1. 1..k + 1 \in SUBSET (1..Len(s)) /\ 1..k + 1 # {} /\ (1..k + 1) \ {k + 1} = 1..k
    BY <1>2
  <2>2. Max(1..k + 1) = k + 1
    BY MaxIs
  <2>3. it[1..k + 1] = Op(it[1..k], s[k + 1])
    BY <1>3, <2>1, <2>2
  <2>4. f[k + 1] = Op(f[k], s[k + 1])
    BY <1>2 DEF IsFold
  <2>5. it[1..k] = f[k]
    BY <1>2
  <2> QED
    BY <2>3, <2>4, <2>5
<1> HIDE DEF S
<1>6. S = Nat
  <2>1. S \in SUBSET Nat
    BY DEF S
  <2> QED
    BY <1>4, <1>5, <2>1, Induction
<1> QED
  BY <1>1, <1>2, <1>6 DEF S

\* FoldLeft takes its steps one at a time.
LEMMA FoldExists ==
  ASSUME NEW base, NEW T, NEW s \in Seq(T)
  PROVE  \E f : IsFold(f, base, s) /\ FoldLeft(Op, base, s) = f[Len(s)]
<1>1. PICK it : Solves(it, base, s, Len(s))
  BY FoldIs
<1> DEFINE f == [k \in 0..Len(s) |-> it[1..k]]
<1>2. ASSUME NEW t \in SUBSET (1..Len(s))
      PROVE  it[t] = IF t = {} THEN base ELSE Op(it[t \ {Max(t)}], s[Max(t)])
  BY <1>1 DEF Solves
<1>3. f[0] = base
  <2>1. 1..0 = {} /\ 0 \in 0..Len(s)
    OBVIOUS
  <2> QED
    BY <1>2, <2>1
<1>4. ASSUME NEW i \in 1..Len(s) PROVE f[i] = Op(f[i - 1], s[i])
  <2>1. PICK k \in Nat : i = k + 1
    <3>1. i - 1 \in Nat /\ i = (i - 1) + 1
      OBVIOUS
    <3> QED
      BY <3>1
  <2>2. 1..k + 1 \in SUBSET (1..Len(s)) /\ 1..k + 1 # {} /\ (1..k + 1) \ {k + 1} = 1..k
    BY <2>1
  <2>3. Max(1..k + 1) = k + 1
    BY MaxIs
  <2>4. it[1..k + 1] = Op(it[1..k], s[k + 1])
    BY <1>2, <2>2, <2>3
  <2> QED
    BY <2>1, <2>4
<1> HIDE DEF f
<1>5. IsFold(f, base, s)
  <2>1. DOMAIN f = 0..Len(s)
    BY DEF f
  <2> QED
    BY <1>3, <1>4, <2>1 DEF IsFold
<1> QED
  BY <1>5, FoldUnique

\* Nothing folded is the base.
LEMMA FoldEmpty == ASSUME NEW base PROVE FoldLeft(Op, base, << >>) = base
<1>1. << >> \in Seq({}) /\ Len(<< >>) = 0
  OBVIOUS
<1>2. PICK f : IsFold(f, base, << >>) /\ FoldLeft(Op, base, << >>) = f[Len(<< >>)]
  BY <1>1, FoldExists
<1> QED
  BY <1>1, <1>2 DEF IsFold

\* One element more is one step more.
LEMMA FoldAppend ==
  ASSUME NEW base, NEW T, NEW s \in Seq(T), NEW x \in T
  PROVE  FoldLeft(Op, base, Append(s, x)) = Op(FoldLeft(Op, base, s), x)
<1>1. PICK f : IsFold(f, base, s) /\ FoldLeft(Op, base, s) = f[Len(s)]
  BY FoldExists
<1> DEFINE n == Len(s)
           r == Append(s, x)
           g == [k \in 0..n + 1 |-> IF k = n + 1 THEN Op(f[n], x) ELSE f[k]]
<1>2. /\ n \in Nat /\ r \in Seq(T) /\ Len(r) = n + 1 /\ r[n + 1] = x
      /\ \A i \in 1..n : r[i] = s[i]
  OBVIOUS
<1> HIDE DEF n, r
<1>3. g[0] = base /\ g[n] = f[n] /\ g[n + 1] = Op(f[n], x)
  BY <1>1, <1>2 DEF IsFold
<1>4. ASSUME NEW i \in 1..n + 1 PROVE g[i] = Op(g[i - 1], r[i])
  <2>1. CASE i = n + 1
    BY <2>1, <1>2, <1>3
  <2>2. CASE i # n + 1
    <3>1. i \in 1..n /\ i - 1 \in 0..n + 1 /\ i - 1 # n + 1 /\ i \in 0..n + 1
      BY <1>2, <2>2
    <3>2. f[i] = Op(f[i - 1], s[i])
      BY <1>1, <3>1 DEF IsFold, n
    <3> QED
      BY <1>2, <3>1, <3>2
  <2> QED
    BY <2>1, <2>2
<1> HIDE DEF g
<1>5. IsFold(g, base, r)
  <2>1. DOMAIN g = 0..Len(r)
    BY <1>2 DEF g
  <2> QED
    BY <1>2, <1>3, <1>4, <2>1 DEF IsFold
<1>6. FoldLeft(Op, base, r) = g[n + 1]
  BY <1>2, <1>5, FoldUnique
<1> QED
  BY <1>1, <1>3, <1>6 DEF r, n

-----------------------------------------------------------------------------
(* The facts by the name that modules which instantiate this one use.       *)

Folded(base, s) == FoldLeft(Op, base, s)

\* Nothing folded is the base.
LEMMA FoldedNone == \A base : Folded(base, << >>) = base
BY FoldEmpty DEF Folded

\* One element more is one step of the operator more, whatever the element is:
\* what a loop has built so far takes its next element.
THEOREM FoldedMore ==
  ASSUME NEW base, NEW T, NEW s \in Seq(T), NEW x
  PROVE  Folded(base, Append(s, x)) = Op(Folded(base, s), x)
<1> DEFINE U == T \union {x}
<1>1. s \in Seq(U) /\ x \in U
  OBVIOUS
<1> HIDE DEF U
<1> QED
  BY <1>1, FoldAppend DEF Folded

\* A single element is a single step.
LEMMA FoldedOne == \A base, x : Folded(base, <<x>>) = Op(base, x)
<1> SUFFICES ASSUME NEW base, NEW x PROVE Folded(base, <<x>>) = Op(base, x)
  OBVIOUS
<1>1. << >> \in Seq({})
  OBVIOUS
<1>2. Folded(base, Append(<< >>, x)) = Op(Folded(base, << >>), x)
  BY <1>1, FoldedMore
<1>3. Append(<< >>, x) = <<x>>
  OBVIOUS
<1>4. Folded(base, << >>) = base
  BY FoldedNone
<1>5. Folded(base, <<x>>) = Op(Folded(base, << >>), x)
  BY <1>2, <1>3, Zenon
<1> QED
  BY <1>4, <1>5, Zenon

\* A sequence that is not empty is its beginning and its last element.
LEMMA BeginningAndLast ==
  ASSUME NEW T, NEW n \in Nat, NEW t \in Seq(T), Len(t) = n + 1
  PROVE  \E b \in Seq(T) : Len(b) = n /\ t = Append(b, t[n + 1])
<1> DEFINE b == [i \in 1..n |-> t[i]]
<1>1. b \in Seq(T) /\ Len(b) = n
  <2>1. \A i \in 1..n : t[i] \in T
    OBVIOUS
  <2> QED
    BY <2>1
<1>2. /\ DOMAIN t = 1..n + 1 /\ DOMAIN Append(b, t[n + 1]) = 1..n + 1
      /\ \A i \in 1..n + 1 : Append(b, t[n + 1])[i] = t[i]
  BY <1>1
<1>3. t = Append(b, t[n + 1])
  <2>1. t = [i \in 1..n + 1 |-> t[i]]
    BY <1>2
  <2>2. Append(b, t[n + 1]) = [i \in 1..n + 1 |-> Append(b, t[n + 1])[i]]
    BY <1>1
  <2> HIDE DEF b
  <2> QED
    BY <1>2, <2>1, <2>2
<1> QED
  BY <1>1, <1>3

\* What the empty sequence has, and every sequence that is one longer than one
\* that has it, every sequence has.
THEOREM SequenceInduction ==
  ASSUME NEW T, NEW S \in SUBSET Seq(T), << >> \in S,
         \A s \in S, x \in T : Append(s, x) \in S
  PROVE  S = Seq(T)
<1> DEFINE N == {n \in Nat : \A r \in Seq(T) : Len(r) = n => r \in S}
<1>1. 0 \in N
  <2>1. \A r \in Seq(T) : Len(r) = 0 => r = << >>
    OBVIOUS
  <2> QED
    BY <2>1
<1>2. ASSUME NEW n \in N PROVE n + 1 \in N
  <2> SUFFICES ASSUME NEW r \in Seq(T), Len(r) = n + 1 PROVE r \in S
    OBVIOUS
  <2>1. PICK b \in Seq(T) : Len(b) = n /\ r = Append(b, r[n + 1])
    BY BeginningAndLast
  <2>2. b \in S /\ r[n + 1] \in T
    BY <2>1
  <2> QED
    BY <2>1, <2>2
<1> HIDE DEF N
<1>3. N = Nat
  <2>1. N \in SUBSET Nat
    BY DEF N
  <2> QED
    BY <1>1, <1>2, <2>1, Induction
<1>4. \A r \in Seq(T) : Len(r) \in N
  BY <1>3
<1> QED
  BY <1>4 DEF N

\* Two sequences one after the other fold as the second from where the first
\* ended: a message can be built in as many sittings as there are sends.
THEOREM FoldedBoth ==
  ASSUME NEW base, NEW T, NEW s \in Seq(T), NEW t \in Seq(T)
  PROVE  Folded(base, s \o t) = Folded(Folded(base, s), t)
<1> DEFINE S == {r \in Seq(T) : Folded(base, s \o r) = Folded(Folded(base, s), r)}
<1>1. << >> \in S
  <2>1. s \o << >> = s
    OBVIOUS
  <2> QED
    BY <2>1, FoldedNone
<1>2. ASSUME NEW r \in S, NEW x \in T PROVE Append(r, x) \in S
  <2>1. s \o Append(r, x) = Append(s \o r, x) /\ s \o r \in Seq(T) /\ Append(r, x) \in Seq(T)
    OBVIOUS
  <2>2. \A q \in Seq(T) : \A b : Folded(b, Append(q, x)) = Op(Folded(b, q), x)
    BY FoldedMore
  <2>3. /\ Folded(base, Append(s \o r, x)) = Op(Folded(base, s \o r), x)
        /\ Folded(Folded(base, s), Append(r, x)) = Op(Folded(Folded(base, s), r), x)
    BY <2>1, <2>2
  <2>4. Folded(base, s \o r) = Folded(Folded(base, s), r)
    OBVIOUS
  <2> QED
    BY <2>1, <2>3, <2>4, Zenon
<1> HIDE DEF S
<1>3. S = Seq(T)
  <2>1. S \in SUBSET Seq(T)
    BY DEF S
  <2> QED
    BY <1>1, <1>2, <2>1, SequenceInduction
<1> QED
  BY <1>3 DEF S

\* What holds of the base and is kept by every step holds of the fold.
THEOREM FoldedIn ==
  ASSUME NEW T, NEW s \in Seq(T), NEW U, NEW base \in U,
         \A u \in U, x \in T : Op(u, x) \in U
  PROVE  Folded(base, s) \in U
<1> DEFINE S == {r \in Seq(T) : Folded(base, r) \in U}
<1>1. << >> \in S
  BY FoldedNone
<1>2. ASSUME NEW r \in S, NEW x \in T PROVE Append(r, x) \in S
  <2>1. Folded(base, Append(r, x)) = Op(Folded(base, r), x) /\ Append(r, x) \in Seq(T)
    BY FoldedMore
  <2>2. Op(Folded(base, r), x) \in U
    OBVIOUS
  <2> QED
    BY <2>1, <2>2, Zenon
<1> HIDE DEF S
<1>3. S = Seq(T)
  <2>1. S \in SUBSET Seq(T)
    BY DEF S
  <2> QED
    BY <1>1, <1>2, <2>1, SequenceInduction
<1> QED
  BY <1>3 DEF S
=============================================================================
