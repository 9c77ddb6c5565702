----------------------------- MODULE SkillProofs -----------------------------
(***************************************************************************)
(* Proofs about the turn that dispatches skills (RouterTurn), for any      *)
(* skills and any bounds, and about the skill with the most moments, the   *)
(* brief of a customer (CustomerBrief), for any settings, kinds and        *)
(* answers of the tools: a turn corrects a skill at most once; a brief     *)
(* shows its places in one order, and its result is what was shown.        *)
(***************************************************************************)
EXTENDS RouterTurn, CustomerBrief, SequenceTheorems, TLAPS

-----------------------------------------------------------------------------
(* The loop of the router.                                                  *)

Record == [skill : Names, status : {"ok", "error"}]

SameFailure(rs, i, j) ==
  /\ rs[i].status = "error" /\ rs[j].status = "error"
  /\ rs[i].skill = rs[j].skill

\* No dispatch before the n-th repeats an earlier failure.
NoRepeatBefore(rs, n) ==
  \A i, j \in DOMAIN rs : i < j /\ j < n => ~ SameFailure(rs, i, j)

FailedIn(rs) == {rs[i].skill : i \in {k \in DOMAIN rs : rs[k].status = "error"}}

\* The loop is typed, and is at work only while no failure was returned.
LoopInv ==
  /\ queue \in Seq(Names)
  /\ records \in Seq(Record)
  /\ pc \in {"dispatching", "running"} => queue # <<>>
  /\ pc \in {"calling", "dispatching", "running", "answering"} => cause = "none"

\* What was spent is what failed, and nothing failed twice, until the dispatch
\* that ends the turn.
CorrectionInv ==
  /\ cause # "skill" =>
       /\ spent = FailedIn(records)
       /\ NoRepeatBefore(records, Len(records) + 1)
  /\ cause = "skill" =>
       /\ NoRepeatBefore(records, Len(records))
       /\ \E i \in DOMAIN records : i < Len(records) /\ SameFailure(records, i, Len(records))

RouterInv == LoopInv /\ CorrectionInv

\* The initial state: nothing was dispatched.
LEMMA RouterInit == Init => RouterInv
  BY DEF Init, RouterInv, LoopInv, CorrectionInv, FailedIn, NoRepeatBefore, SameFailure, Record

\* The steps that dispatch nothing leave the records alone and never make a
\* skill the cause.
LEMMA OtherSteps ==
  ASSUME RouterInv,
         \/ AskForAnswer \/ AskForTools \/ AskInVain \/ AskRaises \/ ReachCap
         \/ StartTool \/ MakePart \/ Answer \/ SendError \/ UNCHANGED vars
  PROVE  RouterInv'
<1>1. UNCHANGED <<records, spent>>
  BY DEF AskForAnswer, AskForTools, AskInVain, AskRaises, ReachCap, StartTool, MakePart,
         Answer, SendError, vars, loopVars
<1>2. LoopInv'
  <2>1. queue' \in Seq(Names) /\ (pc' \in {"dispatching", "running"} => queue' # <<>>)
    <3>1. CASE AskForTools
      <4>1. PICK n \in 1 .. MaxCalls : queue' \in [1 .. n -> Names]
        BY <3>1 DEF AskForTools
      <4>2. n \in Nat /\ n >= 1
        BY <4>1, RouterAssumption DEF RouterAssumption
      <4> QED
        BY <4>1, <4>2
    <3> QED
      BY <3>1 DEF RouterInv, LoopInv, AskForAnswer, AskInVain, AskRaises, ReachCap, StartTool,
                  MakePart, Answer, SendError, vars, loopVars
  <2>2. pc' \in {"calling", "dispatching", "running", "answering"} => cause' = "none"
    BY DEF RouterInv, LoopInv, AskForAnswer, AskForTools, AskInVain, AskRaises, ReachCap,
           StartTool, MakePart, Answer, SendError, vars, loopVars
  <2> QED
    BY <1>1, <2>1, <2>2 DEF RouterInv, LoopInv
<1>3. cause' = "skill" <=> cause = "skill"
  BY DEF RouterInv, LoopInv, AskForAnswer, AskForTools, AskInVain, AskRaises, ReachCap,
         StartTool, MakePart, Answer, SendError, vars, loopVars
<1> QED
  BY <1>1, <1>2, <1>3 DEF RouterInv, CorrectionInv, FailedIn, NoRepeatBefore, SameFailure

\* A dispatch adds one record and drops one call; the earlier records stay.
LEMMA RecordAdded ==
  ASSUME RouterInv, pc = "running", NEW status \in {"ok", "error"}, Recorded(status)
  PROVE  /\ queue' \in Seq(Names) /\ records' \in Seq(Record)
         /\ Len(queue) > 1 => queue' # <<>>
         /\ Len(records') = Len(records) + 1
         /\ records'[Len(records')] = [skill |-> Running, status |-> status]
         /\ \A i \in DOMAIN records : records'[i] = records[i]
<1>1. queue \in Seq(Names) /\ queue # <<>> /\ records \in Seq(Record)
  BY DEF RouterInv, LoopInv
<1>2. Running \in Names
  BY <1>1 DEF Running
<1>3. queue' = Tail(queue) /\ records' = Append(records, [skill |-> Running, status |-> status])
  BY DEF Recorded
<1> DEFINE new == [skill |-> Running, status |-> status]
<1>4. new \in Record
  BY <1>2 DEF Record
<1>5. queue' \in Seq(Names) /\ (Len(queue) > 1 => queue' # <<>>)
  <2>1. queue' = Tail(queue)
    BY <1>3
  <2>2. queue' \in Seq(Names) /\ Len(queue') = Len(queue) - 1
    BY <1>1, <2>1, HeadTailProperties
  <2>3. Len(queue) \in Nat
    BY <1>1
  <2> QED
    BY <2>2, <2>3
<1> HIDE DEF new
<1>6. records' = Append(records, new)
  BY <1>3 DEF new
<1>7. /\ records' \in Seq(Record) /\ Len(records') = Len(records) + 1
      /\ records'[Len(records) + 1] = new
      /\ \A i \in DOMAIN records : records'[i] = records[i]
  BY <1>1, <1>4, <1>6
<1> QED
  BY <1>5, <1>7 DEF new

\* A dispatch that succeeds repeats no failure.
LEMMA SucceedStep ==
  ASSUME RouterInv, Succeed PROVE RouterInv'
<1>1. pc = "running" /\ Recorded("ok") /\ UNCHANGED <<spent, cause>>
      /\ pc' = (IF Len(queue) > 1 THEN "dispatching" ELSE "calling")
  BY DEF Succeed
<1>2. cause = "none"
  BY <1>1 DEF RouterInv, LoopInv
<1> DEFINE n == Len(records)
<1>3. /\ queue' \in Seq(Names) /\ records' \in Seq(Record)
      /\ Len(queue) > 1 => queue' # <<>>
      /\ Len(records') = n + 1
      /\ records'[n + 1] = [skill |-> Running, status |-> "ok"]
      /\ \A i \in DOMAIN records : records'[i] = records[i]
  BY <1>1, RecordAdded
<1>4. n \in Nat /\ DOMAIN records = 1 .. n /\ DOMAIN records' = 1 .. n + 1
  BY <1>3 DEF RouterInv, LoopInv
<1>5. LoopInv'
  BY <1>1, <1>2, <1>3 DEF LoopInv
<1>6. spent' = FailedIn(records')
  BY <1>1, <1>2, <1>3, <1>4 DEF RouterInv, CorrectionInv, FailedIn
<1>7. NoRepeatBefore(records', n + 2)
  BY <1>2, <1>3, <1>4 DEF RouterInv, CorrectionInv, FailedIn, NoRepeatBefore, SameFailure
<1> QED
  BY <1>1, <1>2, <1>3, <1>4, <1>5, <1>6, <1>7 DEF RouterInv, CorrectionInv, FailedIn, NoRepeatBefore

\* The first failure of a skill repeats none, since what failed is what is spent.
LEMMA CorrectStep ==
  ASSUME RouterInv, Correct PROVE RouterInv'
<1>1. pc = "running" /\ Recorded("error") /\ UNCHANGED cause /\ Running \notin spent
      /\ spent' = spent \union {Running}
      /\ pc' = (IF Len(queue) > 1 THEN "dispatching" ELSE "calling")
  BY DEF Correct, Break
<1>2. cause = "none"
  BY <1>1 DEF RouterInv, LoopInv
<1> DEFINE n == Len(records)
<1>3. /\ queue' \in Seq(Names) /\ records' \in Seq(Record)
      /\ Len(queue) > 1 => queue' # <<>>
      /\ Len(records') = n + 1
      /\ records'[n + 1] = [skill |-> Running, status |-> "error"]
      /\ \A i \in DOMAIN records : records'[i] = records[i]
  BY <1>1, RecordAdded
<1>4. n \in Nat /\ DOMAIN records = 1 .. n /\ DOMAIN records' = 1 .. n + 1
  BY <1>3 DEF RouterInv, LoopInv
<1>5. LoopInv'
  BY <1>1, <1>2, <1>3 DEF LoopInv
<1>6. spent' = FailedIn(records')
  BY <1>1, <1>2, <1>3, <1>4 DEF RouterInv, CorrectionInv, FailedIn
<1>7. \A i \in DOMAIN records : records[i].status = "error" => records[i].skill # Running
  BY <1>1, <1>2 DEF RouterInv, CorrectionInv, FailedIn
<1>8. NoRepeatBefore(records', n + 2)
  <2>1. \A i, j \in DOMAIN records : i < j => ~ SameFailure(records, i, j)
    BY <1>2, <1>4 DEF RouterInv, CorrectionInv, NoRepeatBefore
  <2>2. ASSUME NEW i \in 1 .. n, NEW j \in 1 .. n, i < j PROVE ~ SameFailure(records', i, j)
    BY <1>3, <1>4, <2>1, <2>2 DEF SameFailure
  <2>3. \A i \in 1 .. n : ~ SameFailure(records', i, n + 1)
    BY <1>3, <1>4, <1>7 DEF SameFailure
  <2>4. \A i, j \in 1 .. n + 1 : i < j => i \in 1 .. n /\ (j = n + 1 \/ j \in 1 .. n)
    BY <1>4
  <2> QED
    BY <1>4, <2>2, <2>3, <2>4 DEF NoRepeatBefore
<1> QED
  BY <1>1, <1>2, <1>3, <1>4, <1>5, <1>6, <1>8 DEF RouterInv, CorrectionInv, FailedIn, NoRepeatBefore

\* The second failure of a skill is the last record, and the first that repeats.
LEMMA FailAgainStep ==
  ASSUME RouterInv, FailAgain PROVE RouterInv'
<1>1. pc = "running" /\ Recorded("error") /\ Running \in spent
      /\ cause' = "skill" /\ pc' = "failing"
  BY DEF FailAgain, Break
<1>2. cause = "none"
  BY <1>1 DEF RouterInv, LoopInv
<1> DEFINE n == Len(records)
<1>3. /\ queue' \in Seq(Names) /\ records' \in Seq(Record)
      /\ Len(records') = n + 1
      /\ records'[n + 1] = [skill |-> Running, status |-> "error"]
      /\ \A i \in DOMAIN records : records'[i] = records[i]
  BY <1>1, RecordAdded
<1>4. n \in Nat /\ DOMAIN records = 1 .. n /\ DOMAIN records' = 1 .. n + 1
  BY <1>3 DEF RouterInv, LoopInv
<1>5. LoopInv'
  BY <1>1, <1>3 DEF LoopInv
<1>6. PICK i \in DOMAIN records : records[i].status = "error" /\ records[i].skill = Running
  BY <1>1, <1>2 DEF RouterInv, CorrectionInv, FailedIn
<1>7. i \in DOMAIN records' /\ i < n + 1 /\ SameFailure(records', i, n + 1)
  BY <1>3, <1>4, <1>6 DEF SameFailure
<1>8. NoRepeatBefore(records', n + 1)
  BY <1>2, <1>3, <1>4 DEF RouterInv, CorrectionInv, FailedIn, NoRepeatBefore, SameFailure
<1> QED
  BY <1>1, <1>3, <1>5, <1>7, <1>8 DEF RouterInv, CorrectionInv, FailedIn, NoRepeatBefore, SameFailure

\* What the code promises follows from the invariant.
LEMMA RouterInvImplies ==
  ASSUME RouterInv PROVE OneCorrectionEach
<1>1. Len(records) \in Nat /\ DOMAIN records = 1 .. Len(records) /\ records \in Seq(Record)
  BY DEF RouterInv, LoopInv
<1>2. \A i, j \in DOMAIN records, s \in Names :
        {i, j} \subseteq Failures(s) <=>
          SameFailure(records, i, j) /\ records[i].skill = s
  <2> TAKE i, j \in DOMAIN records, s \in Names
  <2>1. records[i] \in Record /\ records[j] \in Record
    BY <1>1
  <2>2. \A k \in {i, j} : k \in Failures(s) <=> records[k].skill = s /\ records[k].status = "error"
    BY <2>1 DEF Failures, Record
  <2> QED
    BY <2>2 DEF SameFailure
<1>3. \A i \in DOMAIN records : records[i].skill \in Names
  <2>1. \A i \in DOMAIN records : records[i] \in Record
    BY <1>1
  <2> QED
    BY <2>1 DEF Record
<1>4. \A i, j \in DOMAIN records : i < j /\ SameFailure(records, i, j) => cause = "skill" /\ j = Len(records)
  BY <1>1 DEF RouterInv, CorrectionInv, FailedIn, NoRepeatBefore
<1>5. cause = "skill" => \E i, j \in DOMAIN records : i < j /\ j = Len(records) /\ SameFailure(records, i, j)
  BY <1>1 DEF RouterInv, CorrectionInv
<1>6. \A i, j \in DOMAIN records : SameFailure(records, i, j) => {i, j} \subseteq Failures(records[j].skill)
  BY <1>2, <1>3 DEF SameFailure
<1>7. \A i, j \in DOMAIN records : {i, j} \subseteq Failures(records[j].skill) => SameFailure(records, i, j)
  BY <1>2, <1>3
<1>8. cause = "skill" <=> \E i, j \in DOMAIN records :
        i < j /\ j = Len(records) /\ {i, j} \subseteq Failures(records[j].skill)
  BY <1>4, <1>5, <1>6, <1>7
<1>9. ASSUME NEW s \in Names, NEW i \in DOMAIN records, NEW j \in DOMAIN records,
             i < j, {i, j} \subseteq Failures(s)
      PROVE  j = Len(records)
  BY <1>2, <1>4, <1>9
<1> QED
  BY <1>8, <1>9 DEF OneCorrectionEach

\* The inductive invariant holds throughout.
THEOREM RouterInvariant == Spec => []RouterInv
<1>1. ASSUME RouterInv, [Next]_vars PROVE RouterInv'
  BY <1>1, OtherSteps, SucceedStep, CorrectStep, FailAgainStep DEF Next
<1> QED
  BY <1>1, RouterInit, PTL DEF Spec

\* A skill is corrected once: a turn ends with the second failure of a skill
\* (spent_corrections of run_turn), and with no other.
THEOREM SkillsAreCorrectedOnce == Spec => []OneCorrectionEach
  BY RouterInvariant, RouterInvImplies, PTL

-----------------------------------------------------------------------------
(* Sequences of whatever elements.                                          *)

IsSeq(s) == \E T : s \in Seq(T)

\* Names the provers can leave unexpanded.
Cat(s, t)  == s \o t
AndOne(s, x) == Append(s, x)

LEMMA SeqsTogether ==
  ASSUME NEW s, NEW t, IsSeq(s), IsSeq(t)
  PROVE  \E T : s \in Seq(T) /\ t \in Seq(T)
<1>1. PICK T : s \in Seq(T)
  BY DEF IsSeq
<1>2. PICK U : t \in Seq(U)
  BY DEF IsSeq
<1>3. s \in Seq(T \union U) /\ t \in Seq(T \union U)
  BY <1>1, <1>2
<1> QED
  BY <1>3

LEMMA SeqIs ==
  ASSUME NEW s, IsSeq(s)
  PROVE  /\ Len(s) \in Nat /\ DOMAIN s = 1 .. Len(s)
         /\ s = [i \in 1 .. Len(s) |-> s[i]]
BY DEF IsSeq

LEMMA SameSeq ==
  ASSUME NEW s, NEW t, IsSeq(s), IsSeq(t), Len(s) = Len(t), \A i \in 1 .. Len(s) : s[i] = t[i]
  PROVE  s = t
<1>1. s = [i \in 1 .. Len(s) |-> s[i]] /\ t = [i \in 1 .. Len(t) |-> t[i]]
  BY SeqIs
<1> QED
  BY <1>1

LEMMA OneIsSeq == \A x : IsSeq(<<x>>) /\ Len(<<x>>) = 1 /\ <<x>>[1] = x
<1> SUFFICES ASSUME NEW x PROVE IsSeq(<<x>>) /\ Len(<<x>>) = 1 /\ <<x>>[1] = x
  OBVIOUS
<1>1. <<x>> \in Seq({x})
  OBVIOUS
<1> QED
  BY <1>1 DEF IsSeq

LEMMA NoneIsSeq == IsSeq(<< >>) /\ Len(<< >>) = 0
<1>1. << >> \in Seq({})
  OBVIOUS
<1> QED
  BY <1>1 DEF IsSeq

LEMMA MapIsSeq ==
  ASSUME NEW n \in Nat, NEW f, f = [i \in 1 .. n |-> f[i]]
  PROVE  IsSeq(f) /\ Len(f) = n
<1>1. f \in Seq({f[i] : i \in 1 .. n})
  OBVIOUS
<1>2. Len(f) = n
  BY <1>1
<1> QED
  BY <1>1, <1>2 DEF IsSeq

LEMMA JoinedIs ==
  ASSUME NEW s, NEW t, IsSeq(s), IsSeq(t)
  PROVE  /\ IsSeq(Cat(s, t)) /\ Len(Cat(s, t)) = Len(s) + Len(t)
         /\ \A i \in 1 .. Len(s) : Cat(s, t)[i] = s[i]
         /\ \A i \in 1 .. Len(t) : Cat(s, t)[Len(s) + i] = t[i]
<1>1. PICK T : s \in Seq(T) /\ t \in Seq(T)
  BY SeqsTogether
<1>2. s \o t \in Seq(T)
  BY <1>1
<1> QED
  BY <1>1, <1>2 DEF IsSeq, Cat

LEMMA JoinsAssociate ==
  ASSUME NEW r, NEW s, NEW t, IsSeq(r), IsSeq(s), IsSeq(t)
  PROVE  Cat(Cat(r, s), t) = Cat(r, Cat(s, t))
<1>1. PICK T : s \in Seq(T) /\ t \in Seq(T)
  BY SeqsTogether
<1>2. PICK U : r \in Seq(U)
  BY DEF IsSeq
<1>3. r \in Seq(T \union U) /\ s \in Seq(T \union U) /\ t \in Seq(T \union U)
  BY <1>1, <1>2
<1> QED
  BY <1>3 DEF Cat

LEMMA JoinedToNone ==
  ASSUME NEW s, IsSeq(s)
  PROVE  Cat(s, << >>) = s /\ Cat(<< >>, s) = s
BY DEF IsSeq, Cat

LEMMA AppendIs ==
  ASSUME NEW s, NEW x, IsSeq(s)
  PROVE  /\ IsSeq(AndOne(s, x)) /\ Len(AndOne(s, x)) = Len(s) + 1
         /\ AndOne(s, x)[Len(s) + 1] = x
         /\ \A i \in 1 .. Len(s) : AndOne(s, x)[i] = s[i]
<1>1. PICK T : s \in Seq(T)
  BY DEF IsSeq
<1>2. s \in Seq(T \union {x}) /\ x \in T \union {x}
  BY <1>1
<1>3. Append(s, x) \in Seq(T \union {x})
  BY <1>2
<1> QED
  BY <1>2, <1>3 DEF IsSeq, AndOne

LEMMA AppendIsCat ==
  ASSUME NEW s, NEW x, IsSeq(s)
  PROVE  AndOne(s, x) = Cat(s, <<x>>)
<1>1. PICK T : s \in Seq(T)
  BY DEF IsSeq
<1>2. s \in Seq(T \union {x}) /\ x \in T \union {x}
  BY <1>1
<1> QED
  BY <1>2 DEF Cat, AndOne

LEMMA AppendJoined ==
  ASSUME NEW r, NEW s, NEW x, IsSeq(r), IsSeq(s)
  PROVE  AndOne(Cat(r, s), x) = Cat(r, AndOne(s, x))
<1>1. IsSeq(<<x>>)
  BY OneIsSeq
<1>2. Cat(Cat(r, s), <<x>>) = Cat(r, Cat(s, <<x>>))
  BY <1>1, JoinsAssociate
<1>3. AndOne(Cat(r, s), x) = Cat(Cat(r, s), <<x>>) /\ AndOne(s, x) = Cat(s, <<x>>)
  BY JoinedIs, AppendIsCat
<1> QED
  BY <1>2, <1>3, Zenon

LEMMA OneMoreMapped ==
  ASSUME NEW n \in Nat, NEW f, NEW g,
         IsSeq(f), Len(f) = n, IsSeq(g), Len(g) = n + 1,
         \A i \in 1 .. n : g[i] = f[i]
  PROVE  g = AndOne(f, g[n + 1])
<1>2. ASSUME NEW x, x = g[n + 1] PROVE g = AndOne(f, x)
  <2>1. /\ IsSeq(AndOne(f, x)) /\ Len(AndOne(f, x)) = n + 1 /\ AndOne(f, x)[n + 1] = x
        /\ \A i \in 1 .. n : AndOne(f, x)[i] = f[i]
    <3>1. /\ IsSeq(AndOne(f, x)) /\ Len(AndOne(f, x)) = Len(f) + 1 /\ AndOne(f, x)[Len(f) + 1] = x
          /\ \A i \in 1 .. Len(f) : AndOne(f, x)[i] = f[i]
      BY AppendIs
    <3> QED
      BY <3>1, Zenon
  <2>2. \A i \in 1 .. n + 1 : g[i] = AndOne(f, x)[i]
    <3>1. \A i \in 1 .. n + 1 : i = n + 1 \/ i \in 1 .. n
      OBVIOUS
    <3> QED
      BY <1>2, <2>1, <3>1, Zenon
  <2> QED
    BY <2>1, <2>2, SameSeq
<1> QED
  BY <1>2

\* What is between two places of a longer sequence.
LEMMA BetweenIs ==
  ASSUME NEW s, NEW t, NEW a \in 1 .. Len(s), IsSeq(s), IsSeq(t)
  PROVE  /\ \A b \in a .. Len(s) : SubSeq(Cat(s, t), a, b) = SubSeq(s, a, b) /\ IsSeq(SubSeq(s, a, b))
         /\ SubSeq(Cat(s, t), a, Len(s) + Len(t)) = Cat(SubSeq(s, a, Len(s)), t)
<1>1. PICK T : s \in Seq(T) /\ t \in Seq(T)
  BY SeqsTogether
<1>2. ASSUME NEW b \in a .. Len(s) PROVE SubSeq(s \o t, a, b) = SubSeq(s, a, b) /\ IsSeq(SubSeq(s, a, b))
  <2>1. SubSeq(s, a, b) \in Seq(T) /\ SubSeq(s \o t, a, b) = SubSeq(s, a, b)
    BY <1>1
  <2> QED
    BY <2>1 DEF IsSeq
<1>3. SubSeq(s \o t, a, Len(s) + Len(t)) = SubSeq(s, a, Len(s)) \o t
  <2> DEFINE l == SubSeq(s \o t, a, Len(s) + Len(t))
             r == SubSeq(s, a, Len(s)) \o t
  <2>1. l \in Seq(T) /\ Len(l) = Len(s) + Len(t) - a + 1
    BY <1>1
  <2>2. r \in Seq(T) /\ Len(r) = Len(s) + Len(t) - a + 1
    BY <1>1
  <2>3. \A i \in 1 .. Len(s) + Len(t) - a + 1 : l[i] = r[i]
    BY <1>1
  <2> HIDE DEF l, r
  <2>4. IsSeq(l) /\ IsSeq(r)
    BY <2>1, <2>2 DEF IsSeq
  <2>5. l = r
    BY <2>1, <2>2, <2>3, <2>4, SameSeq
  <2> QED
    BY <2>5 DEF l, r
<1> QED
  BY <1>2, <1>3 DEF Cat

LEMMA RestIsSeq ==
  ASSUME NEW s, NEW a \in 1 .. Len(s), IsSeq(s)
  PROVE  IsSeq(SubSeq(s, a, Len(s)))
<1>1. PICK T : s \in Seq(T)
  BY DEF IsSeq
<1>2. Len(s) \in Nat /\ SubSeq(s, a, Len(s)) \in Seq(T)
  BY <1>1
<1> QED
  BY <1>2 DEF IsSeq

LEMMA Headed ==
  ASSUME NEW t, IsSeq(t), NEW d
  PROVE  /\ IsSeq(Cat(<<d>>, t)) /\ Len(Cat(<<d>>, t)) = 1 + Len(t) /\ Cat(<<d>>, t)[1] = d
         /\ \A i \in 1 .. Len(t) : Cat(<<d>>, t)[1 + i] = t[i]
<1> DEFINE u == <<d>>
<1>1. IsSeq(u) /\ Len(u) = 1 /\ u[1] = d
  BY OneIsSeq
<1> HIDE DEF u
<1>2. /\ IsSeq(Cat(u, t)) /\ Len(Cat(u, t)) = Len(u) + Len(t)
      /\ \A i \in 1 .. Len(u) : Cat(u, t)[i] = u[i]
      /\ \A i \in 1 .. Len(t) : Cat(u, t)[Len(u) + i] = t[i]
  <2>1. IsSeq(u) /\ IsSeq(t)
    BY <1>1
  <2> QED
    BY <2>1, JoinedIs
<1>3. Cat(u, t)[1] = d
  BY <1>1, <1>2
<1>4. /\ IsSeq(Cat(u, t)) /\ Len(Cat(u, t)) = 1 + Len(t) /\ Cat(u, t)[1] = d
      /\ \A i \in 1 .. Len(t) : Cat(u, t)[1 + i] = t[i]
  BY <1>1, <1>2, <1>3
<1> QED
  BY <1>4 DEF u

-----------------------------------------------------------------------------
(* The wire: where each dispatch starts, and the parts shown since.         *)

ShowFold   == INSTANCE FoldFacts WITH Op <- ShowPart
RecordFold == INSTANCE FoldFacts WITH Op <- RecordFrame

PartsAmong(fs)     == FoldLeft(ShowPart, << >>, fs)
After(before, fs)   == FoldLeft(RecordFrame, before, fs)

LEMMA AmongIs == \A fs : PartsAmong(fs) = ShowFold!Folded(<< >>, fs)
BY DEF PartsAmong, FoldLeft, MapThenFoldSet, Max,
       ShowFold!Folded, ShowFold!FoldLeft, ShowFold!MapThenFoldSet, ShowFold!Max

LEMMA AfterIs == \A before, fs : After(before, fs) = RecordFold!Folded(before, fs)
BY DEF After, FoldLeft, MapThenFoldSet, Max,
       RecordFold!Folded, RecordFold!FoldLeft, RecordFold!MapThenFoldSet, RecordFold!Max

\* A step that sends folds what it sends into the message.
LEMMA AfterBoth ==
  ASSUME NEW before, NEW s, NEW t, IsSeq(s), IsSeq(t)
  PROVE  After(before, Cat(s, t)) = After(After(before, s), t)
<1>1. PICK T : s \in Seq(T) /\ t \in Seq(T)
  BY SeqsTogether
<1>2. \A b : RecordFold!Folded(b, s \o t) = RecordFold!Folded(RecordFold!Folded(b, s), t)
  BY <1>1, RecordFold!FoldedBoth
<1> QED
  BY <1>2, AfterIs DEF Cat

LEMMA AfterFew ==
  ASSUME NEW before
  PROVE  /\ After(before, << >>) = before
         /\ \A x : After(before, <<x>>) = RecordFrame(before, x)
<1>1. RecordFold!Folded(before, << >>) = before
  BY RecordFold!FoldedNone
<1>2. \A x : RecordFold!Folded(before, <<x>>) = RecordFrame(before, x)
  BY RecordFold!FoldedOne
<1> QED
  BY <1>1, <1>2, AfterIs

\* The parts among frames are those of the frames that are parts.
LEMMA AmongMore ==
  ASSUME NEW s, NEW x, IsSeq(s)
  PROVE  /\ x.name = "part" => PartsAmong(AndOne(s, x)) = AndOne(PartsAmong(s), x)
         /\ x.name # "part" => PartsAmong(AndOne(s, x)) = PartsAmong(s)
<1>1. PICK T : s \in Seq(T)
  BY DEF IsSeq
<1>2. ShowFold!Folded(<< >>, Append(s, x)) = ShowPart(ShowFold!Folded(<< >>, s), x)
  BY <1>1, ShowFold!FoldedMore
<1> QED
  BY <1>2, AmongIs DEF ShowPart, AndOne

LEMMA AmongNone == PartsAmong(<< >>) = << >>
BY AmongIs, ShowFold!FoldedNone

\* What holds of the empty sequence and of one more element holds of all.
LEMMA SeqInduction ==
  ASSUME NEW T, NEW S \in SUBSET Seq(T), << >> \in S,
         \A s \in S, x \in T : AndOne(s, x) \in S
  PROVE  S = Seq(T)
<1>1. \A s \in S, x \in T : Append(s, x) \in S
  BY DEF AndOne
<1> QED
  BY <1>1, ShowFold!SequenceInduction

LEMMA Extended ==
  ASSUME NEW T, NEW s \in Seq(T), NEW x \in T
  PROVE  IsSeq(s) /\ AndOne(s, x) \in Seq(T)
BY DEF IsSeq, AndOne

LEMMA AmongIsSeq ==
  ASSUME NEW s, IsSeq(s)
  PROVE  IsSeq(PartsAmong(s))
<1>1. PICK T : s \in Seq(T)
  BY DEF IsSeq
<1> DEFINE S == {r \in Seq(T) : IsSeq(PartsAmong(r))}
<1>2. << >> \in S
  BY AmongNone, NoneIsSeq
<1>3. ASSUME NEW r \in S, NEW x \in T PROVE AndOne(r, x) \in S
  <2>1. IsSeq(r) /\ AndOne(r, x) \in Seq(T)
    BY Extended
  <2>2. IsSeq(PartsAmong(r))
    OBVIOUS
  <2>3. IsSeq(AndOne(PartsAmong(r), x))
    BY <2>2, AppendIs
  <2>4. IsSeq(PartsAmong(AndOne(r, x)))
    BY <2>1, <2>2, <2>3, AmongMore
  <2> QED
    BY <2>1, <2>4
<1> HIDE DEF S
<1>4. S = Seq(T)
  <2>1. S \in SUBSET Seq(T)
    BY DEF S
  <2> QED
    BY <1>2, <1>3, <2>1, SeqInduction
<1> QED
  BY <1>1, <1>4 DEF S

LEMMA AmongBoth ==
  ASSUME NEW s, NEW t, IsSeq(s), IsSeq(t)
  PROVE  PartsAmong(Cat(s, t)) = Cat(PartsAmong(s), PartsAmong(t))
<1>1. PICK T : s \in Seq(T) /\ t \in Seq(T)
  BY SeqsTogether
<1> DEFINE S == {r \in Seq(T) : PartsAmong(Cat(s, r)) = Cat(PartsAmong(s), PartsAmong(r))}
<1>2. << >> \in S
  <2>1. Cat(s, << >>) = s /\ Cat(PartsAmong(s), << >>) = PartsAmong(s)
    BY JoinedToNone, AmongIsSeq
  <2>2. PartsAmong(Cat(s, << >>)) = Cat(PartsAmong(s), PartsAmong(<< >>))
    BY <2>1, AmongNone, Zenon
  <2> QED
    BY <2>2
<1>3. ASSUME NEW r \in S, NEW x \in T PROVE AndOne(r, x) \in S
  <2>1. IsSeq(r) /\ AndOne(r, x) \in Seq(T) /\ IsSeq(PartsAmong(s)) /\ IsSeq(PartsAmong(r))
    BY Extended, AmongIsSeq
  <2>2. Cat(s, AndOne(r, x)) = AndOne(Cat(s, r), x) /\ IsSeq(Cat(s, r))
    BY <2>1, AppendJoined, JoinedIs
  <2>3. PartsAmong(Cat(s, r)) = Cat(PartsAmong(s), PartsAmong(r))
    OBVIOUS
  <2>4. AndOne(Cat(PartsAmong(s), PartsAmong(r)), x) = Cat(PartsAmong(s), AndOne(PartsAmong(r), x))
    BY <2>1, AppendJoined
  <2>5. PartsAmong(Cat(s, AndOne(r, x))) = Cat(PartsAmong(s), PartsAmong(AndOne(r, x)))
    <3>1. CASE x.name = "part"
      <4>1. /\ PartsAmong(AndOne(Cat(s, r), x)) = AndOne(PartsAmong(Cat(s, r)), x)
            /\ PartsAmong(AndOne(r, x)) = AndOne(PartsAmong(r), x)
        BY <2>1, <2>2, <3>1, AmongMore, Zenon
      <4> QED
        BY <2>2, <2>3, <2>4, <4>1, Zenon
    <3>2. CASE x.name # "part"
      <4>1. /\ PartsAmong(AndOne(Cat(s, r), x)) = PartsAmong(Cat(s, r))
            /\ PartsAmong(AndOne(r, x)) = PartsAmong(r)
        BY <2>1, <2>2, <3>2, AmongMore, Zenon
      <4> QED
        BY <2>2, <2>3, <4>1, Zenon
    <3> QED
      BY <3>1, <3>2
  <2> QED
    BY <2>1, <2>5
<1> HIDE DEF S
<1>4. S = Seq(T)
  <2>1. S \in SUBSET Seq(T)
    BY DEF S
  <2> QED
    BY <1>2, <1>3, <2>1, SeqInduction
<1> QED
  BY <1>1, <1>4 DEF S

LEMMA AmongOne ==
  /\ \A x : x.name = "part" => PartsAmong(<<x>>) = <<x>>
  /\ \A x : x.name # "part" => PartsAmong(<<x>>) = << >>
<1>1. \A x : PartsAmong(<<x>>) = ShowPart(<< >>, x)
  BY AmongIs, ShowFold!FoldedOne
<1>2. \A x : Append(<< >>, x) = <<x>>
  OBVIOUS
<1> QED
  BY <1>1, <1>2 DEF ShowPart

\* The parts of a result are parts, and so is each of them in the message.
KeptOf(ps) == [i \in DOMAIN ps |-> Kept(ps[i])]

LEMMA PartsAppended ==
  ASSUME NEW ps, NEW p, IsSeq(ps)
  PROVE  /\ Parts(AndOne(ps, p)) = AndOne(Parts(ps), Frame("part", p))
         /\ KeptOf(AndOne(ps, p)) = AndOne(KeptOf(ps), Kept(p))
<1> DEFINE n == Len(ps)
           r == AndOne(ps, p)
<1>1. n \in Nat /\ DOMAIN ps = 1 .. n /\ IsSeq(r) /\ Len(r) = n + 1
      /\ r[n + 1] = p /\ \A i \in 1 .. n : r[i] = ps[i]
  <2>1. n \in Nat /\ DOMAIN ps = 1 .. n
    BY SeqIs
  <2>2. IsSeq(r) /\ Len(r) = n + 1 /\ r[n + 1] = p /\ \A i \in 1 .. n : r[i] = ps[i]
    BY AppendIs
  <2> QED
    BY <2>1, <2>2
<1>2. DOMAIN r = 1 .. n + 1
  BY <1>1, SeqIs
<1> HIDE DEF r, n
<1>3. /\ Parts(ps) = [i \in 1 .. n |-> Parts(ps)[i]] /\ Parts(r) = [i \in 1 .. n + 1 |-> Parts(r)[i]]
      /\ Parts(r)[n + 1] = Frame("part", p) /\ \A i \in 1 .. n : Parts(r)[i] = Parts(ps)[i]
  BY <1>1, <1>2 DEF Parts
<1>4. /\ KeptOf(ps) = [i \in 1 .. n |-> KeptOf(ps)[i]] /\ KeptOf(r) = [i \in 1 .. n + 1 |-> KeptOf(r)[i]]
      /\ KeptOf(r)[n + 1] = Kept(p) /\ \A i \in 1 .. n : KeptOf(r)[i] = KeptOf(ps)[i]
  BY <1>1, <1>2 DEF KeptOf
<1> DEFINE f == Parts(ps)
           g == Parts(r)
           h == KeptOf(ps)
           k == KeptOf(r)
<1> HIDE DEF f, g, h, k
<1>5. Parts(r) = AndOne(Parts(ps), Parts(r)[n + 1])
  <2>1. IsSeq(f) /\ Len(f) = n /\ IsSeq(g) /\ Len(g) = n + 1
    BY <1>1, <1>3, <1>4, MapIsSeq DEF f, g
  <2>3. \A i \in 1 .. n : g[i] = f[i]
    BY <1>3 DEF f, g
  <2>2. g = AndOne(f, g[n + 1])
    BY <1>1, <2>1, <2>3, OneMoreMapped
  <2> QED
    BY <2>2 DEF f, g
<1>6. KeptOf(r) = AndOne(KeptOf(ps), KeptOf(r)[n + 1])
  <2>1. IsSeq(h) /\ Len(h) = n /\ IsSeq(k) /\ Len(k) = n + 1
    BY <1>1, <1>3, <1>4, MapIsSeq DEF h, k
  <2>3. \A i \in 1 .. n : k[i] = h[i]
    BY <1>4 DEF h, k
  <2>2. k = AndOne(h, k[n + 1])
    BY <1>1, <2>1, <2>3, OneMoreMapped
  <2> QED
    BY <2>2 DEF h, k
<1>7. Parts(r) = AndOne(Parts(ps), Frame("part", p)) /\ KeptOf(r) = AndOne(KeptOf(ps), Kept(p))
  BY <1>3, <1>4, <1>5, <1>6, Zenon
<1> QED
  BY <1>7 DEF r

LEMMA PartsAreSeqs ==
  ASSUME NEW ps, IsSeq(ps)
  PROVE  IsSeq(Parts(ps)) /\ IsSeq(KeptOf(ps))
<1>1. Len(ps) \in Nat /\ DOMAIN ps = 1 .. Len(ps)
  BY SeqIs
<1>2. /\ Parts(ps) = [i \in 1 .. Len(ps) |-> Parts(ps)[i]]
      /\ KeptOf(ps) = [i \in 1 .. Len(ps) |-> KeptOf(ps)[i]]
  BY <1>1 DEF Parts, KeptOf
<1> QED
  BY <1>1, <1>2, MapIsSeq

LEMMA PartsAre ==
  ASSUME NEW ps, IsSeq(ps)
  PROVE  /\ PartsAmong(Parts(ps)) = Parts(ps)
         /\ \A before : IsSeq(before) => After(before, Parts(ps)) = Cat(before, KeptOf(ps))
<1>1. PICK T : ps \in Seq(T)
  BY DEF IsSeq
<1> DEFINE S == {r \in Seq(T) :
                   /\ PartsAmong(Parts(r)) = Parts(r)
                   /\ \A before : IsSeq(before) => After(before, Parts(r)) = Cat(before, KeptOf(r))}
<1>3. << >> \in S
  <2>1. Parts(<< >>) = << >> /\ KeptOf(<< >>) = << >>
    BY DEF Parts, KeptOf
  <2>2. PartsAmong(Parts(<< >>)) = Parts(<< >>)
    BY <2>1, AmongNone, Zenon
  <2>3. ASSUME NEW before, IsSeq(before)
        PROVE  After(before, Parts(<< >>)) = Cat(before, KeptOf(<< >>))
    BY <2>1, <2>3, JoinedToNone, AfterFew, Zenon
  <2> QED
    BY <2>2, <2>3
<1>4. ASSUME NEW r \in S, NEW p \in T PROVE AndOne(r, p) \in S
  <2> DEFINE f == Frame("part", p)
  <2>1. IsSeq(r) /\ AndOne(r, p) \in Seq(T) /\ IsSeq(Parts(r)) /\ IsSeq(KeptOf(r))
    BY Extended, PartsAreSeqs
  <2>2. Parts(AndOne(r, p)) = AndOne(Parts(r), f) /\ KeptOf(AndOne(r, p)) = AndOne(KeptOf(r), Kept(p))
    BY <2>1, PartsAppended
  <2>3. f.name = "part" /\ f.value = p
    BY DEF Frame
  <2> HIDE DEF f
  <2>4. PartsAmong(AndOne(Parts(r), f)) = AndOne(Parts(r), f)
    <3>1. PartsAmong(Parts(r)) = Parts(r)
      OBVIOUS
    <3> QED
      BY <2>1, <2>3, <3>1, AmongMore, Zenon
  <2>5. ASSUME NEW before, IsSeq(before)
        PROVE  After(before, AndOne(Parts(r), f)) = Cat(before, AndOne(KeptOf(r), Kept(p)))
    <3>1. After(before, Parts(r)) = Cat(before, KeptOf(r))
      BY <2>5
    <3>2. AndOne(Parts(r), f) = Cat(Parts(r), <<f>>) /\ IsSeq(<<f>>)
      BY <2>1, AppendIsCat, OneIsSeq
    <3>3. After(before, Cat(Parts(r), <<f>>)) = After(After(before, Parts(r)), <<f>>)
      BY <2>1, <3>2, AfterBoth
    <3>4. \A a : After(a, <<f>>) = AndOne(a, Kept(p))
      <4>1. \A a : RecordFrame(a, f) = Append(a, Kept(p))
        BY <2>3 DEF RecordFrame
      <4>2. \A a : After(a, <<f>>) = RecordFrame(a, f)
        BY AfterFew, Zenon
      <4> QED
        BY <4>1, <4>2, Zenon DEF AndOne
    <3>5. AndOne(Cat(before, KeptOf(r)), Kept(p)) = Cat(before, AndOne(KeptOf(r), Kept(p)))
      BY <2>1, <2>5, AppendJoined
    <3> QED
      BY <3>1, <3>2, <3>3, <3>4, <3>5, Zenon
  <2>6. PartsAmong(Parts(AndOne(r, p))) = Parts(AndOne(r, p))
    BY <2>2, <2>4, Zenon
  <2>7. \A before : IsSeq(before) => After(before, Parts(AndOne(r, p))) = Cat(before, KeptOf(AndOne(r, p)))
    BY <2>2, <2>5, Zenon
  <2> QED
    BY <2>1, <2>6, <2>7
<1> HIDE DEF S
<1>5. S = Seq(T)
  <2>1. S \in SUBSET Seq(T)
    BY DEF S
  <2> QED
    BY <1>3, <1>4, <2>1, SeqInduction
<1> QED
  BY <1>1, <1>5 DEF S

\* Where dispatch i starts, and what is shown of it when n have started.
Starting(f) == f.name = "tool" /\ f.value.status = "start"
IsStart(fs, k, i) == k \in DOMAIN fs /\ Starting(fs[k]) /\ fs[k].value.seq = i
StartIn(fs, i) ==
  CHOOSE k \in DOMAIN fs : fs[k].name = "tool" /\ fs[k].value.seq = i /\ fs[k].value.status = "start"
PartsIn(fs, n, i) ==
  PartsAmong(SubSeq(fs, StartIn(fs, i), IF i < n THEN StartIn(fs, i + 1) ELSE Len(fs)))

\* Every dispatch starts at one place, in their order.
Wire(fs, n) ==
  /\ IsSeq(fs)
  /\ \A i \in 1 .. n : IsStart(fs, StartIn(fs, i), i)
  /\ \A k \in DOMAIN fs : Starting(fs[k]) => \E i \in 1 .. n : k = StartIn(fs, i)
  /\ \A i \in 1 .. n : i < n => StartIn(fs, i) < StartIn(fs, i + 1)

LEMMA StartIs ==
  ASSUME NEW fs, NEW k, NEW i, IsStart(fs, k, i), \A m : IsStart(fs, m, i) => m = k
  PROVE  StartIn(fs, i) = k
BY DEF IsStart, StartIn, Starting

LEMMA OneStart ==
  ASSUME NEW fs, NEW n \in Nat, Wire(fs, n), NEW i \in 1 .. n, NEW m, IsStart(fs, m, i)
  PROVE  m = StartIn(fs, i)
<1>1. PICK j \in 1 .. n : m = StartIn(fs, j)
  BY DEF Wire, IsStart
<1>2. IsStart(fs, m, j)
  BY <1>1 DEF Wire
<1> QED
  BY <1>1, <1>2 DEF IsStart

LEMMA Longer ==
  ASSUME NEW fs, NEW gs, NEW n \in Nat, Wire(fs, n), IsSeq(gs),
         \A k \in DOMAIN gs : ~ Starting(gs[k])
  PROVE  /\ Wire(Cat(fs, gs), n)
         /\ \A i \in 1 .. n : StartIn(Cat(fs, gs), i) = StartIn(fs, i)
<1> DEFINE l == Cat(fs, gs)
<1>1. IsSeq(fs)
  BY DEF Wire
<1>2. /\ IsSeq(l) /\ Len(l) = Len(fs) + Len(gs)
      /\ \A i \in 1 .. Len(fs) : l[i] = fs[i]
      /\ \A i \in 1 .. Len(gs) : l[Len(fs) + i] = gs[i]
  BY <1>1, JoinedIs
<1>3. /\ Len(fs) \in Nat /\ Len(gs) \in Nat /\ DOMAIN fs = 1 .. Len(fs) /\ DOMAIN gs = 1 .. Len(gs)
      /\ DOMAIN l = 1 .. Len(fs) + Len(gs)
  BY <1>1, <1>2, SeqIs
<1> HIDE DEF l
<1>4. ASSUME NEW k \in DOMAIN l, Starting(l[k]) PROVE k \in DOMAIN fs /\ Starting(fs[k])
  <2>1. CASE k \in 1 .. Len(fs)
    BY <1>2, <1>3, <1>4, <2>1
  <2>2. CASE k \notin 1 .. Len(fs)
    <3>1. k - Len(fs) \in 1 .. Len(gs) /\ k = Len(fs) + (k - Len(fs))
      BY <1>3, <2>2
    <3>2. l[k] = gs[k - Len(fs)]
      BY <1>2, <3>1
    <3> QED
      BY <1>3, <1>4, <3>1, <3>2
  <2> QED
    BY <2>1, <2>2
<1>5. ASSUME NEW k \in DOMAIN fs PROVE k \in DOMAIN l /\ l[k] = fs[k]
  BY <1>2, <1>3
<1>6. ASSUME NEW i \in 1 .. n PROVE StartIn(l, i) = StartIn(fs, i) /\ IsStart(l, StartIn(fs, i), i)
  <2>1. IsStart(fs, StartIn(fs, i), i)
    BY DEF Wire
  <2>2. IsStart(l, StartIn(fs, i), i)
    BY <1>5, <2>1 DEF IsStart
  <2>3. ASSUME NEW m, IsStart(l, m, i) PROVE m = StartIn(fs, i)
    <3>1. IsStart(fs, m, i)
      BY <1>4, <1>5, <2>3 DEF IsStart
    <3> QED
      BY <3>1, OneStart
  <2> QED
    BY <2>2, <2>3, StartIs
<1>7. Wire(l, n)
  <2>1. \A i \in 1 .. n : IsStart(l, StartIn(l, i), i)
    BY <1>6
  <2>2. ASSUME NEW k \in DOMAIN l, Starting(l[k]) PROVE \E i \in 1 .. n : k = StartIn(l, i)
    <3>1. k \in DOMAIN fs /\ Starting(fs[k])
      BY <1>4, <2>2
    <3>2. PICK i \in 1 .. n : k = StartIn(fs, i)
      BY <3>1 DEF Wire
    <3> QED
      BY <1>6, <3>2
  <2>3. ASSUME NEW i \in 1 .. n, i < n PROVE StartIn(l, i) < StartIn(l, i + 1)
    <3>1. StartIn(fs, i) < StartIn(fs, i + 1) /\ i + 1 \in 1 .. n
      BY <2>3 DEF Wire
    <3> QED
      BY <1>6, <3>1
  <2> QED
    BY <1>2, <2>1, <2>2, <2>3 DEF Wire
<1> QED
  BY <1>6, <1>7 DEF l

LEMMA LongerParts ==
  ASSUME NEW fs, NEW gs, NEW n \in Nat, Wire(fs, n), IsSeq(gs),
         \A k \in DOMAIN gs : ~ Starting(gs[k]), NEW i \in 1 .. n
  PROVE  /\ i < n => PartsIn(Cat(fs, gs), n, i) = PartsIn(fs, n, i)
         /\ i = n => PartsIn(Cat(fs, gs), n, i) = Cat(PartsIn(fs, n, i), PartsAmong(gs))
<1> DEFINE l == Cat(fs, gs)
           a == StartIn(fs, i)
<1>1. IsSeq(fs) /\ IsStart(fs, a, i)
  BY DEF Wire
<1>2. \A j \in 1 .. n : StartIn(l, j) = StartIn(fs, j)
  BY Longer
<1>3. Len(l) = Len(fs) + Len(gs)
  BY <1>1, JoinedIs
<1>4. a \in 1 .. Len(fs) /\ Len(fs) \in Nat
  BY <1>1, SeqIs DEF IsStart
<1>5. /\ \A b \in a .. Len(fs) : SubSeq(l, a, b) = SubSeq(fs, a, b) /\ IsSeq(SubSeq(fs, a, b))
      /\ SubSeq(l, a, Len(fs) + Len(gs)) = Cat(SubSeq(fs, a, Len(fs)), gs)
  BY <1>1, <1>4, BetweenIs
<1>6. StartIn(l, i) = a
  BY <1>2
<1>7. ASSUME i < n PROVE PartsIn(l, n, i) = PartsIn(fs, n, i)
  <2> DEFINE b == StartIn(fs, i + 1)
  <2>1. i + 1 \in 1 .. n
    BY <1>7
  <2>2. a < b /\ IsStart(fs, b, i + 1) /\ StartIn(l, i + 1) = b
    BY <1>2, <1>7, <2>1 DEF Wire
  <2>3. b \in 1 .. Len(fs)
    BY <1>1, <2>2, SeqIs DEF IsStart
  <2>4. b \in a .. Len(fs)
    BY <1>4, <2>2, <2>3
  <2>5. SubSeq(l, a, b) = SubSeq(fs, a, b)
    BY <1>5, <2>4
  <2>6. PartsIn(l, n, i) = PartsAmong(SubSeq(l, a, b)) /\ PartsIn(fs, n, i) = PartsAmong(SubSeq(fs, a, b))
    BY <1>6, <1>7, <2>2 DEF PartsIn
  <2> QED
    BY <2>5, <2>6, Zenon
<1>8. ASSUME i = n PROVE PartsIn(l, n, i) = Cat(PartsIn(fs, n, i), PartsAmong(gs))
  <2>1. ~ (i < n)
    BY <1>8
  <2>2. /\ PartsIn(l, n, i) = PartsAmong(SubSeq(l, a, Len(fs) + Len(gs)))
        /\ PartsIn(fs, n, i) = PartsAmong(SubSeq(fs, a, Len(fs)))
    BY <1>3, <1>6, <2>1 DEF PartsIn
  <2>3. IsSeq(SubSeq(fs, a, Len(fs)))
    BY <1>4, <1>5
  <2>4. PartsAmong(Cat(SubSeq(fs, a, Len(fs)), gs)) = Cat(PartsAmong(SubSeq(fs, a, Len(fs))), PartsAmong(gs))
    BY <2>3, AmongBoth
  <2> QED
    BY <1>5, <2>2, <2>4, Zenon
<1> QED
  BY <1>7, <1>8

LEMMA OneMoreStart ==
  ASSUME NEW fs, NEW f, NEW n \in Nat, Wire(fs, n), Starting(f), f.value.seq = n + 1
  PROVE  /\ Wire(AndOne(fs, f), n + 1)
         /\ \A i \in 1 .. n : StartIn(AndOne(fs, f), i) = StartIn(fs, i)
         /\ StartIn(AndOne(fs, f), n + 1) = Len(fs) + 1
<1> DEFINE l == AndOne(fs, f)
<1>1. IsSeq(fs)
  BY DEF Wire
<1>2. /\ IsSeq(l) /\ Len(l) = Len(fs) + 1 /\ l[Len(fs) + 1] = f
      /\ \A i \in 1 .. Len(fs) : l[i] = fs[i]
  BY <1>1, AppendIs
<1>3. Len(fs) \in Nat /\ DOMAIN fs = 1 .. Len(fs) /\ DOMAIN l = 1 .. Len(fs) + 1
  BY <1>1, <1>2, SeqIs
<1> HIDE DEF l
<1>4. ASSUME NEW k \in DOMAIN l PROVE k = Len(fs) + 1 \/ (k \in DOMAIN fs /\ l[k] = fs[k])
  BY <1>2, <1>3
<1>5. ASSUME NEW k \in DOMAIN fs PROVE k \in DOMAIN l /\ l[k] = fs[k] /\ k # Len(fs) + 1
  BY <1>2, <1>3
<1>6. IsStart(l, Len(fs) + 1, n + 1)
  BY <1>2, <1>3 DEF IsStart
<1>7. ASSUME NEW m, IsStart(fs, m, n + 1) PROVE FALSE
  <2>1. PICK j \in 1 .. n : m = StartIn(fs, j)
    BY <1>7 DEF Wire, IsStart
  <2>2. IsStart(fs, m, j)
    BY <2>1 DEF Wire
  <2> QED
    BY <1>7, <2>2 DEF IsStart
<1>8. StartIn(l, n + 1) = Len(fs) + 1
  <2>1. ASSUME NEW m, IsStart(l, m, n + 1) PROVE m = Len(fs) + 1
    BY <1>4, <1>7, <2>1 DEF IsStart
  <2> QED
    BY <1>6, <2>1, StartIs
<1>9. ASSUME NEW i \in 1 .. n PROVE StartIn(l, i) = StartIn(fs, i) /\ IsStart(l, StartIn(fs, i), i)
  <2>1. IsStart(fs, StartIn(fs, i), i)
    BY DEF Wire
  <2>2. IsStart(l, StartIn(fs, i), i)
    BY <1>5, <2>1 DEF IsStart
  <2>3. ASSUME NEW m, IsStart(l, m, i) PROVE m = StartIn(fs, i)
    <3>1. m # Len(fs) + 1
      BY <1>2, <2>3 DEF IsStart
    <3>2. IsStart(fs, m, i)
      BY <1>4, <2>3, <3>1 DEF IsStart
    <3> QED
      BY <3>2, OneStart
  <2> QED
    BY <2>2, <2>3, StartIs
<1>10. Wire(l, n + 1)
  <2>1. \A i \in 1 .. n + 1 : i = n + 1 \/ i \in 1 .. n
    OBVIOUS
  <2>2. \A i \in 1 .. n + 1 : IsStart(l, StartIn(l, i), i)
    BY <1>6, <1>8, <1>9, <2>1
  <2>3. ASSUME NEW k \in DOMAIN l, Starting(l[k]) PROVE \E i \in 1 .. n + 1 : k = StartIn(l, i)
    <3>1. CASE k = Len(fs) + 1
      BY <1>8, <3>1
    <3>2. CASE k \in DOMAIN fs /\ l[k] = fs[k]
      <4>1. PICK i \in 1 .. n : k = StartIn(fs, i)
        BY <2>3, <3>2 DEF Wire
      <4> QED
        BY <1>9, <4>1
    <3> QED
      BY <1>4, <3>1, <3>2
  <2>4. ASSUME NEW i \in 1 .. n + 1, i < n + 1 PROVE StartIn(l, i) < StartIn(l, i + 1)
    <3>1. i \in 1 .. n
      BY <2>4
    <3>2. CASE i = n
      <4>1. StartIn(fs, i) \in 1 .. Len(fs)
        BY <1>3, <3>1 DEF Wire, IsStart
      <4> QED
        BY <1>3, <1>8, <1>9, <3>1, <3>2, <4>1
    <3>3. CASE i < n
      <4>1. StartIn(fs, i) < StartIn(fs, i + 1) /\ i + 1 \in 1 .. n
        BY <3>1, <3>3 DEF Wire
      <4> QED
        BY <1>9, <3>1, <4>1
    <3> QED
      BY <3>1, <3>2, <3>3
  <2> QED
    BY <1>2, <2>2, <2>3, <2>4 DEF Wire
<1> QED
  BY <1>8, <1>9, <1>10 DEF l

LEMMA OneMoreShown ==
  ASSUME NEW fs, NEW f, NEW n \in Nat, Wire(fs, n), Starting(f), f.value.seq = n + 1
  PROVE  /\ \A i \in 1 .. n : PartsIn(AndOne(fs, f), n + 1, i) = PartsIn(fs, n, i)
         /\ PartsIn(AndOne(fs, f), n + 1, n + 1) = << >>
<1> DEFINE l == AndOne(fs, f)
<1>1. IsSeq(fs) /\ IsSeq(<<f>>) /\ Len(<<f>>) = 1 /\ f.name # "part"
  BY OneIsSeq DEF Wire, Starting
<1>2. l = Cat(fs, <<f>>) /\ Len(l) = Len(fs) + 1 /\ IsSeq(l) /\ l[Len(fs) + 1] = f
  BY <1>1, AppendIs, AppendIsCat
<1>3. /\ \A i \in 1 .. n : StartIn(l, i) = StartIn(fs, i)
      /\ StartIn(l, n + 1) = Len(fs) + 1
  BY OneMoreStart
<1>4. Len(fs) \in Nat
  BY <1>1, SeqIs
<1> HIDE DEF l
<1>5. ASSUME NEW i \in 1 .. n PROVE PartsIn(l, n + 1, i) = PartsIn(fs, n, i)
  <2> DEFINE a == StartIn(fs, i)
  <2>1. a \in 1 .. Len(fs)
    BY <1>1, SeqIs DEF Wire, IsStart
  <2>2. /\ \A b \in a .. Len(fs) : SubSeq(l, a, b) = SubSeq(fs, a, b) /\ IsSeq(SubSeq(fs, a, b))
        /\ SubSeq(l, a, Len(fs) + 1) = Cat(SubSeq(fs, a, Len(fs)), <<f>>)
    BY <1>1, <1>2, <2>1, BetweenIs
  <2>3. CASE i = n
    <3>1. PartsIn(l, n + 1, i) = PartsAmong(SubSeq(l, a, Len(fs) + 1))
      BY <1>3, <2>3 DEF PartsIn
    <3>2. PartsIn(fs, n, i) = PartsAmong(SubSeq(fs, a, Len(fs)))
      BY <2>3 DEF PartsIn
    <3>3. IsSeq(SubSeq(fs, a, Len(fs)))
      BY <1>4, <2>1, <2>2
    <3>4. PartsAmong(Cat(SubSeq(fs, a, Len(fs)), <<f>>)) = Cat(PartsAmong(SubSeq(fs, a, Len(fs))), PartsAmong(<<f>>))
      BY <1>1, <3>3, AmongBoth
    <3>5. PartsAmong(<<f>>) = << >>
      BY <1>1, AmongOne
    <3>6. Cat(PartsAmong(SubSeq(fs, a, Len(fs))), << >>) = PartsAmong(SubSeq(fs, a, Len(fs)))
      BY <3>3, AmongIsSeq, JoinedToNone
    <3> QED
      BY <2>2, <3>1, <3>2, <3>4, <3>5, <3>6, Zenon
  <2>4. CASE i < n
    <3> DEFINE b == StartIn(fs, i + 1)
    <3>1. i + 1 \in 1 .. n /\ i < n + 1
      BY <2>4
    <3>2. a < b /\ IsStart(fs, b, i + 1) /\ StartIn(l, i + 1) = b
      BY <1>3, <2>4, <3>1 DEF Wire
    <3>3. b \in a .. Len(fs)
      BY <1>1, <1>4, <2>1, <3>2, SeqIs DEF IsStart
    <3>4. SubSeq(l, a, b) = SubSeq(fs, a, b)
      BY <2>2, <3>3
    <3>5. PartsIn(l, n + 1, i) = PartsAmong(SubSeq(l, a, b)) /\ PartsIn(fs, n, i) = PartsAmong(SubSeq(fs, a, b))
      BY <1>3, <2>4, <3>1, <3>2 DEF PartsIn
    <3> QED
      BY <3>4, <3>5, Zenon
  <2> QED
    BY <2>3, <2>4
<1>6. PartsIn(l, n + 1, n + 1) = << >>
  <2>1. PartsIn(l, n + 1, n + 1) = PartsAmong(SubSeq(l, Len(fs) + 1, Len(fs) + 1))
    BY <1>2, <1>3 DEF PartsIn
  <2>2. SubSeq(l, Len(fs) + 1, Len(fs) + 1) = <<f>>
    <3> DEFINE m == Len(fs) + 1
               q == SubSeq(l, m, m)
    <3>1. PICK T : l \in Seq(T)
      BY <1>2 DEF IsSeq
    <3>2. q \in Seq(T) /\ Len(q) = 1 /\ q[1] = l[m]
      BY <1>2, <1>4, <3>1
    <3> HIDE DEF q
    <3>3. IsSeq(q)
      BY <3>2 DEF IsSeq
    <3> DEFINE r == <<f>>
    <3>4. IsSeq(r) /\ Len(r) = 1 /\ r[1] = f
      BY OneIsSeq
    <3> HIDE DEF r
    <3>5. q = r
      BY <1>2, <3>2, <3>3, <3>4, SameSeq
    <3> QED
      BY <3>5 DEF q, r
  <2> QED
    BY <1>1, <2>1, <2>2, AmongOne, Zenon
<1> QED
  BY <1>5, <1>6 DEF l

-----------------------------------------------------------------------------
(* What each dispatch shows.                                                *)

\* The parts a skill has made, so many of them.
First(s, n) == [i \in 1 .. n |-> PartOf(s, i)]

LEMMA FirstIs ==
  ASSUME NEW s, NEW n \in Nat
  PROVE  /\ IsSeq(First(s, n)) /\ Len(First(s, n)) = n
         /\ \A i \in 1 .. n : First(s, n)[i] = PartOf(s, i)
         /\ First(s, n + 1) = AndOne(First(s, n), PartOf(s, n + 1))
<1>1. \A m \in Nat : /\ IsSeq(First(s, m)) /\ Len(First(s, m)) = m
                     /\ \A i \in 1 .. m : First(s, m)[i] = PartOf(s, i)
  <2> SUFFICES ASSUME NEW m \in Nat
               PROVE  /\ IsSeq(First(s, m)) /\ Len(First(s, m)) = m
                      /\ \A i \in 1 .. m : First(s, m)[i] = PartOf(s, i)
    OBVIOUS
  <2>1. First(s, m) = [i \in 1 .. m |-> First(s, m)[i]] /\ \A i \in 1 .. m : First(s, m)[i] = PartOf(s, i)
    BY DEF First
  <2> QED
    BY <2>1, MapIsSeq
<1>2. First(s, n + 1)[n + 1] = PartOf(s, n + 1)
  BY <1>1
<1>3. \A i \in 1 .. n : First(s, n + 1)[i] = First(s, n)[i]
  BY <1>1
<1>4. First(s, n + 1) = AndOne(First(s, n), First(s, n + 1)[n + 1])
  BY <1>1, <1>3, OneMoreMapped
<1> QED
  BY <1>1, <1>2, <1>4

LEMMA SplitAt ==
  ASSUME NEW s, NEW p, IsSeq(s), IsSeq(p), Len(p) <= Len(s), \A i \in 1 .. Len(p) : p[i] = s[i]
  PROVE  /\ IsSeq(SubSeq(s, Len(p) + 1, Len(s)))
         /\ s = Cat(p, SubSeq(s, Len(p) + 1, Len(s)))
<1> DEFINE e == Len(p)
           n == Len(s)
           q == SubSeq(s, e + 1, n)
<1>1. e \in Nat /\ n \in Nat /\ e <= n
  BY SeqIs
<1>2. IsSeq(q) /\ Len(q) = n - e /\ \A i \in 1 .. n - e : q[i] = s[e + i]
  <2>1. PICK T : s \in Seq(T)
    BY DEF IsSeq
  <2>2. q \in Seq(T)
    BY <1>1, <2>1
  <2>3. Len(q) = n - e
    BY <1>1, <2>1
  <2>4. \A i \in 1 .. n - e : q[i] = s[e + i]
    BY <1>1, <2>1
  <2> HIDE DEF q
  <2> QED
    BY <2>2, <2>3, <2>4 DEF IsSeq
<1> HIDE DEF q
<1> DEFINE c == Cat(p, q)
<1>3. /\ IsSeq(c) /\ Len(c) = n /\ \A i \in 1 .. e : c[i] = p[i]
      /\ \A i \in 1 .. n - e : c[e + i] = q[i]
  <2>1. /\ IsSeq(c) /\ Len(c) = e + Len(q) /\ \A i \in 1 .. e : c[i] = p[i]
        /\ \A i \in 1 .. Len(q) : c[e + i] = q[i]
    BY <1>2, JoinedIs
  <2> QED
    BY <1>1, <1>2, <2>1
<1> HIDE DEF c
<1>4. ASSUME NEW i \in 1 .. n PROVE s[i] = c[i]
  <2>1. CASE i \in 1 .. e
    BY <1>3, <2>1
  <2>2. CASE i \notin 1 .. e
    <3>1. PICK j \in 1 .. n - e : i = e + j
      <4>1. i - e \in 1 .. n - e /\ i = e + (i - e)
        BY <1>1, <2>2
      <4> QED
        BY <4>1
    <3> QED
      BY <1>2, <1>3, <3>1
  <2> QED
    BY <2>1, <2>2
<1>5. s = c
  BY <1>1, <1>3, <1>4, SameSeq
<1> QED
  BY <1>2, <1>5 DEF c, q

LEMMA PartsJoined ==
  ASSUME NEW s, NEW t, IsSeq(s), IsSeq(t)
  PROVE  Parts(Cat(s, t)) = Cat(Parts(s), Parts(t))
<1> DEFINE c == Cat(s, t)
           l == Parts(c)
           a == Parts(s)
           b == Parts(t)
           r == Cat(a, b)
<1>1. /\ IsSeq(c) /\ Len(c) = Len(s) + Len(t) /\ Len(s) \in Nat /\ Len(t) \in Nat
      /\ \A i \in 1 .. Len(s) : c[i] = s[i]
      /\ \A i \in 1 .. Len(t) : c[Len(s) + i] = t[i]
  BY JoinedIs, SeqIs
<1>2. \A x : IsSeq(x) => /\ IsSeq(Parts(x)) /\ Len(Parts(x)) = Len(x)
                         /\ \A i \in 1 .. Len(x) : Parts(x)[i] = Frame("part", x[i])
  <2> SUFFICES ASSUME NEW x, IsSeq(x)
               PROVE  /\ IsSeq(Parts(x)) /\ Len(Parts(x)) = Len(x)
                      /\ \A i \in 1 .. Len(x) : Parts(x)[i] = Frame("part", x[i])
    OBVIOUS
  <2>1. Len(x) \in Nat /\ DOMAIN x = 1 .. Len(x)
    BY SeqIs
  <2>2. /\ Parts(x) = [i \in 1 .. Len(x) |-> Parts(x)[i]]
        /\ \A i \in 1 .. Len(x) : Parts(x)[i] = Frame("part", x[i])
    BY <2>1 DEF Parts
  <2> QED
    BY <2>1, <2>2, MapIsSeq
<1> HIDE DEF c
<1>3. /\ IsSeq(a) /\ IsSeq(b) /\ IsSeq(l) /\ Len(l) = Len(s) + Len(t) /\ Len(a) = Len(s) /\ Len(b) = Len(t)
      /\ \A i \in 1 .. Len(s) : a[i] = Frame("part", s[i])
      /\ \A i \in 1 .. Len(t) : b[i] = Frame("part", t[i])
      /\ \A i \in 1 .. Len(s) + Len(t) : l[i] = Frame("part", c[i])
  BY <1>1, <1>2
<1> HIDE DEF l, a, b
<1>4. /\ IsSeq(r) /\ Len(r) = Len(s) + Len(t) /\ \A i \in 1 .. Len(s) : r[i] = a[i]
      /\ \A i \in 1 .. Len(t) : r[Len(s) + i] = b[i]
  <2>1. /\ IsSeq(r) /\ Len(r) = Len(a) + Len(b) /\ \A i \in 1 .. Len(a) : r[i] = a[i]
        /\ \A i \in 1 .. Len(b) : r[Len(a) + i] = b[i]
    <3>1. IsSeq(a) /\ IsSeq(b)
      BY <1>3
    <3> QED
      BY <3>1, JoinedIs
  <2> QED
    BY <1>3, <2>1
<1> HIDE DEF r
<1>5. ASSUME NEW i \in 1 .. Len(s) + Len(t) PROVE l[i] = r[i]
  <2>1. CASE i \in 1 .. Len(s)
    BY <1>1, <1>3, <1>4, <2>1
  <2>2. CASE i \notin 1 .. Len(s)
    <3>1. PICK j \in 1 .. Len(t) : i = Len(s) + j
      <4>1. i - Len(s) \in 1 .. Len(t) /\ i = Len(s) + (i - Len(s))
        BY <1>1, <2>2
      <4> QED
        BY <4>1
    <3> QED
      BY <1>1, <1>3, <1>4, <3>1
  <2> QED
    BY <2>1, <2>2
<1>6. l = r
  BY <1>3, <1>4, <1>5, SameSeq
<1> QED
  BY <1>6 DEF l, r, a, b, c

Settled(fs, n, i, r, result) ==
  IF r.status = "ok" THEN PartsIn(fs, n, i) = Parts(result)
  ELSE /\ i > 1 => PartsIn(fs, n, i) = << >>
       /\ \E k \in Nat : PartsIn(fs, n, i) = Parts(First(r.skill, k))

\* The wire has the start of every dispatch; a dispatch that is over shows what
\* its record says, one at work what was streamed of it, which is all that its
\* skill has made when it is the first and streams.
WireInv ==
  /\ Wire(frames, Started)
  /\ made \in Nat
  /\ IsSeq(results) /\ Len(results) = Len(records)
  /\ \A i \in 1 .. Len(records) :
       IsSeq(results[i]) /\ Settled(frames, Started, i, records[i], results[i])
  /\ records = << >> => streamed \in Nat /\ (pc # "running" => streamed = 0)
  /\ records # << >> => streamed = Retired
  /\ pc = "running" =>
       /\ Early <= made
       /\ records = << >> /\ Running \in Streaming => streamed = made
       /\ PartsIn(frames, Started, Started) = Parts(First(Running, Early))

LEMMA WireInit == Init => WireInv
<1> SUFFICES ASSUME Init PROVE WireInv
  OBVIOUS
<1>1. frames = <<Frame("accepted", 0)>> /\ records = << >> /\ results = << >> /\ streamed = 0
      /\ pc = "calling" /\ made = 0
  BY DEF Init
<1>2. Started = 0 /\ Len(records) = 0
  BY <1>1 DEF Started
<1>3. Wire(frames, 0)
  <2>1. IsSeq(frames) /\ Len(frames) = 1 /\ frames[1] = Frame("accepted", 0)
    BY <1>1, OneIsSeq
  <2>2. DOMAIN frames = 1 .. 1
    BY <2>1, SeqIs
  <2>3. ~ Starting(frames[1])
    BY <2>1 DEF Frame, Starting
  <2> QED
    BY <2>1, <2>2, <2>3 DEF Wire
<1> QED
  BY <1>1, <1>2, <1>3, NoneIsSeq DEF WireInv

\* A step that sends nothing, and leaves no dispatch or begins none.
LEMMA QuietStep ==
  ASSUME WireInv, RouterInv,
         \/ AskForAnswer \/ AskForTools \/ AskInVain \/ AskRaises \/ ReachCap \/ UNCHANGED vars
  PROVE  WireInv'
<1>1. UNCHANGED <<made, records, streamed, results, frames>>
  BY DEF AskForAnswer, AskForTools, AskInVain, AskRaises, ReachCap, vars, loopVars, sinkVars
<1>2. pc' = "running" <=> pc = "running"
  BY DEF AskForAnswer, AskForTools, AskInVain, AskRaises, ReachCap, vars
<1>3. pc = "running" => queue' = queue
  BY DEF AskForAnswer, AskForTools, AskInVain, AskRaises, ReachCap, vars, loopVars
<1>4. Started' = Started
  BY <1>1, <1>2 DEF Started
<1>5. pc = "running" => Early' = Early /\ Running' = Running
  BY <1>1, <1>3 DEF Early, ToolSeq, Running
<1> QED
  BY <1>1, <1>2, <1>4, <1>5 DEF WireInv

\* What is settled stays when the wire grows behind it.
LEMMA StaysSettled ==
  ASSUME WireInv, NEW m, NEW fs, NEW i \in 1 .. Len(records),
         PartsIn(fs, m, i) = PartsIn(frames, Started, i)
  PROVE  Settled(fs, m, i, records[i], results[i])
BY DEF WireInv, Settled

LEMMA Counted ==
  ASSUME RouterInv
  PROVE  /\ Len(records) \in Nat /\ DOMAIN records = 1 .. Len(records)
         /\ Started \in Nat /\ ToolSeq = Len(records) + 1
         /\ pc = "running" => Started = Len(records) + 1
         /\ pc # "running" => Started = Len(records)
         /\ records = << >> <=> Len(records) = 0
BY DEF RouterInv, LoopInv, Started, ToolSeq

LEMMA StartShows ==
  ASSUME WireInv, RouterInv, StartTool
  PROVE  /\ Wire(frames', Started') /\ Started' = Started + 1 /\ Started' = Len(records) + 1
         /\ \A i \in 1 .. Len(records) : PartsIn(frames', Started', i) = PartsIn(frames, Started, i)
         /\ PartsIn(frames', Started', Started') = << >>
<1> DEFINE f == ToolFrame(ToolSeq, Running, "start")
           n == Len(records)
<1>1. /\ pc = "dispatching" /\ frames' = frames \o <<f>> /\ made' = 0 /\ pc' = "running"
      /\ UNCHANGED <<queue, records, streamed, results>>
  BY DEF StartTool, Send
<1>2. n \in Nat /\ ToolSeq = n + 1 /\ Started = n /\ (records = << >> <=> n = 0)
  BY <1>1, Counted
<1>3. Started' = n + 1 /\ Running' = Running
  BY <1>1 DEF Started, Running
<1>4. Starting(f) /\ f.value.seq = n + 1
  BY <1>2 DEF ToolFrame, Frame, Starting
<1> HIDE DEF f
<1>5. Wire(frames, n) /\ IsSeq(frames)
  BY <1>2 DEF WireInv, Wire
<1>6. frames' = AndOne(frames, f)
  BY <1>1, <1>5, AppendIsCat DEF Cat
<1>7. Wire(frames', n + 1)
  BY <1>2, <1>4, <1>5, <1>6, OneMoreStart
<1>8. /\ \A i \in 1 .. n : PartsIn(frames', n + 1, i) = PartsIn(frames, n, i)
      /\ PartsIn(frames', n + 1, n + 1) = << >>
  BY <1>2, <1>4, <1>5, <1>6, OneMoreShown
<1> QED
  BY <1>2, <1>3, <1>7, <1>8

LEMMA StartToolShows ==
  ASSUME WireInv, RouterInv, StartTool
  PROVE  WireInv'
<1> DEFINE n == Len(records)
<1>1. /\ pc = "dispatching" /\ made' = 0 /\ pc' = "running"
      /\ UNCHANGED <<queue, records, streamed, results>>
  BY DEF StartTool
<1>2. n \in Nat /\ ToolSeq = n + 1 /\ Started = n /\ (records = << >> <=> n = 0)
  BY <1>1, Counted
<1>3. Started' = n + 1 /\ Running' = Running
  BY <1>1 DEF Started, Running
<1>7. Wire(frames', n + 1)
  BY <1>3, StartShows
<1>8. /\ \A i \in 1 .. n : PartsIn(frames', n + 1, i) = PartsIn(frames, n, i)
      /\ PartsIn(frames', n + 1, n + 1) = << >>
  BY <1>2, <1>3, StartShows
<1>9. \A i \in 1 .. n : Settled(frames', n + 1, i, records[i], results[i])
  BY <1>2, <1>8, StaysSettled
<1>10. Early' = 0
  <2>1. n = 0 => streamed = 0
    BY <1>1, <1>2 DEF WireInv
  <2> QED
    BY <1>1, <1>2, <2>1 DEF Early, ToolSeq
<1>11. Parts(First(Running, 0)) = << >>
  BY DEF Parts, First
<1>12. records = << >> => streamed = 0
  BY <1>1 DEF WireInv
<1> QED
  BY <1>1, <1>2, <1>3, <1>7, <1>8, <1>9, <1>10, <1>11, <1>12 DEF WireInv

\* What is sent behind a dispatch shows behind what it has shown.
LEMMA SentBehind ==
  ASSUME WireInv, RouterInv, NEW gs, IsSeq(gs), \A k \in DOMAIN gs : ~ Starting(gs[k]),
         frames' = frames \o gs, Started' = Started
  PROVE  /\ Wire(frames', Started')
         /\ \A i \in 1 .. Started : i < Started => PartsIn(frames', Started', i) = PartsIn(frames, Started, i)
         /\ Started > 0 => PartsIn(frames', Started', Started)
                             = Cat(PartsIn(frames, Started, Started), PartsAmong(gs))
<1>1. frames' = Cat(frames, gs)
  BY DEF Cat
<1>2. Started \in Nat /\ Wire(frames, Started)
  BY Counted DEF WireInv
<1>3. Wire(Cat(frames, gs), Started)
  BY <1>2, Longer
<1>4. \A i \in 1 .. Started :
        /\ i < Started => PartsIn(Cat(frames, gs), Started, i) = PartsIn(frames, Started, i)
        /\ i = Started => PartsIn(Cat(frames, gs), Started, i) = Cat(PartsIn(frames, Started, i), PartsAmong(gs))
  BY <1>2, LongerParts
<1>5. Started > 0 => Started \in 1 .. Started
  BY <1>2
<1> QED
  BY <1>1, <1>3, <1>4, <1>5

LEMMA MakePartShows ==
  ASSUME WireInv, RouterInv, MakePart
  PROVE  WireInv'
<1>1. /\ pc = "running" /\ pc' = "running" /\ made' = made + 1
      /\ UNCHANGED <<queue, records, results>>
  BY DEF MakePart
<1> DEFINE n == Len(records)
<1>2. n \in Nat /\ Started = n + 1 /\ ToolSeq = n + 1 /\ (records = << >> <=> n = 0)
  BY <1>1, Counted
<1>3. Started' = Started /\ Running' = Running /\ ToolSeq' = ToolSeq
  BY <1>1 DEF Started, Running, ToolSeq
<1>4. /\ made \in Nat /\ Early <= made
      /\ records = << >> /\ Running \in Streaming => streamed = made
      /\ records = << >> => streamed \in Nat
      /\ records # << >> => streamed = Retired
      /\ PartsIn(frames, Started, Started) = Parts(First(Running, Early))
  BY <1>1 DEF WireInv
<1>5. CASE Running \in Streaming /\ Live
  <2> DEFINE p == PartOf(Running, made + 1)
             f == Frame("part", p)
             gs == <<f>>
  <2>1. streamed' = streamed + 1 /\ frames' = frames \o gs
    BY <1>5 DEF MakePart, Send
  <2>2. f.name = "part" /\ IsSeq(gs) /\ Len(gs) = 1 /\ gs[1] = f
    BY OneIsSeq DEF Frame
  <2>3. \A k \in DOMAIN gs : ~ Starting(gs[k])
    <3>1. DOMAIN gs = 1 .. 1
      BY <2>2, SeqIs
    <3> QED
      BY <2>2, <3>1 DEF Starting
  <2>4. PartsAmong(gs) = gs
    BY <2>2, AmongOne
  <2> HIDE DEF f, gs
  <2>5. records = << >> /\ n = 0 /\ streamed = made /\ Early = made
    BY <1>2, <1>4, <1>5 DEF Live, Early
  <2>6. /\ Wire(frames', Started')
        /\ \A i \in 1 .. Started : i < Started => PartsIn(frames', Started', i) = PartsIn(frames, Started, i)
        /\ Started > 0 => PartsIn(frames', Started', Started)
                             = Cat(PartsIn(frames, Started, Started), PartsAmong(gs))
    BY <1>3, <2>1, <2>2, <2>3, SentBehind
  <2>7. Early' = made + 1
    BY <1>2, <1>3, <2>1, <2>5 DEF Early
  <2>8. Parts(First(Running, made + 1)) = Cat(Parts(First(Running, made)), gs)
    <3>1. First(Running, made + 1) = AndOne(First(Running, made), p) /\ IsSeq(First(Running, made))
      BY <1>4, FirstIs
    <3>2. Parts(AndOne(First(Running, made), p)) = AndOne(Parts(First(Running, made)), f)
      BY <3>1, PartsAppended DEF f
    <3>3. AndOne(Parts(First(Running, made)), f) = Cat(Parts(First(Running, made)), gs)
      BY <3>1, PartsAreSeqs, AppendIsCat DEF gs
    <3> QED
      BY <3>1, <3>2, <3>3, Zenon
  <2>9. PartsIn(frames', Started', Started) = Parts(First(Running, made + 1))
    BY <1>2, <1>4, <2>4, <2>5, <2>6, <2>8
  <2>10. IsSeq(results) /\ Len(results) = n
    BY DEF WireInv
  <2> QED
    BY <1>1, <1>3, <1>4, <2>1, <2>5, <2>6, <2>7, <2>9, <2>10 DEF WireInv
<1>6. CASE ~ (Running \in Streaming /\ Live)
  <2>1. UNCHANGED <<streamed, frames, transcript>>
    BY <1>6 DEF MakePart
  <2>2. Early' = Early
    BY <1>3, <2>1 DEF Early
  <2>3. ~ (records = << >> /\ Running \in Streaming)
    BY <1>4, <1>6 DEF Live, Retired
  <2>4. Early \in Nat
    BY <1>2, <1>4 DEF Early
  <2> QED
    BY <1>1, <1>3, <1>4, <2>1, <2>2, <2>3, <2>4 DEF WireInv
<1> QED
  BY <1>5, <1>6

\* The end of a dispatch: its record and its result join those before it.
LEMMA DispatchEnds ==
  ASSUME WireInv, RouterInv, pc = "running", pc' # "running", made' = made,
         NEW gs, IsSeq(gs), \A k \in DOMAIN gs : ~ Starting(gs[k]), frames' = frames \o gs,
         NEW result, IsSeq(result), results' = Append(results, result),
         NEW status \in {"ok", "error"}, Recorded(status), RetireCount,
         IF status = "ok" THEN Cat(Parts(First(Running, Early)), PartsAmong(gs)) = Parts(result)
         ELSE PartsAmong(gs) = << >>
  PROVE  WireInv'
<1> DEFINE n == Len(records)
           r == [skill |-> Running, status |-> status]
<1>1. n \in Nat /\ Started = n + 1 /\ ToolSeq = n + 1 /\ (records = << >> <=> n = 0)
  BY Counted
<1>2. /\ records' \in Seq(Record) /\ Len(records') = n + 1 /\ records'[n + 1] = r
      /\ \A i \in DOMAIN records : records'[i] = records[i]
  BY RecordAdded
<1>3. DOMAIN records = 1 .. n
  BY Counted
<1>4. Started' = n + 1 /\ records' # << >> /\ streamed' = Retired
  BY <1>1, <1>2 DEF Started, RetireCount
<1>5. /\ IsSeq(results) /\ Len(results) = n
      /\ \A i \in 1 .. n : IsSeq(results[i]) /\ Settled(frames, Started, i, records[i], results[i])
      /\ PartsIn(frames, Started, Started) = Parts(First(Running, Early))
      /\ made \in Nat
      /\ records = << >> => streamed \in Nat
  BY DEF WireInv
<1>6. /\ IsSeq(results') /\ Len(results') = n + 1 /\ results'[n + 1] = result
      /\ \A i \in 1 .. n : results'[i] = results[i]
  <2>1. results' = AndOne(results, result)
    BY DEF AndOne
  <2> QED
    BY <1>5, <2>1, AppendIs
<1>7. /\ Wire(frames', n + 1)
      /\ \A i \in 1 .. n + 1 : i < n + 1 => PartsIn(frames', n + 1, i) = PartsIn(frames, n + 1, i)
      /\ PartsIn(frames', n + 1, n + 1) = Cat(Parts(First(Running, Early)), PartsAmong(gs))
  <2>1. /\ Wire(frames', Started')
        /\ \A i \in 1 .. Started : i < Started => PartsIn(frames', Started', i) = PartsIn(frames, Started, i)
        /\ Started > 0 => PartsIn(frames', Started', Started)
                             = Cat(PartsIn(frames, Started, Started), PartsAmong(gs))
    BY <1>1, <1>4, SentBehind
  <2> QED
    BY <1>1, <1>4, <1>5, <2>1
<1>8. ASSUME NEW i \in 1 .. n
      PROVE  IsSeq(results'[i]) /\ Settled(frames', n + 1, i, records'[i], results'[i])
  <2>1. PartsIn(frames', n + 1, i) = PartsIn(frames, Started, i)
    BY <1>1, <1>7
  <2>2. Settled(frames', n + 1, i, records[i], results[i])
    BY <2>1, StaysSettled
  <2> QED
    BY <1>2, <1>3, <1>5, <1>6, <2>2
<1>9. Settled(frames', n + 1, n + 1, r, result)
  <2>1. r.status = status /\ r.skill = Running
    OBVIOUS
  <2> HIDE DEF r
  <2>2. CASE status = "ok"
    BY <1>7, <2>1, <2>2 DEF Settled
  <2>3. CASE status # "ok"
    <3>1. Early \in Nat
      BY <1>1, <1>5 DEF Early
    <3>2. IsSeq(Parts(First(Running, Early)))
      BY <3>1, FirstIs, PartsAreSeqs
    <3>3. PartsIn(frames', n + 1, n + 1) = Parts(First(Running, Early))
      <4>1. Cat(Parts(First(Running, Early)), << >>) = Parts(First(Running, Early))
        BY <3>2, JoinedToNone
      <4>2. PartsAmong(gs) = << >>
        BY <2>3
      <4> QED
        BY <1>7, <4>1, <4>2
    <3>4. n + 1 > 1 => Early = 0
      BY <1>1 DEF Early
    <3>5. Parts(First(Running, 0)) = << >>
      BY DEF Parts, First
    <3> QED
      BY <2>1, <2>3, <3>1, <3>3, <3>4, <3>5 DEF Settled
  <2> QED
    BY <2>2, <2>3
<1>10. \A i \in 1 .. n + 1 : IsSeq(results'[i]) /\ Settled(frames', n + 1, i, records'[i], results'[i])
  <2>1. \A i \in 1 .. n + 1 : i = n + 1 \/ i \in 1 .. n
    BY <1>1
  <2> QED
    BY <1>2, <1>6, <1>8, <1>9, <2>1
<1> QED
  BY <1>2, <1>4, <1>5, <1>6, <1>7, <1>10 DEF WireInv

\* An event that starts nothing, and parts behind it.
LEMMA EventThenParts ==
  ASSUME NEW d, d.name = "tool", d.value.status # "start", NEW rest, IsSeq(rest)
  PROVE  LET gs == Cat(<<d>>, Parts(rest))
         IN  /\ IsSeq(gs) /\ \A k \in DOMAIN gs : ~ Starting(gs[k])
             /\ PartsAmong(gs) = Parts(rest)
<1> DEFINE gs == Cat(<<d>>, Parts(rest))
<1>8. IsSeq(Parts(rest)) /\ IsSeq(<<d>>) /\ Len(<<d>>) = 1 /\ <<d>>[1] = d
  BY PartsAreSeqs, OneIsSeq
<1>9. IsSeq(gs) /\ \A k \in DOMAIN gs : ~ Starting(gs[k])
  <2> DEFINE t == Parts(rest)
             m == Len(t)
             l == Cat(<<d>>, t)
  <2>1. IsSeq(t)
    BY <1>8
  <2> HIDE DEF t
  <2>2. /\ IsSeq(Cat(<<d>>, t)) /\ Len(Cat(<<d>>, t)) = 1 + m /\ Cat(<<d>>, t)[1] = d
        /\ \A i \in 1 .. m : Cat(<<d>>, t)[1 + i] = t[i]
    BY <2>1, Headed
  <2>9. l[1] = d /\ \A i \in 1 .. m : l[1 + i] = t[i]
    BY <2>2
  <2>3. m \in Nat /\ DOMAIN l = 1 .. 1 + m /\ DOMAIN t = 1 .. m
    BY <2>1, <2>2, SeqIs
  <2>4. \A i \in 1 .. m : t[i].name = "part"
    BY <2>3 DEF t, Parts, Frame
  <2> HIDE DEF l, m
  <2>5. ASSUME NEW k \in DOMAIN l PROVE ~ Starting(l[k])
    <3>1. CASE k = 1
      BY <2>9, <3>1 DEF Starting
    <3>2. CASE k # 1
      <4>1. k - 1 \in 1 .. m /\ k = 1 + (k - 1)
        BY <2>3, <3>2
      <4>2. l[k].name = "part"
        BY <2>4, <2>9, <4>1
      <4> QED
        BY <4>2 DEF Starting
    <3> QED
      BY <3>1, <3>2
  <2> QED
    BY <2>2, <2>5 DEF l, t
<1>10. PartsAmong(gs) = Parts(rest)
  <2>1. PartsAmong(gs) = Cat(PartsAmong(<<d>>), PartsAmong(Parts(rest)))
    BY <1>8, AmongBoth
  <2>2. PartsAmong(<<d>>) = << >> /\ PartsAmong(Parts(rest)) = Parts(rest)
    BY AmongOne, PartsAre
  <2>3. Cat(<< >>, Parts(rest)) = Parts(rest)
    BY <1>8, JoinedToNone
  <2> QED
    BY <2>1, <2>2, <2>3, Zenon
<1> QED
  BY <1>9, <1>10

LEMMA RestOfResult ==
  ASSUME WireInv, RouterInv, pc = "running", NEW result \in Result
  PROVE  /\ IsSeq(SubSeq(result, Early + 1, Len(result))) /\ IsSeq(result) /\ IsSeq(First(Running, Early))
         /\ result = Cat(First(Running, Early), SubSeq(result, Early + 1, Len(result)))
<1>3. made \in Nat /\ Early \in Nat /\ Early <= made
  <2>1. /\ made \in Nat /\ Early <= made /\ (records = << >> => streamed \in Nat)
    BY DEF WireInv
  <2>2. ToolSeq = Len(records) + 1 /\ Len(records) \in Nat /\ (records = << >> <=> Len(records) = 0)
    BY Counted
  <2> QED
    BY <2>1, <2>2 DEF Early
<1> DEFINE head == First(Running, Early)
           rest == SubSeq(result, Early + 1, Len(result))
<1>4. IsSeq(head) /\ Len(head) = Early /\ \A i \in 1 .. Early : head[i] = PartOf(Running, i)
  BY <1>3, FirstIs
<1>5. IsSeq(result) /\ Len(result) >= made /\ \A i \in 1 .. made : result[i] = PartOf(Running, i)
  <2>1. /\ IsSeq(First(Running, made)) /\ Len(First(Running, made)) = made
        /\ \A i \in 1 .. made : First(Running, made)[i] = PartOf(Running, i)
    BY <1>3, FirstIs
  <2>2. result = First(Running, made) \/ result = AndOne(First(Running, made), PartOf(Running, 0))
    BY DEF Result, First, AndOne
  <2>3. CASE result = First(Running, made)
    BY <1>3, <2>1, <2>3
  <2>4. CASE result = AndOne(First(Running, made), PartOf(Running, 0))
    <3> DEFINE l == AndOne(First(Running, made), PartOf(Running, 0))
    <3>1. IsSeq(l) /\ Len(l) = made + 1 /\ \A i \in 1 .. made : l[i] = First(Running, made)[i]
      BY <2>1, AppendIs
    <3> HIDE DEF l
    <3>2. result = l
      BY <2>4 DEF l
    <3> QED
      BY <1>3, <2>1, <3>1, <3>2
  <2> QED
    BY <2>2, <2>3, <2>4
<1>6. IsSeq(rest) /\ result = Cat(head, rest)
  <2>1. Len(head) <= Len(result) /\ \A i \in 1 .. Len(head) : head[i] = result[i]
    <3>1. Len(result) \in Nat
      BY <1>5, SeqIs
    <3> QED
      BY <1>3, <1>4, <1>5, <3>1
  <2>2. IsSeq(SubSeq(result, Len(head) + 1, Len(result))) /\ result = Cat(head, SubSeq(result, Len(head) + 1, Len(result)))
    BY <1>4, <1>5, <2>1, SplitAt
  <2> QED
    BY <1>4, <2>2
<1> QED
  BY <1>4, <1>5, <1>6

LEMMA SucceedShows ==
  ASSUME WireInv, RouterInv, Succeed
  PROVE  WireInv'
<1>1. PICK result \in Result :
        /\ Send(<<ToolFrame(ToolSeq, Running, "done")>> \o Parts(SubSeq(result, Early + 1, Len(result))))
        /\ results' = Append(results, result)
  BY DEF Succeed
<1>2. pc = "running" /\ pc' # "running" /\ made' = made /\ RetireCount /\ Recorded("ok")
  BY DEF Succeed
<1> DEFINE d == ToolFrame(ToolSeq, Running, "done")
           head == First(Running, Early)
           rest == SubSeq(result, Early + 1, Len(result))
           gs == Cat(<<d>>, Parts(rest))
<1>4. IsSeq(head) /\ IsSeq(result)
  BY <1>2, RestOfResult
<1>6. IsSeq(rest) /\ result = Cat(head, rest)
  BY <1>2, RestOfResult
<1>7. d.name = "tool" /\ d.value.status = "done"
  BY DEF ToolFrame, Frame
<1> HIDE DEF d, head, rest
<1>9. IsSeq(gs) /\ (\A k \in DOMAIN gs : ~ Starting(gs[k])) /\ PartsAmong(gs) = Parts(rest)
  BY <1>6, <1>7, EventThenParts
<1>11. Cat(Parts(head), PartsAmong(gs)) = Parts(result)
  BY <1>4, <1>6, <1>9, PartsJoined
<1>12. frames' = frames \o gs
  BY <1>1 DEF Send, Cat, d, rest
<1> HIDE DEF gs
<1> QED
  BY <1>1, <1>2, <1>4, <1>9, <1>11, <1>12, DispatchEnds DEF head

LEMMA BreakShows ==
  ASSUME WireInv, RouterInv, Correct \/ FailAgain
  PROVE  WireInv'
<1> DEFINE f == ToolFrame(ToolSeq, Running, "error")
           gs == <<f>>
<1>1. /\ pc = "running" /\ pc' # "running" /\ made' = made /\ RetireCount /\ Recorded("error")
      /\ frames' = frames \o gs /\ results' = Append(results, << >>)
  BY DEF Correct, FailAgain, Break, Send
<1>2. f.name = "tool" /\ f.value.status = "error"
  BY DEF ToolFrame, Frame
<1> HIDE DEF f
<1>3. IsSeq(gs) /\ Len(gs) = 1 /\ gs[1] = f
  BY OneIsSeq
<1>4. \A k \in DOMAIN gs : ~ Starting(gs[k])
  <2>1. DOMAIN gs = 1 .. 1
    BY <1>3, SeqIs
  <2> QED
    BY <1>2, <1>3, <2>1 DEF Starting
<1>5. PartsAmong(gs) = << >>
  BY <1>2, AmongOne
<1>6. IsSeq(<< >>)
  BY NoneIsSeq
<1> HIDE DEF gs
<1> QED
  BY <1>1, <1>3, <1>4, <1>5, <1>6, DispatchEnds

\* The last frames of a turn show no part.
LEMMA LastFrames ==
  ASSUME WireInv, RouterInv, pc # "running", pc' # "running",
         UNCHANGED <<records, made, streamed, results>>,
         NEW gs, IsSeq(gs), \A k \in DOMAIN gs : ~ Starting(gs[k]), frames' = frames \o gs,
         PartsAmong(gs) = << >>
  PROVE  /\ WireInv'
         /\ \A i \in 1 .. Len(records) : PartsIn(frames', Started', i) = PartsIn(frames, Started, i)
<1> DEFINE n == Len(records)
<1>1. n \in Nat /\ Started = n
  BY Counted
<1>2. Started' = n
  BY DEF Started
<1>3. /\ Wire(frames', Started')
      /\ \A i \in 1 .. Started : i < Started => PartsIn(frames', Started', i) = PartsIn(frames, Started, i)
      /\ Started > 0 => PartsIn(frames', Started', Started)
                             = Cat(PartsIn(frames, Started, Started), PartsAmong(gs))
  BY <1>1, <1>2, SentBehind
<1>4. IsSeq(frames)
  BY DEF WireInv, Wire
<1>5. Started > 0 => IsSeq(PartsIn(frames, Started, Started))
  <2>1. ASSUME Started > 0 PROVE IsSeq(PartsIn(frames, Started, Started))
    <3> DEFINE a == StartIn(frames, Started)
    <3>1. a \in 1 .. Len(frames) /\ Len(frames) \in Nat
      <4>1. IsStart(frames, a, Started)
        BY <1>1, <2>1 DEF WireInv, Wire
      <4> QED
        BY <1>4, <4>1, SeqIs DEF IsStart
    <3>2. IsSeq(SubSeq(frames, a, Len(frames)))
      <4> HIDE DEF a
      <4> QED
        BY <1>4, <3>1, RestIsSeq
    <3>3. PartsIn(frames, Started, Started) = PartsAmong(SubSeq(frames, a, Len(frames)))
      BY <1>1 DEF PartsIn
    <3> QED
      BY <3>2, <3>3, AmongIsSeq
  <2> QED
    BY <2>1
<1>6. Started > 0 => PartsIn(frames', Started', Started) = PartsIn(frames, Started, Started)
  BY <1>3, <1>5, JoinedToNone
<1>7. \A i \in 1 .. n : PartsIn(frames', n, i) = PartsIn(frames, n, i)
  BY <1>1, <1>2, <1>3, <1>6
<1>8. \A i \in 1 .. n : Settled(frames', n, i, records[i], results[i])
  BY <1>1, <1>7, StaysSettled
<1> QED
  BY <1>1, <1>2, <1>3, <1>7, <1>8 DEF WireInv

LEMMA LastStepShows ==
  ASSUME WireInv, RouterInv, Answer \/ SendError
  PROVE  /\ WireInv'
         /\ \A i \in 1 .. Len(records) : PartsIn(frames', Started', i) = PartsIn(frames, Started, i)
<1>1. /\ pc # "running" /\ pc' # "running" /\ UNCHANGED <<records, made, streamed, results>>
  BY DEF Answer, SendError, loopVars
<1>2. CASE Answer
  <2> DEFINE a == Frame("token", Text)
             b == Frame("done", 0)
             gs == Cat(<<a>>, <<b>>)
  <2>1. frames' = frames \o gs
    <3>1. <<a, b>> = <<a>> \o <<b>>
      OBVIOUS
    <3> QED
      BY <1>2, <3>1 DEF Answer, Send, Cat
  <2>2. a.name = "token" /\ b.name = "done"
    BY DEF Frame
  <2> HIDE DEF a, b
  <2>3. IsSeq(<<a>>) /\ IsSeq(<<b>>) /\ Len(<<a>>) = 1 /\ Len(<<b>>) = 1 /\ <<a>>[1] = a /\ <<b>>[1] = b
    BY OneIsSeq
  <2>4. IsSeq(gs) /\ Len(gs) = 2 /\ gs[1] = a /\ gs[2] = b
    <3> DEFINE t == <<b>>
    <3>1. IsSeq(t) /\ Len(t) = 1 /\ t[1] = b
      BY <2>3
    <3> HIDE DEF t
    <3>2. /\ IsSeq(Cat(<<a>>, t)) /\ Len(Cat(<<a>>, t)) = 1 + Len(t) /\ Cat(<<a>>, t)[1] = a
          /\ \A i \in 1 .. Len(t) : Cat(<<a>>, t)[1 + i] = t[i]
      <4>1. IsSeq(t)
        BY <3>1
      <4> QED
        BY <4>1, Headed
    <3>3. Cat(<<a>>, t)[2] = b /\ Len(Cat(<<a>>, t)) = 2
      BY <3>1, <3>2
    <3> QED
      BY <3>2, <3>3 DEF t
  <2>5. PartsAmong(gs) = << >>
    <3>1. PartsAmong(<<a>>) = << >> /\ PartsAmong(<<b>>) = << >>
      BY <2>2, AmongOne
    <3>2. PartsAmong(gs) = Cat(PartsAmong(<<a>>), PartsAmong(<<b>>))
      BY <2>3, AmongBoth
    <3>3. Cat(<< >>, << >>) = << >>
      BY NoneIsSeq, JoinedToNone
    <3> QED
      BY <3>1, <3>2, <3>3, Zenon
  <2> HIDE DEF gs
  <2>6. \A k \in DOMAIN gs : ~ Starting(gs[k])
    <3>1. DOMAIN gs = 1 .. 2
      BY <2>4, SeqIs
    <3> QED
      BY <2>2, <2>4, <3>1 DEF Starting
  <2> QED
    BY <1>1, <2>1, <2>4, <2>5, <2>6, LastFrames
<1>3. CASE SendError
  <2> DEFINE a == Frame("error", cause)
             gs == <<a>>
  <2>1. frames' = frames \o gs
    BY <1>3 DEF SendError, Send
  <2>2. a.name = "error"
    BY DEF Frame
  <2> HIDE DEF a
  <2>3. IsSeq(gs) /\ Len(gs) = 1 /\ gs[1] = a
    BY OneIsSeq
  <2>4. PartsAmong(gs) = << >>
    BY <2>2, AmongOne
  <2> HIDE DEF gs
  <2>5. \A k \in DOMAIN gs : ~ Starting(gs[k])
    <3>1. DOMAIN gs = 1 .. 1
      BY <2>3, SeqIs
    <3> QED
      BY <2>2, <2>3, <3>1 DEF Starting
  <2> QED
    BY <1>1, <2>1, <2>3, <2>4, <2>5, LastFrames
<1> QED
  BY <1>2, <1>3

LEMMA WireStep ==
  ASSUME WireInv, RouterInv, [Next]_vars
  PROVE  WireInv'
BY QuietStep, StartToolShows, MakePartShows, SucceedShows, BreakShows, LastStepShows DEF Next

LEMMA WireHolds == Spec => [](RouterInv /\ WireInv)
<1>1. Init => WireInv
  BY WireInit
<1>2. RouterInv /\ WireInv /\ [Next]_vars => WireInv'
  BY WireStep
<1> QED
  BY <1>1, <1>2, RouterInvariant, PTL DEF Spec

LEMMA ShownIs ==
  ASSUME WireInv, RouterInv, NEW i \in 1 .. Started
  PROVE  Shown(i) = PartsIn(frames, Started, i)
BY DEF Shown, PartsIn, PartsAmong, StartOf, EndOf, StartIn

\* What the wire shows of a dispatch is what its record says of it.
LEMMA WireShowsTheParts == WireInv /\ RouterInv => DispatchShowsItsParts
<1> SUFFICES ASSUME WireInv, RouterInv, NEW i \in DOMAIN records
             PROVE  IF records[i].status = "ok"
                    THEN Shown(i) = Parts(results[i])
                    ELSE /\ \A j \in DOMAIN Shown(i) : Shown(i)[j] = Frame("part", PartOf(records[i].skill, j))
                         /\ i > 1 => Shown(i) = << >>
  BY DEF DispatchShowsItsParts
<1>1. i \in 1 .. Len(records) /\ i \in 1 .. Started
  BY Counted
<1>2. Settled(frames, Started, i, records[i], results[i])
  BY <1>1 DEF WireInv
<1>3. Shown(i) = PartsIn(frames, Started, i)
  BY <1>1, ShownIs
<1>4. ASSUME NEW k \in Nat, Shown(i) = Parts(First(records[i].skill, k))
      PROVE  \A j \in DOMAIN Shown(i) : Shown(i)[j] = Frame("part", PartOf(records[i].skill, j))
  BY <1>4 DEF Parts, First
<1> QED
  BY <1>2, <1>3, <1>4 DEF Settled

-----------------------------------------------------------------------------
(* The message follows the turn.                                            *)

JoinFold == INSTANCE FoldFacts WITH Op <- Joined

AllOf(bs)    == FoldLeft(Joined, << >>, bs)
TellOf(e, s) == <<e>> \o [j \in DOMAIN s |-> Kept(s[j].value)]

LEMMA AllOfIs == \A bs : AllOf(bs) = JoinFold!Folded(<< >>, bs)
BY DEF AllOf, FoldLeft, MapThenFoldSet, Max,
       JoinFold!Folded, JoinFold!FoldLeft, JoinFold!MapThenFoldSet, JoinFold!Max

LEMMA AllNone == AllOf(<< >>) = << >>
BY AllOfIs, JoinFold!FoldedNone

LEMMA AllMore ==
  ASSUME NEW bs, NEW x, IsSeq(bs)
  PROVE  AllOf(AndOne(bs, x)) = Cat(AllOf(bs), x)
<1>1. PICK T : bs \in Seq(T)
  BY DEF IsSeq
<1>2. JoinFold!Folded(<< >>, Append(bs, x)) = Joined(JoinFold!Folded(<< >>, bs), x)
  BY <1>1, JoinFold!FoldedMore
<1> QED
  BY <1>2, AllOfIs DEF Joined, Cat, AndOne

LEMMA AllToOne ==
  ASSUME NEW n \in Nat, NEW bs, bs = [i \in 1 .. n + 1 |-> bs[i]],
         NEW cs, cs = [i \in 1 .. n |-> cs[i]], \A i \in 1 .. n : bs[i] = cs[i]
  PROVE  AllOf(bs) = Cat(AllOf(cs), bs[n + 1])
<1>1. IsSeq(bs) /\ Len(bs) = n + 1
  <2>1. n + 1 \in Nat
    OBVIOUS
  <2> QED
    BY <2>1, MapIsSeq
<1>2. IsSeq(cs) /\ Len(cs) = n
  BY MapIsSeq
<1>3. bs = AndOne(cs, bs[n + 1])
  BY <1>1, <1>2, OneMoreMapped
<1>4. AllOf(AndOne(cs, bs[n + 1])) = Cat(AllOf(cs), bs[n + 1])
  BY <1>2, AllMore
<1> QED
  BY <1>3, <1>4, Zenon

\* An entry of the message, no event of which is later than the n-th.
Entry(e, n)   == /\ \E k, v : e = [kind |-> k, value |-> v]
                 /\ e.kind = "tool_event" => e.value.seq \in 1 .. n
Entries(s, n) == IsSeq(s) /\ \A k \in DOMAIN s : Entry(s[k], n)

LEMMA EntriesBoth ==
  ASSUME NEW n, NEW s, NEW t, Entries(s, n), Entries(t, n)
  PROVE  Entries(Cat(s, t), n)
<1> DEFINE c == Cat(s, t)
<1>1. IsSeq(s) /\ IsSeq(t)
  BY DEF Entries
<1>2. /\ IsSeq(c) /\ Len(c) = Len(s) + Len(t) /\ \A i \in 1 .. Len(s) : c[i] = s[i]
      /\ \A i \in 1 .. Len(t) : c[Len(s) + i] = t[i]
  BY <1>1, JoinedIs
<1>3. /\ Len(s) \in Nat /\ Len(t) \in Nat /\ DOMAIN s = 1 .. Len(s) /\ DOMAIN t = 1 .. Len(t)
  BY <1>1, SeqIs
<1>4. DOMAIN c = 1 .. Len(s) + Len(t)
  BY <1>2, SeqIs
<1> HIDE DEF c
<1>5. ASSUME NEW k \in DOMAIN c PROVE Entry(c[k], n)
  <2>1. CASE k \in 1 .. Len(s)
    BY <1>2, <1>3, <2>1 DEF Entries
  <2>2. CASE k \notin 1 .. Len(s)
    <3>1. PICK j \in 1 .. Len(t) : k = Len(s) + j
      <4>1. k - Len(s) \in 1 .. Len(t) /\ k = Len(s) + (k - Len(s))
        BY <1>3, <1>4, <2>2
      <4> QED
        BY <4>1
    <3> QED
      BY <1>2, <1>3, <3>1 DEF Entries
  <2> QED
    BY <2>1, <2>2
<1> QED
  BY <1>2, <1>5 DEF Entries, c

LEMMA EntriesMore ==
  ASSUME NEW n \in Nat, NEW s, Entries(s, n)
  PROVE  Entries(s, n + 1)
<1>1. ASSUME NEW e, Entry(e, n) PROVE Entry(e, n + 1)
  <2>1. \A i \in 1 .. n : i \in 1 .. n + 1
    OBVIOUS
  <2> QED
    BY <1>1, <2>1, Zenon DEF Entry
<1> QED
  BY <1>1 DEF Entries

LEMMA KeptIs ==
  ASSUME NEW ps, IsSeq(ps)
  PROVE  /\ \A n : Entries(KeptOf(ps), n)
         /\ \A k \in DOMAIN KeptOf(ps) : KeptOf(ps)[k].kind # "tool_event"
<1>1. \A k \in DOMAIN KeptOf(ps) : KeptOf(ps)[k] = Kept(ps[k])
  BY DEF KeptOf
<1>2. \A p : (\E k, v : Kept(p) = [kind |-> k, value |-> v]) /\ Kept(p).kind # "tool_event"
  BY DEF Kept
<1>3. \A n, p : Entry(Kept(p), n)
  BY <1>2 DEF Entry
<1>4. IsSeq(KeptOf(ps))
  BY PartsAreSeqs
<1> QED
  BY <1>1, <1>2, <1>3, <1>4 DEF Entries

LEMMA KeptBoth ==
  ASSUME NEW s, NEW t, IsSeq(s), IsSeq(t)
  PROVE  KeptOf(Cat(s, t)) = Cat(KeptOf(s), KeptOf(t))
<1>1. IsSeq(Cat(s, t)) /\ IsSeq(<< >>)
  BY JoinedIs, NoneIsSeq
<1>2. IsSeq(KeptOf(s)) /\ IsSeq(KeptOf(t)) /\ IsSeq(KeptOf(Cat(s, t))) /\ IsSeq(Parts(s)) /\ IsSeq(Parts(t))
  BY <1>1, PartsAreSeqs
<1>3. /\ After(<< >>, Parts(Cat(s, t))) = Cat(<< >>, KeptOf(Cat(s, t)))
      /\ After(<< >>, Parts(s)) = Cat(<< >>, KeptOf(s))
      /\ After(KeptOf(s), Parts(t)) = Cat(KeptOf(s), KeptOf(t))
  BY <1>1, <1>2, PartsAre
<1>4. Cat(<< >>, KeptOf(Cat(s, t))) = KeptOf(Cat(s, t)) /\ Cat(<< >>, KeptOf(s)) = KeptOf(s)
  BY <1>2, JoinedToNone
<1>5. Parts(Cat(s, t)) = Cat(Parts(s), Parts(t))
  BY PartsJoined
<1>6. After(<< >>, Cat(Parts(s), Parts(t))) = After(After(<< >>, Parts(s)), Parts(t))
  BY <1>2, AfterBoth
<1> QED
  BY <1>3, <1>4, <1>5, <1>6, Zenon

LEMMA TellIs ==
  ASSUME NEW e, NEW ps, IsSeq(ps)
  PROVE  /\ TellOf(e, Parts(ps)) = Cat(<<e>>, KeptOf(ps))
         /\ \A n : Entry(e, n) => Entries(Cat(<<e>>, KeptOf(ps)), n)
<1>1. [j \in DOMAIN Parts(ps) |-> Kept(Parts(ps)[j].value)] = KeptOf(ps)
  BY DEF Parts, KeptOf, Frame
<1>2. TellOf(e, Parts(ps)) = Cat(<<e>>, KeptOf(ps))
  BY <1>1 DEF TellOf, Cat
<1>3. ASSUME NEW n, Entry(e, n) PROVE Entries(Cat(<<e>>, KeptOf(ps)), n)
  <2>1. Entries(KeptOf(ps), n)
    BY KeptIs
  <2>2. Entries(<<e>>, n)
    <3> DEFINE u == <<e>>
    <3>1. IsSeq(u) /\ Len(u) = 1 /\ u[1] = e
      BY OneIsSeq
    <3> HIDE DEF u
    <3>2. DOMAIN u = 1 .. 1
      BY <3>1, SeqIs
    <3>3. Entries(u, n)
      BY <1>3, <3>1, <3>2 DEF Entries
    <3> QED
      BY <3>3 DEF u
  <2> QED
    BY <2>1, <2>2, EntriesBoth
<1> QED
  BY <1>2, <1>3

\* A tool event that is finished is replaced where it is, a new one comes last.
LEMMA EventsAre ==
  ASSUME NEW n \in Nat, NEW s, Entries(s, n), NEW v, v.seq = n + 1
  PROVE  /\ RecordToolEvent(s, v) = AndOne(s, [kind |-> "tool_event", value |-> v])
         /\ \A e, t : /\ IsSeq(t) /\ (\A k \in DOMAIN t : t[k].kind # "tool_event")
                      /\ e.kind = "tool_event" /\ e.value.seq = n + 1
                      => RecordToolEvent(Cat(s, Cat(<<e>>, t)), v)
                           = Cat(s, Cat(<<[kind |-> "tool_event", value |-> v]>>, t))
<1> DEFINE new == [kind |-> "tool_event", value |-> v]
           Same(p, i) == p[i].kind = "tool_event" /\ p[i].value.seq = v.seq
<1>1. IsSeq(s) /\ \A i \in DOMAIN s : ~ Same(s, i)
  <2>1. \A i \in 1 .. n : i # n + 1
    OBVIOUS
  <2> QED
    BY <2>1 DEF Entries, Entry
<1>2. \A p : RecordToolEvent(p, v) =
        IF \E i \in DOMAIN p : Same(p, i)
        THEN [p EXCEPT ![CHOOSE i \in DOMAIN p : Same(p, i)] = new]
        ELSE Append(p, new)
  BY DEF RecordToolEvent
<1>3. RecordToolEvent(s, v) = AndOne(s, new)
  BY <1>1, <1>2, Zenon DEF AndOne
<1>4. ASSUME NEW e, NEW t, IsSeq(t), \A k \in DOMAIN t : t[k].kind # "tool_event",
             e.kind = "tool_event", e.value.seq = n + 1
      PROVE  RecordToolEvent(Cat(s, Cat(<<e>>, t)), v) = Cat(s, Cat(<<new>>, t))
  <2> DEFINE m == Len(s)
             l == Len(t)
             u == Cat(<<e>>, t)
             w == Cat(<<new>>, t)
             p == Cat(s, u)
             q == Cat(s, w)
  <2>1. m \in Nat /\ l \in Nat /\ DOMAIN s = 1 .. m /\ DOMAIN t = 1 .. l
    BY <1>1, <1>4, SeqIs
  <2>2. IsSeq(u) /\ Len(u) = 1 + l /\ u[1] = e /\ \A i \in 1 .. l : u[1 + i] = t[i]
    BY <1>4, Headed
  <2>3. IsSeq(w) /\ Len(w) = 1 + l /\ w[1] = new /\ \A i \in 1 .. l : w[1 + i] = t[i]
    BY <1>4, Headed
  <2> HIDE DEF u, w, new
  <2>4. IsSeq(s) /\ IsSeq(u) /\ IsSeq(w)
    BY <1>1, <2>2, <2>3
  <2>5. /\ IsSeq(p) /\ Len(p) = m + Len(u) /\ \A i \in 1 .. m : p[i] = s[i]
        /\ \A i \in 1 .. Len(u) : p[m + i] = u[i]
    BY <2>4, JoinedIs
  <2>6. /\ IsSeq(q) /\ Len(q) = m + Len(w) /\ \A i \in 1 .. m : q[i] = s[i]
        /\ \A i \in 1 .. Len(w) : q[m + i] = w[i]
    BY <2>4, JoinedIs
  <2> HIDE DEF p, q, m, l
  <2>7. /\ IsSeq(p) /\ DOMAIN p = 1 .. m + 1 + l /\ p[m + 1] = e
        /\ \A i \in 1 .. m : p[i] = s[i]
        /\ \A i \in 1 .. l : p[m + 1 + i] = t[i]
    <3>1. DOMAIN p = 1 .. Len(p)
      BY <2>5, SeqIs
    <3>2. 1 \in 1 .. Len(u) /\ \A i \in 1 .. l : 1 + i \in 1 .. Len(u) /\ m + (1 + i) = m + 1 + i
      BY <2>1, <2>2
    <3>3. m + Len(u) = m + 1 + l
      BY <2>1, <2>2
    <3>4. \A i \in 1 .. l : p[m + 1 + i] = t[i]
      <4> TAKE i \in 1 .. l
      <4>1. p[m + (1 + i)] = u[1 + i]
        BY <2>5, <3>2
      <4> QED
        BY <2>2, <3>2, <4>1
    <3> QED
      BY <2>2, <2>5, <3>1, <3>2, <3>3, <3>4
  <2>8. /\ IsSeq(q) /\ Len(q) = m + 1 + l /\ q[m + 1] = new
        /\ \A i \in 1 .. m : q[i] = s[i]
        /\ \A i \in 1 .. l : q[m + 1 + i] = t[i]
    <3>2. 1 \in 1 .. Len(w) /\ \A i \in 1 .. l : 1 + i \in 1 .. Len(w) /\ m + (1 + i) = m + 1 + i
      BY <2>1, <2>3
    <3>3. m + Len(w) = m + 1 + l
      BY <2>1, <2>3
    <3>4. \A i \in 1 .. l : q[m + 1 + i] = t[i]
      <4> TAKE i \in 1 .. l
      <4>1. q[m + (1 + i)] = w[1 + i]
        BY <2>6, <3>2
      <4> QED
        BY <2>3, <3>2, <4>1
    <3> QED
      BY <2>3, <2>6, <3>2, <3>3, <3>4
  <2>9. \A i \in 1 .. m + 1 + l : i \in 1 .. m \/ i = m + 1 \/ \E j \in 1 .. l : i = m + 1 + j
    <3> TAKE i \in 1 .. m + 1 + l
    <3>1. CASE i > m + 1
      <4>1. i - (m + 1) \in 1 .. l /\ i = m + 1 + (i - (m + 1))
        BY <2>1, <3>1
      <4> QED
        BY <4>1
    <3> QED
      BY <2>1, <3>1
  <2>10. \A i \in DOMAIN p : Same(p, i) <=> i = m + 1
    <3>1. Same(p, m + 1)
      BY <1>4, <2>7
    <3>2. \A i \in 1 .. m : ~ Same(p, i)
      BY <1>1, <2>1, <2>7
    <3>3. \A j \in 1 .. l : ~ Same(p, m + 1 + j)
      BY <1>4, <2>1, <2>7
    <3> HIDE DEF Same
    <3>4. m + 1 \notin 1 .. m /\ \A j \in 1 .. l : m + 1 + j # m + 1
      BY <2>1
    <3> QED
      BY <2>7, <2>9, <3>1, <3>2, <3>3, <3>4
  <2>11. m + 1 \in DOMAIN p
    BY <2>1, <2>7
  <2>12. (CHOOSE i \in DOMAIN p : Same(p, i)) = m + 1 /\ \E i \in DOMAIN p : Same(p, i)
    <3> HIDE DEF Same
    <3> QED
      BY <2>10, <2>11
  <2>13. RecordToolEvent(p, v) = [p EXCEPT ![m + 1] = new]
    <3> HIDE DEF Same
    <3> QED
      BY <1>2, <2>12, Zenon DEF new
  <2> DEFINE r == [p EXCEPT ![m + 1] = new]
  <2>14. /\ r = [i \in 1 .. m + 1 + l |-> r[i]] /\ r[m + 1] = new
         /\ \A i \in 1 .. m : r[i] = s[i]
         /\ \A j \in 1 .. l : r[m + 1 + j] = t[j]
    <3>1. DOMAIN r = 1 .. m + 1 + l
      BY <2>7
    <3>2. r[m + 1] = new
      BY <2>11
    <3>3. \A i \in DOMAIN p : i # m + 1 => r[i] = p[i]
      OBVIOUS
    <3>4. r = [i \in DOMAIN p |-> r[i]]
      OBVIOUS
    <3> HIDE DEF r
    <3>5. \A i \in 1 .. m : i \in DOMAIN p /\ i # m + 1
      BY <2>1, <2>7
    <3>6. \A j \in 1 .. l : m + 1 + j \in DOMAIN p /\ m + 1 + j # m + 1
      BY <2>1, <2>7
    <3> QED
      BY <2>7, <3>2, <3>3, <3>4, <3>5, <3>6
  <2> HIDE DEF r
  <2>15. IsSeq(r) /\ Len(r) = m + 1 + l
    <3>1. m + 1 + l \in Nat
      BY <2>1
    <3> QED
      BY <2>14, <3>1, MapIsSeq
  <2>16. ASSUME NEW i \in 1 .. m + 1 + l PROVE r[i] = q[i]
    <3>1. CASE i \in 1 .. m
      BY <2>8, <2>14, <3>1
    <3>2. CASE i = m + 1
      BY <2>8, <2>14, <3>2
    <3>3. ASSUME NEW j \in 1 .. l, i = m + 1 + j PROVE r[i] = q[i]
      BY <2>8, <2>14, <3>3
    <3> QED
      BY <2>9, <3>1, <3>2, <3>3
  <2>17. r = q
    BY <2>8, <2>15, <2>16, SameSeq
  <2> QED
    BY <2>13, <2>17 DEF p, q, u, w, r, new
<1> QED
  BY <1>3, <1>4

\* What the dispatches that are over tell.
Body == AllOf([i \in 1 .. Len(records) |-> Told(i)])

\* The message is what they tell, then what the one at work tells so far, or
\* the answer.
MessageInv ==
  /\ Entries(Body, Len(records))
  /\ pc = "running"                => transcript = Cat(Body, Told(Len(records) + 1))
  /\ pc # "running" /\ ~ Answered  => transcript = Body
  /\ Answered                      => transcript = FoldToken(Body, Text)
  /\ pc \in {"failing", "crashing"} => cause # "none"

LEMMA ToldIs ==
  ASSUME NEW i
  PROVE  /\ Told(i) = TellOf(Event(i), PartsIn(frames, Started, i))
         /\ Told(i)' = TellOf(Event(i)', PartsIn(frames', Started', i))
BY DEF Told, TellOf, Shown, PartsIn, PartsAmong, StartOf, EndOf, StartIn

LEMMA EventStays ==
  ASSUME RouterInv, NEW n \in Nat, n = Len(records), NEW i \in 1 .. n,
         Len(records') >= n, Len(records') \in Nat, records'[i] = records[i]
  PROVE  Event(i)' = Event(i)
BY DEF Event

LEMMA ToldStays ==
  ASSUME RouterInv, NEW n \in Nat, n = Len(records), Len(records') \in Nat, Len(records') >= n,
         \A i \in 1 .. n : records'[i] = records[i],
         \A i \in 1 .. n : PartsIn(frames', Started', i) = PartsIn(frames, Started, i)
  PROVE  \A i \in 1 .. n : Told(i)' = Told(i)
BY EventStays, ToldIs, Zenon

LEMMA BodyStays ==
  ASSUME RouterInv, NEW n \in Nat, n = Len(records), Len(records') = n,
         \A i \in 1 .. n : records'[i] = records[i],
         \A i \in 1 .. n : PartsIn(frames', Started', i) = PartsIn(frames, Started, i)
  PROVE  Body' = Body
<1>1. \A i \in 1 .. n : Told(i)' = Told(i)
  BY ToldStays
<1>2. [i \in 1 .. n |-> Told(i)'] = [i \in 1 .. n |-> Told(i)]
  BY <1>1
<1>3. Body = AllOf([i \in 1 .. n |-> Told(i)]) /\ Body' = AllOf([i \in 1 .. n |-> Told(i)'])
  BY DEF Body, AllOf
<1> QED
  BY <1>2, <1>3, Zenon

LEMMA BodyGrows ==
  ASSUME RouterInv, NEW n \in Nat, n = Len(records), Len(records') = n + 1,
         \A i \in 1 .. n : records'[i] = records[i],
         \A i \in 1 .. n : PartsIn(frames', Started', i) = PartsIn(frames, Started, i)
  PROVE  Body' = Cat(Body, Told(n + 1)')
<1> DEFINE cs == [i \in 1 .. n |-> Told(i)]
           bs == [i \in 1 .. n + 1 |-> Told(i)']
<1>1. \A i \in 1 .. n : Told(i)' = Told(i)
  BY ToldStays
<1>2. /\ bs = [i \in 1 .. n + 1 |-> bs[i]] /\ cs = [i \in 1 .. n |-> cs[i]]
      /\ \A i \in 1 .. n : bs[i] = cs[i] /\ bs[n + 1] = Told(n + 1)'
  BY <1>1
<1>3. Body = AllOf(cs) /\ Body' = AllOf(bs)
  BY DEF Body, AllOf
<1>5. bs[n + 1] = Told(n + 1)'
  OBVIOUS
<1> HIDE DEF bs, cs
<1>4. AllOf(bs) = Cat(AllOf(cs), bs[n + 1])
  BY <1>2, AllToOne
<1> QED
  BY <1>3, <1>4, <1>5, Zenon

LEMMA MessageInit == Init => MessageInv
<1> SUFFICES ASSUME Init PROVE MessageInv
  OBVIOUS
<1>1. records = << >> /\ transcript = << >> /\ pc = "calling"
  BY DEF Init
<1>2. Len(records) = 0 /\ [i \in 1 .. 0 |-> Told(i)] = << >>
  BY <1>1
<1>3. Body = << >>
  BY <1>2, AllNone DEF Body
<1>4. Entries(<< >>, 0)
  BY NoneIsSeq DEF Entries
<1> QED
  BY <1>1, <1>2, <1>3, <1>4 DEF MessageInv, Answered

LEMMA QuietTells ==
  ASSUME MessageInv, WireInv, RouterInv,
         \/ AskForAnswer \/ AskForTools \/ AskInVain \/ AskRaises \/ ReachCap \/ UNCHANGED vars
  PROVE  MessageInv'
<1>1. UNCHANGED <<records, frames, transcript>>
  BY DEF AskForAnswer, AskForTools, AskInVain, AskRaises, ReachCap, vars, loopVars, sinkVars
<1>2. pc' = "running" <=> pc = "running"
  BY DEF AskForAnswer, AskForTools, AskInVain, AskRaises, ReachCap, vars
<1>3. Answered' <=> Answered
  BY DEF AskForAnswer, AskForTools, AskInVain, AskRaises, ReachCap, vars, loopVars, Answered
<1>4. Started' = Started
  BY <1>1, <1>2 DEF Started
<1>5. PICK n \in Nat : n = Len(records) /\ Len(records') = n
  BY <1>1, Counted
<1>6. Body' = Body
  BY <1>1, <1>4, <1>5, BodyStays
<1>7. pc = "running" => Told(n + 1)' = Told(n + 1)
  <2>1. ASSUME pc = "running" PROVE Event(n + 1)' = Event(n + 1)
    <3>1. queue' = queue
      BY <2>1 DEF AskForAnswer, AskForTools, AskInVain, AskRaises, ReachCap, vars, loopVars
    <3> QED
      BY <1>1, <3>1 DEF Event, Running
  <2>2. PartsIn(frames', Started', n + 1) = PartsIn(frames, Started, n + 1)
    BY <1>1, <1>4
  <2> QED
    BY <2>1, <2>2, ToldIs, Zenon
<1>8. (pc = "running")' => transcript' = Cat(Body', Told(n + 1)')
  BY <1>1, <1>2, <1>5, <1>6, <1>7 DEF MessageInv
<1>9. Told(Len(records) + 1)' = Told(n + 1)'
  BY <1>5
<1>10. (pc \in {"failing", "crashing"})' => cause' # "none"
  BY DEF AskForAnswer, AskForTools, AskInVain, AskRaises, ReachCap, vars, loopVars, MessageInv
<1> QED
  BY <1>1, <1>2, <1>3, <1>5, <1>6, <1>8, <1>9, <1>10 DEF MessageInv

LEMMA StartTells ==
  ASSUME MessageInv, WireInv, RouterInv, StartTool
  PROVE  MessageInv'
<1> DEFINE v == [seq |-> ToolSeq, skill |-> Running, status |-> "start"]
           e == [kind |-> "tool_event", value |-> v]
<1>1. /\ pc = "dispatching" /\ pc' = "running" /\ UNCHANGED <<queue, records>>
      /\ transcript' = After(transcript, <<ToolFrame(ToolSeq, Running, "start")>>)
  BY DEF StartTool, Send, After
<1>2. PICK n \in Nat : n = Len(records) /\ Len(records') = n /\ ToolSeq = n + 1
  BY <1>1, Counted
<1>3. transcript = Body /\ Entries(Body, n)
  BY <1>1, <1>2 DEF MessageInv, Answered
<1>4. transcript' = AndOne(Body, e)
  <2>1. transcript' = RecordFrame(Body, ToolFrame(ToolSeq, Running, "start"))
    BY <1>1, <1>3, AfterFew
  <2>2. RecordFrame(Body, ToolFrame(ToolSeq, Running, "start")) = RecordToolEvent(Body, v)
    BY DEF RecordFrame, ToolFrame, Frame
  <2>3. v.seq = n + 1
    BY <1>2
  <2>4. RecordToolEvent(Body, v) = AndOne(Body, e)
    <3> HIDE DEF v
    <3> QED
      BY <1>3, <2>3, EventsAre
  <2> QED
    BY <2>1, <2>2, <2>4
<1>5. Body' = Body
  <2>1. \A i \in 1 .. n : PartsIn(frames', Started', i) = PartsIn(frames, Started, i)
    BY <1>2, StartShows
  <2>2. \A i \in 1 .. n : records'[i] = records[i]
    BY <1>1
  <2> QED
    BY <1>2, <2>1, <2>2, BodyStays
<1>6. Event(n + 1)' = e
  BY <1>1, <1>2 DEF Event, Running
<1>7. Told(n + 1)' = <<e>>
  <2>1. PartsIn(frames', Started', n + 1) = << >>
    BY <1>2, StartShows
  <2>2. Told(n + 1)' = TellOf(e, << >>)
    BY <1>6, <2>1, ToldIs, Zenon
  <2>3. Parts(<< >>) = << >> /\ KeptOf(<< >>) = << >>
    BY DEF Parts, KeptOf
  <2>4. TellOf(e, << >>) = Cat(<<e>>, << >>)
    BY <2>3, NoneIsSeq, TellIs, Zenon
  <2>5. Cat(<<e>>, << >>) = <<e>>
    BY OneIsSeq, JoinedToNone
  <2> QED
    BY <2>2, <2>4, <2>5, Zenon
<1>8. AndOne(Body, e) = Cat(Body, <<e>>)
  BY <1>3, AppendIsCat DEF Entries
<1>9. Told(Len(records) + 1)' = Told(n + 1)'
  BY <1>2
<1>10. ~ Answered'
  BY <1>1 DEF Answered
<1> HIDE DEF e
<1> QED
  BY <1>1, <1>2, <1>3, <1>4, <1>5, <1>7, <1>8, <1>9, <1>10 DEF MessageInv

\* What the dispatch at work tells.
LEMMA AtWork ==
  ASSUME MessageInv, WireInv, RouterInv, pc = "running", NEW n, n = Len(records)
  PROVE  LET ps == First(Running, Early)
             e  == [kind |-> "tool_event", value |-> [seq |-> n + 1, skill |-> Running, status |-> "start"]]
         IN  /\ Started = n + 1 /\ n \in Nat /\ Early \in Nat /\ IsSeq(ps)
             /\ PartsIn(frames, Started, Started) = Parts(ps)
             /\ Event(n + 1) = e
             /\ Told(n + 1) = Cat(<<e>>, KeptOf(ps))
             /\ transcript = Cat(Body, Cat(<<e>>, KeptOf(ps)))
             /\ Entries(Body, n)
<1> DEFINE ps == First(Running, Early)
           e == [kind |-> "tool_event", value |-> [seq |-> n + 1, skill |-> Running, status |-> "start"]]
<1>1. Started = n + 1 /\ n \in Nat
  BY Counted
<1>2. Early \in Nat
  <2>1. records = << >> => streamed \in Nat
    BY DEF WireInv
  <2> QED
    BY <2>1, Counted DEF Early
<1>3. IsSeq(ps)
  BY <1>2, FirstIs
<1>4. PartsIn(frames, Started, Started) = Parts(ps)
  BY DEF WireInv
<1>5. Event(n + 1) = e
  BY <1>1 DEF Event
<1>6. transcript = Cat(Body, Told(n + 1)) /\ Entries(Body, n)
  BY DEF MessageInv
<1>7. Told(n + 1) = TellOf(e, Parts(ps))
  BY <1>1, <1>4, <1>5, ToldIs, Zenon
<1> HIDE DEF e, ps
<1>8. TellOf(e, Parts(ps)) = Cat(<<e>>, KeptOf(ps))
  BY <1>3, TellIs
<1> QED
  BY <1>1, <1>2, <1>3, <1>4, <1>5, <1>6, <1>7, <1>8 DEF e, ps

LEMMA MakePartTells ==
  ASSUME MessageInv, WireInv, RouterInv, MakePart
  PROVE  MessageInv'
<1>1. /\ pc = "running" /\ pc' = "running" /\ UNCHANGED <<queue, records, results>>
  BY DEF MakePart
<1>2. PICK n \in Nat : n = Len(records) /\ Len(records') = n
  BY <1>1, Counted
<1> DEFINE ps == First(Running, Early)
           e == [kind |-> "tool_event", value |-> [seq |-> n + 1, skill |-> Running, status |-> "start"]]
<1>3. /\ Started = n + 1 /\ Early \in Nat /\ IsSeq(ps)
      /\ PartsIn(frames, Started, Started) = Parts(ps)
      /\ Event(n + 1) = e
      /\ transcript = Cat(Body, Cat(<<e>>, KeptOf(ps)))
      /\ Entries(Body, n)
  BY <1>1, <1>2, AtWork
<1>4. Started' = Started /\ Running' = Running /\ Event(n + 1)' = Event(n + 1)
  BY <1>1 DEF Started, Running, Event
<1>5. ~ Answered'
  BY <1>1 DEF Answered
<1> HIDE DEF ps, e
<1>6. ASSUME NEW qs, IsSeq(qs), PartsIn(frames', Started', n + 1) = Parts(qs),
             \A i \in 1 .. n : PartsIn(frames', Started', i) = PartsIn(frames, Started, i),
             transcript' = Cat(Body, Cat(<<e>>, KeptOf(qs)))
      PROVE  MessageInv'
  <2>1. Body' = Body
    BY <1>1, <1>2, <1>6, BodyStays
  <2>2. Told(n + 1)' = TellOf(e, Parts(qs))
    BY <1>3, <1>4, <1>6, ToldIs, Zenon
  <2>3. Told(n + 1)' = Cat(<<e>>, KeptOf(qs))
    BY <1>6, <2>2, TellIs, Zenon
  <2>4. Told(Len(records) + 1)' = Told(n + 1)'
    BY <1>2
  <2> QED
    BY <1>1, <1>2, <1>3, <1>5, <1>6, <2>1, <2>3, <2>4 DEF MessageInv
<1>7. CASE Running \in Streaming /\ Live
  <2> DEFINE p == PartOf(Running, made + 1)
             f == Frame("part", p)
             gs == <<f>>
  <2>1. frames' = frames \o gs /\ transcript' = After(transcript, gs)
    BY <1>7 DEF MakePart, Send, After
  <2>2. f.name = "part" /\ f.value = p /\ IsSeq(gs) /\ Len(gs) = 1 /\ gs[1] = f
    BY OneIsSeq DEF Frame
  <2>3. \A k \in DOMAIN gs : ~ Starting(gs[k])
    <3>1. DOMAIN gs = 1 .. 1
      BY <2>2, SeqIs
    <3> QED
      BY <2>2, <3>1 DEF Starting
  <2>4. PartsAmong(gs) = gs
    BY <2>2, AmongOne
  <2> DEFINE qs == AndOne(ps, p)
  <2>5. IsSeq(qs)
    BY <1>3, AppendIs
  <2>6. Parts(qs) = AndOne(Parts(ps), f) /\ KeptOf(qs) = AndOne(KeptOf(ps), Kept(p)) /\ IsSeq(Parts(ps)) /\ IsSeq(KeptOf(ps))
    BY <1>3, PartsAppended, PartsAreSeqs
  <2>7. transcript' = Cat(Body, Cat(<<e>>, KeptOf(qs)))
    <3>1. transcript' = RecordFrame(transcript, f)
      BY <2>1, AfterFew
    <3>2. RecordFrame(transcript, f) = AndOne(transcript, Kept(p))
      BY <2>2 DEF RecordFrame, AndOne
    <3> DEFINE t == Cat(<<e>>, KeptOf(ps))
    <3>3. IsSeq(t) /\ AndOne(t, Kept(p)) = Cat(<<e>>, AndOne(KeptOf(ps), Kept(p)))
      BY <2>6, OneIsSeq, Headed, AppendJoined
    <3> HIDE DEF t
    <3>4. IsSeq(Body)
      BY <1>3 DEF Entries
    <3>5. AndOne(Cat(Body, t), Kept(p)) = Cat(Body, AndOne(t, Kept(p)))
      BY <3>3, <3>4, AppendJoined
    <3> QED
      BY <1>3, <2>6, <3>1, <3>2, <3>3, <3>5, Zenon DEF t
  <2> HIDE DEF f, gs, qs
  <2>8. /\ \A i \in 1 .. Started : i < Started => PartsIn(frames', Started', i) = PartsIn(frames, Started, i)
        /\ Started > 0 => PartsIn(frames', Started', Started)
                             = Cat(PartsIn(frames, Started, Started), PartsAmong(gs))
    BY <1>4, <2>1, <2>2, <2>3, SentBehind
  <2>9. PartsIn(frames', Started', n + 1) = Parts(qs)
    <3>1. AndOne(Parts(ps), f) = Cat(Parts(ps), gs)
      BY <2>6, AppendIsCat DEF gs
    <3>2. Started > 0
      BY <1>3
    <3> QED
      BY <1>3, <2>4, <2>6, <2>8, <3>1, <3>2, Zenon
  <2>10. \A i \in 1 .. n : PartsIn(frames', Started', i) = PartsIn(frames, Started, i)
    BY <1>3, <2>8
  <2> QED
    BY <1>6, <2>5, <2>7, <2>9, <2>10
<1>8. CASE ~ (Running \in Streaming /\ Live)
  <2>1. UNCHANGED <<streamed, frames, transcript>>
    BY <1>8 DEF MakePart
  <2>2. \A i : PartsIn(frames', Started', i) = PartsIn(frames, Started, i)
    BY <1>4, <2>1
  <2>3. PartsIn(frames', Started', n + 1) = Parts(ps)
    BY <1>3, <2>2
  <2> QED
    BY <1>3, <1>6, <2>1, <2>2, <2>3
<1> QED
  BY <1>7, <1>8

\* The end of a dispatch, its event replaced and the rest of its parts kept.
LEMMA EndTells ==
  ASSUME MessageInv, WireInv, RouterInv, pc = "running", pc' # "running", pc' # "over",
         pc' \in {"failing", "crashing"} => cause' # "none",
         NEW status \in {"ok", "error"}, Recorded(status),
         NEW word, word = IF status = "ok" THEN "done" ELSE "error",
         NEW rest, IsSeq(rest), Send(<<ToolFrame(ToolSeq, Running, word)>> \o Parts(rest))
  PROVE  MessageInv'
<1> DEFINE d == ToolFrame(ToolSeq, Running, word)
           t == Parts(rest)
           gs == Cat(<<d>>, t)
           v == [seq |-> ToolSeq, skill |-> Running, status |-> word]
           new == [kind |-> "tool_event", value |-> v]
<1>1. PICK n \in Nat : /\ n = Len(records) /\ ToolSeq = n + 1 /\ Started = n + 1
                       /\ DOMAIN records = 1 .. n
  BY Counted
<1> DEFINE ps == First(Running, Early)
           e == [kind |-> "tool_event", value |-> [seq |-> n + 1, skill |-> Running, status |-> "start"]]
<1>2. /\ IsSeq(ps) /\ PartsIn(frames, Started, Started) = Parts(ps)
      /\ transcript = Cat(Body, Cat(<<e>>, KeptOf(ps)))
      /\ Entries(Body, n)
  BY <1>1, AtWork
<1>3. /\ Len(records') = n + 1 /\ records'[n + 1] = [skill |-> Running, status |-> status]
      /\ \A i \in 1 .. n : records'[i] = records[i]
  BY <1>1, RecordAdded
<1>4. Started' = n + 1
  BY <1>3 DEF Started
<1>5. Event(n + 1)' = new
  BY <1>1, <1>3 DEF Event
<1>6. frames' = frames \o gs /\ transcript' = After(transcript, gs)
  BY DEF Send, After, Cat
<1>7. d.name = "tool" /\ d.value = v /\ v.seq = n + 1 /\ v.status = word /\ word # "start"
  BY <1>1 DEF ToolFrame, Frame
<1>8. e.kind = "tool_event" /\ e.value.seq = n + 1
  OBVIOUS
<1>9. Entry(new, n + 1)
  <2>1. \E k, x : new = [kind |-> k, value |-> x]
    OBVIOUS
  <2>2. new.value.seq \in 1 .. n + 1
    BY <1>1, <1>7
  <2> QED
    BY <2>1, <2>2 DEF Entry
<1>10. IsSeq(t) /\ IsSeq(<<d>>) /\ IsSeq(KeptOf(ps)) /\ IsSeq(KeptOf(rest)) /\ IsSeq(Parts(ps))
  BY <1>2, PartsAreSeqs, OneIsSeq
<1> HIDE DEF ps, e, d, v
<1>11. IsSeq(gs) /\ (\A k \in DOMAIN gs : ~ Starting(gs[k])) /\ PartsAmong(gs) = t
  BY <1>7, EventThenParts
<1> HIDE DEF gs
<1> DEFINE qs == Cat(ps, rest)
<1>13. IsSeq(qs) /\ Parts(qs) = Cat(Parts(ps), t) /\ KeptOf(qs) = Cat(KeptOf(ps), KeptOf(rest))
  BY <1>2, JoinedIs, PartsJoined, KeptBoth
<1>14. /\ \A i \in 1 .. n : PartsIn(frames', Started', i) = PartsIn(frames, Started, i)
       /\ PartsIn(frames', Started', n + 1) = Parts(qs)
  <2>1. /\ \A i \in 1 .. Started : i < Started => PartsIn(frames', Started', i) = PartsIn(frames, Started, i)
        /\ Started > 0 => PartsIn(frames', Started', Started)
                             = Cat(PartsIn(frames, Started, Started), PartsAmong(gs))
    BY <1>1, <1>4, <1>6, <1>11, SentBehind
  <2>2. \A i \in 1 .. n : i \in 1 .. Started /\ i < Started
    BY <1>1
  <2>3. Started > 0
    BY <1>1
  <2>4. PartsIn(frames', Started', n + 1) = Parts(qs)
    BY <1>1, <1>2, <1>11, <1>13, <2>1, <2>3, Zenon
  <2> QED
    BY <2>1, <2>2, <2>4
<1>15. Told(n + 1)' = Cat(<<new>>, KeptOf(qs))
  <2>1. Told(n + 1)' = TellOf(new, Parts(qs))
    BY <1>5, <1>14, ToldIs, Zenon
  <2> QED
    BY <1>13, <2>1, TellIs, Zenon
<1>16. Body' = Cat(Body, Cat(<<new>>, KeptOf(qs)))
  <2>1. Body' = Cat(Body, Told(n + 1)')
    BY <1>1, <1>3, <1>14, BodyGrows
  <2> QED
    BY <1>15, <2>1, Zenon
<1> HIDE DEF qs, new
<1>17. Entries(Body', n + 1)
  <2>1. Entries(Cat(<<new>>, KeptOf(qs)), n + 1)
    BY <1>9, <1>13, TellIs
  <2>2. Entries(Body, n + 1)
    BY <1>2, EntriesMore
  <2> QED
    BY <1>16, <2>1, <2>2, EntriesBoth, Zenon
<1>18. transcript' = Body'
  <2> DEFINE mid == Cat(<<new>>, KeptOf(ps))
  <2>1. After(transcript, gs) = After(After(transcript, <<d>>), t)
    BY <1>10, AfterBoth DEF gs
  <2>2. After(transcript, <<d>>) = RecordToolEvent(transcript, v)
    <3>1. After(transcript, <<d>>) = RecordFrame(transcript, d)
      BY AfterFew
    <3> QED
      BY <1>7, <3>1 DEF RecordFrame
  <2>3. RecordToolEvent(transcript, v) = Cat(Body, mid)
    <3>1. \A k \in DOMAIN KeptOf(ps) : KeptOf(ps)[k].kind # "tool_event"
      BY <1>2, KeptIs
    <3>2. RecordToolEvent(Cat(Body, Cat(<<e>>, KeptOf(ps))), v)
            = Cat(Body, Cat(<<[kind |-> "tool_event", value |-> v]>>, KeptOf(ps)))
      BY <1>2, <1>7, <1>8, <1>10, <3>1, EventsAre
    <3> QED
      BY <1>2, <3>2 DEF new
  <2>4. IsSeq(mid) /\ IsSeq(Body)
    BY <1>2, <1>10, Headed DEF Entries
  <2>5. IsSeq(Cat(Body, mid))
    BY <2>4, JoinedIs
  <2>6. After(Cat(Body, mid), t) = Cat(Cat(Body, mid), KeptOf(rest))
    BY <2>5, PartsAre
  <2>7. Cat(Cat(Body, mid), KeptOf(rest)) = Cat(Body, Cat(mid, KeptOf(rest)))
    BY <1>10, <2>4, JoinsAssociate
  <2>8. Cat(mid, KeptOf(rest)) = Cat(<<new>>, Cat(KeptOf(ps), KeptOf(rest)))
    BY <1>10, OneIsSeq, JoinsAssociate
  <2> QED
    BY <1>6, <1>13, <1>16, <2>1, <2>2, <2>3, <2>6, <2>7, <2>8, Zenon
<1>19. ~ Answered'
  BY DEF Answered
<1> QED
  BY <1>3, <1>17, <1>18, <1>19 DEF MessageInv

LEMMA SucceedTells ==
  ASSUME MessageInv, WireInv, RouterInv, Succeed
  PROVE  MessageInv'
<1>1. PICK result \in Result :
        /\ Send(<<ToolFrame(ToolSeq, Running, "done")>> \o Parts(SubSeq(result, Early + 1, Len(result))))
        /\ results' = Append(results, result)
  BY DEF Succeed
<1>2. pc = "running" /\ pc' # "running" /\ pc' # "over" /\ pc' \notin {"failing", "crashing"} /\ Recorded("ok")
  BY DEF Succeed
<1>3. IsSeq(SubSeq(result, Early + 1, Len(result)))
  BY <1>1, <1>2, RestOfResult
<1> QED
  BY <1>1, <1>2, <1>3, EndTells

LEMMA BreakTells ==
  ASSUME MessageInv, WireInv, RouterInv, Correct \/ FailAgain
  PROVE  MessageInv'
<1>1. /\ pc = "running" /\ pc' # "running" /\ pc' # "over" /\ Recorded("error")
      /\ pc' \in {"failing", "crashing"} => cause' # "none"
      /\ Send(<<ToolFrame(ToolSeq, Running, "error")>>)
  BY DEF Correct, FailAgain, Break
<1>2. Parts(<< >>) = << >>
  BY DEF Parts
<1> DEFINE u == <<ToolFrame(ToolSeq, Running, "error")>>
<1>3. u \o << >> = u
  BY OneIsSeq, JoinedToNone DEF Cat
<1>4. Send(u \o Parts(<< >>))
  BY <1>1, <1>2, <1>3, Zenon
<1> QED
  BY <1>1, <1>4, NoneIsSeq, EndTells

\* The last frames of a turn tell the answer, or nothing.
LEMMA LastTells ==
  ASSUME MessageInv, WireInv, RouterInv, Answer \/ SendError
  PROVE  MessageInv'
<1>1. pc # "running" /\ ~ Answered /\ pc' = "over" /\ UNCHANGED <<records, cause>>
  BY DEF Answer, SendError, loopVars, Answered
<1>2. PICK n \in Nat : n = Len(records) /\ Len(records') = n /\ Started = n
  BY <1>1, Counted
<1>3. transcript = Body /\ Entries(Body, n)
  BY <1>1, <1>2 DEF MessageInv
<1>4. \A i \in 1 .. n : PartsIn(frames', Started', i) = PartsIn(frames, Started, i)
  BY <1>2, LastStepShows
<1>5. Body' = Body
  BY <1>1, <1>2, <1>4, BodyStays
<1>6. CASE Answer
  <2> DEFINE a == Frame("token", Text)
             b == Frame("done", 0)
  <2>1. transcript' = After(Body, Cat(<<a>>, <<b>>))
    <3>1. <<a, b>> = <<a>> \o <<b>>
      OBVIOUS
    <3> QED
      BY <1>3, <1>6, <3>1 DEF Answer, Send, After, Cat
  <2>2. a.name = "token" /\ a.value = Text /\ b.name = "done"
    BY DEF Frame
  <2> HIDE DEF a, b
  <2>3. After(Body, Cat(<<a>>, <<b>>)) = After(After(Body, <<a>>), <<b>>)
    BY OneIsSeq, AfterBoth
  <2>4. After(Body, <<a>>) = RecordFrame(Body, a)
    BY AfterFew
  <2>5. RecordFrame(Body, a) = FoldToken(Body, Text)
    BY <2>2 DEF RecordFrame
  <2>6. After(FoldToken(Body, Text), <<b>>) = RecordFrame(FoldToken(Body, Text), b)
    BY AfterFew
  <2>7. RecordFrame(FoldToken(Body, Text), b) = FoldToken(Body, Text)
    BY <2>2 DEF RecordFrame
  <2>8. transcript' = FoldToken(Body, Text)
    BY <2>1, <2>3, <2>4, <2>5, <2>6, <2>7, Zenon
  <2>9. cause = "none"
    BY <1>6 DEF Answer, RouterInv, LoopInv
  <2> QED
    BY <1>1, <1>2, <1>3, <1>5, <2>8, <2>9 DEF MessageInv, Answered
<1>7. CASE SendError
  <2> DEFINE a == Frame("error", cause)
  <2>1. transcript' = After(Body, <<a>>)
    BY <1>3, <1>7 DEF SendError, Send, After
  <2>2. After(Body, <<a>>) = RecordFrame(Body, a)
    BY AfterFew
  <2>3. RecordFrame(Body, a) = Body
    BY DEF RecordFrame, Frame
  <2>4. transcript' = Body
    BY <2>1, <2>2, <2>3, Zenon
  <2>5. cause # "none"
    BY <1>7 DEF SendError, MessageInv
  <2> QED
    BY <1>1, <1>2, <1>3, <1>5, <2>4, <2>5 DEF MessageInv, Answered
<1> QED
  BY <1>6, <1>7

LEMMA MessageStep ==
  ASSUME MessageInv, WireInv, RouterInv, [Next]_vars
  PROVE  MessageInv'
BY QuietTells, StartTells, MakePartTells, SucceedTells, BreakTells, LastTells DEF Next

LEMMA MessageHolds == Spec => []MessageInv
<1>1. Init => MessageInv
  BY MessageInit
<1>2. (RouterInv /\ WireInv) /\ MessageInv /\ [Next]_vars => MessageInv'
  BY MessageStep
<1> QED
  BY <1>1, <1>2, WireHolds, PTL DEF Spec

\* The answer is told in the text part that it follows.
LEMMA AnswerTold ==
  ASSUME NEW n \in Nat, NEW s, Entries(s, n)
  PROVE  FoldToken(s, Text) =
           IF Len(s) > 0 /\ s[Len(s)].kind = "text"
           THEN SubSeq(s, 1, Len(s) - 1) \o <<[kind |-> "text", value |-> Append(s[Len(s)].value, Text)]>>
           ELSE Append(s, [kind |-> "text", value |-> <<Text>>])
<1> DEFINE m == Len(s)
           last == [kind |-> "text", value |-> Append(s[m].value, Text)]
<1>1. PICK T : s \in Seq(T)
  BY DEF Entries, IsSeq
<1>2. m \in Nat /\ DOMAIN s = 1 .. m /\ (s = << >> <=> m = 0)
  BY <1>1
<1>3. CASE m > 0 /\ s[m].kind = "text"
  <2> DEFINE r == [s EXCEPT ![m] = last]
             f == SubSeq(s, 1, m - 1)
             q == Cat(f, <<last>>)
  <2>1. [s EXCEPT ![m].value = Append(@, Text)] = r
    <3>1. PICK k, v : s[m] = [kind |-> k, value |-> v]
      <4>1. m \in DOMAIN s
        BY <1>2, <1>3
      <4>2. Entry(s[m], n)
        BY <4>1 DEF Entries
      <4> QED
        BY <4>2 DEF Entry
    <3>4. \A x, y : [[kind |-> x, value |-> y] EXCEPT !.value = Append(@, Text)]
                      = [kind |-> x, value |-> Append(y, Text)]
      OBVIOUS
    <3>2. [s[m] EXCEPT !.value = Append(@, Text)] = [kind |-> k, value |-> Append(v, Text)]
      BY <3>1, <3>4
    <3>3. last = [kind |-> k, value |-> Append(v, Text)]
      BY <1>3, <3>1
    <3> QED
      BY <3>2, <3>3
  <2> HIDE DEF last
  <2>10. m - 1 \in Nat /\ m - 1 + 1 = m /\ m \in 1 .. m /\ (\A i \in 1 .. m - 1 : i \in 1 .. m /\ i # m)
        /\ \A i \in 1 .. m : i = m \/ i \in 1 .. m - 1
    <3>1. m \in Nat /\ m > 0
      BY <1>2, <1>3
    <3> QED
      BY <3>1
  <2>2. r = [i \in 1 .. m |-> r[i]] /\ r[m] = last /\ \A i \in 1 .. m - 1 : r[i] = s[i]
    <3>1. DOMAIN s = 1 .. m
      BY <1>2
    <3> HIDE DEF m
    <3> QED
      BY <2>10, <3>1
  <2>3. IsSeq(r) /\ Len(r) = m
    <3> HIDE DEF r
    <3> QED
      BY <1>2, <2>2, MapIsSeq
  <2>4. IsSeq(f) /\ Len(f) = m - 1 /\ \A i \in 1 .. m - 1 : f[i] = s[i]
    <3>1. f \in Seq(T) /\ Len(f) = m - 1 /\ \A i \in 1 .. m - 1 : f[i] = s[i]
      BY <1>1, <1>2, <1>3
    <3> QED
      BY <3>1 DEF IsSeq
  <2> HIDE DEF f
  <2>5. AndOne(f, last) = q
    BY <2>4, AppendIsCat
  <2>6. IsSeq(AndOne(f, last)) /\ Len(AndOne(f, last)) = m /\ AndOne(f, last)[m] = last
        /\ \A i \in 1 .. m - 1 : AndOne(f, last)[i] = f[i]
    <3>1. /\ IsSeq(AndOne(f, last)) /\ Len(AndOne(f, last)) = Len(f) + 1
          /\ AndOne(f, last)[Len(f) + 1] = last
          /\ \A i \in 1 .. Len(f) : AndOne(f, last)[i] = f[i]
      BY <2>4, AppendIs
    <3> QED
      BY <2>4, <2>10, <3>1
  <2> DEFINE z == AndOne(f, last)
  <2> HIDE DEF r, z
  <2>7. r = z
    <3>2. \A i \in 1 .. m : r[i] = z[i]
      BY <2>2, <2>4, <2>6, <2>10 DEF z
    <3> QED
      BY <2>3, <2>6, <3>2, SameSeq DEF z
  <2>8. FoldToken(s, Text) = r
    BY <1>2, <1>3, <2>1 DEF FoldToken, Last
  <2> QED
    BY <1>3, <2>5, <2>7, <2>8 DEF z, Cat, last, f
<1>4. CASE ~ (m > 0 /\ s[m].kind = "text")
  BY <1>2, <1>4 DEF FoldToken, Last
<1> QED
  BY <1>3, <1>4

\* The message is the turn in the order it happened.
LEMMA MessageFollows == MessageInv /\ RouterInv => MessageFollowsTheTurn
<1> SUFFICES ASSUME MessageInv, RouterInv PROVE MessageFollowsTheTurn
  OBVIOUS
<1> DEFINE body == FoldLeft(Joined, << >>, [i \in 1 .. Started |-> Told(i)])
           n == Len(records)
<1>1. n \in Nat /\ Entries(Body, n)
  BY Counted DEF MessageInv
<1>2. CASE pc = "running"
  <2> DEFINE bs == [i \in 1 .. n + 1 |-> Told(i)]
             cs == [i \in 1 .. n |-> Told(i)]
  <2>1. Started = n + 1
    BY <1>2 DEF Started
  <2>2. body = AllOf(bs) /\ Body = AllOf(cs)
    BY <2>1 DEF AllOf, Body
  <2>3. /\ bs = [i \in 1 .. n + 1 |-> bs[i]] /\ cs = [i \in 1 .. n |-> cs[i]]
        /\ \A i \in 1 .. n : bs[i] = cs[i]
    BY <1>1
  <2>4. bs[n + 1] = Told(n + 1)
    BY <1>1
  <2> HIDE DEF bs, cs
  <2>5. AllOf(bs) = Cat(AllOf(cs), bs[n + 1])
    BY <1>1, <2>3, AllToOne
  <2>6. transcript = body
    BY <1>2, <2>2, <2>4, <2>5, Zenon DEF MessageInv
  <2>7. ~ Answered
    BY <1>2 DEF Answered
  <2> QED
    BY <2>6, <2>7 DEF MessageFollowsTheTurn
<1>3. CASE pc # "running"
  <2>1. Started = n
    BY <1>1, <1>3 DEF Started
  <2>2. body = Body
    BY <2>1 DEF AllOf, Body
  <2>3. CASE ~ Answered
    BY <1>3, <2>2, <2>3 DEF MessageFollowsTheTurn, MessageInv
  <2>4. CASE Answered
    <3>1. transcript = FoldToken(Body, Text)
      BY <2>4 DEF MessageInv
    <3>2. FoldToken(Body, Text) =
            IF Len(Body) > 0 /\ Body[Len(Body)].kind = "text"
            THEN SubSeq(Body, 1, Len(Body) - 1) \o <<[kind |-> "text", value |-> Append(Body[Len(Body)].value, Text)]>>
            ELSE Append(Body, [kind |-> "text", value |-> <<Text>>])
      BY <1>1, AnswerTold
    <3> QED
      BY <2>2, <2>4, <3>1, <3>2 DEF MessageFollowsTheTurn
  <2> QED
    BY <2>3, <2>4
<1> QED
  BY <1>2, <1>3

\* What the wire shows of a dispatch is what its result holds, each part once,
\* however much of it was streamed early (_streamed_counts of dispatch.py).
THEOREM DispatchesShowTheirParts == Spec => []DispatchShowsItsParts
BY WireShowsTheParts, WireHolds, PTL

\* The message that is kept tells the turn in the order it happened (the
\* transcript of core/chat/history.py that every frame is folded into).
THEOREM MessagesFollowTheTurn == Spec => []MessageFollowsTheTurn
<1>1. MessageInv /\ RouterInv => MessageFollowsTheTurn
  BY MessageFollows
<1> QED
  BY <1>1, MessageHolds, RouterInvariant, PTL

-----------------------------------------------------------------------------
(* The brief: the invariant says how many parts each moment of a brief has  *)
(* laid and whose words they are.                                           *)

AnyPlace   == {"metrics", "ports", "context", "sustainability", "market_position", "strategic_profile",
               "operational_profile", "web_research", "crm"}
AnyText    == {"", "data", "text", Stub, Failure}
AnyReason  == {"", "parse", "schema", "wire", "no fixture", "no tools", "raised"} \union Trouble
AnySection == [title : AnyPlace, degraded : BOOLEAN, reason : AnyReason, items : Nat, summary : BOOLEAN]
AnyPart    == [place : AnyPlace, shows : AnyText \union AnySection]
Calls == Searches(kind)
States == {"idle", "runs"} \union Finished

BriefTypeOK ==
  /\ env \in Settings /\ kind \in Kinds
  /\ at \in {"start", "joining", "research", "context", "strategy", "proof", "over"}
  /\ parts \in Seq(AnyPart)
  /\ context \in [state : States, text : AnyText]
  /\ research \in [state : States, sections : Seq(AnySection)]
  /\ strategy.text \in AnyText

\* Where the findings begin, and where the last part is.
Before == IF Existing THEN 3 ELSE 0
CrmAt  == IF Existing THEN 7 ELSE 4

Placed ==
  /\ \A i \in DOMAIN parts : i <= Len(Plan) /\ parts[i].place = Plan[i]
  /\ env.live => emitted = parts

\* How far the phases are, and how many parts are laid.
Phases ==
  /\ at = "start" => Len(parts) = 0 /\ context.state = "idle" /\ research.state = "idle"
  /\ at = "joining" => Existing /\ Len(parts) = 2 /\ research.state # "idle"
  /\ at = "research" => ~Existing /\ Len(parts) = 0 /\ context.state = "idle" /\ research.state # "idle"
  /\ at = "context" => ~Existing /\ Len(parts) = 2 /\ research.state \in Finished
  /\ at \in {"strategy", "proof"} => context.state \in Finished /\ research.state \in Finished
  /\ at = "strategy" => Len(parts) = CrmAt - 1
  /\ at = "proof" => Len(parts) = CrmAt
  /\ at = "over" => context.state # "runs" /\ research.state # "runs"

\* The findings so far, in the order of the calls.
Findings ==
  /\ research.state = "runs" => Len(research.sections) < Len(Calls)
  /\ research.state = "done" => Len(research.sections) = Len(Calls)
  /\ \A i \in 1 .. Len(research.sections) : i <= Len(Calls) /\ research.sections[i].title = Calls[i]

\* What the parts show.
Contents ==
  /\ at \in {"context", "strategy", "proof"} =>
       \A i \in 1 .. Len(Calls) : parts[Before + i].shows = Sections[i]
  /\ at \in {"strategy", "proof"} => parts[3].shows = ContextText
  /\ at = "proof" => parts[CrmAt].shows = strategy.text /\ strategy.read = Reads

\* What a brief that succeeded is, as BriefIsWhole has it.
Whole ==
  LET calls == Searches(kind)
      found == [i \in DOMAIN calls |-> PartAt(calls[i])]
  IN  /\ Len(parts) = Len(Plan) /\ brief.parts = parts /\ brief.pdf \in {parts, << >>}
      /\ strategy.read = <<PartAt("context"), found>>
      /\ brief.failed = {p \in {"contextualize", "research", "strategize"} :
           CASE p = "contextualize" -> PartAt("context") = Failure
             [] p = "strategize"    -> PartAt("crm") = Failure
             [] OTHER -> \A i \in DOMAIN calls : found[i].degraded}

Resulted == brief.ok => at = "over" /\ Whole

BriefInv == BriefTypeOK /\ Placed /\ Phases /\ Findings /\ Contents /\ Resulted

-----------------------------------------------------------------------------
(* The places of a brief.                                                   *)

LEMMA Tuples ==
  ASSUME NEW S, NEW a \in S, NEW b \in S, NEW c \in S
  PROVE  /\ <<a>> \in Seq(S) /\ <<a, b>> \in Seq(S) /\ <<a, b, c>> \in Seq(S)
         /\ Len(<<a>>) = 1 /\ Len(<<a, b>>) = 2 /\ Len(<<a, b, c>>) = 3
OBVIOUS

LEMMA CallsAre ==
  /\ Calls \in Seq(AnyPlace) /\ DOMAIN Calls = 1 .. Len(Calls)
  /\ Existing => /\ Len(Calls) = 3
                 /\ Calls = <<"sustainability", "market_position", "strategic_profile">>
  /\ ~Existing => /\ Len(Calls) = 2
                  /\ Calls = <<"operational_profile", "web_research">>
<1>1. CASE Existing
  <2>1. Calls = <<"sustainability", "market_position", "strategic_profile">>
    BY <1>1 DEF Calls, Searches, Existing
  <2>2. Calls \in Seq(AnyPlace) /\ Len(Calls) = 3
    BY <2>1, Tuples DEF AnyPlace
  <2> QED
    BY <1>1, <2>1, <2>2
<1>2. CASE ~Existing
  <2>1. Calls = <<"operational_profile", "web_research">>
    BY <1>2 DEF Calls, Searches, Existing
  <2>2. Calls \in Seq(AnyPlace) /\ Len(Calls) = 2
    BY <2>1, Tuples DEF AnyPlace
  <2> QED
    BY <1>2, <2>1, <2>2
<1> QED
  BY <1>1, <1>2

\* Two pieces of it, one after the other.
LEMMA JoinedReads ==
  ASSUME NEW s \in Seq(AnyPlace), NEW t \in Seq(AnyPlace)
  PROVE  /\ s \o t \in Seq(AnyPlace) /\ Len(s \o t) = Len(s) + Len(t)
         /\ \A i \in 1 .. Len(s) : (s \o t)[i] = s[i]
         /\ \A i \in 1 .. Len(t) : (s \o t)[Len(s) + i] = t[i]
<1>1. /\ s \o t \in Seq(AnyPlace) /\ Len(s \o t) = Len(s) + Len(t)
      /\ \A i \in 1 .. Len(s) + Len(t) : (s \o t)[i] = IF i <= Len(s) THEN s[i] ELSE t[i - Len(s)]
  BY ConcatProperties
<1>2. Len(s) \in Nat /\ Len(t) \in Nat
  OBVIOUS
<1>3. \A i \in 1 .. Len(t) : (s \o t)[Len(s) + i] = t[i]
  <2>1. TAKE i \in 1 .. Len(t)
  <2>2. Len(s) + i \in 1 .. Len(s) + Len(t) /\ ~(Len(s) + i <= Len(s)) /\ (Len(s) + i) - Len(s) = i
    BY <1>2
  <2> QED
    BY <1>1, <2>2
<1> QED
  BY <1>1, <1>2, <1>3

\* The places in a row.
LEMMA PlanReads ==
  /\ Plan \in Seq(AnyPlace) /\ Len(Plan) = CrmAt
  /\ Existing => /\ Plan[1] = "metrics" /\ Plan[2] = "ports" /\ Plan[3] = "context"
                 /\ Plan[4] = "sustainability" /\ Plan[5] = "market_position"
                 /\ Plan[6] = "strategic_profile" /\ Plan[7] = "crm"
  /\ ~Existing => /\ Plan[1] = "operational_profile" /\ Plan[2] = "web_research"
                  /\ Plan[3] = "context" /\ Plan[4] = "crm"
<1>1. CASE Existing
  <2> DEFINE first  == <<"metrics", "ports", "context">>
             second == <<"sustainability", "market_position", "strategic_profile">>
             last   == <<"crm">>
  <2>1. Plan = (first \o second) \o last
    BY <1>1 DEF Plan, Searches
  <2>2. /\ first \in Seq(AnyPlace) /\ second \in Seq(AnyPlace) /\ last \in Seq(AnyPlace)
        /\ Len(first) = 3 /\ Len(second) = 3 /\ Len(last) = 1
    BY Tuples DEF AnyPlace
  <2>3. /\ first[1] = "metrics" /\ first[2] = "ports" /\ first[3] = "context"
        /\ second[1] = "sustainability" /\ second[2] = "market_position"
        /\ second[3] = "strategic_profile" /\ last[1] = "crm"
    OBVIOUS
  <2> HIDE DEF first, second, last
  <2>4. /\ first \o second \in Seq(AnyPlace) /\ Len(first \o second) = 3 + 3
        /\ \A i \in 1 .. 3 : (first \o second)[i] = first[i] /\ (first \o second)[3 + i] = second[i]
    <3>1. /\ first \o second \in Seq(AnyPlace) /\ Len(first \o second) = Len(first) + Len(second)
          /\ \A i \in 1 .. Len(first) : (first \o second)[i] = first[i]
          /\ \A i \in 1 .. Len(second) : (first \o second)[Len(first) + i] = second[i]
      BY <2>2, JoinedReads, Zenon
    <3> QED
      BY <2>2, <3>1
  <2> DEFINE start == first \o second
  <2>5. /\ start \in Seq(AnyPlace) /\ Len(start) = 6 /\ Plan = start \o last
        /\ start[1] = first[1] /\ start[2] = first[2] /\ start[3] = first[3]
        /\ start[4] = second[1] /\ start[5] = second[2] /\ start[6] = second[3]
    <3>1. \A i \in 1 .. 3 : start[i] = first[i] /\ start[3 + i] = second[i]
      BY <2>4
    <3>2. Plan = start \o last /\ start \in Seq(AnyPlace) /\ Len(start) = 6
      BY <2>1, <2>4
    <3> HIDE DEF start
    <3> QED
      BY <3>1, <3>2
  <2> HIDE DEF start
  <2>6. /\ Plan \in Seq(AnyPlace) /\ Len(Plan) = 6 + 1
        /\ \A i \in 1 .. 6 : Plan[i] = start[i]
        /\ \A i \in 1 .. 1 : Plan[6 + i] = last[i]
    <3>1. /\ start \o last \in Seq(AnyPlace) /\ Len(start \o last) = Len(start) + Len(last)
          /\ \A i \in 1 .. Len(start) : (start \o last)[i] = start[i]
          /\ \A i \in 1 .. Len(last) : (start \o last)[Len(start) + i] = last[i]
      BY <2>2, <2>5, JoinedReads, Zenon
    <3> QED
      BY <2>2, <2>5, <3>1
  <2>7. /\ Plan[1] = start[1] /\ Plan[2] = start[2] /\ Plan[3] = start[3] /\ Plan[4] = start[4]
        /\ Plan[5] = start[5] /\ Plan[6] = start[6] /\ Plan[7] = last[1]
    BY <2>6
  <2> QED
    BY <1>1, <2>3, <2>5, <2>6, <2>7 DEF CrmAt
<1>2. CASE ~Existing
  <2> DEFINE first == <<"operational_profile", "web_research">>
             last  == <<"context", "crm">>
  <2>1. Plan = first \o last
    BY <1>2 DEF Plan, Searches
  <2>2. /\ first \in Seq(AnyPlace) /\ last \in Seq(AnyPlace) /\ Len(first) = 2 /\ Len(last) = 2
    BY Tuples DEF AnyPlace
  <2>3. /\ first[1] = "operational_profile" /\ first[2] = "web_research"
        /\ last[1] = "context" /\ last[2] = "crm"
    OBVIOUS
  <2> HIDE DEF first, last
  <2>4. /\ Plan \in Seq(AnyPlace) /\ Len(Plan) = 4
        /\ \A i \in 1 .. 2 : Plan[i] = first[i] /\ Plan[2 + i] = last[i]
    <3>1. /\ first \o last \in Seq(AnyPlace) /\ Len(first \o last) = Len(first) + Len(last)
          /\ \A i \in 1 .. Len(first) : (first \o last)[i] = first[i]
          /\ \A i \in 1 .. Len(last) : (first \o last)[Len(first) + i] = last[i]
      BY <2>2, JoinedReads, Zenon
    <3> QED
      BY <2>1, <2>2, <3>1
  <2> QED
    BY <1>2, <2>3, <2>4 DEF CrmAt
<1> QED
  BY <1>1, <1>2

\* Each place comes once, and the findings are in the order of the calls.
LEMMA PlanIs ==
  /\ Plan \in Seq(AnyPlace) /\ Len(Plan) = CrmAt
  /\ Plan[3] = "context" /\ Plan[CrmAt] = "crm"
  /\ Existing => Plan[1] = "metrics" /\ Plan[2] = "ports"
  /\ \A i \in 1 .. Len(Calls) : Before + i \in 1 .. CrmAt /\ Plan[Before + i] = Calls[i]
  /\ \A i, j \in 1 .. CrmAt : Plan[i] = Plan[j] => i = j
<1>1. CASE Existing
  <2>1. \A i \in 1 .. 3 : Plan[3 + i] = Calls[i]
    BY <1>1, PlanReads, CallsAre
  <2>2. \A i, j \in 1 .. 7 : Plan[i] = Plan[j] => i = j
    BY <1>1, PlanReads
  <2> QED
    BY <1>1, <2>1, <2>2, PlanReads, CallsAre DEF CrmAt, Before
<1>2. CASE ~Existing
  <2>1. \A i \in 1 .. 2 : Plan[i] = Calls[i]
    BY <1>2, PlanReads, CallsAre
  <2>2. \A i, j \in 1 .. 4 : Plan[i] = Plan[j] => i = j
    BY <1>2, PlanReads
  <2> QED
    BY <1>2, <2>1, <2>2, PlanReads, CallsAre DEF CrmAt, Before
<1> QED
  BY <1>1, <1>2

\* The part of a place is the one that lies where the place is.
LEMMA PartAtIs ==
  ASSUME parts \in Seq(AnyPart), Placed, NEW j \in 1 .. Len(parts)
  PROVE  PartAt(Plan[j]) = parts[j].shows
<1>1. DOMAIN parts = 1 .. Len(parts) /\ Len(parts) \in Nat
  BY LenProperties
<1>2. \A i \in 1 .. Len(parts) : i \in 1 .. CrmAt /\ parts[i].place = Plan[i]
  <2>1. TAKE i \in 1 .. Len(parts)
  <2>2. i <= Len(Plan) /\ parts[i].place = Plan[i]
    BY <1>1 DEF Placed
  <2> QED
    BY <2>2, <1>1, PlanIs DEF CrmAt
<1>3. \A i \in 1 .. Len(parts) : parts[i].place = Plan[j] => i = j
  BY <1>2, PlanIs
<1>4. (CHOOSE i \in DOMAIN parts : parts[i].place = Plan[j]) = j
  BY <1>1, <1>2, <1>3
<1> QED
  BY <1>4 DEF PartAt

-----------------------------------------------------------------------------
(* What the research brings, and what of it is shown.                       *)

\* An answer is a section under the title of its call.
LEMMA AnswersAre ==
  ASSUME env \in Settings, env.transport # "none", NEW title \in AnyPlace,
         NEW answer \in SearchAnswers(title)
  PROVE  answer \in AnySection /\ answer.title = title
<1> DEFINE Good(a) == a \in AnySection /\ a.title = title
<1>1. \A t \in AnyReason : Good(Degraded(title, t))
  BY DEF Degraded, Section, AnySection
<1>2. \A t \in Texts : Good(Normalized(title, t))
  <2>1. TAKE t \in Texts
  <2>2. t.summary \in BOOLEAN /\ (t.items = NoList \/ t.items \in Nat)
    BY <2>1, BriefAssumption DEF Texts, Json, BriefAssumption
  <2>3. CASE t.form = "broken" \/ ~t.object \/ t.items = NoList
    BY <2>3, <1>1 DEF Normalized, AnyReason
  <2>4. CASE ~(t.form = "broken" \/ ~t.object \/ t.items = NoList)
    <3>1. Normalized(title, t) = Section(title, FALSE, "", t.items, t.summary)
      BY <2>4 DEF Normalized
    <3>2. PICK items \in Nat, summary \in BOOLEAN : t.items = items /\ t.summary = summary
      BY <2>2, <2>4
    <3>3. Good(Section(title, FALSE, "", items, summary))
      BY DEF Section, AnySection, AnyReason
    <3> HIDE DEF Good
    <3> QED
      BY <3>1, <3>2, <3>3, Zenon
  <2> QED
    BY <2>3, <2>4
<1> HIDE DEF Good
<1>3. env.transport \in {"direct", "mcp", "fixture"}
  BY BriefAssumption DEF BriefAssumption
<1>4. \/ \E t \in AnyReason : answer = Degraded(title, t)
      \/ \E t \in Texts : answer = Normalized(title, t)
  <2>1. CASE env.transport = "direct"
    <3>1. answer \in DirectAnswers(title)
      BY <2>1 DEF SearchAnswers
    <3> QED
      BY <3>1 DEF DirectAnswers, AnyReason
  <2>2. CASE env.transport = "mcp"
    <3>1. answer \in McpAnswers(title)
      BY <2>2 DEF SearchAnswers
    <3> QED
      BY <3>1 DEF McpAnswers, AnyReason
  <2>3. CASE env.transport = "fixture"
    <3>1. answer \in FixtureAnswers(title)
      BY <2>3 DEF SearchAnswers
    <3> QED
      BY <3>1 DEF FixtureAnswers, AnyReason, Trouble
  <2> QED
    BY <1>3, <2>1, <2>2, <2>3
<1>5. Good(answer)
  BY <1>1, <1>2, <1>4
<1> QED
  BY <1>5 DEF Good

LEMMA CallsNamePlaces == \A i \in 1 .. Len(Calls) : Calls[i] \in AnyPlace
  BY CallsAre, ElementOfSeq

LEMMA AllDegradedIs ==
  ASSUME NEW reason \in AnyReason
  PROVE  /\ AllDegraded(reason) \in Seq(AnySection)
         /\ Len(AllDegraded(reason)) = Len(Calls)
         /\ \A i \in 1 .. Len(Calls) : AllDegraded(reason)[i].title = Calls[i]
<1>1. Len(Calls) \in Nat /\ DOMAIN Calls = 1 .. Len(Calls)
  BY CallsAre
<1>2. AllDegraded(reason) = [i \in 1 .. Len(Calls) |-> Degraded(Calls[i], reason)]
  BY <1>1 DEF AllDegraded, Calls
<1>3. \A i \in 1 .. Len(Calls) :
        Degraded(Calls[i], reason) \in AnySection /\ Degraded(Calls[i], reason).title = Calls[i]
  BY CallsNamePlaces DEF Degraded, Section, AnySection
<1>4. AllDegraded(reason) \in [1 .. Len(Calls) -> AnySection]
  BY <1>2, <1>3
<1>5. AllDegraded(reason) \in Seq(AnySection) /\ Len(AllDegraded(reason)) = Len(Calls)
  BY <1>1, <1>4
<1> QED
  BY <1>2, <1>3, <1>5

\* What a finished research is told as.
LEMMA SectionsAre ==
  ASSUME BriefTypeOK, Findings, research.state \in Finished
  PROVE  /\ Sections \in Seq(AnySection) /\ Len(Sections) = Len(Calls)
         /\ DOMAIN Sections = 1 .. Len(Calls)
         /\ \A i \in 1 .. Len(Calls) : Sections[i].title = Calls[i]
<1>1. CASE research.state = "raised"
  <2>1. Sections = AllDegraded("raised")
    BY <1>1 DEF Sections
  <2>2. /\ Sections \in Seq(AnySection) /\ Len(Sections) = Len(Calls)
        /\ \A i \in 1 .. Len(Calls) : Sections[i].title = Calls[i]
    BY <2>1, AllDegradedIs DEF AnyReason
  <2> QED
    BY <2>2, LenProperties
<1>2. CASE research.state = "done"
  <2>1. Sections = research.sections /\ Sections \in Seq(AnySection)
    BY <1>2 DEF Sections, BriefTypeOK
  <2> QED
    BY <1>2, <2>1, LenProperties DEF Findings
<1> QED
  BY <1>1, <1>2 DEF Finished

LEMMA ResearchPartsAre ==
  ASSUME BriefTypeOK, Findings, research.state \in Finished
  PROVE  /\ ResearchParts \in Seq(AnyPart) /\ Len(ResearchParts) = Len(Calls)
         /\ \A i \in 1 .. Len(Calls) :
              ResearchParts[i].place = Calls[i] /\ ResearchParts[i].shows = Sections[i]
<1>1. ResearchParts = [i \in 1 .. Len(Calls) |-> Part(Sections[i].title, Sections[i])]
  BY SectionsAre DEF ResearchParts
<1>2. \A i \in 1 .. Len(Calls) : Sections[i] \in AnySection /\ Sections[i].title = Calls[i]
  BY SectionsAre, ElementOfSeq
<1>3. \A i \in 1 .. Len(Calls) : Part(Sections[i].title, Sections[i]) \in AnyPart
  BY <1>2, CallsNamePlaces DEF Part, AnyPart
<1>4. ResearchParts \in [1 .. Len(Calls) -> AnyPart]
  BY <1>1, <1>3
<1>5. ResearchParts \in Seq(AnyPart) /\ Len(ResearchParts) = Len(Calls)
  BY <1>4, CallsAre
<1> QED
  BY <1>1, <1>2, <1>5 DEF Part

LEMMA ContextPartsAre ==
  ASSUME BriefTypeOK
  PROVE  /\ ContextParts \in Seq(AnyPart) /\ Len(ContextParts) = 1
         /\ ContextParts[1].place = "context" /\ ContextParts[1].shows = ContextText
         /\ ContextText \in AnyText
<1>1. ContextText \in AnyText
  BY DEF ContextText, BriefTypeOK, AnyText
<1>2. Part("context", ContextText) \in AnyPart
  BY <1>1 DEF Part, AnyPart, AnyPlace
<1> QED
  BY <1>1, <1>2, Tuples DEF ContextParts, Part

\* Parts that continue the plan are laid after what is there, on the screen and in the stream.
LEMMA ShowLays ==
  ASSUME BriefTypeOK, Placed, NEW new \in Seq(AnyPart), Len(parts) + Len(new) <= CrmAt,
         \A j \in 1 .. Len(new) : new[j].place = Plan[Len(parts) + j],
         Show(new), UNCHANGED <<env, kind>>
  PROVE  /\ parts' \in Seq(AnyPart) /\ Len(parts') = Len(parts) + Len(new) /\ Placed'
         /\ \A i \in 1 .. Len(parts) : parts'[i] = parts[i]
         /\ \A j \in 1 .. Len(new) : parts'[Len(parts) + j] = new[j]
<1>1. parts \in Seq(AnyPart) /\ Len(parts) \in Nat /\ DOMAIN parts = 1 .. Len(parts) /\ Len(new) \in Nat
  BY LenProperties DEF BriefTypeOK
<1>2. parts' = parts \o new
  BY DEF Show
<1>3. /\ parts' \in Seq(AnyPart) /\ Len(parts') = Len(parts) + Len(new)
      /\ \A i \in 1 .. Len(parts) + Len(new) :
           parts'[i] = IF i <= Len(parts) THEN parts[i] ELSE new[i - Len(parts)]
  BY <1>1, <1>2, ConcatProperties, Zenon
<1>4. \A i \in 1 .. Len(parts) : parts'[i] = parts[i]
  BY <1>1, <1>3
<1>5. \A j \in 1 .. Len(new) : parts'[Len(parts) + j] = new[j]
  <2>1. TAKE j \in 1 .. Len(new)
  <2>2. /\ Len(parts) + j \in 1 .. Len(parts) + Len(new) /\ ~(Len(parts) + j <= Len(parts))
        /\ (Len(parts) + j) - Len(parts) = j
    BY <1>1
  <2> QED
    BY <1>3, <2>2
<1>6. Plan' = Plan
  BY DEF Plan, Existing
<1>7. DOMAIN parts' = 1 .. Len(parts) + Len(new)
  BY <1>3, LenProperties
<1>8. CrmAt \in Nat /\ Len(Plan) = CrmAt
  BY PlanIs DEF CrmAt
<1>9. \A i \in 1 .. Len(parts) + Len(new) : i <= Len(Plan) /\ parts'[i].place = Plan[i]
  <2>1. TAKE i \in 1 .. Len(parts) + Len(new)
  <2>2. i <= Len(Plan)
    BY <1>1, <1>8
  <2>3. CASE i <= Len(parts)
    BY <2>2, <2>3, <1>1, <1>4 DEF Placed
  <2>4. CASE i > Len(parts)
    <3>1. i - Len(parts) \in 1 .. Len(new) /\ Len(parts) + (i - Len(parts)) = i
      BY <2>4, <1>1
    <3> QED
      BY <3>1, <2>2, <1>5
  <2> QED
    BY <2>3, <2>4, <1>1
<1>10. env.live => emitted' = parts'
  BY <1>2 DEF Show, Placed
<1> QED
  BY <1>3, <1>4, <1>5, <1>6, <1>7, <1>9, <1>10 DEF Placed

-----------------------------------------------------------------------------
(* The steps.                                                               *)

LEMMA FixedByKind ==
  ASSUME kind' = kind
  PROVE  /\ Existing' <=> Existing
         /\ CrmAt' = CrmAt /\ Before' = Before /\ Calls' = Calls /\ Plan' = Plan
BY DEF Existing, CrmAt, Before, Calls, Plan

LEMMA StillPlaced == ASSUME Placed, UNCHANGED <<kind, env, parts, emitted>> PROVE Placed'
BY FixedByKind DEF Placed

\* Only a brief that is over has succeeded.
LEMMA NoResultYet == ASSUME Resulted, at # "over", brief' = brief PROVE Resulted'
BY DEF Resulted

LEMMA BriefInvInit == BriefInit => BriefInv
<1> SUFFICES ASSUME BriefInit PROVE BriefInv
  OBVIOUS
<1>1. BriefTypeOK
  <2>1. context \in [state : States, text : AnyText] /\ strategy.text \in AnyText
    BY DEF BriefInit, Idle, IdleStrategy, States, AnyText
  <2>2. research \in [state : States, sections : Seq(AnySection)]
    BY EmptySeq DEF BriefInit, IdleResearch, States
  <2>3. parts \in Seq(AnyPart)
    BY EmptySeq DEF BriefInit
  <2> QED
    BY <2>1, <2>2, <2>3 DEF BriefInit, BriefTypeOK
<1>2. Len(Calls) \in Nat /\ Len(Calls) > 0
  BY CallsAre
<1>3. /\ DOMAIN parts = {} /\ Len(parts) = 0 /\ emitted = parts
      /\ context.state = "idle" /\ research.state = "idle" /\ Len(research.sections) = 0
      /\ at = "start" /\ ~brief.ok
  <2>1. parts = << >> /\ emitted = << >> /\ at = "start"
    BY DEF BriefInit
  <2>2. context.state = "idle" /\ research.state = "idle" /\ research.sections = << >>
    BY DEF BriefInit, Idle, IdleResearch
  <2>3. brief = [ok |-> FALSE, status |-> 0]
    BY DEF BriefInit, Unfinished
  <2>4. ~brief.ok
    BY <2>3
  <2> QED
    BY <2>1, <2>2, <2>4
<1> QED
  BY <1>1, <1>2, <1>3 DEF BriefInv, Placed, Phases, Findings, Contents, Resulted

\* The brief ends without a result, with no phase at work.
LEMMA EndKeeps ==
  ASSUME BriefInv, RefuseDate \/ FetchFails \/ PdfFails
  PROVE  BriefInv'
<1>1. /\ at \in {"start", "proof"} /\ at' = "over" /\ ~brief'.ok
      /\ UNCHANGED <<placeVars, workVars, parts, emitted>>
  BY DEF RefuseDate, FetchFails, PdfFails, BriefEnds
<1>2. BriefTypeOK'
  BY <1>1 DEF BriefInv, BriefTypeOK, placeVars, workVars
<1>3. Placed'
  BY <1>1, StillPlaced DEF BriefInv, placeVars
<1>4. Findings'
  BY <1>1, FixedByKind DEF BriefInv, Findings, placeVars, workVars
<1>5. Phases'
  BY <1>1 DEF BriefInv, Phases, placeVars, workVars, Finished
<1> QED
  BY <1>1, <1>2, <1>3, <1>4, <1>5 DEF BriefInv, Contents, Resulted

LEMMA NothingFound ==
  ASSUME kind' = kind, NEW s \in {"runs", "raised"}, research' = [state |-> s, sections |-> << >>]
  PROVE  Findings'
<1>1. Len(research'.sections) = 0 /\ research'.state # "done"
  BY EmptySeq
<1>2. Len(Calls') \in Nat /\ Len(Calls') > 0
  BY FixedByKind, CallsAre
<1> QED
  BY <1>1, <1>2 DEF Findings

LEMMA FetchDataKeeps ==
  ASSUME BriefInv, FetchData
  PROVE  BriefInv'
<1> DEFINE new == <<Part("metrics", "data"), Part("ports", "data")>>
<1>1. /\ at = "start" /\ Existing /\ Show(new) /\ at' = "joining"
      /\ ContextStarts /\ ResearchStarts /\ UNCHANGED <<placeVars, strategy, brief>>
  BY DEF FetchData
<1>2. Part("metrics", "data") \in AnyPart /\ Part("ports", "data") \in AnyPart
  BY DEF Part, AnyPart, AnyPlace, AnyText
<1>3. /\ new \in Seq(AnyPart) /\ Len(new) = 2
      /\ new[1].place = "metrics" /\ new[2].place = "ports"
  BY <1>2, Tuples DEF Part
<1> HIDE DEF new
<1>4. Len(parts) = 0 /\ CrmAt = 7 /\ Plan[1] = "metrics" /\ Plan[2] = "ports"
  BY <1>1, PlanIs DEF BriefInv, Phases, CrmAt
<1>5. \A j \in 1 .. Len(new) : new[j].place = Plan[Len(parts) + j]
  BY <1>3, <1>4
<1>6. parts' \in Seq(AnyPart) /\ Len(parts') = 2 /\ Placed'
  <2>1. Len(parts) + Len(new) <= CrmAt
    BY <1>3, <1>4
  <2>2. UNCHANGED <<env, kind>> /\ BriefTypeOK /\ Placed
    BY <1>1 DEF placeVars, BriefInv
  <2>3. parts' \in Seq(AnyPart) /\ Len(parts') = Len(parts) + Len(new) /\ Placed'
    BY <1>1, <1>3, <1>5, <2>1, <2>2, ShowLays
  <2> QED
    BY <1>3, <1>4, <2>3
<1>7. context' = [state |-> "runs", text |-> ""] /\ research' = [state |-> "runs", sections |-> << >>]
  BY <1>1 DEF ContextStarts, ResearchStarts, Idle, IdleResearch
<1>8. BriefTypeOK'
  <2>1. context' \in [state : States, text : AnyText]
    BY <1>7 DEF States, AnyText
  <2>2. research' \in [state : States, sections : Seq(AnySection)]
    BY <1>7, EmptySeq DEF States
  <2> QED
    BY <1>1, <1>6, <2>1, <2>2 DEF BriefInv, BriefTypeOK, placeVars
<1>9. Findings'
  BY <1>1, <1>7, NothingFound DEF placeVars
<1>10. Phases'
  BY <1>1, <1>6, <1>7, FixedByKind DEF Phases, placeVars
<1> QED
  BY <1>1, <1>6, <1>8, <1>9, <1>10, NoResultYet DEF BriefInv, Contents

LEMMA StartResearchKeeps ==
  ASSUME BriefInv, StartResearch
  PROVE  BriefInv'
<1>1. /\ at = "start" /\ ~Existing /\ at' = "research" /\ Len(parts) = 0 /\ context.state = "idle"
      /\ UNCHANGED <<placeVars, parts, emitted, context, strategy, brief>>
  BY DEF StartResearch, BriefInv, Phases
<1>2. research' = [state |-> "runs", sections |-> << >>]
  BY DEF StartResearch, ResearchStarts, IdleResearch
<1>3. BriefTypeOK'
  <2>1. research' \in [state : States, sections : Seq(AnySection)]
    BY <1>2, EmptySeq DEF States
  <2> QED
    BY <1>1, <2>1 DEF BriefInv, BriefTypeOK, placeVars
<1>4. Placed'
  BY <1>1, StillPlaced DEF BriefInv, placeVars
<1>5. Findings'
  BY <1>1, <1>2, NothingFound DEF placeVars
<1>6. Phases'
  BY <1>1, <1>2, FixedByKind DEF Phases, placeVars
<1> QED
  BY <1>1, <1>3, <1>4, <1>5, <1>6, NoResultYet DEF BriefInv, Contents

\* What the model may write.
LEMMA SynthesisIs == Synthesis \subseteq {"text", Stub, Failure}
BY DEF Synthesis

LEMMA ContextKeeps ==
  ASSUME BriefInv, Contextualize \/ ContextRaises
  PROVE  BriefInv'
<1>1. /\ context.state = "runs"
      /\ UNCHANGED <<placeVars, at, parts, emitted, research, strategy, brief>>
  BY DEF Contextualize, ContextRaises
<1>2. PICK s \in Finished, text \in AnyText : context' = [state |-> s, text |-> text]
  BY SynthesisIs DEF Contextualize, ContextRaises, Finished, AnyText
<1>3. at \in {"joining", "context"}
  BY <1>1 DEF BriefInv, BriefTypeOK, Phases, Finished
<1>4. BriefTypeOK'
  BY <1>1, <1>2 DEF BriefInv, BriefTypeOK, placeVars, States
<1>5. Placed'
  BY <1>1, StillPlaced DEF BriefInv, placeVars
<1>6. Findings'
  BY <1>1, FixedByKind DEF BriefInv, Findings, placeVars
<1>7. Phases'
  BY <1>1, <1>3, FixedByKind DEF BriefInv, Phases, placeVars
<1>8. Contents'
  <2>1. Sections' = Sections
    BY <1>1 DEF Sections, AllDegraded, placeVars
  <2> QED
    BY <1>1, <1>3, <2>1, FixedByKind DEF BriefInv, Contents, placeVars
<1> QED
  BY <1>1, <1>3, <1>4, <1>5, <1>6, <1>7, <1>8, NoResultYet DEF BriefInv

\* One more finding, or all of them at once, or what was there lost.
LEMMA FoundIs ==
  ASSUME BriefInv, NoTools \/ Search \/ ResearchRaises
  PROVE  /\ research' \in [state : States \ {"idle"}, sections : Seq(AnySection)]
         /\ Findings'
<1>1. kind' = kind /\ env \in Settings
  BY DEF NoTools, Search, ResearchRaises, placeVars, BriefInv, BriefTypeOK
<1>2. CASE NoTools
  <2>1. research' = [state |-> "done", sections |-> AllDegraded("no tools")]
    BY <1>2 DEF NoTools
  <2>2. /\ AllDegraded("no tools") \in Seq(AnySection) /\ Len(AllDegraded("no tools")) = Len(Calls)
        /\ \A i \in 1 .. Len(Calls) : AllDegraded("no tools")[i].title = Calls[i]
    BY AllDegradedIs DEF AnyReason
  <2>3. research'.state = "done" /\ research'.sections = AllDegraded("no tools")
    BY <2>1
  <2>4. Calls' = Calls /\ Len(Calls) \in Nat
    BY <1>1, FixedByKind, CallsAre
  <2>5. Findings'
    <3>1. Len(research'.sections) = Len(Calls)
      BY <2>2, <2>3
    <3>2. \A i \in 1 .. Len(Calls) : i <= Len(Calls) /\ research'.sections[i].title = Calls[i]
      <4>1. \A i \in 1 .. Len(Calls) : i <= Len(Calls)
        BY <2>4
      <4> QED
        BY <2>2, <2>3, <4>1, Zenon
    <3> QED
      BY <2>3, <2>4, <3>1, <3>2 DEF Findings
  <2> QED
    BY <2>1, <2>2, <2>5 DEF States, Finished
<1>3. CASE Search
  <2> DEFINE n == Len(research.sections) + 1
  <2>1. PICK answer \in SearchAnswers(Calls[n]) :
          research' = [state |-> IF n = Len(Calls) THEN "done" ELSE "runs",
                       sections |-> Append(research.sections, answer)]
    BY <1>3 DEF Search, Calls
  <2>2. research.sections \in Seq(AnySection) /\ Len(research.sections) \in Nat
    BY DEF BriefInv, BriefTypeOK
  <2>3. n \in 1 .. Len(Calls)
    BY <1>3, <2>2, CallsAre DEF Search, BriefInv, Findings
  <2>4. answer \in AnySection /\ answer.title = Calls[n]
    <3>1. Calls[n] \in AnyPlace
      BY <2>3, CallsNamePlaces
    <3>2. env.transport # "none"
      BY <1>3 DEF Search
    <3> QED
      BY <1>1, <3>1, <3>2, AnswersAre
  <2>5. /\ Append(research.sections, answer) \in Seq(AnySection)
        /\ Len(Append(research.sections, answer)) = n
        /\ \A i \in 1 .. Len(research.sections) :
             Append(research.sections, answer)[i] = research.sections[i]
        /\ Append(research.sections, answer)[n] = answer
    BY <2>2, <2>4, AppendProperties
  <2>6. \A i \in 1 .. n : i <= Len(Calls) /\ Append(research.sections, answer)[i].title = Calls[i]
    <3>1. TAKE i \in 1 .. n
    <3>2. i \in 1 .. Len(research.sections) \/ i = n
      BY <2>2
    <3> QED
      BY <2>3, <2>4, <2>5, <3>2, CallsAre DEF BriefInv, Findings
  <2>7. Findings'
    <3>1. /\ research'.state = (IF n = Len(Calls) THEN "done" ELSE "runs")
          /\ research'.sections = Append(research.sections, answer)
      BY <2>1
    <3>2. Calls' = Calls /\ Len(Calls) \in Nat
      BY <1>1, FixedByKind, CallsAre
    <3> QED
      BY <3>1, <3>2, <2>3, <2>5, <2>6 DEF Findings
  <2> QED
    BY <2>1, <2>5, <2>7 DEF States, Finished
<1>4. CASE ResearchRaises
  <2>1. research' = [state |-> "raised", sections |-> << >>]
    BY <1>4 DEF ResearchRaises
  <2>2. Findings'
    BY <1>1, <2>1, NothingFound
  <2> QED
    BY <2>1, <2>2, EmptySeq DEF States, Finished
<1> QED
  BY <1>2, <1>3, <1>4

LEMMA ResearchKeeps ==
  ASSUME BriefInv, NoTools \/ Search \/ ResearchRaises
  PROVE  BriefInv'
<1>1. /\ research.state = "runs"
      /\ UNCHANGED <<placeVars, at, parts, emitted, context, strategy, brief>>
  BY DEF NoTools, Search, ResearchRaises
<1>2. research' \in [state : States \ {"idle"}, sections : Seq(AnySection)] /\ Findings'
  BY FoundIs
<1>3. at \in {"joining", "research"}
  BY <1>1 DEF BriefInv, BriefTypeOK, Phases, Finished
<1>4. BriefTypeOK'
  BY <1>1, <1>2 DEF BriefInv, BriefTypeOK, placeVars
<1>5. Placed'
  BY <1>1, StillPlaced DEF BriefInv, placeVars
<1>6. Phases'
  BY <1>1, <1>2, <1>3, FixedByKind DEF BriefInv, Phases, placeVars
<1> QED
  BY <1>1, <1>2, <1>3, <1>4, <1>5, <1>6, NoResultYet DEF BriefInv, Contents

\* The parts of two phases at once are those of the context and then those of the research.
LEMMA JoinedPartsAre ==
  ASSUME BriefInv, research.state \in Finished
  PROVE  /\ ContextParts \o ResearchParts \in Seq(AnyPart)
         /\ Len(ContextParts \o ResearchParts) = Len(Calls) + 1
         /\ (ContextParts \o ResearchParts)[1] = ContextParts[1]
         /\ \A i \in 1 .. Len(Calls) : (ContextParts \o ResearchParts)[i + 1] = ResearchParts[i]
<1> DEFINE both == ContextParts \o ResearchParts
<1>1. /\ ContextParts \in Seq(AnyPart) /\ Len(ContextParts) = 1
      /\ ResearchParts \in Seq(AnyPart) /\ Len(ResearchParts) = Len(Calls) /\ Len(Calls) \in Nat
  BY ContextPartsAre, ResearchPartsAre, CallsAre DEF BriefInv
<1> DEFINE first == ContextParts
           second == ResearchParts
<1>7. first \in Seq(AnyPart) /\ second \in Seq(AnyPart) /\ both = first \o second
  BY <1>1
<1> HIDE DEF both, first, second
<1>8. /\ first \o second \in Seq(AnyPart) /\ Len(first \o second) = Len(first) + Len(second)
      /\ \A i \in 1 .. Len(first) + Len(second) :
           (first \o second)[i] = IF i <= Len(first) THEN first[i] ELSE second[i - Len(first)]
  BY <1>7, ConcatProperties
<1>2. /\ both \in Seq(AnyPart) /\ Len(both) = Len(ContextParts) + Len(ResearchParts)
      /\ \A i \in 1 .. Len(ContextParts) + Len(ResearchParts) :
           both[i] = IF i <= Len(ContextParts) THEN ContextParts[i]
                     ELSE ResearchParts[i - Len(ContextParts)]
  BY <1>7, <1>8, Zenon DEF first, second
<1>3. \A i \in 1 .. Len(Calls) : both[i + 1] = ResearchParts[i]
  <2>1. TAKE i \in 1 .. Len(Calls)
  <2>2. i + 1 \in 1 .. 1 + Len(Calls) /\ ~(i + 1 <= 1) /\ (i + 1) - 1 = i
    BY <1>1
  <2> QED
    BY <1>1, <1>2, <2>2
<1>4. 1 \in 1 .. 1 + Len(Calls)
  BY <1>1
<1> QED
  BY <1>1, <1>2, <1>3, <1>4 DEF both

LEMMA JoinKeeps ==
  ASSUME BriefInv, Join
  PROVE  BriefInv'
<1> DEFINE new == ContextParts \o ResearchParts
<1>1. /\ at = "joining" /\ at' = "strategy" /\ Show(new)
      /\ context.state \in Finished /\ research.state \in Finished
      /\ strategy' = [IdleStrategy EXCEPT !.state = "runs"]
      /\ UNCHANGED <<placeVars, context, research, brief>>
  BY DEF Join
<1>2. /\ Existing /\ Len(parts) = 2 /\ CrmAt = 7 /\ Before = 3 /\ Len(Calls) = 3
  BY <1>1, CallsAre DEF BriefInv, Phases, CrmAt, Before
<1>3. /\ new \in Seq(AnyPart) /\ Len(new) = 4 /\ new[1] = ContextParts[1]
      /\ \A i \in 1 .. 3 : new[i + 1] = ResearchParts[i]
  BY <1>1, <1>2, JoinedPartsAre
<1> HIDE DEF new
<1>4. \A j \in 1 .. Len(new) : new[j].place = Plan[Len(parts) + j]
  <2>1. new[1].place = Plan[3]
    BY <1>3, ContextPartsAre, PlanIs DEF BriefInv
  <2>2. \A i \in 1 .. 3 : new[i + 1].place = Plan[3 + i]
    BY <1>1, <1>2, <1>3, ResearchPartsAre, PlanIs DEF BriefInv
  <2>3. TAKE j \in 1 .. Len(new)
  <2>4. j = 1 \/ (j - 1 \in 1 .. 3 /\ (j - 1) + 1 = j /\ 3 + (j - 1) = Len(parts) + j)
    BY <1>2, <1>3
  <2> QED
    BY <1>2, <2>1, <2>2, <2>4
<1>5. /\ parts' \in Seq(AnyPart) /\ Len(parts') = Len(parts) + Len(new) /\ Placed'
      /\ \A j \in 1 .. Len(new) : parts'[Len(parts) + j] = new[j]
  <2>1. Len(parts) + Len(new) <= CrmAt
    BY <1>2, <1>3
  <2>2. UNCHANGED <<env, kind>> /\ BriefTypeOK /\ Placed
    BY <1>1 DEF placeVars, BriefInv
  <2> QED
    BY <1>1, <1>3, <1>4, <2>1, <2>2, ShowLays
<1>6. BriefTypeOK'
  BY <1>1, <1>5 DEF BriefInv, BriefTypeOK, placeVars, IdleStrategy, AnyText
<1>7. Findings'
  BY <1>1, FixedByKind DEF BriefInv, Findings, placeVars
<1>8. Phases'
  BY <1>1, <1>2, <1>3, <1>5, FixedByKind DEF Phases, placeVars
<1>9. Contents'
  <2>1. Sections' = Sections /\ ContextText' = ContextText
    BY <1>1 DEF Sections, AllDegraded, ContextText, placeVars
  <2>2. parts'[3].shows = ContextText
    BY <1>2, <1>3, <1>5, ContextPartsAre DEF BriefInv
  <2>3. \A i \in 1 .. 3 : parts'[3 + i].shows = Sections[i]
    <3>1. TAKE i \in 1 .. 3
    <3>2. i + 1 \in 1 .. Len(new) /\ Len(parts) + (i + 1) = 3 + i
      BY <1>2, <1>3
    <3> QED
      BY <1>1, <1>2, <1>3, <1>5, <3>2, ResearchPartsAre DEF BriefInv
  <2> QED
    BY <1>1, <1>2, <2>1, <2>2, <2>3, FixedByKind DEF Contents, placeVars
<1> QED
  BY <1>1, <1>5, <1>6, <1>7, <1>8, <1>9, NoResultYet DEF BriefInv

LEMMA ShowResearchKeeps ==
  ASSUME BriefInv, ShowResearch
  PROVE  BriefInv'
<1>1. /\ at = "research" /\ at' = "context" /\ Show(ResearchParts) /\ research.state \in Finished
      /\ ContextStarts /\ UNCHANGED <<placeVars, research, strategy, brief>>
  BY DEF ShowResearch
<1>2. ~Existing /\ Len(parts) = 0 /\ CrmAt = 4 /\ Before = 0 /\ Len(Calls) = 2
  BY <1>1, CallsAre DEF BriefInv, Phases, CrmAt, Before
<1>3. /\ ResearchParts \in Seq(AnyPart) /\ Len(ResearchParts) = 2
      /\ \A i \in 1 .. 2 : ResearchParts[i].place = Plan[i] /\ ResearchParts[i].shows = Sections[i]
  <2>1. \A i \in 1 .. 2 : Plan[0 + i] = Calls[i] /\ 0 + i = i
    BY <1>2, PlanIs
  <2> QED
    BY <1>1, <1>2, <2>1, ResearchPartsAre DEF BriefInv
<1>4. /\ parts' \in Seq(AnyPart) /\ Len(parts') = 2 /\ Placed'
      /\ \A j \in 1 .. 2 : parts'[j] = ResearchParts[j]
  <2>1. /\ Len(parts) + Len(ResearchParts) <= CrmAt
        /\ \A j \in 1 .. Len(ResearchParts) :
             Len(parts) + j = j /\ ResearchParts[j].place = Plan[Len(parts) + j]
    BY <1>2, <1>3
  <2>2. UNCHANGED <<env, kind>> /\ BriefTypeOK /\ Placed
    BY <1>1 DEF placeVars, BriefInv
  <2>3. /\ parts' \in Seq(AnyPart) /\ Len(parts') = Len(parts) + Len(ResearchParts) /\ Placed'
        /\ \A j \in 1 .. Len(ResearchParts) : parts'[Len(parts) + j] = ResearchParts[j]
    BY <1>1, <1>3, <2>1, <2>2, ShowLays
  <2> QED
    BY <1>2, <1>3, <2>1, <2>3
<1>5. context' = [state |-> "runs", text |-> ""]
  BY <1>1 DEF ContextStarts, Idle
<1>6. BriefTypeOK'
  BY <1>1, <1>4, <1>5 DEF BriefInv, BriefTypeOK, placeVars, States, AnyText
<1>7. Findings'
  BY <1>1, FixedByKind DEF BriefInv, Findings, placeVars
<1>8. Phases'
  BY <1>1, <1>2, <1>4, FixedByKind DEF Phases, placeVars
<1>9. Contents'
  <2>1. Sections' = Sections
    BY <1>1 DEF Sections, AllDegraded, placeVars
  <2>2. \A i \in 1 .. 2 : parts'[0 + i].shows = Sections[i]
    BY <1>3, <1>4
  <2> QED
    BY <1>1, <1>2, <2>1, <2>2, FixedByKind DEF Contents, placeVars
<1> QED
  BY <1>1, <1>4, <1>6, <1>7, <1>8, <1>9, NoResultYet DEF BriefInv

LEMMA ShowContextKeeps ==
  ASSUME BriefInv, ShowContext
  PROVE  BriefInv'
<1>1. /\ at = "context" /\ at' = "strategy" /\ Show(ContextParts) /\ context.state \in Finished
      /\ strategy' = [IdleStrategy EXCEPT !.state = "runs"]
      /\ UNCHANGED <<placeVars, context, research, brief>>
  BY DEF ShowContext
<1>2. /\ ~Existing /\ Len(parts) = 2 /\ CrmAt = 4 /\ Before = 0 /\ Len(Calls) = 2
      /\ research.state \in Finished
  BY <1>1, CallsAre DEF BriefInv, Phases, CrmAt, Before
<1>3. /\ ContextParts \in Seq(AnyPart) /\ Len(ContextParts) = 1
      /\ ContextParts[1].place = Plan[3] /\ ContextParts[1].shows = ContextText
  BY ContextPartsAre, PlanIs DEF BriefInv
<1>4. /\ parts' \in Seq(AnyPart) /\ Len(parts') = 3 /\ Placed' /\ parts'[3] = ContextParts[1]
      /\ \A i \in 1 .. 2 : parts'[i] = parts[i]
  <2>1. /\ Len(parts) + Len(ContextParts) <= CrmAt
        /\ \A j \in 1 .. Len(ContextParts) : ContextParts[j].place = Plan[Len(parts) + j]
    <3>1. \A j \in 1 .. Len(ContextParts) : j = 1 /\ Len(parts) + j = 3
      BY <1>2, <1>3
    <3> QED
      BY <1>2, <1>3, <3>1
  <2>2. UNCHANGED <<env, kind>> /\ BriefTypeOK /\ Placed
    BY <1>1 DEF placeVars, BriefInv
  <2>3. /\ parts' \in Seq(AnyPart) /\ Len(parts') = Len(parts) + Len(ContextParts) /\ Placed'
        /\ \A i \in 1 .. Len(parts) : parts'[i] = parts[i]
        /\ \A j \in 1 .. Len(ContextParts) : parts'[Len(parts) + j] = ContextParts[j]
    BY <1>1, <1>3, <2>1, <2>2, ShowLays
  <2>4. 1 \in 1 .. Len(ContextParts) /\ Len(parts) + 1 = 3
    BY <1>2, <1>3
  <2> QED
    BY <1>2, <1>3, <2>3, <2>4
<1>5. BriefTypeOK'
  BY <1>1, <1>4 DEF BriefInv, BriefTypeOK, placeVars, IdleStrategy, AnyText
<1>6. Findings'
  BY <1>1, FixedByKind DEF BriefInv, Findings, placeVars
<1>7. Phases'
  BY <1>1, <1>2, <1>4, FixedByKind DEF Phases, placeVars
<1>8. Contents'
  <2>1. Sections' = Sections /\ ContextText' = ContextText
    BY <1>1 DEF Sections, AllDegraded, ContextText, placeVars
  <2>2. \A i \in 1 .. 2 : parts'[0 + i].shows = Sections[i]
    <3>1. \A i \in 1 .. 2 : 0 + i = i /\ parts[0 + i].shows = Sections[i]
      BY <1>1, <1>2 DEF BriefInv, Contents
    <3> QED
      BY <1>4, <3>1
  <2>3. parts'[3].shows = ContextText
    BY <1>3, <1>4
  <2> QED
    BY <1>1, <1>2, <2>1, <2>2, <2>3, FixedByKind DEF Contents, placeVars
<1> QED
  BY <1>1, <1>4, <1>5, <1>6, <1>7, <1>8, NoResultYet DEF BriefInv

LEMMA StrategizeKeeps ==
  ASSUME BriefInv, Strategize
  PROVE  BriefInv'
<1>1. PICK shown \in AnyText :
        /\ strategy' = [state |-> "done", text |-> shown, read |-> Reads]
        /\ Show(<<Part("crm", shown)>>)
  BY SynthesisIs DEF Strategize, AnyText
<1> DEFINE new == <<Part("crm", shown)>>
<1>2. at = "strategy" /\ at' = "proof" /\ UNCHANGED <<placeVars, context, research, brief>>
  BY DEF Strategize
<1>3. /\ Len(parts) = CrmAt - 1 /\ CrmAt \in {4, 7} /\ Before + Len(Calls) < CrmAt /\ Len(Calls) \in Nat
      /\ Before \in Nat
  <2>1. Len(parts) = CrmAt - 1
    BY <1>2 DEF BriefInv, Phases
  <2>2. Len(Calls) = IF Existing THEN 3 ELSE 2
    BY CallsAre
  <2> QED
    BY <2>1, <2>2 DEF CrmAt, Before
<1>4. /\ new \in Seq(AnyPart) /\ Len(new) = 1 /\ new[1].place = "crm" /\ new[1].shows = shown
  <2>1. Part("crm", shown) \in AnyPart
    BY DEF Part, AnyPart, AnyPlace
  <2> QED
    BY <2>1, Tuples DEF Part
<1>5. Show(new)
  BY <1>1
<1> HIDE DEF new
<1>6. /\ parts' \in Seq(AnyPart) /\ Len(parts') = CrmAt /\ Placed' /\ parts'[CrmAt] = new[1]
      /\ \A i \in 1 .. CrmAt - 1 : parts'[i] = parts[i]
  <2>1. /\ Len(parts) + Len(new) <= CrmAt
        /\ \A j \in 1 .. Len(new) : new[j].place = Plan[Len(parts) + j]
    <3>1. \A j \in 1 .. Len(new) : j = 1 /\ Len(parts) + j = CrmAt
      BY <1>3, <1>4
    <3> QED
      BY <1>3, <1>4, <3>1, PlanIs
  <2>2. UNCHANGED <<env, kind>> /\ BriefTypeOK /\ Placed
    BY <1>2 DEF placeVars, BriefInv
  <2>3. /\ parts' \in Seq(AnyPart) /\ Len(parts') = Len(parts) + Len(new) /\ Placed'
        /\ \A i \in 1 .. Len(parts) : parts'[i] = parts[i]
        /\ \A j \in 1 .. Len(new) : parts'[Len(parts) + j] = new[j]
    BY <1>4, <1>5, <2>1, <2>2, ShowLays
  <2>4. 1 \in 1 .. Len(new) /\ Len(parts) + 1 = CrmAt
    BY <1>3, <1>4
  <2> QED
    BY <1>3, <1>4, <2>3, <2>4
<1>7. BriefTypeOK'
  BY <1>1, <1>2, <1>6 DEF BriefInv, BriefTypeOK, placeVars
<1>8. Findings'
  BY <1>2, FixedByKind DEF BriefInv, Findings, placeVars
<1>9. Phases'
  BY <1>2, <1>6, FixedByKind DEF BriefInv, Phases, placeVars
<1>10. Contents'
  <2>1. Sections' = Sections /\ ContextText' = ContextText
    BY <1>2 DEF Sections, AllDegraded, ContextText, placeVars
  <2>2. \A i \in 1 .. Len(Calls) : parts'[Before + i].shows = Sections[i]
    <3>1. TAKE i \in 1 .. Len(Calls)
    <3>2. Before + i \in 1 .. CrmAt - 1
      BY <1>3
    <3> QED
      BY <1>2, <1>6, <3>2 DEF BriefInv, Contents
  <2>3. parts'[3].shows = ContextText
    <3>1. 3 \in 1 .. CrmAt - 1
      BY <1>3
    <3> QED
      BY <1>2, <1>6, <3>1 DEF BriefInv, Contents
  <2>4. parts'[CrmAt].shows = strategy'.text /\ strategy'.read = Reads'
    BY <1>1, <1>4, <1>6, <2>1 DEF Reads
  <2> QED
    BY <1>2, <2>1, <2>2, <2>3, <2>4, FixedByKind DEF Contents, placeVars
<1> QED
  BY <1>2, <1>6, <1>7, <1>8, <1>9, <1>10, NoResultYet DEF BriefInv

\* A brief that is finished is whole: what is read back from the parts is what was laid there.
LEMMA FinishKeeps ==
  ASSUME BriefInv, FinishBrief
  PROVE  BriefInv'
<1>1. /\ at = "proof" /\ at' = "over" /\ UNCHANGED <<placeVars, parts, emitted, workVars>>
      /\ brief' = [ok |-> TRUE, status |-> 200, parts |-> parts, failed |-> FailedPhases,
                   pdf |-> IF env.artifacts THEN parts ELSE << >>]
  BY DEF FinishBrief
<1>2. /\ context.state \in Finished /\ research.state \in Finished /\ Len(parts) = CrmAt
      /\ \A i \in 1 .. Len(Calls) : parts[Before + i].shows = Sections[i]
      /\ parts[3].shows = ContextText /\ parts[CrmAt].shows = strategy.text
      /\ strategy.read = Reads /\ CrmAt \in {4, 7} /\ parts \in Seq(AnyPart) /\ Placed
  BY <1>1 DEF BriefInv, BriefTypeOK, Phases, Contents, CrmAt
<1>3. PartAt("context") = ContextText /\ PartAt("crm") = strategy.text
  <2>1. 3 \in 1 .. Len(parts) /\ CrmAt \in 1 .. Len(parts)
    BY <1>2
  <2>2. PartAt(Plan[3]) = parts[3].shows /\ PartAt(Plan[CrmAt]) = parts[CrmAt].shows
    BY <1>2, <2>1, PartAtIs
  <2> QED
    BY <1>2, <2>2, PlanIs
<1>4. \A i \in 1 .. Len(Calls) : PartAt(Calls[i]) = Sections[i]
  <2>1. TAKE i \in 1 .. Len(Calls)
  <2>2. Before + i \in 1 .. Len(parts) /\ Plan[Before + i] = Calls[i]
    BY <1>2, PlanIs
  <2>3. PartAt(Plan[Before + i]) = parts[Before + i].shows
    BY <1>2, <2>2, PartAtIs
  <2> QED
    BY <1>2, <2>2, <2>3
<1> DEFINE found == [i \in DOMAIN Calls |-> PartAt(Calls[i])]
<1>5. found = Sections
  <2>1. Sections \in Seq(AnySection) /\ Len(Sections) = Len(Calls)
    BY <1>2, SectionsAre DEF BriefInv
  <2>2. Sections \in [1 .. Len(Calls) -> AnySection]
    BY <2>1, LenProperties
  <2>3. DOMAIN Calls = 1 .. Len(Calls)
    BY CallsAre
  <2> QED
    BY <1>4, <2>2, <2>3
<1>6. DOMAIN Sections = DOMAIN Calls
  BY <1>2, SectionsAre, CallsAre DEF BriefInv
<1> HIDE DEF found
<1>7. FailedPhases = {p \in {"contextualize", "research", "strategize"} :
        CASE p = "contextualize" -> PartAt("context") = Failure
          [] p = "strategize"    -> PartAt("crm") = Failure
          [] OTHER -> \A i \in DOMAIN Calls : found[i].degraded}
  BY <1>3, <1>5, <1>6 DEF FailedPhases
<1>8. strategy.read = <<PartAt("context"), found>>
  BY <1>2, <1>3, <1>5 DEF Reads
<1>9. Whole'
  <2>1. /\ UNCHANGED <<parts, strategy, kind>> /\ Calls' = Calls /\ Plan' = Plan
        /\ found' = found /\ PartAt("context")' = PartAt("context") /\ PartAt("crm")' = PartAt("crm")
    BY <1>1, FixedByKind DEF placeVars, workVars, found, PartAt
  <2>2. /\ brief'.parts = parts /\ brief'.failed = FailedPhases
        /\ brief'.pdf \in {parts, << >>}
    BY <1>1
  <2>3. Len(parts) = Len(Plan)
    BY <1>2, PlanIs
  <2> QED
    BY <1>7, <1>8, <2>1, <2>2, <2>3 DEF Whole, Calls, found
<1>10. BriefTypeOK'
  BY <1>1 DEF BriefInv, BriefTypeOK, placeVars, workVars
<1>11. Placed'
  BY <1>1, StillPlaced DEF BriefInv, placeVars
<1>12. Findings'
  BY <1>1, FixedByKind DEF BriefInv, Findings, placeVars, workVars
<1>13. Phases'
  BY <1>1, <1>2 DEF Phases, workVars, Finished
<1> QED
  BY <1>1, <1>9, <1>10, <1>11, <1>12, <1>13 DEF BriefInv, Contents, Resulted

LEMMA StutterKeeps ==
  ASSUME BriefInv, UNCHANGED briefVars
  PROVE  BriefInv'
<1>1. /\ UNCHANGED <<placeVars, at, parts, emitted, workVars, brief>>
      /\ UNCHANGED <<kind, env, context, research, strategy>>
  BY DEF briefVars, placeVars, workVars
<1>2. BriefTypeOK'
  BY <1>1 DEF BriefInv, BriefTypeOK
<1>3. Placed'
  BY <1>1, StillPlaced DEF BriefInv
<1>4. Findings' /\ Phases'
  BY <1>1, FixedByKind DEF BriefInv, Findings, Phases
<1>5. Contents'
  <2>1. Sections' = Sections /\ ContextText' = ContextText /\ Reads' = Reads
    BY <1>1 DEF Sections, AllDegraded, ContextText, Reads
  <2>2. Calls' = Calls /\ Before' = Before /\ CrmAt' = CrmAt
    BY <1>1, FixedByKind
  <2> QED
    BY <1>1, <2>1, <2>2 DEF BriefInv, Contents
<1>6. Resulted'
  <2>1. brief' = brief /\ at' = at /\ Plan' = Plan /\ kind' = kind /\ parts' = parts /\ strategy' = strategy
    BY <1>1, FixedByKind
  <2>2. Whole' <=> Whole
    BY <2>1 DEF Whole, PartAt
  <2> QED
    BY <2>1, <2>2, Zenon DEF BriefInv, Resulted
<1> QED
  BY <1>2, <1>3, <1>4, <1>5, <1>6 DEF BriefInv

LEMMA BriefInvNext == BriefInv /\ [BriefNext]_briefVars => BriefInv'
<1> SUFFICES ASSUME BriefInv, [BriefNext]_briefVars PROVE BriefInv'
  OBVIOUS
<1>1. CASE RefuseDate \/ FetchFails \/ PdfFails
  BY <1>1, EndKeeps
<1>2. CASE FetchData
  BY <1>2, FetchDataKeeps
<1>3. CASE StartResearch
  BY <1>3, StartResearchKeeps
<1>4. CASE Contextualize \/ ContextRaises
  BY <1>4, ContextKeeps
<1>5. CASE NoTools \/ Search \/ ResearchRaises
  BY <1>5, ResearchKeeps
<1>6. CASE Join
  BY <1>6, JoinKeeps
<1>7. CASE ShowResearch
  BY <1>7, ShowResearchKeeps
<1>8. CASE ShowContext
  BY <1>8, ShowContextKeeps
<1>9. CASE Strategize
  BY <1>9, StrategizeKeeps
<1>10. CASE FinishBrief
  BY <1>10, FinishKeeps
<1>11. CASE UNCHANGED briefVars
  BY <1>11, StutterKeeps
<1> QED
  BY <1>1, <1>2, <1>3, <1>4, <1>5, <1>6, <1>7, <1>8, <1>9, <1>10, <1>11 DEF BriefNext

\* The invariant says what the property does.
LEMMA BriefInvSuffices == BriefInv => BriefIsWhole
BY DEF BriefInv, Placed, Resulted, Whole, BriefIsWhole

\* Whatever the phases bring, and in whichever order they finish, fail or raise, a brief is seen
\* as a beginning of one sequence of places, and one that succeeds is returned, streamed and
\* printed whole, with the failed phases named (existing_customer_brief, new_prospect_brief).
THEOREM BriefsAreWhole == BriefSpec => []BriefIsWhole
<1>1. BriefSpec => []BriefInv
  BY BriefInvInit, BriefInvNext, PTL DEF BriefSpec
<1> QED
  BY <1>1, BriefInvSuffices, PTL
=============================================================================
