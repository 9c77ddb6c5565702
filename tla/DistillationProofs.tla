-------------------------- MODULE DistillationProofs --------------------------
(***************************************************************************)
(* Proofs about MemoryQueue, for any sets of conversations, turns and      *)
(* workers and any bounds that satisfy QueueAssumption; those that need a  *)
(* single worker say so.  Then about Distillation, for any users, workers, *)
(* facts, retention and bounds: the queue inside it is the queue of        *)
(* MemoryQueue, so that every theorem about MemoryQueue holds here; what   *)
(* was learned is written before its row is done; a write keeps the        *)
(* version before it and the provenance of what it was based on.           *)
(***************************************************************************)
EXTENDS Distillation, FiniteSetTheorems, SequenceTheorems, WellFoundedInduction, TLAPS

-----------------------------------------------------------------------------
(* The queue.                                                               *)

(***************************************************************************)
(* The inductive invariant.  NoSwallowedTurn alone is not inductive: that  *)
(* MarkDone covers every touched turn rests on what the worker read, and   *)
(* that it would notice a later touch rests on the clock.                  *)
(***************************************************************************)

\* A worker in a cycle has the row it is working on.
BusyHasBatch ==
  \A w \in Workers : phase[w] # "idle" => batch[w] # <<>>

\* An open touch began at most TouchWindow ago.
TouchesAreRecent ==
  \A t \in Turns : Touching(t) => stamp[t] <= clock /\ clock - stamp[t] <= TouchWindow

\* What was claimed had been idle, so no open touch can carry its time.
ClaimsWereIdle ==
  \A w \in Workers : \A i \in 1 .. Len(batch[w]) : batch[w][i].at + IdleMinutes < clock

\* A touched turn's message can be read.
TouchedCanBeRead ==
  \A c \in Conversations : touched[c] \subseteq Transcript(c)

\* Once the transcript is read, a row that has not moved has no touched
\* turn that is missing from it.
ReadHoldsTouched ==
  \A w \in Workers :
    phase[w] \notin {"idle", "row"} /\ Unmoved(w) => touched[Current(w).conv] \subseteq seen[w]

Typed == TypeOK /\ BusyHasBatch
Timed == TouchesAreRecent /\ ClaimsWereIdle
QueueInv == Typed /\ Timed /\ TouchedCanBeRead /\ ReadHoldsTouched /\ NoSwallowedTurn

-----------------------------------------------------------------------------
(* What moving on to the next row leaves behind.                            *)

LEMMA CurrentIsAClaim ==
  ASSUME Typed, NEW w \in Workers, phase[w] # "idle"
  PROVE  /\ Current(w) \in Claim
         /\ Len(batch[w]) \in Nat \ {0}
         /\ Current(w) = batch[w][1]
<1>1. batch[w] \in Seq(Claim) /\ batch[w] # <<>>
  BY DEF Typed, TypeOK, BusyHasBatch
<1>2. Len(batch[w]) \in Nat \ {0}
  BY <1>1, EmptySeq
<1>3. QED
  BY <1>1, <1>2, HeadTailProperties DEF Current

LEMMA NextRowFacts ==
  ASSUME Typed, NEW w \in Workers, phase[w] # "idle", NextRow(w)
  PROVE  /\ phase' \in [Workers -> Phase]
         /\ batch' \in [Workers -> Seq(Claim)]
         /\ seen' \in [Workers -> SUBSET Turns]
         /\ run' \in [Workers -> {"none", "open"}]
         /\ phase'[w] \in {"idle", "row"}
         /\ phase'[w] # "idle" => batch'[w] # <<>>
         /\ \A x \in Workers \ {w} :
              phase'[x] = phase[x] /\ batch'[x] = batch[x] /\ seen'[x] = seen[x]
         /\ \A x \in Workers : \A i \in 1 .. Len(batch'[x]) :
              \E j \in 1 .. Len(batch[x]) : batch'[x][i] = batch[x][j]
<1>1. /\ batch[w] \in Seq(Claim) /\ batch[w] # <<>> /\ Len(batch[w]) \in Nat \ {0}
      /\ batch \in [Workers -> Seq(Claim)]
  BY EmptySeq DEF Typed, TypeOK, BusyHasBatch
<1>2. /\ Tail(batch[w]) \in Seq(Claim)
      /\ Len(Tail(batch[w])) = Len(batch[w]) - 1
      /\ \A i \in 1 .. Len(Tail(batch[w])) : Tail(batch[w])[i] = batch[w][i + 1]
  BY <1>1, HeadTailProperties
<1>3. /\ batch' \in [Workers -> Seq(Claim)]
      /\ batch'[w] = Tail(batch[w])
      /\ \A x \in Workers \ {w} : batch'[x] = batch[x]
  BY <1>1, <1>2 DEF NextRow
<1>4. /\ phase' \in [Workers -> Phase]
      /\ phase'[w] = IF Len(batch[w]) = 1 THEN "idle" ELSE "row"
      /\ \A x \in Workers \ {w} : phase'[x] = phase[x]
  BY DEF NextRow, Typed, TypeOK, Phase
<1>5. phase'[w] # "idle" => batch'[w] # <<>>
  <2>1. phase'[w] # "idle" => Len(batch'[w]) # 0
    BY <1>1, <1>2, <1>3, <1>4
  <2>2. Len(<<>>) = 0
    BY EmptySeq
  <2>3. QED
    BY <2>1, <2>2
<1>6. \A x \in Workers : \A i \in 1 .. Len(batch'[x]) :
        \E j \in 1 .. Len(batch[x]) : batch'[x][i] = batch[x][j]
  <2> SUFFICES ASSUME NEW x \in Workers, NEW i \in 1 .. Len(batch'[x])
               PROVE  \E j \in 1 .. Len(batch[x]) : batch'[x][i] = batch[x][j]
    OBVIOUS
  <2>1. CASE x = w
    <3>1. i \in 1 .. Len(batch[w]) - 1 /\ batch'[w][i] = batch[w][i + 1]
      BY <1>2, <1>3, <2>1
    <3>2. i + 1 \in 1 .. Len(batch[w])
      BY <1>1, <3>1
    <3>3. QED
      BY <2>1, <3>1, <3>2
  <2>2. CASE x # w
    BY <1>3, <2>2
  <2>3. QED
    BY <2>1, <2>2
<1>7. /\ seen' \in [Workers -> SUBSET Turns]
      /\ \A x \in Workers \ {w} : seen'[x] = seen[x]
      /\ run' \in [Workers -> {"none", "open"}]
  BY DEF NextRow, Typed, TypeOK
<1>8. phase'[w] \in {"idle", "row"}
  BY <1>4
<1>9. QED
  BY <1>3, <1>4, <1>5, <1>6, <1>7, <1>8

-----------------------------------------------------------------------------
(* Types.                                                                   *)

LEMMA TypedInit == Init => Typed
<1> SUFFICES ASSUME Init PROVE Typed
  OBVIOUS
<1>1. NoRow \in Row
  BY DEF NoRow, Row, Status
<1>2. <<>> \in Seq(Claim)
  BY EmptySeq
<1>3. TypeOK
  BY <1>1, <1>2 DEF Init, TypeOK, Stage, Phase
<1>4. BusyHasBatch
  BY DEF Init, BusyHasBatch
<1>5. QED
  BY <1>3, <1>4 DEF Typed

LEMMA TypedTurn ==
  ASSUME Typed, NEW t \in Turns, TurnStep(t)
  PROVE  Typed'
<1> USE DEF Typed, TypeOK, BusyHasBatch, turnVars, workerVars
<1>1. CASE AskTurn(t)
  BY <1>1 DEF AskTurn, Stage
<1>2. CASE EndTurn(t)
  BY <1>2 DEF EndTurn, Stage
<1>3. CASE BeginTouch(t)
  BY <1>3 DEF BeginTouch, Stage
<1>4. CASE CommitTouch(t)
  <2>1. ConversationOf[t] \in Conversations
    BY QueueAssumption DEF QueueAssumption
  <2>2. Rearmed(stamp[t]) \in Row
    BY DEF Rearmed, Row, Status
  <2>3. row' \in [Conversations -> Row]
    BY <1>4, <2>1, <2>2 DEF CommitTouch
  <2>4. touched' \in [Conversations -> SUBSET Turns]
    BY <1>4, <2>1 DEF CommitTouch
  <2>5. stage' \in [Turns -> Stage]
    BY <1>4 DEF CommitTouch, Stage
  <2>6. QED
    BY <1>4, <2>3, <2>4, <2>5 DEF CommitTouch
<1>5. CASE LoseTouch(t)
  BY <1>5 DEF LoseTouch, Stage
<1>6. QED
  BY <1>1, <1>2, <1>3, <1>4, <1>5 DEF TurnStep

LEMMA TypedWorker ==
  ASSUME Typed, NEW w \in Workers, WorkerStep(w) \/ RowError(w) \/ Kill(w)
  PROVE  Typed'
<1> USE DEF Typed, TypeOK, BusyHasBatch, turnVars
<1>1. CASE ClaimIdle(w)
  <2>1. PICK n \in 1 .. BatchSize : \E s \in [1 .. n -> IdleRows] :
          batch' = [batch EXCEPT
            ![w] = [i \in 1 .. n |-> [conv |-> s[i], at |-> row[s[i]].lastTurnAt]]]
    BY <1>1 DEF ClaimIdle
  <2>2. PICK s \in [1 .. n -> IdleRows] :
          batch' = [batch EXCEPT
            ![w] = [i \in 1 .. n |-> [conv |-> s[i], at |-> row[s[i]].lastTurnAt]]]
    BY <2>1
  <2> DEFINE claims == [i \in 1 .. n |-> [conv |-> s[i], at |-> row[s[i]].lastTurnAt]]
  <2>3. n \in Nat \ {0}
    BY QueueAssumption DEF QueueAssumption
  <2>4. \A i \in 1 .. n : [conv |-> s[i], at |-> row[s[i]].lastTurnAt] \in Claim
    BY DEF IdleRows, Claim, Row
  <2>5. claims \in [1 .. n -> Claim]
    BY <2>4
  <2>6. claims \in Seq(Claim) /\ claims # <<>>
    <3>1. claims \in Seq(Claim)
      BY <2>3, <2>5, SeqDef
    <3>2. 1 \in DOMAIN claims
      BY <2>3
    <3>3. DOMAIN <<>> = {}
      OBVIOUS
    <3>4. QED
      BY <3>1, <3>2, <3>3
  <2>7. batch' \in [Workers -> Seq(Claim)] /\ batch'[w] # <<>>
    BY <2>2, <2>6
  <2>8. \A x \in Workers \ {w} : batch'[x] = batch[x] /\ phase'[x] = phase[x]
    BY <1>1, <2>2 DEF ClaimIdle
  <2>9. phase' \in [Workers -> Phase]
    BY <1>1 DEF ClaimIdle, Phase
  <2>10. QED
    BY <1>1, <2>7, <2>8, <2>9 DEF ClaimIdle
<1>2. CASE FindVanished(w)
  BY <1>2, NextRowFacts DEF FindVanished
<1>3. CASE ReadTranscript(w)
  BY <1>3 DEF ReadTranscript, Transcript, Phase, Fault
<1>4. CASE ModelAnswers(w)
  BY <1>4 DEF ModelAnswers, Phase
<1>5. CASE ModelRaises(w)
  BY <1>5 DEF ModelRaises, Phase
<1>6. CASE ParseAnswer(w)
  BY <1>6 DEF ParseAnswer, LogCall, Fault, Phase
<1>7. CASE WriteAccepted(w)
  BY <1>7 DEF WriteAccepted, Phase
<1>8. CASE WriteRefused(w)
  BY <1>8 DEF WriteRefused, Phase
<1>9. CASE MarkDone(w)
  <2>1. row' \in [Conversations -> Row] /\ covered' \in [Conversations -> SUBSET Turns]
    <3>1. Current(w).conv \in Conversations
      BY <1>9, CurrentIsAClaim DEF MarkDone, Claim
    <3>2. Distilled(row[Current(w).conv]) \in Row
      BY <3>1 DEF Distilled, Row, Status
    <3>3. QED
      BY <1>9, <3>1, <3>2 DEF MarkDone
  <2>2. QED
    BY <1>9, <2>1, NextRowFacts DEF MarkDone
<1>10. CASE RecordFailure(w)
  <2>1. Current(w).conv \in Conversations
    BY <1>10, CurrentIsAClaim DEF RecordFailure, Claim
  <2>2. FailedOnce(row[Current(w).conv]) \in Row
    BY <2>1 DEF FailedOnce, Row, Status
  <2>3. row' \in [Conversations -> Row]
    BY <1>10, <2>1, <2>2 DEF RecordFailure
  <2>4. QED
    BY <1>10, <2>3, NextRowFacts DEF RecordFailure
<1>11. CASE RowError(w)
  <2>1. phase[w] # "idle" /\ NextRow(w)
    BY <1>11 DEF RowError
  <2>2. /\ UNCHANGED <<clock, turnVars, row, unbilled, touched, covered>>
        /\ faults' = faults + 1
    BY <1>11 DEF RowError, Fault
  <2>3. QED
    BY <2>1, <2>2, NextRowFacts
<1>12. CASE Kill(w)
  BY <1>12, EmptySeq DEF Kill, Fault, Phase
<1>13. QED
  BY <1>1, <1>2, <1>3, <1>4, <1>5, <1>6, <1>7, <1>8, <1>9, <1>10, <1>11, <1>12 DEF WorkerStep

LEMMA TypedNext == Typed /\ [Next]_vars => Typed'
<1> SUFFICES ASSUME Typed, [Next]_vars PROVE Typed'
  OBVIOUS
<1>1. CASE Tick
  BY <1>1 DEF Tick, Typed, TypeOK, BusyHasBatch, turnVars, workerVars
<1>2. ASSUME NEW t \in Turns, TurnStep(t) PROVE Typed'
  BY <1>2, TypedTurn
<1>3. ASSUME NEW c \in Conversations, DeleteConversation(c) PROVE Typed'
  <2>1. NoRow \in Row
    BY DEF NoRow, Row, Status
  <2>2. QED
    BY <1>3, <2>1 DEF DeleteConversation, Typed, TypeOK, BusyHasBatch, workerVars
<1>4. ASSUME NEW w \in Workers, WorkerStep(w) \/ RowError(w) \/ Kill(w) PROVE Typed'
  BY <1>4, TypedWorker
<1>5. CASE UNCHANGED vars
  BY <1>5 DEF vars, Typed, TypeOK, BusyHasBatch
<1>6. QED
  BY <1>1, <1>2, <1>3, <1>4, <1>5 DEF Next

\* Every reachable state is of the declared types, and a busy worker always
\* has the claim it is working on (process_one never sees an empty batch).
THEOREM TypeCorrect == Spec => [](TypeOK /\ BusyHasBatch)
<1>1. Spec => []Typed
  BY TypedInit, TypedNext, PTL DEF Spec
<1>2. QED
  BY <1>1 DEF Typed

-----------------------------------------------------------------------------
(* No turn is swallowed.                                                    *)

LEMMA QueueInvInit == Init => QueueInv
<1> SUFFICES ASSUME Init PROVE QueueInv
  OBVIOUS
<1>1. Typed
  BY TypedInit
<1>2. Len(<<>>) = 0
  BY EmptySeq
<1>3. Timed
  BY <1>2 DEF Init, Timed, TouchesAreRecent, Touching, ClaimsWereIdle
<1>4. TouchedCanBeRead
  BY DEF Init, TouchedCanBeRead
<1>5. ReadHoldsTouched
  BY DEF Init, ReadHoldsTouched
<1>6. NoSwallowedTurn
  BY DEF Init, NoSwallowedTurn
<1>7. QED
  BY <1>1, <1>3, <1>4, <1>5, <1>6 DEF QueueInv

\* A user turn's own steps leave the worker's view alone, except that a
\* commit moves the row away from every claim on it.
LEMMA CommitMovesRow ==
  ASSUME QueueInv, NEW t \in Turns, CommitTouch(t),
         NEW w \in Workers, phase[w] # "idle", Current(w).conv = ConversationOf[t]
  PROVE  ~Unmoved(w)'
<1>1. /\ Current(w) = batch[w][1] /\ 1 \in 1 .. Len(batch[w])
      /\ Current(w) \in Claim
  BY CurrentIsAClaim DEF QueueInv
<1>2. Current(w).at + IdleMinutes < clock
  BY <1>1 DEF QueueInv, Timed, ClaimsWereIdle
<1>3. stamp[t] <= clock /\ clock - stamp[t] <= TouchWindow
  BY DEF QueueInv, Timed, TouchesAreRecent, CommitTouch
<1>4. TouchWindow <= IdleMinutes /\ TouchWindow \in Nat /\ IdleMinutes \in Nat
  BY QueueAssumption DEF QueueAssumption
<1>5. stamp[t] \in Nat /\ clock \in Nat /\ Current(w).at \in Nat
  BY <1>1 DEF QueueInv, Typed, TypeOK, Claim
<1>6. stamp[t] # Current(w).at
  BY <1>2, <1>3, <1>4, <1>5
<1>7. ConversationOf[t] \in Conversations
  BY QueueAssumption DEF QueueAssumption
<1>8. row'[ConversationOf[t]].lastTurnAt = stamp[t]
  BY <1>7 DEF CommitTouch, Rearmed, QueueInv, Typed, TypeOK
<1>9. batch' = batch
  BY DEF CommitTouch, workerVars
<1>10. QED
  BY <1>6, <1>8, <1>9 DEF Unmoved, Current

LEMMA QueueInvTurn ==
  ASSUME QueueInv, NEW t \in Turns, TurnStep(t)
  PROVE  QueueInv'
<1>1. Typed'
  BY TypedTurn DEF QueueInv
<1>2. /\ clock' = clock /\ phase' = phase /\ batch' = batch /\ seen' = seen
      /\ covered' = covered
  BY DEF TurnStep, AskTurn, EndTurn, BeginTouch, CommitTouch, LoseTouch, workerVars
<1>3. Timed'
  <2>1. TouchesAreRecent'
    <3>1. CASE BeginTouch(t)
      <4>1. clock - clock <= TouchWindow /\ clock <= clock
        BY QueueAssumption DEF QueueAssumption, QueueInv, Typed, TypeOK
      <4>2. QED
        BY <1>2, <3>1, <4>1 DEF BeginTouch, QueueInv, Timed, TouchesAreRecent, Touching, Typed, TypeOK
    <3>2. CASE ~BeginTouch(t)
      BY <1>2, <3>2 DEF TurnStep, AskTurn, EndTurn, CommitTouch, LoseTouch,
                       QueueInv, Timed, TouchesAreRecent, Touching, Typed, TypeOK
    <3>3. QED
      BY <3>1, <3>2
  <2>2. ClaimsWereIdle'
    BY <1>2 DEF QueueInv, Timed, ClaimsWereIdle
  <2>3. QED
    BY <2>1, <2>2 DEF Timed
<1>4. /\ \A c \in Conversations : Transcript(c) \subseteq Transcript(c)'
      /\ CommitTouch(t) => t \in Transcript(ConversationOf[t])'
  BY DEF Transcript, TurnStep, AskTurn, EndTurn, BeginTouch, CommitTouch, LoseTouch,
         QueueInv, Typed, TypeOK, Stage
<1>5. CASE CommitTouch(t)
  <2> DEFINE c == ConversationOf[t]
  <2>1. /\ c \in Conversations
        /\ touched' = [touched EXCEPT ![c] = @ \union {t}]
        /\ row' = [row EXCEPT ![c] = Rearmed(stamp[t])]
    BY <1>5, QueueAssumption DEF QueueAssumption, CommitTouch
  <2>2. TouchedCanBeRead'
    BY <1>4, <1>5, <2>1 DEF TouchedCanBeRead, QueueInv, Typed, TypeOK
  <2>3. ReadHoldsTouched'
    <3> SUFFICES ASSUME NEW w \in Workers, phase[w] \notin {"idle", "row"}, Unmoved(w)'
                 PROVE  touched'[Current(w).conv] \subseteq seen[w]
      BY <1>2 DEF ReadHoldsTouched, Current
    <3>1. Current(w).conv # c
      BY <1>5, CommitMovesRow
    <3>2. Current(w).conv \in Conversations
      BY CurrentIsAClaim DEF QueueInv, Claim
    <3>3. row'[Current(w).conv] = row[Current(w).conv] /\ touched'[Current(w).conv] = touched[Current(w).conv]
      BY <2>1, <3>1, <3>2 DEF QueueInv, Typed, TypeOK
    <3>4. Unmoved(w)
      BY <1>2, <3>3 DEF Unmoved, Current
    <3>5. QED
      BY <3>3, <3>4 DEF QueueInv, ReadHoldsTouched
  <2>4. NoSwallowedTurn'
    <3>1. row'[c].status = "pending"
      BY <2>1 DEF Rearmed, QueueInv, Typed, TypeOK
    <3>2. \A d \in Conversations \ {c} : row'[d] = row[d] /\ touched'[d] = touched[d]
      BY <2>1 DEF QueueInv, Typed, TypeOK
    <3>3. QED
      BY <1>2, <3>1, <3>2 DEF QueueInv, NoSwallowedTurn
  <2>5. QED
    BY <1>1, <1>3, <2>2, <2>3, <2>4 DEF QueueInv
<1>6. CASE ~CommitTouch(t)
  <2>1. row' = row /\ touched' = touched
    BY <1>6 DEF TurnStep, AskTurn, EndTurn, BeginTouch, LoseTouch
  <2>2. TouchedCanBeRead'
    BY <1>4, <2>1 DEF QueueInv, TouchedCanBeRead
  <2>3. ReadHoldsTouched'
    BY <1>2, <2>1 DEF QueueInv, ReadHoldsTouched, Unmoved, Current
  <2>4. NoSwallowedTurn'
    BY <1>2, <2>1 DEF QueueInv, NoSwallowedTurn
  <2>5. QED
    BY <1>1, <1>3, <2>2, <2>3, <2>4 DEF QueueInv
<1>7. QED
  BY <1>5, <1>6

\* A worker that starts a cycle, or leaves a row behind, has read nothing.
HasNothingRead(w) ==
  /\ phase'[w] \in {"idle", "row"}
  /\ \A x \in Workers \ {w} :
       phase'[x] = phase[x] /\ batch'[x] = batch[x] /\ seen'[x] = seen[x]
  /\ \A x \in Workers : \A i \in 1 .. Len(batch'[x]) :
       batch'[x][i].at + IdleMinutes < clock

\* No status update moves a row or brings one back.
RowsStayPut ==
  \A c \in Conversations :
    /\ row'[c].lastTurnAt = row[c].lastTurnAt
    /\ row[c].status = "absent" => row'[c].status = "absent"

LEMMA NothingReadKeeps ==
  ASSUME QueueInv, NEW w \in Workers, HasNothingRead(w), RowsStayPut,
         UNCHANGED <<clock, turnVars, touched>>
  PROVE  Timed' /\ TouchedCanBeRead' /\ ReadHoldsTouched'
<1>1. Timed'
  BY DEF QueueInv, Timed, TouchesAreRecent, Touching, ClaimsWereIdle, HasNothingRead, turnVars
<1>2. TouchedCanBeRead'
  BY DEF QueueInv, TouchedCanBeRead, Transcript, turnVars
<1>3. ReadHoldsTouched'
  <2> SUFFICES ASSUME NEW x \in Workers, phase'[x] \notin {"idle", "row"}, Unmoved(x)'
               PROVE  touched'[Current(x)'.conv] \subseteq seen'[x]
    BY DEF ReadHoldsTouched
  <2>1. x # w /\ phase[x] \notin {"idle", "row"} /\ Current(x)' = Current(x) /\ seen'[x] = seen[x]
    BY DEF HasNothingRead, Current
  <2>2. Current(x).conv \in Conversations
    BY <2>1, CurrentIsAClaim DEF QueueInv, Claim
  <2>3. Unmoved(x)
    BY <2>1, <2>2 DEF Unmoved, RowsStayPut
  <2>4. QED
    BY <2>1, <2>3 DEF QueueInv, ReadHoldsTouched
<1>4. QED
  BY <1>1, <1>2, <1>3

LEMMA NextRowHasNothingRead ==
  ASSUME QueueInv, NEW w \in Workers, phase[w] # "idle", NextRow(w)
  PROVE  HasNothingRead(w)
<1>1. \A x \in Workers : \A i \in 1 .. Len(batch[x]) : batch[x][i].at + IdleMinutes < clock
  BY DEF QueueInv, Timed, ClaimsWereIdle
<1>2. QED
  BY <1>1, NextRowFacts DEF HasNothingRead, QueueInv

LEMMA QueueInvWorker ==
  ASSUME QueueInv, NEW w \in Workers, WorkerStep(w) \/ RowError(w) \/ Kill(w)
  PROVE  QueueInv'
<1>1. Typed'
  BY TypedWorker DEF QueueInv
<1>2. UNCHANGED <<clock, turnVars, touched>>
  BY DEF WorkerStep, RowError, Kill, ClaimIdle, FindVanished, ReadTranscript, ModelAnswers,
         ModelRaises, ParseAnswer, WriteAccepted, WriteRefused, MarkDone, RecordFailure
<1>3. CASE ClaimIdle(w)
  <2>1. PICK n \in 1 .. BatchSize : \E s \in [1 .. n -> IdleRows] :
          batch' = [batch EXCEPT
            ![w] = [i \in 1 .. n |-> [conv |-> s[i], at |-> row[s[i]].lastTurnAt]]]
    BY <1>3 DEF ClaimIdle
  <2>2. PICK s \in [1 .. n -> IdleRows] :
          batch' = [batch EXCEPT
            ![w] = [i \in 1 .. n |-> [conv |-> s[i], at |-> row[s[i]].lastTurnAt]]]
    BY <2>1
  <2>3. /\ batch'[w] = [i \in 1 .. n |-> [conv |-> s[i], at |-> row[s[i]].lastTurnAt]]
        /\ \A x \in Workers \ {w} : batch'[x] = batch[x]
    BY <2>2 DEF QueueInv, Typed, TypeOK
  <2>4. n \in Nat
    BY QueueAssumption DEF QueueAssumption
  <2>5. Len(batch'[w]) = n
    BY <2>3, <2>4
  <2>6. \A i \in 1 .. n : batch'[w][i].at + IdleMinutes < clock
    <3> SUFFICES ASSUME NEW i \in 1 .. n PROVE batch'[w][i].at + IdleMinutes < clock
      OBVIOUS
    <3>1. batch'[w][i].at = row[s[i]].lastTurnAt /\ s[i] \in IdleRows
      BY <2>3
    <3>2. /\ row[s[i]].lastTurnAt < clock - IdleMinutes
          /\ row[s[i]].lastTurnAt \in Nat /\ clock \in Nat /\ IdleMinutes \in Nat
      BY <3>1, QueueAssumption DEF IdleRows, QueueAssumption, QueueInv, Typed, TypeOK, Row
    <3>3. QED
      BY <3>1, <3>2
  <2>7. HasNothingRead(w)
    BY <1>3, <2>3, <2>5, <2>6 DEF ClaimIdle, HasNothingRead, QueueInv, Typed, TypeOK,
                                 Timed, ClaimsWereIdle
  <2>8. RowsStayPut /\ NoSwallowedTurn'
    BY <1>3 DEF ClaimIdle, RowsStayPut, QueueInv, NoSwallowedTurn
  <2>9. QED
    BY <1>1, <1>2, <2>7, <2>8, NothingReadKeeps DEF QueueInv
<1>4. CASE FindVanished(w) \/ RowError(w)
  <2>1. HasNothingRead(w)
    BY <1>4, NextRowHasNothingRead DEF FindVanished, RowError
  <2>2. RowsStayPut /\ NoSwallowedTurn'
    BY <1>4 DEF FindVanished, RowError, RowsStayPut, QueueInv, NoSwallowedTurn
  <2>3. QED
    BY <1>1, <1>2, <2>1, <2>2, NothingReadKeeps DEF QueueInv
<1>5. CASE Kill(w)
  <2>1. batch'[w] = <<>> /\ Len(<<>>) = 0
    BY <1>5, EmptySeq DEF Kill, QueueInv, Typed, TypeOK
  <2>2. HasNothingRead(w)
    BY <1>5, <2>1 DEF Kill, HasNothingRead, QueueInv, Typed, TypeOK, Timed, ClaimsWereIdle
  <2>3. RowsStayPut /\ NoSwallowedTurn'
    BY <1>5 DEF Kill, RowsStayPut, QueueInv, NoSwallowedTurn
  <2>4. QED
    BY <1>1, <1>2, <2>2, <2>3, NothingReadKeeps DEF QueueInv
<1>6. CASE MarkDone(w)
  <2> DEFINE c == Current(w).conv
  <2>1. c \in Conversations /\ phase[w] \notin {"idle", "row"}
    BY <1>6, CurrentIsAClaim DEF MarkDone, QueueInv, Claim
  <2>2. HasNothingRead(w)
    BY <1>6, NextRowHasNothingRead DEF MarkDone
  <2>3. CASE Unmoved(w)
    <3>1. /\ row' = [row EXCEPT ![c] = Distilled(row[c])]
          /\ covered' = [covered EXCEPT ![c] = seen[w]]
      BY <1>6, <2>3 DEF MarkDone
    <3>2. touched[c] \subseteq seen[w]
      BY <2>1, <2>3 DEF QueueInv, ReadHoldsTouched
    <3>3. /\ row[c].status # "absent"
          /\ row'[c] = Distilled(row[c]) /\ covered'[c] = seen[w]
          /\ \A d \in Conversations \ {c} : row'[d] = row[d] /\ covered'[d] = covered[d]
      BY <2>1, <2>3, <3>1 DEF Unmoved, QueueInv, Typed, TypeOK
    <3>4. RowsStayPut
      BY <3>3 DEF RowsStayPut, Distilled
    <3>5. NoSwallowedTurn'
      BY <1>2, <3>2, <3>3 DEF QueueInv, NoSwallowedTurn
    <3>6. QED
      BY <1>1, <1>2, <2>2, <3>4, <3>5, NothingReadKeeps DEF QueueInv
  <2>4. CASE ~Unmoved(w)
    <3>1. RowsStayPut /\ NoSwallowedTurn'
      BY <1>2, <1>6, <2>4 DEF MarkDone, RowsStayPut, QueueInv, NoSwallowedTurn
    <3>2. QED
      BY <1>1, <1>2, <2>2, <3>1, NothingReadKeeps DEF QueueInv
  <2>5. QED
    BY <2>3, <2>4
<1>7. CASE RecordFailure(w)
  <2> DEFINE c == Current(w).conv
  <2>1. c \in Conversations
    BY <1>7, CurrentIsAClaim DEF RecordFailure, QueueInv, Claim
  <2>2. HasNothingRead(w)
    BY <1>7, NextRowHasNothingRead DEF RecordFailure
  <2>3. \A d \in Conversations :
          \/ row'[d] = row[d]
          \/ row'[d] = FailedOnce(row[d]) /\ row[d].status # "absent"
    BY <1>7, <2>1 DEF RecordFailure, Unmoved, QueueInv, Typed, TypeOK
  <2>4. RowsStayPut
    <3>1. \A d \in Conversations : FailedOnce(row[d]).lastTurnAt = row[d].lastTurnAt
      BY DEF FailedOnce
    <3>2. QED
      BY <2>3, <3>1 DEF RowsStayPut
  <2>5. NoSwallowedTurn'
    <3>1. \A d \in Conversations : FailedOnce(row[d]).status # "done"
      BY DEF FailedOnce
    <3>2. covered' = covered /\ touched' = touched
      BY <1>7 DEF RecordFailure
    <3>3. QED
      BY <2>3, <3>1, <3>2 DEF QueueInv, NoSwallowedTurn
  <2>6. QED
    BY <1>1, <1>2, <2>2, <2>4, <2>5, NothingReadKeeps DEF QueueInv
<1>8. CASE ReadTranscript(w)
  <2> DEFINE c == Current(w).conv
  <2>1. c \in Conversations
    BY <1>8, CurrentIsAClaim DEF ReadTranscript, QueueInv, Claim
  <2>2. /\ row' = row /\ batch' = batch /\ covered' = covered
        /\ seen'[w] = Transcript(c)
        /\ \A x \in Workers \ {w} : phase'[x] = phase[x] /\ seen'[x] = seen[x]
    BY <1>8 DEF ReadTranscript, QueueInv, Typed, TypeOK
  <2>3. Timed'
    BY <1>2, <2>2 DEF QueueInv, Timed, TouchesAreRecent, Touching, ClaimsWereIdle, turnVars
  <2>4. TouchedCanBeRead'
    BY <1>2 DEF QueueInv, TouchedCanBeRead, Transcript, turnVars
  <2>5. touched[c] \subseteq seen'[w]
    BY <2>1, <2>2 DEF QueueInv, TouchedCanBeRead
  <2>6. ReadHoldsTouched'
    BY <1>2, <2>2, <2>5 DEF QueueInv, ReadHoldsTouched, Unmoved, Current
  <2>7. NoSwallowedTurn'
    BY <1>2, <2>2 DEF QueueInv, NoSwallowedTurn
  <2>8. QED
    BY <1>1, <2>3, <2>4, <2>6, <2>7 DEF QueueInv
<1>9. CASE ModelAnswers(w) \/ ModelRaises(w) \/ ParseAnswer(w)
             \/ WriteAccepted(w) \/ WriteRefused(w)
  <2>1. /\ row' = row /\ batch' = batch /\ covered' = covered /\ seen' = seen
        /\ phase[w] \notin {"idle", "row"}
        /\ \A x \in Workers \ {w} : phase'[x] = phase[x]
    BY <1>9 DEF ModelAnswers, ModelRaises, ParseAnswer, WriteAccepted, WriteRefused,
                QueueInv, Typed, TypeOK
  <2>2. Timed' /\ TouchedCanBeRead'
    BY <1>2, <2>1 DEF QueueInv, Timed, TouchesAreRecent, Touching, ClaimsWereIdle, turnVars,
                      TouchedCanBeRead, Transcript
  <2>3. ReadHoldsTouched'
    BY <1>2, <2>1 DEF QueueInv, ReadHoldsTouched, Unmoved, Current
  <2>4. NoSwallowedTurn'
    BY <1>2, <2>1 DEF QueueInv, NoSwallowedTurn
  <2>5. QED
    BY <1>1, <2>2, <2>3, <2>4 DEF QueueInv
<1>10. QED
  BY <1>3, <1>4, <1>5, <1>6, <1>7, <1>8, <1>9 DEF WorkerStep

LEMMA QueueInvNext == QueueInv /\ [Next]_vars => QueueInv'
<1> SUFFICES ASSUME QueueInv, [Next]_vars PROVE QueueInv'
  OBVIOUS
<1>1. Typed'
  BY TypedNext DEF QueueInv
<1>2. CASE Tick
  <2>1. /\ clock' = clock + 1 /\ clock \in Nat
        /\ UNCHANGED <<turnVars, row, workerVars, touched, covered>>
    BY <1>2 DEF Tick, QueueInv, Typed, TypeOK
  <2>2. TouchesAreRecent'
    BY <1>2, <2>1 DEF Tick, QueueInv, Timed, TouchesAreRecent, Touching, turnVars, Typed, TypeOK
  <2>3. ClaimsWereIdle'
    <3> SUFFICES ASSUME NEW w \in Workers, NEW i \in 1 .. Len(batch[w])
                 PROVE  batch[w][i].at + IdleMinutes < clock + 1
      BY <2>1 DEF ClaimsWereIdle, workerVars
    <3>1. batch[w][i] \in Claim
      BY ElementOfSeq DEF QueueInv, Typed, TypeOK
    <3>2. batch[w][i].at \in Nat /\ IdleMinutes \in Nat
      BY <3>1, QueueAssumption DEF Claim, QueueAssumption
    <3>3. batch[w][i].at + IdleMinutes < clock
      BY DEF QueueInv, Timed, ClaimsWereIdle
    <3>4. QED
      BY <2>1, <3>2, <3>3
  <2>4. TouchedCanBeRead' /\ ReadHoldsTouched' /\ NoSwallowedTurn'
    BY <2>1 DEF QueueInv, TouchedCanBeRead, Transcript, ReadHoldsTouched, Unmoved, Current,
                NoSwallowedTurn, turnVars, workerVars
  <2>5. QED
    BY <1>1, <2>2, <2>3, <2>4 DEF QueueInv, Timed
<1>3. ASSUME NEW t \in Turns, TurnStep(t) PROVE QueueInv'
  BY <1>3, QueueInvTurn
<1>4. ASSUME NEW c \in Conversations, DeleteConversation(c) PROVE QueueInv'
  <2>1. /\ row' = [row EXCEPT ![c] = NoRow]
        /\ UNCHANGED <<clock, stage, stamp, workerVars, touched, covered>>
    BY <1>4 DEF DeleteConversation
  <2>2. row'[c].status = "absent" /\ \A d \in Conversations \ {c} : row'[d] = row[d]
    BY <2>1 DEF NoRow, QueueInv, Typed, TypeOK
  <2>3. Timed' /\ TouchedCanBeRead'
    BY <2>1 DEF QueueInv, Timed, TouchesAreRecent, Touching, ClaimsWereIdle, workerVars,
                TouchedCanBeRead, Transcript
  <2>4. ReadHoldsTouched'
    <3> SUFFICES ASSUME NEW w \in Workers, phase[w] \notin {"idle", "row"}, Unmoved(w)'
                 PROVE  touched[Current(w).conv] \subseteq seen[w]
      BY <2>1 DEF ReadHoldsTouched, workerVars, Current
    <3>1. Current(w).conv \in Conversations
      BY CurrentIsAClaim DEF QueueInv, Claim
    <3>2. Unmoved(w)
      BY <2>1, <2>2, <3>1 DEF Unmoved, Current, workerVars
    <3>3. QED
      BY <3>2 DEF QueueInv, ReadHoldsTouched
  <2>5. NoSwallowedTurn'
    BY <2>1, <2>2 DEF QueueInv, NoSwallowedTurn
  <2>6. QED
    BY <1>1, <2>3, <2>4, <2>5 DEF QueueInv
<1>5. ASSUME NEW w \in Workers, WorkerStep(w) \/ RowError(w) \/ Kill(w) PROVE QueueInv'
  BY <1>5, QueueInvWorker
<1>6. CASE UNCHANGED vars
  BY <1>6 DEF vars, QueueInv, Typed, TypeOK, BusyHasBatch, Timed, TouchesAreRecent, Touching,
              ClaimsWereIdle, TouchedCanBeRead, Transcript, ReadHoldsTouched, Unmoved, Current,
              NoSwallowedTurn
<1>7. QED
  BY <1>2, <1>3, <1>4, <1>5, <1>6 DEF Next

\* No interleaving of touches, deletions, kills and any number of workers
\* marks a row done that owes a turn: the comparison of last_turn_at in
\* mark_done is enough, given that a touch's transaction is shorter than
\* the idle period.
THEOREM NoTurnIsSwallowed == Spec => []NoSwallowedTurn
<1>1. Spec => []QueueInv
  BY QueueInvInit, QueueInvNext, PTL DEF Spec
<1>2. QueueInv => NoSwallowedTurn
  BY DEF QueueInv
<1>3. QED
  BY <1>1, <1>2, PTL

-----------------------------------------------------------------------------
(***************************************************************************)
(* With one worker, which is how the container is deployed: the attempts   *)
(* ladder, settled rows, and the refinement of DistillationPromise.  With  *)
(* two workers none of the three holds, since both may claim the same row. *)
(***************************************************************************)

OneWorker == \A v, w \in Workers : v = w

\* A claimed row that has not moved is pending still, and no conversation
\* is claimed twice: two status updates never meet on one row.
ClaimsArePending ==
  \A w \in Workers : \A i \in 1 .. Len(batch[w]) :
    LET k == batch[w][i] IN
    row[k.conv].status # "absent" /\ row[k.conv].lastTurnAt = k.at
      => row[k.conv].status = "pending"

ClaimsAreDistinct ==
  \A w \in Workers : \A i, j \in 1 .. Len(batch[w]) :
    i # j => batch[w][i].conv # batch[w][j].conv

ClaimInv == QueueInv /\ ClaimsArePending /\ ClaimsAreDistinct

\* What a step does to the rows, whoever takes it.
Unchanged(c) == row'[c] = row[c]
SettledBy(w, c) ==
  /\ row[c].status = "pending" /\ phase[w] # "idle"
  /\ c = Current(w).conv
  /\ row'[c] \in {Distilled(row[c]), FailedOnce(row[c])}

-----------------------------------------------------------------------------
LEMMA UnmovedIsPending ==
  ASSUME ClaimInv, NEW w \in Workers, phase[w] # "idle", Unmoved(w)
  PROVE  row[Current(w).conv].status = "pending"
<1>1. Current(w) = batch[w][1] /\ 1 \in 1 .. Len(batch[w])
  BY CurrentIsAClaim DEF ClaimInv, QueueInv
<1>2. QED
  BY <1>1 DEF ClaimInv, ClaimsArePending, Unmoved

\* The batch a worker is left with when it moves on.
LEMMA NextRowShifts ==
  ASSUME Typed, NEW w \in Workers, phase[w] # "idle", NextRow(w)
  PROVE  /\ Len(batch'[w]) = Len(batch[w]) - 1
         /\ Len(batch[w]) \in Nat \ {0}
         /\ \A i \in 1 .. Len(batch'[w]) : batch'[w][i] = batch[w][i + 1]
<1>1. batch[w] \in Seq(Claim) /\ batch[w] # <<>> /\ batch'[w] = Tail(batch[w])
  BY DEF Typed, TypeOK, BusyHasBatch, NextRow
<1>2. QED
  BY <1>1, HeadTailProperties, EmptySeq

\* The rows of the claims that remain are not the one just worked on.
LEMMA RemainingClaims ==
  ASSUME ClaimInv, NEW w \in Workers, phase[w] # "idle", NextRow(w)
  PROVE  /\ \A i \in 1 .. Len(batch'[w]) :
              /\ batch'[w][i].conv # Current(w).conv
              /\ \E j \in 1 .. Len(batch[w]) : batch'[w][i] = batch[w][j]
         /\ \A i, j \in 1 .. Len(batch'[w]) : i # j => batch'[w][i].conv # batch'[w][j].conv
<1>1. /\ Len(batch'[w]) = Len(batch[w]) - 1
      /\ Len(batch[w]) \in Nat \ {0}
      /\ \A i \in 1 .. Len(batch'[w]) : batch'[w][i] = batch[w][i + 1]
  BY NextRowShifts DEF ClaimInv, QueueInv
<1>2. Current(w) = batch[w][1]
  BY CurrentIsAClaim DEF ClaimInv, QueueInv
<1>3. \A i, j \in 1 .. Len(batch[w]) : i # j => batch[w][i].conv # batch[w][j].conv
  BY DEF ClaimInv, ClaimsAreDistinct
<1>4. \A i \in 1 .. Len(batch'[w]) : i + 1 \in 1 .. Len(batch[w]) /\ i + 1 # 1
  BY <1>1
<1>5. 1 \in 1 .. Len(batch[w])
  BY <1>1
<1>6. \A i \in 1 .. Len(batch'[w]) : batch'[w][i].conv # Current(w).conv
  BY <1>1, <1>2, <1>3, <1>4, <1>5
<1>7. \A i, j \in 1 .. Len(batch'[w]) : i # j => batch'[w][i].conv # batch'[w][j].conv
  <2> SUFFICES ASSUME NEW i \in 1 .. Len(batch'[w]), NEW j \in 1 .. Len(batch'[w]), i # j
               PROVE  batch'[w][i].conv # batch'[w][j].conv
    OBVIOUS
  <2>1. i + 1 # j + 1
    OBVIOUS
  <2>2. QED
    BY <1>1, <1>3, <1>4, <2>1
<1>8. QED
  BY <1>1, <1>4, <1>6, <1>7

\* A step of a worker changes no row, or settles its own.
LEMMA WorkerSettles ==
  ASSUME ClaimInv, NEW w \in Workers, WorkerStep(w) \/ RowError(w) \/ Kill(w),
         NEW c \in Conversations
  PROVE  Unchanged(c) \/ (SettledBy(w, c) /\ NextRow(w))
<1>1. CASE MarkDone(w)
  <2>1. phase[w] # "idle" /\ NextRow(w)
    BY <1>1 DEF MarkDone
  <2>2. CASE Unmoved(w) /\ c = Current(w).conv
    BY <1>1, <2>1, <2>2, UnmovedIsPending DEF MarkDone, SettledBy, ClaimInv, QueueInv, Typed, TypeOK
  <2>3. CASE ~(Unmoved(w) /\ c = Current(w).conv)
    BY <1>1, <2>3 DEF MarkDone, Unchanged, ClaimInv, QueueInv, Typed, TypeOK
  <2>4. QED
    BY <2>2, <2>3
<1>2. CASE RecordFailure(w)
  <2>1. phase[w] # "idle" /\ NextRow(w)
    BY <1>2 DEF RecordFailure
  <2>2. CASE Unmoved(w) /\ c = Current(w).conv
    BY <1>2, <2>1, <2>2, UnmovedIsPending DEF RecordFailure, SettledBy, ClaimInv, QueueInv, Typed, TypeOK
  <2>3. CASE ~(Unmoved(w) /\ c = Current(w).conv)
    BY <1>2, <2>3 DEF RecordFailure, Unchanged, ClaimInv, QueueInv, Typed, TypeOK
  <2>4. QED
    BY <2>2, <2>3
<1>3. CASE ~MarkDone(w) /\ ~RecordFailure(w)
  BY <1>3 DEF WorkerStep, RowError, Kill, ClaimIdle, FindVanished, ReadTranscript, ModelAnswers,
              ModelRaises, ParseAnswer, WriteAccepted, WriteRefused, Unchanged
<1>4. QED
  BY <1>1, <1>2, <1>3

-----------------------------------------------------------------------------
(* The invariant on claims.                                                 *)

LEMMA ClaimInvWorker ==
  ASSUME OneWorker, ClaimInv, NEW w \in Workers, WorkerStep(w) \/ RowError(w) \/ Kill(w)
  PROVE  ClaimsArePending' /\ ClaimsAreDistinct'
<1> USE DEF OneWorker
<1>1. batch \in [Workers -> Seq(Claim)] /\ row \in [Conversations -> Row]
  BY DEF ClaimInv, QueueInv, Typed, TypeOK
<1>2. CASE ClaimIdle(w)
  <2>1. PICK n \in 1 .. BatchSize : \E s \in [1 .. n -> IdleRows] :
          /\ IsOldestFirst(s)
          /\ batch' = [batch EXCEPT
               ![w] = [i \in 1 .. n |-> [conv |-> s[i], at |-> row[s[i]].lastTurnAt]]]
    BY <1>2 DEF ClaimIdle
  <2>2. PICK s \in [1 .. n -> IdleRows] :
          /\ IsOldestFirst(s)
          /\ batch' = [batch EXCEPT
               ![w] = [i \in 1 .. n |-> [conv |-> s[i], at |-> row[s[i]].lastTurnAt]]]
    BY <2>1
  <2>3. n \in Nat
    BY QueueAssumption DEF QueueAssumption
  <2>4. batch'[w] = [i \in 1 .. n |-> [conv |-> s[i], at |-> row[s[i]].lastTurnAt]]
    BY <1>1, <2>2
  <2>5. Len(batch'[w]) = n /\ Len(s) = n
    BY <2>3, <2>4
  <2>6. \A i, j \in 1 .. n : i < j => s[i] # s[j]
    BY <2>2, <2>5 DEF IsOldestFirst
  <2>7. ClaimsAreDistinct'
    <3> SUFFICES ASSUME NEW i \in 1 .. n, NEW j \in 1 .. n, i # j
                 PROVE  batch'[w][i].conv # batch'[w][j].conv
      BY <2>5 DEF ClaimsAreDistinct
    <3>1. i < j \/ j < i
      BY <2>3
    <3>2. s[i] # s[j]
      BY <2>6, <3>1
    <3>3. QED
      BY <2>4, <3>2
  <2>8. ClaimsArePending'
    <3>1. \A i \in 1 .. n : batch'[w][i].conv = s[i] /\ row[s[i]].status = "pending"
      BY <2>4 DEF IdleRows
    <3>2. row' = row
      BY <1>2 DEF ClaimIdle
    <3>3. QED
      BY <2>5, <3>1, <3>2 DEF ClaimsArePending
  <2>9. QED
    BY <2>7, <2>8
<1>3. CASE phase[w] # "idle" /\ NextRow(w)
  <2>1. /\ \A i \in 1 .. Len(batch'[w]) :
             /\ batch'[w][i].conv # Current(w).conv
             /\ \E j \in 1 .. Len(batch[w]) : batch'[w][i] = batch[w][j]
        /\ \A i, j \in 1 .. Len(batch'[w]) : i # j => batch'[w][i].conv # batch'[w][j].conv
    BY <1>3, RemainingClaims
  <2>2. ClaimsAreDistinct'
    BY <2>1 DEF ClaimsAreDistinct
  <2>3. ClaimsArePending'
    <3> SUFFICES ASSUME NEW i \in 1 .. Len(batch'[w]),
                        row'[batch'[w][i].conv].status # "absent",
                        row'[batch'[w][i].conv].lastTurnAt = batch'[w][i].at
                 PROVE  row'[batch'[w][i].conv].status = "pending"
      BY DEF ClaimsArePending
    <3>1. PICK j \in 1 .. Len(batch[w]) : batch'[w][i] = batch[w][j]
      BY <2>1
    <3>2. batch[w][j] \in Claim
      BY <1>1, ElementOfSeq
    <3>3. Unchanged(batch[w][j].conv)
      <4>1. batch[w][j].conv \in Conversations /\ batch[w][j].conv # Current(w).conv
        BY <2>1, <3>1, <3>2 DEF Claim
      <4>2. QED
        BY <4>1, WorkerSettles DEF SettledBy
    <3>4. QED
      BY <3>1, <3>3 DEF Unchanged, ClaimInv, ClaimsArePending
  <2>4. QED
    BY <2>2, <2>3
<1>4. CASE Kill(w)
  <2>1. batch'[w] = <<>> /\ Len(<<>>) = 0
    BY <1>1, <1>4, EmptySeq DEF Kill
  <2>2. QED
    BY <2>1 DEF ClaimsArePending, ClaimsAreDistinct
<1>5. CASE ReadTranscript(w) \/ ModelAnswers(w) \/ ModelRaises(w) \/ ParseAnswer(w)
             \/ WriteAccepted(w) \/ WriteRefused(w)
  <2>1. batch' = batch /\ row' = row
    BY <1>5 DEF ReadTranscript, ModelAnswers, ModelRaises, ParseAnswer, WriteAccepted, WriteRefused
  <2>2. QED
    BY <2>1 DEF ClaimInv, ClaimsArePending, ClaimsAreDistinct
<1>6. FindVanished(w) \/ MarkDone(w) \/ RecordFailure(w) \/ RowError(w)
        => phase[w] # "idle" /\ NextRow(w)
  BY DEF FindVanished, MarkDone, RecordFailure, RowError
<1>7. QED
  BY <1>2, <1>3, <1>4, <1>5, <1>6 DEF WorkerStep

LEMMA ClaimInvNext ==
  ASSUME OneWorker
  PROVE  ClaimInv /\ [Next]_vars => ClaimInv'
<1> SUFFICES ASSUME ClaimInv, [Next]_vars PROVE ClaimInv'
  OBVIOUS
<1>1. QueueInv'
  BY QueueInvNext DEF ClaimInv
<1> SUFFICES ClaimsArePending' /\ ClaimsAreDistinct'
  BY <1>1 DEF ClaimInv
<1>2. row \in [Conversations -> Row]
  BY DEF ClaimInv, QueueInv, Typed, TypeOK
<1>3. ASSUME UNCHANGED batch,
             \A c \in Conversations : Unchanged(c) \/ row'[c].status \in {"absent", "pending"}
      PROVE  ClaimsArePending' /\ ClaimsAreDistinct'
  <2>1. ClaimsAreDistinct'
    BY <1>3 DEF ClaimInv, ClaimsAreDistinct
  <2>2. \A w \in Workers : \A i \in 1 .. Len(batch[w]) : batch[w][i].conv \in Conversations
    <3> SUFFICES ASSUME NEW w \in Workers, NEW i \in 1 .. Len(batch[w])
                 PROVE  batch[w][i].conv \in Conversations
      OBVIOUS
    <3>1. batch[w] \in Seq(Claim)
      BY DEF ClaimInv, QueueInv, Typed, TypeOK
    <3>2. batch[w][i] \in Claim
      BY <3>1, ElementOfSeq
    <3>3. QED
      BY <3>2 DEF Claim
  <2>3. ClaimsArePending'
    BY <1>3, <2>2 DEF ClaimInv, ClaimsArePending, Unchanged
  <2>4. QED
    BY <2>1, <2>3
<1>4. CASE Tick
  BY <1>3, <1>4 DEF Tick, workerVars, Unchanged
<1>5. ASSUME NEW t \in Turns, TurnStep(t) PROVE ClaimsArePending' /\ ClaimsAreDistinct'
  <2>1. CASE CommitTouch(t)
    <3>1. \A c \in Conversations : Unchanged(c) \/ row'[c].status = "pending"
      BY <1>2, <2>1 DEF CommitTouch, Rearmed, Unchanged
    <3>2. QED
      BY <1>3, <2>1, <3>1 DEF CommitTouch, workerVars
  <2>2. CASE ~CommitTouch(t)
    BY <1>3, <1>5, <2>2 DEF TurnStep, AskTurn, EndTurn, BeginTouch, LoseTouch, workerVars, Unchanged
  <2>3. QED
    BY <2>1, <2>2
<1>6. ASSUME NEW c \in Conversations, DeleteConversation(c)
      PROVE  ClaimsArePending' /\ ClaimsAreDistinct'
  <2>1. \A d \in Conversations : Unchanged(d) \/ row'[d].status = "absent"
    BY <1>2, <1>6 DEF DeleteConversation, NoRow, Unchanged
  <2>2. QED
    BY <1>3, <1>6, <2>1 DEF DeleteConversation, workerVars
<1>7. ASSUME NEW w \in Workers, WorkerStep(w) \/ RowError(w) \/ Kill(w)
      PROVE  ClaimsArePending' /\ ClaimsAreDistinct'
  BY <1>7, ClaimInvWorker
<1>8. CASE UNCHANGED vars
  BY <1>3, <1>8 DEF vars, Unchanged
<1>9. QED
  BY <1>4, <1>5, <1>6, <1>7, <1>8 DEF Next

LEMMA ClaimInvAlways ==
  ASSUME OneWorker
  PROVE  Spec => []ClaimInv
<1>1. Init => ClaimInv
  <2>1. Len(<<>>) = 0
    BY EmptySeq
  <2>2. Init => ClaimsArePending /\ ClaimsAreDistinct
    BY <2>1 DEF Init, ClaimsArePending, ClaimsAreDistinct
  <2>3. QED
    BY <2>2, QueueInvInit DEF ClaimInv
<1>2. ClaimInv /\ [Next]_vars => ClaimInv'
  BY ClaimInvNext
<1>3. QED
  BY <1>1, <1>2, PTL DEF Spec

-----------------------------------------------------------------------------
(* What a step does to one row, under the invariant.                        *)

RearmedBy(t, c) == /\ ConversationOf[t] = c /\ c \notin gone
                   /\ stage[t] = "touching" /\ stage'[t] = "touched"
                   /\ row'[c] = Rearmed(stamp[t])
Settled(c) == /\ row[c].status = "pending"
              /\ row'[c] \in {Distilled(row[c]), FailedOnce(row[c])}

LEMMA RowSteps ==
  ASSUME ClaimInv, [Next]_vars, NEW c \in Conversations
  PROVE  \/ Unchanged(c)
         \/ row'[c] = NoRow
         \/ \E t \in Turns : RearmedBy(t, c)
         \/ Settled(c)
<1>1. row \in [Conversations -> Row] /\ stage \in [Turns -> Stage]
  BY DEF ClaimInv, QueueInv, Typed, TypeOK
<1>2. CASE Tick \/ UNCHANGED vars
  BY <1>2 DEF Tick, vars, Unchanged
<1>3. ASSUME NEW t \in Turns, TurnStep(t)
      PROVE  Unchanged(c) \/ RearmedBy(t, c)
  <2>1. CASE CommitTouch(t)
    BY <1>1, <2>1 DEF CommitTouch, RearmedBy, Unchanged, Touching
  <2>2. CASE ~CommitTouch(t)
    BY <1>3, <2>2 DEF TurnStep, AskTurn, EndTurn, BeginTouch, LoseTouch, Unchanged
  <2>3. QED
    BY <2>1, <2>2
<1>4. ASSUME NEW d \in Conversations, DeleteConversation(d)
      PROVE  Unchanged(c) \/ row'[c] = NoRow
  BY <1>1, <1>4 DEF DeleteConversation, Unchanged
<1>5. ASSUME NEW w \in Workers, WorkerStep(w) \/ RowError(w) \/ Kill(w)
      PROVE  Unchanged(c) \/ Settled(c)
  BY <1>5, WorkerSettles DEF SettledBy, Settled
<1>6. QED
  BY <1>2, <1>3, <1>4, <1>5 DEF Next

-----------------------------------------------------------------------------
(* The attempts ladder.                                                     *)

\* The ladder of one row; its error flag apart, which is not arithmetic.
CountOK(r) ==
  /\ r.status = "pending" => r.attempts < MaxAttempts
  /\ r.status = "failed" => r.attempts = MaxAttempts
  /\ r.status = "done" => r.attempts < MaxAttempts
FlagOK(r) ==
  /\ r.status = "pending" => (r.error <=> r.attempts > 0)
  /\ r.status = "failed" => r.error
  /\ r.status = "done" => ~r.error

LEMMA LadderByRow ==
  AttemptsLadder <=> \A c \in Conversations : CountOK(row[c]) /\ FlagOK(row[c])
BY DEF AttemptsLadder, CountOK, FlagOK

LEMMA LadderRungs ==
  ASSUME NEW r \in Row, r.status = "pending", CountOK(r)
  PROVE  /\ CountOK(Distilled(r)) /\ FlagOK(Distilled(r))
         /\ CountOK(FailedOnce(r)) /\ FlagOK(FailedOnce(r))
<1>1. r.attempts \in Nat /\ r.attempts < MaxAttempts /\ MaxAttempts \in Nat
  BY QueueAssumption DEF CountOK, Row, QueueAssumption
<1>2. CountOK(Distilled(r)) /\ FlagOK(Distilled(r))
  BY <1>1 DEF Distilled, CountOK, FlagOK
<1>3. /\ FailedOnce(r).attempts = r.attempts + 1
      /\ FailedOnce(r).status = IF r.attempts + 1 >= MaxAttempts THEN "failed" ELSE "pending"
      /\ FailedOnce(r).error = TRUE
  BY DEF FailedOnce
<1>4. CountOK(FailedOnce(r))
  BY <1>1, <1>3 DEF CountOK
<1>5. FailedOnce(r).attempts > 0 /\ FailedOnce(r).status # "done"
  BY <1>1, <1>3
<1>6. FlagOK(FailedOnce(r))
  BY <1>3, <1>5 DEF FlagOK
<1>7. QED
  BY <1>2, <1>4, <1>6

\* With one worker a claim is counted once: record_failure takes a row up
\* the ladder rung by rung, and a row is failed exactly when its attempts
\* are used up.
THEOREM LadderHolds ==
  ASSUME OneWorker
  PROVE  Spec => []AttemptsLadder
<1>1. Init => AttemptsLadder
  BY DEF Init, AttemptsLadder, NoRow
<1>2. ClaimInv /\ AttemptsLadder /\ [Next]_vars => AttemptsLadder'
  <2> SUFFICES ASSUME ClaimInv, AttemptsLadder, [Next]_vars, NEW c \in Conversations
               PROVE  CountOK(row'[c]) /\ FlagOK(row'[c])
    BY LadderByRow DEF AttemptsLadder, CountOK, FlagOK
  <2>1. row[c] \in Row /\ CountOK(row[c]) /\ FlagOK(row[c])
    BY LadderByRow DEF ClaimInv, QueueInv, Typed, TypeOK
  <2>2. CASE Unchanged(c)
    BY <2>1, <2>2 DEF Unchanged
  <2>3. CASE row'[c] = NoRow
    BY <2>3 DEF NoRow, CountOK, FlagOK
  <2>4. ASSUME NEW t \in Turns, RearmedBy(t, c)
        PROVE  CountOK(row'[c]) /\ FlagOK(row'[c])
    <3>1. MaxAttempts > 0 /\ ~(0 > 0)
      BY QueueAssumption DEF QueueAssumption
    <3>2. QED
      BY <2>4, <3>1 DEF RearmedBy, Rearmed, CountOK, FlagOK
  <2>5. CASE Settled(c)
    BY <2>1, <2>5, LadderRungs DEF Settled
  <2>6. QED
    BY <2>2, <2>3, <2>4, <2>5, RowSteps
<1>3. QED
  BY <1>1, <1>2, ClaimInvAlways, PTL DEF Spec

-----------------------------------------------------------------------------
(* Settled rows.                                                            *)

\* With one worker a row that is done or failed changes only by a touch of
\* its conversation or by its deletion: no stale claim reopens it.
THEOREM SettledRowsStay ==
  ASSUME OneWorker
  PROVE  Spec => SettledStays
<1>1. ASSUME ClaimInv, [Next]_vars
      PROVE  \A c \in Conversations :
               row[c].status \in {"done", "failed"} =>
                 \/ row'[c] = row[c]
                 \/ row'[c].status = "absent"
                 \/ \E t \in Turns : stage[t] = "touching" /\ stage'[t] = "touched"
                                    /\ ConversationOf[t] = c
  <2> SUFFICES ASSUME NEW c \in Conversations, row[c].status \in {"done", "failed"}
               PROVE  \/ row'[c] = row[c]
                      \/ row'[c].status = "absent"
                      \/ \E t \in Turns : stage[t] = "touching" /\ stage'[t] = "touched"
                                         /\ ConversationOf[t] = c
    OBVIOUS
  <2>1. ~Settled(c)
    BY DEF Settled
  <2>2. NoRow.status = "absent"
    BY DEF NoRow
  <2>3. QED
    BY <1>1, <2>1, <2>2, RowSteps DEF Unchanged, RearmedBy
<1>2. QED
  BY <1>1, ClaimInvAlways, PTL DEF Spec, SettledStays

-----------------------------------------------------------------------------
(* The refinement.                                                          *)

\* What a step does to the two history variables.
LEMMA HistorySteps ==
  ASSUME ClaimInv, Next
  PROVE  \/ \E t \in Turns :
              /\ touched' = [touched EXCEPT ![ConversationOf[t]] = @ \union {t}]
              /\ row' = [row EXCEPT ![ConversationOf[t]] = Rearmed(stamp[t])]
              /\ covered' = covered
         \/ \E c \in Conversations :
              row' = [row EXCEPT ![c] = NoRow] /\ UNCHANGED <<touched, covered>>
         \/ \E c \in Conversations, turns \in SUBSET Turns :
              /\ row[c].status = "pending"
              /\ touched' = touched
              /\ \/ /\ row' = [row EXCEPT ![c] = Distilled(row[c])]
                    /\ covered' = [covered EXCEPT ![c] = turns]
                    /\ touched[c] \subseteq turns
                 \/ row' = [row EXCEPT ![c] = FailedOnce(row[c])] /\ covered' = covered
         \/ UNCHANGED <<row, touched, covered>>
<1>1. CASE Tick
  BY <1>1 DEF Tick
<1>2. ASSUME NEW t \in Turns, TurnStep(t) PROVE
        \/ /\ touched' = [touched EXCEPT ![ConversationOf[t]] = @ \union {t}]
           /\ row' = [row EXCEPT ![ConversationOf[t]] = Rearmed(stamp[t])]
           /\ covered' = covered
        \/ UNCHANGED <<row, touched, covered>>
  BY <1>2 DEF TurnStep, AskTurn, EndTurn, BeginTouch, CommitTouch, LoseTouch
<1>3. ASSUME NEW c \in Conversations, DeleteConversation(c)
      PROVE  row' = [row EXCEPT ![c] = NoRow] /\ UNCHANGED <<touched, covered>>
  BY <1>3 DEF DeleteConversation
<1>4. ASSUME NEW w \in Workers, MarkDone(w) \/ RecordFailure(w), Unmoved(w)
      PROVE  LET c == Current(w).conv IN
             /\ c \in Conversations /\ seen[w] \in SUBSET Turns /\ row[c].status = "pending"
             /\ touched' = touched
             /\ \/ /\ row' = [row EXCEPT ![c] = Distilled(row[c])]
                   /\ covered' = [covered EXCEPT ![c] = seen[w]]
                   /\ touched[c] \subseteq seen[w]
                \/ row' = [row EXCEPT ![c] = FailedOnce(row[c])] /\ covered' = covered
  <2>1. phase[w] \notin {"idle", "row"}
    BY <1>4 DEF MarkDone, RecordFailure
  <2>2. Current(w).conv \in Conversations
    BY <2>1, CurrentIsAClaim DEF ClaimInv, QueueInv, Claim
  <2>3. row[Current(w).conv].status = "pending"
    BY <1>4, <2>1, UnmovedIsPending
  <2>4. touched[Current(w).conv] \subseteq seen[w] /\ seen[w] \in SUBSET Turns
    BY <1>4, <2>1 DEF ClaimInv, QueueInv, ReadHoldsTouched, Typed, TypeOK
  <2>5. QED
    BY <1>4, <2>2, <2>3, <2>4 DEF MarkDone, RecordFailure
<1>5. ASSUME NEW w \in Workers, WorkerStep(w) \/ RowError(w) \/ Kill(w),
             ~((MarkDone(w) \/ RecordFailure(w)) /\ Unmoved(w))
      PROVE  UNCHANGED <<row, touched, covered>>
  BY <1>5 DEF WorkerStep, RowError, Kill, ClaimIdle, FindVanished, ReadTranscript, ModelAnswers,
              ModelRaises, ParseAnswer, WriteAccepted, WriteRefused, MarkDone, RecordFailure
<1>6. QED
  BY <1>1, <1>2, <1>3, <1>4, <1>5 DEF Next

Verdicts == [c \in Conversations |-> VerdictOf(row[c].status)]

\* A row that changes takes its verdict along, and no other's.
LEMMA VerdictFollowsRow ==
  ASSUME ClaimInv, NEW c \in Conversations, NEW r, row' = [row EXCEPT ![c] = r]
  PROVE  Verdicts' = [Verdicts EXCEPT ![c] = VerdictOf(r.status)]
<1>1. row \in [Conversations -> Row]
  BY DEF ClaimInv, QueueInv, Typed, TypeOK
<1>2. \A d \in Conversations : row'[d] = IF d = c THEN r ELSE row[d]
  BY <1>1
<1>3. \A d \in Conversations :
        VerdictOf(row'[d].status) = IF d = c THEN VerdictOf(r.status) ELSE VerdictOf(row[d].status)
  BY <1>2
<1>4. Verdicts' = [d \in Conversations |-> VerdictOf(row'[d].status)]
  BY DEF Verdicts
<1>5. [Verdicts EXCEPT ![c] = VerdictOf(r.status)]
        = [d \in Conversations |-> IF d = c THEN VerdictOf(r.status) ELSE VerdictOf(row[d].status)]
  BY DEF Verdicts
<1>6. QED
  BY <1>3, <1>4, <1>5

\* The queue implements the promise step by step: touch owes, mark_done
\* keeps, record_failure abandons or stutters, and deletion forgets.
THEOREM QueueKeepsPromise ==
  ASSUME OneWorker
  PROVE  Spec => KeepsPromise
<1>1. Init => Promise!Init
  <2>1. VerdictOf("absent") = "none"
    BY DEF VerdictOf
  <2>2. NoRow.status = "absent"
    BY DEF NoRow
  <2>3. QED
    BY <2>1, <2>2 DEF Init, Promise!Init
<1>2. ASSUME ClaimInv, [Next]_vars
      PROVE  [Promise!Next]_(Promise!promiseVars)
  <2> USE DEF VerdictOf, Verdicts
  <2>1. CASE UNCHANGED vars
    BY <2>1 DEF vars, Promise!promiseVars
  <2>2. ASSUME NEW t \in Turns,
               touched' = [touched EXCEPT ![ConversationOf[t]] = @ \union {t}],
               row' = [row EXCEPT ![ConversationOf[t]] = Rearmed(stamp[t])],
               covered' = covered
        PROVE  Promise!Next
    <3>1. ConversationOf[t] \in Conversations
      BY QueueAssumption DEF QueueAssumption
    <3>2. VerdictOf(Rearmed(stamp[t]).status) = "owed"
      BY DEF Rearmed
    <3>3. Verdicts' = [Verdicts EXCEPT ![ConversationOf[t]] = "owed"]
      BY <1>2, <2>2, <3>1, <3>2, VerdictFollowsRow
    <3>4. Promise!Owe(ConversationOf[t], t)
      BY <2>2, <3>3 DEF Promise!Owe
    <3>5. QED
      BY <3>1, <3>4 DEF Promise!Next
  <2>3. ASSUME NEW c \in Conversations,
               row' = [row EXCEPT ![c] = NoRow], UNCHANGED <<touched, covered>>
        PROVE  Promise!Next
    <3>1. VerdictOf(NoRow.status) = "none"
      BY DEF NoRow
    <3>2. Verdicts' = [Verdicts EXCEPT ![c] = "none"]
      BY <1>2, <2>3, <3>1, VerdictFollowsRow
    <3>3. Promise!Forget(c)
      BY <2>3, <3>2 DEF Promise!Forget
    <3>4. QED
      BY <3>3 DEF Promise!Next
  <2>4. ASSUME NEW c \in Conversations, NEW turns \in SUBSET Turns,
               row[c].status = "pending",
               touched' = touched,
               row' = [row EXCEPT ![c] = Distilled(row[c])],
               covered' = [covered EXCEPT ![c] = turns],
               touched[c] \subseteq turns
        PROVE  Promise!Next
    <3>1. VerdictOf(Distilled(row[c]).status) = "kept"
      <4>1. Distilled(row[c]).status = "done"
        BY DEF Distilled
      <4>2. QED
        BY <4>1
    <3>2. Verdicts' = [Verdicts EXCEPT ![c] = "kept"]
      BY <1>2, <2>4, <3>1, VerdictFollowsRow
    <3>3. Verdicts[c] = "owed"
      BY <2>4
    <3>4. Promise!Keep(c, turns)
      BY <2>4, <3>2, <3>3 DEF Promise!Keep
    <3>5. QED
      BY <3>4 DEF Promise!Next
  <2>5. ASSUME NEW c \in Conversations, row[c].status = "pending",
               touched' = touched, covered' = covered,
               row' = [row EXCEPT ![c] = FailedOnce(row[c])]
        PROVE  [Promise!Next]_(Promise!promiseVars)
    <3>1. FailedOnce(row[c]).status \in {"failed", "pending"}
      BY DEF FailedOnce
    <3>2. Verdicts[c] = "owed"
      BY <2>5
    <3>3. CASE FailedOnce(row[c]).status = "failed"
      <4>1. Verdicts' = [Verdicts EXCEPT ![c] = "abandoned"]
        BY <1>2, <2>5, <3>3, VerdictFollowsRow
      <4>2. Promise!Abandon(c)
        BY <2>5, <3>2, <4>1 DEF Promise!Abandon
      <4>3. QED
        BY <4>2 DEF Promise!Next
    <3>4. CASE FailedOnce(row[c]).status = "pending"
      <4>1. Verdicts' = [Verdicts EXCEPT ![c] = "owed"]
        BY <1>2, <2>5, <3>4, VerdictFollowsRow
      <4>2. Verdicts' = Verdicts
        BY <3>2, <4>1
      <4>3. QED
        BY <2>5, <4>2 DEF Promise!promiseVars
    <3>5. QED
      BY <3>1, <3>3, <3>4
  <2>6. CASE UNCHANGED <<row, touched, covered>>
    BY <2>6 DEF Promise!promiseVars
  <2>7. QED
    BY <1>2, <2>1, <2>2, <2>3, <2>4, <2>5, <2>6, HistorySteps
<1>3. QED
  BY <1>1, <1>2, ClaimInvAlways, PTL DEF Spec, KeepsPromise, Promise!Spec

-----------------------------------------------------------------------------
(* Spend.                                                                   *)

(***************************************************************************)
(* AnswersAreBilled is not inductive: an answer that comes while its       *)
(* distillation has no turn_run row will never be billed, and the failure  *)
(* that lost the row came before it.  Such answers are counted apart.      *)
(***************************************************************************)

\* The distillations whose answer, given or still to come, gets no row.
Doomed == {w \in Workers : phase[w] \in {"distil", "answered"} /\ run[w] = "none"}

SpendInv ==
  /\ Cardinality(InFlight) <= unbilled
  /\ unbilled + Cardinality(Doomed) <= Cardinality(InFlight) + faults

One(truth) == IF truth THEN 1 ELSE 0

\* Two sets of workers that differ in one worker at most.
LEMMA CountOfOthers ==
  ASSUME NEW S \in SUBSET Workers, NEW T \in SUBSET Workers, NEW w \in Workers,
         \A x \in Workers \ {w} : x \in S <=> x \in T
  PROVE  /\ Cardinality(S) \in Nat /\ Cardinality(T) \in Nat
         /\ Cardinality(T) - Cardinality(S) = One(w \in T) - One(w \in S)
<1>1. IsFiniteSet(S) /\ IsFiniteSet(T)
  BY QueueAssumption, FS_Subset DEF QueueAssumption
<1>2. Cardinality(S) \in Nat /\ Cardinality(T) \in Nat
  BY <1>1, FS_CardinalityType
<1>3. S \ {w} = T \ {w}
  OBVIOUS
<1>4. /\ Cardinality(S \ {w}) = Cardinality(S) - One(w \in S)
      /\ Cardinality(T \ {w}) = Cardinality(T) - One(w \in T)
  <2>1. Cardinality(S \ {w}) = IF w \in S THEN Cardinality(S) - 1 ELSE Cardinality(S)
    BY <1>1, FS_RemoveElement
  <2>2. Cardinality(T \ {w}) = IF w \in T THEN Cardinality(T) - 1 ELSE Cardinality(T)
    BY <1>1, FS_RemoveElement
  <2> QED
    BY <1>2, <2>1, <2>2 DEF One
<1> QED
  BY <1>2, <1>3, <1>4 DEF One

\* What a step of worker w does to its own accounts.
LEMMA AccountsOfAStep ==
  ASSUME Typed, NEW w \in Workers, WorkerStep(w) \/ RowError(w) \/ Kill(w)
  PROVE  /\ \A x \in Workers \ {w} : phase'[x] = phase[x] /\ run'[x] = run[x]
         /\ \/ /\ phase[w] \notin {"distil", "answered"} /\ phase'[w] \notin {"distil", "answered"}
               /\ unbilled' = unbilled /\ faults' \in {faults, faults + 1}
            \/ /\ phase[w] = "row" /\ phase'[w] = "distil" /\ unbilled' = unbilled
               /\ (run'[w] = "open" /\ faults' = faults) \/ faults' = faults + 1
            \/ /\ phase[w] = "distil" /\ phase'[w] = "answered" /\ run'[w] = run[w]
               /\ unbilled' = unbilled + 1 /\ faults' = faults
            \/ /\ phase[w] = "distil" /\ phase'[w] = "failing"
               /\ unbilled' = unbilled /\ faults' = faults
            \/ /\ phase[w] = "answered" /\ phase'[w] \in {"write", "finish", "failing"}
               /\ \/ run[w] = "open" /\ unbilled' = unbilled - 1 /\ faults' = faults
                  \/ run[w] = "open" /\ unbilled' = unbilled /\ faults' = faults + 1
                  \/ run[w] = "none" /\ unbilled' = unbilled /\ faults' = faults
            \/ phase'[w] = "idle" /\ unbilled' = unbilled /\ faults' = faults + 1
<1>1. phase \in [Workers -> Phase] /\ run \in [Workers -> {"none", "open"}]
  BY DEF Typed, TypeOK
<1>2. CASE ClaimIdle(w) \/ WriteAccepted(w) \/ WriteRefused(w)
  BY <1>1, <1>2 DEF ClaimIdle, WriteAccepted, WriteRefused
<1>3. CASE FindVanished(w) \/ MarkDone(w) \/ RecordFailure(w) \/ RowError(w)
  BY <1>1, <1>3 DEF FindVanished, MarkDone, RecordFailure, RowError, NextRow, Fault
<1>4. CASE ReadTranscript(w)
  BY <1>1, <1>4 DEF ReadTranscript, Fault
<1>5. CASE ModelAnswers(w) \/ ModelRaises(w)
  BY <1>1, <1>5 DEF ModelAnswers, ModelRaises
<1>6. CASE ParseAnswer(w)
  BY <1>1, <1>6 DEF ParseAnswer, LogCall, Fault
<1>7. CASE Kill(w)
  BY <1>1, <1>7 DEF Kill, Fault
<1> QED
  BY <1>2, <1>3, <1>4, <1>5, <1>6, <1>7 DEF WorkerStep

LEMMA SpendInvNext == Typed /\ SpendInv /\ [Next]_vars => SpendInv'
<1> SUFFICES ASSUME Typed, SpendInv, [Next]_vars PROVE SpendInv'
  OBVIOUS
<1>1. ASSUME NEW w \in Workers, WorkerStep(w) \/ RowError(w) \/ Kill(w)
      PROVE  SpendInv'
  <2> DEFINE f == One(w \in InFlight)
             g == One(w \in InFlight')
             d == One(w \in Doomed)
             e == One(w \in Doomed')
  <2>1. unbilled \in Int /\ faults \in Nat
    BY DEF Typed, TypeOK
  <2>2. /\ Cardinality(InFlight) \in Nat /\ Cardinality(InFlight') \in Nat
        /\ Cardinality(InFlight') - Cardinality(InFlight) = g - f
    <3>1. /\ InFlight \in SUBSET Workers /\ InFlight' \in SUBSET Workers
          /\ \A x \in Workers \ {w} : x \in InFlight <=> x \in InFlight'
      BY <1>1, AccountsOfAStep DEF InFlight
    <3> QED
      BY <3>1, CountOfOthers
  <2>3. /\ Cardinality(Doomed) \in Nat /\ Cardinality(Doomed') \in Nat
        /\ Cardinality(Doomed') - Cardinality(Doomed) = e - d
    <3>1. /\ Doomed \in SUBSET Workers /\ Doomed' \in SUBSET Workers
          /\ \A x \in Workers \ {w} : x \in Doomed <=> x \in Doomed'
      BY <1>1, AccountsOfAStep DEF Doomed
    <3> QED
      BY <3>1, CountOfOthers
  <2>4. /\ f = One(phase[w] = "answered") /\ g = One(phase'[w] = "answered")
        /\ d = One(phase[w] \in {"distil", "answered"} /\ run[w] = "none")
        /\ e = One(phase'[w] \in {"distil", "answered"} /\ run'[w] = "none")
    BY <1>1 DEF InFlight, Doomed
  <2>5. /\ g - f <= unbilled' - unbilled
        /\ (unbilled' - unbilled) + (e - d) <= (g - f) + (faults' - faults)
        /\ unbilled' \in Int /\ faults' \in Nat
    <3> HIDE DEF f, g, d, e
    <3> QED
      BY <1>1, <2>1, <2>4, AccountsOfAStep DEF One
  <2>6. f \in Int /\ g \in Int /\ d \in Int /\ e \in Int
    BY DEF One
  <2>7. /\ Cardinality(InFlight') <= unbilled'
        /\ unbilled' + Cardinality(Doomed') <= Cardinality(InFlight') + faults'
    <3>1. /\ Cardinality(InFlight) <= unbilled
          /\ unbilled + Cardinality(Doomed) <= Cardinality(InFlight) + faults
      BY DEF SpendInv
    <3>2. PICK i \in Int, j \in Int :
            /\ Cardinality(InFlight') = Cardinality(InFlight) + i
            /\ Cardinality(Doomed') = Cardinality(Doomed) + j
            /\ i <= unbilled' - unbilled
            /\ (unbilled' - unbilled) + j <= i + (faults' - faults)
      <4>1. g - f \in Int /\ e - d \in Int
        BY <2>6
      <4> HIDE DEF f, g, d, e
      <4>2. Cardinality(InFlight') = Cardinality(InFlight) + (g - f)
        BY <2>2, <2>6
      <4>3. Cardinality(Doomed') = Cardinality(Doomed) + (e - d)
        BY <2>3, <2>6
      <4> QED
        BY <2>5, <4>1, <4>2, <4>3
    <3> QED
      BY <2>1, <2>2, <2>3, <2>5, <3>1, <3>2
  <2> QED
    BY <2>7 DEF SpendInv
<1>2. ASSUME UNCHANGED <<phase, run, unbilled, faults>>
      PROVE  SpendInv'
  BY <1>2 DEF SpendInv, InFlight, Doomed
<1> QED
  BY <1>1, <1>2 DEF Next, Tick, TurnStep, AskTurn, EndTurn, BeginTouch, CommitTouch, LoseTouch,
                    DeleteConversation, workerVars, vars

\* For any number of workers, kills and failed log writes: every answer the
\* model gave gets one llm_calls row and no second one, but for one row lost
\* per kill or failed write (memory_worker.py, _process_one).
THEOREM SpendIsLogged == Spec => []AnswersAreBilled
<1>1. Init => SpendInv
  <2> SUFFICES ASSUME Init PROVE SpendInv
    OBVIOUS
  <2>1. InFlight = {} /\ Doomed = {}
    BY DEF Init, InFlight, Doomed
  <2> QED
    BY <2>1, FS_EmptySet DEF Init, SpendInv
<1>2. Typed /\ SpendInv => AnswersAreBilled
  <2> SUFFICES ASSUME Typed, SpendInv PROVE AnswersAreBilled
    OBVIOUS
  <2>1. IsFiniteSet(InFlight) /\ IsFiniteSet(Doomed)
    BY QueueAssumption, FS_Subset DEF QueueAssumption, InFlight, Doomed
  <2>2. Cardinality(InFlight) \in Nat /\ Cardinality(Doomed) \in Nat
    BY <2>1, FS_CardinalityType
  <2>3. unbilled \in Int /\ faults \in Nat
    BY DEF Typed, TypeOK
  <2> QED
    BY <2>2, <2>3 DEF SpendInv, AnswersAreBilled
<1>3. Spec => []Typed
  BY TypedInit, TypedNext, PTL DEF Spec
<1>4. QED
  BY <1>1, <1>2, <1>3, SpendInvNext, PTL DEF Spec

-----------------------------------------------------------------------------
(* The documents that the workers of the queue and their owners write.      *)

\* A document is what the retention leaves of all the versions ever written.
Sound(doc, hist) ==
  /\ hist \in Seq(Version) /\ Len(hist) <= MaxVersions
  /\ DOMAIN doc = Retained(1 .. Len(hist), Len(hist))
  /\ \A v \in DOMAIN doc : doc[v] = hist[v]

Documents ==
  /\ DOMAIN memory = Users /\ log \in [Users -> Seq(Version)] /\ page \in [Users -> Seq(Entry)]
  /\ \A u \in Users : Sound(memory[u], log[u])

\* A worker's draft is a version of its own, written after the one it read.
Written(w) ==
  \E v \in DOMAIN log[Owner(w)] :
    v > base[w].version /\ log[Owner(w)][v] = [entries |-> draft[w], by |-> "distiller"]

\* What says the same as an entry that was read is an entry that was read.
Kept(read, new) ==
  \A i \in DOMAIN new :
    (\E k \in DOMAIN read : read[k].says = new[i].says) => \E k \in DOMAIN read : new[i] = read[k]

\* From the read of the document to the write over it.
InHand == {"distil", "answered", "write"}

\* What a worker has read and drafted.
Hands(w) ==
  /\ base[w] \in [version : Nat, entries : Seq(Entry)] /\ draft[w] \in Seq(Entry)
  /\ phase[w] \in InHand => base[w].version <= Len(log[Owner(w)])
  /\ phase[w] = "write" => Kept(base[w].entries, draft[w])
  /\ phase[w] = "finish" /\ draft[w] # <<>> => Written(w)

DocInv ==
  /\ Typed /\ Documents
  /\ base \in [Workers -> [version : Nat, entries : Seq(Entry)]] /\ draft \in [Workers -> Seq(Entry)]
  /\ \A w \in Workers : Hands(w)

-----------------------------------------------------------------------------
(* The queue inside.                                                        *)

LEMMA DocStepIsStep == [DocNext]_allVars => [Next]_vars
<1> SUFFICES ASSUME [DocNext]_allVars PROVE [Next]_vars
  OBVIOUS
<1>1. CASE Tick \/ (\E t \in Turns : TurnStep(t)) \/ (\E c \in Conversations : DeleteConversation(c))
  BY <1>1 DEF Next
<1>2. ASSUME NEW w \in Workers, ClaimIdle(w) \/ ModelAnswers(w) \/ ModelRaises(w)
      PROVE  Next
  BY <1>2 DEF Next, WorkerStep
<1>3. ASSUME NEW w \in Workers,
             ReadBase(w) \/ ParseEntries(w) \/ WriteVersion(w) \/ RefuseVersion(w) \/ LeaveRow(w)
      PROVE  Next
  <2>1. \/ ReadTranscript(w) \/ ParseAnswer(w) \/ WriteAccepted(w) \/ WriteRefused(w)
        \/ FindVanished(w) \/ MarkDone(w) \/ RecordFailure(w) \/ RowError(w) \/ Kill(w)
    BY <1>3 DEF ReadBase, ParseEntries, WriteVersion, RefuseVersion, LeaveRow
  <2> QED
    BY <2>1 DEF Next, WorkerStep
<1>4. ASSUME NEW u \in Users, OpenPage(u) \/ PutMemory(u) \/ \E v \in DOMAIN memory[u] : RestoreVersion(u, v)
      PROVE  UNCHANGED vars
  BY <1>4 DEF OpenPage, PutMemory, RestoreVersion
<1>5. CASE UNCHANGED allVars
  BY <1>5 DEF allVars
<1> QED
  BY <1>1, <1>2, <1>3, <1>4, <1>5 DEF DocNext

\* The queue of Distillation is the queue of MemoryQueue, whatever the documents do: all that is
\* proved of Spec holds of DocSpec.
THEOREM DistillationRunsTheQueue == DocSpec => Spec
<1>1. DocInit => Init
  BY DEF DocInit
<1> QED
  BY <1>1, DocStepIsStep, PTL DEF DocSpec, Spec

-----------------------------------------------------------------------------
(* Documents.                                                               *)

LEMMA RetainedShape ==
  ASSUME NEW n \in Nat
  PROVE  /\ Retained(Retained(1 .. n, n) \union {n + 1}, n + 1) = Retained(1 .. n + 1, n + 1)
         /\ Retained(1 .. n, n) \subseteq 1 .. n
         /\ n # 0 => n \in Retained(1 .. n, n)
         /\ \A v \in 1 .. n : v \in Retained(1 .. n, n) \/ (KeepVersions >= 1 /\ n >= v + KeepVersions)
         /\ KeepVersions # 1 /\ n # 0 => n \in Retained(1 .. n + 1, n + 1)
BY DistillationAssumption DEF Retained, DistillationAssumption

\* The newest version of a document whose versions are the newest ones.
LEMMA LatestOfWindow ==
  ASSUME NEW n \in Nat, NEW doc, DOMAIN doc = Retained(1 .. n, n)
  PROVE  Latest(doc) = n
<1>1. DOMAIN doc \subseteq 1 .. n /\ (n # 0 => n \in DOMAIN doc)
  BY RetainedShape
<1>2. CASE n = 0
  BY <1>1, <1>2 DEF Latest
<1>3. CASE n # 0
  <2>1. n \in DOMAIN doc /\ \A x \in DOMAIN doc : x <= n
    BY <1>1, <1>3
  <2>2. \A v \in DOMAIN doc : (\A x \in DOMAIN doc : x <= v) => v = n
    BY <1>1, <2>1
  <2> QED
    BY <2>1, <2>2 DEF Latest
<1> QED
  BY <1>2, <1>3

\* What write_version makes of a document and of its history.
LEMMA InsertedIsSound ==
  ASSUME NEW doc, NEW hist, Sound(doc, hist), Len(hist) < MaxVersions, NEW content \in Version
  PROVE  Sound(Inserted(doc, Len(hist) + 1, content), Append(hist, content))
<1> DEFINE n == Len(hist)
           new == Inserted(doc, n + 1, content)
           longer == Append(hist, content)
<1>1. hist \in Seq(Version) /\ n \in Nat /\ DOMAIN doc = Retained(1 .. n, n)
  BY LenProperties DEF Sound
<1>2. /\ longer \in Seq(Version) /\ Len(longer) = n + 1
      /\ \A i \in 1 .. n : longer[i] = hist[i]
      /\ longer[n + 1] = content
  BY <1>1, AppendProperties
<1>3. DOMAIN new = Retained(DOMAIN doc \union {n + 1}, n + 1)
  BY DEF Inserted
<1>4. \A v \in DOMAIN new : new[v] = IF v = n + 1 THEN content ELSE doc[v]
  BY DEF Inserted
<1> HIDE DEF n, new, longer
<1>5. DOMAIN new = Retained(1 .. n + 1, n + 1)
  BY <1>1, <1>3, RetainedShape
<1>6. ASSUME NEW v \in DOMAIN new PROVE new[v] = longer[v]
  <2>1. CASE v = n + 1
    BY <1>2, <1>4, <2>1
  <2>2. CASE v # n + 1
    <3>1. v \in DOMAIN doc
      BY <1>3, <2>2 DEF Retained
    <3>2. v \in 1 .. n
      BY <1>1, <3>1, RetainedShape
    <3>3. doc[v] = hist[v]
      BY <3>1 DEF Sound
    <3> QED
      BY <1>2, <1>4, <2>2, <3>2, <3>3
  <2> QED
    BY <2>1, <2>2
<1>7. n + 1 <= MaxVersions
  BY <1>1, DistillationAssumption DEF DistillationAssumption, n
<1> QED
  BY <1>2, <1>5, <1>6, <1>7 DEF Sound, n, new, longer

\* Every history keeps what it has, and grows.
Advance ==
  \A u \in Users :
    Len(log[u]) <= Len(log'[u]) /\ \A v \in DOMAIN log[u] : v \in DOMAIN log'[u] /\ log'[u][v] = log[u][v]

LEMMA LatestIsLast ==
  ASSUME Documents, NEW u \in Users
  PROVE  Latest(memory[u]) = Len(log[u]) /\ Len(log[u]) \in Nat /\ DOMAIN log[u] = 1 .. Len(log[u])
<1>1. log[u] \in Seq(Version)
  BY DEF Documents
<1>2. Len(log[u]) \in Nat /\ DOMAIN log[u] = 1 .. Len(log[u])
  BY <1>1, LenProperties
<1>3. DOMAIN memory[u] = Retained(1 .. Len(log[u]), Len(log[u]))
  BY DEF Documents, Sound
<1> QED
  BY <1>2, <1>3, LatestOfWindow

LEMMA WriteKeepsDocuments ==
  ASSUME Documents, NEW u \in Users, NEW entries \in Seq(Entry),
         NEW by \in {"user", "distiller"}, Write(u, entries, by)
  PROVE  /\ DOMAIN memory' = Users /\ log' \in [Users -> Seq(Version)]
         /\ \A x \in Users : Sound(memory'[x], log'[x])
         /\ Advance
         /\ \A x \in Users \ {u} : memory'[x] = memory[x]
         /\ LET n == Latest(memory[u])
            IN  /\ n = Len(log[u]) /\ n \in Nat
                /\ DOMAIN log'[u] = 1 .. n + 1 /\ log'[u][n + 1] = [entries |-> entries, by |-> by]
                /\ Latest(memory'[u]) = n + 1 /\ n + 1 \in DOMAIN memory'[u]
                /\ DOMAIN memory'[u] = Retained(1 .. n + 1, n + 1)
                /\ memory'[u][n + 1] = [entries |-> entries, by |-> by]
<1> DEFINE n == Len(log[u])
           content == [entries |-> entries, by |-> by]
           new == Inserted(memory[u], n + 1, content)
           longer == Append(log[u], content)
<1>1. /\ Sound(memory[u], log[u]) /\ DOMAIN memory = Users /\ log \in [Users -> Seq(Version)]
      /\ Latest(memory[u]) = n /\ n \in Nat /\ DOMAIN log[u] = 1 .. n
  BY LatestIsLast DEF Documents
<1>2. content \in Version
  BY DEF Version
<1>3. memory' = [memory EXCEPT ![u] = new] /\ log' = [log EXCEPT ![u] = longer] /\ n < MaxVersions
  BY <1>1 DEF Write
<1>4. Sound(new, longer)
  BY <1>1, <1>2, <1>3, InsertedIsSound
<1>5. /\ longer \in Seq(Version) /\ Len(longer) = n + 1 /\ DOMAIN longer = 1 .. n + 1
      /\ \A i \in 1 .. n : longer[i] = log[u][i]
      /\ longer[n + 1] = content
  <2>1. log[u] \in Seq(Version)
    BY <1>1
  <2>2. longer \in Seq(Version) /\ Len(longer) = n + 1
    BY <1>2, <2>1, AppendProperties
  <2>3. DOMAIN longer = 1 .. n + 1
    BY <2>2, LenProperties
  <2> QED
    BY <1>2, <2>1, <2>2, <2>3, AppendProperties
<1> HIDE DEF n, content, new, longer
<1>6. /\ DOMAIN memory' = Users /\ memory'[u] = new /\ \A x \in Users \ {u} : memory'[x] = memory[x]
      /\ log' \in [Users -> Seq(Version)] /\ log'[u] = longer /\ \A x \in Users \ {u} : log'[x] = log[x]
  BY <1>1, <1>3, <1>5
<1>7. \A x \in Users : Sound(memory'[x], log'[x])
  BY <1>4, <1>6 DEF Documents
<1>8. Advance
  <2>1. ASSUME NEW x \in Users, x # u
        PROVE  /\ Len(log[x]) <= Len(log'[x])
               /\ \A v \in DOMAIN log[x] : v \in DOMAIN log'[x] /\ log'[x][v] = log[x][v]
    <3>1. log'[x] = log[x] /\ Len(log[x]) \in Nat
      BY <1>6, <2>1, LatestIsLast
    <3> QED
      BY <3>1
  <2>2. /\ n <= Len(longer)
        /\ \A v \in 1 .. n : v \in DOMAIN longer /\ longer[v] = log[u][v]
    BY <1>1, <1>5
  <2>3. /\ Len(log[u]) <= Len(log'[u])
        /\ \A v \in DOMAIN log[u] : v \in DOMAIN log'[u] /\ log'[u][v] = log[u][v]
    BY <1>1, <1>6, <2>2 DEF n
  <2> QED
    BY <2>1, <2>3 DEF Advance
<1>9. /\ n + 1 \in Nat /\ n + 1 # 0
      /\ DOMAIN new = Retained(1 .. n + 1, n + 1) /\ \A v \in DOMAIN new : new[v] = longer[v]
  BY <1>1, <1>4, <1>5 DEF Sound
<1>10. n + 1 \in DOMAIN new /\ Latest(new) = n + 1
  BY <1>9, RetainedShape, LatestOfWindow
<1>11. new[n + 1] = content
  BY <1>5, <1>9, <1>10
<1> QED
  BY <1>1, <1>5, <1>6, <1>7, <1>8, <1>9, <1>10, <1>11 DEF n, content

\* A worker that stays where it is, or only moves on towards its write, keeps its row.
Steady(w) ==
  /\ phase'[w] \in {"write", "finish"} => phase'[w] = phase[w]
  /\ phase'[w] \in InHand => phase[w] \in InHand
  /\ phase'[w] \in InHand \union {"finish"} => batch'[w] = batch[w]

LEMMA OwnerIsUser ==
  ASSUME Typed, NEW w \in Workers, phase[w] # "idle"
  PROVE  Owner(w) \in Users
<1>1. Current(w).conv \in Conversations
  BY CurrentIsAClaim DEF Claim
<1> QED
  BY <1>1, DistillationAssumption DEF Owner, DistillationAssumption

\* What a worker holds stays true while the documents only advance.
LEMMA HandsStay ==
  ASSUME NEW w \in Workers, Typed, Hands(w), Documents, Advance, log' \in [Users -> Seq(Version)],
         base'[w] = base[w], draft'[w] = draft[w], Steady(w)
  PROVE  Hands(w)'
<1>1. base'[w] \in [version : Nat, entries : Seq(Entry)] /\ draft'[w] \in Seq(Entry)
  BY DEF Hands
<1>2. ASSUME phase'[w] = "write"
      PROVE  Kept(base'[w].entries, draft'[w])
  BY <1>2 DEF Hands, Steady
<1>3. ASSUME phase'[w] \in InHand \union {"finish"}
      PROVE  /\ phase[w] \in InHand \union {"finish"} /\ Owner(w)' = Owner(w) /\ Owner(w) \in Users
             /\ Len(log[Owner(w)]) \in Nat /\ Len(log'[Owner(w)]) \in Nat
  <2>1. phase[w] \in InHand \union {"finish"} /\ batch'[w] = batch[w]
    BY <1>3 DEF Steady, InHand
  <2>2. Owner(w)' = Owner(w) /\ Owner(w) \in Users
    BY <2>1, OwnerIsUser DEF Owner, Current, InHand
  <2> QED
    BY <2>1, <2>2, LatestIsLast, LenProperties
<1>4. ASSUME phase'[w] \in InHand
      PROVE  base'[w].version <= Len(log'[Owner(w)'])
  <2> DEFINE o == Owner(w)
  <2>1. o \in Users /\ Owner(w)' = o /\ Len(log[o]) \in Nat /\ Len(log'[o]) \in Nat
    BY <1>3, <1>4
  <2>2. base[w].version <= Len(log[o]) /\ base[w].version \in Nat
    BY <1>4 DEF Hands, Steady
  <2>3. Len(log[o]) <= Len(log'[o])
    BY <2>1 DEF Advance
  <2> HIDE DEF o
  <2> QED
    BY <2>1, <2>2, <2>3
<1>5. ASSUME phase'[w] = "finish", draft'[w] # <<>> PROVE Written(w)'
  <2>1. phase[w] = "finish" /\ draft[w] # <<>>
    BY <1>5 DEF Steady
  <2>2. Owner(w)' = Owner(w) /\ Owner(w) \in Users
    BY <1>3, <1>5
  <2>3. Written(w)
    BY <2>1 DEF Hands
  <2>4. PICK v \in DOMAIN log[Owner(w)] :
          v > base[w].version /\ log[Owner(w)][v] = [entries |-> draft[w], by |-> "distiller"]
    BY <2>3 DEF Written
  <2>5. v \in DOMAIN log'[Owner(w)] /\ log'[Owner(w)][v] = log[Owner(w)][v]
    BY <2>2 DEF Advance
  <2> QED
    BY <2>2, <2>4, <2>5 DEF Written
<1> QED
  BY <1>1, <1>2, <1>4, <1>5 DEF Hands

LEMMA NothingWritten ==
  ASSUME Documents, memory' = memory, log' = log
  PROVE  /\ Advance /\ DOMAIN memory' = Users /\ log' \in [Users -> Seq(Version)]
         /\ \A u \in Users : Sound(memory'[u], log'[u])
<1>1. \A u \in Users : Len(log[u]) \in Nat
  BY LatestIsLast
<1>2. Advance
  BY <1>1 DEF Advance
<1> QED
  BY <1>2 DEF Documents

\* The steps of the queue that a document does not see.
LEMMA QueueOnlyKeeps ==
  ASSUME DocInv, Typed', UNCHANGED docVars, \A w \in Workers : Steady(w)
  PROVE  DocInv'
<1>1. memory' = memory /\ log' = log /\ base' = base /\ draft' = draft /\ page' = page
  BY DEF docVars
<1>2. Advance /\ log' \in [Users -> Seq(Version)]
  BY <1>1, NothingWritten DEF DocInv
<1>3. ASSUME NEW w \in Workers PROVE Hands(w)'
  BY <1>1, <1>2, HandsStay DEF DocInv
<1>4. Documents'
  BY <1>1 DEF DocInv, Documents
<1> QED
  BY <1>1, <1>3, <1>4 DEF DocInv

\* The step of one worker that does not touch the documents.
LEMMA WorkerKeeps ==
  ASSUME DocInv, Typed', NEW w \in Workers,
         memory' = memory, log' = log, page' = page,
         NEW b, base' = [base EXCEPT ![w] = b], NEW d, draft' = [draft EXCEPT ![w] = d],
         \A v \in Workers \ {w} : Steady(v),
         Hands(w)'
  PROVE  DocInv'
<1>1. Advance /\ log' \in [Users -> Seq(Version)]
  BY NothingWritten DEF DocInv
<1>2. /\ base' \in [Workers -> [version : Nat, entries : Seq(Entry)]] /\ draft' \in [Workers -> Seq(Entry)]
      /\ \A v \in Workers \ {w} : base'[v] = base[v] /\ draft'[v] = draft[v]
  <2>1. base \in [Workers -> [version : Nat, entries : Seq(Entry)]] /\ draft \in [Workers -> Seq(Entry)]
    BY DEF DocInv
  <2>2. base'[w] \in [version : Nat, entries : Seq(Entry)] /\ draft'[w] \in Seq(Entry)
    BY DEF Hands
  <2> QED
    BY <2>1, <2>2
<1>3. ASSUME NEW v \in Workers, v # w PROVE Hands(v)'
  BY <1>1, <1>2, <1>3, HandsStay DEF DocInv
<1>4. Documents'
  BY DEF DocInv, Documents
<1> QED
  BY <1>2, <1>3, <1>4 DEF DocInv

\* What get_current returns.
LEMMA NewestIsRead ==
  ASSUME NEW u \in Users, Documents
  PROVE  /\ Newest(u) \in [version : Nat, entries : Seq(Entry)] /\ Newest(u).version <= Len(log[u])
         /\ Entries(u) \in Seq(Entry)
<1> DEFINE doc == memory[u]
           n == Len(log[u])
<1>1. Latest(doc) = n /\ n \in Nat /\ DOMAIN log[u] = 1 .. n /\ DOMAIN doc = Retained(1 .. n, n)
  BY LatestIsLast DEF Documents, Sound
<1>2. CASE DOMAIN doc = {}
  <2>1. Newest(u) = Nothing
    BY <1>2 DEF Newest
  <2>2. Nothing.version = 0 /\ Nothing.entries = <<>> /\ <<>> \in Seq(Entry)
    BY EmptySeq DEF Nothing
  <2>3. Nothing \in [version : Nat, entries : Seq(Entry)]
    BY EmptySeq DEF Nothing
  <2> QED
    BY <1>1, <2>1, <2>2, <2>3 DEF Entries
<1>3. CASE DOMAIN doc # {}
  <2>1. Newest(u) = [version |-> n, entries |-> doc[n].entries]
    BY <1>1, <1>3 DEF Newest
  <2>2. n # 0
    <3>1. n = 0 => Retained(1 .. n, n) = {}
      BY DEF Retained
    <3> QED
      BY <1>1, <1>3, <3>1
  <2>3. n \in DOMAIN doc
    BY <1>1, <2>2, RetainedShape
  <2>4. doc[n] \in Version
    <3>1. doc[n] = log[u][n] /\ log[u] \in Seq(Version) /\ n \in 1 .. n
      BY <1>1, <2>2, <2>3 DEF Documents, Sound
    <3> QED
      BY <3>1, ElementOfSeq
  <2>5. doc[n].entries \in Seq(Entry)
    BY <2>4 DEF Version
  <2> HIDE DEF n
  <2>6. Newest(u).entries = doc[n].entries /\ Newest(u).version = n
    BY <2>1
  <2> QED
    BY <1>1, <2>1, <2>5, <2>6 DEF Entries, n
<1> QED
  BY <1>2, <1>3

LEMMA StoredIsAVersion ==
  ASSUME Documents, NEW u \in Users, NEW v \in DOMAIN memory[u]
  PROVE  memory[u][v] \in Version /\ v \in 1 .. MaxVersions
<1>1. /\ Len(log[u]) \in Nat /\ Len(log[u]) <= MaxVersions /\ log[u] \in Seq(Version)
      /\ memory[u][v] = log[u][v] /\ v \in Retained(1 .. Len(log[u]), Len(log[u]))
  BY LatestIsLast DEF Documents, Sound
<1>2. v \in 1 .. Len(log[u])
  BY <1>1, RetainedShape
<1>3. memory[u][v] \in Version
  BY <1>1, <1>2, ElementOfSeq
<1> QED
  BY <1>1, <1>2, <1>3, DistillationAssumption DEF DistillationAssumption

-----------------------------------------------------------------------------
(* The steps.                                                               *)

LEMMA ReadBaseKeeps ==
  ASSUME DocInv, Typed', NEW w \in Workers, ReadBase(w)
  PROVE  DocInv'
<1> DEFINE b == IF phase'[w] = "distil" THEN Newest(Owner(w)) ELSE Nothing
<1>1. /\ phase[w] = "row" /\ batch' = batch
      /\ \E p \in {"distil", "skip"} : phase' = [phase EXCEPT ![w] = p]
      /\ memory' = memory /\ log' = log /\ page' = page /\ draft' = draft
      /\ base' = [base EXCEPT ![w] = b]
  BY DEF ReadBase, ReadTranscript
<1>2. phase \in [Workers -> Phase]
  BY DEF DocInv, Typed, TypeOK
<1>3. phase'[w] \in {"distil", "skip"}
  BY <1>1, <1>2
<1>4. \A v \in Workers \ {w} : Steady(v)
  BY <1>1, <1>2 DEF Steady
<1>5. Owner(w) \in Users /\ Owner(w)' = Owner(w)
  BY <1>1, OwnerIsUser DEF DocInv, Owner, Current
<1>6. /\ b \in [version : Nat, entries : Seq(Entry)]
      /\ phase'[w] = "distil" => b.version <= Len(log[Owner(w)])
  <2>1. Nothing \in [version : Nat, entries : Seq(Entry)]
    BY EmptySeq DEF Nothing
  <2> QED
    BY <1>5, <2>1, NewestIsRead DEF DocInv
<1> HIDE DEF b
<1>7. base'[w] = b /\ draft'[w] = draft[w] /\ draft' = [draft EXCEPT ![w] = draft[w]]
  <2>1. base \in [Workers -> [version : Nat, entries : Seq(Entry)]] /\ draft \in [Workers -> Seq(Entry)]
    BY DEF DocInv
  <2> QED
    BY <1>1, <2>1
<1>8. Hands(w)'
  <2>1. draft'[w] \in Seq(Entry) /\ base'[w] \in [version : Nat, entries : Seq(Entry)]
    BY <1>6, <1>7 DEF DocInv
  <2>2. phase'[w] \in InHand => base'[w].version <= Len(log'[Owner(w)'])
    BY <1>1, <1>3, <1>5, <1>6, <1>7 DEF InHand
  <2> QED
    BY <1>3, <2>1, <2>2 DEF Hands
<1> QED
  BY <1>1, <1>4, <1>7, <1>8, WorkerKeeps

\* A set of positions has a last one.
LEMMA MaxIsIn ==
  ASSUME NEW n \in Nat, NEW S \in SUBSET (1 .. n), S # {}
  PROVE  Max(S) \in S
<1> DEFINE T == {n - x : x \in S}
           Less == {p \in Nat \X Nat : p[1] < p[2]}
<1>1. IsWellFoundedOn(Less, Nat)
  BY NatLessThanWellFounded DEF OpToRel
<1>2. \A x \in S : x \in Nat /\ n - x \in Nat
  OBVIOUS
<1>3. T \in SUBSET Nat /\ T # {}
  BY <1>2
<1>4. PICK m \in T : \A y \in T : <<y, m>> \notin Less
  <2> HIDE DEF T, Less
  <2> QED
    BY <1>1, <1>3, WFMin, Zenon
<1>5. \A y \in T : ~(y < m)
  <2>1. m \in Nat
    BY <1>3, <1>4
  <2> QED
    BY <1>3, <1>4, <2>1
<1>6. PICK x \in S : m = n - x
  BY <1>4
<1>7. ASSUME NEW y \in S PROVE x >= y
  <2>1. ~(n - y < n - x)
    BY <1>5, <1>6
  <2> QED
    BY <1>2, <2>1
<1> QED
  BY <1>7 DEF Max

\* What is stamped is entries, and keeps the provenance of what was read.
LEMMA StampedIsKept ==
  ASSUME NEW read \in Seq(Entry), NEW statements \in Seq(Facts \union {Malformed}),
         NEW c \in Conversations
  PROVE  Stamped(statements, read, c) \in Seq(Entry) /\ Kept(read, Stamped(statements, read, c))
<1> DEFINE At(s) == {k \in DOMAIN read : read[k].says = s}
           new == Stamped(statements, read, c)
<1>1. /\ Len(statements) \in Nat /\ DOMAIN statements = 1 .. Len(statements)
      /\ Len(read) \in Nat /\ DOMAIN read = 1 .. Len(read)
  BY LenProperties
<1>2. DOMAIN new = DOMAIN statements
  BY DEF Stamped
<1>3. ASSUME NEW i \in DOMAIN statements
      PROVE  /\ new[i] \in Entry
             /\ (\E k \in DOMAIN read : read[k].says = new[i].says) => \E k \in DOMAIN read : new[i] = read[k]
  <2> DEFINE s == statements[i]
  <2>1. s \in Facts \union {Malformed}
    BY <1>1, ElementOfSeq
  <2>2. new[i] = IF At(s) = {} THEN [says |-> s, from |-> c] ELSE read[Max(At(s))]
    BY DEF Stamped
  <2>3. CASE At(s) = {}
    <3>1. new[i] = [says |-> s, from |-> c] /\ new[i].says = s
      BY <2>2, <2>3
    <3>2. ~\E k \in DOMAIN read : read[k].says = s
      BY <2>3
    <3> QED
      BY <2>1, <3>1, <3>2 DEF Entry
  <2>4. CASE At(s) # {}
    <3>1. At(s) \in SUBSET (1 .. Len(read))
      BY <1>1
    <3>2. Max(At(s)) \in At(s)
      BY <1>1, <2>4, <3>1, MaxIsIn
    <3>3. Max(At(s)) \in DOMAIN read
      BY <3>2
    <3>4. new[i] = read[Max(At(s))]
      BY <2>2, <2>4
    <3>5. new[i] \in Entry
      BY <1>1, <3>3, <3>4, ElementOfSeq
    <3> QED
      BY <3>3, <3>4, <3>5
  <2> QED
    BY <2>3, <2>4
<1>4. new \in Seq(Entry)
  <2>1. new = [i \in 1 .. Len(statements) |-> new[i]]
    BY <1>1 DEF Stamped
  <2> HIDE DEF new
  <2>2. \A i \in 1 .. Len(statements) : new[i] \in Entry
    BY <1>1, <1>3
  <2> QED
    BY <1>1, <2>1, <2>2, IsASeq
<1> QED
  BY <1>2, <1>3, <1>4 DEF Kept

LEMMA ParseKeeps ==
  ASSUME DocInv, Typed', NEW w \in Workers, ParseEntries(w)
  PROVE  DocInv'
<1>1. /\ phase[w] = "answered" /\ batch' = batch
      /\ \E p \in {"write", "finish", "failing"} : phase' = [phase EXCEPT ![w] = p]
      /\ memory' = memory /\ log' = log /\ page' = page /\ base' = base
  BY DEF ParseEntries, ParseAnswer
<1>2. /\ phase \in [Workers -> Phase]
      /\ base \in [Workers -> [version : Nat, entries : Seq(Entry)]] /\ draft \in [Workers -> Seq(Entry)]
  BY DEF DocInv, Typed, TypeOK
<1>3. \A v \in Workers \ {w} : Steady(v)
  BY <1>1, <1>2 DEF Steady
<1>4. base'[w] = base[w] /\ base' = [base EXCEPT ![w] = base[w]]
  BY <1>1, <1>2
<1>5. /\ base[w] \in [version : Nat, entries : Seq(Entry)] /\ base[w].entries \in Seq(Entry)
      /\ base'[w].version <= Len(log'[Owner(w)'])
  BY <1>1, <1>2, <1>4 DEF DocInv, Hands, InHand, Owner, Current
<1>6. CASE phase'[w] = "write"
  <2> DEFINE read == base[w].entries
             said == Statements(read)
  <2>1. PICK more \in BoundedSeq(Facts \union {Malformed}, 1) :
          draft' = [draft EXCEPT ![w] = Stamped(said \o more, read, Current(w).conv)]
    BY <1>6 DEF ParseEntries
  <2> DEFINE d == Stamped(said \o more, read, Current(w).conv)
  <2>2. Current(w).conv \in Conversations
    BY <1>1, CurrentIsAClaim DEF DocInv, Claim
  <2>3. said \in Seq(Facts \union {Malformed})
    <3>1. Len(read) \in Nat /\ DOMAIN read = 1 .. Len(read)
      BY <1>5, LenProperties
    <3>2. \A i \in 1 .. Len(read) : read[i].says \in Facts \union {Malformed}
      <4>1. \A i \in 1 .. Len(read) : read[i] \in Entry
        BY <1>5, ElementOfSeq
      <4> QED
        BY <4>1 DEF Entry
    <3>3. said = [i \in 1 .. Len(read) |-> read[i].says]
      BY <3>1 DEF Statements
    <3> QED
      BY <3>1, <3>2, <3>3, IsASeq
  <2>4. more \in Seq(Facts \union {Malformed})
    <3>1. PICK m \in 0 .. 1 : more \in [1 .. m -> Facts \union {Malformed}]
      BY DEF BoundedSeq, SeqOf
    <3> QED
      BY <3>1, SeqDef
  <2>5. said \o more \in Seq(Facts \union {Malformed})
    BY <2>3, <2>4, ConcatProperties
  <2>6. d \in Seq(Entry) /\ Kept(read, d)
    BY <1>5, <2>2, <2>5, StampedIsKept
  <2>7. draft' = [draft EXCEPT ![w] = d] /\ draft'[w] = d
    BY <1>2, <2>1
  <2> HIDE DEF d
  <2>8. Hands(w)'
    BY <1>4, <1>5, <1>6, <2>6, <2>7 DEF Hands
  <2> QED
    BY <1>1, <1>3, <1>4, <2>7, <2>8, WorkerKeeps
<1>7. CASE phase'[w] # "write"
  <2>1. draft' = [draft EXCEPT ![w] = <<>>] /\ draft'[w] = <<>>
    BY <1>2, <1>7 DEF ParseEntries
  <2>2. Hands(w)'
    BY <1>4, <1>5, <1>7, <2>1, EmptySeq DEF Hands
  <2> QED
    BY <1>1, <1>3, <1>4, <2>1, <2>2, WorkerKeeps
<1> QED
  BY <1>6, <1>7

LEMMA LeaveKeeps ==
  ASSUME DocInv, Typed', NEW w \in Workers, LeaveRow(w)
  PROVE  DocInv'
<1>1. /\ base' = [base EXCEPT ![w] = Nothing] /\ draft' = [draft EXCEPT ![w] = <<>>]
      /\ memory' = memory /\ log' = log /\ page' = page
  BY DEF LeaveRow
<1>2. /\ \E p \in {"idle", "row"} : phase' = [phase EXCEPT ![w] = p]
      /\ \E b : batch' = [batch EXCEPT ![w] = b]
  BY DEF LeaveRow, FindVanished, MarkDone, RecordFailure, RowError, Kill, NextRow
<1>3. /\ phase \in [Workers -> Phase] /\ batch \in [Workers -> Seq(Claim)]
      /\ base \in [Workers -> [version : Nat, entries : Seq(Entry)]] /\ draft \in [Workers -> Seq(Entry)]
  BY DEF DocInv, Typed, TypeOK
<1>4. \A v \in Workers \ {w} : Steady(v)
  BY <1>2, <1>3 DEF Steady
<1>5. base'[w] = Nothing /\ draft'[w] = <<>>
  BY <1>1, <1>3
<1>6. phase'[w] \notin InHand \union {"finish"}
  BY <1>2, <1>3 DEF InHand
<1>7. Hands(w)'
  <2>1. Nothing \in [version : Nat, entries : Seq(Entry)] /\ <<>> \in Seq(Entry)
    BY EmptySeq DEF Nothing
  <2> QED
    BY <1>5, <1>6, <2>1 DEF Hands, InHand
<1> QED
  BY <1>1, <1>4, <1>7, WorkerKeeps

\* A version that is written is the worker's draft, and nothing else moves.
LEMMA WriteVersionSteps ==
  ASSUME DocInv, NEW w \in Workers, WriteVersion(w)
  PROVE  LET o == Owner(w)
             n == Latest(memory[o])
             content == [entries |-> draft[w], by |-> "distiller"]
         IN  /\ o \in Users /\ phase[w] = "write" /\ phase' = [phase EXCEPT ![w] = "finish"] /\ batch' = batch
             /\ base' = base /\ draft' = draft /\ page' = page
             /\ DOMAIN memory' = Users /\ log' \in [Users -> Seq(Version)]
             /\ \A x \in Users : Sound(memory'[x], log'[x])
             /\ Advance
             /\ n = Len(log[o]) /\ n \in Nat
             /\ DOMAIN log'[o] = 1 .. n + 1 /\ log'[o][n + 1] = content
             /\ Latest(memory'[o]) = n + 1 /\ memory'[o][n + 1] = content
<1>1. /\ phase[w] = "write" /\ phase' = [phase EXCEPT ![w] = "finish"] /\ batch' = batch
      /\ base' = base /\ draft' = draft /\ page' = page
      /\ Write(Owner(w), draft[w], "distiller")
  BY DEF WriteVersion, WriteAccepted
<1>2. Owner(w) \in Users
  BY <1>1, OwnerIsUser DEF DocInv
<1>3. draft[w] \in Seq(Entry) /\ Documents
  BY DEF DocInv, Hands
<1> QED
  BY <1>1, <1>2, <1>3, WriteKeepsDocuments

LEMMA WriteVersionKeeps ==
  ASSUME DocInv, Typed', NEW w \in Workers, WriteVersion(w)
  PROVE  DocInv'
<1> DEFINE o == Owner(w)
           n == Latest(memory[o])
<1>1. /\ o \in Users /\ phase[w] = "write" /\ phase' = [phase EXCEPT ![w] = "finish"] /\ batch' = batch
      /\ base' = base /\ draft' = draft /\ page' = page
      /\ DOMAIN memory' = Users /\ log' \in [Users -> Seq(Version)]
      /\ \A x \in Users : Sound(memory'[x], log'[x])
      /\ Advance
      /\ n = Len(log[o]) /\ n \in Nat
      /\ DOMAIN log'[o] = 1 .. n + 1 /\ log'[o][n + 1] = [entries |-> draft[w], by |-> "distiller"]
  BY WriteVersionSteps
<1>2. phase \in [Workers -> Phase]
  BY DEF DocInv, Typed, TypeOK
<1>3. phase'[w] = "finish" /\ Owner(w)' = o
  BY <1>1, <1>2 DEF Owner, Current
<1>4. Hands(w)'
  <2>1. base[w].version <= n /\ base[w].version \in Nat
    BY <1>1 DEF DocInv, Hands, InHand
  <2>2. n + 1 > base[w].version /\ n + 1 \in DOMAIN log'[o]
    <3> HIDE DEF n
    <3> QED
      BY <1>1, <2>1
  <2>3. Written(w)'
    BY <1>1, <1>3, <2>2 DEF Written
  <2>4. base'[w] \in [version : Nat, entries : Seq(Entry)] /\ draft'[w] \in Seq(Entry)
    BY <1>1 DEF DocInv
  <2> QED
    BY <1>3, <2>3, <2>4 DEF Hands, InHand
<1>5. ASSUME NEW v \in Workers, v # w PROVE Hands(v)'
  <2>1. Steady(v)
    BY <1>1, <1>2, <1>5 DEF Steady
  <2> QED
    BY <1>1, <2>1, HandsStay DEF DocInv
<1>6. Documents'
  BY <1>1 DEF DocInv, Documents
<1> QED
  BY <1>1, <1>4, <1>5, <1>6 DEF DocInv

\* The owner's page: the queue stands still.
LEMMA PageKeeps ==
  ASSUME DocInv, UNCHANGED <<vars, base, draft>>, DOMAIN memory' = Users, Advance,
         log' \in [Users -> Seq(Version)], \A u \in Users : Sound(memory'[u], log'[u]),
         NEW u \in Users, NEW shown \in Seq(Entry), page' = [page EXCEPT ![u] = shown]
  PROVE  DocInv'
<1>1. /\ phase' = phase /\ batch' = batch /\ base' = base /\ draft' = draft
  BY DEF vars
<1>2. Typed'
  BY DEF DocInv, Typed, TypeOK, BusyHasBatch, vars
<1>3. ASSUME NEW w \in Workers PROVE Hands(w)'
  <2>1. Steady(w)
    BY <1>1 DEF Steady
  <2> QED
    BY <1>1, <2>1, HandsStay DEF DocInv
<1>4. Documents'
  <2>1. page' \in [Users -> Seq(Entry)]
    BY DEF DocInv, Documents
  <2> QED
    BY <2>1 DEF Documents
<1> QED
  BY <1>1, <1>2, <1>3, <1>4 DEF DocInv

\* What a step of the owner writes.
LEMMA PageWrites ==
  ASSUME DocInv, NEW u \in Users,
         PutMemory(u) \/ \E v \in DOMAIN memory[u] : RestoreVersion(u, v)
  PROVE  \E entries \in Seq(Entry) :
           /\ Write(u, entries, "user")
           /\ page' = [page EXCEPT ![u] = entries] /\ UNCHANGED <<vars, base, draft>>
<1>1. CASE PutMemory(u)
  <2> DEFINE own == {[says |-> s, from |-> "user"] : s \in Facts}
             all == ToSet(page[u]) \union own
  <2>1. PICK edited \in BoundedSeq(all, MaxEntries) :
          Write(u, edited, "user") /\ page' = [page EXCEPT ![u] = edited]
    BY <1>1 DEF PutMemory
  <2>2. all \subseteq Entry
    <3>1. ToSet(page[u]) \subseteq Entry
      <4>1. page[u] \in Seq(Entry)
        BY DEF DocInv, Documents
      <4>2. DOMAIN page[u] = 1 .. Len(page[u])
        BY <4>1, LenProperties
      <4> QED
        BY <4>1, <4>2, ElementOfSeq DEF ToSet
    <3>2. own \subseteq Entry
      BY DEF Entry
    <3> QED
      BY <3>1, <3>2
  <2> HIDE DEF all
  <2>3. edited \in Seq(Entry)
    <3>1. PICK m \in 0 .. MaxEntries : edited \in [1 .. m -> all]
      BY DEF BoundedSeq, SeqOf
    <3>2. m \in Nat /\ edited \in [1 .. m -> Entry]
      BY <2>2, <3>1
    <3> QED
      BY <3>2, SeqDef
  <2>4. UNCHANGED <<vars, base, draft>>
    BY <1>1 DEF PutMemory
  <2> QED
    BY <2>1, <2>3, <2>4
<1>2. ASSUME NEW v \in DOMAIN memory[u], RestoreVersion(u, v)
      PROVE  \E entries \in Seq(Entry) :
               /\ Write(u, entries, "user")
               /\ page' = [page EXCEPT ![u] = entries] /\ UNCHANGED <<vars, base, draft>>
  <2>1. memory[u][v] \in Version
    BY StoredIsAVersion DEF DocInv
  <2>2. memory[u][v].entries \in Seq(Entry)
    BY <2>1 DEF Version
  <2> QED
    BY <1>2, <2>2 DEF RestoreVersion
<1> QED
  BY <1>1, <1>2

-----------------------------------------------------------------------------
(* The invariant, and what follows from it.                                 *)

LEMMA DocInvInit == DocInit => DocInv
<1> SUFFICES ASSUME DocInit PROVE DocInv
  OBVIOUS
<1>1. Typed
  BY TypedInit DEF DocInit
<1>2. /\ memory = [u \in Users |-> NoVersions] /\ log = [u \in Users |-> <<>>]
      /\ page = [u \in Users |-> <<>>]
  BY DEF DocInit
<1>3. base = [w \in Workers |-> Nothing] /\ draft = [w \in Workers |-> <<>>]
  BY DEF DocInit
<1>4. phase = [w \in Workers |-> "idle"]
  BY DEF DocInit, Init
<1>5. Sound(NoVersions, <<>>)
  <2>1. DOMAIN NoVersions = {} /\ <<>> \in Seq(Version) /\ Len(<<>>) = 0
    BY EmptySeq DEF NoVersions
  <2>2. Retained(1 .. 0, 0) = {}
    BY DEF Retained
  <2> QED
    BY <2>1, <2>2, DistillationAssumption DEF Sound, DistillationAssumption
<1>6. Documents
  BY <1>2, <1>5, EmptySeq DEF Documents
<1>7. Nothing \in [version : Nat, entries : Seq(Entry)] /\ <<>> \in Seq(Entry)
  BY EmptySeq DEF Nothing
<1>8. ASSUME NEW w \in Workers PROVE Hands(w)
  BY <1>3, <1>4, <1>7 DEF Hands, InHand
<1> QED
  BY <1>1, <1>3, <1>6, <1>7, <1>8 DEF DocInv

\* The steps the queue takes by itself.
LEMMA QueueSteps ==
  ASSUME DocInv, Typed', UNCHANGED docVars,
         \/ Tick
         \/ \E t \in Turns : TurnStep(t)
         \/ \E c \in Conversations : DeleteConversation(c)
         \/ \E w \in Workers : ClaimIdle(w) \/ ModelAnswers(w) \/ ModelRaises(w) \/ WriteRefused(w)
  PROVE  DocInv'
<1>1. phase \in [Workers -> Phase]
  BY DEF DocInv, Typed, TypeOK
<1>2. CASE Tick \/ (\E t \in Turns : TurnStep(t)) \/ (\E c \in Conversations : DeleteConversation(c))
  <2>1. phase' = phase /\ batch' = batch
    BY <1>2 DEF Tick, TurnStep, AskTurn, EndTurn, BeginTouch, CommitTouch, LoseTouch, DeleteConversation,
                workerVars
  <2>2. \A w \in Workers : Steady(w)
    BY <2>1 DEF Steady
  <2> QED
    BY <2>2, QueueOnlyKeeps
<1>3. ASSUME NEW w \in Workers, ClaimIdle(w) PROVE DocInv'
  <2>1. phase' = [phase EXCEPT ![w] = "row"] /\ \E b : batch' = [batch EXCEPT ![w] = b]
    BY <1>3 DEF ClaimIdle
  <2>2. DOMAIN batch = Workers
    BY DEF DocInv, Typed, TypeOK
  <2>3. \A v \in Workers : Steady(v)
    BY <1>1, <2>1, <2>2 DEF Steady, InHand
  <2> QED
    BY <2>3, QueueOnlyKeeps
<1>4. ASSUME NEW w \in Workers, ModelAnswers(w) \/ ModelRaises(w) \/ WriteRefused(w)
      PROVE  DocInv'
  <2>1. /\ phase[w] \in InHand /\ batch' = batch
        /\ \E p \in {"answered", "failing"} : phase' = [phase EXCEPT ![w] = p]
    BY <1>4 DEF ModelAnswers, ModelRaises, WriteRefused, InHand
  <2>2. \A v \in Workers : Steady(v)
    BY <1>1, <2>1 DEF Steady, InHand
  <2> QED
    BY <2>2, QueueOnlyKeeps
<1> QED
  BY <1>2, <1>3, <1>4

\* The owner looks, edits and restores.
LEMMA OwnerSteps ==
  ASSUME DocInv, NEW u \in Users,
         OpenPage(u) \/ PutMemory(u) \/ \E v \in DOMAIN memory[u] : RestoreVersion(u, v)
  PROVE  DocInv'
<1>1. CASE OpenPage(u)
  <2>1. /\ UNCHANGED <<vars, base, draft>> /\ memory' = memory /\ log' = log
        /\ page' = [page EXCEPT ![u] = Entries(u)]
    BY <1>1 DEF OpenPage
  <2>2. Entries(u) \in Seq(Entry)
    BY NewestIsRead DEF DocInv
  <2>3. /\ Advance /\ DOMAIN memory' = Users /\ log' \in [Users -> Seq(Version)]
        /\ \A x \in Users : Sound(memory'[x], log'[x])
    BY <2>1, NothingWritten DEF DocInv
  <2> QED
    BY <2>1, <2>2, <2>3, PageKeeps
<1>2. CASE PutMemory(u) \/ \E v \in DOMAIN memory[u] : RestoreVersion(u, v)
  <2>1. PICK entries \in Seq(Entry) :
          /\ Write(u, entries, "user")
          /\ page' = [page EXCEPT ![u] = entries] /\ UNCHANGED <<vars, base, draft>>
    BY <1>2, PageWrites
  <2>2. /\ Advance /\ DOMAIN memory' = Users /\ log' \in [Users -> Seq(Version)]
        /\ \A x \in Users : Sound(memory'[x], log'[x])
    BY <2>1, WriteKeepsDocuments DEF DocInv
  <2> QED
    BY <2>1, <2>2, PageKeeps
<1> QED
  BY <1>1, <1>2

LEMMA DocInvNext == DocInv /\ [DocNext]_allVars => DocInv'
<1> SUFFICES ASSUME DocInv, [DocNext]_allVars PROVE DocInv'
  OBVIOUS
<1>1. Typed'
  BY DocStepIsStep, TypedNext DEF DocInv
<1>2. CASE UNCHANGED docVars /\ (\/ Tick
                                 \/ \E t \in Turns : TurnStep(t)
                                 \/ \E c \in Conversations : DeleteConversation(c)
                                 \/ \E w \in Workers : ClaimIdle(w) \/ ModelAnswers(w) \/ ModelRaises(w))
  BY <1>1, <1>2, QueueSteps
<1>3. ASSUME NEW w \in Workers,
             ReadBase(w) \/ ParseEntries(w) \/ WriteVersion(w) \/ RefuseVersion(w) \/ LeaveRow(w)
      PROVE  DocInv'
  <2>1. CASE ReadBase(w)
    BY <1>1, <2>1, ReadBaseKeeps
  <2>2. CASE ParseEntries(w)
    BY <1>1, <2>2, ParseKeeps
  <2>3. CASE WriteVersion(w)
    BY <1>1, <2>3, WriteVersionKeeps
  <2>4. CASE RefuseVersion(w)
    BY <1>1, <2>4, QueueSteps DEF RefuseVersion
  <2>5. CASE LeaveRow(w)
    BY <1>1, <2>5, LeaveKeeps
  <2> QED
    BY <1>3, <2>1, <2>2, <2>3, <2>4, <2>5
<1>4. ASSUME NEW u \in Users, OpenPage(u) \/ PutMemory(u) \/ \E v \in DOMAIN memory[u] : RestoreVersion(u, v)
      PROVE  DocInv'
  BY <1>4, OwnerSteps
<1>5. CASE UNCHANGED allVars
  <2>1. UNCHANGED docVars /\ phase' = phase /\ batch' = batch
    BY <1>5 DEF allVars, vars
  <2>2. \A w \in Workers : Steady(w)
    BY <2>1 DEF Steady
  <2> QED
    BY <1>1, <2>1, <2>2, QueueOnlyKeeps
<1> QED
  BY <1>2, <1>3, <1>4, <1>5 DEF DocNext

LEMMA DocInvAlways == DocSpec => []DocInv
BY DocInvInit, DocInvNext, PTL DEF DocSpec

\* Every reachable state is well typed: what is read, drafted, shown and stored is entries, and the
\* versions of a document are numbered from 1.
THEOREM DocumentsAreTyped == DocSpec => []DocTypeOK
<1>1. ASSUME DocInv PROVE DocTypeOK
  BY <1>1, StoredIsAVersion DEF DocInv, Documents, DocTypeOK
<1> QED
  BY <1>1, DocInvAlways, PTL

\* Nothing learned is dropped on the way to "done" (memory_worker.py, _process_one): the draft is a
\* version of its own, written after the one that was read; it is in the owner's document as written,
\* or as many later versions as are kept have pushed it out.
THEOREM LearnedIsWritten == DocSpec => []WrittenBeforeDone
<1>1. ASSUME DocInv PROVE WrittenBeforeDone
  <2> SUFFICES ASSUME NEW w \in Workers, phase[w] = "finish", draft[w] # <<>>
               PROVE  LET u == Owner(w) IN
                      \E v \in DOMAIN log[u] :
                        /\ v > base[w].version
                        /\ log[u][v] = [entries |-> draft[w], by |-> "distiller"]
                        /\ \/ v \in DOMAIN memory[u] /\ memory[u][v] = log[u][v]
                           \/ KeepVersions >= 1 /\ Len(log[u]) >= v + KeepVersions
    BY DEF WrittenBeforeDone
  <2> DEFINE u == Owner(w)
             n == Len(log[u])
  <2>1. PICK v \in DOMAIN log[u] :
          v > base[w].version /\ log[u][v] = [entries |-> draft[w], by |-> "distiller"]
    BY <1>1 DEF DocInv, Hands, Written
  <2>2. u \in Users
    BY <1>1, OwnerIsUser DEF DocInv
  <2>3. n \in Nat /\ DOMAIN log[u] = 1 .. n
    BY <1>1, <2>2, LatestIsLast DEF DocInv
  <2>4. DOMAIN memory[u] = Retained(1 .. n, n) /\ \A x \in DOMAIN memory[u] : memory[u][x] = log[u][x]
    BY <1>1, <2>2 DEF DocInv, Documents, Sound
  <2>5. v \in Retained(1 .. n, n) \/ (KeepVersions >= 1 /\ n >= v + KeepVersions)
    BY <2>3, RetainedShape
  <2> QED
    BY <2>1, <2>4, <2>5
<1> QED
  BY <1>1, DocInvAlways, PTL

-----------------------------------------------------------------------------
(* What a write may never do.                                               *)

\* A step that changes a document writes one version over it.
LEMMA OneVersionAtATime ==
  ASSUME DocInv, [DocNext]_allVars, NEW u \in Users, memory'[u] # memory[u]
  PROVE  LET n == Latest(memory[u])
         IN  n \in Nat /\ DOMAIN memory'[u] = Retained(1 .. n + 1, n + 1)
<1>1. \E x \in Users : \E entries \in Seq(Entry), by \in {"user", "distiller"} : Write(x, entries, by)
  <2>1. ASSUME NEW w \in Workers, WriteVersion(w)
        PROVE  \E x \in Users : \E entries \in Seq(Entry), by \in {"user", "distiller"} : Write(x, entries, by)
    <3>1. Write(Owner(w), draft[w], "distiller") /\ phase[w] = "write"
      BY <2>1 DEF WriteVersion, WriteAccepted
    <3>2. Owner(w) \in Users
      BY <3>1, OwnerIsUser DEF DocInv
    <3>3. draft[w] \in Seq(Entry)
      BY DEF DocInv, Hands
    <3> QED
      BY <3>1, <3>2, <3>3
  <2>2. ASSUME NEW x \in Users, PutMemory(x) \/ \E v \in DOMAIN memory[x] : RestoreVersion(x, v)
        PROVE  \E entries \in Seq(Entry) : Write(x, entries, "user")
    BY <2>2, PageWrites
  <2>3. memory' # memory
    OBVIOUS
  <2>4. \/ \E w \in Workers : WriteVersion(w)
        \/ \E x \in Users : PutMemory(x) \/ \E v \in DOMAIN memory[x] : RestoreVersion(x, v)
    BY <2>3 DEF DocNext, allVars, docVars, ReadBase, ParseEntries, RefuseVersion, LeaveRow, OpenPage
  <2> QED
    BY <2>1, <2>2, <2>4
<1>2. PICK x \in Users : \E entries \in Seq(Entry), by \in {"user", "distiller"} : Write(x, entries, by)
  BY <1>1
<1>3. PICK entries \in Seq(Entry), by \in {"user", "distiller"} : Write(x, entries, by)
  BY <1>2
<1>4. /\ \A y \in Users \ {x} : memory'[y] = memory[y]
      /\ LET n == Latest(memory[x])
         IN  n \in Nat /\ DOMAIN memory'[x] = Retained(1 .. n + 1, n + 1)
  BY <1>3, WriteKeepsDocuments DEF DocInv
<1> QED
  BY <1>4

\* A write can be undone with one restore, whenever more than one version is kept: the version that
\* is written over is in the table right after it (memory.py, write_version's prune).  With
\* KeepVersions = 1 the prune takes it along, so the hypothesis is needed.
THEOREM OneRestoreUndoes ==
  ASSUME KeepVersions # 1
  PROVE  DocSpec => OneClickRestore
<1>1. ASSUME DocInv, [DocNext]_allVars
      PROVE  [\A u \in Users : memory'[u] # memory[u] /\ Latest(memory[u]) > 0
                                 => Latest(memory[u]) \in DOMAIN memory'[u]]_allVars
  <2>1. ASSUME NEW u \in Users, memory'[u] # memory[u], Latest(memory[u]) > 0
        PROVE  Latest(memory[u]) \in DOMAIN memory'[u]
    <3> DEFINE n == Latest(memory[u])
    <3>1. n \in Nat /\ DOMAIN memory'[u] = Retained(1 .. n + 1, n + 1)
      BY <1>1, <2>1, OneVersionAtATime
    <3>2. n # 0
      BY <2>1, <3>1
    <3> HIDE DEF n
    <3>3. n \in DOMAIN memory'[u]
      BY <3>1, <3>2, RetainedShape
    <3> QED
      BY <3>3 DEF n
  <2> QED
    BY <2>1
<1> QED
  BY <1>1, DocInvAlways, PTL DEF DocSpec, OneClickRestore

\* Only the write itself takes a worker from "write" to "finish".
LEMMA FinishIsAWrite ==
  ASSUME DocInv, [DocNext]_allVars, NEW w \in Workers, phase[w] = "write", phase'[w] = "finish"
  PROVE  WriteVersion(w)
<1>1. phase \in [Workers -> Phase]
  BY DEF DocInv, Typed, TypeOK
<1>2. phase' # phase
  OBVIOUS
<1>3. PICK v \in Workers :
        \/ ClaimIdle(v) \/ ModelAnswers(v) \/ ModelRaises(v) \/ ReadBase(v) \/ ParseEntries(v)
        \/ WriteVersion(v) \/ RefuseVersion(v) \/ LeaveRow(v)
  <2>1. ~(Tick \/ (\E t \in Turns : TurnStep(t)) \/ (\E c \in Conversations : DeleteConversation(c)))
    BY <1>2 DEF Tick, TurnStep, AskTurn, EndTurn, BeginTouch, CommitTouch, LoseTouch, DeleteConversation,
                workerVars
  <2>2. ~\E u \in Users : OpenPage(u) \/ PutMemory(u) \/ \E v \in DOMAIN memory[u] : RestoreVersion(u, v)
    BY <1>2 DEF OpenPage, PutMemory, RestoreVersion, vars
  <2>3. ~UNCHANGED allVars
    BY <1>2 DEF allVars, vars
  <2> QED
    BY <2>1, <2>2, <2>3 DEF DocNext
<1>4. CASE ClaimIdle(v) \/ ModelAnswers(v) \/ ModelRaises(v) \/ RefuseVersion(v)
  <2>1. \E p \in {"row", "answered", "failing"} : phase' = [phase EXCEPT ![v] = p]
    BY <1>4 DEF ClaimIdle, ModelAnswers, ModelRaises, RefuseVersion, WriteRefused
  <2> QED
    BY <1>1, <2>1
<1>5. CASE ReadBase(v) \/ ParseEntries(v)
  <2>1. phase[v] \in {"row", "answered"} /\ \E p : phase' = [phase EXCEPT ![v] = p]
    BY <1>5 DEF ReadBase, ReadTranscript, ParseEntries, ParseAnswer
  <2> QED
    BY <1>1, <2>1
<1>6. CASE LeaveRow(v)
  <2>1. \E p \in {"idle", "row"} : phase' = [phase EXCEPT ![v] = p]
    BY <1>6 DEF LeaveRow, FindVanished, MarkDone, RecordFailure, RowError, Kill, NextRow
  <2> QED
    BY <1>1, <2>1
<1>7. CASE WriteVersion(v)
  <2>1. \E p : phase' = [phase EXCEPT ![v] = p]
    BY <1>7 DEF WriteVersion, WriteAccepted
  <2>2. v = w
    BY <1>1, <2>1
  <2> QED
    BY <1>7, <2>2
<1> QED
  BY <1>3, <1>4, <1>5, <1>6, <1>7

\* The audit trail survives: what the worker writes of a statement it had read is one of the entries it
\* had read, so that nothing is attributed anew (memory_worker.py, _stamp_entries), whoever edited the
\* document meanwhile and however often a statement is in it.
THEOREM SourcesSurvive == DocSpec => ProvenanceSurvives
<1>1. ASSUME DocInv, [DocNext]_allVars
      PROVE  [\A w \in Workers :
                phase[w] = "write" /\ phase'[w] = "finish"
                  => LET read == ToSet(base[w].entries) IN
                     \A new \in ToSet(New(Owner(w)).entries) :
                       (\E old \in read : old.says = new.says) => new \in read]_allVars
  <2>1. ASSUME NEW w \in Workers, phase[w] = "write", phase'[w] = "finish",
               NEW new \in ToSet(New(Owner(w)).entries),
               \E old \in ToSet(base[w].entries) : old.says = new.says
        PROVE  new \in ToSet(base[w].entries)
    <3>1. WriteVersion(w)
      BY <1>1, <2>1, FinishIsAWrite
    <3>2. New(Owner(w)).entries = draft[w]
      <4>1. New(Owner(w)) = [entries |-> draft[w], by |-> "distiller"]
        BY <1>1, <3>1, WriteVersionSteps DEF New
      <4> QED
        BY <4>1
    <3>3. Kept(base[w].entries, draft[w])
      BY <1>1, <2>1 DEF DocInv, Hands
    <3>4. PICK i \in DOMAIN draft[w] : new = draft[w][i]
      BY <2>1, <3>2 DEF ToSet
    <3>5. \E k \in DOMAIN base[w].entries : base[w].entries[k].says = draft[w][i].says
      BY <2>1, <3>4 DEF ToSet
    <3>6. \E k \in DOMAIN base[w].entries : draft[w][i] = base[w].entries[k]
      BY <3>3, <3>5 DEF Kept
    <3> QED
      BY <3>4, <3>6 DEF ToSet
  <2> QED
    BY <2>1
<1> QED
  BY <1>1, DocInvAlways, PTL DEF DocSpec, ProvenanceSurvives
=============================================================================
