---------------------------- MODULE MemoryQueue ----------------------------
(***************************************************************************)
(* The distillation queue: one memory_outbox row per conversation          *)
(* (core/personalization/outbox.py), the chat turns that re-arm it         *)
(* (core/chat/orchestrator.py) and the background workers that claim idle  *)
(* rows and work through them (scripts/memory_worker.py).                  *)
(*                                                                         *)
(* A claim is not a lease: the row is not written when it is claimed, the  *)
(* row lock ends with the claim's transaction, and every later step of the *)
(* worker runs while users keep talking.  Only the comparison of           *)
(* last_turn_at with the claimed value protects a new turn.                *)
(*                                                                         *)
(* What a distillation writes into the memory document is not here: module *)
(* Distillation conjoins it to the actions of this one.                    *)
(***************************************************************************)
EXTENDS Integers, FiniteSets, Sequences

CONSTANTS
  Conversations,    \* conversation ids
  Turns,            \* one element per user message that is ever sent
  ConversationOf,   \* the conversation each turn is sent in
  Workers,          \* worker processes (one container today)
  IdleMinutes,      \* settings.memory_idle_minutes
  MaxAttempts,      \* settings.memory_max_attempts
  MinUserTurns,     \* MIN_USER_TURNS
  BatchSize,        \* CLAIM_BATCH_SIZE
  TouchWindow,      \* bound: ticks a touch transaction may stay open
  LastTurnClock,    \* bound: no touch begins later than this
  Horizon,          \* bound: the last value of the clock
  MaxFaults         \* bound: kills, row errors and lost log writes in a behaviour

ASSUME QueueAssumption ==
  /\ ConversationOf \in [Turns -> Conversations]
  /\ IsFiniteSet(Workers)
  /\ IdleMinutes \in Nat
  /\ MaxAttempts \in Nat \ {0}
  /\ MinUserTurns \in Nat
  /\ BatchSize \in Nat \ {0}
  /\ TouchWindow \in 0 .. IdleMinutes
  /\ LastTurnClock \in Nat /\ Horizon \in Nat /\ MaxFaults \in Nat

VARIABLES
  clock,    \* the database's now()
  gone,     \* conversations deleted by their owner
  stage,    \* per turn, how far its request has come
  stamp,    \* per turn, the now() its touch transaction started with
  row,      \* memory_outbox
  phase,    \* per worker, what it does next
  batch,    \* per worker, the claimed rows it still has to process
  seen,     \* per worker, the turns in the transcript it read
  run,      \* per worker, the turn_run row of the current distillation
  faults,   \* kills, row errors and lost log writes so far
  unbilled, \* history: answers the model gave less the llm_calls rows written
  touched,  \* history: turns whose touch committed, per conversation
  covered   \* history: the transcript the row was last marked done for

turnVars   == <<gone, stage, stamp>>
workerVars == <<phase, batch, seen, run>>
vars == <<clock, gone, stage, stamp, row, phase, batch, seen, run,
          faults, unbilled, touched, covered>>

Stage == {"new", "asked", "errored", "answered", "touching", "touched", "untouched"}
Status == {"absent", "pending", "done", "failed"}
Row   == [lastTurnAt : Nat, status : Status, attempts : Nat, error : BOOLEAN]
Claim == [conv : Conversations, at : Nat]
Phase == {"idle", "row", "skip", "distil", "answered", "write", "finish", "failing"}

NoRow == [lastTurnAt |-> 0, status |-> "absent", attempts |-> 0, error |-> FALSE]

TypeOK ==
  /\ clock \in Nat /\ faults \in Nat /\ unbilled \in Int
  /\ gone \subseteq Conversations
  /\ stage \in [Turns -> Stage]
  /\ stamp \in [Turns -> Nat]
  /\ row \in [Conversations -> Row]
  /\ phase \in [Workers -> Phase]
  /\ batch \in [Workers -> Seq(Claim)]
  /\ seen \in [Workers -> SUBSET Turns]
  /\ run \in [Workers -> {"none", "open"}]
  /\ touched \in [Conversations -> SUBSET Turns]
  /\ covered \in [Conversations -> SUBSET Turns]

Init ==
  /\ clock = 0 /\ faults = 0 /\ unbilled = 0
  /\ gone = {}
  /\ stage = [t \in Turns |-> "new"]
  /\ stamp = [t \in Turns |-> 0]
  /\ row = [c \in Conversations |-> NoRow]
  /\ phase = [w \in Workers |-> "idle"]
  /\ batch = [w \in Workers |-> <<>>]
  /\ seen = [w \in Workers |-> {}]
  /\ run = [w \in Workers |-> "none"]
  /\ touched = [c \in Conversations |-> {}]
  /\ covered = [c \in Conversations |-> {}]

-----------------------------------------------------------------------------
(* Turns.  The user's message is stored before the turn runs, the touch     *)
(* comes after the turn has been finalized, in a transaction of its own.    *)

Touching(t) == stage[t] = "touching"

\* The user messages a reader of the conversation finds.
Transcript(c) == {t \in Turns : ConversationOf[t] = c /\ stage[t] # "new"}

Tick ==
  /\ clock < Horizon
  /\ \A t \in Turns : Touching(t) => clock + 1 - stamp[t] <= TouchWindow
  /\ clock' = clock + 1
  /\ UNCHANGED <<turnVars, row, workerVars, faults, unbilled, touched, covered>>

AskTurn(t) ==
  /\ stage[t] = "new"
  /\ ConversationOf[t] \notin gone
  /\ stage' = [stage EXCEPT ![t] = "asked"]
  /\ UNCHANGED <<clock, gone, stamp, row, workerVars, faults, unbilled, touched, covered>>

\* The turn ends: finalized "ok", or with an error, which never touches.
EndTurn(t) ==
  /\ stage[t] = "asked"
  /\ \E s \in {"answered", "errored"} : stage' = [stage EXCEPT ![t] = s]
  /\ UNCHANGED <<clock, gone, stamp, row, workerVars, faults, unbilled, touched, covered>>

BeginTouch(t) ==
  /\ stage[t] = "answered"
  /\ clock <= LastTurnClock
  /\ stage' = [stage EXCEPT ![t] = "touching"]
  /\ stamp' = [stamp EXCEPT ![t] = clock]
  /\ UNCHANGED <<clock, gone, row, workerVars, faults, unbilled, touched, covered>>

\* The upsert: a full re-arm whatever the row said before.
Rearmed(now) ==
  [lastTurnAt |-> now, status |-> "pending", attempts |-> 0, error |-> FALSE]

\* Mutant: an upsert that leaves the status of an existing row alone.
CommitTouchKeepingStatus(t) ==
  LET c == ConversationOf[t] IN
  /\ Touching(t)
  /\ c \notin gone
  /\ row' = IF row[c].status = "absent" THEN [row EXCEPT ![c] = Rearmed(stamp[t])]
            ELSE [row EXCEPT ![c].lastTurnAt = stamp[t]]
  /\ touched' = [touched EXCEPT ![c] = @ \union {t}]
  /\ stage' = [stage EXCEPT ![t] = "touched"]
  /\ UNCHANGED <<clock, gone, stamp, workerVars, faults, unbilled, covered>>

CommitTouch(t) ==
  LET c == ConversationOf[t] IN
  /\ Touching(t)
  /\ c \notin gone
  /\ row' = [row EXCEPT ![c] = Rearmed(stamp[t])]
  /\ touched' = [touched EXCEPT ![c] = @ \union {t}]
  /\ stage' = [stage EXCEPT ![t] = "touched"]
  /\ UNCHANGED <<clock, gone, stamp, workerVars, faults, unbilled, covered>>

\* touch() raised (always so once the conversation is gone: the foreign key
\* refuses the insert), a write before it raised, or the process ended after
\* the turn was finalized; nothing comes back to it.
LoseTouch(t) ==
  /\ stage[t] \in {"answered", "touching"}
  /\ stage' = [stage EXCEPT ![t] = "untouched"]
  /\ UNCHANGED <<clock, gone, stamp, row, workerVars, faults, unbilled, touched, covered>>

\* ON DELETE CASCADE takes the messages and the outbox row along.
DeleteConversation(c) ==
  /\ c \notin gone
  /\ gone' = gone \union {c}
  /\ row' = [row EXCEPT ![c] = NoRow]
  /\ UNCHANGED <<clock, stage, stamp, workerVars, faults, unbilled, touched, covered>>

-----------------------------------------------------------------------------
(* The worker.                                                              *)

IdleRows == {c \in Conversations : row[c].status = "pending"
                                   /\ row[c].lastTurnAt < clock - IdleMinutes}

\* A row whose touch is uncommitted may be locked, and SKIP LOCKED passes it.
MayBeLocked(c) == \E t \in Turns : Touching(t) /\ ConversationOf[t] = c

\* s lists the oldest idle rows, oldest first, at most BatchSize of them.
IsOldestFirst(s) ==
  LET at(c) == row[c].lastTurnAt
      n == Len(s)
      Chosen == {s[i] : i \in 1 .. n}
  IN /\ \A i, j \in 1 .. n : i < j => s[i] # s[j] /\ at(s[i]) <= at(s[j])
     /\ \A c \in IdleRows \ Chosen :
          \/ MayBeLocked(c)
          \/ n = BatchSize /\ at(s[n]) <= at(c)

ClaimIdle(w) ==
  /\ phase[w] = "idle"
  /\ \E n \in 1 .. BatchSize : \E s \in [1 .. n -> IdleRows] :
       /\ IsOldestFirst(s)
       /\ batch' = [batch EXCEPT
            ![w] = [i \in 1 .. n |-> [conv |-> s[i], at |-> row[s[i]].lastTurnAt]]]
  /\ phase' = [phase EXCEPT ![w] = "row"]
  /\ UNCHANGED <<clock, turnVars, row, seen, run, faults, unbilled, touched, covered>>

Current(w) == Head(batch[w])

Fault == faults < MaxFaults /\ faults' = faults + 1

\* The loop of run_once moves on to the next claimed row, or the cycle ends.
NextRow(w) ==
  /\ batch' = [batch EXCEPT ![w] = Tail(@)]
  /\ phase' = [phase EXCEPT ![w] = IF Len(batch[w]) = 1 THEN "idle" ELSE "row"]
  /\ seen' = [seen EXCEPT ![w] = {}]
  /\ run' = [run EXCEPT ![w] = "none"]

FindVanished(w) ==
  /\ phase[w] = "row"
  /\ Current(w).conv \in gone
  /\ NextRow(w)
  /\ UNCHANGED <<clock, turnVars, row, faults, unbilled, touched, covered>>

\* A conversation with too few user turns is skipped; for the others a
\* turn_run row of kind memory_update is opened, unless the run log, which
\* never raises, fails to.
ReadTranscript(w) ==
  LET c == Current(w).conv
      enough == Cardinality(Transcript(c)) >= MinUserTurns
  IN
  /\ phase[w] = "row"
  /\ c \notin gone
  /\ seen' = [seen EXCEPT ![w] = Transcript(c)]
  /\ phase' = [phase EXCEPT ![w] = IF enough THEN "distil" ELSE "skip"]
  /\ \/ run' = [run EXCEPT ![w] = IF enough THEN "open" ELSE "none"] /\ UNCHANGED faults
     \/ enough /\ Fault /\ run' = [run EXCEPT ![w] = "none"]
  /\ UNCHANGED <<clock, turnVars, row, batch, unbilled, touched, covered>>

ModelAnswers(w) ==
  /\ phase[w] = "distil"
  /\ phase' = [phase EXCEPT ![w] = "answered"]
  /\ unbilled' = unbilled + 1
  /\ UNCHANGED <<clock, turnVars, row, batch, seen, run, faults, touched, covered>>

ModelRaises(w) ==
  /\ phase[w] = "distil"
  /\ phase' = [phase EXCEPT ![w] = "failing"]
  /\ UNCHANGED <<clock, turnVars, row, batch, seen, run, faults, unbilled, touched, covered>>

\* The answer's llm_calls row under the open run; append_llm_call swallows
\* the failure of its insert.
LogCall(w) ==
  \/ run[w] = "open" /\ unbilled' = unbilled - 1 /\ UNCHANGED faults
  \/ run[w] = "open" /\ Fault /\ UNCHANGED unbilled
  \/ run[w] = "none" /\ UNCHANGED <<faults, unbilled>>

\* Mutant: only an answer that can be used is logged.
ParseAnswerLoggingUsable(w) ==
  /\ phase[w] = "answered"
  /\ \E p \in {"write", "finish", "failing"} :
       /\ phase' = [phase EXCEPT ![w] = p]
       /\ IF p # "failing" THEN LogCall(w) ELSE UNCHANGED <<faults, unbilled>>
  /\ UNCHANGED <<clock, turnVars, row, batch, seen, run, touched, covered>>

\* The answer holds entries, is empty, or cannot be used; its call is logged
\* in every case.  (A prompt file that cannot be read for its version ends
\* in "failing" with no row, like an insert that fails.)
ParseAnswer(w) ==
  /\ phase[w] = "answered"
  /\ \E p \in {"write", "finish", "failing"} : phase' = [phase EXCEPT ![w] = p]
  /\ LogCall(w)
  /\ UNCHANGED <<clock, turnVars, row, batch, seen, run, touched, covered>>

WriteAccepted(w) ==
  /\ phase[w] = "write"
  /\ phase' = [phase EXCEPT ![w] = "finish"]
  /\ UNCHANGED <<clock, turnVars, row, batch, seen, run, faults, unbilled, touched, covered>>

\* MemoryTooLarge, MemoryValidationError or a failed statement.
WriteRefused(w) ==
  /\ phase[w] = "write"
  /\ phase' = [phase EXCEPT ![w] = "failing"]
  /\ UNCHANGED <<clock, turnVars, row, batch, seen, run, faults, unbilled, touched, covered>>

\* Mutant: an update by conversation id alone.
UnmovedById(w) == row[Current(w).conv].status # "absent"

\* The guard of both status updates: the row still is the one claimed.
Unmoved(w) ==
  LET c == Current(w).conv IN
  row[c].status # "absent" /\ row[c].lastTurnAt = Current(w).at

\* Attempts stay as they are; the error is cleared.
Distilled(r) ==
  [lastTurnAt |-> r.lastTurnAt, status |-> "done", attempts |-> r.attempts, error |-> FALSE]

\* Mutant: a skipped conversation's row is left as it is.
MarkDoneUnlessSkipped(w) ==
  LET c == Current(w).conv IN
  /\ phase[w] \in {"skip", "finish"}
  /\ IF phase[w] = "finish" /\ Unmoved(w)
       THEN /\ row' = [row EXCEPT ![c] = Distilled(row[c])]
            /\ covered' = [covered EXCEPT ![c] = seen[w]]
       ELSE UNCHANGED <<row, covered>>
  /\ NextRow(w)
  /\ UNCHANGED <<clock, turnVars, faults, unbilled, touched>>

\* mark_done, for a distilled conversation and for a skipped one; a row
\* that moved is left alone ("rearmed").
MarkDone(w) ==
  LET c == Current(w).conv IN
  /\ phase[w] \in {"skip", "finish"}
  /\ IF Unmoved(w)
       THEN /\ row' = [row EXCEPT ![c] = Distilled(row[c])]
            /\ covered' = [covered EXCEPT ![c] = seen[w]]
       ELSE UNCHANGED <<row, covered>>
  /\ NextRow(w)
  /\ UNCHANGED <<clock, turnVars, faults, unbilled, touched>>

\* Mutant: the last attempt compares one too late.
FailedOnceTooLate(r) ==
  [lastTurnAt |-> r.lastTurnAt,
   status |-> IF r.attempts + 1 > MaxAttempts THEN "failed" ELSE "pending",
   attempts |-> r.attempts + 1,
   error |-> TRUE]

\* attempts + 1 and the resulting status, in one statement.
FailedOnce(r) ==
  [lastTurnAt |-> r.lastTurnAt,
   status |-> IF r.attempts + 1 >= MaxAttempts THEN "failed" ELSE "pending",
   attempts |-> r.attempts + 1,
   error |-> TRUE]

RecordFailure(w) ==
  LET c == Current(w).conv IN
  /\ phase[w] = "failing"
  /\ row' = IF Unmoved(w) THEN [row EXCEPT ![c] = FailedOnce(row[c])] ELSE row
  /\ NextRow(w)
  /\ UNCHANGED <<clock, turnVars, faults, unbilled, touched, covered>>

\* An exception outside _process_one's try (a statement of the store
\* failed): run_once logs it and goes on with the next row.
RowError(w) ==
  /\ phase[w] \in {"row", "skip", "finish", "failing"}
  /\ Fault
  /\ NextRow(w)
  /\ UNCHANGED <<clock, turnVars, row, unbilled, touched, covered>>

\* The process is killed anywhere in a cycle, and started again.
Kill(w) ==
  /\ phase[w] # "idle"
  /\ Fault
  /\ phase' = [phase EXCEPT ![w] = "idle"]
  /\ batch' = [batch EXCEPT ![w] = <<>>]
  /\ seen' = [seen EXCEPT ![w] = {}]
  /\ run' = [run EXCEPT ![w] = "none"]
  /\ UNCHANGED <<clock, turnVars, row, unbilled, touched, covered>>

-----------------------------------------------------------------------------
TurnStep(t) == AskTurn(t) \/ EndTurn(t) \/ BeginTouch(t) \/ CommitTouch(t) \/ LoseTouch(t)

WorkerStep(w) ==
  \/ ClaimIdle(w) \/ FindVanished(w) \/ ReadTranscript(w)
  \/ ModelAnswers(w) \/ ModelRaises(w) \/ ParseAnswer(w)
  \/ WriteAccepted(w) \/ WriteRefused(w) \/ MarkDone(w) \/ RecordFailure(w)

Next ==
  \/ Tick
  \/ \E t \in Turns : TurnStep(t)
  \/ \E c \in Conversations : DeleteConversation(c)
  \/ \E w \in Workers : WorkerStep(w) \/ RowError(w) \/ Kill(w)

\* Time passes, a touch that began ends, and a worker polls and works on
\* (restarted by its container after a kill).  Nothing makes a user talk.
Fairness ==
  /\ WF_vars(Tick)
  /\ \A t \in Turns : WF_vars(Touching(t) /\ (CommitTouch(t) \/ LoseTouch(t)))
  /\ \A w \in Workers : WF_vars(WorkerStep(w))

Spec == Init /\ [][Next]_vars
FairSpec == Spec /\ Fairness

-----------------------------------------------------------------------------
(* Properties.                                                              *)

\* A turn is never swallowed: a row says "done" only if the transcript the
\* worker had read holds every turn whose touch has committed, however the
\* touches fell between the claim, the read and the update.
NoSwallowedTurn ==
  \A c \in Conversations : row[c].status = "done" => touched[c] \subseteq covered[c]

\* The attempts ladder: a pending row has attempts left, a failed row used
\* them all and keeps its error, a done row carries none.  One worker only:
\* two may count one claim twice.
AttemptsLadder ==
  \A c \in Conversations :
    /\ row[c].status = "pending" => row[c].attempts < MaxAttempts
    /\ row[c].status = "pending" => (row[c].error <=> row[c].attempts > 0)
    /\ row[c].status = "failed" => row[c].attempts = MaxAttempts /\ row[c].error
    /\ row[c].status = "done" => row[c].attempts < MaxAttempts /\ ~row[c].error

\* Spend is accounted for: an answer the model gave gets one llm_calls row
\* and no second one, unusable answers too.  The run log never raises, so a
\* kill or a failed log write can lose a row - one row each, no more.
InFlight == {w \in Workers : phase[w] = "answered"}
AnswersAreBilled ==
  /\ Cardinality(InFlight) <= unbilled
  /\ unbilled <= Cardinality(InFlight) + faults

\* A settled row stays settled until its conversation sees a new turn or is
\* deleted: no late failure or second claim reopens it.
SettledStays ==
  [][\A c \in Conversations :
       row[c].status \in {"done", "failed"} =>
         \/ row'[c] = row[c]
         \/ row'[c].status = "absent"
         \/ \E t \in Turns : stage[t] = "touching" /\ stage'[t] = "touched"
                            /\ ConversationOf[t] = c]_vars

\* Every pending row is eventually done or failed (or deleted): no poison
\* row, trivial conversation or crash keeps the queue from draining.
PendingSettles ==
  \A c \in Conversations :
    (row[c].status = "pending") ~> (row[c].status # "pending")

(***************************************************************************)
(* What the queue promises: module DistillationPromise, under this mapping.*)
(***************************************************************************)
VerdictOf(status) ==
  CASE status = "absent" -> "none"
    [] status = "pending" -> "owed"
    [] status = "done" -> "kept"
    [] status = "failed" -> "abandoned"

Promise == INSTANCE DistillationPromise WITH
             promised <- touched,
             kept     <- covered,
             verdict  <- [c \in Conversations |-> VerdictOf(row[c].status)]

\* The queue implements the promise: a conversation's turns are owed from
\* the touch on, and the debt is only discharged by a transcript holding
\* all of them, by running out of attempts, or by deletion.
KeepsPromise == Promise!Spec
=============================================================================
