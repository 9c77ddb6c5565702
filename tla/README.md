# A TLA+ verification of Poseidon

Poseidon is a chat application: a Python backend (FastAPI, PostgreSQL with row-level security), a
React frontend and a Next.js tier. A language model routes a question to skills; everything else is
deterministic code. This directory models the parts of that code that run concurrently, survive
crashes or promise something over several steps, checks them with TLC on small instances, and proves
the most important promises with TLAPS for every instance.

Paths below are relative to the repository's root; `P/` stands for `src/backend/poseidon/`.

## 1. Inventory

### Chat turn (`P/api/live_chat.py`, `P/core/chat/orchestrator.py`)
* State: per request a worker thread, a frame queue, the held-back `done` frame, the holders
  `persisted_holder`, `outcome_holder`, `turn_index_holder`; in the database `conversations`
  (state, title), `messages`, `turn_run` and its children.
* Operations: `POST /conversations/{cid}/messages` (`stream_turn` around `execute_turn`),
  `DELETE /conversations/{cid}`; five flows inside `execute_turn` (entry phrase, subject turn, report
  step, clarification, router loop).
* Interaction: the thread writes the run log, the history, the state and the memory outbox in
  separate transactions; the async generator reads the queue; retries come in under the same
  `client_turn_key`.
* Hard: retries racing the original, a deletion in the middle of a turn, an exception after the
  turn's own `done`, a restart, run-log failures that are swallowed by design.
* Correct when: a stream has one terminal frame and ends; the message is stored first; a key runs
  the pipeline once and a replay is filed under the run that answered; run log and stream agree; a
  title comes from the conversation's own first turn; deletion leaves no content.

### Distillation queue (`P/core/personalization/outbox.py`, `P/scripts/memory_worker.py`)
* State: `memory_outbox` (one row per conversation: `last_turn_at`, `status`, `attempts`,
  `last_error`), the worker's claimed batch.
* Operations: `touch`, `mark_done`, `record_failure`, the claim, `_process_one`, `run_once`.
* Interaction: every completed turn re-arms the row in a transaction of its own; a worker claims
  idle rows and *does not lease them*: nothing is written at the claim and its row locks end with it.
* Hard: turns while a row is worked on, two workers with one claim, kills, the attempts ladder.
* Correct when: no turn is swallowed by a `done`, every pending row settles, settled rows stay,
  every answer is in `llm_calls` but for those a kill or a failed log write lost.

### User memory (`P/core/personalization/memory.py`, `P/api/me.py`)
* State: `user_memory`, append-only versions per user, the newest N kept.
* Operations: `write_version`, `restore`, `get_current`; written by the settings page and the worker.
* Hard: two writers computing `MAX(version) + 1`; the worker's answer is based on entries read long
  before it is written.
* Correct when: numbers never collide, the table is the newest part of the log of writes, one restore
  undoes a write, provenance and the user's own entries survive.

### Signing-key cache (`P/core/identity_auth0.py`)
* State: the tenant's keys by id, the negative cache (oldest first, bounded), the time of the last
  claim, the attempt in flight, the error of the last fetch; per attempt an event and an error.
* Operations: `_public_key_for_kid` and the five methods below it, on worker threads under one lock
  that is never held during the fetch or a wait.
* Interaction: any request reaches it, before anything about the caller is verified; the tenant may
  rotate its keys or be down.
* Hard: the clock is read before the lock, riders outlive their fetch, a failed fetch keeps its slot.
* Correct when: one fetch at a time and one per interval, riders are released, nobody is told that a
  key is unknown because the tenant was down.

### Router loop and SSE envelope (`P/core/llm/loop.py`, `P/core/chat/events.py`)
* State: per turn, the records of provider calls and dispatches and the corrections spent; in the sink,
  the number of parts streamed by the first dispatch; the message being folded
  (`TurnTranscriptBuffer`).
* Operations: `run_turn`, `_dispatch_one`, `part_emitter` and `_handle_tool_done`, `_record_transcript_frame`.
* Interaction: the loop calls the model and the skills; a skill may call back into the sink while it
  runs; every frame of the sink goes to the message and to the client.
* Hard: two ways for a part to reach the wire, an emitter bound to one dispatch and used by all, failures
  after a part of the work is on the wire.
* Correct when: a dispatch shows its result once and in order, a skill is corrected once, the reloaded
  message is the turn as it was seen.

### Flows of a conversation (`execute_turn`, `P/core/chat/report_flow.py`, `P/core/parsing/`)
* State: `conversations.state` (slots: mode, perspective and office, four days, names; the last
  clarification), `brief_done`; in each tab what its last frame asked for.
* Operations: entry phrases, subject turns, report steps, clarifications and their chips, routed turns;
  the parser (`parse_turn`: periods, customers, ports, carry).
* Interaction: slots are read at the start of a turn and written back whole at its end, in a transaction
  of their own; two tabs of one conversation are not serialised.
* Hard: a reply that arrives after another tab's turn, a chip clicked on a later day, a failed write
  between two others, a window carried over several turns as two days.
* Correct when: a reply goes to the question its tab shows; a chip is an answer; a report is of one
  perspective, office and month; carried names are names of the data.

### Chat client (`src/frontend/src/state/chatStore.ts`, `src/web/src/lib/turn-stream.ts`, `P/core/chat/history.py`)
* State: the conversations and messages loaded so far with their cursors, flags of requests in flight,
  the turn being streamed, the votes; on the server the rows the pages are cut from.
* Operations: bootstrap, new conversation, open, earlier messages, more conversations, send, reconcile,
  vote, hydrate; `get_messages`, `list_conversations`, `GET /turns/{id}`, feedback routes.
* Hard: answers that land late or out of order, streams that break after some frames, rollback of an
  optimistic vote, the opener whose id is learned last.
* Correct when: no message is shown twice, a settled turn shows its answer or its failure, thumbs follow
  the opener, a settled vote is the recorded one, the chunk stream is well formed.

### Chat rate limiter (`P/api/auth.py`)
* State: per key a bucket (tokens, time of its last reading), a counter of checks.
* Operations: `check`, with a sweep of idle buckets under the same lock.
* Hard: the clock is read before the lock.
* Correct when: no caller is let through more often than a full bucket and the time allow.

### Skills (`P/tasks/`, `P/core/data/`, `P/core/analytics/`, `P/core/llm/`, `P/mcp/`)
* State: the sales table, the snapshot of a report, the stored runs; the conversation with the model;
  the parts of a brief.
* Operations: the monthly report and its lookup, metric questions, two customer briefs, the providers
  of the model, the research client.
* Hard: a table that is loaded anew between queries, a cut at a cap, figures a model makes up, names
  that change on the way to a provider, phases that run side by side and fail.
* Correct when: what is shown is of the data it claims to be of, whole, once and in order.

### Identity and row-level security (`P/core/identity*.py`, `P/core/db.py`, `P/api/app.py`, migrations)
* State: per process its settings and the verdict of its boot check; per pooled connection the setting
  `app.user_sub` and the role; in the database the revision, the roles, the memberships, grants and policies.
* Operations: the identity middleware with its three providers, `rls_transaction`, `assert_boot_privileges`,
  the worker's claim, the rollups, `alembic upgrade` and `downgrade`.
* Hard: a connection passes between users with its transaction; a check at boot may find no database and
  the schema may change afterwards; two reads cross users on purpose.
* Correct when: a statement sees the rows of the user it is run for and no other's, the reads that cross
  users see all rows or fail, a process that was checked is denied none of its roles.

### Others
Development surfaces, scripts, configuration.
`PROJECT.json` lists each with its status; section 7 says why they are not modelled.

## 2. Modules

| Module | Models | Composition |
|---|---|---|
| `DistillationPromise` | abstract: what the queue owes a conversation | refined by `MemoryQueue` |
| `MemoryQueue` | outbox, turns that touch it, workers | core |
| `MemoryDocument` | a document as a value: rows by version, insert and prune | used by the next two |
| `UserMemory` | `write_version` statement by statement, concurrent writers | |
| `RowSecurity` | identity, `rls_transaction` on pooled connections, policies and boot checks | |
| `Distillation` | `MemoryQueue` conjoined with the documents and the owner's page | both of the above |
| `ChatTurn` | one POST per request: thread, run log, messages, deletion, restart | |
| `JwksCache` | the signing-key cache, its callers and the tenant | |
| `RouterTurn` | one routed turn: loop, skills, envelope, folded message | |
| `Periods` | calendar windows and the period parser, pure | used by the next two and `SalesQueries` |
| `Parsing` | entity resolver, plans, carry, `parse_turn`, pure | extends `Periods` |
| `ConversationFlow` | the flows of a conversation, several tabs, midnight | extends `Parsing` |
| `TurnStream` | a turn's frames as the chat store and the Next.js tier fold them, pure | |
| `ChatClient` | the chat store over the pages of the server | extends `TurnStream` |
| `ChatRateLimiter` | token buckets with readings taken before the lock | |
| `FeedbackVotes` | votes on one answer by several tabs | |
| `SalesQueries` | the queries on the sales table as sets of sales | extends `Periods` |
| `MonthOnMonth` | month-over-month tables, movers, new and lost, offsets | extends `SalesQueries` |
| `Grounding` | the figure check, the template narrative, suggested questions | extends `MonthOnMonth` |
| `MonthlyReport` | the report skill over a table that changes, and its lookup | extends `Grounding` |
| `MetricAnswers` | questions about metrics and their tables | extends `MonthOnMonth` |
| `ModelRequests` | the tool loop's conversation with a provider | |
| `CustomerBrief` | both briefs, their phases and the research client | |
| `MCMemoryQueue`, `MCDistillation`, `MCChatTurn`, `MCJwksCache`, `MCRouterTurn`, `MCConversationFlow` | values for constants | |
| `MCUserMemory` | values, and `UserMemory`, `RowSecurity` side by side | both |
| `MCChatClient` | values, and `ChatClient`, `ChatRateLimiter`, `FeedbackVotes` side by side | all three |
| `MCSkills` | values, and the four skill modules side by side | all four |
| `FoldFacts` | lemmas: folds and induction over sequences, for any operator | instantiated by the next ones |
| `DistillationProofs`, `ChatTurnProofs`, `ConversationFlowProofs`, `JwksCacheProofs` | theorems | `MemoryQueue` and `Distillation`; then each its module |
| `UserMemoryProofs`, `SkillProofs`, `ChatClientProofs` | theorems | `UserMemory` and `RowSecurity`; `RouterTurn` and `CustomerBrief`; `ChatClient`, `ChatRateLimiter` and `FeedbackVotes` |

`MCUserMemory`, `MCChatClient` and `MCSkills` put modules that share no state side by side: a behaviour chooses one
(`part`) and takes its steps only. Nothing is claimed of their interleaving; there is none to lose.

Definitions whose comment begins with `Mutant:` are not part of the model. Each is a plausible slip in
the definition after it and is used to see that a property would notice.

### MemoryQueue
`row` is the table; `NoRow` a missing row. `clock` is the database's `now()`; a touch begins
(`BeginTouch` reads `now()`, as PostgreSQL does at the start of a transaction) and commits later, at
most `TouchWindow` ticks later. `stage` follows a turn: its user message is stored (`AskTurn`) before
the pipeline runs, `EndTurn` finalizes it, and only an answered turn touches. `LoseTouch` is the
swallowed failure of the touch or of what precedes it, or the end of the process.
`ClaimIdle` is the claim statement (idle rows, oldest first, `LIMIT`, `SKIP LOCKED`: a row with an
open touch may be passed over). `ReadTranscript` to `RecordFailure` are the branches of
`_process_one`; `NextRow` is the loop of `run_once`. `RowError` is an exception outside
`_process_one`'s `try`, `Kill` the end of the process. `MarkDone` and `RecordFailure` carry the guard
`last_turn_at = :claimed_last_turn_at` as `Unmoved`.
`run` is the worker's turn in the run log; `start_turn` and `append_llm_call` swallow their failures (`Fault`),
so that a distillation may have no turn and an answer no `llm_calls` row.
`touched`, `covered` and `unbilled` are history variables: the turns whose touch committed, the transcript
the row was last marked done for, and the answers of the model that have no `llm_calls` row.
Left out: transcripts longer than 200 messages (`TRANSCRIPT_MESSAGE_LIMIT`, the model reads whole
conversations), the text of prompts and answers, lock waits between a touch and a status update (each
is one statement; the order of the commits is what is modelled).

`TouchWindow <= IdleMinutes` is an assumption (`QueueAssumption`): a touch transaction does not stay
open longer than a conversation must be idle (30 minutes by default). It is needed: a touch that
began at the value a worker has claimed and is still open after the claim can commit on top of a newer
turn's touch, set `last_turn_at` back to the claimed value, and make the worker's guard true again
although the transcript it read does not hold the newer turn. TLC finds this when the assumption is
dropped and a conversation has three turns.

### UserMemory
One step per statement of `write_version`. `holder` is the advisory lock; `draft`, `top` are the
transaction's own values; `table` changes at the commit. `Insert` waits for a number that another
transaction has inserted and cannot proceed on one that is taken; `NumberingIsSound` shows that neither
happens. `StartRestore` reads the old version in a transaction of its own.

### RowSecurity
A call is a request, a cycle of the worker, a distillation or a rollup; a message is what a request's headers
carry (names as the provider reads them, the edge's own first). `Identity` is the middleware with its
providers, `Begin` to `Finish` the statements of `rls_transaction`, whose setting and role end with it.
`Upgrade` and `Downgrade` are the migrations' steps on the roles, grants and policies, and `Rows` what
PostgreSQL makes of them for a role; `GrantByHand` is what a refusal to boot asks of the operator. A process boots with the check
(`BootChecked`) or, if the database does not answer, without (`BootUnchecked`).
`seen` is what the one `SELECT` of a call returned, `vouched` the user the edge meant.
Assumed: `DATABASE_APP_ROLE` names the migrations' own role; requests read tables with an owner policy.
Left out: the open routes, and the identity an internal caller sends in its body.

### Distillation
Each action of the queue is conjoined with its effect on `memory` (documents), `base` (version the
worker read), `draft` (entries it will write) and `page` (what the owner sees); `log` is every version ever
written, kept as history. Entries are lists, and the owner may save any list that fits (`PutMemory`), the same statement
twice included, since `put_memory` compares none with another. `_stamp_entries` finds an entry by its statement, so of
duplicates the last one's source is given to all (`Stamped`). The language model is
external and taken at its best: it returns everything it was shown and one statement more, so that
what goes wrong is the code's doing. A write is one step, which `UserMemory` justifies.

### ChatTurn
A request is its own turn id: `runs[r]` is the `turn_run` row inserted under it, `message[r]` the
assistant message. `pc` places the thread between transactions; `frames` is the frame queue as the
client will read it; `held` is `pending_done`; `persisted` is `persisted_holder`; `outcome` is
`outcome_holder`. The flow inside the pipeline is one of: an answer (`ok`), a clarification-like turn
(`clarify`: entry, subject and report clarifications and the plain one have the same shape: body, done,
finalize, put), a structured error, an exception. Content is abstracted to flags: does the run row
have a question, an answer summary, tool arguments.
`StartTurnUnlogged`, `FinalizeUnlogged` and the failing half of `Persist` and `Bury` are the failures
the code swallows. What is written after the finalize is in part outside the guard of the put: `brief_done`
(`P/core/chat/orchestrator.py:1538`) and the put of a clarification. A failure there (`PutState`) ends in a breakdown
of a turn whose row has its last status; `broke` is history, the turns to which that happened. `Restart` ends every thread and forgets its memory.
Left out: tool frames and parts (one `body` frame stands for them), the configuration without a run
log, the guard for a data backend that is not synthetic.

### JwksCache
A request is one call of `_public_key_for_kid`. `Start` reads the clock; `Hit` to `Claim` are the returns
of the locked decision, in the order of its tests; `Respond`, `FetchFails` and `Swap` are
`_fetch_jwks`; `Release` and `ReleaseFailed` the `finally` of `_run_fetch` with the exception that goes
on to the caller; `Wake`, `WakeToFailure` and `GiveUp` the ends of a rider's wait; `Found` and
`RecordAbsence` are `_jwk_after_fetch`. `attempts` holds every attempt ever claimed, and `unlisted` is a
history variable: when the newest published list without a key id was read. Clearing the marker and
setting the event are one step, since no one can tell them apart: a rider holds the attempt already,
and a new caller does not wait for it.
Time is `clock`; `Tick` does not pass the bounds `FetchTime` (a fetch) and `Delay` (a thread between a
clock reading and the lock, or between the end of a fetch and its rider's return).
`FetchTime < Interval` is an assumption (`JwksAssumption`). The code's own figures are 12 and 60 seconds
(`identity_auth0.py:184-202`); httpx counts the read timeout for each chunk, so an endpoint that sends
its answer in drops can exceed them. Beyond the interval a second fetch would be claimed and the
first one's `finally` would clear its marker.
Left out: the bearer header, the claims, keys of another type than RSA.

### RouterTurn
What `ChatTurn` abstracts to one body frame. `AskForAnswer` to `ReachCap` are the outcomes of an
iteration; `StartTool`, `MakePart` and one of `Succeed`, `Correct`, `FailAgain` are a dispatch. `asked`
and `records` are `llm_records` and `tool_records`, `spent` is `spent_corrections`, `streamed` is
`_streamed_counts[1]` (`Retired` once popped), `made` the parts the running skill has. A part is its
skill and its place in the result, so that a retry makes the same parts. `results` is a history
variable. A failure can come at any point of a skill; `registry.dispatch` turns it into a result
without parts. `AskRaises` is a provider that raises instead of answering with an error.
Left out: artifacts (sent after the proof, like it), prompts, digests, arguments, the order in which the
two concurrent phases of a brief finish (their parts are sent in a fixed order).

### Periods and Parsing
A day is a number whose order is the order of days; a window is half-open. A text is a record of what
the pipeline's patterns find in it (cues, runs of capitals, period phrases by form, slices, quoted
names); a name is the sequence of its words. `ParsePeriods`, `Resolve`, `Plan...` and `ParseTurn` follow the
code's order of tests from there: gates, resolution, plans for port and customer, masking, carry.
Left out: the regular expressions themselves, the skill hinter.

### ConversationFlow
`slots` and `briefDone` are the row; `turn[t]` is the turn a tab has at work with what it read;
`screen[t]` what the tab's last frame asked for and the chips it offers. `Begin` reads the slots and
goes through `execute_turn` up to its first write; `RunSkill`, `PutSlots`, `SetBriefDone` and `Finish`
follow in the order of the flow; `WriteFails`, `Restart` and `Midnight` may come between. `alone` and
`current` are history: the busy tabs whose turn has met no other, and the tab whose screen is the last word
of the conversation; `HandledAsShown` and `ChipSettles` are about these. `TypeOK` is stated for a reader and not run.
Left out: what all turns share (`ChatTurn`), the text of the answers.

### ChatClient and TurnStream
A request is asked, served from what the server holds at that moment, and lands later, in any order;
`Fail` may come before or after it was served. A turn is sent with one of the `Scripts` of frames;
`ReadFrame` applies them one by one, `Refuse` and `Cut` break the request before or during its stream,
`EndEarly` ends the stream in good order before its terminal frame (`src/frontend/src/api/sse.ts:90`), after which
nothing is recovered and no error shown; `Reconcile` puts the stored answer (`GetTurn`) in place of what was streamed. Parts carry the positions of
the frames their content came from, so that "the whole answer" can be compared. `Relay` is the Next.js
route over the same frames. `overtaken` and `reloaded` are history: a page replaced a thread while another
page of it was on its way, or while a turn streamed into it. The properties exclude just these
(section 4).

### ChatRateLimiter
Time in ticks of one token. `ReadClock` is the reading before the lock, `Check` all that happens under it:
refill, cap, decision, counter and sweep. `admitted` is the history of readings a key was let
through with. `early` is history too: what the sweeps have given a key before its time. A bucket that is
forgotten was last filled by a reading up to `MaxDelay` older than the newest of its key and comes back
full for a reading up to `MaxDelay` older than the sweep's, so a sweep gives at most twice the delay.

### FeedbackVotes
`row` is `message_feedback`, `feedback[t]` the entry of a tab's store, `asks` the requests on their way:
`PostFeedback` and `GetFeedback` are the server's half, `Lose` the failure before or after it, `Land` the
answer with its rollback or hydration. `clear[t]` is history: no request of the tab overlapped another,
none of another tab came since it hydrated, none was lost after the server did it.

### SalesQueries, MonthOnMonth, Grounding, MonthlyReport
A sale is a record of its date, its dimensions and its sums; an SQL query is a set of sales and what is
summed of them. Fractions and printed figures are exact: a figure is its digits, sign, decimals and
unit, rounded half to even as the formatter does. `seen` is the snapshot of a report's connection, taken by
its first query; `sales` goes on changing (`ChangeSales`). A text of the model is paragraphs of sentences of
names and figures. The replies are chosen so that each rule of `grounding.py` decides one of them.
`stored` are the runs in the store, `pages` what lookups read of one.
Left out: the supplier perspective (the customer one with other columns), `mom.driver`, WIN_RATE
and counts (ratios and sums like those here), the layout of HTML and PDF.

### MetricAnswers
`Refused` holds what is refused before a query is built; `FetchFirst` and `FetchSecond` are queries on
connections of their own, so that the table may change (`MoveSale`) between the two of a comparison or a share. The six shapes of an answer
are operators of the query results.

### ModelRequests
`history` is the loop's messages in its own blocks, `body` what the provider was last sent, `heard` what it
answered. Names and blocks are converted both ways per provider. A result is lines; `Capped` cuts it to
the budget and says so. A provider that is not registered raises.

### CustomerBrief
`parts` is what the brief has collected, `emitted` what reached the user; `context`, `research` and `strategy`
are the phases. For an existing customer the first two run side by side and `Join` takes them in the code's
order. What the research service answers is external: whole, cut where it can be closed or where it cannot, of
another shape, late, refused, or an exception. `strategy.read` is what the strategist was given.

## 3. Runs

| Run | Bounds | Shows |
|---|---|---|
| `queue` | 3 turns in 2 conversations, 1 worker, batch 2, 2 attempts, `now()` up to 5, one kill, row error or failed log write. 880 thousand states | `NoSwallowedTurn`, `AttemptsLadder`, `AnswersAreBilled`, refinement `KeepsPromise`, liveness `PendingSettles` |
| `memory_versions` | 3 writers, 4 versions, 2 kept, symmetric writers; rows: 2 processes with a connection each, 2 calls (symmetric), 4 deployments, 6 messages, 4 users, all revisions up and down. 389 thousand states | `NumberingIsSound`, `RowsAreOwn`, `SwitchesAreRehearsed` |
| `distillation` | 1 user, 2 conversations, 2 facts (symmetric), lists of at most 2 entries, 3 versions, 2 kept. 4.4 million states | `WrittenBeforeDone`, `OneClickRestore`, `ProvenanceSurvives` |
| `chat_turn` | 2 requests, 2 conversations, 1 key, 1 failure, 1 restart. 404 thousand states | `PersistedBeforeTerminal` (with one terminal frame), `ExecutedOnce`, `ReplayIsFaithful`, `LogAgreesWithStream`, `TitledByItsFirstTurn`, `DeletionRedacts`, liveness `StreamEnds` |
| `conversation_flow` | 2 tabs (symmetric), 3 turns, 8 texts and every chip, 4 histories, 2 days, 1 failed write or restart | `HandledAsShown`, `ChipSettles`, `ScopeIsWhole`, `CarriedNamesAreCertified`, `CarryKeepsPeriods` |
| `client` | 3 conversations (3, 1 and 0 messages), pages of 2 and 1, 3 requests, 1 turn of 2 scripts; limiter: 2 keys, 2 threads, bucket of 2, 5 checks; votes: 2 tabs, 3 requests. 3.7 million states | `NoMessageTwice`, `ThumbsFollowTheOpener`, `SettledShowsTheTurn`, `ChunksWellFormed`, `AdmittedWithinRate`, `SettledVoteIsRecorded` |
| `jwks_cache` | 3 requests, 2 key ids, negative cache of 1, interval 3, TTL 3, fetch 2, wait 2, delay 1, clock up to 7 | `FetchesAreFew`, `RidersAreReleased`, `VerdictIsFresh` |
| `skills` | 3 tables of 1 to 6 sales, caps of 2 rows and 1 mover, 5 reports, 4 replies, 13 questions under 3 offices and 3 callers, 3 providers, 4 settings of a brief. 41 thousand states | `ReportIsOfOneMoment`, `FiguresAreInTheData`, `AnswersAreOfTheBook`, `ConversationIsFaithful`, `BriefIsWhole` |
| `router_turn` | 2 iterations of at most 2 calls, at most 2 parts; one streaming skill, one with text parts, one refused name | `DispatchShowsItsParts`, `OneCorrectionEach`, `MessageFollowsTheTurn` |
| `distillation_lost_edit` | as `distillation` | violated: `UserEntriesPreserved` |
| `chat_redaction` | as `chat_turn`, no failures, no restarts | violated: `DeletedLeavesNoContent` |
| `router_retry` | as `router_turn` | violated: `RetryShowsPartsOnce` |

The type invariants of the queue, the documents, the memory, row security, the chat turn, the key cache and
the routed turn, and `SettledStays` of the queue, are proved (section 5) rather than run.

Why the bounds are enough. `queue`: the first conversation has two turns, so that one can be claimed
while the other is touched, and needs both to leave the trivial case (`MinUserTurns` 2); the second
stays trivial and shares the batch. Two attempts make a first and a last failure. The clock goes past
the last possible touch by more than the idle time, so that everything can be claimed. `chat_turn`: a
request is affected by another only through a shared key, a shared conversation or both; the two
requests take every such relation (`FirstAndOther`). A third request under the same key sees one row
more of the kind the second sees, since only the row that was inserted can be replayed.

`distillation`: a second version is what a restore undoes and a third pushes the first out; two facts in lists of two
make a duplicate, with one source or two, and a document of two statements. No action tells one fact from another.

`memory_versions`: the deployments are a local superuser whose role is switched, a login that bypasses the
policies with no role, a plain owner of the tables beside a worker without a role, and a login that owns nothing beside
a malformed role. The messages repeat the header, repeat another, are empty, fold to the same name and fold to none. Two
calls of one process share its only connection one after the other, two of two processes the database.

`jwks_cache`: three requests are a fetcher, its rider and one that comes late or claims the next slot;
two key ids overflow a negative cache of one entry; the clock reaches past two intervals, so that a
second fetch follows the first and entries expire.

`router_turn`: two responses of two calls give four dispatches, enough for a failure, its correction and
the second failure within one response or across two, with another skill's in between; two parts
let a skill stream some and fail or return before the last. The cap of two iterations is reached with tools just
run.

`conversation_flow`: three turns are a question, another tab's turn and the reply; the texts reach every
branch of the parser that changes a slot (an entry phrase of each flow, a subject alone and beside a
period, a port, an unknown name, clearing, quotes, two comparisons); the histories start in the middle of a report,
after one, and after a brief. The second day is in another month, so that a month-to-date chip changes
its meaning.

`client`: with pages of two, three messages make a second page, and pages of one split the list; three requests are
two that overlap and one that replaces what they land in; a turn of five frames has a tool
reported twice between two stretches of text. The limiter needs a bucket of two for a refill that is
not the cap, a sweep every second check and a reading one tick old. Three requests of two tabs
are a vote, its hydration elsewhere and a second vote.

`skills`: the tables have a customer who falls in one office and rises in another (offsets), one new, one lost,
one sale without an office, ties, and more keys than the caps let through. Each question reaches one
path of the skill (totals, comparison, two shares, ranked breakdowns up and down, frames by month and
quarter, two keys, a comparison cut at its read limit, and the refusals).

None of the specifications can be expected to run for ever (users stop talking, requests end), so
deadlock is not checked; that nothing waits for ever is what the liveness properties say.

**Fairness.** `MemoryQueue`: time passes; a touch that has begun ends (commits or fails); a worker polls
every `POLL_SECONDS` and is restarted by its container. `ChatTurn`: a running thread goes on. Nothing
is assumed of users, of deletions, of failures or of restarts.

## 4. Where the code and its documents disagree

* `UserEntriesPreserved`: an edit saved while the model is being asked is overwritten by the version the
  distiller writes (it stays in the table as an older version and can be restored).
* `DeletedLeavesNoContent`: a turn at work during the deletion writes its question, arguments and answer
  summary after the redaction. `DeletionRedacts` is what does hold: turns that were not at work leave
  nothing.
* `RetryShowsPartsOnce`: parts a skill streams before it fails stay on the wire, and the retry sends them
  again with its result. `DispatchShowsItsParts` is what does hold: no dispatch repeats its own.

Also met, without a run of their own.

Turns and memory:
* The touch of the outbox is not in the transaction that completes the turn, as
  `docs/architecture/05-auth-identity.md:163` says; a failure or the end of the process between the
  two leaves a completed turn that is not distilled before the next one.
* The message of a refused duplicate (409) names a turn that has no run row; feedback on it cannot be stored.
* A provider that raises rather than answers with an error (only `ClientError` is caught,
  `P/core/llm/bedrock.py:163`) passes through `run_turn`, and the dispatches made before it are not
  logged, although `P/core/chat/orchestrator.py:2042-2044` calls them worth logging.
* Retries of the worker have no backoff (`docs/architecture/05-auth-identity.md:167` says they do); with
  two workers one claim can count two attempts (`P/scripts/memory_worker.py:99-107` calls a duplicate
  version the worst case).
* A failure to set `brief_done` after a brief was finalized (`P/core/chat/orchestrator.py:1538`, in front of the
  guard at 1571) tells the client that the turn failed while its key says that it was answered: until the row
  is buried, or for good if that fails too, a retry replays the brief (`broke` in `ReplayIsFaithful`).
* Statements are matched by their text when an answer is stamped (`P/scripts/memory_worker.py:469`): of duplicates saved
  by the owner only the last keeps its source in the next version.
* `start_turn` and `append_llm_call` swallow their failures, so an answer can go unbilled, and
  `cost_rollup.py` reads nothing else; `AnswersAreBilled` bounds how many do.
* A replay can have turn index 1 when its key was first used in another conversation (the docstring of
  `_finalize_turn` says at least 2 in every reachable case; the guard it calls defensive is what makes
  `TitledByItsFirstTurn` true).
* A swallowed failure of the state write after a report (`P/core/chat/orchestrator.py:1889`) leaves the
  conversation in the report mode although the report is made.

Client:
* A page of earlier messages that is on its way while an older request of the same conversation
  lands adds messages twice (`Overtaken` in `NoMessageTwice`); a conversation opened anew in the middle of its
  turn loses the streamed message until the next load (`reloaded` in `SettledShowsTheTurn`).
* A stream that ends in good order before its terminal frame (a proxy or the server closing it) is taken for a
  complete one: the partial answer stays as it is, or nothing at all, without an error and without asking for
  the stored one (`EndEarly`; the recovery in `sendMessage` covers only a connection that breaks).
* A new conversation made while bootstrap is on its way can be listed twice, and one that moves up
  between two pages of the list is missed.
* Overlapping votes of a tab, a hydration that lands after a later vote, or a lost answer leave a verdict on the
  screen that is not the stored one (`clear` in `SettledVoteIsRecorded`).
* The limiter calls its sweep lossless and unobservable; with a reading taken before the lock a swept
  bucket comes back full too early, by up to twice the delay's tokens for every sweep that forgets it, and what several
  sweeps give adds up (`early` in `AdmittedWithinRate`).
* The Next.js route adds an error chunk after `finish` if reading fails after the terminal frame, and it
  closes a run of text at any frame that is not a token while the server's fold does not;
  `src/web/src/lib/turn-stream.ts:51-63` says the two agree by construction.

Rows:
* Migration 0009 says its policy leaves every other session as it was; by PostgreSQL's rules a login that is
  a member of `poseidon_worker` has the policy without `SET ROLE` too (`Powers`). It costs nothing here: a
  request reads tables the worker's policy is not on.

Skills:
* The comment in `compare_breakdown.py:44-46` says that a key that moved in or out of the top rows still has
  both sides; a key below the read limit of one window is printed as zero and "new".
* The two queries of a comparison or of a share run on connections of their own and may be of two states of
  the table; a report's are of one.
* A frame without buckets ranks a ratio without a denominator as zero, one with buckets ranks it last.
* The list of offices is cut at `DIMENSION_VALUE_LIMIT` values (`P/core/data/synthetic_client.py:71`).
* The registry's docstring says that only an id with its own `__` fails the round trip to the provider; so does
  `a_.b`. The check refuses both.
* The research client turns a timeout into a degraded answer, while a refused connection or a body that is not
  JSON raises, and the whole research phase is lost with the answers of its other searches. A blank answer of
  the model counts as a completed phase. Two briefs of one customer on one day share the key of their PDF.

## 5. Proofs

All theorems are checked by TLAPS from nothing but the assumptions named in the modules.

* `FoldFacts`. The code builds a message, or a thread, by a loop over frames, which is `FoldLeft` here. The
  community module defines it by a recursive function over sets of places that is only chosen. `Solvable` shows by
  induction that there is one, `FoldUnique` and `FoldExists` that the fold takes its steps one at a time, and
  `FoldedMore`, `FoldedBoth` and `FoldedIn` are what proofs cite. The library's induction theorems take a predicate
  and cannot be instantiated; induction here is over a set of numbers, by its least counterexample (`Least`,
  `Induction`), and then over a set of sequences (`SequenceInduction`).
* `DistillationProofs`, of the queue. `TypeCorrect`; `NoTurnIsSwallowed` for any number of workers, turns, conversations
  and any bounds. `NoSwallowedTurn` is not inductive. The invariant `QueueInv` adds: a claim's
  `at` is idle and therefore older than any touch still open (`Timed`, this is where
  `TouchWindow <= IdleMinutes` is used); every touched turn can be read in its conversation
  (`TouchedCanBeRead`); and a worker whose claim still matches the row has read every touched turn
  (`ReadHoldsTouched`). The last one is the argument: a touch that commits after the read changes
  `last_turn_at`, so the guard of the update no longer holds.
  Under `OneWorker`: the attempts ladder, that settled rows stay, and the refinement of
  `DistillationPromise`. With two workers the ladder is false (TLC finds it), so the assumption is
  needed. For any number of workers `AnswersAreBilled`: `SpendInv` counts the distillations that will get no row
  (`Doomed`) as soon as their log write has failed, and the kill or failure that doomed each.
* `DistillationProofs`, of the documents. Every step of `DocNext` is a step of the queue or leaves it alone
  (`DistillationRunsTheQueue`), so the theorems above hold of the composition. `DocInv` says that a document is the
  newest part of what was ever written, without a gap and unchanged (`Sound`), that
  a draft says nothing of a statement that was read but what was read of it (`Kept`), and that what a finishing worker
  holds is a version written after the one it read (`Written`). Nothing is assumed of what the owner saves. From it: `WrittenBeforeDone`, `ProvenanceSurvives`, and
  `OneClickRestore` under the hypothesis `KeepVersions # 1`, which it needs: a table that keeps one
  version has nothing left to restore.
* `UserMemoryProofs`. `NumberingIsSound` for any number of writers, from mutual exclusion of
  the lock and that `top` is the table's maximum while it is held.
  Of row security: `RowsAreOwn` and `SwitchesAreRehearsed` for any processes, pools, calls and deployments.
  `RowInv` says that a connection serves one call of its own process and is clean when free (`Connections`),
  what setting and role it carries at each statement (`Scoped`), on whose behalf and in which kind of
  process a call runs (`Called`), and what booting has established (`Booted`).
* `ChatTurnProofs`: all six safety properties of `ChatTurn` for any requests, conversations, keys, faults and
  restarts, from one invariant. `TurnInv` has seven parts for each thread: the words of its stream, its row in
  the run log, that an answered row is final, when its message is stored, what a replay shows, which threads may title,
  what a deletion leaves; and three between threads: a key has one row, a replay's source is answered (or was, and broke down since:
  `Answered`), a conversation has one first turn.
* `ConversationFlowProofs`: `HandledAsShown`, `ScopeIsWhole`, `CarriedNamesAreCertified` and `CarryKeepsPeriods` for any
  tabs, texts, offices, months, dates, histories and faults. `FlowAssumption` says what these are: dates in order,
  months that are first days, both in years that can be written (1900 to 2099, the pattern's own), texts whose phrases are
  ones the pattern matches (`IsPhrase`), offices per perspective, histories whose names and office are of the data and
  whose first day is not before the year 1899. No induction over
  data is needed: the lemmas say what any answer of the resolver, of a plan and of the period parser is
  (`ResolveIs`, `PortPlanIs`, `CustomerPlanIs`, `SideIs`, `ParseTurnIs`, `ReportPeriodsAre`), not how it is found.
  For the periods these are facts of the calendar: every form of phrase, and every two days carried from before, is a
  window of positive days, forward in time (`PhraseIs`, `CarriedIs`); so is the window a year before, also when the
  last of February is cut and when the end of a range falls on its start (`ShiftIs`); a period that is none although
  something was named has an issue (`BothAre`); and a window forward in time is found again from its two days
  (`TellingIs`). That is why the turn's slots stand for its periods (`CarryIs`), and `Speaks` carries it through
  the steps of the turn.
  `HandledAsShown` is far from inductive. `FlowInv` adds that a tab that is alone is the only one at work
  (`Alone`); that the question of the screen that is the last word is the one the stored slots and
  `brief_done` expect (`LastWord`); and, for a turn that is alone, the way from the one to the other (`Course`): what it was
  asked is what the row it reads expects, the branch it took leads to the question it will ask, by writes in
  one of a few orders, and once they are made the row expects that question.
* `JwksCacheProofs`, for any requests, key ids and bounds under `JwksAssumption`. None of the four
  properties is inductive. `JwksInv` adds that the slot's time is that of the newest attempt and that
  all others are over (`Claims`, `Fetches`), that readings about to be used are at most `Delay` old
  (`Readings`), and the relation between caches and history (`Lists`, `Justified`): a key id that is not
  cached was missing from a list at least as new as any successful fetch, and each negative entry was
  recorded soon after such a list. The suppressed refusal, which looks nothing up, is right because of
  `Lists` and `Interval <= NegativeTTL`.
* `SkillProofs`. `OneCorrectionEach` for any skills, iterations and calls: the invariant adds that `spent` is
  exactly the set of skills with a failed record, and that the loop is at work only while no failure ended the
  turn. `DispatchShowsItsParts`: `WireInv` says that the starts stand on the wire once each and in order (`Wire`),
  that what a dispatch showed is settled once it is over (`Settled`), and that what the one at work has shown is
  exactly the parts counted as streamed, which is all that its skill made if it is the first and streams: from that
  the rest of the result begins at the right part. `MessageFollowsTheTurn`: `MessageInv` says that the message is
  what the dispatches that are over tell, followed by the event and parts of the one at work, and that no
  event in it is later than the last record, so that a finished event is found where it is and replaced. Both
  for any skills, iterations, calls and parts, by the facts about folds. `BriefIsWhole` for any settings and answers of the tools: `BriefInv` says how many parts are laid at each
  moment (`Phases`), that a part stands at its place (`Placed`), which of them the findings are, in the order
  of the calls (`Findings`, `Contents`), and that what a successful brief returns is what the parts show.
* `ChatClientProofs` (chat client, limiter, votes): `ThumbsFollowTheOpener` for any conversations, page sizes, scripts, requests and turns.
  `ClientInv` says what a page is whenever it was cut and however late it lands (`PageOf`: never
  empty, and it has the opener exactly if nothing is before it), that a cursor is never 1 and never beyond
  the rows, and that a thread loaded to its start, or showing an opener, is one whose opener is known (`Known`).
  `ChunksWellFormed` for any streams with one terminal frame, the last (`ClientAssumption`; that the server's
  streams are like that is `MessagesComeFirst` of `ChatTurn`): the chunks sent so far are readable and the
  translator's own flags agree with them (`Telling`), frame after frame by the facts about folds.
  `SettledShowsTheTurn` for any conversations, page sizes, turns and streams, however pages, drops and
  recoveries overlap: `SettledInv` says that the thread of a turn holds its message once, with what the frames read
  so far made of it and no frame number beyond them (`Held`), for good if the stream ended early, else until the turn
  is over and it holds the whole answer or an error (`ShownIn`), and that neither the cursor nor a page of earlier messages on its way reaches the row of an
  answer the thread already shows (`NotBefore`, `Ending`): without this a late page could bring the
  message twice, and the frames would go to the wrong one.
  `AdmittedWithinRate` for any keys, threads, capacity and delay, and
  `SettledVoteIsRecorded` for any tabs and requests. The limiter's bound was first stated with one delay's slack for
  all; the proof did not go through, and TLC found three threads and two sweeps that exceed it. The
  bound above, with what each sweep gives away, is the one that holds. Its invariant adds up, for every admitted request, what
  was let through since and what is left in the bucket. For the votes it says what the one request under way
  will do to the entry it follows.

Only model-checked:

* `NoMessageTwice` of `ChatClient`. It holds of the run's one turn and not for all
  constants: with two turns and pages of one message TLC finds that the answer of a turn that was broken off is
  stored after the answer of the next, a reload then starts after the live answer, the live turn's next frame
  adds its message again, and the page before brings it a second time. A page of the
  server has 200 messages (`history.py:487`), so that it takes about as many rows stored during one turn.
* `ChipSettles` of `ConversationFlow`, which says that the parser reads each chip's own words back as what the chip
  offers: the search over all phrases and names of a text.
* the other skills: their tables and figures are searches and sums over sets of sales of any size, by operators
  that the prover's library knows nothing of.
* liveness (`PendingSettles`, `StreamEnds`), which is out of the prover's reach.

## 6. Plan

1. Done: the queue, the memory versions, their composition, the chat turn, the routed turn, the key
   cache, the first theorems.
2. Done: the parser and the flows, the chat client with votes and limiter, the skills.
3. Done: row-level security; theorems about the chat turn, the flows and the periods they carry, the chat client, the
   limiter, the votes, the composition of the queue with the documents, row security, the routed turn and the briefs.
4. Theorems worth proving next: that a chip settles its question (`ChipSettles`), and the bound under which the chat client shows no message twice.

## 7. Not modelled

* What a provider reads out of a header or a token before it has a name; the open routes. `RowSecurity` shows that
  a request sees one user's rows, and the other modules take that user's view.
* The supplier perspective of the report, `mom.driver`, WIN_RATE and counts, the volume mode of the
  ledger view, the Snowflake dialect: the same queries and tables over other columns.
* The streaming calls of the providers (`invoke_stream`), which nothing in the product calls; the wire of
  the MCP client, which no deployment configures (it always degrades).
* Settings store and panels of the frontend, pages and report proxies of the Next.js tier: views of one
  request each.
* Development and demo surfaces, rollup and export scripts, configuration, logging, prompts: no
  concurrent state, or data the properties do not tell apart. Columns and constraints the modules rely
  on are cited from the migrations; the roles and policies they make are in `RowSecurity`.
