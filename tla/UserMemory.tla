----------------------------- MODULE UserMemory -----------------------------
(***************************************************************************)
(* Version allocation in one user's memory (core/personalization/memory.py)*)
(* under concurrent writers: PUT /api/me/memory, the restore route and the *)
(* background distiller.  write_version reads MAX(version) and inserts     *)
(* MAX + 1; a transaction-scoped advisory lock is all that keeps two of    *)
(* them from choosing the same number.  Statements of a transaction are    *)
(* separate steps; its writes become visible when it commits.              *)
(***************************************************************************)
EXTENDS MemoryDocument, Sequences

CONSTANTS
  Writers,       \* requests and worker rows that write, one write each at a time
  Documents,     \* entry lists, some too large or not valid
  Acceptable,    \* the ones within memory_max_chars, of the closed types
  MaxVersions    \* bound: no write starts once this many versions exist

ASSUME MemoryAssumption ==
  /\ KeepVersions \in Int
  /\ MaxVersions \in Nat
  /\ Acceptable \subseteq Documents /\ Documents # {}

VARIABLES
  table,    \* user_memory: the committed rows, version -> entries and author
  holder,   \* the writers in the transaction that has the advisory lock
  pc,       \* per writer, the statement it comes to next
  draft,    \* per writer, what it is going to write
  top,      \* per writer, the MAX(version) it read
  log       \* history: every version ever committed, in commit order

vars == <<table, holder, pc, draft, top, log>>

Author  == {"user", "distiller"}
Version == [entries : Documents, by : Author]
NoDraft == [entries |-> CHOOSE d \in Documents : TRUE, by |-> "user"]

TypeOK ==
  /\ DOMAIN table \subseteq Nat
  /\ \A v \in DOMAIN table : table[v] \in Version
  /\ holder \subseteq Writers
  /\ pc \in [Writers -> {"idle", "ready", "locked", "numbered", "inserted"}]
  /\ draft \in [Writers -> Version]
  /\ top \in [Writers -> Nat]
  /\ log \in Seq(Version)

Init ==
  /\ table = NoVersions
  /\ holder = {}
  /\ pc = [w \in Writers |-> "idle"]
  /\ draft = [w \in Writers |-> NoDraft]
  /\ top = [w \in Writers |-> 0]
  /\ log = <<>>

Step(w, from, to) ==
  /\ pc[w] = from
  /\ pc' = [pc EXCEPT ![w] = to]

\* The lock goes with the transaction, and so do the writer's own values.
EndTransaction(w) ==
  /\ holder' = holder \ {w}
  /\ draft' = [draft EXCEPT ![w] = NoDraft]
  /\ top' = [top EXCEPT ![w] = 0]

\* Validation and the size cap come before any connection is opened; what
\* they reject raises, and nothing changes.
StartWrite(w, d, by) ==
  /\ d \in Acceptable
  /\ Len(log) < MaxVersions
  /\ Step(w, "idle", "ready")
  /\ draft' = [draft EXCEPT ![w] = [entries |-> d, by |-> by]]
  /\ UNCHANGED <<table, holder, top, log>>

\* restore() reads the old version in a transaction of its own and then
\* writes it as the user's, whatever has happened to it in between.  The
\* entries passed the checks when they were first written; they are checked
\* again, against today's limits.
StartRestore(w, v) ==
  /\ v \in DOMAIN table
  /\ StartWrite(w, table[v].entries, "user")

\* Mutant: no advisory lock.
TakeNoLock(w) ==
  /\ Step(w, "ready", "locked")
  /\ holder' = holder \union {w}
  /\ UNCHANGED <<table, draft, top, log>>

TakeLock(w) ==
  /\ holder = {}
  /\ Step(w, "ready", "locked")
  /\ holder' = holder \union {w}
  /\ UNCHANGED <<table, draft, top, log>>

ReadMax(w) ==
  /\ Step(w, "locked", "numbered")
  /\ top' = [top EXCEPT ![w] = Latest(table)]
  /\ UNCHANGED <<table, holder, draft, log>>

\* INSERT of a number that is free; one that another transaction has just
\* inserted waits for it, and one that is taken violates the primary key.
Insert(w) ==
  /\ top[w] + 1 \notin DOMAIN table
  /\ \A x \in Writers : pc[x] = "inserted" => top[x] # top[w]
  /\ Step(w, "numbered", "inserted")
  /\ UNCHANGED <<table, holder, draft, top, log>>

\* The prune and the commit, which also ends the lock.
Commit(w) ==
  /\ Step(w, "inserted", "idle")
  /\ table' = Inserted(table, top[w] + 1, draft[w])
  /\ log' = Append(log, draft[w])
  /\ EndTransaction(w)

\* The request or its connection dies before the commit.
Rollback(w) ==
  /\ pc[w] # "idle"
  /\ pc' = [pc EXCEPT ![w] = "idle"]
  /\ EndTransaction(w)
  /\ UNCHANGED <<table, log>>

WriterStep(w) == TakeLock(w) \/ ReadMax(w) \/ Insert(w) \/ Commit(w)

Next ==
  \E w \in Writers :
    \/ \E d \in Documents, by \in Author : StartWrite(w, d, by)
    \/ \E v \in DOMAIN table : StartRestore(w, v)
    \/ WriterStep(w)
    \/ Rollback(w)

Spec == Init /\ [][Next]_vars

-----------------------------------------------------------------------------
(* Properties.                                                              *)

\* The version a writer is about to insert is free, so the primary key never
\* rejects a write: write_version needs neither a retry nor a handler.
NoCollision ==
  \A w \in Writers : pc[w] \in {"numbered", "inserted"} => top[w] + 1 \notin DOMAIN table

\* No committed write is lost or renumbered: the table always is the newest
\* KeepVersions of everything that was ever committed, numbered in commit
\* order (all of it when KeepVersions is below 1).
TableIsTailOfLog ==
  table = [v \in Retained(1 .. Len(log), Len(log)) |-> log[v]]

\* Both: the versions of a memory are numbered without collision and without loss.
NumberingIsSound == NoCollision /\ TableIsTailOfLog
=============================================================================
