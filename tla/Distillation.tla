---------------------------- MODULE Distillation ----------------------------
(***************************************************************************)
(* The distillation queue (MemoryQueue) together with what it is for: the  *)
(* memory documents the workers rewrite and their owners edit at the same  *)
(* time.  Every action of the queue is conjoined with its effect on the    *)
(* documents; write_version is one step here, since UserMemory shows that  *)
(* concurrent writes of one user are serialised.                           *)
(*                                                                         *)
(* The model is taken at its best behaviour: it returns every entry it was *)
(* shown and adds at most one.  What can still go wrong is then the code's *)
(* doing.                                                                  *)
(***************************************************************************)
EXTENDS MemoryQueue, MemoryDocument, SequencesExt

CONSTANTS
  Users,
  OwnerOf,        \* conversation -> user
  Facts,          \* what an entry can say
  Malformed,      \* a statement whose type is outside the closed set
  MaxEntries,     \* memory_max_chars, counted in entries
  MaxVersions     \* bound: no write once a document reached this version

ASSUME DistillationAssumption ==
  /\ OwnerOf \in [Conversations -> Users]
  /\ KeepVersions \in Int /\ MaxEntries \in Nat /\ MaxVersions \in Nat
  /\ Malformed \notin Facts

VARIABLES
  memory,   \* per user, the document's versions
  log,      \* history: per user, every version ever written, in order
  base,     \* per worker, the version get_current returned before the call
  draft,    \* per worker, the entries it is going to write
  page      \* per user, the entries their settings page shows

docVars == <<memory, log, base, draft, page>>
allVars == <<vars, docVars>>

\* An entry keeps the conversation it was learned from; the user's own have
\* none.  A document is a list: nothing keeps an entry from being there twice.
Entry == [says : Facts \union {Malformed}, from : Conversations \union {"user"}]
Statements(entries) == [i \in DOMAIN entries |-> entries[i].says]

Version == [entries : Seq(Entry), by : {"user", "distiller"}]
Nothing == [version |-> 0, entries |-> <<>>]

DocTypeOK ==
  /\ \A u \in Users : \A v \in DOMAIN memory[u] :
       v \in 1 .. MaxVersions /\ memory[u][v] \in Version
  /\ log \in [Users -> Seq(Version)]
  /\ base \in [Workers -> [version : Nat, entries : Seq(Entry)]]
  /\ draft \in [Workers -> Seq(Entry)]
  /\ page \in [Users -> Seq(Entry)]

DocInit ==
  /\ Init
  /\ memory = [u \in Users |-> NoVersions]
  /\ log = [u \in Users |-> <<>>]
  /\ base = [w \in Workers |-> Nothing]
  /\ draft = [w \in Workers |-> <<>>]
  /\ page = [u \in Users |-> <<>>]

\* get_current(), nothing for a user without memory.
Newest(u) ==
  IF DOMAIN memory[u] = {} THEN Nothing
  ELSE LET n == Latest(memory[u]) IN [version |-> n, entries |-> memory[u][n].entries]
Entries(u) == Newest(u).entries

\* write_version's checks, in front of any SQL.
Refused(entries) ==
  \/ Malformed \in ToSet(Statements(entries))
  \/ Len(entries) > MaxEntries

Write(u, entries, by) ==
  LET written == [entries |-> entries, by |-> by] IN
  /\ ~Refused(entries)
  /\ Latest(memory[u]) < MaxVersions
  /\ memory' = [memory EXCEPT ![u] = Inserted(@, Latest(@) + 1, written)]
  /\ log' = [log EXCEPT ![u] = Append(@, written)]

-----------------------------------------------------------------------------
(* The worker's actions, with their effect on the documents.                *)

Owner(w) == OwnerOf[Current(w).conv]

ReadBase(w) ==
  /\ ReadTranscript(w)
  /\ base' = [base EXCEPT ![w] = IF phase'[w] = "distil" THEN Newest(Owner(w)) ELSE Nothing]
  /\ UNCHANGED <<memory, log, draft, page>>

\* Mutant: the claimed conversation is stamped on every entry.
StampedAll(statements, existing, c) ==
  [i \in DOMAIN statements |-> [says |-> statements[i], from |-> c]]

\* _stamp_entries: a statement that was there keeps its provenance, the last
\* one's if it was there twice; the others get the claimed conversation's.
Stamped(statements, existing, c) ==
  LET At(s) == {k \in DOMAIN existing : existing[k].says = s}
  IN [i \in DOMAIN statements |->
        LET s == statements[i] IN
        IF At(s) = {} THEN [says |-> s, from |-> c] ELSE existing[Max(At(s))]]

\* An empty answer writes nothing; one with entries is every existing entry,
\* in order, with or without one statement more.
ParseEntries(w) ==
  /\ ParseAnswer(w)
  /\ IF phase'[w] = "write"
       THEN \E more \in BoundedSeq(Facts \union {Malformed}, 1) :
              LET answer == Statements(base[w].entries) \o more IN
              /\ answer # <<>>
              /\ draft' = [draft EXCEPT
                   ![w] = Stamped(answer, base[w].entries, Current(w).conv)]
       ELSE draft' = [draft EXCEPT ![w] = <<>>]
  /\ UNCHANGED <<memory, log, base, page>>

WriteVersion(w) ==
  /\ WriteAccepted(w)
  /\ Write(Owner(w), draft[w], "distiller")
  /\ UNCHANGED <<base, draft, page>>

\* Mutant: a refused version is logged, and the row marked done.
RefuseAndFinish(w) ==
  /\ WriteAccepted(w)
  /\ Refused(draft[w])
  /\ UNCHANGED docVars

\* The version is refused, or its statement fails.
RefuseVersion(w) ==
  /\ WriteRefused(w)
  /\ UNCHANGED docVars

\* A row is left behind, and with it what was read and drafted for it.
LeaveRow(w) ==
  /\ FindVanished(w) \/ MarkDone(w) \/ RecordFailure(w) \/ RowError(w) \/ Kill(w)
  /\ base' = [base EXCEPT ![w] = Nothing] /\ draft' = [draft EXCEPT ![w] = <<>>]
  /\ UNCHANGED <<memory, log, page>>

-----------------------------------------------------------------------------
(* The owner's settings page (api/me.py).                                   *)

\* GET /me/memory.
OpenPage(u) ==
  /\ page[u] # Entries(u)
  /\ page' = [page EXCEPT ![u] = Entries(u)]
  /\ UNCHANGED <<vars, memory, log, base, draft>>

\* PUT /me/memory with the whole edited list: entries of the page kept, left
\* out or repeated, and statements of their own.
PutMemory(u) ==
  LET own == {[says |-> s, from |-> "user"] : s \in Facts} IN
  /\ \E edited \in BoundedSeq(ToSet(page[u]) \union own, MaxEntries) :
       /\ Write(u, edited, "user")
       /\ page' = [page EXCEPT ![u] = edited]
  /\ UNCHANGED <<vars, base, draft>>

\* POST /me/memory/versions/{v}/restore: the old entries as a new version.
RestoreVersion(u, v) ==
  /\ v \in DOMAIN memory[u]
  /\ Write(u, memory[u][v].entries, "user")
  /\ page' = [page EXCEPT ![u] = memory[u][v].entries]
  /\ UNCHANGED <<vars, base, draft>>

-----------------------------------------------------------------------------
DocNext ==
  \/ /\ \/ Tick
        \/ \E t \in Turns : TurnStep(t)
        \/ \E c \in Conversations : DeleteConversation(c)
        \/ \E w \in Workers : ClaimIdle(w) \/ ModelAnswers(w) \/ ModelRaises(w)
     /\ UNCHANGED docVars
  \/ \E w \in Workers :
       \/ ReadBase(w) \/ ParseEntries(w) \/ WriteVersion(w) \/ RefuseVersion(w)
       \/ LeaveRow(w)
  \/ \E u \in Users :
       \/ OpenPage(u) \/ PutMemory(u)
       \/ \E v \in DOMAIN memory[u] : RestoreVersion(u, v)

DocSpec == DocInit /\ [][DocNext]_allVars

-----------------------------------------------------------------------------
(* Properties.                                                              *)

New(u) == memory'[u][Latest(memory'[u])]

\* A write can be undone with one restore: the version it supersedes is
\* still in the table right after it, so the previous content is never gone
\* before its owner could have seen it replaced.
OneClickRestore ==
  [][\A u \in Users :
       memory'[u] # memory[u] /\ Latest(memory[u]) > 0
         => Latest(memory[u]) \in DOMAIN memory'[u]]_allVars

\* The audit trail of where a memory came from survives distillation: what
\* the worker writes of a statement it had read is one of the entries it had
\* read - the same source, and never the conversation at hand.  (Of equal
\* statements with several sources only the last one's source survives.)
ProvenanceSurvives ==
  [][\A w \in Workers :
       phase[w] = "write" /\ phase'[w] = "finish"
         => LET read == ToSet(base[w].entries) IN
            \A new \in ToSet(New(Owner(w)).entries) :
              (\E old \in read : old.says = new.says) => new \in read]_allVars

\* Nothing learned is dropped on the way to "done": a worker that comes to
\* mark its row with entries in hand has written them as a version of its
\* own, after the one it had read; that version is in the table as written,
\* or as many later versions as are kept have pushed it out.
WrittenBeforeDone ==
  \A w \in Workers :
    phase[w] = "finish" /\ draft[w] # <<>> =>
      LET u == Owner(w) IN
      \E v \in DOMAIN log[u] :
        /\ v > base[w].version
        /\ log[u][v] = [entries |-> draft[w], by |-> "distiller"]
        /\ \/ v \in DOMAIN memory[u] /\ memory[u][v] = log[u][v]
           \/ KeepVersions >= 1 /\ Len(log[u]) >= v + KeepVersions

\* What docs/architecture/05-auth-identity.md:176-177 says: the distiller
\* preserves what the user wrote.  The version it writes over holds nothing
\* of the user's that the new one lacks.
UserEntriesPreserved ==
  [][\A u \in Users :
       memory'[u] # memory[u] /\ New(u).by = "distiller"
         => {e \in ToSet(Entries(u)) : e.from = "user"} \subseteq ToSet(New(u).entries)]_allVars
=============================================================================
