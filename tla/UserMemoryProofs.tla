-------------------------- MODULE UserMemoryProofs --------------------------
(***************************************************************************)
(* Proofs about UserMemory, for any writers, any documents and any         *)
(* retention (the advisory lock makes MAX(version) + 1 free, and no write  *)
(* is lost or renumbered), and about RowSecurity, the database it writes   *)
(* to, for any users and sessions: a statement sees and writes the rows of *)
(* the user it was opened for.                                             *)
(***************************************************************************)
EXTENDS UserMemory, RowSecurity, TLAPS, SequenceTheorems

InWrite == {"locked", "numbered", "inserted"}

\* The lock is held from before the read of MAX(version) to the commit.
LockCoversTransaction ==
  /\ \A w \in Writers : w \in holder <=> pc[w] \in InWrite
  /\ \A v, w \in holder : v = w

\* What the holder has read is still the latest version.
NumberIsCurrent ==
  \A w \in Writers : pc[w] \in {"numbered", "inserted"} => top[w] = Len(log)

MemoryInv == TypeOK /\ LockCoversTransaction /\ NumberIsCurrent /\ TableIsTailOfLog

-----------------------------------------------------------------------------
(* The document under insert and prune.                                     *)

LEMMA RetainedAgain ==
  ASSUME NEW n \in Nat
  PROVE  /\ Retained(Retained(1 .. n, n) \union {n + 1}, n + 1) = Retained(1 .. n + 1, n + 1)
         /\ Retained(1 .. n, n) \subseteq 1 .. n
         /\ n # 0 => n \in Retained(1 .. n, n)
BY MemoryAssumption DEF Retained, MemoryAssumption

LEMMA LatestIsLength ==
  ASSUME TypeOK, TableIsTailOfLog
  PROVE  /\ Len(log) \in Nat
         /\ DOMAIN table = Retained(1 .. Len(log), Len(log))
         /\ Latest(table) = Len(log)
         /\ Len(log) + 1 \notin DOMAIN table
<1> DEFINE n == Len(log)
<1>1. n \in Nat
  BY LenProperties DEF TypeOK
<1>2. DOMAIN table = Retained(1 .. n, n)
  BY DEF TableIsTailOfLog
<1>3. DOMAIN table \subseteq 1 .. n /\ (n # 0 => n \in DOMAIN table)
  BY <1>1, <1>2, RetainedAgain
<1>4. CASE n = 0
  BY <1>1, <1>2, <1>3, <1>4 DEF Latest
<1>5. CASE n # 0
  <2>1. n \in DOMAIN table /\ \A x \in DOMAIN table : x <= n
    BY <1>1, <1>3, <1>5
  <2>2. \A v \in DOMAIN table : (\A x \in DOMAIN table : x <= v) => v = n
    BY <1>1, <1>3, <2>1
  <2>3. Latest(table) = n
    BY <2>1, <2>2 DEF Latest
  <2>4. QED
    BY <1>1, <1>2, <1>3, <2>3
<1>6. QED
  BY <1>4, <1>5

LEMMA InsertExtendsTail ==
  ASSUME TypeOK, TableIsTailOfLog, NEW d \in Version
  PROVE  Inserted(table, Len(log) + 1, d)
           = [v \in Retained(1 .. Len(log) + 1, Len(log) + 1) |-> Append(log, d)[v]]
<1> DEFINE n == Len(log)
           kept == Retained(1 .. n + 1, n + 1)
<1>1. /\ n \in Nat /\ DOMAIN table = Retained(1 .. n, n) /\ kept \subseteq 1 .. n + 1
      /\ log \in Seq(Version)
  BY LatestIsLength DEF TypeOK, Retained
<1>2. Retained(DOMAIN table \union {n + 1}, n + 1) = kept
  BY <1>1, RetainedAgain
<1>3. /\ \A v \in 1 .. n : Append(log, d)[v] = log[v]
      /\ Append(log, d)[n + 1] = d
  BY <1>1, AppendProperties
<1>4. \A v \in kept : v # n + 1 => v \in DOMAIN table /\ v \in 1 .. n
  BY <1>1, <1>2 DEF Retained
<1>5. \A v \in DOMAIN table : table[v] = log[v]
  BY DEF TableIsTailOfLog
<1>6. \A v \in kept : (IF v = n + 1 THEN d ELSE table[v]) = Append(log, d)[v]
  BY <1>3, <1>4, <1>5
<1>7. QED
  BY <1>2, <1>6 DEF Inserted

-----------------------------------------------------------------------------
LEMMA MemoryInvInit == Init => MemoryInv
<1> SUFFICES ASSUME Init PROVE MemoryInv
  OBVIOUS
<1>1. NoDraft \in Version
  BY MemoryAssumption DEF NoDraft, Version, Author, MemoryAssumption
<1>2. <<>> \in Seq(Version) /\ Len(<<>>) = 0
  BY EmptySeq
<1>3. TypeOK
  BY <1>1, <1>2 DEF Init, TypeOK, NoVersions
<1>4. LockCoversTransaction /\ NumberIsCurrent
  BY DEF Init, LockCoversTransaction, NumberIsCurrent, InWrite
<1>5. Retained(1 .. 0, 0) = {}
  BY DEF Retained
<1>6. TableIsTailOfLog
  BY <1>2, <1>5 DEF Init, TableIsTailOfLog, NoVersions
<1>7. QED
  BY <1>3, <1>4, <1>6 DEF MemoryInv

LEMMA MemoryInvNext == MemoryInv /\ [Next]_vars => MemoryInv'
<1> SUFFICES ASSUME MemoryInv, [Next]_vars PROVE MemoryInv'
  OBVIOUS
<1> USE DEF MemoryInv
<1>1. NoDraft \in Version
  BY MemoryAssumption DEF NoDraft, Version, Author, MemoryAssumption
<1>2. ASSUME NEW w \in Writers, NEW d \in Documents, NEW by \in Author, StartWrite(w, d, by)
      PROVE  MemoryInv'
  <2>1. [entries |-> d, by |-> by] \in Version
    BY DEF Version
  <2>2. TypeOK'
    BY <1>2, <2>1 DEF StartWrite, Step, TypeOK
  <2>3. LockCoversTransaction' /\ NumberIsCurrent'
    BY <1>2 DEF StartWrite, Step, TypeOK, LockCoversTransaction, NumberIsCurrent, InWrite
  <2>4. TableIsTailOfLog'
    BY <1>2 DEF StartWrite, TableIsTailOfLog
  <2>5. QED
    BY <2>2, <2>3, <2>4
<1>3. ASSUME NEW w \in Writers, NEW v \in DOMAIN table, StartRestore(w, v) PROVE MemoryInv'
  <2>1. table[v].entries \in Documents /\ "user" \in Author
    BY DEF TypeOK, Version, Author
  <2>2. QED
    BY <1>2, <1>3, <2>1 DEF StartRestore
<1>4. ASSUME NEW w \in Writers, TakeLock(w) PROVE MemoryInv'
  <2>1. TypeOK'
    BY <1>4 DEF TakeLock, Step, TypeOK
  <2>2. LockCoversTransaction' /\ NumberIsCurrent'
    BY <1>4 DEF TakeLock, Step, TypeOK, LockCoversTransaction, NumberIsCurrent, InWrite
  <2>3. TableIsTailOfLog'
    BY <1>4 DEF TakeLock, TableIsTailOfLog
  <2>4. QED
    BY <2>1, <2>2, <2>3
<1>5. ASSUME NEW w \in Writers, ReadMax(w) PROVE MemoryInv'
  <2>1. Latest(table) = Len(log) /\ Len(log) \in Nat
    BY LatestIsLength
  <2>2. TypeOK'
    BY <1>5, <2>1 DEF ReadMax, Step, TypeOK
  <2>3. LockCoversTransaction' /\ NumberIsCurrent'
    BY <1>5, <2>1 DEF ReadMax, Step, TypeOK, LockCoversTransaction, NumberIsCurrent, InWrite
  <2>4. TableIsTailOfLog'
    BY <1>5 DEF ReadMax, TableIsTailOfLog
  <2>5. QED
    BY <2>2, <2>3, <2>4
<1>6. ASSUME NEW w \in Writers, Insert(w) PROVE MemoryInv'
  <2>1. TypeOK'
    BY <1>6 DEF Insert, Step, TypeOK
  <2>2. LockCoversTransaction' /\ NumberIsCurrent'
    BY <1>6 DEF Insert, Step, TypeOK, LockCoversTransaction, NumberIsCurrent, InWrite
  <2>3. TableIsTailOfLog'
    BY <1>6 DEF Insert, TableIsTailOfLog
  <2>4. QED
    BY <2>1, <2>2, <2>3
<1>7. ASSUME NEW w \in Writers, Commit(w) PROVE MemoryInv'
  <2> DEFINE n == Len(log)
  <2>1. /\ top[w] = n /\ n \in Nat /\ draft[w] \in Version /\ log \in Seq(Version)
        /\ w \in holder /\ \A x \in holder : x = w
    BY <1>7, LatestIsLength DEF Commit, Step, NumberIsCurrent, TypeOK, LockCoversTransaction,
                                InWrite
  <2>2. /\ table' = [v \in Retained(1 .. n + 1, n + 1) |-> Append(log, draft[w])[v]]
        /\ log' = Append(log, draft[w])
    BY <1>7, <2>1, InsertExtendsTail DEF Commit
  <2>3. /\ log' \in Seq(Version) /\ Len(log') = n + 1
        /\ \A v \in 1 .. n + 1 : Append(log, draft[w])[v] \in Version
    <3>1. log' \in Seq(Version) /\ Len(log') = n + 1
      BY <2>1, <2>2, AppendProperties
    <3>2. \A v \in 1 .. Len(log') : log'[v] \in Version
      BY <3>1, ElementOfSeq
    <3>3. QED
      BY <2>2, <3>1, <3>2
  <2>4. Retained(1 .. n + 1, n + 1) \subseteq 1 .. n + 1
    BY <2>1 DEF Retained
  <2>5. TypeOK'
    <3>1. DOMAIN table' \subseteq Nat /\ \A v \in DOMAIN table' : table'[v] \in Version
      BY <2>1, <2>2, <2>3, <2>4
    <3>2. QED
      BY <1>1, <1>7, <2>3, <3>1 DEF Commit, Step, EndTransaction, TypeOK
  <2>6. LockCoversTransaction' /\ NumberIsCurrent'
    BY <1>7, <2>1 DEF Commit, Step, EndTransaction, TypeOK, LockCoversTransaction,
                      NumberIsCurrent, InWrite
  <2>7. TableIsTailOfLog'
    BY <2>2, <2>3 DEF TableIsTailOfLog
  <2>8. QED
    BY <2>5, <2>6, <2>7
<1>8. ASSUME NEW w \in Writers, Rollback(w) PROVE MemoryInv'
  <2>1. TypeOK'
    BY <1>1, <1>8 DEF Rollback, EndTransaction, TypeOK
  <2>2. LockCoversTransaction' /\ NumberIsCurrent'
    BY <1>8 DEF Rollback, EndTransaction, TypeOK, LockCoversTransaction, NumberIsCurrent,
                InWrite
  <2>3. TableIsTailOfLog'
    BY <1>8 DEF Rollback, TableIsTailOfLog
  <2>4. QED
    BY <2>1, <2>2, <2>3
<1>9. CASE UNCHANGED vars
  BY <1>9 DEF vars, TypeOK, LockCoversTransaction, NumberIsCurrent, TableIsTailOfLog
<1>10. QED
  BY <1>2, <1>3, <1>4, <1>5, <1>6, <1>7, <1>8, <1>9 DEF Next, WriterStep

LEMMA MemoryInvAlways == Spec => []MemoryInv
BY MemoryInvInit, MemoryInvNext, PTL DEF Spec

\* Every reachable state is of the declared types.
THEOREM MemoryTypeCorrect == Spec => []TypeOK
<1>1. MemoryInv => TypeOK
  BY DEF MemoryInv
<1>2. QED
  BY <1>1, MemoryInvAlways, PTL

\* However many writers there are, the version number write_version is
\* about to insert is free.
LEMMA VersionNumbersAreFree == Spec => []NoCollision
<1>1. MemoryInv => NoCollision
  <2> SUFFICES ASSUME MemoryInv PROVE NoCollision
    OBVIOUS
  <2>1. Len(log) + 1 \notin DOMAIN table
    BY LatestIsLength DEF MemoryInv
  <2>2. QED
    BY <2>1 DEF MemoryInv, NumberIsCurrent, NoCollision
<1>2. QED
  BY <1>1, MemoryInvAlways, PTL

\* The table is the newest KeepVersions of every write that ever committed,
\* numbered in commit order: no concurrent write is lost or overwritten.
LEMMA NoWriteIsLost == Spec => []TableIsTailOfLog
<1>1. MemoryInv => TableIsTailOfLog
  BY DEF MemoryInv
<1>2. QED
  BY <1>1, MemoryInvAlways, PTL

\* Both, for any number of writers and any versions kept: the advisory lock is
\* all write_version needs.
THEOREM VersionsAreSound == Spec => []NumberingIsSound
<1>1. NoCollision /\ TableIsTailOfLog => NumberingIsSound
  BY DEF NumberingIsSound
<1>2. QED
  BY <1>1, VersionNumbersAreFree, NoWriteIsLost, PTL
-----------------------------------------------------------------------------
(***************************************************************************)
(* RowSecurity, for any processes, calls, pools and deployments: a         *)
(* statement sees the rows of the user it is run for, and a checked        *)
(* process is denied no role.  The invariant says what a connection        *)
(* carries at every point of a transaction, and what a boot has            *)
(* established.                                                            *)
(***************************************************************************)

InTransaction(r) == stage[r] \in {"begun", "assumed", "read"}

\* A connection serves one call of its own process at a time, and is clean when it is free.
Holds(r) ==
  /\ InTransaction(r) <=> conn[r] # NoCall
  /\ InTransaction(r) => PoolOf[conn[r]] = at[r]
Connections ==
  /\ \A r \in Calls : Holds(r)
  /\ \A r, q \in Calls : conn[r] = conn[q] /\ conn[r] # NoCall => r = q
  /\ \A c \in Pool : Free(c) => session[c] = Clear

\* What it carries between the first statement and the read.
Scoped(r) ==
  /\ stage[r] = "begun" => session[conn[r]].role = Login
  /\ stage[r] \in {"begun", "assumed"} /\ task[r] # "claim" => session[conn[r]].sub = caller[r]
  /\ stage[r] = "assumed" =>
       session[conn[r]].role = (IF RoleFor(r) = NoRole THEN Login ELSE RoleFor(r))

\* On whose behalf a call runs, and in which kind of process.
Called(r) ==
  /\ stage[r] # "idle" => up[at[r]]
  /\ task[r] = "own" => caller[r] = vouched[r]
  /\ task[r] = "own" /\ stage[r] # "idle" => config[at[r]].kind # "script"
  /\ task[r] = "claim" => config[at[r]].kind = "worker"
  /\ task[r] = "rollup" => config[at[r]].kind = "script"

\* What booting has established; the schema may have been taken back since.
Booted ==
  \A p \in Processes :
    /\ up[p] => SettingsFit(p)
    /\ verdict[p] # "none" => (Bypasses(p, Login) => config[p].appRole # NoRole)
    /\ verdict[p] = "passed" => PrivilegesFit(p)

RowInv ==
  /\ RowTypeOK /\ Connections /\ Booted
  /\ \A r \in Calls : Scoped(r) /\ Called(r)
  /\ RowsAreOwn /\ SwitchesAreRehearsed

-------------------------------------------------------------------------------
(* The operators.                                                             *)

LEMMA ConfigTyped ==
  ASSUME RowTypeOK, NEW p \in Processes
  PROVE  config[p] \in Config
BY RowAssumption DEF RowTypeOK

LEMMA RoleForIs ==
  ASSUME RowTypeOK, NEW r \in Calls
  PROVE  /\ task[r] = "own" => RoleFor(r) = config[at[r]].appRole
         /\ task[r] = "claim" => RoleFor(r) = Worker
         /\ task[r] = "rollup" => RoleFor(r) = Admin
         /\ task[r] \in {"own", "claim", "rollup"}
BY DEF RowTypeOK, RoleFor

LEMMA AnywhereIsSomewhere == Anywhere \in Processes
BY RowAssumption DEF Anywhere

\* No policy opens the messages to anyone but their owner.
LEMMA NoOneReadsMessages ==
  ASSUME NEW r PROVE <<r, "messages">> \notin OpenPolicies
BY DEF OpenPolicies, WorkerPolicy, AdminPolicy

LEMMA OnlyOne ==
  ASSUME NEW S, NEW s \in Seq(S), s # << >>, Len(s) <= 1
  PROVE  Len(s) = 1
<1>1. Len(s) \in Nat \ {0}
  BY EmptySeq, Zenon
<1>2. QED
  BY <1>1

\* A request that goes on is on behalf of the user the edge named.
LEMMA CallerIsVouched ==
  ASSUME RowTypeOK, NEW p \in Processes, NEW m \in Messages, Identity(p, m).sales
  PROVE  Identity(p, m).sub = Vouched(p, m) /\ Identity(p, m).sub \in UserSubs
<1>1. /\ config[p].mode \in Modes /\ config[p].sales \in SUBSET Names
      /\ m.values \in Seq(Credential)
  BY RowAssumption, ConfigTyped DEF Config, Message
<1>2. /\ ~Duplicated(p, m) /\ Identity(p, m) = Resolve(p, m) /\ Resolve(p, m).sales
  BY DEF Identity, Refused
<1>3. m.values # << >> => Presented(m) \in Credential
  BY <1>1 DEF Presented
<1>4. Default.sub \in UserSubs
  BY RowAssumption DEF Default, UserSubs, Modes
<1>5. \A n \in Names : Folded[n] # NoName => Folded[n] \in Names
  BY RowAssumption
<1>6. CASE config[p].mode = "disabled"
  <2>1. Resolve(p, m) = Disabled(m) /\ Vouched(p, m) = Disabled(m).sub
    BY <1>6 DEF Resolve, Vouched
  <2>2. Disabled(m).sub \in UserSubs
    BY <1>3, <1>4, <1>5 DEF Disabled, UserSubs, Modes, Credential
  <2>3. QED
    BY <1>2, <2>1, <2>2
<1>7. CASE config[p].mode # "disabled"
  <2>1. Len(m.values) <= 1
    BY <1>1, <1>2, <1>7 DEF Duplicated
  <2> DEFINE first == [m EXCEPT !.values = <<m.values[1]>>]
  <2>2. m.values # << >>
    BY <1>1, <1>2, <1>7 DEF Resolve, Modes, Auth0, SpcsIngress, Refused
  <2>3. Len(m.values) = 1
    BY <1>1, <2>1, <2>2, OnlyOne
  <2>4. first.values = <<m.values[1]>> /\ first.values # << >>
    <3>1. m \in [values : Seq(Credential), stray : BOOLEAN]
      BY RowAssumption DEF Message
    <3>2. QED
      BY <3>1
  <2>5. Presented(first) = Presented(m)
    BY <2>3, <2>4 DEF Presented
  <2>6. Vouched(p, m) = Resolve(p, first).sub
    BY <1>7, <2>2 DEF Vouched
  <2> HIDE DEF first
  <2>7. CASE config[p].mode = "auth0"
    <3>1. Resolve(p, m) = Auth0(m) /\ Resolve(p, first) = Auth0(first)
      BY <2>7 DEF Resolve
    <3>2. Auth0(first) = Auth0(m)
      BY <2>2, <2>4, <2>5 DEF Auth0
    <3>3. Auth0(m).sub \in UserSubs
      BY <1>2, <1>3, <2>2, <3>1 DEF Auth0, Refused, Credential, UserSubs, Modes
    <3>4. QED
      BY <1>2, <2>6, <3>1, <3>2, <3>3
  <2>8. CASE config[p].mode = "spcs_ingress"
    <3>1. Resolve(p, m) = SpcsIngress(p, m) /\ Resolve(p, first) = SpcsIngress(p, first)
      BY <2>8 DEF Resolve
    <3>2. SpcsIngress(p, first) = SpcsIngress(p, m)
      BY <2>2, <2>4, <2>5 DEF SpcsIngress
    <3>3. SpcsIngress(p, m).sub \in UserSubs
      BY <1>2, <1>3, <1>5, <2>2, <3>1 DEF SpcsIngress, Refused, Credential, UserSubs, Modes
    <3>4. QED
      BY <1>2, <2>6, <3>1, <3>2, <3>3
  <2>9. QED
    BY <1>1, <1>7, <2>7, <2>8 DEF Modes
<1>8. QED
  BY <1>6, <1>7

-------------------------------------------------------------------------------
(* The initial states, and the steps.                                         *)

LEMMA RowInvInit == RowInit => RowInv
<1> SUFFICES ASSUME RowInit PROVE RowInv
  OBVIOUS
<1>1. RowTypeOK
  <2>1. roles \in SUBSET Roles
    BY RowAssumption DEF RowInit
  <2>2. Clear \in [sub : UserSubs \union {Nobody}, role : Roles \union {Login}]
    BY DEF Clear
  <2>3. QED
    BY <2>1, <2>2, AnywhereIsSomewhere DEF RowInit, RowTypeOK, Statuses
<1>2. Connections
  BY DEF RowInit, Connections, Holds, InTransaction
<1>3. \A r \in Calls : Scoped(r) /\ Called(r)
  BY DEF RowInit, Scoped, Called
<1>4. Booted
  BY DEF RowInit, Booted
<1>5. RowsAreOwn /\ SwitchesAreRehearsed
  BY DEF RowInit, RowsAreOwn, SwitchesAreRehearsed
<1>6. QED
  BY <1>1, <1>2, <1>3, <1>4, <1>5 DEF RowInv

\* A step of the schema or of a membership that leaves the calls alone; memberships only
\* grow, or the verdicts are outdated.
LEMMA DatabaseSteps ==
  ASSUME RowInv, UNCHANGED <<config, up, session, call>>, RowTypeOK',
         \A p \in Processes : verdict'[p] = "none" <=> verdict[p] = "none",
         \A p \in Processes : verdict'[p] = "passed" =>
           /\ verdict[p] = "passed"
           /\ roles \subseteq roles' /\ members[p] \subseteq members'[p]
  PROVE  RowInv'
<1>1. \A r : RoleFor(r)' = RoleFor(r)
  BY DEF RoleFor, call
<1>2. Connections' /\ \A r \in Calls : Called(r)'
  BY DEF RowInv, Connections, Holds, Called, InTransaction, Free, call
<1>3. \A r \in Calls : Scoped(r)'
  BY <1>1 DEF RowInv, Scoped, call
<1>4. Booted'
  <2> SUFFICES ASSUME NEW p \in Processes
               PROVE  /\ up[p] => SettingsFit(p)'
                      /\ verdict'[p] # "none" => (Bypasses(p, Login)' => config[p].appRole # NoRole)
                      /\ verdict'[p] = "passed" => PrivilegesFit(p)'
    BY DEF Booted
  <2>1. SettingsFit(p)' = SettingsFit(p) /\ Bypasses(p, Login)' = Bypasses(p, Login)
    BY DEF SettingsFit, Bypasses
  <2>2. ASSUME verdict'[p] = "passed", NEW role, RoleFits(p, role) PROVE RoleFits(p, role)'
    BY <2>2 DEF RoleFits, MayAssume
  <2>3. verdict'[p] = "passed" => PrivilegesFit(p)
    BY DEF RowInv, Booted
  <2>4. verdict'[p] = "passed" => PrivilegesFit(p)'
    BY <2>1, <2>2, <2>3 DEF PrivilegesFit
  <2>5. QED
    BY <2>1, <2>4 DEF RowInv, Booted
<1>5. RowsAreOwn'
  <2>1. \A r \in Calls : at[r] \in Processes
    BY DEF RowInv, RowTypeOK
  <2>2. \A r \in Calls : Unprotected(at[r]) => Unprotected(at[r])'
    BY <2>1 DEF Unprotected, call
  <2>3. QED
    BY <2>2 DEF RowInv, RowsAreOwn, call
<1>6. SwitchesAreRehearsed'
  BY DEF RowInv, RowTypeOK, SwitchesAreRehearsed, call
<1>7. QED
  BY <1>2, <1>3, <1>4, <1>5, <1>6 DEF RowInv

LEMMA UpgradeKeeps == RowInv /\ Upgrade => RowInv'
<1> SUFFICES ASSUME RowInv, Upgrade PROVE RowInv'
  OBVIOUS
<1>1. revision' \in {4, 5, 8, 9, 10} /\ UNCHANGED <<config, up, verdict, session, call>>
  BY DEF Upgrade, process
<1>2. roles \subseteq roles' /\ roles' \in SUBSET Roles
  <2>1. roles \in SUBSET Roles
    BY DEF RowInv, RowTypeOK
  <2>2. \E new \in SUBSET Roles : roles' = roles \union new
    BY <1>1 DEF Upgrade, Roles
  <2>3. QED
    BY <2>1, <2>2
<1>3. ASSUME NEW role \in Roles, Join(role)
      PROVE  /\ members' \in [Processes -> SUBSET Roles]
             /\ \A p \in Processes : members[p] \subseteq members'[p]
  BY <1>3 DEF RowInv, RowTypeOK, Join
<1>4. /\ members' \in [Processes -> SUBSET Roles]
      /\ \A p \in Processes : members[p] \subseteq members'[p]
  <2>1. Join(Worker) \/ Join(App) \/ UNCHANGED members
    BY <1>1 DEF Upgrade
  <2>2. CASE UNCHANGED members
    BY <2>2 DEF RowInv, RowTypeOK
  <2>3. QED
    BY <1>3, <2>1, <2>2 DEF Roles
<1>5. RowTypeOK'
  BY <1>1, <1>2, <1>4 DEF RowInv, RowTypeOK, call
<1>6. QED
  BY <1>1, <1>2, <1>4, <1>5, DatabaseSteps

LEMMA DowngradeKeeps == RowInv /\ Downgrade => RowInv'
<1> SUFFICES ASSUME RowInv, Downgrade PROVE RowInv'
  OBVIOUS
<1>1. revision' \in {8, 9} /\ verdict' = Outdated /\ UNCHANGED <<config, up, session, call>>
  BY DEF Downgrade
<1>2. /\ verdict' \in [Processes -> {"none", "passed", "outdated"}]
      /\ \A p \in Processes : verdict'[p] = "none" <=> verdict[p] = "none"
      /\ \A p \in Processes : verdict'[p] # "passed"
  BY <1>1 DEF RowInv, RowTypeOK, Outdated
<1>3. roles' \in SUBSET Roles /\ members' \in [Processes -> SUBSET Roles]
  BY DEF RowInv, RowTypeOK, Downgrade
<1>4. RowTypeOK'
  BY <1>1, <1>2, <1>3 DEF RowInv, RowTypeOK, call
<1>5. QED
  BY <1>1, <1>2, <1>4, DatabaseSteps

LEMMA GrantKeeps ==
  ASSUME RowInv, NEW p \in Processes, NEW role \in Roles, GrantByHand(p, role)
  PROVE  RowInv'
<1>1. /\ UNCHANGED <<revision, roles, config, up, verdict, session, call>>
      /\ members' = [members EXCEPT ![p] = @ \union {role}]
  BY DEF GrantByHand, process
<1>2. /\ members' \in [Processes -> SUBSET Roles]
      /\ \A q \in Processes : members[q] \subseteq members'[q]
  BY <1>1 DEF RowInv, RowTypeOK
<1>3. RowTypeOK'
  BY <1>1, <1>2 DEF RowInv, RowTypeOK, call
<1>4. QED
  BY <1>1, <1>2, <1>3, DatabaseSteps

-------------------------------------------------------------------------------
(* Booting and stopping.                                                      *)

\* A boot finds the settings fit, and a verdict only with the privileges it asks for.
LEMMA BootKeeps ==
  ASSUME RowInv, NEW p \in Processes, BootUnchecked(p) \/ BootChecked(p)
  PROVE  RowInv'
<1>1. /\ UNCHANGED <<revision, roles, members, config, session>>
      /\ UNCHANGED <<stage, task, at, conn, vouched, caller, seen>>
      /\ ~up[p] /\ up' = [up EXCEPT ![p] = TRUE] /\ SettingsFit(p)
      /\ \/ verdict' = [verdict EXCEPT ![p] = "none"]
         \/ verdict' = [verdict EXCEPT ![p] = "passed"] /\ PrivilegesFit(p)
  BY DEF BootUnchecked, BootChecked, database, call
<1>2. RowTypeOK'
  BY <1>1 DEF RowInv, RowTypeOK
<1>3. \A r \in Calls : at[r] \in Processes /\ (stage[r] # "idle" => at[r] # p)
  BY <1>1 DEF RowInv, RowTypeOK, Called
<1>4. \A q \in Processes : q # p => up'[q] = up[q] /\ verdict'[q] = verdict[q]
  BY <1>1 DEF RowInv, RowTypeOK
<1>5. up'[p] /\ (verdict'[p] = "none" \/ (verdict'[p] = "passed" /\ PrivilegesFit(p)))
  BY <1>1 DEF RowInv, RowTypeOK
<1>6. Connections'
  BY <1>1 DEF RowInv, Connections, Holds, InTransaction, Free
<1>7. \A r \in Calls : Scoped(r)'
  BY <1>1 DEF RowInv, Scoped, RoleFor
<1>8. \A r \in Calls : Called(r)'
  BY <1>1, <1>3, <1>4 DEF RowInv, Called
<1>9. Booted'
  <2>1. \A q \in Processes : /\ SettingsFit(q)' = SettingsFit(q)
                             /\ PrivilegesFit(q)' = PrivilegesFit(q)
                             /\ Bypasses(q, Login)' = Bypasses(q, Login)
    BY <1>1 DEF SettingsFit, PrivilegesFit, Bypasses, RoleFits, MayAssume
  <2>2. PrivilegesFit(p) => (Bypasses(p, Login) => config[p].appRole # NoRole)
    BY DEF PrivilegesFit
  <2>3. \A q \in Processes :
          /\ up'[q] => SettingsFit(q)
          /\ verdict'[q] # "none" => (Bypasses(q, Login) => config[q].appRole # NoRole)
          /\ verdict'[q] = "passed" => PrivilegesFit(q)
    BY <1>1, <1>4, <1>5, <2>2 DEF RowInv, Booted
  <2>4. QED
    BY <1>1, <2>1, <2>3 DEF Booted
<1>10. RowsAreOwn' /\ SwitchesAreRehearsed'
  BY <1>1, <1>3, <1>4 DEF RowInv, RowsAreOwn, SwitchesAreRehearsed, Unprotected
<1>11. QED
  BY <1>2, <1>6, <1>7, <1>8, <1>9, <1>10 DEF RowInv

\* A process that stops takes its calls and their transactions with it.
LEMMA StopKeeps == ASSUME RowInv, NEW p \in Processes, Stop(p) PROVE RowInv'
<1>1. /\ UNCHANGED <<revision, roles, members, config>>
      /\ up' = [up EXCEPT ![p] = FALSE] /\ verdict' = [verdict EXCEPT ![p] = "none"]
      /\ session' = [c \in Pool |-> IF PoolOf[c] = p THEN Clear ELSE session[c]]
  BY DEF Stop, database, Ended
<1>2. RowTypeOK'
  <2>1. Clear \in [sub : UserSubs \union {Nobody}, role : Roles \union {Login}]
    BY DEF Clear
  <2>2. /\ revision' \in {3, 4, 5, 8, 9, 10} /\ roles' \in SUBSET Roles
        /\ members' \in [Processes -> SUBSET Roles] /\ config' \in Deployments
        /\ up' \in [Processes -> BOOLEAN]
        /\ verdict' \in [Processes -> {"none", "passed", "outdated"}]
    BY <1>1 DEF RowInv, RowTypeOK
  <2>3. session' \in [Pool -> [sub : UserSubs \union {Nobody}, role : Roles \union {Login}]]
    BY <1>1, <2>1 DEF RowInv, RowTypeOK
  <2>4. /\ stage' \in [Calls -> Statuses] /\ task' \in [Calls -> {"own", "claim", "rollup"}]
        /\ at' \in [Calls -> Processes] /\ conn' \in [Calls -> Pool \union {NoCall}]
    BY AnywhereIsSomewhere DEF RowInv, RowTypeOK, Stop, Statuses
  <2>5. /\ vouched' \in [Calls -> UserSubs \union {Nobody}]
        /\ caller' \in [Calls -> UserSubs \union {Nobody}]
        /\ seen' \in [Calls -> SUBSET Subs]
    BY DEF RowInv, RowTypeOK, Stop
  <2>6. QED
    BY <2>2, <2>3, <2>4, <2>5 DEF RowTypeOK
<1>3. \A r \in Calls : at[r] = p =>
        /\ stage'[r] = "idle" /\ conn'[r] = NoCall /\ task'[r] = "own"
        /\ vouched'[r] = Nobody /\ caller'[r] = Nobody
  BY DEF Stop
<1>4. \A r \in Calls : at[r] # p =>
        /\ stage'[r] = stage[r] /\ conn'[r] = conn[r] /\ task'[r] = task[r] /\ at'[r] = at[r]
        /\ vouched'[r] = vouched[r] /\ caller'[r] = caller[r] /\ seen'[r] = seen[r]
  BY DEF Stop
<1>5. \A q \in Processes : q # p => up'[q] = up[q] /\ verdict'[q] = verdict[q]
  BY <1>1 DEF RowInv, RowTypeOK
<1>6. \A r \in Calls : at[r] \in Processes /\ conn[r] \in Pool \union {NoCall}
  BY DEF RowInv, RowTypeOK
<1>7. Connections'
  <2>1. \A r \in Calls : Holds(r)'
    BY <1>3, <1>4 DEF RowInv, Connections, Holds, InTransaction
  <2>2. \A r, q \in Calls : conn'[r] = conn'[q] /\ conn'[r] # NoCall => r = q
    BY <1>3, <1>4 DEF RowInv, Connections
  <2>3. ASSUME NEW c \in Pool, \A r \in Calls : conn'[r] # c PROVE session'[c] = Clear
    <3>1. CASE PoolOf[c] = p
      BY <1>1, <3>1
    <3>2. CASE PoolOf[c] # p
      <4>1. ASSUME NEW r \in Calls PROVE conn[r] # c
        <5>1. CASE at[r] = p
          BY <3>2, <5>1, RowAssumption DEF RowInv, Connections, Holds
        <5>2. CASE at[r] # p
          BY <1>4, <2>3, <5>2
        <5>3. QED
          BY <5>1, <5>2
      <4>2. session[c] = Clear
        BY <4>1 DEF RowInv, Connections, Free
      <4>3. QED
        BY <1>1, <3>2, <4>2
    <3>3. QED
      BY <3>1, <3>2
  <2>4. QED
    BY <2>1, <2>2, <2>3 DEF Connections, Free
<1>8. ASSUME NEW r \in Calls PROVE Scoped(r)'
  <2>1. CASE at[r] = p
    BY <1>3, <2>1 DEF Scoped
  <2>2. CASE at[r] # p
    <3>1. InTransaction(r) => session'[conn[r]] = session[conn[r]]
      BY <1>1, <1>6, <2>2 DEF RowInv, Connections, Holds
    <3>2. Scoped(r) /\ RoleFor(r)' = RoleFor(r)
      BY <1>1, <1>4, <2>2 DEF RowInv, RoleFor
    <3>3. QED
      BY <1>4, <2>2, <3>1, <3>2 DEF Scoped, InTransaction
  <2>3. QED
    BY <2>1, <2>2
<1>9. ASSUME NEW r \in Calls PROVE Called(r)'
  <2>1. CASE at[r] = p
    BY <1>3, <2>1 DEF Called
  <2>2. CASE at[r] # p
    BY <1>1, <1>4, <1>5, <1>6, <2>2 DEF RowInv, Called
  <2>3. QED
    BY <2>1, <2>2
<1>10. Booted'
  <2>1. \A q \in Processes : /\ SettingsFit(q)' = SettingsFit(q)
                             /\ PrivilegesFit(q)' = PrivilegesFit(q)
                             /\ Bypasses(q, Login)' = Bypasses(q, Login)
    BY <1>1 DEF SettingsFit, PrivilegesFit, Bypasses, RoleFits, MayAssume
  <2>2. up'[p] = FALSE /\ verdict'[p] = "none"
    BY <1>1 DEF RowInv, RowTypeOK
  <2>3. QED
    BY <1>1, <1>5, <2>1, <2>2 DEF RowInv, Booted
<1>11. RowsAreOwn' /\ SwitchesAreRehearsed'
  <2>1. \A r \in Calls : stage'[r] # "idle" => at[r] # p
    BY <1>3
  <2>2. \A r \in Calls : at[r] # p => (Unprotected(at[r]) => Unprotected(at[r])')
    BY <1>1, <1>4, <1>5, <1>6 DEF Unprotected
  <2>3. RowsAreOwn'
    BY <1>4, <2>1, <2>2 DEF RowInv, RowsAreOwn
  <2>4. SwitchesAreRehearsed'
    <3>1. ASSUME NEW r \in Calls, stage'[r] = "not assumed"
          PROVE  verdict'[at'[r]] # "passed" \/ config'[at'[r]].kind = "script"
      <4>1. /\ at[r] # p /\ at'[r] = at[r] /\ stage[r] = "not assumed"
            /\ verdict'[at[r]] = verdict[at[r]] /\ config' = config
        BY <1>1, <1>4, <1>5, <1>6, <2>1, <3>1
      <4>2. verdict[at[r]] # "passed" \/ config[at[r]].kind = "script"
        BY <4>1 DEF RowInv, SwitchesAreRehearsed
      <4>3. QED
        BY <4>1, <4>2
    <3>2. QED
      BY <3>1 DEF SwitchesAreRehearsed
  <2>5. QED
    BY <2>3, <2>4
<1>12. QED
  BY <1>2, <1>7, <1>8, <1>9, <1>10, <1>11 DEF RowInv

-------------------------------------------------------------------------------
(* The steps of a call.                                                       *)

\* What the two properties say of one call.
ReadsOwn(r) ==
  stage[r] = "read" =>
    IF task[r] = "own" THEN seen[r] \subseteq {vouched[r]} \/ Unprotected(at[r])
    ELSE seen[r] = Subs
Rehearsed(r) ==
  stage[r] = "not assumed" => verdict[at[r]] # "passed" \/ config[at[r]].kind = "script"

CallInv(r) == Holds(r) /\ Scoped(r) /\ Called(r) /\ ReadsOwn(r) /\ Rehearsed(r)

\* The rest of the state: the other calls, and the connections they hold.
OthersStay(r) ==
  /\ UNCHANGED <<database, process>>
  /\ \A q \in Calls \ {r} :
       /\ stage'[q] = stage[q] /\ task'[q] = task[q] /\ at'[q] = at[q] /\ conn'[q] = conn[q]
       /\ vouched'[q] = vouched[q] /\ caller'[q] = caller[q] /\ seen'[q] = seen[q]
       /\ conn[q] # NoCall => session'[conn[q]] = session[conn[q]]

\* A step of a call that leaves the others alone need only be checked for that call, and
\* for the connection it takes or gives back.
LEMMA CallSteps ==
  ASSUME RowInv, RowTypeOK', NEW r \in Calls, OthersStay(r), CallInv(r)',
         conn'[r] # NoCall => \A q \in Calls \ {r} : conn[q] # conn'[r],
         \A c \in Pool : (\A q \in Calls : conn'[q] # c) => session'[c] = Clear
  PROVE  RowInv'
<1>1. ASSUME NEW q \in Calls \ {r} PROVE CallInv(q)'
  <2>1. CallInv(q)
    BY DEF RowInv, Connections, CallInv, RowsAreOwn, SwitchesAreRehearsed, ReadsOwn, Rehearsed
  <2>2. Holds(q)'
    BY <2>1 DEF OthersStay, CallInv, Holds, InTransaction
  <2>3. RoleFor(q)' = RoleFor(q)
    BY DEF OthersStay, process, RoleFor
  <2>4. Scoped(q)'
    BY <2>1, <2>3 DEF OthersStay, CallInv, Scoped, Holds, InTransaction
  <2>5. Called(q)'
    BY <2>1 DEF OthersStay, CallInv, Called, process
  <2>6. ReadsOwn(q)' /\ Rehearsed(q)'
    BY <2>1 DEF OthersStay, CallInv, ReadsOwn, Rehearsed, Unprotected, process
  <2>7. QED
    BY <2>2, <2>4, <2>5, <2>6 DEF CallInv
<1>2. \A q \in Calls : CallInv(q)'
  BY <1>1
<1>3. Connections'
  <2>1. \A q, s \in Calls : conn'[q] = conn'[s] /\ conn'[q] # NoCall => q = s
    BY DEF OthersStay, RowInv, Connections
  <2>2. \A q \in Calls : Holds(q)'
    BY <1>2 DEF CallInv
  <2>3. QED
    BY <2>1, <2>2 DEF Connections, Free
<1>4. Booted'
  BY DEF OthersStay, RowInv, Booted, database, process, SettingsFit, PrivilegesFit, Bypasses,
         RoleFits, MayAssume
<1>5. QED
  BY <1>2, <1>3, <1>4
     DEF RowInv, CallInv, RowsAreOwn, SwitchesAreRehearsed, ReadsOwn, Rehearsed

\* A call starts in a process of its kind, on behalf of the user it is vouched for.
LEMMA StartKeeps ==
  ASSUME RowInv, NEW r \in Calls, NEW p \in Processes, NEW what \in {"own", "claim", "rollup"},
         NEW edge \in UserSubs \union {Nobody}, Start(r, p, what, edge, edge),
         what = "own" => config[p].kind # "script",
         what = "claim" => config[p].kind = "worker",
         what = "rollup" => config[p].kind = "script"
  PROVE  RowInv'
<1>1. /\ UNCHANGED <<database, process, session, conn>> /\ stage[r] = "idle" /\ up[p]
      /\ stage' = [stage EXCEPT ![r] = "started"] /\ task' = [task EXCEPT ![r] = what]
      /\ at' = [at EXCEPT ![r] = p] /\ vouched' = [vouched EXCEPT ![r] = edge]
      /\ caller' = [caller EXCEPT ![r] = edge] /\ seen' = [seen EXCEPT ![r] = {}]
  BY DEF Start
<1>2. RowTypeOK'
  <2>1. /\ stage' \in [Calls -> Statuses] /\ task' \in [Calls -> {"own", "claim", "rollup"}]
        /\ at' \in [Calls -> Processes] /\ vouched' \in [Calls -> UserSubs \union {Nobody}]
        /\ caller' \in [Calls -> UserSubs \union {Nobody}] /\ seen' \in [Calls -> SUBSET Subs]
    BY <1>1 DEF RowInv, RowTypeOK, Statuses
  <2>2. QED
    BY <1>1, <2>1 DEF RowInv, RowTypeOK, database, process
<1>3. /\ stage'[r] = "started" /\ task'[r] = what /\ at'[r] = p
      /\ vouched'[r] = edge /\ caller'[r] = edge
  BY <1>1 DEF RowInv, RowTypeOK
<1>4. OthersStay(r)
  BY <1>1 DEF RowInv, RowTypeOK, OthersStay
<1>5. CallInv(r)'
  <2>1. conn'[r] = NoCall
    BY <1>1 DEF RowInv, Connections, Holds, InTransaction
  <2>2. Holds(r)' /\ Scoped(r)' /\ ReadsOwn(r)' /\ Rehearsed(r)'
    BY <1>3, <2>1 DEF Holds, InTransaction, Scoped, ReadsOwn, Rehearsed
  <2>3. Called(r)'
    BY <1>1, <1>3 DEF Called, process
  <2>4. QED
    BY <2>2, <2>3 DEF CallInv
<1>6. \A c \in Pool : (\A q \in Calls : conn'[q] # c) => session'[c] = Clear
  BY <1>1 DEF RowInv, Connections, Free
<1>7. conn'[r] = NoCall
  BY <1>1 DEF RowInv, Connections, Holds, InTransaction
<1>8. QED
  BY <1>2, <1>4, <1>5, <1>6, <1>7, CallSteps

LEMMA RequestKeeps ==
  ASSUME RowInv, NEW r \in Calls, NEW p \in Processes, NEW m \in Messages, Request(r, p, m)
  PROVE  RowInv'
<1>1. config[p].kind = "api" /\ Identity(p, m).sales
  BY DEF Request
<1>2. Identity(p, m).sub = Vouched(p, m) /\ Identity(p, m).sub \in UserSubs
  BY <1>1, CallerIsVouched DEF RowInv
<1>3. Start(r, p, "own", Vouched(p, m), Vouched(p, m)) /\ Vouched(p, m) \in UserSubs
  BY <1>2 DEF Request
<1>4. QED
  BY <1>1, <1>3, StartKeeps

LEMMA OtherStartsKeep ==
  ASSUME RowInv, NEW r \in Calls,
         (\E p \in Processes : Cycle(r, p) \/ Rollup(r, p)) \/ \E u \in Subs : Distill(r, u)
  PROVE  RowInv'
<1>1. ASSUME NEW p \in Processes, Cycle(r, p) PROVE RowInv'
  BY <1>1, StartKeeps DEF Cycle
<1>2. ASSUME NEW p \in Processes, Rollup(r, p) PROVE RowInv'
  BY <1>2, StartKeeps DEF Rollup
<1>3. ASSUME NEW u \in Subs, Distill(r, u) PROVE RowInv'
  <2>1. at[r] \in Processes /\ u \in UserSubs
    BY RowAssumption DEF RowInv, RowTypeOK
  <2>2. config[at[r]].kind = "worker"
    BY <1>3 DEF RowInv, Called, Distill
  <2>3. Start(r, at[r], "own", u, u)
    BY <1>3 DEF Distill
  <2>4. QED
    BY <2>1, <2>2, <2>3, StartKeeps
<1>4. QED
  BY <1>1, <1>2, <1>3

\* The setting is written first, in a clean connection.
LEMMA BeginKeeps ==
  ASSUME RowInv, NEW r \in Calls, NEW c \in Pool, Begin(r, c) PROVE RowInv'
<1>1. /\ UNCHANGED <<database, process, task, at, vouched, caller, seen>>
      /\ stage[r] = "started" /\ PoolOf[c] = at[r] /\ Free(c)
      /\ conn' = [conn EXCEPT ![r] = c] /\ stage' = [stage EXCEPT ![r] = "begun"]
      /\ session' = IF task[r] = "claim" THEN session
                    ELSE [session EXCEPT ![c].sub = caller[r]]
  BY DEF Begin
<1>2. c # NoCall /\ session[c] = Clear
  BY <1>1, RowAssumption DEF RowInv, Connections
<1>3. session' \in [Pool -> [sub : UserSubs \union {Nobody}, role : Roles \union {Login}]]
  <2>1. session \in [Pool -> [sub : UserSubs \union {Nobody}, role : Roles \union {Login}]]
    BY DEF RowInv, RowTypeOK
  <2>2. caller[r] \in UserSubs \union {Nobody}
    BY DEF RowInv, RowTypeOK
  <2>3. QED
    BY <1>1, <2>1, <2>2
<1>4. RowTypeOK'
  <2>1. stage' \in [Calls -> Statuses] /\ conn' \in [Calls -> Pool \union {NoCall}]
    BY <1>1 DEF RowInv, RowTypeOK, Statuses
  <2>2. QED
    BY <1>1, <1>3, <2>1 DEF RowInv, RowTypeOK, database, process
<1>5. /\ stage'[r] = "begun" /\ conn'[r] = c
      /\ \A q \in Calls \ {r} : stage'[q] = stage[q] /\ conn'[q] = conn[q] /\ conn[q] # c
      /\ \A d \in Pool \ {c} : session'[d] = session[d]
      /\ session'[c].role = Login
      /\ task[r] # "claim" => session'[c].sub = caller[r]
  <2>1. session \in [Pool -> [sub : UserSubs \union {Nobody}, role : Roles \union {Login}]]
    BY DEF RowInv, RowTypeOK
  <2>2. stage \in [Calls -> Statuses] /\ conn \in [Calls -> Pool \union {NoCall}]
    BY DEF RowInv, RowTypeOK
  <2>3. session[c].role = Login
    BY <1>2 DEF Clear
  <2>4. \A d \in Pool \ {c} : session'[d] = session[d]
    BY <1>1, <2>1
  <2>5. session'[c].role = Login /\ (task[r] # "claim" => session'[c].sub = caller[r])
    BY <1>1, <2>1, <2>3
  <2>6. QED
    BY <1>1, <2>2, <2>4, <2>5 DEF Free
<1>6. OthersStay(r)
  BY <1>1, <1>5 DEF OthersStay, RowInv, RowTypeOK
<1>7. CallInv(r)'
  <2>1. Holds(r)'
    BY <1>1, <1>2, <1>5 DEF Holds, InTransaction
  <2>2. Scoped(r)'
    BY <1>1, <1>5 DEF Scoped
  <2>3. Called(r)'
    BY <1>1, <1>5 DEF RowInv, Called, process
  <2>4. ReadsOwn(r)' /\ Rehearsed(r)'
    BY <1>5 DEF ReadsOwn, Rehearsed
  <2>5. QED
    BY <2>1, <2>2, <2>3, <2>4 DEF CallInv
<1>8. \A d \in Pool : (\A q \in Calls : conn'[q] # d) => session'[d] = Clear
  <2>1. ASSUME NEW d \in Pool, \A q \in Calls : conn'[q] # d PROVE session'[d] = Clear
    <3>1. d # c /\ \A q \in Calls : conn[q] # d
      BY <1>1, <1>5, <2>1, RowAssumption DEF RowInv, Connections, Holds, InTransaction
    <3>2. QED
      BY <1>5, <3>1 DEF RowInv, Connections, Free
  <2>2. QED
    BY <2>1
<1>9. QED
  BY <1>4, <1>5, <1>6, <1>7, <1>8, CallSteps

\* The switch is made under the login, which is the role the setting was written under.
LEMMA AssumeKeeps == ASSUME RowInv, NEW r \in Calls, Assume(r) PROVE RowInv'
<1>1. /\ UNCHANGED <<database, process, task, at, conn, vouched, caller, seen>>
      /\ stage[r] = "begun" /\ stage' = [stage EXCEPT ![r] = "assumed"]
      /\ RoleFor(r) # NoRole => MayAssume(at[r], RoleFor(r))
      /\ session' = IF RoleFor(r) = NoRole THEN session
                    ELSE [session EXCEPT ![conn[r]].role = RoleFor(r)]
  BY DEF Assume
<1>2. conn[r] \in Pool /\ conn[r] # NoCall
  BY <1>1 DEF RowInv, RowTypeOK, Connections, Holds, InTransaction
<1>3. RoleFor(r) # NoRole => RoleFor(r) \in Roles
  BY <1>1 DEF RowInv, RowTypeOK, MayAssume
<1>4. session' \in [Pool -> [sub : UserSubs \union {Nobody}, role : Roles \union {Login}]]
  <2>1. session \in [Pool -> [sub : UserSubs \union {Nobody}, role : Roles \union {Login}]]
    BY DEF RowInv, RowTypeOK
  <2>2. QED
    BY <1>1, <1>3, <2>1
<1>5. RowTypeOK'
  <2>1. stage' \in [Calls -> Statuses]
    BY <1>1 DEF RowInv, RowTypeOK, Statuses
  <2>2. QED
    BY <1>1, <1>4, <2>1 DEF RowInv, RowTypeOK, database, process
<1>6. /\ stage'[r] = "assumed" /\ \A q \in Calls \ {r} : stage'[q] = stage[q]
      /\ \A d \in Pool \ {conn[r]} : session'[d] = session[d]
      /\ session'[conn[r]].sub = session[conn[r]].sub
      /\ session'[conn[r]].role = (IF RoleFor(r) = NoRole THEN Login ELSE RoleFor(r))
  <2>1. session \in [Pool -> [sub : UserSubs \union {Nobody}, role : Roles \union {Login}]]
    BY DEF RowInv, RowTypeOK
  <2>2. stage \in [Calls -> Statuses]
    BY DEF RowInv, RowTypeOK
  <2>3. session[conn[r]].role = Login
    BY <1>1 DEF RowInv, Scoped
  <2>4. /\ \A d \in Pool \ {conn[r]} : session'[d] = session[d]
        /\ session'[conn[r]].sub = session[conn[r]].sub
    BY <1>1, <1>2, <2>1
  <2>5. session'[conn[r]].role = (IF RoleFor(r) = NoRole THEN Login ELSE RoleFor(r))
    BY <1>1, <1>2, <2>1, <2>3
  <2>6. QED
    BY <1>1, <2>2, <2>4, <2>5
<1>7. \A q \in Calls \ {r} : conn[q] # conn[r]
  BY <1>2 DEF RowInv, Connections
<1>8. OthersStay(r)
  <2>1. \A q \in Calls : conn[q] \in Pool \union {NoCall}
    BY DEF RowInv, RowTypeOK
  <2>2. QED
    BY <1>1, <1>6, <1>7, <2>1 DEF OthersStay
<1>9. CallInv(r)'
  <2>1. RoleFor(r)' = RoleFor(r)
    BY <1>1 DEF RoleFor, process
  <2>2. Holds(r)'
    BY <1>1, <1>6 DEF RowInv, Connections, Holds, InTransaction
  <2>3. Scoped(r)'
    BY <1>1, <1>6, <2>1 DEF RowInv, Scoped
  <2>4. Called(r)'
    BY <1>1, <1>6 DEF RowInv, Called, process
  <2>5. ReadsOwn(r)' /\ Rehearsed(r)'
    BY <1>6 DEF ReadsOwn, Rehearsed
  <2>6. QED
    BY <2>2, <2>3, <2>4, <2>5 DEF CallInv
<1>10. \A d \in Pool : (\A q \in Calls : conn'[q] # d) => session'[d] = Clear
  BY <1>1, <1>6 DEF RowInv, Connections, Free
<1>11. QED
  BY <1>1, <1>5, <1>7, <1>8, <1>9, <1>10, CallSteps

\* What a read returns: under the login's own rights the boot decides, and under any other
\* role the policies do.
LEMMA ReadReturns ==
  ASSUME RowInv, NEW r \in Calls, Read(r)
  PROVE  LET rows == Rows(at[r], session[conn[r]].role, session[conn[r]].sub, TableOf[task[r]])
         IN  IF task[r] = "own" THEN rows \subseteq {vouched[r]} \/ Unprotected(at[r])
             ELSE rows = Subs
<1> DEFINE role == session[conn[r]].role
           sub  == session[conn[r]].sub
           p    == at[r]
<1>1. /\ stage[r] = "assumed" /\ MayRead(p, role, TableOf[task[r]])
      /\ role = (IF RoleFor(r) = NoRole THEN Login ELSE RoleFor(r))
      /\ task[r] # "claim" => sub = caller[r]
  BY DEF RowInv, Scoped, Read
<1>2. p \in Processes /\ up[p] /\ SettingsFit(p) /\ config[p] \in Config
  BY <1>1, ConfigTyped DEF RowInv, RowTypeOK, Called, Booted
<1> HIDE DEF role, sub, p
<1>3. CASE task[r] = "own"
  <2>1. /\ config[p].kind # "script" /\ caller[r] = vouched[r] /\ RoleFor(r) = config[p].appRole
        /\ TableOf[task[r]] = "messages"
    BY <1>1, <1>3, RoleForIs DEF RowInv, Called, TableOf, p
  <2>2. config[p].appRole \in {NoRole, App}
    BY <1>2, <2>1 DEF SettingsFit, Config
  <2>3. Owned("messages")
    BY <1>1, <2>1 DEF MayRead, Exists
  <2>4. CASE Bypasses(p, role)
    <3>1. role = Login /\ config[p].power # "plain"
      BY <2>4 DEF Bypasses
    <3>2. config[p].appRole = NoRole
      BY <1>1, <2>1, <2>2, <3>1 DEF NoRole, App, Login
    <3>3. verdict[p] = "none"
      BY <1>2, <2>4, <3>1, <3>2 DEF RowInv, Booted
    <3>4. QED
      BY <1>3, <3>1, <3>2, <3>3 DEF Unprotected, p
  <2>5. CASE ~Bypasses(p, role)
    <3>1. Rows(p, role, sub, "messages") = {sub} \intersect Subs
      BY <2>3, <2>5, NoOneReadsMessages DEF Rows
    <3>2. sub = vouched[r]
      BY <1>1, <1>3, <2>1
    <3>3. QED
      BY <1>3, <2>1, <3>1, <3>2 DEF role, sub, p
  <2>6. QED
    BY <2>4, <2>5
<1>4. CASE task[r] = "claim"
  <2>1. role = Worker /\ TableOf[task[r]] = "memory_outbox"
    <3>1. RoleFor(r) = Worker
      BY <1>4, RoleForIs DEF RowInv
    <3>2. Worker # NoRole
      BY DEF Worker, NoRole
    <3>3. TableOf["claim"] = "memory_outbox"
      BY DEF TableOf
    <3>4. QED
      BY <1>1, <1>4, <3>1, <3>2, <3>3
  <2>2. <<Worker, "memory_outbox">> \in Grants
    BY <1>1, <2>1 DEF MayRead, Powers, Worker, Login
  <2>3. <<Worker, "memory_outbox">> \in OpenPolicies
    BY <2>2 DEF Grants, OpenPolicies, WorkerPolicy, Worker, App, Admin
  <2>4. Rows(p, role, sub, "memory_outbox") = Subs
    BY <2>1, <2>3 DEF Rows, Powers, Worker, Login
  <2>5. QED
    BY <1>4, <2>1, <2>4 DEF role, sub, p
<1>5. CASE task[r] = "rollup"
  <2>1. role = Admin /\ TableOf[task[r]] = "run_log"
    <3>1. RoleFor(r) = Admin
      BY <1>5, RoleForIs DEF RowInv
    <3>2. Admin # NoRole
      BY DEF Admin, NoRole
    <3>3. TableOf["rollup"] = "run_log"
      BY DEF TableOf
    <3>4. QED
      BY <1>1, <1>5, <3>1, <3>2, <3>3
  <2>2. <<Admin, "run_log">> \in Grants
    BY <1>1, <2>1 DEF MayRead, Powers, Admin, Login
  <2>3. <<Admin, "run_log">> \in OpenPolicies
    BY <2>2 DEF Grants, OpenPolicies, AdminPolicy, Worker, App, Admin
  <2>4. Rows(p, role, sub, "run_log") = Subs
    BY <2>1, <2>3 DEF Rows, Powers, Admin, Login
  <2>5. QED
    BY <1>5, <2>1, <2>4 DEF role, sub, p
<1>6. QED
  BY <1>3, <1>4, <1>5, RoleForIs DEF RowInv

LEMMA ReadKeeps == ASSUME RowInv, NEW r \in Calls, Read(r) PROVE RowInv'
<1> DEFINE rows == Rows(at[r], session[conn[r]].role, session[conn[r]].sub, TableOf[task[r]])
<1>1. /\ UNCHANGED <<database, process, session, task, at, conn, vouched, caller>>
      /\ stage[r] = "assumed" /\ stage' = [stage EXCEPT ![r] = "read"]
      /\ seen' = [seen EXCEPT ![r] = rows]
  BY DEF Read
<1>2. IF task[r] = "own" THEN rows \subseteq {vouched[r]} \/ Unprotected(at[r])
      ELSE rows = Subs
  BY ReadReturns
<1>3. rows \in SUBSET Subs
  BY DEF Rows
<1> HIDE DEF rows
<1>4. RowTypeOK'
  <2>1. stage' \in [Calls -> Statuses] /\ seen' \in [Calls -> SUBSET Subs]
    BY <1>1, <1>3 DEF RowInv, RowTypeOK, Statuses
  <2>2. QED
    BY <1>1, <2>1 DEF RowInv, RowTypeOK, database, process
<1>5. /\ stage'[r] = "read" /\ seen'[r] = rows
      /\ \A q \in Calls \ {r} : stage'[q] = stage[q] /\ seen'[q] = seen[q]
  BY <1>1 DEF RowInv, RowTypeOK
<1>6. OthersStay(r)
  BY <1>1, <1>5 DEF OthersStay
<1>7. CallInv(r)'
  <2>1. Holds(r)'
    BY <1>1, <1>5 DEF RowInv, Connections, Holds, InTransaction
  <2>2. Scoped(r)' /\ Rehearsed(r)'
    BY <1>5 DEF Scoped, Rehearsed
  <2>3. Called(r)'
    BY <1>1, <1>5 DEF RowInv, Called, process
  <2>4. Unprotected(at[r])' <=> Unprotected(at[r])
    BY <1>1 DEF Unprotected, process
  <2>5. ReadsOwn(r)'
    BY <1>1, <1>2, <1>5, <2>4 DEF ReadsOwn
  <2>6. QED
    BY <2>1, <2>2, <2>3, <2>5 DEF CallInv
<1>8. /\ conn[r] # NoCall => \A q \in Calls \ {r} : conn[q] # conn[r]
      /\ \A d \in Pool : (\A q \in Calls : conn[q] # d) => session[d] = Clear
  BY DEF RowInv, Connections, Free
<1>9. QED
  BY <1>1, <1>4, <1>6, <1>7, <1>8, CallSteps

\* A transaction that ends, however it ends, leaves its connection clean; the call is idle or
\* has an error to answer, and keeps what it knew or forgets it.
LEMMA LeaveKeeps ==
  ASSUME RowInv, NEW r \in Calls, NEW to \in {"idle", "not assumed"}, InTransaction(r), Leave(r, to),
         \/ Forget(r) /\ to = "idle"
         \/ /\ UNCHANGED <<task, at, vouched, caller, seen>>
            /\ to = "not assumed" => Rehearsed(r)'
  PROVE  RowInv'
<1>1. /\ UNCHANGED <<database, process>> /\ stage' = [stage EXCEPT ![r] = to]
      /\ session' = [session EXCEPT ![conn[r]] = Clear] /\ conn' = [conn EXCEPT ![r] = NoCall]
  BY DEF Leave, Ended
<1>2. conn[r] \in Pool /\ conn[r] # NoCall
  <2>1. conn[r] # NoCall
    BY DEF RowInv, Connections, Holds
  <2>2. conn[r] \in Pool \union {NoCall}
    BY DEF RowInv, RowTypeOK
  <2>3. QED
    BY <2>1, <2>2
<1>3. /\ stage'[r] = to /\ conn'[r] = NoCall /\ session'[conn[r]] = Clear
      /\ \A q \in Calls \ {r} : stage'[q] = stage[q] /\ conn'[q] = conn[q] /\ conn[q] # conn[r]
      /\ \A d \in Pool \ {conn[r]} : session'[d] = session[d]
  BY <1>1, <1>2 DEF RowInv, RowTypeOK, Connections
<1>4. /\ task' \in [Calls -> {"own", "claim", "rollup"}] /\ at' \in [Calls -> Processes]
      /\ vouched' \in [Calls -> UserSubs \union {Nobody}]
      /\ caller' \in [Calls -> UserSubs \union {Nobody}] /\ seen' \in [Calls -> SUBSET Subs]
      /\ \A q \in Calls \ {r} : /\ task'[q] = task[q] /\ at'[q] = at[q] /\ vouched'[q] = vouched[q]
                                /\ caller'[q] = caller[q] /\ seen'[q] = seen[q]
  <2>1. CASE Forget(r)
    BY <2>1, AnywhereIsSomewhere DEF RowInv, RowTypeOK, Forget
  <2>2. CASE UNCHANGED <<task, at, vouched, caller, seen>>
    BY <2>2 DEF RowInv, RowTypeOK
  <2>3. QED
    BY <2>1, <2>2
<1>5. RowTypeOK'
  <2>1. Clear \in [sub : UserSubs \union {Nobody}, role : Roles \union {Login}]
    BY DEF Clear
  <2>2. session' \in [Pool -> [sub : UserSubs \union {Nobody}, role : Roles \union {Login}]]
    BY <1>1, <2>1 DEF RowInv, RowTypeOK
  <2>3. stage' \in [Calls -> Statuses] /\ conn' \in [Calls -> Pool \union {NoCall}]
    BY <1>1 DEF RowInv, RowTypeOK, Statuses
  <2>4. QED
    BY <1>1, <1>4, <2>2, <2>3 DEF RowInv, RowTypeOK, database, process
<1>6. OthersStay(r)
  <2>1. \A q \in Calls : conn[q] \in Pool \union {NoCall}
    BY DEF RowInv, RowTypeOK
  <2>2. QED
    BY <1>1, <1>3, <1>4, <2>1 DEF OthersStay
<1>7. Called(r)'
  <2>1. CASE Forget(r) /\ to = "idle"
    <3>1. task'[r] = "own" /\ vouched'[r] = Nobody /\ caller'[r] = Nobody /\ stage'[r] = "idle"
      BY <1>3, <2>1 DEF RowInv, RowTypeOK, Forget
    <3>2. QED
      BY <3>1 DEF Called
  <2>2. CASE UNCHANGED <<task, at, vouched, caller, seen>>
    <3>1. Called(r) /\ stage[r] # "idle"
      BY DEF RowInv, InTransaction
    <3>2. QED
      BY <1>1, <2>2, <3>1 DEF Called, process
  <2>3. QED
    BY <2>1, <2>2
<1>8. Rehearsed(r)'
  BY <1>3 DEF Rehearsed
<1>9. CallInv(r)'
  <2>1. Holds(r)' /\ Scoped(r)' /\ ReadsOwn(r)'
    BY <1>3 DEF Holds, InTransaction, Scoped, ReadsOwn
  <2>2. QED
    BY <1>7, <1>8, <2>1 DEF CallInv
<1>10. \A d \in Pool : (\A q \in Calls : conn'[q] # d) => session'[d] = Clear
  <2>1. ASSUME NEW d \in Pool, \A q \in Calls : conn'[q] # d PROVE session'[d] = Clear
    <3>1. CASE d = conn[r]
      BY <1>3, <3>1
    <3>2. CASE d # conn[r]
      <4>1. Free(d)
        BY <1>3, <2>1, <3>2 DEF Free
      <4>2. QED
        BY <1>3, <3>2, <4>1 DEF RowInv, Connections
    <3>3. QED
      BY <3>1, <3>2
  <2>2. QED
    BY <2>1
<1>11. QED
  BY <1>3, <1>5, <1>6, <1>9, <1>10, CallSteps

\* A checked process has rehearsed every switch its calls make.
LEMMA CannotAssumeKeeps == ASSUME RowInv, NEW r \in Calls, CannotAssume(r) PROVE RowInv'
<1>1. /\ stage[r] = "begun" /\ RoleFor(r) # NoRole /\ ~MayAssume(at[r], RoleFor(r))
      /\ Leave(r, "not assumed") /\ UNCHANGED <<task, at, vouched, caller, seen>>
  BY DEF CannotAssume
<1>2. at[r] \in Processes /\ Called(r)
  BY DEF RowInv, RowTypeOK
<1>3. verdict[at[r]] # "passed" \/ config[at[r]].kind = "script"
  <2> SUFFICES ASSUME verdict[at[r]] = "passed", config[at[r]].kind # "script" PROVE FALSE
    OBVIOUS
  <2>1. PrivilegesFit(at[r])
    BY <1>2 DEF RowInv, Booted
  <2>2. CASE task[r] = "own"
    <3>1. RoleFor(r) = config[at[r]].appRole
      BY <2>2, RoleForIs DEF RowInv
    <3>2. QED
      BY <1>1, <2>1, <3>1 DEF PrivilegesFit, RoleFits
  <2>3. CASE task[r] = "claim"
    <3>1. RoleFor(r) = Worker /\ config[at[r]].kind = "worker"
      BY <1>2, <2>3, RoleForIs DEF RowInv, Called
    <3>2. QED
      BY <1>1, <2>1, <3>1 DEF PrivilegesFit, RoleFits
  <2>4. CASE task[r] = "rollup"
    BY <1>2, <2>4 DEF Called
  <2>5. QED
    BY <2>2, <2>3, <2>4, RoleForIs DEF RowInv
<1>4. Rehearsed(r)'
  BY <1>1, <1>3 DEF Rehearsed, Leave, process
<1>5. InTransaction(r)
  BY <1>1 DEF InTransaction
<1>6. QED
  BY <1>1, <1>4, <1>5, LeaveKeeps

LEMMA EndKeeps == ASSUME RowInv, NEW r \in Calls, Fail(r) \/ Finish(r) PROVE RowInv'
<1>1. /\ InTransaction(r) /\ Leave(r, "idle")
      /\ Forget(r) \/ UNCHANGED <<task, at, vouched, caller, seen>>
  BY DEF Fail, Finish, InTransaction
<1>2. QED
  BY <1>1, LeaveKeeps

LEMMA AnswerKeeps == ASSUME RowInv, NEW r \in Calls, Answer(r) PROVE RowInv'
<1>1. /\ UNCHANGED <<database, process, session, conn>> /\ stage[r] = "not assumed"
      /\ stage' = [stage EXCEPT ![r] = "idle"] /\ Forget(r)
  BY DEF Answer
<1>2. conn[r] = NoCall
  BY <1>1 DEF RowInv, Connections, Holds, InTransaction
<1>3. RowTypeOK' /\ OthersStay(r)
  <2>1. /\ stage' \in [Calls -> Statuses] /\ task' \in [Calls -> {"own", "claim", "rollup"}]
        /\ at' \in [Calls -> Processes] /\ vouched' \in [Calls -> UserSubs \union {Nobody}]
        /\ caller' \in [Calls -> UserSubs \union {Nobody}] /\ seen' \in [Calls -> SUBSET Subs]
    BY <1>1, AnywhereIsSomewhere DEF RowInv, RowTypeOK, Forget, Statuses
  <2>2. RowTypeOK'
    BY <1>1, <2>1 DEF RowInv, RowTypeOK, database, process
  <2>3. OthersStay(r)
    BY <1>1 DEF RowInv, RowTypeOK, OthersStay, Forget
  <2>4. QED
    BY <2>2, <2>3
<1>4. CallInv(r)'
  <2>1. /\ stage'[r] = "idle" /\ conn'[r] = NoCall /\ task'[r] = "own"
        /\ vouched'[r] = Nobody /\ caller'[r] = Nobody
    BY <1>1, <1>2 DEF RowInv, RowTypeOK, Forget
  <2>2. Holds(r)' /\ Scoped(r)' /\ Called(r)'
    BY <2>1 DEF Holds, InTransaction, Scoped, Called
  <2>3. ReadsOwn(r)' /\ Rehearsed(r)'
    BY <2>1 DEF ReadsOwn, Rehearsed
  <2>4. QED
    BY <2>2, <2>3 DEF CallInv
<1>5. \A d \in Pool : (\A q \in Calls : conn'[q] # d) => session'[d] = Clear
  BY <1>1 DEF RowInv, Connections, Free
<1>6. QED
  BY <1>1, <1>2, <1>3, <1>4, <1>5, CallSteps

-------------------------------------------------------------------------------
(* The theorems.                                                              *)

LEMMA RowInvStep == RowInv /\ [RowNext]_rowVars => RowInv'
<1> SUFFICES ASSUME RowInv, [RowNext]_rowVars PROVE RowInv'
  OBVIOUS
<1>1. CASE Upgrade \/ Downgrade
  BY <1>1, UpgradeKeeps, DowngradeKeeps
<1>2. ASSUME NEW p \in Processes, BootUnchecked(p) \/ BootChecked(p) \/ Stop(p) PROVE RowInv'
  BY <1>2, BootKeeps, StopKeeps
<1>3. ASSUME NEW p \in Processes, NEW role \in Roles, GrantByHand(p, role) PROVE RowInv'
  BY <1>3, GrantKeeps
<1>4. ASSUME NEW r \in Calls, NEW p \in Processes, Cycle(r, p) \/ Rollup(r, p) PROVE RowInv'
  BY <1>4, OtherStartsKeep
<1>5. ASSUME NEW r \in Calls, NEW p \in Processes, NEW m \in Messages, Request(r, p, m)
      PROVE  RowInv'
  BY <1>5, RequestKeeps
<1>6. ASSUME NEW r \in Calls, NEW u \in Subs, Distill(r, u) PROVE RowInv'
  BY <1>6, OtherStartsKeep
<1>7. ASSUME NEW r \in Calls, NEW c \in Pool, Begin(r, c) PROVE RowInv'
  BY <1>7, BeginKeeps
<1>8. ASSUME NEW r \in Calls, Assume(r) \/ CannotAssume(r) \/ Read(r) PROVE RowInv'
  BY <1>8, AssumeKeeps, CannotAssumeKeeps, ReadKeeps
<1>9. ASSUME NEW r \in Calls, Fail(r) \/ Finish(r) \/ Answer(r) PROVE RowInv'
  BY <1>9, EndKeeps, AnswerKeeps
<1>10. CASE UNCHANGED rowVars
  <2>1. /\ UNCHANGED <<config, up, session, call, roles, members, verdict>> /\ RowTypeOK'
    BY <1>10 DEF RowInv, RowTypeOK, rowVars, database, process, call
  <2>2. QED
    BY <2>1, DatabaseSteps
<1>11. QED
  BY <1>1, <1>2, <1>3, <1>4, <1>5, <1>6, <1>7, <1>8, <1>9, <1>10 DEF RowNext

LEMMA RowInvHolds == RowSpec => []RowInv
<1>1. RowInit => RowInv
  BY RowInvInit
<1>2. RowInv /\ [RowNext]_rowVars => RowInv'
  BY RowInvStep
<1>3. QED
  BY <1>1, <1>2, PTL DEF RowSpec

\* The schema, the processes, the connections and the calls keep their types.
THEOREM RowsAreTyped == RowSpec => []RowTypeOK
<1>1. RowInv => RowTypeOK
  BY DEF RowInv
<1>2. QED
  BY <1>1, RowInvHolds, PTL

\* A statement run for a user sees that user's rows and no other's, over any pool, under any
\* privileges of the login that the boot let pass, while the schema is upgraded, taken back
\* and granted on; the worker's claim and the rollups see every row or are refused.
THEOREM StatementsSeeTheirOwn == RowSpec => []RowsAreOwn
<1>1. RowInv => RowsAreOwn
  BY DEF RowInv
<1>2. QED
  BY <1>1, RowInvHolds, PTL

\* A process that has passed its boot check is denied none of the roles it switches to.
THEOREM CheckedProcessesSwitch == RowSpec => []SwitchesAreRehearsed
<1>1. RowInv => SwitchesAreRehearsed
  BY DEF RowInv
<1>2. QED
  BY <1>1, RowInvHolds, PTL

===============================================================================
