----------------------------- MODULE RowSecurity ------------------------------
(* Whose rows a statement sees.  A request's identity is resolved from its     *)
(* headers once (api/app.py, core/identity*.py), carried to the database as a  *)
(* transaction-scoped setting and, when configured, a role switch              *)
(* (core/db.py), and enforced there by the policies of the migrations.  The    *)
(* memory worker's claim and the operator's rollups are the two reads that     *)
(* cross users, each under a role of its own.  A process checks its database   *)
(* privileges when it boots, if the database answers.                          *)
(*                                                                             *)
(* External: PostgreSQL's rules for SET ROLE, grants and policies.             *)
EXTENDS Naturals, Sequences, FiniteSets

CONSTANTS
  Processes,   \* servers, workers and operator scripts
  Calls,       \* requests, cycles and reports under way
  Pool,        \* pooled connections
  PoolOf,      \* the process whose engine a connection belongs to
  Names,       \* user names as headers and tokens spell them
  Subs,        \* the users who have rows
  Folded,      \* what sanitize_username makes of a name: a name, or NoName
  Leftovers,   \* the roles a cluster may have from an earlier database
  Deployments, \* the settings the processes may be started with
  Messages     \* what a request carries: see Message

NoName  == "no name"
NoRole  == "no role"     \* DATABASE_APP_ROLE unset
NotARole == "not a role" \* DATABASE_APP_ROLE malformed
Login   == "login"       \* the role the DSN authenticates as
App     == "poseidon_app"
Worker  == "poseidon_worker"
Admin   == "poseidon_admin"
Roles   == {App, Worker, Admin}
Tables  == {"messages", "run_log", "memory_outbox"}
Modes   == {"disabled", "auth0", "spcs_ingress"}
Nobody  == <<"no mode", NoName>>
NoCall  == "none"

\* A user_sub: the provider's prefix and the name.
UserSubs == Modes \X Names

\* What the process is: its identity settings, and the privileges of its DSN.  "migrates":
\* its user is the one the migrations ran as, who owns the tables.
Config == [kind : {"api", "worker", "script"}, mode : Modes, deploy : {"local", "ec2", "spcs"},
           sales : SUBSET Names, power : {"superuser", "bypassrls", "plain"},
           migrates : BOOLEAN, appRole : {NoRole, App, NotARole}]

\* The values of the header the mode reads, in order, and whether another header that
\* bears an identity is repeated.  The trusted edge wrote the first.
Credential == [name : Names \union {NoName}, sales : BOOLEAN, verifies : BOOLEAN]
Message    == [values : Seq(Credential), stray : BOOLEAN]

ASSUME RowAssumption ==
  /\ Processes # {} /\ PoolOf \in [Pool -> Processes]
  /\ Folded \in [Names -> Names \union {NoName}]
  /\ NoName \notin Names /\ "local" \in Names /\ NoCall \notin Pool
  /\ Subs \subseteq UserSubs
  /\ Leftovers \subseteq SUBSET Roles
  /\ Deployments \subseteq [Processes -> Config]
  /\ Messages \subseteq Message

VARIABLES
  revision, roles, members,            \* the schema, the cluster's roles, the DSN users' memberships
  config, up, verdict,                 \* the processes
  session,                             \* the setting and the role of each connection
  stage, task, at, conn,               \* the calls
  vouched, caller, seen                \* who asks, who the server says asks, whose rows it read

database == <<revision, roles, members>>
process  == <<config, up, verdict>>
call     == <<stage, task, at, conn, vouched, caller, seen>>
rowVars  == <<database, process, session, call>>

-------------------------------------------------------------------------------
(* The database.                                                              *)

Chain == <<3, 4, 5, 8, 9, 10>>
Follows(old, new) == \E i \in 1 .. 5 : Chain[i] = old /\ Chain[i + 1] = new

\* The revision that creates the table's owner policy, and grants it to the app role.
OwnedSince == [messages |-> 4, run_log |-> 5, memory_outbox |-> 8]
Owned(t)   == revision >= OwnedSince[t]
Exists(t)  == t = "run_log" \/ Owned(t)

WorkerPolicy == IF revision >= 9 THEN {<<Worker, "memory_outbox">>} ELSE {}
AdminPolicy  == IF revision >= 5 THEN {<<Admin, "run_log">>} ELSE {}
OpenPolicies == WorkerPolicy \union AdminPolicy

Grants ==
  {<<App, t>> : t \in {s \in Tables : Owned(s)}}
  \union {g \in {<<Worker, "memory_outbox">>} : revision >= 9}
  \union {g \in {<<Admin, "run_log">>} : revision >= 5}

\* A role acts with its own privileges; a login also with those of the roles it is in.
Powers(p, role) == IF role = Login THEN members[p] ELSE {role}
MayAssume(p, role) ==
  role \in roles /\ (config[p].power = "superuser" \/ role \in members[p])
Bypasses(p, role) == role = Login /\ config[p].power \in {"superuser", "bypassrls"}

MayRead(p, role, t) ==
  /\ Exists(t)
  /\ \/ role = Login /\ (config[p].power = "superuser" \/ config[p].migrates)
     \/ \E r \in Powers(p, role) : <<r, t>> \in Grants

\* The rows a SELECT without a WHERE clause returns, by their owners.
Rows(p, role, sub, t) ==
  IF Bypasses(p, role) \/ ~Owned(t) \/ \E r \in Powers(p, role) : <<r, t>> \in OpenPolicies
    THEN Subs
    ELSE {sub} \intersect Subs

Join(role) ==
  members' = [p \in Processes |->
    IF config[p].migrates THEN members[p] \union {role} ELSE members[p]]

\* One step of alembic upgrade.  Only 0009 and 0010 grant a membership.
Upgrade ==
  /\ \E new \in {4, 5, 8, 9, 10} : Follows(revision, new) /\ revision' = new
  /\ roles' = roles \union (CASE revision' = 4 -> {App} [] revision' = 5 -> {Admin}
                              [] revision' = 9 -> {Worker} [] OTHER -> {})
  /\ CASE revision' = 9  -> Join(Worker)
       [] revision' = 10 -> Join(App)
       [] OTHER -> UNCHANGED members
  /\ UNCHANGED <<process, session, call>>

\* Down again: 0010 takes the app role's membership back; 0009 drops its role and the
\* memberships with it, unless another object depends on the role.
Outdated == [p \in Processes |-> IF verdict[p] = "passed" THEN "outdated" ELSE verdict[p]]
Downgrade ==
  /\ revision \in {9, 10}
  /\ \E old \in {8, 9} : Follows(old, revision) /\ revision' = old
  /\ IF revision = 10
       THEN /\ members' = [p \in Processes |->
                 IF config[p].migrates THEN members[p] \ {App} ELSE members[p]]
            /\ UNCHANGED roles
       ELSE \/ /\ roles' = roles \ {Worker}
               /\ members' = [p \in Processes |-> members[p] \ {Worker}]
            \/ UNCHANGED <<roles, members>>
  /\ verdict' = Outdated
  /\ UNCHANGED <<config, up, session, call>>

\* The operator grants a membership by hand, as a refusal to boot asks.
GrantByHand(p, role) ==
  /\ ~up[p] /\ role \in roles \ members[p]
  /\ members' = [members EXCEPT ![p] = @ \union {role}]
  /\ UNCHANGED <<revision, roles, process, session, call>>

-------------------------------------------------------------------------------
(* Booting.                                                                   *)

SettingsFit(p) ==
  /\ config[p].kind # "script" => config[p].appRole # NotARole
  /\ config[p].kind = "api" /\ config[p].mode = "spcs_ingress" => config[p].deploy = "spcs"

\* Mutant: asks whether the role exists, and never rehearses the switch.
RoleExists(p, role) == role \in roles
\* It exists, and the rehearsed switch to it succeeds.
RoleFits(p, role) == role \in roles /\ MayAssume(p, role)

\* Mutant: lets a DSN that no policy binds pass without an app role.
RolesFit(p) ==
  /\ config[p].appRole # NoRole => RoleFits(p, config[p].appRole)
  /\ config[p].kind = "worker" => RoleFits(p, Worker)
PrivilegesFit(p) ==
  /\ Bypasses(p, Login) => config[p].appRole # NoRole
  /\ config[p].appRole # NoRole => RoleFits(p, config[p].appRole)
  /\ config[p].kind = "worker" => RoleFits(p, Worker)

\* Nothing answers in time, or the server rejects the connection: no verdict.  A script
\* never asks.
BootUnchecked(p) ==
  /\ ~up[p] /\ SettingsFit(p)
  /\ up' = [up EXCEPT ![p] = TRUE]
  /\ verdict' = [verdict EXCEPT ![p] = "none"]
  /\ UNCHANGED <<database, config, session, call>>

BootChecked(p) ==
  /\ ~up[p] /\ config[p].kind # "script" /\ SettingsFit(p) /\ PrivilegesFit(p)
  /\ up' = [up EXCEPT ![p] = TRUE]
  /\ verdict' = [verdict EXCEPT ![p] = "passed"]
  /\ UNCHANGED <<database, config, session, call>>

-------------------------------------------------------------------------------
(* Identity.                                                                  *)

Refused == [sub |-> Nobody, sales |-> FALSE]
Default == [sub |-> <<"disabled", "local">>, sales |-> TRUE]     \* DISABLED_DEFAULT_USER

Duplicated(p, m) == m.stray \/ (config[p].mode # "disabled" /\ Len(m.values) > 1)

\* Collapsing the headers into a mapping keeps the last of equal names.
Presented(m) == m.values[Len(m.values)]

Disabled(m) ==
  IF m.values = << >> \/ Presented(m).name = NoName THEN Default
  ELSE IF Folded[Presented(m).name] = NoName THEN Default
  ELSE [sub |-> <<"disabled", Folded[Presented(m).name]>>, sales |-> TRUE]

SpcsIngress(p, m) ==
  IF m.values = << >> \/ Presented(m).name = NoName THEN Refused
  ELSE IF Folded[Presented(m).name] = NoName THEN Refused
  ELSE [sub   |-> <<"spcs_ingress", Folded[Presented(m).name]>>,
        sales |-> Folded[Presented(m).name] \in config[p].sales]

\* A token that does not verify, names no sub, or cannot be checked just now is a 401.
Auth0(m) ==
  IF m.values = << >> \/ ~Presented(m).verifies \/ Presented(m).name = NoName THEN Refused
  ELSE [sub |-> <<"auth0", Presented(m).name>>, sales |-> Presented(m).sales]

Resolve(p, m) ==
  CASE config[p].mode = "disabled" -> Disabled(m)
    [] config[p].mode = "auth0" -> Auth0(m)
    [] config[p].mode = "spcs_ingress" -> SpcsIngress(p, m)

Identity(p, m) == IF Duplicated(p, m) THEN Refused ELSE Resolve(p, m)

\* Who the edge says it is: nobody can add to what it wrote first.  In disabled mode there
\* is no edge, and the client is who it says.
Vouched(p, m) ==
  IF config[p].mode = "disabled" THEN Disabled(m).sub
  ELSE IF m.values = << >> THEN Nobody
  ELSE Resolve(p, [m EXCEPT !.values = <<m.values[1]>>]).sub

Start(r, p, what, edge, who) ==
  /\ stage[r] = "idle" /\ up[p]
  /\ stage' = [stage EXCEPT ![r] = "started"]
  /\ task' = [task EXCEPT ![r] = what]
  /\ at' = [at EXCEPT ![r] = p]
  /\ vouched' = [vouched EXCEPT ![r] = edge]
  /\ caller' = [caller EXCEPT ![r] = who]
  /\ seen' = [seen EXCEPT ![r] = {}]
  /\ UNCHANGED <<database, process, session, conn>>

\* A request whose identity resolves and has the role reaches the store; any other is
\* answered 401 or 403 by require_sales.
Request(r, p, m) ==
  /\ config[p].kind = "api"
  /\ Identity(p, m).sales
  /\ Start(r, p, "own", Vouched(p, m), Identity(p, m).sub)

Cycle(r, p) ==
  /\ config[p].kind = "worker"
  /\ Start(r, p, "claim", Nobody, Nobody)

\* A claimed row is distilled as its owner.
Distill(r, u) ==
  /\ task[r] = "claim" /\ u \in seen[r]
  /\ Start(r, at[r], "own", u, u)

Rollup(r, p) ==
  /\ config[p].kind = "script"
  /\ Start(r, p, "rollup", Nobody, Nobody)

-------------------------------------------------------------------------------
(* The transaction.                                                           *)

TableOf == [own |-> "messages", claim |-> "memory_outbox", rollup |-> "run_log"]
RoleFor(r) ==
  CASE task[r] = "own" -> config[at[r]].appRole
    [] task[r] = "claim" -> Worker
    [] task[r] = "rollup" -> Admin

Anywhere == CHOOSE p \in Processes : TRUE

Clear == [sub |-> Nobody, role |-> Login]

\* What ends with the transaction: set_config's is_local and SET LOCAL.
Ended == Clear

Free(c) == \A r \in Calls : conn[r] # c

\* engine.begin(), and set_config first; the claim's transaction sets none.
Begin(r, c) ==
  /\ stage[r] = "started" /\ PoolOf[c] = at[r] /\ Free(c)
  /\ conn' = [conn EXCEPT ![r] = c]
  /\ stage' = [stage EXCEPT ![r] = "begun"]
  /\ session' = IF task[r] = "claim" THEN session
                ELSE [session EXCEPT ![c].sub = caller[r]]
  /\ UNCHANGED <<database, process, task, at, vouched, caller, seen>>

\* SET LOCAL ROLE, when there is a role to switch to.
Assume(r) ==
  /\ stage[r] = "begun"
  /\ RoleFor(r) # NoRole => MayAssume(at[r], RoleFor(r))
  /\ stage' = [stage EXCEPT ![r] = "assumed"]
  /\ session' = IF RoleFor(r) = NoRole THEN session
                ELSE [session EXCEPT ![conn[r]].role = RoleFor(r)]
  /\ UNCHANGED <<database, process, task, at, conn, vouched, caller, seen>>

Leave(r, to) ==
  /\ stage' = [stage EXCEPT ![r] = to]
  /\ session' = [session EXCEPT ![conn[r]] = Ended]
  /\ conn' = [conn EXCEPT ![r] = NoCall]
  /\ UNCHANGED <<database, process>>

\* What a call knew goes with it.
Forget(r) ==
  /\ at' = [at EXCEPT ![r] = Anywhere]
  /\ task' = [task EXCEPT ![r] = "own"]
  /\ vouched' = [vouched EXCEPT ![r] = Nobody]
  /\ caller' = [caller EXCEPT ![r] = Nobody]
  /\ seen' = [seen EXCEPT ![r] = {}]

\* Permission denied to set the role: rolled back, and the caller gets a 500.
CannotAssume(r) ==
  /\ stage[r] = "begun"
  /\ RoleFor(r) # NoRole /\ ~MayAssume(at[r], RoleFor(r))
  /\ Leave(r, "not assumed")
  /\ UNCHANGED <<task, at, vouched, caller, seen>>

Read(r) ==
  LET s == session[conn[r]]  t == TableOf[task[r]] IN
  /\ stage[r] = "assumed"
  /\ MayRead(at[r], s.role, t)
  /\ seen' = [seen EXCEPT ![r] = Rows(at[r], s.role, s.sub, t)]
  /\ stage' = [stage EXCEPT ![r] = "read"]
  /\ UNCHANGED <<database, process, session, task, at, conn, vouched, caller>>

\* The statement is denied, or the connection breaks: rolled back.
Fail(r) ==
  /\ stage[r] \in {"begun", "assumed", "read"}
  /\ Leave(r, "idle")
  /\ Forget(r)

\* The worker keeps the rows it claimed.
Finish(r) ==
  /\ stage[r] = "read"
  /\ Leave(r, "idle")
  /\ IF task[r] = "claim" THEN UNCHANGED <<task, at, vouched, caller, seen>> ELSE Forget(r)

Answer(r) ==
  /\ stage[r] = "not assumed"
  /\ stage' = [stage EXCEPT ![r] = "idle"]
  /\ Forget(r)
  /\ UNCHANGED <<database, process, session, conn>>

\* The process stops: its calls end, and the server rolls their transactions back.
Stop(p) ==
  LET mine == {r \in Calls : at[r] = p} IN
  /\ up[p]
  /\ up' = [up EXCEPT ![p] = FALSE]
  /\ verdict' = [verdict EXCEPT ![p] = "none"]
  /\ stage' = [r \in Calls |-> IF r \in mine THEN "idle" ELSE stage[r]]
  /\ conn' = [r \in Calls |-> IF r \in mine THEN NoCall ELSE conn[r]]
  /\ task' = [r \in Calls |-> IF r \in mine THEN "own" ELSE task[r]]
  /\ at' = [r \in Calls |-> IF r \in mine THEN Anywhere ELSE at[r]]
  /\ vouched' = [r \in Calls |-> IF r \in mine THEN Nobody ELSE vouched[r]]
  /\ caller' = [r \in Calls |-> IF r \in mine THEN Nobody ELSE caller[r]]
  /\ seen' = [r \in Calls |-> IF r \in mine THEN {} ELSE seen[r]]
  /\ session' = [c \in Pool |-> IF PoolOf[c] = p THEN Ended ELSE session[c]]
  /\ UNCHANGED <<database, config>>

-------------------------------------------------------------------------------
RowInit ==
  /\ revision = 3
  /\ roles \in Leftovers
  /\ members = [p \in Processes |-> {}]
  /\ config \in Deployments
  /\ up = [p \in Processes |-> FALSE]
  /\ verdict = [p \in Processes |-> "none"]
  /\ session = [c \in Pool |-> Clear]
  /\ stage = [r \in Calls |-> "idle"]
  /\ task = [r \in Calls |-> "own"]
  /\ at = [r \in Calls |-> Anywhere]
  /\ conn = [r \in Calls |-> NoCall]
  /\ vouched = [r \in Calls |-> Nobody]
  /\ caller = [r \in Calls |-> Nobody]
  /\ seen = [r \in Calls |-> {}]

RowNext ==
  \/ Upgrade
  \/ Downgrade
  \/ \E p \in Processes :
       \/ BootUnchecked(p) \/ BootChecked(p) \/ Stop(p)
       \/ \E role \in Roles : GrantByHand(p, role)
       \/ \E r \in Calls : Cycle(r, p) \/ Rollup(r, p)
       \/ \E r \in Calls, m \in Messages : Request(r, p, m)
  \/ \E r \in Calls :
       \/ \E u \in Subs : Distill(r, u)
       \/ \E c \in Pool : Begin(r, c)
       \/ Assume(r) \/ CannotAssume(r) \/ Read(r) \/ Fail(r) \/ Finish(r) \/ Answer(r)

RowSpec == RowInit /\ [][RowNext]_rowVars

-------------------------------------------------------------------------------
(* Properties.                                                                *)

Statuses == {"idle", "started", "begun", "assumed", "read", "not assumed"}

RowTypeOK ==
  /\ revision \in {3, 4, 5, 8, 9, 10}
  /\ roles \in SUBSET Roles
  /\ members \in [Processes -> SUBSET Roles]
  /\ config \in Deployments
  /\ up \in [Processes -> BOOLEAN]
  /\ verdict \in [Processes -> {"none", "passed", "outdated"}]
  /\ session \in [Pool -> [sub : UserSubs \union {Nobody}, role : Roles \union {Login}]]
  /\ stage \in [Calls -> Statuses]
  /\ task \in [Calls -> {"own", "claim", "rollup"}]
  /\ at \in [Calls -> Processes]
  /\ conn \in [Calls -> Pool \union {NoCall}]
  /\ vouched \in [Calls -> UserSubs \union {Nobody}]
  /\ caller \in [Calls -> UserSubs \union {Nobody}]
  /\ seen \in [Calls -> SUBSET Subs]

\* The login's own rights go round the policies, and nobody was there to say so at boot.
Unprotected(p) == config[p].power # "plain" /\ config[p].appRole = NoRole /\ verdict[p] = "none"

\* A statement on behalf of a user sees that user's rows and no other's, whoever used the
\* connection before and whatever the client added to its headers: in every process whose
\* privileges were checked at boot, and in every other that needed no check.  The worker's
\* claim and the rollups read every user's rows or fail, never silently a part of them.
RowsAreOwn ==
  \A r \in Calls : stage[r] = "read" =>
    IF task[r] = "own" THEN seen[r] \subseteq {vouched[r]} \/ Unprotected(at[r])
    ELSE seen[r] = Subs

\* What the rehearsal at boot is for: a checked process is denied a role later only if the
\* schema was taken back meanwhile.
SwitchesAreRehearsed ==
  \A r \in Calls : stage[r] = "not assumed" => verdict[at[r]] # "passed" \/ config[at[r]].kind = "script"
=============================================================================
