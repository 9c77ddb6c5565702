---------------------------- MODULE MCUserMemory ----------------------------
(* UserMemory for TLC, and beside it whose rows a statement sees: the writers  *)
(* of one user's memory and the transactions of many users share no state, so  *)
(* a behaviour takes the steps of one of the two.                              *)
EXTENDS UserMemory, RowSecurity, TLC

VARIABLE part

\* One connection each for a server and another process.
OneEach == [c1 |-> "server", c2 |-> "other"]

\* A header's value: a name, whether a token's claims grant the role, whether it verifies.
Value(name, sales, verifies) == [name |-> name, sales |-> sales, verifies |-> verifies]
Carry(values, stray) == [values |-> values, stray |-> stray]
Ann == Value("ann", TRUE, TRUE)
SixMessages ==
  {Carry(<<Ann>>, FALSE), Carry(<<Ann, Value("local", TRUE, TRUE)>>, FALSE), Carry(<<Ann>>, TRUE),
   Carry(<< >>, FALSE), Carry(<<Value("Ann", FALSE, TRUE)>>, FALSE),
   Carry(<<Value("b!", TRUE, FALSE)>>, FALSE)}
FoldedNames == ("ann" :> "ann") @@ ("Ann" :> "ann") @@ ("b!" :> NoName) @@ ("local" :> "local")

\* Ann under each provider, and the default user.
FourSubs == {<<"disabled", "local">>} \union {<<mode, "ann">> : mode \in Modes}

\* An empty cluster, and one that kept the worker's role from an earlier database.
TwoLeftovers == {{}, {Worker}}

Runs(kind, mode, deploy, power, migrates, role) ==
  [kind |-> kind, mode |-> mode, deploy |-> deploy, sales |-> {"ann"}, power |-> power,
   migrates |-> migrates, appRole |-> role]
Deploy(mode, deploy, power, migrates, role, kind, otherRole) ==
  [server |-> Runs("api", mode, deploy, power, migrates, role),
   other  |-> Runs(kind, mode, deploy, power, migrates, otherRole)]
FourDeployments ==
  {Deploy("disabled", "local", "superuser", TRUE, App, "worker", App),
   Deploy("auth0", "local", "bypassrls", TRUE, NoRole, "script", NoRole),
   Deploy("spcs_ingress", "spcs", "plain", TRUE, App, "worker", NoRole),
   Deploy("spcs_ingress", "local", "plain", FALSE, NoRole, "script", NotARole)}

MCInit ==
  /\ Init /\ RowInit
  /\ part \in {"memory", "rows"}
  /\ part = "memory" => roles = {} /\ config = CHOOSE d \in Deployments : TRUE

MCNext ==
  /\ UNCHANGED part
  /\ \/ part = "memory" /\ Next    /\ UNCHANGED rowVars
     \/ part = "rows"   /\ RowNext /\ UNCHANGED vars

MCSpec == MCInit /\ [][MCNext]_<<vars, rowVars, part>>

Alike == Permutations(Writers) \union Permutations(Calls)
=============================================================================
