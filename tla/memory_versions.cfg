SPECIFICATION MCSpec
CONSTANTS
  Writers = {w1, w2, w3}
  Documents = {d1, d2, huge}
  Acceptable = {d1, d2}
  KeepVersions = 2
  MaxVersions = 4
  Processes = {"server", "other"}
  Calls = {r1, r2}
  Pool = {"c1", "c2"}
  PoolOf <- OneEach
  Names = {"ann", "Ann", "b!", "local"}
  Subs <- FourSubs
  Folded <- FoldedNames
  Leftovers <- TwoLeftovers
  Deployments <- FourDeployments
  Messages <- SixMessages
INVARIANTS NumberingIsSound RowsAreOwn SwitchesAreRehearsed
SYMMETRY Alike
CHECK_DEADLOCK FALSE
