--------------------------- MODULE MemoryDocument ---------------------------
(***************************************************************************)
(* One user's memory document as a value: the rows of user_memory that are *)
(* still in the table, keyed by version, and what write_version makes of   *)
(* them (core/personalization/memory.py).                                  *)
(***************************************************************************)
EXTENDS Integers, FiniteSets

CONSTANT KeepVersions   \* settings.memory_keep_versions; below 1 keeps all

\* A user who never wrote a version has no rows at all.
NoVersions == [v \in {} |-> {}]

\* COALESCE(MAX(version), 0).
Latest(doc) ==
  IF DOMAIN doc = {} THEN 0 ELSE CHOOSE v \in DOMAIN doc : \A x \in DOMAIN doc : x <= v

\* Mutant: a cutoff one too high.
RetainedOneFewer(versions, n) ==
  {v \in versions : KeepVersions >= 1 => v > n - KeepVersions + 1}

\* The versions left after the prune that follows the insert of version n.
Retained(versions, n) ==
  {v \in versions : KeepVersions >= 1 => v > n - KeepVersions}

\* Mutant: the prune comes before the insert is counted.
InsertedAfterPrune(doc, n, content) ==
  [v \in Retained(DOMAIN doc \union {n}, n - 1) |-> IF v = n THEN content ELSE doc[v]]

\* INSERT version n, then DELETE ... WHERE version <= n - KeepVersions.
Inserted(doc, n, content) ==
  [v \in Retained(DOMAIN doc \union {n}, n) |-> IF v = n THEN content ELSE doc[v]]
=============================================================================
