----------------------------- MODULE Retention -----------------------------
(***************************************************************************)
(* The GFS retention policy of dbferry, as what it keeps.  A backup is     *)
(* named by its place in the order (CreatedAt, Key), so a greater number   *)
(* is a newer backup and no two are equal.                                 *)
(***************************************************************************)
EXTENDS Integers, FiniteSets

CONSTANTS
  NumBackups, \* how many backups one scope ever has
  BucketOf    \* BucketOf[rule][b]: the UTC day, ISO week or month of backup b

Backups == 1..NumBackups

Rules == {"daily", "weekly", "monthly"}

ASSUME RetentionAssumption ==
  /\ NumBackups \in Nat
  /\ BucketOf \in [Rules -> [Backups -> Nat]]

Policies == [Rules -> Nat]

Newer(b, S) == {c \in S : c > b}

Newest(S) == CHOOSE b \in S : Newer(b, S) = {}

Buckets(rule, S) == {BucketOf[rule][b] : b \in S}

\* What one rule keeps: the newest backup of each of the n newest buckets.
KeptBy(rule, n, valid) ==
  {b \in valid :
     /\ BucketOf[rule][b] \notin Buckets(rule, Newer(b, valid))
     /\ Cardinality(Buckets(rule, Newer(b, valid))) < n}

\* A policy without any counter keeps everything.
KeepsAll(policy) == \A rule \in Rules : policy[rule] = 0

\* What SelectRetention keeps of a set of valid backups.
Keep(valid, policy) ==
  IF valid = {} \/ KeepsAll(policy)
    THEN valid
    ELSE {Newest(valid)} \cup (UNION {KeptBy(rule, policy[rule], valid) : rule \in Rules})

Drop(valid, policy) == valid \ Keep(valid, policy)
=============================================================================
