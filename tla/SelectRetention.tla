-------------------------- MODULE SelectRetention --------------------------
(***************************************************************************)
(* SelectRetention as the loop the code runs: the newest valid backup is   *)
(* kept, then mark walks the valid backups from the newest for each rule   *)
(* in turn and keeps the first backup of every bucket until it has seen as *)
(* many buckets as the rule counts.                                        *)
(***************************************************************************)
EXTENDS Retention

CONSTANT MaxCount  \* bound: greatest counter of a policy

ASSUME MaxCountAssumption == MaxCount \in Nat

VARIABLES
  valid,    \* the listed backups in state BackupValid
  policy,   \* the counter of each rule
  at,       \* the rule that mark works for, or "start" or "done"
  left,     \* the valid backups that mark has not looked at
  seen,     \* the buckets that mark has seen
  keepSet   \* the backups marked so far

loopVars == <<valid, policy, at, left, seen, keepSet>>

Init ==
  /\ valid \in SUBSET Backups /\ policy \in [Rules -> 0..MaxCount]
  /\ at = "start" /\ left = {} /\ seen = {} /\ keepSet = {}

NextRule == [r \in Rules |->
  CASE r = "daily" -> "weekly" [] r = "weekly" -> "monthly" [] r = "monthly" -> "done"]

\* No valid backup, or a policy that counts nothing: everything is kept.
ReturnAll ==
  /\ at = "start" /\ (valid = {} \/ KeepsAll(policy))
  /\ at' = "done" /\ keepSet' = valid
  /\ UNCHANGED <<valid, policy, left, seen>>

\* The newest valid backup always survives.
KeepNewest ==
  /\ at = "start" /\ valid # {} /\ ~KeepsAll(policy)
  /\ keepSet' = {Newest(valid)}
  /\ at' = "daily" /\ left' = valid
  /\ UNCHANGED <<valid, policy, seen>>

\* The loop of mark is over: not asked for, enough buckets, or no backup left.
MarkEnds ==
  at \in Rules /\ (policy[at] <= 0 \/ Cardinality(seen) = policy[at] \/ left = {})

\* Mutant: the seen buckets are not reset between the rules.
MarkReturnsKeepingSeen ==
  /\ MarkEnds
  /\ at' = NextRule[at] /\ left' = valid /\ seen' = seen
  /\ UNCHANGED <<valid, policy, keepSet>>

\* mark returns and the next rule starts from the newest backup with no bucket seen.
MarkReturns ==
  /\ MarkEnds
  /\ at' = NextRule[at] /\ left' = valid /\ seen' = {}
  /\ UNCHANGED <<valid, policy, keepSet>>

\* Mutant: a backup in a seen bucket is kept as well.
MarkEveryBackup ==
  /\ at \in Rules /\ ~MarkEnds
  /\ LET b == Newest(left) IN
       /\ left' = left \ {b}
       /\ seen' = seen \cup {BucketOf[at][b]}
       /\ keepSet' = keepSet \cup {b}
  /\ UNCHANGED <<valid, policy, at>>

\* The next newest backup: marked if it opens a bucket.
MarkOne ==
  /\ at \in Rules /\ ~MarkEnds
  /\ LET b == Newest(left) IN
       /\ left' = left \ {b}
       /\ IF BucketOf[at][b] \in seen
            THEN UNCHANGED <<seen, keepSet>>
            ELSE /\ seen' = seen \cup {BucketOf[at][b]}
                 /\ keepSet' = keepSet \cup {b}
  /\ UNCHANGED <<valid, policy, at>>

Done == at = "done" /\ UNCHANGED loopVars

Next == ReturnAll \/ KeepNewest \/ MarkOne \/ MarkReturns \/ Done

Spec == Init /\ [][Next]_loopVars

-----------------------------------------------------------------------------
LoopTypeOK ==
  /\ valid \subseteq Backups /\ policy \in [Rules -> 0..MaxCount]
  /\ at \in Rules \cup {"start", "done"}
  /\ left \subseteq valid /\ keepSet \subseteq valid
  /\ seen \subseteq Nat

\* The loop keeps the newest backup and exactly the newest backup of each of the
\* most recent buckets that the policy counts (SelectRetention and mark).
LoopKeepsThePolicy == at = "done" => keepSet = Keep(valid, policy)

\* A second pass over what the first one kept deletes nothing: retention settles
\* and repeated passes do not erode the backups (SelectRetention).
SecondPassDropsNothing ==
  at = "done" => Keep(keepSet, policy) = keepSet
=============================================================================
