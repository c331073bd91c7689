----------------------- MODULE SelectRetentionProofs -----------------------
(***************************************************************************)
(* The loop of SelectRetention computes what the policy keeps, for every   *)
(* policy, every set of backups and every calendar.                        *)
(***************************************************************************)
EXTENDS SelectRetention, RetentionTheorems

-----------------------------------------------------------------------------
(* The loop.                                                               *)

\* The rules whose walk is over when mark works for rule r.
Before(r) == CASE r = "daily" -> {} [] r = "weekly" -> {"daily"} [] r = "monthly" -> {"daily", "weekly"}

Walked == valid \ left

\* The walk has looked at the newest backups and marked exactly those of them
\* that the rule keeps; the earlier rules are complete.
WalkInv ==
  at \in Rules =>
    /\ valid # {} /\ ~KeepsAll(policy)
    /\ \A c \in Walked : \A b \in left : c > b
    /\ seen = Buckets(at, Walked) /\ Cardinality(seen) <= policy[at]
    /\ keepSet = {Newest(valid)}
                 \cup (UNION {KeptBy(r, policy[r], valid) : r \in Before(at)})
                 \cup (KeptBy(at, policy[at], valid) \cap Walked)

LoopInv ==
  /\ LoopTypeOK
  /\ at = "start" => seen = {}
  /\ WalkInv
  /\ LoopKeepsThePolicy

\* Looking at the next newest backup marks it exactly if its rule keeps it.
LEMMA MarkOneInv ==
  ASSUME LoopInv, MarkOne
  PROVE  LoopInv'
<1>a. LoopTypeOK /\ WalkInv /\ at \in Rules /\ left # {}
  BY DEF LoopInv, MarkOne, MarkEnds
<1>0. left \in SUBSET Backups /\ valid \in SUBSET Backups
  BY <1>a DEF LoopTypeOK
<1>1. PICK b \in left : b = Newest(left) /\ \A c \in left : c <= b
  BY <1>a, <1>0, NewestExists
<1>b. b \in Nat /\ \A c \in valid : c \in Nat
  BY <1>0, <1>1, RetentionAssumption DEF Backups, RetentionAssumption
<1>2. Newer(b, valid) = Walked
  <2>2. \A c \in valid : c > b => c \in Walked
    <3> SUFFICES ASSUME NEW c \in valid, c > b, c \in left PROVE FALSE
      BY DEF Walked
    <3>1. c <= b /\ c \in Nat
      BY <1>1, <1>b
    <3> QED BY <1>b, <3>1
  <2>3. \A c \in Walked : c \in valid /\ c > b
    BY <1>1, <1>a DEF Walked, WalkInv
  <2> QED BY <2>2, <2>3 DEF Newer
<1>3. /\ left' = left \ {b} /\ UNCHANGED <<valid, policy, at>>
      /\ Walked' = Walked \cup {b} /\ b \notin Walked /\ b \in valid
  BY <1>1, <1>a DEF MarkOne, Walked, LoopTypeOK
<1>4. seen = Buckets(at, Walked) /\ Cardinality(seen) < policy[at]
  <2>1. seen = Buckets(at, Walked) /\ Cardinality(seen) # policy[at] /\ Cardinality(seen) <= policy[at]
    BY <1>a DEF WalkInv, MarkOne, MarkEnds
  <2>2. Cardinality(seen) \in Nat /\ policy[at] \in Nat
    BY <1>a, <1>0, <2>1, BucketsFinite, MaxCountAssumption DEF Walked, LoopTypeOK, MaxCountAssumption
  <2> QED BY <2>1, <2>2
<1>5. b \in KeptBy(at, policy[at], valid) <=> BucketOf[at][b] \notin seen
  BY <1>2, <1>3, <1>4 DEF KeptBy
<1>6. seen' = seen \cup {BucketOf[at][b]}
      /\ keepSet' = keepSet \cup ({b} \cap KeptBy(at, policy[at], valid))
  BY <1>1, <1>5 DEF MarkOne
<1>7. seen' = Buckets(at, Walked') /\ seen' \subseteq Nat
  <2>1. BucketOf[at][b] \in Nat
    BY <1>a, <1>0, <1>3, RetentionAssumption DEF RetentionAssumption
  <2> QED BY <1>3, <1>4, <1>6, <1>a, <2>1 DEF Buckets, LoopTypeOK
<1>8. Cardinality(seen') <= policy[at]
  <2>1. IsFiniteSet(seen) /\ Cardinality(seen) \in Nat /\ policy[at] \in Nat
    BY <1>a, <1>0, <1>4, BucketsFinite, MaxCountAssumption DEF Walked, LoopTypeOK, MaxCountAssumption
  <2>2. Cardinality(seen') \in {Cardinality(seen), Cardinality(seen) + 1}
    BY <2>1, <1>6, FS_AddElement
  <2> QED BY <1>4, <2>1, <2>2
<1>9. \A c \in Walked' : \A d \in left' : c > d
  <2>2. \A d \in left' : b > d
    <3> SUFFICES ASSUME NEW d \in left' PROVE b > d
      OBVIOUS
    <3>1. d \in left /\ d # b
      BY <1>3
    <3>2. d <= b /\ d \in Nat
      BY <1>1, <1>a, <1>b, <3>1 DEF LoopTypeOK
    <3> QED BY <1>b, <3>1, <3>2
  <2> QED BY <1>3, <1>a, <2>2 DEF WalkInv
<1>10. WalkInv'
  <2>1. keepSet' = {Newest(valid)}
                 \cup (UNION {KeptBy(r, policy[r], valid) : r \in Before(at)})
                 \cup (KeptBy(at, policy[at], valid) \cap Walked')
    <3> DEFINE K == KeptBy(at, policy[at], valid)
               E == {Newest(valid)} \cup (UNION {KeptBy(r, policy[r], valid) : r \in Before(at)})
    <3>1. keepSet = E \cup (K \cap Walked)
      BY <1>a DEF WalkInv
    <3>2. keepSet' = keepSet \cup ({b} \cap K) /\ Walked' = Walked \cup {b}
      BY <1>3, <1>6
    <3> HIDE DEF K, E
    <3>3. keepSet' = E \cup (K \cap Walked')
      BY <3>1, <3>2
    <3> QED BY <3>3 DEF K, E
  <2> QED BY <1>3, <1>7, <1>8, <1>9, <1>a, <2>1 DEF WalkInv
<1>11. LoopTypeOK'
  BY <1>3, <1>6, <1>7, <1>a DEF LoopTypeOK
<1> QED BY <1>3, <1>10, <1>11, <1>a DEF LoopInv, LoopKeepsThePolicy, Rules

\* A walk that ends has marked everything that its rule keeps.
LEMMA WalkIsComplete ==
  ASSUME LoopInv, MarkEnds
  PROVE  KeptBy(at, policy[at], valid) \subseteq Walked
<1>a. LoopTypeOK /\ WalkInv /\ at \in Rules
  BY DEF LoopInv, MarkEnds
<1> SUFFICES ASSUME NEW b \in KeptBy(at, policy[at], valid), b \in left PROVE FALSE
  BY DEF Walked, KeptBy
<1>0. b \in valid /\ valid \in SUBSET Backups /\ policy[at] \in Nat
  BY <1>a, MaxCountAssumption DEF KeptBy, LoopTypeOK, MaxCountAssumption
<1>1. Walked \subseteq Newer(b, valid) /\ Newer(b, valid) \subseteq Backups
  BY <1>a, <1>0 DEF Newer, Walked, WalkInv
<1>2. /\ Cardinality(Buckets(at, Newer(b, valid))) \in Nat
      /\ Cardinality(seen) \in Nat
      /\ Cardinality(seen) <= Cardinality(Buckets(at, Newer(b, valid)))
  BY <1>1, <1>a, BucketsFinite DEF WalkInv
<1>3. Cardinality(Buckets(at, Newer(b, valid))) < policy[at]
  BY DEF KeptBy
<1>4. policy[at] <= 0 \/ Cardinality(seen) = policy[at]
  BY DEF MarkEnds
<1> QED BY <1>0, <1>2, <1>3, <1>4

\* Turning to the next rule keeps the invariant; after the last one the policy
\* has been applied.
LEMMA MarkReturnsInv ==
  ASSUME LoopInv, MarkReturns
  PROVE  LoopInv'
<1>a. LoopTypeOK /\ WalkInv /\ at \in Rules /\ MarkEnds
  BY DEF LoopInv, MarkReturns, MarkEnds
<1>1. keepSet = {Newest(valid)} \cup (UNION {KeptBy(r, policy[r], valid) : r \in Before(at) \cup {at}})
  <2> DEFINE K(r) == KeptBy(r, policy[r], valid)
  <2>1. keepSet = {Newest(valid)} \cup (UNION {K(r) : r \in Before(at)}) \cup (K(at) \cap Walked)
    BY <1>a DEF WalkInv
  <2>2. K(at) \subseteq Walked
    BY <1>a, WalkIsComplete
  <2> HIDE DEF K
  <2>3. (UNION {K(r) : r \in Before(at) \cup {at}}) = (UNION {K(r) : r \in Before(at)}) \cup K(at)
    <3>1. \A x : x \in (UNION {K(r) : r \in Before(at) \cup {at}}) <=> \E r \in Before(at) \cup {at} : x \in K(r)
      BY Zenon
    <3>2. \A x : x \in (UNION {K(r) : r \in Before(at)}) <=> \E r \in Before(at) : x \in K(r)
      BY Zenon
    <3> QED BY <3>1, <3>2
  <2>4. keepSet = {Newest(valid)} \cup (UNION {K(r) : r \in Before(at) \cup {at}})
    BY <2>1, <2>2, <2>3
  <2> QED BY <2>4 DEF K
<1>2. /\ at' = NextRule[at] /\ left' = valid /\ seen' = {} /\ Walked' = {}
      /\ UNCHANGED <<valid, policy, keepSet>>
  BY DEF MarkReturns, Walked
<1>3. valid # {} /\ ~KeepsAll(policy)
  BY <1>a DEF WalkInv
<1>4. LoopTypeOK'
  BY <1>a, <1>2 DEF LoopTypeOK, NextRule, Rules
<1>5. at' \in Rules => Before(at') = Before(at) \cup {at}
  BY <1>a, <1>2 DEF NextRule, Rules, Before
<1>6. WalkInv'
  <2> SUFFICES ASSUME at' \in Rules PROVE WalkInv'
    BY DEF WalkInv
  <2>1. seen' = Buckets(at', Walked')
    BY <1>2 DEF Buckets
  <2>2. Cardinality(seen') = 0 /\ policy[at'] \in Nat
    BY <1>2, <1>a, FS_EmptySet, MaxCountAssumption DEF LoopTypeOK, MaxCountAssumption
  <2>3. keepSet' = {Newest(valid)} \cup (UNION {KeptBy(r, policy[r], valid) : r \in Before(at')})
    BY <1>1, <1>2, <1>5
  <2> QED BY <1>2, <1>3, <2>1, <2>2, <2>3 DEF WalkInv, KeepsAll
<1>7. LoopKeepsThePolicy'
  <2> SUFFICES ASSUME at' = "done" PROVE keepSet = Keep(valid, policy)
    BY <1>2 DEF LoopKeepsThePolicy
  <2>1. Before(at) \cup {at} = Rules
    BY <1>a, <1>2 DEF NextRule, Rules, Before
  <2> QED BY <1>1, <1>3, <2>1 DEF Keep
<1> QED
  BY <1>2, <1>4, <1>6, <1>7, <1>a DEF LoopInv, NextRule, Rules

\* Starting the walk, and the returns before it.
LEMMA StartInv ==
  ASSUME LoopInv, ReturnAll \/ KeepNewest
  PROVE  LoopInv'
<1>a. LoopTypeOK /\ at = "start" /\ seen = {}
  BY DEF LoopInv, ReturnAll, KeepNewest
<1>1. CASE ReturnAll
  BY <1>a, <1>1 DEF LoopInv, ReturnAll, LoopTypeOK, WalkInv, LoopKeepsThePolicy, Keep, Rules
<1>2. CASE KeepNewest
  <2>1. /\ keepSet' = {Newest(valid)} /\ at' = "daily" /\ left' = valid
        /\ Walked' = {} /\ UNCHANGED <<valid, policy, seen>>
        /\ valid # {} /\ ~KeepsAll(policy)
    BY <1>2 DEF KeepNewest, Walked
  <2>2. Newest(valid) \in valid
    BY <1>a, <2>1, NewestExists DEF LoopTypeOK
  <2>3. Before("daily") = {} /\ "daily" \in Rules
    BY DEF Before, Rules
  <2>4. Cardinality({}) = 0 /\ policy["daily"] \in Nat
    BY <1>a, <2>3, FS_EmptySet, MaxCountAssumption DEF LoopTypeOK, MaxCountAssumption
  <2>5. WalkInv'
    BY <1>a, <2>1, <2>3, <2>4 DEF WalkInv, Buckets, KeepsAll
  <2> QED
    BY <1>a, <2>1, <2>2, <2>3, <2>5 DEF LoopInv, LoopTypeOK, LoopKeepsThePolicy
<1> QED BY <1>1, <1>2

\* The loop invariant holds.
THEOREM LoopInvariance == Spec => []LoopInv
<1>1. Init => LoopInv
  BY DEF Init, LoopInv, LoopTypeOK, WalkInv, LoopKeepsThePolicy, Rules
<1>2. LoopInv /\ [Next]_loopVars => LoopInv'
  <2> SUFFICES ASSUME LoopInv, [Next]_loopVars PROVE LoopInv'
    OBVIOUS
  <2>1. CASE UNCHANGED loopVars
    BY <2>1 DEF loopVars, LoopInv, LoopTypeOK, WalkInv, Walked, LoopKeepsThePolicy, KeepsAll
  <2> QED
    BY <2>1, MarkOneInv, MarkReturnsInv, StartInv DEF Next, Done
<1> QED BY <1>1, <1>2, PTL DEF Spec

\* SelectRetention's loop keeps exactly what the policy says, for every policy,
\* set of valid backups and calendar.
THEOREM LoopIsCorrect == Spec => []LoopKeepsThePolicy
<1>1. LoopInv => LoopKeepsThePolicy
  BY DEF LoopInv
<1> QED BY <1>1, LoopInvariance, PTL

\* A second pass over what the first one kept deletes nothing, for every policy.
THEOREM PassesSettle == Spec => []SecondPassDropsNothing
<1>1. LoopTypeOK /\ LoopKeepsThePolicy => SecondPassDropsNothing
  <2> SUFFICES ASSUME LoopTypeOK, LoopKeepsThePolicy, at = "done"
               PROVE  Keep(keepSet, policy) = keepSet
    BY DEF SecondPassDropsNothing
  <2>1. policy \in Policies
    BY MaxCountAssumption DEF LoopTypeOK, Policies, MaxCountAssumption
  <2>2. valid \in SUBSET Backups /\ keepSet = Keep(valid, policy)
    BY DEF LoopTypeOK, LoopKeepsThePolicy
  <2> QED BY <2>1, <2>2, KeepIsIdempotent
<1>2. LoopInv => LoopTypeOK
  BY DEF LoopInv
<1> QED BY <1>1, <1>2, LoopInvariance, LoopIsCorrect, PTL
=============================================================================
