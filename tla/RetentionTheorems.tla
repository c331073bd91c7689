------------------------- MODULE RetentionTheorems -------------------------
(***************************************************************************)
(* What the retention policy keeps, for every policy, every set of backups *)
(* and every assignment of backups to days, weeks and months.              *)
(***************************************************************************)
EXTENDS Retention, FiniteSetTheorems, WellFoundedInduction, TLAPS

\* A non-empty set of backups has a newest one, and it is the only one.
LEMMA NewestExists ==
  ASSUME NEW S \in SUBSET Backups, S # {}
  PROVE  /\ Newest(S) \in S
         /\ \A c \in S : c <= Newest(S)
<1> DEFINE U == {u \in Nat : \A b \in S : b <= u}
<1>1. S \subseteq Nat \ {0} /\ NumBackups \in U
  BY RetentionAssumption DEF RetentionAssumption, Backups
<1>2. PICK m \in U : \A u \in U : ~(<<u, m>> \in OpToRel(<, Nat))
  <2>1. U \subseteq Nat /\ U # {}
    BY <1>1
  <2> HIDE DEF U
  <2> QED BY <2>1, WFMin, NatLessThanWellFounded
<1>3. m \in Nat /\ (\A b \in S : b \in Nat \ {0} /\ b <= m) /\ \A u \in U : ~(u < m)
  BY <1>1, <1>2 DEF OpToRel
<1>4. m \in S
  <2> SUFFICES ASSUME m \notin S PROVE FALSE
    OBVIOUS
  <2>1. m - 1 \in Nat
    <3>1. PICK b \in S : TRUE OBVIOUS
    <3> QED BY <1>3, <3>1
  <2>2. \A b \in S : b <= m - 1
    BY <1>3
  <2>3. m - 1 \in U
    BY <2>1, <2>2
  <2> HIDE DEF U
  <2> QED BY <1>3, <2>3
<1>5. Newer(m, S) = {}
  BY <1>3 DEF Newer
<1>6. Newest(S) \in S /\ Newer(Newest(S), S) = {}
  BY <1>4, <1>5 DEF Newest
<1>7. \A c \in S : ~(c > Newest(S)) /\ c \in Nat
  BY <1>1, <1>6 DEF Newer
<1> QED BY <1>6, <1>7

\* The newest valid backup is always kept, whatever the policy (SelectRetention).
THEOREM NewestIsKept ==
  ASSUME NEW S \in SUBSET Backups, S # {}, NEW pol \in Policies
  PROVE  Newest(S) \in Keep(S, pol) /\ Keep(S, pol) \subseteq S
BY NewestExists DEF Keep, KeptBy

\* The buckets of finitely many backups are finite, and more backups have at
\* least as many.
LEMMA BucketsFinite ==
  ASSUME NEW r \in Rules, NEW S \in SUBSET Backups, NEW T \in SUBSET S
  PROVE  /\ IsFiniteSet(Buckets(r, S)) /\ IsFiniteSet(Buckets(r, T))
         /\ Cardinality(Buckets(r, S)) \in Nat /\ Cardinality(Buckets(r, T)) \in Nat
         /\ Cardinality(Buckets(r, T)) <= Cardinality(Buckets(r, S))
<1>1. IsFiniteSet(S)
  <2>1. NumBackups \in Int /\ 1 \in Int
    BY RetentionAssumption DEF RetentionAssumption
  <2>2. IsFiniteSet(Backups)
    BY <2>1, FS_Interval DEF Backups
  <2> QED BY <2>2, FS_Subset
<1>2. IsFiniteSet(Buckets(r, S))
  <2> DEFINE f == [b \in S |-> BucketOf[r][b]]
  <2>1. f \in Surjection(S, Buckets(r, S))
    BY DEF Surjection, Buckets
  <2> HIDE DEF f
  <2> QED BY <1>1, <2>1, FS_Surjection
<1>3. Buckets(r, T) \subseteq Buckets(r, S)
  BY DEF Buckets
<1> QED BY <1>2, <1>3, FS_Subset, FS_CardinalityType

\* What a policy drops of some backups it also drops of more of them: a listing
\* that misses backups never makes a pass delete more (SelectRetention).
THEOREM DropIsMonotone ==
  ASSUME NEW T \in SUBSET Backups, NEW S \in SUBSET T, NEW pol \in Policies
  PROVE  Drop(S, pol) \subseteq Drop(T, pol)
<1> SUFFICES ASSUME NEW b \in Drop(S, pol) PROVE b \in Drop(T, pol)
  OBVIOUS
<1>1. b \in S /\ S # {} /\ ~KeepsAll(pol) /\ b # Newest(S)
      /\ \A r \in Rules : b \notin KeptBy(r, pol[r], S)
  BY DEF Drop, Keep
<1>2. S \in SUBSET Backups /\ b \in T /\ T # {} /\ \A c \in Backups : c \in Nat
  BY <1>1, RetentionAssumption DEF Backups, RetentionAssumption
<1>3. b # Newest(T)
  <2>1. Newest(S) \in S /\ b <= Newest(S)
    BY <1>1, <1>2, NewestExists
  <2>2. \A c \in T : c <= Newest(T)
    BY <1>2, NewestExists
  <2>3. Newest(S) <= Newest(T) /\ b \in Nat /\ Newest(S) \in Nat
    BY <1>1, <1>2, <2>1, <2>2
  <2> QED BY <1>1, <2>1, <2>3
<1>4. ASSUME NEW r \in Rules PROVE b \notin KeptBy(r, pol[r], T)
  <2>1. Newer(b, S) \in SUBSET Newer(b, T) /\ Newer(b, T) \in SUBSET Backups
    BY DEF Newer
  <2>2. Buckets(r, Newer(b, S)) \subseteq Buckets(r, Newer(b, T))
    BY <2>1 DEF Buckets
  <2>3. CASE BucketOf[r][b] \in Buckets(r, Newer(b, S))
    BY <2>2, <2>3 DEF KeptBy
  <2>4. CASE ~(Cardinality(Buckets(r, Newer(b, S))) < pol[r])
    <3>1. /\ Cardinality(Buckets(r, Newer(b, S))) \in Nat
          /\ Cardinality(Buckets(r, Newer(b, T))) \in Nat
          /\ Cardinality(Buckets(r, Newer(b, S))) <= Cardinality(Buckets(r, Newer(b, T)))
      BY <2>1, BucketsFinite
    <3>2. pol[r] \in Nat
      BY DEF Policies
    <3>3. ~(Cardinality(Buckets(r, Newer(b, T))) < pol[r])
      BY <2>4, <3>1, <3>2
    <3> QED BY <3>3 DEF KeptBy
  <2> QED BY <1>1, <2>3, <2>4 DEF KeptBy
<1>5. b \notin Keep(T, pol)
  BY <1>1, <1>2, <1>3, <1>4 DEF Keep
<1> QED BY <1>2, <1>5 DEF Drop

\* Applying a policy again to what it kept drops nothing: repeated passes do not
\* erode the backups (SelectRetention).
THEOREM KeepIsIdempotent ==
  ASSUME NEW S \in SUBSET Backups, NEW pol \in Policies
  PROVE  Keep(Keep(S, pol), pol) = Keep(S, pol)
<1> DEFINE K == Keep(S, pol)
<1>1. CASE S = {} \/ KeepsAll(pol)
  BY <1>1 DEF Keep
<1>2. CASE S # {} /\ ~KeepsAll(pol)
  <2>1. Newest(S) \in K /\ K \in SUBSET S /\ K \in SUBSET Backups /\ K # {}
    BY <1>2, NewestIsKept
  <2>2. Newest(K) = Newest(S)
    <3>1. Newest(K) \in K /\ (\A c \in K : c <= Newest(K)) /\ \A c \in S : c <= Newest(S)
      BY <1>2, <2>1, NewestExists
    <3>2. Newest(K) \in Nat /\ Newest(S) \in Nat
      BY <2>1, <3>1, RetentionAssumption DEF Backups, RetentionAssumption
    <3>3. Newest(S) <= Newest(K) /\ Newest(K) <= Newest(S)
      BY <2>1, <3>1
    <3> QED BY <3>2, <3>3
  <2>3. ASSUME NEW r \in Rules PROVE KeptBy(r, pol[r], S) \cap K \subseteq KeptBy(r, pol[r], K)
    <3> SUFFICES ASSUME NEW b \in KeptBy(r, pol[r], S), b \in K PROVE b \in KeptBy(r, pol[r], K)
      OBVIOUS
    <3> HIDE DEF K
    <3>1. Newer(b, K) \in SUBSET Newer(b, S) /\ Newer(b, S) \in SUBSET Backups
      BY <2>1 DEF Newer
    <3>2. Buckets(r, Newer(b, K)) \subseteq Buckets(r, Newer(b, S))
      BY <3>1 DEF Buckets
    <3>3. /\ Cardinality(Buckets(r, Newer(b, S))) \in Nat
          /\ Cardinality(Buckets(r, Newer(b, K))) \in Nat
          /\ Cardinality(Buckets(r, Newer(b, K))) <= Cardinality(Buckets(r, Newer(b, S)))
      BY <3>1, BucketsFinite
    <3>4. pol[r] \in Nat
      BY DEF Policies
    <3>5. BucketOf[r][b] \notin Buckets(r, Newer(b, S)) /\ Cardinality(Buckets(r, Newer(b, S))) < pol[r]
      BY DEF KeptBy
    <3>6. BucketOf[r][b] \notin Buckets(r, Newer(b, K)) /\ Cardinality(Buckets(r, Newer(b, K))) < pol[r]
      BY <3>2, <3>3, <3>4, <3>5
    <3> QED BY <3>6 DEF KeptBy
  <2>4. ASSUME NEW b \in K PROVE b \in Keep(K, pol)
    <3>1. b = Newest(S) \/ \E r \in Rules : b \in KeptBy(r, pol[r], S)
      BY <1>2 DEF Keep
    <3>2. b = Newest(K) \/ \E r \in Rules : b \in KeptBy(r, pol[r], K)
      BY <2>2, <2>3, <3>1
    <3> HIDE DEF K
    <3> QED BY <1>2, <2>1, <3>2 DEF Keep
  <2>5. Keep(K, pol) \subseteq K
    <3> HIDE DEF K
    <3> QED BY <2>1, NewestIsKept
  <2> QED BY <2>4, <2>5
<1> QED BY <1>1, <1>2
=============================================================================
