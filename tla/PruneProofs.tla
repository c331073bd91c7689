---------------------------- MODULE PruneProofs ----------------------------
(***************************************************************************)
(* What retention passes and deletes never do, for any number of backups,  *)
(* passes and policies, any calendar and any batch size.                   *)
(***************************************************************************)
EXTENDS Prune, RetentionTheorems, TLAPS

-----------------------------------------------------------------------------
(* The inductive invariant.                                                *)

\* The deletion of b is justified by a request or by the policy of some pass,
\* judged by everything that was ever finished.
Superseded(b) ==
  \/ b \in requested
  \/ \E p \in Passes : mode[p] = "prune" /\ b \in Drop(EverValid, policy[p])

\* The ciphertext of b is not there and will not come any more.
Absent(b) == b \in everM /\ b \notin ciphers

\* The manifest of b may be deleted.
Gone(b) == Absent(b) /\ (Superseded(b) \/ kind[b] = "misref")

\* Only superseded ciphertexts are missing, and only manifests without one.
BucketInv ==
  /\ \A b \in everM : kind[b] \in Kinds /\ (kind[b] = "ours" => b \in everC)
  /\ requested \subseteq EverValid
  /\ \A b \in everC \ ciphers : Superseded(b)
  /\ \A b \in everM \ manifests : Gone(b)
  /\ \A b \in lateC : Superseded(b)
  /\ \A b \in lateM : Gone(b)

\* A pass is only where its mode takes it.
ModeInv(p) ==
  /\ pc[p] = "idle" => mode[p] = "none" /\ seenC[p] = {} /\ seenM[p] = {} /\ cursor[p] = 0
  /\ pc[p] \in {"list", "read"} => mode[p] # "none"
  /\ pc[p] = "filter" => mode[p] \in {"prune", "dry"}
  /\ pc[p] = "listed" => mode[p] = "delete"
  /\ pc[p] \in {"ciphers", "manifests"} => mode[p] \in {"prune", "delete"}
  /\ pc[p] = "dangling" => mode[p] = "prune"
  /\ unread[p] \subseteq seenM[p]
  /\ pc[p] \in {"idle", "list", "read"} => dangling[p] = {} /\ drop[p] = {}
  /\ pc[p] = "read" => unread[p] \subseteq seenC[p]
  /\ pc[p] = "filter" => unread[p] \cap seenC[p] = {}

\* What a listing saw is true enough: a manifest seen without its ciphertext has
\* none any more.
ListInv(p) ==
  /\ \A b \in Backups : cursor[p] = CipherKey(b) => b \in seenC[p]
  /\ \A b \in seenM[p] \ seenC[p] : Absent(b)
  /\ valid[p] \subseteq EverValid
  /\ drop[p] \subseteq valid[p]
  /\ \A b \in dangling[p] : Gone(b)

\* No dangling manifest of ours is lost from sight on the way to the last stage.
HealInv(p) ==
  /\ \A b \in wasDangling[p] : kind[b] = "ours" /\ Absent(b) /\ b \notin seenC[p]
  /\ pc[p] = "list" =>
       \A b \in wasDangling[p] \cap manifests : ManifestKey(b) <= cursor[p] => b \in seenM[p]
  /\ pc[p] = "read" => wasDangling[p] \cap manifests \subseteq seenM[p]
  /\ pc[p] = "filter" => wasDangling[p] \cap manifests \subseteq unread[p] \cup dangling[p]
  /\ pc[p] \in {"ciphers", "manifests", "dangling"} /\ mode[p] = "prune" =>
       wasDangling[p] \cap manifests \subseteq dangling[p]

\* What is out of the queue of a stage is out of the bucket.
DeleteInv(p) ==
  /\ pc[p] \in {"ciphers", "manifests", "dangling"} => \A b \in drop[p] : Superseded(b)
  /\ pc[p] = "ciphers" => queue[p] \subseteq drop[p] /\ (drop[p] \ queue[p]) \cap ciphers = {}
  /\ pc[p] \in {"manifests", "dangling"} => drop[p] \cap ciphers = {}
  /\ pc[p] = "manifests" => queue[p] \subseteq drop[p] /\ (drop[p] \ queue[p]) \cap manifests = {}
  /\ pc[p] = "dangling" =>
       /\ drop[p] \cap manifests = {}
       /\ queue[p] \subseteq dangling[p] /\ (dangling[p] \ queue[p]) \cap manifests = {}
  /\ pc[p] = "ok" /\ mode[p] # "dry" =>
       /\ drop[p] \cap (ciphers \cup manifests) = {}
       /\ mode[p] = "prune" => wasDangling[p] \cap manifests = {}

PassInv(p) == ModeInv(p) /\ ListInv(p) /\ HealInv(p) /\ DeleteInv(p)

IInv == TypeOK /\ BucketInv /\ \A p \in Passes : PassInv(p)

-----------------------------------------------------------------------------
(* What every step preserves.                                              *)

\* The changes that a step may make to the bucket and to what was asked.
Forward ==
  /\ everC \subseteq everC' /\ everM \subseteq everM' /\ requested \subseteq requested'
  /\ \A b \in everM : /\ kind'[b] = kind[b]
                      /\ b \notin ciphers => b \notin ciphers'
                      /\ b \notin manifests => b \notin manifests'
  /\ \A p \in Passes : mode[p] = "prune" => mode'[p] = "prune" /\ policy'[p] = policy[p]

\* Objects are written once, and what a pass was asked for does not change.
LEMMA StepsGoForward ==
  ASSUME TypeOK, \A p \in Passes : ModeInv(p), Next
  PROVE  Forward
<1> USE DEF Forward
<1>1. ASSUME NEW b \in Backups, CompleteObject(b) PROVE Forward
  BY <1>1 DEF CompleteObject, askVars
<1>2. ASSUME NEW b \in Backups, PutManifest(b) PROVE Forward
  BY <1>2 DEF PutManifest, askVars, TypeOK
<1>3. ASSUME NEW p \in Passes, Start(p) PROVE Forward
  BY <1>3 DEF Start, bucketVars, ModeInv, TypeOK
<1>4. ASSUME NEW p \in Passes,
             \/ NextPage(p) \/ ReadManifest(p) \/ ListingReturns(p)
             \/ ReadDangling(p) \/ Select(p) \/ StageEnds(p)
      PROVE  Forward
  BY <1>4 DEF NextPage, ReadManifest, ListingReturns, ReadDangling, Select, Selected, StageEnds,
              bucketVars, askVars
<1>5. ASSUME NEW p \in Passes, DeleteBackups(p) PROVE Forward
  BY <1>5 DEF DeleteBackups, bucketVars, askVars
<1>6. ASSUME NEW p \in Passes, DeleteBatch(p) PROVE Forward
  BY <1>6 DEF DeleteBatch, askVars
<1>7. ASSUME NEW p \in Passes, DeleteFails(p) \/ Stops(p) PROVE Forward
  BY <1>7 DEF DeleteFails, Stops, bucketVars
<1>8. CASE LateDelete
  BY <1>8 DEF LateDelete, askVars
<1> QED BY <1>1, <1>2, <1>3, <1>4, <1>5, <1>6, <1>7, <1>8 DEF Next, PassStep

\* Hence what justifies a deletion keeps justifying it.
LEMMA Stable ==
  ASSUME TypeOK, TypeOK', Forward
  PROVE  /\ EverValid \subseteq EverValid'
         /\ \A b \in Backups : Absent(b) => Absent(b)'
         /\ \A b \in Backups : Superseded(b) => Superseded(b)'
         /\ \A b \in Backups : Gone(b) => Gone(b)'
<1>1. EverValid \subseteq EverValid'
  BY DEF Forward, EverValid
<1>2. \A b \in Backups : Absent(b) => Absent(b)'
  BY DEF Forward, Absent
<1>3. ASSUME NEW b \in Backups, Superseded(b) PROVE Superseded(b)'
  <2>1. CASE b \in requested
    BY <2>1 DEF Forward, Superseded
  <2>2. ASSUME NEW p \in Passes, mode[p] = "prune", b \in Drop(EverValid, policy[p])
        PROVE  Superseded(b)'
    <3>1. mode'[p] = "prune" /\ policy'[p] = policy[p]
      BY <2>2 DEF Forward
    <3>2. policy[p] \in Policies /\ EverValid' \in SUBSET Backups
      BY DEF TypeOK, EverValid
    <3>3. Drop(EverValid, policy[p]) \subseteq Drop(EverValid', policy[p])
      BY <1>1, <3>2, DropIsMonotone
    <3>4. b \in Drop(EverValid', policy'[p])
      BY <2>2, <3>1, <3>3
    <3> QED BY <3>1, <3>4 DEF Superseded
  <2> QED BY <1>3, <2>1, <2>2 DEF Superseded
<1>4. \A b \in Backups : Gone(b) => Gone(b)'
  BY <1>2, <1>3 DEF Gone, Forward, Absent
<1> QED BY <1>1, <1>2, <1>3, <1>4

\* A pass keeps its invariant while others work.
Untouched(p) ==
  /\ pc'[p] = pc[p] /\ mode'[p] = mode[p] /\ policy'[p] = policy[p]
  /\ cursor'[p] = cursor[p] /\ seenC'[p] = seenC[p] /\ seenM'[p] = seenM[p]
  /\ unread'[p] = unread[p] /\ valid'[p] = valid[p] /\ dangling'[p] = dangling[p]
  /\ drop'[p] = drop[p] /\ queue'[p] = queue[p] /\ wasDangling'[p] = wasDangling[p]

LEMMA OthersWork ==
  ASSUME TypeOK, TypeOK', Forward, NEW p \in Passes, PassInv(p), Untouched(p)
  PROVE  PassInv(p)'
<1>1. /\ EverValid \subseteq EverValid'
      /\ \A b \in Backups : Absent(b) => Absent(b)'
      /\ \A b \in Backups : Superseded(b) => Superseded(b)'
      /\ \A b \in Backups : Gone(b) => Gone(b)'
  BY Stable
<1>2. /\ seenM[p] \subseteq everM /\ seenM[p] \subseteq Backups /\ valid[p] \subseteq seenM[p]
      /\ dangling[p] \subseteq seenM[p] /\ wasDangling[p] \subseteq Backups
  BY DEF TypeOK
<1>3. drop[p] \subseteq seenM[p]
  BY <1>2 DEF PassInv, ListInv
<1>4. ModeInv(p)'
  BY DEF PassInv, ModeInv, Untouched
<1>5. ListInv(p)'
  BY <1>1, <1>2 DEF PassInv, ListInv, Untouched
<1>6. /\ \A b \in seenM[p] : b \notin ciphers => b \notin ciphers'
      /\ \A b \in seenM[p] : b \notin manifests => b \notin manifests'
  BY <1>2 DEF Forward
<1>7. \A b \in wasDangling[p] :
        /\ kind'[b] = "ours" /\ Absent(b)' /\ b \notin seenC[p]
        /\ b \notin manifests => b \notin manifests'
  BY <1>1, <1>2 DEF PassInv, HealInv, Forward, Absent
<1>8. HealInv(p)'
  BY <1>7 DEF PassInv, HealInv, Untouched
<1>9. DeleteInv(p)'
  BY <1>1, <1>2, <1>3, <1>6, <1>7 DEF PassInv, DeleteInv, Untouched
<1> QED BY <1>4, <1>5, <1>8, <1>9 DEF PassInv

-----------------------------------------------------------------------------
(* Types.                                                                  *)

\* What is in the queue of a stage was once in the bucket.
LEMMA QueuedIsKnown ==
  ASSUME TypeOK, NEW p \in Passes, PassInv(p)
  PROVE  /\ Batch(queue[p]) \subseteq queue[p]
         /\ pc[p] = "ciphers" => queue[p] \subseteq everC
         /\ pc[p] \in {"manifests", "dangling"} => queue[p] \subseteq everM
<1>1. seenC[p] \subseteq everC /\ seenM[p] \subseteq everM
      /\ valid[p] \subseteq seenC[p] \cap seenM[p] /\ dangling[p] \subseteq seenM[p]
  BY DEF TypeOK
<1>2. drop[p] \subseteq valid[p]
  BY DEF PassInv, ListInv
<1> QED BY <1>1, <1>2 DEF Batch, PassInv, DeleteInv

\* The type invariant is preserved.
LEMMA TypeStep ==
  ASSUME IInv, Next
  PROVE  TypeOK'
<1> USE DEF IInv
<1>0. \A p \in Passes : PassInv(p) /\ ModeInv(p)
  BY DEF PassInv
<1>1. ASSUME NEW b \in Backups, CompleteObject(b) PROVE TypeOK'
  BY <1>1 DEF CompleteObject, TypeOK, lateVars, askVars, listVars, readVars, deleteVars
<1>2. ASSUME NEW b \in Backups, PutManifest(b) PROVE TypeOK'
  <2>1. kind' \in [Backups -> Kinds \cup {"none"}]
    BY <1>2, PruneAssumption DEF PutManifest, TypeOK, PruneAssumption
  <2> QED BY <1>2, <2>1 DEF PutManifest, TypeOK, lateVars, askVars, listVars, readVars, deleteVars
<1>3. ASSUME NEW p \in Passes, Start(p) PROVE TypeOK'
  <2>1. \A pol \in PolicyChoices : pol \in Policies
    BY PruneAssumption DEF PruneAssumption
  <2>2. /\ mode' \in [Passes -> {"none", "prune", "dry", "delete"}]
        /\ policy' \in [Passes -> Policies]
        /\ pc' \in [Passes -> {"idle", "list", "read", "listed", "filter", "ciphers",
                        "manifests", "dangling", "ok", "failed"}]
    BY <1>3, <2>1 DEF Start, TypeOK
  <2>3. wasDangling' \in [Passes -> SUBSET Backups]
    BY <1>3 DEF Start, TypeOK
  <2> QED BY <1>3, <2>2, <2>3 DEF Start, TypeOK, bucketVars, lateVars, listVars, readVars, deleteVars
<1>4. ASSUME NEW p \in Passes, NextPage(p) PROVE TypeOK'
  <2>1. PICK k \in Keys \cup {EndOfKeys} :
          /\ cursor' = [cursor EXCEPT ![p] = k]
          /\ seenC' = [seenC EXCEPT ![p] =
               @ \cup {b \in ciphers : cursor[p] < CipherKey(b) /\ CipherKey(b) <= k}]
          /\ seenM' = [seenM EXCEPT ![p] =
               @ \cup {b \in manifests : cursor[p] < ManifestKey(b) /\ ManifestKey(b) <= k}]
          /\ IF k = EndOfKeys
               THEN /\ pc' = [pc EXCEPT ![p] = "read"]
                    /\ unread' = [unread EXCEPT ![p] = seenC'[p] \cap seenM'[p]]
               ELSE UNCHANGED <<pc, unread>>
    BY <1>4 DEF NextPage
  <2>2. k \in 0..EndOfKeys
    BY RetentionAssumption DEF Keys, EndOfKeys, CipherKey, ManifestKey, TypeOK, Backups, RetentionAssumption
  <2>3. cursor' \in [Passes -> 0..EndOfKeys]
    BY <2>1, <2>2 DEF TypeOK
  <2>4. /\ seenC' \in [Passes -> SUBSET Backups] /\ seenM' \in [Passes -> SUBSET Backups]
        /\ \A q \in Passes : /\ seenC[q] \subseteq seenC'[q] /\ seenC'[q] \subseteq everC
                             /\ seenM[q] \subseteq seenM'[q] /\ seenM'[q] \subseteq everM
    BY <2>1 DEF TypeOK
  <2>5. unread' \in [Passes -> SUBSET Backups]
    BY <2>1, <2>4 DEF TypeOK
  <2>6. pc' \in [Passes -> {"idle", "list", "read", "listed", "filter", "ciphers",
                        "manifests", "dangling", "ok", "failed"}]
    BY <2>1 DEF TypeOK
  <2>7. dangling[p] = {}
    BY <1>0, <1>4 DEF ModeInv, NextPage
  <2>8. \A q \in Passes : dangling[q] \subseteq seenM'[q] \ seenC'[q]
    BY <2>1, <2>7 DEF TypeOK
  <2> QED BY <1>4, <2>3, <2>4, <2>5, <2>6, <2>8 DEF NextPage, TypeOK, bucketVars, lateVars, askVars, deleteVars
<1>5. ASSUME NEW p \in Passes, ReadManifest(p) PROVE TypeOK'
  <2>1. unread[p] \subseteq seenC[p] \cap seenM[p]
    BY <1>0, <1>5 DEF ModeInv, ReadManifest
  <2> QED BY <1>5, <2>1 DEF ReadManifest, TypeOK, bucketVars, lateVars, askVars, listVars, deleteVars
<1>6. ASSUME NEW p \in Passes, ListingReturns(p) PROVE TypeOK'
  BY <1>6 DEF ListingReturns, TypeOK, bucketVars, lateVars, askVars, listVars, deleteVars
<1>7. ASSUME NEW p \in Passes, ReadDangling(p) PROVE TypeOK'
  <2>1. unread[p] \subseteq seenM[p] \ seenC[p]
    BY <1>0, <1>7 DEF ModeInv, ReadDangling
  <2> QED BY <1>7, <2>1 DEF ReadDangling, TypeOK, bucketVars, lateVars, askVars, listVars, deleteVars
<1>8. ASSUME NEW p \in Passes, Select(p) PROVE TypeOK'
  <2>1. Drop(valid[p], policy[p]) \in SUBSET Backups
    BY DEF Drop, TypeOK
  <2> QED BY <1>8, <2>1 DEF Select, Selected, TypeOK, bucketVars, lateVars, askVars, listVars, readVars
<1>9. ASSUME NEW p \in Passes, DeleteBackups(p) PROVE TypeOK'
  BY <1>9 DEF DeleteBackups, TypeOK, bucketVars, lateVars, askVars, listVars, readVars
<1>10. ASSUME NEW p \in Passes, DeleteBatch(p) PROVE TypeOK'
  BY <1>10 DEF DeleteBatch, TypeOK, lateVars, askVars, listVars, readVars
<1>11. ASSUME NEW p \in Passes, DeleteFails(p) PROVE TypeOK'
  <2>1. lateC' \subseteq everC /\ lateM' \subseteq everM
    BY <1>0, <1>11, QueuedIsKnown DEF DeleteFails, BatchMayLand, TypeOK
  <2> QED BY <1>11, <2>1, RetentionAssumption DEF DeleteFails, Fails, TypeOK, bucketVars, EndOfKeys, RetentionAssumption
<1>12. ASSUME NEW p \in Passes, StageEnds(p) PROVE TypeOK'
  BY <1>12 DEF StageEnds, TypeOK, bucketVars, lateVars, askVars, listVars, readVars
<1>13. ASSUME NEW p \in Passes, Stops(p) PROVE TypeOK'
  BY <1>13, RetentionAssumption DEF Stops, Fails, TypeOK, bucketVars, lateVars, EndOfKeys, RetentionAssumption
<1>14. CASE LateDelete
  BY <1>14 DEF LateDelete, TypeOK, askVars, listVars, readVars, deleteVars
<1> QED BY <1>1, <1>2, <1>3, <1>4, <1>5, <1>6, <1>7, <1>8, <1>9, <1>10, <1>11, <1>12, <1>13, <1>14
        DEF Next, PassStep

-----------------------------------------------------------------------------
(* The bucket.                                                             *)

\* What a stage is about to delete may go.
LEMMA QueuedMayGo ==
  ASSUME TypeOK, NEW p \in Passes, PassInv(p)
  PROVE  /\ Batch(queue[p]) \subseteq queue[p]
         /\ pc[p] = "ciphers" => \A b \in queue[p] : Superseded(b)
         /\ pc[p] \in {"manifests", "dangling"} => \A b \in queue[p] : Gone(b)
<1>1. Batch(queue[p]) \subseteq queue[p]
  BY DEF Batch
<1>2. drop[p] \subseteq everM
  BY DEF TypeOK, PassInv, ListInv
<1>3. pc[p] = "ciphers" => \A b \in queue[p] : Superseded(b)
  BY DEF PassInv, DeleteInv
<1>4. pc[p] = "manifests" => \A b \in queue[p] : Gone(b)
  BY <1>2 DEF PassInv, DeleteInv, Gone, Absent
<1>5. pc[p] = "dangling" => \A b \in queue[p] : Gone(b)
  BY DEF PassInv, DeleteInv, ListInv
<1> QED BY <1>1, <1>3, <1>4, <1>5

\* Only what may go is deleted.
LEMMA BucketStep ==
  ASSUME IInv, Next
  PROVE  BucketInv'
<1>0. TypeOK /\ BucketInv /\ TypeOK' /\ Forward /\ \A p \in Passes : PassInv(p) /\ ModeInv(p)
  BY TypeStep, StepsGoForward DEF IInv, PassInv
<1>s. /\ EverValid \subseteq EverValid'
      /\ \A b \in Backups : Superseded(b) => Superseded(b)'
      /\ \A b \in Backups : Gone(b) => Gone(b)'
  BY <1>0, Stable
<1>t. everC \subseteq Backups /\ everM \subseteq Backups /\ lateC \subseteq Backups /\ lateM \subseteq Backups
  BY <1>0 DEF TypeOK
\* It is enough to look at what is new in each part.
<1> SUFFICES /\ \A b \in everM' : kind'[b] \in Kinds /\ (kind'[b] = "ours" => b \in everC')
             /\ requested' \subseteq EverValid'
             /\ \A b \in everC' \ ciphers' : b \in everC \ ciphers \/ (b \in Backups /\ Superseded(b))
             /\ \A b \in everM' \ manifests' : b \in everM \ manifests \/ (b \in Backups /\ Gone(b))
             /\ \A b \in lateC' : b \in lateC \/ (b \in Backups /\ Superseded(b))
             /\ \A b \in lateM' : b \in lateM \/ (b \in Backups /\ Gone(b))
  BY <1>0, <1>s, <1>t DEF BucketInv
<1> DEFINE Goal == /\ \A b \in everM' : kind'[b] \in Kinds /\ (kind'[b] = "ours" => b \in everC')
                   /\ requested' \subseteq EverValid'
                   /\ \A b \in everC' \ ciphers' : b \in everC \ ciphers \/ (b \in Backups /\ Superseded(b))
                   /\ \A b \in everM' \ manifests' : b \in everM \ manifests \/ (b \in Backups /\ Gone(b))
                   /\ \A b \in lateC' : b \in lateC \/ (b \in Backups /\ Superseded(b))
                   /\ \A b \in lateM' : b \in lateM \/ (b \in Backups /\ Gone(b))
<1>b. /\ \A b \in everM : kind[b] \in Kinds /\ (kind[b] = "ours" => b \in everC)
      /\ requested \subseteq EverValid'
      /\ \A b \in lateC : Superseded(b) /\ b \in Backups
      /\ \A b \in lateM : Gone(b) /\ b \in Backups
  BY <1>0, <1>s, <1>t DEF BucketInv
<1>1. ASSUME NEW b \in Backups, CompleteObject(b) PROVE Goal
  BY <1>1, <1>b DEF CompleteObject, lateVars
<1>2. ASSUME NEW b \in Backups, PutManifest(b) PROVE Goal
  <2>1. PICK k \in WriterKinds : (b \in everC \/ k # "ours") /\ kind' = [kind EXCEPT ![b] = k]
    BY <1>2 DEF PutManifest
  <2>2. kind'[b] \in Kinds /\ (kind'[b] = "ours" => b \in everC) /\ b \notin everM
        /\ \A c \in everM : kind'[c] = kind[c]
    BY <1>0, <1>2, <2>1, PruneAssumption DEF PruneAssumption, TypeOK, PutManifest
  <2> QED BY <1>2, <1>b, <2>2 DEF PutManifest, lateVars
<1>3. ASSUME NEW p \in Passes,
             \/ Start(p) \/ NextPage(p) \/ ReadManifest(p) \/ ListingReturns(p)
             \/ ReadDangling(p) \/ Select(p) \/ StageEnds(p) \/ Stops(p)
      PROVE  Goal
  <2>1. UNCHANGED <<ciphers, manifests, everC, everM, kind, lateC, lateM, requested>>
    BY <1>3 DEF Start, NextPage, ReadManifest, ListingReturns, ReadDangling, Select, Selected, StageEnds,
                Stops, bucketVars, lateVars
  <2> QED BY <1>b, <2>1
<1>4. ASSUME NEW p \in Passes, DeleteBackups(p) PROVE Goal
  <2>1. UNCHANGED <<ciphers, manifests, everC, everM, kind, lateC, lateM>>
    BY <1>4 DEF DeleteBackups, bucketVars, lateVars
  <2>2. valid[p] \subseteq EverValid
    BY <1>0 DEF PassInv, ListInv
  <2>3. requested' \subseteq EverValid'
    BY <1>4, <1>b, <1>s, <2>2 DEF DeleteBackups
  <2> QED BY <1>b, <2>1, <2>3
<1>5. ASSUME NEW p \in Passes, DeleteBatch(p) PROVE Goal
  <2>1. UNCHANGED <<everC, everM, kind, lateC, lateM, requested>>
    BY <1>5 DEF DeleteBatch, lateVars
  <2>2. queue[p] \subseteq Backups
    BY <1>0 DEF TypeOK
  <2>3. /\ \A b \in ciphers \ ciphers' : Superseded(b) /\ b \in Backups
        /\ \A b \in manifests \ manifests' : Gone(b) /\ b \in Backups
    BY <1>0, <1>5, <2>2, QueuedMayGo DEF DeleteBatch
  <2> QED BY <1>b, <2>1, <2>3
<1>6. ASSUME NEW p \in Passes, DeleteFails(p) PROVE Goal
  <2>1. UNCHANGED <<ciphers, manifests, everC, everM, kind, requested>>
    BY <1>6 DEF DeleteFails, bucketVars
  <2>2. queue[p] \subseteq Backups
    BY <1>0 DEF TypeOK
  <2>3. /\ \A b \in lateC' \ lateC : Superseded(b) /\ b \in Backups
        /\ \A b \in lateM' \ lateM : Gone(b) /\ b \in Backups
    BY <1>0, <1>6, <2>2, QueuedMayGo DEF DeleteFails, BatchMayLand
  <2> QED BY <1>b, <2>1, <2>3
<1>7. CASE LateDelete
  BY <1>7, <1>b DEF LateDelete
<1> QED BY <1>1, <1>2, <1>3, <1>4, <1>5, <1>6, <1>7 DEF Next, PassStep

-----------------------------------------------------------------------------
(* The pass that takes the step.                                           *)

\* The start of a pass: it has seen nothing yet.
LEMMA StartInv ==
  ASSUME IInv, TypeOK', Forward, NEW p \in Passes, Start(p)
  PROVE  PassInv(p)'
<1>0. TypeOK /\ BucketInv /\ ModeInv(p) /\ ListInv(p) /\ pc[p] = "idle"
  BY DEF IInv, PassInv, Start
<1>1. /\ pc'[p] \in {"list", "failed"} /\ mode'[p] # "none"
      /\ UNCHANGED <<bucketVars, lateVars, requested, listVars, readVars, deleteVars>>
      /\ wasDangling'[p] = {b \in manifests : kind[b] = "ours" /\ b \notin ciphers}
  BY <1>0 DEF Start, TypeOK
<1>2. cursor'[p] = 0 /\ seenC'[p] = {} /\ seenM'[p] = {} /\ dangling'[p] = {} /\ drop'[p] = {}
      /\ valid'[p] = {} /\ unread'[p] = {}
  BY <1>0, <1>1 DEF ModeInv, TypeOK, listVars, readVars, deleteVars
<1>3. ModeInv(p)'
  BY <1>1, <1>2 DEF ModeInv
<1>4. \A b \in Backups : b \in Nat /\ b > 0
  BY RetentionAssumption DEF Backups, RetentionAssumption
<1>5. ListInv(p)'
  BY <1>2, <1>4 DEF ListInv, CipherKey
<1>6. HealInv(p)'
  <2>1. \A b \in wasDangling'[p] : kind'[b] = "ours" /\ Absent(b)' /\ b \in Backups
    BY <1>0, <1>1 DEF Absent, TypeOK, bucketVars
  <2>2. \A b \in Backups : ~(ManifestKey(b) <= 0)
    BY <1>4 DEF ManifestKey
  <2> QED BY <1>1, <1>2, <2>1, <2>2 DEF HealInv
<1>7. DeleteInv(p)'
  BY <1>1 DEF DeleteInv
<1> QED BY <1>3, <1>5, <1>6, <1>7 DEF PassInv

\* A page: a manifest whose ciphertext is not on it or on an earlier one has none.
LEMMA NextPageInv ==
  ASSUME IInv, TypeOK', Forward, NEW p \in Passes, NextPage(p)
  PROVE  PassInv(p)'
<1>0. TypeOK /\ ModeInv(p) /\ ListInv(p) /\ HealInv(p) /\ pc[p] = "list"
  BY DEF IInv, PassInv, NextPage
<1>1. PICK k \in Keys \cup {EndOfKeys} :
        /\ k > cursor[p] /\ cursor'[p] = k
        /\ seenC'[p] = seenC[p] \cup {b \in ciphers : cursor[p] < CipherKey(b) /\ CipherKey(b) <= k}
        /\ seenM'[p] = seenM[p] \cup {b \in manifests : cursor[p] < ManifestKey(b) /\ ManifestKey(b) <= k}
        /\ IF k = EndOfKeys
             THEN pc'[p] = "read" /\ unread'[p] = seenC'[p] \cap seenM'[p]
             ELSE pc'[p] = "list" /\ unread'[p] = unread[p]
  BY <1>0 DEF NextPage, TypeOK
<1>2. /\ UNCHANGED <<ciphers, manifests, everC, everM, kind, requested, mode, policy, wasDangling>>
      /\ dangling' = dangling /\ valid' = valid /\ drop' = drop
  BY DEF NextPage, bucketVars, askVars, deleteVars
<1>3. /\ \A b \in Backups : b \in Nat /\ b > 0 /\ b <= NumBackups
      /\ ciphers \subseteq Backups /\ manifests \subseteq Backups /\ NumBackups \in Nat
      /\ cursor[p] \in Nat
  BY <1>0, RetentionAssumption DEF Backups, RetentionAssumption, TypeOK, EndOfKeys
<1>4. k \in Nat /\ cursor[p] < k
  BY <1>1, <1>3 DEF Keys, EndOfKeys, CipherKey, ManifestKey
<1>5. ModeInv(p)'
  BY <1>0, <1>1, <1>2 DEF ModeInv
<1>6. ASSUME NEW b \in Backups, k = CipherKey(b) PROVE b \in seenC'[p]
  <2>1. k # EndOfKeys
    BY <1>3, <1>6 DEF CipherKey, EndOfKeys
  <2>2. ~\E c \in manifests : k = ManifestKey(c)
    BY <1>3, <1>6 DEF CipherKey, ManifestKey
  <2>3. PICK c \in ciphers : k = CipherKey(c)
    BY <1>1, <2>1, <2>2 DEF Keys
  <2>4. b = c
    <3>1. b \in Nat /\ c \in Nat /\ 2 * b - 1 = 2 * c - 1
      BY <1>3, <1>6, <2>3 DEF CipherKey
    <3> QED BY <3>1
  <2> QED BY <1>1, <1>4, <2>3, <2>4
<1>7. ASSUME NEW b \in seenM'[p] \ seenC'[p] PROVE Absent(b)
  <2>1. CASE b \in seenM[p]
    BY <1>0, <1>1, <1>7, <2>1 DEF ListInv
  <2>2. CASE b \in manifests /\ cursor[p] < ManifestKey(b) /\ ManifestKey(b) <= k
    <3> SUFFICES ASSUME b \in ciphers PROVE FALSE
      BY <1>0, <2>2 DEF Absent, TypeOK
    <3>1. b \in Backups /\ cursor[p] # CipherKey(b)
      BY <1>0, <1>1, <1>3, <1>7 DEF ListInv
    <3>2. cursor[p] < CipherKey(b) /\ CipherKey(b) <= k
      BY <1>3, <1>4, <2>2, <3>1 DEF CipherKey, ManifestKey
    <3> QED BY <1>1, <1>7, <3>2
  <2> QED BY <1>1, <1>7, <2>1, <2>2
<1>8. ListInv(p)'
  <2>1. EverValid' = EverValid /\ \A b : Absent(b)' = Absent(b)
    BY <1>2 DEF EverValid, Absent
  <2>2. dangling'[p] = {} /\ drop'[p] = {}
    BY <1>0, <1>2 DEF ModeInv
  <2> QED BY <1>0, <1>1, <1>2, <1>6, <1>7, <2>1, <2>2 DEF ListInv
<1>9. HealInv(p)'
  <2>1. \A b \in wasDangling[p] : kind[b] = "ours" /\ Absent(b)' /\ b \notin seenC'[p] /\ b \in Backups
    BY <1>0, <1>1, <1>2 DEF HealInv, Absent, TypeOK
  <2>2. ASSUME NEW b \in wasDangling[p] \cap manifests, ManifestKey(b) <= k PROVE b \in seenM'[p]
    <3>1. b \in Backups /\ ManifestKey(b) \in Nat
      BY <1>3 DEF ManifestKey
    <3> QED BY <1>0, <1>1, <1>3, <2>2, <3>1 DEF HealInv
  <2>3. k = EndOfKeys => \A b \in Backups : ManifestKey(b) <= k
    BY <1>3 DEF EndOfKeys, ManifestKey
  <2> QED BY <1>1, <1>2, <1>3, <2>1, <2>2, <2>3 DEF HealInv
<1>10. DeleteInv(p)'
  BY <1>1 DEF DeleteInv
<1> QED BY <1>5, <1>8, <1>9, <1>10 DEF PassInv

\* The reading steps: listed pairs are valid backups, and the dangling manifests
\* that may be deleted are gone.
LEMMA ReadInv ==
  ASSUME IInv, TypeOK', Forward, NEW p \in Passes,
         ReadManifest(p) \/ ListingReturns(p) \/ ReadDangling(p)
  PROVE  PassInv(p)'
<1>0. TypeOK /\ BucketInv /\ ModeInv(p) /\ ListInv(p) /\ HealInv(p)
  BY DEF IInv, PassInv
<1>1. /\ UNCHANGED <<ciphers, manifests, everC, everM, kind, requested, mode, policy, wasDangling>>
      /\ cursor' = cursor /\ seenC' = seenC /\ seenM' = seenM /\ drop' = drop /\ queue' = queue
  BY DEF ReadManifest, ListingReturns, ReadDangling, bucketVars, askVars, listVars, deleteVars
<1>2. /\ EverValid' = EverValid /\ \A b : Absent(b)' = Absent(b) /\ Gone(b)' = Gone(b)
  BY <1>1 DEF EverValid, Absent, Gone, Superseded
<1>3. CASE ReadManifest(p)
  <2>1. PICK b \in unread[p] \cap manifests :
          /\ unread'[p] = unread[p] \ {b} /\ pc[p] = "read"
          /\ valid'[p] = IF StateOf(kind[b]) = "BackupValid" THEN valid[p] \cup {b} ELSE valid[p]
    BY <1>0, <1>3 DEF ReadManifest, TypeOK
  <2>2. pc' = pc /\ dangling' = dangling
    BY <1>3 DEF ReadManifest
  <2>3. b \in everC \cap everM /\ kind[b] \in Kinds
    BY <1>0, <2>1 DEF ModeInv, TypeOK, BucketInv
  <2>4. StateOf(kind[b]) = "BackupValid" => kind[b] = "ours"
    BY <2>3 DEF StateOf, Kinds
  <2>5. valid'[p] \subseteq EverValid
    BY <1>0, <2>1, <2>3, <2>4 DEF EverValid, ListInv
  <2>6. ModeInv(p)'
    BY <1>0, <1>1, <2>1, <2>2 DEF ModeInv
  <2>7. ListInv(p)'
    BY <1>0, <1>1, <1>2, <2>1, <2>2, <2>5 DEF ListInv, ModeInv
  <2>8. HealInv(p)'
    BY <1>0, <1>1, <1>2, <2>1, <2>2 DEF HealInv
  <2>9. DeleteInv(p)'
    BY <2>1, <2>2 DEF DeleteInv
  <2> QED BY <2>6, <2>7, <2>8, <2>9 DEF PassInv
<1>4. CASE ListingReturns(p)
  <2>1. /\ pc[p] = "read" /\ pc'[p] = IF mode[p] = "delete" THEN "listed" ELSE "filter"
        /\ unread'[p] = IF mode[p] = "delete" THEN {} ELSE seenM[p] \ seenC[p]
        /\ valid' = valid /\ dangling' = dangling
    BY <1>0, <1>4 DEF ListingReturns, TypeOK
  <2>2. mode[p] \in {"prune", "dry", "delete"}
    BY <1>0, <2>1 DEF TypeOK, ModeInv
  <2>3. ModeInv(p)'
    BY <1>0, <1>1, <2>1, <2>2 DEF ModeInv
  <2>4. ListInv(p)'
    BY <1>0, <1>1, <1>2, <2>1 DEF ListInv
  <2>5. HealInv(p)'
    BY <1>0, <1>1, <1>2, <2>1 DEF HealInv
  <2>6. DeleteInv(p)'
    BY <2>1 DEF DeleteInv
  <2> QED BY <2>3, <2>4, <2>5, <2>6 DEF PassInv
<1>5. CASE ReadDangling(p)
  <2>1. PICK b \in unread[p] \cap manifests :
          /\ unread'[p] = unread[p] \ {b} /\ pc[p] = "filter"
          /\ dangling'[p] = IF Deletable(kind[b]) THEN dangling[p] \cup {b} ELSE dangling[p]
    BY <1>0, <1>5 DEF ReadDangling, TypeOK
  <2>2. pc' = pc /\ valid' = valid
    BY <1>5 DEF ReadDangling
  <2>3. b \in everM /\ Absent(b)
    BY <1>0, <2>1 DEF ModeInv, TypeOK, ListInv
  <2>4. kind[b] = "ours" => Superseded(b)
    BY <1>0, <2>3 DEF BucketInv, Absent
  <2>5. Deletable(kind[b]) => Gone(b)
    BY <2>3, <2>4 DEF Deletable, Gone
  <2>6. ModeInv(p)'
    BY <1>0, <1>1, <2>1, <2>2 DEF ModeInv
  <2>7. ListInv(p)'
    BY <1>0, <1>1, <1>2, <2>1, <2>2, <2>5 DEF ListInv
  <2>8. HealInv(p)'
    BY <1>0, <1>1, <1>2, <2>1, <2>2 DEF HealInv, Deletable
  <2>9. DeleteInv(p)'
    BY <2>1, <2>2 DEF DeleteInv
  <2> QED BY <2>6, <2>7, <2>8, <2>9 DEF PassInv
<1> QED BY <1>3, <1>4, <1>5

\* The choice of what to delete: the policy's, or a caller's.
LEMMA SelectInv ==
  ASSUME IInv, TypeOK', Forward, NEW p \in Passes, Select(p) \/ DeleteBackups(p)
  PROVE  PassInv(p)'
<1>0. TypeOK /\ BucketInv /\ ModeInv(p) /\ ListInv(p) /\ HealInv(p)
  BY DEF IInv, PassInv
<1>1. UNCHANGED <<ciphers, manifests, everC, everM, kind, mode, policy, wasDangling,
                  cursor, seenC, seenM, unread, valid, dangling>>
  BY DEF Select, Selected, DeleteBackups, bucketVars, askVars, listVars, readVars
<1>2. EverValid' = EverValid /\ \A b \in Backups : (Absent(b) => Absent(b)') /\ (Gone(b) => Gone(b)')
  BY <1>0, <1>1, Stable DEF EverValid
<1>3. drop'[p] \subseteq valid[p] => ListInv(p)'
  BY <1>0, <1>1, <1>2 DEF ListInv, TypeOK
<1>4. CASE Select(p)
  <2>1. /\ pc[p] = "filter" /\ unread[p] = {} /\ drop'[p] = Drop(valid[p], policy[p])
        /\ requested' = requested
        /\ IF mode[p] = "dry" THEN pc'[p] = "ok"
           ELSE pc'[p] = "ciphers" /\ queue'[p] = drop'[p]
    BY <1>0, <1>4 DEF Select, Selected, TypeOK
  <2>2. ModeInv(p)'
    BY <1>0, <1>1, <2>1 DEF ModeInv
  <2>3. ListInv(p)'
    BY <1>3, <2>1 DEF Drop
  <2>4. HealInv(p)'
    BY <1>0, <1>1, <1>2, <2>1 DEF HealInv, TypeOK
  <2>5. mode[p] = "prune" => \A b \in drop'[p] : Superseded(b)'
    <3>1. EverValid \in SUBSET Backups /\ valid[p] \in SUBSET EverValid /\ policy[p] \in Policies
      BY <1>0 DEF EverValid, ListInv, TypeOK
    <3>2. drop'[p] \subseteq Drop(EverValid, policy[p])
      BY <2>1, <3>1, DropIsMonotone
    <3> QED BY <1>1, <1>2, <3>2 DEF Superseded
  <2>6. DeleteInv(p)'
    BY <1>0, <1>1, <2>1, <2>5 DEF DeleteInv, ModeInv
  <2> QED BY <2>2, <2>3, <2>4, <2>6 DEF PassInv
<1>5. CASE DeleteBackups(p)
  <2>1. /\ pc[p] = "listed"
        /\ \/ /\ drop'[p] \subseteq valid[p] /\ queue'[p] = drop'[p] /\ pc'[p] = "ciphers"
              /\ drop'[p] \subseteq requested'
           \/ drop' = drop /\ pc'[p] = "failed"
    BY <1>0, <1>5 DEF DeleteBackups, TypeOK
  <2>2. mode[p] = "delete"
    BY <1>0, <2>1 DEF ModeInv
  <2>3. ModeInv(p)'
    BY <1>0, <1>1, <2>1, <2>2 DEF ModeInv
  <2>4. ListInv(p)'
    BY <1>0, <1>3, <2>1 DEF ListInv
  <2>5. HealInv(p)'
    BY <1>0, <1>1, <1>2, <2>1, <2>2 DEF HealInv, TypeOK
  <2>6. DeleteInv(p)'
    BY <1>1, <2>1, <2>2 DEF DeleteInv, Superseded
  <2> QED BY <2>3, <2>4, <2>5, <2>6 DEF PassInv
<1> QED BY <1>4, <1>5

\* Deleting a batch, and going on to the next stage.
LEMMA DeleteStageInv ==
  ASSUME IInv, TypeOK', Forward, NEW p \in Passes, DeleteBatch(p) \/ StageEnds(p)
  PROVE  PassInv(p)'
<1>0. TypeOK /\ ModeInv(p) /\ ListInv(p) /\ HealInv(p) /\ DeleteInv(p)
  BY DEF IInv, PassInv
<1>1. UNCHANGED <<everC, everM, kind, requested, mode, policy, wasDangling,
                  cursor, seenC, seenM, unread, valid, dangling, drop>>
  BY DEF DeleteBatch, StageEnds, bucketVars, askVars, listVars, readVars
<1>2. /\ EverValid' = EverValid
      /\ \A b \in Backups : (Absent(b) => Absent(b)') /\ (Gone(b) => Gone(b)')
                            /\ (Superseded(b) => Superseded(b)')
  BY <1>0, <1>1, Stable DEF EverValid
<1>3. ListInv(p)'
  BY <1>0, <1>1, <1>2 DEF ListInv, TypeOK
<1>4. \A b \in wasDangling[p] : kind'[b] = "ours" /\ Absent(b)' /\ b \notin seenC'[p]
  BY <1>0, <1>1, <1>2 DEF HealInv, TypeOK
<1>5. drop[p] \subseteq Backups
  BY <1>0 DEF TypeOK
<1>6. CASE DeleteBatch(p)
  <2>1. /\ queue'[p] = queue[p] \ Batch(queue[p]) /\ pc' = pc
        /\ \/ pc[p] = "ciphers" /\ ciphers' = ciphers \ Batch(queue[p]) /\ manifests' = manifests
           \/ /\ pc[p] \in {"manifests", "dangling"}
              /\ manifests' = manifests \ Batch(queue[p]) /\ ciphers' = ciphers
    BY <1>0, <1>6 DEF DeleteBatch, TypeOK
  <2>2. ModeInv(p)'
    BY <1>0, <1>1, <2>1 DEF ModeInv
  <2>3. HealInv(p)'
    BY <1>0, <1>1, <1>4, <2>1 DEF HealInv
  <2>4. DeleteInv(p)'
    BY <1>0, <1>1, <1>2, <1>5, <2>1 DEF DeleteInv
  <2> QED BY <1>3, <2>2, <2>3, <2>4 DEF PassInv
<1>7. CASE StageEnds(p)
  <2>1. /\ queue[p] = {} /\ UNCHANGED <<ciphers, manifests>>
        /\ \/ pc[p] = "ciphers" /\ pc'[p] = "manifests" /\ queue'[p] = drop[p]
           \/ pc[p] = "manifests" /\ mode[p] = "prune" /\ pc'[p] = "dangling" /\ queue'[p] = dangling[p]
           \/ pc[p] = "dangling" /\ pc'[p] = "ok"
           \/ pc[p] = "manifests" /\ mode[p] = "delete" /\ pc'[p] = "ok"
    BY <1>0, <1>7 DEF StageEnds, TypeOK, bucketVars
  <2>2. ModeInv(p)'
    BY <1>0, <1>1, <2>1 DEF ModeInv
  <2>3. HealInv(p)'
    BY <1>0, <1>1, <1>4, <2>1 DEF HealInv
  <2>4. CASE pc[p] = "ciphers"
    BY <1>0, <1>1, <1>2, <1>3, <1>5, <2>1, <2>2, <2>3, <2>4 DEF DeleteInv, PassInv
  <2>5. CASE pc[p] = "manifests" /\ mode[p] = "prune"
    BY <1>0, <1>1, <1>2, <1>3, <1>5, <2>1, <2>2, <2>3, <2>5 DEF DeleteInv, PassInv
  <2>6. CASE pc[p] = "dangling"
    <3>1. mode[p] = "prune" /\ wasDangling[p] \cap manifests = {}
      BY <1>0, <2>1, <2>6 DEF ModeInv, HealInv, DeleteInv
    <3> QED BY <1>0, <1>1, <1>3, <2>1, <2>2, <2>3, <2>6, <3>1 DEF DeleteInv, PassInv
  <2>7. CASE pc[p] = "manifests" /\ mode[p] = "delete"
    BY <1>0, <1>1, <1>3, <2>1, <2>2, <2>3, <2>7 DEF DeleteInv, PassInv
  <2> QED BY <2>1, <2>4, <2>5, <2>6, <2>7
<1> QED BY <1>6, <1>7

\* A pass that fails knows nothing any more.
LEMMA FailsInv ==
  ASSUME IInv, TypeOK', NEW p \in Passes, DeleteFails(p) \/ Stops(p)
  PROVE  PassInv(p)'
<1>0. TypeOK
  BY DEF IInv
<1>1. /\ pc'[p] = "failed" /\ cursor'[p] = 0 /\ seenC'[p] = {} /\ seenM'[p] = {} /\ unread'[p] = {}
      /\ valid'[p] = {} /\ dangling'[p] = {} /\ drop'[p] = {} /\ wasDangling'[p] = {}
  BY <1>0 DEF DeleteFails, Stops, Fails, TypeOK
<1>2. \A b \in Backups : 0 # CipherKey(b)
  BY RetentionAssumption DEF CipherKey, Backups, RetentionAssumption
<1> QED BY <1>1, <1>2 DEF PassInv, ModeInv, ListInv, HealInv, DeleteInv

\* A step of one pass, or of a writer, leaves the other passes where they are.
LEMMA OthersUnchanged ==
  ASSUME TypeOK, NEW p \in Passes, NEW q \in Passes, q # p, PassStep(p)
  PROVE  Untouched(q)
<1> USE DEF TypeOK, askVars, listVars, readVars, deleteVars
<1>1. CASE Start(p)
  BY <1>1 DEF Start, Untouched
<1>2. CASE NextPage(p)
  BY <1>2 DEF NextPage, Untouched
<1>3. CASE ReadManifest(p) \/ ListingReturns(p) \/ ReadDangling(p)
  BY <1>3 DEF ReadManifest, ListingReturns, ReadDangling, Untouched
<1>4. CASE Select(p) \/ DeleteBackups(p)
  BY <1>4 DEF Select, Selected, DeleteBackups, Untouched
<1>5. CASE DeleteBatch(p) \/ StageEnds(p)
  BY <1>5 DEF DeleteBatch, StageEnds, Untouched
<1>6. CASE DeleteFails(p) \/ Stops(p)
  BY <1>6 DEF DeleteFails, Stops, Fails, Untouched
<1> QED BY <1>1, <1>2, <1>3, <1>4, <1>5, <1>6 DEF PassStep

-----------------------------------------------------------------------------
(* The theorems.                                                           *)

\* The invariant of the bucket and of all passes holds in every reachable state.
THEOREM PruneInvariance == Spec => []IInv
<1>1. Init => IInv
  <2> SUFFICES ASSUME Init PROVE IInv
    OBVIOUS
  <2>1. ZeroPolicy \in Policies /\ EndOfKeys \in Nat
    BY RetentionAssumption DEF ZeroPolicy, Policies, EndOfKeys, RetentionAssumption
  <2>2. TypeOK
    BY <2>1 DEF Init, TypeOK
  <2>3. BucketInv
    BY DEF Init, BucketInv
  <2>4. \A b \in Backups : 0 # CipherKey(b)
    BY RetentionAssumption DEF CipherKey, Backups, RetentionAssumption
  <2>5. ASSUME NEW p \in Passes PROVE PassInv(p)
    BY <2>4 DEF Init, PassInv, ModeInv, ListInv, HealInv, DeleteInv
  <2> QED BY <2>2, <2>3, <2>5 DEF IInv
<1>2. IInv /\ [Next]_vars => IInv'
  <2> SUFFICES ASSUME IInv, [Next]_vars PROVE IInv'
    OBVIOUS
  <2>1. CASE UNCHANGED vars
    <3> USE <2>1 DEF vars, bucketVars, lateVars, askVars, listVars, readVars, deleteVars
    <3>1. TypeOK'
      BY DEF IInv, TypeOK
    <3>2. Forward
      BY DEF Forward
    <3>3. \A p \in Passes : Untouched(p)
      BY DEF Untouched
    <3>4. \A p \in Passes : PassInv(p)'
      BY <3>1, <3>2, <3>3, OthersWork DEF IInv
    <3>5. BucketInv'
      BY DEF IInv, BucketInv, Superseded, Gone, Absent, EverValid
    <3> QED BY <3>1, <3>4, <3>5 DEF IInv
  <2>2. CASE Next
    <3>1. TypeOK' /\ BucketInv' /\ Forward /\ TypeOK
      BY <2>2, TypeStep, BucketStep, StepsGoForward DEF IInv, PassInv
    <3>2. ASSUME NEW q \in Passes PROVE PassInv(q)'
      <4>1. CASE LateDelete \/ \E b \in Backups : CompleteObject(b) \/ PutManifest(b)
        <5>1. Untouched(q)
          BY <4>1 DEF LateDelete, CompleteObject, PutManifest, Untouched, askVars, listVars, readVars, deleteVars
        <5> QED BY <3>1, <5>1, OthersWork DEF IInv
      <4>2. ASSUME NEW p \in Passes, PassStep(p), p # q PROVE PassInv(q)'
        BY <3>1, <4>2, OthersWork, OthersUnchanged DEF IInv
      <4>3. CASE PassStep(q)
        BY <3>1, <4>3, StartInv, NextPageInv, ReadInv, SelectInv, DeleteStageInv, FailsInv DEF PassStep
      <4> QED BY <2>2, <4>1, <4>2, <4>3 DEF Next
    <3> QED BY <3>1, <3>2 DEF IInv
  <2> QED BY <2>1, <2>2
<1> QED BY <1>1, <1>2, PTL DEF Spec

\* Every variable keeps its type, and what a pass found stays within what it saw.
THEOREM PruneTypes == Spec => []TypeOK
<1>1. IInv => TypeOK
  BY DEF IInv
<1> QED BY <1>1, PruneInvariance, PTL

\* Nothing that every policy in use keeps is deleted, however passes interleave,
\* fail and work from stale listings, unless a caller asked for it (pruneWith).
THEOREM NothingRetainedIsLost == Spec => []RetainedSurvive
<1>1. IInv => RetainedSurvive
  <2> SUFFICES ASSUME IInv, NEW b \in EverValid, b \notin requested, ~InBucket(b)
               PROVE  \E p \in Passes : mode[p] = "prune" /\ b \notin Keep(EverValid, policy[p])
    BY DEF RetainedSurvive
  <2>1. b \in everC /\ b \in everM /\ kind[b] = "ours"
    BY DEF EverValid
  <2>2. Superseded(b)
    BY <2>1 DEF IInv, BucketInv, InBucket, Gone
  <2> QED BY <2>2 DEF Superseded, Drop
<1> QED BY <1>1, PruneInvariance, PTL

\* The newest backup ever finished is never deleted by retention (SelectRetention).
THEOREM NewestIsNeverLost == Spec => []NewestSurvives
<1>1. IInv /\ RetainedSurvive => NewestSurvives
  <2> SUFFICES ASSUME IInv, RetainedSurvive, EverValid # {}
               PROVE  InBucket(Newest(EverValid)) \/ Newest(EverValid) \in requested
    BY DEF NewestSurvives
  <2>1. EverValid \in SUBSET Backups /\ \A p \in Passes : policy[p] \in Policies
    BY DEF EverValid, IInv, TypeOK
  <2>2. Newest(EverValid) \in EverValid /\ \A p \in Passes : Newest(EverValid) \in Keep(EverValid, policy[p])
    BY <2>1, NewestExists, NewestIsKept
  <2> QED BY <2>2 DEF RetainedSurvive
<1> QED BY <1>1, PruneInvariance, NothingRetainedIsLost, PTL

\* Deletes leave no orphan: a manifest goes only after its ciphertext
\* (deleteBackups, deletableDangling).
THEOREM DeletesLeaveNoOrphan == Spec => []NoOrphanByDelete
<1>1. IInv => NoOrphanByDelete
  BY DEF IInv, BucketInv, Gone, Absent, NoOrphanByDelete
<1> QED BY <1>1, PruneInvariance, PTL

\* What is not verifiably a backup of this database is never deleted
\* (readManifest, deletableDangling, DeleteBackups).
THEOREM OthersAreSafe == Spec => []OthersUntouched
<1>1. IInv => OthersUntouched
  <2> SUFFICES ASSUME IInv PROVE OthersUntouched
    OBVIOUS
  <2>1. \A b : Superseded(b) => kind[b] = "ours" /\ b \in everM
    BY DEF IInv, BucketInv, Superseded, Drop, EverValid
  <2> QED BY <2>1 DEF IInv, BucketInv, Gone, OthersUntouched
<1> QED BY <1>1, PruneInvariance, PTL

\* A pass that reports success has done all its work, and has cleaned up what
\* interrupted passes left (deleteBatches, pruneWith).
THEOREM SuccessIsComplete == Spec => []OkPassIsComplete
<1>1. IInv => OkPassIsComplete
  BY DEF IInv, PassInv, DeleteInv, OkPassIsComplete
<1> QED BY <1>1, PruneInvariance, PTL
=============================================================================
