------------------------------- MODULE Prune -------------------------------
(***************************************************************************)
(* Listing, retention passes and explicit deletes over one scope of a      *)
(* bucket, while runs and other writers add objects to it.                 *)
(*                                                                         *)
(* Backup b is named by its place in the order (CreatedAt, Key), which is  *)
(* also the order of its keys in the bucket: the ciphertext of b is key    *)
(* 2b - 1 and its manifest key 2b (".dump.zst.age" < ".manifest.json").    *)
(* Every call to S3 is one step, so any number of passes interleave with   *)
(* each other and with the writers between any two calls.                  *)
(***************************************************************************)
EXTENDS Retention

CONSTANTS
  Passes,         \* the retention passes and deletes, each made once
  BatchSize,      \* deleteBatchSize
  PolicyChoices,  \* the policies that passes are asked to apply
  WriterKinds     \* what the manifests that are written may say

\* What a manifest can say:
\* "ours":    schema 1, this scope's identity, describes its sibling
\* "misref":  schema 1, this scope's identity, but another object or a bad field
\* "foreign": claims another engine, cluster or database
\* "newer":   a key_schema this build does not know
\* "corrupt": not a manifest (bad JSON, oversized)
Kinds == {"ours", "misref", "foreign", "newer", "corrupt"}

ASSUME PruneAssumption ==
  /\ BatchSize \in Nat \ {0}
  /\ PolicyChoices \subseteq Policies
  /\ WriterKinds \subseteq Kinds

VARIABLES
  ciphers, manifests, \* the objects in the bucket
  everC, everM,       \* history: the objects that were ever written
  kind,               \* what the manifest of each backup says, once written
  lateC, lateM,       \* deletes whose answer was an error and that may still land
  requested,          \* history: the backups that a caller asked to delete
  mode, policy,       \* what each pass was asked for
  pc,                 \* where each pass is
  cursor,             \* the last key that its listing returned
  seenC, seenM,       \* the keys that its listing returned
  unread,             \* the manifests that it has yet to fetch
  valid, dangling,    \* the valid backups and the deletable dangling manifests
  drop, queue,        \* the backups to delete and what is left of the stage
  wasDangling         \* history: own dangling manifests when the pass started

bucketVars == <<ciphers, manifests, everC, everM, kind>>
lateVars   == <<lateC, lateM>>
askVars    == <<mode, policy, wasDangling>>
listVars   == <<cursor, seenC, seenM>>
readVars   == <<unread, valid, dangling>>
deleteVars == <<drop, queue>>
vars == <<bucketVars, lateVars, requested, askVars, pc, listVars, readVars, deleteVars>>

-----------------------------------------------------------------------------
\* The state that readManifest gives a ciphertext and its manifest.
StateOf(k) ==
  CASE k = "ours"  -> "BackupValid"
    [] k = "newer" -> "BackupUnsupportedSchema"
    [] k \in {"misref", "foreign", "corrupt"} -> "BackupCorruptManifest"

\* Mutant: the owner is not checked.
DeletableWhoever(k) == k \in {"ours", "misref", "foreign"}

\* Whether deletableDangling may delete a manifest without a ciphertext.
Deletable(k) == k \in {"ours", "misref"}

\* Validate: a policy that keeps nothing is refused.
Validate(pol) == ~KeepsAll(pol)

ZeroPolicy == [rule \in Rules |-> 0]

CipherKey(b)   == 2 * b - 1
ManifestKey(b) == 2 * b
EndOfKeys      == 2 * NumBackups + 1

Keys == {CipherKey(b) : b \in ciphers} \cup {ManifestKey(b) : b \in manifests}

\* The next deleteBatchSize keys, newest first.
Batch(Q) == {b \in Q : Cardinality(Newer(b, Q)) < BatchSize}

Init ==
  /\ ciphers = {} /\ manifests = {} /\ everC = {} /\ everM = {}
  /\ kind = [b \in Backups |-> "none"]
  /\ lateC = {} /\ lateM = {} /\ requested = {}
  /\ mode = [p \in Passes |-> "none"] /\ policy = [p \in Passes |-> ZeroPolicy]
  /\ pc = [p \in Passes |-> "idle"] /\ cursor = [p \in Passes |-> 0]
  /\ seenC = [p \in Passes |-> {}] /\ seenM = [p \in Passes |-> {}]
  /\ unread = [p \in Passes |-> {}]
  /\ valid = [p \in Passes |-> {}] /\ dangling = [p \in Passes |-> {}]
  /\ drop = [p \in Passes |-> {}] /\ queue = [p \in Passes |-> {}]
  /\ wasDangling = [p \in Passes |-> {}]

-----------------------------------------------------------------------------
(* The writers.                                                            *)

\* A run completes its object.
CompleteObject(b) ==
  /\ b \notin everC /\ b \notin everM
  /\ ciphers' = ciphers \cup {b} /\ everC' = everC \cup {b}
  /\ UNCHANGED <<manifests, everM, kind, lateVars, requested, askVars, pc, listVars, readVars, deleteVars>>

\* A run puts its manifest beside the object it completed; another writer may
\* leave a manifest alone.
PutManifest(b) ==
  /\ b \notin everM
  /\ \E k \in WriterKinds : (b \in everC \/ k # "ours") /\ kind' = [kind EXCEPT ![b] = k]
  /\ manifests' = manifests \cup {b} /\ everM' = everM \cup {b}
  /\ UNCHANGED <<ciphers, everC, lateVars, requested, askVars, pc, listVars, readVars, deleteVars>>

-----------------------------------------------------------------------------
(* listBackups.                                                            *)

\* Prune is called, or ListBackups by a caller that means to delete.  Prune checks
\* its policy first.
Start(p) ==
  /\ pc[p] = "idle"
  /\ \/ \E m \in {"prune", "dry"}, pol \in PolicyChoices :
          /\ mode' = [mode EXCEPT ![p] = m] /\ policy' = [policy EXCEPT ![p] = pol]
          /\ pc' = [pc EXCEPT ![p] = IF Validate(pol) THEN "list" ELSE "failed"]
     \/ /\ mode' = [mode EXCEPT ![p] = "delete"] /\ UNCHANGED policy
        /\ pc' = [pc EXCEPT ![p] = "list"]
  /\ wasDangling' = [wasDangling EXCEPT ![p] =
       {b \in manifests : kind[b] = "ours" /\ b \notin ciphers}]
  /\ UNCHANGED <<bucketVars, lateVars, requested, listVars, readVars, deleteVars>>

\* One ListObjectsV2 call: the keys after the last one returned, up to a key that
\* exists or to the end.  After the last page the pairs are to be read.
NextPage(p) ==
  /\ pc[p] = "list"
  /\ \E k \in Keys \cup {EndOfKeys} :
       /\ k > cursor[p]
       /\ cursor' = [cursor EXCEPT ![p] = k]
       /\ seenC' = [seenC EXCEPT ![p] =
            @ \cup {b \in ciphers : cursor[p] < CipherKey(b) /\ CipherKey(b) <= k}]
       /\ seenM' = [seenM EXCEPT ![p] =
            @ \cup {b \in manifests : cursor[p] < ManifestKey(b) /\ ManifestKey(b) <= k}]
       /\ IF k = EndOfKeys
            THEN /\ pc' = [pc EXCEPT ![p] = "read"]
                 /\ unread' = [unread EXCEPT ![p] = seenC'[p] \cap seenM'[p]]
            ELSE UNCHANGED <<pc, unread>>
  /\ UNCHANGED <<bucketVars, lateVars, requested, askVars, valid, dangling, deleteVars>>

\* GetObject of the manifest of the next pair: it must still be there.
ReadManifest(p) ==
  /\ pc[p] = "read"
  /\ \E b \in unread[p] \cap manifests :
       /\ \A c \in unread[p] : b <= c
       /\ unread' = [unread EXCEPT ![p] = @ \ {b}]
       /\ valid' = [valid EXCEPT ![p] = IF StateOf(kind[b]) = "BackupValid" THEN @ \cup {b} ELSE @]
  /\ UNCHANGED <<bucketVars, lateVars, requested, askVars, pc, listVars, dangling, deleteVars>>

\* Mutant: every manifest is taken for a dangling one.
ListingForgetsPairs(p) ==
  /\ pc[p] = "read" /\ unread[p] = {}
  /\ pc' = [pc EXCEPT ![p] = IF mode[p] = "delete" THEN "listed" ELSE "filter"]
  /\ unread' = [unread EXCEPT ![p] = IF mode[p] = "delete" THEN {} ELSE seenM[p]]
  /\ UNCHANGED <<bucketVars, lateVars, requested, askVars, listVars, valid, dangling, deleteVars>>

\* The listing is complete.  A pass goes on to the dangling manifests.
ListingReturns(p) ==
  /\ pc[p] = "read" /\ unread[p] = {}
  /\ pc' = [pc EXCEPT ![p] = IF mode[p] = "delete" THEN "listed" ELSE "filter"]
  /\ unread' = [unread EXCEPT ![p] = IF mode[p] = "delete" THEN {} ELSE seenM[p] \ seenC[p]]
  /\ UNCHANGED <<bucketVars, lateVars, requested, askVars, listVars, valid, dangling, deleteVars>>

-----------------------------------------------------------------------------
(* pruneWith and DeleteBackups.                                            *)

\* deletableDangling: GetObject of the next manifest that has no ciphertext.
ReadDangling(p) ==
  /\ pc[p] = "filter"
  /\ \E b \in unread[p] \cap manifests :
       /\ \A c \in unread[p] : c <= b
       /\ unread' = [unread EXCEPT ![p] = @ \ {b}]
       /\ dangling' = [dangling EXCEPT ![p] = IF Deletable(kind[b]) THEN @ \cup {b} ELSE @]
  /\ UNCHANGED <<bucketVars, lateVars, requested, askVars, pc, listVars, valid, deleteVars>>

\* The stage after the selection: a dry run deletes nothing.
Selected(p, D) ==
  /\ pc[p] = "filter" /\ unread[p] = {}
  /\ drop' = [drop EXCEPT ![p] = D]
  /\ IF mode[p] = "dry"
       THEN pc' = [pc EXCEPT ![p] = "ok"] /\ UNCHANGED queue
       ELSE pc' = [pc EXCEPT ![p] = "ciphers"] /\ queue' = [queue EXCEPT ![p] = D]
  /\ UNCHANGED <<bucketVars, lateVars, requested, askVars, listVars, readVars>>

\* Mutant: a ciphertext without a usable manifest is dropped as well.
SelectEveryCipher(p) == Selected(p, seenC[p] \ Keep(valid[p], policy[p]))

\* Mutant: every rule keeps one bucket too few.
SelectOneBucketFewer(p) ==
  Selected(p, Drop(valid[p], [r \in Rules |-> IF policy[p][r] > 1 THEN policy[p][r] - 1 ELSE policy[p][r]]))

\* The policy chooses among the valid backups of the listing.
Select(p) == Selected(p, Drop(valid[p], policy[p]))

\* DeleteBackups: a caller hands in entries of an earlier listing.  One that is
\* not a valid backup of this database refuses them all.
DeleteBackups(p) ==
  /\ pc[p] = "listed"
  /\ \E S \in SUBSET (seenC[p] \cup seenM[p]) :
       IF S \subseteq valid[p]
         THEN /\ requested' = requested \cup S
              /\ drop' = [drop EXCEPT ![p] = S] /\ queue' = [queue EXCEPT ![p] = S]
              /\ pc' = [pc EXCEPT ![p] = "ciphers"]
         ELSE pc' = [pc EXCEPT ![p] = "failed"] /\ UNCHANGED <<requested, drop, queue>>
  /\ UNCHANGED <<bucketVars, lateVars, askVars, listVars, readVars>>

\* Mutant: deleteBackups deletes the manifests first.
DeleteManifestsFirst(p) ==
  /\ queue[p] # {}
  /\ \/ pc[p] = "manifests" /\ ciphers' = ciphers \ Batch(queue[p]) /\ UNCHANGED manifests
     \/ pc[p] \in {"ciphers", "dangling"} /\ manifests' = manifests \ Batch(queue[p]) /\ UNCHANGED ciphers
  /\ queue' = [queue EXCEPT ![p] = @ \ Batch(@)]
  /\ UNCHANGED <<everC, everM, kind, lateVars, requested, askVars, pc, listVars, readVars, drop>>

\* One DeleteObjects call that deletes its whole batch.
DeleteBatch(p) ==
  /\ queue[p] # {}
  /\ \/ pc[p] = "ciphers" /\ ciphers' = ciphers \ Batch(queue[p]) /\ UNCHANGED manifests
     \/ pc[p] \in {"manifests", "dangling"} /\ manifests' = manifests \ Batch(queue[p]) /\ UNCHANGED ciphers
  /\ queue' = [queue EXCEPT ![p] = @ \ Batch(@)]
  /\ UNCHANGED <<everC, everM, kind, lateVars, requested, askVars, pc, listVars, readVars, drop>>

\* What becomes of a DeleteObjects call with an error or without an answer: each
\* of its keys may be deleted, now or later, or never.
BatchMayLand(p) ==
  /\ queue[p] # {}
  /\ \/ pc[p] = "ciphers" /\ lateC' = lateC \cup Batch(queue[p]) /\ UNCHANGED lateM
     \/ pc[p] \in {"manifests", "dangling"} /\ lateM' = lateM \cup Batch(queue[p]) /\ UNCHANGED lateC

\* Mutant: the errors that DeleteObjects reports per key are not looked at.
DeleteErrorsIgnored(p) ==
  /\ BatchMayLand(p)
  /\ queue' = [queue EXCEPT ![p] = @ \ Batch(@)]
  /\ UNCHANGED <<bucketVars, requested, askVars, pc, listVars, readVars, drop>>

\* The call returns an error: what it knew is gone.
Fails(p) ==
  /\ pc' = [pc EXCEPT ![p] = "failed"] /\ cursor' = [cursor EXCEPT ![p] = 0]
  /\ seenC' = [seenC EXCEPT ![p] = {}] /\ seenM' = [seenM EXCEPT ![p] = {}]
  /\ unread' = [unread EXCEPT ![p] = {}]
  /\ valid' = [valid EXCEPT ![p] = {}] /\ dangling' = [dangling EXCEPT ![p] = {}]
  /\ drop' = [drop EXCEPT ![p] = {}] /\ queue' = [queue EXCEPT ![p] = {}]
  /\ wasDangling' = [wasDangling EXCEPT ![p] = {}]

\* DeleteObjects fails, wholly or for some keys: the pass returns the error.
DeleteFails(p) ==
  /\ BatchMayLand(p) /\ Fails(p)
  /\ UNCHANGED <<bucketVars, requested, mode, policy>>

\* The stage's keys are all deleted: manifests after ciphertexts, and in a
\* retention pass the dangling manifests last.
StageEnds(p) ==
  /\ queue[p] = {}
  /\ \/ /\ pc[p] = "ciphers"
        /\ pc' = [pc EXCEPT ![p] = "manifests"] /\ queue' = [queue EXCEPT ![p] = drop[p]]
     \/ /\ pc[p] = "manifests" /\ mode[p] = "prune"
        /\ pc' = [pc EXCEPT ![p] = "dangling"] /\ queue' = [queue EXCEPT ![p] = dangling[p]]
     \/ /\ pc[p] = "dangling" \/ (pc[p] = "manifests" /\ mode[p] = "delete")
        /\ pc' = [pc EXCEPT ![p] = "ok"] /\ UNCHANGED queue
  /\ UNCHANGED <<bucketVars, lateVars, requested, askVars, listVars, readVars, drop>>

-----------------------------------------------------------------------------
(* Failures.                                                               *)

\* A call fails, the context is canceled or the process dies between two calls.
Stops(p) ==
  /\ pc[p] \notin {"idle", "ok", "failed"}
  /\ Fails(p)
  /\ UNCHANGED <<bucketVars, lateVars, requested, mode, policy>>

\* A delete that was given up lands after all.
LateDelete ==
  /\ \/ \E b \in lateC : ciphers' = ciphers \ {b} /\ lateC' = lateC \ {b} /\ UNCHANGED <<manifests, lateM>>
     \/ \E b \in lateM : manifests' = manifests \ {b} /\ lateM' = lateM \ {b} /\ UNCHANGED <<ciphers, lateC>>
  /\ UNCHANGED <<everC, everM, kind, requested, askVars, pc, listVars, readVars, deleteVars>>

PassStep(p) ==
  \/ Start(p) \/ NextPage(p) \/ ReadManifest(p) \/ ListingReturns(p)
  \/ ReadDangling(p) \/ Select(p) \/ DeleteBackups(p)
  \/ DeleteBatch(p) \/ DeleteFails(p) \/ StageEnds(p) \/ Stops(p)

Next ==
  \/ \E b \in Backups : CompleteObject(b) \/ PutManifest(b)
  \/ \E p \in Passes : PassStep(p)
  \/ LateDelete

Spec == Init /\ [][Next]_vars

-----------------------------------------------------------------------------
(* Properties.                                                             *)

TypeOK ==
  /\ ciphers \subseteq everC /\ everC \subseteq Backups
  /\ manifests \subseteq everM /\ everM \subseteq Backups
  /\ kind \in [Backups -> Kinds \cup {"none"}]
  /\ lateC \subseteq everC /\ lateM \subseteq everM /\ requested \subseteq everM
  /\ mode \in [Passes -> {"none", "prune", "dry", "delete"}]
  /\ policy \in [Passes -> Policies]
  /\ pc \in [Passes -> {"idle", "list", "read", "listed", "filter", "ciphers",
                        "manifests", "dangling", "ok", "failed"}]
  /\ cursor \in [Passes -> 0..EndOfKeys]
  /\ seenC \in [Passes -> SUBSET Backups] /\ seenM \in [Passes -> SUBSET Backups]
  /\ unread \in [Passes -> SUBSET Backups]
  /\ valid \in [Passes -> SUBSET Backups] /\ dangling \in [Passes -> SUBSET Backups]
  /\ drop \in [Passes -> SUBSET Backups] /\ queue \in [Passes -> SUBSET Backups]
  /\ wasDangling \in [Passes -> SUBSET Backups]
  /\ \A p \in Passes :
       /\ seenC[p] \subseteq everC /\ seenM[p] \subseteq everM
       /\ valid[p] \subseteq seenC[p] \cap seenM[p]
       /\ dangling[p] \subseteq seenM[p] \ seenC[p]

\* The backups that a run finished: object and manifest.
EverValid == {b \in everC \cap everM : kind[b] = "ours"}

InBucket(b) == b \in ciphers /\ b \in manifests

\* Whatever the passes, their policies and their interleavings: the newest backup
\* that was ever finished is still there, unless a caller asked for its deletion
\* (prune.go, SelectRetention: a pass never deletes the last valid backup).
NewestSurvives ==
  EverValid # {} => InBucket(Newest(EverValid)) \/ Newest(EverValid) \in requested

\* A backup that every policy in use keeps, judged by all the backups that were
\* ever finished, is still there: stale listings, concurrent passes and passes
\* cut short never delete more than one pass over everything would (pruneWith).
RetainedSurvive ==
  \A b \in EverValid :
    (\A p \in Passes : mode[p] = "prune" => b \in Keep(EverValid, policy[p]))
      => InBucket(b) \/ b \in requested

\* A manifest is never deleted before its ciphertext: deletes leave no orphan
\* that nothing would ever clean (deleteBackups, deletableDangling).
NoOrphanByDelete == \A b \in everM \ manifests : b \notin ciphers

\* Manifests of another database or of another schema, unreadable ones, their
\* ciphertexts, and ciphertexts without a manifest are never deleted (readManifest,
\* deletableDangling, DeleteBackups).
OthersUntouched ==
  /\ \A b \in everM \ manifests : kind[b] \in {"ours", "misref"}
  /\ \A b \in everC \ ciphers : kind[b] = "ours" /\ b \in everM

\* A pass that reports success has deleted all it selected, ciphertexts and
\* manifests, and the dangling manifests that earlier passes left (deleteBatches).
OkPassIsComplete ==
  \A p \in Passes : pc[p] = "ok" /\ mode[p] # "dry" =>
    /\ drop[p] \cap (ciphers \cup manifests) = {}
    /\ mode[p] = "prune" => wasDangling[p] \cap manifests = {}
=============================================================================
