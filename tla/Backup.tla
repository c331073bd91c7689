------------------------------- MODULE Backup -------------------------------
(***************************************************************************)
(* What one run of dbferry promises about the two objects of its backup:   *)
(* the ciphertext and the manifest that makes it a valid backup (ADR-0005).*)
(* The ciphertext object appears as a whole or not at all, the manifest    *)
(* only after it, neither is taken back, and the run reports success only  *)
(* for a valid backup.  A run that failed or died promises nothing more:   *)
(* what it left in flight may still appear.                                *)
(***************************************************************************)
VARIABLES
  cipher,    \* the ciphertext object is in the bucket
  manifest,  \* its manifest is in the bucket
  outcome    \* what the run has reported

backupVars == <<cipher, manifest, outcome>>

Valid == cipher /\ manifest

Init == cipher = FALSE /\ manifest = FALSE /\ outcome = "running"

\* The object is completed; the run may fail in the same step.
CompleteObject ==
  /\ ~cipher /\ cipher' = TRUE /\ manifest' = manifest
  /\ \/ outcome' = outcome
     \/ outcome = "running" /\ outcome' = "failed"

\* The manifest is written; the run may report success with it.
WriteManifest ==
  /\ cipher /\ ~manifest /\ manifest' = TRUE /\ cipher' = cipher
  /\ \/ outcome' = outcome
     \/ outcome = "running" /\ outcome' = "ok"

\* The run gives up or dies.
GiveUp ==
  /\ outcome = "running" /\ outcome' \in {"failed", "crashed"}
  /\ UNCHANGED <<cipher, manifest>>

Next == CompleteObject \/ WriteManifest \/ GiveUp

Spec == Init /\ [][Next]_backupVars
=============================================================================
