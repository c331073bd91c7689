------------------------------- MODULE Upload -------------------------------
(***************************************************************************)
(* One backup run of dbferry (pipeline.Run): the dump child process, the   *)
(* feed goroutine that compresses and encrypts its output into an io.Pipe, *)
(* the read loop of streamParts that cuts the ciphertext into parts, one   *)
(* goroutine per part, the goroutine that closes the pipe on cancellation, *)
(* and the S3 service behind them.                                         *)
(*                                                                         *)
(* The ciphertext is a stream of units numbered 1, 2, ...: one unit for    *)
(* the age header, one for every chunk the dump writes, one for the tail   *)
(* that finalizing zstd and age emits.  A run of consecutive units is      *)
(* written [lo, hi] and stands for the units lo+1 .. hi, so a part buffer, *)
(* a part stored by S3 and the object are all described by what they hold. *)
(***************************************************************************)
EXTENDS Integers, FiniteSets

CONSTANTS
  PartSize,        \* units in a part (Config.PartSize)
  Concurrency,     \* capacity of the semaphore sem (Config.Concurrency)
  MaxUploadParts,  \* S3's part limit (maxUploadParts)
  AbortAttempts,   \* attempts of uploader.abort, 3 in the code
  Buffers,         \* part buffers that sync.Pool can hand out
  NoBuffer,        \* not holding one
  PipeCapacity,    \* chunks the OS pipe of the dump's stdout holds
  MaxDump          \* bound: chunks the dump may write

ASSUME UploadAssumption ==
  /\ PartSize \in Nat \ {0}
  /\ Concurrency \in Nat \ {0}
  /\ MaxUploadParts \in Nat \ {0}
  /\ AbortAttempts \in Nat \ {0}
  /\ NoBuffer \notin Buffers
  /\ PipeCapacity \in Nat \ {0}
  /\ MaxDump \in Nat

VARIABLES
  run,       \* where Run is
  kind,      \* Kind of the error that Run carries, "none" without one
  canceled,  \* the caller's context has been canceled
  child,     \* the dump process
  produced,  \* chunks the dump has written to its stdout
  feedPc,    \* where feed is
  copied,    \* chunks io.Copy has taken from the dump's stdout
  sent,      \* ciphertext units written to the pipe and read from it
  wclose,    \* the writing end of the pipe: "open", "eof" or "err"
  rclosed,   \* the reading end of the pipe has been closed
  rd,        \* where the read loop of streamParts is
  rbuf,      \* the buffer the read loop fills
  have,      \* units io.ReadFull has read into it
  total,     \* units hashed and counted
  partNum,   \* last part number given out
  readErr,   \* Kind of readErr
  sem,       \* slots taken from the semaphore
  buf,       \* what each part buffer holds
  worker,    \* the goroutine of each part
  wbuf,      \* the buffer of each part's goroutine
  parts,     \* part numbers in the list of completed parts
  werr,      \* Kind of the errgroup's first error
  attempts,  \* attempts that abort has made
  mpu,       \* the multipart upload at S3: "none", "open" or "gone"
  stored,    \* what S3 holds for each part
  pending,   \* calls that failed at the client and may still reach S3
  object,    \* the parts of the completed object, NoObject while absent
  manifest   \* ciphertext size the manifest states, NoManifest while absent

runVars  == <<run, kind, canceled, attempts>>
feedVars == <<child, produced, feedPc, copied, wclose>>
readVars == <<rd, rbuf, have, total, partNum, readErr>>
partVars == <<sem, worker, wbuf, parts, werr>>
s3Vars   == <<mpu, stored, pending, object, manifest>>
vars == <<runVars, feedVars, sent, rclosed, readVars, partVars, buf, s3Vars>>

-----------------------------------------------------------------------------
Parts      == 1..MaxUploadParts
Units      == [lo: Nat, hi: Nat]
NoData     == [lo |-> 0, hi |-> 0]
NoObject   == [p \in Parts |-> NoData]
NoManifest == -1

Returned  == {"ok", "failed"}
Running   == {"prepare", "create", "stream", "complete", "reconcile", "abort", "manifest"}
Kinds     == {"connect", "dump", "upload", "unknown", "canceled"}
Alive     == run # "crashed"

\* Mutant: Run does not defer cancel().
CtxWithoutCancel == canceled

\* The context of the run: the caller's cancellation or the deferred cancel().
CtxDone  == canceled \/ run \in Returned

\* The errgroup's context: also canceled by a failed part and by g.Wait().
GctxDone == CtxDone \/ werr # "none" \/ rd = "done"

\* Part goroutines that have not released their slot and buffer.
Active      == {p \in Parts : worker[p] \in {"sending", "refused"}}
LiveBuffers == {wbuf[p] : p \in Active} \cup ({rbuf} \ {NoBuffer})

-----------------------------------------------------------------------------
Init ==
  /\ run = "prepare" /\ kind = "none" /\ canceled = FALSE /\ attempts = 0
  /\ child = "none" /\ produced = 0
  /\ feedPc = "off" /\ copied = 0 /\ sent = 0
  /\ wclose = "open" /\ rclosed = FALSE
  /\ rd = "off" /\ rbuf = NoBuffer /\ have = 0
  /\ total = 0 /\ partNum = 0 /\ readErr = "none"
  /\ sem = 0 /\ buf = [b \in Buffers |-> NoData]
  /\ worker = [p \in Parts |-> "none"] /\ wbuf = [p \in Parts |-> NoBuffer]
  /\ parts = {} /\ werr = "none"
  /\ mpu = "none" /\ stored = NoObject
  /\ pending = {}
  /\ object = NoObject /\ manifest = NoManifest

-----------------------------------------------------------------------------
(* Run.                                                                    *)

\* The deferred classification: after the caller's cancellation any error is
\* KindCanceled.
Classified(k) == IF canceled THEN "canceled" ELSE k

\* Run returns an error; the deferred cancel() ends its context.
Fail(k) == run' = "failed" /\ kind' = Classified(k)

\* An early return before the dump is started: the driver, the connection
\* test, the preflight checks, the destination, the recipient, the S3 client.
PrepareFails(k) ==
  /\ run = "prepare"
  /\ Fail(k)
  /\ UNCHANGED <<canceled, attempts, feedVars, sent, rclosed, readVars,
                 partVars, buf, s3Vars>>

\* cmd.Start and the feed goroutine; then CreateMultipartUpload is called.
\* exec.Cmd.Start refuses a context that is already done.
StartDump ==
  /\ run = "prepare" /\ ~canceled
  /\ run' = "create" /\ child' = "running" /\ feedPc' = "header"
  /\ UNCHANGED <<kind, canceled, attempts, produced, copied, wclose, sent,
                 rclosed, readVars, partVars, buf, s3Vars>>

CreateReturns ==
  /\ run = "create"
  /\ run' = "stream" /\ rd' = "acquire" /\ mpu' = "open"
  /\ UNCHANGED <<kind, canceled, attempts, feedVars, sent, rclosed, rbuf, have,
                 total, partNum, readErr, partVars, buf, stored, pending,
                 object, manifest>>

\* A client call failed: it is lost, or still on its way to S3.
MayLinger(call) == pending' \in {pending, pending \cup {call}}

\* The upload id is never learnt, so nothing can be aborted.
CreateFails ==
  /\ run = "create"
  /\ Fail("upload") /\ rclosed' = TRUE
  /\ MayLinger("create")
  /\ UNCHANGED <<canceled, attempts, feedVars, sent, readVars, partVars, buf,
                 mpu, stored, object, manifest>>

\* Mutant: the read loop's error is looked at before the errgroup's.
ReadErrorFirst ==
  /\ run = "stream" /\ rd = "wait" /\ Active = {}
  /\ rd' = "done"
  /\ \/ /\ readErr # "none"
        /\ run' = "abort" /\ kind' = readErr
     \/ /\ readErr = "none" /\ werr # "none"
        /\ run' = "abort" /\ kind' = werr
     \/ /\ werr = "none" /\ readErr = "none"
        /\ run' = IF canceled THEN "reconcile" ELSE "complete"
        /\ kind' = kind
  /\ UNCHANGED <<canceled, attempts, feedVars, sent, rclosed, rbuf, have, total,
                 partNum, readErr, partVars, buf, s3Vars>>

\* g.Wait returns and streamParts with it.  The errgroup's error wins over the
\* read loop's.  With neither, CompleteMultipartUpload is called; the SDK
\* refuses the call when the context is already done.
StreamPartsReturns ==
  /\ run = "stream" /\ rd = "wait" /\ Active = {}
  /\ rd' = "done"
  /\ \/ /\ werr # "none"
        /\ run' = "abort" /\ kind' = werr
     \/ /\ werr = "none" /\ readErr # "none"
        /\ run' = "abort" /\ kind' = readErr
     \/ /\ werr = "none" /\ readErr = "none"
        /\ run' = IF canceled THEN "reconcile" ELSE "complete"
        /\ kind' = kind
  /\ UNCHANGED <<canceled, attempts, feedVars, sent, rclosed, rbuf, have, total,
                 partNum, readErr, partVars, buf, s3Vars>>

\* After the object is complete PutObject is called for the manifest; the SDK
\* refuses it when the context is already done.
CallPutManifest ==
  \/ ~canceled /\ run' = "manifest" /\ kind' = kind
  \/ canceled /\ Fail("upload")

\* S3 assembles the listed parts in part-number order.
Assembled == [p \in Parts |-> IF p \in parts THEN stored[p] ELSE NoData]

CompleteReturns ==
  /\ run = "complete"
  /\ object' = Assembled /\ mpu' = "gone"
  /\ CallPutManifest
  /\ UNCHANGED <<canceled, attempts, feedVars, sent, rclosed, readVars,
                 partVars, buf, stored, pending, manifest>>

CompleteFails ==
  /\ run = "complete"
  /\ run' = "reconcile"
  /\ MayLinger("complete")
  /\ UNCHANGED <<kind, canceled, attempts, feedVars, sent, rclosed, readVars,
                 partVars, buf, mpu, stored, object, manifest>>

\* objectExists: only a HeadObject that succeeds counts as present.
ReconcileFindsObject ==
  /\ run = "reconcile" /\ object # NoObject
  /\ CallPutManifest
  /\ UNCHANGED <<canceled, attempts, feedVars, sent, rclosed, readVars,
                 partVars, buf, s3Vars>>

\* Mutant: an ambiguous Complete is taken for a success.
ReconcileAssumesObject ==
  /\ run = "reconcile"
  /\ run' = "manifest" /\ kind' = "none"
  /\ UNCHANGED <<canceled, attempts, feedVars, sent, rclosed, readVars,
                 partVars, buf, s3Vars>>

\* HeadObject reports no object, or fails for any other reason.
ReconcileFindsNone ==
  /\ run = "reconcile"
  /\ run' = "abort" /\ kind' = "upload"
  /\ UNCHANGED <<canceled, attempts, feedVars, sent, rclosed, readVars,
                 partVars, buf, s3Vars>>

\* Mutant: any answer of ListParts is taken for a confirmation.
AbortUnverified ==
  /\ run = "abort" /\ attempts < AbortAttempts
  /\ attempts' = attempts + 1
  /\ mpu' \in {mpu, "gone"}
  /\ Fail(kind) /\ rclosed' = TRUE
  /\ UNCHANGED <<canceled, feedVars, sent, readVars, partVars, buf, stored,
                 pending, object, manifest>>

\* One AbortMultipartUpload followed by ListParts.  The abort may fail, and S3
\* does not promise that it takes effect while a part upload whose client gave
\* up is still in progress.
\* Only NoSuchUpload from ListParts ends the loop early.
AbortOnce ==
  /\ run = "abort" /\ attempts < AbortAttempts
  /\ attempts' = attempts + 1
  /\ mpu' \in {mpu, "gone"}
  /\ \E listed \in {"NoSuchUpload", "other"} :
       /\ listed = "NoSuchUpload" => mpu' = "gone"
       /\ IF listed = "NoSuchUpload" \/ attempts' = AbortAttempts
            THEN Fail(kind) /\ rclosed' = TRUE
            ELSE UNCHANGED <<run, kind, rclosed>>
  /\ UNCHANGED <<canceled, feedVars, sent, readVars, partVars, buf, stored,
                 pending, object, manifest>>

PutManifestReturns ==
  /\ run = "manifest"
  /\ manifest' = total /\ run' = "ok"
  /\ UNCHANGED <<kind, canceled, attempts, feedVars, sent, rclosed, readVars,
                 partVars, buf, mpu, stored, pending, object>>

\* Mutant: a failed manifest write is reported as success.
PutFailureIgnored ==
  /\ run = "manifest"
  /\ run' = "ok" /\ kind' = kind
  /\ MayLinger("put")
  /\ UNCHANGED <<canceled, attempts, feedVars, sent, rclosed, readVars,
                 partVars, buf, mpu, stored, object, manifest>>

PutManifestFails ==
  /\ run = "manifest"
  /\ Fail("upload")
  /\ MayLinger("put")
  /\ UNCHANGED <<canceled, attempts, feedVars, sent, rclosed, readVars,
                 partVars, buf, mpu, stored, object, manifest>>

-----------------------------------------------------------------------------
(* The read loop of streamParts.                                           *)

\* Mutant: the loop reads on without waiting for a free slot.
AcquireNoWait ==
  /\ Alive /\ rd = "acquire"
  /\ sem' = sem + 1
  /\ \E b \in Buffers \ LiveBuffers : rbuf' = b
  /\ rd' = "read"
  /\ UNCHANGED <<runVars, feedVars, sent, rclosed, have, total, partNum,
                 readErr, worker, wbuf, parts, werr, buf, s3Vars>>

\* The slot is taken before a buffer is.
AcquireSlot ==
  /\ Alive /\ rd = "acquire" /\ sem < Concurrency
  /\ sem' = sem + 1
  /\ \E b \in Buffers \ LiveBuffers : rbuf' = b
  /\ rd' = "read"
  /\ UNCHANGED <<runVars, feedVars, sent, rclosed, have, total, partNum,
                 readErr, worker, wbuf, parts, werr, buf, s3Vars>>

\* The other case of the select: gctx.Err() is not classified.
StopAcquiring ==
  /\ Alive /\ rd = "acquire" /\ GctxDone
  /\ readErr' = "unknown" /\ rd' = "wait"
  /\ UNCHANGED <<runVars, feedVars, sent, rclosed, rbuf, have, total, partNum,
                 partVars, buf, s3Vars>>

\* Mutant: the slot is not given back.
LeaveKeepingSlot(err) ==
  /\ readErr' = err /\ rd' = "wait"
  /\ rbuf' = NoBuffer /\ have' = 0
  /\ UNCHANGED <<total, worker, wbuf, sem>>

\* The loop ends without dispatching what was read: buffer and slot go back.
LeaveReadLoop(err) ==
  /\ readErr' = err /\ rd' = "wait"
  /\ rbuf' = NoBuffer /\ have' = 0 /\ sem' = sem - 1
  /\ UNCHANGED <<total, worker, wbuf>>

\* Mutant: the whole buffer is counted, not the n units that were read.
DispatchWholeBuffer(next) ==
  /\ total' = total + PartSize
  /\ worker' = [worker EXCEPT ![partNum + 1] = IF GctxDone THEN "refused" ELSE "sending"]
  /\ wbuf' = [wbuf EXCEPT ![partNum + 1] = rbuf]
  /\ rbuf' = NoBuffer /\ have' = 0 /\ rd' = next
  /\ UNCHANGED <<readErr, sem>>

\* hasher, total and the goroutine of the next part.  UploadPart is refused at
\* once when gctx is already done.
Dispatch(next) ==
  /\ total' = total + have
  /\ worker' = [worker EXCEPT ![partNum + 1] = IF GctxDone THEN "refused" ELSE "sending"]
  /\ wbuf' = [wbuf EXCEPT ![partNum + 1] = rbuf]
  /\ rbuf' = NoBuffer /\ have' = 0 /\ rd' = next
  /\ UNCHANGED <<readErr, sem>>

\* Mutant: off by one at the part limit.
TakePartBelowLimit(next) ==
  /\ partNum' = partNum + 1
  /\ IF partNum' >= MaxUploadParts THEN LeaveReadLoop("upload") ELSE Dispatch(next)

\* A part to upload: over the part limit it is refused.
TakePart(next) ==
  /\ partNum' = partNum + 1
  /\ IF partNum' > MaxUploadParts THEN LeaveReadLoop("upload") ELSE Dispatch(next)

\* io.ReadFull fills the buffer.
ReadFullPart ==
  /\ Alive /\ rd = "read" /\ have = PartSize
  /\ TakePart("acquire")
  /\ UNCHANGED <<runVars, feedVars, sent, rclosed, parts, werr, buf, s3Vars>>

\* io.ErrUnexpectedEOF: the stream ends inside the part.
ReadLastPart ==
  /\ Alive /\ rd = "read" /\ have \in 1..(PartSize - 1)
  /\ wclose = "eof" /\ ~rclosed
  /\ TakePart("wait")
  /\ UNCHANGED <<runVars, feedVars, sent, rclosed, parts, werr, buf, s3Vars>>

\* io.EOF: the stream ends at a part boundary.
ReadEOF ==
  /\ Alive /\ rd = "read" /\ have = 0
  /\ wclose = "eof" /\ ~rclosed
  /\ LeaveReadLoop("none")
  /\ UNCHANGED <<runVars, feedVars, sent, rclosed, partNum, parts, werr, buf,
                 s3Vars>>

\* Any other error.  A closed reading end hides what the writer closed with:
\* the read returns io.ErrClosedPipe, which is not classified.
ReadError ==
  /\ Alive /\ rd = "read" /\ have < PartSize
  /\ rclosed \/ wclose = "err"
  /\ LeaveReadLoop(IF rclosed THEN "unknown" ELSE "dump")
  /\ UNCHANGED <<runVars, feedVars, sent, rclosed, partNum, parts, werr, buf,
                 s3Vars>>

\* Mutant: only the caller's cancellation closes the reading end.
CloseOnCancelOnly ==
  /\ Alive /\ rd # "off" /\ canceled /\ ~rclosed
  /\ rclosed' = TRUE
  /\ UNCHANGED <<runVars, feedVars, sent, readVars, partVars, buf, s3Vars>>

\* The goroutine that waits for gctx and closes the reading end.
CloseReader ==
  /\ Alive /\ rd # "off" /\ GctxDone /\ ~rclosed
  /\ rclosed' = TRUE
  /\ UNCHANGED <<runVars, feedVars, sent, readVars, partVars, buf, s3Vars>>

-----------------------------------------------------------------------------
(* The goroutine of a part.                                                *)

\* Mutant: a part goroutine keeps its slot.
ReleaseBufferOnly(p) == wbuf' = [wbuf EXCEPT ![p] = NoBuffer] /\ sem' = sem

\* The deferred release of buffer and slot.
Release(p) == wbuf' = [wbuf EXCEPT ![p] = NoBuffer] /\ sem' = sem - 1

PartUploaded(p) ==
  /\ Alive /\ worker[p] = "sending"
  /\ stored' = [stored EXCEPT ![p] = buf[wbuf[p]]]
  /\ parts' = parts \cup {p}
  /\ worker' = [worker EXCEPT ![p] = "done"]
  /\ Release(p)
  /\ UNCHANGED <<runVars, feedVars, sent, rclosed, readVars, werr, buf, mpu,
                 pending, object, manifest>>

\* A refused call, an error of S3, the part timeout, a canceled context.  The
\* first error of the group is kept and cancels gctx.
PartFails(p) ==
  /\ Alive /\ p \in Active
  /\ werr' = IF werr = "none" THEN "upload" ELSE werr
  /\ worker' = [worker EXCEPT ![p] = "failed"]
  /\ Release(p)
  /\ UNCHANGED <<runVars, feedVars, sent, rclosed, readVars, parts, buf, mpu,
                 stored, pending, object, manifest>>

-----------------------------------------------------------------------------
(* The dump process and feed.                                              *)

DumpWrites ==
  /\ child = "running" /\ produced < MaxDump /\ produced - copied < PipeCapacity
  /\ produced' = produced + 1
  /\ UNCHANGED <<runVars, child, feedPc, copied, wclose, sent, rclosed, readVars,
                 partVars, buf, s3Vars>>

\* The dump exits by itself, with status 0 or not.
DumpExits(status) ==
  /\ child = "running"
  /\ child' = status
  /\ UNCHANGED <<runVars, produced, feedPc, copied, wclose, sent, rclosed,
                 readVars, partVars, buf, s3Vars>>

\* exec.CommandContext kills the dump when the context of the run is done.
KillDump ==
  /\ Alive /\ child = "running" /\ CtxDone
  /\ child' = "killed"
  /\ UNCHANGED <<runVars, produced, feedPc, copied, wclose, sent, rclosed,
                 readVars, partVars, buf, s3Vars>>

\* feed has a unit to write: the age header, a chunk of the dump, the tail.
Writing ==
  \/ feedPc \in {"header", "finalize"}
  \/ feedPc = "copy" /\ copied < produced

\* A write to the pipe meets a read from it.
PipeTransfer ==
  /\ Alive /\ Writing /\ ~rclosed
  /\ rd = "read" /\ have < PartSize
  /\ buf' = [buf EXCEPT ![rbuf] = [lo |-> sent - have, hi |-> sent + 1]]
  /\ have' = have + 1 /\ sent' = sent + 1
  /\ feedPc' = CASE feedPc = "header" -> "copy"
                 [] feedPc = "copy" -> "copy"
                 [] feedPc = "finalize" -> "close"
  /\ copied' = IF feedPc = "copy" THEN copied + 1 ELSE copied
  /\ UNCHANGED <<runVars, child, produced, wclose, rclosed, rd, rbuf, total,
                 partNum, readErr, partVars, s3Vars>>

\* A write fails because the reading end is closed.  A failed header ends feed
\* at once, without reaping the dump; a failed copy first waits for it.
WriteFails ==
  /\ Alive /\ Writing /\ rclosed
  /\ IF feedPc = "copy"
       THEN feedPc' = "copyErr" /\ wclose' = wclose
       ELSE feedPc' = "done" /\ wclose' = "err"
  /\ UNCHANGED <<runVars, child, produced, copied, sent, rclosed, readVars,
                 partVars, buf, s3Vars>>

\* Mutant: the dump's exit status is ignored.
WaitIgnoresStatus ==
  /\ Alive /\ child \in {"ok", "failed", "killed"}
  /\ \/ feedPc = "copy" /\ copied = produced
     \/ feedPc = "copyErr"
  /\ IF feedPc = "copy"
       THEN feedPc' = "finalize" /\ wclose' = wclose
       ELSE feedPc' = "done" /\ wclose' = "err"
  /\ UNCHANGED <<runVars, child, produced, copied, sent, rclosed, readVars,
                 partVars, buf, s3Vars>>

\* io.Copy meets the end of stdout, which the dump closed by exiting, or has
\* failed; then cmd.Wait.  Only a dump that exited with status 0 is finalized.
WaitReturns ==
  /\ Alive /\ child \in {"ok", "failed", "killed"}
  /\ \/ feedPc = "copy" /\ copied = produced
     \/ feedPc = "copyErr"
  /\ IF feedPc = "copy" /\ child = "ok"
       THEN feedPc' = "finalize" /\ wclose' = wclose
       ELSE feedPc' = "done" /\ wclose' = "err"
  /\ UNCHANGED <<runVars, child, produced, copied, sent, rclosed, readVars,
                 partVars, buf, s3Vars>>

CloseWriter ==
  /\ Alive /\ feedPc = "close"
  /\ feedPc' = "done" /\ wclose' = "eof"
  /\ UNCHANGED <<runVars, child, produced, copied, sent, rclosed, readVars,
                 partVars, buf, s3Vars>>

-----------------------------------------------------------------------------
(* The caller and S3.                                                      *)

\* Ctrl+C, the one signal that is caught; any other that ends the process is a Crash.
Cancel ==
  /\ run \in Running /\ ~canceled
  /\ canceled' = TRUE
  /\ UNCHANGED <<run, kind, attempts, feedVars, sent, rclosed, readVars,
                 partVars, buf, s3Vars>>

\* The calls that are under way when the process dies may still reach S3.
InFlight == CASE run = "create"   -> {"create"}
              [] run = "complete" -> {"complete"}
              [] run = "manifest" -> {"put"}
              [] OTHER            -> {}

\* The process is killed outright; nothing is cleaned up.
Crash ==
  /\ run \in Running
  /\ run' = "crashed"
  /\ \E lost \in SUBSET InFlight : pending' = pending \cup (InFlight \ lost)
  /\ UNCHANGED <<kind, canceled, attempts, feedVars, sent, rclosed, readVars,
                 partVars, buf, mpu, stored, object, manifest>>

CreateLands ==
  /\ "create" \in pending
  /\ pending' = pending \ {"create"} /\ mpu' = "open"
  /\ UNCHANGED <<runVars, feedVars, sent, rclosed, readVars, partVars, buf,
                 stored, object, manifest>>

\* A late CompleteMultipartUpload finds the upload open, or is refused.
CompleteLands ==
  /\ "complete" \in pending
  /\ pending' = pending \ {"complete"}
  /\ IF mpu = "open" THEN object' = Assembled /\ mpu' = "gone"
                     ELSE UNCHANGED <<object, mpu>>
  /\ UNCHANGED <<runVars, feedVars, sent, rclosed, readVars, partVars, buf,
                 stored, manifest>>

PutLands ==
  /\ "put" \in pending
  /\ pending' = pending \ {"put"} /\ manifest' = total
  /\ UNCHANGED <<runVars, feedVars, sent, rclosed, readVars, partVars, buf,
                 mpu, stored, object>>

-----------------------------------------------------------------------------
RunStep ==
  \/ \E k \in {"connect", "dump", "upload", "unknown"} : PrepareFails(k)
  \/ StartDump
  \/ CreateReturns \/ CreateFails
  \/ StreamPartsReturns
  \/ CompleteReturns \/ CompleteFails
  \/ ReconcileFindsObject \/ ReconcileFindsNone
  \/ AbortOnce
  \/ PutManifestReturns \/ PutManifestFails

ReadStep ==
  \/ AcquireSlot \/ StopAcquiring
  \/ ReadFullPart \/ ReadLastPart \/ ReadEOF \/ ReadError

PartStep(p) == PartUploaded(p) \/ PartFails(p)

FeedStep == WriteFails \/ WaitReturns \/ CloseWriter

DumpStep == DumpWrites \/ \E status \in {"ok", "failed"} : DumpExits(status)

S3Step == CreateLands \/ CompleteLands \/ PutLands

\* Nothing is left to do: every goroutine and the dump have ended.
Terminated ==
  /\ run \in Returned \cup {"crashed"}
  /\ child # "running" /\ (Alive => feedPc \in {"off", "done"})
  /\ UNCHANGED vars

Next ==
  \/ RunStep \/ ReadStep \/ CloseReader
  \/ \E p \in Parts : PartStep(p)
  \/ FeedStep \/ PipeTransfer
  \/ DumpStep \/ KillDump
  \/ Cancel \/ Crash \/ S3Step
  \/ Terminated

Spec == Init /\ [][Next]_vars

-----------------------------------------------------------------------------
(* Fairness.  The goroutines are scheduled, and UploadPart, HeadObject and *)
(* abort run under timeouts of their own.  CreateMultipartUpload,          *)
(* CompleteMultipartUpload, PutObject and the preflight checks are bounded *)
(* by the run's context alone, so they are sure to return only once it has *)
(* been canceled.  Nothing makes the dump write or exit by itself.         *)

TimedStep ==
  StreamPartsReturns \/ ReconcileFindsObject \/ ReconcileFindsNone \/ AbortOnce

UntimedStep == RunStep /\ run \in {"prepare", "create", "complete", "manifest"}

Fairness ==
  /\ WF_vars(TimedStep)
  /\ WF_vars(canceled /\ UntimedStep)
  /\ WF_vars(ReadStep) /\ WF_vars(CloseReader)
  /\ \A p \in Parts : WF_vars(PartStep(p))
  /\ WF_vars(FeedStep) /\ WF_vars(PipeTransfer)
  /\ WF_vars(KillDump)

FairSpec == Spec /\ Fairness

-----------------------------------------------------------------------------
(* Properties.                                                             *)

TypeOK ==
  /\ run \in Running \cup Returned \cup {"crashed"}
  /\ kind \in Kinds \cup {"none"} /\ canceled \in BOOLEAN
  /\ attempts \in 0..AbortAttempts
  /\ child \in {"none", "running", "ok", "failed", "killed"}
  /\ feedPc \in {"off", "header", "copy", "copyErr", "finalize", "close", "done"}
  /\ produced \in Nat /\ copied \in Nat /\ sent \in Nat
  /\ wclose \in {"open", "eof", "err"} /\ rclosed \in BOOLEAN
  /\ rd \in {"off", "acquire", "read", "wait", "done"}
  /\ rbuf \in Buffers \cup {NoBuffer} /\ have \in 0..PartSize
  /\ total \in Nat /\ partNum \in 0..(MaxUploadParts + 1)
  /\ readErr \in Kinds \cup {"none"} /\ werr \in Kinds \cup {"none"}
  /\ sem \in 0..Concurrency
  /\ buf \in [Buffers -> Units]
  /\ worker \in [Parts -> {"none", "sending", "refused", "done", "failed"}]
  /\ wbuf \in [Parts -> Buffers \cup {NoBuffer}]
  /\ parts \subseteq Parts
  /\ mpu \in {"none", "open", "gone"}
  /\ stored \in [Parts -> Units] /\ object \in [Parts -> Units]
  /\ pending \subseteq {"create", "complete", "put"}
  /\ manifest \in Nat \cup {NoManifest}

\* What S3 holds is every unit from the first to the last, each once and in
\* order, in parts 1..n.
Contiguous(obj, n, last) ==
  /\ \A p \in Parts : (obj[p] # NoData) <=> p <= n
  /\ obj[1].lo = 0 /\ obj[n].hi = last
  /\ \A p \in 1..(n - 1) : obj[p].hi = obj[p + 1].lo

\* An object exists only if the dump exited with status 0, and then it is the
\* whole ciphertext of everything the dump wrote: no failure, cancellation or
\* reuse of a part buffer completes a truncated, reordered or mixed-up object
\* (feed's closing of the pipe, streamParts, CompleteMultipartUpload).
ObjectIsTheWholeDump ==
  object # NoObject =>
    /\ child = "ok"
    /\ \E n \in Parts : Contiguous(object, n, produced + 2)

\* A manifest exists only beside its completed object and states the size of
\* what that object holds, also when the response to its PutObject was lost
\* (Run writes the manifest only after the upload).
ManifestDescribesObject ==
  manifest # NoManifest =>
    /\ object # NoObject
    /\ \E n \in Parts : Contiguous(object, n, manifest)

\* Run reports success only for a backup that is valid in the bucket: object
\* and manifest both written (the error paths of Run's last steps).
SuccessIsAValidBackup ==
  run = "ok" => object # NoObject /\ manifest # NoManifest

\* A failed run leaves the multipart upload open only if abort used up its
\* attempts without a confirmation, or the id of the upload was never learnt
\* because CreateMultipartUpload failed (uploader.abort and its callers).
AbortIsVerified ==
  run = "failed" /\ mpu = "open" =>
    attempts = AbortAttempts \/ rd = "off"

\* Every taken slot belongs to one live buffer, no two goroutines hold the
\* same buffer, and at most Concurrency part buffers are live, whatever ends
\* the read loop or a part (sem and bufPool in streamParts).
SlotPerBuffer ==
  /\ sem = Cardinality(LiveBuffers)
  /\ sem = Cardinality(Active) + (IF rbuf = NoBuffer THEN 0 ELSE 1)
  /\ sem <= Concurrency

\* Once the dump has been started a failure is always classified, and the dump
\* is blamed only when it did fail by itself: a part that failed or a Ctrl+C
\* also breaks feed's writes and kills the dump, but must not be reported as a
\* dump failure (werr before readErr, the deferred classification).
BlameIsRight ==
  run = "failed" /\ child # "none" =>
    /\ kind \in {"dump", "upload", "canceled"}
    /\ kind = "dump" => child = "failed" /\ werr = "none"

\* The part limit refuses only a stream that really needs another part: one
\* that ends exactly at the limit is uploaded (partNum > maxUploadParts).
LimitIsExact ==
  readErr = "upload" => sent > MaxUploadParts * PartSize

\* A failed part, a read error or a cancellation ends the run, even if the dump
\* never writes or exits again (the goroutine that closes the pipe reader).
FailureSurfaces ==
  (canceled \/ werr # "none" \/ readErr # "none") ~> (run \notin Running)

\* When Run has returned the dump does not stay behind and feed ends, on every
\* return path (the deferred cancel and pr.CloseWithError).
NothingStaysBehind ==
  (run \in Returned) ~> (child # "running" /\ feedPc \in {"off", "done"})

\* Once the dump has exited the stream is drained and streamParts returns: no
\* slot is lost and nobody waits for a closed pipe (sem, feed and g.Wait).
StreamDrains ==
  (child # "running" /\ run = "stream") ~> (run # "stream")

\* The run as its caller and the bucket see it.
Promise == INSTANCE Backup WITH
  cipher   <- object # NoObject,
  manifest <- manifest # NoManifest,
  outcome  <- IF run \in Running THEN "running" ELSE run

\* The run implements the promise of Backup: the object appears once, the
\* manifest after it and never without it, success only with both, and no step
\* takes any of them back (the order of the calls in Run and upload).
KeepsThePromise == Promise!Spec

\* What upload's comment and operations.md say: a failure that aborts the multipart
\* upload leaves no completed object behind, the ambiguous Complete being
\* reconciled by key.
AbortedLeavesNoObject ==
  run = "failed" /\ attempts > 0 => object = NoObject
=============================================================================
