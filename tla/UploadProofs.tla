---------------------------- MODULE UploadProofs ----------------------------
(***************************************************************************)
(* Proofs about Upload, for every part size, concurrency, part limit,      *)
(* number of abort attempts, pool of buffers and length of the dump.       *)
(***************************************************************************)
EXTENDS Upload, FiniteSetTheorems, TLAPS

-----------------------------------------------------------------------------
(* The inductive invariant.                                                *)

\* feed: how far the ciphertext is, and that the pipe is closed cleanly only
\* after everything the successful dump wrote has gone through it.
FeedInv ==
  /\ feedPc = "off" <=> child = "none"
  /\ feedPc \in {"off", "header"} => sent = 0 /\ copied = 0
  /\ feedPc = "copy" => sent = copied + 1
  /\ feedPc = "finalize" => sent = copied + 1 /\ copied = produced /\ child = "ok"
  /\ feedPc = "close" => sent = copied + 2 /\ copied = produced /\ child = "ok"
  /\ feedPc # "done" => wclose = "open"
  /\ wclose = "eof" => sent = produced + 2 /\ child = "ok"

\* The read loop: everything read is hashed or in the buffer being filled, and
\* a loop that ended without an error has seen the clean end of the stream.
ReadInv ==
  /\ rd = "off" => sent = 0 /\ total = 0 /\ partNum = 0
  /\ rd \in {"off", "acquire", "read"} => readErr = "none"
  /\ rd = "acquire" => total = sent
  /\ rd = "read" => rbuf \in Buffers /\ total + have = sent
  /\ rd # "read" => rbuf = NoBuffer /\ have = 0
  /\ have > 0 => buf[rbuf] = [lo |-> total, hi |-> sent]
  /\ rd \in {"wait", "done"} /\ readErr = "none" => total = sent /\ wclose = "eof"
  /\ readErr = "none" => partNum <= MaxUploadParts
  /\ partNum = 0 => total = 0

\* What part p holds: its buffer while it is uploaded, then what S3 stored.
Data(p) == IF p \in Active THEN buf[wbuf[p]] ELSE stored[p]

Exclusive ==
  /\ \A p \in Active : wbuf[p] \in Buffers /\ wbuf[p] # rbuf
  /\ \A p, q \in Active : p # q => wbuf[p] # wbuf[q]

\* The parts that have not failed follow each other without gap or overlap.
Chained ==
  /\ \A p \in Parts : p <= partNum /\ worker[p] # "failed" => Data(p).lo < Data(p).hi
  /\ 1 <= partNum /\ worker[1] # "failed" => Data(1).lo = 0
  /\ \A p \in Parts : p = partNum /\ worker[p] # "failed" => Data(p).hi = total
  /\ \A p, q \in Parts :
       q = p + 1 /\ q <= partNum /\ worker[p] # "failed" /\ worker[q] # "failed"
         => Data(p).hi = Data(q).lo

PartInv ==
  /\ \A p \in Parts : worker[p] = "none" <=> p > partNum
  /\ parts = {p \in Parts : worker[p] = "done"}
  /\ werr = "none" => \A p \in Parts : worker[p] # "failed"
  /\ rd \in {"off", "done"} => Active = {}
  /\ Exclusive
  /\ Chained

SlotInv == IsFiniteSet(LiveBuffers) /\ sem = Cardinality(LiveBuffers)

\* The upload can be completed: everything was read and uploaded.
Ready == rd = "done" /\ werr = "none" /\ readErr = "none"

DoneInv ==
  /\ run = "prepare" => child = "none"
  /\ run \in {"prepare", "create"} => rd = "off"
  /\ run \in {"complete", "reconcile", "manifest", "ok"} => Ready
  /\ "complete" \in pending => Ready
  /\ object # NoObject => Ready /\ object = Assembled
  /\ run \in {"manifest", "ok"} \/ "put" \in pending => object # NoObject
  /\ manifest # NoManifest => object # NoObject /\ manifest = total
  /\ run = "ok" => manifest # NoManifest
  /\ run \in Running => manifest = NoManifest /\ "put" \notin pending

IInv == TypeOK /\ FeedInv /\ ReadInv /\ PartInv /\ SlotInv /\ DoneInv

-----------------------------------------------------------------------------
(* Type correctness.                                                       *)

\* A goroutine that holds a buffer holds a slot (bufPool and sem).
LEMMA HolderHasSlot ==
  ASSUME TypeOK, SlotInv, LiveBuffers # {}
  PROVE  sem - 1 \in 0..Concurrency
<1>1. Cardinality(LiveBuffers) \in Nat /\ Cardinality(LiveBuffers) # 0
  BY FS_CardinalityType, FS_EmptySet DEF SlotInv
<1> QED
  BY <1>1, UploadAssumption DEF SlotInv, TypeOK, UploadAssumption

\* Every step keeps the variables within their types.
LEMMA TypeStep ==
  ASSUME IInv, Next
  PROVE  TypeOK'
<1> USE DEF runVars, feedVars, readVars, partVars, s3Vars, vars, Running, Returned, Kinds
<1>a. TypeOK BY DEF IInv
<1>1. CASE RunStep
  <2>1. ASSUME NEW k \in {"connect", "dump", "upload", "unknown"}, PrepareFails(k)
        PROVE  TypeOK'
    BY <1>a, <2>1 DEF TypeOK, PrepareFails, Fail, Classified
  <2>2. CASE StartDump
    BY <1>a, <2>2 DEF TypeOK, StartDump
  <2>3. CASE CreateReturns
    BY <1>a, <2>3 DEF TypeOK, CreateReturns
  <2>4. CASE CreateFails
    BY <1>a, <2>4 DEF TypeOK, CreateFails, Fail, Classified, MayLinger
  <2>5. CASE StreamPartsReturns
    BY <1>a, <2>5 DEF TypeOK, StreamPartsReturns
  <2>6. CASE CompleteReturns
    BY <1>a, <2>6 DEF TypeOK, CompleteReturns, CallPutManifest, Fail, Classified, Assembled, Units, NoData
  <2>7. CASE CompleteFails
    BY <1>a, <2>7 DEF TypeOK, CompleteFails, MayLinger
  <2>8. CASE ReconcileFindsObject
    BY <1>a, <2>8 DEF TypeOK, ReconcileFindsObject, CallPutManifest, Fail, Classified
  <2>9. CASE ReconcileFindsNone
    BY <1>a, <2>9 DEF TypeOK, ReconcileFindsNone
  <2>10. CASE AbortOnce
    <3>1. /\ attempts' \in 0..AbortAttempts /\ mpu' \in {"none", "open", "gone"}
      BY <1>a, <2>10, UploadAssumption DEF UploadAssumption, TypeOK, AbortOnce
    <3>2. \/ UNCHANGED <<run, kind, rclosed>>
          \/ run' = "failed" /\ kind' = (IF canceled THEN "canceled" ELSE kind) /\ rclosed' = TRUE
      BY <2>10 DEF AbortOnce, Fail, Classified
    <3>3. /\ run' \in Running \cup Returned \cup {"crashed"}
          /\ kind' \in Kinds \cup {"none"} /\ rclosed' \in BOOLEAN
      BY <1>a, <3>2 DEF TypeOK
    <3> QED
      BY <1>a, <2>10, <3>1, <3>3 DEF TypeOK, AbortOnce
  <2>11. CASE PutManifestReturns
    BY <1>a, <2>11 DEF TypeOK, PutManifestReturns
  <2>12. CASE PutManifestFails
    BY <1>a, <2>12 DEF TypeOK, PutManifestFails, Fail, Classified, MayLinger
  <2> QED
    BY <1>1, <2>1, <2>2, <2>3, <2>4, <2>5, <2>6, <2>7, <2>8, <2>9, <2>10, <2>11, <2>12
    DEF RunStep
<1>2. CASE ReadStep
  <2>1. CASE AcquireSlot
    BY <1>a, <2>1, UploadAssumption DEF UploadAssumption, TypeOK, AcquireSlot
  <2>2. CASE StopAcquiring
    BY <1>a, <2>2 DEF TypeOK, StopAcquiring
  <2>3. ASSUME rd = "read" PROVE sem - 1 \in 0..Concurrency
    <3>1. rbuf \in LiveBuffers
      BY <2>3, UploadAssumption DEF UploadAssumption, IInv, ReadInv, LiveBuffers
    <3> QED BY <3>1, HolderHasSlot DEF IInv
  <2>4. ASSUME NEW err \in Kinds \cup {"none"}, rd = "read", LeaveReadLoop(err),
               UNCHANGED <<runVars, feedVars, sent, rclosed, parts, werr, buf, s3Vars>>,
               partNum' \in 0..(MaxUploadParts + 1)
        PROVE  TypeOK'
    BY <1>a, <2>3, <2>4, UploadAssumption DEF UploadAssumption, TypeOK, LeaveReadLoop
  <2>5. ASSUME NEW next \in {"acquire", "wait"}, rd = "read", TakePart(next),
               UNCHANGED <<runVars, feedVars, sent, rclosed, parts, werr, buf, s3Vars>>
        PROVE  TypeOK'
    <3>1. partNum \in 0..MaxUploadParts
      BY <1>a, <2>5, UploadAssumption DEF UploadAssumption, TypeOK, IInv, ReadInv
    <3>2. CASE partNum' > MaxUploadParts
      BY <2>4, <2>5, <3>1, <3>2, UploadAssumption DEF TakePart, UploadAssumption
    <3>3. CASE ~(partNum' > MaxUploadParts)
      <4>1. partNum' = partNum + 1 /\ partNum + 1 \in Parts /\ total' \in Nat /\ Dispatch(next)
        BY <1>a, <2>5, <3>1, <3>3, UploadAssumption
        DEF UploadAssumption, TypeOK, TakePart, Dispatch, Parts
      <4>2. /\ worker' \in [Parts -> {"none", "sending", "refused", "done", "failed"}]
            /\ wbuf' \in [Parts -> Buffers \cup {NoBuffer}]
        BY <1>a, <4>1 DEF TypeOK, Dispatch
      <4> QED
        BY <1>a, <2>5, <3>1, <4>1, <4>2, UploadAssumption DEF UploadAssumption, TypeOK, Dispatch
    <3> QED BY <3>2, <3>3
  <2>6. CASE ReadFullPart
    BY <2>5, <2>6 DEF ReadFullPart
  <2>7. CASE ReadLastPart
    BY <2>5, <2>7 DEF ReadLastPart
  <2>8. CASE ReadEOF
    BY <1>a, <2>4, <2>8 DEF ReadEOF, TypeOK
  <2>9. CASE ReadError
    BY <1>a, <2>4, <2>9 DEF ReadError, TypeOK
  <2> QED
    BY <1>2, <2>1, <2>2, <2>6, <2>7, <2>8, <2>9 DEF ReadStep
<1>3. CASE CloseReader
  BY <1>a, <1>3 DEF TypeOK, CloseReader
<1>4. ASSUME NEW p \in Parts, PartStep(p)
      PROVE  TypeOK'
  <2>1. p \in Active
    BY <1>4 DEF PartStep, PartUploaded, PartFails, Active
  <2>2. sem - 1 \in 0..Concurrency
    <3>1. wbuf[p] \in LiveBuffers
      BY <2>1 DEF LiveBuffers
    <3> QED BY <3>1, HolderHasSlot DEF IInv
  <2>3. wbuf[p] \in Buffers
    BY <2>1 DEF IInv, PartInv, Exclusive
  <2>4. CASE PartUploaded(p)
    BY <1>a, <2>2, <2>3, <2>4 DEF TypeOK, PartUploaded, Release
  <2>5. CASE PartFails(p)
    BY <1>a, <2>2, <2>5 DEF TypeOK, PartFails, Release
  <2> QED BY <1>4, <2>4, <2>5 DEF PartStep
<1>5. CASE FeedStep
  <2>1. CASE WriteFails
    BY <1>a, <2>1 DEF TypeOK, WriteFails
  <2>2. CASE WaitReturns
    BY <1>a, <2>2 DEF TypeOK, WaitReturns
  <2>3. CASE CloseWriter
    BY <1>a, <2>3 DEF TypeOK, CloseWriter
  <2> QED BY <1>5, <2>1, <2>2, <2>3 DEF FeedStep
<1>6. CASE PipeTransfer
  <2>1. rbuf \in Buffers /\ sent - have \in Nat
    BY <1>a, <1>6 DEF PipeTransfer, TypeOK, IInv, ReadInv
  <2> QED
    BY <1>a, <1>6, <2>1, UploadAssumption DEF UploadAssumption, TypeOK, PipeTransfer, Writing, Units
<1>7. CASE DumpStep \/ KillDump
  <2>1. CASE DumpWrites
    BY <1>a, <2>1 DEF TypeOK, DumpWrites
  <2>2. ASSUME NEW status \in {"ok", "failed"}, DumpExits(status)
        PROVE  TypeOK'
    BY <1>a, <2>2 DEF TypeOK, DumpExits
  <2>3. CASE KillDump
    BY <1>a, <2>3 DEF TypeOK, KillDump
  <2> QED BY <1>7, <2>1, <2>2, <2>3 DEF DumpStep
<1>8. CASE Cancel \/ Crash
  <2>1. CASE Cancel
    BY <1>a, <2>1 DEF TypeOK, Cancel
  <2>2. CASE Crash
    <3>1. pending' \subseteq {"create", "complete", "put"}
      BY <1>a, <2>2 DEF TypeOK, Crash, InFlight
    <3> QED BY <1>a, <2>2, <3>1 DEF TypeOK, Crash
  <2> QED BY <1>8, <2>1, <2>2
<1>9. CASE S3Step
  <2>1. CASE CreateLands
    BY <1>a, <2>1 DEF TypeOK, CreateLands
  <2>2. CASE CompleteLands
    <3>1. object' \in [Parts -> Units]
      BY <1>a, <2>2 DEF TypeOK, CompleteLands, Assembled, Units, NoData
    <3> QED BY <1>a, <2>2, <3>1 DEF TypeOK, CompleteLands
  <2>3. CASE PutLands
    BY <1>a, <2>3 DEF TypeOK, PutLands
  <2> QED BY <1>9, <2>1, <2>2, <2>3 DEF S3Step
<1>10. CASE Terminated
  BY <1>a, <1>10 DEF TypeOK, Terminated
<1> QED
  BY <1>1, <1>2, <1>3, <1>4, <1>5, <1>6, <1>7, <1>8, <1>9, <1>10 DEF Next

-----------------------------------------------------------------------------
(* feed and the dump.                                                      *)

\* No step lets the pipe be closed cleanly before the whole dump is through.
LEMMA FeedStepInv ==
  ASSUME IInv, Next
  PROVE  FeedInv'
<1> USE DEF runVars, feedVars, readVars, partVars, s3Vars, vars
<1>a. TypeOK /\ FeedInv BY DEF IInv
<1>b. ASSUME UNCHANGED <<feedVars, sent>> PROVE FeedInv'
  BY <1>a, <1>b DEF FeedInv
<1>1. CASE StartDump
  BY <1>1, <1>a DEF IInv, DoneInv, ReadInv, FeedInv, StartDump, TypeOK
<1>2. CASE DumpWrites
  BY <1>2, <1>a DEF FeedInv, DumpWrites, TypeOK
<1>3. ASSUME NEW status \in {"ok", "failed"}, DumpExits(status) PROVE FeedInv'
  BY <1>3, <1>a DEF FeedInv, DumpExits, TypeOK
<1>4. CASE KillDump
  BY <1>4, <1>a DEF FeedInv, KillDump, TypeOK
<1>5. CASE PipeTransfer
  BY <1>5, <1>a DEF FeedInv, PipeTransfer, Writing, TypeOK
<1>6. CASE WriteFails
  BY <1>6, <1>a DEF FeedInv, WriteFails, Writing, TypeOK
<1>7. CASE WaitReturns
  BY <1>7, <1>a DEF FeedInv, WaitReturns, TypeOK
<1>8. CASE CloseWriter
  BY <1>8, <1>a DEF FeedInv, CloseWriter, TypeOK
<1>9. CASE RunStep /\ ~StartDump
  BY <1>9, <1>b DEF RunStep, PrepareFails, CreateReturns, CreateFails, StreamPartsReturns,
    CompleteReturns, CompleteFails, ReconcileFindsObject, ReconcileFindsNone, AbortOnce,
    PutManifestReturns, PutManifestFails
<1>10. CASE ReadStep \/ CloseReader
  BY <1>10, <1>b DEF ReadStep, AcquireSlot, StopAcquiring, ReadFullPart, ReadLastPart,
    ReadEOF, ReadError, CloseReader
<1>11. ASSUME NEW p \in Parts, PartStep(p) PROVE FeedInv'
  BY <1>11, <1>b DEF PartStep, PartUploaded, PartFails
<1>12. CASE Cancel \/ Crash \/ S3Step \/ Terminated
  BY <1>12, <1>b DEF Cancel, Crash, S3Step, CreateLands, CompleteLands, PutLands, Terminated
<1> QED
  BY <1>1, <1>2, <1>3, <1>4, <1>5, <1>6, <1>7, <1>8, <1>9, <1>10, <1>11, <1>12
  DEF Next, FeedStep, DumpStep

-----------------------------------------------------------------------------
(* The read loop.                                                          *)

\* No step loses, repeats or reorders a unit between the pipe and the hash, and
\* the loop ends without an error only at the clean end of the stream.
LEMMA ReadStepInv ==
  ASSUME IInv, Next
  PROVE  ReadInv'
<1> USE DEF runVars, feedVars, readVars, partVars, s3Vars, vars
<1>a. TypeOK /\ ReadInv /\ UploadAssumption BY UploadAssumption DEF IInv
<1>b. ASSUME UNCHANGED <<readVars, sent, buf, wclose>> PROVE ReadInv'
  BY <1>a, <1>b DEF ReadInv
<1>1. CASE CreateReturns
  BY <1>1, <1>a DEF IInv, DoneInv, ReadInv, CreateReturns
<1>2. CASE StreamPartsReturns
  BY <1>2, <1>a DEF ReadInv, StreamPartsReturns
<1>3. CASE AcquireSlot
  BY <1>3, <1>a DEF ReadInv, AcquireSlot, TypeOK
<1>4. CASE StopAcquiring
  BY <1>4, <1>a DEF ReadInv, StopAcquiring, TypeOK
<1>5. ASSUME NEW next \in {"acquire", "wait"}, rd = "read", have > 0, TakePart(next),
             next = "wait" => wclose = "eof",
             UNCHANGED <<sent, buf, wclose>>
      PROVE  ReadInv'
  <2>1. CASE partNum' > MaxUploadParts
    BY <1>5, <1>a, <2>1 DEF ReadInv, TakePart, LeaveReadLoop, TypeOK
  <2>2. CASE ~(partNum' > MaxUploadParts)
    BY <1>5, <1>a, <2>2 DEF ReadInv, TakePart, Dispatch, TypeOK, UploadAssumption
  <2> QED BY <2>1, <2>2
<1>6. CASE ReadFullPart
  BY <1>5, <1>6, <1>a DEF ReadFullPart, UploadAssumption
<1>7. CASE ReadLastPart
  BY <1>5, <1>7, <1>a DEF ReadLastPart, TypeOK
<1>8. CASE ReadEOF
  BY <1>8, <1>a DEF ReadInv, ReadEOF, LeaveReadLoop, TypeOK
<1>9. CASE ReadError
  BY <1>9, <1>a DEF ReadInv, ReadError, LeaveReadLoop, TypeOK
<1>10. CASE PipeTransfer
  <2>1. /\ rd = "read" /\ rd' = rd /\ rbuf' = rbuf /\ rbuf \in Buffers
        /\ sent - have = total /\ buf'[rbuf] = [lo |-> total, hi |-> sent + 1]
    BY <1>10, <1>a DEF ReadInv, PipeTransfer, TypeOK
  <2> QED
    BY <1>10, <1>a, <2>1 DEF ReadInv, PipeTransfer, TypeOK
<1>11. CASE FeedStep
  BY <1>11, <1>a DEF IInv, FeedInv, ReadInv, FeedStep, WriteFails, Writing, WaitReturns,
    CloseWriter
<1>12. CASE RunStep /\ ~CreateReturns /\ ~StreamPartsReturns
  BY <1>12, <1>b DEF RunStep, PrepareFails, StartDump, CreateFails,
    CompleteReturns, CompleteFails, ReconcileFindsObject, ReconcileFindsNone, AbortOnce,
    PutManifestReturns, PutManifestFails
<1>13. ASSUME NEW p \in Parts, PartStep(p) PROVE ReadInv'
  BY <1>13, <1>b DEF PartStep, PartUploaded, PartFails
<1>14. CASE CloseReader \/ DumpStep \/ KillDump
  BY <1>14, <1>b DEF CloseReader, DumpStep, DumpWrites, DumpExits, KillDump
<1>15. CASE Cancel \/ Crash \/ S3Step \/ Terminated
  BY <1>15, <1>b DEF Cancel, Crash, S3Step, CreateLands, CompleteLands, PutLands, Terminated
<1> QED
  BY <1>1, <1>2, <1>3, <1>4, <1>6, <1>7, <1>8, <1>9, <1>10, <1>11, <1>12, <1>13, <1>14, <1>15
  DEF Next, ReadStep

-----------------------------------------------------------------------------
(* The parts.                                                              *)

\* Handing the filled buffer to the goroutine of the next part keeps the parts
\* chained and the buffers exclusive.
LEMMA DispatchParts ==
  ASSUME IInv, NEW next \in {"acquire", "wait"}, rd = "read", have > 0,
         partNum' = partNum + 1, partNum + 1 <= MaxUploadParts, Dispatch(next),
         UNCHANGED <<parts, werr, buf, stored>>
  PROVE  PartInv'
<1>a. TypeOK /\ ReadInv /\ PartInv /\ UploadAssumption BY UploadAssumption DEF IInv
<1>0. PICK n \in Nat : n = partNum + 1
  BY <1>a DEF TypeOK
<1>1. n \in Parts /\ worker[n] = "none"
  BY <1>a, <1>0 DEF TypeOK, PartInv, Parts, UploadAssumption
<1>2. /\ worker' = [worker EXCEPT ![n] = worker'[n]]
      /\ worker'[n] \in {"sending", "refused"}
      /\ wbuf' = [wbuf EXCEPT ![n] = rbuf]
      /\ rbuf' = NoBuffer /\ total' = total + have /\ rd' = next
  BY <1>0, <1>a, <1>1 DEF Dispatch, TypeOK
<1>3. Active' = Active \cup {n} /\ n \notin Active
  BY <1>a, <1>1, <1>2 DEF Active, TypeOK
<1>4. rbuf \in Buffers /\ rbuf # NoBuffer
      /\ buf[rbuf] = [lo |-> total, hi |-> total + have]
  BY <1>a DEF ReadInv, UploadAssumption
<1>5. wbuf'[n] = rbuf /\ \A p \in Parts \ {n} : wbuf'[p] = wbuf[p] /\ worker'[p] = worker[p]
  BY <1>a, <1>1, <1>2 DEF TypeOK
<1>6. Data(n)' = [lo |-> total, hi |-> total + have]
  BY <1>3, <1>4, <1>5 DEF Data
<1>7. \A p \in Parts \ {n} : Data(p)' = Data(p)
  BY <1>3, <1>5 DEF Data
<1>8. Exclusive'
  BY <1>a, <1>3, <1>4, <1>5, <1>2 DEF PartInv, Exclusive, Active, UploadAssumption
<1>9. Chained'
  <2>1. \A p \in Parts : p <= n /\ worker'[p] # "failed" => Data(p)'.lo < Data(p)'.hi
    BY <1>0, <1>a, <1>1, <1>5, <1>6, <1>7 DEF PartInv, Chained, TypeOK, Parts
  <2>2. 1 <= n /\ worker'[1] # "failed" => Data(1)'.lo = 0
    BY <1>0, <1>a, <1>1, <1>5, <1>6, <1>7 DEF PartInv, Chained, TypeOK, Parts, ReadInv, UploadAssumption
  <2>3. \A p \in Parts : p = n /\ worker'[p] # "failed" => Data(p)'.hi = total'
    BY <1>2, <1>6
  <2>4. \A p, q \in Parts :
          q = p + 1 /\ q <= n /\ worker'[p] # "failed" /\ worker'[q] # "failed"
            => Data(p)'.hi = Data(q)'.lo
    BY <1>0, <1>a, <1>1, <1>5, <1>6, <1>7 DEF PartInv, Chained, TypeOK, Parts
  <2> QED BY <1>0, <2>1, <2>2, <2>3, <2>4 DEF Chained
<1>10. /\ \A p \in Parts : worker'[p] = "none" <=> p > n
       /\ parts' = {p \in Parts : worker'[p] = "done"}
       /\ werr' = "none" => \A p \in Parts : worker'[p] # "failed"
  BY <1>0, <1>a, <1>1, <1>2, <1>5 DEF PartInv, TypeOK, Parts
<1> QED
  BY <1>0, <1>2, <1>8, <1>9, <1>10 DEF PartInv

\* A part goroutine that ends takes only itself out of the chain.
LEMMA PartStepParts ==
  ASSUME IInv, NEW p \in Parts, PartStep(p)
  PROVE  PartInv'
<1> USE DEF runVars, feedVars, readVars, partVars, s3Vars, vars
<1>a. TypeOK /\ PartInv BY DEF IInv
<1>1. p \in Active /\ p <= partNum
  BY <1>a DEF PartStep, PartUploaded, PartFails, Active, PartInv, TypeOK, Parts
<1>2. /\ worker' = [worker EXCEPT ![p] = worker'[p]]
      /\ worker'[p] \in {"done", "failed"}
      /\ wbuf' = [wbuf EXCEPT ![p] = NoBuffer]
      /\ UNCHANGED <<rd, rbuf, buf, total, partNum>>
  BY <1>a DEF PartStep, PartUploaded, PartFails, Release, TypeOK
<1>3. \A q \in Parts \ {p} : worker'[q] = worker[q] /\ wbuf'[q] = wbuf[q]
  BY <1>a, <1>2 DEF TypeOK
<1>4. Active' = Active \ {p}
  BY <1>2, <1>3 DEF Active
<1>5. Exclusive'
  BY <1>a, <1>2, <1>3, <1>4 DEF PartInv, Exclusive, Active
<1>6. \A q \in Parts \ {p} : stored'[q] = stored[q]
  BY <1>a DEF PartStep, PartUploaded, PartFails, TypeOK
<1>7. worker'[p] # "failed" => stored'[p] = buf[wbuf[p]]
  BY <1>a, <1>1 DEF PartStep, PartUploaded, PartFails, TypeOK
<1>8. \A q \in Parts : worker'[q] # "failed" => Data(q)' = Data(q) /\ worker[q] # "failed"
  BY <1>1, <1>2, <1>3, <1>4, <1>6, <1>7 DEF Data, Active
<1>9. Chained'
  BY <1>a, <1>2, <1>8, UploadAssumption DEF PartInv, Chained, Parts, UploadAssumption
<1>10. /\ \A q \in Parts : worker'[q] = "none" <=> q > partNum
       /\ parts' = {q \in Parts : worker'[q] = "done"}
  <2>1. parts' = IF worker'[p] = "done" THEN parts \cup {p} ELSE parts
    BY <1>a DEF PartStep, PartUploaded, PartFails, TypeOK
  <2>2. worker[p] \notin {"none", "done"}
    BY <1>1 DEF Active
  <2> QED
    BY <1>a, <1>1, <1>2, <1>3, <2>1, <2>2 DEF PartInv
<1>11. werr' = "none" => \A q \in Parts : worker'[q] # "failed"
  BY <1>a, <1>3 DEF PartStep, PartUploaded, PartFails, PartInv, TypeOK
<1> QED
  BY <1>a, <1>2, <1>4, <1>5, <1>9, <1>10, <1>11 DEF PartInv

\* No step breaks the chain of parts or shares a buffer.
LEMMA PartStepInv ==
  ASSUME IInv, Next
  PROVE  PartInv'
<1> USE DEF runVars, feedVars, readVars, partVars, s3Vars, vars
<1>a. TypeOK /\ ReadInv /\ PartInv /\ UploadAssumption BY UploadAssumption DEF IInv
<1>b. ASSUME UNCHANGED <<worker, wbuf, parts, werr, buf, stored, partNum, total>>,
             rbuf' = rbuf \/ rbuf' \notin {wbuf[p] : p \in Active},
             rd' \in {"off", "done"} => Active = {}
      PROVE  PartInv'
  <2>1. Active' = Active /\ \A p \in Parts : Data(p)' = Data(p)
    BY <1>b DEF Active, Data
  <2>2. Exclusive'
    BY <1>a, <1>b, <2>1 DEF PartInv, Exclusive
  <2>3. Chained'
    BY <1>a, <1>b, <2>1, UploadAssumption DEF PartInv, Chained, UploadAssumption, Parts
  <2> QED
    BY <1>a, <1>b, <2>1, <2>2, <2>3 DEF PartInv
<1>c. ASSUME UNCHANGED <<readVars, worker, wbuf, parts, werr, buf, stored>> PROVE PartInv'
  BY <1>a, <1>b, <1>c DEF PartInv
<1>d. NoBuffer \notin {wbuf[p] : p \in Active}
  BY <1>a DEF PartInv, Exclusive, UploadAssumption
<1>1. CASE CreateReturns
  BY <1>1, <1>b DEF CreateReturns
<1>2. CASE StreamPartsReturns
  BY <1>2, <1>b DEF StreamPartsReturns
<1>3. CASE AcquireSlot
  BY <1>3, <1>b DEF AcquireSlot, LiveBuffers
<1>4. CASE StopAcquiring
  BY <1>4, <1>b DEF StopAcquiring
<1>5. ASSUME NEW next \in {"acquire", "wait"}, rd = "read", have > 0, TakePart(next),
             UNCHANGED <<parts, werr, buf, stored>>
      PROVE  PartInv'
  <2>1. CASE partNum' > MaxUploadParts
    <3>1. partNum = MaxUploadParts
      BY <1>5, <2>1, <1>a DEF TakePart, ReadInv, TypeOK, UploadAssumption
    <3>2. /\ UNCHANGED <<worker, wbuf, parts, werr, buf, stored, total>>
          /\ rbuf' = NoBuffer /\ rd' = "wait" /\ partNum' = MaxUploadParts + 1
      BY <1>5, <2>1, <3>1 DEF TakePart, LeaveReadLoop
    <3>3. Active' = Active /\ \A p \in Parts : Data(p)' = Data(p)
      BY <3>2 DEF Active, Data
    <3>4. Exclusive'
      BY <1>a, <1>d, <3>2, <3>3 DEF PartInv, Exclusive
    <3>5. Chained'
      BY <1>a, <3>1, <3>2, <3>3 DEF PartInv, Chained, Parts, UploadAssumption
    <3> QED
      BY <1>a, <3>1, <3>2, <3>3, <3>4, <3>5 DEF PartInv, Parts, UploadAssumption
  <2>2. CASE ~(partNum' > MaxUploadParts)
    BY <1>5, <2>2, <1>a, DispatchParts DEF TakePart, TypeOK, UploadAssumption
  <2> QED BY <2>1, <2>2
<1>6. CASE ReadFullPart
  BY <1>5, <1>6, <1>a DEF ReadFullPart, UploadAssumption
<1>7. CASE ReadLastPart
  BY <1>5, <1>7, <1>a DEF ReadLastPart, TypeOK
<1>8. CASE ReadEOF \/ ReadError
  BY <1>8, <1>b, <1>d DEF ReadEOF, ReadError, LeaveReadLoop
<1>9. CASE PipeTransfer
  <2>1. /\ rbuf \in Buffers /\ rd' = "read"
        /\ UNCHANGED <<worker, wbuf, parts, werr, stored, partNum, total, rbuf>>
        /\ \A b \in Buffers \ {rbuf} : buf'[b] = buf[b]
    BY <1>9, <1>a DEF PipeTransfer, ReadInv, TypeOK
  <2>2. Active' = Active /\ \A p \in Parts : Data(p)' = Data(p)
    BY <1>a, <2>1 DEF Active, Data, PartInv, Exclusive
  <2>3. Exclusive'
    BY <1>a, <2>1, <2>2 DEF PartInv, Exclusive
  <2>4. Chained'
    BY <1>a, <2>1, <2>2 DEF PartInv, Chained, UploadAssumption, Parts
  <2> QED
    BY <1>a, <2>1, <2>2, <2>3, <2>4 DEF PartInv
<1>10. ASSUME NEW p \in Parts, PartStep(p) PROVE PartInv'
  BY <1>10, PartStepParts
<1>11. CASE FeedStep
  BY <1>11, <1>c DEF FeedStep, WriteFails, WaitReturns, CloseWriter
<1>12. CASE RunStep /\ ~CreateReturns /\ ~StreamPartsReturns
  BY <1>12, <1>c DEF RunStep, PrepareFails, StartDump, CreateFails,
    CompleteReturns, CompleteFails, ReconcileFindsObject, ReconcileFindsNone, AbortOnce,
    PutManifestReturns, PutManifestFails
<1>13. CASE CloseReader \/ DumpStep \/ KillDump
  BY <1>13, <1>c DEF CloseReader, DumpStep, DumpWrites, DumpExits, KillDump
<1>14. CASE Cancel \/ Crash \/ S3Step \/ Terminated
  BY <1>14, <1>c DEF Cancel, Crash, S3Step, CreateLands, CompleteLands, PutLands, Terminated
<1> QED
  BY <1>1, <1>2, <1>3, <1>4, <1>6, <1>7, <1>8, <1>9, <1>10, <1>11, <1>12, <1>13, <1>14
  DEF Next, ReadStep

-----------------------------------------------------------------------------
(* Slots and buffers.                                                      *)

\* The number of taken slots stays the number of live buffers.
LEMMA SlotStepInv ==
  ASSUME IInv, Next
  PROVE  SlotInv'
<1> USE DEF runVars, feedVars, readVars, partVars, s3Vars, vars
<1>a. TypeOK /\ ReadInv /\ PartInv /\ SlotInv /\ UploadAssumption
  BY UploadAssumption DEF IInv
<1>b. ASSUME UNCHANGED <<sem, LiveBuffers>> PROVE SlotInv'
  BY <1>a, <1>b DEF SlotInv
<1>c. ASSUME UNCHANGED <<sem, worker, wbuf, rbuf>> PROVE SlotInv'
  BY <1>b, <1>c DEF LiveBuffers, Active
<1>d. ASSUME NEW b \in LiveBuffers, LiveBuffers' = LiveBuffers \ {b}, sem' = sem - 1
      PROVE  SlotInv'
  BY <1>a, <1>d, FS_RemoveElement DEF SlotInv
<1>1. CASE AcquireSlot
  <2>1. PICK b \in Buffers \ LiveBuffers : rbuf' = b
    BY <1>1 DEF AcquireSlot
  <2>2. sem' = sem + 1 /\ rbuf = NoBuffer /\ UNCHANGED <<worker, wbuf>>
    BY <1>1, <1>a DEF AcquireSlot, ReadInv
  <2>3. LiveBuffers' = LiveBuffers \cup {b}
    BY <2>1, <2>2, <1>a DEF LiveBuffers, Active, UploadAssumption
  <2> QED
    BY <1>a, <2>1, <2>2, <2>3, FS_AddElement DEF SlotInv
<1>2. CASE StopAcquiring
  BY <1>2, <1>c DEF StopAcquiring
<1>3. ASSUME NEW err, rd = "read", LeaveReadLoop(err)
      PROVE  SlotInv'
  <2>1. rbuf \in LiveBuffers /\ rbuf' = NoBuffer /\ sem' = sem - 1 /\ UNCHANGED <<worker, wbuf>>
    BY <1>3, <1>a DEF LeaveReadLoop, ReadInv, LiveBuffers, UploadAssumption
  <2>2. rbuf \notin {wbuf[p] : p \in Active}
    BY <1>a DEF PartInv, Exclusive
  <2>3. LiveBuffers' = LiveBuffers \ {rbuf}
    BY <2>1, <2>2 DEF LiveBuffers, Active
  <2> QED BY <2>1, <2>3, <1>d
<1>4. ASSUME NEW next, rd = "read", have > 0, TakePart(next)
      PROVE  SlotInv'
  <2>1. CASE partNum' > MaxUploadParts
    BY <1>3, <1>4, <2>1 DEF TakePart
  <2>2. CASE ~(partNum' > MaxUploadParts)
    <3>0. PICK n \in Nat : n = partNum + 1
      BY <1>a DEF TypeOK
    <3>1. n \in Parts /\ worker[n] = "none"
      BY <1>4, <2>2, <3>0, <1>a DEF TypeOK, PartInv, Parts, TakePart, UploadAssumption
    <3>2. /\ worker' = [worker EXCEPT ![n] = worker'[n]]
          /\ worker'[n] \in {"sending", "refused"}
          /\ wbuf' = [wbuf EXCEPT ![n] = rbuf]
          /\ rbuf' = NoBuffer /\ sem' = sem
      BY <1>4, <2>2, <3>0, <3>1, <1>a DEF TakePart, Dispatch, TypeOK
    <3>3. Active' = Active \cup {n} /\ n \notin Active
      BY <1>a, <3>1, <3>2 DEF Active, TypeOK
    <3>4. wbuf'[n] = rbuf /\ \A p \in Active : wbuf'[p] = wbuf[p]
      BY <1>a, <3>1, <3>2, <3>3 DEF TypeOK, Active
    <3>5. rbuf # NoBuffer
      BY <1>4, <1>a DEF ReadInv, UploadAssumption
    <3>6. LiveBuffers' = LiveBuffers
      BY <3>2, <3>3, <3>4, <3>5 DEF LiveBuffers
    <3> QED BY <3>2, <3>6, <1>b
  <2> QED BY <2>1, <2>2
<1>5. CASE ReadFullPart
  BY <1>4, <1>5, <1>a DEF ReadFullPart, UploadAssumption
<1>6. CASE ReadLastPart
  BY <1>4, <1>6, <1>a DEF ReadLastPart, TypeOK
<1>7. CASE ReadEOF \/ ReadError
  BY <1>3, <1>7 DEF ReadEOF, ReadError
<1>8. ASSUME NEW p \in Parts, PartStep(p) PROVE SlotInv'
  <2>1. p \in Active
    BY <1>8 DEF PartStep, PartUploaded, PartFails, Active
  <2>2. /\ worker' = [worker EXCEPT ![p] = worker'[p]]
        /\ worker'[p] \in {"done", "failed"}
        /\ wbuf' = [wbuf EXCEPT ![p] = NoBuffer]
        /\ rbuf' = rbuf /\ sem' = sem - 1
    BY <1>8, <1>a DEF PartStep, PartUploaded, PartFails, Release, TypeOK
  <2>3. Active' = Active \ {p} /\ \A q \in Active \ {p} : wbuf'[q] = wbuf[q]
    BY <1>a, <2>2 DEF Active, TypeOK
  <2>4. wbuf[p] # rbuf /\ \A q \in Active \ {p} : wbuf[q] # wbuf[p]
    BY <1>a, <2>1 DEF PartInv, Exclusive
  <2>5. LiveBuffers' = LiveBuffers \ {wbuf[p]} /\ wbuf[p] \in LiveBuffers
    BY <2>1, <2>2, <2>3, <2>4 DEF LiveBuffers
  <2> QED BY <2>2, <2>5, <1>d
<1>9. CASE PipeTransfer \/ FeedStep
  BY <1>9, <1>c DEF PipeTransfer, FeedStep, WriteFails, WaitReturns, CloseWriter
<1>10. CASE RunStep
  BY <1>10, <1>c DEF RunStep, PrepareFails, StartDump, CreateReturns, CreateFails,
    StreamPartsReturns, CompleteReturns, CompleteFails, ReconcileFindsObject,
    ReconcileFindsNone, AbortOnce, PutManifestReturns, PutManifestFails
<1>11. CASE CloseReader \/ DumpStep \/ KillDump
  BY <1>11, <1>c DEF CloseReader, DumpStep, DumpWrites, DumpExits, KillDump
<1>12. CASE Cancel \/ Crash \/ S3Step \/ Terminated
  BY <1>12, <1>c DEF Cancel, Crash, S3Step, CreateLands, CompleteLands, PutLands, Terminated
<1> QED
  BY <1>1, <1>2, <1>5, <1>6, <1>7, <1>8, <1>9, <1>10, <1>11, <1>12 DEF Next, ReadStep

-----------------------------------------------------------------------------
(* The object and its manifest.                                            *)

\* When everything was read and uploaded, the listed parts are the whole
\* ciphertext of a successful dump.
LEMMA ReadyIsWhole ==
  ASSUME IInv, Ready
  PROVE  /\ child = "ok" /\ total = produced + 2
         /\ partNum \in Parts /\ Contiguous(Assembled, partNum, total)
         /\ Assembled # NoObject
<1>a. TypeOK /\ FeedInv /\ ReadInv /\ PartInv /\ UploadAssumption
  BY UploadAssumption DEF IInv
<1>1. child = "ok" /\ total = produced + 2
  BY <1>a DEF Ready, ReadInv, FeedInv
<1>2. partNum \in Parts
  BY <1>a, <1>1 DEF Ready, ReadInv, TypeOK, Parts
<1>3. \A p \in Parts : p \in parts <=> p <= partNum
  BY <1>a, <1>2 DEF Ready, PartInv, Active, TypeOK, Parts
<1>4. \A p \in Parts : p <= partNum => Assembled[p] = Data(p) /\ worker[p] # "failed"
  BY <1>a, <1>3 DEF Ready, PartInv, Assembled, Data
<1>5. \A p \in Parts : p > partNum => Assembled[p] = NoData
  BY <1>a, <1>2, <1>3 DEF Assembled, Parts, TypeOK, UploadAssumption
<1>6. \A p \in Parts : p <= partNum => Assembled[p] # NoData
  BY <1>a, <1>4 DEF PartInv, Chained, NoData
<1>7. Assembled[1].lo = 0 /\ Assembled[partNum].hi = total
  BY <1>a, <1>2, <1>4 DEF PartInv, Chained, Parts, UploadAssumption, TypeOK
<1>8. \A p \in 1..(partNum - 1) : Assembled[p].hi = Assembled[p + 1].lo
  BY <1>a, <1>2, <1>4 DEF PartInv, Chained, Parts, UploadAssumption, TypeOK
<1>9. Contiguous(Assembled, partNum, total)
  BY <1>a, <1>2, <1>5, <1>6, <1>7, <1>8 DEF Contiguous, Parts, UploadAssumption
<1>10. Assembled # NoObject
  BY <1>2, <1>6, UploadAssumption DEF NoObject, Parts, UploadAssumption
<1> QED BY <1>1, <1>2, <1>9, <1>10

\* Nothing is read, hashed or uploaded any more once the upload is ready.
LEMMA ReadyIsFinal ==
  ASSUME IInv, Next, Ready
  PROVE  Ready' /\ total' = total /\ Assembled' = Assembled
<1> USE DEF runVars, feedVars, readVars, partVars, s3Vars, vars
<1>a. rd = "done" /\ Active = {} /\ run \notin {"prepare", "create"}
  BY DEF IInv, PartInv, DoneInv, Ready
<1>b. ASSUME UNCHANGED <<rd, werr, readErr, total, parts, stored>>
      PROVE  Ready' /\ total' = total /\ Assembled' = Assembled
  BY <1>b DEF Ready, Assembled
<1>1. CASE RunStep
  BY <1>1, <1>a, <1>b DEF RunStep, PrepareFails, StartDump, CreateReturns, CreateFails,
    StreamPartsReturns, CompleteReturns, CompleteFails, ReconcileFindsObject,
    ReconcileFindsNone, AbortOnce, PutManifestReturns, PutManifestFails
<1>2. ~ReadStep /\ ~PipeTransfer /\ \A p \in Parts : ~PartStep(p)
  BY <1>a DEF ReadStep, AcquireSlot, StopAcquiring, ReadFullPart, ReadLastPart, ReadEOF,
    ReadError, PipeTransfer, PartStep, PartUploaded, PartFails, Active
<1>3. CASE FeedStep \/ CloseReader
  BY <1>3, <1>b DEF FeedStep, WriteFails, WaitReturns, CloseWriter, CloseReader
<1>4. CASE DumpStep \/ KillDump
  BY <1>4, <1>b DEF DumpStep, DumpWrites, DumpExits, KillDump
<1>5. CASE Cancel \/ Crash \/ S3Step \/ Terminated
  BY <1>5, <1>b DEF Cancel, Crash, S3Step, CreateLands, CompleteLands, PutLands, Terminated
<1> QED
  BY <1>1, <1>2, <1>3, <1>4, <1>5 DEF Next

\* No step writes an object that is not ready, a manifest without the object, or
\* reports success without the manifest.
LEMMA DoneStepInv ==
  ASSUME IInv, Next
  PROVE  DoneInv'
<1> USE DEF runVars, feedVars, readVars, partVars, s3Vars, vars, Running
<1>a. TypeOK /\ ReadInv /\ PartInv /\ DoneInv BY DEF IInv
<1>b. Ready => Ready' /\ total' = total /\ Assembled' = Assembled /\ Assembled # NoObject
  BY ReadyIsFinal, ReadyIsWhole
<1>c. NoObject' = NoObject
  BY DEF NoObject, Parts, NoData
<1>d. ASSUME UNCHANGED <<run, rd, pending, object, manifest, child>> PROVE DoneInv'
  BY <1>a, <1>b, <1>c, <1>d DEF DoneInv
<1>1. CASE RunStep
  <2>1. ASSUME NEW k \in {"connect", "dump", "upload", "unknown"}, PrepareFails(k)
        PROVE  DoneInv'
    BY <1>a, <1>b, <1>c, <2>1 DEF DoneInv, PrepareFails, Fail
  <2>2. CASE StartDump
    BY <1>a, <1>b, <1>c, <2>2 DEF DoneInv, StartDump
  <2>3. CASE CreateReturns
    BY <1>a, <1>b, <1>c, <2>3 DEF DoneInv, CreateReturns
  <2>4. CASE CreateFails
    BY <1>a, <1>b, <1>c, <2>4 DEF DoneInv, CreateFails, Fail, MayLinger
  <2>5. CASE StreamPartsReturns
    <3>1. ~Ready
      BY <2>5 DEF StreamPartsReturns, Ready
    <3>2. run' \in {"complete", "reconcile"} => Ready'
      BY <2>5 DEF StreamPartsReturns, Ready
    <3> QED BY <1>a, <1>c, <2>5, <3>1, <3>2 DEF DoneInv, StreamPartsReturns
  <2>6. CASE CompleteReturns
    BY <1>a, <1>b, <1>c, <2>6 DEF DoneInv, CompleteReturns, CallPutManifest, Fail
  <2>7. CASE CompleteFails
    BY <1>a, <1>b, <1>c, <2>7 DEF DoneInv, CompleteFails, MayLinger
  <2>8. CASE ReconcileFindsObject
    BY <1>a, <1>b, <1>c, <2>8 DEF DoneInv, ReconcileFindsObject, CallPutManifest, Fail
  <2>9. CASE ReconcileFindsNone
    BY <1>a, <1>b, <1>c, <2>9 DEF DoneInv, ReconcileFindsNone
  <2>10. CASE AbortOnce
    <3>1. run' \in {"abort", "failed"}
      BY <2>10 DEF AbortOnce, Fail
    <3> QED BY <1>a, <1>b, <1>c, <2>10, <3>1 DEF DoneInv, AbortOnce
  <2>11. CASE PutManifestReturns
    BY <1>a, <1>b, <1>c, <2>11 DEF DoneInv, PutManifestReturns, TypeOK, NoManifest
  <2>12. CASE PutManifestFails
    BY <1>a, <1>b, <1>c, <2>12 DEF DoneInv, PutManifestFails, Fail, MayLinger
  <2> QED
    BY <1>1, <2>1, <2>2, <2>3, <2>4, <2>5, <2>6, <2>7, <2>8, <2>9, <2>10, <2>11, <2>12
    DEF RunStep
<1>2. CASE ReadStep
  <2>1. rd \in {"acquire", "read"} /\ rd' \in {"acquire", "read", "wait"}
        /\ UNCHANGED <<run, pending, object, manifest, child>>
    BY <1>2 DEF ReadStep, AcquireSlot, StopAcquiring, ReadFullPart, ReadLastPart, ReadEOF,
      ReadError, TakePart, Dispatch, LeaveReadLoop
  <2>2. ~Ready
    BY <2>1 DEF Ready
  <2> QED BY <1>a, <1>c, <2>1, <2>2 DEF DoneInv
<1>3. CASE CloseReader
  BY <1>3, <1>d DEF CloseReader
<1>4. ASSUME NEW p \in Parts, PartStep(p) PROVE DoneInv'
  BY <1>4, <1>d DEF PartStep, PartUploaded, PartFails
<1>5. CASE FeedStep \/ PipeTransfer
  BY <1>5, <1>d DEF FeedStep, WriteFails, WaitReturns, CloseWriter, PipeTransfer
<1>6. CASE DumpStep \/ KillDump
  BY <1>6, <1>a, <1>b, <1>c
  DEF DoneInv, DumpStep, DumpWrites, DumpExits, KillDump
<1>7. CASE Cancel \/ Terminated
  BY <1>7, <1>d DEF Cancel, Terminated
<1>8. CASE Crash
  BY <1>8, <1>a, <1>b, <1>c DEF DoneInv, Crash, InFlight
<1>9. CASE S3Step
  <2>1. CASE CreateLands
    BY <2>1, <1>a, <1>b, <1>c DEF DoneInv, CreateLands
  <2>2. CASE CompleteLands
    BY <2>2, <1>a, <1>b, <1>c DEF DoneInv, CompleteLands
  <2>3. CASE PutLands
    BY <2>3, <1>a, <1>b, <1>c DEF DoneInv, PutLands
  <2> QED BY <1>9, <2>1, <2>2, <2>3 DEF S3Step
<1> QED
  BY <1>1, <1>2, <1>3, <1>4, <1>5, <1>6, <1>7, <1>8, <1>9 DEF Next

-----------------------------------------------------------------------------
(* Theorems.                                                               *)

\* The inductive invariant holds of every reachable state.
THEOREM Invariance == Spec => []IInv
<1>1. Init => IInv
  <2> SUFFICES ASSUME Init PROVE IInv
    OBVIOUS
  <2> USE UploadAssumption DEF UploadAssumption
  <2>1. TypeOK
    <3>1. NoObject \in [Parts -> Units] /\ NoData \in Units
      BY DEF NoObject, NoData, Units
    <3>2. /\ run \in Running /\ attempts \in 0..AbortAttempts /\ have \in 0..PartSize
          /\ partNum \in 0..(MaxUploadParts + 1) /\ sem \in 0..Concurrency
      BY DEF Init, Running
    <3>3. /\ buf \in [Buffers -> Units] /\ stored \in [Parts -> Units]
          /\ object \in [Parts -> Units]
          /\ worker \in [Parts -> {"none", "sending", "refused", "done", "failed"}]
          /\ wbuf \in [Parts -> Buffers \cup {NoBuffer}]
      BY <3>1 DEF Init
    <3> QED BY <3>2, <3>3 DEF Init, TypeOK
  <2>2. FeedInv /\ ReadInv
    BY DEF Init, FeedInv, ReadInv
  <2>3. Active = {} /\ LiveBuffers = {}
    BY DEF Init, Active, LiveBuffers
  <2>4. PartInv
    BY <2>3 DEF Init, PartInv, Exclusive, Chained, Parts
  <2>5. SlotInv
    BY <2>3, FS_EmptySet DEF Init, SlotInv
  <2>6. DoneInv
    BY DEF Init, DoneInv, Running
  <2> QED BY <2>1, <2>2, <2>4, <2>5, <2>6 DEF IInv
<1>2. IInv /\ [Next]_vars => IInv'
  <2>1. CASE Next
    BY <2>1, TypeStep, FeedStepInv, ReadStepInv, PartStepInv, SlotStepInv, DoneStepInv DEF IInv
  <2>2. CASE UNCHANGED vars
    BY <2>2 DEF IInv, TypeOK, FeedInv, ReadInv, PartInv, Exclusive, Chained, SlotInv, DoneInv,
      Ready, Data, Active, LiveBuffers, Assembled,
      vars, runVars, feedVars, readVars, partVars, s3Vars
  <2> QED BY <2>1, <2>2
<1> QED BY <1>1, <1>2, PTL DEF Spec

\* Type correctness of the run (Upload's variables).
THEOREM TypeCorrect == Spec => []TypeOK
<1>1. IInv => TypeOK
  BY DEF IInv
<1> QED BY <1>1, Invariance, PTL

\* For every part size, concurrency and dump: an object is the whole ciphertext
\* of a dump that exited with status 0.
THEOREM NoTruncatedObject == Spec => []ObjectIsTheWholeDump
<1>1. IInv => ObjectIsTheWholeDump
  <2> SUFFICES ASSUME IInv, object # NoObject
               PROVE  child = "ok" /\ \E n \in Parts : Contiguous(object, n, produced + 2)
    BY DEF ObjectIsTheWholeDump
  <2>1. Ready /\ object = Assembled
    BY DEF IInv, DoneInv
  <2> QED BY <2>1, ReadyIsWhole
<1> QED BY <1>1, Invariance, PTL

\* A manifest stands beside its object and states its size.
THEOREM ManifestIsTrue == Spec => []ManifestDescribesObject
<1>1. IInv => ManifestDescribesObject
  <2> SUFFICES ASSUME IInv, manifest # NoManifest
               PROVE  object # NoObject /\ \E n \in Parts : Contiguous(object, n, manifest)
    BY DEF ManifestDescribesObject
  <2>1. object # NoObject /\ Ready /\ object = Assembled /\ manifest = total
    BY DEF IInv, DoneInv
  <2> QED BY <2>1, ReadyIsWhole
<1> QED BY <1>1, Invariance, PTL

\* Success is reported only for a valid backup.
THEOREM SuccessIsTrue == Spec => []SuccessIsAValidBackup
<1>1. IInv => SuccessIsAValidBackup
  BY DEF IInv, DoneInv, SuccessIsAValidBackup
<1> QED BY <1>1, Invariance, PTL

\* The buffers of the part goroutines are as many as the goroutines.
LEMMA BufferPerGoroutine ==
  ASSUME IInv
  PROVE  /\ IsFiniteSet(Active)
         /\ IsFiniteSet({wbuf[p] : p \in Active})
         /\ Cardinality({wbuf[p] : p \in Active}) = Cardinality(Active)
<1>1. IsFiniteSet(Active)
  <2>1. IsFiniteSet(Parts)
    BY FS_Interval, UploadAssumption DEF Parts, UploadAssumption
  <2> QED BY <2>1, FS_Subset DEF Active
<1>2. ExistsBijection(Active, {wbuf[p] : p \in Active})
  <2> DEFINE f == [p \in Active |-> wbuf[p]]
  <2>1. f \in Bijection(Active, {wbuf[p] : p \in Active})
    BY DEF IInv, PartInv, Exclusive, Bijection, Injection, Surjection, IsInjective
  <2> QED BY <2>1 DEF ExistsBijection
<1> QED BY <1>1, <1>2, FS_Bijection

\* Slots, goroutines and live buffers agree, and at most Concurrency part
\* buffers are live.
THEOREM BoundedBuffers == Spec => []SlotPerBuffer
<1>1. IInv => SlotPerBuffer
  <2> SUFFICES ASSUME IInv PROVE SlotPerBuffer
    OBVIOUS
  <2> DEFINE W == {wbuf[p] : p \in Active}
  <2>1. sem = Cardinality(LiveBuffers) /\ sem <= Concurrency
    BY UploadAssumption DEF IInv, SlotInv, TypeOK, UploadAssumption
  <2>2. IsFiniteSet(W) /\ Cardinality(W) = Cardinality(Active) /\ rbuf \notin W
    BY BufferPerGoroutine DEF IInv, PartInv, Exclusive
  <2>3. LiveBuffers = IF rbuf = NoBuffer THEN W ELSE W \cup {rbuf}
    BY DEF LiveBuffers
  <2>4. Cardinality(W \cup {rbuf}) = Cardinality(W) + 1 /\ Cardinality(W) \in Nat
    BY <2>2, FS_AddElement, FS_CardinalityType
  <2> QED BY <2>1, <2>2, <2>3, <2>4 DEF SlotPerBuffer
<1> QED BY <1>1, Invariance, PTL

\* The run implements what Backup promises.
THEOREM Refinement == Spec => KeepsThePromise
<1>1. Init => Promise!Init
  BY DEF Init, Promise!Init, Running
<1>2. IInv /\ [Next]_vars => [Promise!Next]_Promise!backupVars
  <2> USE DEF runVars, feedVars, readVars, partVars, s3Vars, vars, Running
  <2> SUFFICES ASSUME IInv, [Next]_vars
               PROVE  [Promise!Next]_Promise!backupVars
    OBVIOUS
  <2>c. NoObject' = NoObject /\ NoManifest' = NoManifest
    BY DEF NoObject, Parts, NoData, NoManifest
  <2>d. ASSUME UNCHANGED <<object, manifest>>,
               run' = run \/ (run \in Running /\ run' \in Running \cup {"failed", "crashed"})
        PROVE  [Promise!Next]_Promise!backupVars
    BY <2>c, <2>d DEF Promise!Next, Promise!GiveUp, Promise!backupVars
  <2>1. CASE RunStep
    <3>1. CASE CompleteReturns
      <4>1. Assembled # NoObject
        BY <3>1, ReadyIsWhole DEF IInv, DoneInv, CompleteReturns
      <4>2. /\ object' = Assembled /\ manifest' = manifest
            /\ run = "complete" /\ run' \in {"manifest", "failed"}
        BY <3>1 DEF CompleteReturns, CallPutManifest, Fail
      <4> QED
        BY <4>1, <4>2, <2>c DEF Promise!Next, Promise!GiveUp, Promise!CompleteObject,
          Promise!backupVars
    <3>2. CASE PutManifestReturns
      <4>1. object # NoObject /\ manifest = NoManifest /\ total # NoManifest
        BY <3>2 DEF IInv, DoneInv, TypeOK, PutManifestReturns, NoManifest
      <4> QED
        BY <4>1, <3>2, <2>c DEF PutManifestReturns, Promise!Next, Promise!WriteManifest
    <3>3. CASE RunStep /\ ~CompleteReturns /\ ~PutManifestReturns
      BY <3>3, <2>d DEF RunStep, PrepareFails, StartDump, CreateReturns, CreateFails,
        StreamPartsReturns, CompleteFails, ReconcileFindsObject, CallPutManifest,
        ReconcileFindsNone, AbortOnce, PutManifestFails, Fail
    <3> QED BY <2>1, <3>1, <3>2, <3>3
  <2>2. CASE ReadStep \/ CloseReader
    BY <2>2, <2>d DEF ReadStep, AcquireSlot, StopAcquiring, ReadFullPart, ReadLastPart,
      ReadEOF, ReadError, CloseReader
  <2>3. ASSUME NEW p \in Parts, PartStep(p) PROVE [Promise!Next]_Promise!backupVars
    BY <2>3, <2>d DEF PartStep, PartUploaded, PartFails
  <2>4. CASE FeedStep \/ PipeTransfer
    BY <2>4, <2>d DEF FeedStep, WriteFails, WaitReturns, CloseWriter, PipeTransfer
  <2>5. CASE DumpStep \/ KillDump
    BY <2>5, <2>d DEF DumpStep, DumpWrites, DumpExits, KillDump
  <2>6. CASE Cancel \/ Crash \/ CreateLands \/ Terminated
    BY <2>6, <2>d DEF Cancel, Crash, CreateLands, Terminated
  <2>7. CASE CompleteLands
    <3>1. Assembled # NoObject /\ object \in {NoObject, Assembled}
      BY <2>7, ReadyIsWhole DEF IInv, DoneInv, CompleteLands
    <3> QED
      BY <2>7, <2>c, <3>1 DEF CompleteLands, Promise!Next, Promise!CompleteObject,
        Promise!backupVars
  <2>8. CASE PutLands
    <3>1. object # NoObject /\ total # NoManifest
      BY <2>8 DEF IInv, DoneInv, TypeOK, PutLands, NoManifest
    <3> QED
      BY <2>8, <2>c, <3>1 DEF PutLands, Promise!Next, Promise!WriteManifest, Promise!backupVars
  <2>9. CASE UNCHANGED vars
    BY <2>9, <2>d
  <2> QED
    BY <2>1, <2>2, <2>3, <2>4, <2>5, <2>6, <2>7, <2>8, <2>9 DEF Next, S3Step
<1> QED
  BY <1>1, <1>2, Invariance, PTL DEF Spec, Promise!Spec, KeepsThePromise

-----------------------------------------------------------------------------
(* The abort.  Relative to IInv.                                           *)

\* A completed upload is gone for good, and a CreateMultipartUpload that is still
\* on its way belongs to a run that never learnt its id.
AbortInv ==
  /\ object # NoObject => mpu = "gone"
  /\ "create" \in pending => rd = "off" /\ run \in {"failed", "crashed"}
  /\ AbortIsVerified

\* Every way to fail either has an upload that is gone, or has used up its attempts,
\* or never had an id (uploader.abort).
LEMMA AbortStep ==
  ASSUME IInv, AbortInv, Next
  PROVE  AbortInv'
<1> USE DEF runVars, feedVars, readVars, partVars, s3Vars, vars, AbortIsVerified
<1>a. AbortInv BY DEF AbortInv
<1>b. /\ run \in {"prepare", "create"} => rd = "off"
      /\ object # NoObject => rd = "done"
      /\ run = "manifest" => object # NoObject
  BY DEF IInv, DoneInv, Ready
<1>c. NoObject' = NoObject
  BY DEF NoObject, Parts, NoData
<1>d. ASSUME UNCHANGED <<object, mpu, pending, rd, run, attempts>> PROVE AbortInv'
  BY <1>a, <1>c, <1>d DEF AbortInv
<1>1. CASE RunStep
  <2>1. ASSUME NEW k \in {"connect", "dump", "upload", "unknown"}, PrepareFails(k)
        PROVE  AbortInv'
    BY <1>a, <1>b, <1>c, <2>1 DEF AbortInv, PrepareFails, Fail
  <2>2. CASE StartDump
    BY <1>a, <1>b, <1>c, <2>2 DEF AbortInv, StartDump
  <2>3. CASE CreateReturns
    BY <1>a, <1>b, <1>c, <2>3 DEF AbortInv, CreateReturns
  <2>4. CASE CreateFails
    BY <1>a, <1>b, <1>c, <2>4 DEF AbortInv, CreateFails, Fail, MayLinger
  <2>5. CASE StreamPartsReturns
    BY <1>a, <1>b, <1>c, <2>5 DEF AbortInv, StreamPartsReturns
  <2>6. CASE CompleteReturns
    BY <1>a, <1>b, <1>c, <2>6 DEF AbortInv, CompleteReturns, CallPutManifest, Fail
  <2>7. CASE CompleteFails
    BY <1>a, <1>b, <1>c, <2>7 DEF AbortInv, CompleteFails, MayLinger
  <2>8. CASE ReconcileFindsObject
    BY <1>a, <1>b, <1>c, <2>8 DEF AbortInv, ReconcileFindsObject, CallPutManifest, Fail
  <2>9. CASE ReconcileFindsNone
    BY <1>a, <1>b, <1>c, <2>9 DEF AbortInv, ReconcileFindsNone
  <2>10. CASE AbortOnce
    <3>1. /\ run = "abort" /\ UNCHANGED <<object, pending, rd>>
          /\ mpu' \in {mpu, "gone"}
      BY <2>10 DEF AbortOnce
    <3>2. run' = "failed" /\ mpu' = "open" => attempts' = AbortAttempts
      BY <2>10 DEF AbortOnce, Fail
    <3> QED BY <1>a, <1>c, <3>1, <3>2 DEF AbortInv
  <2>11. CASE PutManifestReturns
    BY <1>a, <1>b, <1>c, <2>11 DEF AbortInv, PutManifestReturns
  <2>12. CASE PutManifestFails
    BY <1>a, <1>b, <1>c, <2>12 DEF AbortInv, PutManifestFails, Fail, MayLinger
  <2> QED
    BY <1>1, <2>1, <2>2, <2>3, <2>4, <2>5, <2>6, <2>7, <2>8, <2>9, <2>10, <2>11, <2>12
    DEF RunStep
<1>2. CASE ReadStep
  <2>1. rd \in {"acquire", "read"} /\ UNCHANGED <<object, mpu, pending, run, attempts>>
    BY <1>2 DEF ReadStep, AcquireSlot, StopAcquiring, ReadFullPart, ReadLastPart, ReadEOF, ReadError
  <2>2. rd' # "off"
    BY <1>2 DEF ReadStep, AcquireSlot, StopAcquiring, ReadFullPart, ReadLastPart, ReadEOF,
      ReadError, TakePart, Dispatch, LeaveReadLoop
  <2> QED BY <1>a, <1>c, <2>1, <2>2 DEF AbortInv
<1>3. CASE CloseReader
  BY <1>3, <1>d DEF CloseReader
<1>4. ASSUME NEW p \in Parts, PartStep(p) PROVE AbortInv'
  BY <1>4, <1>d DEF PartStep, PartUploaded, PartFails
<1>5. CASE FeedStep \/ PipeTransfer
  BY <1>5, <1>d DEF FeedStep, WriteFails, WaitReturns, CloseWriter, PipeTransfer
<1>6. CASE DumpStep \/ KillDump
  BY <1>6, <1>d DEF DumpStep, DumpWrites, DumpExits, KillDump
<1>7. CASE Cancel \/ Terminated
  BY <1>7, <1>d DEF Cancel, Terminated
<1>8. CASE Crash
  BY <1>8, <1>a, <1>b, <1>c DEF AbortInv, Crash, InFlight
<1>9. CASE S3Step
  BY <1>9, <1>a, <1>b, <1>c DEF AbortInv, S3Step, CreateLands, CompleteLands, PutLands
<1> QED
  BY <1>1, <1>2, <1>3, <1>4, <1>5, <1>6, <1>7, <1>8, <1>9 DEF Next

\* A failed run leaves its multipart upload open only after AbortAttempts attempts, or
\* if CreateMultipartUpload never told its id, whatever calls arrive late.
THEOREM AbortsAreVerified == Spec => []AbortIsVerified
<1>1. Init => AbortInv
  BY DEF Init, AbortInv, AbortIsVerified
<1>2. IInv /\ AbortInv /\ [Next]_vars => AbortInv'
  <2>1. ASSUME AbortInv, UNCHANGED vars PROVE AbortInv'
    BY <2>1 DEF AbortInv, AbortIsVerified, vars, runVars, readVars, s3Vars, NoObject, Parts, NoData
  <2> QED BY <2>1, AbortStep
<1>3. AbortInv => AbortIsVerified
  BY DEF AbortInv
<1> QED BY <1>1, <1>2, <1>3, Invariance, PTL DEF Spec

-----------------------------------------------------------------------------
(* The blame.  Relative to IInv.                                           *)

\* Who broke the stream: the reading end is closed, the dump killed and the pipe closed
\* with an error only because of a failed part, a cancellation or a dump that failed
\* by itself, and what the read loop and Run make of it goes back to one of these.
BlameInv ==
  /\ werr \in {"none", "upload"} /\ readErr \in {"none", "upload", "dump", "unknown"}
  /\ rd \in {"acquire", "read", "wait"} => run \in {"stream", "crashed"}
  /\ child = "killed" => canceled \/ run \in Returned
  /\ rclosed => canceled \/ werr # "none" \/ rd = "done" \/ run \in Returned
  /\ feedPc = "copyErr" => rclosed
  /\ wclose = "err" => rclosed \/ child = "failed" \/ canceled \/ run \in Returned
  /\ readErr = "dump" => child = "failed" \/ canceled
  /\ readErr = "unknown" => canceled \/ werr # "none"
  /\ run = "abort" =>
       /\ rd = "done"
       /\ kind \in {"dump", "upload"} \/ (kind = "unknown" /\ canceled)
       /\ kind = "dump" => werr = "none" /\ (child = "failed" \/ canceled)
  /\ BlameIsRight

\* A failure is blamed on what came first, though it breaks everything else (werr before
\* readErr, the deferred classification of Run).
LEMMA BlameStep ==
  ASSUME IInv, BlameInv, Next
  PROVE  BlameInv'
<1> USE DEF runVars, feedVars, readVars, partVars, s3Vars, vars, BlameIsRight, Returned
<1>a. BlameInv /\ TypeOK BY DEF BlameInv, IInv
<1>b. /\ run = "prepare" => child = "none"
      /\ run \in {"prepare", "create"} => rd = "off"
      /\ run \in {"complete", "reconcile", "manifest", "ok"} => rd = "done"
      /\ rd \in {"off", "done"} => Active = {}
  BY DEF IInv, DoneInv, Ready, PartInv
<1>c. ASSUME UNCHANGED <<run, kind, canceled, child, feedPc, wclose, rclosed, rd, readErr, werr>>
      PROVE  BlameInv'
  BY <1>a, <1>c DEF BlameInv
<1>1. CASE RunStep
  <2>1. ASSUME NEW k \in {"connect", "dump", "upload", "unknown"}, PrepareFails(k)
        PROVE  BlameInv'
    BY <1>a, <1>b, <2>1 DEF BlameInv, PrepareFails, Fail
  <2>2. CASE StartDump
    BY <1>a, <1>b, <2>2 DEF BlameInv, StartDump
  <2>3. CASE CreateReturns
    BY <1>a, <1>b, <2>3 DEF BlameInv, CreateReturns
  <2>4. CASE CreateFails
    BY <1>a, <1>b, <2>4 DEF BlameInv, CreateFails, Fail, Classified
  <2>5. CASE StreamPartsReturns
    BY <1>a, <1>b, <2>5 DEF BlameInv, StreamPartsReturns
  <2>6. CASE CompleteReturns
    BY <1>a, <1>b, <2>6 DEF BlameInv, CompleteReturns, CallPutManifest, Fail, Classified
  <2>7. CASE CompleteFails
    BY <1>a, <1>b, <2>7 DEF BlameInv, CompleteFails
  <2>8. CASE ReconcileFindsObject
    BY <1>a, <1>b, <2>8 DEF BlameInv, ReconcileFindsObject, CallPutManifest, Fail, Classified
  <2>9. CASE ReconcileFindsNone
    BY <1>a, <1>b, <2>9 DEF BlameInv, ReconcileFindsNone
  <2>10. CASE AbortOnce
    <3>1. /\ run = "abort"
          /\ UNCHANGED <<canceled, child, feedPc, wclose, rd, readErr, werr>>
      BY <2>10 DEF AbortOnce
    <3>2. \/ UNCHANGED <<run, kind, rclosed>>
          \/ run' = "failed" /\ kind' = (IF canceled THEN "canceled" ELSE kind) /\ rclosed' = TRUE
      BY <2>10 DEF AbortOnce, Fail, Classified
    <3> QED BY <1>a, <3>1, <3>2 DEF BlameInv
  <2>11. CASE PutManifestReturns
    BY <1>a, <1>b, <2>11 DEF BlameInv, PutManifestReturns
  <2>12. CASE PutManifestFails
    BY <1>a, <1>b, <2>12 DEF BlameInv, PutManifestFails, Fail, Classified
  <2> QED
    BY <1>1, <2>1, <2>2, <2>3, <2>4, <2>5, <2>6, <2>7, <2>8, <2>9, <2>10, <2>11, <2>12
    DEF RunStep
<1>2. CASE ReadStep
  <2>1. UNCHANGED <<run, kind, canceled, child, feedPc, wclose, rclosed, werr>>
    BY <1>2 DEF ReadStep, AcquireSlot, StopAcquiring, ReadFullPart, ReadLastPart, ReadEOF, ReadError
  <2>2. Alive /\ rd \in {"acquire", "read"} /\ rd' \in {"acquire", "read", "wait"}
    BY <1>2 DEF ReadStep, AcquireSlot, StopAcquiring, ReadFullPart, ReadLastPart, ReadEOF,
      ReadError, TakePart, Dispatch, LeaveReadLoop
  <2>3. readErr' \in {readErr, "none", "upload"}
        \/ (readErr' = "unknown" /\ (GctxDone \/ rclosed))
        \/ (readErr' = "dump" /\ wclose = "err" /\ ~rclosed)
    BY <1>2 DEF ReadStep, AcquireSlot, StopAcquiring, ReadFullPart, ReadLastPart, ReadEOF,
      ReadError, TakePart, Dispatch, LeaveReadLoop
  <2>4. run = "stream"
    BY <1>a, <2>2 DEF BlameInv, Alive
  <2>5. GctxDone \/ rclosed => canceled \/ werr # "none"
    BY <1>a, <2>2, <2>4 DEF BlameInv, GctxDone, CtxDone
  <2> QED BY <1>a, <2>1, <2>2, <2>3, <2>4, <2>5 DEF BlameInv
<1>3. CASE CloseReader
  BY <1>3, <1>a DEF BlameInv, CloseReader, GctxDone, CtxDone
<1>4. ASSUME NEW p \in Parts, PartStep(p) PROVE BlameInv'
  <2>1. /\ UNCHANGED <<run, kind, canceled, child, feedPc, wclose, rclosed, rd, readErr>>
        /\ werr' \in {werr, "upload"} /\ (werr # "none" => werr' = werr)
        /\ Alive /\ p \in Active
    BY <1>4 DEF PartStep, PartUploaded, PartFails, Active
  <2>2. rd \in {"acquire", "read", "wait"} /\ run = "stream"
    BY <1>a, <1>b, <2>1 DEF TypeOK, BlameInv, Alive
  <2> QED BY <1>a, <2>1, <2>2 DEF BlameInv
<1>5. CASE FeedStep
  BY <1>5, <1>a DEF BlameInv, FeedStep, WriteFails, WaitReturns, CloseWriter
<1>6. CASE PipeTransfer
  BY <1>6, <1>a DEF BlameInv, PipeTransfer, Writing
<1>7. CASE DumpStep \/ KillDump
  BY <1>7, <1>a DEF BlameInv, DumpStep, DumpWrites, DumpExits, KillDump, CtxDone
<1>8. CASE Cancel \/ Crash
  BY <1>8, <1>a DEF BlameInv, Cancel, Crash, Running
<1>9. CASE S3Step \/ Terminated
  BY <1>9, <1>c DEF S3Step, CreateLands, CompleteLands, PutLands, Terminated
<1> QED
  BY <1>1, <1>2, <1>3, <1>4, <1>5, <1>6, <1>7, <1>8, <1>9 DEF Next

\* Whatever order a failed part, a cancellation and the end of the dump come in, Run
\* blames the dump only if it failed by itself, and never gives up without a kind.
THEOREM BlameIsAlwaysRight == Spec => []BlameIsRight
<1>1. Init => BlameInv
  BY DEF Init, BlameInv, BlameIsRight, Returned
<1>2. IInv /\ BlameInv /\ [Next]_vars => BlameInv'
  <2>1. ASSUME BlameInv, UNCHANGED vars PROVE BlameInv'
    BY <2>1 DEF BlameInv, BlameIsRight, vars, runVars, feedVars, readVars, partVars, Returned
  <2> QED BY <2>1, BlameStep
<1>3. BlameInv => BlameIsRight
  BY DEF BlameInv
<1> QED BY <1>1, <1>2, <1>3, Invariance, PTL DEF Spec

-----------------------------------------------------------------------------
(* The part limit.  Relative to IInv.                                      *)

\* While the loop goes on, every part that it has dispatched is full.
LimitInv ==
  /\ rd \in {"off", "acquire", "read"} => total = partNum * PartSize
  /\ LimitIsExact

\* The limit refuses a part only when all the parts before it are full.
LEMMA LimitStep ==
  ASSUME IInv, LimitInv, Next
  PROVE  LimitInv'
<1> USE DEF runVars, feedVars, readVars, partVars, s3Vars, vars, LimitIsExact
<1>a. LimitInv /\ TypeOK /\ ReadInv /\ UploadAssumption
  BY UploadAssumption DEF LimitInv, IInv
<1>b. PartSize \in Nat /\ MaxUploadParts \in Nat /\ sent \in Nat /\ total \in Nat /\ partNum \in Nat
      /\ have \in Nat
  BY <1>a DEF TypeOK, UploadAssumption
<1>c. ASSUME UNCHANGED <<rd, total, partNum, readErr>>, sent' \in Nat, sent' >= sent PROVE LimitInv'
  <2>1. MaxUploadParts * PartSize \in Nat
    BY <1>b
  <2> QED BY <1>a, <1>b, <1>c, <2>1 DEF LimitInv
<1>1. CASE CreateReturns
  BY <1>1, <1>a, <1>b DEF LimitInv, CreateReturns, IInv, DoneInv, ReadInv
<1>2. CASE StreamPartsReturns
  BY <1>2, <1>a DEF LimitInv, StreamPartsReturns
<1>3. CASE RunStep /\ ~CreateReturns /\ ~StreamPartsReturns
  BY <1>3, <1>b, <1>c DEF RunStep, PrepareFails, StartDump, CreateFails, CompleteReturns,
    CompleteFails, ReconcileFindsObject, ReconcileFindsNone, AbortOnce,
    PutManifestReturns, PutManifestFails
<1>4. CASE AcquireSlot
  BY <1>4, <1>a DEF LimitInv, AcquireSlot
<1>5. CASE StopAcquiring \/ ReadEOF \/ ReadError
  BY <1>5, <1>a DEF LimitInv, StopAcquiring, ReadEOF, ReadError, LeaveReadLoop
<1>6. CASE ReadFullPart
  <2>1. total + PartSize = (partNum + 1) * PartSize /\ sent = total + PartSize
    BY <1>6, <1>a, <1>b DEF ReadFullPart, LimitInv, ReadInv
  <2>2. CASE partNum + 1 > MaxUploadParts
    <3>1. partNum = MaxUploadParts
      BY <1>6, <2>2, <1>a, <1>b DEF ReadFullPart, ReadInv
    <3>2. sent > MaxUploadParts * PartSize
      BY <1>6, <3>1, <2>1, <1>a, <1>b DEF ReadFullPart, LimitInv, UploadAssumption
    <3>3. readErr' = "upload" /\ rd' = "wait" /\ sent' = sent
      BY <1>6, <2>2 DEF ReadFullPart, TakePart, LeaveReadLoop
    <3> QED BY <3>2, <3>3 DEF LimitInv
  <2>3. CASE ~(partNum + 1 > MaxUploadParts)
    <3>1. rd' = "acquire" /\ readErr' = readErr /\ partNum' = partNum + 1 /\ total' = total + PartSize
          /\ sent' = sent
      BY <1>6, <2>3 DEF ReadFullPart, TakePart, Dispatch
    <3> QED BY <1>a, <2>1, <3>1 DEF LimitInv
  <2> QED BY <2>2, <2>3
<1>7. CASE ReadLastPart
  <2>1. rd' = "wait" /\ sent' = sent
    BY <1>7 DEF ReadLastPart, TakePart, Dispatch, LeaveReadLoop
  <2>2. readErr' = "upload" => sent > MaxUploadParts * PartSize
    <3>1. CASE partNum + 1 > MaxUploadParts
      <4>1. partNum = MaxUploadParts
        BY <1>7, <3>1, <1>a, <1>b DEF ReadLastPart, ReadInv
      <4>2. sent = partNum * PartSize + have /\ have > 0
        BY <1>7, <1>a, <1>b DEF ReadLastPart, ReadInv, LimitInv
      <4> QED BY <4>1, <4>2, <1>b
    <3>2. CASE ~(partNum + 1 > MaxUploadParts)
      BY <1>7, <3>2, <1>a DEF ReadLastPart, TakePart, Dispatch, ReadInv
    <3> QED BY <3>1, <3>2
  <2> QED BY <2>1, <2>2 DEF LimitInv
<1>8. CASE PipeTransfer
  BY <1>8, <1>b, <1>c DEF PipeTransfer
<1>9. ASSUME NEW p \in Parts, PartStep(p) PROVE LimitInv'
  BY <1>9, <1>b, <1>c DEF PartStep, PartUploaded, PartFails
<1>10. CASE CloseReader \/ FeedStep
  BY <1>10, <1>b, <1>c DEF CloseReader, FeedStep, WriteFails, WaitReturns, CloseWriter
<1>11. CASE DumpStep \/ KillDump
  BY <1>11, <1>b, <1>c DEF DumpStep, DumpWrites, DumpExits, KillDump
<1>12. CASE Cancel \/ Crash \/ S3Step \/ Terminated
  BY <1>12, <1>b, <1>c DEF Cancel, Crash, S3Step, CreateLands, CompleteLands, PutLands, Terminated
<1> QED
  BY <1>1, <1>2, <1>3, <1>4, <1>5, <1>6, <1>7, <1>8, <1>9, <1>10, <1>11, <1>12
  DEF Next, ReadStep

\* For every part size and limit, a stream is refused only if it is longer than what
\* the limit allows.
THEOREM LimitIsNotOffByOne == Spec => []LimitIsExact
<1>1. Init => LimitInv
  BY UploadAssumption DEF Init, LimitInv, LimitIsExact, UploadAssumption
<1>2. IInv /\ LimitInv /\ [Next]_vars => LimitInv'
  <2>1. ASSUME LimitInv, UNCHANGED vars PROVE LimitInv'
    BY <2>1 DEF LimitInv, LimitIsExact, vars, readVars
  <2> QED BY <2>1, LimitStep
<1>3. LimitInv => LimitIsExact
  BY DEF LimitInv
<1> QED BY <1>1, <1>2, <1>3, Invariance, PTL DEF Spec
=============================================================================
