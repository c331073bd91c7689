---------------------------- MODULE ReportProofs ----------------------------
(***************************************************************************)
(* What the run command reports is true, for every size of a backup and    *)
(* every way of writing it out.                                            *)
(***************************************************************************)
EXTENDS Report, TLAPS

Ending == {"stop", "wait"} \cup Returned

\* The run: where its phase stands, what is then in the bucket, and which errors it
\* can have there.
RunInv ==
  /\ run \in {"connecting", "started"} => phase = Connecting
  /\ run \in {"uploading", "uploaded"} => phase = Streaming
  /\ run \in {"manifest", "valid"} => phase = Finalizing
  /\ run \in Ending => (err = "none" <=> phase = Done)
  /\ run \notin Ending => err = "none"
  /\ phase >= Finalizing \/ run = "uploaded" => dumped = DumpSize /\ uploaded = CipherSize
  /\ run \in {"uploaded", "manifest", "valid"} \/ phase = Done => cipher
  /\ run = "valid" \/ phase = Done => manifest
  /\ phase = Connecting => ~cipher
  /\ phase \in {Connecting, Streaming} => ~manifest
  /\ err \in {"connect", "unknown"} => phase = Connecting
  /\ err = "dump" => ~manifest
  /\ err = "canceled" => run \in Returned /\ interrupted
  /\ run \in Returned /\ err # "none" /\ interrupted => err = "canceled"

\* The goroutine: a sample is between the one before it and the present, and one that
\* says finalizing has loaded whole counters.
SampleInv ==
  /\ shown.phase <= sample.phase /\ sample.phase <= phase
  /\ shown.dumped <= sample.dumped /\ sample.dumped <= dumped
  /\ shown.uploaded <= sample.uploaded /\ sample.uploaded <= uploaded
  /\ shown.phase >= Finalizing => shown.dumped = DumpSize /\ shown.uploaded = CipherSize
  /\ sample.phase >= Finalizing /\ sampler \notin {"dumped"} => sample.dumped = DumpSize
  /\ sample.phase >= Finalizing /\ sampler \notin {"dumped", "uploaded"} => sample.uploaded = CipherSize
  /\ final => run \in {"wait"} \cup Returned
  /\ final /\ sampler \in {"dumped", "uploaded", "call"} => sample.phase = phase
  /\ sampler = "gone" => final /\ shown.phase = phase
  /\ run \in Returned => sampler = "gone"

\* The command: its line is clean once the progress is finished, and its exit code is
\* the one of its error.
ResultInv ==
  /\ run \in {"finished", "exited"} => terminal = "clean"
  /\ exit # NoExit => run = "exited" /\ exit = IF err = "none" THEN 0 ELSE ExitCode(err)

IInv == TypeOK /\ RunInv /\ SampleInv /\ ResultInv

\* The phases, as the numbers they are.
LEMMA Phases == Connecting = 0 /\ Streaming = 1 /\ Finalizing = 2 /\ Done = 3 /\ NoExit = -1
BY DEF Connecting, Streaming, Finalizing, Done, NoExit

\* Every step keeps the types.
LEMMA TypeStep ==
  ASSUME IInv, [Next]_vars
  PROVE  TypeOK'
<1> USE ReportAssumption, Phases DEF ReportAssumption, IInv, TypeOK, Samples, Kinds, Returned
<1>1. CASE StartFeed
  BY <1>1 DEF StartFeed, mainVars, countVars, bucketVars, tickVars, uiVars
<1>2. CASE StoreStreaming
  BY <1>2 DEF StoreStreaming, StorePhase, mainVars, countVars, bucketVars, tickVars, uiVars
<1>3. CASE UploadReturns
  BY <1>3 DEF UploadReturns, mainVars, countVars, bucketVars, tickVars, uiVars
<1>4. CASE StoreFinalizing
  BY <1>4 DEF StoreFinalizing, StorePhase, mainVars, countVars, bucketVars, tickVars, uiVars
<1>5. CASE PutManifest
  <2>1. manifest' \in BOOLEAN
    BY <1>5, Zenon DEF PutManifest
  <2>2. err' \in Kinds /\ run' \in {"valid", "stop"}
    BY <1>5 DEF PutManifest, Returns
  <2> QED BY <1>5, <2>1, <2>2 DEF PutManifest, mainVars, countVars, bucketVars, tickVars, uiVars
<1>6. CASE StoreDone
  BY <1>6 DEF StoreDone, StorePhase, mainVars, countVars, bucketVars, tickVars, uiVars
<1>7. CASE CloseStop
  BY <1>7 DEF CloseStop, mainVars, countVars, bucketVars, tickVars, uiVars
<1>8. CASE Return
  BY <1>8 DEF Return, mainVars, countVars, bucketVars, tickVars, uiVars
<1>9. CASE Finish
  BY <1>9 DEF Finish, mainVars, countVars, bucketVars, tickVars, uiVars
<1>10. CASE Result
  BY <1>10 DEF Result, ExitCode, mainVars, countVars, bucketVars, tickVars, uiVars
<1>11. CASE SetupFails
  BY <1>11 DEF SetupFails, Returns, mainVars, countVars, bucketVars, tickVars, uiVars
<1>12. CASE UploadFails
  BY <1>12 DEF UploadFails, Returns, mainVars, countVars, bucketVars, tickVars, uiVars
<1>13. CASE Warn
  BY <1>13 DEF Warn, mainVars, countVars, bucketVars, tickVars, uiVars
<1>14. CASE Dump
  BY <1>14 DEF Dump, mainVars, countVars, bucketVars, tickVars, uiVars
<1>15. CASE Upload
  BY <1>15 DEF Upload, mainVars, countVars, bucketVars, tickVars, uiVars
<1>16. CASE Interrupt
  BY <1>16 DEF Interrupt, mainVars, countVars, bucketVars, tickVars, uiVars
<1>17. CASE Tick
  <2>1. final' \in BOOLEAN
    BY <1>17, Zenon DEF Tick
  <2> QED BY <1>17, <2>1 DEF Tick, mainVars, countVars, bucketVars, tickVars, uiVars
<1>18. CASE Snapshot
  BY <1>18 DEF Snapshot, Load, mainVars, countVars, bucketVars, tickVars, uiVars
<1>19. CASE ReportSample
  BY <1>19 DEF ReportSample, Enabled, mainVars, countVars, bucketVars, tickVars, uiVars
<1>20. CASE UNCHANGED vars
  BY <1>20 DEF vars, mainVars, countVars, bucketVars, tickVars, uiVars
<1> QED BY <1>1, <1>2, <1>3, <1>4, <1>5, <1>6, <1>7, <1>8, <1>9, <1>10, <1>11, <1>12, <1>13, <1>14, <1>15, <1>16, <1>17, <1>18, <1>19, <1>20 DEF Next, Main, Terminated

\* Every step keeps what the phase says of the run.
LEMMA RunStep ==
  ASSUME IInv, [Next]_vars
  PROVE  RunInv'
<1> USE ReportAssumption, Phases DEF ReportAssumption, IInv, TypeOK, RunInv, Ending, Returned, Kinds
<1>1. CASE StartFeed
  BY <1>1 DEF StartFeed, mainVars, countVars, bucketVars, tickVars, uiVars
<1>2. CASE StoreStreaming
  BY <1>2 DEF StoreStreaming, StorePhase, mainVars, countVars, bucketVars, tickVars, uiVars
<1>3. CASE UploadReturns
  BY <1>3 DEF UploadReturns, mainVars, countVars, bucketVars, tickVars, uiVars
<1>4. CASE StoreFinalizing
  BY <1>4 DEF StoreFinalizing, StorePhase, mainVars, countVars, bucketVars, tickVars, uiVars
<1>5. CASE PutManifest
  BY <1>5 DEF PutManifest, Returns, mainVars, countVars, bucketVars, tickVars, uiVars
<1>6. CASE StoreDone
  BY <1>6 DEF StoreDone, StorePhase, mainVars, countVars, bucketVars, tickVars, uiVars
<1>7. CASE CloseStop
  BY <1>7 DEF CloseStop, mainVars, countVars, bucketVars, tickVars, uiVars
<1>8. CASE Return
  BY <1>8 DEF Return, mainVars, countVars, bucketVars, tickVars, uiVars
<1>9. CASE Finish
  BY <1>9 DEF Finish, mainVars, countVars, bucketVars, tickVars, uiVars
<1>10. CASE Result
  BY <1>10 DEF Result, ExitCode, mainVars, countVars, bucketVars, tickVars, uiVars
<1>11. CASE SetupFails
  BY <1>11 DEF SetupFails, Returns, mainVars, countVars, bucketVars, tickVars, uiVars
<1>12. CASE UploadFails
  BY <1>12 DEF UploadFails, Returns, mainVars, countVars, bucketVars, tickVars, uiVars
<1>13. CASE Warn
  BY <1>13 DEF Warn, mainVars, countVars, bucketVars, tickVars, uiVars
<1>14. CASE Dump
  BY <1>14 DEF Dump, mainVars, countVars, bucketVars, tickVars, uiVars
<1>15. CASE Upload
  BY <1>15 DEF Upload, mainVars, countVars, bucketVars, tickVars, uiVars
<1>16. CASE Interrupt
  BY <1>16 DEF Interrupt, mainVars, countVars, bucketVars, tickVars, uiVars
<1>17. CASE Tick
  BY <1>17 DEF Tick, mainVars, countVars, bucketVars, tickVars, uiVars
<1>18. CASE Snapshot
  BY <1>18 DEF Snapshot, Load, mainVars, countVars, bucketVars, tickVars, uiVars
<1>19. CASE ReportSample
  BY <1>19 DEF ReportSample, Enabled, mainVars, countVars, bucketVars, tickVars, uiVars
<1>20. CASE UNCHANGED vars
  BY <1>20 DEF vars, mainVars, countVars, bucketVars, tickVars, uiVars
<1> QED BY <1>1, <1>2, <1>3, <1>4, <1>5, <1>6, <1>7, <1>8, <1>9, <1>10, <1>11, <1>12, <1>13, <1>14, <1>15, <1>16, <1>17, <1>18, <1>19, <1>20 DEF Next, Main, Terminated

\* Every step keeps samples between the last one and the present.
LEMMA SampleStep ==
  ASSUME IInv, [Next]_vars
  PROVE  SampleInv'
<1> USE ReportAssumption, Phases DEF ReportAssumption, IInv, TypeOK, RunInv, SampleInv, Ending, Returned, Samples
<1>1. CASE StartFeed
  BY <1>1 DEF StartFeed, mainVars, countVars, bucketVars, tickVars, uiVars
<1>2. CASE StoreStreaming
  BY <1>2 DEF StoreStreaming, StorePhase, mainVars, countVars, bucketVars, tickVars, uiVars
<1>3. CASE UploadReturns
  BY <1>3 DEF UploadReturns, mainVars, countVars, bucketVars, tickVars, uiVars
<1>4. CASE StoreFinalizing
  BY <1>4 DEF StoreFinalizing, StorePhase, mainVars, countVars, bucketVars, tickVars, uiVars
<1>5. CASE PutManifest
  BY <1>5 DEF PutManifest, Returns, mainVars, countVars, bucketVars, tickVars, uiVars
<1>6. CASE StoreDone
  BY <1>6 DEF StoreDone, StorePhase, mainVars, countVars, bucketVars, tickVars, uiVars
<1>7. CASE CloseStop
  BY <1>7 DEF CloseStop, mainVars, countVars, bucketVars, tickVars, uiVars
<1>8. CASE Return
  BY <1>8 DEF Return, mainVars, countVars, bucketVars, tickVars, uiVars
<1>9. CASE Finish
  BY <1>9 DEF Finish, mainVars, countVars, bucketVars, tickVars, uiVars
<1>10. CASE Result
  BY <1>10 DEF Result, ExitCode, mainVars, countVars, bucketVars, tickVars, uiVars
<1>11. CASE SetupFails
  BY <1>11 DEF SetupFails, Returns, mainVars, countVars, bucketVars, tickVars, uiVars
<1>12. CASE UploadFails
  BY <1>12 DEF UploadFails, Returns, mainVars, countVars, bucketVars, tickVars, uiVars
<1>13. CASE Warn
  BY <1>13 DEF Warn, mainVars, countVars, bucketVars, tickVars, uiVars
<1>14. CASE Dump
  BY <1>14 DEF Dump, mainVars, countVars, bucketVars, tickVars, uiVars
<1>15. CASE Upload
  BY <1>15 DEF Upload, mainVars, countVars, bucketVars, tickVars, uiVars
<1>16. CASE Interrupt
  BY <1>16 DEF Interrupt, mainVars, countVars, bucketVars, tickVars, uiVars
<1>17. CASE Tick
  BY <1>17 DEF Tick, mainVars, countVars, bucketVars, tickVars, uiVars
<1>18. CASE Snapshot
  BY <1>18 DEF Snapshot, Load, mainVars, countVars, bucketVars, tickVars, uiVars
<1>19. CASE ReportSample
  BY <1>19 DEF ReportSample, Enabled, mainVars, countVars, bucketVars, tickVars, uiVars
<1>20. CASE UNCHANGED vars
  BY <1>20 DEF vars, mainVars, countVars, bucketVars, tickVars, uiVars
<1> QED BY <1>1, <1>2, <1>3, <1>4, <1>5, <1>6, <1>7, <1>8, <1>9, <1>10, <1>11, <1>12, <1>13, <1>14, <1>15, <1>16, <1>17, <1>18, <1>19, <1>20 DEF Next, Main, Terminated

\* Every step keeps what the command says of its result.
LEMMA ResultStep ==
  ASSUME IInv, [Next]_vars
  PROVE  ResultInv'
<1> USE ReportAssumption, Phases DEF ReportAssumption, IInv, TypeOK, SampleInv, ResultInv, Returned
<1>1. CASE StartFeed
  BY <1>1 DEF StartFeed, mainVars, countVars, bucketVars, tickVars, uiVars
<1>2. CASE StoreStreaming
  BY <1>2 DEF StoreStreaming, StorePhase, mainVars, countVars, bucketVars, tickVars, uiVars
<1>3. CASE UploadReturns
  BY <1>3 DEF UploadReturns, mainVars, countVars, bucketVars, tickVars, uiVars
<1>4. CASE StoreFinalizing
  BY <1>4 DEF StoreFinalizing, StorePhase, mainVars, countVars, bucketVars, tickVars, uiVars
<1>5. CASE PutManifest
  BY <1>5 DEF PutManifest, Returns, mainVars, countVars, bucketVars, tickVars, uiVars
<1>6. CASE StoreDone
  BY <1>6 DEF StoreDone, StorePhase, mainVars, countVars, bucketVars, tickVars, uiVars
<1>7. CASE CloseStop
  BY <1>7 DEF CloseStop, mainVars, countVars, bucketVars, tickVars, uiVars
<1>8. CASE Return
  BY <1>8 DEF Return, mainVars, countVars, bucketVars, tickVars, uiVars
<1>9. CASE Finish
  BY <1>9 DEF Finish, mainVars, countVars, bucketVars, tickVars, uiVars
<1>10. CASE Result
  BY <1>10 DEF Result, ExitCode, mainVars, countVars, bucketVars, tickVars, uiVars
<1>11. CASE SetupFails
  BY <1>11 DEF SetupFails, Returns, mainVars, countVars, bucketVars, tickVars, uiVars
<1>12. CASE UploadFails
  BY <1>12 DEF UploadFails, Returns, mainVars, countVars, bucketVars, tickVars, uiVars
<1>13. CASE Warn
  BY <1>13 DEF Warn, mainVars, countVars, bucketVars, tickVars, uiVars
<1>14. CASE Dump
  BY <1>14 DEF Dump, mainVars, countVars, bucketVars, tickVars, uiVars
<1>15. CASE Upload
  BY <1>15 DEF Upload, mainVars, countVars, bucketVars, tickVars, uiVars
<1>16. CASE Interrupt
  BY <1>16 DEF Interrupt, mainVars, countVars, bucketVars, tickVars, uiVars
<1>17. CASE Tick
  BY <1>17 DEF Tick, mainVars, countVars, bucketVars, tickVars, uiVars
<1>18. CASE Snapshot
  BY <1>18 DEF Snapshot, Load, mainVars, countVars, bucketVars, tickVars, uiVars
<1>19. CASE ReportSample
  BY <1>19 DEF ReportSample, Enabled, mainVars, countVars, bucketVars, tickVars, uiVars
<1>20. CASE UNCHANGED vars
  BY <1>20 DEF vars, mainVars, countVars, bucketVars, tickVars, uiVars
<1> QED BY <1>1, <1>2, <1>3, <1>4, <1>5, <1>6, <1>7, <1>8, <1>9, <1>10, <1>11, <1>12, <1>13, <1>14, <1>15, <1>16, <1>17, <1>18, <1>19, <1>20 DEF Next, Main, Terminated

\* Only a goroutine that is at its call shows a sample, and it is the one it took.
LEMMA ShownStep ==
  ASSUME [Next]_vars
  PROVE  shown' = shown \/ (sampler = "call" /\ shown' = sample)
BY DEF StartFeed, StoreStreaming, UploadReturns, StoreFinalizing, PutManifest, StoreDone, CloseStop, Return,
      Finish, Result, SetupFails, UploadFails, Warn, Dump, Upload, Interrupt, Tick, Snapshot, ReportSample,
      Terminated, StorePhase, Load, Main, Next, vars, tickVars

\* After rep.finish there is only the result.
LEMMA FinishedStep ==
  ASSUME [Next]_vars, run = "finished"
  PROVE  run' \in {"finished", "exited"}
BY DEF StartFeed, StoreStreaming, UploadReturns, StoreFinalizing, PutManifest, StoreDone, CloseStop, Return,
      Finish, Result, SetupFails, UploadFails, Warn, Dump, Upload, Interrupt, Tick, Snapshot, ReportSample,
      Terminated, StorePhase, Load, Main, Next, vars, tickVars, mainVars, Returns

\* The invariant of the run, of its samples and of its result holds throughout.
THEOREM ReportInvariance == Spec => []IInv
<1>1. Init => IInv
  <2> SUFFICES ASSUME Init PROVE IInv
    OBVIOUS
  <2> USE ReportAssumption, Phases DEF ReportAssumption, Init
  <2>1. sample \in Samples /\ shown \in Samples
    BY DEF Samples
  <2>2. TypeOK
    <3>1. cipher \in BOOLEAN /\ manifest \in BOOLEAN /\ interrupted \in BOOLEAN /\ final \in BOOLEAN
      BY Zenon
    <3> QED BY <2>1, <3>1 DEF TypeOK, Kinds, Returned
  <2>3. RunInv /\ ResultInv
    BY DEF RunInv, ResultInv, Ending, Returned
  <2>4. SampleInv
    BY DEF SampleInv, Returned
  <2> QED BY <2>2, <2>3, <2>4 DEF IInv
<1>2. IInv /\ [Next]_vars => IInv'
  <2> SUFFICES ASSUME IInv, [Next]_vars PROVE IInv'
    OBVIOUS
  <2>1. TypeOK' /\ RunInv' /\ SampleInv' /\ ResultInv'
    BY TypeStep, RunStep, SampleStep, ResultStep
  <2> QED BY <2>1 DEF IInv
<1> QED BY <1>1, <1>2, PTL DEF Spec

\* The variables of the report keep their types.
THEOREM ReportTypes == Spec => []TypeOK
<1>1. IInv => TypeOK
  BY DEF IInv
<1> QED BY <1>1, ReportInvariance, PTL

\* No sample claims more than was done, and the last one shows the end (snapshot, the
\* stop case of the progress goroutine).
THEOREM SamplesTellTheTruth == Spec => []SamplesAreTrue
<1>1. IInv => SamplesAreTrue
  BY DEF IInv, SampleInv, RunInv, SamplesAreTrue, Ending, Returned
<1> QED BY <1>1, ReportInvariance, PTL

\* The exit code tells the truth about the backup and about who ended the run
\* (Run's deferred classification, exitCode).
THEOREM ExitTellsTheTruth == Spec => []ExitIsHonest
<1>1. IInv => ExitIsHonest
  <2> SUFFICES ASSUME IInv, exit # NoExit PROVE ExitIsHonest
    BY DEF ExitIsHonest
  <2> USE DEF IInv
  <2>1. run = "exited" /\ exit = IF err = "none" THEN 0 ELSE ExitCode(err)
    BY DEF ResultInv
  <2>2. err \in {"none", "unknown", "connect", "dump", "upload", "canceled"}
    BY DEF TypeOK, Kinds
  <2>3. CASE err = "none"
    BY <2>1, <2>3, Phases DEF ExitIsHonest, RunInv, Ending, Returned
  <2>4. CASE err # "none"
    <3>1. /\ err = "connect" <=> exit = 3
          /\ err = "dump" <=> exit = 4
          /\ err = "upload" <=> exit = 5
          /\ err = "canceled" <=> exit = 130
          /\ err = "unknown" <=> exit = 1
          /\ exit \in {1, 3, 4, 5, 130}
      BY <2>1, <2>2, <2>4 DEF ExitCode
    <3> QED BY <2>1, <2>4, <3>1, Phases DEF ExitIsHonest, RunInv, Ending, Returned
  <2> QED BY <2>3, <2>4
<1> QED BY <1>1, ReportInvariance, PTL

\* Progress never goes back (snapshot, the counters of feed and of the uploader).
THEOREM ProgressAdvances == Spec => SamplesAdvance
<1>1. IInv /\ [Next]_vars =>
        [/\ shown.phase <= shown'.phase
         /\ shown.dumped <= shown'.dumped
         /\ shown.uploaded <= shown'.uploaded]_vars
  <2> SUFFICES ASSUME IInv, [Next]_vars
               PROVE  \/ UNCHANGED vars
                      \/ /\ shown.phase <= shown'.phase
                         /\ shown.dumped <= shown'.dumped
                         /\ shown.uploaded <= shown'.uploaded
    OBVIOUS
  <2>1. CASE UNCHANGED vars
    BY <2>1
  <2>2. CASE shown' = sample
    BY <2>2 DEF IInv, SampleInv
  <2>3. CASE shown' = shown
    BY <2>3, Phases, ReportAssumption DEF IInv, TypeOK, Samples, ReportAssumption
  <2> QED BY <2>1, <2>2, <2>3, ShownStep
<1> QED BY <1>1, ReportInvariance, PTL DEF Spec, SamplesAdvance

\* Once Run has returned no progress is reported, and the result starts on a clean line
\* (the deferred close and Wait, reporter.finish).
THEOREM ReportIsQuiet == Spec => QuietAfterReturn
<1>1. IInv /\ [Next]_vars /\ IInv' =>
        [/\ run \in Returned => shown' = shown
         /\ run = "finished" => terminal = "clean" /\ terminal' = "clean"]_vars
  <2> SUFFICES ASSUME IInv, [Next]_vars, IInv', ~UNCHANGED vars
               PROVE  /\ run \in Returned => shown' = shown
                      /\ run = "finished" => terminal = "clean" /\ terminal' = "clean"
    OBVIOUS
  <2>1. run \in Returned => sampler = "gone"
    BY DEF IInv, SampleInv
  <2>2. sampler = "gone" => shown' = shown
    BY ShownStep
  <2>3. run = "finished" => run' \in {"finished", "exited"}
    BY FinishedStep
  <2> QED BY <2>1, <2>2, <2>3 DEF IInv, ResultInv
<1> QED BY <1>1, ReportInvariance, PTL DEF Spec, QuietAfterReturn
=============================================================================
