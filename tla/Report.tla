------------------------------- MODULE Report -------------------------------
(***************************************************************************)
(* What the run command tells its user: the progress goroutine that        *)
(* samples the run, the lines that it and the command write to one         *)
(* terminal, the classified result and the exit code.                      *)
(*                                                                         *)
(* The upload is abstract here (module Upload has it): it counts what was  *)
(* dumped and uploaded and then returns.  Each load and store of a shared  *)
(* counter is a step, so a sample may be taken across any of them.         *)
(***************************************************************************)
EXTENDS Integers

CONSTANTS
  DumpSize, CipherSize,  \* what a whole backup dumps and uploads
  Outputs                \* the combinations of --json, --quiet and a terminal

ASSUME ReportAssumption ==
  /\ DumpSize \in Nat /\ CipherSize \in Nat \ {0}
  /\ Outputs \subseteq [json : BOOLEAN, quiet : BOOLEAN, tty : BOOLEAN]

VARIABLES
  out,          \* how the output was asked for
  run,          \* where the run command is
  phase,        \* the run's phase, shared with the progress goroutine
  dumped,       \* the counters, likewise
  uploaded,
  cipher,       \* the object is in the bucket
  manifest,     \* and so is its manifest
  err,          \* the error that Run returns
  interrupted,  \* Ctrl+C came before Run had returned
  sampler,      \* where the progress goroutine is
  final,        \* whether its sample is the last one
  sample,       \* the sample that it is taking
  shown,        \* history: the last sample that it reported
  terminal,     \* what the line with the cursor holds: "clean" or "progress"
  stdout,       \* what was written to standard output
  exit          \* the exit code, NoExit before it is known

mainVars   == <<run, phase, err>>
countVars  == <<dumped, uploaded>>
bucketVars == <<cipher, manifest>>
tickVars   == <<sampler, final, sample, shown>>
uiVars     == <<terminal, stdout, exit>>
vars == <<out, mainVars, countVars, bucketVars, interrupted, tickVars, uiVars>>

Connecting == 0
Streaming  == 1
Finalizing == 2
Done       == 3

NoExit == -1

Kinds == {"none", "unknown", "connect", "dump", "upload", "canceled"}

Init ==
  /\ out \in Outputs
  /\ run = "connecting" /\ phase = Connecting /\ err = "none"
  /\ dumped = 0 /\ uploaded = 0
  /\ cipher = FALSE /\ manifest = FALSE
  /\ interrupted = FALSE
  /\ sampler = "wait" /\ final = FALSE
  /\ sample = [phase |-> Connecting, dumped |-> 0, uploaded |-> 0] /\ shown = sample
  /\ terminal = "clean" /\ stdout = <<>> /\ exit = NoExit

-----------------------------------------------------------------------------
(* Run.                                                                    *)

\* Run gives up with an error: the deferred calls come next.
Returns(kind) == err' = kind /\ run' = "stop"

\* The driver's checks, the destination and the recipient, the start of the client.
SetupFails ==
  /\ run = "connecting" /\ \E kind \in {"unknown", "connect", "dump", "upload"} : Returns(kind)
  /\ UNCHANGED <<out, phase, countVars, bucketVars, interrupted, tickVars, uiVars>>

\* Preflight warns, on the terminal that progress is shown on.
Warn ==
  /\ run = "connecting" /\ terminal' = "clean"
  /\ UNCHANGED <<out, mainVars, countVars, bucketVars, interrupted, tickVars, stdout, exit>>

\* The client runs and feed counts; only then the phase is stored.
StartFeed ==
  /\ run = "connecting" /\ run' = "started"
  /\ UNCHANGED <<out, phase, err, countVars, bucketVars, interrupted, tickVars, uiVars>>

StorePhase(at, value, next) ==
  /\ run = at /\ phase' = value /\ run' = next
  /\ UNCHANGED <<out, err, countVars, bucketVars, interrupted, tickVars, uiVars>>

StoreStreaming == StorePhase("started", Streaming, "uploading")

\* countReader, in the feed goroutine, which may outlive a run that fails.
Dump ==
  /\ run = "started" \/ phase # Connecting
  /\ run # "exited" /\ dumped < DumpSize /\ dumped' = dumped + 1
  /\ UNCHANGED <<out, mainVars, uploaded, bucketVars, interrupted, tickVars, uiVars>>

\* Mutant: a part is counted when it is sent, and taken back when it has to be sent again.
UploadTakenBack ==
  /\ run = "uploading"
  /\ \/ uploaded < CipherSize /\ uploaded' = uploaded + 1
     \/ uploaded > 0 /\ uploaded' = uploaded - 1
  /\ UNCHANGED <<out, mainVars, dumped, bucketVars, interrupted, tickVars, uiVars>>

\* A part was accepted.
Upload ==
  /\ run = "uploading" /\ uploaded < CipherSize /\ uploaded' = uploaded + 1
  /\ UNCHANGED <<out, mainVars, dumped, bucketVars, interrupted, tickVars, uiVars>>

\* The object is completed: all was dumped and all parts are there.
UploadReturns ==
  /\ run = "uploading" /\ dumped = DumpSize /\ uploaded = CipherSize
  /\ cipher' = TRUE /\ run' = "uploaded"
  /\ UNCHANGED <<out, phase, err, countVars, manifest, interrupted, tickVars, uiVars>>

\* A failed upload may have completed the object if all its parts were there.
UploadFails ==
  /\ run = "uploading" /\ \E kind \in {"dump", "upload"} : Returns(kind)
  /\ cipher' \in BOOLEAN /\ (cipher' => dumped = DumpSize /\ uploaded = CipherSize)
  /\ UNCHANGED <<out, phase, countVars, manifest, interrupted, tickVars, uiVars>>

StoreFinalizing == StorePhase("uploaded", Finalizing, "manifest")

\* The manifest's PutObject.  One that fails may have reached the bucket.
PutManifest ==
  /\ run = "manifest"
  /\ \/ manifest' = TRUE /\ run' = "valid" /\ UNCHANGED err
     \/ manifest' \in BOOLEAN /\ Returns("upload")
  /\ UNCHANGED <<out, phase, countVars, cipher, interrupted, tickVars, uiVars>>

StoreDone == StorePhase("valid", Done, "stop")

\* The deferred close(stop): the last sample is to be taken.
CloseStop ==
  /\ run = "stop" /\ run' = "wait"
  /\ UNCHANGED <<out, phase, err, countVars, bucketVars, interrupted, tickVars, uiVars>>

\* Mutant: Run does not wait for the progress goroutine.
ReturnAtOnce ==
  /\ run = "wait"
  /\ run' = "returned"
  /\ err' = IF err # "none" /\ interrupted THEN "canceled" ELSE err
  /\ UNCHANGED <<out, phase, countVars, bucketVars, interrupted, tickVars, uiVars>>

\* Mutant: the context is canceled before the error is classified.
ReturnCanceled ==
  /\ run = "wait" /\ sampler = "gone"
  /\ run' = "returned"
  /\ err' = IF err # "none" THEN "canceled" ELSE err
  /\ UNCHANGED <<out, phase, countVars, bucketVars, interrupted, tickVars, uiVars>>

\* wg.Wait, then the classification: an error of an interrupted run is a cancellation.
Return ==
  /\ run = "wait" /\ sampler = "gone"
  /\ run' = "returned"
  /\ err' = IF err # "none" /\ interrupted THEN "canceled" ELSE err
  /\ UNCHANGED <<out, phase, countVars, bucketVars, interrupted, tickVars, uiVars>>

Interrupt ==
  /\ run \notin {"returned", "finished", "exited"} /\ ~interrupted
  /\ interrupted' = TRUE
  /\ UNCHANGED <<out, mainVars, countVars, bucketVars, tickVars, uiVars>>

-----------------------------------------------------------------------------
(* The progress goroutine.                                                 *)

\* Mutant: stop is looked at only once it is too late.
TickOnly ==
  /\ sampler = "wait" /\ sampler' = "phase"
  /\ final' = (run = "returned")
  /\ UNCHANGED <<out, mainVars, countVars, bucketVars, interrupted, sample, shown, uiVars>>

\* The select: a tick, or stop, which is closed for good; if both are ready either.
Tick ==
  /\ sampler = "wait" /\ sampler' = "phase"
  /\ \/ final' = FALSE
     \/ run = "wait" /\ final' = TRUE
  /\ UNCHANGED <<out, mainVars, countVars, bucketVars, interrupted, sample, shown, uiVars>>

\* The loads of snapshot, one after the other.
Load(at, field, value, next) ==
  /\ sampler = at /\ sampler' = next
  /\ sample' = [sample EXCEPT ![field] = value]
  /\ UNCHANGED <<out, mainVars, countVars, bucketVars, interrupted, final, shown, uiVars>>

\* Mutant: the phase is loaded after the counters.
LoadPhaseLast ==
  \/ Load("phase", "dumped", dumped, "dumped")
  \/ Load("dumped", "uploaded", uploaded, "uploaded")
  \/ Load("uploaded", "phase", phase, "call")

Snapshot ==
  \/ Load("phase", "phase", phase, "dumped")
  \/ Load("dumped", "dumped", dumped, "uploaded")
  \/ Load("uploaded", "uploaded", uploaded, "call")

\* Progress is shown to a human only.
Enabled == out.tty /\ ~out.quiet /\ ~out.json

\* cfg.Progress: the reporter rewrites its line.
ReportSample ==
  /\ sampler = "call"
  /\ sampler' = IF final THEN "gone" ELSE "wait"
  /\ shown' = sample
  /\ terminal' = IF Enabled THEN "progress" ELSE terminal
  /\ UNCHANGED <<out, mainVars, countVars, bucketVars, interrupted, final, sample, stdout, exit>>

-----------------------------------------------------------------------------
(* cmdRun.                                                                 *)

\* rep.finish clears the progress line.
Finish ==
  /\ run = "returned" /\ run' = "finished"
  /\ terminal' = "clean"
  /\ UNCHANGED <<out, phase, err, countVars, bucketVars, interrupted, tickVars, stdout, exit>>

ExitCode(kind) ==
  CASE kind = "connect" -> 3 [] kind = "dump" -> 4 [] kind = "upload" -> 5
    [] kind = "canceled" -> 130 [] OTHER -> 1

\* success or fail: one JSON document, or words for a human.
Result ==
  /\ run = "finished" /\ run' = "exited"
  /\ exit' = IF err = "none" THEN 0 ELSE ExitCode(err)
  /\ stdout' = CASE out.json -> <<"json">>
                 [] ~out.json /\ err = "none" /\ ~out.quiet -> <<"summary">>
                 [] OTHER -> stdout
  /\ UNCHANGED <<out, phase, err, countVars, bucketVars, interrupted, tickVars, terminal>>

Terminated == run = "exited" /\ UNCHANGED vars

Main == StartFeed \/ StoreStreaming \/ UploadReturns \/ StoreFinalizing
        \/ PutManifest \/ StoreDone \/ CloseStop \/ Return \/ Finish \/ Result

Next == Main \/ SetupFails \/ UploadFails \/ Warn \/ Dump \/ Upload \/ Interrupt
        \/ Tick \/ Snapshot \/ ReportSample \/ Terminated

\* The command's own steps are taken, and so are those of the two goroutines: no call
\* of theirs waits for ever (module Upload has the calls of the upload), and nothing has
\* to fail.  A select that finds stop closed again and again takes it in the end.
Fairness ==
  /\ WF_vars(Main) /\ WF_vars(Dump) /\ WF_vars(Upload)
  /\ WF_vars(Snapshot) /\ WF_vars(ReportSample)
  /\ SF_vars(Tick /\ final')

Spec == Init /\ [][Next]_vars /\ Fairness

-----------------------------------------------------------------------------
(* Properties.                                                             *)

Returned == {"returned", "finished", "exited"}

Samples == [phase : Connecting..Done, dumped : 0..DumpSize, uploaded : 0..CipherSize]

TypeOK ==
  /\ out \in Outputs
  /\ run \in Returned \cup {"connecting", "started", "uploading", "uploaded", "manifest", "valid", "stop", "wait"}
  /\ phase \in Connecting..Done /\ err \in Kinds
  /\ dumped \in 0..DumpSize /\ uploaded \in 0..CipherSize
  /\ cipher \in BOOLEAN /\ manifest \in BOOLEAN
  /\ interrupted \in BOOLEAN /\ final \in BOOLEAN
  /\ sampler \in {"wait", "phase", "dumped", "uploaded", "call", "gone"}
  /\ sample \in Samples /\ shown \in Samples
  /\ terminal \in {"clean", "progress"}
  /\ exit \in {NoExit, 0, 1, 3, 4, 5, 130}

\* Progress never goes back, though its three values are loaded one by one while the
\* run changes them (snapshot).
SamplesAdvance ==
  [][/\ shown.phase <= shown'.phase
     /\ shown.dumped <= shown'.dumped
     /\ shown.uploaded <= shown'.uploaded]_vars

\* A sample that says finalizing or done has the whole of both counters, for the phase
\* is loaded before them and stored after them; and the last sample shows how the run
\* ended: done if and only if it succeeded (snapshot, the goroutine's stop case).
SamplesAreTrue ==
  /\ shown.phase >= Finalizing => shown.dumped = DumpSize /\ shown.uploaded = CipherSize
  /\ run \in Returned => (shown.phase = Done <=> err = "none")

\* Once Run has returned no progress is reported, and the line is clean when the result
\* is written: the caller never races it (the deferred close and Wait, reporter.finish).
QuietAfterReturn ==
  [][/\ run \in Returned => shown' = shown
     /\ run = "finished" => terminal = "clean" /\ terminal' = "clean"]_vars

\* The exit code tells the truth: success means a valid backup, 130 that the user
\* interrupted a run that then failed, 3 that nothing was uploaded, and 4 and 5 are
\* kept apart (Run's deferred classification, exitCode).
ExitIsHonest ==
  exit # NoExit =>
    /\ exit = 0 => cipher /\ manifest
    /\ exit = 130 <=> exit # 0 /\ interrupted
    /\ exit = 3 => phase = Connecting /\ ~cipher
    /\ exit = 1 => phase = Connecting
    /\ manifest /\ exit # 0 => exit \in {5, 130}

\* The command always comes to its end (the progress goroutine stops, Run's Wait does
\* not hang).
CommandReturns == <>(run = "exited")
=============================================================================
