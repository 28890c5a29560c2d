-------------------------- MODULE ProcessingEngine --------------------------
(***************************************************************************)
(* The engine that drives one recording's ledger (processing/engine.rs),   *)
(* the commands that start it (processing/commands.rs), and the world its  *)
(* effects act on (processing/direct.rs, processing/tos.rs).               *)
(*                                                                         *)
(* Any number of tasks run the engine at once: no lock is held for a       *)
(* recording, only the store's per operation and the in-flight marker for  *)
(* TOS operations.  A task is a worker; between two of its steps every     *)
(* other worker, the world or a restart may act.  An effect is several     *)
(* steps: it starts, it takes hold in the world, its answer comes back or  *)
(* is lost.                                                                *)
(***************************************************************************)
EXTENDS LedgerOperations

CONSTANTS
    Workers,              \* the tasks that may run the engine at the same time
    NoWorker,             \* the marker when no TOS operation is in flight
    LocalBackends,        \* the local backends the features and the models offer
    CredentialsRemovable, \* whether the user may remove the stored credentials
    MaxTasks,             \* provider jobs the model lets the provider accept
    MaxLatePuts           \* bound on the PUTs on their way that nobody waits for

ASSUME EngineAssumption ==
    /\ NoWorker \notin Workers
    /\ LocalBackends \subseteq {"WhisperLocal", "QwenLocal"}
    /\ CredentialsRemovable \in BOOLEAN
    /\ MaxTasks \in Nat /\ MaxLatePuts \in Nat

VARIABLES
    ledger,           \* the durable ledger
    worker,           \* what each task is doing
    tos_operation,    \* the owner of the marker in tos_operations_in_flight
    package,          \* the recording's package is in the inbox
    credentials,      \* processing credentials are stored
    bucket,           \* an object is in the TOS bucket under the recording's key
    named,            \* it is the version that the ledger's checkpoint names
    late_puts,        \* PUTs on their way that nobody waits for any more
    sent_again,       \* history: a PUT was sent while such a one was on its way
    tasks,            \* provider jobs 妙记 has accepted (each may be charged)
    archive           \* the <<generation, target>> pairs really published

tos == <<bucket, named, late_puts, sent_again>>

world == <<package, credentials, tos, tasks, archive>>

vars == <<ledger, worker, tos_operation, world>>

-----------------------------------------------------------------------------
(* What a worker may be doing.                                              *)

Phases ==
    {"idle", "startup", "loop",
     "upload", "uploading", "uploaded",    \* upload_tos called; its PUT sent; arrived
     "dispatch", "accepted",               \* submit_miaoji called; job accepted
     "poll", "transcribe", "summarize", "plan",
     "publish", "publishing",              \* before and after the target is Started
     "verify", "cleanup", "cleaned",       \* cleaned: the object is deleted
     "finalize", "inner", "probe",         \* resume_canceled_cleanup and its inner
     "delete", "deleted",
     "discard", "discarded"}               \* begin_discard done; package removed

Idle == [at |-> "idle", generation |-> 0, target |-> 0]

At(w, phase) == worker[w].at = phase

\* Only a publication's and a cleanup's second half still need their receipt.
Goto(w, phase) ==
    worker' = [worker EXCEPT
                 ![w] = IF phase \in {"publishing", "cleaned"}
                        THEN [@ EXCEPT !.at = phase]
                        ELSE [Idle EXCEPT !.at = phase]]

Stop(w) == Goto(w, "idle")

\* A store operation: an error leaves the ledger as it is.
Attempt(outcomes) == ledger' \in IF outcomes = {} THEN {ledger} ELSE outcomes

\* On success the worker goes on to `phase', on an error the `?' ends the run.
Store(w, outcomes, phase) ==
    /\ Attempt(outcomes)
    /\ Goto(w, IF outcomes = {} THEN "idle" ELSE phase)

\* The TosOperationGuard is dropped.
ReleaseMarker == tos_operation' = NoWorker

-----------------------------------------------------------------------------
(* run_until_wait: one turn of the loop.  resume, the check of the marker    *)
(* and its insertion happen under the marker's mutex.                        *)

\* Mutant: the object is deleted before the backup is verified.
PublishingEffect_CleansFirst(l) ==
    IF AllVerified(l)
    THEN "cleanup"
    ELSE IF \E t \in FirstUnverified(l) : InDoubt(l, t) THEN "idle" ELSE "publish"

\* publication_resume_action
PublishingEffect(l) ==
    IF AllVerified(l)
    THEN IF l.canonical_backup THEN "cleanup" ELSE "verify"
    ELSE IF \E t \in FirstUnverified(l) : InDoubt(l, t) THEN "idle" ELSE "publish"

NextEffect(l) ==
    CASE l.state \in {"Queued", "Uploading"} -> "upload"
      [] l.state = "CancelingUpload" -> "inner"
      [] l.state = "LocalTranscribing" -> "transcribe"
      [] l.state = "Transcribing" -> "dispatch"
      [] l.state = "Polling" -> "poll"
      [] l.state = "Summarizing" -> IF l.summary_json THEN "plan" ELSE "summarize"
      [] l.state = "Publishing" -> PublishingEffect(l)
      [] OTHER -> "idle"

OwnsMarker(phase) == phase \in {"upload", "inner"}

Turn(w) ==
    /\ At(w, "loop")
    /\ ledger' \in Resume(ledger)
    /\ LET next == NextEffect(ledger) IN
         IF next = "idle" \/ (OwnsMarker(next) /\ tos_operation # NoWorker)
         THEN Stop(w) /\ UNCHANGED tos_operation
         ELSE /\ worker' = [worker EXCEPT
                   ![w] = [at |-> next,
                           generation |-> ledger.generation,
                           target |-> IF next = "publish"
                                      THEN CHOOSE t \in FirstUnverified(ledger) : TRUE
                                      ELSE 0]]
              /\ tos_operation' = IF OwnsMarker(next) THEN w ELSE tos_operation
    /\ UNCHANGED world

-----------------------------------------------------------------------------
(* Upload.                                                                  *)

\* load_credentials fails before anything is sent: EffectErrorKind::Rejected.
UploadIsRejected(w) ==
    /\ At(w, "upload") /\ ~credentials
    /\ Attempt(MarkUploadRejected(ledger))
    /\ Stop(w) /\ ReleaseMarker
    /\ UNCHANGED world

\* upload_verified: one HEAD finds the object of an earlier PUT, ...
UploadFindsObject(w) ==
    /\ At(w, "upload") /\ credentials /\ bucket
    /\ Goto(w, "uploaded")
    /\ UNCHANGED <<ledger, tos_operation, world>>

\* ... or its absence, and then the PUT is sent.
UploadPuts(w) ==
    /\ At(w, "upload") /\ credentials /\ ~bucket
    /\ late_puts < MaxLatePuts
    /\ Goto(w, "uploading")
    /\ sent_again' = (sent_again \/ late_puts > 0)
    /\ UNCHANGED <<ledger, tos_operation, package, credentials,
                   bucket, named, late_puts, tasks, archive>>

\* x-tos-forbid-overwrite: a PUT that arrives while there is an object under the
\* key changes nothing, and its sender takes the object that is there.
PutArrives(w) ==
    /\ At(w, "uploading")
    /\ bucket' = TRUE
    /\ Goto(w, "uploaded")
    /\ UNCHANGED <<ledger, tos_operation, package, credentials,
                   named, late_puts, sent_again, tasks, archive>>

LatePutArrives ==
    /\ late_puts > 0
    /\ late_puts' = late_puts - 1 /\ bucket' = TRUE
    /\ UNCHANGED <<ledger, worker, tos_operation, package, credentials,
                   named, sent_again, tasks, archive>>

\* checkpoint_tos_object of the object that is there: another version than the
\* one the ledger names is a conflict.
CheckpointFound == IF ledger.tos_object /\ ~named THEN {} ELSE CheckpointTosObject(ledger)

UploadReturns(w) ==
    /\ At(w, "uploaded") /\ bucket
    /\ Attempt(CheckpointFound)
    /\ Goto(w, IF CheckpointFound = {} \/ ledger'.state \in CanceledStates
               THEN "idle" ELSE "loop")
    /\ named' = (CheckpointFound # {})
    /\ ReleaseMarker
    /\ UNCHANGED <<package, credentials, bucket, late_puts, sent_again, tasks, archive>>

\* A response is lost, that of the PUT before or after it arrived.
UploadIsLost(w) ==
    /\ (At(w, "upload") /\ credentials) \/ At(w, "uploading") \/ At(w, "uploaded")
    /\ late_puts' = IF At(w, "uploading") THEN late_puts + 1 ELSE late_puts
    /\ Stop(w) /\ ReleaseMarker
    /\ UNCHANGED <<ledger, package, credentials, bucket, named, sent_again, tasks, archive>>

UploadStep(w) ==
    \/ UploadIsRejected(w) \/ UploadFindsObject(w) \/ UploadPuts(w) \/ PutArrives(w)
    \/ UploadReturns(w) \/ UploadIsLost(w)

-----------------------------------------------------------------------------
(* 妙记 submit and poll.                                                     *)

\* Refused by the provider, or proven not to be dispatched.
SubmitIsRejected(w) ==
    /\ At(w, "dispatch")
    /\ Attempt(MarkSubmitRejected(ledger))
    /\ Stop(w)
    /\ UNCHANGED <<tos_operation, world>>

SubmitIsAccepted(w) ==
    /\ At(w, "dispatch") /\ credentials
    /\ tasks < MaxTasks
    /\ tasks' = tasks + 1
    /\ Goto(w, "accepted")
    /\ UNCHANGED <<ledger, tos_operation, package, credentials, tos, archive>>

SubmitReturns(w) ==
    /\ At(w, "accepted")
    /\ Store(w, CheckpointMiaojiTask(ledger), "loop")
    /\ UNCHANGED <<tos_operation, world>>

\* SubmitAmbiguous is recorded; any other error leaves the fence as it is.
SubmitIsLost(w) ==
    /\ (At(w, "dispatch") /\ credentials) \/ At(w, "accepted")
    /\ ledger' \in MarkSubmitAmbiguous(ledger) \cup {ledger}
    /\ Stop(w)
    /\ UNCHANGED <<tos_operation, world>>

PollReturns(w) ==
    /\ At(w, "poll") /\ credentials /\ tasks > 0
    /\ Store(w, CheckpointTranscript(ledger), "loop")
    /\ UNCHANGED <<tos_operation, world>>

ProviderStep(w) ==
    \/ SubmitIsRejected(w) \/ SubmitIsAccepted(w) \/ SubmitReturns(w) \/ SubmitIsLost(w)
    \/ PollReturns(w)

-----------------------------------------------------------------------------
(* Local transcription, summary.                                            *)

TranscribeReturns(w) ==
    /\ At(w, "transcribe")
    /\ Store(w, CheckpointLocalWhisperTranscript(ledger), "loop")
    /\ UNCHANGED <<tos_operation, world>>

TranscribeFails(w) ==
    /\ At(w, "transcribe")
    /\ Attempt(MarkLocalWhisperFailed(ledger))
    /\ Stop(w)
    /\ UNCHANGED <<tos_operation, world>>

SummarizeReturns(w) ==
    /\ At(w, "summarize")
    /\ Store(w, CheckpointSummary(ledger), "loop")
    /\ UNCHANGED <<tos_operation, world>>

\* NotDispatched or Rejected
SummarizeIsRejected(w) ==
    /\ At(w, "summarize")
    /\ Attempt(AbortSummaryBeforeDispatch(ledger))
    /\ Stop(w)
    /\ UNCHANGED <<tos_operation, world>>

ContentStep(w) ==
    \/ TranscribeReturns(w) \/ TranscribeFails(w)
    \/ SummarizeReturns(w) \/ SummarizeIsRejected(w)

-----------------------------------------------------------------------------
(* Publication, canonical backup, cleanup.                                  *)

Plan(w) ==
    /\ At(w, "plan")
    /\ Store(w, PlanPublication(ledger), "loop")
    /\ UNCHANGED <<tos_operation, world>>

StartTarget(w) ==
    /\ At(w, "publish")
    /\ Store(w, StartPublicationTarget(ledger, worker[w].generation, worker[w].target),
             "publishing")
    /\ UNCHANGED <<tos_operation, world>>

Receipt(w) == <<worker[w].generation, worker[w].target>>

TargetIsPublished(w) ==
    /\ At(w, "publishing")
    /\ Receipt(w) \notin archive
    /\ archive' = archive \cup {Receipt(w)}
    /\ UNCHANGED <<ledger, worker, tos_operation,
                   package, credentials, tos, tasks>>

PublishReturns(w) ==
    /\ At(w, "publishing")
    /\ Receipt(w) \in archive
    /\ Store(w, CheckpointPublicationTarget(ledger, worker[w].generation, worker[w].target),
             "loop")
    /\ UNCHANGED <<tos_operation, world>>

\* PublicationConflict, PublicationAmbiguous or an explicit failure
PublishFails(w) ==
    /\ At(w, "publishing")
    /\ LET outcomes ==
             MarkPublicationConflict(ledger)
               \cup UNION {FailPublicationTarget(ledger, worker[w].generation,
                                                 worker[w].target, ambiguous) :
                             ambiguous \in BOOLEAN}
       IN ledger' \in outcomes \cup {ledger}
    /\ Stop(w)
    /\ UNCHANGED <<tos_operation, world>>

\* verify_canonical_backup reads the required targets back.
VerifyReturns(w) ==
    /\ At(w, "verify")
    /\ \A t \in Required : <<worker[w].generation, t>> \in archive
    /\ Store(w, CheckpointCanonicalBackup(ledger, worker[w].generation), "loop")
    /\ UNCHANGED <<tos_operation, world>>

\* delete_exact: the version that the ledger names, if it is there.
DeleteExact ==
    /\ bucket' = (bucket /\ ~named) /\ named' = FALSE
    /\ UNCHANGED <<late_puts, sent_again>>

\* cleanup_tos, skipped when there is nothing to delete
CleanupDeletes(w) ==
    /\ At(w, "cleanup")
    /\ IF ledger.tos_object /\ ~ledger.temporary_tos_deleted
       THEN credentials /\ DeleteExact
       ELSE UNCHANGED tos
    /\ Goto(w, "cleaned")
    /\ UNCHANGED <<ledger, tos_operation, package, credentials, tasks, archive>>

CleanupIsRecorded(w) ==
    /\ At(w, "cleaned")
    /\ Store(w, CheckpointCleanup(ledger, worker[w].generation), "idle")
    /\ UNCHANGED <<tos_operation, world>>

PublishStep(w) ==
    \/ Plan(w) \/ StartTarget(w) \/ TargetIsPublished(w) \/ PublishReturns(w)
    \/ PublishFails(w) \/ VerifyReturns(w) \/ CleanupDeletes(w) \/ CleanupIsRecorded(w)

\* An effect answers with an error the engine only reports (for a poll, also
\* that the job is still running): the ledger stays where resume left it.
EffectIsLost(w) ==
    /\ worker[w].at \in {"poll", "summarize", "verify", "cleanup"}
    /\ Stop(w)
    /\ UNCHANGED <<ledger, tos_operation, world>>

-----------------------------------------------------------------------------
(* cancel_and_cleanup, resume_canceled_cleanup and their inner part.         *)

NeedsTosFinalization(l) ==
    \/ l.state = "CancelingUpload"
    \/ l.state = "CanceledAfterUpload" /\ ~l.temporary_tos_deleted

CancelAndCleanup(w) ==
    /\ At(w, "idle")
    /\ ledger' \in Cancel(ledger)
    /\ IF tos_operation # NoWorker
       THEN Goto(w, "finalize") /\ UNCHANGED tos_operation
       ELSE IF NeedsTosFinalization(ledger')
       THEN Goto(w, "inner") /\ tos_operation' = w
       ELSE UNCHANGED <<worker, tos_operation>>
    /\ UNCHANGED world

\* wait_for_tos_operation, then the check again under the mutex
Finalize(w) ==
    /\ At(w, "finalize")
    /\ tos_operation = NoWorker
    /\ IF NeedsTosFinalization(ledger)
       THEN Goto(w, "inner") /\ tos_operation' = w
       ELSE Stop(w) /\ UNCHANGED tos_operation
    /\ UNCHANGED <<ledger, world>>

LoadCanceled(w) ==
    /\ At(w, "inner")
    /\ IF ledger.state = "CancelingUpload"
       THEN Goto(w, "probe") /\ UNCHANGED tos_operation
       ELSE IF NeedsTosFinalization(ledger)
       THEN Goto(w, "delete") /\ UNCHANGED tos_operation
       ELSE Stop(w) /\ ReleaseMarker
    /\ UNCHANGED <<ledger, world>>

ProbeFindsObject(w) ==
    /\ At(w, "probe") /\ credentials /\ bucket
    /\ Attempt(CheckpointFound)
    /\ IF CheckpointFound # {} /\ NeedsTosFinalization(ledger')
       THEN Goto(w, "delete") /\ UNCHANGED tos_operation
       ELSE Stop(w) /\ ReleaseMarker
    /\ named' = (CheckpointFound # {})
    /\ UNCHANGED <<package, credentials, bucket, late_puts, sent_again, tasks, archive>>

\* Mutant: absence is believed while a PUT may still land.
ProbeFindsAbsence_Once(w) ==
    /\ At(w, "probe") /\ credentials /\ ~bucket
    /\ Attempt(CheckpointCanceledUploadAbsent(ledger))
    /\ Stop(w) /\ ReleaseMarker
    /\ UNCHANGED world

\* CANCELED_UPLOAD_ABSENCE_PROBES probes spread over an interval: by then a
\* PUT nobody waits for has landed or never will.
ProbeFindsAbsence(w) ==
    /\ At(w, "probe") /\ credentials /\ ~bucket
    /\ late_puts' = 0
    /\ Attempt(CheckpointCanceledUploadAbsent(ledger))
    /\ Stop(w) /\ ReleaseMarker
    /\ UNCHANGED <<package, credentials, bucket, named, sent_again, tasks, archive>>

DeleteCanceled(w) ==
    /\ At(w, "delete") /\ credentials
    /\ DeleteExact
    /\ Goto(w, "deleted")
    /\ UNCHANGED <<ledger, tos_operation, package, credentials, tasks, archive>>

DeletionIsRecorded(w) ==
    /\ At(w, "deleted")
    /\ Attempt(CheckpointCanceledTosCleanup(ledger))
    /\ Stop(w) /\ ReleaseMarker
    /\ UNCHANGED world

\* The probe or the deletion fails; nothing retries it before the next launch.
CanceledCleanupFails(w) ==
    /\ At(w, "probe") \/ At(w, "delete")
    /\ Stop(w) /\ ReleaseMarker
    /\ UNCHANGED <<ledger, world>>

CancelStep(w) ==
    \/ CancelAndCleanup(w) \/ Finalize(w) \/ LoadCanceled(w)
    \/ ProbeFindsObject(w) \/ ProbeFindsAbsence(w)
    \/ DeleteCanceled(w) \/ DeletionIsRecorded(w) \/ CanceledCleanupFails(w)

-----------------------------------------------------------------------------
(* discard_local.                                                           *)

\* Mutant: the package goes before the discard is committed.
BeginDiscardLocal_Uncommitted(w) ==
    /\ At(w, "idle")
    /\ ledger.state = "Discarding" \/ (package /\ ledger.state # "Discarded")
    /\ BeginDiscard(ledger) # {}
    /\ Goto(w, "discard")
    /\ UNCHANGED <<ledger, tos_operation, world>>

\* enqueue verifies the local copy before the intent is committed; a discard
\* already begun goes straight to the package.
BeginDiscardLocal(w) ==
    /\ At(w, "idle")
    /\ ledger.state = "Discarding" \/ (package /\ ledger.state # "Discarded")
    /\ ledger' \in BeginDiscard(ledger)
    /\ Goto(w, "discard")
    /\ UNCHANGED <<tos_operation, world>>

DiscardPackage(w) ==
    /\ At(w, "discard")
    /\ package' = FALSE
    /\ Goto(w, "discarded")
    /\ UNCHANGED <<ledger, tos_operation, credentials, tos, tasks, archive>>

DiscardIsRecorded(w) ==
    /\ At(w, "discarded")
    /\ Store(w, CheckpointDiscarded(ledger), "idle")
    /\ UNCHANGED <<tos_operation, world>>

DiscardStep(w) == BeginDiscardLocal(w) \/ DiscardPackage(w) \/ DiscardIsRecorded(w)

-----------------------------------------------------------------------------
(* The commands a user gives, and the launch.                               *)

\* The command's store operation succeeds and the engine runs.
Command(w, outcomes) ==
    /\ At(w, "idle")
    /\ ledger' \in outcomes
    /\ Goto(w, "loop")
    /\ UNCHANGED <<tos_operation, world>>

Process(w) == package /\ Command(w, {ledger})

\* Mutant: a retry resolves an ambiguous submission by submitting again.
RetryOutcomes_Resubmits(l) ==
    CASE l.state = "ProviderFailed" -> RetryProvider(l)
      [] l.state \in {"PublishFailed", "PublishConflict"} -> RetryPublication(l)
      [] l.state = "SummaryAmbiguous" -> ResolveSummaryForRetry(l)
      [] l.state = "SubmitAmbiguous" -> ResolveSubmitForRetry(l)
      [] l.state = "PublishAmbiguous" \/ IsTerminal(l.state) -> {}
      [] OTHER -> {l}

\* Mutant: a retry reopens an ambiguous publication behind the store's back.
RetryOutcomes_Reopens(l) ==
    CASE l.state = "ProviderFailed" -> RetryProvider(l)
      [] l.state \in {"PublishFailed", "PublishConflict"} -> RetryPublication(l)
      [] l.state = "PublishAmbiguous" -> {[l EXCEPT !.state = "Publishing"]}
      [] l.state \in {"SubmitAmbiguous"} \/ IsTerminal(l.state) -> {}
      [] l.state = "SummaryAmbiguous" -> ResolveSummaryForRetry(l)
      [] OTHER -> {l}

\* engine.retry: what has to be resolved by hand is refused.
RetryOutcomes(l) ==
    CASE l.state = "ProviderFailed" -> RetryProvider(l)
      [] l.state \in {"PublishFailed", "PublishConflict"} -> RetryPublication(l)
      [] l.state = "SummaryAmbiguous" -> ResolveSummaryForRetry(l)
      [] l.state \in {"SubmitAmbiguous", "PublishAmbiguous"} -> {}
      [] IsTerminal(l.state) -> {}
      [] OTHER -> {l}

Retry(w) == Command(w, RetryOutcomes(ledger))

Reprocess(w) == package /\ Command(w, BeginReprocess(ledger))

BackUpToCloud(w) == package /\ Command(w, BeginRemoteBackup(ledger))

\* process_recording_locally and its siblings: select, then process.
ProcessLocally(w) ==
    /\ LocalBackends # {}
    /\ package
    /\ \/ "WhisperLocal" \in LocalBackends /\ Command(w, SelectLocalWhisper(ledger))
       \/ \E backend \in LocalBackends :
            \/ Command(w, SelectFullLocal(ledger, backend))
            \/ Command(w, TakeOverWithFullLocal(ledger, backend))
       \/ Command(w, AcceptLocalTranscriptOnly(ledger))

CommandStep(w) ==
    Process(w) \/ Retry(w) \/ Reprocess(w) \/ BackUpToCloud(w) \/ ProcessLocally(w)

ChangeCredentials ==
    /\ CredentialsRemovable
    /\ credentials' = ~credentials
    /\ UNCHANGED <<ledger, worker, tos_operation,
                   package, tos, tasks, archive>>

\* The process ends between any two steps (a crash, a quit) and is launched
\* again: the markers and the tasks are gone, what they sent is not, and
\* resume_pending starts on the recording.
Restart ==
    /\ \E w \in Workers :
         worker' = [[v \in Workers |-> Idle] EXCEPT ![w].at = "startup"]
    /\ tos_operation' = NoWorker
    /\ late_puts' = IF \E w \in Workers : At(w, "uploading") THEN late_puts + 1 ELSE late_puts
    /\ UNCHANGED <<ledger, package, credentials, bucket, named, sent_again, tasks, archive>>

ShouldResumeProcessing(s) ==
    ~IsTerminal(s) /\ s \notin {"Queued", "SubmitAmbiguous", "SummaryAmbiguous",
                                "PublishAmbiguous", "PublishConflict"}

\* Mutant: a launch resumes processing only.
ResumePending_OnlyProcesses(w) ==
    /\ At(w, "startup")
    /\ Goto(w, IF ShouldResumeProcessing(ledger.state) /\ package THEN "loop" ELSE "idle")
    /\ UNCHANGED <<ledger, tos_operation, world>>

\* resume_pending
ResumePending(w) ==
    /\ At(w, "startup")
    /\ Goto(w, IF NeedsTosFinalization(ledger) THEN "finalize"
               ELSE IF ledger.state = "Discarding" THEN "discard"
               ELSE IF ShouldResumeProcessing(ledger.state) /\ package THEN "loop"
               ELSE "idle")
    /\ UNCHANGED <<ledger, tos_operation, world>>

-----------------------------------------------------------------------------

Init ==
    /\ ledger = Enqueued
    /\ worker = [w \in Workers |-> Idle]
    /\ tos_operation = NoWorker
    /\ package = TRUE
    /\ credentials = TRUE
    /\ bucket = FALSE
    /\ named = FALSE /\ late_puts = 0 /\ sent_again = FALSE
    /\ tasks = 0
    /\ archive = {}

WorkerStep(w) ==
    \/ Turn(w) \/ UploadStep(w) \/ ProviderStep(w) \/ ContentStep(w) \/ PublishStep(w)
    \/ EffectIsLost(w) \/ CancelStep(w) \/ DiscardStep(w) \/ CommandStep(w)
    \/ ResumePending(w)

Next ==
    \/ \E w \in Workers : WorkerStep(w)
    \/ LatePutArrives \/ ChangeCredentials \/ Restart

Spec == Init /\ [][Next]_vars

\* What the liveness of a cleanup needs of the world: the app is launched again
\* and again, and it does not stop or fail at the same step every time.
RecurringLaunches ==
    /\ WF_vars(Restart)
    /\ SF_vars(\E w \in Workers : ResumePending(w))
    /\ SF_vars(\E w \in Workers : Finalize(w))
    /\ SF_vars(\E w \in Workers : LoadCanceled(w))
    /\ SF_vars(\E w \in Workers : ProbeFindsObject(w) \/ ProbeFindsAbsence(w))
    /\ SF_vars(\E w \in Workers : DeleteCanceled(w))
    /\ SF_vars(\E w \in Workers : DeletionIsRecorded(w))
    /\ SF_vars(\E w \in Workers : DiscardPackage(w))
    /\ SF_vars(\E w \in Workers : DiscardIsRecorded(w))

FairSpec == Spec /\ RecurringLaunches

-----------------------------------------------------------------------------
(* Properties.                                                              *)

TypeOK ==
    /\ ledger \in Ledger
    /\ worker \in [Workers -> [at: Phases, generation: 0..MaxGeneration,
                               target: 0..NumTargets]]
    /\ tos_operation \in Workers \cup {NoWorker}
    /\ package \in BOOLEAN /\ credentials \in BOOLEAN
    /\ bucket \in BOOLEAN /\ named \in BOOLEAN
    /\ late_puts \in Nat /\ sent_again \in BOOLEAN
    /\ tasks \in 0..MaxTasks
    /\ archive \subseteq (1..MaxGeneration) \X Targets

\* The engine only ever changes the ledger through the store's operations, so
\* every result about ProcessingLedger is one about the running engine.
LedgerStore == INSTANCE ProcessingLedger

ImplementsStore == LedgerStore!Spec

\* "TOS temporary objects are deleted only after the transcript and canonical
\* audio backup are durable" (docs/capture/PLAN.md), or once the job has been
\* canceled: also when two workers clean up, cancel and reprocess at once.
BackupBeforeDeletion ==
    [][bucket /\ ~bucket' =>
         \/ /\ ledger.transcript_json /\ ledger.canonical_backup
            /\ \A t \in Required : <<ledger.generation, t>> \in archive
         \/ ledger.state = "CanceledAfterUpload"]_vars

\* The job needs its temporary object no more, and will not look for it again.
JobIsOver ==
    \/ ledger.state \in {"Complete", "CanceledBeforeUpload"} \cup DiscardStates
    \/ ledger.temporary_tos_deleted

\* No temporary object outlives its job: when a job is complete, canceled with
\* its cleanup recorded, or discarded, the object that the ledger names is gone,
\* the bucket is empty and no PUT is on its way, whatever was lost, canceled or
\* restarted.  There is one way to another object: a single HEAD found nothing
\* and the upload was sent a second time while the first PUT was still on its
\* way, which then lands after the deletion.
NothingLeftInBucket ==
    JobIsOver => ~named /\ ((~bucket /\ late_puts = 0) \/ sent_again)

\* Refuted by the code, in the way just told: "then clean the temporary TOS
\* object" (PLAN.md) leaves none, even if the upload was sent twice.
NoObjectOutlivesItsJob == JobIsOver => ~bucket

\* "Duplicate enqueue/resume requests create one provider job" (PLAN.md): the
\* provider accepts at most one job, however many workers process, retry and
\* restart, and whatever answers are lost.
OneProviderJob == tasks <= 1

\* A target the ledger calls Verified is published, in this generation: no
\* late or stale receipt vouches for a target it is not about.
VerifiedIsPublished ==
    \A t \in Targets :
       HasPublication(ledger) /\ ledger.targets[t] = "Verified" =>
         <<ledger.generation, t>> \in archive

\* The package is the only copy of the recording: it is gone only when the
\* discard was committed before, and never under an upload that reads it.
\* It holds with two tasks and with remote jobs only.  Three tasks refute it: an
\* upload is under way, a command selects a local backend, the job is then
\* canceled with nothing to clean up, and the discard goes ahead.
PackageOutlivesUpload ==
    ~package => /\ ledger.state \in DiscardStates
                /\ \A w \in Workers : worker[w].at \notin {"upload", "uploading", "uploaded", "probe"}

\* "Cleanup is itself checkpointed and resumes on launch" (PLAN.md): a canceled
\* upload ends with its object deleted and the deletion recorded, or its
\* absence established (but for an upload sent twice, as above).
CanceledUploadIsFinished ==
    NeedsTosFinalization(ledger) ~> ~NeedsTosFinalization(ledger) /\ (~bucket \/ sent_again)

\* A discard that was begun is finished by some launch.
DiscardIsFinished ==
    ledger.state = "Discarding" ~> ledger.state = "Discarded" /\ ~package

\* "TOS upload or 妙记 submit has an ambiguous/lost response: reconcile first"
\* (PLAN.md): a job that went to a local backend with no object recorded has
\* left none in the bucket.
LocalAfterReconciliation ==
    ~IsRemote(ledger) /\ ~ledger.tos_object => ~bucket

\* "A canceled request may have reached TOS [...]; require repeated absence"
\* (direct.rs): a job canceled "before upload" has no object in the bucket.
CanceledBeforeUploadIsTrue ==
    ledger.state = "CanceledBeforeUpload" /\ IsRemote(ledger) => ~bucket

\* "Duplicate enqueue/resume requests create one provider job and one archive
\* publish" (PLAN.md): the answer of an accepted job whose worker still waits for
\* it can be recorded, unless the job was canceled.
AcceptedJobIsRecordable ==
    (\E w \in Workers : At(w, "accepted"))
      /\ ledger.state \notin CanceledStates \cup DiscardStates =>
        CheckpointMiaojiTask(ledger) # {}

\* "Either serialize successfully or surface a recoverable conflict" (PLAN.md):
\* the retry the engine offers for a conflict is one the store accepts.
ConflictIsRecoverable ==
    ledger.state = "PublishConflict" => RetryOutcomes(ledger) # {}
=============================================================================
