------------------------------- MODULE MossRun -------------------------------
(***************************************************************************)
(* The leased, cancelable MOSS runs of one recording (engine/moss.rs, the   *)
(* MOSS arms of ProcessingEngine::run_until_wait, moss_preparation.rs,      *)
(* moss_ledger.rs, moss_artifacts.rs).                                      *)
(*                                                                         *)
(* A run is a RunControl in its process's registry and an OwnerLease (an    *)
(* flock that excludes every other process).  It drives the ledger one      *)
(* effect at a time; each effect runs in a task that keeps the lease when   *)
(* the run's caller is dropped.  A model response is attested in the ledger *)
(* before its file is published, and completed after.  Cancels, retries,    *)
(* dropped callers and crashed processes come at any step.                  *)
(*                                                                         *)
(* The responses are numbered: 1..NumWindows transcribe the PCM windows,    *)
(* Anchors diarizes, Finalize maps them to a transcript.                    *)
(***************************************************************************)
EXTENDS LedgerOperations, Sequences

CONSTANTS
    Runs,         \* RunControl slots, reused once nobody holds one
    Processes,    \* app processes over one data directory
    Bodies,       \* the answers a model may give
    NumWindows,   \* PCM windows of the plan
    NoOne

Anchors == NumWindows + 1
Finalize == NumWindows + 2

ASSUME MossAssumption == NumWindows \in Nat \ {0} /\ NoOne \notin Runs \cup Bodies

VARIABLES
    ledger,
    moss,        \* MossPreparationCheckpoint / MossCheckpoint: the parts below
    files,       \* the generation directory and the derived PCM windows
    archived,    \* the local archive's manifest names this generation
    process,     \* the process each run slot belongs to
    registry,    \* ProcessingEngine::moss_operations, one entry per process
    run,
    task,
    canceller    \* a cancel_and_cleanup call in some process

vars == <<ledger, moss, files, archived, process, registry, run, task, canceller>>

durable == <<ledger, moss, files, archived>>

NoClaim == [owner |-> NoOne, kind |-> 0]

Idle == [at |-> "free", cancel |-> FALSE, body |-> NoOne]

NoCancel == [at |-> "idle", process |-> NoOne, run |-> NoOne, woken |-> FALSE]

NoTask == [at |-> "none", effect |-> "none", step |-> 0, result |-> "none"]

Init ==
    /\ ledger = Enqueued
    /\ moss = [prepared |-> 0, completed |-> <<>>, pending |-> NoOne, claim |-> NoClaim]
    \* an older release left a first response without a receipt
    /\ \E body \in Bodies :
         files = [windows |-> 0, plan |-> FALSE, preserved |-> {},
                  responses |-> [k \in 1..Anchors |-> IF k = 1 THEN body ELSE NoOne]]
    /\ archived = FALSE
    /\ process \in [Runs -> Processes]
    /\ registry = [p \in Processes |-> NoOne]
    /\ run = [r \in Runs |-> Idle]
    /\ task = [r \in Runs |-> NoTask]
    /\ canceller = NoCancel

-----------------------------------------------------------------------------
(* The lease, the claims, the task count.                                   *)

\* The task's Arc<OwnerLease>, dropped first in TaskScope::drop.
TaskOwns(r) == task[r].at \in {"starting", "running"}

\* OwnerLease: shared by the scope, until its fields are dropped, and the task.
HoldsLease(r) == run[r].at \notin {"free", "begin"} \/ TaskOwns(r)

LeaseFree == \A r \in Runs : ~HoldsLease(r)

\* RunControl::tasks
Tasks(r) == IF task[r].at \in {"starting", "running", "released"} THEN 1 ELSE 0

\* MossCheckpoint::next_effect
NextEffect == Len(moss.completed) + 1

\* MossCheckpoint::require_claim; kind 0 is the preparation's claim.
Claims(r, kind) ==
    /\ moss.claim = [owner |-> r, kind |-> kind]
    /\ kind \in {0, NextEffect}

Cancelled(r) == run[r].cancel

\* RunControl::closing
Closing(r) == run[r].at \in {"unregister", "release", "free"}

\* `body' is the response at hand within one stage.
Go(r, at) ==
    run' = [run EXCEPT ![r].at = at,
                       ![r].body = IF at \in {"write", "complete"} THEN @ ELSE NoOne]

\* The future returns: RunScope::drop runs.
Return(r) == Go(r, "drop")

\* The outcome of a store call: on Ok the run goes on at `next', on an error
\* `?` returns it.
Store(r, outcomes, next) ==
    \/ ledger' \in outcomes /\ Go(r, next)
    \/ outcomes = {} /\ UNCHANGED ledger /\ Return(r)

\* RunScope::task and tokio::spawn (or spawn_blocking).
Spawn(r, effect) ==
    task' = [task EXCEPT ![r] = [NoTask EXCEPT !.at = "starting", !.effect = effect]]

-----------------------------------------------------------------------------
(* Selecting and retrying, under an owner lease that ends with the call.     *)

SelectFullMoss ==
    /\ LeaseFree
    /\ ledger' \in BeginMossPreparation(ledger)
    /\ UNCHANGED <<moss, files, archived, process, registry, run, task, canceller>>

\* ProcessingEngine::retry up to run_until_wait: retry_moss_owned.
Retry ==
    /\ ~IsTerminal(ledger.state)
    /\ LeaseFree
    /\ \/ /\ ledger.state = "ProviderFailed"
          /\ ledger' \in IF ledger.local_moss = "preparing"
                         THEN RetryMossPreparation(ledger)
                         ELSE RetryLocalMoss(ledger)
          /\ moss' = [moss EXCEPT !.claim = NoClaim]
       \/ /\ ledger.state \in {"PublishFailed", "PublishConflict"}
          /\ ledger' \in RetryPublication(ledger)
          /\ UNCHANGED moss
       \/ /\ ledger.state = "SummaryAmbiguous"
          /\ ledger' \in ResolveSummaryForRetry(ledger)
          /\ UNCHANGED moss
    /\ UNCHANGED <<files, archived, process, registry, run, task, canceller>>

-----------------------------------------------------------------------------
(* A run: run_until_wait of a MossLocal ledger.                              *)

\* A dead session's claim keeps naming a session nobody has again.
Forget(sessions) ==
    moss' = IF moss.claim.owner \in sessions
            THEN [moss EXCEPT !.claim.owner = "gone"]
            ELSE moss

\* The slot is a new RunControl and a new session from here on.
Load(r) ==
    /\ run[r].at = "free"
    /\ task[r].at = "none"
    /\ canceller.run # r
    /\ ledger.transcription_backend = "MossLocal"
    /\ ~IsTerminal(ledger.state)
    /\ run' = [run EXCEPT ![r] = [Idle EXCEPT !.at = "begin"]]
    /\ Forget({r})
    /\ UNCHANGED <<ledger, files, archived, process, registry, task, canceller>>

\* Mutant: the registry alone keeps runs apart.
Begin_NoLease(r) ==
    /\ run[r].at = "begin"
    /\ IF registry[process[r]] # NoOne
       THEN run' = [run EXCEPT ![r] = Idle] /\ UNCHANGED registry
       ELSE /\ Go(r, "recover")
            /\ registry' = [registry EXCEPT ![process[r]] = r]
    /\ UNCHANGED <<durable, process, task, canceller>>

\* begin_moss_run, under the registry's lock.
Begin(r) ==
    /\ run[r].at = "begin"
    /\ IF registry[process[r]] # NoOne \/ ~LeaseFree
       THEN run' = [run EXCEPT ![r] = Idle] /\ UNCHANGED registry
       ELSE /\ Go(r, "recover")
            /\ registry' = [registry EXCEPT ![process[r]] = r]
    /\ UNCHANGED <<durable, process, task, canceller>>

\* Mutant: whatever the last run left is taken for a crashed summary.
Recover_Anything(r) ==
    /\ run[r].at = "recover"
    /\ Store(r, {[ledger EXCEPT !.state = "Summarizing"]}, "loop")
    /\ UNCHANGED <<moss, files, archived, process, registry, task, canceller>>

\* recover_moss_local_summary
Recover(r) ==
    /\ run[r].at = "recover"
    /\ Store(r, RecoverMossLocalSummary(ledger), "loop")
    /\ UNCHANGED <<moss, files, archived, process, registry, task, canceller>>

\* The effect resume names, read off the ledger it leaves.
Effect(l) ==
    CASE l.state = "PreparingLocalMoss" -> "prepare"
      [] l.state = "LocalTranscribing" -> "stage"
      [] l.state = "SummarySubmitting" -> "summarize"
      [] l.state = "Summarizing" -> "plan"
      [] l.state = "Publishing" /\ ~AllVerified(l) -> "publish"
      [] l.state = "Publishing" /\ ~l.canonical_backup -> "verify"
      [] l.state = "Publishing" -> "cleanup"
      [] OTHER -> "drop"

\* One turn of the loop: the cancel check, then ProcessingStore::resume.
Loop(r) ==
    /\ run[r].at = "loop"
    /\ IF Cancelled(r)
       THEN Return(r) /\ UNCHANGED ledger
       ELSE /\ ledger' \in Resume(ledger)
            /\ Go(r, Effect(ledger'))
    /\ UNCHANGED <<moss, files, archived, process, registry, task, canceller>>

Stopped(r) == Cancelled(r) \/ IsTerminal(ledger.state)

\* run_moss_preparation up to its await: load, claim, spawn.
ClaimPreparation(r) ==
    /\ run[r].at = "prepare"
    /\ IF Stopped(r)
       THEN Go(r, "loop") /\ UNCHANGED <<moss, task>>
       ELSE IF ledger.state = "PreparingLocalMoss" /\ moss.claim.owner # r
       THEN /\ moss' = [moss EXCEPT !.claim = [owner |-> r, kind |-> 0]]
            /\ Spawn(r, "prepare")
            /\ Go(r, "await")
       ELSE Return(r) /\ UNCHANGED <<moss, task>>
    /\ UNCHANGED <<ledger, files, archived, process, registry, canceller>>

\* run_moss_stage: the load whose pending response the stage goes on using.
LoadStage(r) ==
    /\ run[r].at = "stage"
    /\ run' = [run EXCEPT ![r].at = IF Stopped(r) THEN "loop" ELSE "claim",
                          ![r].body = IF Stopped(r) THEN NoOne ELSE moss.pending]
    /\ UNCHANGED <<durable, process, registry, task, canceller>>

ClaimEffect(r) ==
    /\ run[r].at = "claim"
    /\ IF MossActive(ledger) /\ moss.claim.owner # r
       THEN /\ moss' = [moss EXCEPT !.claim = [owner |-> r, kind |-> NextEffect]]
            /\ run' = [run EXCEPT ![r].at = "pending"]
       ELSE Return(r) /\ UNCHANGED moss
    /\ UNCHANGED <<ledger, files, archived, process, registry, task, canceller>>

\* checkpoint_moss_window and checkpoint_moss_anchors
CanComplete(r, body) ==
    /\ MossActive(ledger)
    /\ Claims(r, NextEffect)
    /\ moss.pending \in {NoOne, body}
    /\ files.responses[NextEffect] = body

Complete(body) ==
    moss' = [moss EXCEPT !.completed = Append(@, body),
                         !.pending = NoOne,
                         !.claim = NoClaim]

\* Mutant: an earlier run's intent is withdrawn whether its file is there or not.
TakePending_Withdraws(r) ==
    /\ run[r].at = "pending"
    /\ moss' = [moss EXCEPT !.pending = NoOne]
    /\ Go(r, "preserve")
    /\ UNCHANGED <<ledger, files, archived, process, registry, task, canceller>>

\* An intent is on record.  Its file completes it without another inference;
\* without a file clear_missing_moss_response withdraws it.
TakePending(r) ==
    /\ run[r].at = "pending"
    /\ LET body == run[r].body
           present == files.responses[NextEffect] # NoOne
       IN \/ body = NoOne /\ Go(r, "preserve") /\ UNCHANGED moss
          \/ /\ body # NoOne /\ present /\ CanComplete(r, body)
             /\ Complete(body) /\ Go(r, "loop")
          \/ /\ body # NoOne /\ ~present
             /\ MossActive(ledger) /\ Claims(r, NextEffect)
             /\ moss' = [moss EXCEPT !.pending = NoOne]
             /\ Go(r, "preserve")
          \/ /\ body # NoOne
             /\ IF present THEN ~CanComplete(r, body) ELSE ~MossActive(ledger)
             /\ Go(r, "fail") /\ UNCHANGED moss
    /\ UNCHANGED <<ledger, files, archived, process, registry, task, canceller>>

\* The response no receipt names yet.
Unreceipted == NextEffect

\* Mutant: whatever is in the way stays there.
Preserve_Nothing(r) ==
    /\ run[r].at = "preserve"
    /\ Go(r, "infer")
    /\ UNCHANGED <<durable, process, registry, task, canceller>>

\* preserve_unreceipted: link the body under a name that says it is not
\* attested, and only then drop its canonical name.
Preserve(r) ==
    /\ run[r].at \in {"preserve", "unlink"}
    /\ IF Unreceipted = Finalize \/ files.responses[Unreceipted] = NoOne
       THEN Go(r, "infer") /\ UNCHANGED files
       ELSE IF run[r].at = "preserve"
       THEN /\ files' = [files EXCEPT !.preserved =
                           @ \cup {<<Unreceipted, files.responses[Unreceipted]>>}]
            /\ Go(r, "unlink")
       ELSE /\ files' = [files EXCEPT !.responses[Unreceipted] = NoOne]
            /\ Go(r, "infer")
    /\ UNCHANGED <<ledger, moss, archived, process, registry, task, canceller>>

\* owned_effect of the inference, or the blocking mapping of the responses.
StartInference(r) ==
    /\ run[r].at = "infer"
    /\ Spawn(r, IF NextEffect = Finalize THEN "map" ELSE "infer")
    /\ Go(r, "await")
    /\ UNCHANGED <<durable, process, registry, canceller>>

StartSummary(r) ==
    /\ run[r].at = "summarize"
    /\ Spawn(r, "summarize")
    /\ Go(r, "await")
    /\ UNCHANGED <<durable, process, registry, canceller>>

\* publication_plan is pure; PublishTarget marks the target before the effect.
Plan(r) ==
    /\ run[r].at = "plan"
    /\ Store(r, PlanPublication(ledger), "loop")
    /\ UNCHANGED <<moss, files, archived, process, registry, task, canceller>>

StartPublish(r) ==
    /\ run[r].at = "publish"
    /\ \E t \in FirstUnverified(ledger) \cup {1} :
         LET started == StartPublicationTarget(ledger, ledger.generation, t)
         IN /\ FirstUnverified(ledger) # {} => t \in FirstUnverified(ledger)
            /\ Store(r, started, "await")
            /\ IF started = {} THEN UNCHANGED task ELSE Spawn(r, "publish")
    /\ UNCHANGED <<moss, files, archived, process, registry, canceller>>

StartVerify(r) ==
    /\ run[r].at = "verify"
    /\ Spawn(r, "verify")
    /\ Go(r, "await")
    /\ UNCHANGED <<durable, process, registry, canceller>>

Cleanup(r) ==
    /\ run[r].at = "cleanup"
    /\ Store(r, CheckpointCleanup(ledger, ledger.generation), "drop")
    /\ UNCHANGED <<moss, files, archived, process, registry, task, canceller>>

-----------------------------------------------------------------------------
(* The answer of a finished task.                                           *)

Joined(r, effect) ==
    /\ run[r].at = "await"
    /\ task[r].at = "finished"
    /\ task[r].effect = effect

JoinPreparation(r) ==
    /\ Joined(r, "prepare")
    /\ task' = [task EXCEPT ![r] = NoTask]
    /\ IF task[r].result = "ok" \/ Stopped(r)
       THEN Go(r, "loop") /\ UNCHANGED <<ledger, moss>>
       ELSE /\ Return(r)
            /\ IF Claims(r, 0) /\ FailMossPreparation(ledger) # {}
               THEN /\ ledger' \in FailMossPreparation(ledger)
                    /\ moss' = [moss EXCEPT !.claim = NoClaim]
               ELSE UNCHANGED <<ledger, moss>>
    /\ UNCHANGED <<files, archived, process, registry, canceller>>

\* A body passes the cancel check and is attested next; an error fails the stage.
JoinInference(r) ==
    /\ Joined(r, "infer")
    /\ task' = [task EXCEPT ![r] = NoTask]
    /\ IF task[r].result \notin Bodies
       THEN Go(r, "fail")
       ELSE IF Stopped(r)
       THEN Go(r, "loop")
       ELSE run' = [run EXCEPT ![r].at = "attest", ![r].body = task[r].result]
    /\ UNCHANGED <<durable, process, registry, canceller>>

\* prepare_moss_response: the intent that names the exact body.
Attest(r) ==
    /\ run[r].at = "attest"
    /\ IF /\ MossActive(ledger)
          /\ Claims(r, NextEffect)
          /\ moss.pending \in {NoOne, run[r].body}
       THEN moss' = [moss EXCEPT !.pending = run[r].body] /\ Go(r, "write")
       ELSE Go(r, "fail") /\ UNCHANGED moss
    /\ UNCHANGED <<ledger, files, archived, process, registry, task, canceller>>

\* MossArtifacts::write: create-only; a file that is there must be the same.
Write(r) ==
    /\ run[r].at = "write"
    /\ LET present == files.responses[NextEffect]
       IN IF present \in {NoOne, run[r].body}
          THEN /\ files' = [files EXCEPT !.responses[NextEffect] = run[r].body]
               /\ Go(r, "complete")
          ELSE Go(r, "fail") /\ UNCHANGED files
    /\ UNCHANGED <<ledger, moss, archived, process, registry, task, canceller>>

CompleteEffect(r) ==
    /\ run[r].at = "complete"
    /\ IF CanComplete(r, run[r].body)
       THEN Complete(run[r].body) /\ Go(r, "loop")
       ELSE Go(r, "fail") /\ UNCHANGED moss
    /\ UNCHANGED <<ledger, files, archived, process, registry, task, canceller>>

JoinMapping(r) ==
    /\ Joined(r, "map")
    /\ task' = [task EXCEPT ![r] = NoTask]
    /\ IF task[r].result # "ok"
       THEN Go(r, "fail")
       ELSE IF Stopped(r) THEN Go(r, "loop") ELSE Go(r, "finalize")
    /\ UNCHANGED <<durable, process, registry, canceller>>

\* finalize_moss_transcript reads every response it is built from again.
FinalizeTranscript(r) ==
    /\ run[r].at = "finalize"
    /\ IF /\ Claims(r, Finalize)
          /\ \A k \in 1..Anchors : files.responses[k] = moss.completed[k]
          /\ FinalizeMossTranscript(ledger) # {}
       THEN /\ ledger' \in FinalizeMossTranscript(ledger)
            /\ moss' = [moss EXCEPT !.claim = NoClaim]
            /\ Go(r, "loop")
       ELSE Go(r, "fail") /\ UNCHANGED <<ledger, moss>>
    /\ UNCHANGED <<files, archived, process, registry, task, canceller>>

\* The stage's error arm.
FailStage(r) ==
    /\ run[r].at = "fail"
    /\ IF Stopped(r)
       THEN Go(r, "loop") /\ UNCHANGED <<ledger, moss>>
       ELSE /\ Return(r)
            /\ IF Claims(r, NextEffect) /\ MarkMossEffectFailed(ledger) # {}
               THEN /\ ledger' \in MarkMossEffectFailed(ledger)
                    /\ moss' = [moss EXCEPT !.claim = NoClaim]
               ELSE UNCHANGED <<ledger, moss>>
    /\ UNCHANGED <<files, archived, process, registry, task, canceller>>

JoinSummary(r) ==
    /\ Joined(r, "summarize")
    /\ task' = [task EXCEPT ![r] = NoTask]
    /\ IF Cancelled(r)
       THEN Return(r) /\ UNCHANGED ledger
       ELSE CASE task[r].result = "ok" -> Store(r, CheckpointSummary(ledger), "loop")
              [] task[r].result = "rejected" ->
                   Store(r, AbortSummaryBeforeDispatch(ledger), "drop")
              [] OTHER -> Return(r) /\ UNCHANGED ledger
    /\ UNCHANGED <<moss, files, archived, process, registry, canceller>>

JoinPublish(r) ==
    /\ Joined(r, "publish")
    /\ task' = [task EXCEPT ![r] = NoTask]
    /\ \E t \in FirstUnverified(ledger) :
         CASE task[r].result = "ok" ->
                Store(r, CheckpointPublicationTarget(ledger, ledger.generation, t), "loop")
           [] task[r].result = "conflict" ->
                Store(r, MarkPublicationConflict(ledger), "drop")
           [] OTHER ->
                Store(r, FailPublicationTarget(ledger, ledger.generation, t, FALSE), "drop")
    /\ UNCHANGED <<moss, files, archived, process, registry, canceller>>

JoinVerify(r) ==
    /\ Joined(r, "verify")
    /\ task' = [task EXCEPT ![r] = NoTask]
    /\ IF task[r].result = "ok"
       THEN Store(r, CheckpointCanonicalBackup(ledger, ledger.generation), "loop")
       ELSE Return(r) /\ UNCHANGED ledger
    /\ UNCHANGED <<moss, files, archived, process, registry, canceller>>

-----------------------------------------------------------------------------
(* The tasks.                                                               *)

\* The effect ends and TaskScope::drop begins: the lease goes first.
Answer(r, result) ==
    task' = [task EXCEPT ![r].at = "released", ![r].result = result]

\* Mutant: the worker is started without a look at the cancel flag.
StartTask_NotReady(r) ==
    /\ task[r].at = "starting"
    /\ task' = [task EXCEPT ![r].at = "running"]
    /\ UNCHANGED <<durable, process, registry, run, canceller>>

\* The worker's ready() check; preparation and publication start at once.
StartTask(r) ==
    /\ task[r].at = "starting"
    /\ IF task[r].effect \in {"infer", "summarize"} /\ Cancelled(r)
       THEN Answer(r, "cancelled")
       ELSE task' = [task EXCEPT ![r].at = "running"]
    /\ UNCHANGED <<durable, process, registry, run, canceller>>

\* The worker answers, fails or is killed on the cancel flag.
EndWorker(r) ==
    /\ task[r].at = "running"
    /\ \/ task[r].effect = "infer" /\ \E body \in Bodies : Answer(r, body)
       \/ task[r].effect = "summarize" /\ Answer(r, "ok")
       \/ task[r].effect = "summarize" /\ Answer(r, "rejected")
       \/ task[r].effect = "verify" /\ Answer(r, IF archived THEN "ok" ELSE "failed")
       \/ task[r].effect = "map" /\ Answer(r, IF Cancelled(r) THEN "cancelled" ELSE "ok")
       \/ task[r].effect # "prepare" /\ Answer(r, "failed")
    /\ UNCHANGED <<durable, process, registry, run, canceller>>

\* publish_local_only writes manifest.json before the views that may still fail.
Archive(r) ==
    /\ task[r].at = "running"
    /\ task[r].effect = "publish"
    /\ archived' = TRUE
    /\ \E result \in {"ok", "failed"} : Answer(r, result)
    /\ UNCHANGED <<ledger, moss, files, process, registry, run, canceller>>

\* The recording was deleted from the archive.
ArchiveConflict(r) ==
    /\ task[r].at = "running"
    /\ task[r].effect = "publish"
    /\ ~archived
    /\ Answer(r, "conflict")
    /\ UNCHANGED <<durable, process, registry, run, canceller>>

\* prepare_moss_source between two windows: the cancel flag and the claim.
Preparing(r) ==
    /\ ~Cancelled(r)
    /\ ledger.state = "PreparingLocalMoss"
    /\ Claims(r, 0)

\* prepare_moss_source: for each window publish its PCM file and record it,
\* then write the plan and complete.  Window step \div 2 is at hand.
Prepare(r) ==
    /\ task[r].at = "running"
    /\ task[r].effect = "prepare"
    /\ LET step == task[r].step
           window == step \div 2
           advance == task' = [task EXCEPT ![r].step = step + 1]
       IN \/ Answer(r, "failed") /\ UNCHANGED durable
          \/ /\ window < NumWindows /\ step % 2 = 0
             /\ Preparing(r)
             /\ files' = [files EXCEPT !.windows = IF window < @ THEN @ ELSE window + 1]
             /\ advance /\ UNCHANGED <<ledger, moss, archived>>
          \/ /\ window < NumWindows /\ step % 2 = 1
             /\ ledger.state = "PreparingLocalMoss" /\ Claims(r, 0)
             /\ window <= moss.prepared
             /\ moss' = [moss EXCEPT !.prepared = IF window < @ THEN @ ELSE window + 1]
             /\ advance /\ UNCHANGED <<ledger, files, archived>>
          \/ /\ step = 2 * NumWindows
             /\ Preparing(r)
             /\ files' = [files EXCEPT !.plan = TRUE]
             /\ advance /\ UNCHANGED <<ledger, moss, archived>>
          \/ /\ step = 2 * NumWindows + 1
             /\ ~Cancelled(r) /\ Claims(r, 0)
             /\ moss.prepared = NumWindows
             /\ ledger' \in CompleteMossPreparation(ledger)
             /\ moss' = [moss EXCEPT !.claim = NoClaim]
             /\ Answer(r, "ok") /\ UNCHANGED <<files, archived>>
    /\ UNCHANGED <<process, registry, run, canceller>>

\* Mutant: nobody is woken.
CountDown_Silent(r) ==
    /\ task[r].at = "released"
    /\ task' = [task EXCEPT ![r].at = "counted"]
    /\ UNCHANGED <<durable, process, registry, run, canceller>>

\* tasks - 1, then notify_waiters: whoever enabled its Notified is woken.
CountDown(r) ==
    /\ task[r].at = "released"
    /\ task' = [task EXCEPT ![r].at = "counted"]
    /\ canceller' = IF canceller.run = r /\ canceller.at \in {"armed", "asleep"}
                    THEN [canceller EXCEPT !.woken = TRUE]
                    ELSE canceller
    /\ UNCHANGED <<durable, process, registry, run>>

\* remove_closed_run
Removed(r) ==
    IF registry[process[r]] = r
    THEN [registry EXCEPT ![process[r]] = NoOne]
    ELSE registry

\* Mutant: the task leaves the registry to the run that is long gone.
EndTask_LeavesEntry(r) ==
    /\ task[r].at = "counted"
    /\ task' = [task EXCEPT ![r] = IF run[r].at = "await"
                                   THEN [@ EXCEPT !.at = "finished"]
                                   ELSE NoTask]
    /\ UNCHANGED <<durable, process, registry, run, canceller>>

\* Nobody joins the task of a run whose caller was dropped.
EndTask(r) ==
    /\ task[r].at = "counted"
    /\ registry' = IF Closing(r) THEN Removed(r) ELSE registry
    /\ task' = [task EXCEPT ![r] = IF run[r].at = "await"
                                   THEN [@ EXCEPT !.at = "finished"]
                                   ELSE NoTask]
    /\ UNCHANGED <<durable, process, run, canceller>>

-----------------------------------------------------------------------------
(* The end of a run.                                                        *)

\* RunScope::drop up to remove_closed_run.
DropScope(r) ==
    /\ run[r].at = "drop"
    /\ run' = [run EXCEPT ![r].at = "unregister", ![r].cancel = TRUE]
    /\ UNCHANGED <<durable, process, registry, task, canceller>>

Unregister(r) ==
    /\ run[r].at = "unregister"
    /\ registry' = IF Tasks(r) = 0 THEN Removed(r) ELSE registry
    /\ Go(r, "release")
    /\ UNCHANGED <<durable, process, task, canceller>>

\* The scope's fields are dropped, its lease with them.
ReleaseScope(r) ==
    /\ run[r].at = "release"
    /\ Go(r, "free")
    /\ UNCHANGED <<durable, process, registry, task, canceller>>

\* The caller of run_until_wait is dropped at an await.
DropCaller(r) ==
    /\ run[r].at = "await"
    /\ Return(r)
    /\ task' = [task EXCEPT ![r] = IF task[r].at = "finished" THEN NoTask ELSE @]
    /\ UNCHANGED <<durable, process, registry, canceller>>

Crash(p) ==
    LET dead == {r \in Runs : process[r] = p}
    IN /\ \E r \in dead : run[r].at # "free" \/ task[r].at # "none"
       /\ Forget(dead)
       /\ registry' = [registry EXCEPT ![p] = NoOne]
       /\ run' = [r \in Runs |-> IF r \in dead THEN Idle ELSE run[r]]
       /\ task' = [r \in Runs |-> IF r \in dead THEN NoTask ELSE task[r]]
       /\ canceller' = IF canceller.process = p THEN NoCancel ELSE canceller
       /\ UNCHANGED <<ledger, files, archived, process>>

-----------------------------------------------------------------------------
(* cancel_and_cleanup.                                                      *)

Wait(at) == canceller' = [canceller EXCEPT !.at = at]

CancelStore(p) ==
    /\ canceller.at = "idle"
    /\ ledger.transcription_backend = "MossLocal"
    /\ ledger' \in Cancel(ledger)
    /\ canceller' = [NoCancel EXCEPT !.at = "signal", !.process = p]
    /\ UNCHANGED <<moss, files, archived, process, registry, run, task>>

\* signal_moss_cancel
Signal ==
    /\ canceller.at = "signal"
    /\ LET r == registry[canceller.process]
       IN IF r = NoOne
          THEN Wait("returned") /\ UNCHANGED run
          ELSE /\ canceller' = [canceller EXCEPT !.at = "wait", !.run = r]
               /\ run' = [run EXCEPT ![r].cancel = TRUE]
    /\ UNCHANGED <<durable, process, registry, task>>

\* wait_idle: enable the Notified, check the count, sleep.
Arm ==
    /\ canceller.at = "wait"
    /\ canceller' = [canceller EXCEPT !.at = "armed", !.woken = FALSE]
    /\ UNCHANGED <<durable, process, registry, run, task>>

CheckTasks ==
    /\ canceller.at = "armed"
    /\ IF Tasks(canceller.run) = 0
       THEN canceller' = [canceller EXCEPT !.at = "returned", !.run = NoOne,
                                           !.woken = FALSE]
       ELSE Wait("asleep")
    /\ UNCHANGED <<durable, process, registry, run, task>>

Wake ==
    /\ canceller.at = "asleep"
    /\ canceller.woken
    /\ Wait("wait")
    /\ UNCHANGED <<durable, process, registry, run, task>>

-----------------------------------------------------------------------------

RunStep(r) ==
    \/ Recover(r) \/ Loop(r) \/ ClaimPreparation(r) \/ LoadStage(r) \/ ClaimEffect(r)
    \/ TakePending(r) \/ Preserve(r) \/ StartInference(r) \/ StartSummary(r)
    \/ Plan(r) \/ StartPublish(r) \/ StartVerify(r) \/ Cleanup(r)
    \/ JoinPreparation(r) \/ JoinInference(r) \/ Attest(r) \/ Write(r)
    \/ CompleteEffect(r) \/ JoinMapping(r) \/ FinalizeTranscript(r) \/ FailStage(r)
    \/ JoinSummary(r) \/ JoinPublish(r) \/ JoinVerify(r)
    \/ DropScope(r) \/ Unregister(r) \/ ReleaseScope(r)

TaskStep(r) ==
    \/ StartTask(r) \/ EndWorker(r) \/ Archive(r) \/ ArchiveConflict(r) \/ Prepare(r)
    \/ CountDown(r) \/ EndTask(r)

CancelStep == Signal \/ Arm \/ CheckTasks \/ Wake

Next ==
    \/ SelectFullMoss \/ Retry
    \/ \E r \in Runs :
         Load(r) \/ Begin(r) \/ RunStep(r) \/ TaskStep(r) \/ DropCaller(r)
    \/ \E p \in Processes : CancelStore(p) \/ Crash(p)
    \/ CancelStep

Spec == Init /\ [][Next]_vars

-----------------------------------------------------------------------------
(* Properties.                                                              *)

\* Whatever the ledger has recorded is on disk, byte for byte: the windows it
\* lists, the plan of a job that transcribes, the body of every completed
\* response; and an intent whose file exists attests exactly that file, so that
\* no crash, stale claim or second process leaves a job whose next run could
\* only find a conflict.
EvidenceMatchesFiles ==
    /\ moss.prepared <= files.windows
    /\ ledger.local_moss \in {"ready", "finalized"} => files.plan
    /\ \A k \in 1..Len(moss.completed) : files.responses[k] = moss.completed[k]
    /\ moss.pending # NoOne => files.responses[NextEffect] \in {NoOne, moss.pending}

\* One effect of a recording at a time, over all processes, dropped callers
\* and cancels (the two models would exhaust the machine's memory, and two
\* publications would write one archive).
OneEffect == \A q, r \in Runs : TaskOwns(q) /\ TaskOwns(r) => q = r

\* After cancel_and_cleanup has returned no worker of this process runs.
CanceledIsQuiet ==
    \A r \in Runs :
        canceller.at = "returned" /\ process[r] = canceller.process =>
            ~ (task[r].at = "running" /\ task[r].effect \in {"infer", "summarize"})

\* A run that ended is never left in the registry, whichever of the run's and
\* its task's drops came last: its entry would refuse the recording for good.
EndedRunIsForgotten ==
    \A r \in Runs :
        run[r].at = "free" /\ task[r].at = "none" => registry[process[r]] # r

\* No model answer is wasted.  A body leaves its file only when a copy is kept,
\* and never once it is attested; an intent whose body is on disk ends by
\* completing exactly that body, whatever crashed in between.
AnswersAreKept ==
    [][/\ \A k \in 1..Anchors :
            files.responses[k] # NoOne /\ files'.responses[k] # files.responses[k] =>
              /\ <<k, files.responses[k]>> \in files.preserved
              /\ k > Len(moss.completed)
              /\ moss.pending = NoOne
       /\ moss.pending # NoOne /\ files.responses[NextEffect] = moss.pending
            /\ moss'.pending # moss.pending
            => moss'.completed = Append(moss.completed, moss.pending)]_vars

\* wait_idle never misses its wake-up: whoever sleeps waits for a task that
\* still counts, or has been woken.
NoLostWakeUp ==
    canceller.at = "asleep" => canceller.woken \/ Tasks(canceller.run) # 0

LedgerStore == INSTANCE ProcessingLedger

\* Every change of the ledger is an operation of the store.
ImplementsStore == LedgerStore!Spec

\* "never report a terminal cancellation with an untracked archive"
\* (processing/mod.rs, cancel)
NoUntrackedArchive == ledger.state \in CanceledStates => ~archived
=============================================================================
