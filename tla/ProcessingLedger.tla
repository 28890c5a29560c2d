-------------------------- MODULE ProcessingLedger --------------------------
(***************************************************************************)
(* ProcessingStore by itself (processing/mod.rs): one recording's ledger   *)
(* under every operation of LedgerOperations, in every order.  The store   *)
(* runs an operation under its writer mutex and a process-wide file lock,  *)
(* so an operation is one step.  What holds here holds for whoever calls.  *)
(***************************************************************************)
EXTENDS LedgerOperations

VARIABLE ledger

-----------------------------------------------------------------------------
(* The store by itself: any caller, any order.  Every operation is offered   *)
(* in every state with every generation and target, as racing effects and    *)
(* stale receipts offer them.                                                *)

Init == ledger \in {Enqueued, LegacyComplete}

\* The 30 days pass (Utc::now() reaches the recorded instant).
RetentionElapses ==
    /\ ledger.source_tracks_delete_after = "scheduled"
    /\ ledger' = [ledger EXCEPT !.source_tracks_delete_after = "due"]

SelectionStep ==
    \/ ledger' \in SelectLocalWhisper(ledger)
    \/ \E backend \in {"WhisperLocal", "QwenLocal"} :
         \/ ledger' \in SelectFullLocal(ledger, backend)
         \/ ledger' \in TakeOverWithFullLocal(ledger, backend)
    \/ ledger' \in AcceptLocalTranscriptOnly(ledger)
    \/ ledger' \in CheckpointLocalWhisperTranscript(ledger)
    \/ ledger' \in MarkLocalWhisperFailed(ledger)

MossStep ==
    \/ ledger' \in BeginMossPreparation(ledger)
    \/ ledger' \in CompleteMossPreparation(ledger)
    \/ ledger' \in FailMossPreparation(ledger)
    \/ ledger' \in RetryMossPreparation(ledger)
    \/ ledger' \in SelectFullLocalMoss(ledger)
    \/ ledger' \in TakeOverWithFullLocalMoss(ledger)
    \/ ledger' \in FinalizeMossTranscript(ledger)
    \/ ledger' \in MarkMossEffectFailed(ledger)
    \/ ledger' \in RetryLocalMoss(ledger)
    \/ ledger' \in RecoverMossLocalSummary(ledger)

RemoteStep ==
    \/ ledger' \in BeginUpload(ledger)
    \/ ledger' \in CheckpointTosObject(ledger)
    \/ ledger' \in MarkUploadRejected(ledger)
    \/ ledger' \in BeginMiaojiSubmit(ledger)
    \/ ledger' \in CheckpointMiaojiTask(ledger)
    \/ ledger' \in MarkSubmitAmbiguous(ledger)
    \/ ledger' \in MarkSubmitRejected(ledger)
    \/ ledger' \in RetryProvider(ledger)
    \/ ledger' \in ResolveSubmitForRetry(ledger)
    \/ ledger' \in CheckpointTranscript(ledger)

SummaryStep ==
    \/ ledger' \in CheckpointSummary(ledger)
    \/ ledger' \in AbortSummaryBeforeDispatch(ledger)
    \/ ledger' \in ResolveSummaryForRetry(ledger)

PublicationStep ==
    \/ ledger' \in PlanPublication(ledger)
    \/ \E g \in 1..MaxGeneration, t \in Targets :
         \/ ledger' \in StartPublicationTarget(ledger, g, t)
         \/ ledger' \in CheckpointPublicationTarget(ledger, g, t)
         \/ \E ambiguous \in BOOLEAN :
              ledger' \in FailPublicationTarget(ledger, g, t, ambiguous)
    \/ ledger' \in MarkPublicationConflict(ledger)
    \/ \E g \in 1..MaxGeneration : ledger' \in CheckpointCanonicalBackup(ledger, g)
    \/ ledger' \in RetryPublication(ledger)
    \/ ledger' \in BeginReprocess(ledger)
    \/ ledger' \in BeginRemoteBackup(ledger)

CleanupStep ==
    \/ \E g \in 1..MaxGeneration : ledger' \in CheckpointCleanup(ledger, g)
    \/ ledger' \in CheckpointSourceTracksDeleted(ledger)
    \/ ledger' \in CheckpointCanceledTosCleanup(ledger)
    \/ ledger' \in CheckpointCanceledUploadAbsent(ledger)
    \/ ledger' \in BeginDiscard(ledger)
    \/ ledger' \in CheckpointDiscarded(ledger)
    \/ ledger' \in Cancel(ledger)

Next ==
    \/ SelectionStep \/ MossStep \/ RemoteStep \/ SummaryStep
    \/ PublicationStep \/ CleanupStep
    \/ ledger' \in Resume(ledger)
    \/ RetentionElapses

Spec == Init /\ [][Next]_ledger

-----------------------------------------------------------------------------
(* Properties.                                                              *)

\* The ledger is a well-typed record (the serde types of ProcessingLedger).
TypeOK == ledger \in Ledger

\* A job reported Complete is backed up: every required target of its CURRENT
\* generation is Verified and the canonical backup is recorded.  validate()
\* checks the backup but not the targets, so this rests on the whole path from
\* plan_publication to checkpoint_cleanup, through conflicts, retries, stale
\* receipts and new generations.
CompleteIsBackedUp ==
    ledger.state = "Complete" =>
        HasPublication(ledger) /\ RequiredVerified(ledger) /\ ledger.canonical_backup

\* Discarding a recording destroys the only local evidence of its upload, so
\* it starts only when no recorded temporary object is left behind, whatever
\* order cancel, the late upload receipt and the cleanup came in.
DiscardLeavesNoObject ==
    ledger.state \in DiscardStates /\ ledger.tos_object =>
        ledger.temporary_tos_deleted

\* Durable evidence is never lost: a recorded object, transcript or accepted
\* task stays (an accepted task may only become superseded), generations only
\* grow, and within a generation a Verified target stays Verified.
EvidenceIsKept ==
    [][/\ ledger.tos_object => ledger'.tos_object
       /\ ledger.transcript_json => ledger'.transcript_json
       /\ ledger.miaoji = "accepted" => ledger'.miaoji \in {"accepted", "superseded"}
       /\ ledger.miaoji = "superseded" => ledger'.miaoji = "superseded"
       /\ ledger'.generation >= ledger.generation
       /\ ledger'.generation = ledger.generation =>
            \A t \in Targets :
              ledger.targets[t] = "Verified" => ledger'.targets[t] = "Verified"
      ]_ledger

\* Every change of state is an edge of the transition table, also the ones
\* resume assigns without asking it.
StepsFollowTable ==
    [][ledger'.state # ledger.state => CanTransition(ledger.state, ledger'.state)]_ledger

\* resume never fails on a ledger the operations can produce: the ledger it
\* computes past transition() is one the validator accepts.
ResumeNeverFails == Resume(ledger) # {}

\* Whatever effect the ledger is waiting for, the receipt of its success is
\* accepted: no job runs an effect (a charge, a publication) whose result the
\* store would refuse to record.  In particular a job that starts a new
\* generation can still plan it when its summary has arrived.
ReceiptsAreAccepted ==
    /\ ledger.state \in {"Uploading", "CancelingUpload"} =>
         CheckpointTosObject(ledger) # {}
    /\ ledger.state = "Submitting" => CheckpointMiaojiTask(ledger) # {}
    /\ ledger.state = "Polling" => CheckpointTranscript(ledger) # {}
    /\ ledger.state = "LocalTranscribing" /\ IsLocalWorker(ledger) =>
         CheckpointLocalWhisperTranscript(ledger) # {}
    /\ MossActive(ledger) => FinalizeMossTranscript(ledger) # {}
    /\ ledger.state = "SummarySubmitting" => CheckpointSummary(ledger) # {}
    /\ ledger.state = "Summarizing" /\ ledger.summary_json =>
         PlanPublication(ledger) # {}
    /\ ledger.state = "Publishing" =>
         /\ \A t \in FirstUnverified(ledger) :
              ledger.targets[t] = "Started" =>
                CheckpointPublicationTarget(ledger, ledger.generation, t) # {}
         /\ AllVerified(ledger) =>
              CheckpointCanonicalBackup(ledger, ledger.generation) # {}
         /\ AllVerified(ledger) /\ ledger.canonical_backup =>
              CheckpointCleanup(ledger, ledger.generation) # {}
    /\ ledger.state = "CanceledAfterUpload" =>
         CheckpointCanceledTosCleanup(ledger) # {}

\* "Cancel stops further processing but preserves the app-owned local
\* recording" (docs/capture/PLAN.md): for the remote and the fallback backends,
\* whose cancel has no fence of its own, a job that is neither complete nor
\* being discarded can be canceled.
CancelIsPersistable ==
    ledger.transcription_backend # "MossLocal"
      /\ ledger.state \notin DiscardStates \cup {"Complete"} =>
        Cancel(ledger) # {}
=============================================================================
