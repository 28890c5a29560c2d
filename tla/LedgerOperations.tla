-------------------------- MODULE LedgerOperations --------------------------
(***************************************************************************)
(* The durable processing ledger of one recording and every operation      *)
(* ProcessingStore offers on it (processing/mod.rs, moss_preparation.rs,   *)
(* moss_ledger.rs).                                                        *)
(*                                                                         *)
(* The store runs an operation under its writer mutex and a process-wide   *)
(* file lock: it loads the ledger, runs a closure on it, and validates and *)
(* persists the result, so one operation is one atomic step.  Each         *)
(* operation is an operator from a ledger to the SET of ledgers it may     *)
(* leave behind: {} is an error (nothing is persisted), {l} is Ok with     *)
(* nothing to change, {n} is Ok with n persisted.                          *)
(*                                                                         *)
(* A checkpoint's payload (locators, digests, model identities, JSON) is   *)
(* abstracted to its presence; the plan of publication targets is fixed.   *)
(***************************************************************************)
EXTENDS Naturals, ProcessingState

CONSTANTS
    NumTargets,       \* publication targets in a plan; they are published in order
    AtMostOnce,       \* targets whose retry_mode is RetryMode::AtMostOnce
    Required,         \* targets the canonical backup depends on
    MaxGeneration     \* the last publication generation before it is exhausted

Targets == 1..NumTargets

ASSUME LedgerAssumption ==
    /\ NumTargets \in Nat \ {0}
    /\ AtMostOnce \subseteq Targets
    /\ Required \subseteq Targets
    /\ MaxGeneration \in Nat \ {0}

TargetStates == {"Pending", "Started", "Verified", "Failed", "Ambiguous"}

Ledger ==
    [state: States,
     transcription_backend: {"MiaojiRemote", "WhisperLocal", "QwenLocal", "MossLocal"},
     summary_backend: {"GeminiRemote", "QwenLocal"},
     publication_backend: {"RemoteArchive", "LocalArchive"},
     local_diarization: BOOLEAN,
     transcript_only_accepted: BOOLEAN,
     \* local_moss_preparation and local_moss, which exclude each other
     local_moss: {"none", "preparing", "ready", "finalized"},
     tos_object: BOOLEAN,
     \* no checkpoint; request_id only; with a task_id; with a superseded task
     miaoji: {"none", "requested", "accepted", "superseded"},
     transcript_json: BOOLEAN,
     summary_json: BOOLEAN,
     \* publication: generation 0 stands for None
     generation: 0..MaxGeneration,
     targets: [Targets -> TargetStates],
     canonical_backup: BOOLEAN,
     \* cleanup
     temporary_tos_deleted: BOOLEAN,
     source_tracks_delete_after: {"none", "scheduled", "due"},
     source_tracks_deleted: BOOLEAN]

-----------------------------------------------------------------------------
(* ProcessingLedger::validate and validate_checkpoint_consistency.          *)

HasPublication(l) == l.generation # 0

AllVerified(l) == \A t \in Targets : l.targets[t] = "Verified"

RequiredVerified(l) == \A t \in Required : l.targets[t] = "Verified"

IsRemote(l) == l.transcription_backend = "MiaojiRemote"

IsLocalWorker(l) == l.transcription_backend \in {"WhisperLocal", "QwenLocal"}

MossConsistent(l) ==
    IF l.local_moss = "preparing"
    THEN /\ ~l.tos_object /\ l.miaoji = "none"
         /\ ~l.transcript_json /\ ~l.summary_json
         /\ l.state \in {"PreparingLocalMoss", "ProviderFailed",
                         "CanceledBeforeUpload"} \cup DiscardStates
    ELSE /\ l.state # "PreparingLocalMoss"
         /\ l.local_moss # "none"
         /\ (l.local_moss = "finalized") = l.transcript_json

BackendConsistent(l) ==
    /\ l.local_moss # "none" => l.transcription_backend = "MossLocal"
    /\ IsRemote(l) => /\ ~l.local_diarization
                      /\ ~l.transcript_only_accepted
                      /\ l.miaoji # "superseded"
    /\ ~IsRemote(l) => l.miaoji \in {"none", "superseded"}
    /\ IsLocalWorker(l) => l.local_diarization \/ l.transcript_only_accepted
    /\ l.transcription_backend = "MossLocal" =>
         /\ ~l.local_diarization
         /\ ~l.transcript_only_accepted
         /\ l.summary_backend = "QwenLocal"
         /\ MossConsistent(l)
    /\ l.publication_backend = "LocalArchive" =>
         ~IsRemote(l) /\ l.summary_backend = "QwenLocal"

StateFitsBackend(l) ==
    IF IsRemote(l)
    THEN l.state \notin {"LocalTranscribing", "PreparingLocalMoss"}
    ELSE l.state \notin {"Queued", "Uploading", "Transcribing", "Submitting",
                         "Polling", "SubmitAmbiguous", "CancelingUpload"}

Summarized == ReworkStates \cup {"Complete"}

Published == PublishStates \cup {"Publishing", "Complete"}

EvidenceFitsState(l) ==
    /\ IsRemote(l) =>
         /\ l.state \notin {"Queued", "Uploading", "CancelingUpload", "ProviderFailed",
                            "CanceledBeforeUpload"} \cup DiscardStates => l.tos_object
         /\ l.state \in {"Submitting", "SubmitAmbiguous"} => l.miaoji # "none"
         /\ l.state \in Summarized \cup {"Polling"} => l.miaoji = "accepted"
    /\ l.state \in Summarized => l.transcript_json
    /\ l.state \in Published => l.summary_json /\ HasPublication(l)
    /\ l.state \in {"SummarySubmitting", "SummaryAmbiguous"} => ~l.summary_json

\* validate_publication: the Verified targets form a prefix of the plan.
PublicationConsistent(l) ==
    HasPublication(l) =>
      \A t, u \in Targets :
         t < u /\ l.targets[u] = "Verified" => l.targets[t] = "Verified"

\* Mutant: the list of reprocessing states misses PublishAmbiguous.
KeepsArchiveHistory_MissesAmbiguous(l) ==
    /\ l.temporary_tos_deleted
    /\ \/ l.state \in ReworkStates \ {"PublishAmbiguous"} /\ HasPublication(l)
       \/ /\ l.state \in CanceledStates \cup DiscardStates
          /\ l.transcript_json
          /\ HasPublication(l) /\ AllVerified(l)

\* reprocess_active and canceled_reprocess_history
KeepsArchiveHistory(l) ==
    /\ l.temporary_tos_deleted
    /\ \/ l.state \in ReworkStates /\ HasPublication(l)
       \/ /\ l.state \in CanceledStates \cup DiscardStates
          /\ l.transcript_json
          /\ HasPublication(l) /\ AllVerified(l)

CleanupConsistent(l) ==
    /\ l.state = "Complete" => l.temporary_tos_deleted /\ l.canonical_backup
    /\ l.temporary_tos_deleted =>
         l.state \in DiscardStates \cup {"Complete", "CanceledAfterUpload"}
           \/ KeepsArchiveHistory(l)
    /\ l.source_tracks_delete_after # "none" =>
         l.state = "Complete" \/ KeepsArchiveHistory(l)
    /\ l.source_tracks_deleted => l.source_tracks_delete_after # "none"

Valid(l) ==
    /\ BackendConsistent(l)
    /\ StateFitsBackend(l)
    /\ EvidenceFitsState(l)
    /\ PublicationConsistent(l)
    /\ CleanupConsistent(l)

-----------------------------------------------------------------------------
(* mutate: a closure that returns an error persists nothing; one that       *)
(* changes the ledger persists it only if it validates.                     *)

When(guard, outcomes) == IF guard THEN outcomes ELSE {}

Mutate(n) == When(Valid(n), {n})

\* Mutant: transition() does not consult the table.
Transition_Unchecked(l, n, next) == Mutate([n EXCEPT !.state = next])

\* The closure computed n from l and then asked transition() for `next'.
Transition(l, n, next) ==
    When(CanTransition(l.state, next), Mutate([n EXCEPT !.state = next]))

NoPublication == [t \in Targets |-> "Pending"]

\* ProcessingStore::enqueue of a recording with no ledger yet.
Enqueued ==
    [state |-> "Queued",
     transcription_backend |-> "MiaojiRemote",
     summary_backend |-> "GeminiRemote",
     publication_backend |-> "RemoteArchive",
     local_diarization |-> FALSE,
     transcript_only_accepted |-> FALSE,
     local_moss |-> "none",
     tos_object |-> FALSE,
     miaoji |-> "none",
     transcript_json |-> FALSE,
     summary_json |-> FALSE,
     generation |-> 0,
     targets |-> NoPublication,
     canonical_backup |-> FALSE,
     temporary_tos_deleted |-> FALSE,
     source_tracks_delete_after |-> "none",
     source_tracks_deleted |-> FALSE]

\* A job an older release completed: its cleanup has no retention deadline
\* (source_tracks_delete_after is #[serde(default)]).
LegacyComplete ==
    [state |-> "Complete",
     transcription_backend |-> "MiaojiRemote",
     summary_backend |-> "GeminiRemote",
     publication_backend |-> "RemoteArchive",
     local_diarization |-> FALSE,
     transcript_only_accepted |-> FALSE,
     local_moss |-> "none",
     tos_object |-> TRUE,
     miaoji |-> "accepted",
     transcript_json |-> TRUE,
     summary_json |-> TRUE,
     generation |-> 1,
     targets |-> [t \in Targets |-> "Verified"],
     canonical_backup |-> TRUE,
     temporary_tos_deleted |-> TRUE,
     source_tracks_delete_after |-> "none",
     source_tracks_deleted |-> FALSE]

-----------------------------------------------------------------------------
(* Choosing where the transcription runs.                                   *)

\* A task the provider accepted, or may have accepted, must be resolved first.
MayOweRemoteTask(l) ==
    \/ l.miaoji \in {"accepted", "superseded"}
    \/ l.state \in {"Submitting", "SubmitAmbiguous", "Polling"}

SelectableStates == {"Queued", "Uploading", "Transcribing", "ProviderFailed"}

Selected(l, backend, diarized) ==
    [l EXCEPT !.transcription_backend = backend,
              !.summary_backend = IF diarized THEN "QwenLocal" ELSE "GeminiRemote",
              !.publication_backend =
                   IF diarized THEN "LocalArchive" ELSE "RemoteArchive",
              !.local_diarization = diarized,
              !.transcript_only_accepted = ~diarized]

\* Repeating a selection is Ok(false) while its transcription is still due.
SameSelection(l, backend, diarized) ==
    /\ l = Selected(l, backend, diarized)
    /\ l.state = "LocalTranscribing"

SelectLocalWhisper(l) ==
    IF l.transcription_backend = "WhisperLocal"
    THEN When(/\ l.state = "LocalTranscribing", {l})
    ELSE When(/\ ~MayOweRemoteTask(l)
              /\ l.state \in SelectableStates
              /\ ~l.transcript_json,
              Transition(l, [Selected(l, "WhisperLocal", FALSE) EXCEPT !.miaoji = "none"],
                         "LocalTranscribing"))

\* select_full_local (WhisperLocal) and select_full_local_qwen (QwenLocal)
SelectFullLocal(l, backend) ==
    When(~MayOweRemoteTask(l),
         IF l.transcription_backend = backend
         THEN When(SameSelection(l, backend, TRUE), {l})
         ELSE When(l.state \in SelectableStates /\ ~l.transcript_json,
                   Transition(l, [Selected(l, backend, TRUE) EXCEPT !.miaoji = "none"],
                              "LocalTranscribing")))

\* take_over_with_full_local and take_over_with_full_local_qwen: the accepted
\* task stays in the ledger as superseded.
TakeOverWithFullLocal(l, backend) ==
    IF l.transcription_backend = backend
    THEN When(SameSelection(l, backend, TRUE) /\ l.miaoji = "superseded", {l})
    ELSE When(/\ l.state = "Polling"
              /\ ~l.transcript_json
              /\ l.miaoji = "accepted",
              Transition(l, [Selected(l, backend, TRUE) EXCEPT !.miaoji = "superseded"],
                         "LocalTranscribing"))

AcceptLocalTranscriptOnly(l) ==
    When(/\ l.state = "ProviderFailed"
         /\ IsLocalWorker(l)
         /\ l.local_diarization
         /\ ~l.transcript_only_accepted
         /\ ~l.transcript_json,
         Transition(l, [l EXCEPT !.local_diarization = FALSE,
                                 !.transcript_only_accepted = TRUE],
                    "LocalTranscribing"))

CheckpointLocalWhisperTranscript(l) ==
    When(IsLocalWorker(l),
         IF l.transcript_json
         THEN {l}
         ELSE When(l.state = "LocalTranscribing",
                   Transition(l, [l EXCEPT !.transcript_json = TRUE], "Summarizing")))

MarkLocalWhisperFailed(l) ==
    IF l.state = "ProviderFailed"
    THEN {l}
    ELSE When(IsLocalWorker(l) /\ l.state = "LocalTranscribing",
              Transition(l, l, "ProviderFailed"))

-----------------------------------------------------------------------------
(* MOSS: the ledger's side of the local pipeline.  The claims, the lease and *)
(* the per-window checkpoints that guard these operations are not part of    *)
(* this module; here an operation whose claim is stale is simply not taken.  *)

MossSelected(l) ==
    [l EXCEPT !.transcription_backend = "MossLocal",
              !.summary_backend = "QwenLocal",
              !.publication_backend = "LocalArchive",
              !.local_diarization = FALSE,
              !.transcript_only_accepted = FALSE]

BeginMossPreparation(l) ==
    When(/\ l.state = "Queued"
         /\ ~l.tos_object
         /\ l.miaoji = "none"
         /\ ~l.transcript_json
         /\ l.local_moss = "none",
         Transition(l, [MossSelected(l) EXCEPT !.local_moss = "preparing"],
                    "PreparingLocalMoss"))

CompleteMossPreparation(l) ==
    When(l.state = "PreparingLocalMoss" /\ l.local_moss = "preparing",
         Transition(l, [l EXCEPT !.local_moss = "ready"], "LocalTranscribing"))

FailMossPreparation(l) ==
    When(l.state = "PreparingLocalMoss" /\ l.local_moss = "preparing",
         Transition(l, l, "ProviderFailed"))

RetryMossPreparation(l) ==
    When(l.state = "ProviderFailed" /\ l.local_moss = "preparing",
         Transition(l, l, "PreparingLocalMoss"))

\* select_moss without takeover (select_full_local_moss)
SelectFullLocalMoss(l) ==
    When(~MayOweRemoteTask(l),
         IF l.transcription_backend = "MossLocal"
         THEN When(/\ l.local_moss \in {"ready", "finalized"}
                   /\ l.publication_backend = "LocalArchive"
                   /\ l.state = "LocalTranscribing", {l})
         ELSE When(l.state \in SelectableStates /\ ~l.transcript_json,
                   Transition(l, [MossSelected(l) EXCEPT !.local_moss = "ready",
                                                         !.miaoji = "none"],
                              "LocalTranscribing")))

\* select_moss with takeover (take_over_with_full_local_moss)
TakeOverWithFullLocalMoss(l) ==
    IF l.transcription_backend = "MossLocal"
    THEN When(/\ l.local_moss \in {"ready", "finalized"}
              /\ l.publication_backend = "LocalArchive"
              /\ l.state = "LocalTranscribing"
              /\ l.miaoji = "superseded", {l})
    ELSE When(/\ l.state = "Polling"
              /\ ~l.transcript_json
              /\ l.miaoji = "accepted",
              Transition(l, [MossSelected(l) EXCEPT !.local_moss = "ready",
                                                    !.miaoji = "superseded"],
                         "LocalTranscribing"))

MossActive(l) ==
    /\ l.state = "LocalTranscribing"
    /\ l.transcription_backend = "MossLocal"
    /\ ~l.transcript_json
    /\ l.local_moss \in {"ready", "finalized"}

FinalizeMossTranscript(l) ==
    When(MossActive(l),
         Transition(l, [l EXCEPT !.transcript_json = TRUE, !.local_moss = "finalized"],
                    "Summarizing"))

MarkMossEffectFailed(l) ==
    When(MossActive(l), Transition(l, l, "ProviderFailed"))

RetryLocalMoss(l) ==
    When(/\ l.state = "ProviderFailed"
         /\ l.transcription_backend = "MossLocal"
         /\ ~l.transcript_json
         /\ l.local_moss \in {"ready", "finalized"},
         Transition(l, l, "LocalTranscribing"))

\* Only the lease holder may take a local summary that never returned again.
RecoverMossLocalSummary(l) ==
    IF l.state # "SummarySubmitting"
    THEN {l}
    ELSE When(/\ l.transcription_backend = "MossLocal"
              /\ l.summary_backend = "QwenLocal"
              /\ ~l.summary_json
              /\ l.local_moss = "finalized",
              Transition(l, l, "Summarizing"))

-----------------------------------------------------------------------------
(* The remote path: upload, submit, poll.                                   *)

BeginUpload(l) ==
    IF l.state = "Uploading" THEN {l} ELSE Transition(l, l, "Uploading")

CheckpointTosObject(l) ==
    IF l.tos_object
    THEN {l}
    ELSE When(l.state \in {"Uploading", "CancelingUpload"},
              Transition(l, [l EXCEPT !.tos_object = TRUE],
                         IF l.state = "CancelingUpload"
                         THEN "CanceledAfterUpload"
                         ELSE "Transcribing"))

MarkUploadRejected(l) ==
    IF l.state = "ProviderFailed"
    THEN {l}
    ELSE When(l.state \in {"Uploading", "CancelingUpload"} /\ ~l.tos_object,
              Transition(l, l, IF l.state = "CancelingUpload"
                               THEN "CanceledBeforeUpload"
                               ELSE "ProviderFailed"))

BeginMiaojiSubmit(l) ==
    IF l.state = "Submitting" /\ l.miaoji # "none"
    THEN {l}
    ELSE When(l.state = "Transcribing",
              Transition(l, [l EXCEPT !.miaoji = "requested"], "Submitting"))

CheckpointMiaojiTask(l) ==
    IF l.miaoji \in {"accepted", "superseded"}
    THEN When(l.state \in {"Polling", "Summarizing"} \cup Published, {l})
    ELSE When(l.miaoji = "requested" /\ l.state = "Submitting",
              Transition(l, [l EXCEPT !.miaoji = "accepted"], "Polling"))

MarkSubmitAmbiguous(l) ==
    IF l.state = "SubmitAmbiguous" THEN {l} ELSE Transition(l, l, "SubmitAmbiguous")

MarkSubmitRejected(l) ==
    IF l.state = "ProviderFailed"
    THEN {l}
    ELSE When(l.state = "Submitting", Transition(l, l, "ProviderFailed"))

RetryProvider(l) ==
    When(l.state = "ProviderFailed" /\ l.transcription_backend # "MossLocal",
         IF l.transcript_json
         THEN Transition(l, l, "Summarizing")
         ELSE IF IsLocalWorker(l)
         THEN Transition(l, l, "LocalTranscribing")
         ELSE IF ~l.tos_object
         THEN Transition(l, l, "Uploading")
         ELSE Transition(l, [l EXCEPT !.miaoji = "none"], "Transcribing"))

ResolveSubmitForRetry(l) ==
    When(l.state = "SubmitAmbiguous",
         Transition(l, [l EXCEPT !.miaoji = "none"], "Transcribing"))

CheckpointTranscript(l) ==
    IF l.transcript_json
    THEN {l}
    ELSE When(l.state = "Polling",
              Transition(l, [l EXCEPT !.transcript_json = TRUE], "Summarizing"))

-----------------------------------------------------------------------------
(* Summary.                                                                 *)

CheckpointSummary(l) ==
    When(l.state = "SummarySubmitting",
         Transition(l, [l EXCEPT !.summary_json = TRUE], "Summarizing"))

AbortSummaryBeforeDispatch(l) ==
    When(l.state = "SummarySubmitting", Transition(l, l, "Summarizing"))

ResolveSummaryForRetry(l) ==
    When(l.state = "SummaryAmbiguous", Transition(l, l, "Summarizing"))

-----------------------------------------------------------------------------
(* Publication, one generation of targets after another.                    *)

\* Mutant: the last generation is taken once too often.
GenerationLeft_OffByOne(l) == l.generation <= MaxGeneration

\* generation.checked_add(1), None when the counter is exhausted
GenerationLeft(l) == l.generation < MaxGeneration

NextGeneration(l) ==
    [l EXCEPT !.generation = l.generation + 1, !.targets = NoPublication]

PlanPublication(l) ==
    When(l.summary_json,
         IF HasPublication(l)
         THEN IF l.state = "Summarizing" /\ l.temporary_tos_deleted
              THEN When(GenerationLeft(l),
                        Transition(l, NextGeneration(l), "Publishing"))
              ELSE {l}
         ELSE When(l.state = "Summarizing",
                   Transition(l, [l EXCEPT !.generation = 1,
                                           !.targets = NoPublication],
                              "Publishing")))

\* Mutant: a receipt of any generation is taken.
CurrentTarget_AnyGeneration(l, g, t) ==
    /\ HasPublication(l)
    /\ \A u \in 1..(t - 1) : l.targets[u] = "Verified"

\* current_target_mut: the receipt names this generation, and every earlier
\* target is Verified.
CurrentTarget(l, g, t) ==
    /\ HasPublication(l)
    /\ l.generation = g
    /\ \A u \in 1..(t - 1) : l.targets[u] = "Verified"

\* Mutant: a target already Verified is started again.
StartPublicationTarget_Again(l, g, t) ==
    When(l.state = "Publishing" /\ CurrentTarget(l, g, t),
         IF l.targets[t] = "Started"
         THEN {l}
         ELSE When(l.targets[t] # "Ambiguous",
                   Mutate([l EXCEPT !.targets[t] = "Started"])))

StartPublicationTarget(l, g, t) ==
    When(l.state = "Publishing" /\ CurrentTarget(l, g, t),
         IF l.targets[t] = "Started"
         THEN {l}
         ELSE When(l.targets[t] \in {"Pending", "Failed"},
                   Mutate([l EXCEPT !.targets[t] = "Started"])))

CheckpointPublicationTarget(l, g, t) ==
    When(l.state = "Publishing" /\ CurrentTarget(l, g, t),
         IF l.targets[t] = "Verified"
         THEN {l}
         ELSE When(l.targets[t] = "Started",
                   Mutate([l EXCEPT !.targets[t] = "Verified"])))

\* TargetOutcome::ExplicitFailure or TargetOutcome::Ambiguous
FailPublicationTarget(l, g, t, ambiguous) ==
    When(/\ l.state = "Publishing"
         /\ CurrentTarget(l, g, t)
         /\ l.targets[t] = "Started",
         IF ambiguous
         THEN Transition(l, [l EXCEPT !.targets[t] = "Ambiguous"], "PublishAmbiguous")
         ELSE Transition(l, [l EXCEPT !.targets[t] = "Failed"], "PublishFailed"))

MarkPublicationConflict(l) ==
    IF l.state = "PublishConflict" THEN {l} ELSE Transition(l, l, "PublishConflict")

CheckpointCanonicalBackup(l, g) ==
    When(/\ l.state = "Publishing"
         /\ HasPublication(l)
         /\ l.generation = g
         /\ RequiredVerified(l),
         IF l.canonical_backup
         THEN {l}
         ELSE Mutate([l EXCEPT !.canonical_backup = TRUE]))

\* The target publication stopped at, if any.
FirstUnverified(l) ==
    {t \in Targets : /\ l.targets[t] # "Verified"
                     /\ \A u \in 1..(t - 1) : l.targets[u] = "Verified"}

RetryPublication(l) ==
    UNION {When(/\ l.state \in PublishStates
                /\ HasPublication(l)
                /\ t \notin AtMostOnce
                /\ l.targets[t] # "Ambiguous",
                Transition(l, [l EXCEPT !.targets[t] = "Pending"], "Publishing")) :
             t \in FirstUnverified(l)}

\* Mutant: no generation is reserved for the new summary.
BeginReprocess_Unbounded(l) ==
    IF l.state # "Complete"
    THEN When(l.temporary_tos_deleted /\ l.state \in ReworkStates, {l})
    ELSE When(l.transcript_json /\ HasPublication(l),
              Transition(l, [l EXCEPT !.summary_json = FALSE,
                                      !.canonical_backup = FALSE],
                         "Summarizing"))

BeginReprocess(l) ==
    IF l.state # "Complete"
    THEN When(l.temporary_tos_deleted /\ l.state \in ReworkStates, {l})
    ELSE When(l.transcript_json /\ HasPublication(l) /\ GenerationLeft(l),
              Transition(l, [l EXCEPT !.summary_json = FALSE,
                                      !.canonical_backup = FALSE],
                         "Summarizing"))

BeginRemoteBackup(l) ==
    When(l.state = "Complete",
         IF l.publication_backend = "RemoteArchive"
         THEN {l}
         ELSE When(/\ ~IsRemote(l)
                   /\ l.summary_backend = "QwenLocal"
                   /\ l.transcript_json /\ l.summary_json
                   /\ HasPublication(l) /\ GenerationLeft(l),
                   Transition(l, [NextGeneration(l) EXCEPT
                                    !.publication_backend = "RemoteArchive",
                                    !.canonical_backup = FALSE],
                              "Publishing")))

-----------------------------------------------------------------------------
(* Cleanup, retention, cancel and discard.                                  *)

\* Utc::now() + 30 days, unless a deadline is already recorded
ScheduleRetention(l) ==
    IF l.source_tracks_delete_after = "none"
    THEN [l EXCEPT !.source_tracks_delete_after = "scheduled"]
    ELSE l

\* Mutant: the cleanup takes the backup for granted.
CheckpointCleanup_TrustsTheEffect(l, g) ==
    IF l.state = "Complete" /\ l.temporary_tos_deleted
    THEN Mutate(ScheduleRetention(l))
    ELSE When(l.state = "Publishing" /\ HasPublication(l) /\ l.generation = g,
              Transition(l, [ScheduleRetention(l) EXCEPT
                               !.temporary_tos_deleted = TRUE,
                               !.canonical_backup = TRUE],
                         "Complete"))

CheckpointCleanup(l, g) ==
    IF l.state = "Complete" /\ l.temporary_tos_deleted
    THEN Mutate(ScheduleRetention(l))
    ELSE When(/\ l.state = "Publishing"
              /\ HasPublication(l)
              /\ l.generation = g
              /\ RequiredVerified(l)
              /\ l.canonical_backup,
              Transition(l, [ScheduleRetention(l) EXCEPT !.temporary_tos_deleted = TRUE],
                         "Complete"))

CheckpointSourceTracksDeleted(l) ==
    When(l.state = "Complete",
         IF l.source_tracks_deleted
         THEN {l}
         ELSE When(l.source_tracks_delete_after = "due",
                   Mutate([l EXCEPT !.source_tracks_deleted = TRUE])))

CheckpointCanceledTosCleanup(l) ==
    When(l.state = "CanceledAfterUpload" /\ l.tos_object,
         IF l.temporary_tos_deleted
         THEN {l}
         ELSE Mutate([l EXCEPT !.temporary_tos_deleted = TRUE]))

CheckpointCanceledUploadAbsent(l) ==
    When(l.state = "CancelingUpload" /\ ~l.tos_object,
         Transition(l, l, "CanceledBeforeUpload"))

\* Mutant: a canceled upload is discarded before its object is deleted.
BeginDiscard_Unclean(l) ==
    IF l.state = "Discarding"
    THEN {l}
    ELSE When(l.state \in {"Queued"} \cup CanceledStates, Transition(l, l, "Discarding"))

BeginDiscard(l) ==
    IF l.state = "Discarding"
    THEN {l}
    ELSE When(/\ l.state \in {"Queued"} \cup CanceledStates
              /\ l.state = "CanceledAfterUpload" => l.temporary_tos_deleted,
              Transition(l, l, "Discarding"))

CheckpointDiscarded(l) ==
    IF l.state = "Discarded"
    THEN {l}
    ELSE When(l.state = "Discarding", Transition(l, l, "Discarded"))

Cancel(l) ==
    IF l.state \in CanceledStates \cup {"CancelingUpload"}
    THEN {l}
    ELSE When(/\ l.state # "Complete"
              /\ ~ (/\ l.transcription_backend = "MossLocal"
                    /\ l.state \in PublishStates \cup {"Publishing"}
                    /\ HasPublication(l)
                    /\ \E t \in Targets : l.targets[t] # "Pending"),
              Transition(l, l,
                         IF l.state = "Uploading" /\ ~l.tos_object
                         THEN "CancelingUpload"
                         ELSE IF l.tos_object
                         THEN "CanceledAfterUpload"
                         ELSE "CanceledBeforeUpload"))

-----------------------------------------------------------------------------
(* resume: fences a step whose outcome nobody can know into a state that     *)
(* needs a decision, and otherwise prepares and names the next effect.  It   *)
(* assigns states without consulting the transition table.                   *)

\* The effect resume finds in doubt: it was Started and may not be repeated.
InDoubt(l, t) ==
    \/ l.targets[t] = "Ambiguous"
    \/ l.targets[t] = "Started" /\ t \in AtMostOnce

ResumePublishing(l) ==
    IF \E t \in FirstUnverified(l) : InDoubt(l, t)
    THEN UNION {Mutate([l EXCEPT !.targets[t] = "Ambiguous",
                                 !.state = "PublishAmbiguous"]) :
                  t \in FirstUnverified(l)}
    ELSE {l}

Resume(l) ==
    CASE l.state = "Submitting" -> Mutate([l EXCEPT !.state = "SubmitAmbiguous"])
      [] l.state = "Queued" -> Mutate([l EXCEPT !.state = "Uploading"])
      [] l.state = "Transcribing" ->
           Mutate([l EXCEPT !.miaoji = "requested", !.state = "Submitting"])
      [] l.state = "Summarizing" /\ ~l.summary_json ->
           Mutate([l EXCEPT !.state = "SummarySubmitting"])
      [] l.state = "SummarySubmitting" ->
           Mutate([l EXCEPT !.state = "SummaryAmbiguous"])
      [] l.state = "Publishing" -> ResumePublishing(l)
      [] OTHER -> {l}
=============================================================================
