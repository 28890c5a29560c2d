-------------------------- MODULE ProcessingState --------------------------
(***************************************************************************)
(* The states of one recording's processing job and the transition table   *)
(* every store operation consults before it assigns a new one               *)
(* (ProcessingState and can_transition_to, processing/mod.rs).              *)
(***************************************************************************)

PublishStates == {"PublishFailed", "PublishAmbiguous", "PublishConflict"}

\* The states in which a completed job may be working on a new generation.
ReworkStates ==
    {"Summarizing", "SummarySubmitting", "SummaryAmbiguous", "Publishing"}
        \cup PublishStates

CanceledStates == {"CanceledBeforeUpload", "CanceledAfterUpload"}

DiscardStates == {"Discarding", "Discarded"}

States ==
    {"Queued", "Uploading", "Transcribing", "LocalTranscribing",
     "PreparingLocalMoss", "Submitting", "Polling", "Complete",
     "SubmitAmbiguous", "ProviderFailed", "CancelingUpload"}
        \cup ReworkStates \cup CanceledStates \cup DiscardStates

Successors ==
    [s \in States |->
        CASE s = "Queued" ->
               {"Uploading", "PreparingLocalMoss", "LocalTranscribing",
                "CanceledBeforeUpload", "Discarding"}
          [] s = "Uploading" ->
               {"Transcribing", "LocalTranscribing", "ProviderFailed",
                "CancelingUpload", "CanceledAfterUpload"}
          [] s = "Transcribing" ->
               {"Submitting", "LocalTranscribing", "ProviderFailed",
                "CanceledAfterUpload"}
          [] s = "PreparingLocalMoss" ->
               {"LocalTranscribing", "ProviderFailed", "CanceledBeforeUpload"}
          [] s = "LocalTranscribing" ->
               {"Summarizing", "ProviderFailed"} \cup CanceledStates
          [] s = "Submitting" ->
               {"Polling", "SubmitAmbiguous", "ProviderFailed",
                "CanceledAfterUpload"}
          [] s = "Polling" ->
               {"LocalTranscribing", "Summarizing", "ProviderFailed",
                "CanceledAfterUpload"}
          [] s = "Summarizing" -> {"SummarySubmitting", "Publishing"} \cup CanceledStates
          [] s = "SummarySubmitting" ->
               {"Summarizing", "SummaryAmbiguous"} \cup CanceledStates
          [] s = "Publishing" -> {"Complete"} \cup PublishStates \cup CanceledStates
          [] s = "SubmitAmbiguous" ->
               {"Transcribing", "ProviderFailed", "CanceledAfterUpload"}
          [] s = "SummaryAmbiguous" -> {"Summarizing"} \cup CanceledStates
          [] s = "ProviderFailed" ->
               {"Uploading", "PreparingLocalMoss", "Transcribing",
                "LocalTranscribing", "Summarizing"} \cup CanceledStates
          [] s \in PublishStates -> {"Publishing"} \cup CanceledStates
          [] s = "Complete" -> {"Summarizing", "Publishing"}
          [] s = "CancelingUpload" -> CanceledStates
          [] s \in CanceledStates -> {"Discarding"}
          [] s = "Discarding" -> {"Discarded"}
          [] s = "Discarded" -> {}]

CanTransition(from, to) == to \in Successors[from]

IsTerminal(s) == s \in CanceledStates \cup {"Complete", "Discarded"}
=============================================================================
