----------------------- MODULE ProcessingEngineProofs -----------------------
(* Proofs about ProcessingEngine, for every number of tasks, of targets, of  *)
(* generations and of provider jobs, and every choice of local backends.     *)
EXTENDS ProcessingEngine, LedgerOperationsProofs, WellFoundedInduction

------------------------
(* What no operation of the store undoes behind the back of a task that has *)
(* read the ledger before.                                                  *)

\* No request to the provider is under way or was answered.
Unsent(l) ==
    \/ l.state \in {"Queued", "Uploading", "CancelingUpload", "Transcribing"}
    \/ IsRemote(l) /\ l.state = "ProviderFailed"

\* Deleting the temporary object is due, or there is none to delete.
MayDelete(l) ==
    \/ l.temporary_tos_deleted
    \/ l.state \in Published /\ AllVerified(l) /\ l.canonical_backup
    \/ l.state = "CanceledAfterUpload"
    \/ ~l.tos_object /\ l.state \in DiscardStates \cup {"CanceledBeforeUpload"}

\* The canceled upload still waits for its object's deletion.
AwaitsDeletion(l) == l.state = "CanceledAfterUpload" /\ ~l.temporary_tos_deleted

\* A canceled upload with its object recorded is one whose deletion is due.
CancelingIsOpen(l) == l.state = "CancelingUpload" => ~l.tos_object

VouchedIn(l, g, t) == HasPublication(l) /\ l.generation = g /\ l.targets[t] = "Verified"

\* No path leads back to before the request, no verified target comes out of
\* nothing, a deletion that is due stays due.
Unasked(l, m) == Unsent(m) => Unsent(l)

Vouched(l, m) ==
    \A t \in Targets :
       HasPublication(m) /\ m.targets[t] = "Verified" => VouchedIn(l, m.generation, t)

StaysDue(l, m) ==
    /\ MayDelete(l) => MayDelete(m)
    /\ CancelingIsOpen(l) => CancelingIsOpen(m)

Awaits(l, m) == AwaitsDeletion(l) => AwaitsDeletion(m)

Calm(l, m) == Unasked(l, m) /\ Vouched(l, m) /\ StaysDue(l, m) /\ Awaits(l, m)


\* The fields, apart from the state, that Calm looks at.
Frame(l, m) ==
    /\ m.tos_object = l.tos_object
    /\ m.generation = l.generation
    /\ m.targets = l.targets
    /\ m.canonical_backup = l.canonical_backup
    /\ m.temporary_tos_deleted = l.temporary_tos_deleted

LEMMA SameIsCalm ==
  ASSUME NEW l \in Ledger
  PROVE  Calm(l, l)
BY DEF Calm, Unasked, Vouched, StaysDue, Awaits, VouchedIn

\* transition changes no field but the state, and follows the table.
LEMMA Moved ==
  ASSUME NEW l \in Ledger, NEW n \in Ledger, NEW s \in States,
         NEW m \in Transition(l, n, s)
  PROVE  /\ m \in Ledger /\ Valid(m)
         /\ m.state = s /\ CanTransition(l.state, s)
         /\ Frame(n, m)
         /\ m.transcription_backend = n.transcription_backend
<1>1. m = [n EXCEPT !.state = s] /\ Valid(m) /\ CanTransition(l.state, s)
  BY SMTT(30) DEF Transition, Mutate, When
<1> QED
  BY <1>1 DEF Frame, Ledger

LEMMA EdgesInto ==
  ASSUME NEW s \in States
  PROVE  /\ CanTransition(s, "SubmitAmbiguous") => s = "Submitting"
         /\ CanTransition(s, "PublishConflict") => s = "Publishing"
         /\ CanTransition(s, "CancelingUpload") => s = "Uploading"
         /\ CanTransition(s, "CanceledAfterUpload")
              => s \notin CanceledStates \cup DiscardStates \cup {"Complete"}
         /\ CanTransition(s, "CanceledBeforeUpload")
              => s \notin CanceledStates \cup DiscardStates \cup {"Complete"}
BY DEF CanTransition, Successors, States, ReworkStates, PublishStates, CanceledStates,
       DiscardStates

\* A job before its publication has deleted nothing it could still owe.
LEMMA EarlyIsCalm ==
  ASSUME NEW l \in Ledger, NEW m \in Ledger, Frame(l, m),
         l.state \notin Published \cup CanceledStates \cup DiscardStates,
         m.state # "CancelingUpload",
         Unsent(m) => Unsent(l)
  PROVE  Calm(l, m)
BY DEF Calm, Unasked, Vouched, StaysDue, Awaits, Frame, VouchedIn, HasPublication,
   MayDelete, AllVerified, AwaitsDeletion,
       CancelingIsOpen, CanceledStates

LEMMA CheckpointMiaojiTaskCalm ==
  ASSUME NEW l \in Ledger, Valid(l), Ordered(l), NEW m \in CheckpointMiaojiTask(l)
  PROVE  Calm(l, m)
<1> DEFINE n == [l EXCEPT !.miaoji = "accepted"]
<1>1. m = l \/ (l.state = "Submitting" /\ m \in Transition(l, n, "Polling"))
  BY DEF CheckpointMiaojiTask, When
<1>2. n \in Ledger /\ Frame(l, n)
  BY DEF Frame, Ledger
<1> HIDE DEF n
<1>3. CASE l.state = "Submitting" /\ m \in Transition(l, n, "Polling")
  <2>1. m \in Ledger /\ Frame(l, m) /\ m.state = "Polling"
        /\ CanTransition(l.state, "Polling")
    BY <1>2, <1>3, Moved
       DEF Frame, States, ReworkStates, Published, PublishStates, CanceledStates,
           DiscardStates
  <2>2. l.state \notin Published \cup CanceledStates \cup DiscardStates
    BY <1>3, <2>1, EdgesInto
       DEF Published, PublishStates, CanceledStates, DiscardStates, Ledger
  <2>3. Unsent(m) => Unsent(l)
    BY <1>3, <2>1, EdgesInto DEF Unsent, IsRemote, IsLocalWorker, Ledger
  <2> QED
    BY <2>1, <2>2, <2>3, EarlyIsCalm
<1> QED
  BY <1>1, <1>3, SameIsCalm

LEMMA MarkSubmitAmbiguousCalm ==
  ASSUME NEW l \in Ledger, Valid(l), Ordered(l), NEW m \in MarkSubmitAmbiguous(l)
  PROVE  Calm(l, m)
<1>1. m = l \/ (TRUE /\ m \in Transition(l, l, "SubmitAmbiguous"))
  BY DEF MarkSubmitAmbiguous, When
<1>2. Frame(l, l)
  BY DEF Frame
<1>3. CASE TRUE /\ m \in Transition(l, l, "SubmitAmbiguous")
  <2>1. m \in Ledger /\ Frame(l, m) /\ m.state = "SubmitAmbiguous"
        /\ CanTransition(l.state, "SubmitAmbiguous")
    BY <1>2, <1>3, Moved
       DEF Frame, States, ReworkStates, Published, PublishStates, CanceledStates,
           DiscardStates
  <2>2. l.state \notin Published \cup CanceledStates \cup DiscardStates
    BY <1>3, <2>1, EdgesInto
       DEF Published, PublishStates, CanceledStates, DiscardStates, Ledger
  <2>3. Unsent(m) => Unsent(l)
    BY <1>3, <2>1, EdgesInto DEF Unsent, IsRemote, IsLocalWorker, Ledger
  <2> QED
    BY <2>1, <2>2, <2>3, EarlyIsCalm
<1> QED
  BY <1>1, <1>3, SameIsCalm

LEMMA CheckpointTranscriptCalm ==
  ASSUME NEW l \in Ledger, Valid(l), Ordered(l), NEW m \in CheckpointTranscript(l)
  PROVE  Calm(l, m)
<1> DEFINE n == [l EXCEPT !.transcript_json = TRUE]
<1>1. m = l \/ (l.state = "Polling" /\ m \in Transition(l, n, "Summarizing"))
  BY DEF CheckpointTranscript, When
<1>2. n \in Ledger /\ Frame(l, n)
  BY DEF Frame, Ledger
<1> HIDE DEF n
<1>3. CASE l.state = "Polling" /\ m \in Transition(l, n, "Summarizing")
  <2>1. m \in Ledger /\ Frame(l, m) /\ m.state = "Summarizing"
        /\ CanTransition(l.state, "Summarizing")
    BY <1>2, <1>3, Moved
       DEF Frame, States, ReworkStates, Published, PublishStates, CanceledStates,
           DiscardStates
  <2>2. l.state \notin Published \cup CanceledStates \cup DiscardStates
    BY <1>3, <2>1, EdgesInto
       DEF Published, PublishStates, CanceledStates, DiscardStates, Ledger
  <2>3. Unsent(m) => Unsent(l)
    BY <1>3, <2>1, EdgesInto DEF Unsent, IsRemote, IsLocalWorker, Ledger
  <2> QED
    BY <2>1, <2>2, <2>3, EarlyIsCalm
<1> QED
  BY <1>1, <1>3, SameIsCalm

LEMMA CheckpointLocalWhisperTranscriptCalm ==
  ASSUME NEW l \in Ledger, Valid(l), Ordered(l),
         NEW m \in CheckpointLocalWhisperTranscript(l)
  PROVE  Calm(l, m)
<1> DEFINE n == [l EXCEPT !.transcript_json = TRUE]
<1>1. m = l \/ (l.state = "LocalTranscribing" /\ m \in Transition(l, n, "Summarizing"))
  BY DEF CheckpointLocalWhisperTranscript, When
<1>2. n \in Ledger /\ Frame(l, n)
  BY DEF Frame, Ledger
<1> HIDE DEF n
<1>3. CASE l.state = "LocalTranscribing" /\ m \in Transition(l, n, "Summarizing")
  <2>1. m \in Ledger /\ Frame(l, m) /\ m.state = "Summarizing"
        /\ CanTransition(l.state, "Summarizing")
    BY <1>2, <1>3, Moved
       DEF Frame, States, ReworkStates, Published, PublishStates, CanceledStates,
           DiscardStates
  <2>2. l.state \notin Published \cup CanceledStates \cup DiscardStates
    BY <1>3, <2>1, EdgesInto
       DEF Published, PublishStates, CanceledStates, DiscardStates, Ledger
  <2>3. Unsent(m) => Unsent(l)
    BY <1>3, <2>1, EdgesInto DEF Unsent, IsRemote, IsLocalWorker, Ledger
  <2> QED
    BY <2>1, <2>2, <2>3, EarlyIsCalm
<1> QED
  BY <1>1, <1>3, SameIsCalm

LEMMA CheckpointSummaryCalm ==
  ASSUME NEW l \in Ledger, Valid(l), Ordered(l), NEW m \in CheckpointSummary(l)
  PROVE  Calm(l, m)
<1> DEFINE n == [l EXCEPT !.summary_json = TRUE]
<1>1. m = l \/ (l.state = "SummarySubmitting" /\ m \in Transition(l, n, "Summarizing"))
  BY DEF CheckpointSummary, When
<1>2. n \in Ledger /\ Frame(l, n)
  BY DEF Frame, Ledger
<1> HIDE DEF n
<1>3. CASE l.state = "SummarySubmitting" /\ m \in Transition(l, n, "Summarizing")
  <2>1. m \in Ledger /\ Frame(l, m) /\ m.state = "Summarizing"
        /\ CanTransition(l.state, "Summarizing")
    BY <1>2, <1>3, Moved
       DEF Frame, States, ReworkStates, Published, PublishStates, CanceledStates,
           DiscardStates
  <2>2. l.state \notin Published \cup CanceledStates \cup DiscardStates
    BY <1>3, <2>1, EdgesInto
       DEF Published, PublishStates, CanceledStates, DiscardStates, Ledger
  <2>3. Unsent(m) => Unsent(l)
    BY <1>3, <2>1, EdgesInto DEF Unsent, IsRemote, IsLocalWorker, Ledger
  <2> QED
    BY <2>1, <2>2, <2>3, EarlyIsCalm
<1> QED
  BY <1>1, <1>3, SameIsCalm

LEMMA AbortSummaryBeforeDispatchCalm ==
  ASSUME NEW l \in Ledger, Valid(l), Ordered(l), NEW m \in AbortSummaryBeforeDispatch(l)
  PROVE  Calm(l, m)
<1>1. m = l \/ (l.state = "SummarySubmitting" /\ m \in Transition(l, l, "Summarizing"))
  BY DEF AbortSummaryBeforeDispatch, When
<1>2. Frame(l, l)
  BY DEF Frame
<1>3. CASE l.state = "SummarySubmitting" /\ m \in Transition(l, l, "Summarizing")
  <2>1. m \in Ledger /\ Frame(l, m) /\ m.state = "Summarizing"
        /\ CanTransition(l.state, "Summarizing")
    BY <1>2, <1>3, Moved
       DEF Frame, States, ReworkStates, Published, PublishStates, CanceledStates,
           DiscardStates
  <2>2. l.state \notin Published \cup CanceledStates \cup DiscardStates
    BY <1>3, <2>1, EdgesInto
       DEF Published, PublishStates, CanceledStates, DiscardStates, Ledger
  <2>3. Unsent(m) => Unsent(l)
    BY <1>3, <2>1, EdgesInto DEF Unsent, IsRemote, IsLocalWorker, Ledger
  <2> QED
    BY <2>1, <2>2, <2>3, EarlyIsCalm
<1> QED
  BY <1>1, <1>3, SameIsCalm

LEMMA ResolveSummaryForRetryCalm ==
  ASSUME NEW l \in Ledger, Valid(l), Ordered(l), NEW m \in ResolveSummaryForRetry(l)
  PROVE  Calm(l, m)
<1>1. m = l \/ (l.state = "SummaryAmbiguous" /\ m \in Transition(l, l, "Summarizing"))
  BY DEF ResolveSummaryForRetry, When
<1>2. Frame(l, l)
  BY DEF Frame
<1>3. CASE l.state = "SummaryAmbiguous" /\ m \in Transition(l, l, "Summarizing")
  <2>1. m \in Ledger /\ Frame(l, m) /\ m.state = "Summarizing"
        /\ CanTransition(l.state, "Summarizing")
    BY <1>2, <1>3, Moved
       DEF Frame, States, ReworkStates, Published, PublishStates, CanceledStates,
           DiscardStates
  <2>2. l.state \notin Published \cup CanceledStates \cup DiscardStates
    BY <1>3, <2>1, EdgesInto
       DEF Published, PublishStates, CanceledStates, DiscardStates, Ledger
  <2>3. Unsent(m) => Unsent(l)
    BY <1>3, <2>1, EdgesInto DEF Unsent, IsRemote, IsLocalWorker, Ledger
  <2> QED
    BY <2>1, <2>2, <2>3, EarlyIsCalm
<1> QED
  BY <1>1, <1>3, SameIsCalm

LEMMA SelectLocalWhisperCalm ==
  ASSUME NEW l \in Ledger, Valid(l), Ordered(l), NEW m \in SelectLocalWhisper(l)
  PROVE  Calm(l, m)
<1> DEFINE n == [Selected(l, "WhisperLocal", FALSE) EXCEPT !.miaoji = "none"]
<1>1. m = l
      \/ (l.state \in SelectableStates /\ m \in Transition(l, n, "LocalTranscribing"))
  BY DEF SelectLocalWhisper, When
<1>2. n \in Ledger /\ Frame(l, n)
  BY ZenonT(40) DEF Frame, Ledger, Selected
<1> HIDE DEF n
<1>3. CASE l.state \in SelectableStates /\ m \in Transition(l, n, "LocalTranscribing")
  <2>1. m \in Ledger /\ Frame(l, m) /\ m.state = "LocalTranscribing"
        /\ CanTransition(l.state, "LocalTranscribing")
    BY <1>2, <1>3, Moved
       DEF Frame, States, ReworkStates, Published, PublishStates, CanceledStates,
           DiscardStates
  <2>2. l.state \notin Published \cup CanceledStates \cup DiscardStates
    BY <1>3, <2>1, EdgesInto
       DEF SelectableStates, Published, PublishStates, CanceledStates, DiscardStates,
           Ledger
  <2>3. Unsent(m) => Unsent(l)
    BY <1>3, <2>1, EdgesInto DEF Unsent, IsRemote, IsLocalWorker, Ledger
  <2> QED
    BY <2>1, <2>2, <2>3, EarlyIsCalm
<1> QED
  BY <1>1, <1>3, SameIsCalm

LEMMA AcceptLocalTranscriptOnlyCalm ==
  ASSUME NEW l \in Ledger, Valid(l), Ordered(l), NEW m \in AcceptLocalTranscriptOnly(l)
  PROVE  Calm(l, m)
<1> DEFINE n == [l EXCEPT !.local_diarization = FALSE, !.transcript_only_accepted = TRUE]
<1>1. m = l \/ (l.state = "ProviderFailed" /\ m \in Transition(l, n, "LocalTranscribing"))
  BY DEF AcceptLocalTranscriptOnly, When
<1>2. n \in Ledger /\ Frame(l, n)
  BY DEF Frame, Ledger
<1> HIDE DEF n
<1>3. CASE l.state = "ProviderFailed" /\ m \in Transition(l, n, "LocalTranscribing")
  <2>1. m \in Ledger /\ Frame(l, m) /\ m.state = "LocalTranscribing"
        /\ CanTransition(l.state, "LocalTranscribing")
    BY <1>2, <1>3, Moved
       DEF Frame, States, ReworkStates, Published, PublishStates, CanceledStates,
           DiscardStates
  <2>2. l.state \notin Published \cup CanceledStates \cup DiscardStates
    BY <1>3, <2>1, EdgesInto
       DEF Published, PublishStates, CanceledStates, DiscardStates, Ledger
  <2>3. Unsent(m) => Unsent(l)
    BY <1>3, <2>1, EdgesInto DEF Unsent, IsRemote, IsLocalWorker, Ledger
  <2> QED
    BY <2>1, <2>2, <2>3, EarlyIsCalm
<1> QED
  BY <1>1, <1>3, SameIsCalm

LEMMA SelectFullLocalCalm ==
  ASSUME NEW l \in Ledger, Valid(l), Ordered(l),
         NEW backend \in {"WhisperLocal", "QwenLocal"},
         NEW m \in SelectFullLocal(l, backend)
  PROVE  Calm(l, m)
<1> DEFINE k == Selected(l, backend, TRUE)
           n == [k EXCEPT !.miaoji = "none"]
<1>1. m = l
      \/ (l.state \in SelectableStates /\ m \in Transition(l, n, "LocalTranscribing"))
  BY DEF SelectFullLocal, When
<1>2. k \in Ledger
  BY SelectedIsLedger
<1>3. Frame(l, k)
  BY <1>2 DEF Frame, Ledger, Selected
<1> HIDE DEF k
<1>4. n \in Ledger /\ Frame(l, n)
  BY <1>2, <1>3 DEF Frame, Ledger
<1> HIDE DEF n
<1>5. CASE l.state \in SelectableStates /\ m \in Transition(l, n, "LocalTranscribing")
  <2>1. m \in Ledger /\ Frame(l, m) /\ m.state = "LocalTranscribing"
    BY <1>5, <1>4, Moved DEF Frame, States
  <2> QED
    BY <1>5, <2>1, EarlyIsCalm
       DEF Unsent, SelectableStates, Published, PublishStates, CanceledStates,
           DiscardStates
<1> QED
  BY <1>1, <1>5, SameIsCalm

LEMMA TakeOverWithFullLocalCalm ==
  ASSUME NEW l \in Ledger, Valid(l), Ordered(l),
         NEW backend \in {"WhisperLocal", "QwenLocal"},
         NEW m \in TakeOverWithFullLocal(l, backend)
  PROVE  Calm(l, m)
<1> DEFINE k == Selected(l, backend, TRUE)
           n == [k EXCEPT !.miaoji = "superseded"]
<1>1. m = l \/ (l.state = "Polling" /\ m \in Transition(l, n, "LocalTranscribing"))
  BY DEF TakeOverWithFullLocal, When
<1>2. k \in Ledger
  BY SelectedIsLedger
<1>3. Frame(l, k)
  BY <1>2 DEF Frame, Ledger, Selected
<1> HIDE DEF k
<1>4. n \in Ledger /\ Frame(l, n)
  BY <1>2, <1>3 DEF Frame, Ledger
<1> HIDE DEF n
<1>5. CASE l.state = "Polling" /\ m \in Transition(l, n, "LocalTranscribing")
  <2>1. m \in Ledger /\ Frame(l, m) /\ m.state = "LocalTranscribing"
    BY <1>5, <1>4, Moved DEF Frame, States
  <2> QED
    BY <1>5, <2>1, EarlyIsCalm
       DEF Unsent, Published, PublishStates, CanceledStates, DiscardStates
<1> QED
  BY <1>1, <1>5, SameIsCalm

LEMMA MarkLocalWhisperFailedCalm ==
  ASSUME NEW l \in Ledger, Valid(l), Ordered(l), NEW m \in MarkLocalWhisperFailed(l)
  PROVE  Calm(l, m)
<1>1. m = l \/ (/\ IsLocalWorker(l) /\ l.state = "LocalTranscribing"
                /\ m \in Transition(l, l, "ProviderFailed"))
  BY DEF MarkLocalWhisperFailed, When
<1>2. CASE /\ IsLocalWorker(l) /\ l.state = "LocalTranscribing"
           /\ m \in Transition(l, l, "ProviderFailed")
  <2>1. /\ m \in Ledger /\ Frame(l, m) /\ m.state = "ProviderFailed"
        /\ m.transcription_backend = l.transcription_backend
    BY <1>2, Moved DEF States
  <2> QED
    BY <1>2, <2>1, EarlyIsCalm
       DEF Unsent, IsRemote, IsLocalWorker, Published, PublishStates, CanceledStates,
           DiscardStates
<1> QED
  BY <1>1, <1>2, SameIsCalm

\* A rejected upload was about to be sent: its job had not asked the provider.
LEMMA MarkUploadRejectedCalm ==
  ASSUME NEW l \in Ledger, Valid(l), Ordered(l), NEW m \in MarkUploadRejected(l)
  PROVE  Calm(l, m)
<1>1. m = l \/ (/\ l.state \in {"Uploading", "CancelingUpload"}
                /\ \E s \in {"CanceledBeforeUpload", "ProviderFailed"} :
                     m \in Transition(l, l, s))
  BY DEF MarkUploadRejected, When
<1>2. CASE /\ l.state \in {"Uploading", "CancelingUpload"}
           /\ \E s \in {"CanceledBeforeUpload", "ProviderFailed"} :
                m \in Transition(l, l, s)
  <2>1. /\ m \in Ledger /\ Frame(l, m)
        /\ m.state \in {"CanceledBeforeUpload", "ProviderFailed"}
    BY <1>2, Moved DEF States, CanceledStates
  <2> QED
    BY <1>2, <2>1, EarlyIsCalm
       DEF Unsent, Published, PublishStates, CanceledStates, DiscardStates
<1> QED
  BY <1>1, <1>2, SameIsCalm

LEMMA CheckpointCanceledUploadAbsentCalm ==
  ASSUME NEW l \in Ledger, Valid(l), Ordered(l),
         NEW m \in CheckpointCanceledUploadAbsent(l)
  PROVE  Calm(l, m)
<1>1. /\ l.state = "CancelingUpload"
      /\ m \in Transition(l, l, "CanceledBeforeUpload")
  BY DEF CheckpointCanceledUploadAbsent, When
<1>2. m \in Ledger /\ Frame(l, m) /\ m.state = "CanceledBeforeUpload"
  BY <1>1, Moved DEF States, CanceledStates
<1> QED
  BY <1>1, <1>2, EarlyIsCalm
     DEF Unsent, Published, PublishStates, CanceledStates, DiscardStates

LEMMA RetryProviderCalm ==
  ASSUME NEW l \in Ledger, Valid(l), Ordered(l), NEW m \in RetryProvider(l)
  PROVE  Calm(l, m)
<1> DEFINE n == [l EXCEPT !.miaoji = "none"]
           Local == {"Summarizing", "LocalTranscribing"}
<1>1. /\ l.state = "ProviderFailed"
      /\ \/ \E s \in Local : m \in Transition(l, l, s)
         \/ IsRemote(l) /\ m \in Transition(l, l, "Uploading")
         \/ IsRemote(l) /\ m \in Transition(l, n, "Transcribing")
  BY DEF RetryProvider, When, IsLocalWorker, IsRemote, Ledger
<1>2. n \in Ledger /\ Frame(l, n) /\ Frame(l, l)
  BY DEF Frame, Ledger
<1> HIDE DEF n
<1>3. /\ m \in Ledger /\ Frame(l, m)
      /\ \/ m.state \in Local
         \/ IsRemote(l) /\ m.state \in {"Uploading", "Transcribing"}
  BY <1>1, <1>2, Moved DEF Frame, States, ReworkStates
<1> QED
  BY <1>1, <1>3, EarlyIsCalm
     DEF Unsent, Published, PublishStates, CanceledStates, DiscardStates

\* The receipt of an upload changes what a deletion depends on, but the job it
\* belongs to owes none yet.
LEMMA CheckpointTosObjectCalm ==
  ASSUME NEW l \in Ledger, Valid(l), Ordered(l), NEW m \in CheckpointTosObject(l)
  PROVE  Calm(l, m)
<1> DEFINE n == [l EXCEPT !.tos_object = TRUE]
<1>1. m = l \/ (/\ l.state \in {"Uploading", "CancelingUpload"}
                /\ \E s \in {"CanceledAfterUpload", "Transcribing"} :
                     m \in Transition(l, n, s))
  BY DEF CheckpointTosObject, When
<1>2. /\ n \in Ledger
      /\ n.generation = l.generation /\ n.targets = l.targets
      /\ n.temporary_tos_deleted = l.temporary_tos_deleted
  BY DEF Ledger
<1> HIDE DEF n
<1>3. CASE /\ l.state \in {"Uploading", "CancelingUpload"}
           /\ \E s \in {"CanceledAfterUpload", "Transcribing"} :
                m \in Transition(l, n, s)
  <2>1. /\ m.state \in {"CanceledAfterUpload", "Transcribing"}
        /\ m.generation = l.generation /\ m.targets = l.targets
        /\ m.temporary_tos_deleted = l.temporary_tos_deleted
    BY <1>2, <1>3, Moved DEF Frame, States, CanceledStates
  <2> QED
    BY <1>3, <2>1
       DEF Calm, Unasked, Vouched, StaysDue, Awaits, Unsent, VouchedIn, HasPublication,
           MayDelete, AwaitsDeletion,
                      CancelingIsOpen, Published, PublishStates, CanceledStates,
                      DiscardStates
<1> QED
  BY <1>1, <1>3, SameIsCalm

LEMMA MarkPublicationConflictCalm ==
  ASSUME NEW l \in Ledger, Valid(l), Ordered(l), NEW m \in MarkPublicationConflict(l)
  PROVE  Calm(l, m)
<1>1. m = l \/ (TRUE /\ m \in Transition(l, l, "PublishConflict"))
  BY DEF MarkPublicationConflict, When
<1>2. CASE TRUE /\ m \in Transition(l, l, "PublishConflict")
  <2>1. Frame(l, m) /\ m.state = "PublishConflict"
        /\ CanTransition(l.state, "PublishConflict")
    BY <1>2, Moved
       DEF States, ReworkStates, Published, PublishStates, CanceledStates, DiscardStates
  <2> QED
    BY <1>2, <2>1, EdgesInto
       DEF Frame, Calm, Unasked, Vouched, StaysDue, Awaits, Unsent, IsRemote, VouchedIn,
           HasPublication, MayDelete, AllVerified, AwaitsDeletion,
          CancelingIsOpen,
           Ordered, OrderedAt, Ledger, Published, PublishStates, CanceledStates,
           DiscardStates
<1> QED
  BY <1>1, <1>2, SameIsCalm

LEMMA CheckpointDiscardedCalm ==
  ASSUME NEW l \in Ledger, Valid(l), Ordered(l), NEW m \in CheckpointDiscarded(l)
  PROVE  Calm(l, m)
<1>1. m = l \/ (l.state = "Discarding" /\ m \in Transition(l, l, "Discarded"))
  BY DEF CheckpointDiscarded, When
<1>2. CASE l.state = "Discarding" /\ m \in Transition(l, l, "Discarded")
  <2>1. Frame(l, m) /\ m.state = "Discarded" /\ CanTransition(l.state, "Discarded")
    BY <1>2, Moved
       DEF States, ReworkStates, Published, PublishStates, CanceledStates, DiscardStates
  <2> QED
    BY <1>2, <2>1, EdgesInto
       DEF Frame, Calm, Unasked, Vouched, StaysDue, Awaits, Unsent, IsRemote, VouchedIn,
           HasPublication, MayDelete, AllVerified, AwaitsDeletion,
          CancelingIsOpen,
           Ordered, OrderedAt, Ledger, Published, PublishStates, CanceledStates,
           DiscardStates
<1> QED
  BY <1>1, <1>2, SameIsCalm

\* Only what was cleaned up, or never uploaded, is discarded.
LEMMA BeginDiscardCalm ==
  ASSUME NEW l \in Ledger, Valid(l), Ordered(l), NEW m \in BeginDiscard(l)
  PROVE  Calm(l, m)
<1> DEFINE Clean == /\ l.state \in {"Queued"} \cup CanceledStates
                    /\ l.state = "CanceledAfterUpload" => l.temporary_tos_deleted
<1>1. m = l \/ (Clean /\ m \in Transition(l, l, "Discarding"))
  BY DEF BeginDiscard, When
<1>2. CASE Clean /\ m \in Transition(l, l, "Discarding")
  <2>1. Frame(l, m) /\ m.state = "Discarding"
    BY <1>2, Moved DEF States, DiscardStates
  <2> QED
    BY <1>2, <2>1
       DEF Frame, Calm, Unasked, Vouched, StaysDue, Awaits, Unsent, IsRemote, VouchedIn,
           HasPublication, MayDelete, AllVerified, AwaitsDeletion,
          CancelingIsOpen,
           Ordered, OrderedAt, Ledger, Published, PublishStates, CanceledStates,
           DiscardStates
<1> QED
  BY <1>1, <1>2, SameIsCalm

\* A cancel finds the object recorded, or in flight, or not there.
LEMMA CancelCalm ==
  ASSUME NEW l \in Ledger, Valid(l), Ordered(l), NEW m \in Cancel(l)
  PROVE  Calm(l, m)
<1>1. \/ m = l
      \/ ~l.tos_object /\ m \in Transition(l, l, "CancelingUpload")
      \/ m \in Transition(l, l, "CanceledAfterUpload")
      \/ ~l.tos_object /\ m \in Transition(l, l, "CanceledBeforeUpload")
  BY DEF Cancel, When, Ledger
<1>2. CASE ~l.tos_object /\ m \in Transition(l, l, "CancelingUpload")
  <2>1. Frame(l, m) /\ m.state = "CancelingUpload"
        /\ CanTransition(l.state, "CancelingUpload")
    BY <1>2, Moved DEF States
  <2> QED
    BY <1>2, <2>1, EdgesInto
       DEF Frame, Calm, Unasked, Vouched, StaysDue, Awaits, Unsent, IsRemote, VouchedIn,
           HasPublication, MayDelete, AllVerified, AwaitsDeletion,
          CancelingIsOpen,
           Ledger, Published, PublishStates, CanceledStates, DiscardStates
<1>3. CASE m \in Transition(l, l, "CanceledAfterUpload")
  <2>1. /\ Frame(l, m) /\ m.state = "CanceledAfterUpload"
        /\ CanTransition(l.state, "CanceledAfterUpload")
    BY <1>3, Moved DEF States, CanceledStates
  <2> QED
    BY <2>1, EdgesInto
       DEF Frame, Calm, Unasked, Vouched, StaysDue, Awaits, Unsent, IsRemote, VouchedIn,
           HasPublication, MayDelete, AllVerified, AwaitsDeletion,
          CancelingIsOpen,
           Ledger, Published, PublishStates, CanceledStates, DiscardStates
<1>4. CASE ~l.tos_object /\ m \in Transition(l, l, "CanceledBeforeUpload")
  <2>1. /\ Frame(l, m) /\ m.state = "CanceledBeforeUpload"
        /\ CanTransition(l.state, "CanceledBeforeUpload")
    BY <1>4, Moved DEF States, CanceledStates
  <2> QED
    BY <1>4, <2>1, EdgesInto
       DEF Frame, Calm, Unasked, Vouched, StaysDue, Awaits, Unsent, IsRemote, VouchedIn,
           HasPublication, MayDelete, AllVerified, AwaitsDeletion,
          CancelingIsOpen,
           Ledger, Published, PublishStates, CanceledStates, DiscardStates
<1> QED
  BY <1>1, <1>2, <1>3, <1>4, SameIsCalm

LEMMA BeginReprocessCalm ==
  ASSUME NEW l \in Ledger, Valid(l), Ordered(l), NEW m \in BeginReprocess(l)
  PROVE  Calm(l, m)
<1> DEFINE n == [l EXCEPT !.summary_json = FALSE, !.canonical_backup = FALSE]
<1>1. m = l \/ (l.state = "Complete" /\ m \in Transition(l, n, "Summarizing"))
  BY DEF BeginReprocess, When
<1>2. /\ n \in Ledger
      /\ n.generation = l.generation /\ n.targets = l.targets
      /\ n.temporary_tos_deleted = l.temporary_tos_deleted
  BY DEF Ledger
<1> HIDE DEF n
<1>3. CASE l.state = "Complete" /\ m \in Transition(l, n, "Summarizing")
  <2>1. /\ m.state = "Summarizing"
        /\ m.generation = l.generation /\ m.targets = l.targets
        /\ m.temporary_tos_deleted = l.temporary_tos_deleted
    BY <1>2, <1>3, Moved DEF Frame, States, ReworkStates
  <2>2. l.temporary_tos_deleted
    BY <1>3 DEF Valid, CleanupConsistent
  <2> QED
    BY <1>3, <2>1, <2>2
       DEF Calm, Unasked, Vouched, StaysDue, Awaits, Unsent, IsRemote, VouchedIn,
           HasPublication, MayDelete, AllVerified, AwaitsDeletion,
          CancelingIsOpen
<1> QED
  BY <1>1, <1>3, SameIsCalm

\* A job enters Publishing with a generation of which nothing is verified yet.
LEMMA NewGenerationCalm ==
  ASSUME NEW l \in Ledger, NEW n \in Ledger, NEW m \in Transition(l, n, "Publishing"),
         n.targets = NoPublication,
         n.temporary_tos_deleted = l.temporary_tos_deleted,
         l.state = "Summarizing" \/ l.temporary_tos_deleted
  PROVE  Calm(l, m)
<1>1. /\ m.state = "Publishing"
      /\ m.targets = NoPublication
      /\ m.temporary_tos_deleted = l.temporary_tos_deleted
  BY Moved DEF Frame, States, ReworkStates
<1>2. \A t \in Targets : m.targets[t] # "Verified"
  BY <1>1 DEF NoPublication
<1>3. l.state # "CanceledAfterUpload" \/ l.temporary_tos_deleted
  OBVIOUS
<1> QED
  BY <1>1, <1>2, <1>3
     DEF Calm, Unasked, Vouched, StaysDue, Awaits, Unsent, IsRemote, VouchedIn,
         HasPublication, MayDelete, AllVerified, AwaitsDeletion,
          CancelingIsOpen,
         Published, PublishStates, CanceledStates, DiscardStates

LEMMA PlanPublicationCalm ==
  ASSUME NEW l \in Ledger, Valid(l), Ordered(l), NEW m \in PlanPublication(l)
  PROVE  Calm(l, m)
<1> DEFINE n == [l EXCEPT !.generation = 1, !.targets = NoPublication]
<1>1. \/ m = l
      \/ /\ l.state = "Summarizing" /\ GenerationLeft(l)
         /\ m \in Transition(l, NextGeneration(l), "Publishing")
      \/ /\ l.state = "Summarizing" /\ ~HasPublication(l)
         /\ m \in Transition(l, n, "Publishing")
  BY DEF PlanPublication, When
<1>2. CASE /\ l.state = "Summarizing" /\ GenerationLeft(l)
           /\ m \in Transition(l, NextGeneration(l), "Publishing")
  <2>1. NextGeneration(l) \in Ledger
    BY <1>2, NextGenerationIsLedger
  <2>2. /\ NextGeneration(l).targets = NoPublication
        /\ NextGeneration(l).temporary_tos_deleted = l.temporary_tos_deleted
    BY DEF NextGeneration, Ledger
  <2> QED
    BY <1>2, <2>1, <2>2, NewGenerationCalm
<1>3. CASE /\ l.state = "Summarizing" /\ ~HasPublication(l)
           /\ m \in Transition(l, n, "Publishing")
  <2>0. l.generation < 1 /\ 1 <= MaxGeneration
    BY <1>3, LedgerAssumption DEF HasPublication
  <2>1. n \in Ledger
    BY <2>0, NewGeneration
  <2>2. n.targets = NoPublication /\ n.temporary_tos_deleted = l.temporary_tos_deleted
    BY DEF Ledger
  <2> QED
    BY <1>3, <2>1, <2>2, NewGenerationCalm
<1> QED
  BY <1>1, <1>2, <1>3, SameIsCalm

LEMMA BeginRemoteBackupCalm ==
  ASSUME NEW l \in Ledger, Valid(l), Ordered(l), NEW m \in BeginRemoteBackup(l)
  PROVE  Calm(l, m)
<1> DEFINE k == NextGeneration(l)
           n == [k EXCEPT !.publication_backend = "RemoteArchive",
                          !.canonical_backup = FALSE]
<1>1. \/ m = l
      \/ /\ l.state = "Complete" /\ GenerationLeft(l)
         /\ m \in Transition(l, n, "Publishing")
  BY DEF BeginRemoteBackup, When
<1>2. CASE /\ l.state = "Complete" /\ GenerationLeft(l)
           /\ m \in Transition(l, n, "Publishing")
  <2>1. k \in Ledger
    BY <1>2, NextGenerationIsLedger
  <2>2. k.targets = NoPublication /\ k.temporary_tos_deleted = l.temporary_tos_deleted
    BY DEF NextGeneration, Ledger
  <2> HIDE DEF k
  <2>3. /\ n \in Ledger
        /\ n.targets = k.targets /\ n.temporary_tos_deleted = k.temporary_tos_deleted
    BY <2>1, ZenonT(40) DEF Ledger
  <2>4. l.temporary_tos_deleted
    BY <1>2 DEF Valid, CleanupConsistent
  <2> HIDE DEF n
  <2> QED
    BY <1>2, <2>2, <2>3, <2>4, NewGenerationCalm
<1> QED
  BY <1>1, <1>2, SameIsCalm

\* Moving a target that is not verified, to anything but Verified.
LEMMA TargetMoveCalm ==
  ASSUME NEW l \in Ledger, NEW m \in Ledger, NEW t \in Targets, NEW v \in TargetStates,
         l.targets[t] # "Verified", v # "Verified",
         m.targets = [l.targets EXCEPT ![t] = v],
         m.generation = l.generation,
         m.temporary_tos_deleted = l.temporary_tos_deleted,
         l.state \in PublishStates \cup {"Publishing"},
         m.state \in PublishStates \cup {"Publishing"}
  PROVE  Calm(l, m)
<1>1. \A u \in Targets : m.targets[u] = "Verified" => l.targets[u] = "Verified"
  BY DEF Ledger
<1>2. ~AllVerified(l)
  BY DEF AllVerified
<1> QED
  BY <1>1, <1>2
     DEF Calm, Unasked, Vouched, StaysDue, Awaits, Unsent, IsRemote, VouchedIn,
         HasPublication, MayDelete, AwaitsDeletion, CancelingIsOpen,
         Published, PublishStates, CanceledStates, DiscardStates

\* Moving a target touches nothing else.
LEMMA TargetMoved ==
  ASSUME NEW l \in Ledger, NEW t \in Targets, NEW v \in TargetStates
  PROVE  LET n == [l EXCEPT !.targets[t] = v]
         IN  /\ n \in Ledger /\ n.state = l.state
             /\ n.targets = [l.targets EXCEPT ![t] = v]
             /\ n.generation = l.generation
             /\ n.temporary_tos_deleted = l.temporary_tos_deleted
             /\ n.canonical_backup = l.canonical_backup
<1> DEFINE n == [l EXCEPT !.targets[t] = v]
<1>1. n \in Ledger
  BY DEF Ledger
<1>2. /\ n.state = l.state
      /\ n.targets = [l.targets EXCEPT ![t] = v]
      /\ n.generation = l.generation
      /\ n.temporary_tos_deleted = l.temporary_tos_deleted
      /\ n.canonical_backup = l.canonical_backup
  BY DEF Ledger
<1> HIDE DEF n
<1> QED
  BY <1>1, <1>2 DEF n

LEMMA RetryPublicationCalm ==
  ASSUME NEW l \in Ledger, Valid(l), Ordered(l), NEW m \in RetryPublication(l)
  PROVE  Calm(l, m)
<1>1. PICK t \in FirstUnverified(l) :
        /\ l.state \in PublishStates
        /\ m \in Transition(l, [l EXCEPT !.targets[t] = "Pending"], "Publishing")
  BY DEF RetryPublication, When
<1> DEFINE n == [l EXCEPT !.targets[t] = "Pending"]
<1>2. t \in Targets /\ l.targets[t] # "Verified"
  BY DEF FirstUnverified
<1>3. n \in Ledger /\ n.targets = [l.targets EXCEPT ![t] = "Pending"]
      /\ n.generation = l.generation
      /\ n.temporary_tos_deleted = l.temporary_tos_deleted
  BY <1>2, TargetMoved DEF TargetStates
<1>4. m \in Transition(l, n, "Publishing")
  BY <1>1
<1> HIDE DEF n
<1>5. /\ m \in Ledger /\ m.state = "Publishing"
      /\ m.targets = [l.targets EXCEPT ![t] = "Pending"]
      /\ m.generation = l.generation
      /\ m.temporary_tos_deleted = l.temporary_tos_deleted
  BY <1>3, <1>4, Moved DEF Frame, States, ReworkStates
<1> QED
  BY <1>1, <1>2, <1>5, TargetMoveCalm DEF TargetStates

LEMMA FailPublicationTargetCalm ==
  ASSUME NEW l \in Ledger, Valid(l), Ordered(l), NEW g \in Nat, NEW t \in Targets,
         NEW ambiguous \in BOOLEAN, NEW m \in FailPublicationTarget(l, g, t, ambiguous)
  PROVE  Calm(l, m)
<1>1. PICK v \in {"Ambiguous", "Failed"}, s \in {"PublishAmbiguous", "PublishFailed"} :
        m \in Transition(l, [l EXCEPT !.targets[t] = v], s)
  BY DEF FailPublicationTarget, When
<1> DEFINE n == [l EXCEPT !.targets[t] = v]
<1>2. l.state = "Publishing" /\ l.targets[t] = "Started"
  BY DEF FailPublicationTarget, When
<1>3. v \in TargetStates
  BY DEF TargetStates
<1>4. n \in Ledger /\ n.targets = [l.targets EXCEPT ![t] = v]
      /\ n.generation = l.generation
      /\ n.temporary_tos_deleted = l.temporary_tos_deleted
  BY <1>3, TargetMoved
<1>5. m \in Transition(l, n, s)
  BY <1>1
<1> HIDE DEF n
<1>6. /\ m \in Ledger /\ m.state = s
      /\ m.targets = [l.targets EXCEPT ![t] = v]
      /\ m.generation = l.generation
      /\ m.temporary_tos_deleted = l.temporary_tos_deleted
  BY <1>4, <1>5, Moved DEF Frame, States, ReworkStates, PublishStates
<1> QED
  BY <1>2, <1>6, TargetMoveCalm DEF TargetStates, PublishStates

LEMMA StartPublicationTargetCalm ==
  ASSUME NEW l \in Ledger, Valid(l), Ordered(l), NEW g \in Nat, NEW t \in Targets,
         NEW m \in StartPublicationTarget(l, g, t)
  PROVE  Calm(l, m)
<1> DEFINE n == [l EXCEPT !.targets[t] = "Started"]
<1>1. m = l \/ (/\ l.state = "Publishing"
                /\ l.targets[t] \in {"Pending", "Failed"}
                /\ m = n)
  BY DEF StartPublicationTarget, Mutate, When
<1>2. CASE /\ l.state = "Publishing"
           /\ l.targets[t] \in {"Pending", "Failed"}
           /\ m = n
  <2>1. /\ n \in Ledger /\ n.state = l.state
        /\ n.targets = [l.targets EXCEPT ![t] = "Started"]
        /\ n.generation = l.generation
        /\ n.temporary_tos_deleted = l.temporary_tos_deleted
    BY <1>2, TargetMoved DEF TargetStates
  <2> HIDE DEF n
  <2> QED
    BY <1>2, <2>1, TargetMoveCalm DEF TargetStates, PublishStates
<1> QED
  BY <1>1, <1>2, SameIsCalm

LEMMA CheckpointCanonicalBackupCalm ==
  ASSUME NEW l \in Ledger, Valid(l), Ordered(l), NEW g \in Nat,
         NEW m \in CheckpointCanonicalBackup(l, g)
  PROVE  Calm(l, m)
<1> DEFINE n == [l EXCEPT !.canonical_backup = TRUE]
<1>1. m = l \/ (l.state = "Publishing" /\ m = n)
  BY DEF CheckpointCanonicalBackup, Mutate, When
<1>2. /\ n.state = l.state /\ n.canonical_backup = TRUE
      /\ n.generation = l.generation /\ n.targets = l.targets
      /\ n.temporary_tos_deleted = l.temporary_tos_deleted
  BY DEF Ledger
<1> HIDE DEF n
<1>3. CASE l.state = "Publishing" /\ m = n
  BY <1>2, <1>3
     DEF Calm, Unasked, Vouched, StaysDue, Awaits, Unsent, IsRemote, VouchedIn,
         HasPublication, MayDelete, AllVerified, AwaitsDeletion,
          CancelingIsOpen,
         Published, PublishStates, CanceledStates, DiscardStates
<1> QED
  BY <1>1, <1>3, SameIsCalm

\* The recorded cleanup is what a deletion was due for.
LEMMA CheckpointCleanupCalm ==
  ASSUME NEW l \in Ledger, Valid(l), Ordered(l), NEW g \in Nat,
         NEW m \in CheckpointCleanup(l, g)
  PROVE  Calm(l, m)
<1> DEFINE k == ScheduleRetention(l)
           n == [k EXCEPT !.temporary_tos_deleted = TRUE]
<1>1. \/ l.state = "Complete" /\ m = k
      \/ l.state = "Publishing" /\ m \in Transition(l, n, "Complete")
  BY DEF CheckpointCleanup, Mutate, When
<1>2. /\ k \in Ledger /\ k.state = l.state /\ Frame(l, k)
  BY DEF ScheduleRetention, Frame, Ledger
<1> HIDE DEF k
<1>3. /\ n \in Ledger /\ n.temporary_tos_deleted
      /\ n.generation = k.generation /\ n.targets = k.targets
  BY <1>2 DEF Ledger
<1> HIDE DEF n
<1>4. CASE l.state = "Complete" /\ m = k
  BY <1>2, <1>4
     DEF Frame, Calm, Unasked, Vouched, StaysDue, Awaits, Unsent, IsRemote, VouchedIn,
         HasPublication, MayDelete, AllVerified, AwaitsDeletion,
          CancelingIsOpen,
         Published, PublishStates, CanceledStates, DiscardStates
<1>5. CASE l.state = "Publishing" /\ m \in Transition(l, n, "Complete")
  <2>1. /\ m.state = "Complete" /\ m.temporary_tos_deleted
        /\ m.generation = l.generation /\ m.targets = l.targets
    BY <1>2, <1>3, <1>5, Moved DEF Frame, States
  <2> QED
    BY <1>5, <2>1
       DEF Calm, Unasked, Vouched, StaysDue, Awaits, Unsent, IsRemote, VouchedIn,
           HasPublication, MayDelete, AllVerified, AwaitsDeletion,
          CancelingIsOpen,
           Published, PublishStates, CanceledStates, DiscardStates
<1> QED
  BY <1>1, <1>4, <1>5

LEMMA ResumeCalm ==
  ASSUME NEW l \in Ledger, Valid(l), Ordered(l), NEW m \in Resume(l)
  PROVE  Calm(l, m)
<1> DEFINE asked == [l EXCEPT !.miaoji = "requested"]
<1>1. CASE l.state \in {"Submitting", "Queued", "Summarizing", "SummarySubmitting"}
      /\ m # l
  <2>1. PICK s \in {"SubmitAmbiguous", "Uploading",
                    "SummarySubmitting", "SummaryAmbiguous"} :
          /\ m = [l EXCEPT !.state = s]
          /\ s = "Uploading" => l.state = "Queued"
    BY <1>1 DEF Resume, Mutate, When
  <2>2. m \in Ledger /\ Frame(l, m) /\ m.state = s
    BY <2>1 DEF Frame, Ledger, States, ReworkStates
  <2> QED
    BY <1>1, <2>1, <2>2, EarlyIsCalm
       DEF Unsent, IsRemote, Published, PublishStates, CanceledStates, DiscardStates
<1>2. CASE l.state = "Transcribing"
  <2>1. asked \in Ledger /\ Frame(l, asked)
    BY DEF Frame, Ledger
  <2>2. m = [asked EXCEPT !.state = "Submitting"]
    BY <1>2 DEF Resume, Mutate, When
  <2> HIDE DEF asked
  <2>3. m \in Ledger /\ Frame(l, m) /\ m.state = "Submitting"
    BY <2>1, <2>2 DEF Frame, Ledger, States
  <2> QED
    BY <1>2, <2>3, EarlyIsCalm
       DEF Unsent, IsRemote, Published, PublishStates, CanceledStates, DiscardStates
<1>3. CASE l.state = "Publishing" /\ m # l
  <2>1. PICK t \in FirstUnverified(l) :
          m = [l EXCEPT !.targets[t] = "Ambiguous", !.state = "PublishAmbiguous"]
    BY <1>3 DEF Resume, ResumePublishing, Mutate, When
  <2>2. t \in Targets /\ l.targets[t] # "Verified"
    BY DEF FirstUnverified
  <2> DEFINE k == [l EXCEPT !.targets[t] = "Ambiguous"]
  <2>3. /\ k \in Ledger /\ k.targets = [l.targets EXCEPT ![t] = "Ambiguous"]
        /\ k.generation = l.generation
        /\ k.temporary_tos_deleted = l.temporary_tos_deleted
    BY <2>2, TargetMoved DEF TargetStates
  <2>4. m = [k EXCEPT !.state = "PublishAmbiguous"]
    BY <2>1
  <2> HIDE DEF k
  <2>5. /\ m \in Ledger /\ m.state = "PublishAmbiguous"
        /\ m.targets = k.targets /\ m.generation = k.generation
        /\ m.temporary_tos_deleted = k.temporary_tos_deleted
    BY <2>3, <2>4 DEF Ledger, States, ReworkStates, PublishStates
  <2> QED
    BY <1>3, <2>2, <2>3, <2>5, TargetMoveCalm, ZenonT(40) DEF TargetStates, PublishStates
<1>4. CASE m = l
  BY <1>4, SameIsCalm
<1> QED
  BY <1>1, <1>2, <1>3, <1>4 DEF Resume

------------------------
(* The three operations that do one of these things, each for its own task. *)

\* A refusal leads back to before the request, and does nothing else.
LEMMA MarkSubmitRejectedTame ==
  ASSUME NEW l \in Ledger, Valid(l), Ordered(l), NEW m \in MarkSubmitRejected(l)
  PROVE  /\ Vouched(l, m) /\ StaysDue(l, m) /\ Awaits(l, m)
         /\ Unasked(l, m) \/ l.state = "Submitting"
<1>1. m = l \/ (l.state = "Submitting" /\ m \in Transition(l, l, "ProviderFailed"))
  BY DEF MarkSubmitRejected, When
<1>2. CASE l.state = "Submitting" /\ m \in Transition(l, l, "ProviderFailed")
  <2>1. Frame(l, m) /\ m.state = "ProviderFailed"
    BY <1>2, Moved DEF States
  <2> QED
    BY <1>2, <2>1
       DEF Frame, Calm, Unasked, Vouched, StaysDue, Awaits, Unsent, IsRemote, VouchedIn,
           HasPublication, MayDelete, AllVerified, AwaitsDeletion,
          CancelingIsOpen,
           Published, PublishStates, CanceledStates, DiscardStates
<1> QED
  BY <1>1, <1>2, SameIsCalm DEF Calm

\* A receipt verifies its own target of its own generation.
LEMMA CheckpointPublicationTargetTame ==
  ASSUME NEW l \in Ledger, Valid(l), Ordered(l), NEW g \in Nat, NEW t \in Targets,
         NEW m \in CheckpointPublicationTarget(l, g, t)
  PROVE  /\ Unasked(l, m) /\ StaysDue(l, m) /\ Awaits(l, m)
         /\ m.generation = l.generation
         /\ \A u \in Targets : m.targets[u] = "Verified" =>
              l.targets[u] = "Verified" \/ (u = t /\ m.generation = g)
<1> DEFINE n == [l EXCEPT !.targets[t] = "Verified"]
<1>1. \/ m = l
      \/ l.state = "Publishing" /\ l.generation = g /\ m = n
  BY DEF CheckpointPublicationTarget, CurrentTarget, Mutate, When
<1>2. CASE l.state = "Publishing" /\ l.generation = g /\ m = n
  <2>1. /\ n.state = l.state /\ n.generation = l.generation
        /\ n.targets = [l.targets EXCEPT ![t] = "Verified"]
        /\ n.temporary_tos_deleted = l.temporary_tos_deleted
        /\ n.canonical_backup = l.canonical_backup
    BY DEF Ledger
  <2>2. \A u \in Targets : /\ u # t => n.targets[u] = l.targets[u]
                          /\ l.targets[u] = "Verified" => n.targets[u] = "Verified"
    BY <2>1 DEF Ledger
  <2> HIDE DEF n
  <2> QED
    BY <1>2, <2>1, <2>2
       DEF Calm, Unasked, Vouched, StaysDue, Awaits, Unsent, IsRemote, VouchedIn,
           HasPublication, MayDelete, AllVerified, AwaitsDeletion,
          CancelingIsOpen,
           Published, PublishStates, CanceledStates, DiscardStates
<1> QED
  BY <1>1, <1>2, SameIsCalm DEF Calm

\* Recording a canceled upload's deletion only settles it.
LEMMA CheckpointCanceledTosCleanupTame ==
  ASSUME NEW l \in Ledger, Valid(l), Ordered(l), NEW m \in CheckpointCanceledTosCleanup(l)
  PROVE  Unasked(l, m) /\ Vouched(l, m) /\ StaysDue(l, m)
<1> DEFINE n == [l EXCEPT !.temporary_tos_deleted = TRUE]
<1>1. m = l \/ (l.state = "CanceledAfterUpload" /\ m = n)
  BY DEF CheckpointCanceledTosCleanup, Mutate, When
<1>2. /\ n.state = l.state /\ n.generation = l.generation /\ n.targets = l.targets
      /\ n.temporary_tos_deleted
  BY DEF Ledger
<1> HIDE DEF n
<1>3. CASE l.state = "CanceledAfterUpload" /\ m = n
  BY <1>2, <1>3
     DEF Calm, Unasked, Vouched, StaysDue, Awaits, Unsent, IsRemote, VouchedIn,
         HasPublication, MayDelete, AllVerified, AwaitsDeletion,
          CancelingIsOpen,
         Published, PublishStates, CanceledStates, DiscardStates
<1> QED
  BY <1>1, <1>3, SameIsCalm DEF Calm

------------------------
(* The invariant. *)

LedgerIsGood == Valid(ledger) /\ Ordered(ledger) /\ CancelingIsOpen(ledger)

\* Where a worker holds the marker in tos_operations_in_flight.
MarkerPhases == {"upload", "uploading", "uploaded", "inner", "probe", "delete", "deleted"}

MarkerIsHeld == \A w \in Workers : worker[w].at \in MarkerPhases => tos_operation = w

\* A worker about to publish carries a target, and its generation once it did.
ReceiptsAreNamed ==
    \A w \in Workers :
       /\ worker[w].at \in {"publish", "publishing"} => worker[w].target \in Targets
       /\ worker[w].at = "publishing" => worker[w].generation # 0

\* A worker that asks the provider, or waits for the answer, is the only one,
\* and no job was accepted before it asks.
Asking(w) == worker[w].at \in {"dispatch", "accepted"}

RequestIsUnique ==
    /\ \A v, w \in Workers : Asking(v) /\ Asking(w) => v = w
    /\ \A w \in Workers : Asking(w) => ~Unsent(ledger)
    /\ \A w \in Workers : worker[w].at = "dispatch" => tasks = 0
    /\ Unsent(ledger) => tasks = 0
    /\ OneProviderJob

\* A worker about to delete the temporary object does it for a reason that no
\* other worker can take away.
DeletionIsDue ==
    \A w \in Workers :
       /\ worker[w].at = "cleanup" => MayDelete(ledger)
       /\ worker[w].at = "delete" => AwaitsDeletion(ledger)

EInv ==
    /\ TypeOK
    /\ LedgerIsGood
    /\ MarkerIsHeld
    /\ ReceiptsAreNamed
    /\ VerifiedIsPublished
    /\ RequestIsUnique
    /\ DeletionIsDue

------------------------
(* What the steps have in common. *)

Harmless(l, m) == Sound(l, m) /\ Calm(l, m)

LEMMA SameIsHarmless ==
  ASSUME NEW l \in Ledger, Valid(l), Ordered(l)
  PROVE  Harmless(l, l)
BY SameIsSound, SameIsCalm DEF Harmless

LEMMA EffectHarmless ==
  ASSUME NEW l \in Ledger, Valid(l), Ordered(l), NEW m,
         \/ m \in MarkUploadRejected(l) \/ m \in CheckpointTosObject(l)
         \/ m \in CheckpointMiaojiTask(l) \/ m \in MarkSubmitAmbiguous(l)
         \/ m \in CheckpointTranscript(l) \/ m \in CheckpointLocalWhisperTranscript(l)
         \/ m \in MarkLocalWhisperFailed(l) \/ m \in CheckpointSummary(l)
         \/ m \in AbortSummaryBeforeDispatch(l) \/ m \in Resume(l)
  PROVE  Harmless(l, m)
BY MarkUploadRejectedSound, MarkUploadRejectedCalm,
   CheckpointTosObjectSound, CheckpointTosObjectCalm,
   CheckpointMiaojiTaskSound, CheckpointMiaojiTaskCalm,
   MarkSubmitAmbiguousSound, MarkSubmitAmbiguousCalm,
   CheckpointTranscriptSound, CheckpointTranscriptCalm,
   CheckpointLocalWhisperTranscriptSound, CheckpointLocalWhisperTranscriptCalm,
   MarkLocalWhisperFailedSound, MarkLocalWhisperFailedCalm,
   CheckpointSummarySound, CheckpointSummaryCalm,
   SummaryMovesSound, AbortSummaryBeforeDispatchCalm,
   ResumeSound, ResumeCalm
   DEF Harmless

LEMMA PublicationHarmless ==
  ASSUME NEW l \in Ledger, Valid(l), Ordered(l), NEW g \in Nat, NEW t \in Targets, NEW m,
         \/ m \in PlanPublication(l) \/ m \in StartPublicationTarget(l, g, t)
         \/ m \in MarkPublicationConflict(l)
         \/ \E ambiguous \in BOOLEAN : m \in FailPublicationTarget(l, g, t, ambiguous)
  PROVE  Harmless(l, m)
BY PlanPublicationSound, PlanPublicationCalm,
   StartPublicationTargetSound, StartPublicationTargetCalm,
   MarkPublicationConflictSound, MarkPublicationConflictCalm,
   FailPublicationTargetSound, FailPublicationTargetCalm
   DEF Harmless

LEMMA BackupHarmless ==
  ASSUME NEW l \in Ledger, Valid(l), Ordered(l), NEW g \in Nat, NEW m,
         m \in CheckpointCanonicalBackup(l, g) \/ m \in CheckpointCleanup(l, g)
  PROVE  Harmless(l, m)
BY CheckpointCanonicalBackupSound, CheckpointCanonicalBackupCalm,
   CheckpointCleanupSound, CheckpointCleanupCalm
   DEF Harmless

LEMMA CancelHarmless ==
  ASSUME NEW l \in Ledger, Valid(l), Ordered(l), NEW m,
         \/ m \in Cancel(l) \/ m \in CheckpointCanceledUploadAbsent(l)
         \/ m \in BeginDiscard(l) \/ m \in CheckpointDiscarded(l)
  PROVE  Harmless(l, m)
BY CancelMovesSound, CancelCalm, CheckpointCanceledUploadAbsentCalm,
   DiscardMovesSound, BeginDiscardCalm, CheckpointDiscardedCalm
   DEF Harmless

LEMMA CommandHarmless ==
  ASSUME NEW l \in Ledger, Valid(l), Ordered(l), NEW m,
         \/ m \in RetryOutcomes(l) \/ m \in BeginReprocess(l)
            \/ m \in BeginRemoteBackup(l)
         \/ m \in SelectLocalWhisper(l) \/ m \in AcceptLocalTranscriptOnly(l)
         \/ \E backend \in {"WhisperLocal", "QwenLocal"} :
              m \in SelectFullLocal(l, backend) \/ m \in TakeOverWithFullLocal(l, backend)
  PROVE  Harmless(l, m)
<1>1. CASE m \in RetryOutcomes(l)
  <2>1. \/ m \in RetryProvider(l) \/ m \in RetryPublication(l)
        \/ m \in ResolveSummaryForRetry(l) \/ m = l
    BY <1>1 DEF RetryOutcomes
  <2> QED
    BY <2>1, SameIsHarmless, RetryProviderSound, RetryProviderCalm, RetryPublicationSound,
       RetryPublicationCalm, SummaryMovesSound, ResolveSummaryForRetryCalm
       DEF Harmless
<1>2. CASE m \notin RetryOutcomes(l)
  BY <1>2, BeginReprocessSound, BeginReprocessCalm, BeginRemoteBackupSound,
     BeginRemoteBackupCalm, SelectLocalWhisperSound, SelectLocalWhisperCalm,
     AcceptLocalTranscriptOnlySound, AcceptLocalTranscriptOnlyCalm,
     SelectFullLocalSound, SelectFullLocalCalm,
     TakeOverWithFullLocalSound, TakeOverWithFullLocalCalm
     DEF Harmless
<1> QED
  BY <1>1, <1>2

\* Every other worker stays where it is.
StepOf(w) == \A v \in Workers \ {w} : worker'[v] = worker[v]

LEMMA GotoMoves ==
  ASSUME TypeOK, NEW w \in Workers, NEW phase \in Phases, Goto(w, phase)
  PROVE  /\ worker' \in [Workers -> [at: Phases, generation: 0..MaxGeneration,
                                     target: 0..NumTargets]]
         /\ worker'[w].at = phase
         /\ StepOf(w)
         /\ phase \in {"publishing", "cleaned"} =>
              /\ worker'[w].generation = worker[w].generation
              /\ worker'[w].target = worker[w].target
<1> DEFINE W == [at: Phases, generation: 0..MaxGeneration, target: 0..NumTargets]
           place == IF phase \in {"publishing", "cleaned"}
                    THEN [worker[w] EXCEPT !.at = phase]
                    ELSE [Idle EXCEPT !.at = phase]
<1>1. worker \in [Workers -> W]
  BY DEF TypeOK
<1>2. Idle \in W
  BY LedgerAssumption DEF Idle, Phases
<1>3. worker[w] \in W
  BY <1>1
<1>4. /\ place \in W /\ place.at = phase
      /\ phase \in {"publishing", "cleaned"} =>
           /\ place.generation = worker[w].generation
           /\ place.target = worker[w].target
  BY <1>2, <1>3
<1>5. worker' = [worker EXCEPT ![w] = place]
  BY DEF Goto
<1> HIDE DEF W, place
<1>6. worker' \in [Workers -> W] /\ worker'[w] = place
  BY <1>1, <1>4, <1>5
<1>7. StepOf(w)
  BY <1>1, <1>5 DEF StepOf
<1> QED
  BY <1>4, <1>6, <1>7 DEF W

\* How a step of w may move the marker.
MarkerMoves(w) ==
    \/ UNCHANGED tos_operation
       /\ (worker'[w].at \in MarkerPhases => worker[w].at \in MarkerPhases)
    \/ tos_operation = NoWorker /\ tos_operation' = w
    \/ worker[w].at \in MarkerPhases /\ tos_operation' = NoWorker
       /\ worker'[w].at \notin MarkerPhases

LEMMA MarkerStays ==
  ASSUME EInv, NEW w \in Workers, StepOf(w), MarkerMoves(w)
  PROVE  MarkerIsHeld' /\ tos_operation' \in Workers \cup {NoWorker}
BY EngineAssumption DEF EInv, TypeOK, StepOf, MarkerMoves, MarkerIsHeld

LEMMA GoodStays ==
  ASSUME EInv, Sound(ledger, ledger'), StaysDue(ledger, ledger')
  PROVE  LedgerIsGood' /\ ledger' \in Ledger
BY DEF EInv, LedgerIsGood, Sound, StaysDue

LEMMA VerifiedStays ==
  ASSUME EInv, Vouched(ledger, ledger'), archive \subseteq archive'
  PROVE  VerifiedIsPublished'
BY DEF EInv, VerifiedIsPublished, Vouched, VouchedIn

LEMMA RequestStays ==
  ASSUME EInv, NEW w \in Workers, StepOf(w), Unasked(ledger, ledger'), UNCHANGED tasks,
         worker'[w].at \notin {"dispatch", "accepted"}
  PROVE  RequestIsUnique'
BY DEF EInv, RequestIsUnique, StepOf, Unasked, Asking, OneProviderJob

LEMMA DeletionStays ==
  ASSUME EInv, NEW w \in Workers, StepOf(w),
         StaysDue(ledger, ledger'), Awaits(ledger, ledger'),
         worker'[w].at = "cleanup" => MayDelete(ledger'),
         worker'[w].at = "delete" => AwaitsDeletion(ledger')
  PROVE  DeletionIsDue'
BY DEF EInv, DeletionIsDue, StepOf, StaysDue, Awaits

LEMMA ReceiptsStay ==
  ASSUME EInv, NEW w \in Workers, StepOf(w),
         worker'[w].at \in {"publish", "publishing"} => worker'[w].target \in Targets,
         worker'[w].at = "publishing" => worker'[w].generation # 0
  PROVE  ReceiptsAreNamed'
BY DEF EInv, ReceiptsAreNamed, StepOf

Places == [at: Phases, generation: 0..MaxGeneration, target: 0..NumTargets]

TosTypes ==
    /\ bucket \in BOOLEAN /\ named \in BOOLEAN
    /\ late_puts \in Nat /\ sent_again \in BOOLEAN

\* What is left to show of a step of w, once each part of the invariant that it
\* disturbs is known to hold again.
LEMMA AssembledStep ==
  ASSUME EInv, NEW w \in Workers, worker' \in [Workers -> Places], StepOf(w),
         Sound(ledger, ledger'), StaysDue(ledger, ledger'), MarkerMoves(w),
         package' \in BOOLEAN, credentials' \in BOOLEAN,
         TosTypes',
         tasks' \in 0..MaxTasks, archive' \subseteq (1..MaxGeneration) \X Targets,
         VerifiedIsPublished', RequestIsUnique', DeletionIsDue',
         worker'[w].at \in {"publish", "publishing"} => worker'[w].target \in Targets,
         worker'[w].at = "publishing" => worker'[w].generation # 0
  PROVE  EInv'
<1>1. MarkerIsHeld' /\ tos_operation' \in Workers \cup {NoWorker}
  BY MarkerStays
<1>2. LedgerIsGood' /\ ledger' \in Ledger
  BY GoodStays
<1>3. ReceiptsAreNamed'
  BY ReceiptsStay
<1>4. TypeOK'
  BY <1>1, <1>2 DEF TypeOK, Places, TosTypes
<1> QED
  BY <1>1, <1>2, <1>3, <1>4 DEF EInv

\* A harmless operation, or none, and a move to a place that fits the ledger.
LEMMA PlacedStep ==
  ASSUME EInv, NEW w \in Workers, worker' \in [Workers -> Places], StepOf(w),
         Harmless(ledger, ledger'), MarkerMoves(w), UNCHANGED <<tasks, archive>>,
         package' \in BOOLEAN, credentials' \in BOOLEAN,
         TosTypes',
         worker'[w].at \notin {"dispatch", "accepted"},
         worker'[w].at \in {"publish", "publishing"} => worker'[w].target \in Targets,
         worker'[w].at = "publishing" => worker'[w].generation # 0,
         worker'[w].at = "cleanup" => MayDelete(ledger'),
         worker'[w].at = "delete" => AwaitsDeletion(ledger')
  PROVE  EInv'
<1>1. Sound(ledger, ledger') /\ StaysDue(ledger, ledger')
  BY DEF Harmless, Calm
<1>2. VerifiedIsPublished'
  BY VerifiedStays DEF Harmless, Calm
<1>3. RequestIsUnique'
  BY RequestStays DEF Harmless, Calm
<1>4. DeletionIsDue'
  BY DeletionStays DEF Harmless, Calm
<1>5. tasks' \in 0..MaxTasks /\ archive' \subseteq (1..MaxGeneration) \X Targets
  BY DEF EInv, TypeOK
<1> QED
  BY <1>1, <1>2, <1>3, <1>4, <1>5, AssembledStep

\* Most steps: the place is one the invariant asks nothing of.
Ordinary == Phases \ {"dispatch", "accepted", "publish", "publishing", "cleanup", "delete"}

LEMMA OrdinaryStep ==
  ASSUME EInv, NEW w \in Workers, NEW phase \in Ordinary, Goto(w, phase),
         Harmless(ledger, ledger'), MarkerMoves(w), UNCHANGED <<tasks, archive>>,
         package' \in BOOLEAN, credentials' \in BOOLEAN,
         TosTypes'
  PROVE  EInv'
<1>1. phase \in Phases /\ TypeOK
  BY DEF Ordinary, EInv
<1>2. /\ worker' \in [Workers -> Places]
      /\ worker'[w].at = phase
      /\ StepOf(w)
  BY <1>1, GotoMoves DEF Places
<1>3. phase \notin {"dispatch", "accepted", "publish", "publishing", "cleanup", "delete"}
  BY DEF Ordinary
<1> QED
  BY <1>2, <1>3, PlacedStep

\* A worker may stop wherever it is, unless it leaves the marker behind.
LEMMA StoppedStep ==
  ASSUME EInv, NEW w \in Workers, Stop(w), Harmless(ledger, ledger'),
         tos_operation' = tos_operation
         \/ (worker[w].at \in MarkerPhases /\ ReleaseMarker),
         UNCHANGED <<tasks, archive>>,
         package' \in BOOLEAN, credentials' \in BOOLEAN,
         TosTypes'
  PROVE  EInv'
<1>1. "idle" \in Ordinary /\ "idle" \in Phases /\ TypeOK
  BY DEF Ordinary, Phases, EInv
<1>2. worker'[w].at = "idle" /\ Goto(w, "idle")
  BY <1>1, GotoMoves DEF Stop
<1>3. MarkerMoves(w)
  BY <1>2 DEF MarkerMoves, MarkerPhases, ReleaseMarker
<1> QED
  BY <1>1, <1>2, <1>3, OrdinaryStep

LEMMA GoodLedger ==
  ASSUME EInv
  PROVE  ledger \in Ledger /\ Valid(ledger) /\ Ordered(ledger) /\ Harmless(ledger, ledger)
BY SameIsHarmless DEF EInv, TypeOK, LedgerIsGood

\* A failing operation leaves the ledger, one that succeeds is harmless.
LEMMA AttemptHarmless ==
  ASSUME EInv, NEW outcomes, Attempt(outcomes), \A m \in outcomes : Harmless(ledger, m)
  PROVE  Harmless(ledger, ledger')
BY GoodLedger DEF Attempt

------------------------
(* The steps. *)

\* Some target is unverified, so there is a first one.
LEMMA FirstUnverifiedExists ==
  ASSUME NEW l \in Ledger, ~AllVerified(l)
  PROVE  FirstUnverified(l) # {}
<1> DEFINE U == {t \in Targets : l.targets[t] # "Verified"}
<1>1. U \subseteq Nat /\ U # {}
  BY LedgerAssumption DEF AllVerified, Targets
<1>2. IsWellFoundedOn(OpToRel(<, Nat), Nat)
  BY NatLessThanWellFounded
<1>3. PICK t \in U : \A u \in U : ~(<<u, t>> \in OpToRel(<, Nat))
  BY <1>1, <1>2, WFMin
<1>4. \A u \in U : ~(u < t)
  BY <1>1, <1>3 DEF OpToRel
<1>5. t \in FirstUnverified(l)
  <2>1. \A u \in 1..(t - 1) : u \in Targets /\ u < t
    BY <1>1, LedgerAssumption DEF Targets
  <2>2. \A u \in 1..(t - 1) : l.targets[u] = "Verified"
    BY <1>4, <2>1
  <2> QED
    BY <2>2 DEF FirstUnverified
<1> QED
  BY <1>5

LEMMA TurnStep ==
  ASSUME EInv, NEW w \in Workers, Turn(w)
  PROVE  EInv'
<1> DEFINE next == NextEffect(ledger)
           place == [at |-> next, generation |-> ledger.generation,
                     target |-> IF next = "publish"
                                THEN CHOOSE t \in FirstUnverified(ledger) : TRUE
                                ELSE 0]
<1>1. Harmless(ledger, ledger') /\ UNCHANGED world
  BY GoodLedger, EffectHarmless DEF Turn
<1>2. /\ UNCHANGED <<tasks, archive>>
      /\ package' \in BOOLEAN /\ credentials' \in BOOLEAN
      /\ TosTypes'
      /\ worker \in [Workers -> Places]
  BY <1>1 DEF world, tos, EInv, TypeOK, Places, TosTypes
<1>3. \/ Stop(w) /\ UNCHANGED tos_operation
      \/ /\ OwnsMarker(next) => tos_operation = NoWorker
         /\ worker' = [worker EXCEPT ![w] = place]
         /\ tos_operation' = IF OwnsMarker(next) THEN w ELSE tos_operation
  BY DEF Turn
<1>4. CASE Stop(w) /\ UNCHANGED tos_operation
  BY <1>1, <1>2, <1>4, StoppedStep
<1>5. CASE /\ OwnsMarker(next) => tos_operation = NoWorker
           /\ worker' = [worker EXCEPT ![w] = place]
           /\ tos_operation' = IF OwnsMarker(next) THEN w ELSE tos_operation
  <2>1. /\ next \in {"upload", "inner", "transcribe", "dispatch", "poll", "plan",
                     "summarize", "publish", "verify", "cleanup", "idle"}
        /\ next = "dispatch" => ledger.state = "Transcribing"
        /\ next = "publish" => ~AllVerified(ledger)
        /\ next = "cleanup" => /\ ledger.state = "Publishing" /\ AllVerified(ledger)
                               /\ ledger.canonical_backup
    BY DEF NextEffect, PublishingEffect
  <2>2. next = "publish" => place.target \in Targets
    BY <2>1, GoodLedger, FirstUnverifiedExists DEF FirstUnverified
  <2>3. place.target \in 0..NumTargets
    BY <2>2, LedgerAssumption DEF Targets
  <2>4. place \in Places /\ place.at = next
    BY <2>1, <2>3, GoodLedger DEF Places, Phases, Ledger
  <2> HIDE DEF place, next
  <2>5. /\ worker' \in [Workers -> Places] /\ worker'[w] = place /\ StepOf(w)
    BY <1>2, <1>5, <2>4 DEF StepOf
  <2>6. MarkerMoves(w)
    BY <1>5, <2>1, <2>4, <2>5 DEF MarkerMoves, MarkerPhases, OwnsMarker
  <2>7. CASE next # "dispatch"
    <3>1. next = "cleanup" => MayDelete(ledger')
      BY <1>1, <2>1 DEF Harmless, Calm, StaysDue, MayDelete, Published
    <3> QED
      BY <1>1, <1>2, <2>1, <2>2, <2>4, <2>5, <2>6, <2>7, <3>1, PlacedStep
  <2>8. CASE next = "dispatch"
    <3>1. ledger.state = "Transcribing" /\ Unsent(ledger)
      BY <2>1, <2>8 DEF Unsent
    <3>2. ~Unsent(ledger')
      <4>1. ledger' = [ledger EXCEPT !.miaoji = "requested", !.state = "Submitting"]
        BY <3>1 DEF Turn, Resume, Mutate, When
      <4>2. ledger'.state = "Submitting"
        BY <4>1, GoodLedger DEF Ledger
      <4> QED
        BY <4>2 DEF Unsent
    <3>3. tasks = 0 /\ \A v \in Workers : ~Asking(v)
      BY <3>1 DEF EInv, RequestIsUnique
    <3>4. RequestIsUnique'
      BY <1>2, <2>5, <3>2, <3>3 DEF RequestIsUnique, Asking, StepOf, OneProviderJob
    <3>5. VerifiedIsPublished' /\ DeletionIsDue'
      BY <1>1, <1>2, <2>4, <2>5, <2>8, VerifiedStays, DeletionStays DEF Harmless, Calm
    <3>6. tasks' \in 0..MaxTasks /\ archive' \subseteq (1..MaxGeneration) \X Targets
      BY <1>2 DEF EInv, TypeOK
    <3> QED
      BY <1>1, <1>2, <2>4, <2>5, <2>6, <2>8, <3>4, <3>5, <3>6, AssembledStep
         DEF Harmless, Calm
  <2> QED
    BY <2>7, <2>8
<1> QED
  BY <1>3, <1>4, <1>5

\* What most steps leave alone.
LEMMA WorldStays ==
  ASSUME EInv, UNCHANGED world
  PROVE  /\ UNCHANGED <<tasks, archive>>
         /\ package' \in BOOLEAN /\ credentials' \in BOOLEAN
         /\ TosTypes'
BY DEF EInv, TypeOK, world, tos, TosTypes

\* A step that keeps its marker, or never had one, and goes on.
LEMMA GoesOn ==
  ASSUME EInv, NEW w \in Workers, NEW phase \in Ordinary \ MarkerPhases, Goto(w, phase),
         Harmless(ledger, ledger'), UNCHANGED <<tos_operation, world>>
  PROVE  EInv'
<1>1. worker'[w].at \notin MarkerPhases
  BY GotoMoves DEF EInv, Ordinary
<1>2. MarkerMoves(w)
  BY <1>1 DEF MarkerMoves
<1> QED
  BY <1>2, WorldStays, OrdinaryStep

\* Store(w, outcomes, phase) with such a phase.
LEMMA StoreStep ==
  ASSUME EInv, NEW w \in Workers, NEW outcomes, \A m \in outcomes : Harmless(ledger, m),
         NEW phase \in Ordinary \ MarkerPhases,
         Store(w, outcomes, phase), UNCHANGED <<tos_operation, world>>
  PROVE  EInv'
<1>1. Harmless(ledger, ledger')
  BY AttemptHarmless DEF Store
<1>2. "idle" \in Ordinary \ MarkerPhases
  BY DEF Ordinary, Phases, MarkerPhases
<1>3. \E p \in Ordinary \ MarkerPhases : Goto(w, p)
  BY <1>2 DEF Store
<1> QED
  BY <1>1, <1>3, GoesOn

LEMMA LoopIsOrdinary ==
  /\ {"idle", "loop", "cleaned", "accepted", "finalize", "discard", "discarded"}
       \cap Ordinary \subseteq Ordinary \ MarkerPhases
  /\ {"idle", "loop", "cleaned", "finalize", "discard", "discarded",
      "uploading", "uploaded", "inner", "probe", "deleted"} \subseteq Ordinary
BY DEF Ordinary, Phases, MarkerPhases

LEMMA UploadStepSafe ==
  ASSUME EInv, NEW w \in Workers, UploadStep(w)
  PROVE  EInv'
<1>1. CASE UploadIsRejected(w)
  <2>1. \A m \in MarkUploadRejected(ledger) : Harmless(ledger, m)
    BY GoodLedger, EffectHarmless
  <2>2. Harmless(ledger, ledger')
    BY <1>1, <2>1, AttemptHarmless DEF UploadIsRejected
  <2> QED
    BY <1>1, <2>2, WorldStays, StoppedStep DEF UploadIsRejected, At, MarkerPhases
<1>2. CASE UploadFindsObject(w) \/ UploadPuts(w) \/ PutArrives(w)
  <2>1. PICK phase \in {"uploading", "uploaded"} : Goto(w, phase)
    BY <1>2 DEF UploadFindsObject, UploadPuts, PutArrives
  <2>2. MarkerMoves(w)
    BY <1>2
       DEF MarkerMoves, UploadFindsObject, UploadPuts, PutArrives, MarkerPhases, At
  <2>3. /\ UNCHANGED <<ledger, tasks, archive, package, credentials>> /\ TosTypes'
    BY <1>2
       DEF UploadFindsObject, UploadPuts, PutArrives, EInv, TypeOK, world, tos, TosTypes
  <2>4. package' \in BOOLEAN /\ credentials' \in BOOLEAN
    BY <2>3 DEF EInv, TypeOK
  <2> QED
    BY <2>1, <2>2, <2>3, <2>4, GoodLedger, LoopIsOrdinary, OrdinaryStep
<1>3. CASE UploadReturns(w)
  <2>1. \A m \in CheckpointFound : Harmless(ledger, m)
    BY GoodLedger, EffectHarmless DEF CheckpointFound
  <2>2. Harmless(ledger, ledger')
    BY <1>3, <2>1, AttemptHarmless DEF UploadReturns
  <2>3. PICK phase \in {"idle", "loop"} : Goto(w, phase)
    BY <1>3 DEF UploadReturns
  <2>4. phase \in Ordinary /\ phase \in Phases /\ phase \notin MarkerPhases
    BY DEF Ordinary, Phases, MarkerPhases
  <2>5. MarkerMoves(w)
    BY <1>3, <2>3, <2>4, GotoMoves
       DEF MarkerMoves, UploadReturns, At, ReleaseMarker, MarkerPhases, EInv
  <2>6. /\ UNCHANGED <<tasks, archive>> /\ TosTypes'
        /\ package' \in BOOLEAN /\ credentials' \in BOOLEAN
    BY <1>3 DEF UploadReturns, EInv, TypeOK, TosTypes
  <2> QED
    BY <2>2, <2>3, <2>4, <2>5, <2>6, OrdinaryStep
<1>4. CASE UploadIsLost(w)
  BY <1>4, GoodLedger, StoppedStep
     DEF UploadIsLost, At, MarkerPhases, EInv, TypeOK, TosTypes
<1> QED
  BY <1>1, <1>2, <1>3, <1>4 DEF UploadStep

LEMMA ProviderStepSafe ==
  ASSUME EInv, NEW w \in Workers, ProviderStep(w)
  PROVE  EInv'
<1> USE DEF At
<1>0. "idle" \in Phases /\ "accepted" \in Phases /\ "loop" \in Ordinary \ MarkerPhases
  BY DEF Phases, Ordinary, MarkerPhases
<1>1. CASE SubmitIsRejected(w)
  <2>1. /\ worker' \in [Workers -> Places] /\ worker'[w].at = "idle" /\ StepOf(w)
    BY <1>0, <1>1, GotoMoves DEF SubmitIsRejected, Stop, EInv, Places
  <2>2. ledger' = ledger \/ ledger' \in MarkSubmitRejected(ledger)
    BY <1>1 DEF SubmitIsRejected, Attempt
  <2>3. /\ Sound(ledger, ledger') /\ Vouched(ledger, ledger')
        /\ StaysDue(ledger, ledger') /\ Awaits(ledger, ledger')
    BY <2>2, GoodLedger, MarkSubmitRejectedSound, MarkSubmitRejectedTame
       DEF Harmless, Calm
  <2>4. MarkerMoves(w) /\ UNCHANGED world
    BY <1>1, <2>1 DEF MarkerMoves, MarkerPhases, SubmitIsRejected
  <2>5. RequestIsUnique'
    BY <1>1, <2>1, <2>4, WorldStays
       DEF SubmitIsRejected, EInv, RequestIsUnique, Asking, StepOf, OneProviderJob
  <2>6. VerifiedIsPublished' /\ DeletionIsDue'
    BY <2>1, <2>3, <2>4, WorldStays, VerifiedStays, DeletionStays
  <2>7. tasks' \in 0..MaxTasks /\ archive' \subseteq (1..MaxGeneration) \X Targets
    BY <2>4, WorldStays DEF EInv, TypeOK
  <2> QED
    BY <2>1, <2>3, <2>4, <2>5, <2>6, <2>7, WorldStays, AssembledStep
<1>2. CASE SubmitIsAccepted(w)
  <2>1. /\ worker' \in [Workers -> Places] /\ worker'[w].at = "accepted" /\ StepOf(w)
    BY <1>0, <1>2, GotoMoves DEF SubmitIsAccepted, EInv, Places
  <2>2. /\ UNCHANGED <<ledger, tos_operation, package, credentials, tos, archive>>
        /\ worker[w].at = "dispatch" /\ tasks < MaxTasks /\ tasks' = tasks + 1
    BY <1>2 DEF SubmitIsAccepted
  <2>3. Harmless(ledger, ledger')
    BY <2>2, GoodLedger
  <2>4. MarkerMoves(w)
    BY <2>1, <2>2 DEF MarkerMoves, MarkerPhases
  <2>5. RequestIsUnique'
    BY <2>1, <2>2 DEF EInv, RequestIsUnique, Asking, StepOf, OneProviderJob
  <2>6. VerifiedIsPublished' /\ DeletionIsDue'
    BY <2>1, <2>2, <2>3, VerifiedStays, DeletionStays DEF Harmless, Calm
  <2>7. /\ tasks' \in 0..MaxTasks /\ archive' \subseteq (1..MaxGeneration) \X Targets
        /\ package' \in BOOLEAN /\ credentials' \in BOOLEAN
        /\ TosTypes'
    BY <2>2, EngineAssumption DEF EInv, TypeOK, tos, TosTypes
  <2> QED
    BY <2>1, <2>3, <2>4, <2>5, <2>6, <2>7, AssembledStep DEF Harmless, Calm
<1>3. CASE SubmitReturns(w)
  <2>1. \A m \in CheckpointMiaojiTask(ledger) : Harmless(ledger, m)
    BY GoodLedger, EffectHarmless
  <2> QED
    BY <1>0, <1>3, <2>1, StoreStep DEF SubmitReturns
<1>4. CASE SubmitIsLost(w)
  <2>1. Harmless(ledger, ledger')
    BY <1>4, GoodLedger, EffectHarmless DEF SubmitIsLost
  <2> QED
    BY <1>4, <2>1, WorldStays, StoppedStep DEF SubmitIsLost
<1>5. CASE PollReturns(w)
  <2>1. \A m \in CheckpointTranscript(ledger) : Harmless(ledger, m)
    BY GoodLedger, EffectHarmless
  <2> QED
    BY <1>0, <1>5, <2>1, StoreStep DEF PollReturns
<1> QED
  BY <1>1, <1>2, <1>3, <1>4, <1>5 DEF ProviderStep

LEMMA ContentStepSafe ==
  ASSUME EInv, NEW w \in Workers, ContentStep(w)
  PROVE  EInv'
<1>0. "loop" \in Ordinary \ MarkerPhases
  BY DEF Phases, Ordinary, MarkerPhases
<1>1. CASE TranscribeReturns(w)
  <2>1. \A m \in CheckpointLocalWhisperTranscript(ledger) : Harmless(ledger, m)
    BY GoodLedger, EffectHarmless
  <2> QED
    BY <1>0, <1>1, <2>1, StoreStep DEF TranscribeReturns
<1>2. CASE TranscribeFails(w)
  <2>1. \A m \in MarkLocalWhisperFailed(ledger) : Harmless(ledger, m)
    BY GoodLedger, EffectHarmless
  <2> QED
    BY <1>2, <2>1, AttemptHarmless, WorldStays, StoppedStep DEF TranscribeFails
<1>3. CASE SummarizeReturns(w)
  <2>1. \A m \in CheckpointSummary(ledger) : Harmless(ledger, m)
    BY GoodLedger, EffectHarmless
  <2> QED
    BY <1>0, <1>3, <2>1, StoreStep DEF SummarizeReturns
<1>4. CASE SummarizeIsRejected(w)
  <2>1. \A m \in AbortSummaryBeforeDispatch(ledger) : Harmless(ledger, m)
    BY GoodLedger, EffectHarmless
  <2> QED
    BY <1>4, <2>1, AttemptHarmless, WorldStays, StoppedStep DEF SummarizeIsRejected
<1> QED
  BY <1>1, <1>2, <1>3, <1>4 DEF ContentStep

\* The receipt a worker brings is of a target that is published.
LEMMA PublishReturnsSafe ==
  ASSUME EInv, NEW w \in Workers, PublishReturns(w)
  PROVE  EInv'
<1> USE DEF At
<1>1. "loop" \in Phases /\ "idle" \in Phases
  BY DEF Phases
<1>2. PICK phase \in {"idle", "loop"} : Goto(w, phase)
  BY DEF PublishReturns, Store
<1>3. /\ worker' \in [Workers -> Places] /\ worker'[w].at \in {"idle", "loop"}
         /\ StepOf(w)
  BY <1>1, <1>2, GotoMoves DEF EInv, Places
<1>4. worker[w].generation \in Nat /\ worker[w].target \in Targets
  BY LedgerAssumption DEF PublishReturns, EInv, TypeOK, ReceiptsAreNamed
<1>5. CASE ledger' = ledger
  BY <1>2, <1>5, GoodLedger, GoesOn DEF PublishReturns, Ordinary, Phases, MarkerPhases
<1>6. CASE ledger' \in CheckpointPublicationTarget(ledger, worker[w].generation,
                                                    worker[w].target)
  <2>1. Sound(ledger, ledger')
    BY <1>4, <1>6, GoodLedger, CheckpointPublicationTargetSound
  <2>2. /\ Unasked(ledger, ledger') /\ StaysDue(ledger, ledger')
           /\ Awaits(ledger, ledger')
        /\ ledger'.generation = ledger.generation
        /\ \A u \in Targets : ledger'.targets[u] = "Verified" =>
             \/ ledger.targets[u] = "Verified"
             \/ u = worker[w].target /\ ledger'.generation = worker[w].generation
    BY <1>4, <1>6, GoodLedger, CheckpointPublicationTargetTame
  <2>3. /\ <<worker[w].generation, worker[w].target>> \in archive
        /\ UNCHANGED <<tos_operation, world>>
    BY DEF PublishReturns, Receipt
  <2>4. VerifiedIsPublished'
    BY <2>2, <2>3, WorldStays DEF EInv, VerifiedIsPublished, HasPublication
  <2>5. RequestIsUnique' /\ DeletionIsDue'
    BY <1>3, <2>2, <2>3, WorldStays, RequestStays, DeletionStays
  <2>6. MarkerMoves(w)
    BY <1>3, <2>3 DEF MarkerMoves, MarkerPhases
  <2>7. tasks' \in 0..MaxTasks /\ archive' \subseteq (1..MaxGeneration) \X Targets
    BY <2>3, WorldStays DEF EInv, TypeOK
  <2> QED
    BY <1>3, <2>1, <2>2, <2>3, <2>4, <2>5, <2>6, <2>7, WorldStays, AssembledStep
<1> QED
  BY <1>5, <1>6 DEF PublishReturns, Store, Attempt

LEMMA PublishStepSafe ==
  ASSUME EInv, NEW w \in Workers, PublishStep(w)
  PROVE  EInv'
<1> USE DEF At
<1>0. /\ {"loop", "idle", "cleaned"} \subseteq Ordinary \ MarkerPhases
      /\ worker[w].generation \in Nat
  BY LedgerAssumption DEF Phases, Ordinary, MarkerPhases, EInv, TypeOK
<1>1. CASE Plan(w)
  <2>1. \A m \in PlanPublication(ledger) : Harmless(ledger, m)
    BY GoodLedger, PlanPublicationSound, PlanPublicationCalm DEF Harmless
  <2> QED
    BY <1>0, <1>1, <2>1, StoreStep DEF Plan
<1>2. CASE StartTarget(w)
  <2> DEFINE outcomes == StartPublicationTarget(ledger, worker[w].generation,
                                                worker[w].target)
  <2>1. worker[w].target \in Targets
    BY <1>2 DEF StartTarget, EInv, ReceiptsAreNamed
  <2>2. \A m \in outcomes : Harmless(ledger, m)
    BY <1>0, <2>1, GoodLedger, PublicationHarmless
  <2>3. outcomes # {} => worker[w].generation # 0
    BY DEF StartPublicationTarget, CurrentTarget, HasPublication, When
  <2>4. Store(w, outcomes, "publishing") /\ UNCHANGED <<tos_operation, world>>
    BY <1>2 DEF StartTarget
  <2> HIDE DEF outcomes
  <2>5. Harmless(ledger, ledger')
    BY <2>2, <2>4, AttemptHarmless DEF Store
  <2>6. CASE outcomes = {}
    BY <1>0, <2>4, <2>5, <2>6, GoesOn DEF Store
  <2>7. CASE outcomes # {}
    <3>1. /\ worker' \in [Workers -> Places] /\ worker'[w].at = "publishing" /\ StepOf(w)
          /\ worker'[w].generation # 0 /\ worker'[w].target \in Targets
      BY <2>1, <2>3, <2>4, <2>7, GotoMoves DEF Store, EInv, Phases, Places
    <3>2. MarkerMoves(w)
      BY <2>4, <3>1 DEF MarkerMoves, MarkerPhases
    <3> QED
      BY <2>4, <2>5, <3>1, <3>2, WorldStays, PlacedStep
  <2> QED
    BY <2>6, <2>7
<1>3. CASE TargetIsPublished(w)
  <2>1. /\ UNCHANGED <<ledger, worker, tos_operation, package, credentials, tos, tasks>>
        /\ archive' = archive \cup {<<worker[w].generation, worker[w].target>>}
    BY <1>3 DEF TargetIsPublished, Receipt
  <2>2. /\ worker[w].generation \in 1..MaxGeneration /\ worker[w].target \in Targets
    BY <1>3, LedgerAssumption DEF TargetIsPublished, EInv, TypeOK, ReceiptsAreNamed
  <2>3. TypeOK'
    BY <2>1, <2>2 DEF EInv, TypeOK, tos
  <2>4. VerifiedIsPublished'
    BY <2>1 DEF EInv, VerifiedIsPublished
  <2> QED
    BY <2>1, <2>3, <2>4
       DEF EInv, LedgerIsGood, MarkerIsHeld, ReceiptsAreNamed, RequestIsUnique, Asking,
           OneProviderJob, DeletionIsDue
<1>4. CASE PublishReturns(w)
  BY <1>4, PublishReturnsSafe
<1>5. CASE PublishFails(w)
  <2>1. worker[w].target \in Targets
    BY <1>5 DEF PublishFails, EInv, ReceiptsAreNamed
  <2>2. Harmless(ledger, ledger')
    BY <1>0, <1>5, <2>1, GoodLedger, PublicationHarmless DEF PublishFails
  <2> QED
    BY <1>5, <2>2, WorldStays, StoppedStep DEF PublishFails
<1>6. CASE VerifyReturns(w)
  <2>1. \A m \in CheckpointCanonicalBackup(ledger, worker[w].generation) :
          Harmless(ledger, m)
    BY <1>0, GoodLedger, BackupHarmless
  <2> QED
    BY <1>0, <1>6, <2>1, StoreStep DEF VerifyReturns
<1>7. CASE CleanupDeletes(w)
  <2>1. Goto(w, "cleaned")
        /\ UNCHANGED <<ledger, tos_operation, package, credentials, tasks, archive>>
        /\ TosTypes'
    BY <1>7 DEF CleanupDeletes, DeleteExact, tos, EInv, TypeOK, TosTypes
  <2>2. MarkerMoves(w)
    BY <1>0, <2>1, GotoMoves DEF MarkerMoves, EInv, Phases, MarkerPhases
  <2> QED
    BY <1>0, <2>1, <2>2, GoodLedger, OrdinaryStep DEF EInv, TypeOK
<1>8. CASE CleanupIsRecorded(w)
  <2>1. \A m \in CheckpointCleanup(ledger, worker[w].generation) : Harmless(ledger, m)
    BY <1>0, GoodLedger, BackupHarmless
  <2> QED
    BY <1>0, <1>8, <2>1, StoreStep DEF CleanupIsRecorded
<1> QED
  BY <1>1, <1>2, <1>3, <1>4, <1>5, <1>6, <1>7, <1>8 DEF PublishStep

\* A step of the marker's owner that goes on under the marker.
LEMMA OwnerGoesOn ==
  ASSUME EInv, NEW w \in Workers, NEW phase \in Ordinary, Goto(w, phase),
         Harmless(ledger, ledger'), UNCHANGED <<tasks, archive>>,
         \/ UNCHANGED tos_operation /\ worker[w].at \in MarkerPhases
         \/ tos_operation = NoWorker /\ tos_operation' = w,
         package' \in BOOLEAN, credentials' \in BOOLEAN,
         TosTypes'
  PROVE  EInv'
BY OrdinaryStep DEF MarkerMoves

\* Who holds the marker and finds the object's deletion due goes on to delete.
LEMMA GoesToDelete ==
  ASSUME EInv, NEW w \in Workers, Goto(w, "delete"), worker[w].at \in MarkerPhases,
         Harmless(ledger, ledger'), AwaitsDeletion(ledger'),
         UNCHANGED <<tos_operation, tasks, archive>>, TosTypes',
         package' \in BOOLEAN, credentials' \in BOOLEAN
  PROVE  EInv'
<1>1. /\ worker' \in [Workers -> Places] /\ worker'[w].at = "delete" /\ StepOf(w)
  BY GotoMoves DEF EInv, Phases, Places
<1>2. MarkerMoves(w)
  BY DEF MarkerMoves
<1> QED
  BY <1>1, <1>2, PlacedStep

\* Nobody else is about to delete when a deletion is recorded.
LEMMA DeletionIsRecordedSafe ==
  ASSUME EInv, NEW w \in Workers, DeletionIsRecorded(w)
  PROVE  EInv'
<1> USE DEF At
<1>1. /\ worker' \in [Workers -> Places] /\ worker'[w].at = "idle" /\ StepOf(w)
  BY GotoMoves DEF DeletionIsRecorded, Stop, EInv, Phases, Places
<1>2. ledger' = ledger \/ ledger' \in CheckpointCanceledTosCleanup(ledger)
  BY DEF DeletionIsRecorded, Attempt
<1>3. /\ Sound(ledger, ledger') /\ Unasked(ledger, ledger')
      /\ Vouched(ledger, ledger') /\ StaysDue(ledger, ledger')
  BY <1>2, GoodLedger, CheckpointCanceledTosCleanupSound, CheckpointCanceledTosCleanupTame
     DEF Harmless, Calm
<1>4. worker[w].at = "deleted" /\ tos_operation' = NoWorker /\ UNCHANGED world
  BY DEF DeletionIsRecorded, ReleaseMarker
<1>5. MarkerMoves(w)
  BY <1>1, <1>4 DEF MarkerMoves, MarkerPhases
<1>6. VerifiedIsPublished' /\ RequestIsUnique'
  BY <1>1, <1>3, <1>4, WorldStays, VerifiedStays, RequestStays
<1>7. DeletionIsDue'
  <2>1. \A v \in Workers : worker[v].at = "delete" => v = w
    BY <1>4 DEF EInv, MarkerIsHeld, MarkerPhases
  <2> QED
    BY <1>1, <1>3, <1>4, <2>1 DEF EInv, DeletionIsDue, StepOf, StaysDue
<1>8. tasks' \in 0..MaxTasks /\ archive' \subseteq (1..MaxGeneration) \X Targets
  BY <1>4, WorldStays DEF EInv, TypeOK
<1> QED
  BY <1>1, <1>3, <1>4, <1>5, <1>6, <1>7, <1>8, WorldStays, AssembledStep

LEMMA CancelStepSafe ==
  ASSUME EInv, NEW w \in Workers, CancelStep(w)
  PROVE  EInv'
<1> USE DEF At
<1>0. /\ {"finalize", "idle"} \subseteq Ordinary \ MarkerPhases
      /\ {"inner", "probe", "deleted"} \subseteq Ordinary
      /\ {"inner", "probe", "delete", "deleted"} \subseteq MarkerPhases
  BY DEF Phases, Ordinary, MarkerPhases
<1>1. CASE CancelAndCleanup(w)
  <2>1. Harmless(ledger, ledger') /\ UNCHANGED world
    BY <1>1, GoodLedger, CancelHarmless DEF CancelAndCleanup
  <2>2. CASE Goto(w, "finalize") /\ UNCHANGED tos_operation
    BY <1>0, <2>1, <2>2, GoesOn
  <2>3. CASE tos_operation = NoWorker /\ Goto(w, "inner") /\ tos_operation' = w
    BY <1>0, <2>1, <2>3, WorldStays, OwnerGoesOn
  <2>4. CASE UNCHANGED <<worker, tos_operation>>
    <3>1. /\ worker' \in [Workers -> Places] /\ worker'[w].at = "idle" /\ StepOf(w)
      BY <1>1, <2>4 DEF CancelAndCleanup, EInv, TypeOK, Places, StepOf
    <3>2. MarkerMoves(w)
      BY <2>4 DEF MarkerMoves
    <3> QED
      BY <2>1, <3>1, <3>2, WorldStays, PlacedStep
  <2> QED
    BY <1>1, <2>2, <2>3, <2>4 DEF CancelAndCleanup
<1>2. CASE Finalize(w)
  <2>1. Harmless(ledger, ledger') /\ UNCHANGED world /\ tos_operation = NoWorker
    BY <1>2, GoodLedger DEF Finalize
  <2>2. CASE Goto(w, "inner") /\ tos_operation' = w
    BY <1>0, <2>1, <2>2, WorldStays, OwnerGoesOn
  <2>3. CASE Stop(w) /\ UNCHANGED tos_operation
    BY <2>1, <2>3, WorldStays, StoppedStep
  <2> QED
    BY <1>2, <2>2, <2>3 DEF Finalize
<1>3. CASE LoadCanceled(w)
  <2>1. Harmless(ledger, ledger') /\ UNCHANGED <<ledger, world>>
        /\ worker[w].at \in MarkerPhases
    BY <1>0, <1>3, GoodLedger DEF LoadCanceled
  <2>2. CASE Goto(w, "probe") /\ UNCHANGED tos_operation
    BY <1>0, <2>1, <2>2, WorldStays, OwnerGoesOn
  <2>3. CASE /\ ledger.state # "CancelingUpload" /\ NeedsTosFinalization(ledger)
             /\ Goto(w, "delete") /\ UNCHANGED tos_operation
    <3>1. AwaitsDeletion(ledger')
      BY <2>1, <2>3 DEF NeedsTosFinalization, AwaitsDeletion
    <3> QED
      BY <2>1, <2>3, <3>1, WorldStays, GoesToDelete
  <2>4. CASE Stop(w) /\ ReleaseMarker
    BY <2>1, <2>4, WorldStays, StoppedStep
  <2> QED
    BY <1>3, <2>2, <2>3, <2>4 DEF LoadCanceled
<1>4. CASE ProbeFindsObject(w)
  <2>1. \A m \in CheckpointFound : Harmless(ledger, m)
    BY GoodLedger, EffectHarmless DEF CheckpointFound
  <2>2. /\ Harmless(ledger, ledger') /\ worker[w].at \in MarkerPhases
        /\ UNCHANGED <<tasks, archive>> /\ TosTypes'
        /\ package' \in BOOLEAN /\ credentials' \in BOOLEAN
    BY <1>0, <1>4, <2>1, AttemptHarmless DEF ProbeFindsObject, EInv, TypeOK, TosTypes
  <2>3. CASE /\ CheckpointFound # {} /\ NeedsTosFinalization(ledger')
             /\ Goto(w, "delete") /\ UNCHANGED tos_operation
    <3>1. ledger' \in CheckpointTosObject(ledger)
      BY <1>4, <2>3 DEF ProbeFindsObject, Attempt, CheckpointFound
    <3>2. ledger'.state # "CancelingUpload"
      <4>1. CASE ledger' = ledger /\ ledger.tos_object
        BY <4>1 DEF EInv, LedgerIsGood, CancelingIsOpen
      <4>2. CASE \E s \in {"CanceledAfterUpload", "Transcribing"} :
                   ledger' \in Transition(ledger, [ledger EXCEPT !.tos_object = TRUE], s)
        <5>1. [ledger EXCEPT !.tos_object = TRUE] \in Ledger
          BY GoodLedger DEF Ledger
        <5> QED
          BY <4>2, <5>1, GoodLedger, Moved DEF States, CanceledStates
      <4> QED
        BY <3>1, <4>1, <4>2 DEF CheckpointTosObject, When
    <3>3. AwaitsDeletion(ledger')
      BY <2>3, <3>2 DEF NeedsTosFinalization, AwaitsDeletion
    <3> QED
      BY <2>2, <2>3, <3>3, GoesToDelete
  <2>4. CASE Stop(w) /\ ReleaseMarker
    BY <2>2, <2>4, StoppedStep
  <2> QED
    BY <1>4, <2>3, <2>4 DEF ProbeFindsObject
<1>5. CASE ProbeFindsAbsence(w)
  <2>1. \A m \in CheckpointCanceledUploadAbsent(ledger) : Harmless(ledger, m)
    BY GoodLedger, CancelHarmless
  <2>2. Harmless(ledger, ledger')
    BY <1>5, <2>1, AttemptHarmless DEF ProbeFindsAbsence
  <2> QED
    BY <1>0, <1>5, <2>2, StoppedStep DEF ProbeFindsAbsence, EInv, TypeOK, TosTypes
<1>6. CASE DeleteCanceled(w)
  BY <1>0, <1>6, GoodLedger, OwnerGoesOn
     DEF DeleteCanceled, DeleteExact, EInv, TypeOK, TosTypes
<1>7. CASE DeletionIsRecorded(w)
  BY <1>7, DeletionIsRecordedSafe
<1>8. CASE CanceledCleanupFails(w)
  BY <1>0, <1>8, GoodLedger, WorldStays, StoppedStep DEF CanceledCleanupFails
<1> QED
  BY <1>1, <1>2, <1>3, <1>4, <1>5, <1>6, <1>7, <1>8 DEF CancelStep

LEMMA DiscardStepSafe ==
  ASSUME EInv, NEW w \in Workers, DiscardStep(w)
  PROVE  EInv'
<1>0. {"discard", "discarded", "idle"} \subseteq Ordinary \ MarkerPhases
  BY DEF Phases, Ordinary, MarkerPhases
<1>1. CASE BeginDiscardLocal(w)
  BY <1>0, <1>1, GoodLedger, CancelHarmless, GoesOn DEF BeginDiscardLocal
<1>2. CASE DiscardPackage(w)
  <2>1. MarkerMoves(w)
    BY <1>0, <1>2, GotoMoves DEF MarkerMoves, DiscardPackage, EInv, Phases
  <2> QED
    BY <1>0, <1>2, <2>1, GoodLedger, OrdinaryStep
       DEF DiscardPackage, EInv, TypeOK, tos, TosTypes
<1>3. CASE DiscardIsRecorded(w)
  <2>1. \A m \in CheckpointDiscarded(ledger) : Harmless(ledger, m)
    BY GoodLedger, CancelHarmless
  <2> QED
    BY <1>0, <1>3, <2>1, StoreStep DEF DiscardIsRecorded
<1> QED
  BY <1>1, <1>2, <1>3 DEF DiscardStep

LEMMA CommandStepSafe ==
  ASSUME EInv, NEW w \in Workers, CommandStep(w)
  PROVE  EInv'
<1>1. PICK outcomes :
        /\ Command(w, outcomes)
        /\ \/ outcomes \in {{ledger}, RetryOutcomes(ledger), BeginReprocess(ledger),
                            BeginRemoteBackup(ledger), SelectLocalWhisper(ledger),
                            AcceptLocalTranscriptOnly(ledger)}
           \/ \E backend \in {"WhisperLocal", "QwenLocal"} :
                outcomes \in {SelectFullLocal(ledger, backend),
                              TakeOverWithFullLocal(ledger, backend)}
  BY EngineAssumption
     DEF CommandStep, Process, Retry, Reprocess, BackUpToCloud, ProcessLocally
<1>2. Harmless(ledger, ledger')
  BY <1>1, GoodLedger, CommandHarmless DEF Command
<1>3. "loop" \in Ordinary \ MarkerPhases
  BY DEF Phases, Ordinary, MarkerPhases
<1> QED
  BY <1>1, <1>2, <1>3, GoesOn DEF Command

LEMMA WorkerStepSafe ==
  ASSUME EInv, NEW w \in Workers, WorkerStep(w)
  PROVE  EInv'
<1>1. CASE EffectIsLost(w)
  BY <1>1, GoodLedger, WorldStays, StoppedStep DEF EffectIsLost
<1>2. CASE ResumePending(w)
  <2>1. {"finalize", "discard", "loop", "idle"} \subseteq Ordinary \ MarkerPhases
    BY DEF Phases, Ordinary, MarkerPhases
  <2> QED
    BY <1>2, <2>1, GoodLedger, GoesOn DEF ResumePending
<1> QED
  BY <1>1, <1>2, TurnStep, UploadStepSafe, ProviderStepSafe, ContentStepSafe,
     PublishStepSafe, CancelStepSafe, DiscardStepSafe, CommandStepSafe DEF WorkerStep

\* A new process holds no marker and waits for no answer.
LEMMA RestartSafe ==
  ASSUME EInv, Restart
  PROVE  EInv'
<1>1. PICK w \in Workers : worker' = [[v \in Workers |-> Idle] EXCEPT ![w].at = "startup"]
  BY DEF Restart
<1>2. Idle \in Places /\ Idle.at = "idle" /\ [Idle EXCEPT !.at = "startup"] \in Places
      /\ [Idle EXCEPT !.at = "startup"].at = "startup"
  BY LedgerAssumption DEF Idle, Places, Phases
<1>3. worker' = [v \in Workers |-> IF v = w THEN [Idle EXCEPT !.at = "startup"] ELSE Idle]
  BY <1>1
<1>4. /\ worker' \in [Workers -> Places]
      /\ \A v \in Workers : worker'[v].at \in {"idle", "startup"}
  BY <1>2, <1>3
<1>5. /\ UNCHANGED <<ledger, tasks, archive, package, credentials, bucket, named,
                     sent_again>>
      /\ tos_operation' = NoWorker /\ late_puts' \in Nat
  BY DEF Restart, EInv, TypeOK
<1>6. TypeOK'
  BY <1>4, <1>5 DEF EInv, TypeOK, Places
<1> QED
  BY <1>4, <1>5, <1>6
     DEF EInv, LedgerIsGood, MarkerIsHeld, MarkerPhases, ReceiptsAreNamed,
         RequestIsUnique,
         Asking, OneProviderJob, DeletionIsDue, VerifiedIsPublished

\* The world only changes what the invariant types.
LEMMA WorldStepSafe ==
  ASSUME EInv, LatePutArrives \/ ChangeCredentials
  PROVE  EInv'
<1>1. /\ UNCHANGED <<ledger, worker, tos_operation, package, tasks, archive>>
      /\ credentials' \in BOOLEAN
  BY DEF LatePutArrives, ChangeCredentials, EInv, TypeOK
<1>2. CASE LatePutArrives
  <2>1. late_puts \in Nat /\ late_puts > 0 /\ late_puts' = late_puts - 1
    BY <1>2 DEF LatePutArrives, EInv, TypeOK
  <2>2. late_puts' \in Nat
    BY <2>1
  <2> QED
    BY <1>1, <1>2, <2>2 DEF LatePutArrives, TosTypes, EInv, TypeOK, LedgerIsGood,
       MarkerIsHeld, ReceiptsAreNamed, RequestIsUnique, Asking, OneProviderJob,
       DeletionIsDue, VerifiedIsPublished
<1>3. CASE ChangeCredentials
  BY <1>1, <1>3 DEF ChangeCredentials, tos, EInv, TypeOK, LedgerIsGood,
       MarkerIsHeld, ReceiptsAreNamed, RequestIsUnique, Asking, OneProviderJob,
       DeletionIsDue, VerifiedIsPublished
<1> QED
  BY <1>2, <1>3

LEMMA InitSafe == Init => EInv
<1> SUFFICES ASSUME Init PROVE EInv
  OBVIOUS
<1>1. NoPublication \in [Targets -> TargetStates]
  BY DEF NoPublication, TargetStates
<1>2. Enqueued \in Ledger
  BY <1>1, LedgerAssumption DEF Enqueued, Ledger, States
<1>3. Valid(Enqueued) /\ Ordered(Enqueued) /\ CancelingIsOpen(Enqueued)
  BY DEF Enqueued, Valid, BackendConsistent, StateFitsBackend, EvidenceFitsState,
         PublicationConsistent, CleanupConsistent, IsRemote, IsLocalWorker,
         HasPublication, Ordered, OrderedAt, Summarized, Published, ReworkStates,
         PublishStates, DiscardStates, CanceledStates, CancelingIsOpen
<1>4. ~HasPublication(Enqueued)
  BY DEF Enqueued, HasPublication
<1>5. Idle \in [at: Phases, generation: 0..MaxGeneration, target: 0..NumTargets]
      /\ Idle.at = "idle"
  BY LedgerAssumption DEF Idle, Phases
<1>6. TypeOK
  <2> DEFINE P == [at: Phases, generation: 0..MaxGeneration, target: 0..NumTargets]
  <2>1. Idle \in P
    BY <1>5
  <2>2. worker \in [Workers -> P]
    <3> HIDE DEF P
    <3> QED BY <2>1 DEF Init
  <2>3. archive \subseteq (1..MaxGeneration) \X Targets
    BY DEF Init
  <2>4. tasks \in 0..MaxTasks
    BY EngineAssumption DEF Init
  <2> QED
    BY <1>2, <2>2, <2>3, <2>4 DEF Init, TypeOK
<1>7. ledger = Enqueued /\ tasks = 0 /\ (\A w \in Workers : worker[w].at = "idle")
  BY <1>5 DEF Init
<1>8. LedgerIsGood /\ VerifiedIsPublished
  BY <1>3, <1>4, <1>7 DEF LedgerIsGood, VerifiedIsPublished
<1>9. MarkerIsHeld /\ ReceiptsAreNamed /\ DeletionIsDue
  BY <1>7 DEF MarkerIsHeld, MarkerPhases, ReceiptsAreNamed, DeletionIsDue
<1>10. RequestIsUnique
  BY <1>7 DEF RequestIsUnique, Asking, OneProviderJob
<1> QED
  BY <1>6, <1>8, <1>9, <1>10 DEF EInv

LEMMA NextSafe == EInv /\ [Next]_vars => EInv'
<1> SUFFICES ASSUME EInv, [Next]_vars PROVE EInv'
  OBVIOUS
<1>1. CASE UNCHANGED vars
  BY <1>1 DEF vars, world, tos, EInv, TypeOK, LedgerIsGood, MarkerIsHeld, ReceiptsAreNamed,
              RequestIsUnique, Asking, OneProviderJob, DeletionIsDue, VerifiedIsPublished
<1> QED
  BY <1>1, WorkerStepSafe, RestartSafe, WorldStepSafe DEF Next

------------------------
(* The theorems. *)

\* However many tasks drive a recording, EInv holds in every state.
THEOREM EngineInvariant == Spec => []EInv
BY InitSafe, NextSafe, PTL DEF Spec

\* 妙记 accepts at most one job, whatever is lost, retried, canceled or restarted.
THEOREM JobIsUnique == Spec => []OneProviderJob
<1>1. EInv => OneProviderJob
  BY DEF EInv, RequestIsUnique
<1> QED
  BY <1>1, EngineInvariant, PTL

\* What the ledger calls verified was published, in this generation.
THEOREM VerifiedIsTrue == Spec => []VerifiedIsPublished
<1>1. EInv => VerifiedIsPublished
  BY DEF EInv
<1> QED
  BY <1>1, EngineInvariant, PTL

\* A step that deletes the temporary object finds the backup published, or the
\* job canceled.
DeletesSafely ==
    bucket /\ ~bucket' =>
      \/ /\ ledger.transcript_json /\ ledger.canonical_backup
         /\ \A t \in Required : <<ledger.generation, t>> \in archive
      \/ ledger.state = "CanceledAfterUpload"

LEMMA OnlyCleanupDeletes ==
  ASSUME EInv, [Next]_vars, bucket, ~bucket'
  PROVE  \E w \in Workers : CleanupDeletes(w) \/ DeleteCanceled(w)
<1>1. ~UNCHANGED bucket
  OBVIOUS
<1>2. PICK w \in Workers : WorkerStep(w)
  BY <1>1 DEF Next, vars, world, tos, LatePutArrives, ChangeCredentials, Restart
<1>3. CASE PublishStep(w)
  BY <1>1, <1>3 DEF PublishStep, Plan, StartTarget, TargetIsPublished, PublishReturns,
                    PublishFails, VerifyReturns, CleanupIsRecorded, world, tos
<1>4. CASE CancelStep(w)
  BY <1>1, <1>4
     DEF CancelStep, CancelAndCleanup, Finalize, LoadCanceled, ProbeFindsObject,
                    ProbeFindsAbsence, DeletionIsRecorded, CanceledCleanupFails, world, tos
<1> QED
  BY <1>1, <1>2, <1>3, <1>4
     DEF WorkerStep, Turn, UploadStep, UploadIsRejected, UploadFindsObject, UploadPuts,
         PutArrives, UploadReturns, UploadIsLost, ProviderStep, SubmitIsRejected, SubmitIsAccepted, SubmitReturns,
         SubmitIsLost, PollReturns, ContentStep, TranscribeReturns, TranscribeFails,
         SummarizeReturns, SummarizeIsRejected, EffectIsLost, DiscardStep,
         BeginDiscardLocal, DiscardPackage, DiscardIsRecorded, CommandStep, Process,
         Retry,
         Reprocess, BackUpToCloud, ProcessLocally, Command, ResumePending, world, tos

LEMMA DeletionIsSafe ==
  ASSUME EInv, [Next]_vars
  PROVE  DeletesSafely
<1> SUFFICES ASSUME bucket, ~bucket'
             PROVE  \/ /\ ledger.transcript_json /\ ledger.canonical_backup
                       /\ \A t \in Required : <<ledger.generation, t>> \in archive
                    \/ ledger.state = "CanceledAfterUpload"
  BY DEF DeletesSafely
<1>1. PICK w \in Workers : CleanupDeletes(w) \/ DeleteCanceled(w)
  BY OnlyCleanupDeletes
<1>2. CASE DeleteCanceled(w)
  BY <1>2 DEF DeleteCanceled, At, EInv, DeletionIsDue, AwaitsDeletion
<1>3. CASE CleanupDeletes(w)
  <2>1. MayDelete(ledger) /\ ledger.tos_object /\ ~ledger.temporary_tos_deleted
    BY <1>3 DEF CleanupDeletes, tos, At, EInv, DeletionIsDue
  <2>2. CASE /\ ledger.state \in Published /\ AllVerified(ledger)
             /\ ledger.canonical_backup
    <3>1. ledger.transcript_json /\ HasPublication(ledger)
      BY <2>2, GoodLedger
         DEF Valid, EvidenceFitsState, Summarized, Published, ReworkStates
    <3>2. \A t \in Required : <<ledger.generation, t>> \in archive
      BY <2>2, <3>1, LedgerAssumption DEF EInv, VerifiedIsPublished, AllVerified
    <3> QED
      BY <2>2, <3>1, <3>2
  <2> QED
    BY <2>1, <2>2 DEF MayDelete
<1> QED
  BY <1>1, <1>2, <1>3

\* The temporary object goes only when the recording is backed up or canceled.
THEOREM DeletionComesLast == Spec => BackupBeforeDeletion
<1>1. EInv /\ [Next]_vars => [DeletesSafely]_vars
  BY DeletionIsSafe
<1>2. BackupBeforeDeletion <=> [][DeletesSafely]_vars
  BY SMTT(30) DEF BackupBeforeDeletion, DeletesSafely
<1> QED
  BY <1>1, <1>2, EngineInvariant, PTL DEF Spec

------------------------
(* The engine implements the store: whatever its tasks do, they change the *)
(* ledger by the operations of ProcessingLedger.                            *)

\* LedgerStore is an instance of ProcessingLedger with the engine's own ledger
\* and constants: its operations are the engine's.
LEMMA SameStore ==
  ASSUME NEW l, NEW g, NEW t, NEW ambiguous, NEW backend
  PROVE
    /\ LedgerStore!SelectLocalWhisper(l) = SelectLocalWhisper(l)
    /\ LedgerStore!SelectFullLocal(l, backend) = SelectFullLocal(l, backend)
    /\ LedgerStore!TakeOverWithFullLocal(l, backend) = TakeOverWithFullLocal(l, backend)
    /\ LedgerStore!AcceptLocalTranscriptOnly(l) = AcceptLocalTranscriptOnly(l)
    /\ LedgerStore!CheckpointLocalWhisperTranscript(l) = CheckpointLocalWhisperTranscript(l)
    /\ LedgerStore!MarkLocalWhisperFailed(l) = MarkLocalWhisperFailed(l)
    /\ LedgerStore!CheckpointTosObject(l) = CheckpointTosObject(l)
    /\ LedgerStore!MarkUploadRejected(l) = MarkUploadRejected(l)
    /\ LedgerStore!CheckpointMiaojiTask(l) = CheckpointMiaojiTask(l)
    /\ LedgerStore!MarkSubmitAmbiguous(l) = MarkSubmitAmbiguous(l)
    /\ LedgerStore!MarkSubmitRejected(l) = MarkSubmitRejected(l)
    /\ LedgerStore!RetryProvider(l) = RetryProvider(l)
    /\ LedgerStore!ResolveSubmitForRetry(l) = ResolveSubmitForRetry(l)
    /\ LedgerStore!CheckpointTranscript(l) = CheckpointTranscript(l)
    /\ LedgerStore!CheckpointSummary(l) = CheckpointSummary(l)
    /\ LedgerStore!AbortSummaryBeforeDispatch(l) = AbortSummaryBeforeDispatch(l)
    /\ LedgerStore!ResolveSummaryForRetry(l) = ResolveSummaryForRetry(l)
    /\ LedgerStore!PlanPublication(l) = PlanPublication(l)
    /\ LedgerStore!StartPublicationTarget(l, g, t) = StartPublicationTarget(l, g, t)
    /\ LedgerStore!CheckpointPublicationTarget(l, g, t)
         = CheckpointPublicationTarget(l, g, t)
    /\ LedgerStore!FailPublicationTarget(l, g, t, ambiguous)
         = FailPublicationTarget(l, g, t, ambiguous)
    /\ LedgerStore!MarkPublicationConflict(l) = MarkPublicationConflict(l)
    /\ LedgerStore!CheckpointCanonicalBackup(l, g) = CheckpointCanonicalBackup(l, g)
    /\ LedgerStore!RetryPublication(l) = RetryPublication(l)
    /\ LedgerStore!BeginReprocess(l) = BeginReprocess(l)
    /\ LedgerStore!BeginRemoteBackup(l) = BeginRemoteBackup(l)
    /\ LedgerStore!CheckpointCleanup(l, g) = CheckpointCleanup(l, g)
    /\ LedgerStore!CheckpointCanceledTosCleanup(l) = CheckpointCanceledTosCleanup(l)
    /\ LedgerStore!CheckpointCanceledUploadAbsent(l) = CheckpointCanceledUploadAbsent(l)
    /\ LedgerStore!BeginDiscard(l) = BeginDiscard(l)
    /\ LedgerStore!CheckpointDiscarded(l) = CheckpointDiscarded(l)
    /\ LedgerStore!Cancel(l) = Cancel(l)
    /\ LedgerStore!Resume(l) = Resume(l)
BY ZenonT(40) DEF SelectLocalWhisper, When, MayOweRemoteTask, SelectableStates, Transition,
       CanTransition, Successors, States, ReworkStates, PublishStates, CanceledStates,
       DiscardStates, Mutate, Valid, BackendConsistent, IsRemote, IsLocalWorker,
       MossConsistent, StateFitsBackend, EvidenceFitsState, Summarized, Published,
       HasPublication, PublicationConsistent, Targets, CleanupConsistent,
       KeepsArchiveHistory, AllVerified, Selected, SelectFullLocal, SameSelection,
       TakeOverWithFullLocal, AcceptLocalTranscriptOnly,
       CheckpointLocalWhisperTranscript, MarkLocalWhisperFailed, CheckpointTosObject,
       MarkUploadRejected, CheckpointMiaojiTask, MarkSubmitAmbiguous,
       MarkSubmitRejected, RetryProvider, ResolveSubmitForRetry, CheckpointTranscript,
       CheckpointSummary, AbortSummaryBeforeDispatch, ResolveSummaryForRetry,
       PlanPublication, GenerationLeft, NextGeneration, NoPublication,
       StartPublicationTarget, CurrentTarget, CheckpointPublicationTarget,
       FailPublicationTarget, MarkPublicationConflict, CheckpointCanonicalBackup,
       RequiredVerified, RetryPublication, FirstUnverified, BeginReprocess,
       BeginRemoteBackup, CheckpointCleanup, ScheduleRetention,
       CheckpointCanceledTosCleanup, CheckpointCanceledUploadAbsent, BeginDiscard,
       CheckpointDiscarded, Cancel, Resume, ResumePublishing, InDoubt,
       LedgerStore!SelectLocalWhisper, LedgerStore!When, LedgerStore!MayOweRemoteTask,
       LedgerStore!SelectableStates, LedgerStore!Transition, LedgerStore!CanTransition,
       LedgerStore!Successors, LedgerStore!States, LedgerStore!ReworkStates,
       LedgerStore!PublishStates, LedgerStore!CanceledStates, LedgerStore!DiscardStates,
       LedgerStore!Mutate, LedgerStore!Valid, LedgerStore!BackendConsistent,
       LedgerStore!IsRemote, LedgerStore!IsLocalWorker, LedgerStore!MossConsistent,
       LedgerStore!StateFitsBackend, LedgerStore!EvidenceFitsState,
       LedgerStore!Summarized, LedgerStore!Published, LedgerStore!HasPublication,
       LedgerStore!PublicationConsistent, LedgerStore!Targets,
       LedgerStore!CleanupConsistent, LedgerStore!KeepsArchiveHistory,
       LedgerStore!AllVerified, LedgerStore!Selected, LedgerStore!SelectFullLocal,
       LedgerStore!SameSelection, LedgerStore!TakeOverWithFullLocal,
       LedgerStore!AcceptLocalTranscriptOnly,
       LedgerStore!CheckpointLocalWhisperTranscript, LedgerStore!MarkLocalWhisperFailed,
       LedgerStore!CheckpointTosObject, LedgerStore!MarkUploadRejected,
       LedgerStore!CheckpointMiaojiTask, LedgerStore!MarkSubmitAmbiguous,
       LedgerStore!MarkSubmitRejected, LedgerStore!RetryProvider,
       LedgerStore!ResolveSubmitForRetry, LedgerStore!CheckpointTranscript,
       LedgerStore!CheckpointSummary, LedgerStore!AbortSummaryBeforeDispatch,
       LedgerStore!ResolveSummaryForRetry, LedgerStore!PlanPublication,
       LedgerStore!GenerationLeft, LedgerStore!NextGeneration,
       LedgerStore!NoPublication, LedgerStore!StartPublicationTarget,
       LedgerStore!CurrentTarget, LedgerStore!CheckpointPublicationTarget,
       LedgerStore!FailPublicationTarget, LedgerStore!MarkPublicationConflict,
       LedgerStore!CheckpointCanonicalBackup, LedgerStore!RequiredVerified,
       LedgerStore!RetryPublication, LedgerStore!FirstUnverified,
       LedgerStore!BeginReprocess, LedgerStore!BeginRemoteBackup,
       LedgerStore!CheckpointCleanup, LedgerStore!ScheduleRetention,
       LedgerStore!CheckpointCanceledTosCleanup,
       LedgerStore!CheckpointCanceledUploadAbsent, LedgerStore!BeginDiscard,
       LedgerStore!CheckpointDiscarded, LedgerStore!Cancel, LedgerStore!Resume,
       LedgerStore!ResumePublishing, LedgerStore!InDoubt

IsStored == ledger' = ledger \/ LedgerStore!Next

\* Every group of the store's operations is open to the engine.
LEMMA StoreOffers ==
  /\ LedgerStore!SelectionStep => IsStored
  /\ LedgerStore!RemoteStep => IsStored
  /\ LedgerStore!SummaryStep => IsStored
  /\ LedgerStore!PublicationStep => IsStored
  /\ LedgerStore!CleanupStep => IsStored
  /\ ledger' \in Resume(ledger) => IsStored
BY SameStore DEF IsStored, LedgerStore!Next

\* A receipt the store accepts names the generation that exists.
LEMMA NamedGeneration ==
  ASSUME EInv, HasPublication(ledger)
  PROVE  ledger.generation \in 1..MaxGeneration
BY LedgerAssumption DEF EInv, TypeOK, Ledger, HasPublication

LEMMA UploadStepStores ==
  ASSUME NEW w \in Workers, UploadStep(w) \/ ProviderStep(w) \/ ContentStep(w)
  PROVE  IsStored
<1>1. CASE UploadStep(w)
  BY <1>1, SameStore, StoreOffers
     DEF UploadStep, UploadIsRejected, UploadFindsObject, UploadPuts, PutArrives,
         UploadReturns, UploadIsLost, CheckpointFound, Attempt, IsStored, LedgerStore!RemoteStep
<1>2. CASE ProviderStep(w)
  BY <1>2, SameStore, StoreOffers
     DEF ProviderStep, SubmitIsRejected, SubmitIsAccepted, SubmitReturns, SubmitIsLost,
         PollReturns, Attempt, Store, IsStored, LedgerStore!RemoteStep
<1>3. CASE ContentStep(w)
  BY <1>3, SameStore, StoreOffers
     DEF ContentStep, TranscribeReturns, TranscribeFails, SummarizeReturns,
         SummarizeIsRejected, Attempt, Store, IsStored, LedgerStore!SelectionStep,
         LedgerStore!SummaryStep
<1> QED
  BY <1>1, <1>2, <1>3

LEMMA PublishStepStores ==
  ASSUME EInv, NEW w \in Workers, PublishStep(w)
  PROVE  IsStored
<1> DEFINE g == worker[w].generation
           t == worker[w].target
<1>1. LedgerStore!Targets = Targets
  BY DEF LedgerStore!Targets, Targets
<1>2. CASE Plan(w)
  BY <1>2, SameStore, StoreOffers
     DEF Plan, Attempt, Store, IsStored, LedgerStore!PublicationStep
<1>3. CASE StartTarget(w)
  <2>1. t \in Targets
    BY <1>3 DEF EInv, ReceiptsAreNamed, StartTarget, At
  <2>2. ledger' = ledger \/ ledger' \in StartPublicationTarget(ledger, g, t)
    BY <1>3 DEF StartTarget, Store, Attempt
  <2>3. CASE ledger' \in StartPublicationTarget(ledger, g, t)
    <3>1. g \in 1..MaxGeneration
      BY <2>3, NamedGeneration DEF StartPublicationTarget, CurrentTarget, When
    <3> QED
      BY <1>1, <2>1, <2>3, <3>1, SameStore, StoreOffers DEF LedgerStore!PublicationStep
  <2> QED
    BY <2>2, <2>3 DEF IsStored
<1>4. CASE PublishReturns(w)
  <2>1. t \in Targets
    BY <1>4 DEF EInv, ReceiptsAreNamed, PublishReturns, At
  <2>2. ledger' = ledger \/ ledger' \in CheckpointPublicationTarget(ledger, g, t)
    BY <1>4 DEF PublishReturns, Store, Attempt
  <2>3. CASE ledger' \in CheckpointPublicationTarget(ledger, g, t)
    <3>1. g \in 1..MaxGeneration
      BY <2>3, NamedGeneration DEF CheckpointPublicationTarget, CurrentTarget, When
    <3> QED
      BY <1>1, <2>1, <2>3, <3>1, SameStore, StoreOffers DEF LedgerStore!PublicationStep
  <2> QED
    BY <2>2, <2>3 DEF IsStored
<1>5. CASE PublishFails(w)
  <2>1. t \in Targets
    BY <1>5 DEF EInv, ReceiptsAreNamed, PublishFails, At
  <2>2. \/ ledger' = ledger
        \/ ledger' \in MarkPublicationConflict(ledger)
        \/ \E ambiguous \in BOOLEAN :
             ledger' \in FailPublicationTarget(ledger, g, t, ambiguous)
    BY <1>5 DEF PublishFails
  <2>3. CASE ledger' \in MarkPublicationConflict(ledger)
    BY <2>3, SameStore, StoreOffers DEF LedgerStore!PublicationStep
  <2>4. ASSUME NEW ambiguous \in BOOLEAN,
               ledger' \in FailPublicationTarget(ledger, g, t, ambiguous)
        PROVE  IsStored
    <3>1. g \in 1..MaxGeneration
      BY <2>4, NamedGeneration DEF FailPublicationTarget, CurrentTarget, When
    <3> QED
      BY <1>1, <2>1, <2>4, <3>1, SameStore, StoreOffers DEF LedgerStore!PublicationStep
  <2> QED
    BY <2>2, <2>3, <2>4 DEF IsStored
<1>6. CASE VerifyReturns(w)
  <2>1. ledger' = ledger \/ ledger' \in CheckpointCanonicalBackup(ledger, g)
    BY <1>6 DEF VerifyReturns, Store, Attempt
  <2>2. CASE ledger' \in CheckpointCanonicalBackup(ledger, g)
    <3>1. g \in 1..MaxGeneration
      BY <2>2, NamedGeneration DEF CheckpointCanonicalBackup, When
    <3> QED
      BY <2>2, <3>1, SameStore, StoreOffers DEF LedgerStore!PublicationStep
  <2> QED
    BY <2>1, <2>2 DEF IsStored
<1>7. CASE CleanupIsRecorded(w)
  <2>1. ledger' = ledger \/ ledger' \in CheckpointCleanup(ledger, g)
    BY <1>7 DEF CleanupIsRecorded, Store, Attempt
  <2>2. CASE ledger' \in CheckpointCleanup(ledger, g)
    <3>1. PICK h \in 1..MaxGeneration : ledger' \in CheckpointCleanup(ledger, h)
      <4>1. CASE ledger.state = "Complete" /\ ledger.temporary_tos_deleted
        BY <2>2, <4>1, LedgerAssumption DEF CheckpointCleanup
      <4>2. CASE ~(ledger.state = "Complete" /\ ledger.temporary_tos_deleted)
        <5>1. g \in 1..MaxGeneration
          BY <2>2, <4>2, NamedGeneration DEF CheckpointCleanup, When
        <5> QED
          BY <2>2, <5>1
      <4> QED
        BY <4>1, <4>2
    <3> QED
      BY <3>1, SameStore, StoreOffers DEF LedgerStore!CleanupStep
  <2> QED
    BY <2>1, <2>2 DEF IsStored
<1>8. CASE TargetIsPublished(w) \/ CleanupDeletes(w)
  BY <1>8 DEF TargetIsPublished, CleanupDeletes, IsStored
<1> QED
  BY <1>2, <1>3, <1>4, <1>5, <1>6, <1>7, <1>8 DEF PublishStep

LEMMA CancelStepStores ==
  ASSUME NEW w \in Workers, CancelStep(w) \/ DiscardStep(w)
  PROVE  IsStored
<1>1. CASE CancelStep(w)
  BY <1>1, SameStore, StoreOffers
     DEF CancelStep, CancelAndCleanup, Finalize, LoadCanceled, ProbeFindsObject,
         ProbeFindsAbsence, DeleteCanceled, DeletionIsRecorded, CanceledCleanupFails,
         CheckpointFound, Attempt, IsStored, LedgerStore!RemoteStep,
         LedgerStore!CleanupStep
<1>2. CASE DiscardStep(w)
  BY <1>2, SameStore, StoreOffers
     DEF DiscardStep, BeginDiscardLocal, DiscardPackage, DiscardIsRecorded, Attempt, Store,
         IsStored, LedgerStore!CleanupStep
<1> QED
  BY <1>1, <1>2

LEMMA CommandStepStores ==
  ASSUME NEW w \in Workers, CommandStep(w)
  PROVE  IsStored
<1>1. CASE Process(w)
  BY <1>1 DEF Process, Command, IsStored
<1>2. CASE Retry(w)
  BY <1>2, SameStore, StoreOffers
     DEF Retry, RetryOutcomes, Command, IsStored, LedgerStore!RemoteStep,
         LedgerStore!PublicationStep, LedgerStore!SummaryStep
<1>3. CASE Reprocess(w) \/ BackUpToCloud(w)
  BY <1>3, SameStore, StoreOffers
     DEF Reprocess, BackUpToCloud, Command, LedgerStore!PublicationStep
<1>4. CASE ProcessLocally(w)
  BY <1>4, SameStore, StoreOffers, EngineAssumption
     DEF ProcessLocally, Command, LedgerStore!SelectionStep
<1> QED
  BY <1>1, <1>2, <1>3, <1>4 DEF CommandStep

LEMMA NextStores ==
  ASSUME EInv, [Next]_vars
  PROVE  IsStored
<1>1. ASSUME NEW w \in Workers, WorkerStep(w)
      PROVE  IsStored
  <2>1. CASE Turn(w)
    BY <2>1, StoreOffers DEF Turn
  <2>2. CASE EffectIsLost(w) \/ ResumePending(w)
    BY <2>2 DEF EffectIsLost, ResumePending, IsStored
  <2> QED
    BY <1>1, <2>1, <2>2, UploadStepStores, PublishStepStores, CancelStepStores,
       CommandStepStores
       DEF WorkerStep
<1>2. CASE LatePutArrives \/ ChangeCredentials \/ Restart \/ UNCHANGED vars
  BY <1>2 DEF LatePutArrives, ChangeCredentials, Restart, vars, IsStored
<1> QED
  BY <1>1, <1>2 DEF Next

LEMMA InitStores == Init => LedgerStore!Init
BY DEF Init, LedgerStore!Init, Enqueued, LedgerStore!Enqueued, NoPublication,
       LedgerStore!NoPublication, Targets, LedgerStore!Targets

\* However many tasks drive a recording, they drive its ledger through the
\* store: every theorem about ProcessingLedger holds of the running engine.
THEOREM EngineIsAStore == Spec => ImplementsStore
<1>1. EInv /\ [Next]_vars => [LedgerStore!Next]_ledger
  BY NextStores DEF IsStored
<1> QED
  BY <1>1, InitStores, EngineInvariant, PTL DEF Spec, ImplementsStore, LedgerStore!Spec

------------------------
(* Nothing is left in the bucket.  The store cannot see the bucket: what the *)
(* ledger says of the object is true because of the order in which the tasks  *)
(* ask it.                                                                    *)

\* The upload is under way, or was canceled while it was.
Sending(l) == l.state \in {"Uploading", "CancelingUpload"} /\ ~l.tos_object

UploadingIsOpen(l) == l.state = "Uploading" => ~l.tos_object

\* The operation is not about the object: it neither answers an upload nor
\* records a deletion.
Plain(l, m) ==
    /\ m.tos_object = l.tos_object
    /\ m.temporary_tos_deleted => l.temporary_tos_deleted
    /\ IsRemote(m) => IsRemote(l)
    /\ m.state \in {"ProviderFailed", "CanceledBeforeUpload"} => ~Sending(l)
    /\ UploadingIsOpen(l) => UploadingIsOpen(m)

LEMMA EffectPlain ==
  ASSUME NEW l \in Ledger, NEW m,
         \/ m \in MarkSubmitRejected(l)
         \/ m \in CheckpointMiaojiTask(l) \/ m \in MarkSubmitAmbiguous(l)
         \/ m \in CheckpointTranscript(l) \/ m \in CheckpointLocalWhisperTranscript(l)
         \/ m \in MarkLocalWhisperFailed(l) \/ m \in CheckpointSummary(l)
         \/ m \in AbortSummaryBeforeDispatch(l)
  PROVE  Plain(l, m)
<1> USE DEF Plain, Sending, UploadingIsOpen, Ledger, When, Transition, Mutate, IsRemote
<1>1. CASE m \in MarkSubmitRejected(l)
  BY <1>1 DEF MarkSubmitRejected
<1>2. CASE m \in CheckpointMiaojiTask(l) \/ m \in MarkSubmitAmbiguous(l)
  BY <1>2, ZenonT(40) DEF CheckpointMiaojiTask, MarkSubmitAmbiguous
<1>3. CASE m \in CheckpointTranscript(l) \/ m \in CheckpointLocalWhisperTranscript(l)
  BY <1>3, ZenonT(40) DEF CheckpointTranscript, CheckpointLocalWhisperTranscript
<1>4. CASE m \in MarkLocalWhisperFailed(l)
  BY <1>4 DEF MarkLocalWhisperFailed
<1>5. CASE m \in CheckpointSummary(l) \/ m \in AbortSummaryBeforeDispatch(l)
  BY <1>5, ZenonT(40) DEF CheckpointSummary, AbortSummaryBeforeDispatch
<1> QED
  BY <1>1, <1>2, <1>3, <1>4, <1>5

LEMMA PublicationPlain ==
  ASSUME NEW l \in Ledger, NEW g \in Nat, NEW t \in Targets, NEW m,
         \/ m \in PlanPublication(l) \/ m \in StartPublicationTarget(l, g, t)
         \/ m \in CheckpointPublicationTarget(l, g, t)
         \/ m \in MarkPublicationConflict(l)
         \/ \E ambiguous \in BOOLEAN : m \in FailPublicationTarget(l, g, t, ambiguous)
         \/ m \in CheckpointCanonicalBackup(l, g)
  PROVE  Plain(l, m)
<1> USE DEF Plain, Sending, UploadingIsOpen, Ledger, When, Transition, Mutate, IsRemote
<1>1. CASE m \in PlanPublication(l)
  BY <1>1, ZenonT(40) DEF PlanPublication, NextGeneration
<1>2. CASE m \in StartPublicationTarget(l, g, t) \/ m \in CheckpointPublicationTarget(l, g, t)
  BY <1>2 DEF StartPublicationTarget, CheckpointPublicationTarget
<1>3. CASE m \in MarkPublicationConflict(l)
  BY <1>3 DEF MarkPublicationConflict
<1>4. CASE \E ambiguous \in BOOLEAN : m \in FailPublicationTarget(l, g, t, ambiguous)
  BY <1>4, ZenonT(40) DEF FailPublicationTarget
<1>5. CASE m \in CheckpointCanonicalBackup(l, g)
  BY <1>5 DEF CheckpointCanonicalBackup
<1> QED
  BY <1>1, <1>2, <1>3, <1>4, <1>5

LEMMA UploadIsNotJustCanceled ==
  ASSUME NEW s \in States, CanTransition(s, "CanceledBeforeUpload")
  PROVE  s # "Uploading"
BY DEF CanTransition, Successors, States, ReworkStates, PublishStates, CanceledStates,
       DiscardStates

LEMMA LocalWhisperPlain ==
  ASSUME NEW l \in Ledger, NEW m \in SelectLocalWhisper(l)
  PROVE  Plain(l, m)
<1> DEFINE k == Selected(l, "WhisperLocal", FALSE)
<1>1. k \in Ledger
  BY SelectedIsLedger
<1>2. /\ k.transcription_backend = "WhisperLocal"
      /\ k.tos_object = l.tos_object
      /\ k.temporary_tos_deleted = l.temporary_tos_deleted
  BY DEF Selected, Ledger
<1>3. \/ m = l
      \/ m \in Transition(l, [k EXCEPT !.miaoji = "none"], "LocalTranscribing")
  BY DEF SelectLocalWhisper, When
<1> HIDE DEF k
<1>4. CASE m \in Transition(l, [k EXCEPT !.miaoji = "none"], "LocalTranscribing")
  BY <1>1, <1>2, <1>4, ZenonT(60)
     DEF Plain, Sending, UploadingIsOpen, Ledger, When, Transition, Mutate, IsRemote
<1> QED
  BY <1>3, <1>4 DEF Plain, Sending

LEMMA FullLocalPlain ==
  ASSUME NEW l \in Ledger, NEW backend \in {"WhisperLocal", "QwenLocal"}, NEW m,
         m \in SelectFullLocal(l, backend) \/ m \in TakeOverWithFullLocal(l, backend)
  PROVE  Plain(l, m)
<1> DEFINE k == Selected(l, backend, TRUE)
<1>1. k \in Ledger
  BY SelectedIsLedger
<1>2. /\ k.transcription_backend = backend
      /\ k.tos_object = l.tos_object
      /\ k.temporary_tos_deleted = l.temporary_tos_deleted
  BY DEF Selected, Ledger
<1>3. \/ m = l
      \/ \E j \in {"none", "superseded"} :
           m \in Transition(l, [k EXCEPT !.miaoji = j], "LocalTranscribing")
  BY DEF SelectFullLocal, TakeOverWithFullLocal, When
<1> HIDE DEF k
<1>4. ASSUME NEW j \in {"none", "superseded"},
             m \in Transition(l, [k EXCEPT !.miaoji = j], "LocalTranscribing")
      PROVE  Plain(l, m)
  BY <1>1, <1>2, <1>4, ZenonT(60)
     DEF Plain, Sending, UploadingIsOpen, Ledger, When, Transition, Mutate, IsRemote
<1> QED
  BY <1>3, <1>4 DEF Plain, Sending

LEMMA CommandPlain ==
  ASSUME NEW l \in Ledger, NEW m,
         \/ m \in Cancel(l) \/ m \in BeginDiscard(l) \/ m \in CheckpointDiscarded(l)
         \/ m \in RetryOutcomes(l) \/ m \in BeginReprocess(l) \/ m \in BeginRemoteBackup(l)
         \/ m \in SelectLocalWhisper(l) \/ m \in AcceptLocalTranscriptOnly(l)
         \/ \E backend \in {"WhisperLocal", "QwenLocal"} :
              m \in SelectFullLocal(l, backend) \/ m \in TakeOverWithFullLocal(l, backend)
  PROVE  Plain(l, m)
<1> USE DEF Plain, Sending, UploadingIsOpen, Ledger, When, Transition, Mutate, IsRemote
<1>1. CASE m \in Cancel(l)
  <2>1. CanTransition(l.state, "CanceledBeforeUpload") => l.state # "Uploading"
    BY UploadIsNotJustCanceled
  <2> QED
    BY <1>1, <2>1 DEF Cancel
<1>2. CASE m \in BeginDiscard(l) \/ m \in CheckpointDiscarded(l)
  BY <1>2 DEF BeginDiscard, CheckpointDiscarded
<1>3. CASE m \in RetryOutcomes(l)
  <2>1. m \in RetryProvider(l) => Plain(l, m)
    BY ZenonT(40) DEF RetryProvider
  <2>2. m \in RetryPublication(l) => Plain(l, m)
    <3>1. SUFFICES ASSUME NEW t \in Targets,
                          m \in Transition(l, [l EXCEPT !.targets[t] = "Pending"], "Publishing")
                   PROVE  Plain(l, m)
      BY ZenonT(40) DEF RetryPublication, FirstUnverified
    <3> QED
      BY <3>1, ZenonT(40)
  <2>3. m \in ResolveSummaryForRetry(l) => Plain(l, m)
    BY DEF ResolveSummaryForRetry
  <2>4. Plain(l, l)
    OBVIOUS
  <2> QED
    BY <1>3, <2>1, <2>2, <2>3, <2>4 DEF RetryOutcomes
<1>4. CASE m \in BeginReprocess(l) \/ m \in BeginRemoteBackup(l)
  BY <1>4, ZenonT(40) DEF BeginReprocess, BeginRemoteBackup, NextGeneration
<1>5. CASE m \in SelectLocalWhisper(l) \/ m \in AcceptLocalTranscriptOnly(l)
  <2>1. m \in AcceptLocalTranscriptOnly(l) => Plain(l, m)
    BY ZenonT(40) DEF AcceptLocalTranscriptOnly
  <2> QED
    BY <1>5, <2>1, LocalWhisperPlain
<1>6. CASE \E backend \in {"WhisperLocal", "QwenLocal"} :
              m \in SelectFullLocal(l, backend) \/ m \in TakeOverWithFullLocal(l, backend)
  BY <1>6, FullLocalPlain
<1> QED
  BY <1>1, <1>2, <1>3, <1>4, <1>5, <1>6

LEMMA ResumePlain ==
  ASSUME NEW l \in Ledger, Ordered(l), NEW m \in Resume(l)
  PROVE  Plain(l, m)
<1> USE DEF Plain, Sending, UploadingIsOpen, Ledger, When, Transition, Mutate, IsRemote
<1>1. CASE l.state = "Queued"
  BY <1>1 DEF Resume, Ordered, OrderedAt
<1>2. CASE l.state = "Publishing"
  <2>1. m \in ResumePublishing(l)
    BY <1>2 DEF Resume
  <2>2. \/ m = l
        \/ \E t \in Targets : m \in Mutate([l EXCEPT !.targets[t] = "Ambiguous",
                                                   !.state = "PublishAmbiguous"])
    BY <2>1, ZenonT(40) DEF ResumePublishing, FirstUnverified
  <2> QED
    BY <1>2, <2>2, ZenonT(40)
<1>3. CASE l.state \notin {"Queued", "Publishing"}
  <2>1. \/ m = l
        \/ \E s \in {"SubmitAmbiguous", "SummarySubmitting", "SummaryAmbiguous"} :
              m \in Mutate([l EXCEPT !.state = s])
        \/ m \in Mutate([l EXCEPT !.miaoji = "requested", !.state = "Submitting"])
    BY <1>3 DEF Resume
  <2> QED
    BY <2>1, ZenonT(40)
<1> QED
  BY <1>1, <1>2, <1>3

\* Whose work touches the object, and what it knows about it.
TosWorkersKnow ==
    \A w \in Workers :
       /\ worker[w].at \in {"upload", "uploading", "uploaded"} => Sending(ledger)
       /\ worker[w].at \in {"cleanup", "cleaned", "delete", "deleted"} => ledger.tos_object
       /\ worker[w].at \in {"cleaned", "deleted"} => ~named

\* The version the ledger names is one it still has to delete.
NamedIsOwed == named => ledger.tos_object /\ ~ledger.temporary_tos_deleted

\* While no PUT was sent with an earlier one on its way: an object in the
\* bucket, or on its way there, is the version the ledger names or one that it
\* waits for.
ObjectIsOwed ==
    /\ \A w \in Workers : worker[w].at = "uploading" => ~bucket /\ late_puts = 0
    /\ late_puts # 0 => Sending(ledger) /\ ~bucket /\ late_puts = 1
    /\ bucket => Sending(ledger) \/ named

BucketIsKnown ==
    /\ TosWorkersKnow
    /\ NamedIsOwed
    /\ sent_again \/ ObjectIsOwed

\* Of a job that stays remote, with the credentials in place.
BucketInv ==
    /\ credentials
    /\ UploadingIsOpen(ledger)
    /\ IsRemote(ledger) => BucketIsKnown

\* A plain operation takes no remote job out of an upload that is under way.
LEMMA PlainKeepsSending ==
  ASSUME NEW l \in Ledger, NEW m, Sound(l, m), Plain(l, m), IsRemote(m), Sending(l)
  PROVE  Sending(m)
<1>1. m.state = l.state \/ CanTransition(l.state, m.state)
  BY DEF Sound
<1>2. CASE m.state = l.state
  BY <1>2 DEF Plain, Sending
<1>3. CASE CanTransition(l.state, m.state)
  <2>1. m.state \in {"Transcribing", "LocalTranscribing", "ProviderFailed",
                     "CancelingUpload", "CanceledAfterUpload", "CanceledBeforeUpload"}
    BY <1>3 DEF CanTransition, Successors, States, Sending, ReworkStates, PublishStates,
           CanceledStates, DiscardStates
  <2>2. m.state \notin {"ProviderFailed", "CanceledBeforeUpload"} /\ ~m.tos_object
    BY DEF Plain, Sending
  <2>3. m.state \notin {"Transcribing", "CanceledAfterUpload", "LocalTranscribing"}
    BY <2>2 DEF Sound, Valid, EvidenceFitsState, StateFitsBackend, CanceledStates, DiscardStates
  <2> QED
    BY <2>1, <2>2, <2>3 DEF Sending
<1> QED
  BY <1>1, <1>2, <1>3

\* A PUT that is no longer waited for was the only one.
PutsAdd(w) ==
    \/ late_puts' = late_puts
    \/ /\ worker[w].at = "uploading" /\ worker'[w].at # "uploading"
       /\ late_puts' = late_puts + 1

\* A step of w whose operation is plain, and that leaves the bucket alone.
LEMMA PlainStep ==
  ASSUME EInv, BucketInv, NEW w \in Workers, StepOf(w),
         Sound(ledger, ledger'), Plain(ledger, ledger'),
         UNCHANGED <<credentials, bucket, named>>, sent_again => sent_again', PutsAdd(w),
         IsRemote(ledger') =>
           /\ worker'[w].at \in {"upload", "uploading", "uploaded"} => Sending(ledger')
           /\ worker'[w].at \in {"cleanup", "cleaned", "delete", "deleted"} => ledger.tos_object
           /\ worker'[w].at \in {"cleaned", "deleted"} => ~named
           /\ worker'[w].at = "uploading" => sent_again' \/ (~bucket /\ late_puts = 0)
  PROVE  BucketInv'
<1>1. ledger \in Ledger
  BY GoodLedger
<1>2. UploadingIsOpen(ledger')
  BY DEF BucketInv, Plain
<1>3. ASSUME IsRemote(ledger')
      PROVE  BucketIsKnown'
  <2>1. BucketIsKnown
    BY <1>3 DEF BucketInv, Plain
  <2>2. Sending(ledger) => Sending(ledger')
    BY <1>1, <1>3, PlainKeepsSending
  <2>3. /\ ledger'.tos_object = ledger.tos_object
        /\ ledger'.temporary_tos_deleted => ledger.temporary_tos_deleted
    BY DEF Plain
  <2>4. \A v \in Workers \ {w} : worker[v].at = "uploading" => worker[w].at # "uploading"
    BY DEF EInv, MarkerIsHeld, MarkerPhases
  <2>5. TosWorkersKnow' /\ NamedIsOwed'
    BY <1>3, <2>1, <2>2, <2>3 DEF BucketIsKnown, TosWorkersKnow, NamedIsOwed, StepOf
  <2>6. ASSUME ~sent_again'
        PROVE  ObjectIsOwed'
    <3>1. ObjectIsOwed /\ TosWorkersKnow
      BY <2>1, <2>6 DEF BucketIsKnown
    <3>2. late_puts' # 0 => Sending(ledger') /\ ~bucket' /\ late_puts' = 1
      BY <2>2, <3>1 DEF ObjectIsOwed, TosWorkersKnow, PutsAdd
    <3>3. \A v \in Workers : worker'[v].at = "uploading" => ~bucket' /\ late_puts' = 0
      BY <1>3, <2>4, <2>6, <3>1 DEF ObjectIsOwed, StepOf, PutsAdd
    <3> QED
      BY <2>2, <3>1, <3>2, <3>3 DEF ObjectIsOwed
  <2> QED
    BY <2>5, <2>6 DEF BucketIsKnown
<1> QED
  BY <1>2, <1>3 DEF BucketInv

\* A step that goes to a place where the object is of no concern.
Elsewhere ==
    Phases \ {"upload", "uploading", "uploaded", "cleanup", "cleaned", "delete", "deleted"}

LEMMA PlainGoto ==
  ASSUME EInv, BucketInv, NEW w \in Workers, NEW phase \in Elsewhere, Goto(w, phase),
         Sound(ledger, ledger'), Plain(ledger, ledger'),
         UNCHANGED <<credentials, bucket, named, sent_again>>,
         \/ late_puts' = late_puts
         \/ worker[w].at = "uploading" /\ late_puts' = late_puts + 1
  PROVE  BucketInv'
<1>1. worker'[w].at = phase /\ StepOf(w)
  BY GotoMoves DEF EInv, Elsewhere
<1> QED
  BY <1>1, PlainStep DEF Elsewhere, PutsAdd

LEMMA SamePlainSound ==
  ASSUME EInv
  PROVE  Sound(ledger, ledger) /\ Plain(ledger, ledger)
BY GoodLedger, SameIsSound DEF Plain, Sending

\* Store and Attempt, with a plain operation.
LEMMA AttemptPlain ==
  ASSUME EInv, NEW outcomes, Attempt(outcomes),
         \A m \in outcomes : Sound(ledger, m) /\ Plain(ledger, m)
  PROVE  Sound(ledger, ledger') /\ Plain(ledger, ledger')
BY SamePlainSound DEF Attempt

LEMMA TurnOwes ==
  ASSUME EInv, BucketInv, NEW w \in Workers, Turn(w)
  PROVE  BucketInv'
<1> DEFINE next == NextEffect(ledger)
<1>1. Sound(ledger, ledger') /\ Plain(ledger, ledger')
  BY GoodLedger, ResumeSound, ResumePlain DEF Turn
<1>2. \/ Goto(w, "idle")
      \/ /\ StepOf(w)
         /\ worker'[w].at = next
  <2>1. worker \in [Workers -> Places]
    BY DEF EInv, TypeOK, Places
  <2> QED
    BY <2>1 DEF Turn, Stop, StepOf
<1>3. CASE Goto(w, "idle")
  BY <1>1, <1>3, PlainGoto DEF Turn, world, tos, Elsewhere, Phases
<1>4. CASE StepOf(w) /\ worker'[w].at = next
  <2>1. /\ next \notin {"uploading", "uploaded", "cleaned", "delete", "deleted"}
        /\ next = "upload" => ledger.state \in {"Queued", "Uploading"}
        /\ next = "cleanup" => ledger.state = "Publishing"
    BY DEF NextEffect, PublishingEffect
  <2>2. next = "upload" => Sending(ledger')
    <3>1. CASE ledger.state = "Queued"
      <4>1. ledger' = [ledger EXCEPT !.state = "Uploading"]
        BY <3>1 DEF Turn, Resume, Mutate, When
      <4> QED
        BY <3>1, <4>1, GoodLedger DEF Sending, Ordered, OrderedAt, Ledger
    <3>2. CASE ledger.state = "Uploading"
      BY <3>2 DEF Turn, Resume, Sending, BucketInv, UploadingIsOpen
    <3> QED
      BY <2>1, <3>1, <3>2
  <2>3. next = "cleanup" /\ IsRemote(ledger') => ledger.tos_object
    BY <1>1, <2>1, GoodLedger
       DEF Plain, Valid, EvidenceFitsState, DiscardStates
  <2> HIDE DEF next
  <2> QED
    BY <1>1, <1>4, <2>1, <2>2, <2>3, PlainStep DEF Turn, world, tos, PutsAdd
<1> QED
  BY <1>2, <1>3, <1>4

LEMMA ReceiptIsHeld ==
  ASSUME NEW l \in Ledger, NEW m \in CheckpointTosObject(l)
  PROVE  m.tos_object
<1> DEFINE n == [l EXCEPT !.tos_object = TRUE]
<1>1. \/ m = l /\ l.tos_object
      \/ \E s \in {"CanceledAfterUpload", "Transcribing"} : m \in Transition(l, n, s)
  BY DEF CheckpointTosObject, When
<1>2. n \in Ledger /\ n.tos_object
  BY DEF Ledger
<1> HIDE DEF n
<1> QED
  BY <1>1, <1>2, Moved DEF Frame, States, CanceledStates

\* The holder of the marker records the object that it found: nobody else is
\* uploading, and no PUT is on its way.
LEMMA ReceiptOwes ==
  ASSUME EInv, BucketInv, NEW w \in Workers, worker[w].at \in MarkerPhases, bucket,
         StepOf(w), worker'[w].at \in Elsewhere \cup {"delete"},
         Attempt(CheckpointFound), named' = (CheckpointFound # {}),
         worker'[w].at = "delete" => ledger'.tos_object,
         UNCHANGED <<credentials, bucket, late_puts, sent_again>>
  PROVE  BucketInv'
<1>1. /\ ledger'.transcription_backend = ledger.transcription_backend
      /\ ledger'.temporary_tos_deleted = ledger.temporary_tos_deleted
      /\ \/ ledger' = ledger
         \/ ledger'.tos_object /\ ledger'.state # "Uploading"
  <2> DEFINE n == [ledger EXCEPT !.tos_object = TRUE]
  <2>1. \/ ledger' = ledger
        \/ \E s \in {"CanceledAfterUpload", "Transcribing"} : ledger' \in Transition(ledger, n, s)
    BY DEF Attempt, CheckpointFound, CheckpointTosObject, When
  <2>2. /\ n \in Ledger /\ n.tos_object
        /\ n.transcription_backend = ledger.transcription_backend
        /\ n.temporary_tos_deleted = ledger.temporary_tos_deleted
    BY GoodLedger DEF Ledger
  <2> HIDE DEF n
  <2> QED
    BY <2>1, <2>2, GoodLedger, Moved DEF Frame, States, CanceledStates
<1>2. \A v \in Workers \ {w} : worker'[v].at \notin MarkerPhases
  BY DEF EInv, MarkerIsHeld, StepOf
<1>3. UploadingIsOpen(ledger')
  BY <1>1 DEF BucketInv, UploadingIsOpen
<1>4. ASSUME IsRemote(ledger')
      PROVE  BucketIsKnown'
  <2>1. BucketIsKnown
    BY <1>1, <1>4 DEF BucketInv, IsRemote
  <2>2. \/ CheckpointFound = {} /\ ~named' /\ ledger' = ledger /\ (named => ~ledger.tos_object)
        \/ named' /\ ledger'.tos_object /\ (Sending(ledger) \/ (ledger.tos_object /\ named))
    <3>1. CASE CheckpointFound = {}
      BY <3>1 DEF Attempt, CheckpointFound, CheckpointTosObject
    <3>2. CASE CheckpointFound # {}
      <4>1. named' /\ ledger' \in CheckpointTosObject(ledger)
        BY <3>2 DEF Attempt, CheckpointFound
      <4>2. Sending(ledger) \/ (ledger.tos_object /\ named)
        BY <3>2 DEF CheckpointFound, CheckpointTosObject, When, Sending
      <4> QED
        BY <4>1, <4>2, GoodLedger, ReceiptIsHeld
    <3> QED
      BY <3>1, <3>2
  <2>3. Valid(ledger)
    BY GoodLedger
  <2>4. Sending(ledger) => ~ledger.temporary_tos_deleted
    BY <2>3 DEF Sending, Valid, CleanupConsistent, KeepsArchiveHistory, DiscardStates,
                ReworkStates, PublishStates, CanceledStates
  <2>5. NamedIsOwed'
    BY <1>1, <2>1, <2>2, <2>4 DEF BucketIsKnown, NamedIsOwed
  <2>6. TosWorkersKnow'
    BY <1>1, <1>2, <2>1, <2>2
       DEF BucketIsKnown, TosWorkersKnow, StepOf, MarkerPhases, Elsewhere, Sending
  <2>7. ObjectIsOwed => ObjectIsOwed'
    BY <1>2, <2>1, <2>2
       DEF BucketIsKnown, NamedIsOwed, ObjectIsOwed, MarkerPhases, Elsewhere
  <2> QED
    BY <2>1, <2>5, <2>6, <2>7 DEF BucketIsKnown
<1> QED
  BY <1>3, <1>4 DEF BucketInv

LEMMA UploadStepOwes ==
  ASSUME EInv, BucketInv, NEW w \in Workers, UploadStep(w)
  PROVE  BucketInv'
<1> USE DEF At
<1>1. CASE UploadIsRejected(w)
  BY <1>1 DEF UploadIsRejected, BucketInv
<1>2. CASE UploadFindsObject(w) \/ UploadPuts(w)
  <2>1. /\ worker[w].at = "upload" /\ StepOf(w)
        /\ \/ UploadPuts(w) /\ worker'[w].at = "uploading"
           \/ UploadFindsObject(w) /\ worker'[w].at = "uploaded"
    BY <1>2, GotoMoves DEF UploadFindsObject, UploadPuts, EInv, Phases
  <2>2. IsRemote(ledger) => Sending(ledger)
    BY <2>1 DEF BucketInv, BucketIsKnown, TosWorkersKnow
  <2>3. worker'[w].at = "uploading" => sent_again' \/ (~bucket /\ late_puts = 0)
    <3>1. late_puts > 0 \/ late_puts = 0
      BY DEF EInv, TypeOK
    <3> QED
      BY <2>1, <3>1, ZenonT(40) DEF UploadPuts
  <2>4. UNCHANGED <<ledger, credentials, bucket, named, late_puts>>
    BY <2>1 DEF UploadFindsObject, UploadPuts, world, tos
  <2>5. sent_again => sent_again'
    BY <2>1, ZenonT(40) DEF UploadFindsObject, UploadPuts, world, tos
  <2>6. Sound(ledger, ledger') /\ Plain(ledger, ledger') /\ PutsAdd(w)
    BY <2>4, SamePlainSound DEF PutsAdd
  <2> QED
    BY <2>1, <2>2, <2>3, <2>4, <2>5, <2>6, PlainStep
<1>3. CASE PutArrives(w)
  <2>1. /\ worker'[w].at = "uploaded" /\ worker[w].at = "uploading" /\ StepOf(w)
        /\ UNCHANGED <<ledger, credentials, named, late_puts, sent_again>> /\ bucket' = TRUE
    BY <1>3, GotoMoves DEF PutArrives, EInv, Phases
  <2>2. \A v \in Workers \ {w} : worker'[v].at \notin MarkerPhases
    BY <2>1 DEF EInv, MarkerIsHeld, StepOf, MarkerPhases
  <2>3. ASSUME IsRemote(ledger)
        PROVE  BucketIsKnown'
    <3>1. BucketIsKnown /\ Sending(ledger) /\ (ObjectIsOwed => late_puts = 0)
      BY <2>1, <2>3 DEF BucketInv, BucketIsKnown, TosWorkersKnow, ObjectIsOwed
    <3>2. TosWorkersKnow' /\ NamedIsOwed'
      BY <2>1, <3>1 DEF BucketIsKnown, TosWorkersKnow, NamedIsOwed, StepOf
    <3>3. ObjectIsOwed => ObjectIsOwed'
      BY <2>1, <2>2, <3>1 DEF ObjectIsOwed, MarkerPhases
    <3> QED
      BY <2>1, <3>1, <3>2, <3>3 DEF BucketIsKnown
  <2> QED
    BY <2>1, <2>3 DEF BucketInv
<1>4. CASE UploadReturns(w)
  <2>1. \E phase \in Elsewhere : Goto(w, phase)
    BY <1>4 DEF UploadReturns, Elsewhere, Phases
  <2>2. worker'[w].at \in Elsewhere /\ StepOf(w)
    BY <2>1, GotoMoves DEF EInv, Elsewhere
  <2> QED
    BY <1>4, <2>2, ReceiptOwes DEF UploadReturns, MarkerPhases, Elsewhere
<1>5. CASE UploadIsLost(w)
  BY <1>5, SamePlainSound, PlainGoto DEF UploadIsLost, Stop, Elsewhere, Phases
<1> QED
  BY <1>1, <1>2, <1>3, <1>4, <1>5 DEF UploadStep

LEMMA ProviderStepOwes ==
  ASSUME EInv, BucketInv, NEW w \in Workers, ProviderStep(w) \/ ContentStep(w)
  PROVE  BucketInv'
<1>0. {"idle", "loop", "accepted"} \subseteq Elsewhere
  BY DEF Elsewhere, Phases
<1>1. CASE SubmitIsAccepted(w)
  BY <1>0, <1>1, SamePlainSound, PlainGoto DEF SubmitIsAccepted, tos
<1>2. CASE ~SubmitIsAccepted(w)
  <2>1. /\ \E phase \in {"idle", "loop"} : Goto(w, phase)
        /\ \/ ledger' = ledger
           \/ ledger' \in MarkSubmitRejected(ledger)
           \/ ledger' \in CheckpointMiaojiTask(ledger)
           \/ ledger' \in MarkSubmitAmbiguous(ledger)
           \/ ledger' \in CheckpointTranscript(ledger)
           \/ ledger' \in CheckpointLocalWhisperTranscript(ledger)
           \/ ledger' \in MarkLocalWhisperFailed(ledger)
           \/ ledger' \in CheckpointSummary(ledger)
           \/ ledger' \in AbortSummaryBeforeDispatch(ledger)
        /\ UNCHANGED world
    BY <1>2 DEF ProviderStep, SubmitIsRejected, SubmitReturns, SubmitIsLost, PollReturns,
       ContentStep, TranscribeReturns, TranscribeFails, SummarizeReturns,
       SummarizeIsRejected, Store, Attempt, Stop
  <2>2. Sound(ledger, ledger') /\ Plain(ledger, ledger')
    BY <2>1, GoodLedger, SamePlainSound, EffectPlain, EffectHarmless, MarkSubmitRejectedSound
       DEF Harmless
  <2> QED
    BY <1>0, <2>1, <2>2, PlainGoto DEF world, tos
<1> QED
  BY <1>1, <1>2

LEMMA CleanupCompletes ==
  ASSUME NEW l \in Ledger, NEW g, NEW m \in CheckpointCleanup(l, g)
  PROVE  /\ m.transcription_backend = l.transcription_backend
         /\ m.tos_object = l.tos_object
         /\ m.state = "Complete"
<1> DEFINE k == ScheduleRetention(l)
           n == [k EXCEPT !.temporary_tos_deleted = TRUE]
<1>1. /\ k \in Ledger
      /\ k.transcription_backend = l.transcription_backend
      /\ k.tos_object = l.tos_object
      /\ k.state = l.state
  BY DEF ScheduleRetention, Ledger
<1>2. \/ m = k /\ l.state = "Complete"
      \/ m \in Transition(l, n, "Complete")
  BY DEF CheckpointCleanup, Mutate, When
<1> HIDE DEF k
<1>3. /\ n \in Ledger
      /\ n.transcription_backend = l.transcription_backend
      /\ n.tos_object = l.tos_object
  BY <1>1 DEF Ledger
<1> HIDE DEF n
<1> QED
  BY <1>1, <1>2, <1>3, Moved DEF Frame, States

\* Who has deleted the object records that: nothing is left of it.
LEMMA RecordOwes ==
  ASSUME EInv, BucketInv, NEW w \in Workers, worker[w].at \in {"cleaned", "deleted"},
         StepOf(w), worker'[w].at \in Elsewhere,
         ledger'.transcription_backend = ledger.transcription_backend,
         ledger'.tos_object = ledger.tos_object,
         ledger'.state # "Uploading" \/ ledger' = ledger,
         UNCHANGED <<credentials, tos>>
  PROVE  BucketInv'
<1>1. UploadingIsOpen(ledger')
  BY DEF BucketInv, UploadingIsOpen
<1>2. ASSUME IsRemote(ledger')
      PROVE  BucketIsKnown'
  <2>1. BucketIsKnown
    BY <1>2 DEF BucketInv, IsRemote
  <2>2. ledger.tos_object /\ ~named
    BY <2>1 DEF BucketIsKnown, TosWorkersKnow
  <2>3. \A v \in Workers : worker[v].at \notin {"upload", "uploading", "uploaded"}
    BY <2>1, <2>2 DEF BucketIsKnown, TosWorkersKnow, Sending
  <2>4. TosWorkersKnow' /\ NamedIsOwed'
    BY <2>1, <2>2, <2>3
       DEF BucketIsKnown, TosWorkersKnow, NamedIsOwed, StepOf, Elsewhere, tos
  <2>5. ObjectIsOwed => ObjectIsOwed'
    BY <2>2, <2>3 DEF ObjectIsOwed, Sending, StepOf, Elsewhere, tos
  <2> QED
    BY <2>1, <2>4, <2>5 DEF BucketIsKnown, tos
<1> QED
  BY <1>1, <1>2 DEF BucketInv, tos

LEMMA PublishStepOwes ==
  ASSUME EInv, BucketInv, NEW w \in Workers, PublishStep(w)
  PROVE  BucketInv'
<1> USE DEF At
<1> DEFINE g == worker[w].generation
           t == worker[w].target
<1>0. {"idle", "loop", "publishing"} \subseteq Elsewhere
  BY DEF Elsewhere, Phases
<1>7. g \in Nat
  BY LedgerAssumption DEF EInv, TypeOK
<1>1. CASE Plan(w) \/ VerifyReturns(w)
  <2>1. /\ \E phase \in {"idle", "loop"} : Goto(w, phase)
        /\ \/ ledger' = ledger
           \/ ledger' \in PlanPublication(ledger)
           \/ ledger' \in CheckpointCanonicalBackup(ledger, g)
        /\ UNCHANGED world
    BY <1>1 DEF Plan, VerifyReturns, Store, Attempt
  <2>2. 1 \in Targets
    BY LedgerAssumption DEF Targets
  <2>3. Sound(ledger, ledger') /\ Plain(ledger, ledger')
    BY <1>7, <2>1, <2>2, GoodLedger, SamePlainSound, PublicationPlain, PublicationHarmless,
       BackupHarmless
       DEF Harmless
  <2> QED
    BY <1>0, <2>1, <2>3, PlainGoto DEF world, tos
<1>2. CASE StartTarget(w) \/ PublishReturns(w) \/ PublishFails(w)
  <2>1. /\ \E phase \in {"idle", "loop", "publishing"} : Goto(w, phase)
        /\ \/ ledger' = ledger
           \/ ledger' \in StartPublicationTarget(ledger, g, t)
           \/ ledger' \in CheckpointPublicationTarget(ledger, g, t)
           \/ ledger' \in MarkPublicationConflict(ledger)
           \/ \E ambiguous \in BOOLEAN :
                ledger' \in FailPublicationTarget(ledger, g, t, ambiguous)
        /\ UNCHANGED world
    BY <1>2 DEF StartTarget, PublishReturns, PublishFails, Store, Attempt, Stop
  <2>2. t \in Targets
    BY <1>2 DEF EInv, ReceiptsAreNamed, StartTarget, PublishReturns, PublishFails
  <2>3. Sound(ledger, ledger') /\ Plain(ledger, ledger')
    BY <1>7, <2>1, <2>2, GoodLedger, SamePlainSound, PublicationPlain, PublicationHarmless,
       CheckpointPublicationTargetSound
       DEF Harmless
  <2> QED
    BY <1>0, <2>1, <2>3, PlainGoto DEF world, tos
<1>3. CASE TargetIsPublished(w)
  BY <1>3, SamePlainSound, PlainStep
     DEF TargetIsPublished, StepOf, BucketInv, BucketIsKnown, TosWorkersKnow, tos, PutsAdd
<1>4. CASE CleanupDeletes(w)
  <2>1. /\ worker'[w].at = "cleaned" /\ worker[w].at = "cleanup" /\ StepOf(w)
        /\ UNCHANGED <<ledger, credentials, late_puts, sent_again>>
        /\ IF ledger.tos_object /\ ~ledger.temporary_tos_deleted
           THEN ~named' /\ bucket' = (bucket /\ ~named) ELSE UNCHANGED <<bucket, named>>
    BY <1>4, GotoMoves DEF CleanupDeletes, DeleteExact, tos, EInv, Phases
  <2>2. ASSUME IsRemote(ledger)
        PROVE  BucketIsKnown'
    <3>1. BucketIsKnown /\ ledger.tos_object /\ ~Sending(ledger)
      BY <2>1, <2>2 DEF BucketInv, BucketIsKnown, TosWorkersKnow, Sending
    <3>2. ~named' /\ (ObjectIsOwed => ~bucket')
      BY <2>1, <3>1 DEF BucketIsKnown, NamedIsOwed, ObjectIsOwed, EInv, TypeOK
    <3>3. TosWorkersKnow' /\ NamedIsOwed'
      BY <2>1, <3>1, <3>2 DEF BucketIsKnown, TosWorkersKnow, NamedIsOwed, StepOf
    <3>4. ObjectIsOwed => ObjectIsOwed'
      BY <2>1, <3>1, <3>2 DEF ObjectIsOwed, StepOf
    <3> QED
      BY <2>1, <3>1, <3>3, <3>4 DEF BucketIsKnown
  <2> QED
    BY <2>1, <2>2 DEF BucketInv
<1>5. CASE CleanupIsRecorded(w)
  <2>1. /\ worker'[w].at = "idle" /\ worker[w].at = "cleaned" /\ StepOf(w)
        /\ UNCHANGED <<credentials, tos>>
        /\ ledger' = ledger \/ ledger' \in CheckpointCleanup(ledger, g)
    BY <1>5, GotoMoves DEF CleanupIsRecorded, Store, Attempt, EInv, Phases, world
  <2>2. /\ ledger'.transcription_backend = ledger.transcription_backend
        /\ ledger'.tos_object = ledger.tos_object
        /\ ledger'.state = "Complete" \/ ledger' = ledger
    BY <2>1, GoodLedger, CleanupCompletes
  <2> QED
    BY <1>0, <2>1, <2>2, RecordOwes
<1> QED
  BY <1>1, <1>2, <1>3, <1>4, <1>5 DEF PublishStep

LEMMA CancelStepOwes ==
  ASSUME EInv, BucketInv, NEW w \in Workers, CancelStep(w)
  PROVE  BucketInv'
<1> USE DEF At
<1>0. {"idle", "finalize", "inner", "probe"} \subseteq Elsewhere
  BY DEF Elsewhere, Phases
<1>1. CASE CancelAndCleanup(w)
  <2>1. Sound(ledger, ledger') /\ Plain(ledger, ledger')
    BY <1>1, GoodLedger, CancelMovesSound, CommandPlain DEF CancelAndCleanup
  <2>2. CASE \E phase \in {"finalize", "inner"} : Goto(w, phase)
    BY <1>0, <1>1, <2>1, <2>2, PlainGoto DEF CancelAndCleanup, world, tos
  <2>3. CASE UNCHANGED worker
    <3>1. worker[w].at = "idle" /\ UNCHANGED world
      BY <1>1 DEF CancelAndCleanup
    <3> QED
      BY <2>1, <2>3, <3>1, PlainStep DEF StepOf, world, tos, PutsAdd
  <2> QED
    BY <1>1, <2>2, <2>3 DEF CancelAndCleanup
<1>2. CASE Finalize(w) \/ CanceledCleanupFails(w)
  BY <1>0, <1>2, SamePlainSound, PlainGoto
     DEF Finalize, CanceledCleanupFails, Stop, world, tos
<1>3. CASE LoadCanceled(w)
  <2>1. CASE \E phase \in {"idle", "probe"} : Goto(w, phase)
    BY <1>0, <1>3, <2>1, SamePlainSound, PlainGoto DEF LoadCanceled, world, tos
  <2>2. CASE Goto(w, "delete") /\ ledger.state # "CancelingUpload"
             /\ NeedsTosFinalization(ledger)
    <3>1. worker'[w].at = "delete" /\ StepOf(w)
      BY <2>2, GotoMoves DEF EInv, Phases
    <3>2. IsRemote(ledger) => ledger.tos_object
      BY <2>2, GoodLedger
         DEF NeedsTosFinalization, Valid, EvidenceFitsState, DiscardStates
    <3> QED
      BY <1>3, <3>1, <3>2, SamePlainSound, PlainStep
         DEF LoadCanceled, world, tos, PutsAdd
  <2> QED
    BY <1>3, <2>1, <2>2 DEF LoadCanceled, Stop
<1>4. CASE ProbeFindsObject(w)
  <2>1. \E phase \in {"idle", "delete"} :
           Goto(w, phase) /\ (phase = "delete" => CheckpointFound # {})
    BY <1>4 DEF ProbeFindsObject, Stop
  <2>2. /\ StepOf(w) /\ worker'[w].at \in {"idle", "delete"}
        /\ worker'[w].at = "delete" => CheckpointFound # {}
    BY <2>1, GotoMoves DEF EInv, Phases
  <2>3. worker'[w].at = "delete" => ledger'.tos_object
    BY <1>4, <2>2, GoodLedger, ReceiptIsHeld DEF ProbeFindsObject, Attempt, CheckpointFound
  <2> QED
    BY <1>0, <1>4, <2>2, <2>3, ReceiptOwes DEF ProbeFindsObject, MarkerPhases
<1>5. CASE ProbeFindsAbsence(w)
  <2>1. /\ worker'[w].at = "idle" /\ StepOf(w) /\ worker[w].at = "probe" /\ ~bucket
        /\ late_puts' = 0 /\ UNCHANGED <<credentials, bucket, named>>
    BY <1>5, GotoMoves DEF ProbeFindsAbsence, Stop, EInv, Phases
  <2>2. ledger' = ledger
        \/ ledger' \in Transition(ledger, ledger, "CanceledBeforeUpload")
    BY <1>5 DEF ProbeFindsAbsence, Attempt, CheckpointCanceledUploadAbsent, When
  <2>3. /\ ledger'.transcription_backend = ledger.transcription_backend
        /\ ledger'.tos_object = ledger.tos_object
        /\ ledger'.temporary_tos_deleted = ledger.temporary_tos_deleted
        /\ ledger' = ledger \/ ledger'.state = "CanceledBeforeUpload"
    BY <2>2, GoodLedger, Moved DEF Frame, States, CanceledStates
  <2>4. \A v \in Workers : worker'[v].at \notin {"upload", "uploading", "uploaded"}
    BY <2>1 DEF EInv, MarkerIsHeld, MarkerPhases, StepOf
  <2>5. UploadingIsOpen(ledger')
    BY <2>3 DEF BucketInv, UploadingIsOpen
  <2>6. ASSUME IsRemote(ledger')
        PROVE  BucketIsKnown'
    <3>1. BucketIsKnown
      BY <2>3, <2>6 DEF BucketInv, IsRemote
    <3>2. TosWorkersKnow' /\ NamedIsOwed'
      BY <2>1, <2>3, <2>4, <3>1 DEF BucketIsKnown, TosWorkersKnow, NamedIsOwed, StepOf
    <3> QED
      BY <2>1, <2>4, <3>2 DEF BucketIsKnown, ObjectIsOwed
  <2> QED
    BY <2>1, <2>5, <2>6 DEF BucketInv
<1>6. CASE DeleteCanceled(w)
  <2>1. /\ worker'[w].at = "deleted" /\ worker[w].at = "delete" /\ StepOf(w)
        /\ UNCHANGED <<ledger, credentials, late_puts, sent_again>>
        /\ ~named' /\ bucket' = (bucket /\ ~named)
    BY <1>6, GotoMoves DEF DeleteCanceled, DeleteExact, EInv, Phases
  <2>2. ASSUME IsRemote(ledger)
        PROVE  BucketIsKnown'
    <3>1. BucketIsKnown /\ ledger.tos_object /\ ~Sending(ledger)
      BY <2>1, <2>2 DEF BucketInv, BucketIsKnown, TosWorkersKnow, Sending
    <3>2. TosWorkersKnow' /\ NamedIsOwed'
      BY <2>1, <3>1 DEF BucketIsKnown, TosWorkersKnow, NamedIsOwed, StepOf
    <3>3. ObjectIsOwed => ObjectIsOwed'
      BY <2>1, <3>1 DEF ObjectIsOwed, StepOf
    <3> QED
      BY <2>1, <3>1, <3>2, <3>3 DEF BucketIsKnown
  <2> QED
    BY <2>1, <2>2 DEF BucketInv
<1>7. CASE DeletionIsRecorded(w)
  <2>1. /\ worker'[w].at = "idle" /\ worker[w].at = "deleted" /\ StepOf(w)
        /\ UNCHANGED <<credentials, tos>>
        /\ ledger' = ledger \/ ledger' \in CheckpointCanceledTosCleanup(ledger)
    BY <1>7, GotoMoves DEF DeletionIsRecorded, Stop, Attempt, EInv, Phases, world
  <2>2. /\ ledger'.transcription_backend = ledger.transcription_backend
        /\ ledger'.tos_object = ledger.tos_object
        /\ ledger'.state = ledger.state
        /\ ledger'.state = "CanceledAfterUpload" \/ ledger' = ledger
    BY <2>1, GoodLedger DEF CheckpointCanceledTosCleanup, When, Mutate, Ledger
  <2> QED
    BY <1>0, <2>1, <2>2, RecordOwes
<1> QED
  BY <1>1, <1>2, <1>3, <1>4, <1>5, <1>6, <1>7 DEF CancelStep

LEMMA DiscardStepOwes ==
  ASSUME EInv, BucketInv, NEW w \in Workers,
         DiscardStep(w) \/ EffectIsLost(w) \/ ResumePending(w)
  PROVE  BucketInv'
<1>0. {"idle", "discard", "discarded", "finalize", "loop"} \subseteq Elsewhere
  BY DEF Elsewhere, Phases
<1>1. /\ \E phase \in {"idle", "discard", "discarded", "finalize", "loop"} : Goto(w, phase)
      /\ \/ ledger' = ledger
         \/ ledger' \in BeginDiscard(ledger)
         \/ ledger' \in CheckpointDiscarded(ledger)
      /\ UNCHANGED <<credentials, tos>>
  BY DEF DiscardStep, BeginDiscardLocal, DiscardPackage, DiscardIsRecorded, EffectIsLost,
     ResumePending, Store, Attempt, Stop, world
<1>2. Sound(ledger, ledger') /\ Plain(ledger, ledger')
  BY <1>1, GoodLedger, SamePlainSound, DiscardMovesSound, CommandPlain
<1> QED
  BY <1>0, <1>1, <1>2, PlainGoto DEF tos

LEMMA CommandStepOwes ==
  ASSUME EInv, BucketInv, NEW w \in Workers, CommandStep(w)
  PROVE  BucketInv'
<1>1. /\ Goto(w, "loop")
      /\ UNCHANGED world
      /\ \/ ledger' = ledger
         \/ ledger' \in RetryOutcomes(ledger)
         \/ ledger' \in BeginReprocess(ledger)
         \/ ledger' \in BeginRemoteBackup(ledger)
         \/ ledger' \in SelectLocalWhisper(ledger)
         \/ ledger' \in AcceptLocalTranscriptOnly(ledger)
         \/ \E backend \in {"WhisperLocal", "QwenLocal"} :
              \/ ledger' \in SelectFullLocal(ledger, backend)
              \/ ledger' \in TakeOverWithFullLocal(ledger, backend)
  BY EngineAssumption
     DEF CommandStep, Process, Retry, Reprocess, BackUpToCloud, ProcessLocally, Command
<1>2. Sound(ledger, ledger') /\ Plain(ledger, ledger')
  BY <1>1, GoodLedger, SamePlainSound, CommandHarmless, CommandPlain DEF Harmless
<1>3. "loop" \in Elsewhere
  BY DEF Elsewhere, Phases
<1> QED
  BY <1>1, <1>2, <1>3, PlainGoto DEF world, tos

LEMMA WorldStepOwes ==
  ASSUME EInv, BucketInv, ~CredentialsRemovable, LatePutArrives \/ ChangeCredentials \/ Restart
  PROVE  BucketInv'
<1> USE DEF At
<1>1. CASE LatePutArrives
  <2>1. /\ UNCHANGED <<ledger, worker, credentials, named, sent_again>>
        /\ late_puts # 0 /\ late_puts' = late_puts - 1 /\ bucket' = TRUE
    BY <1>1 DEF LatePutArrives
  <2>2. ASSUME IsRemote(ledger)
        PROVE  BucketIsKnown'
    <3>1. BucketIsKnown /\ (ObjectIsOwed => Sending(ledger) /\ late_puts = 1)
      BY <2>1, <2>2 DEF BucketInv, BucketIsKnown, ObjectIsOwed
    <3>2. TosWorkersKnow' /\ NamedIsOwed'
      BY <2>1, <3>1 DEF BucketIsKnown, TosWorkersKnow, NamedIsOwed
    <3>3. ObjectIsOwed => ObjectIsOwed'
      BY <2>1, <3>1 DEF ObjectIsOwed
    <3> QED
      BY <2>1, <3>1, <3>2, <3>3 DEF BucketIsKnown
  <2> QED
    BY <2>1, <2>2 DEF BucketInv
<1>2. CASE ChangeCredentials
  BY <1>2 DEF ChangeCredentials
<1>3. CASE Restart
  <2>1. \A w \in Workers : worker'[w].at \in {"idle", "startup"}
    BY <1>3 DEF Restart, Idle
  <2>2. /\ UNCHANGED <<ledger, credentials, bucket, named, sent_again>>
        /\ \/ late_puts' = late_puts
           \/ late_puts' = late_puts + 1 /\ \E w \in Workers : worker[w].at = "uploading"
    BY <1>3 DEF Restart
  <2> QED
    BY <2>1, <2>2 DEF BucketInv, BucketIsKnown, TosWorkersKnow, NamedIsOwed, ObjectIsOwed
<1> QED
  BY <1>1, <1>2, <1>3

LEMMA InitOwes == Init => BucketInv
BY DEF Init, Enqueued, Idle, BucketInv, BucketIsKnown, UploadingIsOpen, TosWorkersKnow,
   NamedIsOwed, ObjectIsOwed

LEMMA NextOwes ==
  ASSUME EInv, BucketInv, ~CredentialsRemovable, [Next]_vars
  PROVE  BucketInv'
<1>1. CASE UNCHANGED vars
  BY <1>1
     DEF vars, world, tos, BucketInv, BucketIsKnown, UploadingIsOpen, TosWorkersKnow,
         NamedIsOwed, ObjectIsOwed
<1>2. ASSUME NEW w \in Workers, WorkerStep(w)
      PROVE  BucketInv'
  BY <1>2, TurnOwes, UploadStepOwes, ProviderStepOwes, PublishStepOwes, CancelStepOwes,
     DiscardStepOwes, CommandStepOwes
     DEF WorkerStep
<1> QED
  BY <1>1, <1>2, WorldStepOwes DEF Next

LEMMA OwedIsNotLeft ==
  ASSUME EInv, BucketInv, IsRemote(ledger)
  PROVE  NothingLeftInBucket
<1>1. /\ ledger \in Ledger /\ Ordered(ledger) /\ Valid(ledger) /\ BucketIsKnown
  BY GoodLedger DEF BucketInv
<1>2. ledger.temporary_tos_deleted => ~Sending(ledger)
  BY <1>1
     DEF Sending, Valid, CleanupConsistent, KeepsArchiveHistory, DiscardStates,
         ReworkStates, PublishStates, CanceledStates
<1>3. ledger.state = "Complete" => ledger.temporary_tos_deleted
  BY <1>1 DEF Valid, CleanupConsistent
<1>4. ledger.state \in {"CanceledBeforeUpload"} \cup DiscardStates
        => ~Sending(ledger) /\ (ledger.tos_object => ledger.temporary_tos_deleted)
  BY <1>1 DEF Sending, Ordered, OrderedAt, DiscardStates
<1>5. JobIsOver => ~Sending(ledger) /\ ~named
  BY <1>1, <1>2, <1>3, <1>4 DEF JobIsOver, BucketIsKnown, NamedIsOwed
<1> QED
  BY <1>1, <1>5 DEF NothingLeftInBucket, BucketIsKnown, ObjectIsOwed

\* Whatever was lost, canceled, retried or restarted on the way: a job that has
\* stayed with the remote provider leaves nothing in the bucket when it ends
\* (nothing that the ledger names, if one of its uploads was sent while an earlier
\* one was on its way).
THEOREM RemoteJobsLeaveNothing ==
  ASSUME ~CredentialsRemovable
  PROVE  Spec => [](IsRemote(ledger) => NothingLeftInBucket)
<1>1. EInv /\ BucketInv /\ [Next]_vars => BucketInv'
  BY NextOwes
<1>2. EInv /\ BucketInv => (IsRemote(ledger) => NothingLeftInBucket)
  BY OwedIsNotLeft
<1> QED
  BY <1>1, <1>2, InitOwes, EngineInvariant, PTL DEF Spec

\* Without a local backend to select, a job stays with the provider.
SameBackend(l, m) == m.transcription_backend = l.transcription_backend

LEMMA EffectKeepsBackend ==
  ASSUME NEW l \in Ledger, NEW m,
         \/ m \in MarkUploadRejected(l) \/ m \in CheckpointTosObject(l)
         \/ m \in MarkSubmitRejected(l)
         \/ m \in CheckpointMiaojiTask(l) \/ m \in MarkSubmitAmbiguous(l)
         \/ m \in CheckpointTranscript(l) \/ m \in CheckpointLocalWhisperTranscript(l)
         \/ m \in MarkLocalWhisperFailed(l) \/ m \in CheckpointSummary(l)
         \/ m \in AbortSummaryBeforeDispatch(l)
  PROVE  SameBackend(l, m)
BY ZenonT(40) DEF SameBackend, Ledger, When, Transition, Mutate, MarkUploadRejected,
       CheckpointTosObject, MarkSubmitRejected, CheckpointMiaojiTask, MarkSubmitAmbiguous,
       CheckpointTranscript, CheckpointLocalWhisperTranscript, MarkLocalWhisperFailed,
       CheckpointSummary, AbortSummaryBeforeDispatch

LEMMA PublicationKeepsBackend ==
  ASSUME NEW l \in Ledger, NEW g, NEW t, NEW m,
         \/ m \in PlanPublication(l) \/ m \in StartPublicationTarget(l, g, t)
         \/ m \in CheckpointPublicationTarget(l, g, t)
         \/ m \in MarkPublicationConflict(l)
         \/ \E ambiguous \in BOOLEAN : m \in FailPublicationTarget(l, g, t, ambiguous)
         \/ m \in CheckpointCanonicalBackup(l, g) \/ m \in CheckpointCleanup(l, g)
  PROVE  SameBackend(l, m)
<1> USE DEF SameBackend, Ledger, When, Transition, Mutate
<1>1. CASE m \in PlanPublication(l) \/ m \in MarkPublicationConflict(l)
  BY <1>1 DEF PlanPublication, NextGeneration, MarkPublicationConflict
<1>2. CASE m \in StartPublicationTarget(l, g, t) \/ m \in CheckpointPublicationTarget(l, g, t)
  BY <1>2 DEF StartPublicationTarget, CheckpointPublicationTarget
<1>3. CASE \E ambiguous \in BOOLEAN : m \in FailPublicationTarget(l, g, t, ambiguous)
  BY <1>3 DEF FailPublicationTarget
<1>4. CASE m \in CheckpointCanonicalBackup(l, g)
  BY <1>4 DEF CheckpointCanonicalBackup
<1>5. CASE m \in CheckpointCleanup(l, g)
  BY <1>5, CleanupCompletes
<1> QED
  BY <1>1, <1>2, <1>3, <1>4, <1>5

LEMMA CommandKeepsBackend ==
  ASSUME NEW l \in Ledger, NEW m,
         \/ m \in Cancel(l) \/ m \in BeginDiscard(l) \/ m \in CheckpointDiscarded(l)
         \/ m \in CheckpointCanceledUploadAbsent(l) \/ m \in CheckpointCanceledTosCleanup(l)
         \/ m \in RetryOutcomes(l) \/ m \in BeginReprocess(l) \/ m \in BeginRemoteBackup(l)
         \/ m \in Resume(l)
  PROVE  SameBackend(l, m)
<1> USE DEF SameBackend, Ledger, When, Transition, Mutate
<1>1. CASE m \in Cancel(l) \/ m \in BeginDiscard(l) \/ m \in CheckpointDiscarded(l)
  BY <1>1 DEF Cancel, BeginDiscard, CheckpointDiscarded
<1>2. CASE m \in CheckpointCanceledUploadAbsent(l) \/ m \in CheckpointCanceledTosCleanup(l)
  BY <1>2 DEF CheckpointCanceledUploadAbsent, CheckpointCanceledTosCleanup
<1>3. CASE m \in RetryOutcomes(l)
  <2>1. m \in RetryProvider(l) \/ m \in ResolveSummaryForRetry(l) => SameBackend(l, m)
    BY DEF RetryProvider, ResolveSummaryForRetry
  <2>2. m \in RetryPublication(l) => SameBackend(l, m)
    <3>1. SUFFICES ASSUME NEW t \in Targets,
                          m \in Transition(l, [l EXCEPT !.targets[t] = "Pending"], "Publishing")
                   PROVE  SameBackend(l, m)
      BY DEF RetryPublication, FirstUnverified
    <3> QED
      BY <3>1
  <2> QED
    BY <1>3, <2>1, <2>2 DEF RetryOutcomes
<1>4. CASE m \in BeginReprocess(l) \/ m \in BeginRemoteBackup(l)
  BY <1>4 DEF BeginReprocess, BeginRemoteBackup, NextGeneration
<1>5. CASE m \in Resume(l)
  <2>1. CASE l.state = "Publishing"
    <3>1. m \in ResumePublishing(l)
      BY <1>5, <2>1 DEF Resume
    <3>2. \/ m = l
          \/ \E t \in Targets : m \in Mutate([l EXCEPT !.targets[t] = "Ambiguous",
                                                     !.state = "PublishAmbiguous"])
      BY <3>1, ZenonT(40) DEF ResumePublishing, FirstUnverified
    <3> QED
      BY <3>2
  <2>2. CASE l.state # "Publishing"
    <3>1. \/ m = l
          \/ \E s : m \in Mutate([l EXCEPT !.state = s])
          \/ m \in Mutate([l EXCEPT !.miaoji = "requested", !.state = "Submitting"])
      BY <1>5, <2>2 DEF Resume
    <3> QED
      BY <3>1
  <2> QED
    BY <2>1, <2>2
<1> QED
  BY <1>1, <1>2, <1>3, <1>4, <1>5

LEMMA NextStaysRemote ==
  ASSUME EInv, LocalBackends = {}, [Next]_vars
  PROVE  SameBackend(ledger, ledger')
<1>1. ledger \in Ledger
  BY GoodLedger
<1>2. ASSUME NEW w \in Workers, WorkerStep(w)
      PROVE  SameBackend(ledger, ledger')
  <2>1. CASE Turn(w) \/ CommandStep(w) \/ CancelStep(w)
    <3>1. \/ ledger' = ledger
          \/ ledger' \in Resume(ledger) \/ ledger' \in RetryOutcomes(ledger)
          \/ ledger' \in BeginReprocess(ledger) \/ ledger' \in BeginRemoteBackup(ledger)
          \/ ledger' \in Cancel(ledger) \/ ledger' \in CheckpointTosObject(ledger)
          \/ ledger' \in CheckpointCanceledUploadAbsent(ledger)
          \/ ledger' \in CheckpointCanceledTosCleanup(ledger)
      BY <2>1
         DEF Turn, CommandStep, Process, Retry, Reprocess, BackUpToCloud, ProcessLocally,
             Command, CancelStep, CancelAndCleanup, Finalize, LoadCanceled,
             ProbeFindsObject, ProbeFindsAbsence, DeleteCanceled, DeletionIsRecorded,
             CanceledCleanupFails, CheckpointFound, Attempt
    <3> QED
      BY <1>1, <3>1, EffectKeepsBackend, CommandKeepsBackend DEF SameBackend
  <2>2. CASE UploadStep(w) \/ ProviderStep(w) \/ ContentStep(w)
    <3>1. \/ ledger' = ledger
          \/ ledger' \in MarkUploadRejected(ledger) \/ ledger' \in CheckpointTosObject(ledger)
          \/ ledger' \in MarkSubmitRejected(ledger) \/ ledger' \in CheckpointMiaojiTask(ledger)
          \/ ledger' \in MarkSubmitAmbiguous(ledger) \/ ledger' \in CheckpointTranscript(ledger)
          \/ ledger' \in CheckpointLocalWhisperTranscript(ledger)
          \/ ledger' \in MarkLocalWhisperFailed(ledger) \/ ledger' \in CheckpointSummary(ledger)
          \/ ledger' \in AbortSummaryBeforeDispatch(ledger)
      BY <2>2
         DEF UploadStep, UploadIsRejected, UploadFindsObject, UploadPuts, PutArrives,
             UploadReturns, UploadIsLost, CheckpointFound, ProviderStep, SubmitIsRejected, SubmitIsAccepted, SubmitReturns, SubmitIsLost,
             PollReturns, ContentStep, TranscribeReturns, TranscribeFails, SummarizeReturns,
             SummarizeIsRejected, Store, Attempt
    <3> QED
      BY <1>1, <3>1, EffectKeepsBackend DEF SameBackend
  <2>3. CASE PublishStep(w)
    <3> DEFINE g == worker[w].generation
               t == worker[w].target
    <3>1. \/ ledger' = ledger
          \/ ledger' \in PlanPublication(ledger)
          \/ ledger' \in StartPublicationTarget(ledger, g, t)
          \/ ledger' \in CheckpointPublicationTarget(ledger, g, t)
          \/ ledger' \in MarkPublicationConflict(ledger)
          \/ \E ambiguous \in BOOLEAN :
               ledger' \in FailPublicationTarget(ledger, g, t, ambiguous)
          \/ ledger' \in CheckpointCanonicalBackup(ledger, g)
          \/ ledger' \in CheckpointCleanup(ledger, g)
      BY <2>3
         DEF PublishStep, Plan, StartTarget, TargetIsPublished, PublishReturns,
             PublishFails, VerifyReturns, CleanupDeletes, CleanupIsRecorded, Store, Attempt
    <3> HIDE DEF g, t
    <3>2. CASE ledger' = ledger
      BY <3>2 DEF SameBackend
    <3>3. CASE ledger' # ledger
      BY <1>1, <3>1, <3>3, PublicationKeepsBackend
    <3> QED
      BY <3>2, <3>3
  <2>4. CASE DiscardStep(w) \/ EffectIsLost(w) \/ ResumePending(w)
    <3>1. \/ ledger' = ledger
          \/ ledger' \in BeginDiscard(ledger) \/ ledger' \in CheckpointDiscarded(ledger)
      BY <2>4
         DEF DiscardStep, BeginDiscardLocal, DiscardPackage, DiscardIsRecorded,
             EffectIsLost, ResumePending, Store, Attempt
    <3> QED
      BY <1>1, <3>1, CommandKeepsBackend DEF SameBackend
  <2> QED
    BY <1>2, <2>1, <2>2, <2>3, <2>4 DEF WorkerStep
<1>3. CASE LatePutArrives \/ ChangeCredentials \/ Restart \/ UNCHANGED vars
  BY <1>3 DEF LatePutArrives, ChangeCredentials, Restart, vars, SameBackend
<1> QED
  BY <1>2, <1>3 DEF Next

\* No temporary object outlives its job: when a job is complete, canceled with
\* its cleanup recorded, or discarded, the object that the ledger names is gone,
\* and the bucket is empty with no PUT on its way unless an upload was sent while
\* an earlier one was, for any number of tasks, in an app with remote jobs only
\* whose credentials stay in place.
THEOREM NothingIsLeft ==
  ASSUME ~CredentialsRemovable, LocalBackends = {}
  PROVE  Spec => []NothingLeftInBucket
<1>1. EInv /\ IsRemote(ledger) /\ [Next]_vars => IsRemote(ledger)'
  BY NextStaysRemote DEF SameBackend, IsRemote
<1>2. Init => IsRemote(ledger)
  BY DEF Init, Enqueued, IsRemote
<1> QED
  BY <1>1, <1>2, RemoteJobsLeaveNothing, EngineInvariant, PTL DEF Spec
=============================================================================
