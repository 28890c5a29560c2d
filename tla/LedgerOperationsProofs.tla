----------------------- MODULE LedgerOperationsProofs -----------------------
(* What every operation of LedgerOperations guarantees of the ledger it      *)
(* leaves, for every number of targets, every choice of retry modes and      *)
(* required targets, and every width of the generation.                      *)
EXTENDS LedgerOperations, TLAPS

(***************************************************************************)
(* What every persisted ledger satisfies beyond the validator: the facts   *)
(* that rest on the order in which operations were accepted.               *)
(***************************************************************************)

\* The states in which no provider task has been accepted yet.
BeforeAcceptance ==
    {"Queued", "Uploading", "Transcribing", "Submitting", "SubmitAmbiguous",
     "ProviderFailed", "CancelingUpload"}

\* What the ledger n must satisfy to be in state s.
OrderedAt(n, s) ==
    /\ s = "Complete" => RequiredVerified(n)
    /\ s \in BeforeAcceptance => n.miaoji # "accepted"
    /\ s \in {"Queued", "CanceledBeforeUpload"} => ~n.tos_object
    /\ s \in DiscardStates /\ n.tos_object => n.temporary_tos_deleted

Ordered(l) == OrderedAt(l, l.state)

\* The evidence of l is still in m.
Keeps(l, m) ==
    /\ l.tos_object => m.tos_object
    /\ l.transcript_json => m.transcript_json
    /\ l.miaoji = "accepted" => m.miaoji \in {"accepted", "superseded"}
    /\ l.miaoji = "superseded" => m.miaoji = "superseded"
    /\ m.generation >= l.generation
    /\ m.generation = l.generation =>
         \A t \in Targets : l.targets[t] = "Verified" => m.targets[t] = "Verified"

\* What an operation guarantees of the ledger m it leaves, started from l.
Sound(l, m) ==
    /\ m \in Ledger
    /\ Valid(m)
    /\ Ordered(m)
    /\ Keeps(l, m)
    /\ m.state # l.state => CanTransition(l.state, m.state)

LEMMA KeepsItself ==
  ASSUME NEW l \in Ledger
  PROVE  Keeps(l, l)
BY LedgerAssumption DEF Keeps, Ledger

LEMMA SameIsSound ==
  ASSUME NEW l \in Ledger, Valid(l), Ordered(l)
  PROVE  Sound(l, l)
BY KeepsItself DEF Sound

\* A new state changes no other field.
LEMMA OnlyTheState ==
  ASSUME NEW n \in Ledger, NEW s \in States, NEW m, m = [n EXCEPT !.state = s]
  PROVE  /\ m \in Ledger
         /\ m.state = s
         /\ m.miaoji = n.miaoji
         /\ m.tos_object = n.tos_object
         /\ m.transcript_json = n.transcript_json
         /\ m.generation = n.generation
         /\ m.targets = n.targets
         /\ m.temporary_tos_deleted = n.temporary_tos_deleted
BY DEF Ledger

LEMMA MutateSound ==
  ASSUME NEW l \in Ledger, NEW n \in Ledger, NEW m \in Mutate(n),
         Keeps(l, n), Ordered(n),
         n.state # l.state => CanTransition(l.state, n.state)
  PROVE  Sound(l, m)
<1>1. m = n /\ Valid(m)
  BY DEF Mutate, When
<1> QED
  BY <1>1 DEF Sound

LEMMA TransitionSound ==
  ASSUME NEW l \in Ledger, NEW n \in Ledger, NEW next \in States,
         NEW m \in Transition(l, n, next),
         Keeps(l, n), OrderedAt(n, next)
  PROVE  Sound(l, m)
<1>1. /\ m = [n EXCEPT !.state = next]
      /\ Valid(m)
      /\ CanTransition(l.state, next)
  BY DEF Transition, Mutate, When
<1>2. /\ m \in Ledger
      /\ m.state = next
      /\ m.miaoji = n.miaoji
      /\ m.tos_object = n.tos_object
      /\ m.transcript_json = n.transcript_json
      /\ m.generation = n.generation
      /\ m.targets = n.targets
      /\ m.temporary_tos_deleted = n.temporary_tos_deleted
  BY <1>1, OnlyTheState
<1>3. Ordered(m)
  BY <1>2 DEF Ordered, OrderedAt, RequiredVerified
<1>4. Keeps(l, m)
  BY <1>2 DEF Keeps
<1> QED
  BY <1>1, <1>2, <1>3, <1>4 DEF Sound

------------------------
(* Choosing a local backend. *)

LEMMA WithMiaoji ==
  ASSUME NEW k \in Ledger, NEW v \in {"none", "requested", "accepted", "superseded"}
  PROVE  LET n == [k EXCEPT !.miaoji = v]
         IN  /\ n \in Ledger
             /\ n.miaoji = v
             /\ n.tos_object = k.tos_object
             /\ n.transcript_json = k.transcript_json
             /\ n.generation = k.generation
             /\ n.targets = k.targets
BY DEF Ledger

LEMMA SelectedIsLedger ==
  ASSUME NEW l \in Ledger, NEW backend \in {"WhisperLocal", "QwenLocal"},
         NEW diarized \in BOOLEAN
  PROVE  LET k == Selected(l, backend, diarized)
         IN  /\ k \in Ledger
             /\ k.tos_object = l.tos_object
             /\ k.transcript_json = l.transcript_json
             /\ k.generation = l.generation
             /\ k.targets = l.targets
<1>1. Selected(l, backend, diarized) \in Ledger
  BY ZenonT(40) DEF Selected, Ledger
<1> QED
  BY <1>1 DEF Selected, Ledger

\* A selection keeps every receipt except the request that never became a task.
LEMMA SelectedKeeps ==
  ASSUME NEW l \in Ledger, NEW k \in Ledger, NEW v \in {"none", "superseded"},
         k.tos_object = l.tos_object,
         k.transcript_json = l.transcript_json,
         k.generation = l.generation,
         k.targets = l.targets,
         l.miaoji \in {"accepted", "superseded"} => v = "superseded"
  PROVE  LET n == [k EXCEPT !.miaoji = v]
         IN  n \in Ledger /\ n.miaoji = v /\ Keeps(l, n)
<1> DEFINE n == [k EXCEPT !.miaoji = v]
<1>0. v \in {"none", "requested", "accepted", "superseded"}
  OBVIOUS
<1>1. /\ n \in Ledger
      /\ n.miaoji = v
      /\ n.tos_object = k.tos_object
      /\ n.transcript_json = k.transcript_json
      /\ n.generation = k.generation
      /\ n.targets = k.targets
  BY <1>0, WithMiaoji
<1> HIDE DEF n
<1>2. Keeps(l, n)
  BY <1>1, LedgerAssumption DEF Keeps, Ledger
<1> QED
  BY <1>1, <1>2 DEF n

LEMMA SelectLocalWhisperSound ==
  ASSUME NEW l \in Ledger, Valid(l), Ordered(l), NEW m \in SelectLocalWhisper(l)
  PROVE  Sound(l, m)
<1> DEFINE k == Selected(l, "WhisperLocal", FALSE)
           n == [k EXCEPT !.miaoji = "none"]
<1>1. CASE m = l
  BY <1>1, SameIsSound
<1>2. CASE ~MayOweRemoteTask(l) /\ m \in Transition(l, n, "LocalTranscribing")
  <2>1. /\ k \in Ledger
        /\ k.tos_object = l.tos_object
        /\ k.transcript_json = l.transcript_json
        /\ k.generation = l.generation
        /\ k.targets = l.targets
    BY SelectedIsLedger
  <2> HIDE DEF k
  <2>2. n \in Ledger /\ n.miaoji = "none" /\ Keeps(l, n)
    BY <1>2, <2>1, SelectedKeeps DEF MayOweRemoteTask
  <2> HIDE DEF n
  <2> QED
    BY <1>2, <2>2, TransitionSound
       DEF OrderedAt, States, BeforeAcceptance, DiscardStates
<1> QED
  BY <1>1, <1>2 DEF SelectLocalWhisper, When

LEMMA SelectFullLocalSound ==
  ASSUME NEW l \in Ledger, Valid(l), Ordered(l),
         NEW backend \in {"WhisperLocal", "QwenLocal"},
         NEW m \in SelectFullLocal(l, backend)
  PROVE  Sound(l, m)
<1> DEFINE k == Selected(l, backend, TRUE)
           n == [k EXCEPT !.miaoji = "none"]
<1>1. CASE m = l
  BY <1>1, SameIsSound
<1>2. CASE ~MayOweRemoteTask(l) /\ m \in Transition(l, n, "LocalTranscribing")
  <2>1. /\ k \in Ledger
        /\ k.tos_object = l.tos_object
        /\ k.transcript_json = l.transcript_json
        /\ k.generation = l.generation
        /\ k.targets = l.targets
    BY SelectedIsLedger
  <2> HIDE DEF k
  <2>2. n \in Ledger /\ n.miaoji = "none" /\ Keeps(l, n)
    BY <1>2, <2>1, SelectedKeeps DEF MayOweRemoteTask
  <2> HIDE DEF n
  <2> QED
    BY <1>2, <2>2, TransitionSound
       DEF OrderedAt, States, BeforeAcceptance, DiscardStates
<1> QED
  BY <1>1, <1>2 DEF SelectFullLocal, When

LEMMA TakeOverWithFullLocalSound ==
  ASSUME NEW l \in Ledger, Valid(l), Ordered(l),
         NEW backend \in {"WhisperLocal", "QwenLocal"},
         NEW m \in TakeOverWithFullLocal(l, backend)
  PROVE  Sound(l, m)
<1> DEFINE k == Selected(l, backend, TRUE)
           n == [k EXCEPT !.miaoji = "superseded"]
<1>1. CASE m = l
  BY <1>1, SameIsSound
<1>2. CASE m \in Transition(l, n, "LocalTranscribing")
  <2>1. /\ k \in Ledger
        /\ k.tos_object = l.tos_object
        /\ k.transcript_json = l.transcript_json
        /\ k.generation = l.generation
        /\ k.targets = l.targets
    BY SelectedIsLedger
  <2> HIDE DEF k
  <2>2. n \in Ledger /\ n.miaoji = "superseded" /\ Keeps(l, n)
    BY <1>2, <2>1, SelectedKeeps
  <2> HIDE DEF n
  <2> QED
    BY <1>2, <2>2, TransitionSound
       DEF OrderedAt, States, BeforeAcceptance, DiscardStates
<1> QED
  BY <1>1, <1>2 DEF TakeOverWithFullLocal, When

LEMMA AcceptLocalTranscriptOnlySound ==
  ASSUME NEW l \in Ledger, Valid(l), Ordered(l), NEW m \in AcceptLocalTranscriptOnly(l)
  PROVE  Sound(l, m)
<1> DEFINE n == [l EXCEPT !.local_diarization = FALSE, !.transcript_only_accepted = TRUE]
<1>1. n \in Ledger
  BY DEF Ledger
<1>2. Keeps(l, n)
  BY LedgerAssumption DEF Ledger, Keeps
<1> HIDE DEF n
<1>3. m \in Transition(l, n, "LocalTranscribing")
  BY DEF AcceptLocalTranscriptOnly, When, n
<1> QED
  BY <1>1, <1>2, <1>3, TransitionSound
     DEF OrderedAt, States, BeforeAcceptance, DiscardStates

LEMMA CheckpointLocalWhisperTranscriptSound ==
  ASSUME NEW l \in Ledger, Valid(l), Ordered(l),
         NEW m \in CheckpointLocalWhisperTranscript(l)
  PROVE  Sound(l, m)
<1> DEFINE n == [l EXCEPT !.transcript_json = TRUE]
<1>1. n \in Ledger
  BY DEF Ledger
<1>2. Keeps(l, n)
  BY LedgerAssumption DEF Ledger, Keeps
<1> HIDE DEF n
<1>3. m = l \/ m \in Transition(l, n, "Summarizing")
  BY DEF CheckpointLocalWhisperTranscript, When, n
<1> QED
  BY <1>1, <1>2, <1>3, SameIsSound, TransitionSound
     DEF OrderedAt, States, ReworkStates, BeforeAcceptance, DiscardStates

LEMMA MarkLocalWhisperFailedSound ==
  ASSUME NEW l \in Ledger, Valid(l), Ordered(l), NEW m \in MarkLocalWhisperFailed(l)
  PROVE  Sound(l, m)
<1>1. CASE m = l
  BY <1>1, SameIsSound
<1>2. CASE IsLocalWorker(l) /\ m \in Transition(l, l, "ProviderFailed")
  <2>1. l.miaoji # "accepted"
    BY <1>2 DEF Valid, BackendConsistent, IsRemote, IsLocalWorker
  <2> QED
    BY <1>2, <2>1, KeepsItself, TransitionSound
       DEF OrderedAt, States, DiscardStates
<1> QED
  BY <1>1, <1>2 DEF MarkLocalWhisperFailed, When

------------------------
(* MOSS. *)

MossStages == {"none", "preparing", "ready", "finalized"}

LEMMA MossSelectedIsLedger ==
  ASSUME NEW l \in Ledger, NEW moss \in MossStages
  PROVE  LET k == [MossSelected(l) EXCEPT !.local_moss = moss]
         IN  /\ k \in Ledger
             /\ k.miaoji = l.miaoji
             /\ k.tos_object = l.tos_object
             /\ k.transcript_json = l.transcript_json
             /\ k.generation = l.generation
             /\ k.targets = l.targets
<1> DEFINE k == MossSelected(l)
<1>1. k \in Ledger
  BY DEF MossSelected, Ledger
<1>2. /\ k.miaoji = l.miaoji
      /\ k.tos_object = l.tos_object
      /\ k.transcript_json = l.transcript_json
      /\ k.generation = l.generation
      /\ k.targets = l.targets
  BY DEF MossSelected, Ledger
<1> HIDE DEF k
<1>3. [k EXCEPT !.local_moss = moss] \in Ledger
  BY <1>1 DEF Ledger, MossStages
<1>4. LET n == [k EXCEPT !.local_moss = moss]
      IN  /\ n.miaoji = k.miaoji
          /\ n.tos_object = k.tos_object
          /\ n.transcript_json = k.transcript_json
          /\ n.generation = k.generation
          /\ n.targets = k.targets
  BY <1>1 DEF Ledger
<1> QED
  BY <1>2, <1>3, <1>4 DEF k

LEMMA BeginMossPreparationSound ==
  ASSUME NEW l \in Ledger, Valid(l), Ordered(l), NEW m \in BeginMossPreparation(l)
  PROVE  Sound(l, m)
<1> DEFINE n == [MossSelected(l) EXCEPT !.local_moss = "preparing"]
<1>1. /\ n \in Ledger
      /\ n.miaoji = l.miaoji
      /\ n.tos_object = l.tos_object
      /\ n.transcript_json = l.transcript_json
      /\ n.generation = l.generation
      /\ n.targets = l.targets
  BY MossSelectedIsLedger DEF MossStages
<1> HIDE DEF n
<1>2. Keeps(l, n)
  BY <1>1, LedgerAssumption DEF Keeps, Ledger
<1>3. m \in Transition(l, n, "PreparingLocalMoss")
  BY DEF BeginMossPreparation, When, n
<1> QED
  BY <1>1, <1>2, <1>3, TransitionSound
     DEF OrderedAt, States, BeforeAcceptance, DiscardStates

LEMMA CompleteMossPreparationSound ==
  ASSUME NEW l \in Ledger, Valid(l), Ordered(l), NEW m \in CompleteMossPreparation(l)
  PROVE  Sound(l, m)
<1> DEFINE n == [l EXCEPT !.local_moss = "ready"]
<1>1. n \in Ledger
  BY DEF Ledger
<1>2. Keeps(l, n)
  BY LedgerAssumption DEF Ledger, Keeps
<1> HIDE DEF n
<1>3. m \in Transition(l, n, "LocalTranscribing")
  BY DEF CompleteMossPreparation, When, n
<1> QED
  BY <1>1, <1>2, <1>3, TransitionSound
     DEF OrderedAt, States, BeforeAcceptance, DiscardStates

LEMMA MossOwesNothing ==
  ASSUME NEW l \in Ledger, Valid(l),
         l.transcription_backend = "MossLocal" \/ l.local_moss # "none"
  PROVE  l.miaoji # "accepted"
BY DEF Valid, BackendConsistent, IsRemote

\* The four operations that only move a MOSS job between running and failed.
LEMMA MossMovesSound ==
  ASSUME NEW l \in Ledger, Valid(l), Ordered(l),
         NEW m \in FailMossPreparation(l) \cup RetryMossPreparation(l)
                     \cup MarkMossEffectFailed(l) \cup RetryLocalMoss(l)
  PROVE  Sound(l, m)
<1>1. l.miaoji # "accepted"
  BY MossOwesNothing
     DEF FailMossPreparation, RetryMossPreparation, MarkMossEffectFailed,
         RetryLocalMoss, MossActive, When
<1>2. PICK s \in {"ProviderFailed", "PreparingLocalMoss", "LocalTranscribing"} :
        m \in Transition(l, l, s)
  BY DEF FailMossPreparation, RetryMossPreparation, MarkMossEffectFailed,
         RetryLocalMoss, When
<1>3. s \in States /\ OrderedAt(l, s)
  BY <1>1 DEF OrderedAt, States, BeforeAcceptance, DiscardStates
<1> QED
  BY <1>2, <1>3, KeepsItself, TransitionSound

LEMMA SelectFullLocalMossSound ==
  ASSUME NEW l \in Ledger, Valid(l), Ordered(l), NEW m \in SelectFullLocalMoss(l)
  PROVE  Sound(l, m)
<1> DEFINE k == [MossSelected(l) EXCEPT !.local_moss = "ready"]
           n == [k EXCEPT !.miaoji = "none"]
<1>1. CASE m = l
  BY <1>1, SameIsSound
<1>2. CASE /\ ~MayOweRemoteTask(l)
           /\ m \in Transition(l, [MossSelected(l) EXCEPT !.local_moss = "ready",
                                                          !.miaoji = "none"],
                               "LocalTranscribing")
  <2>1. /\ k \in Ledger
        /\ k.tos_object = l.tos_object
        /\ k.transcript_json = l.transcript_json
        /\ k.generation = l.generation
        /\ k.targets = l.targets
    BY MossSelectedIsLedger DEF MossStages
  <2>2. n = [MossSelected(l) EXCEPT !.local_moss = "ready", !.miaoji = "none"]
    OBVIOUS
  <2> HIDE DEF k
  <2>3. n \in Ledger /\ n.miaoji = "none" /\ Keeps(l, n)
    BY <1>2, <2>1, SelectedKeeps DEF MayOweRemoteTask
  <2> HIDE DEF n
  <2> QED
    BY <1>2, <2>2, <2>3, TransitionSound
       DEF OrderedAt, States, BeforeAcceptance, DiscardStates
<1> QED
  BY <1>1, <1>2 DEF SelectFullLocalMoss, When

LEMMA TakeOverWithFullLocalMossSound ==
  ASSUME NEW l \in Ledger, Valid(l), Ordered(l), NEW m \in TakeOverWithFullLocalMoss(l)
  PROVE  Sound(l, m)
<1> DEFINE k == [MossSelected(l) EXCEPT !.local_moss = "ready"]
           n == [k EXCEPT !.miaoji = "superseded"]
<1>1. CASE m = l
  BY <1>1, SameIsSound
<1>2. CASE m \in Transition(l, [MossSelected(l) EXCEPT !.local_moss = "ready",
                                                       !.miaoji = "superseded"],
                            "LocalTranscribing")
  <2>1. /\ k \in Ledger
        /\ k.tos_object = l.tos_object
        /\ k.transcript_json = l.transcript_json
        /\ k.generation = l.generation
        /\ k.targets = l.targets
    BY MossSelectedIsLedger DEF MossStages
  <2>2. n = [MossSelected(l) EXCEPT !.local_moss = "ready", !.miaoji = "superseded"]
    OBVIOUS
  <2> HIDE DEF k
  <2>3. n \in Ledger /\ n.miaoji = "superseded" /\ Keeps(l, n)
    BY <2>1, SelectedKeeps
  <2> HIDE DEF n
  <2> QED
    BY <1>2, <2>2, <2>3, TransitionSound
       DEF OrderedAt, States, BeforeAcceptance, DiscardStates
<1> QED
  BY <1>1, <1>2 DEF TakeOverWithFullLocalMoss, When

LEMMA FinalizeMossTranscriptSound ==
  ASSUME NEW l \in Ledger, Valid(l), Ordered(l), NEW m \in FinalizeMossTranscript(l)
  PROVE  Sound(l, m)
<1> DEFINE n == [l EXCEPT !.transcript_json = TRUE, !.local_moss = "finalized"]
<1>1. n \in Ledger
  BY DEF Ledger
<1>2. Keeps(l, n)
  BY LedgerAssumption DEF Ledger, Keeps
<1> HIDE DEF n
<1>3. m \in Transition(l, n, "Summarizing")
  BY DEF FinalizeMossTranscript, When, n
<1> QED
  BY <1>1, <1>2, <1>3, TransitionSound
     DEF OrderedAt, States, ReworkStates, BeforeAcceptance, DiscardStates

LEMMA RecoverMossLocalSummarySound ==
  ASSUME NEW l \in Ledger, Valid(l), Ordered(l), NEW m \in RecoverMossLocalSummary(l)
  PROVE  Sound(l, m)
<1>1. m = l \/ m \in Transition(l, l, "Summarizing")
  BY DEF RecoverMossLocalSummary, When
<1> QED
  BY <1>1, SameIsSound, KeepsItself, TransitionSound
     DEF OrderedAt, States, ReworkStates, BeforeAcceptance, DiscardStates

------------------------
(* The remote path. *)

LEMMA IntoUploading ==
  ASSUME NEW s \in States, CanTransition(s, "Uploading")
  PROVE  s \in {"Queued", "ProviderFailed"}
BY DEF CanTransition, Successors, States, ReworkStates, PublishStates,
       CanceledStates, DiscardStates

LEMMA IntoSubmitAmbiguous ==
  ASSUME NEW s \in States, CanTransition(s, "SubmitAmbiguous")
  PROVE  s = "Submitting"
BY DEF CanTransition, Successors, States, ReworkStates, PublishStates,
       CanceledStates, DiscardStates

LEMMA BeginUploadSound ==
  ASSUME NEW l \in Ledger, Valid(l), Ordered(l), NEW m \in BeginUpload(l)
  PROVE  Sound(l, m)
<1>1. CASE m = l
  BY <1>1, SameIsSound
<1>2. CASE m \in Transition(l, l, "Uploading")
  <2>1. CanTransition(l.state, "Uploading") /\ l.state \in States
    BY <1>2 DEF Transition, When, Ledger
  <2>2. l.miaoji # "accepted"
    BY <2>1, IntoUploading DEF Ordered, OrderedAt, BeforeAcceptance
  <2> QED
    BY <1>2, <2>2, KeepsItself, TransitionSound DEF OrderedAt, States, DiscardStates
<1> QED
  BY <1>1, <1>2 DEF BeginUpload

LEMMA CheckpointTosObjectSound ==
  ASSUME NEW l \in Ledger, Valid(l), Ordered(l), NEW m \in CheckpointTosObject(l)
  PROVE  Sound(l, m)
<1> DEFINE n == [l EXCEPT !.tos_object = TRUE]
<1>1. n \in Ledger
  BY DEF Ledger
<1>2. n.miaoji = l.miaoji
  BY DEF Ledger
<1>3. Keeps(l, n)
  BY LedgerAssumption DEF Ledger, Keeps
<1> HIDE DEF n
<1> QED
  BY <1>1, <1>2, <1>3, SameIsSound, TransitionSound
     DEF CheckpointTosObject, When, States, CanceledStates, Ordered, OrderedAt,
         BeforeAcceptance, DiscardStates, n

LEMMA MarkUploadRejectedSound ==
  ASSUME NEW l \in Ledger, Valid(l), Ordered(l), NEW m \in MarkUploadRejected(l)
  PROVE  Sound(l, m)
BY SameIsSound, KeepsItself, TransitionSound
   DEF MarkUploadRejected, When, States, CanceledStates, Ordered, OrderedAt,
       BeforeAcceptance, DiscardStates

\* A job with a remote state is remote, and so has no superseded task.
LEMMA RemoteHasNoSupersededTask ==
  ASSUME NEW l \in Ledger, Valid(l), l.state \in {"Transcribing", "SubmitAmbiguous"}
  PROVE  l.miaoji # "superseded"
BY DEF Valid, BackendConsistent, StateFitsBackend, IsRemote

LEMMA BeginMiaojiSubmitSound ==
  ASSUME NEW l \in Ledger, Valid(l), Ordered(l), NEW m \in BeginMiaojiSubmit(l)
  PROVE  Sound(l, m)
<1> DEFINE n == [l EXCEPT !.miaoji = "requested"]
<1>1. CASE m = l
  BY <1>1, SameIsSound
<1>2. CASE l.state = "Transcribing" /\ m \in Transition(l, n, "Submitting")
  <2>1. l.miaoji \notin {"accepted", "superseded"}
    BY <1>2, RemoteHasNoSupersededTask DEF Ordered, OrderedAt, BeforeAcceptance
  <2>2. /\ n \in Ledger
        /\ n.miaoji = "requested"
        /\ n.tos_object = l.tos_object
        /\ n.transcript_json = l.transcript_json
        /\ n.generation = l.generation
        /\ n.targets = l.targets
    BY WithMiaoji
  <2> HIDE DEF n
  <2>3. Keeps(l, n)
    BY <2>1, <2>2, LedgerAssumption DEF Keeps, Ledger
  <2> QED
    BY <1>2, <2>2, <2>3, TransitionSound DEF OrderedAt, States, DiscardStates
<1> QED
  BY <1>1, <1>2 DEF BeginMiaojiSubmit, When

LEMMA CheckpointMiaojiTaskSound ==
  ASSUME NEW l \in Ledger, Valid(l), Ordered(l), NEW m \in CheckpointMiaojiTask(l)
  PROVE  Sound(l, m)
<1> DEFINE n == [l EXCEPT !.miaoji = "accepted"]
<1>1. CASE m = l
  BY <1>1, SameIsSound
<1>2. CASE l.miaoji = "requested" /\ m \in Transition(l, n, "Polling")
  <2>1. /\ n \in Ledger
        /\ n.miaoji = "accepted"
        /\ n.tos_object = l.tos_object
        /\ n.transcript_json = l.transcript_json
        /\ n.generation = l.generation
        /\ n.targets = l.targets
    BY WithMiaoji
  <2> HIDE DEF n
  <2>2. Keeps(l, n)
    BY <1>2, <2>1, LedgerAssumption DEF Keeps, Ledger
  <2> QED
    BY <1>2, <2>1, <2>2, TransitionSound
       DEF OrderedAt, States, BeforeAcceptance, DiscardStates
<1> QED
  BY <1>1, <1>2 DEF CheckpointMiaojiTask, When

LEMMA MarkSubmitAmbiguousSound ==
  ASSUME NEW l \in Ledger, Valid(l), Ordered(l), NEW m \in MarkSubmitAmbiguous(l)
  PROVE  Sound(l, m)
<1>1. CASE m = l
  BY <1>1, SameIsSound
<1>2. CASE m \in Transition(l, l, "SubmitAmbiguous")
  <2>1. CanTransition(l.state, "SubmitAmbiguous") /\ l.state \in States
    BY <1>2 DEF Transition, When, Ledger
  <2>2. l.miaoji # "accepted"
    BY <2>1, IntoSubmitAmbiguous DEF Ordered, OrderedAt, BeforeAcceptance
  <2> QED
    BY <1>2, <2>2, KeepsItself, TransitionSound DEF OrderedAt, States, DiscardStates
<1> QED
  BY <1>1, <1>2 DEF MarkSubmitAmbiguous

LEMMA MarkSubmitRejectedSound ==
  ASSUME NEW l \in Ledger, Valid(l), Ordered(l), NEW m \in MarkSubmitRejected(l)
  PROVE  Sound(l, m)
BY SameIsSound, KeepsItself, TransitionSound
   DEF MarkSubmitRejected, When, States, Ordered, OrderedAt, BeforeAcceptance,
       DiscardStates

\* Dropping a request that never became a task: retry_provider and
\* resolve_submit_for_retry.
LEMMA ForgottenRequestSound ==
  ASSUME NEW l \in Ledger, l.miaoji \notin {"accepted", "superseded"},
         NEW m \in Transition(l, [l EXCEPT !.miaoji = "none"], "Transcribing")
  PROVE  Sound(l, m)
<1> DEFINE n == [l EXCEPT !.miaoji = "none"]
<1>1. /\ n \in Ledger
      /\ n.miaoji = "none"
      /\ n.tos_object = l.tos_object
      /\ n.transcript_json = l.transcript_json
      /\ n.generation = l.generation
      /\ n.targets = l.targets
  BY WithMiaoji
<1> HIDE DEF n
<1>2. Keeps(l, n)
  BY <1>1, LedgerAssumption DEF Keeps, Ledger
<1>3. m \in Transition(l, n, "Transcribing")
  BY DEF n
<1> QED
  BY <1>1, <1>2, <1>3, TransitionSound DEF OrderedAt, States, DiscardStates

LEMMA RetryProviderSound ==
  ASSUME NEW l \in Ledger, Valid(l), Ordered(l), NEW m \in RetryProvider(l)
  PROVE  Sound(l, m)
<1>1. l.state = "ProviderFailed" /\ l.miaoji # "accepted"
  BY DEF RetryProvider, When, Ordered, OrderedAt, BeforeAcceptance
<1>2. CASE \E s \in {"Summarizing", "LocalTranscribing", "Uploading"} :
             m \in Transition(l, l, s)
  BY <1>1, <1>2, KeepsItself, TransitionSound
     DEF OrderedAt, States, ReworkStates, DiscardStates
<1>3. CASE /\ ~IsLocalWorker(l)
           /\ l.transcription_backend # "MossLocal"
           /\ m \in Transition(l, [l EXCEPT !.miaoji = "none"], "Transcribing")
  <2>1. IsRemote(l)
    BY <1>3 DEF IsRemote, IsLocalWorker, Ledger
  <2>2. l.miaoji # "superseded"
    BY <2>1 DEF Valid, BackendConsistent
  <2> QED
    BY <1>1, <1>3, <2>2, ForgottenRequestSound
<1> QED
  BY <1>2, <1>3 DEF RetryProvider, When

LEMMA ResolveSubmitForRetrySound ==
  ASSUME NEW l \in Ledger, Valid(l), Ordered(l), NEW m \in ResolveSubmitForRetry(l)
  PROVE  Sound(l, m)
<1>1. l.state = "SubmitAmbiguous"
  BY DEF ResolveSubmitForRetry, When
<1>2. l.miaoji \notin {"accepted", "superseded"}
  BY <1>1, RemoteHasNoSupersededTask DEF Ordered, OrderedAt, BeforeAcceptance
<1> QED
  BY <1>2, ForgottenRequestSound DEF ResolveSubmitForRetry, When

LEMMA CheckpointTranscriptSound ==
  ASSUME NEW l \in Ledger, Valid(l), Ordered(l), NEW m \in CheckpointTranscript(l)
  PROVE  Sound(l, m)
<1> DEFINE n == [l EXCEPT !.transcript_json = TRUE]
<1>1. n \in Ledger
  BY DEF Ledger
<1>2. Keeps(l, n)
  BY LedgerAssumption DEF Ledger, Keeps
<1> HIDE DEF n
<1>3. m = l \/ m \in Transition(l, n, "Summarizing")
  BY DEF CheckpointTranscript, When, n
<1> QED
  BY <1>1, <1>2, <1>3, SameIsSound, TransitionSound
     DEF OrderedAt, States, ReworkStates, BeforeAcceptance, DiscardStates

------------------------
(* Summary. *)

LEMMA CheckpointSummarySound ==
  ASSUME NEW l \in Ledger, Valid(l), Ordered(l), NEW m \in CheckpointSummary(l)
  PROVE  Sound(l, m)
<1> DEFINE n == [l EXCEPT !.summary_json = TRUE]
<1>1. n \in Ledger
  BY DEF Ledger
<1>2. Keeps(l, n)
  BY LedgerAssumption DEF Ledger, Keeps
<1> HIDE DEF n
<1>3. m \in Transition(l, n, "Summarizing")
  BY DEF CheckpointSummary, When, n
<1> QED
  BY <1>1, <1>2, <1>3, TransitionSound
     DEF OrderedAt, States, ReworkStates, BeforeAcceptance, DiscardStates

LEMMA SummaryMovesSound ==
  ASSUME NEW l \in Ledger, Valid(l), Ordered(l),
         NEW m \in AbortSummaryBeforeDispatch(l) \cup ResolveSummaryForRetry(l)
  PROVE  Sound(l, m)
<1>1. m \in Transition(l, l, "Summarizing")
  BY DEF AbortSummaryBeforeDispatch, ResolveSummaryForRetry, When
<1> QED
  BY <1>1, KeepsItself, TransitionSound
     DEF OrderedAt, States, ReworkStates, BeforeAcceptance, DiscardStates

------------------------
(* Publication. *)

\* A new generation only adds: what the old one verified is not asked of it.
LEMMA NewGeneration ==
  ASSUME NEW l \in Ledger, NEW g \in Nat, l.generation < g, g <= MaxGeneration
  PROVE  LET n == [l EXCEPT !.generation = g, !.targets = NoPublication]
         IN  n \in Ledger /\ Keeps(l, n)
<1> DEFINE n == [l EXCEPT !.generation = g, !.targets = NoPublication]
<1>1. NoPublication \in [Targets -> TargetStates]
  BY DEF NoPublication, TargetStates
<1>2. g \in 0..MaxGeneration /\ l.generation \in Nat
  BY LedgerAssumption DEF Ledger
<1>3. n \in Ledger
  BY <1>1, <1>2 DEF Ledger
<1>4. /\ n.miaoji = l.miaoji
      /\ n.tos_object = l.tos_object
      /\ n.transcript_json = l.transcript_json
      /\ n.generation = g
  BY DEF Ledger
<1> HIDE DEF n
<1>5. Keeps(l, n)
  BY <1>2, <1>4 DEF Keeps
<1> QED
  BY <1>3, <1>5 DEF n

LEMMA NextGenerationIsLedger ==
  ASSUME NEW l \in Ledger, GenerationLeft(l)
  PROVE  NextGeneration(l) \in Ledger /\ Keeps(l, NextGeneration(l))
<1>1. /\ l.generation + 1 \in Nat
      /\ l.generation < l.generation + 1
      /\ l.generation + 1 <= MaxGeneration
  BY LedgerAssumption DEF GenerationLeft, Ledger
<1> QED
  BY <1>1, NewGeneration DEF NextGeneration

LEMMA PlanPublicationSound ==
  ASSUME NEW l \in Ledger, Valid(l), Ordered(l), NEW m \in PlanPublication(l)
  PROVE  Sound(l, m)
<1> DEFINE n == [l EXCEPT !.generation = 1, !.targets = NoPublication]
<1>1. CASE m = l
  BY <1>1, SameIsSound
<1>2. CASE GenerationLeft(l) /\ m \in Transition(l, NextGeneration(l), "Publishing")
  BY <1>2, NextGenerationIsLedger, TransitionSound
     DEF OrderedAt, States, ReworkStates, BeforeAcceptance, DiscardStates
<1>3. CASE ~HasPublication(l) /\ m \in Transition(l, n, "Publishing")
  <2>1. l.generation < 1 /\ 1 <= MaxGeneration
    BY <1>3, LedgerAssumption DEF HasPublication
  <2>2. n \in Ledger /\ Keeps(l, n)
    BY <2>1, NewGeneration
  <2> HIDE DEF n
  <2> QED
    BY <1>3, <2>2, TransitionSound
       DEF OrderedAt, States, ReworkStates, BeforeAcceptance, DiscardStates
<1> QED
  BY <1>1, <1>2, <1>3 DEF PlanPublication, When

\* Moving one target that is not yet Verified, or that stays so.
LEMMA WithTarget ==
  ASSUME NEW l \in Ledger, NEW t \in Targets, NEW v \in TargetStates,
         l.targets[t] = "Verified" => v = "Verified"
  PROVE  LET n == [l EXCEPT !.targets[t] = v]
         IN  n \in Ledger /\ Keeps(l, n) /\ n.state = l.state
<1> DEFINE n == [l EXCEPT !.targets[t] = v]
<1>1. n \in Ledger
  BY DEF Ledger
<1>2. /\ n.state = l.state
      /\ n.miaoji = l.miaoji
      /\ n.tos_object = l.tos_object
      /\ n.transcript_json = l.transcript_json
      /\ n.generation = l.generation
      /\ n.targets = [l.targets EXCEPT ![t] = v]
  BY DEF Ledger
<1> HIDE DEF n
<1>3. Keeps(l, n)
  BY <1>2, LedgerAssumption DEF Keeps, Ledger
<1> QED
  BY <1>1, <1>2, <1>3 DEF n

LEMMA StartPublicationTargetSound ==
  ASSUME NEW l \in Ledger, Valid(l), Ordered(l), NEW g \in Nat, NEW t \in Targets,
         NEW m \in StartPublicationTarget(l, g, t)
  PROVE  Sound(l, m)
<1> DEFINE n == [l EXCEPT !.targets[t] = "Started"]
<1>1. CASE m = l
  BY <1>1, SameIsSound
<1>2. CASE /\ l.state = "Publishing"
           /\ l.targets[t] \in {"Pending", "Failed"}
           /\ m \in Mutate(n)
  <2>1. n \in Ledger /\ Keeps(l, n) /\ n.state = l.state
    BY <1>2, WithTarget DEF TargetStates
  <2> HIDE DEF n
  <2> QED
    BY <1>2, <2>1, MutateSound DEF Ordered, OrderedAt, BeforeAcceptance, DiscardStates
<1> QED
  BY <1>1, <1>2 DEF StartPublicationTarget, When

LEMMA CheckpointPublicationTargetSound ==
  ASSUME NEW l \in Ledger, Valid(l), Ordered(l), NEW g \in Nat, NEW t \in Targets,
         NEW m \in CheckpointPublicationTarget(l, g, t)
  PROVE  Sound(l, m)
<1> DEFINE n == [l EXCEPT !.targets[t] = "Verified"]
<1>1. CASE m = l
  BY <1>1, SameIsSound
<1>2. CASE l.state = "Publishing" /\ m \in Mutate(n)
  <2>1. n \in Ledger /\ Keeps(l, n) /\ n.state = l.state
    BY WithTarget DEF TargetStates
  <2> HIDE DEF n
  <2> QED
    BY <1>2, <2>1, MutateSound DEF Ordered, OrderedAt, BeforeAcceptance, DiscardStates
<1> QED
  BY <1>1, <1>2 DEF CheckpointPublicationTarget, When

LEMMA FailPublicationTargetSound ==
  ASSUME NEW l \in Ledger, Valid(l), Ordered(l), NEW g \in Nat, NEW t \in Targets,
         NEW ambiguous \in BOOLEAN, NEW m \in FailPublicationTarget(l, g, t, ambiguous)
  PROVE  Sound(l, m)
<1>1. PICK v \in {"Ambiguous", "Failed"}, s \in {"PublishAmbiguous", "PublishFailed"} :
        m \in Transition(l, [l EXCEPT !.targets[t] = v], s)
  BY DEF FailPublicationTarget, When
<1>2. l.targets[t] = "Started"
  BY DEF FailPublicationTarget, When
<1> DEFINE n == [l EXCEPT !.targets[t] = v]
<1>3. n \in Ledger /\ Keeps(l, n)
  BY <1>2, WithTarget DEF TargetStates
<1>4. s \in States /\ OrderedAt(n, s)
  BY DEF OrderedAt, States, ReworkStates, PublishStates, BeforeAcceptance, DiscardStates
<1> HIDE DEF n
<1>5. m \in Transition(l, n, s)
  BY <1>1 DEF n
<1> QED
  BY <1>3, <1>4, <1>5, TransitionSound

LEMMA MarkPublicationConflictSound ==
  ASSUME NEW l \in Ledger, Valid(l), Ordered(l), NEW m \in MarkPublicationConflict(l)
  PROVE  Sound(l, m)
BY SameIsSound, KeepsItself, TransitionSound
   DEF MarkPublicationConflict, States, ReworkStates, PublishStates, OrderedAt,
       BeforeAcceptance, DiscardStates

LEMMA CheckpointCanonicalBackupSound ==
  ASSUME NEW l \in Ledger, Valid(l), Ordered(l), NEW g \in Nat,
         NEW m \in CheckpointCanonicalBackup(l, g)
  PROVE  Sound(l, m)
<1> DEFINE n == [l EXCEPT !.canonical_backup = TRUE]
<1>1. n \in Ledger /\ n.state = l.state
  BY DEF Ledger
<1>2. Keeps(l, n)
  BY LedgerAssumption DEF Ledger, Keeps
<1> HIDE DEF n
<1>3. m = l \/ (l.state = "Publishing" /\ m \in Mutate(n))
  BY DEF CheckpointCanonicalBackup, When, n
<1> QED
  BY <1>1, <1>2, <1>3, SameIsSound, MutateSound
     DEF Ordered, OrderedAt, BeforeAcceptance, DiscardStates

LEMMA RetryPublicationSound ==
  ASSUME NEW l \in Ledger, Valid(l), Ordered(l), NEW m \in RetryPublication(l)
  PROVE  Sound(l, m)
<1>1. PICK t \in FirstUnverified(l) :
        m \in Transition(l, [l EXCEPT !.targets[t] = "Pending"], "Publishing")
  BY DEF RetryPublication, When
<1> DEFINE n == [l EXCEPT !.targets[t] = "Pending"]
<1>2. t \in Targets /\ l.targets[t] # "Verified"
  BY DEF FirstUnverified
<1>3. n \in Ledger /\ Keeps(l, n)
  BY <1>2, WithTarget DEF TargetStates
<1> HIDE DEF n
<1>4. m \in Transition(l, n, "Publishing")
  BY <1>1 DEF n
<1> QED
  BY <1>3, <1>4, TransitionSound
     DEF OrderedAt, States, ReworkStates, BeforeAcceptance, DiscardStates

LEMMA BeginReprocessSound ==
  ASSUME NEW l \in Ledger, Valid(l), Ordered(l), NEW m \in BeginReprocess(l)
  PROVE  Sound(l, m)
<1> DEFINE n == [l EXCEPT !.summary_json = FALSE, !.canonical_backup = FALSE]
<1>1. n \in Ledger
  BY DEF Ledger
<1>2. Keeps(l, n)
  BY LedgerAssumption DEF Ledger, Keeps
<1> HIDE DEF n
<1>3. m = l \/ m \in Transition(l, n, "Summarizing")
  BY DEF BeginReprocess, When, n
<1> QED
  BY <1>1, <1>2, <1>3, SameIsSound, TransitionSound
     DEF OrderedAt, States, ReworkStates, BeforeAcceptance, DiscardStates

LEMMA BeginRemoteBackupSound ==
  ASSUME NEW l \in Ledger, Valid(l), Ordered(l), NEW m \in BeginRemoteBackup(l)
  PROVE  Sound(l, m)
<1> DEFINE k == NextGeneration(l)
           n == [k EXCEPT !.publication_backend = "RemoteArchive",
                          !.canonical_backup = FALSE]
<1>1. CASE m = l
  BY <1>1, SameIsSound
<1>2. CASE GenerationLeft(l) /\ m \in Transition(l, n, "Publishing")
  <2>1. k \in Ledger /\ Keeps(l, k)
    BY <1>2, NextGenerationIsLedger
  <2> HIDE DEF k
  <2>2. n \in Ledger
    BY <2>1 DEF Ledger
  <2>3. Keeps(l, n)
    BY <2>1 DEF Keeps, Ledger
  <2> HIDE DEF n
  <2> QED
    BY <1>2, <2>2, <2>3, TransitionSound
       DEF OrderedAt, States, ReworkStates, BeforeAcceptance, DiscardStates
<1> QED
  BY <1>1, <1>2 DEF BeginRemoteBackup, When

------------------------
(* Cleanup, retention, cancel and discard. *)

LEMMA ScheduleRetentionIsLedger ==
  ASSUME NEW l \in Ledger
  PROVE  LET n == ScheduleRetention(l)
         IN  /\ n \in Ledger
             /\ Keeps(l, n)
             /\ n.state = l.state
             /\ n.miaoji = l.miaoji
             /\ n.targets = l.targets
<1> DEFINE n == [l EXCEPT !.source_tracks_delete_after = "scheduled"]
<1>1. n \in Ledger
  BY DEF Ledger
<1>2. n.state = l.state /\ n.miaoji = l.miaoji /\ n.targets = l.targets
  BY DEF Ledger
<1>3. Keeps(l, n)
  BY LedgerAssumption DEF Ledger, Keeps
<1> HIDE DEF n
<1>4. ScheduleRetention(l) \in {l, n}
  BY DEF ScheduleRetention, n
<1> QED
  BY <1>1, <1>2, <1>3, <1>4, KeepsItself

LEMMA CheckpointCleanupSound ==
  ASSUME NEW l \in Ledger, Valid(l), Ordered(l), NEW g \in Nat,
         NEW m \in CheckpointCleanup(l, g)
  PROVE  Sound(l, m)
<1> DEFINE k == ScheduleRetention(l)
           n == [k EXCEPT !.temporary_tos_deleted = TRUE]
<1>1. /\ k \in Ledger
      /\ Keeps(l, k)
      /\ k.state = l.state
      /\ k.miaoji = l.miaoji
      /\ k.targets = l.targets
  BY ScheduleRetentionIsLedger
<1>2. CASE l.state = "Complete" /\ m \in Mutate(k)
  <2> HIDE DEF k
  <2>1. Ordered(k)
    BY <1>1, <1>2
       DEF Ordered, OrderedAt, RequiredVerified, BeforeAcceptance, DiscardStates
  <2> QED
    BY <1>1, <1>2, <2>1, MutateSound
<1>3. CASE RequiredVerified(l) /\ m \in Transition(l, n, "Complete")
  <2> HIDE DEF k
  <2>1. n \in Ledger /\ n.targets = k.targets
    BY <1>1 DEF Ledger
  <2>2. Keeps(l, n)
    BY <1>1 DEF Keeps, Ledger
  <2>3. OrderedAt(n, "Complete")
    BY <1>1, <1>3, <2>1 DEF OrderedAt, RequiredVerified, BeforeAcceptance, DiscardStates
  <2> HIDE DEF n
  <2> QED
    BY <1>3, <2>1, <2>2, <2>3, TransitionSound DEF States
<1> QED
  BY <1>2, <1>3 DEF CheckpointCleanup, When

LEMMA CheckpointSourceTracksDeletedSound ==
  ASSUME NEW l \in Ledger, Valid(l), Ordered(l), NEW m \in CheckpointSourceTracksDeleted(l)
  PROVE  Sound(l, m)
<1> DEFINE n == [l EXCEPT !.source_tracks_deleted = TRUE]
<1>1. n \in Ledger
  BY DEF Ledger
<1>2. n.state = l.state /\ n.targets = l.targets
  BY DEF Ledger
<1>3. Keeps(l, n)
  BY LedgerAssumption DEF Ledger, Keeps
<1> HIDE DEF n
<1>4. m = l \/ (l.state = "Complete" /\ m \in Mutate(n))
  BY DEF CheckpointSourceTracksDeleted, When, n
<1>5. l.state = "Complete" => Ordered(n)
  BY <1>2 DEF Ordered, OrderedAt, RequiredVerified, BeforeAcceptance, DiscardStates
<1> QED
  BY <1>1, <1>2, <1>3, <1>4, <1>5, SameIsSound, MutateSound

LEMMA CheckpointCanceledTosCleanupSound ==
  ASSUME NEW l \in Ledger, Valid(l), Ordered(l), NEW m \in CheckpointCanceledTosCleanup(l)
  PROVE  Sound(l, m)
<1> DEFINE n == [l EXCEPT !.temporary_tos_deleted = TRUE]
<1>1. n \in Ledger
  BY DEF Ledger
<1>2. n.state = l.state
  BY DEF Ledger
<1>3. Keeps(l, n)
  BY LedgerAssumption DEF Ledger, Keeps
<1> HIDE DEF n
<1>4. m = l \/ (l.state = "CanceledAfterUpload" /\ m \in Mutate(n))
  BY DEF CheckpointCanceledTosCleanup, When, n
<1> QED
  BY <1>1, <1>2, <1>3, <1>4, SameIsSound, MutateSound
     DEF Ordered, OrderedAt, BeforeAcceptance, DiscardStates

LEMMA CancelMovesSound ==
  ASSUME NEW l \in Ledger, Valid(l), Ordered(l),
         NEW m \in CheckpointCanceledUploadAbsent(l) \cup Cancel(l)
  PROVE  Sound(l, m)
<1>1. CASE m \in CheckpointCanceledUploadAbsent(l)
  BY <1>1, KeepsItself, TransitionSound
     DEF CheckpointCanceledUploadAbsent, When, States, CanceledStates, OrderedAt,
         BeforeAcceptance, DiscardStates
<1>2. CASE m \in Cancel(l)
  BY <1>2, SameIsSound, KeepsItself, TransitionSound
     DEF Cancel, When, States, CanceledStates, Ordered, OrderedAt, BeforeAcceptance,
         DiscardStates
<1> QED
  BY <1>1, <1>2

LEMMA DiscardMovesSound ==
  ASSUME NEW l \in Ledger, Valid(l), Ordered(l),
         NEW m \in BeginDiscard(l) \cup CheckpointDiscarded(l)
  PROVE  Sound(l, m)
<1>1. CASE m \in BeginDiscard(l)
  BY <1>1, SameIsSound, KeepsItself, TransitionSound
     DEF BeginDiscard, When, States, CanceledStates, Ordered, OrderedAt,
         BeforeAcceptance, DiscardStates
<1>2. CASE m \in CheckpointDiscarded(l)
  BY <1>2, SameIsSound, KeepsItself, TransitionSound
     DEF CheckpointDiscarded, When, States, Ordered, OrderedAt, BeforeAcceptance,
         DiscardStates
<1> QED
  BY <1>1, <1>2

------------------------
(* resume, which assigns states itself. *)

LEMMA ResumeEdges ==
  /\ CanTransition("Submitting", "SubmitAmbiguous")
  /\ CanTransition("Queued", "Uploading")
  /\ CanTransition("Transcribing", "Submitting")
  /\ CanTransition("Summarizing", "SummarySubmitting")
  /\ CanTransition("SummarySubmitting", "SummaryAmbiguous")
  /\ CanTransition("Publishing", "PublishAmbiguous")
BY DEF CanTransition, Successors, States, ReworkStates, PublishStates, CanceledStates,
       DiscardStates

\* A fence: the state changes along an edge, and nothing else does.
LEMMA FenceSound ==
  ASSUME NEW l \in Ledger, NEW next \in States, CanTransition(l.state, next),
         OrderedAt(l, next), NEW m \in Mutate([l EXCEPT !.state = next])
  PROVE  Sound(l, m)
<1>1. m \in Transition(l, l, next)
  BY DEF Transition, When
<1> QED
  BY <1>1, KeepsItself, TransitionSound

LEMMA ResumePublishingSound ==
  ASSUME NEW l \in Ledger, Valid(l), Ordered(l), l.state = "Publishing",
         NEW m \in ResumePublishing(l)
  PROVE  Sound(l, m)
<1>1. CASE m = l
  BY <1>1, SameIsSound
<1>2. CASE \E t \in FirstUnverified(l) :
             m \in Mutate([l EXCEPT !.targets[t] = "Ambiguous",
                                    !.state = "PublishAmbiguous"])
  <2>1. PICK t \in FirstUnverified(l) :
          m \in Mutate([l EXCEPT !.targets[t] = "Ambiguous",
                                 !.state = "PublishAmbiguous"])
    BY <1>2
  <2> DEFINE k == [l EXCEPT !.targets[t] = "Ambiguous"]
             n == [k EXCEPT !.state = "PublishAmbiguous"]
  <2>2. t \in Targets /\ l.targets[t] # "Verified"
    BY DEF FirstUnverified
  <2>3. k \in Ledger /\ Keeps(l, k) /\ k.state = l.state
    BY <2>2, WithTarget DEF TargetStates
  <2>4. m \in Mutate(n)
    BY <2>1
  <2> HIDE DEF k
  <2>5. m \in Transition(l, k, "PublishAmbiguous")
    BY <2>4, ResumeEdges DEF Transition, When
  <2> QED
    BY <2>3, <2>5, TransitionSound
       DEF OrderedAt, States, ReworkStates, PublishStates, BeforeAcceptance, DiscardStates
<1> QED
  BY <1>1, <1>2 DEF ResumePublishing

LEMMA ResumeSound ==
  ASSUME NEW l \in Ledger, Valid(l), Ordered(l), NEW m \in Resume(l)
  PROVE  Sound(l, m)
<1>1. CASE m = l
  BY <1>1, SameIsSound
<1>2. CASE l.state = "Publishing"
  BY <1>2, ResumePublishingSound DEF Resume
<1>3. CASE l.state = "Transcribing"
  <2> DEFINE n == [l EXCEPT !.miaoji = "requested"]
  <2>1. l.miaoji \notin {"accepted", "superseded"}
    BY <1>3, RemoteHasNoSupersededTask DEF Ordered, OrderedAt, BeforeAcceptance
  <2>2. /\ n \in Ledger
        /\ n.miaoji = "requested"
        /\ n.tos_object = l.tos_object
        /\ n.transcript_json = l.transcript_json
        /\ n.generation = l.generation
        /\ n.targets = l.targets
    BY WithMiaoji
  <2>3. m \in Mutate([n EXCEPT !.state = "Submitting"])
    BY <1>3 DEF Resume
  <2> HIDE DEF n
  <2>4. Keeps(l, n)
    BY <2>1, <2>2, LedgerAssumption DEF Keeps, Ledger
  <2>5. m \in Transition(l, n, "Submitting")
    BY <1>3, <2>3, ResumeEdges DEF Transition, When
  <2> QED
    BY <2>2, <2>4, <2>5, TransitionSound DEF OrderedAt, States, DiscardStates
<1>4. CASE l.state = "Submitting" /\ m \in Mutate([l EXCEPT !.state = "SubmitAmbiguous"])
  BY <1>4, ResumeEdges, FenceSound
     DEF Ordered, OrderedAt, States, BeforeAcceptance, DiscardStates
<1>5. CASE l.state = "Queued" /\ m \in Mutate([l EXCEPT !.state = "Uploading"])
  BY <1>5, ResumeEdges, FenceSound
     DEF Ordered, OrderedAt, States, BeforeAcceptance, DiscardStates
<1>6. CASE l.state = "Summarizing" /\ m \in Mutate([l EXCEPT !.state = "SummarySubmitting"])
  BY <1>6, ResumeEdges, FenceSound
     DEF OrderedAt, States, ReworkStates, BeforeAcceptance, DiscardStates
<1>7. CASE l.state = "SummarySubmitting"
             /\ m \in Mutate([l EXCEPT !.state = "SummaryAmbiguous"])
  BY <1>7, ResumeEdges, FenceSound
     DEF OrderedAt, States, ReworkStates, BeforeAcceptance, DiscardStates
<1> QED
  BY <1>1, <1>2, <1>3, <1>4, <1>5, <1>6, <1>7 DEF Resume
=============================================================================
