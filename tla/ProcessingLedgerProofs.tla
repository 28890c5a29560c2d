----------------------- MODULE ProcessingLedgerProofs -----------------------
(* Proofs about ProcessingLedger, for every number of targets, every choice  *)
(* of retry modes and required targets, and every width of the generation;   *)
(* then about LedgerFile, the files that keep the ledger, for every number   *)
(* of revisions: they implement the register, where a behaviour sees either  *)
(* stops or power losses; and last about MossTranscript, the texts that are  *)
(* put in the ledger, for all recordings, answers and diarizations.          *)
EXTENDS ProcessingLedger, MossTranscript, LedgerOperationsProofs,
        FiniteSetTheorems, SequenceTheorems, WellFoundedInduction

CONSTANTS MaxRevision, Faults

VARIABLES destination, named, temporaries, current, phase, reported, faults

Files == INSTANCE LedgerFile

\* The inductive invariant: the ledger is typed, accepted by validate, and
\* ordered as the operations were.
IInv == ledger \in Ledger /\ Valid(ledger) /\ Ordered(ledger)

------------------------
(* The steps of the specification. *)

LEMMA SelectionStepSound ==
  ASSUME IInv, SelectionStep
  PROVE  Sound(ledger, ledger')
BY SelectLocalWhisperSound, SelectFullLocalSound, TakeOverWithFullLocalSound,
   AcceptLocalTranscriptOnlySound, CheckpointLocalWhisperTranscriptSound,
   MarkLocalWhisperFailedSound
   DEF IInv, SelectionStep

LEMMA MossStepSound ==
  ASSUME IInv, MossStep
  PROVE  Sound(ledger, ledger')
BY BeginMossPreparationSound, CompleteMossPreparationSound, MossMovesSound,
   SelectFullLocalMossSound, TakeOverWithFullLocalMossSound,
   FinalizeMossTranscriptSound, RecoverMossLocalSummarySound
   DEF IInv, MossStep

LEMMA RemoteStepSound ==
  ASSUME IInv, RemoteStep
  PROVE  Sound(ledger, ledger')
BY BeginUploadSound, CheckpointTosObjectSound, MarkUploadRejectedSound,
   BeginMiaojiSubmitSound, CheckpointMiaojiTaskSound, MarkSubmitAmbiguousSound,
   MarkSubmitRejectedSound, RetryProviderSound, ResolveSubmitForRetrySound,
   CheckpointTranscriptSound
   DEF IInv, RemoteStep

LEMMA SummaryStepSound ==
  ASSUME IInv, SummaryStep
  PROVE  Sound(ledger, ledger')
BY CheckpointSummarySound, SummaryMovesSound DEF IInv, SummaryStep

LEMMA PublicationStepSound ==
  ASSUME IInv, PublicationStep
  PROVE  Sound(ledger, ledger')
<1>1. 1..MaxGeneration \subseteq Nat
  BY LedgerAssumption
<1> QED
  BY <1>1, PlanPublicationSound, StartPublicationTargetSound,
     CheckpointPublicationTargetSound, FailPublicationTargetSound,
     MarkPublicationConflictSound, CheckpointCanonicalBackupSound,
     RetryPublicationSound, BeginReprocessSound, BeginRemoteBackupSound
     DEF IInv, PublicationStep

LEMMA CleanupStepSound ==
  ASSUME IInv, CleanupStep
  PROVE  Sound(ledger, ledger')
<1>1. 1..MaxGeneration \subseteq Nat
  BY LedgerAssumption
<1> QED
  BY <1>1, CheckpointCleanupSound, CheckpointSourceTracksDeletedSound,
     CheckpointCanceledTosCleanupSound, CancelMovesSound, DiscardMovesSound
     DEF IInv, CleanupStep

\* Passing time leaves a valid ledger valid.
LEMMA RetentionElapsesSound ==
  ASSUME IInv, RetentionElapses
  PROVE  Sound(ledger, ledger')
<1>1. ledger' \in Ledger
  BY DEF IInv, RetentionElapses, Ledger
<1>2. /\ ledger'.state = ledger.state
      /\ ledger'.transcription_backend = ledger.transcription_backend
      /\ ledger'.summary_backend = ledger.summary_backend
      /\ ledger'.publication_backend = ledger.publication_backend
      /\ ledger'.local_diarization = ledger.local_diarization
      /\ ledger'.transcript_only_accepted = ledger.transcript_only_accepted
      /\ ledger'.local_moss = ledger.local_moss
      /\ ledger'.tos_object = ledger.tos_object
      /\ ledger'.miaoji = ledger.miaoji
      /\ ledger'.transcript_json = ledger.transcript_json
      /\ ledger'.summary_json = ledger.summary_json
      /\ ledger'.generation = ledger.generation
      /\ ledger'.targets = ledger.targets
      /\ ledger'.canonical_backup = ledger.canonical_backup
      /\ ledger'.temporary_tos_deleted = ledger.temporary_tos_deleted
      /\ ledger'.source_tracks_deleted = ledger.source_tracks_deleted
      /\ ledger'.source_tracks_delete_after # "none"
      /\ ledger.source_tracks_delete_after # "none"
  BY DEF IInv, RetentionElapses, Ledger
<1>3. BackendConsistent(ledger')
  BY <1>2 DEF IInv, Valid, BackendConsistent, IsRemote, IsLocalWorker, MossConsistent
<1>4. StateFitsBackend(ledger') /\ EvidenceFitsState(ledger')
  BY <1>2 DEF IInv, Valid, StateFitsBackend, EvidenceFitsState, IsRemote, HasPublication
<1>5. PublicationConsistent(ledger') /\ CleanupConsistent(ledger')
  BY <1>2 DEF IInv, Valid, PublicationConsistent, CleanupConsistent,
              KeepsArchiveHistory, HasPublication, AllVerified
<1>6. Ordered(ledger')
  BY <1>2 DEF IInv, Ordered, OrderedAt, RequiredVerified
<1>7. Keeps(ledger, ledger')
  BY <1>2, LedgerAssumption DEF IInv, Keeps, Ledger
<1> QED
  BY <1>1, <1>2, <1>3, <1>4, <1>5, <1>6, <1>7 DEF Sound, Valid

LEMMA NextSound ==
  ASSUME IInv, Next
  PROVE  Sound(ledger, ledger')
BY SelectionStepSound, MossStepSound, RemoteStepSound, SummaryStepSound,
   PublicationStepSound, CleanupStepSound, ResumeSound, RetentionElapsesSound
   DEF IInv, Next

LEMMA InitIInv == Init => IInv
<1> SUFFICES ASSUME Init PROVE IInv
  OBVIOUS
<1>1. NoPublication \in [Targets -> TargetStates]
  BY DEF NoPublication, TargetStates
<1>2. Enqueued \in Ledger
  BY <1>1, LedgerAssumption DEF Enqueued, Ledger, States
<1>3. Valid(Enqueued) /\ Ordered(Enqueued)
  BY DEF Enqueued, Valid, BackendConsistent, StateFitsBackend, EvidenceFitsState,
         PublicationConsistent, CleanupConsistent, IsRemote, IsLocalWorker,
         HasPublication, Ordered, OrderedAt, Summarized, Published, ReworkStates,
         PublishStates, DiscardStates, CanceledStates
<1>4. [t \in Targets |-> "Verified"] \in [Targets -> TargetStates]
  BY DEF TargetStates
<1>5. LegacyComplete \in Ledger
  BY <1>4, LedgerAssumption DEF LegacyComplete, Ledger, States, ReworkStates
<1>6. Valid(LegacyComplete) /\ Ordered(LegacyComplete)
  BY LedgerAssumption
     DEF LegacyComplete, Valid, BackendConsistent, StateFitsBackend, EvidenceFitsState,
         PublicationConsistent, CleanupConsistent, IsRemote, IsLocalWorker,
         HasPublication, Ordered, OrderedAt, Summarized, Published, ReworkStates,
         PublishStates, DiscardStates, CanceledStates, RequiredVerified,
         BeforeAcceptance
<1> QED
  BY <1>2, <1>3, <1>5, <1>6 DEF Init, IInv

LEMMA StepIInv == IInv /\ [Next]_ledger => IInv'
<1> SUFFICES ASSUME IInv, [Next]_ledger PROVE IInv'
  OBVIOUS
<1>1. CASE Next
  BY <1>1, NextSound DEF IInv, Sound
<1>2. CASE UNCHANGED ledger
  BY <1>2 DEF IInv, Valid, BackendConsistent, StateFitsBackend, EvidenceFitsState
<1> QED
  BY <1>1, <1>2

------------------------
(* The theorems. *)

\* The ledger is always the invariant's: well typed, accepted by validate, and
\* ordered as the operations were.
THEOREM Invariant == Spec => []IInv
BY InitIInv, StepIInv, PTL DEF Spec

\* The store keeps the ledger well typed.
THEOREM TypeCorrect == Spec => []TypeOK
<1>1. IInv => TypeOK
  BY DEF IInv, TypeOK
<1> QED
  BY <1>1, Invariant, PTL

\* A job is Complete only when its current generation is published on every
\* required target and its canonical backup recorded.
THEOREM CompleteIsSafe == Spec => []CompleteIsBackedUp
<1>1. IInv => CompleteIsBackedUp
  BY DEF IInv, Ordered, OrderedAt, CompleteIsBackedUp, Valid, EvidenceFitsState,
         CleanupConsistent, Published
<1> QED
  BY <1>1, Invariant, PTL

\* A recording is discarded only with its temporary object gone.
THEOREM DiscardIsSafe == Spec => []DiscardLeavesNoObject
<1>1. IInv => DiscardLeavesNoObject
  BY DEF IInv, Ordered, OrderedAt, DiscardLeavesNoObject
<1> QED
  BY <1>1, Invariant, PTL

\* No operation loses a receipt, an accepted task or a verified target.
THEOREM EvidenceIsSafe == Spec => EvidenceIsKept
<1>1. IInv /\ [Next]_ledger => [Keeps(ledger, ledger')]_ledger
  BY NextSound DEF Sound
<1>2. EvidenceIsKept <=> [][Keeps(ledger, ledger')]_ledger
  BY DEF EvidenceIsKept, Keeps
<1> QED
  BY <1>1, <1>2, Invariant, PTL DEF Spec

\* No operation, resume included, leaves the transition table.
THEOREM TableIsFollowed == Spec => StepsFollowTable
<1>1. IInv /\ [Next]_ledger
        => [ledger'.state # ledger.state => CanTransition(ledger.state, ledger'.state)]_ledger
  BY NextSound DEF Sound
<1> QED
  BY <1>1, Invariant, PTL DEF Spec, StepsFollowTable

------------------------
(* The files of a ledger. *)

\* What the proofs assume of the constants.
FilesAssumed ==
    /\ MaxRevision \in Nat
    /\ Faults \subseteq {{}, {"stop"}, {"power"}}

Revisions == 0 .. MaxRevision
FileType == [revision : Revisions, whole : BOOLEAN, synced : BOOLEAN]
Phases == {"idle", "promoted", "loaded", "created", "written", "synced", "renamed"}

------------------------
(* The greatest of some revisions. *)

LEMMA Greatest ==
    ASSUME NEW N \in Nat, NEW S \in SUBSET (0 .. N), S # {}
    PROVE  Files!Max(S) \in S /\ \A y \in S : Files!Max(S) >= y
  <1> DEFINE T == {n \in Nat : \E x \in S : n = N - x}
  <1>1. T \in SUBSET Nat /\ T # {}
    <2>1. PICK x \in S : TRUE
      OBVIOUS
    <2>2. N - x \in T
      BY <2>1
    <2>3. QED
      BY <2>2
  <1>2. PICK n \in T : \A m \in T : n <= m
    <2> DEFINE Less == OpToRel(<, Nat)
    <2>1. \A y, x \in Nat : y < x => <<y, x>> \in Less
      BY DEF OpToRel
    <2>2. IsWellFoundedOn(Less, Nat)
      BY NatLessThanWellFounded
    <2> HIDE DEF Less, T
    <2>3. PICK n \in T : \A m \in T : <<m, n>> \notin Less
      BY <1>1, <2>2, WFMin
    <2>4. ASSUME NEW m \in T PROVE n <= m
      <3>1. n \in Nat /\ m \in Nat
        BY <1>1
      <3>2. <<m, n>> \notin Less
        BY <2>3
      <3>3. ~(m < n)
        BY <2>1, <3>1, <3>2
      <3>4. QED
        BY <3>1, <3>3
    <2>5. QED
      BY <2>4
  <1>3. PICK x \in S : n = N - x
    BY <1>2
  <1>4. \A y \in S : x >= y
    <2> SUFFICES ASSUME NEW y \in S PROVE x >= y
      OBVIOUS
    <2>1. N - y \in T
      OBVIOUS
    <2>2. QED
      BY <1>2, <1>3, <2>1
  <1>5. QED
    BY <1>4 DEF Files!Max

\* The revision that a load of the files F would return.
Best(F) == Files!Max({0} \cup {f.revision : f \in {g \in F : g.whole}})

LEMMA BestIs ==
    ASSUME FilesAssumed, NEW F \in SUBSET FileType
    PROVE  /\ Best(F) \in Revisions
           /\ \A f \in F : f.whole => f.revision <= Best(F)
           /\ Best(F) = 0 \/ \E f \in F : f.whole /\ f.revision = Best(F)
  <1> DEFINE S == {0} \cup {f.revision : f \in {g \in F : g.whole}}
  <1>1. S \in SUBSET (0 .. MaxRevision) /\ S # {}
    BY DEF FilesAssumed, FileType, Revisions
  <1>2. Files!Max(S) \in S /\ \A y \in S : Files!Max(S) >= y
    <2>1. MaxRevision \in Nat
      BY DEF FilesAssumed
    <2> HIDE DEF S
    <2>2. QED
      BY <1>1, <2>1, Greatest
  <1>3. \A f \in F : f.whole => f.revision \in S
    OBVIOUS
  <1>4. \A y \in S : y = 0 \/ \E f \in F : f.whole /\ f.revision = y
    OBVIOUS
  <1>5. Best(F) = Files!Max(S)
    BY DEF Best
  <1> HIDE DEF S
  <1>6. \A f \in F : f.whole => f.revision <= Best(F)
    BY <1>1, <1>2, <1>3, <1>5 DEF FilesAssumed, FileType, Revisions
  <1>7. QED
    BY <1>1, <1>2, <1>4, <1>5, <1>6 DEF Revisions

LEMMA BestEquals ==
    ASSUME FilesAssumed, NEW F \in SUBSET FileType, NEW n \in Revisions,
           \A f \in F : f.whole => f.revision <= n,
           n = 0 \/ \E f \in F : f.whole /\ f.revision = n
    PROVE  Best(F) = n
  <1>1. Best(F) \in Nat /\ n \in Nat
    BY BestIs DEF Revisions, FilesAssumed
  <1>2. Best(F) <= n
    BY <1>1, BestIs DEF FileType, Revisions, FilesAssumed
  <1>3. n <= Best(F)
    BY <1>1, BestIs DEF FileType, Revisions, FilesAssumed
  <1>4. QED
    BY <1>1, <1>2, <1>3

------------------------
(* The invariant. *)

AllFiles == temporaries \cup {destination, current}

FileTypeInv ==
    /\ destination \in FileType /\ named \in FileType /\ current \in FileType
    /\ temporaries \in SUBSET FileType
    /\ phase \in Phases /\ reported \in Revisions /\ faults \in Faults

Writing == {"created", "written", "synced"}

\* Once an operation has loaded, the destination is the best of what there was,
\* and what it writes is the next revision.
FilesLoaded ==
    /\ phase # "idle" =>
         /\ destination.whole \/ destination.revision = 0
         /\ \A f \in temporaries : f.whole => f.revision <= destination.revision
    /\ phase \in {"promoted", "renamed"} => destination.whole
    /\ phase \notin Writing => current = Files!NoFile
    /\ phase \in Writing => current.revision = destination.revision + 1
    /\ phase = "created" => ~current.whole
    /\ phase \in {"written", "synced"} => current.whole

\* Where the power may go, what a caller was told is on the disk, under the name
\* that the directory has and under the one it may fall back to.
FilesDurable ==
    "power" \in faults =>
        /\ destination.synced /\ named.synced /\ \A f \in temporaries : f.synced
        /\ phase = "synced" => current.synced
        /\ phase \notin {"promoted", "renamed"} => named = destination
        /\ phase \in {"promoted", "renamed"} =>
             (named.whole => named.revision <= destination.revision)
        /\ reported > 0 =>
             /\ destination.whole /\ destination.revision >= reported
             /\ named.whole /\ named.revision >= reported

FileInv == FileTypeInv /\ FilesLoaded /\ FilesDurable

LEMMA ValueIsBest ==
    /\ Files!Value = Best(AllFiles)
    /\ Files!Value' = Best(AllFiles')
  <1>1. \A f : f = Files!NoFile => ~f.whole
    BY DEF Files!NoFile
  <1>2. {g \in Files!Candidates \cup {current} : g.whole} = {g \in AllFiles : g.whole}
    BY <1>1 DEF Files!Candidates, Files!Existing, AllFiles
  <1>3. {g \in Files!Candidates' \cup {current'} : g.whole} = {g \in AllFiles' : g.whole}
    BY <1>1 DEF Files!Candidates, Files!Existing, AllFiles
  <1>4. QED
    BY <1>2, <1>3 DEF Files!Value, Best

\* The value once an operation has loaded.
LEMMA LoadedValue ==
    ASSUME FilesAssumed, FileInv, phase # "idle"
    PROVE  Files!Value = IF phase \in {"written", "synced"} THEN current.revision ELSE destination.revision
  <1> DEFINE n == IF phase \in {"written", "synced"} THEN current.revision ELSE destination.revision
  <1>1. AllFiles \in SUBSET FileType /\ n \in Revisions
    BY DEF FileInv, FileTypeInv, AllFiles, FileType
  <1>2. \A f \in AllFiles : f.whole => f.revision <= n
    BY DEF FileInv, FileTypeInv, FilesLoaded, AllFiles, FileType, Revisions, Writing,
           Files!NoFile, FilesAssumed, Phases
  <1>3. n = 0 \/ \E f \in AllFiles : f.whole /\ f.revision = n
    BY DEF FileInv, FileTypeInv, FilesLoaded, AllFiles, Writing, Phases
  <1> HIDE DEF n
  <1>4. Best(AllFiles) = n
    BY <1>1, <1>2, <1>3, BestEquals
  <1>5. QED
    BY <1>4, ValueIsBest DEF n

\* The value after a step, from the files it leaves.
LEMMA NextValue ==
    ASSUME FilesAssumed, FileTypeInv', NEW n \in Revisions,
           \A f \in AllFiles' : f.whole => f.revision <= n,
           n = 0 \/ \E f \in AllFiles' : f.whole /\ f.revision = n
    PROVE  Files!Value' = n
  <1>1. AllFiles' \in SUBSET FileType
    BY DEF FileTypeInv, AllFiles
  <1>2. Best(AllFiles') = n
    BY <1>1, BestEquals
  <1>3. QED
    BY <1>2, ValueIsBest

LEMMA ValueType ==
    ASSUME FilesAssumed, FileTypeInv
    PROVE  /\ Files!Value \in Revisions
           /\ \A f \in AllFiles : f.whole => f.revision <= Files!Value
           /\ Files!Value = 0 \/ \E f \in AllFiles : f.whole /\ f.revision = Files!Value
  <1>1. AllFiles \in SUBSET FileType
    BY DEF FileTypeInv, AllFiles
  <1>2. QED
    BY <1>1, BestIs, ValueIsBest

LEMMA NextValueType ==
    ASSUME FilesAssumed, FileTypeInv'
    PROVE  /\ Files!Value' \in Revisions
           /\ \A f \in AllFiles' : f.whole => f.revision <= Files!Value'
           /\ Files!Value' = 0 \/ \E f \in AllFiles' : f.whole /\ f.revision = Files!Value'
  <1>1. AllFiles' \in SUBSET FileType
    BY DEF FileTypeInv, AllFiles
  <1>2. QED
    BY <1>1, BestIs, ValueIsBest

LEMMA LoadedNextValue ==
    ASSUME FilesAssumed, FileInv', phase' # "idle"
    PROVE  Files!Value' = IF phase' \in {"written", "synced"} THEN current.revision' ELSE destination.revision'
  <1> DEFINE n == IF phase' \in {"written", "synced"} THEN current.revision' ELSE destination.revision'
  <1>1. FileTypeInv' /\ n \in Revisions
    BY DEF FileInv, FileTypeInv, FileType
  <1>2. \A f \in AllFiles' : f.whole => f.revision <= n
    BY DEF FileInv, FileTypeInv, FilesLoaded, AllFiles, FileType, Revisions, Writing,
           Files!NoFile, FilesAssumed, Phases
  <1>3. n = 0 \/ \E f \in AllFiles' : f.whole /\ f.revision = n
    BY DEF FileInv, FileTypeInv, FilesLoaded, AllFiles, Writing, Phases
  <1> HIDE DEF n
  <1>4. Files!Value' = n
    BY <1>1, <1>2, <1>3, NextValue
  <1>5. QED
    BY <1>4 DEF n

------------------------
(* Each step preserves the invariant and is a step of the register or none. *)

\* Neither the value nor what was reported changes.
FilesStutter == Files!Value' = Files!Value /\ reported' = reported

LEMMA FilesInitInv == FilesAssumed /\ Files!Init => FileInv
  BY DEF FilesAssumed, Files!Init, FileInv, FileTypeInv, FilesLoaded, FilesDurable,
         Files!NoFile, FileType, Revisions, Phases, Writing

LEMMA InitValue == FilesAssumed /\ Files!Init => Files!Value = 0 /\ reported = 0
<1> SUFFICES ASSUME FilesAssumed, Files!Init PROVE Files!Value = 0 /\ reported = 0
  OBVIOUS
<1>1. FileTypeInv /\ AllFiles = {Files!NoFile} /\ ~Files!NoFile.whole
  BY FilesInitInv DEF Files!Init, FileInv, AllFiles, Files!NoFile
<1>2. Files!Value = 0
  BY <1>1, ValueType
<1>3. QED
  BY <1>2 DEF Files!Init

LEMMA LoadStep ==
    ASSUME FilesAssumed, FileInv, Files!LoadNothing \/ Files!LoadDestination \/ Files!Promote \/ Files!FinishPromotion
    PROVE  FileInv' /\ FilesStutter
<1> USE DEF FileInv, FileTypeInv
<1>1. CASE Files!LoadNothing
  <2>1. \A f \in AllFiles : f = Files!NoFile
    BY <1>1
       DEF Files!LoadNothing, Files!Candidates, Files!Existing, AllFiles, FilesLoaded,
           Writing
  <2>2. FileInv'
    BY <1>1, <2>1
       DEF Files!LoadNothing, FilesLoaded, FilesDurable, Writing, Phases, Files!NoFile,
           AllFiles
  <2>3. Files!Value' = Files!Value
    BY <1>1 DEF Files!LoadNothing, Files!Value, Files!Candidates, Files!Existing
  <2>4. QED
    BY <1>1, <2>2, <2>3 DEF Files!LoadNothing, FilesStutter
<1>2. CASE Files!LoadDestination
  <2>1. /\ destination.whole /\ destination \in FileType
        /\ \A f \in temporaries : f.whole => f.revision <= destination.revision
    <3>1. \A f \in temporaries : f.whole => f \in Files!Readable
      BY DEF Files!Readable, Files!Candidates, Files!Existing, Files!NoFile
    <3>2. QED
      BY <1>2, <3>1 DEF Files!LoadDestination, Files!Selected, Files!Readable
  <2>2. temporaries' \subseteq temporaries
    BY <1>2 DEF Files!LoadDestination, Files!RemoveLosers
  <2>3. FileInv'
    BY <1>2, <2>1, <2>2
       DEF Files!LoadDestination, FilesLoaded, FilesDurable, Writing, Phases
  <2>4. Files!Value' = destination.revision
    BY <1>2, <2>3, LoadedNextValue DEF Files!LoadDestination
  <2>5. Files!Value = destination.revision
    <3>1. \A f \in AllFiles : f.whole => f.revision <= destination.revision
      BY <1>2, <2>1
         DEF Files!LoadDestination, AllFiles, FilesLoaded, Writing, Files!NoFile,
             FileType, Revisions, FilesAssumed
    <3>2. AllFiles \in SUBSET FileType /\ destination \in AllFiles
      BY DEF AllFiles
    <3>3. QED
      BY <2>1, <3>1, <3>2, BestEquals, ValueIsBest DEF FileType
  <2>6. QED
    BY <1>2, <2>3, <2>4, <2>5 DEF Files!LoadDestination, FilesStutter
<1>3. CASE Files!Promote
  <2>1. PICK f \in temporaries : Files!Selected(f) /\ f # destination /\ destination' = f
                                 /\ temporaries' = temporaries \ {f}
    BY <1>3 DEF Files!Promote
  <2>2. /\ f \in FileType /\ f.whole
        /\ \A g \in temporaries \cup {destination} : g.whole => g.revision <= f.revision
    <3>1. \A g \in temporaries \cup {destination} : g.whole => g \in Files!Readable
      BY DEF Files!Readable, Files!Candidates, Files!Existing, Files!NoFile
    <3>2. QED
      BY <2>1, <3>1 DEF Files!Selected, Files!Readable
  <2>3. FileTypeInv' /\ FilesLoaded'
    BY <1>3, <2>1, <2>2 DEF Files!Promote, FilesLoaded, Writing, Phases
  <2>4. FilesDurable'
    BY <1>3, <2>1, <2>2 DEF Files!Promote, FilesDurable, FileType, Revisions, FilesAssumed
  <2>5. Files!Value' = f.revision
    BY <1>3, <2>1, <2>3, <2>4, LoadedNextValue DEF Files!Promote
  <2>6. Files!Value = f.revision
    <3>1. \A g \in AllFiles : g.whole => g.revision <= f.revision
      BY <1>3, <2>2 DEF Files!Promote, AllFiles, FilesLoaded, Writing, Files!NoFile
    <3>2. AllFiles \in SUBSET FileType /\ f \in AllFiles
      BY DEF AllFiles
    <3>3. QED
      BY <2>2, <3>1, <3>2, BestEquals, ValueIsBest DEF FileType
  <2>7. QED
    BY <1>3, <2>3, <2>4, <2>5, <2>6 DEF Files!Promote, FilesStutter
<1>4. CASE Files!FinishPromotion
  <2>1. temporaries' \subseteq temporaries
    BY <1>4 DEF Files!FinishPromotion, Files!RemoveLosers
  <2>2. FileInv'
    BY <1>4, <2>1 DEF Files!FinishPromotion, FilesLoaded, FilesDurable, Writing, Phases
  <2>3. Files!Value' = destination.revision /\ Files!Value = destination.revision
    BY <1>4, <2>2, LoadedValue, LoadedNextValue DEF Files!FinishPromotion
  <2>4. QED
    BY <1>4, <2>2, <2>3 DEF Files!FinishPromotion, FilesStutter
<1>5. QED
  BY <1>1, <1>2, <1>3, <1>4

LEMMA ReportStep ==
    ASSUME FilesAssumed, FileInv, Files!ReturnLoaded \/ Files!SyncDirectory
    PROVE  FileInv' /\ Files!Register!Report
<1> USE DEF FileInv, FileTypeInv
<1>1. Files!Value = destination.revision /\ destination \in FileType
  BY LoadedValue DEF Files!ReturnLoaded, Files!SyncDirectory
<1>2. Files!Value' = Files!Value
  BY DEF Files!ReturnLoaded, Files!SyncDirectory, Files!Value, Files!Candidates,
         Files!Existing
<1>3. reported' = destination.revision
  BY DEF Files!ReturnLoaded, Files!SyncDirectory
<1>4. FileTypeInv' /\ FilesLoaded'
  BY <1>1
     DEF Files!ReturnLoaded, Files!SyncDirectory, FilesLoaded, Writing, FileType, Phases
<1>5. FilesDurable'
  BY <1>1
     DEF Files!ReturnLoaded, Files!SyncDirectory, FilesLoaded, FilesDurable, FileType,
         Revisions, FilesAssumed
<1>6. QED
  BY <1>1, <1>2, <1>3, <1>4, <1>5 DEF Files!Register!Report

LEMMA WriteStep ==
    ASSUME FilesAssumed, FileInv, Files!Create \/ Files!WriteAll \/ Files!SyncAll \/ Files!ReplaceFile
    PROVE  FileInv' /\ (FilesStutter \/ Files!Register!Advance)
<1> USE DEF FileInv, FileTypeInv
<1>1. CASE Files!Create
  <2>1. FileInv'
    BY <1>1
       DEF Files!Create, FilesLoaded, FilesDurable, Writing, FileType, Revisions, Phases,
           FilesAssumed
  <2>2. Files!Value' = destination.revision /\ Files!Value = destination.revision
    BY <1>1, <2>1, LoadedValue, LoadedNextValue DEF Files!Create
  <2>3. QED
    BY <1>1, <2>1, <2>2 DEF Files!Create, FilesStutter
<1>2. CASE Files!WriteAll
  <2>1. /\ current' \in FileType /\ current'.whole /\ current'.revision = current.revision
        /\ current'.synced = current.synced
    BY <1>2 DEF Files!WriteAll, FileType
  <2>2. FileInv'
    BY <1>2, <2>1 DEF Files!WriteAll, FilesLoaded, FilesDurable, Writing, Phases
  <2>3. Files!Value' = current.revision /\ Files!Value = destination.revision
    BY <1>2, <2>1, <2>2, LoadedValue, LoadedNextValue DEF Files!WriteAll
  <2>4. current.revision = destination.revision + 1 /\ current.revision \in Revisions
        /\ destination.revision \in Revisions
    BY <1>2 DEF Files!WriteAll, FilesLoaded, Writing, FileType
  <2>5. QED
    BY <1>2, <2>2, <2>3, <2>4
       DEF Files!WriteAll, Files!Register!Advance, Revisions, FilesAssumed
<1>3. CASE Files!SyncAll
  <2>1. /\ current' \in FileType /\ current'.whole = current.whole /\ current'.revision = current.revision
        /\ current'.synced
    BY <1>3 DEF Files!SyncAll, FileType
  <2>2. FileInv'
    BY <1>3, <2>1 DEF Files!SyncAll, FilesLoaded, FilesDurable, Writing, Phases
  <2>3. Files!Value' = current.revision /\ Files!Value = current.revision
    BY <1>3, <2>1, <2>2, LoadedValue, LoadedNextValue DEF Files!SyncAll
  <2>4. QED
    BY <1>3, <2>2, <2>3 DEF Files!SyncAll, FilesStutter
<1>4. CASE Files!ReplaceFile
  <2>1. /\ current.whole /\ current \in FileType /\ Files!NoFile \in FileType
        /\ current.revision = destination.revision + 1
    BY <1>4
       DEF Files!ReplaceFile, FilesLoaded, Writing, Files!NoFile, FileType, Revisions,
           FilesAssumed
  <2>2. FileTypeInv'
    BY <1>4, <2>1 DEF Files!ReplaceFile, Phases
  <2>3. \A f \in temporaries : f.whole => f.revision <= current.revision
    BY <1>4, <2>1 DEF Files!ReplaceFile, FilesLoaded, FileType, Revisions, FilesAssumed
  <2>4. FilesLoaded'
    BY <1>4, <2>1, <2>3 DEF Files!ReplaceFile, FilesLoaded, Writing
  <2>5. FilesDurable'
    BY <1>4, <2>1
       DEF Files!ReplaceFile, FilesLoaded, FilesDurable, FileType, Revisions, FilesAssumed
  <2>6. Files!Value' = current.revision /\ Files!Value = current.revision
    BY <1>4, <2>2, <2>4, <2>5, LoadedValue, LoadedNextValue DEF Files!ReplaceFile
  <2>7. QED
    BY <1>4, <2>2, <2>4, <2>5, <2>6 DEF Files!ReplaceFile, FilesStutter
<1>5. QED
  BY <1>1, <1>2, <1>3, <1>4

LEMMA StopStep ==
    ASSUME FilesAssumed, FileInv, Files!Stop
    PROVE  FileInv' /\ FilesStutter
<1> USE DEF FileInv, FileTypeInv
<1>1. Files!NoFile \in FileType /\ ~Files!NoFile.whole
  BY DEF Files!NoFile, FileType, Revisions, FilesAssumed
<1>2. "power" \notin faults
  BY DEF Files!Stop, FilesAssumed
<1>3. FileInv'
  BY <1>1, <1>2 DEF Files!Stop, FilesLoaded, FilesDurable, Files!Existing, Writing, Phases
<1>4. \A f : f.whole => (f \in AllFiles' <=> f \in AllFiles)
  BY <1>1 DEF Files!Stop, AllFiles, Files!Existing
<1>5. {g \in AllFiles' : g.whole} = {g \in AllFiles : g.whole}
  BY <1>4
<1>6. Files!Value' = Files!Value
  BY <1>5, ValueIsBest DEF Best
<1>7. QED
  BY <1>3, <1>6 DEF Files!Stop, FilesStutter

\* What is left of a file: no more than there was, and all of it if it was synced.
LEMMA SettledIs ==
    ASSUME NEW f \in FileType, NEW torn
    PROVE  /\ Files!Settled(f, f \in torn) \in FileType
           /\ Files!Settled(f, f \in torn).revision = f.revision /\ Files!Settled(f, f \in torn).synced
           /\ Files!Settled(f, f \in torn).whole => f.whole
           /\ f.synced => Files!Settled(f, f \in torn).whole = f.whole
  BY DEF Files!Settled, FileType

LEMMA LosePowerStep ==
    ASSUME FilesAssumed, FileInv, Files!LosePower
    PROVE  FileInv' /\ Files!Register!Lose
<1> USE DEF FileInv, FileTypeInv
<1>1. PICK reverted \in BOOLEAN, torn \in SUBSET (temporaries \cup {current, destination}) :
         LET left == temporaries \cup {current} \cup (IF reverted THEN {destination} ELSE {})
         IN /\ destination' = LET f == IF reverted THEN named ELSE destination
                              IN Files!Settled(f, f \in torn)
            /\ \E survivors \in SUBSET Files!Existing(left) :
                 temporaries' = {Files!Settled(f, f \in torn) : f \in survivors}
  BY DEF Files!LosePower
<1> DEFINE old == IF reverted THEN named ELSE destination
<1>2. old \in FileType /\ destination' = Files!Settled(old, old \in torn)
  BY <1>1
<1>3. /\ destination' \in FileType /\ destination'.revision = old.revision /\ destination'.synced
      /\ destination'.whole => old.whole
      /\ old.synced => destination'.whole = old.whole
  BY <1>2, SettledIs
<1>4. \A g \in temporaries' : \E f \in AllFiles :
          /\ f \in FileType /\ g = Files!Settled(f, f \in torn)
  BY <1>1 DEF AllFiles, Files!Existing
<1>5. \A g \in temporaries' : /\ g \in FileType /\ g.synced
                              /\ g.whole => \E f \in AllFiles : f.whole /\ f.revision = g.revision
  BY <1>4, SettledIs
<1>6. /\ named' = destination' /\ current' = Files!NoFile /\ phase' = "idle"
      /\ reported' = reported /\ faults' = faults /\ "power" \in faults
  BY DEF Files!LosePower
<1>7. Files!NoFile \in FileType /\ ~Files!NoFile.whole
  BY DEF Files!NoFile, FileType, Revisions, FilesAssumed
<1>8. FileTypeInv' /\ FilesLoaded'
  BY <1>3, <1>5, <1>6, <1>7 DEF FilesLoaded, Writing, Phases
<1>9. /\ old.synced
      /\ reported > 0 => old.whole /\ old.revision >= reported
      /\ old.whole => \E f \in AllFiles : f.whole /\ f.revision >= old.revision
  <2>1. destination \in AllFiles /\ destination.revision \in Nat /\ named.revision \in Nat
    BY DEF AllFiles, FileType, Revisions, FilesAssumed
  <2>2. named.whole => named = destination \/ (destination.whole /\ named.revision <= destination.revision)
    BY <1>6 DEF FilesDurable, FilesLoaded
  <2>3. QED
    BY <1>6, <2>1, <2>2 DEF FilesDurable
<1> HIDE DEF old
<1>10. FilesDurable'
  BY <1>3, <1>5, <1>6, <1>8, <1>9 DEF FilesDurable
<1>11. \A g \in AllFiles' : g.whole => \E f \in AllFiles : f.whole /\ f.revision >= g.revision
  BY <1>3, <1>5, <1>6, <1>7, <1>9 DEF AllFiles, FileType, Revisions, FilesAssumed
<1>12. Files!Value' <= Files!Value
  <2>1. CASE Files!Value' = 0
    BY <2>1, ValueType DEF Revisions, FilesAssumed
  <2>2. CASE \E g \in AllFiles' : g.whole /\ g.revision = Files!Value'
    <3>1. PICK f \in AllFiles : f.whole /\ f.revision >= Files!Value'
      BY <1>11, <2>2
    <3>2. f.revision <= Files!Value /\ f.revision \in Nat /\ Files!Value \in Nat /\ Files!Value' \in Nat
      BY <1>8, <3>1, ValueType, NextValueType
         DEF AllFiles, FileType, Revisions, FilesAssumed
    <3>3. QED
      BY <3>1, <3>2
  <2>3. QED
    BY <1>8, <2>1, <2>2, NextValueType
<1>13. reported <= Files!Value'
  <2>1. reported > 0 => destination'.whole /\ destination'.revision >= reported
    BY <1>3, <1>9
  <2>2. destination'.whole => destination'.revision <= Files!Value'
    BY <1>8, NextValueType DEF AllFiles
  <2>3. destination'.revision \in Nat /\ Files!Value' \in Nat /\ reported \in Nat
    BY <1>3, <1>8, NextValueType DEF FileType, Revisions, FilesAssumed
  <2>4. QED
    BY <2>1, <2>2, <2>3
<1>14. Files!Value' \in Nat /\ Files!Value \in Nat /\ reported \in Nat
  BY <1>8, ValueType, NextValueType DEF Revisions, FilesAssumed
<1>15. QED
  BY <1>6, <1>8, <1>10, <1>12, <1>13, <1>14 DEF Files!Register!Lose

LEMMA FileSteps ==
    ASSUME FilesAssumed, FileInv, [Files!Next]_(Files!vars)
    PROVE  FileInv' /\ [Files!Register!Next]_<<Files!Value, reported>>
<1>1. CASE Files!Next
  BY <1>1, LoadStep, ReportStep, WriteStep, StopStep, LosePowerStep
     DEF Files!Next, FilesStutter, Files!Register!Next
<1>2. CASE UNCHANGED Files!vars
  <2>1. FileInv'
    BY <1>2 DEF Files!vars, FileInv, FileTypeInv, FilesLoaded, FilesDurable
  <2>2. Files!Value' = Files!Value /\ reported' = reported
    BY <1>2 DEF Files!vars, Files!Value, Files!Candidates, Files!Existing
  <2>3. QED
    BY <2>1, <2>2
<1>3. QED
  BY <1>1, <1>2

\* load_locked and persist_locked, for every number of revisions: the files of a
\* ledger behave as one register.  A write takes hold at once or not at all, and
\* what a caller was told is never lost, where operations stop at any step, or
\* where the power goes at any step (with both, it may be; see the README).
THEOREM FilesAreARegister ==
    ASSUME FilesAssumed
    PROVE  Files!Spec => Files!ImplementsRegister
  <1>1. Files!Init => Files!Register!Init
    BY InitValue DEF Files!Register!Init
  <1>2. Files!Init => FileInv
    BY FilesInitInv
  <1>3. FileInv /\ [Files!Next]_(Files!vars) => FileInv' /\ [Files!Register!Next]_<<Files!Value, reported>>
    BY FileSteps
  <1>4. QED
    BY <1>1, <1>2, <1>3, PTL DEF Files!Spec, Files!ImplementsRegister, Files!Register!Spec

------------------------
(* The transcript: numbers and loops. *)

\* A set of numbers that is not empty has a least one.
LEMMA Smallest ==
    ASSUME NEW T, T \subseteq Nat, T # {}
    PROVE  \E x \in T : \A y \in T : x <= y
<1>1. IsWellFoundedOn(OpToRel(<, Nat), Nat)
  BY NatLessThanWellFounded
<1>2. PICK t \in T : \A u \in T : ~(<<u, t>> \in OpToRel(<, Nat))
  BY <1>1, WFMin
<1>3. \A u \in T : ~(u < t)
  BY <1>2 DEF OpToRel
<1>4. \A u \in T : u \in Nat /\ t \in Nat
  OBVIOUS
<1>5. QED
  BY <1>3, <1>4

\* A set of numbers closed under the successor holds them all.
LEMMA Counting ==
    ASSUME NEW T, 0 \in T, \A n \in Nat : n \in T => n + 1 \in T
    PROVE  Nat \subseteq T
<1> SUFFICES ASSUME Nat \ T # {} PROVE FALSE
  OBVIOUS
<1>1. PICK x \in Nat \ T : \A y \in Nat \ T : x <= y
  BY Smallest
<1>2. x # 0 /\ x - 1 \in Nat /\ (x - 1) + 1 = x
  BY <1>1
<1>3. x - 1 \in T
  BY <1>1, <1>2
<1>4. QED
  BY <1>1, <1>2, <1>3

\* A set of numbers under some bound has a greatest one.
LEMMA GreatestOf ==
    ASSUME NEW T, T \subseteq Nat, T # {}, NEW b \in Nat, \A x \in T : x <= b
    PROVE  Max(T) \in T /\ \A y \in T : y <= Max(T)
<1> DEFINE Bounds == {n \in Nat : \A x \in T : x <= n}
<1>1. Bounds \subseteq Nat /\ Bounds # {}
  OBVIOUS
<1>2. PICK n \in Bounds : \A k \in Bounds : n <= k
  <2> HIDE DEF Bounds
  <2>1. QED
    BY <1>1, Smallest
<1>3. n \in T
  <2> SUFFICES ASSUME n \notin T PROVE FALSE
    OBVIOUS
  <2>1. PICK x \in T : TRUE
    OBVIOUS
  <2>2. n \in Nat /\ x \in Nat /\ x <= n /\ n # 0
    BY <1>2, <2>1
  <2>3. n - 1 \in Nat /\ \A y \in T : y <= n - 1
    BY <1>2, <2>2
  <2>4. n - 1 \in Bounds
    BY <2>3
  <2>5. n <= n - 1
    BY <1>2, <2>4
  <2>6. QED
    BY <2>2, <2>5
<1>4. \E m \in T : \A y \in T : m >= y
  BY <1>2, <1>3
<1>5. Max(T) \in T /\ \A y \in T : Max(T) >= y
  BY <1>4 DEF Max
<1>6. QED
  BY <1>5

\* The chosen least element is one of the set, and least.
LEMMA LeastOf ==
    ASSUME NEW T, T \subseteq Nat, T # {}
    PROVE  Min(T) \in T /\ \A y \in T : Min(T) <= y
BY Smallest DEF Min

\* The values of a finite sequence of numbers have a bound.
LEMMA Bounded ==
    ASSUME NEW m \in Nat, NEW f \in [1 .. m -> Nat]
    PROVE  \E b \in Nat : \A i \in 1 .. m : f[i] <= b
<1> DEFINE T == {n \in Nat : n <= m => \E b \in Nat : \A i \in 1 .. n : f[i] <= b}
<1>1. 0 \in T
  <2>1. \A i \in 1 .. 0 : f[i] <= 0
    OBVIOUS
  <2>2. QED
    BY <2>1
<1>2. ASSUME NEW n \in Nat, n \in T PROVE n + 1 \in T
  <2> SUFFICES ASSUME n + 1 <= m PROVE \E b \in Nat : \A i \in 1 .. n + 1 : f[i] <= b
    OBVIOUS
  <2>1. PICK b \in Nat : \A i \in 1 .. n : f[i] <= b
    BY <1>2
  <2>2. f[n + 1] \in Nat
    OBVIOUS
  <2>3. \A i \in 1 .. n + 1 : i \in 1 .. n \/ i = n + 1
    OBVIOUS
  <2>4. b + f[n + 1] \in Nat /\ \A i \in 1 .. n + 1 : f[i] <= b + f[n + 1]
    BY <2>1, <2>2, <2>3
  <2>5. QED
    BY <2>4
<1>3. Nat \subseteq T
  <2> HIDE DEF T
  <2>1. QED
    BY <1>1, <1>2, Counting
<1>4. m \in T
  BY <1>3
<1>5. QED
  BY <1>4

\* The states of a loop of m steps that begins with a.
IsRun(f, D, a, m, S) ==
    f \in [0 .. m -> D] /\ f[0] = a /\ \A n \in 1 .. m : f[n] = S[n][f[n - 1]]

\* They exist, for a body that keeps a set.
LEMMA LoopExists ==
    ASSUME NEW D, NEW a, NEW m, NEW S, a \in D, m \in Nat, S \in [1 .. m -> [D -> D]]
    PROVE  \E f : IsRun(f, D, a, m, S)
<1> DEFINE Run(k) == \E f \in [0 .. k -> D] : f[0] = a /\ \A n \in 1 .. k : f[n] = S[n][f[n - 1]]
           T == {k \in Nat : k <= m => Run(k)}
<1>1. 0 \in T
  <2> DEFINE f == [n \in 0 .. 0 |-> a]
  <2>1. f \in [0 .. 0 -> D] /\ f[0] = a /\ 1 .. 0 = {}
    OBVIOUS
  <2>2. QED
    BY <2>1
<1>2. ASSUME NEW k \in Nat, k \in T PROVE k + 1 \in T
  <2> SUFFICES ASSUME k + 1 <= m PROVE Run(k + 1)
    OBVIOUS
  <2>0. Run(k)
    BY <1>2
  <2>1. PICK f \in [0 .. k -> D] : f[0] = a /\ \A n \in 1 .. k : f[n] = S[n][f[n - 1]]
    BY <2>0
  <2> DEFINE g == [n \in 0 .. k + 1 |-> IF n <= k THEN f[n] ELSE S[k + 1][f[k]]]
  <2>2. f[k] \in D /\ k + 1 \in 1 .. m
    BY <2>1
  <2>3. S[k + 1][f[k]] \in D
    BY <2>2
  <2>4. g \in [0 .. k + 1 -> D]
    BY <2>1, <2>3
  <2>5. g[0] = a
    BY <2>1
  <2>6. ASSUME NEW n \in 1 .. k + 1 PROVE g[n] = S[n][g[n - 1]]
    <3>1. CASE n <= k
      BY <2>1, <3>1
    <3>2. CASE n = k + 1
      BY <2>1, <3>2
    <3>3. QED
      BY <3>1, <3>2
  <2>7. QED
    BY <2>4, <2>5, <2>6
<1>3. Nat \subseteq T
  <2> HIDE DEF T
  <2>1. QED
    BY <1>1, <1>2, Counting
<1>4. m \in T
  BY <1>3
<1>5. QED
  BY <1>4 DEF IsRun

------------------------
(* The order of the turns. *)

\* An order of n turns: each has one place.
Orders(n) == {o \in [1 .. n -> 1 .. n] : \A i \in 1 .. n : \E k \in 1 .. n : o[k] = i}

\* The stable sort is one, and of two turns the earlier comes first.
LEMMA ChronologicalSorts ==
    ASSUME NEW raw \in Seq(Spans)
    PROVE  /\ Chronological(raw) \in Orders(Len(raw))
           /\ \A k, l \in 1 .. Len(raw) :
                k < l => Earlier(raw, Chronological(raw)[k], Chronological(raw)[l])
<1> DEFINE n == Len(raw)
           I == 1 .. n
           Lower(i) == {j \in I : Earlier(raw, j, i)}
           place == [i \in I |-> Cardinality(Lower(i)) + 1]
<1>1. n \in Nat /\ DOMAIN raw = I /\ IsFiniteSet(I) /\ Cardinality(I) = n
  <2>1. n \in Nat /\ DOMAIN raw = I
    OBVIOUS
  <2>2. QED
    BY <2>1, FS_Interval, SMTT(30)
<1>2. \A i \in I : i \in Nat /\ raw[i].start \in Nat
  <2>1. \A i \in I : i \in Nat /\ raw[i] \in Spans
    OBVIOUS
  <2>2. QED
    BY <2>1 DEF Spans
<1>3. ASSUME NEW i \in I
      PROVE  /\ IsFiniteSet(Lower(i)) /\ Cardinality(Lower(i)) \in Nat
             /\ Cardinality(Lower(i)) < n
  <2>1. i \notin Lower(i)
    BY <1>2 DEF Earlier
  <2>2. Lower(i) \in SUBSET I /\ Lower(i) # I
    BY <2>1
  <2> HIDE DEF Lower, I, n
  <2>3. /\ IsFiniteSet(Lower(i)) /\ Cardinality(Lower(i)) <= n
        /\ (n = Cardinality(Lower(i)) => I = Lower(i))
    BY <1>1, <2>2, FS_Subset
  <2>4. Cardinality(Lower(i)) \in Nat
    BY <2>3, FS_CardinalityType
  <2>5. QED
    BY <1>1, <2>2, <2>3, <2>4
<1>4. ASSUME NEW i \in I, NEW j \in I, Earlier(raw, i, j)
      PROVE  place[i] < place[j]
  <2>1. \A k \in Lower(i) : Earlier(raw, k, j) /\ k \in I
    BY <1>2, <1>4 DEF Earlier
  <2>2. i \in Lower(j) /\ i \notin Lower(i) /\ Lower(i) \subseteq Lower(j)
    BY <1>2, <1>4, <2>1 DEF Earlier
  <2>3. /\ IsFiniteSet(Lower(j)) /\ Cardinality(Lower(i)) \in Nat
        /\ Cardinality(Lower(j)) \in Nat
    BY <1>3
  <2>4. place[i] = Cardinality(Lower(i)) + 1 /\ place[j] = Cardinality(Lower(j)) + 1
    OBVIOUS
  <2> HIDE DEF Lower, place
  <2>5. /\ Cardinality(Lower(i)) <= Cardinality(Lower(j))
        /\ (Cardinality(Lower(j)) = Cardinality(Lower(i)) => Lower(j) = Lower(i))
    BY <2>2, <2>3, FS_Subset
  <2>6. QED
    BY <2>2, <2>3, <2>4, <2>5
<1>5. \A i \in I : place[i] \in 1 .. n
  <2> SUFFICES ASSUME NEW i \in I PROVE place[i] \in 1 .. n
    OBVIOUS
  <2>1. place[i] = Cardinality(Lower(i)) + 1
    OBVIOUS
  <2> HIDE DEF place, Lower, n
  <2>2. QED
    BY <1>1, <1>3, <2>1
<1>6. place \in Injection(I, 1 .. n)
  <2>1. place \in [I -> 1 .. n]
    BY <1>5
  <2>2. ASSUME NEW i \in I, NEW j \in I, i # j PROVE place[i] # place[j]
    <3>1. Earlier(raw, i, j) \/ Earlier(raw, j, i)
      BY <1>2, <2>2 DEF Earlier
    <3>2. place[i] \in 1 .. n /\ place[j] \in 1 .. n
      BY <1>5
    <3> HIDE DEF place
    <3>3. QED
      BY <1>4, <3>1, <3>2
  <2> HIDE DEF place
  <2>3. QED
    BY <2>1, <2>2 DEF Injection, IsInjective
<1>7. place \in Surjection(I, 1 .. n)
  <2> HIDE DEF place
  <2>1. QED
    BY <1>1, <1>6, FS_Injection
<1> DEFINE at == [k \in I |-> CHOOSE i \in I : Cardinality(Lower(i)) + 1 = k]
<1>8. \A k \in I : at[k] \in I /\ place[at[k]] = k
  <2>1. \A i \in I : place[i] = Cardinality(Lower(i)) + 1
    OBVIOUS
  <2> HIDE DEF place, Lower
  <2>2. \A k \in 1 .. n : \E i \in I : place[i] = k
    BY <1>7 DEF Surjection
  <2>3. QED
    BY <2>1, <2>2
<1>9. \A i \in I : at[place[i]] = i
  <2> HIDE DEF place, at
  <2>1. \A i, j \in I : place[i] = place[j] => i = j
    BY <1>6 DEF Injection, IsInjective
  <2>2. QED
    BY <1>5, <1>8, <2>1
<1>10. Chronological(raw) = at
  <2>1. DOMAIN raw = I
    BY <1>1
  <2>2. Chronological(raw) =
          [k \in DOMAIN raw |-> CHOOSE i \in DOMAIN raw :
              Cardinality({j \in DOMAIN raw : Earlier(raw, j, i)}) + 1 = k]
    BY DEF Chronological
  <2> HIDE DEF I
  <2>3. QED
    BY <2>1, <2>2
<1>11. at \in Orders(n)
  <2> HIDE DEF place
  <2>1. at \in [I -> I]
    BY <1>8
  <2> HIDE DEF at
  <2>2. QED
    BY <1>5, <1>9, <2>1 DEF Orders
<1>12. ASSUME NEW k \in I, NEW l \in I, k < l
       PROVE  Earlier(raw, at[k], at[l])
  <2> HIDE DEF at, place
  <2>1. at[k] \in I /\ at[l] \in I /\ place[at[k]] = k /\ place[at[l]] = l
    BY <1>8
  <2>2. at[k] # at[l] /\ k \in Nat /\ l \in Nat
    BY <1>2, <1>12, <2>1
  <2>3. Earlier(raw, at[k], at[l]) \/ Earlier(raw, at[l], at[k])
    BY <1>2, <2>1, <2>2 DEF Earlier
  <2>4. ~Earlier(raw, at[l], at[k])
    BY <1>4, <1>12, <2>1, <2>2
  <2>5. QED
    BY <2>3, <2>4
<1>13. QED
  BY <1>10, <1>11, <1>12

\* In the order that is taken, each speaker's turns stay as they were emitted.
LEMMA OrderKeeps ==
    ASSUME NEW raw \in Seq(Spans), plan.timing = "v3" => ~Reorders(raw)
    PROVE  /\ Order(raw) \in Orders(Len(raw))
           /\ \A k, l \in 1 .. Len(raw) :
                k < l /\ raw[Order(raw)[k]].who = raw[Order(raw)[l]].who =>
                    Order(raw)[k] < Order(raw)[l]
<1>1. DOMAIN raw = 1 .. Len(raw) /\ Len(raw) \in Nat
  OBVIOUS
<1>2. CASE plan.timing = "v3"
  <2>1. Order(raw) = Chronological(raw) /\ ~Reorders(raw)
    BY <1>2 DEF Order
  <2>2. Chronological(raw) \in Orders(Len(raw))
    BY ChronologicalSorts
  <2> DEFINE o == Chronological(raw)
  <2>3. ASSUME NEW k \in 1 .. Len(raw), NEW l \in 1 .. Len(raw), k < l,
               raw[o[k]].who = raw[o[l]].who
        PROVE  o[k] < o[l]
    <3>1. Earlier(raw, o[k], o[l])
      BY <2>3, ChronologicalSorts
    <3>2. o[k] \in 1 .. Len(raw) /\ o[l] \in 1 .. Len(raw)
      BY <2>2 DEF Orders
    <3> HIDE DEF o
    <3>a. raw[o[k]] \in Spans /\ raw[o[l]] \in Spans
      BY <3>2
    <3>3. raw[o[k]].start \in Nat /\ raw[o[l]].start \in Nat
      BY <3>a DEF Spans
    <3>4. o[k] \in Nat /\ o[l] \in Nat /\ o[k] # o[l]
      BY <3>1, <3>2, <3>3 DEF Earlier
    <3>5. ~(o[l] < o[k] /\ raw[o[k]].start < raw[o[l]].start)
      BY <1>1, <2>1, <2>3, <3>2 DEF Reorders
    <3>6. QED
      BY <3>1, <3>3, <3>4, <3>5 DEF Earlier
  <2>4. QED
    BY <2>1, <2>2, <2>3
<1>3. CASE plan.timing # "v3"
  <2>1. Order(raw) = [i \in 1 .. Len(raw) |-> i]
    BY <1>1, <1>3 DEF Order
  <2>2. Order(raw) \in Orders(Len(raw))
    BY <2>1 DEF Orders
  <2>3. QED
    BY <2>1, <2>2
<1>4. QED
  BY <1>2, <1>3


\* Each turn's place in the order is one of the answer.
LEMMA OrderTypes ==
    ASSUME NEW raw \in Seq(Turns)
    PROVE  /\ Order(raw) \in [1 .. Len(raw) -> 1 .. Len(raw)]
           /\ Order(raw) \in Seq(Nat) /\ Len(Order(raw)) = Len(raw)
<1>0. raw \in Seq(Spans) /\ Len(raw) \in Nat
  BY MossAssumption
<1>1. Order(raw) \in [1 .. Len(raw) -> 1 .. Len(raw)]
  <2>1. CASE plan.timing = "v3"
    BY <1>0, <2>1, ChronologicalSorts DEF Order, Orders
  <2>2. CASE plan.timing # "v3"
    BY <1>0, <2>2 DEF Order
  <2>3. QED
    BY <2>1, <2>2
<1>2. QED
  BY <1>0, <1>1

------------------------
(* Sequences of sequences. *)

\* FlattenSeq joins the sequences one by one.
LEMMA FlattenIs ==
    ASSUME NEW X, NEW seqs \in Seq(Seq(X))
    PROVE  \E f \in [0 .. Len(seqs) -> Seq(X)] :
              /\ f[0] = <<>> /\ FlattenSeq(seqs) = f[Len(seqs)]
              /\ \A n \in 1 .. Len(seqs) : f[n] = f[n - 1] \o seqs[n]
<1> DEFINE m == Len(seqs)
           D == Seq(X)
           S == [n \in 1 .. m |-> [x \in D |-> x \o seqs[n]]]
           Is(f) == f = [i \in 1 .. m |-> IF i = 1 THEN seqs[i] ELSE f[i - 1] \o seqs[i]]
           flatten == CHOOSE f : Is(f)
<1>0. m \in Nat /\ \A n \in 1 .. m : seqs[n] \in D
  OBVIOUS
<1>1. S \in [1 .. m -> [D -> D]] /\ <<>> \in D
  BY <1>0
<1>2. PICK f : IsRun(f, D, <<>>, m, S)
  <2> HIDE DEF S, D, m
  <2>1. QED
    BY <1>0, <1>1, LoopExists
<1>b. f \in [0 .. m -> D] /\ f[0] = <<>>
  BY <1>2 DEF IsRun
<1>3. \A n \in 1 .. m : f[n - 1] \in D /\ f[n] = f[n - 1] \o seqs[n]
  <2>1. \A n \in 1 .. m : n - 1 \in 0 .. m
    BY <1>0
  <2>2. \A n \in 1 .. m, x \in D : S[n][x] = x \o seqs[n]
    OBVIOUS
  <2> HIDE DEF S, D, m
  <2>3. QED
    BY <1>2, <1>b, <2>1, <2>2 DEF IsRun
<1>a. m # 0 => f[1] = seqs[1]
  <2> SUFFICES ASSUME m # 0 PROVE f[1] = seqs[1]
    OBVIOUS
  <2>1. 1 \in 1 .. m /\ seqs[1] \in Seq(X)
    BY <1>0
  <2>2. f[0] = <<>>
    BY <1>b
  <2>3. f[1] = f[1 - 1] \o seqs[1]
    BY <1>3, <2>1
  <2>4. f[1 - 1] = f[0]
    OBVIOUS
  <2>5. <<>> \o seqs[1] = seqs[1]
    BY <2>1
  <2>6. QED
    BY <2>2, <2>3, <2>4, <2>5
<1>4. CASE m = 0
  <2>1. seqs = <<>> /\ FlattenSeq(seqs) = seqs
    BY <1>4 DEF FlattenSeq
  <2>2. QED
    BY <1>b, <1>3, <1>4, <2>1
<1>5. CASE m # 0
  <2> DEFINE g == [i \in 1 .. m |-> f[i]]
             h == [i \in 1 .. m |-> IF i = 1 THEN seqs[i] ELSE g[i - 1] \o seqs[i]]
  <2>1. ASSUME NEW i \in 1 .. m PROVE g[i] = h[i]
    <3>1. CASE i = 1
      BY <1>a, <1>5, <3>1
    <3>2. CASE i # 1
      <4>1. i - 1 \in 1 .. m
        BY <1>0, <3>2
      <4>2. QED
        BY <1>3, <3>2, <4>1
    <3>3. QED
      BY <3>1, <3>2
  <2>2. g = h
    BY <2>1
  <2>3. Is(g)
    BY <2>2
  <2>4. Is(flatten)
    BY <2>3
  <2>5. \A i \in 1 .. m : flatten[i] = (IF i = 1 THEN seqs[i] ELSE flatten[i - 1] \o seqs[i])
    <3> DEFINE k == [i \in 1 .. m |-> IF i = 1 THEN seqs[i] ELSE flatten[i - 1] \o seqs[i]]
    <3>1. flatten = k
      BY <2>4
    <3> HIDE DEF flatten, m
    <3>2. \A i \in 1 .. m : k[i] = (IF i = 1 THEN seqs[i] ELSE flatten[i - 1] \o seqs[i])
      OBVIOUS
    <3> HIDE DEF k
    <3>3. QED
      BY <3>1, <3>2, SMTT(30)
  <2>6. FlattenSeq(seqs) = flatten[m]
    BY <1>5 DEF FlattenSeq
  <2> DEFINE T == {n \in Nat : n \in 1 .. m => flatten[n] = f[n]}
  <2> HIDE DEF flatten, m
  <2>7. 0 \in T
    BY <1>0
  <2>8. ASSUME NEW n \in Nat, n \in T PROVE n + 1 \in T
    <3> SUFFICES ASSUME n + 1 \in 1 .. m PROVE flatten[n + 1] = f[n + 1]
      OBVIOUS
    <3>1. CASE n = 0
      <4>1. flatten[1] = seqs[1]
        BY <2>5, <3>1
      <4>2. QED
        BY <1>a, <1>5, <3>1, <4>1
    <3>2. CASE n # 0
      <4>1. n \in 1 .. m /\ n + 1 # 1 /\ (n + 1) - 1 = n
        BY <1>0, <3>2
      <4>2. flatten[n] = f[n]
        BY <2>8, <4>1
      <4>3. flatten[n + 1] = flatten[n] \o seqs[n + 1]
        BY <2>5, <4>1
      <4>4. f[n + 1] = f[n] \o seqs[n + 1]
        BY <1>3, <4>1
      <4>5. QED
        BY <4>2, <4>3, <4>4
    <3>3. QED
      BY <3>1, <3>2
  <2>9. Nat \subseteq T
    <3> HIDE DEF T
    <3>1. QED
      BY <2>7, <2>8, Counting
  <2>10. m \in T /\ m \in 1 .. m
    BY <1>0, <1>5, <2>9
  <2>11. QED
    BY <1>b, <1>3, <2>6, <2>10 DEF m
<1>6. QED
  BY <1>4, <1>5

\* The joined sequence has the same elements' type, and nothing joins to nothing.
LEMMA FlattenTypes ==
    ASSUME NEW X, NEW seqs \in Seq(Seq(X))
    PROVE  FlattenSeq(seqs) \in Seq(X) /\ (seqs = <<>> => FlattenSeq(seqs) = <<>>)
<1>1. PICK f \in [0 .. Len(seqs) -> Seq(X)] :
        /\ f[0] = <<>> /\ FlattenSeq(seqs) = f[Len(seqs)]
        /\ \A n \in 1 .. Len(seqs) : f[n] = f[n - 1] \o seqs[n]
  BY FlattenIs
<1>2. Len(seqs) \in 0 .. Len(seqs) /\ (seqs = <<>> => Len(seqs) = 0)
  OBVIOUS
<1>3. QED
  BY <1>1, <1>2

\* A sequence more is joined at the end.
LEMMA FlattenAppend ==
    ASSUME NEW X, NEW seqs \in Seq(Seq(X)), NEW s \in Seq(X)
    PROVE  FlattenSeq(Append(seqs, s)) = FlattenSeq(seqs) \o s
<1> DEFINE m == Len(seqs)
           more == Append(seqs, s)
<1>1. /\ m \in Nat /\ more \in Seq(Seq(X)) /\ Len(more) = m + 1
      /\ more[m + 1] = s /\ \A n \in 1 .. m : more[n] = seqs[n]
  OBVIOUS
<1>2. PICK f \in [0 .. m -> Seq(X)] :
        /\ f[0] = <<>> /\ FlattenSeq(seqs) = f[m]
        /\ \A n \in 1 .. m : f[n] = f[n - 1] \o seqs[n]
  BY FlattenIs
<1>3. PICK g \in [0 .. m + 1 -> Seq(X)] :
        /\ g[0] = <<>> /\ FlattenSeq(more) = g[m + 1]
        /\ \A n \in 1 .. m + 1 : g[n] = g[n - 1] \o more[n]
  <2> HIDE DEF more, m
  <2>1. PICK g \in [0 .. Len(more) -> Seq(X)] :
        /\ g[0] = <<>> /\ FlattenSeq(more) = g[Len(more)]
        /\ \A n \in 1 .. Len(more) : g[n] = g[n - 1] \o more[n]
    BY <1>1, FlattenIs
  <2>2. QED
    BY <1>1, <2>1
<1> DEFINE T == {n \in Nat : n <= m => g[n] = f[n]}
<1> HIDE DEF more, m
<1>4. 0 \in T
  BY <1>2, <1>3
<1>5. ASSUME NEW n \in Nat, n \in T PROVE n + 1 \in T
  <2> SUFFICES ASSUME n + 1 <= m PROVE g[n + 1] = f[n + 1]
    OBVIOUS
  <2>1. n + 1 \in 1 .. m /\ n + 1 \in 1 .. m + 1 /\ (n + 1) - 1 = n
    BY <1>1
  <2>2. g[n] = f[n] /\ more[n + 1] = seqs[n + 1]
    BY <1>1, <1>5, <2>1
  <2>3. g[n + 1] = g[n] \o more[n + 1] /\ f[n + 1] = f[n] \o seqs[n + 1]
    BY <1>2, <1>3, <2>1
  <2>4. QED
    BY <2>2, <2>3
<1>6. Nat \subseteq T
  <2> HIDE DEF T
  <2>1. QED
    BY <1>4, <1>5, Counting
<1>7. g[m] = f[m]
  BY <1>1, <1>6
<1>8. m + 1 \in 1 .. m + 1 /\ (m + 1) - 1 = m
  BY <1>1
<1>9. g[m + 1] = g[m] \o s
  BY <1>1, <1>3, <1>8
<1>10. QED
  BY <1>2, <1>3, <1>7, <1>9 DEF more

\* Every element of "all" comes from a part, the elements of earlier parts first.
Parts(all, seqs) ==
    \A i \in 1 .. Len(all) : \E w \in 1 .. Len(seqs) : \E k \in 1 .. Len(seqs[w]) : all[i] = seqs[w][k]

InTurn(x, y, seqs) ==
    \E w, u \in 1 .. Len(seqs) : \E k \in 1 .. Len(seqs[w]), l \in 1 .. Len(seqs[u]) :
        x = seqs[w][k] /\ y = seqs[u][l] /\ (w < u \/ (w = u /\ k < l))

PartsInOrder(all, seqs) ==
    \A i, j \in 1 .. Len(all) : i < j => InTurn(all[i], all[j], seqs)

\* One part more keeps that.
LEMMA PartsAppend ==
    ASSUME NEW X, NEW seqs \in Seq(Seq(X)), NEW all \in Seq(X), NEW s \in Seq(X),
           Parts(all, seqs), PartsInOrder(all, seqs)
    PROVE  Parts(all \o s, Append(seqs, s)) /\ PartsInOrder(all \o s, Append(seqs, s))
<1> DEFINE more == Append(seqs, s)
           new == all \o s
           m == Len(seqs)
           n == Len(all)
<1>1. /\ m \in Nat /\ Len(more) = m + 1 /\ more[m + 1] = s
      /\ \A w \in 1 .. m : more[w] = seqs[w] /\ Len(seqs[w]) \in Nat
  OBVIOUS
<1>2. /\ n \in Nat /\ Len(s) \in Nat /\ Len(new) = n + Len(s)
      /\ \A i \in 1 .. n : new[i] = all[i]
      /\ \A i \in 1 .. Len(new) : i \notin 1 .. n => i - n \in 1 .. Len(s) /\ new[i] = s[i - n]
  OBVIOUS
<1> HIDE DEF more, new, m, n
<1>3. \A w \in 1 .. m : w \in 1 .. m + 1 /\ w < m + 1
  BY <1>1
<1>4. m + 1 \in 1 .. m + 1
  BY <1>1
<1>5. \A i \in 1 .. n : \E w \in 1 .. m : \E k \in 1 .. Len(seqs[w]) : all[i] = seqs[w][k]
  BY DEF Parts, m, n
<1>6. \A i, j \in 1 .. n : i < j =>
        \E w, u \in 1 .. m : \E k \in 1 .. Len(seqs[w]), l \in 1 .. Len(seqs[u]) :
            all[i] = seqs[w][k] /\ all[j] = seqs[u][l] /\ (w < u \/ (w = u /\ k < l))
  BY DEF PartsInOrder, InTurn, m, n
<1>7. Parts(new, more)
  <2> SUFFICES ASSUME NEW i \in 1 .. Len(new)
               PROVE  \E w \in 1 .. m + 1 : \E k \in 1 .. Len(more[w]) : new[i] = more[w][k]
    BY <1>1 DEF Parts
  <2>1. CASE i \in 1 .. n
    <3>1. PICK w \in 1 .. m : \E k \in 1 .. Len(seqs[w]) : all[i] = seqs[w][k]
      BY <1>5, <2>1
    <3>2. more[w] = seqs[w] /\ w \in 1 .. m + 1 /\ new[i] = all[i]
      BY <1>1, <1>2, <1>3, <2>1
    <3>3. QED
      BY <3>1, <3>2
  <2>2. CASE i \notin 1 .. n
    <3>1. i - n \in 1 .. Len(more[m + 1]) /\ new[i] = more[m + 1][i - n]
      BY <1>1, <1>2, <2>2
    <3>2. QED
      BY <1>4, <3>1
  <2>3. QED
    BY <2>1, <2>2
<1>8. ASSUME NEW i \in 1 .. Len(new), NEW j \in 1 .. Len(new), i < j
      PROVE  InTurn(new[i], new[j], more)
  <2> SUFFICES \E w, u \in 1 .. m + 1 : \E k \in 1 .. Len(more[w]), l \in 1 .. Len(more[u]) :
                new[i] = more[w][k] /\ new[j] = more[u][l] /\ (w < u \/ (w = u /\ k < l))
    BY <1>1 DEF InTurn
  <2>0. i \in Nat /\ j \in Nat
    BY <1>2
  <2>1. CASE j \in 1 .. n
    <3>1. i \in 1 .. n
      BY <1>2, <1>8, <2>0, <2>1
    <3>2. PICK w \in 1 .. m, u \in 1 .. m : \E k \in 1 .. Len(seqs[w]), l \in 1 .. Len(seqs[u]) :
            all[i] = seqs[w][k] /\ all[j] = seqs[u][l] /\ (w < u \/ (w = u /\ k < l))
      BY <1>6, <1>8, <2>1, <3>1
    <3>3. more[w] = seqs[w] /\ more[u] = seqs[u] /\ w \in 1 .. m + 1 /\ u \in 1 .. m + 1
      BY <1>1, <1>3
    <3>4. new[i] = all[i] /\ new[j] = all[j]
      BY <1>2, <2>1, <3>1
    <3>5. QED
      BY <3>2, <3>3, <3>4
  <2>2. CASE i \in 1 .. n /\ j \notin 1 .. n
    <3>1. j - n \in 1 .. Len(more[m + 1]) /\ new[j] = more[m + 1][j - n]
      BY <1>1, <1>2, <2>2
    <3>2. PICK w \in 1 .. m : \E k \in 1 .. Len(seqs[w]) : all[i] = seqs[w][k]
      BY <1>5, <2>2
    <3>3. more[w] = seqs[w] /\ w \in 1 .. m + 1 /\ w < m + 1 /\ new[i] = all[i]
      BY <1>1, <1>2, <1>3, <2>2
    <3>4. QED
      BY <1>4, <3>1, <3>2, <3>3
  <2>3. CASE i \notin 1 .. n /\ j \notin 1 .. n
    <3>1. /\ i - n \in 1 .. Len(more[m + 1]) /\ new[i] = more[m + 1][i - n]
          /\ j - n \in 1 .. Len(more[m + 1]) /\ new[j] = more[m + 1][j - n]
      BY <1>1, <1>2, <2>3
    <3>2. i - n < j - n
      BY <1>2, <1>8, <2>0
    <3>3. QED
      BY <1>4, <3>1, <3>2
  <2>4. i \notin 1 .. n => j \notin 1 .. n
    BY <1>2, <1>8, <2>0
  <2>5. QED
    BY <2>1, <2>2, <2>3, <2>4
<1>9. PartsInOrder(new, more)
  BY <1>8 DEF PartsInOrder
<1>10. QED
  BY <1>7, <1>9 DEF new, more

\* FlattenSeq keeps the order of the parts.
LEMMA FlattenOrder ==
    ASSUME NEW X, NEW seqs \in Seq(Seq(X))
    PROVE  Parts(FlattenSeq(seqs), seqs) /\ PartsInOrder(FlattenSeq(seqs), seqs)
<1> DEFINE P(s) == Parts(FlattenSeq(s), s) /\ PartsInOrder(FlattenSeq(s), s)
           T == {n \in Nat : \A s \in Seq(Seq(X)) : Len(s) = n => P(s)}
<1>1. 0 \in T
  <2> SUFFICES ASSUME NEW s \in Seq(Seq(X)), Len(s) = 0 PROVE P(s)
    OBVIOUS
  <2>1. s = <<>>
    OBVIOUS
  <2>2. FlattenSeq(s) = <<>>
    BY <2>1, FlattenTypes
  <2>3. QED
    BY <2>2 DEF Parts, PartsInOrder
<1>2. ASSUME NEW n \in Nat, n \in T PROVE n + 1 \in T
  <2> SUFFICES ASSUME NEW s \in Seq(Seq(X)), Len(s) = n + 1 PROVE P(s)
    OBVIOUS
  <2> DEFINE front == SubSeq(s, 1, n)
             last == s[n + 1]
  <2>1. front \in Seq(Seq(X)) /\ Len(front) = n /\ last \in Seq(X) /\ s = Append(front, last)
    <3>1. front \in Seq(Seq(X)) /\ Len(front) = n /\ last \in Seq(X)
      OBVIOUS
    <3>2. Append(front, last) \in Seq(Seq(X)) /\ Len(Append(front, last)) = n + 1
      BY <3>1
    <3>3. \A i \in 1 .. n + 1 : Append(front, last)[i] = s[i]
      BY <3>1
    <3> HIDE DEF front, last
    <3>4. QED
      BY <3>1, <3>2, <3>3, SeqEqual
  <2>2. P(front)
    <3> HIDE DEF front, P
    <3>1. QED
      BY <1>2, <2>1
  <2>3. FlattenSeq(front) \in Seq(X)
    BY <2>1, FlattenTypes
  <2>4. FlattenSeq(s) = FlattenSeq(front) \o last
    BY <2>1, FlattenAppend
  <2> HIDE DEF front, last
  <2>5. /\ Parts(FlattenSeq(front) \o last, Append(front, last))
        /\ PartsInOrder(FlattenSeq(front) \o last, Append(front, last))
    BY <2>1, <2>2, <2>3, PartsAppend
  <2>6. QED
    BY <2>1, <2>4, <2>5
<1>3. Nat \subseteq T
  <2> HIDE DEF T
  <2>1. QED
    BY <1>1, <1>2, Counting
<1>4. Len(seqs) \in T
  BY <1>3
<1>5. QED
  BY <1>4

\* It is empty only if all the parts are.
LEMMA FlattenNonEmpty ==
    ASSUME NEW X, NEW seqs \in Seq(Seq(X)), seqs # <<>>, seqs[Len(seqs)] # <<>>
    PROVE  FlattenSeq(seqs) # <<>>
<1>1. PICK f \in [0 .. Len(seqs) -> Seq(X)] :
        /\ f[0] = <<>> /\ FlattenSeq(seqs) = f[Len(seqs)]
        /\ \A n \in 1 .. Len(seqs) : f[n] = f[n - 1] \o seqs[n]
  BY FlattenIs
<1> DEFINE m == Len(seqs)
<1>2. m \in 1 .. m /\ m - 1 \in 0 .. m /\ seqs[m] \in Seq(X) /\ Len(seqs[m]) # 0
  OBVIOUS
<1>3. f[m - 1] \in Seq(X) /\ FlattenSeq(seqs) = f[m - 1] \o seqs[m]
  BY <1>1, <1>2
<1> HIDE DEF m
<1>4. Len(f[m - 1] \o seqs[m]) = Len(f[m - 1]) + Len(seqs[m]) /\ Len(f[m - 1]) \in Nat /\ Len(seqs[m]) \in Nat
  BY <1>2, <1>3
<1>5. Len(f[m - 1] \o seqs[m]) # 0
  <2>1. \A x, y \in Nat : y # 0 => x + y # 0
    OBVIOUS
  <2>2. QED
    BY <1>2, <1>4, <2>1
<1>6. f[m - 1] \o seqs[m] # <<>>
  <2>1. \A x : Len(x) # 0 => x # <<>>
    OBVIOUS
  <2>2. QED
    BY <1>5, <2>1, Zenon
<1>7. QED
  BY <1>3, <1>6

\* A sequence is its front and its last element.
LEMMA FrontAndLast ==
    ASSUME NEW Y, NEW s \in Seq(Y), NEW n \in Nat, Len(s) = n + 1
    PROVE  /\ SubSeq(s, 1, n) \in Seq(Y) /\ Len(SubSeq(s, 1, n)) = n /\ s[n + 1] \in Y
           /\ s = Append(SubSeq(s, 1, n), s[n + 1])
<1> DEFINE front == SubSeq(s, 1, n)
           last == s[n + 1]
<1>1. front \in Seq(Y) /\ Len(front) = n /\ last \in Y
  OBVIOUS
<1>2. Append(front, last) \in Seq(Y) /\ Len(Append(front, last)) = n + 1
  BY <1>1
<1>3. \A i \in 1 .. n + 1 : Append(front, last)[i] = s[i]
  BY <1>1
<1>4. s = Append(front, last)
  <2> HIDE DEF front, last
  <2>1. QED
    BY <1>1, <1>2, <1>3, SeqEqual
<1>5. QED
  BY <1>1, <1>4

\* The last part has one element more.
IsExtended(more, seqs, n, x) == more = [seqs EXCEPT ![n + 1] = Append(@, x)]

\* That is one more at the end of all.
LEMMA FlattenExtend ==
    ASSUME NEW X, NEW seqs \in Seq(Seq(X)), NEW n \in Nat, Len(seqs) = n + 1, NEW x \in X,
           NEW more, IsExtended(more, seqs, n, x)
    PROVE  FlattenSeq(more) = Append(FlattenSeq(seqs), x)
<1> DEFINE front == SubSeq(seqs, 1, n)
           last == seqs[n + 1]
           new == Append(last, x)
<1>0. more = [seqs EXCEPT ![n + 1] = new]
  BY DEF IsExtended
<1>1. front \in Seq(Seq(X)) /\ Len(front) = n /\ last \in Seq(X) /\ seqs = Append(front, last)
  <2>1. QED
    BY FrontAndLast
<1>2. new \in Seq(X)
  BY <1>1
<1>3. more \in Seq(Seq(X)) /\ Len(more) = n + 1 /\ more[n + 1] = new /\ SubSeq(more, 1, n) = front
  <2> HIDE DEF new
  <2>1. more \in Seq(Seq(X)) /\ Len(more) = n + 1 /\ more[n + 1] = new
    BY <1>0, <1>2
  <2>2. \A i \in 1 .. n : more[i] = seqs[i]
    BY <1>0
  <2>3. Len(SubSeq(more, 1, n)) = n /\ SubSeq(more, 1, n) \in Seq(Seq(X))
    BY <2>1
  <2>4. \A i \in 1 .. n : SubSeq(more, 1, n)[i] = more[i] /\ front[i] = seqs[i]
    BY <2>1
  <2> HIDE DEF front
  <2>5. QED
    BY <1>1, <2>1, <2>2, <2>3, <2>4, SeqEqual
<1>4. more = Append(front, new)
  <2>1. \A s \in Seq(Seq(X)) : Len(s) = n + 1 => s = Append(SubSeq(s, 1, n), s[n + 1])
    BY FrontAndLast
  <2> HIDE DEF front, new
  <2>2. QED
    BY <1>3, <2>1
<1>5. /\ FlattenSeq(seqs) = FlattenSeq(front) \o last
      /\ FlattenSeq(more) = FlattenSeq(front) \o new
      /\ FlattenSeq(front) \in Seq(X)
  <2> HIDE DEF front, new, last
  <2>1. QED
    BY <1>1, <1>2, <1>4, FlattenAppend, FlattenTypes
<1>6. \A s \in Seq(X) : s \o new = Append(s \o last, x)
  <2> SUFFICES ASSUME NEW s \in Seq(X) PROVE s \o Append(last, x) = Append(s \o last, x)
    OBVIOUS
  <2> HIDE DEF last, front
  <2>1. /\ s \o Append(last, x) \in Seq(X) /\ Append(s \o last, x) \in Seq(X)
        /\ Len(s \o Append(last, x)) = Len(s) + Len(last) + 1
        /\ Len(Append(s \o last, x)) = Len(s) + Len(last) + 1
    BY <1>1
  <2>2. \A i \in 1 .. Len(s) + Len(last) + 1 : (s \o Append(last, x))[i] = Append(s \o last, x)[i]
    BY <1>1
  <2>3. QED
    BY <2>1, <2>2, SeqEqual
<1>7. FlattenSeq(more) = Append(FlattenSeq(seqs), x)
  <2> HIDE DEF front, new, last
  <2>1. QED
    BY <1>5, <1>6
<1>8. QED
  BY <1>7

\* A part of one element is one more at the end.
LEMMA FlattenOne ==
    ASSUME NEW X, NEW seqs \in Seq(Seq(X)), NEW x \in X
    PROVE  FlattenSeq(Append(seqs, <<x>>)) = Append(FlattenSeq(seqs), x)
<1>1. <<x>> \in Seq(X) /\ FlattenSeq(seqs) \in Seq(X)
  BY FlattenTypes
<1>2. FlattenSeq(Append(seqs, <<x>>)) = FlattenSeq(seqs) \o <<x>>
  BY <1>1, FlattenAppend
<1>3. \A s \in Seq(X) : s \o <<x>> = Append(s, x)
  BY AppendIsConcat
<1>4. QED
  BY <1>1, <1>2, <1>3

------------------------
(* The adaptation of one window's turns. *)

\* The lesser and the greater of two numbers.
LEMMA MinMax ==
    ASSUME NEW x \in Nat, NEW y \in Nat
    PROVE  /\ Min({x, y}) = IF x <= y THEN x ELSE y
           /\ Max({x, y}) = IF x <= y THEN y ELSE x
BY DEF Min, Max

\* The segments of a window, and the states of its adaptation.
Segments == [start : Nat, end : Nat, who : Speakers]

Adapting == {a \in [ok : BOOLEAN, out : Seq(Segments), groups : Seq(Seq(Nat)), lastStart : Nat,
                    lastEnd : [Speakers -> Nat]] : Len(a.groups) = Len(a.out)}

\* The adaptation begins typed.
LEMMA BegunTypes ==
    ASSUME NEW raw, NEW duration
    PROVE  Begun(raw, duration) \in Adapting
BY DEF Begun, Adapting

\* A turn that was emitted is a span of a known speaker, or of nobody.
LEMMA TurnTypes ==
    ASSUME NEW raw \in Seq(Turns), NEW i \in 1 .. Len(raw)
    PROVE  /\ raw[i] \in Turns /\ raw[i].start \in Nat /\ raw[i].end \in Nat
           /\ raw[i].who \in Speakers /\ raw \in Seq(Spans)
<1>1. raw[i] \in Turns
  OBVIOUS
<1>2. Turns \subseteq Spans
  BY MossAssumption
<1>3. raw \in Seq(Spans) /\ raw[i] \in Spans
  BY <1>1, <1>2
<1>4. QED
  BY <1>1, <1>3 DEF Speakers, Spans

\* The last segment of "a" is longer, by turn i.
IsCoalesced(c, a, i, turn, end) ==
    LET n == Len(a.out)
        last == IF a.out[n].end <= end THEN end ELSE a.out[n].end
    IN /\ c \in Adapting /\ c.ok = a.ok /\ n \in 1 .. n
       /\ c.out = [a.out EXCEPT ![n] = [a.out[n] EXCEPT !.end = last]]
       /\ c.groups = [a.groups EXCEPT ![n] = Append(@, i)]
       /\ c.lastStart = turn.start
       /\ c.lastEnd = [a.lastEnd EXCEPT ![turn.who] = last]

\* So the code does where it joins the turn to the one before.
LEMMA CoalescedTypes ==
    ASSUME NEW a \in Adapting, NEW i \in Nat, NEW turn \in Turns, NEW end \in Nat, Coalesces(a, turn)
    PROVE  IsCoalesced(Coalesced(a, i, turn, end), a, i, turn, end)
<1> DEFINE n == Len(a.out)
           last == IF a.out[n].end <= end THEN end ELSE a.out[n].end
<1>1. /\ a.out \in Seq(Segments) /\ a.out # <<>> /\ a.groups \in Seq(Seq(Nat))
      /\ Len(a.groups) = n /\ a.lastEnd \in [Speakers -> Nat]
  BY DEF Adapting, Coalesces
<1>2. n \in 1 .. n /\ a.out[n] \in Segments /\ a.groups[n] \in Seq(Nat)
  BY <1>1
<1>3. a.out[n].end \in Nat
  BY <1>2 DEF Segments
<1>4. Max({a.out[n].end, end}) = last /\ last \in Nat
  BY <1>3, MinMax
<1>5. turn.who \in Speakers /\ turn.start \in Nat
  BY MossAssumption DEF Speakers, Spans
<1> DEFINE seg == [a.out[n] EXCEPT !.end = last]
           out == [a.out EXCEPT ![n] = seg]
           groups == [a.groups EXCEPT ![n] = Append(@, i)]
           ends == [a.lastEnd EXCEPT ![turn.who] = last]
<1>6. seg \in Segments
  BY <1>2, <1>4 DEF Segments
<1>7. out \in Seq(Segments) /\ Len(out) = n
  <2> HIDE DEF seg
  <2>1. QED
    BY <1>1, <1>2, <1>6
<1>8. groups \in Seq(Seq(Nat)) /\ Len(groups) = n
  BY <1>1, <1>2
<1>9. ends \in [Speakers -> Nat]
  BY <1>1, <1>4, <1>5
<1>10. Coalesced(a, i, turn, end) =
         [a EXCEPT !.out = out, !.groups = groups, !.lastStart = turn.start, !.lastEnd = ends]
  BY <1>4 DEF Coalesced
<1> HIDE DEF out, groups, ends, last, seg
<1>11. QED
  BY <1>2, <1>5, <1>7, <1>8, <1>9, <1>10
     DEF IsCoalesced, Adapting, out, groups, ends, last, seg

\* "a" has one segment more, of turn i alone.
IsEmitted(e, a, i, turn, end, who) ==
    /\ e \in Adapting /\ e.ok = a.ok
    /\ e.out = Append(a.out, [start |-> turn.start, end |-> end, who |-> who])
    /\ e.groups = Append(a.groups, <<i>>)
    /\ e.lastStart = turn.start
    /\ e.lastEnd = [a.lastEnd EXCEPT ![who] = end]

\* So the code does where it emits a segment of its own.
LEMMA EmittedTypes ==
    ASSUME NEW a \in Adapting, NEW i \in Nat, NEW turn \in Turns, NEW end \in Nat, NEW who \in Speakers
    PROVE  IsEmitted(Emitted(a, i, turn, end, who), a, i, turn, end, who)
<1> DEFINE seg == [start |-> turn.start, end |-> end, who |-> who]
           out == Append(a.out, seg)
           groups == Append(a.groups, <<i>>)
           ends == [a.lastEnd EXCEPT ![who] = end]
<1>1. /\ a.out \in Seq(Segments) /\ a.groups \in Seq(Seq(Nat))
      /\ Len(a.groups) = Len(a.out) /\ a.lastEnd \in [Speakers -> Nat]
  BY DEF Adapting
<1>2. turn.start \in Nat
  BY MossAssumption DEF Spans
<1>3. seg \in Segments
  BY <1>2 DEF Segments
<1>4. out \in Seq(Segments) /\ Len(out) = Len(a.out) + 1
  <2> HIDE DEF seg
  <2>1. QED
    BY <1>1, <1>3
<1>5. groups \in Seq(Seq(Nat)) /\ Len(groups) = Len(a.out) + 1
  BY <1>1
<1>6. ends \in [Speakers -> Nat]
  BY <1>1
<1>7. Emitted(a, i, turn, end, who) =
        [a EXCEPT !.out = out, !.groups = groups, !.lastStart = turn.start, !.lastEnd = ends]
  BY DEF Emitted
<1> HIDE DEF out, groups, ends, seg
<1>8. QED
  BY <1>2, <1>4, <1>5, <1>6, <1>7 DEF IsEmitted, Adapting, out, groups, ends, seg

\* What a turn does: it is refused, joined to the last segment or a new one.
LEMMA TakeTurnIs ==
    ASSUME NEW a \in Adapting, NEW raw \in Seq(Turns), NEW n \in 1 .. Len(raw), NEW duration \in Nat,
           NEW i \in 1 .. Len(raw), i = Order(raw)[n]
    PROVE  LET t == TakeTurn(a, raw, n, duration)
               end == IF raw[i].end <= duration THEN raw[i].end ELSE duration
           IN /\ t \in Adapting
              /\ t.ok => /\ a.ok /\ a.lastStart <= raw[i].start
                         /\ \/ Coalesces(a, raw[i]) /\ IsCoalesced(t, a, i, raw[i], end)
                            \/ \E who \in {raw[i].who, Nobody} :
                                 a.lastEnd[who] <= raw[i].start /\ IsEmitted(t, a, i, raw[i], end, who)
<1> DEFINE turn == raw[i]
           end == IF turn.end <= duration THEN turn.end ELSE duration
           no == [a EXCEPT !.ok = FALSE]
           t == TakeTurn(a, raw, n, duration)
           who == IF turn.who = Nobody THEN Nobody ELSE Attributed(a, turn)
<1>1. turn \in Turns /\ turn.start \in Nat /\ turn.end \in Nat /\ turn.who \in Speakers /\ i \in Nat
  BY TurnTypes
<1>2. Min({turn.end, duration}) = end /\ end \in Nat
  BY <1>1, MinMax
<1>3. no \in Adapting /\ ~no.ok
  BY DEF Adapting
<1>4. a.lastEnd \in [Speakers -> Nat] /\ a.lastStart \in Nat /\ Nobody \in Speakers
  BY DEF Adapting, Speakers
<1>5. /\ who \in {turn.who, Nobody} /\ who \in Speakers
      /\ who # Nobody => ~(turn.start < a.lastEnd[who])
  BY <1>1, <1>4 DEF Attributed
<1>6. t = IF ~a.ok \/ turn.start < a.lastStart \/ (turn.end > duration /\ n < Len(raw)) THEN no
          ELSE IF Coalesces(a, turn) THEN Coalesced(a, i, turn, end)
          ELSE IF who = Nobody /\ turn.start < a.lastEnd[Nobody] THEN no
          ELSE Emitted(a, i, turn, end, who)
  BY <1>2 DEF TakeTurn
<1> HIDE DEF turn, end, no, t, who
<1>7. CASE t = no
  BY <1>3, <1>7 DEF t
<1>8. CASE t # no
  <2>1. a.ok /\ ~(turn.start < a.lastStart)
    BY <1>6, <1>8
  <2>2. a.lastStart <= turn.start
    BY <1>1, <1>4, <2>1
  <2>3. CASE Coalesces(a, turn)
    <3>1. t = Coalesced(a, i, turn, end)
      BY <1>6, <1>8, <2>3
    <3>2. IsCoalesced(t, a, i, turn, end)
      BY <1>1, <1>2, <2>3, <3>1, CoalescedTypes
    <3>3. t \in Adapting
      BY <3>2 DEF IsCoalesced
    <3>4. QED
      BY <2>1, <2>2, <2>3, <3>2, <3>3 DEF t, turn, end
  <2>4. CASE ~Coalesces(a, turn)
    <3>1. t = Emitted(a, i, turn, end, who) /\ ~(turn.start < a.lastEnd[who])
      BY <1>5, <1>6, <1>8, <2>4
    <3>2. a.lastEnd[who] \in Nat
      BY <1>4, <1>5
    <3>3. a.lastEnd[who] <= turn.start
      BY <1>1, <3>1, <3>2
    <3>4. IsEmitted(t, a, i, turn, end, who)
      BY <1>1, <1>2, <1>5, <3>1, EmittedTypes
    <3>5. t \in Adapting
      BY <3>4 DEF IsEmitted
    <3>6. QED
      BY <1>5, <2>1, <2>2, <3>3, <3>4, <3>5 DEF t, turn, end
  <2>5. QED
    BY <2>3, <2>4
<1>9. QED
  BY <1>7, <1>8

\* A segment and the turns it is made of: a speaker's, joined without a gap.
MadeOf(seg, group, raw, duration) ==
    /\ seg \in Segments /\ group \in Seq(Nat)
    /\ seg.start < seg.end /\ seg.end <= duration
    /\ \A k \in 1 .. Len(group) :
          /\ group[k] \in 1 .. Len(raw) /\ seg.start <= raw[group[k]].start
          /\ seg.who # Nobody => raw[group[k]].who = seg.who
    /\ \E k \in 1 .. Len(group) : raw[group[k]].start = seg.start
    /\ \A at \in seg.start .. seg.end - 1 : \E k \in 1 .. Len(group) :
          raw[group[k]].start <= at /\ at < raw[group[k]].end

\* A turn makes a segment, by itself or with those of a segment it overlaps.
LEMMA MadeAlone ==
    ASSUME NEW raw \in Seq(Turns), NEW duration \in Nat, NEW i \in 1 .. Len(raw), NEW end,
           end = IF raw[i].end <= duration THEN raw[i].end ELSE duration,
           raw[i].start < raw[i].end, raw[i].start < duration, NEW who \in {raw[i].who, Nobody}
    PROVE  MadeOf([start |-> raw[i].start, end |-> end, who |-> who], <<i>>, raw, duration)
<1> DEFINE seg == [start |-> raw[i].start, end |-> end, who |-> who]
           group == <<i>>
<1>1. raw[i].start \in Nat /\ raw[i].end \in Nat /\ raw[i].who \in Speakers
  BY TurnTypes
<1>2. end \in Nat /\ end <= duration /\ end <= raw[i].end /\ raw[i].start < end
  BY <1>1
<1>3. who \in Speakers /\ (who # Nobody => raw[i].who = who)
  BY <1>1 DEF Speakers
<1>4. seg \in Segments /\ seg.start = raw[i].start /\ seg.end = end /\ seg.who = who
  BY <1>1, <1>2, <1>3 DEF Segments
<1>5. group \in Seq(Nat) /\ Len(group) = 1 /\ group[1] = i /\ 1 .. 1 = {1}
  OBVIOUS
<1> HIDE DEF seg, group
<1>6. \A k \in 1 .. Len(group) : group[k] = i
  BY <1>5
<1>7. 1 \in 1 .. Len(group)
  BY <1>5
<1>8. \A at \in seg.start .. seg.end - 1 : raw[group[1]].start <= at /\ at < raw[group[1]].end
  BY <1>1, <1>2, <1>4, <1>5
<1>9. \A k \in 1 .. Len(group) :
          /\ group[k] \in 1 .. Len(raw) /\ seg.start <= raw[group[k]].start
          /\ seg.who # Nobody => raw[group[k]].who = seg.who
  BY <1>1, <1>3, <1>4, <1>6
<1>10. MadeOf(seg, group, raw, duration)
  BY <1>2, <1>4, <1>5, <1>7, <1>8, <1>9 DEF MadeOf
<1>11. QED
  BY <1>10 DEF seg, group

\* A segment that one more turn of its speaker prolongs is made of them all.
LEMMA MadeJoined ==
    ASSUME NEW raw \in Seq(Turns), NEW duration \in Nat, NEW i \in 1 .. Len(raw), NEW end,
           end = IF raw[i].end <= duration THEN raw[i].end ELSE duration,
           NEW seg, NEW group, MadeOf(seg, group, raw, duration),
           seg.start <= raw[i].start, raw[i].start < seg.end, seg.who = raw[i].who
    PROVE  MadeOf([seg EXCEPT !.end = IF seg.end <= end THEN end ELSE seg.end], Append(group, i), raw, duration)
<1> DEFINE last == IF seg.end <= end THEN end ELSE seg.end
           more == Append(group, i)
           new == [seg EXCEPT !.end = last]
<1>1. raw[i].start \in Nat /\ raw[i].end \in Nat
  BY TurnTypes
<1>2. /\ seg \in Segments /\ group \in Seq(Nat) /\ seg.start < seg.end /\ seg.end <= duration
      /\ \A k \in 1 .. Len(group) :
            /\ group[k] \in 1 .. Len(raw) /\ seg.start <= raw[group[k]].start
            /\ seg.who # Nobody => raw[group[k]].who = seg.who
      /\ \E k \in 1 .. Len(group) : raw[group[k]].start = seg.start
      /\ \A at \in seg.start .. seg.end - 1 : \E k \in 1 .. Len(group) :
            raw[group[k]].start <= at /\ at < raw[group[k]].end
  BY DEF MadeOf
<1>3. seg.start \in Nat /\ seg.end \in Nat
  BY <1>2 DEF Segments
<1>4. last \in Nat /\ seg.end <= last /\ last <= duration /\ end <= raw[i].end /\ end \in Nat
  BY <1>1, <1>2, <1>3, SMTT(30)
<1>5. new \in Segments /\ new.start = seg.start /\ new.end = last /\ new.who = seg.who
  BY <1>2, <1>4 DEF Segments
<1> DEFINE n == Len(group)
<1>6. /\ n \in Nat /\ more \in Seq(Nat) /\ Len(more) = n + 1 /\ more[n + 1] = i
      /\ \A k \in 1 .. n : more[k] = group[k]
  BY <1>2
<1> HIDE DEF new, more, n
<1>7. \A k \in 1 .. n + 1 : k \in 1 .. n \/ k = n + 1
  BY <1>6
<1>8. \A k \in 1 .. n : k \in 1 .. n + 1
  BY <1>6
<1>9. n + 1 \in 1 .. n + 1
  BY <1>6
<1>10. ASSUME NEW k \in 1 .. n + 1
       PROVE  /\ more[k] \in 1 .. Len(raw) /\ new.start <= raw[more[k]].start
              /\ new.who # Nobody => raw[more[k]].who = new.who
  <2>1. CASE k \in 1 .. n
    BY <1>2, <1>5, <1>6, <2>1 DEF n
  <2>2. CASE k = n + 1
    BY <1>5, <1>6, <2>2
  <2>3. QED
    BY <1>7, <2>1, <2>2
<1>11. \E k \in 1 .. n + 1 : raw[more[k]].start = new.start
  <2>1. PICK k \in 1 .. n : raw[group[k]].start = seg.start
    BY <1>2 DEF n
  <2>2. QED
    BY <1>5, <1>6, <1>8, <2>1
<1>12. ASSUME NEW at \in new.start .. new.end - 1
       PROVE  \E k \in 1 .. n + 1 : raw[more[k]].start <= at /\ at < raw[more[k]].end
  <2>0. at \in Int /\ seg.start <= at /\ at < last
    BY <1>3, <1>4, <1>5
  <2>1. CASE at < seg.end
    <3>1. at \in seg.start .. seg.end - 1
      BY <1>3, <2>0, <2>1
    <3>2. PICK k \in 1 .. n : raw[group[k]].start <= at /\ at < raw[group[k]].end
      BY <1>2, <3>1 DEF n
    <3>3. QED
      BY <1>6, <1>8, <3>2
  <2>2. CASE ~(at < seg.end)
    <3>1. raw[i].start <= at /\ at < raw[i].end
      BY <1>1, <1>3, <1>4, <2>0, <2>2
    <3>2. QED
      BY <1>6, <1>9, <3>1
  <2>3. QED
    BY <2>1, <2>2
<1>13. /\ new \in Segments /\ new.start < new.end /\ new.end <= duration
  BY <1>2, <1>3, <1>4, <1>5, SMTT(30)
<1>14. MadeOf(new, more, raw, duration)
  BY <1>6, <1>10, <1>11, <1>12, <1>13 DEF MadeOf
<1>15. QED
  BY <1>14 DEF new, more

\* The segments begin one after the other, a speaker's when his last has ended.
InSequence(out) ==
    \A k, l \in 1 .. Len(out) :
        k < l => out[k].start <= out[l].start /\ (out[k].who = out[l].who => out[k].end <= out[l].start)

\* What the adaptation has made of the turns it took, and what it remembers of them.
Kept(a, raw, duration) ==
    /\ \A k \in 1 .. Len(a.out) :
          /\ MadeOf(a.out[k], a.groups[k], raw, duration)
          /\ a.out[k].start <= a.lastStart /\ a.out[k].end <= a.lastEnd[a.out[k].who]
    /\ InSequence(a.out)

\* Joining a turn to the last segment keeps what the segments promise.
LEMMA CoalescedKeeps ==
    ASSUME NEW raw \in Seq(Turns), NEW duration \in Nat, NEW i \in 1 .. Len(raw), NEW end,
           end = IF raw[i].end <= duration THEN raw[i].end ELSE duration,
           NEW a \in Adapting, Kept(a, raw, duration), a.lastStart <= raw[i].start,
           Coalesces(a, raw[i]), NEW c, IsCoalesced(c, a, i, raw[i], end)
    PROVE  Kept(c, raw, duration)
<1> DEFINE n == Len(a.out)
           last == IF a.out[n].end <= end THEN end ELSE a.out[n].end
           seg == [a.out[n] EXCEPT !.end = last]
<1>1. /\ a.out \in Seq(Segments) /\ a.groups \in Seq(Seq(Nat)) /\ Len(a.groups) = n
      /\ a.lastEnd \in [Speakers -> Nat] /\ n \in 1 .. n
  BY DEF Adapting, IsCoalesced
<1>2. /\ c.out = [a.out EXCEPT ![n] = seg] /\ c.groups = [a.groups EXCEPT ![n] = Append(@, i)]
      /\ c.lastStart = raw[i].start /\ c.lastEnd = [a.lastEnd EXCEPT ![raw[i].who] = last]
  BY DEF IsCoalesced
<1>3. /\ raw[i].start \in Nat /\ raw[i].end \in Nat /\ raw[i].who \in Speakers /\ end \in Nat
  BY TurnTypes
<1>4. a.out[n].who = raw[i].who /\ raw[i].start < a.out[n].end
  BY <1>1 DEF Coalesces, Last
<1>5. \A k \in 1 .. n :
          /\ MadeOf(a.out[k], a.groups[k], raw, duration)
          /\ a.out[k].start <= a.lastStart /\ a.out[k].end <= a.lastEnd[a.out[k].who]
  BY DEF Kept
<1>6. \A k, l \in 1 .. n :
        k < l => /\ a.out[k].start <= a.out[l].start
                 /\ a.out[k].who = a.out[l].who => a.out[k].end <= a.out[l].start
  BY DEF Kept, InSequence
<1>7. \A k \in 1 .. n : /\ a.out[k].start \in Nat /\ a.out[k].end \in Nat /\ a.out[k].who \in Speakers
                        /\ a.out[k].start < a.out[k].end
  <2>1. \A k \in 1 .. n : a.out[k] \in Segments
    BY <1>1
  <2>2. \A k \in 1 .. n : a.out[k].start < a.out[k].end
    BY <1>5 DEF MadeOf
  <2>3. QED
    BY <2>1, <2>2 DEF Segments
<1>8. a.lastStart \in Nat /\ n \in Nat
  BY <1>1 DEF Adapting
<1>9. MadeOf(seg, Append(a.groups[n], i), raw, duration)
  <2>0. a.out[n].start <= a.lastStart /\ a.out[n].start \in Nat
    BY <1>1, <1>5, <1>7
  <2>1. a.out[n].start <= raw[i].start
    <3> HIDE DEF n
    <3>1. QED
      BY <1>3, <1>8, <2>0
  <2>2. MadeOf(a.out[n], a.groups[n], raw, duration)
    BY <1>1, <1>5
  <2>3. QED
    BY <1>4, <2>1, <2>2, MadeJoined
<1>10. /\ seg.start = a.out[n].start /\ seg.end = last /\ seg.who = a.out[n].who
       /\ last \in Nat /\ a.out[n].end <= last
  <2>1. a.out[n] \in Segments
    BY <1>1
  <2>2. QED
    BY <1>1, <1>3, <1>7, <2>1, SMTT(30) DEF Segments
<1> HIDE DEF seg, last
<1>11. /\ Len(c.out) = n /\ c.out[n] = seg /\ c.groups[n] = Append(a.groups[n], i)
       /\ \A k \in 1 .. n : k # n => c.out[k] = a.out[k] /\ c.groups[k] = a.groups[k]
  BY <1>1, <1>2, SMTT(30)
<1>12. \A who \in Speakers : /\ who = raw[i].who => c.lastEnd[who] = last
                             /\ who # raw[i].who => c.lastEnd[who] = a.lastEnd[who]
  BY <1>1, <1>2, <1>3
<1> HIDE DEF n
<1>13. ASSUME NEW k \in 1 .. n
       PROVE  /\ MadeOf(c.out[k], c.groups[k], raw, duration)
              /\ c.out[k].start <= c.lastStart /\ c.out[k].end <= c.lastEnd[c.out[k].who]
  <2>0. k \in Nat /\ k <= n /\ a.lastEnd[a.out[k].who] \in Nat
    BY <1>1, <1>7, <1>8, SMTT(30)
  <2>1. CASE k = n
    <3>1. c.out[k].start <= c.lastStart
      BY <1>1, <1>2, <1>3, <1>5, <1>7, <1>8, <1>10, <1>11, <2>1, SMTT(30)
    <3>2. c.lastEnd[c.out[k].who] = last /\ c.out[k].end = last
      BY <1>1, <1>3, <1>4, <1>10, <1>11, <1>12, <2>1
    <3>3. MadeOf(c.out[k], c.groups[k], raw, duration)
      BY <1>1, <1>9, <1>11, <2>1
    <3>4. QED
      BY <1>10, <3>1, <3>2, <3>3
  <2>2. CASE k # n
    <3>1. c.out[k] = a.out[k] /\ c.groups[k] = a.groups[k]
      BY <1>11, <2>2
    <3>2. c.out[k].start <= c.lastStart
      BY <1>2, <1>3, <1>5, <1>7, <1>8, <3>1, SMTT(30)
    <3>3. c.out[k].end <= c.lastEnd[c.out[k].who]
      <4>1. CASE a.out[k].who = raw[i].who
        <5>0. k < n
          BY <1>8, <2>0, <2>2
        <5>1. a.out[k].end <= a.out[n].start
          BY <1>1, <1>4, <1>6, <4>1, <5>0
        <5>2. a.out[n].start < a.out[n].end /\ a.out[n].start \in Nat /\ a.out[n].end \in Nat
          BY <1>1, <1>7
        <5>3. a.out[k].end <= last
          BY <1>7, <1>10, <5>1, <5>2, SMTT(30)
        <5>4. QED
          BY <1>3, <1>12, <3>1, <4>1, <5>3
      <4>2. CASE a.out[k].who # raw[i].who
        BY <1>5, <1>7, <1>12, <3>1, <4>2
      <4>3. QED
        BY <4>1, <4>2
    <3>4. QED
      BY <1>5, <3>1, <3>2, <3>3
  <2>3. QED
    BY <2>1, <2>2
<1>14. ASSUME NEW k \in 1 .. n, NEW l \in 1 .. n, k < l
       PROVE  /\ c.out[k].start <= c.out[l].start
              /\ c.out[k].who = c.out[l].who => c.out[k].end <= c.out[l].start
  <2>1. k # n
    BY <1>8, <1>14
  <2>2. c.out[k] = a.out[k]
    BY <1>11, <2>1
  <2>3. c.out[l].start = a.out[l].start /\ c.out[l].who = a.out[l].who
    BY <1>10, <1>11
  <2>4. QED
    BY <1>6, <1>14, <2>2, <2>3
<1>15. QED
  BY <1>11, <1>13, <1>14 DEF Kept, InSequence

\* Emitting a segment, of the turn's speaker or of nobody, keeps it too.
LEMMA EmittedKeeps ==
    ASSUME NEW raw \in Seq(Turns), NEW duration \in Nat, NEW i \in 1 .. Len(raw), NEW end,
           end = IF raw[i].end <= duration THEN raw[i].end ELSE duration,
           raw[i].start < raw[i].end, raw[i].start < duration,
           NEW a \in Adapting, Kept(a, raw, duration), a.lastStart <= raw[i].start,
           NEW who \in {raw[i].who, Nobody}, a.lastEnd[who] <= raw[i].start,
           NEW e, IsEmitted(e, a, i, raw[i], end, who)
    PROVE  Kept(e, raw, duration)
<1> DEFINE n == Len(a.out)
           seg == [start |-> raw[i].start, end |-> end, who |-> who]
<1>1. /\ a.out \in Seq(Segments) /\ a.groups \in Seq(Seq(Nat)) /\ Len(a.groups) = n
      /\ a.lastEnd \in [Speakers -> Nat] /\ n \in Nat /\ a.lastStart \in Nat
  BY DEF Adapting
<1>2. /\ e.out = Append(a.out, seg) /\ e.groups = Append(a.groups, <<i>>)
      /\ e.lastStart = raw[i].start /\ e.lastEnd = [a.lastEnd EXCEPT ![who] = end]
  BY DEF IsEmitted
<1>3. /\ raw[i].start \in Nat /\ raw[i].end \in Nat /\ raw[i].who \in Speakers /\ end \in Nat
      /\ who \in Speakers /\ raw[i].start < end
  BY TurnTypes DEF Speakers
<1>4. \A k \in 1 .. n :
          /\ MadeOf(a.out[k], a.groups[k], raw, duration)
          /\ a.out[k].start <= a.lastStart /\ a.out[k].end <= a.lastEnd[a.out[k].who]
  BY DEF Kept
<1>5. \A k, l \in 1 .. n :
        k < l => /\ a.out[k].start <= a.out[l].start
                 /\ a.out[k].who = a.out[l].who => a.out[k].end <= a.out[l].start
  BY DEF Kept, InSequence
<1>6. \A k \in 1 .. n : a.out[k].start \in Nat /\ a.out[k].end \in Nat /\ a.out[k].who \in Speakers
  <2>1. \A k \in 1 .. n : a.out[k] \in Segments
    BY <1>1
  <2>2. QED
    BY <2>1 DEF Segments
<1>a. \A k \in 1 .. n : a.out[k].start <= raw[i].start
  <2> SUFFICES ASSUME NEW k \in 1 .. n PROVE a.out[k].start <= raw[i].start
    OBVIOUS
  <2>1. a.out[k].start <= a.lastStart /\ a.out[k].start \in Nat
    BY <1>4, <1>6
  <2>2. QED
    BY <1>1, <1>3, <2>1, SMTT(30)
<1>7. MadeOf(seg, <<i>>, raw, duration)
  BY MadeAlone
<1>8. seg.start = raw[i].start /\ seg.end = end /\ seg.who = who
  OBVIOUS
<1>9. /\ Len(e.out) = n + 1 /\ e.out[n + 1] = seg /\ e.groups[n + 1] = <<i>>
      /\ \A k \in 1 .. n : e.out[k] = a.out[k] /\ e.groups[k] = a.groups[k]
  <2> HIDE DEF seg
  <2>1. QED
    BY <1>1, <1>2, SMTT(30)
<1>10. \A other \in Speakers : /\ other = who => e.lastEnd[other] = end
                               /\ other # who => e.lastEnd[other] = a.lastEnd[other]
  BY <1>1, <1>2, <1>3
<1>11. \A k \in 1 .. n + 1 : k \in 1 .. n \/ k = n + 1
  BY <1>1
<1> HIDE DEF n, seg
<1>12. ASSUME NEW k \in 1 .. n + 1
       PROVE  /\ MadeOf(e.out[k], e.groups[k], raw, duration)
              /\ e.out[k].start <= e.lastStart /\ e.out[k].end <= e.lastEnd[e.out[k].who]
  <2>1. CASE k = n + 1
    <3>1. e.out[k] = seg /\ e.groups[k] = <<i>>
      BY <1>9, <2>1
    <3>2. e.out[k].start <= e.lastStart /\ e.out[k].end <= e.lastEnd[e.out[k].who]
      BY <1>2, <1>3, <1>8, <1>10, <3>1, SMTT(30)
    <3>3. QED
      BY <1>7, <3>1, <3>2
  <2>2. CASE k \in 1 .. n
    <3>1. e.out[k] = a.out[k] /\ e.groups[k] = a.groups[k]
      BY <1>9, <2>2
    <3>2. e.out[k].start <= e.lastStart
      BY <1>2, <1>a, <2>2, <3>1
    <3>3. e.out[k].end <= e.lastEnd[e.out[k].who]
      <4>1. CASE a.out[k].who = who
        <5>1. a.out[k].end <= a.lastEnd[who] /\ a.lastEnd[who] \in Nat /\ a.out[k].end \in Nat
          BY <1>1, <1>3, <1>4, <1>6, <2>2, <4>1
        <5>2. a.out[k].end <= end
          BY <1>3, <5>1, SMTT(30)
        <5>3. QED
          BY <1>3, <1>10, <3>1, <4>1, <5>2
      <4>2. CASE a.out[k].who # who
        BY <1>4, <1>6, <1>10, <2>2, <3>1, <4>2
      <4>3. QED
        BY <4>1, <4>2
    <3>4. QED
      BY <1>4, <2>2, <3>1, <3>2, <3>3
  <2>3. QED
    BY <1>11, <2>1, <2>2
<1>13. ASSUME NEW k \in 1 .. n + 1, NEW l \in 1 .. n + 1, k < l
       PROVE  /\ e.out[k].start <= e.out[l].start
              /\ e.out[k].who = e.out[l].who => e.out[k].end <= e.out[l].start
  <2>1. k \in 1 .. n
    BY <1>1, <1>11, <1>13
  <2>2. e.out[k] = a.out[k]
    BY <1>9, <2>1
  <2>3. CASE l \in 1 .. n
    BY <1>5, <1>9, <1>13, <2>1, <2>2, <2>3
  <2>4. CASE l = n + 1
    <3>1. e.out[l].start = raw[i].start /\ e.out[l].who = who
      BY <1>8, <1>9, <2>4
    <3>2. a.out[k].start <= raw[i].start
      BY <1>a, <2>1
    <3>3. ASSUME a.out[k].who = who PROVE a.out[k].end <= raw[i].start
      <4>1. a.out[k].end <= a.lastEnd[who] /\ a.lastEnd[who] \in Nat /\ a.out[k].end \in Nat
        BY <1>1, <1>3, <1>4, <1>6, <2>1, <3>3
      <4>2. QED
        BY <1>3, <4>1, SMTT(30)
    <3>4. QED
      BY <2>2, <3>1, <3>2, <3>3
  <2>5. QED
    BY <1>11, <2>3, <2>4
<1>14. QED
  BY <1>9, <1>12, <1>13 DEF Kept, InSequence

\* The first n turns are adapted.
Adapted(a, raw, duration, n) ==
    /\ a \in Adapting
    /\ a.ok =>
          /\ \A i \in 1 .. Len(raw) : raw[i].start < raw[i].end /\ raw[i].start < duration
          /\ plan.timing = "v3" => ~Reorders(raw)
          /\ raw # <<>>
          /\ FlattenSeq(a.groups) = SubSeq(Order(raw), 1, n)
          /\ n > 0 => a.out # <<>>
          /\ Kept(a, raw, duration)

\* It holds before the first turn,
LEMMA BegunAdapted ==
    ASSUME NEW raw \in Seq(Turns), NEW duration \in Nat
    PROVE  Adapted(Begun(raw, duration), raw, duration, 0)
<1> DEFINE a == Begun(raw, duration)
<1>1. a \in Adapting
  BY BegunTypes
<1>2. a.out = <<>> /\ a.groups = <<>>
  BY DEF Begun
<1>3. a.ok <=> /\ raw # <<>> /\ \A i \in DOMAIN raw : TurnIsValid(raw, i, duration)
               /\ plan.timing = "v3" => ~Reorders(raw)
  BY DEF Begun
<1>4. ASSUME NEW i \in 1 .. Len(raw), TurnIsValid(raw, i, duration)
      PROVE  raw[i].start < raw[i].end /\ raw[i].start < duration
  <2>1. raw[i].start \in Nat /\ raw[i].end \in Nat
    BY TurnTypes
  <2>2. QED
    BY <1>4, <2>1 DEF TurnIsValid
<1>5. <<>> \in Seq(Seq(Nat))
  OBVIOUS
<1>6. FlattenSeq(a.groups) = <<>>
  BY <1>2, <1>5, FlattenTypes
<1>7. SubSeq(Order(raw), 1, 0) = <<>>
  OBVIOUS
<1>8. Kept(a, raw, duration)
  BY <1>2 DEF Kept, InSequence
<1> HIDE DEF a
<1>9. QED
  BY <1>1, <1>3, <1>4, <1>6, <1>7, <1>8 DEF Adapted, a

\* and with every turn that is taken.
LEMMA TurnAdapted ==
    ASSUME NEW raw \in Seq(Turns), NEW duration \in Nat, NEW n \in 1 .. Len(raw), NEW a,
           Adapted(a, raw, duration, n - 1)
    PROVE  Adapted(TakeTurn(a, raw, n, duration), raw, duration, n)
<1>0. raw \in Seq(Spans) /\ Len(raw) \in Nat
  BY MossAssumption, SMTT(30)
<1>1. a \in Adapting
  BY DEF Adapted
<1> DEFINE i == Order(raw)[n]
           t == TakeTurn(a, raw, n, duration)
           end == IF raw[i].end <= duration THEN raw[i].end ELSE duration
<1>2. i \in 1 .. Len(raw) /\ Order(raw) \in Seq(Nat) /\ Len(Order(raw)) = Len(raw)
  BY OrderTypes
<1>3. /\ t \in Adapting
      /\ t.ok => /\ a.ok /\ a.lastStart <= raw[i].start
                 /\ \/ Coalesces(a, raw[i]) /\ IsCoalesced(t, a, i, raw[i], end)
                    \/ \E who \in {raw[i].who, Nobody} :
                         a.lastEnd[who] <= raw[i].start /\ IsEmitted(t, a, i, raw[i], end, who)
  <2> HIDE DEF i
  <2>1. QED
    BY <1>1, <1>2, TakeTurnIs, SMTT(30) DEF i
<1> SUFFICES ASSUME t.ok
             PROVE  /\ \A j \in 1 .. Len(raw) : raw[j].start < raw[j].end /\ raw[j].start < duration
                    /\ plan.timing = "v3" => ~Reorders(raw)
                    /\ raw # <<>>
                    /\ FlattenSeq(t.groups) = SubSeq(Order(raw), 1, n)
                    /\ t.out # <<>>
                    /\ Kept(t, raw, duration)
  BY <1>3 DEF Adapted
<1> HIDE DEF t, i, end
<1>4. /\ \A j \in 1 .. Len(raw) : raw[j].start < raw[j].end /\ raw[j].start < duration
      /\ plan.timing = "v3" => ~Reorders(raw)
      /\ raw # <<>>
      /\ FlattenSeq(a.groups) = SubSeq(Order(raw), 1, n - 1)
      /\ Kept(a, raw, duration)
  BY <1>3 DEF Adapted
<1>5. SubSeq(Order(raw), 1, n) = Append(SubSeq(Order(raw), 1, n - 1), i)
  <2> DEFINE o == Order(raw)
  <2> HIDE DEF o
  <2>1. o \in Seq(Nat) /\ Len(o) = Len(raw) /\ n \in Nat /\ n - 1 \in Nat /\ n <= Len(raw)
    BY <1>0, <1>2 DEF o
  <2>2. SubSeq(o, 1, n) \in Seq(Nat) /\ Len(SubSeq(o, 1, n)) = (n - 1) + 1
    BY <2>1
  <2>3. SubSeq(o, 1, n) = Append(SubSeq(SubSeq(o, 1, n), 1, n - 1), SubSeq(o, 1, n)[(n - 1) + 1])
    BY <2>1, <2>2, FrontAndLast
  <2>4. SubSeq(o, 1, n)[(n - 1) + 1] = o[n]
    BY <2>1
  <2>5. SubSeq(SubSeq(o, 1, n), 1, n - 1) = SubSeq(o, 1, n - 1)
    BY <2>1
  <2>6. QED
    BY <2>3, <2>4, <2>5 DEF o, i
<1>6. /\ a.out \in Seq(Segments) /\ a.groups \in Seq(Seq(Nat)) /\ Len(a.groups) = Len(a.out)
  BY <1>1 DEF Adapting
<1>7. CASE Coalesces(a, raw[i]) /\ IsCoalesced(t, a, i, raw[i], end)
  <2>1. Kept(t, raw, duration)
    BY <1>1, <1>2, <1>3, <1>4, <1>7, CoalescedKeeps DEF end
  <2>2. /\ t.groups = [a.groups EXCEPT ![Len(a.out)] = Append(@, i)] /\ Len(a.out) \in 1 .. Len(a.out)
        /\ DOMAIN t.out = DOMAIN a.out
    BY <1>7 DEF IsCoalesced
  <2>3. PICK m \in Nat : Len(a.out) = m + 1
    <3>1. Len(a.out) - 1 \in Nat /\ Len(a.out) = (Len(a.out) - 1) + 1
      BY <1>6, <2>2
    <3>2. QED
      BY <3>1
  <2>4. FlattenSeq(t.groups) = Append(FlattenSeq(a.groups), i)
    <3>1. /\ a.groups \in Seq(Seq(Nat)) /\ Len(a.groups) = m + 1 /\ i \in Nat
          /\ IsExtended(t.groups, a.groups, m, i)
      BY <1>2, <1>6, <2>2, <2>3 DEF IsExtended
    <3>2. QED
      BY <3>1, FlattenExtend, ZenonT(30)
  <2>5. t.out # <<>>
    BY <1>6, <2>2
  <2>6. QED
    BY <1>4, <1>5, <2>1, <2>4, <2>5
<1>8. ASSUME NEW who \in {raw[i].who, Nobody}, a.lastEnd[who] <= raw[i].start,
             IsEmitted(t, a, i, raw[i], end, who)
      PROVE  Kept(t, raw, duration) /\ FlattenSeq(t.groups) = Append(FlattenSeq(a.groups), i) /\ t.out # <<>>
  <2>1. Kept(t, raw, duration)
    BY <1>1, <1>2, <1>3, <1>4, <1>8, EmittedKeeps DEF end
  <2>2. t.groups = Append(a.groups, <<i>>) /\ t.out # <<>>
    <3>1. \A s \in Seq(Segments) : \A x : Append(s, x) # <<>>
      OBVIOUS
    <3>2. /\ t.groups = Append(a.groups, <<i>>)
          /\ t.out = Append(a.out, [start |-> raw[i].start, end |-> end, who |-> who])
      BY <1>8 DEF IsEmitted
    <3>3. QED
      BY <1>6, <3>1, <3>2, Zenon
  <2>3. FlattenSeq(t.groups) = Append(FlattenSeq(a.groups), i)
    <3>1. i \in Nat
      BY <1>2
    <3>2. QED
      BY <1>6, <2>2, <3>1, FlattenOne
  <2>4. QED
    BY <2>1, <2>2, <2>3
<1>9. QED
  BY <1>3, <1>4, <1>5, <1>7, <1>8

\* The states of the loop over the turns.
LEMMA AdaptLoop ==
    ASSUME NEW raw \in Seq(Turns), NEW duration \in Nat
    PROVE  \E f : /\ Adapt(raw, duration) = f[Len(raw)] /\ f[0] = Begun(raw, duration)
                  /\ \A n \in 1 .. Len(raw) : f[n] = TakeTurn(f[n - 1], raw, n, duration)
<1> DEFINE m == Len(raw)
           D == Adapting
           a == Begun(raw, duration)
           S == [n \in 1 .. m |-> [x \in D |-> TakeTurn(x, raw, n, duration)]]
           Is(f) == f = [n \in 0 .. m |-> IF n = 0 THEN a ELSE TakeTurn(f[n - 1], raw, n, duration)]
           after == CHOOSE f : Is(f)
<1>0. \A n \in 1 .. m, x \in D : TakeTurn(x, raw, n, duration) \in D
  <2> SUFFICES ASSUME NEW n \in 1 .. m, NEW x \in D PROVE TakeTurn(x, raw, n, duration) \in D
    OBVIOUS
  <2>1. Order(raw)[n] \in 1 .. Len(raw)
    BY OrderTypes
  <2>2. QED
    BY <2>1, TakeTurnIs
<1>1. S \in [1 .. m -> [D -> D]] /\ m \in Nat /\ a \in D
  BY <1>0, BegunTypes
<1>2. PICK f : IsRun(f, D, a, m, S)
  <2> HIDE DEF S, m, a, D
  <2>1. QED
    BY <1>1, LoopExists
<1>b. f \in [0 .. m -> D] /\ f[0] = a
  BY <1>2 DEF IsRun
<1>3. \A n \in 1 .. m : f[n - 1] \in D /\ f[n] = TakeTurn(f[n - 1], raw, n, duration)
  <2>1. \A n \in 1 .. m : n - 1 \in 0 .. m
    BY <1>1
  <2>2. \A n \in 1 .. m, x \in D : S[n][x] = TakeTurn(x, raw, n, duration)
    OBVIOUS
  <2> HIDE DEF S, m, a, D
  <2>3. QED
    BY <1>2, <1>b, <2>1, <2>2 DEF IsRun
<1>4. Is(f)
  <2> DEFINE h == [n \in 0 .. m |-> IF n = 0 THEN a ELSE TakeTurn(f[n - 1], raw, n, duration)]
  <2> HIDE DEF S, m, a, D
  <2>1. \A n \in 0 .. m : n # 0 => n \in 1 .. m
    BY <1>1
  <2>2. ASSUME NEW n \in 0 .. m PROVE f[n] = h[n]
    <3>1. CASE n = 0
      BY <1>b, <3>1
    <3>2. CASE n # 0
      BY <1>b, <1>3, <2>1, <3>2
    <3>3. QED
      BY <3>1, <3>2
  <2>3. f = [n \in 0 .. m |-> f[n]] /\ h = [n \in 0 .. m |-> h[n]]
    BY <1>b
  <2> HIDE DEF h
  <2>4. f = h
    BY <2>2, <2>3
  <2>5. QED
    BY <2>4 DEF h
<1>5. Is(after)
  BY <1>4
<1>6. Adapt(raw, duration) = after[m]
  BY DEF Adapt
<1>7. after[0] = a /\ \A n \in 1 .. m : after[n] = TakeTurn(after[n - 1], raw, n, duration)
  <2> DEFINE h == [n \in 0 .. m |-> IF n = 0 THEN a ELSE TakeTurn(after[n - 1], raw, n, duration)]
  <2>1. after = h
    BY <1>5
  <2> HIDE DEF after, a, m
  <2>2. 0 \in 0 .. m /\ \A n \in 1 .. m : n \in 0 .. m /\ n # 0
    BY <1>1
  <2>3. h[0] = a /\ \A n \in 1 .. m : h[n] = TakeTurn(after[n - 1], raw, n, duration)
    BY <2>2
  <2> HIDE DEF h
  <2>4. QED
    BY <2>1, <2>3
<1>8. QED
  BY <1>6, <1>7

\* All turns are adapted in the end.
LEMMA AllAdapted ==
    ASSUME NEW raw \in Seq(Turns), NEW duration \in Nat
    PROVE  Adapted(Adapt(raw, duration), raw, duration, Len(raw))
<1> DEFINE m == Len(raw)
<1>0. m \in Nat
  OBVIOUS
<1>1. PICK f : /\ Adapt(raw, duration) = f[m] /\ f[0] = Begun(raw, duration)
               /\ \A n \in 1 .. m : f[n] = TakeTurn(f[n - 1], raw, n, duration)
  BY AdaptLoop
<1> DEFINE T == {n \in Nat : n <= m => Adapted(f[n], raw, duration, n)}
<1>2. 0 \in T
  BY <1>1, BegunAdapted
<1>3. ASSUME NEW n \in Nat, n \in T PROVE n + 1 \in T
  <2> SUFFICES ASSUME n + 1 <= m PROVE Adapted(f[n + 1], raw, duration, n + 1)
    OBVIOUS
  <2>1. n + 1 \in 1 .. m /\ (n + 1) - 1 = n /\ n <= m
    BY <1>0
  <2>2. Adapted(f[n], raw, duration, (n + 1) - 1)
    BY <1>3, <2>1
  <2>3. f[n + 1] = TakeTurn(f[n], raw, n + 1, duration)
    BY <1>1, <2>1
  <2>4. QED
    BY <2>1, <2>2, <2>3, TurnAdapted
<1>4. Nat \subseteq T
  <2> HIDE DEF T
  <2>1. QED
    BY <1>2, <1>3, Counting
<1>5. m \in T
  BY <1>0, <1>4
<1>6. QED
  BY <1>0, <1>1, <1>5

\* What a window's reply keeps to: its segments are in sequence and in the window.
IsReply(r, duration) ==
    /\ r.out \in Seq(Segments) /\ r.out # <<>> /\ InSequence(r.out)
    /\ \A k \in 1 .. Len(r.out) : r.out[k].start < r.out[k].end /\ r.out[k].end <= duration

\* Every turn of the answer is in one of its segments, each speaker's in order.
Conserved(r, raw) ==
    LET order == FlattenSeq(r.groups) IN
    /\ Len(order) = Len(raw) /\ ToSet(order) = DOMAIN raw
    /\ \A i, j \in DOMAIN order :
          i < j /\ raw[order[i]].who = raw[order[j]].who => order[i] < order[j]
    /\ \E duration : \A k \in DOMAIN r.out : MadeOf(r.out[k], r.groups[k], raw, duration)

\* So an answer that is accepted conserves its turns: the check never fails.
LEMMA AdaptConserves ==
    ASSUME NEW raw \in Seq(Turns), NEW duration \in Nat, Adapt(raw, duration).ok
    PROVE  /\ Conserves(raw, Adapt(raw, duration))
           /\ IsReply(Adapt(raw, duration), duration)
           /\ Conserved(Adapt(raw, duration), raw)
<1> DEFINE a == Adapt(raw, duration)
           o == Order(raw)
           m == Len(raw)
<1>1. Adapted(a, raw, duration, m)
  BY AllAdapted
<1>2. /\ o \in [1 .. m -> 1 .. m] /\ o \in Seq(Nat) /\ Len(o) = m
  BY OrderTypes
<1>3. m \in Nat /\ DOMAIN raw = 1 .. m /\ raw \in Seq(Spans)
  BY MossAssumption, SMTT(30)
<1>4. a.ok
  OBVIOUS
<1> HIDE DEF a, o, m
<1>5. /\ a \in Adapting /\ (plan.timing = "v3" => ~Reorders(raw)) /\ raw # <<>>
      /\ FlattenSeq(a.groups) = SubSeq(o, 1, m) /\ (m > 0 => a.out # <<>>) /\ Kept(a, raw, duration)
  BY <1>1, <1>4 DEF Adapted, o
<1>6. SubSeq(o, 1, m) = o
  <2>1. /\ SubSeq(o, 1, m) \in Seq(Nat) /\ Len(SubSeq(o, 1, m)) = m
        /\ \A k \in 1 .. m : SubSeq(o, 1, m)[k] = o[k]
    BY <1>2, <1>3
  <2>2. QED
    BY <1>2, <2>1, SeqEqual
<1>7. FlattenSeq(a.groups) = o
  BY <1>5, <1>6
<1>8. /\ o \in Orders(m)
      /\ \A k, l \in 1 .. m : k < l /\ raw[o[k]].who = raw[o[l]].who => o[k] < o[l]
  BY <1>3, <1>5, OrderKeeps DEF o, m
<1>9. DOMAIN o = 1 .. m
  BY <1>2
<1>10. ToSet(o) = DOMAIN raw
  <2>1. \A x : x \in ToSet(o) <=> \E k \in 1 .. m : o[k] = x
    BY <1>9 DEF ToSet
  <2>2. \A i \in 1 .. m : \E k \in 1 .. m : o[k] = i
    BY <1>8 DEF Orders
  <2>a. \A k \in 1 .. m : o[k] \in 1 .. m
    BY <1>2
  <2>3. \A x : x \in ToSet(o) <=> x \in 1 .. m
    BY <2>1, <2>2, <2>a, Zenon
  <2>4. QED
    BY <1>3, <2>3
<1>11. a.out \in Seq(Segments) /\ DOMAIN a.out = 1 .. Len(a.out)
  BY <1>5 DEF Adapting
<1>12. \A k \in 1 .. Len(a.out) : MadeOf(a.out[k], a.groups[k], raw, duration)
  BY <1>5 DEF Kept
<1>13. Conserved(a, raw)
  BY <1>2, <1>7, <1>8, <1>9, <1>10, <1>11, <1>12 DEF Conserved, m
<1>14. m > 0
  <2>1. \A s \in Seq(Turns) : s # <<>> => Len(s) > 0
    OBVIOUS
  <2>2. QED
    BY <1>5, <2>1 DEF m
<1>15. IsReply(a, duration)
  BY <1>5, <1>11, <1>12, <1>14 DEF IsReply, Kept, MadeOf
<1>16. Conserves(raw, a)
  BY <1>7 DEF Conserves, o
<1>17. QED
  BY <1>13, <1>15, <1>16 DEF a

\* A segment made of its turns lasts while one of them does.
LEMMA MadeSpans ==
    ASSUME answer \in Seq(Turns), NEW s, NEW group, NEW duration, MadeOf(s, group, answer, duration)
    PROVE  SpansItsTurns(s, group)
<1> DEFINE turns == {answer[i] : i \in ToSet(group)}
           starts == {t.start : t \in turns}
           ends == {t.end : t \in turns}
           m == Len(group)
<1>1. /\ group \in Seq(Nat) /\ m \in Nat /\ s \in Segments /\ s.start < s.end
      /\ \A k \in 1 .. m : /\ group[k] \in 1 .. Len(answer) /\ s.start <= answer[group[k]].start
                           /\ s.who # Nobody => answer[group[k]].who = s.who
      /\ \E k \in 1 .. m : answer[group[k]].start = s.start
      /\ \A at \in s.start .. s.end - 1 : \E k \in 1 .. m :
            answer[group[k]].start <= at /\ at < answer[group[k]].end
  BY DEF MadeOf
<1>2. s.start \in Nat /\ s.end \in Nat
  BY <1>1 DEF Segments
<1>3. \A i \in 1 .. Len(answer) : answer[i].start \in Nat /\ answer[i].end \in Nat
  BY TurnTypes
<1>4. \A x : x \in turns <=> \E k \in 1 .. m : x = answer[group[k]]
  <2>1. DOMAIN group = 1 .. m
    BY <1>1
  <2>2. \A i : i \in ToSet(group) <=> \E k \in 1 .. m : i = group[k]
    BY <2>1 DEF ToSet
  <2> HIDE DEF m
  <2>3. QED
    BY <2>2
<1>5. \A k \in 1 .. m : answer[group[k]] \in turns
  BY <1>4
<1> HIDE DEF turns
<1>6. \A t \in turns : t.start \in Nat /\ t.end \in Nat /\ s.start <= t.start
  BY <1>1, <1>3, <1>4
<1>7. starts \subseteq Nat /\ s.start \in starts /\ \A x \in starts : s.start <= x
  BY <1>1, <1>5, <1>6
<1>8. s.start = Min(starts)
  <2> HIDE DEF starts
  <2>1. Min(starts) \in starts /\ \A y \in starts : Min(starts) <= y
    BY <1>7, LeastOf
  <2>2. Min(starts) \in Nat /\ Min(starts) <= s.start /\ s.start <= Min(starts)
    BY <1>7, <2>1
  <2>3. QED
    BY <1>2, <2>2
<1>9. ASSUME NEW at \in s.start .. s.end - 1
      PROVE  \E t \in turns : at \in t.start .. t.end - 1
  <2>1. PICK k \in 1 .. m : answer[group[k]].start <= at /\ at < answer[group[k]].end
    BY <1>1
  <2>2. at \in Int /\ answer[group[k]].start \in Nat /\ answer[group[k]].end \in Nat
    BY <1>1, <1>2, <1>3, SMTT(30)
  <2>3. at \in answer[group[k]].start .. answer[group[k]].end - 1
    BY <2>1, <2>2
  <2>4. QED
    BY <1>5, <2>3
<1>10. \A t \in turns : s.who # Nobody => t.who = s.who
  BY <1>1, <1>4
<1>11. PICK b \in Nat : \A k \in 1 .. m : answer[group[k]].end <= b
  <2> DEFINE f == [k \in 1 .. m |-> answer[group[k]].end]
  <2>1. f \in [1 .. m -> Nat]
    BY <1>1, <1>3
  <2>2. \A k \in 1 .. m : f[k] = answer[group[k]].end
    OBVIOUS
  <2> HIDE DEF f, m
  <2>3. PICK b \in Nat : \A k \in 1 .. m : f[k] <= b
    BY <1>1, <2>1, Bounded
  <2>4. QED
    BY <2>2, <2>3
<1>12. ends \subseteq Nat /\ \A x \in ends : x <= b
  BY <1>4, <1>6, <1>11
<1>13. PICK t \in turns : s.end <= t.end
  <2>1. s.end - 1 \in s.start .. s.end - 1 /\ s.end - 1 \in Int
    BY <1>1, <1>2, SMTT(30)
  <2>2. PICK t \in turns : s.end - 1 \in t.start .. t.end - 1
    BY <1>9, <2>1
  <2>3. t.start \in Nat /\ t.end \in Nat
    BY <1>6
  <2>4. s.end <= t.end
    BY <1>2, <2>2, <2>3
  <2>5. QED
    BY <2>4
<1>14. t.end \in ends /\ t.end \in Nat
  BY <1>6, <1>13
<1>15. s.end = Max(ends) \/ Max(ends) > s.end
  <2> HIDE DEF ends
  <2>1. Max(ends) \in ends /\ \A y \in ends : y <= Max(ends)
    BY <1>12, <1>14, GreatestOf
  <2>2. Max(ends) \in Nat /\ t.end <= Max(ends)
    BY <1>12, <1>14, <2>1
  <2>3. QED
    BY <1>2, <1>13, <1>14, <2>2
<1>16. QED
  BY <1>8, <1>9, <1>10, <1>15 DEF SpansItsTurns, turns

------------------------
(* The search for an assignment. *)

\* Nobody's column is after those of the speakers.
LEMMA KitTypes ==
    /\ Kit \subseteq Nat /\ Unknown \in Nat
    /\ \A g \in Kit : g \in 1 .. Unknown /\ g < Unknown
    /\ Unknown \in 1 .. Unknown
<1>1. Kit \subseteq Nat \ {0}
  <2> SUFFICES ASSUME NEW g \in Kit PROVE g \in Nat \ {0}
    OBVIOUS
  <2>1. PICK track \in Tracks : \E t \in ToSet(track) : g = t.who
    BY DEF Kit
  <2>2. track \in Seq(Spans)
    BY MossAssumption
  <2>3. PICK k \in DOMAIN track : g = track[k].who
    BY <2>1 DEF ToSet
  <2>4. track[k] \in Spans
    BY <2>2
  <2>5. g \in Nat
    BY <2>3, <2>4 DEF Spans
  <2>6. g # 0
    BY MossAssumption DEF Nobody
  <2>7. QED
    BY <2>5, <2>6
<1>2. Kit # {}
  <2>1. PICK track \in Tracks : TRUE
    BY MossAssumption
  <2>2. track \in Seq(Spans) /\ track # <<>>
    BY MossAssumption, <2>1
  <2>3. 1 \in DOMAIN track
    BY <2>2
  <2>4. track[1] \in ToSet(track)
    BY <2>3 DEF ToSet
  <2>5. track[1].who \in Kit
    BY <2>1, <2>4 DEF Kit
  <2>6. QED
    BY <2>5
<1>3. PICK b \in Nat : \A g \in Kit : g <= b
  <2>1. PICK s \in Seq(Kit) : \A g \in Kit : \E n \in 1 .. Len(s) : s[n] = g
    BY MossAssumption DEF IsFiniteSet
  <2>2. s \in [1 .. Len(s) -> Nat] /\ Len(s) \in Nat
    <3>1. \A x \in Seq(Kit) : x \in [1 .. Len(x) -> Kit] /\ Len(x) \in Nat
      OBVIOUS
    <3>2. QED
      BY <1>1, <3>1
  <2>3. PICK b \in Nat : \A n \in 1 .. Len(s) : s[n] <= b
    BY <2>2, Bounded
  <2>4. QED
    BY <2>1, <2>3
<1>4. Max(Kit) \in Kit /\ \A g \in Kit : g <= Max(Kit)
  BY <1>1, <1>2, <1>3, GreatestOf
<1>5. \A g \in Kit : g \in Nat /\ g >= 1
  BY <1>1
<1>6. QED
  BY <1>4, <1>5 DEF Unknown

\* A problem of numbered slots, whose conflicts are mutual.
IsProblem(p, component) ==
    /\ IsFiniteSet(component) /\ component \subseteq Nat
    /\ \A v \in component : p.domain[v] \subseteq 1 .. Unknown
    /\ \A u, v : <<u, v>> \in p.edges => <<v, u>> \in p.edges /\ u # v

\* Every slot has one of its columns, and another than those it conflicts with.
Agrees(p, given) ==
    \A v \in DOMAIN given :
        /\ given[v] \in p.domain[v]
        /\ \A o \in DOMAIN given : <<v, o>> \in p.edges => given[o] # given[v]

\* A whole assignment of the component that the conflicts allow.
Proper(p, component, columns) ==
    /\ columns \in Partial(component) /\ DOMAIN columns = component /\ Agrees(p, columns)

\* What a search may answer: nothing, or an assignment of all slots.
Good(p, component, columns) == columns = <<>> \/ Proper(p, component, columns)

\* A partial assignment is a function on some of the slots.
LEMMA PartialTypes ==
    ASSUME NEW component, NEW f
    PROVE  f \in Partial(component) <=> \E slots \in SUBSET component : f \in [slots -> 1 .. Unknown]
BY DEF Partial

\* An open column more keeps that.
IsAssigned(more, p, component, given, v) ==
    more \in Partial(component) /\ Agrees(p, more) /\ DOMAIN more = DOMAIN given \cup {v}

\* That is so for a column that is open.
LEMMA AssignAgrees ==
    ASSUME NEW p, NEW component, IsProblem(p, component),
           NEW given \in Partial(component), Agrees(p, given),
           NEW v \in component \ DOMAIN given, NEW c \in Open(p, given, v)
    PROVE  IsAssigned(Assign(given, v, c), p, component, given, v)
<1> DEFINE a == Assign(given, v, c)
           D == DOMAIN given
<1>1. PICK slots \in SUBSET component : given \in [slots -> 1 .. Unknown]
  BY PartialTypes
<1>2. D = slots /\ D \subseteq component
  BY <1>1
<1>3. c \in p.domain[v] /\ \A o \in D : <<v, o>> \in p.edges => given[o] # c
  BY DEF Open
<1>4. c \in 1 .. Unknown
  BY <1>3 DEF IsProblem
<1>5. DOMAIN a = D \cup {v} /\ a[v] = c /\ \A u \in D : a[u] = given[u]
  BY DEF Assign
<1>6. a \in [D \cup {v} -> 1 .. Unknown]
  BY <1>1, <1>2, <1>4 DEF Assign
<1>7. a \in Partial(component)
  <2>1. D \cup {v} \in SUBSET component
    BY <1>2
  <2> HIDE DEF a, D
  <2>2. QED
    BY <1>6, <2>1, PartialTypes
<1>8. \A u, w : <<u, w>> \in p.edges => <<w, u>> \in p.edges /\ u # w
  BY DEF IsProblem
<1> HIDE DEF a, D
<1>9. ASSUME NEW u \in D \cup {v}
      PROVE  /\ a[u] \in p.domain[u]
             /\ \A o \in D \cup {v} : <<u, o>> \in p.edges => a[o] # a[u]
  <2>1. CASE u = v
    BY <1>3, <1>5, <1>8, <2>1
  <2>2. CASE u \in D
    <3>1. given[u] \in p.domain[u] /\ \A o \in D : <<u, o>> \in p.edges => given[o] # given[u]
      BY <2>2 DEF Agrees, D
    <3>2. <<u, v>> \in p.edges => given[u] # c
      BY <1>3, <1>8, <2>2
    <3>3. QED
      BY <1>5, <2>2, <3>1, <3>2
  <2>3. QED
    BY <2>1, <2>2
<1>10. Agrees(p, a)
  BY <1>5, <1>9 DEF Agrees
<1>11. QED
  BY <1>5, <1>7, <1>10 DEF a, D, IsAssigned

\* Whatever column is given, the assignment stays a partial one.
LEMMA AssignTypes ==
    ASSUME NEW component, NEW given \in Partial(component), NEW v \in component, NEW c \in 1 .. Unknown
    PROVE  Assign(given, v, c) \in Partial(component)
<1>1. PICK slots \in SUBSET component : given \in [slots -> 1 .. Unknown]
  BY PartialTypes
<1>2. Assign(given, v, c) \in [slots \cup {v} -> 1 .. Unknown]
  BY <1>1 DEF Assign
<1>3. slots \cup {v} \in SUBSET component
  OBVIOUS
<1>4. QED
  BY <1>2, <1>3, PartialTypes

\* What is assigned and the best that was found.
Ats(component) == [given : Partial(component), best : Partial(component)]

\* The states of the loop over the columns of slot v.
IsTried(f, p, component, at, v, deeper) ==
    /\ Tried(p, at, v, deeper) = f[Unknown] /\ f[0] = at.best
    /\ f \in [0 .. Unknown -> Partial(component)]
    /\ \A c \in 1 .. Unknown :
          f[c] = IF c \notin Open(p, at.given, v) THEN f[c - 1]
                 ELSE deeper[[given |-> Assign(at.given, v, c), best |-> f[c - 1]]]

\* The columns that are tried answer as a loop over them does.
LEMMA TriedLoop ==
    ASSUME NEW p, NEW component, NEW at \in Ats(component), NEW v \in component,
           NEW deeper \in [Ats(component) -> Partial(component)]
    PROVE  \E f : IsTried(f, p, component, at, v, deeper)
<1> DEFINE D == Partial(component)
           a == at.best
           m == Unknown
           Step(c, x) == IF c \notin Open(p, at.given, v) THEN x
                         ELSE deeper[[given |-> Assign(at.given, v, c), best |-> x]]
           S == [c \in 1 .. m |-> [x \in D |-> Step(c, x)]]
           Is(f) == f = [c \in 0 .. m |-> IF c = 0 THEN a ELSE Step(c, f[c - 1])]
           after == CHOOSE f : Is(f)
<1>0. ASSUME NEW c \in 1 .. m, NEW x \in D PROVE Step(c, x) \in D
  <2>1. at.given \in D
    BY DEF Ats
  <2>2. Assign(at.given, v, c) \in D
    BY <2>1, AssignTypes
  <2>3. [given |-> Assign(at.given, v, c), best |-> x] \in Ats(component)
    BY <2>2 DEF Ats
  <2> HIDE DEF D
  <2>4. QED
    BY <2>3 DEF D
<1>1. S \in [1 .. m -> [D -> D]] /\ m \in Nat /\ a \in D
  <2>1. m \in Nat /\ a \in D
    BY KitTypes DEF Ats
  <2> HIDE DEF Step, D, m
  <2>2. QED
    BY <1>0, <2>1
<1> HIDE DEF Step
<1>2. PICK f : IsRun(f, D, a, m, S)
  <2> HIDE DEF S, m, a, D
  <2>1. QED
    BY <1>1, LoopExists
<1>b. f \in [0 .. m -> D] /\ f[0] = a
  BY <1>2 DEF IsRun
<1>3. \A n \in 1 .. m : f[n - 1] \in D /\ f[n] = Step(n, f[n - 1])
  <2>1. \A n \in 1 .. m : n - 1 \in 0 .. m
    BY <1>1
  <2>2. \A n \in 1 .. m, x \in D : S[n][x] = Step(n, x)
    OBVIOUS
  <2> HIDE DEF S, m, a, D
  <2>3. QED
    BY <1>2, <1>b, <2>1, <2>2 DEF IsRun
<1>4. Is(f)
  <2> DEFINE h == [n \in 0 .. m |-> IF n = 0 THEN a ELSE Step(n, f[n - 1])]
  <2> HIDE DEF S, m, a, D
  <2>1. \A n \in 0 .. m : n # 0 => n \in 1 .. m
    BY <1>1
  <2>2. ASSUME NEW n \in 0 .. m PROVE f[n] = h[n]
    <3>1. CASE n = 0
      BY <1>b, <3>1
    <3>2. CASE n # 0
      BY <1>b, <1>3, <2>1, <3>2
    <3>3. QED
      BY <3>1, <3>2
  <2>3. f = [n \in 0 .. m |-> f[n]] /\ h = [n \in 0 .. m |-> h[n]]
    BY <1>b
  <2> HIDE DEF h
  <2>4. f = h
    BY <2>2, <2>3
  <2>5. QED
    BY <2>4 DEF h
<1>5. Is(after)
  BY <1>4
<1>6. Tried(p, at, v, deeper) = after[m]
  BY DEF Tried, Step
<1>7. after = [c \in 0 .. m |-> IF c = 0 THEN a ELSE Step(c, after[c - 1])]
  BY <1>5
<1>8. after = f
  <2> DEFINE T == {n \in Nat : n <= m => after[n] = f[n]}
  <2> HIDE DEF after, S, m, a, D
  <2>1. 0 \in 0 .. m /\ \A n \in 1 .. m : n \in 0 .. m /\ n # 0
    BY <1>1
  <2>2. after[0] = a /\ \A n \in 1 .. m : after[n] = Step(n, after[n - 1])
    <3> DEFINE h == [c \in 0 .. m |-> IF c = 0 THEN a ELSE Step(c, after[c - 1])]
    <3>1. h[0] = a /\ \A n \in 1 .. m : h[n] = Step(n, after[n - 1])
      BY <2>1
    <3>2. after = h
      BY <1>7
    <3> HIDE DEF h
    <3>3. QED
      BY <3>1, <3>2
  <2>3. 0 \in T
    BY <1>b, <2>2
  <2>4. ASSUME NEW n \in Nat, n \in T PROVE n + 1 \in T
    <3> SUFFICES ASSUME n + 1 <= m PROVE after[n + 1] = f[n + 1]
      OBVIOUS
    <3>1. n + 1 \in 1 .. m /\ (n + 1) - 1 = n /\ n <= m
      BY <1>1
    <3>2. after[n] = f[n]
      BY <2>4, <3>1
    <3>3. after[n + 1] = Step(n + 1, after[(n + 1) - 1]) /\ f[n + 1] = Step(n + 1, f[(n + 1) - 1])
      BY <1>3, <2>2, <3>1
    <3>4. QED
      BY <3>1, <3>2, <3>3
  <2>5. Nat \subseteq T
    <3> HIDE DEF T
    <3>1. QED
      BY <2>3, <2>4, Counting
  <2>6. \A n \in 0 .. m : after[n] = f[n]
    BY <1>1, <2>5
  <2>7. after = [n \in 0 .. m |-> after[n]] /\ f = [n \in 0 .. m |-> f[n]]
    BY <1>7, <1>b
  <2>8. QED
    BY <2>6, <2>7
<1>9. QED
  <2> HIDE DEF after, S, a
  <2>1. QED
    BY <1>b, <1>3, <1>6, <1>8 DEF IsTried, Step, a

\* A visit answers an assignment of some slots.
LEMMA VisitedTypes ==
    ASSUME NEW p, NEW component, IsProblem(p, component), NEW left \in Nat, NEW deeper,
           left # 0 => deeper \in [Ats(component) -> Partial(component)]
    PROVE  Visited(p, component, left, deeper) \in [Ats(component) -> Partial(component)]
<1> DEFINE D == Partial(component)
<1>1. ASSUME NEW at \in Ats(component), component \ DOMAIN at.given # {}, left # 0
      PROVE  Tried(p, at, Min(component \ DOMAIN at.given), deeper) \in D
  <2> DEFINE v == Min(component \ DOMAIN at.given)
  <2>1. component \ DOMAIN at.given \subseteq Nat
    BY DEF IsProblem
  <2>2. v \in component
    BY <1>1, <2>1, LeastOf
  <2> HIDE DEF v
  <2>3. PICK f : IsTried(f, p, component, at, v, deeper)
    BY <1>1, <2>2, TriedLoop
  <2>4. Unknown \in 0 .. Unknown
    BY KitTypes
  <2>5. QED
    BY <2>3, <2>4 DEF v, IsTried
<1>2. \A at \in Ats(component) : at.given \in D /\ at.best \in D
  BY DEF Ats
<1> DEFINE body(at) ==
             LET rest == component \ DOMAIN at.given
             IN IF \E v \in rest : Open(p, at.given, v) = {} THEN at.best
                ELSE IF Prunes(p, at.best, Bound(p, at.given, rest)) THEN at.best
                ELSE IF rest = {} \/ left = 0 THEN at.given ELSE Tried(p, at, Min(rest), deeper)
<1>3. \A at \in Ats(component) : body(at) \in D
  <2> HIDE DEF D
  <2>1. QED
    BY <1>1, <1>2
<1>4. Visited(p, component, left, deeper) = [at \in Ats(component) |-> body(at)]
  BY DEF Visited, Ats
<1> HIDE DEF body
<1>5. QED
  BY <1>3, <1>4

\* A visit answers well if those with one slot less to assign do.
LEMMA VisitedGood ==
    ASSUME NEW p, NEW component, IsProblem(p, component), NEW left \in Nat, NEW deeper,
           left # 0 => deeper \in [Ats(component) -> Partial(component)],
           left # 0 => \A at \in Ats(component) :
                /\ Agrees(p, at.given) /\ Good(p, component, at.best)
                /\ Cardinality(component \ DOMAIN at.given) = left - 1
                => Good(p, component, deeper[at]),
           NEW at \in Ats(component), Agrees(p, at.given), Good(p, component, at.best),
           Cardinality(component \ DOMAIN at.given) = left
    PROVE  Good(p, component, Visited(p, component, left, deeper)[at])
<1> DEFINE rest == component \ DOMAIN at.given
           v == Min(rest)
           x == Visited(p, component, left, deeper)[at]
<1>1. \/ x = at.best
      \/ rest = {} /\ x = at.given
      \/ rest # {} /\ left = 0
      \/ rest # {} /\ left # 0 /\ x = Tried(p, at, v, deeper)
  BY DEF Visited, Ats
<1>2. at.given \in Partial(component) /\ at.best \in Partial(component) /\ at = [given |-> at.given, best |-> at.best]
  BY DEF Ats
<1>3. DOMAIN at.given \subseteq component
  BY <1>2, PartialTypes
<1>4. IsFiniteSet(rest) /\ rest \subseteq Nat
  <2>1. IsFiniteSet(component) /\ component \subseteq Nat /\ rest \subseteq component
    BY DEF IsProblem
  <2> HIDE DEF rest
  <2>2. QED
    BY <2>1, FS_Subset
<1>5. CASE rest = {} /\ x = at.given
  <2>1. DOMAIN at.given = component
    BY <1>3, <1>5
  <2>2. QED
    BY <1>2, <1>5, <2>1 DEF Good, Proper
<1>6. CASE rest # {} /\ left = 0
  <2> HIDE DEF rest
  <2>1. Cardinality(rest) = 0
    BY <1>6 DEF rest
  <2>2. rest = {}
    BY <1>4, <2>1, FS_EmptySet
  <2>3. QED
    BY <1>6, <2>2
<1>7. CASE rest # {} /\ left # 0 /\ x = Tried(p, at, v, deeper)
  <2>1. v \in rest
    <3> HIDE DEF rest
    <3>1. QED
      BY <1>4, <1>7, LeastOf
  <2> HIDE DEF v, x
  <2>a. PICK f : IsTried(f, p, component, at, v, deeper)
    <3>1. v \in component
      BY <2>1
    <3>2. QED
      BY <1>7, <3>1, TriedLoop
  <2>2. /\ Tried(p, at, v, deeper) = f[Unknown] /\ f[0] = at.best
        /\ f \in [0 .. Unknown -> Partial(component)]
        /\ \A c \in 1 .. Unknown :
              f[c] = IF c \notin Open(p, at.given, v) THEN f[c - 1]
                     ELSE deeper[[given |-> Assign(at.given, v, c), best |-> f[c - 1]]]
    BY <2>a DEF IsTried
  <2>3. ASSUME NEW c \in Open(p, at.given, v), NEW best \in Partial(component), Good(p, component, best)
        PROVE  Good(p, component, deeper[[given |-> Assign(at.given, v, c), best |-> best]])
    <3> DEFINE more == Assign(at.given, v, c)
               next == [given |-> more, best |-> best]
    <3>1. /\ more \in Partial(component) /\ Agrees(p, more) /\ DOMAIN more = DOMAIN at.given \cup {v}
      <4>1. IsAssigned(more, p, component, at.given, v)
        BY <1>2, <2>1, AssignAgrees
      <4>2. QED
        BY <4>1 DEF IsAssigned
    <3> HIDE DEF more
    <3>2. component \ DOMAIN more = rest \ {v}
      BY <3>1
    <3>3. Cardinality(rest \ {v}) = Cardinality(rest) - 1
      <4> HIDE DEF rest
      <4>1. QED
        BY <1>4, <2>1, FS_RemoveElement
    <3>4. next \in Ats(component) /\ next.given = more /\ next.best = best
      BY <3>1 DEF Ats
    <3>5. Cardinality(component \ DOMAIN more) = left - 1
      BY <3>2, <3>3
    <3> HIDE DEF next, rest
    <3>6. Good(p, component, deeper[next])
      BY <1>7, <2>3, <3>1, <3>4, <3>5
    <3>7. QED
      BY <3>6 DEF next, more
  <2> DEFINE T == {n \in Nat : n <= Unknown => Good(p, component, f[n])}
  <2>4. 0 \in T
    BY <2>2
  <2>5. ASSUME NEW n \in Nat, n \in T PROVE n + 1 \in T
    <3> SUFFICES ASSUME n + 1 <= Unknown PROVE Good(p, component, f[n + 1])
      OBVIOUS
    <3>1. n + 1 \in 1 .. Unknown /\ (n + 1) - 1 = n /\ n <= Unknown /\ n \in 0 .. Unknown
      BY KitTypes
    <3>2. Good(p, component, f[n]) /\ f[n] \in Partial(component)
      BY <2>2, <2>5, <3>1
    <3>3. f[n + 1] = IF n + 1 \notin Open(p, at.given, v) THEN f[n]
                     ELSE deeper[[given |-> Assign(at.given, v, n + 1), best |-> f[n]]]
      BY <2>2, <3>1
    <3>4. QED
      BY <2>3, <3>2, <3>3
  <2>6. Nat \subseteq T
    <3> HIDE DEF T
    <3>1. QED
      BY <2>4, <2>5, Counting
  <2>7. Good(p, component, f[Unknown])
    BY <2>6, KitTypes
  <2>8. QED
    BY <1>7, <2>2, <2>7 DEF x
<1>8. QED
  BY <1>1, <1>5, <1>6, <1>7

\* The visits, from the deepest.
LEMMA VisitLoop ==
    ASSUME NEW p, NEW component, IsProblem(p, component)
    PROVE  \E f : /\ Visit(p, component) = f[Cardinality(component)][[given |-> <<>>, best |-> <<>>]]
                  /\ f \in [0 .. Cardinality(component) -> [Ats(component) -> Partial(component)]]
                  /\ \A left \in 0 .. Cardinality(component) :
                        f[left] = Visited(p, component, left, f[left - 1])
<1> DEFINE D == [Ats(component) -> Partial(component)]
           a == Visited(p, component, 0, 0)
           m == Cardinality(component)
           S == [n \in 1 .. m |-> [x \in D |-> Visited(p, component, n, x)]]
           Is(f) == f = [n \in 0 .. m |-> Visited(p, component, n, f[n - 1])]
           after == CHOOSE f : Is(f)
<1>0. ASSUME NEW n \in 1 .. m, NEW x \in D PROVE Visited(p, component, n, x) \in D
  <2>1. n \in Nat
    OBVIOUS
  <2> HIDE DEF m
  <2>2. QED
    BY <2>1, VisitedTypes
<1>1. S \in [1 .. m -> [D -> D]] /\ m \in Nat /\ a \in D
  <2>1. m \in Nat
    BY FS_CardinalityType DEF IsProblem
  <2>2. a \in D
    BY VisitedTypes
  <2> HIDE DEF D, a, m
  <2>3. QED
    BY <1>0, <2>1, <2>2
<1>2. PICK f : IsRun(f, D, a, m, S)
  <2> HIDE DEF S, m, a, D
  <2>1. QED
    BY <1>1, LoopExists
<1>a. f \in [0 .. m -> D] /\ f[0] = a
  BY <1>2 DEF IsRun
<1>b. \A x : Visited(p, component, 0, x) = a
  BY DEF Visited
<1> HIDE DEF a
<1>3. \A n \in 1 .. m : f[n] = Visited(p, component, n, f[n - 1])
  <2>1. \A n \in 1 .. m : n - 1 \in 0 .. m
    BY <1>1
  <2>2. \A n \in 1 .. m, x \in D : S[n][x] = Visited(p, component, n, x)
    OBVIOUS
  <2> HIDE DEF S, m, D
  <2>3. QED
    BY <1>2, <1>a, <2>1, <2>2 DEF IsRun
<1>4. \A n \in 0 .. m : n = 0 \/ n \in 1 .. m
  BY <1>1
<1>5. Is(f)
  <2> DEFINE h == [n \in 0 .. m |-> Visited(p, component, n, f[n - 1])]
  <2> HIDE DEF S, m, D
  <2>1. ASSUME NEW n \in 0 .. m PROVE f[n] = h[n]
    <3>1. h[n] = Visited(p, component, n, f[n - 1])
      OBVIOUS
    <3>2. CASE n = 0
      BY <1>a, <1>b, <3>1, <3>2
    <3>3. CASE n \in 1 .. m
      BY <1>3, <3>1, <3>3
    <3>4. QED
      BY <1>4, <3>2, <3>3
  <2>2. f = [n \in 0 .. m |-> f[n]] /\ h = [n \in 0 .. m |-> h[n]]
    BY <1>a
  <2> HIDE DEF h
  <2>3. f = h
    BY <2>1, <2>2
  <2>4. QED
    BY <2>3 DEF h
<1>6. Is(after)
  BY <1>5
<1>7. Visit(p, component) = after[m][[given |-> <<>>, best |-> <<>>]]
  BY DEF Visit
<1>8. after = [n \in 0 .. m |-> Visited(p, component, n, after[n - 1])]
  BY <1>6
<1>9. after = f
  <2> DEFINE T == {n \in Nat : n <= m => after[n] = f[n]}
  <2> HIDE DEF after, S, m, D
  <2>1. 0 \in 0 .. m /\ \A n \in 1 .. m : n \in 0 .. m
    BY <1>1
  <2>2. \A n \in 0 .. m : after[n] = Visited(p, component, n, after[n - 1])
    <3> DEFINE h == [n \in 0 .. m |-> Visited(p, component, n, after[n - 1])]
    <3>1. \A n \in 0 .. m : h[n] = Visited(p, component, n, after[n - 1])
      OBVIOUS
    <3>2. after = h
      BY <1>8
    <3> HIDE DEF h
    <3>3. QED
      BY <3>1, <3>2
  <2>3. 0 \in T
    BY <1>a, <1>b, <2>1, <2>2
  <2>4. ASSUME NEW n \in Nat, n \in T PROVE n + 1 \in T
    <3> SUFFICES ASSUME n + 1 <= m PROVE after[n + 1] = f[n + 1]
      OBVIOUS
    <3>1. n + 1 \in 1 .. m /\ (n + 1) - 1 = n /\ n <= m
      BY <1>1
    <3>2. after[n] = f[n]
      BY <2>4, <3>1
    <3>3. after[n + 1] = Visited(p, component, n + 1, after[(n + 1) - 1])
      BY <2>1, <2>2, <3>1
    <3>4. f[n + 1] = Visited(p, component, n + 1, f[(n + 1) - 1])
      BY <1>3, <3>1
    <3>5. QED
      BY <3>1, <3>2, <3>3, <3>4
  <2>5. Nat \subseteq T
    <3> HIDE DEF T
    <3>1. QED
      BY <2>3, <2>4, Counting
  <2>6. \A n \in 0 .. m : after[n] = f[n]
    BY <1>1, <2>5
  <2>7. after = [n \in 0 .. m |-> after[n]] /\ f = [n \in 0 .. m |-> f[n]]
    BY <1>8, <1>a
  <2>8. QED
    BY <2>6, <2>7
<1>10. \A n \in 0 .. m : f[n] = Visited(p, component, n, f[n - 1])
  <2> HIDE DEF S, m, D, after
  <2>1. QED
    BY <1>a, <1>b, <1>3, <1>4
<1>11. QED
  <2> HIDE DEF after, S, a
  <2>1. QED
    BY <1>a, <1>7, <1>9, <1>10

\* A component is searched for a proper assignment.
LEMMA VisitIsGood ==
    ASSUME NEW p, NEW component, IsProblem(p, component)
    PROVE  Good(p, component, Visit(p, component))
<1> DEFINE m == Cardinality(component)
           start == [given |-> <<>>, best |-> <<>>]
<1>0. m \in Nat
  BY FS_CardinalityType DEF IsProblem
<1>1. PICK f : /\ Visit(p, component) = f[m][start]
               /\ f \in [0 .. m -> [Ats(component) -> Partial(component)]]
               /\ \A left \in 0 .. m : f[left] = Visited(p, component, left, f[left - 1])
  BY VisitLoop
<1> HIDE DEF m
<1> DEFINE Fit(n) == \A at \in Ats(component) :
                /\ Agrees(p, at.given) /\ Good(p, component, at.best)
                /\ Cardinality(component \ DOMAIN at.given) = n
                => Good(p, component, f[n][at])
           T == {n \in Nat : n <= m => Fit(n)}
<1>2. ASSUME NEW n \in 0 .. m, n # 0 => Fit(n - 1) PROVE Fit(n)
  <2> SUFFICES ASSUME NEW at \in Ats(component), Agrees(p, at.given), Good(p, component, at.best),
                      Cardinality(component \ DOMAIN at.given) = n
               PROVE  Good(p, component, f[n][at])
    OBVIOUS
  <2>1. n \in Nat /\ (n # 0 => n - 1 \in 0 .. m)
    BY <1>0
  <2>2. n # 0 => f[n - 1] \in [Ats(component) -> Partial(component)]
    BY <1>1, <2>1
  <2>3. Good(p, component, Visited(p, component, n, f[n - 1])[at])
    BY <1>2, <2>1, <2>2, VisitedGood
  <2>4. QED
    BY <1>1, <2>3
<1>3. 0 \in T
  <2>1. 0 \in 0 .. m
    BY <1>0
  <2> HIDE DEF Fit
  <2>2. QED
    BY <1>2, <2>1
<1>4. ASSUME NEW n \in Nat, n \in T PROVE n + 1 \in T
  <2> HIDE DEF Fit
  <2> SUFFICES ASSUME n + 1 <= m PROVE Fit(n + 1)
    OBVIOUS
  <2>1. n + 1 \in 0 .. m /\ n <= m /\ (n + 1) - 1 = n
    BY <1>0
  <2>2. Fit((n + 1) - 1)
    BY <1>4, <2>1
  <2>3. QED
    BY <1>2, <2>1, <2>2
<1>5. Nat \subseteq T
  <2> HIDE DEF T
  <2>1. QED
    BY <1>3, <1>4, Counting
<1>6. Fit(m)
  <2> HIDE DEF Fit
  <2>1. QED
    BY <1>0, <1>5
<1>7. <<>> \in Partial(component) /\ Agrees(p, <<>>) /\ DOMAIN <<>> = {}
  <2>1. DOMAIN <<>> = {}
    OBVIOUS
  <2>2. <<>> \in [{} -> 1 .. Unknown]
    OBVIOUS
  <2>3. QED
    BY <2>1, <2>2, PartialTypes DEF Agrees
<1>8. start \in Ats(component) /\ start.given = <<>> /\ start.best = <<>>
  BY <1>7 DEF Ats
<1>9. component \ DOMAIN start.given = component
  BY <1>7, <1>8
<1>10. Good(p, component, start.best)
  BY <1>8 DEF Good
<1> HIDE DEF start
<1>11. Good(p, component, f[m][start])
  BY <1>6, <1>7, <1>8, <1>9, <1>10 DEF m
<1>12. QED
  BY <1>1, <1>11

\* A slot is in its component, and what it conflicts with as well.
LEMMA ComponentIs ==
    ASSUME NEW p, IsProblem(p, p.slots), p.edges \subseteq p.slots \X p.slots, NEW v \in p.slots
    PROVE  /\ v \in Component(p, v) /\ Component(p, v) \subseteq p.slots
           /\ IsProblem(p, Component(p, v))
           /\ \A u \in p.slots : <<v, u>> \in p.edges => Component(p, u) = Component(p, v)
<1> DEFINE closed(s) == \A e \in p.edges : e[1] \in s => e[2] \in s
           C(u) == {x \in p.slots : \A s \in SUBSET p.slots : u \in s /\ closed(s) => x \in s}
<1>1. \A u : Component(p, u) = C(u)
  BY DEF Component
<1>2. v \in C(v) /\ C(v) \subseteq p.slots
  OBVIOUS
<1>3. ASSUME NEW u \in p.slots, <<v, u>> \in p.edges
      PROVE  C(u) = C(v)
  <2>1. <<u, v>> \in p.edges
    BY <1>3 DEF IsProblem
  <2>2. \A s : closed(s) => (u \in s <=> v \in s)
    <3> SUFFICES ASSUME NEW s, closed(s) PROVE u \in s <=> v \in s
      OBVIOUS
    <3>1. <<v, u>>[1] \in s => <<v, u>>[2] \in s
      BY <1>3
    <3>2. <<u, v>>[1] \in s => <<u, v>>[2] \in s
      BY <2>1
    <3>3. QED
      BY <3>1, <3>2
  <2> HIDE DEF closed
  <2>3. QED
    BY <2>2
<1>4. IsProblem(p, C(v))
  <2>1. IsFiniteSet(C(v))
    <3>1. IsFiniteSet(p.slots)
      BY DEF IsProblem
    <3> HIDE DEF C
    <3>2. QED
      BY <1>2, <3>1, FS_Subset
  <2> HIDE DEF C
  <2>2. QED
    BY <1>2, <2>1 DEF IsProblem
<1> HIDE DEF C
<1>5. QED
  BY <1>1, <1>2, <1>3, <1>4

\* A solution gives every slot one of its columns, and conflicting slots two.
LEMMA SolveSeparates ==
    ASSUME NEW p, IsProblem(p, p.slots), p.edges \subseteq p.slots \X p.slots, Solve(p).ok,
           NEW v \in p.slots
    PROVE  /\ Solve(p).columns[v] \in p.domain[v]
           /\ \A u \in p.slots : <<v, u>> \in p.edges => Solve(p).columns[u] # Solve(p).columns[v]
<1> DEFINE best(u) == Visit(p, Component(p, u))
<1>1. \A u \in p.slots : best(u) # <<>> /\ Solve(p).columns[u] = best(u)[u]
  <2> DEFINE all == [x \in p.slots |-> best(x)]
             columns == [u \in p.slots |-> IF all[u] = <<>> THEN Unknown ELSE all[u][u]]
  <2>1. (\A u \in p.slots : all[u] # <<>>) /\ Solve(p).columns = columns
    BY DEF Solve
  <2> HIDE DEF best
  <2>a. \A u \in p.slots : all[u] = best(u)
    OBVIOUS
  <2> HIDE DEF all
  <2>2. \A u \in p.slots : best(u) # <<>>
    BY <2>1, <2>a
  <2>b. \A u \in p.slots : columns[u] = IF all[u] = <<>> THEN Unknown ELSE all[u][u]
    OBVIOUS
  <2> HIDE DEF columns
  <2>3. \A u \in p.slots : Solve(p).columns[u] = IF best(u) = <<>> THEN Unknown ELSE best(u)[u]
    BY <2>1, <2>a, <2>b
  <2>4. QED
    BY <2>2, <2>3
<1>2. ASSUME NEW u \in p.slots PROVE Proper(p, Component(p, u), best(u))
  <2>1. IsProblem(p, Component(p, u))
    BY ComponentIs
  <2>2. Good(p, Component(p, u), best(u))
    BY <2>1, VisitIsGood
  <2> HIDE DEF best
  <2>3. QED
    BY <1>1, <2>2 DEF Good
<1>3. v \in Component(p, v)
  BY ComponentIs
<1>4. Agrees(p, best(v)) /\ DOMAIN best(v) = Component(p, v)
  BY <1>2 DEF Proper
<1>5. best(v)[v] \in p.domain[v]
  BY <1>3, <1>4 DEF Agrees
<1>6. ASSUME NEW u \in p.slots, <<v, u>> \in p.edges PROVE best(u)[u] # best(v)[v]
  <2>1. Component(p, u) = Component(p, v) /\ u \in Component(p, u)
    BY <1>6, ComponentIs
  <2>2. best(u) = best(v)
    BY <2>1
  <2> HIDE DEF best
  <2>3. QED
    BY <1>3, <1>4, <1>6, <2>1, <2>2 DEF Agrees
<1> HIDE DEF best
<1>7. QED
  BY <1>1, <1>5, <1>6

\* Segments of the recording, each with the window it comes from.
Pieces == [start : Nat, end : Nat, who : Speakers, window : Nat]

\* Every window poses a problem.
LEMMA ProblemIs ==
    ASSUME NEW segments \in Seq(Pieces), NEW w
    PROVE  /\ IsProblem(Problem(segments, w), Problem(segments, w).slots)
           /\ Problem(segments, w).slots = Slots(segments, w)
           /\ Problem(segments, w).edges =
                {e \in Slots(segments, w) \X Slots(segments, w) : e[1] # e[2] /\ Conflict(segments, w, e[1], e[2])}
           /\ \A v \in Slots(segments, w) :
                Conflict(segments, w, v, Nobody) => Problem(segments, w).domain[v] \subseteq Kit
<1> DEFINE slots == Slots(segments, w)
           edges == {e \in slots \X slots : e[1] # e[2] /\ Conflict(segments, w, e[1], e[2])}
           p == Problem(segments, w)
<1>1. p.slots = slots /\ p.edges = edges
  BY DEF Problem
<1>2. \A v \in slots : /\ p.domain[v] \subseteq Kit \cup {Unknown}
                       /\ Conflict(segments, w, v, Nobody) => p.domain[v] \subseteq Kit
  <2> DEFINE weight == [v \in slots |-> [g \in Kit \cup {Unknown} |->
                          IF g = Unknown THEN 0 ELSE Support(segments, w, v, g)]]
             domain == [v \in slots |-> {g \in Kit : weight[v][g] > 0}
                          \cup (IF Conflict(segments, w, v, Nobody) THEN {} ELSE {Unknown})]
  <2>1. p.domain = domain
    BY DEF Problem
  <2> HIDE DEF weight, slots
  <2>2. \A v \in slots : domain[v] = {g \in Kit : weight[v][g] > 0}
                          \cup (IF Conflict(segments, w, v, Nobody) THEN {} ELSE {Unknown})
    OBVIOUS
  <2> HIDE DEF domain, p
  <2>3. QED
    BY <2>1, <2>2
<1>3. slots \subseteq Nat /\ IsFiniteSet(slots)
  <2>1. DOMAIN segments = 1 .. Len(segments) /\ Len(segments) \in Nat
    OBVIOUS
  <2>2. \A i \in 1 .. Len(segments) : segments[i].who \in Nat
    <3>1. \A i \in 1 .. Len(segments) : segments[i] \in Pieces
      OBVIOUS
    <3>2. \A who \in Speakers : who \in Nat
      BY MossAssumption, SMTT(30) DEF Speakers, Nobody, Spans
    <3>3. QED
      BY <3>1, <3>2 DEF Pieces
  <2> DEFINE whos == {segments[i].who : i \in 1 .. Len(segments)}
  <2>3. IsFiniteSet(whos)
    <3> DEFINE f == [i \in 1 .. Len(segments) |-> segments[i].who]
    <3>1. IsFiniteSet(1 .. Len(segments))
      BY <2>1, FS_Interval
    <3>2. f \in Surjection(1 .. Len(segments), whos)
      BY DEF Surjection
    <3> HIDE DEF f, whos
    <3>3. QED
      BY <3>1, <3>2, FS_Surjection
  <2>4. slots \subseteq whos
    BY <2>1 DEF Slots, ToSet
  <2>5. whos \subseteq Nat
    BY <2>2
  <2> HIDE DEF slots, whos
  <2>6. QED
    BY <2>3, <2>4, <2>5, FS_Subset
<1>4. \A a, b : Conflict(segments, w, a, b) => Conflict(segments, w, b, a)
  <2>1. \A a, b : {a, b} = {b, a}
    OBVIOUS
  <2>2. QED
    BY <2>1 DEF Conflict
<1>5. \A u, v : <<u, v>> \in edges => <<v, u>> \in edges /\ u # v
  <2> HIDE DEF slots
  <2>1. QED
    BY <1>4
<1>6. \A v \in slots : p.domain[v] \subseteq 1 .. Unknown
  <2> HIDE DEF slots, p
  <2>1. QED
    BY <1>2, KitTypes
<1>7. IsProblem(p, p.slots)
  <2> HIDE DEF slots, edges, p
  <2>1. QED
    BY <1>1, <1>3, <1>5, <1>6 DEF IsProblem
<1>8. QED
  BY <1>1, <1>2, <1>7

------------------------
(* The windows and the transcript. *)

\* The windows, and what validate_spec has seen of an accepted plan's.
Windows == [from : Nat, to : Nat]

PlanIsValid ==
    /\ plan.windows \in Seq(Windows) /\ plan.windows # <<>> /\ plan.frames \in Nat
    /\ \A i \in 1 .. Len(plan.windows) : WindowIsValid(i)

\* The grid of the cuts is one of whole milliseconds.
LEMMA OnGrid ==
    ASSUME NEW x \in Nat, x % Grid = 0
    PROVE  \E q \in Nat : x = FramesPerMs * q
<1>1. Grid \in Nat /\ Grid > 0 /\ FramesPerMs \in Nat /\ FramesPerMs > 0 /\ Grid % FramesPerMs = 0
  BY MossAssumption, SMTT(30)
<1>2. Grid = FramesPerMs * (Grid \div FramesPerMs) /\ Grid \div FramesPerMs \in Nat
  BY <1>1
<1>3. x = Grid * (x \div Grid) /\ x \div Grid \in Nat
  BY <1>1
<1>4. PICK a \in Nat : Grid = FramesPerMs * a
  BY <1>2
<1>5. PICK b \in Nat : x = Grid * b
  BY <1>3
<1>6. a * b \in Nat /\ x = FramesPerMs * (a * b)
  BY <1>1, <1>4, <1>5
<1>7. QED
  BY <1>6

\* A window's milliseconds begin where the one before has ended.
LEMMA WindowTimes ==
    ASSUME PlanIsValid, NEW i \in 1 .. Len(plan.windows)
    PROVE  LET w == plan.windows[i] IN
           /\ Starts(w) \in Nat /\ Milliseconds(Frames(w)) \in Nat
           /\ Starts(w) + Milliseconds(Frames(w)) = Ends(w)
           /\ Ends(w) <= Milliseconds(plan.frames)
           /\ \A j \in 1 .. Len(plan.windows) : i < j => Ends(w) <= Starts(plan.windows[j])
<1> DEFINE ws == plan.windows
           n == Len(ws)
           F == FramesPerMs
<1>1. /\ n \in Nat /\ F \in Nat /\ F > 0 /\ plan.frames \in Nat
      /\ \A k \in 1 .. n : ws[k].from \in Nat /\ ws[k].to \in Nat
  <2>1. ws \in Seq(Windows) /\ F \in Nat /\ F > 0 /\ plan.frames \in Nat
    BY MossAssumption DEF PlanIsValid
  <2>2. \A k \in 1 .. n : ws[k] \in Windows
    BY <2>1
  <2>3. QED
    BY <2>1, <2>2, SMTT(30) DEF Windows
<1>2. \A k \in 1 .. n :
        /\ ws[k].from = (IF k = 1 THEN 0 ELSE ws[k - 1].to)
        /\ ws[k].to - ws[k].from >= 1 /\ ws[k].to <= plan.frames /\ ws[k].from % Grid = 0
        /\ k < n => ws[k].to % Grid = 0
  <2> SUFFICES ASSUME NEW k \in 1 .. n
               PROVE  /\ ws[k].from = (IF k = 1 THEN 0 ELSE ws[k - 1].to)
                      /\ ws[k].to - ws[k].from >= 1 /\ ws[k].to <= plan.frames /\ ws[k].from % Grid = 0
                      /\ k < n => ws[k].to % Grid = 0
    OBVIOUS
  <2>1. WindowIsValid(k)
    BY DEF PlanIsValid
  <2>2. ws[k].to - ws[k].from \in 1 .. MaxWindow /\ MaxWindow \in Nat
    BY <2>1, MossAssumption DEF WindowIsValid, Frames
  <2>3. QED
    BY <1>1, <2>1, <2>2 DEF WindowIsValid
<1> HIDE DEF ws, n
<1> USE DEF Starts, Ends, Milliseconds, Frames
<1>3. PICK q \in Nat : ws[i].from = F * q
  BY <1>1, <1>2, OnGrid DEF n, ws
<1> DEFINE from == ws[i].from
           to == ws[i].to
<1>4. /\ from \in Nat /\ to \in Nat /\ to - from >= 1 /\ to <= plan.frames
  BY <1>1, <1>2 DEF n, ws
<1> HIDE DEF from, to
<1>5. from = F * q
  BY <1>3 DEF from
<1> HIDE DEF F
<1>6. from \div F = q
  BY <1>1, <1>5
<1>7. (to - from + F - 1) \div F \in Nat
  <2>1. to - from + F - 1 \in Nat
    BY <1>1, <1>4
  <2>2. QED
    BY <1>1, <2>1
<1>8. q + ((to - from + F - 1) \div F) = (to + F - 1) \div F
  <2>1. PICK x \in Nat : x = to - from + F - 1
    BY <1>1, <1>4
  <2>2. to + F - 1 = F * q + x
    BY <1>1, <1>4, <1>5, <2>1
  <2>3. (F * q + x) \div F = q + (x \div F)
    BY <1>1
  <2>4. QED
    BY <2>1, <2>2, <2>3
<1>9. (to + F - 1) \div F <= (plan.frames + F - 1) \div F
  <2>1. to + F - 1 \in Nat /\ plan.frames + F - 1 \in Nat /\ to + F - 1 <= plan.frames + F - 1
    BY <1>1, <1>4
  <2>2. \A x, y \in Nat : x <= y => x \div F <= y \div F
    BY <1>1
  <2>3. QED
    BY <2>1, <2>2
<1>10. ASSUME NEW j \in 1 .. n, i < j
       PROVE  (to + F - 1) \div F <= ws[j].from \div F
  <2>1. i < n /\ i \in Nat /\ j \in Nat /\ i \in 1 .. n
    BY <1>1, <1>10 DEF n, ws
  <2>2. to % Grid = 0
    BY <1>2, <2>1 DEF to
  <2>3. PICK r \in Nat : to = F * r
    BY <1>4, <2>2, OnGrid DEF F
  <2>4. (to + F - 1) \div F = r
    <3>1. F - 1 \in Nat /\ (F - 1) \div F = 0
      BY <1>1, SMTT(30)
    <3>2. PICK x \in Nat : x = F - 1 /\ x \div F = 0
      BY <3>1
    <3>3. to + F - 1 = F * r + x
      BY <1>1, <2>3, <3>2
    <3>4. (F * r + x) \div F = r + (x \div F)
      BY <1>1
    <3>5. QED
      BY <3>2, <3>3, <3>4
  <2> DEFINE T == {k \in Nat : i + 1 + k <= n => to <= ws[i + 1 + k].from}
  <2>5. 0 \in T
    <3>1. i + 1 \in 1 .. n /\ i + 1 # 1 /\ (i + 1) - 1 = i /\ i + 1 + 0 = i + 1
      BY <1>1, <2>1
    <3>2. ws[i + 1].from = to
      BY <1>2, <3>1 DEF to
    <3>3. QED
      BY <1>4, <3>1, <3>2
  <2>6. ASSUME NEW k \in Nat, k \in T PROVE k + 1 \in T
    <3> SUFFICES ASSUME i + 1 + (k + 1) <= n PROVE to <= ws[i + 1 + (k + 1)].from
      OBVIOUS
    <3> DEFINE m == i + 1 + k
    <3>1. /\ m \in 1 .. n /\ m + 1 \in 1 .. n /\ (m + 1) - 1 = m /\ m + 1 # 1
          /\ i + 1 + (k + 1) = m + 1
      BY <1>1, <2>1
    <3>2. to <= ws[m].from
      BY <2>6, <3>1
    <3> HIDE DEF m
    <3>3. ws[m + 1].from = ws[m].to /\ ws[m].to - ws[m].from >= 1
      BY <1>2, <3>1
    <3>4. ws[m].from \in Nat /\ ws[m].to \in Nat
      BY <1>1, <3>1
    <3>5. to <= ws[m + 1].from
      BY <1>4, <3>2, <3>3, <3>4, SMTT(30)
    <3>6. QED
      BY <3>1, <3>5
  <2>7. Nat \subseteq T
    <3> HIDE DEF T
    <3>1. QED
      BY <2>5, <2>6, Counting
  <2>8. j - i - 1 \in Nat /\ i + 1 + (j - i - 1) = j /\ j <= n
    BY <1>1, <1>10, <2>1
  <2>9. to <= ws[j].from
    BY <2>7, <2>8
  <2>10. \A x, y \in Nat : x <= y => x \div F <= y \div F
    BY <1>1
  <2>11. to \div F = r
    BY <1>1, <2>3
  <2>12. to \div F <= ws[j].from \div F
    BY <1>1, <1>4, <2>9, <2>10
  <2>13. QED
    BY <2>4, <2>11, <2>12
<1>11. QED
  BY <1>1, <1>6, <1>7, <1>8, <1>9, <1>10 DEF ws, n, from, to, F

\* Every window has a reply that keeps to it.
RepliesAreValid ==
    /\ replies \in Seq([out : Seq(Segments), groups : Seq(Seq(Nat))])
    /\ Len(replies) <= Len(plan.windows)
    /\ \A w \in 1 .. Len(replies) : IsReply(replies[w], Milliseconds(Frames(plan.windows[w])))

\* The segments of the recording: each in its window, in the order of the windows.
IsAssembled(segments) ==
    /\ segments \in Seq(Pieces) /\ segments # <<>>
    /\ \A i \in 1 .. Len(segments) :
          /\ segments[i].window \in 1 .. Len(plan.windows)
          /\ segments[i].start < segments[i].end
          /\ segments[i].end <= Ends(plan.windows[segments[i].window])
    /\ \A i, j \in 1 .. Len(segments) : i < j =>
          /\ segments[i].start <= segments[j].start
          /\ \/ segments[i].window # segments[j].window
             \/ segments[i].who = segments[j].who
             => segments[i].end <= segments[j].start

\* Segment i of window w, in the recording's time.
Piece(w, i) ==
    [start |-> Starts(plan.windows[w]) + replies[w].out[i].start,
     end |-> Starts(plan.windows[w]) + replies[w].out[i].end,
     who |-> replies[w].out[i].who, window |-> w]

\* A segment of a reply, placed in the recording, lies within its window.
LEMMA PieceIs ==
    ASSUME PlanIsValid, RepliesAreValid, NEW w \in 1 .. Len(replies), NEW i \in 1 .. Len(replies[w].out)
    PROVE  /\ Piece(w, i) \in Pieces /\ w \in 1 .. Len(plan.windows) /\ Piece(w, i).window = w
           /\ Piece(w, i).start < Piece(w, i).end
           /\ Piece(w, i).end <= Ends(plan.windows[w])
           /\ Starts(plan.windows[w]) <= Piece(w, i).start
           /\ \A j \in 1 .. Len(replies[w].out) : i < j =>
                /\ Piece(w, i).start <= Piece(w, j).start
                /\ Piece(w, i).who = Piece(w, j).who => Piece(w, i).end <= Piece(w, j).start
<1> DEFINE out == replies[w].out
           at == Starts(plan.windows[w])
           d == Milliseconds(Frames(plan.windows[w]))
<1>1. w \in Nat /\ w \in 1 .. Len(plan.windows)
  BY DEF RepliesAreValid, PlanIsValid
<1>2. /\ at \in Nat /\ d \in Nat /\ at + d = Ends(plan.windows[w])
  BY <1>1, WindowTimes
<1>3. /\ out \in Seq(Segments) /\ InSequence(out)
      /\ \A k \in 1 .. Len(out) : out[k].start < out[k].end /\ out[k].end <= d
  BY DEF RepliesAreValid, IsReply
<1>4. \A k \in 1 .. Len(out) : out[k].start \in Nat /\ out[k].end \in Nat /\ out[k].who \in Speakers
  <2>1. \A k \in 1 .. Len(out) : out[k] \in Segments
    BY <1>3
  <2>2. QED
    BY <2>1 DEF Segments
<1>5. \A k \in 1 .. Len(out) :
        /\ Piece(w, k).start = at + out[k].start /\ Piece(w, k).end = at + out[k].end
        /\ Piece(w, k).who = out[k].who /\ Piece(w, k).window = w
  BY DEF Piece
<1> HIDE DEF at, d, out
<1>6. i \in 1 .. Len(out)
  BY DEF out
<1>7. Piece(w, i) \in Pieces
  <2>1. at + out[i].start \in Nat /\ at + out[i].end \in Nat /\ out[i].who \in Speakers
    BY <1>2, <1>4, <1>6, SMTT(30)
  <2>2. QED
    BY <1>1, <2>1 DEF Piece, Pieces, at, out
<1>8. ASSUME NEW j \in 1 .. Len(out), i < j
      PROVE  /\ Piece(w, i).start <= Piece(w, j).start
             /\ Piece(w, i).who = Piece(w, j).who => Piece(w, i).end <= Piece(w, j).start
  <2>1. out[i].start <= out[j].start /\ (out[i].who = out[j].who => out[i].end <= out[j].start)
    BY <1>3, <1>6, <1>8 DEF InSequence
  <2>2. out[i].start \in Nat /\ out[i].end \in Nat /\ out[j].start \in Nat
    BY <1>4, <1>6
  <2>3. /\ Piece(w, i).start = at + out[i].start /\ Piece(w, i).end = at + out[i].end
        /\ Piece(w, i).who = out[i].who
    BY <1>5, <1>6
  <2>4. Piece(w, j).start = at + out[j].start /\ Piece(w, j).who = out[j].who
    BY <1>5
  <2>5. QED
    BY <1>2, <2>1, <2>2, <2>3, <2>4, SMTT(30)
<1>9. /\ Piece(w, i).start < Piece(w, i).end /\ Piece(w, i).end <= Ends(plan.windows[w])
      /\ at <= Piece(w, i).start /\ Piece(w, i).window = w
  <2>1. /\ out[i].start \in Nat /\ out[i].end \in Nat
        /\ out[i].start < out[i].end /\ out[i].end <= d
    BY <1>3, <1>4, <1>6
  <2>2. /\ Piece(w, i).start = at + out[i].start /\ Piece(w, i).end = at + out[i].end
        /\ Piece(w, i).window = w
    BY <1>5, <1>6
  <2>3. QED
    BY <1>2, <2>1, <2>2, SMTT(30)
<1>10. QED
  BY <1>1, <1>7, <1>8, <1>9 DEF at, out

\* The replies of all windows make one ordered sequence of segments.
LEMMA AssembledIs ==
    ASSUME PlanIsValid, RepliesAreValid, Len(replies) = Len(plan.windows)
    PROVE  IsAssembled(Assembled)
<1> DEFINE n == Len(replies)
           part(w) == [i \in 1 .. Len(replies[w].out) |-> Piece(w, i)]
           seqs == [w \in 1 .. n |-> part(w)]
           all == FlattenSeq(seqs)
<1>1. replies \in Seq([out : Seq(Segments), groups : Seq(Seq(Nat))]) /\ n \in Nat /\ DOMAIN replies = 1 .. n
  BY DEF RepliesAreValid
<1>2. \A w \in 1 .. n : /\ replies[w].out \in Seq(Segments) /\ replies[w].out # <<>>
                        /\ DOMAIN replies[w].out = 1 .. Len(replies[w].out) /\ Len(replies[w].out) \in Nat
  <2> SUFFICES ASSUME NEW w \in 1 .. n
               PROVE  replies[w].out \in Seq(Segments) /\ replies[w].out # <<>>
    OBVIOUS
  <2>1. QED
    BY DEF RepliesAreValid, IsReply
<1>3. n # 0
  <2>1. \A s \in Seq(Windows) : s # <<>> => Len(s) # 0
    OBVIOUS
  <2>2. QED
    BY <2>1 DEF PlanIsValid
<1>4. Assembled = all
  <2> DEFINE was(w) == [i \in DOMAIN replies[w].out |->
                  LET s == replies[w].out[i] at == Starts(plan.windows[w])
                  IN [start |-> at + s.start, end |-> at + s.end, who |-> s.who, window |-> w]]
             before == [w \in DOMAIN replies |-> was(w)]
  <2>1. ASSUME NEW w \in 1 .. n PROVE was(w) = part(w)
    <3>1. DOMAIN replies[w].out = 1 .. Len(replies[w].out)
      BY <1>2
    <3>2. QED
      BY <3>1 DEF Piece
  <2>2. Assembled = FlattenSeq(before)
    BY DEF Assembled
  <2> HIDE DEF was, part, n
  <2>3. before = seqs
    BY <1>1, <2>1
  <2>4. QED
    BY <2>2, <2>3
<1>5. \A w \in 1 .. n : \A i \in 1 .. Len(replies[w].out) : Piece(w, i) \in Pieces
  BY PieceIs
<1>6. \A w \in 1 .. n : /\ part(w) \in Seq(Pieces) /\ Len(part(w)) = Len(replies[w].out) /\ part(w) # <<>>
                        /\ \A i \in 1 .. Len(replies[w].out) : part(w)[i] = Piece(w, i)
  <2> SUFFICES ASSUME NEW w \in 1 .. n
               PROVE  /\ part(w) \in Seq(Pieces) /\ Len(part(w)) = Len(replies[w].out) /\ part(w) # <<>>
                      /\ \A i \in 1 .. Len(replies[w].out) : part(w)[i] = Piece(w, i)
    OBVIOUS
  <2> DEFINE m == Len(replies[w].out)
  <2>1. m \in Nat /\ m # 0
    BY <1>2
  <2>2. \A i \in 1 .. m : Piece(w, i) \in Pieces
    BY <1>5
  <2> HIDE DEF m, n
  <2>3. part(w) = [i \in 1 .. m |-> Piece(w, i)]
    BY DEF m
  <2> HIDE DEF part
  <2>4. part(w) \in Seq(Pieces) /\ Len(part(w)) = m /\ \A i \in 1 .. m : part(w)[i] = Piece(w, i)
    BY <2>1, <2>2, <2>3
  <2>5. part(w) # <<>>
    BY <2>1, <2>4
  <2>6. QED
    BY <2>4, <2>5 DEF m
<1> HIDE DEF part
<1>7. seqs \in Seq(Seq(Pieces)) /\ Len(seqs) = n /\ \A w \in 1 .. n : seqs[w] = part(w)
  <2> HIDE DEF n
  <2>1. QED
    BY <1>1, <1>6
<1> HIDE DEF seqs
<1>8. all \in Seq(Pieces) /\ Parts(all, seqs) /\ PartsInOrder(all, seqs)
  BY <1>7, FlattenTypes, FlattenOrder
<1>9. all # <<>>
  <2>1. seqs # <<>> /\ seqs[Len(seqs)] # <<>>
    <3>1. n \in 1 .. n
      BY <1>1, <1>3
    <3> HIDE DEF n
    <3>2. \A s \in Seq(Seq(Pieces)) : Len(s) # 0 => s # <<>>
      OBVIOUS
    <3>3. QED
      BY <1>3, <1>6, <1>7, <3>1, <3>2
  <2>2. QED
    BY <1>7, <2>1, FlattenNonEmpty
<1> HIDE DEF all
<1>10. \A x \in 1 .. Len(all) : \E w \in 1 .. n : \E i \in 1 .. Len(replies[w].out) : all[x] = Piece(w, i)
  <2> SUFFICES ASSUME NEW x \in 1 .. Len(all)
               PROVE  \E w \in 1 .. n : \E i \in 1 .. Len(replies[w].out) : all[x] = Piece(w, i)
    OBVIOUS
  <2>1. PICK w \in 1 .. n : \E i \in 1 .. Len(seqs[w]) : all[x] = seqs[w][i]
    BY <1>7, <1>8 DEF Parts
  <2>2. PICK i \in 1 .. Len(seqs[w]) : all[x] = seqs[w][i]
    BY <2>1
  <2>3. i \in 1 .. Len(replies[w].out) /\ seqs[w][i] = Piece(w, i)
    BY <1>6, <1>7
  <2>4. QED
    BY <2>2, <2>3
<1>11. ASSUME NEW x \in 1 .. Len(all)
       PROVE  /\ all[x].window \in 1 .. Len(plan.windows) /\ all[x].start < all[x].end
              /\ all[x].end <= Ends(plan.windows[all[x].window])
  <2>1. PICK w \in 1 .. n : \E i \in 1 .. Len(replies[w].out) : all[x] = Piece(w, i)
    BY <1>10
  <2>2. PICK i \in 1 .. Len(replies[w].out) : all[x] = Piece(w, i)
    BY <2>1
  <2>3. QED
    BY <2>2, PieceIs, SMTT(30)
<1>12. ASSUME NEW x \in 1 .. Len(all), NEW y \in 1 .. Len(all), x < y
       PROVE  /\ all[x].start <= all[y].start
              /\ all[x].window # all[y].window \/ all[x].who = all[y].who => all[x].end <= all[y].start
  <2>1. PICK w \in 1 .. n, u \in 1 .. n : \E i \in 1 .. Len(seqs[w]), j \in 1 .. Len(seqs[u]) :
          all[x] = seqs[w][i] /\ all[y] = seqs[u][j] /\ (w < u \/ (w = u /\ i < j))
    <3>1. InTurn(all[x], all[y], seqs)
      BY <1>8, <1>12 DEF PartsInOrder
    <3>2. Len(seqs) = n
      BY <1>7
    <3> HIDE DEF n
    <3>3. QED
      BY <3>1, <3>2 DEF InTurn
  <2>2. PICK i \in 1 .. Len(seqs[w]), j \in 1 .. Len(seqs[u]) :
          all[x] = seqs[w][i] /\ all[y] = seqs[u][j] /\ (w < u \/ (w = u /\ i < j))
    BY <2>1
  <2>3. /\ i \in 1 .. Len(replies[w].out) /\ j \in 1 .. Len(replies[u].out)
        /\ all[x] = Piece(w, i) /\ all[y] = Piece(u, j)
    BY <1>6, <1>7, <2>2
  <2>4. CASE w < u
    <3>1. Piece(w, i).end <= Ends(plan.windows[w]) /\ Piece(w, i).start < Piece(w, i).end
      BY <2>3, PieceIs
    <3>2. Starts(plan.windows[u]) <= Piece(u, j).start
      BY <2>3, PieceIs
    <3>3. /\ Starts(plan.windows[w]) \in Nat /\ Milliseconds(Frames(plan.windows[w])) \in Nat
          /\ Starts(plan.windows[w]) + Milliseconds(Frames(plan.windows[w])) = Ends(plan.windows[w])
          /\ Ends(plan.windows[w]) <= Starts(plan.windows[u])
      BY <2>4, WindowTimes
    <3>4. Starts(plan.windows[u]) \in Nat
      BY WindowTimes
    <3>5. Piece(w, i) \in Pieces /\ Piece(u, j) \in Pieces
      BY <2>3, PieceIs
    <3>6. Piece(w, i).start \in Nat /\ Piece(w, i).end \in Nat /\ Piece(u, j).start \in Nat
      BY <3>5 DEF Pieces
    <3>a. Ends(plan.windows[w]) \in Nat
      BY <3>3
    <3>7. Piece(w, i).end <= Piece(u, j).start /\ Piece(w, i).start <= Piece(u, j).start
      BY <3>1, <3>2, <3>3, <3>4, <3>6, <3>a, SMTT(30)
    <3>8. QED
      BY <2>3, <3>7
  <2>5. CASE w = u /\ i < j
    <3>1. all[x].window = w /\ all[y].window = w
      BY <2>3, <2>5, PieceIs
    <3>2. /\ Piece(w, i).start <= Piece(w, j).start
          /\ Piece(w, i).who = Piece(w, j).who => Piece(w, i).end <= Piece(w, j).start
      BY <2>3, <2>5, PieceIs
    <3>3. QED
      BY <2>3, <2>5, <3>1, <3>2
  <2>6. QED
    BY <2>2, <2>4, <2>5
<1>13. IsAssembled(all)
  BY <1>8, <1>9, <1>11, <1>12 DEF IsAssembled
<1>14. QED
  BY <1>4, <1>13

\* They keep each speaker apart from himself, and to the windows.
LEMMA AssembledApart ==
    ASSUME PlanIsValid, plan.duration \in Int, NEW segments, IsAssembled(segments)
    PROVE  /\ ~Overlapping(segments) /\ TimingIsValid(segments)
           /\ ~(Last(segments).end > Timeline)
<1> DEFINE n == Len(segments)
<1>1. /\ segments \in Seq(Pieces) /\ segments # <<>> /\ n \in Nat /\ DOMAIN segments = 1 .. n
      /\ \A i \in 1 .. n : /\ segments[i].window \in 1 .. Len(plan.windows)
                           /\ segments[i].start < segments[i].end
                           /\ segments[i].end <= Ends(plan.windows[segments[i].window])
      /\ \A i, j \in 1 .. n : i < j =>
          /\ segments[i].start <= segments[j].start
          /\ segments[i].who = segments[j].who => segments[i].end <= segments[j].start
  BY DEF IsAssembled
<1>2. \A i \in 1 .. n : segments[i].start \in Nat /\ segments[i].end \in Nat
  <2>1. \A i \in 1 .. n : segments[i] \in Pieces
    BY <1>1
  <2>2. QED
    BY <2>1 DEF Pieces
<1>3. n \in 1 .. n
  <2>1. \A s \in Seq(Pieces) : s # <<>> => Len(s) \in 1 .. Len(s)
    OBVIOUS
  <2>2. QED
    BY <1>1, <2>1
<1> HIDE DEF n
<1>4. ~Overlapping(segments)
  <2> SUFFICES ASSUME NEW i \in 1 .. n, NEW j \in 1 .. n, i < j, segments[i].who = segments[j].who
               PROVE  ~(segments[j].start < segments[i].end)
    BY <1>1 DEF Overlapping
  <2>1. segments[i].end <= segments[j].start
    BY <1>1
  <2>2. segments[i].end \in Nat /\ segments[j].start \in Nat
    BY <1>2
  <2>3. QED
    BY <2>1, <2>2
<1>5. TimingIsValid(segments)
  <2> SUFFICES ASSUME NEW i \in 1 .. n
               PROVE  /\ segments[i].start < segments[i].end
                      /\ segments[i].end <= Ends(plan.windows[segments[i].window])
                      /\ i > 1 => segments[i - 1].start <= segments[i].start
    BY <1>1 DEF TimingIsValid
  <2>1. i > 1 => i - 1 \in 1 .. n /\ i - 1 < i
    BY <1>1
  <2>2. QED
    BY <1>1, <2>1
<1>6. ~(Last(segments).end > Timeline)
  <2> DEFINE w == segments[n].window
             m == Milliseconds(plan.frames)
  <2>1. w \in 1 .. Len(plan.windows) /\ segments[n].end <= Ends(plan.windows[w])
    BY <1>1, <1>3
  <2> HIDE DEF w
  <2>2. /\ Starts(plan.windows[w]) \in Nat /\ Milliseconds(Frames(plan.windows[w])) \in Nat
        /\ Starts(plan.windows[w]) + Milliseconds(Frames(plan.windows[w])) = Ends(plan.windows[w])
        /\ Ends(plan.windows[w]) <= Milliseconds(plan.frames)
    BY <2>1, WindowTimes
  <2>3. Ends(plan.windows[w]) \in Nat
    BY <2>2
  <2>4. m \in Int
    BY MossAssumption, SMTT(30) DEF PlanIsValid, Milliseconds
  <2>5. Ends(plan.windows[w]) <= m
    BY <2>2
  <2>6. segments[n].end \in Nat
    BY <1>2, <1>3
  <2> HIDE DEF m
  <2>7. segments[n].end <= m
    BY <2>1, <2>3, <2>4, <2>5, <2>6
  <2>8. Timeline \in Int /\ m <= Timeline
    <3>1. \A x, y \in Int : Max({x, y}) \in Int /\ y <= Max({x, y})
      <4> SUFFICES ASSUME NEW x \in Int, NEW y \in Int PROVE Max({x, y}) \in Int /\ y <= Max({x, y})
        OBVIOUS
      <4>1. \E z \in {x, y} : \A t \in {x, y} : z >= t
        OBVIOUS
      <4>2. Max({x, y}) \in {x, y} /\ \A t \in {x, y} : Max({x, y}) >= t
        BY <4>1 DEF Max
      <4>3. QED
        BY <4>2
    <3>2. Timeline = Max({plan.duration, m})
      BY DEF Timeline, m
    <3>3. QED
      BY <2>4, <3>1, <3>2
  <2>9. ~(segments[n].end > Timeline)
    BY <2>4, <2>6, <2>7, <2>8
  <2>10. QED
    BY <1>1, <2>9 DEF Last, n
<1>7. QED
  BY <1>4, <1>5, <1>6

\* The speaker of the recording that a segment is given.
Mapped(segments, s) ==
    [s EXCEPT !.who = IF @ = Nobody THEN Unknown ELSE Solve(Problem(segments, s.window)).columns[@]]

\* The assignment keeps them apart, and apart from nobody.
LEMMA AssignedApart ==
    ASSUME NEW segments, IsAssembled(segments), NEW assigned,
           assigned = [i \in 1 .. Len(segments) |-> Mapped(segments, segments[i])],
           \A w \in 1 .. Len(plan.windows) : Solve(Problem(segments, w)).ok
    PROVE  ~Overlapping(assigned)
<1> DEFINE n == Len(segments)
           columns(w) == Solve(Problem(segments, w)).columns
           slots(w) == Slots(segments, w)
<1>1. /\ segments \in Seq(Pieces) /\ n \in Nat /\ DOMAIN segments = 1 .. n
      /\ \A i \in 1 .. n : segments[i].window \in 1 .. Len(plan.windows)
      /\ \A i, j \in 1 .. n :
           /\ i < j
           /\ segments[i].window # segments[j].window \/ segments[i].who = segments[j].who
           => segments[i].end <= segments[j].start
  BY DEF IsAssembled
<1>2. \A i \in 1 .. n : segments[i] \in Pieces
  BY <1>1
<1>3. \A i \in 1 .. n : segments[i].start \in Nat /\ segments[i].end \in Nat
  BY <1>2 DEF Pieces
<1>4. \A i \in 1 .. n :
        /\ assigned[i].start = segments[i].start /\ assigned[i].end = segments[i].end
        /\ assigned[i].who = IF segments[i].who = Nobody THEN Unknown
                             ELSE columns(segments[i].window)[segments[i].who]
  <2> SUFFICES ASSUME NEW i \in 1 .. n
               PROVE  /\ assigned[i].start = segments[i].start /\ assigned[i].end = segments[i].end
                      /\ assigned[i].who = IF segments[i].who = Nobody THEN Unknown
                                           ELSE columns(segments[i].window)[segments[i].who]
    OBVIOUS
  <2>1. assigned[i] = Mapped(segments, segments[i])
    OBVIOUS
  <2>2. segments[i] \in Pieces
    BY <1>2
  <2> DEFINE s == segments[i]
  <2> HIDE DEF s, columns
  <2>3. s \in Pieces /\ assigned[i] = Mapped(segments, s)
    BY <2>1, <2>2 DEF s
  <2>4. QED
    BY <2>3 DEF Mapped, columns, Pieces, s
<1>5. ASSUME NEW w \in 1 .. Len(plan.windows), NEW v \in slots(w)
      PROVE  /\ columns(w)[v] \in Problem(segments, w).domain[v]
             /\ \A u \in slots(w) : v # u /\ Conflict(segments, w, v, u) => columns(w)[u] # columns(w)[v]
             /\ Conflict(segments, w, v, Nobody) => columns(w)[v] # Unknown
  <2> DEFINE p == Problem(segments, w)
  <2>1. /\ IsProblem(p, p.slots) /\ p.slots = slots(w)
        /\ p.edges = {e \in slots(w) \X slots(w) : e[1] # e[2] /\ Conflict(segments, w, e[1], e[2])}
        /\ \A x \in slots(w) : Conflict(segments, w, x, Nobody) => p.domain[x] \subseteq Kit
    BY <1>1, ProblemIs
  <2>2. Solve(p).ok /\ columns(w) = Solve(p).columns
    OBVIOUS
  <2> HIDE DEF p, slots, columns
  <2>3. /\ Solve(p).columns[v] \in p.domain[v]
        /\ \A u \in p.slots : <<v, u>> \in p.edges => Solve(p).columns[u] # Solve(p).columns[v]
    BY <2>1, <2>2, SolveSeparates
  <2>4. \A u \in slots(w) : v # u /\ Conflict(segments, w, v, u) => <<v, u>> \in p.edges
    BY <2>1
  <2>5. ASSUME Conflict(segments, w, v, Nobody) PROVE columns(w)[v] # Unknown
    <3>1. columns(w)[v] \in Kit
      BY <2>1, <2>2, <2>3, <2>5
    <3>2. \A g \in Kit : g # Unknown
      BY KitTypes
    <3>3. QED
      BY <3>1, <3>2
  <2>6. QED
    BY <2>1, <2>2, <2>3, <2>4, <2>5 DEF p
<1> SUFFICES ASSUME NEW i \in 1 .. n, NEW j \in 1 .. n, i < j,
                    assigned[i].who = assigned[j].who, assigned[j].start < assigned[i].end
             PROVE  FALSE
  BY DEF Overlapping
<1>6. ~(segments[i].end <= segments[j].start) /\ segments[i].end > segments[j].start
  BY <1>3, <1>4
<1>7. segments[i].window = segments[j].window /\ segments[i].who # segments[j].who
  BY <1>1, <1>6
<1> DEFINE w == segments[i].window
           v == segments[i].who
           u == segments[j].who
<1>8. w \in 1 .. Len(plan.windows)
  BY <1>1
<1>9. v # Nobody => v \in slots(w)
  BY <1>1 DEF Slots, ToSet
<1>10. u # Nobody => u \in slots(w)
  BY <1>1, <1>7 DEF Slots, ToSet
<1>11. Conflict(segments, w, v, u) /\ Conflict(segments, w, u, v)
  <2>1. segments[j].window = w /\ {v, u} = {u, v}
    BY <1>7
  <2>2. QED
    BY <1>1, <1>6, <2>1 DEF Conflict
<1>12. /\ v # Nobody => assigned[i].who = columns(w)[v]
       /\ v = Nobody => assigned[i].who = Unknown
       /\ u # Nobody => assigned[j].who = columns(w)[u]
       /\ u = Nobody => assigned[j].who = Unknown
  BY <1>4, <1>7
<1>13. v # u
  BY <1>7
<1> HIDE DEF w, v, u, columns, slots
<1>14. CASE v # Nobody /\ u # Nobody
  <2>1. v \in slots(w) /\ u \in slots(w)
    BY <1>9, <1>10, <1>14
  <2>2. columns(w)[u] # columns(w)[v]
    BY <1>5, <1>8, <1>11, <1>13, <2>1
  <2>3. QED
    BY <1>12, <1>14, <2>2
<1>15. CASE v # Nobody /\ u = Nobody
  <2>1. columns(w)[v] # Unknown
    BY <1>5, <1>8, <1>9, <1>11, <1>15
  <2>2. QED
    BY <1>12, <1>15, <2>1
<1>16. CASE v = Nobody /\ u # Nobody
  <2>1. columns(w)[u] # Unknown
    BY <1>5, <1>8, <1>10, <1>11, <1>16
  <2>2. QED
    BY <1>12, <1>16, <2>1
<1>17. QED
  BY <1>13, <1>14, <1>15, <1>16

------------------------
(* The invariant of the transcript. *)

\* The plans, whatever their windows.
Plans == [frames : Nat, windows : Seq(Windows), timing : {"v2", "v3"},
          mapping : {"graph", "composed"}, duration : Int]

\* The codes of a contradiction that accepted answers never come to.
Contradictions == {"local_moss_source_text_changed", "local_moss_assembled_timing_invalid",
                   "invalid_mapping_timing", "same_speaker_overlap", "mapping_invariant_failed"}

\* An accepted plan and accepted replies are valid, the last answer is conserved
\* in its reply, and no contradiction was found.
TranscriptInv ==
    /\ plan \in Plans /\ answer \in Seq(Turns) /\ failure \notin Contradictions
    /\ stage \in {"planning", "answering", "collected", "done", "failed"}
    /\ stage = "planning" => replies = <<>> /\ answer = <<>>
    /\ stage \in {"answering", "collected"} => PlanIsValid /\ RepliesAreValid
    /\ stage = "collected" => Len(replies) = Len(plan.windows)
    /\ answer # <<>> => Conserved(Last(replies), answer)
    /\ ~Overlapping(transcript)

\* The invariant holds at the start.
LEMMA TranscriptInvInit == MossInit => TranscriptInv
<1> SUFFICES ASSUME MossInit PROVE TranscriptInv
  OBVIOUS
<1>1. /\ stage = "planning" /\ failure = "none"
      /\ answer = <<>> /\ replies = <<>> /\ transcript = <<>>
  BY DEF MossInit
<1>2. plan \in Plans
  <2>1. PICK frames \in Sources, drift \in Drifts, timing \in {"v2", "v3"}, mapping \in {"graph", "composed"} :
          plan = [frames |-> frames, windows |-> <<>>, timing |-> timing, mapping |-> mapping,
                  duration |-> (frames + FramesPerMs - 1) \div FramesPerMs + drift]
    BY DEF MossInit
  <2>2. frames \in Nat /\ drift \in Int /\ FramesPerMs \in Nat /\ FramesPerMs > 0
    BY MossAssumption
  <2>3. (frames + FramesPerMs - 1) \div FramesPerMs + drift \in Int
    BY <2>2
  <2>4. <<>> \in Seq(Windows)
    OBVIOUS
  <2>5. QED
    BY <2>1, <2>2, <2>3, <2>4 DEF Plans
<1>3. ~Overlapping(transcript)
  BY <1>1 DEF Overlapping
<1>4. QED
  BY <1>1, <1>2, <1>3 DEF TranscriptInv, Contradictions

\* A cut is a whole number of frames.
LEMMA QuietCutTypes ==
    ASSUME NEW target \in Int, NEW energy
    PROVE  QuietCut(target, energy) \in Int
<1> DEFINE quiet == {o \in Offsets : energy[o] <= 1 /\ \A q \in Offsets : energy[o] <= energy[q]}
<1>1. Lookback \in Nat /\ Energy \in Nat
  BY MossAssumption
<1>2. quiet \subseteq Nat /\ \A o \in quiet : o <= Lookback
  BY <1>1 DEF Offsets
<1>3. quiet # {} => Max(quiet) \in Int
  <2> HIDE DEF quiet
  <2>1. quiet # {} => Max(quiet) \in quiet
    BY <1>1, <1>2, GreatestOf
  <2>2. \A o \in quiet : o \in Int
    BY <1>2
  <2>3. QED
    BY <2>1, <2>2, Zenon
<1>4. QuietCut(target, energy) =
        IF quiet = {} THEN target ELSE target - (Lookback + Energy) + Max(quiet) + Energy
  BY DEF QuietCut
<1> HIDE DEF quiet
<1>5. QED
  BY <1>1, <1>3, <1>4

\* A failure that is none of the contradictions keeps the invariant.
LEMMA FailKeeps ==
    ASSUME TranscriptInv, NEW code, code \notin Contradictions, Fail(code)
    PROVE  TranscriptInv'
<1>1. stage' = "failed" /\ failure' = code
      /\ UNCHANGED <<plan, answer, replies, anchors, transcript>>
  BY DEF Fail
<1>2. QED
  BY <1>1 DEF TranscriptInv, Conserved, Overlapping, Plans, MadeOf

\* The plan and the replies are valid as long as they stay.
LEMMA ValidStays ==
    ASSUME plan' = plan
    PROVE  /\ PlanIsValid => PlanIsValid'
           /\ replies' = replies /\ RepliesAreValid => RepliesAreValid'
<1>1. PlanIsValid => PlanIsValid'
  BY DEF PlanIsValid, WindowIsValid
<1>2. ASSUME replies' = replies, RepliesAreValid PROVE RepliesAreValid'
  BY <1>2 DEF RepliesAreValid, IsReply, InSequence
<1>3. QED
  BY <1>1, <1>2

\* The planner keeps the invariant,
LEMMA PlanWindowKeeps == ASSUME TranscriptInv, PlanWindow PROVE TranscriptInv'
<1> DEFINE target == Min({Planned + MaxWindow, plan.frames})
<1>1. plan \in Plans /\ plan.windows \in Seq(Windows) /\ plan.frames \in Nat /\ MaxWindow \in Nat
  BY MossAssumption DEF TranscriptInv, Plans
<1>2. Planned \in Nat
  <2>1. CASE plan.windows = <<>>
    BY <2>1 DEF Planned
  <2>2. CASE plan.windows # <<>>
    <3>1. \A s \in Seq(Windows) : s # <<>> => s[Len(s)] \in Windows
      OBVIOUS
    <3>2. plan.windows[Len(plan.windows)] \in Windows
      BY <1>1, <2>2, <3>1
    <3>3. Planned = plan.windows[Len(plan.windows)].to
      BY <2>2 DEF Planned, Last
    <3>4. QED
      BY <3>2, <3>3 DEF Windows
  <2>3. QED
    BY <2>1, <2>2
<1>3. target \in Nat
  <2>1. Planned + MaxWindow \in Nat
    BY <1>1, <1>2
  <2>2. QED
    BY <1>1, <2>1, MinMax
<1>4. CASE Fail("window_limit") \/ Fail("window_invalid")
  BY <1>4, FailKeeps DEF Contradictions
<1>5. CASE ~(Fail("window_limit") \/ Fail("window_invalid"))
  <2>1. PICK to \in Int : /\ ~(to <= Planned)
                          /\ plan' = [plan EXCEPT !.windows = Append(@, [from |-> Planned, to |-> to])]
                          /\ UNCHANGED <<stage, failure, answer, replies, anchors, transcript>>
    <3>1. PICK energy \in [Offsets -> 0 .. 2] :
            LET to == IF target < plan.frames THEN QuietCut(target, energy) ELSE target IN
            IF to <= Planned \/ to > target THEN Fail("window_invalid")
            ELSE /\ plan' = [plan EXCEPT !.windows = Append(@, [from |-> Planned, to |-> to])]
                 /\ UNCHANGED <<stage, failure, answer, replies, anchors, transcript>>
      BY <1>5 DEF PlanWindow
    <3> HIDE DEF target
    <3>2. QuietCut(target, energy) \in Int
      BY <1>3, QuietCutTypes
    <3>3. QED
      BY <1>3, <1>5, <3>1, <3>2
  <2>2. to \in Nat
    BY <1>2, <2>1
  <2>3. Append(plan.windows, [from |-> Planned, to |-> to]) \in Seq(Windows)
    <3>1. [from |-> Planned, to |-> to] \in Windows
      BY <1>2, <2>2 DEF Windows
    <3>2. QED
      BY <1>1, <3>1
  <2>4. plan' \in Plans
    BY <1>1, <2>1, <2>3 DEF Plans
  <2>5. stage = "planning"
    BY DEF PlanWindow
  <2>6. QED
    BY <2>1, <2>4, <2>5 DEF TranscriptInv, Overlapping
<1>6. QED
  BY <1>4, <1>5

\* and so does the validation of the plan,
LEMMA PrepareKeeps == ASSUME TranscriptInv, Prepare PROVE TranscriptInv'
<1>1. CASE Fail("local_moss_plan_invalid") \/ Fail("local_moss_window_invalid")
  BY <1>1, FailKeeps DEF Contradictions
<1>2. CASE ~(Fail("local_moss_plan_invalid") \/ Fail("local_moss_window_invalid"))
  <2>1. /\ stage = "planning" /\ Planned = plan.frames /\ plan.frames \in 1 .. MaxSource - 1
        /\ \A i \in DOMAIN plan.windows : WindowIsValid(i)
        /\ stage' = "answering"
        /\ UNCHANGED <<failure, plan, answer, replies, anchors, transcript>>
    BY <1>2 DEF Prepare
  <2>2. plan \in Plans /\ plan.windows \in Seq(Windows) /\ plan.frames \in Nat
    BY DEF TranscriptInv, Plans
  <2>3. plan.windows # <<>>
    BY <2>1, MossAssumption, SMTT(30) DEF Planned
  <2>4. PlanIsValid
    BY <2>1, <2>2, <2>3 DEF PlanIsValid
  <2>5. replies = <<>> /\ answer = <<>>
    BY <2>1 DEF TranscriptInv
  <2>6. RepliesAreValid
    BY <2>2, <2>5 DEF RepliesAreValid
  <2>7. PlanIsValid' /\ RepliesAreValid'
    BY <2>1, <2>4, <2>6, ValidStays
  <2>8. QED
    BY <2>1, <2>5, <2>7 DEF TranscriptInv, Overlapping
<1>3. QED
  BY <1>1, <1>2

\* and the adaptation of an answer: it is valid, and conserves the turns,
LEMMA DecodeKeeps == ASSUME TranscriptInv, Decode PROVE TranscriptInv'
<1> DEFINE index == Len(replies) + 1
           duration == Milliseconds(Frames(plan.windows[index]))
<1>1. stage = "answering" /\ index <= Len(plan.windows) /\ PlanIsValid /\ RepliesAreValid
  BY DEF Decode, TranscriptInv
<1>2. /\ replies \in Seq([out : Seq(Segments), groups : Seq(Seq(Nat))]) /\ Len(replies) \in Nat
      /\ index \in 1 .. Len(plan.windows)
  BY <1>1 DEF RepliesAreValid, PlanIsValid
<1>3. duration \in Nat
  <2> HIDE DEF index
  <2>1. QED
    BY <1>1, <1>2, WindowTimes
<1>4. ASSUME NEW raw \in Seq(Turns), Adapt(raw, duration).ok
      PROVE  Conserves(raw, Adapt(raw, duration))
  <2> HIDE DEF duration
  <2>1. QED
    BY <1>3, <1>4, AdaptConserves
<1>5. CASE Fail("local_moss_response_binding_mismatch") \/ Fail("local_moss_response_invalid")
  BY <1>5, FailKeeps DEF Contradictions
<1>6. CASE ~(Fail("local_moss_response_binding_mismatch") \/ Fail("local_moss_response_invalid"))
  <2>1. PICK raw \in BoundedSeq(Turns, MaxTurns) :
            LET adapted == Adapt(raw, duration) IN
            IF ~adapted.ok THEN Fail("local_moss_response_invalid")
            ELSE IF ~Conserves(raw, adapted) THEN Fail("local_moss_source_text_changed")
            ELSE /\ replies' = Append(replies, [out |-> adapted.out, groups |-> adapted.groups])
                 /\ answer' = raw
                 /\ UNCHANGED <<stage, failure, plan, anchors, transcript>>
    BY <1>6 DEF Decode
  <2>2. raw \in Seq(Turns)
    <3>1. PICK m \in 0 .. MaxTurns : raw \in [1 .. m -> Turns]
      BY DEF BoundedSeq, SeqOf
    <3>2. m \in Nat
      BY MossAssumption
    <3>3. QED
      BY <3>1, <3>2
  <2> DEFINE a == Adapt(raw, duration)
             r == [out |-> a.out, groups |-> a.groups]
  <2>3. a.ok /\ Conserves(raw, a)
    <3> HIDE DEF a
    <3>1. a.ok
      BY <1>6, <2>1 DEF a
    <3>2. QED
      BY <1>4, <2>2, <3>1 DEF a
  <2>4. /\ replies' = Append(replies, r) /\ answer' = raw
        /\ UNCHANGED <<stage, failure, plan, anchors, transcript>>
    <3> HIDE DEF duration
    <3>1. QED
      BY <2>1, <2>3
  <2>5. IsReply(a, duration) /\ Conserved(a, raw) /\ a \in Adapting
    <3> HIDE DEF duration
    <3>1. QED
      BY <1>3, <2>2, <2>3, AdaptConserves, AllAdapted DEF Adapted
  <2> HIDE DEF a
  <2>6. IsReply(r, duration) /\ Conserved(r, raw) /\ r \in [out : Seq(Segments), groups : Seq(Seq(Nat))]
    <3> DEFINE d == duration
    <3> HIDE DEF d
    <3>1. r.out = a.out /\ r.groups = a.groups
      OBVIOUS
    <3>2. a.out \in Seq(Segments) /\ a.groups \in Seq(Seq(Nat))
      BY <2>5 DEF Adapting
    <3>3. r \in [out : Seq(Segments), groups : Seq(Seq(Nat))]
      BY <3>2
    <3> HIDE DEF r
    <3>4. IsReply(a, d) /\ Conserved(a, raw)
      BY <2>5 DEF d
    <3>5. IsReply(r, d)
      BY <3>1, <3>4 DEF IsReply
    <3>6. Conserved(r, raw)
      BY <3>1, <3>4 DEF Conserved
    <3>7. QED
      BY <3>3, <3>5, <3>6 DEF d
  <2> HIDE DEF r
  <2>7. /\ replies' \in Seq([out : Seq(Segments), groups : Seq(Seq(Nat))])
        /\ Len(replies') = index /\ replies'[index] = r /\ Last(replies') = r
        /\ \A w \in 1 .. index : (w \in 1 .. Len(replies) /\ replies'[w] = replies[w]) \/ w = index
    BY <1>2, <2>4, <2>6, SMTT(30) DEF Last
  <2>8. RepliesAreValid'
    <3>1. ASSUME NEW w \in 1 .. index
          PROVE  IsReply(replies'[w], Milliseconds(Frames(plan'.windows[w])))
      <4>1. CASE w = index
        BY <2>4, <2>6, <2>7, <4>1
      <4>2. CASE w \in 1 .. Len(replies) /\ replies'[w] = replies[w]
        <5>1. IsReply(replies[w], Milliseconds(Frames(plan.windows[w])))
          BY <1>1, <4>2 DEF RepliesAreValid
        <5>2. QED
          BY <2>4, <4>2, <5>1
      <4>3. QED
        BY <2>7, <4>1, <4>2
    <3>2. QED
      BY <1>1, <2>4, <2>7, <3>1 DEF RepliesAreValid, IsReply, InSequence
  <2>9. PlanIsValid'
    BY <1>1, <2>4, ValidStays
  <2>10. Conserved(Last(replies'), answer')
    BY <2>4, <2>6, <2>7
  <2>11. (answer # <<>> => Conserved(Last(replies), answer))'
    BY <2>10 DEF Conserved, MadeOf
  <2>12. ~Overlapping(transcript)' /\ plan' \in Plans /\ failure' \notin Contradictions
    BY <2>4 DEF TranscriptInv, Overlapping
  <2>13. QED
    BY <1>1, <2>2, <2>4, <2>8, <2>9, <2>11, <2>12 DEF TranscriptInv
<1>7. QED
  BY <1>5, <1>6

\* and the end of the answers,
LEMMA CollectKeeps == ASSUME TranscriptInv, Collect PROVE TranscriptInv'
<1>1. CASE Fail("local_moss_diarization_response_invalid")
  BY <1>1, FailKeeps DEF Contradictions
<1>2. CASE ~Fail("local_moss_diarization_response_invalid")
  <2>1. /\ stage = "answering" /\ Len(replies) = Len(plan.windows)
        /\ stage' = "collected" /\ answer' = <<>>
        /\ UNCHANGED <<failure, plan, replies, transcript>>
    BY <1>2 DEF Collect
  <2>2. PlanIsValid' /\ RepliesAreValid'
    BY <2>1, ValidStays DEF TranscriptInv
  <2>3. QED
    BY <2>1, <2>2 DEF TranscriptInv, Overlapping
<1>3. QED
  BY <1>1, <1>2

\* A transcript in which nobody overlaps keeps the invariant.
LEMMA DoneKeeps ==
    ASSUME TranscriptInv, NEW segments, ~Overlapping(segments), Done(segments), stage = "collected"
    PROVE  TranscriptInv'
<1>1. stage' = "done" /\ transcript' = segments /\ UNCHANGED <<failure, plan, answer, replies, anchors>>
  BY DEF Done
<1>2. ~Overlapping(transcript)'
  BY <1>1, SMTT(30) DEF Overlapping
<1>3. answer' # <<>> => Conserved(Last(replies), answer)'
  BY <1>1 DEF TranscriptInv, Conserved, MadeOf
<1>4. /\ plan' \in Plans /\ answer' \in Seq(Turns) /\ failure' \notin Contradictions
      /\ stage' = "done"
  BY <1>1 DEF TranscriptInv
<1>5. QED
  BY <1>2, <1>3, <1>4 DEF TranscriptInv

\* The mapping never meets a contradiction in what was accepted.
LEMMA FinalizeKeeps == ASSUME TranscriptInv, Finalize PROVE TranscriptInv'
<1> DEFINE segments == Assembled
           solution == [w \in DOMAIN plan.windows |-> Solve(Problem(segments, w))]
           assigned == [i \in DOMAIN segments |->
                           LET s == segments[i] IN
                           [s EXCEPT !.who = IF @ = Nobody THEN Unknown ELSE solution[s.window].columns[@]]]
<1>1. stage = "collected" /\ PlanIsValid /\ RepliesAreValid /\ Len(replies) = Len(plan.windows)
  BY DEF Finalize, TranscriptInv
<1>2. plan.duration \in Int /\ DOMAIN plan.windows = 1 .. Len(plan.windows)
  BY <1>1 DEF TranscriptInv, Plans, PlanIsValid
<1>3. IsAssembled(segments)
  BY <1>1, AssembledIs
<1> HIDE DEF segments
<1>4. ~Overlapping(segments) /\ TimingIsValid(segments) /\ ~(Last(segments).end > Timeline)
  BY <1>1, <1>2, <1>3, AssembledApart
<1>5. (\A w \in DOMAIN plan.windows : solution[w].ok) => ~Overlapping(assigned)
  <2> SUFFICES ASSUME \A w \in DOMAIN plan.windows : solution[w].ok PROVE ~Overlapping(assigned)
    OBVIOUS
  <2>1. \A w \in 1 .. Len(plan.windows) : Solve(Problem(segments, w)).ok
    BY <1>2
  <2>2. DOMAIN segments = 1 .. Len(segments)
        /\ \A i \in 1 .. Len(segments) : segments[i].window \in 1 .. Len(plan.windows)
    BY <1>3 DEF IsAssembled
  <2>3. assigned = [i \in 1 .. Len(segments) |-> Mapped(segments, segments[i])]
    <3>1. \A i \in 1 .. Len(segments) :
            solution[segments[i].window] = Solve(Problem(segments, segments[i].window))
      BY <1>2, <2>2
    <3> HIDE DEF solution
    <3>2. QED
      BY <2>2, <3>1 DEF Mapped
  <2> HIDE DEF assigned, solution
  <2>4. QED
    BY <1>3, <2>1, <2>3, AssignedApart
<1>6. IF NativeSlots THEN Done(segments) ELSE Reconcile(segments)
  BY <1>4 DEF Finalize, segments
<1>7. CASE NativeSlots
  <2>1. Done(segments)
    BY <1>6, <1>7
  <2>2. QED
    BY <1>1, <1>4, <2>1, DoneKeeps
<1>8. CASE ~NativeSlots
  <2>1. IF \E w \in DOMAIN plan.windows : ~solution[w].ok THEN Fail("assignment_infeasible")
        ELSE IF Overlapping(assigned) THEN Fail("mapping_invariant_failed")
        ELSE Done(assigned)
    <3>1. Reconcile(segments)
      BY <1>6, <1>8
    <3>2. QED
      BY <1>4, <3>1 DEF Reconcile
  <2> HIDE DEF assigned, solution
  <2>2. CASE Fail("assignment_infeasible")
    BY <2>2, FailKeeps DEF Contradictions
  <2>3. CASE Done(assigned) /\ ~Overlapping(assigned)
    BY <1>1, <2>3, DoneKeeps
  <2>4. QED
    BY <1>5, <2>1, <2>2, <2>3
<1>9. QED
  BY <1>7, <1>8

\* No action leads out of the invariant.
LEMMA TranscriptInvNext == TranscriptInv /\ [MossNext]_mossVars => TranscriptInv'
<1> SUFFICES ASSUME TranscriptInv, [MossNext]_mossVars PROVE TranscriptInv'
  OBVIOUS
<1>1. CASE Cancelled
  BY <1>1, FailKeeps DEF Cancelled, Contradictions
<1>2. CASE UNCHANGED mossVars
  <2>1. UNCHANGED <<stage, failure, plan, answer, replies, anchors, transcript>>
    BY <1>2 DEF mossVars
  <2>2. (PlanIsValid => PlanIsValid') /\ (RepliesAreValid => RepliesAreValid')
    BY <2>1, ValidStays
  <2>3. QED
    BY <2>1, <2>2 DEF TranscriptInv, Conserved, Overlapping, MadeOf
<1>3. QED
  BY <1>1, <1>2, PlanWindowKeeps, PrepareKeeps, DecodeKeeps, CollectKeeps, FinalizeKeeps
     DEF MossNext

\* The invariant that the theorems rest on holds throughout.
THEOREM TranscriptInvariant == MossSpec => []TranscriptInv
<1>1. QED
  BY TranscriptInvInit, TranscriptInvNext, PTL DEF MossSpec

\* Whatever a worker answers, however its turns are ordered and joined, none is lost.
THEOREM TurnsAreConservedAlways == MossSpec => []TurnsAreConserved
<1>1. TranscriptInv => TurnsAreConserved
  <2> SUFFICES ASSUME TranscriptInv PROVE TurnsAreConserved
    OBVIOUS
  <2>1. failure # "local_moss_source_text_changed"
    BY DEF TranscriptInv, Contradictions
  <2>2. CASE answer = <<>>
    BY <2>1, <2>2 DEF TurnsAreConserved
  <2>3. CASE answer # <<>>
    <3> DEFINE reply == Last(replies)
               order == FlattenSeq(reply.groups)
    <3>1. Conserved(reply, answer) /\ answer \in Seq(Turns)
      BY <2>3 DEF TranscriptInv
    <3> HIDE DEF reply
    <3>2. \A k \in DOMAIN reply.out : SpansItsTurns(reply.out[k], reply.groups[k])
      <4>1. PICK duration : \A k \in DOMAIN reply.out : MadeOf(reply.out[k], reply.groups[k], answer, duration)
        BY <3>1 DEF Conserved
      <4>2. QED
        BY <3>1, <4>1, MadeSpans
    <3>3. /\ Len(order) = Len(answer) /\ ToSet(order) = DOMAIN answer
          /\ \A i, j \in DOMAIN order :
                i < j /\ answer[order[i]].who = answer[order[j]].who => order[i] < order[j]
      BY <3>1 DEF Conserved
    <3>4. QED
      BY <2>1, <3>2, <3>3 DEF TurnsAreConserved, reply
  <2>4. QED
    BY <2>2, <2>3
<1>2. QED
  BY <1>1, TranscriptInvariant, PTL

\* No speaker has two segments at one time, nor has nobody, and the checks that
\* would refuse such a transcript never do: for all recordings, answers and tracks.
THEOREM SpeakersNeverOverlapAlways == MossSpec => []SpeakersNeverOverlap
<1>1. TranscriptInv => SpeakersNeverOverlap
  BY DEF TranscriptInv, Contradictions, SpeakersNeverOverlap
<1>2. QED
  BY <1>1, TranscriptInvariant, PTL


------------------------
(* Sums over a finite set. *)

\* The sums of the subsets of S, each by one of its elements and the rest.
IsSum(it, f, S) ==
    it = [s \in SUBSET S |-> IF s = {} THEN 0
                             ELSE f[CHOOSE x \in s : TRUE] + it[s \ {CHOOSE x \in s : TRUE}]]

\* The subsets of a finite set, and what is left of one without an element.
LEMMA SubsetIs ==
    ASSUME NEW S, IsFiniteSet(S), NEW s \in SUBSET S
    PROVE  /\ IsFiniteSet(s) /\ Cardinality(s) \in Nat /\ Cardinality(s) <= Cardinality(S)
           /\ Cardinality(s) = 0 <=> s = {}
           /\ \A x \in s : s \ {x} \in SUBSET S /\ Cardinality(s \ {x}) = Cardinality(s) - 1
           /\ s # {} => (CHOOSE x \in s : TRUE) \in s
<1>1. IsFiniteSet(s) /\ Cardinality(s) <= Cardinality(S)
  BY FS_Subset
<1>2. Cardinality(s) \in Nat /\ (Cardinality(s) = 0 <=> s = {})
  BY <1>1, FS_CardinalityType, FS_EmptySet
<1>3. \A x \in s : s \ {x} \in SUBSET S /\ Cardinality(s \ {x}) = Cardinality(s) - 1
  BY <1>1, FS_RemoveElement
<1>4. s # {} => (CHOOSE x \in s : TRUE) \in s
  OBVIOUS
<1>5. QED
  BY <1>1, <1>2, <1>3, <1>4

\* They exist,
LEMMA SumExists ==
    ASSUME NEW S, IsFiniteSet(S), NEW f \in [S -> Nat]
    PROVE  \E it : IsSum(it, f, S) /\ it \in [SUBSET S -> Nat]
<1> DEFINE pick(s) == CHOOSE x \in s : TRUE
           Level(k) == {s \in SUBSET S : Cardinality(s) <= k}
           Next1(it, s) == IF s = {} THEN 0 ELSE f[pick(s)] + it[s \ {pick(s)}]
           Is(it, k) == it \in [Level(k) -> Nat] /\ \A s \in Level(k) : it[s] = Next1(it, s)
           T == {k \in Nat : \E it : Is(it, k)}
<1>1. \A s \in SUBSET S :
        /\ Cardinality(s) \in Nat /\ Cardinality(s) <= Cardinality(S) /\ (Cardinality(s) = 0 <=> s = {})
        /\ s # {} => /\ pick(s) \in s /\ s \ {pick(s)} \in SUBSET S
                     /\ Cardinality(s \ {pick(s)}) = Cardinality(s) - 1
  <2> HIDE DEF pick
  <2> SUFFICES ASSUME NEW s \in SUBSET S
               PROVE  /\ Cardinality(s) \in Nat /\ Cardinality(s) <= Cardinality(S) /\ (Cardinality(s) = 0 <=> s = {})
                      /\ s # {} => /\ pick(s) \in s /\ s \ {pick(s)} \in SUBSET S
                                   /\ Cardinality(s \ {pick(s)}) = Cardinality(s) - 1
    OBVIOUS
  <2>1. QED
    BY SubsetIs DEF pick
<1>2. \A s \in SUBSET S : s # {} => f[pick(s)] \in Nat
  <2> HIDE DEF pick
  <2>1. QED
    BY <1>1
<1> HIDE DEF pick
<1>3. 0 \in T
  <2> DEFINE it == [s \in Level(0) |-> 0]
  <2>1. ASSUME NEW s \in Level(0) PROVE s = {}
    <3>1. s \in SUBSET S /\ Cardinality(s) <= 0
      OBVIOUS
    <3>2. Cardinality(s) \in Nat /\ (Cardinality(s) = 0 <=> s = {})
      BY <1>1, <3>1
    <3>3. QED
      BY <3>1, <3>2
  <2>2. it \in [Level(0) -> Nat] /\ \A s \in Level(0) : it[s] = 0
    OBVIOUS
  <2> HIDE DEF it
  <2>3. Is(it, 0)
    BY <2>1, <2>2
  <2>4. QED
    BY <2>3
<1>4. ASSUME NEW k \in Nat, k \in T PROVE k + 1 \in T
  <2>1. PICK it : Is(it, k)
    BY <1>4
  <2> DEFINE more == [s \in Level(k + 1) |-> Next1(it, s)]
  <2>2. ASSUME NEW s \in Level(k + 1), s # {} PROVE s \ {pick(s)} \in Level(k)
    BY <1>1, <2>2
  <2>3. it \in [Level(k) -> Nat] /\ \A s \in Level(k) : it[s] = Next1(it, s)
    BY <2>1
  <2>4. ASSUME NEW s \in Level(k) PROVE s \in Level(k + 1)
    <3>1. s \in SUBSET S /\ Cardinality(s) <= k
      OBVIOUS
    <3>2. Cardinality(s) \in Nat
      BY <1>1, <3>1
    <3>3. Cardinality(s) <= k + 1
      BY <3>1, <3>2
    <3>4. QED
      BY <3>1, <3>3
  <2>5. \A s \in Level(k + 1) : s \in SUBSET S
    OBVIOUS
  <2>6. more \in [Level(k + 1) -> Nat]
    <3>1. \A s \in Level(k + 1) : Next1(it, s) \in Nat
      <4> HIDE DEF Level
      <4>1. QED
        BY <1>2, <2>2, <2>3, <2>5
    <3> HIDE DEF Level, Next1
    <3>2. QED
      BY <3>1
  <2>7. \A s \in Level(k + 1) : more[s] = Next1(it, s)
    OBVIOUS
  <2> HIDE DEF more, Level
  <2>8. \A s \in Level(k) : more[s] = it[s]
    <3> HIDE DEF Next1
    <3>1. QED
      BY <2>3, <2>4, <2>7
  <2>9. \A s \in Level(k + 1) : more[s] = Next1(more, s)
    BY <2>2, <2>7, <2>8
  <2>10. Is(more, k + 1)
    BY <2>6, <2>9
  <2> HIDE DEF Is
  <2>11. QED
    BY <2>10
<1>5. Nat \subseteq T
  <2> HIDE DEF T
  <2>1. QED
    BY <1>3, <1>4, Counting
<1>6. Cardinality(S) \in Nat
  BY <1>1
<1>7. PICK it : Is(it, Cardinality(S))
  <2> HIDE DEF Is
  <2>1. QED
    BY <1>5, <1>6
<1>8. Level(Cardinality(S)) = SUBSET S
  BY <1>1
<1>9. it \in [SUBSET S -> Nat] /\ \A s \in SUBSET S : it[s] = Next1(it, s)
  BY <1>7, <1>8
<1>10. it = [s \in SUBSET S |-> Next1(it, s)]
  <2> HIDE DEF Next1
  <2>1. it = [s \in SUBSET S |-> it[s]]
    BY <1>9
  <2>2. QED
    BY <1>9, <2>1
<1>11. QED
  BY <1>9, <1>10 DEF IsSum, pick

\* What the sums of the subsets are.
LEMMA SumSteps ==
    ASSUME NEW S, IsFiniteSet(S), NEW f \in [S -> Nat], NEW it, IsSum(it, f, S)
    PROVE  /\ it[{}] = 0
           /\ \A s \in SUBSET S : s # {} =>
                \E x \in s : x = (CHOOSE y \in s : TRUE) /\ it[s] = f[x] + it[s \ {x}]
<1> DEFINE pick(s) == CHOOSE x \in s : TRUE
           body == [s \in SUBSET S |-> IF s = {} THEN 0 ELSE f[pick(s)] + it[s \ {pick(s)}]]
<1>1. it = body
  BY DEF IsSum
<1>2. \A s \in SUBSET S : s # {} => pick(s) \in s
  OBVIOUS
<1> HIDE DEF pick
<1>3. \A s \in SUBSET S : body[s] = IF s = {} THEN 0 ELSE f[pick(s)] + it[s \ {pick(s)}]
  OBVIOUS
<1> HIDE DEF body
<1>4. QED
  BY <1>1, <1>2, <1>3 DEF pick

\* There is one such function.
LEMMA SumUnique ==
    ASSUME NEW S, IsFiniteSet(S), NEW f \in [S -> Nat], NEW it, IsSum(it, f, S),
           NEW D, IsFiniteSet(D), S \subseteq D, NEW g \in [D -> Nat], \A x \in S : g[x] = f[x],
           NEW jt, IsSum(jt, g, D), NEW s \in SUBSET S
    PROVE  jt[s] = it[s]
<1> DEFINE T == {k \in Nat : \A r \in SUBSET S : Cardinality(r) = k => jt[r] = it[r]}
<1>1. it[{}] = 0 /\ jt[{}] = 0
  BY SumSteps
<1>2. \A r \in SUBSET S : r # {} =>
        \E x \in r : /\ it[r] = f[x] + it[r \ {x}] /\ jt[r] = g[x] + jt[r \ {x}]
  <2> SUFFICES ASSUME NEW r \in SUBSET S, r # {}
               PROVE  \E x \in r : it[r] = f[x] + it[r \ {x}] /\ jt[r] = g[x] + jt[r \ {x}]
    OBVIOUS
  <2>1. \E x \in r : x = (CHOOSE y \in r : TRUE) /\ it[r] = f[x] + it[r \ {x}]
    BY SumSteps
  <2>2. r \in SUBSET D
    OBVIOUS
  <2>3. \E x \in r : x = (CHOOSE y \in r : TRUE) /\ jt[r] = g[x] + jt[r \ {x}]
    BY <2>2, SumSteps
  <2>4. QED
    BY <2>1, <2>3
<1>3. 0 \in T
  <2>1. \A r \in SUBSET S : Cardinality(r) = 0 => r = {}
    BY SubsetIs
  <2>2. QED
    BY <1>1, <2>1
<1>4. ASSUME NEW k \in Nat, k \in T PROVE k + 1 \in T
  <2> SUFFICES ASSUME NEW r \in SUBSET S, Cardinality(r) = k + 1 PROVE jt[r] = it[r]
    OBVIOUS
  <2>1. r # {} /\ \A x \in r : r \ {x} \in SUBSET S /\ Cardinality(r \ {x}) = k
    <3>1. /\ Cardinality(r) = 0 <=> r = {}
          /\ \A x \in r : r \ {x} \in SUBSET S /\ Cardinality(r \ {x}) = Cardinality(r) - 1
      BY SubsetIs
    <3>2. k + 1 # 0 /\ (k + 1) - 1 = k
      OBVIOUS
    <3>3. QED
      BY <3>1, <3>2
  <2>2. PICK x \in r : it[r] = f[x] + it[r \ {x}] /\ jt[r] = g[x] + jt[r \ {x}]
    BY <1>2, <2>1
  <2>3. jt[r \ {x}] = it[r \ {x}]
    BY <1>4, <2>1
  <2>4. g[x] = f[x]
    OBVIOUS
  <2>5. QED
    BY <2>2, <2>3, <2>4
<1>5. Nat \subseteq T
  <2> HIDE DEF T
  <2>1. QED
    BY <1>3, <1>4, Counting
<1>6. Cardinality(s) \in T
  BY <1>5, SubsetIs
<1>7. QED
  BY <1>6

\* The sum of a function is that of all its domain.
LEMMA TotalIs ==
    ASSUME NEW S, IsFiniteSet(S), NEW f \in [S -> Nat]
    PROVE  \E it : IsSum(it, f, S) /\ it \in [SUBSET S -> Nat] /\ Total(f) = it[S]
<1> DEFINE sum == CHOOSE it : IsSum(it, f, S)
<1>1. PICK it : IsSum(it, f, S) /\ it \in [SUBSET S -> Nat]
  BY SumExists
<1>2. IsSum(sum, f, S)
  BY <1>1
<1>3. DOMAIN f = S
  OBVIOUS
<1>4. Total(f) = sum[S]
  BY <1>3 DEF Total, MapThenSumSet, MapThenFoldSet, IsSum
<1> HIDE DEF sum
<1>5. \A s \in SUBSET S : sum[s] = it[s]
  BY <1>1, <1>2, SumUnique
<1>6. QED
  BY <1>1, <1>4, <1>5


\* Any element may be the one that is added.
Adds(it, f, S) == \A s \in SUBSET S : \A y \in s : it[s] = f[y] + it[s \ {y}]

\* The sums add up in any order.
LEMMA SumTakes ==
    ASSUME NEW S, IsFiniteSet(S), NEW f \in [S -> Nat], NEW it \in [SUBSET S -> Nat], IsSum(it, f, S)
    PROVE  Adds(it, f, S)
<1> DEFINE T == {k \in Nat : \A r \in SUBSET S : Cardinality(r) = k => \A z \in r : it[r] = f[z] + it[r \ {z}]}
<1>1. 0 \in T
  <2>1. \A r \in SUBSET S : Cardinality(r) = 0 => r = {}
    BY SubsetIs
  <2>2. QED
    BY <2>1
<1>2. ASSUME NEW k \in Nat, k \in T PROVE k + 1 \in T
  <2> SUFFICES ASSUME NEW r \in SUBSET S, Cardinality(r) = k + 1, NEW z \in r PROVE it[r] = f[z] + it[r \ {z}]
    OBVIOUS
  <2>1. \A x \in r : r \ {x} \in SUBSET S /\ Cardinality(r \ {x}) = k
    <3>1. \A x \in r : r \ {x} \in SUBSET S /\ Cardinality(r \ {x}) = Cardinality(r) - 1
      BY SubsetIs
    <3>2. (k + 1) - 1 = k
      OBVIOUS
    <3>3. QED
      BY <3>1, <3>2
  <2>2. PICK x \in r : it[r] = f[x] + it[r \ {x}]
    BY SumSteps
  <2>3. CASE x = z
    BY <2>2, <2>3
  <2>4. CASE x # z
    <3>1. it[r \ {x}] = f[z] + it[(r \ {x}) \ {z}]
      BY <1>2, <2>1, <2>4
    <3>2. it[r \ {z}] = f[x] + it[(r \ {z}) \ {x}]
      BY <1>2, <2>1, <2>4
    <3>3. (r \ {x}) \ {z} = (r \ {z}) \ {x}
      OBVIOUS
    <3>4. f[x] \in Nat /\ f[z] \in Nat /\ it[(r \ {z}) \ {x}] \in Nat
      OBVIOUS
    <3>6. it[r] \in Nat /\ it[r \ {x}] \in Nat /\ it[r \ {z}] \in Nat
      BY <2>1
    <3>7. it[r \ {x}] = f[z] + it[(r \ {z}) \ {x}]
      BY <3>1, <3>3
    <3> DEFINE a == it[r]
               b == it[r \ {x}]
               c == it[r \ {z}]
               d == it[(r \ {z}) \ {x}]
               m == f[x]
               n == f[z]
    <3>8. a \in Nat /\ b \in Nat /\ c \in Nat /\ d \in Nat /\ m \in Nat /\ n \in Nat
      BY <3>4, <3>6
    <3>9. a = m + b /\ b = n + d /\ c = m + d
      BY <2>2, <3>2, <3>7
    <3> HIDE DEF a, b, c, d, m, n
    <3>10. a = n + c
      BY <3>8, <3>9
    <3>11. QED
      BY <3>10 DEF a, c, n
  <2>5. QED
    BY <2>3, <2>4
<1>3. Nat \subseteq T
  <2> HIDE DEF T
  <2>1. QED
    BY <1>1, <1>2, Counting
<1>4. \A s \in SUBSET S : Cardinality(s) \in T
  BY <1>3, SubsetIs
<1>5. QED
  BY <1>4 DEF Adds

\* The sum over a part.
LEMMA PartTotal ==
    ASSUME NEW S, IsFiniteSet(S), NEW f \in [S -> Nat], NEW it, IsSum(it, f, S), NEW A \in SUBSET S
    PROVE  Total([x \in A |-> f[x]]) = it[A]
<1> DEFINE g == [x \in A |-> f[x]]
<1>1. g \in [A -> Nat] /\ \A x \in A : g[x] = f[x]
  OBVIOUS
<1>2. IsFiniteSet(A)
  BY FS_Subset
<1> HIDE DEF g
<1>3. PICK jt : IsSum(jt, g, A) /\ Total(g) = jt[A]
  BY <1>1, <1>2, TotalIs
<1>4. it[A] = jt[A]
  BY <1>1, <1>2, <1>3, SumUnique
<1>5. QED
  BY <1>3, <1>4 DEF g

\* A sum is a number, and that of nothing is none.
LEMMA TotalTypes ==
    ASSUME NEW S, IsFiniteSet(S), NEW f \in [S -> Nat]
    PROVE  Total(f) \in Nat /\ (S = {} => Total(f) = 0)
<1>1. PICK it : IsSum(it, f, S) /\ it \in [SUBSET S -> Nat] /\ Total(f) = it[S]
  BY TotalIs
<1>2. it[{}] = 0
  BY <1>1, SumSteps
<1>3. QED
  BY <1>1, <1>2

\* A sum is that of two parts.
LEMMA TotalSplit ==
    ASSUME NEW S, IsFiniteSet(S), NEW f \in [S -> Nat], NEW A, NEW B, A \cup B = S, A \cap B = {}
    PROVE  Total(f) = Total([x \in A |-> f[x]]) + Total([x \in B |-> f[x]])
<1>1. PICK it : IsSum(it, f, S) /\ it \in [SUBSET S -> Nat] /\ Total(f) = it[S]
  BY TotalIs
<1> DEFINE T == {k \in Nat : \A r \in SUBSET A : Cardinality(r) = k => it[r \cup B] = it[r] + it[B]}
<1>a. A \in SUBSET S /\ B \in SUBSET S /\ IsFiniteSet(A)
  <2>1. A \in SUBSET S /\ B \in SUBSET S
    OBVIOUS
  <2>2. QED
    BY <2>1, FS_Subset
<1>2. 0 \in T
  <2>1. \A r \in SUBSET A : Cardinality(r) = 0 => r = {}
    BY <1>a, SubsetIs
  <2>2. it[{}] = 0 /\ it[B] \in Nat
    BY <1>1, <1>a, SumSteps
  <2>3. \A r \in SUBSET A : Cardinality(r) = 0 => it[r \cup B] = it[r] + it[B]
    <3> SUFFICES ASSUME NEW r \in SUBSET A, Cardinality(r) = 0 PROVE it[r \cup B] = it[r] + it[B]
      OBVIOUS
    <3>1. r = {} /\ r \cup B = B
      BY <2>1
    <3>2. QED
      BY <2>2, <3>1
  <2>4. QED
    BY <2>3
<1>3. ASSUME NEW k \in Nat, k \in T PROVE k + 1 \in T
  <2> SUFFICES ASSUME NEW r \in SUBSET A, Cardinality(r) = k + 1 PROVE it[r \cup B] = it[r] + it[B]
    BY SMTT(30)
  <2>1. /\ Cardinality(r) = 0 <=> r = {}
        /\ \A x \in r : r \ {x} \in SUBSET A /\ Cardinality(r \ {x}) = Cardinality(r) - 1
    BY <1>a, SubsetIs
  <2>2. k + 1 # 0 /\ (k + 1) - 1 = k
    OBVIOUS
  <2>3. PICK y \in r : TRUE
    BY <2>1, <2>2
  <2>4. r \ {y} \in SUBSET A /\ Cardinality(r \ {y}) = k
    BY <2>1, <2>2, <2>3
  <2>5. it[(r \ {y}) \cup B] = it[r \ {y}] + it[B]
    BY <1>3, <2>4
  <2>6. (r \cup B) \ {y} = (r \ {y}) \cup B /\ r \in SUBSET S /\ r \cup B \in SUBSET S /\ y \in r \cup B
    BY <1>a, <2>3
  <2>a. \A s \in SUBSET S : \A z \in s : it[s] = f[z] + it[s \ {z}]
    <3>1. Adds(it, f, S)
      BY <1>1, SumTakes
    <3>2. QED
      BY <3>1 DEF Adds
  <2>7. it[r] = f[y] + it[r \ {y}]
    BY <2>a, <2>3, <2>6
  <2>8. it[r \cup B] = f[y] + it[(r \ {y}) \cup B]
    BY <2>a, <2>6
  <2>9. f[y] \in Nat /\ it[r \ {y}] \in Nat /\ it[B] \in Nat
    BY <1>1, <1>a, <2>3, <2>6
  <2>c. it[r] \in Nat /\ it[r \cup B] \in Nat /\ it[(r \ {y}) \cup B] \in Nat
    <3>1. (r \ {y}) \cup B \in SUBSET S
      BY <2>6
    <3>2. QED
      BY <1>1, <2>6, <3>1
  <2> DEFINE a == it[r]
             b == it[r \cup B]
             c == it[(r \ {y}) \cup B]
             d == it[B]
             m == f[y]
             n == it[r \ {y}]
  <2>10. a \in Nat /\ b \in Nat /\ c \in Nat /\ d \in Nat /\ m \in Nat /\ n \in Nat
    BY <2>9, <2>c
  <2>11. a = m + n /\ b = m + c /\ c = n + d
    BY <2>5, <2>7, <2>8
  <2> HIDE DEF a, b, c, d, m, n
  <2>12. b = a + d
    BY <2>10, <2>11
  <2>13. QED
    BY <2>12 DEF a, b, d
<1>4. Nat \subseteq T
  <2> HIDE DEF T
  <2>1. QED
    BY <1>2, <1>3, Counting
<1>5. Cardinality(A) \in Nat /\ A \in SUBSET A
  BY <1>a, FS_CardinalityType
<1>6. it[A \cup B] = it[A] + it[B]
  BY <1>4, <1>5
<1> HIDE DEF T
<1>7. \A r \in SUBSET S : Total([x \in r |-> f[x]]) = it[r]
  BY <1>1, PartTotal
<1>8. Total([x \in A |-> f[x]]) = it[A] /\ Total([x \in B |-> f[x]]) = it[B]
  BY <1>7, <1>a
<1>9. QED
  BY <1>1, <1>6, <1>8

\* A sum grows with what is added up.
LEMMA TotalGrows ==
    ASSUME NEW S, IsFiniteSet(S), NEW f \in [S -> Nat], NEW g \in [S -> Nat], \A x \in S : f[x] <= g[x]
    PROVE  Total(f) <= Total(g)
<1>1. PICK it : IsSum(it, f, S) /\ it \in [SUBSET S -> Nat] /\ Total(f) = it[S]
  BY TotalIs
<1>2. PICK jt : IsSum(jt, g, S) /\ jt \in [SUBSET S -> Nat] /\ Total(g) = jt[S]
  BY TotalIs
<1> DEFINE T == {k \in Nat : \A r \in SUBSET S : Cardinality(r) = k => it[r] <= jt[r]}
<1>3. 0 \in T
  <2>1. \A r \in SUBSET S : Cardinality(r) = 0 => r = {}
    BY SubsetIs
  <2>2. it[{}] = 0 /\ jt[{}] = 0
    BY <1>1, <1>2, SumSteps
  <2>3. QED
    BY <2>1, <2>2
<1>4. ASSUME NEW k \in Nat, k \in T PROVE k + 1 \in T
  <2> SUFFICES ASSUME NEW r \in SUBSET S, Cardinality(r) = k + 1 PROVE it[r] <= jt[r]
    OBVIOUS
  <2>1. /\ Cardinality(r) = 0 <=> r = {}
        /\ \A x \in r : r \ {x} \in SUBSET S /\ Cardinality(r \ {x}) = Cardinality(r) - 1
    BY SubsetIs
  <2>2. k + 1 # 0 /\ (k + 1) - 1 = k
    OBVIOUS
  <2>3. PICK y \in r : TRUE
    BY <2>1, <2>2
  <2>4. r \ {y} \in SUBSET S /\ Cardinality(r \ {y}) = k
    BY <2>1, <2>2, <2>3
  <2>5. it[r \ {y}] <= jt[r \ {y}]
    BY <1>4, <2>4
  <2>a. \A s \in SUBSET S : \A z \in s : it[s] = f[z] + it[s \ {z}]
    <3>1. Adds(it, f, S)
      BY <1>1, SumTakes
    <3>2. QED
      BY <3>1 DEF Adds
  <2>b. \A s \in SUBSET S : \A z \in s : jt[s] = g[z] + jt[s \ {z}]
    <3>1. Adds(jt, g, S)
      BY <1>2, SumTakes
    <3>2. QED
      BY <3>1 DEF Adds
  <2>6. it[r] = f[y] + it[r \ {y}] /\ jt[r] = g[y] + jt[r \ {y}]
    BY <2>a, <2>b, <2>3
  <2>7. f[y] \in Nat /\ g[y] \in Nat /\ it[r \ {y}] \in Nat /\ jt[r \ {y}] \in Nat /\ f[y] <= g[y]
    BY <1>1, <1>2, <2>3, <2>4
  <2>8. QED
    BY <2>5, <2>6, <2>7
<1>5. Nat \subseteq T
  <2> HIDE DEF T
  <2>1. QED
    BY <1>3, <1>4, Counting
<1>6. Cardinality(S) \in Nat
  BY FS_CardinalityType
<1>7. QED
  BY <1>1, <1>2, <1>5, <1>6


------------------------
(* The scores of assignments. *)

\* A part of an assignment.
Part(g, A) == [v \in A |-> g[v]]

\* Every column of a slot has a weight.
Weighed(p, component) == \A v \in component : \A c \in p.domain[v] : p.weight[v][c] \in Nat

\* What each of the assigned slots adds.
Weights(p, g) == [v \in DOMAIN g |-> p.weight[v][g[v]]]

\* A partial assignment that the conflicts allow.
Allowed(p, component, g) == g \in Partial(component) /\ Agrees(p, g)

\* A score is a number.
LEMMA WeightsAre ==
    ASSUME NEW p, NEW component, IsProblem(p, component), Weighed(p, component),
           NEW g, Allowed(p, component, g)
    PROVE  /\ IsFiniteSet(DOMAIN g) /\ DOMAIN g \subseteq component
           /\ Weights(p, g) \in [DOMAIN g -> Nat] /\ Score(p, g) = Total(Weights(p, g))
           /\ Score(p, g) \in Nat
<1>1. PICK slots \in SUBSET component : g \in [slots -> 1 .. Unknown]
  BY PartialTypes DEF Allowed
<1>2. DOMAIN g \subseteq component
  BY <1>1
<1>3. IsFiniteSet(DOMAIN g)
  BY <1>2, FS_Subset DEF IsProblem
<1>4. Weights(p, g) \in [DOMAIN g -> Nat]
  BY <1>2 DEF Weights, Weighed, Allowed, Agrees
<1>5. Score(p, g) = Total(Weights(p, g))
  BY DEF Score, Weights
<1>6. Total(Weights(p, g)) \in Nat
  BY <1>3, <1>4, TotalTypes
<1>7. QED
  BY <1>2, <1>3, <1>4, <1>5, <1>6

\* A part of an allowed assignment is allowed,
LEMMA PartAllowed ==
    ASSUME NEW p, NEW component, NEW g, Allowed(p, component, g), NEW A, A \subseteq DOMAIN g
    PROVE  Allowed(p, component, Part(g, A))
<1> DEFINE a == Part(g, A)
<1>1. PICK slots \in SUBSET component : g \in [slots -> 1 .. Unknown]
  BY PartialTypes DEF Allowed
<1>2. DOMAIN a = A /\ \A v \in A : a[v] = g[v]
  BY DEF Part
<1>3. A \in SUBSET component /\ a \in [A -> 1 .. Unknown]
  BY <1>1 DEF Part
<1> HIDE DEF a
<1>4. a \in Partial(component)
  BY <1>3, PartialTypes
<1>5. Agrees(p, a)
  BY <1>2 DEF Agrees, Allowed
<1>6. QED
  BY <1>4, <1>5 DEF a, Allowed

\* and adds what it adds in the whole.
LEMMA PartScore ==
    ASSUME NEW p, NEW g, NEW A, A \subseteq DOMAIN g
    PROVE  Score(p, Part(g, A)) = Total([v \in A |-> Weights(p, g)[v]])
<1> DEFINE a == Part(g, A)
<1>1. DOMAIN a = A /\ \A v \in A : a[v] = g[v]
  BY DEF Part
<1> HIDE DEF a
<1>2. Weights(p, a) = [v \in A |-> Weights(p, g)[v]]
  BY <1>1 DEF Weights
<1>3. Score(p, a) = Total(Weights(p, a))
  BY DEF Score, Weights
<1>4. QED
  BY <1>2, <1>3 DEF a

\* The score of an assignment is that of its parts.
LEMMA ScoreSplit ==
    ASSUME NEW p, NEW component, IsProblem(p, component), Weighed(p, component),
           NEW g, Allowed(p, component, g), NEW A, NEW B, A \cup B = DOMAIN g, A \cap B = {}
    PROVE  Score(p, g) = Score(p, Part(g, A)) + Score(p, Part(g, B))
<1> DEFINE f == Weights(p, g)
           S == DOMAIN g
<1>1. IsFiniteSet(S) /\ f \in [S -> Nat] /\ Score(p, g) = Total(f)
  BY WeightsAre
<1>2. A \in SUBSET S /\ B \in SUBSET S
  OBVIOUS
<1>3. Score(p, Part(g, A)) = Total([v \in A |-> f[v]])
  BY <1>2, PartScore
<1>4. Score(p, Part(g, B)) = Total([v \in B |-> f[v]])
  BY <1>2, PartScore
<1>5. A \cup B = S /\ A \cap B = {}
  OBVIOUS
<1> HIDE DEF f, S
<1>6. Total(f) = Total([v \in A |-> f[v]]) + Total([v \in B |-> f[v]])
  BY <1>1, <1>5, TotalSplit
<1>7. QED
  BY <1>1, <1>3, <1>4, <1>6

\* A whole assignment that continues a partial one.
Continues(g, p, component, given) ==
    Proper(p, component, g) /\ \A v \in DOMAIN given : g[v] = given[v]

\* It takes open columns.
LEMMA ContinuesOpen ==
    ASSUME NEW p, NEW component, NEW given, NEW g, Continues(g, p, component, given),
           DOMAIN given \subseteq component, NEW v \in component
    PROVE  g[v] \in Open(p, given, v)
BY DEF Continues, Proper, Agrees, Open

\* The heaviest of the open columns.
LEMMA HeaviestOpen ==
    ASSUME NEW p, NEW component, IsProblem(p, component), Weighed(p, component),
           NEW given, NEW v \in component, Open(p, given, v) # {}
    PROVE  /\ Max({p.weight[v][c] : c \in Open(p, given, v)}) \in Nat
           /\ \A c \in Open(p, given, v) :
                p.weight[v][c] <= Max({p.weight[v][d] : d \in Open(p, given, v)})
<1> DEFINE open == Open(p, given, v)
           T == {p.weight[v][c] : c \in open}
           f == [c \in 1 .. Unknown |-> IF c \in open THEN p.weight[v][c] ELSE 0]
<1>1. open \subseteq p.domain[v] /\ open \subseteq 1 .. Unknown
  BY DEF Open, IsProblem
<1>2. \A c \in open : p.weight[v][c] \in Nat
  BY <1>1 DEF Weighed
<1>3. f \in [1 .. Unknown -> Nat] /\ Unknown \in Nat
  BY <1>2, KitTypes
<1>4. \A c \in open : f[c] = p.weight[v][c]
  BY <1>1
<1> HIDE DEF f
<1>5. PICK b \in Nat : \A c \in 1 .. Unknown : f[c] <= b
  BY <1>3, Bounded
<1>6. T \subseteq Nat /\ T # {} /\ \A x \in T : x <= b
  BY <1>1, <1>2, <1>4, <1>5
<1> HIDE DEF T
<1>7. Max(T) \in T /\ \A y \in T : y <= Max(T)
  BY <1>6, GreatestOf
<1>8. Max(T) \in Nat
  BY <1>6, <1>7
<1>9. QED
  BY <1>7, <1>8 DEF T

\* No continuation exceeds the bound; where nothing is left, it is the score.
LEMMA BoundHolds ==
    ASSUME NEW p, NEW component, IsProblem(p, component), Weighed(p, component),
           NEW given, Allowed(p, component, given),
           \A v \in component \ DOMAIN given : Open(p, given, v) # {}
    PROVE  /\ Bound(p, given, component \ DOMAIN given) \in Nat
           /\ component \ DOMAIN given = {} => Bound(p, given, component \ DOMAIN given) = Score(p, given)
           /\ \A g : Continues(g, p, component, given) =>
                        Score(p, g) <= Bound(p, given, component \ DOMAIN given)
<1> DEFINE D == DOMAIN given
           rest == component \ D
           most == [v \in rest |-> Max({p.weight[v][c] : c \in Open(p, given, v)})]
<1>1. D \subseteq component /\ Score(p, given) \in Nat
  BY WeightsAre
<1>2. IsFiniteSet(rest)
  BY FS_Subset DEF IsProblem
<1>3. most \in [rest -> Nat]
  BY HeaviestOpen
<1>4. Bound(p, given, rest) = Score(p, given) + Total(most)
  BY DEF Bound
<1>m. \A v \in rest : \A c \in Open(p, given, v) : p.weight[v][c] <= most[v]
  BY HeaviestOpen
<1> HIDE DEF most
<1>5. Total(most) \in Nat /\ (rest = {} => Total(most) = 0)
  BY <1>2, <1>3, TotalTypes
<1>6. ASSUME NEW g, Continues(g, p, component, given)
      PROVE  Score(p, g) <= Bound(p, given, rest)
  <2>1. Allowed(p, component, g) /\ DOMAIN g = component
    BY <1>6 DEF Continues, Proper, Allowed
  <2>2. D \cup rest = DOMAIN g /\ D \cap rest = {} /\ D \in SUBSET DOMAIN g /\ rest \in SUBSET DOMAIN g
    BY <1>1, <2>1
  <2>3. Score(p, g) = Score(p, Part(g, D)) + Score(p, Part(g, rest))
    <3> HIDE DEF D, rest
    <3>1. QED
      BY <2>1, <2>2, ScoreSplit
  <2>4. Part(g, D) = given
    <3>1. given = [v \in D |-> given[v]]
      <4>1. PICK slots \in SUBSET component : given \in [slots -> 1 .. Unknown]
        BY PartialTypes DEF Allowed
      <4>2. QED
        BY <4>1
    <3>2. \A v \in D : g[v] = given[v]
      BY <1>6 DEF Continues
    <3>3. QED
      BY <3>1, <3>2 DEF Part
  <2>5. Score(p, Part(g, rest)) <= Total(most)
    <3> DEFINE f == [v \in rest |-> Weights(p, g)[v]]
    <3>1. Score(p, Part(g, rest)) = Total(f)
      BY <2>1, <2>2, PartScore
    <3>2. Weights(p, g) \in [DOMAIN g -> Nat]
      BY <2>1, WeightsAre
    <3>3. f \in [rest -> Nat]
      BY <2>2, <3>2
    <3>4. ASSUME NEW v \in rest PROVE f[v] <= most[v]
      <4>1. g[v] \in Open(p, given, v)
        BY <1>1, <1>6, ContinuesOpen
      <4>2. f[v] = p.weight[v][g[v]]
        BY <2>2 DEF Weights
      <4>3. QED
        BY <1>m, <4>1, <4>2
    <3> HIDE DEF f, rest
    <3>5. Total(f) <= Total(most)
      BY <1>2, <1>3, <3>3, <3>4, TotalGrows
    <3>6. QED
      BY <3>1, <3>5
  <2>6. Score(p, Part(g, rest)) \in Nat
    <3>1. Allowed(p, component, Part(g, rest))
      BY <2>1, <2>2, PartAllowed
    <3>2. QED
      BY <3>1, WeightsAre
  <2>7. QED
    BY <1>1, <1>4, <1>5, <2>3, <2>4, <2>5, <2>6
<1>7. Bound(p, given, rest) \in Nat
  BY <1>1, <1>4, <1>5
<1>8. rest = {} => Bound(p, given, rest) = Score(p, given)
  BY <1>1, <1>4, <1>5
<1> HIDE DEF rest
<1>9. QED
  BY <1>6, <1>7, <1>8 DEF rest, D


------------------------
(* What a search answers. *)

\* The whole assignments that continue a partial one.
Ways(p, component, given) == {g \in Partial(component) : Continues(g, p, component, given)}

\* Those that do so with one of the first columns in slot v.
WaysUntil(p, component, given, v, c) == {g \in Ways(p, component, given) : g[v] <= c}

\* A search among some assignments that beat "best" answers "best" or one of them,
\* which is better; none scores higher, and none as high comes before it.
Answers(p, ways, best, found) ==
    /\ \/ found = best
       \/ found \in ways /\ (best # <<>> => Score(p, best) < Score(p, found))
    /\ \A g \in ways :
          /\ found # <<>> /\ Score(p, g) <= Score(p, found)
          /\ Score(p, g) = Score(p, found) => found = best \/ ~Lexically(g, found)

\* The slots are assigned in order.
InSlotOrder(component, given) ==
    \A u \in DOMAIN given : \A v \in component \ DOMAIN given : u < v

\* The whole assignments have scores.
LEMMA WaysAre ==
    ASSUME NEW p, NEW component, IsProblem(p, component), Weighed(p, component), component # {},
           NEW given, NEW g \in Ways(p, component, given)
    PROVE  /\ Proper(p, component, g) /\ g # <<>> /\ Score(p, g) \in Nat
           /\ g \in [component -> 1 .. Unknown]
           /\ \A v \in DOMAIN given : g[v] = given[v]
<1>1. Proper(p, component, g) /\ \A v \in DOMAIN given : g[v] = given[v]
  BY DEF Ways, Continues
<1>2. DOMAIN g = component /\ Allowed(p, component, g)
  BY <1>1 DEF Proper, Allowed
<1>3. g # <<>>
  <2>1. DOMAIN <<>> = {}
    OBVIOUS
  <2>2. QED
    BY <1>2, <2>1
<1>4. Score(p, g) \in Nat
  BY <1>2, WeightsAre
<1>5. g \in [component -> 1 .. Unknown]
  <2>1. PICK slots \in SUBSET component : g \in [slots -> 1 .. Unknown]
    BY <1>2, PartialTypes DEF Allowed
  <2>2. slots = component
    BY <1>2, <2>1
  <2>3. QED
    BY <2>1, <2>2
<1>6. QED
  BY <1>1, <1>3, <1>4, <1>5

\* What was found before has a score.
LEMMA GoodScores ==
    ASSUME NEW p, NEW component, IsProblem(p, component), Weighed(p, component),
           NEW best, Good(p, component, best), best # <<>>
    PROVE  Score(p, best) \in Nat
<1>1. Allowed(p, component, best)
  BY DEF Good, Proper, Allowed
<1>2. QED
  BY <1>1, WeightsAre

\* A column more is a choice among the ways to go on.
LEMMA AssignWays ==
    ASSUME NEW p, NEW component, NEW given, NEW v \in component, v \notin DOMAIN given, NEW c
    PROVE  \A g : g \in Ways(p, component, Assign(given, v, c))
                  <=> g \in Ways(p, component, given) /\ g[v] = c
<1>1. /\ DOMAIN Assign(given, v, c) = DOMAIN given \cup {v}
      /\ Assign(given, v, c)[v] = c
      /\ \A u \in DOMAIN given : Assign(given, v, c)[u] = given[u]
  BY DEF Assign
<1>2. QED
  BY <1>1 DEF Ways, Continues

\* The next column that is tried.
LEMMA ColumnAnswers ==
    ASSUME NEW p, NEW component, IsProblem(p, component), Weighed(p, component), component # {},
           NEW given, NEW best, Good(p, component, best),
           NEW v \in component, v \notin DOMAIN given, \A u \in component : u < v => u \in DOMAIN given,
           NEW c \in 1 .. Unknown, NEW before, NEW found,
           Answers(p, WaysUntil(p, component, given, v, c - 1), best, before),
           Answers(p, Ways(p, component, Assign(given, v, c)), before, found)
    PROVE  Answers(p, WaysUntil(p, component, given, v, c), best, found)
<1> DEFINE old == WaysUntil(p, component, given, v, c - 1)
           new == Ways(p, component, Assign(given, v, c))
           all == WaysUntil(p, component, given, v, c)
<1>1. \A g \in Ways(p, component, given) :
        /\ Score(p, g) \in Nat /\ g # <<>> /\ g \in [component -> 1 .. Unknown]
        /\ \A u \in DOMAIN given : g[u] = given[u]
  BY WaysAre
<1>2. \A g : g \in new <=> g \in Ways(p, component, given) /\ g[v] = c
  BY AssignWays
<1>3. \A g \in old : g \in Ways(p, component, given) /\ g[v] <= c - 1
  BY DEF WaysUntil
<1>4. \A g \in all : g \in old \/ g \in new
  <2> SUFFICES ASSUME NEW g \in all PROVE g \in old \/ g \in new
    OBVIOUS
  <2>1. g \in Ways(p, component, given) /\ g[v] <= c
    BY DEF WaysUntil
  <2>2. g[v] \in 1 .. Unknown /\ Unknown \in Nat
    BY <1>1, <2>1, KitTypes
  <2>3. g[v] = c \/ g[v] <= c - 1
    BY <2>1, <2>2
  <2>4. QED
    BY <1>2, <2>1, <2>3 DEF WaysUntil
<1>5. \A g : g \in old \/ g \in new => g \in all
  <2>0. c \in Nat
    BY KitTypes
  <2>1. ASSUME NEW g \in old PROVE g \in all
    <3>1. g \in Ways(p, component, given) /\ g[v] <= c - 1
      BY <1>3
    <3>2. g[v] \in 1 .. Unknown /\ Unknown \in Nat
      BY <1>1, <3>1, KitTypes
    <3>3. g[v] <= c
      BY <2>0, <3>1, <3>2
    <3>4. QED
      BY <3>1, <3>3 DEF WaysUntil
  <2>2. ASSUME NEW g \in new PROVE g \in all
    <3>1. g \in Ways(p, component, given) /\ g[v] <= c
      BY <1>2, <2>0
    <3>2. QED
      BY <3>1 DEF WaysUntil
  <2>3. QED
    BY <2>1, <2>2
<1>6. \A g \in all : Score(p, g) \in Nat /\ g # <<>>
  BY <1>1, <1>2, <1>3, <1>4
<1>7. /\ before = best \/ (before \in old /\ (best # <<>> => Score(p, best) < Score(p, before)))
      /\ \A g \in old : /\ before # <<>> /\ Score(p, g) <= Score(p, before)
                        /\ Score(p, g) = Score(p, before) => before = best \/ ~Lexically(g, before)
  BY DEF Answers
<1>8. /\ found = before \/ (found \in new /\ (before # <<>> => Score(p, before) < Score(p, found)))
      /\ \A g \in new : /\ found # <<>> /\ Score(p, g) <= Score(p, found)
                        /\ Score(p, g) = Score(p, found) => found = before \/ ~Lexically(g, found)
  BY DEF Answers
<1>9. best # <<>> => Score(p, best) \in Nat
  BY GoodScores
<1>10. before # <<>> => Score(p, before) \in Nat
  BY <1>5, <1>6, <1>7, <1>9
<1>11. found # <<>> => Score(p, found) \in Nat
  BY <1>5, <1>6, <1>8, <1>10
<1>12. ASSUME NEW g \in new, before \in old PROVE ~Lexically(g, before)
  <2> SUFFICES ASSUME NEW x \in DOMAIN g, g[x] < before[x],
                      \A u \in DOMAIN g : u < x => g[u] = before[u]
               PROVE  FALSE
    BY DEF Lexically
  <2>1. g \in Ways(p, component, given) /\ g[v] = c
    BY <1>2
  <2>2. before \in Ways(p, component, given) /\ before[v] <= c - 1
    BY <1>3, <1>12
  <2>3. /\ g \in [component -> 1 .. Unknown] /\ before \in [component -> 1 .. Unknown]
        /\ \A u \in DOMAIN given : g[u] = given[u] /\ before[u] = given[u]
    BY <1>1, <2>1, <2>2
  <2>4. x \in component /\ x \in Nat /\ v \in Nat /\ c \in Nat
    BY <2>3, KitTypes DEF IsProblem
  <2>5. g[x] \in Nat /\ before[x] \in Nat /\ before[v] \in Nat
    BY <2>3, <2>4, KitTypes
  <2>6. CASE x < v
    BY <2>3, <2>4, <2>5, <2>6
  <2>7. CASE x = v
    BY <2>1, <2>2, <2>4, <2>5, <2>7
  <2>8. CASE v < x
    <3>1. g[v] = before[v]
      BY <2>3, <2>4, <2>8
    <3>2. QED
      BY <2>1, <2>2, <2>4, <2>5, <3>1
  <2>9. QED
    BY <2>4, <2>6, <2>7, <2>8
<1> HIDE DEF old, new, all
<1>13. found = best \/ (found \in all /\ (best # <<>> => Score(p, best) < Score(p, found)))
  <2>1. CASE found = before
    BY <1>5, <1>7, <2>1
  <2>2. CASE found \in new /\ (before # <<>> => Score(p, before) < Score(p, found))
    <3>1. found \in all /\ Score(p, found) \in Nat
      BY <1>5, <1>6, <2>2
    <3>2. ASSUME best # <<>> PROVE Score(p, best) < Score(p, found)
      <4>1. CASE before = best
        BY <2>2, <3>2, <4>1
      <4>2. CASE before \in old /\ Score(p, best) < Score(p, before)
        <5>1. before # <<>> /\ Score(p, before) \in Nat
          BY <1>5, <1>6, <4>2
        <5>2. QED
          BY <1>9, <2>2, <3>1, <3>2, <4>2, <5>1
      <4>3. QED
        BY <1>7, <3>2, <4>1, <4>2
    <3>3. QED
      BY <3>1, <3>2
  <2>3. QED
    BY <1>8, <2>1, <2>2
<1>14. ASSUME NEW g \in all
       PROVE  /\ found # <<>> /\ Score(p, g) <= Score(p, found)
              /\ Score(p, g) = Score(p, found) => found = best \/ ~Lexically(g, found)
  <2>1. CASE g \in new
    <3>1. found # <<>> /\ Score(p, g) <= Score(p, found)
      BY <1>8, <2>1
    <3>2. ASSUME Score(p, g) = Score(p, found) PROVE found = best \/ ~Lexically(g, found)
      <4>1. CASE found = before
        BY <1>7, <1>12, <2>1, <4>1
      <4>2. CASE found # before
        BY <1>8, <2>1, <3>2, <4>2
      <4>3. QED
        BY <4>1, <4>2
    <3>3. QED
      BY <3>1, <3>2
  <2>2. CASE g \in old
    <3>1. CASE found = before
      BY <1>7, <2>2, <3>1
    <3>2. CASE found # before
      <4>1. before # <<>> /\ Score(p, g) <= Score(p, before)
        BY <1>7, <2>2
      <4>2. found \in new /\ Score(p, before) < Score(p, found)
        BY <1>8, <3>2, <4>1
      <4>3. found \in all
        BY <1>5, <4>2
      <4>4. /\ found # <<>> /\ Score(p, found) \in Nat /\ Score(p, before) \in Nat /\ Score(p, g) \in Nat
        BY <1>6, <1>10, <4>1, <4>3
      <4>5. Score(p, g) < Score(p, found)
        BY <4>1, <4>2, <4>4
      <4>6. QED
        BY <4>4, <4>5
    <3>3. QED
      BY <3>1, <3>2
  <2>3. QED
    BY <1>4, <2>1, <2>2
<1>15. QED
  BY <1>13, <1>14 DEF Answers, all


\* Where there is no way to go on, what was found before is the answer.
LEMMA NothingAnswers ==
    ASSUME NEW p, NEW ways, NEW best, \A g : g \notin ways
    PROVE  Answers(p, ways, best, best)
BY DEF Answers

\* An answer is good if what was found before is.
LEMMA AnswersGood ==
    ASSUME NEW p, NEW component, NEW given, NEW v, NEW c, NEW best, Good(p, component, best), NEW found,
           Answers(p, WaysUntil(p, component, given, v, c), best, found)
    PROVE  Good(p, component, found)
BY DEF Answers, WaysUntil, Ways, Continues, Good

\* A visit whose deeper visits answer is answered by all columns.
LEMMA TriedAnswers ==
    ASSUME NEW p, NEW component, IsProblem(p, component), Weighed(p, component), component # {},
           NEW at \in Ats(component), Good(p, component, at.best),
           NEW v \in component, v \notin DOMAIN at.given, \A u \in component : u < v => u \in DOMAIN at.given,
           NEW deeper \in [Ats(component) -> Partial(component)],
           \A c \in Open(p, at.given, v), best \in Partial(component) :
               Good(p, component, best) =>
               Answers(p, Ways(p, component, Assign(at.given, v, c)), best,
                       deeper[[given |-> Assign(at.given, v, c), best |-> best]])
    PROVE  Answers(p, Ways(p, component, at.given), at.best, Tried(p, at, v, deeper))
<1> DEFINE given == at.given
           best == at.best
<1>0. given \in Partial(component) /\ best \in Partial(component)
  BY DEF Ats
<1>1. PICK f : IsTried(f, p, component, at, v, deeper)
  BY TriedLoop
<1>2. /\ Tried(p, at, v, deeper) = f[Unknown] /\ f[0] = best
      /\ f \in [0 .. Unknown -> Partial(component)]
      /\ \A c \in 1 .. Unknown :
            f[c] = IF c \notin Open(p, given, v) THEN f[c - 1]
                   ELSE deeper[[given |-> Assign(given, v, c), best |-> f[c - 1]]]
  BY <1>1 DEF IsTried
<1>3. \A g \in Ways(p, component, given) : g[v] \in 1 .. Unknown /\ g[v] \in Open(p, given, v)
  <2> SUFFICES ASSUME NEW g \in Ways(p, component, given)
               PROVE  g[v] \in 1 .. Unknown /\ g[v] \in Open(p, given, v)
    OBVIOUS
  <2>1. g \in [component -> 1 .. Unknown]
    BY WaysAre
  <2>2. DOMAIN given \subseteq component
    BY <1>0, PartialTypes
  <2>3. g[v] \in Open(p, given, v)
    BY <2>2, ContinuesOpen DEF Ways
  <2>4. QED
    BY <2>1, <2>3
<1> DEFINE until(c) == WaysUntil(p, component, given, v, c)
           T == {n \in Nat : n <= Unknown => Answers(p, until(n), best, f[n])}
<1>4. 0 \in T
  <2>1. \A g : g \notin until(0)
    BY <1>3, KitTypes DEF WaysUntil
  <2>2. Answers(p, until(0), best, best)
    BY <2>1, NothingAnswers
  <2>3. QED
    BY <1>2, <2>2
<1>5. ASSUME NEW n \in Nat, n \in T PROVE n + 1 \in T
  <2> SUFFICES ASSUME n + 1 <= Unknown PROVE Answers(p, until(n + 1), best, f[n + 1])
    OBVIOUS
  <2>1. n + 1 \in 1 .. Unknown /\ (n + 1) - 1 = n /\ n <= Unknown /\ n \in 0 .. Unknown
    BY KitTypes
  <2>2. Answers(p, until(n), best, f[n]) /\ f[n] \in Partial(component)
    BY <1>2, <1>5, <2>1
  <2>3. Good(p, component, f[n])
    BY <2>2, AnswersGood
  <2>4. f[n + 1] = IF n + 1 \notin Open(p, given, v) THEN f[n]
                   ELSE deeper[[given |-> Assign(given, v, n + 1), best |-> f[n]]]
    BY <1>2, <2>1
  <2>5. CASE n + 1 \notin Open(p, given, v)
    <3>1. \A g : g \in until(n + 1) <=> g \in until(n)
      <4> SUFFICES ASSUME NEW g \in Ways(p, component, given)
                   PROVE  g[v] <= n + 1 <=> g[v] <= n
        BY DEF WaysUntil
      <4>1. g[v] \in 1 .. Unknown /\ g[v] # n + 1
        BY <1>3, <2>5
      <4>2. g[v] \in Int
        BY <4>1, KitTypes
      <4>3. QED
        BY <4>1, <4>2
    <3>2. until(n + 1) = until(n)
      <4> HIDE DEF until
      <4>1. QED
        BY <3>1
    <3> HIDE DEF until
    <3>3. QED
      BY <2>2, <2>4, <2>5, <3>2
  <2>6. CASE n + 1 \in Open(p, given, v)
    <3>1. Answers(p, Ways(p, component, Assign(given, v, n + 1)), f[n], f[n + 1])
      BY <2>2, <2>3, <2>4, <2>6
    <3>2. Answers(p, WaysUntil(p, component, given, v, (n + 1) - 1), best, f[n])
      BY <2>1, <2>2
    <3>3. QED
      BY <2>1, <3>1, <3>2, ColumnAnswers
  <2>7. QED
    BY <2>5, <2>6
<1>6. Nat \subseteq T
  <2> HIDE DEF T
  <2>1. QED
    BY <1>4, <1>5, Counting
<1>7. Answers(p, until(Unknown), best, f[Unknown])
  BY <1>6, KitTypes
<1>8. until(Unknown) = Ways(p, component, given)
  BY <1>3, KitTypes DEF WaysUntil
<1>9. QED
  BY <1>2, <1>7, <1>8

\* A visit that is made in the order of the slots.
Made(p, component, at, left) ==
    /\ Agrees(p, at.given) /\ Good(p, component, at.best) /\ InSlotOrder(component, at.given)
    /\ Cardinality(component \ DOMAIN at.given) = left

\* A visit answers if those with one slot less to assign do.
LEMMA VisitedAnswers ==
    ASSUME NEW p, NEW component, IsProblem(p, component), Weighed(p, component), component # {},
           NEW left \in Nat, NEW deeper,
           left # 0 => deeper \in [Ats(component) -> Partial(component)],
           left # 0 => \A at \in Ats(component) :
                Made(p, component, at, left - 1)
                => Answers(p, Ways(p, component, at.given), at.best, deeper[at]),
           NEW at \in Ats(component), Made(p, component, at, left)
    PROVE  Answers(p, Ways(p, component, at.given), at.best, Visited(p, component, left, deeper)[at])
<1> DEFINE given == at.given
           best == at.best
           rest == component \ DOMAIN given
           v == Min(rest)
           x == Visited(p, component, left, deeper)[at]
           ways == Ways(p, component, given)
           bound == Bound(p, given, rest)
<1>0. given \in Partial(component) /\ best \in Partial(component)
  BY DEF Ats
<1>1. x = IF \E u \in rest : Open(p, given, u) = {} THEN best
          ELSE IF Prunes(p, best, bound) THEN best
          ELSE IF rest = {} \/ left = 0 THEN given ELSE Tried(p, at, v, deeper)
  BY DEF Visited, Ats
<1>2. /\ Allowed(p, component, given) /\ Good(p, component, best) /\ InSlotOrder(component, given)
      /\ Cardinality(rest) = left
  BY <1>0 DEF Made, Allowed
<1>3. DOMAIN given \subseteq component
  BY <1>2, WeightsAre
<1>4. IsFiniteSet(rest) /\ rest \subseteq Nat
  <2>1. IsFiniteSet(component) /\ component \subseteq Nat /\ rest \subseteq component
    BY DEF IsProblem
  <2> HIDE DEF rest
  <2>2. QED
    BY <2>1, FS_Subset
<1>5. \A g \in ways : /\ Proper(p, component, g) /\ g # <<>> /\ Score(p, g) \in Nat
                      /\ g \in [component -> 1 .. Unknown]
                      /\ \A u \in DOMAIN given : g[u] = given[u]
  BY WaysAre
<1>6. best # <<>> => Score(p, best) \in Nat
  BY <1>2, GoodScores
<1> HIDE DEF x
<1>7. CASE \E u \in rest : Open(p, given, u) = {}
  <2>1. PICK u \in rest : Open(p, given, u) = {}
    BY <1>7
  <2>2. \A g \in ways : g[u] \in Open(p, given, u)
    BY <1>3, ContinuesOpen DEF Ways
  <2>3. \A g : g \notin ways
    BY <2>1, <2>2
  <2>4. x = best
    BY <1>1, <1>7
  <2> HIDE DEF ways, best
  <2>5. Answers(p, ways, best, x)
    BY <2>3, <2>4, NothingAnswers
  <2>6. QED
    BY <2>5 DEF ways, best, x
<1>8. CASE ~\E u \in rest : Open(p, given, u) = {}
  <2>1. /\ bound \in Nat /\ (rest = {} => bound = Score(p, given))
        /\ \A g : Continues(g, p, component, given) => Score(p, g) <= bound
    <3>1. \A u \in component \ DOMAIN given : Open(p, given, u) # {}
      BY <1>8
    <3>2. QED
      BY <1>2, <3>1, BoundHolds
  <2>2. \A g \in ways : Score(p, g) <= bound
    BY <2>1 DEF Ways
  <2> HIDE DEF bound
  <2>3. CASE Prunes(p, best, bound)
    <3>1. x = best
      BY <1>1, <1>8, <2>3
    <3>2. best # <<>> /\ bound <= Score(p, best)
      BY <2>3 DEF Prunes
    <3>3. \A g \in ways : best # <<>> /\ Score(p, g) <= Score(p, best)
      <4> HIDE DEF ways, best
      <4>1. QED
        BY <1>5, <1>6, <2>1, <2>2, <3>2
    <3> HIDE DEF ways, best
    <3>4. Answers(p, ways, best, x)
      BY <3>1, <3>3 DEF Answers
    <3>5. QED
      BY <3>4 DEF ways, best, x
  <2>4. CASE ~Prunes(p, best, bound) /\ rest = {}
    <3>1. x = given
      BY <1>1, <1>8, <2>4
    <3>2. Proper(p, component, given) /\ DOMAIN given = component
      BY <1>2, <1>3, <2>4 DEF Allowed, Proper
    <3>3. given \in ways
      BY <1>0, <3>2 DEF Ways, Continues
    <3>4. best # <<>> => Score(p, best) < Score(p, given)
      <4>1. best # <<>> => ~(bound <= Score(p, best))
        BY <2>4 DEF Prunes
      <4>2. bound = Score(p, given)
        BY <2>1, <2>4
      <4> HIDE DEF best, given
      <4>3. QED
        BY <1>6, <2>1, <4>1, <4>2
    <3>5. \A g \in ways : g = given
      <4> SUFFICES ASSUME NEW g \in ways PROVE g = given
        OBVIOUS
      <4>1. /\ g \in [component -> 1 .. Unknown] /\ given \in [component -> 1 .. Unknown]
            /\ \A u \in component : g[u] = given[u]
        BY <1>5, <3>2, <3>3
      <4> HIDE DEF given
      <4>2. QED
        BY <4>1
    <3>6. given # <<>> /\ Score(p, given) \in Nat /\ given \in [component -> 1 .. Unknown]
      BY <1>5, <3>3
    <3>7. ~Lexically(given, given)
      <4>1. \A u \in component : given[u] \in Nat
        BY <3>6, KitTypes
      <4>2. \A u \in component : ~(given[u] < given[u])
        BY <4>1
      <4>3. QED
        BY <3>2, <4>2 DEF Lexically
    <3> HIDE DEF ways, best, given
    <3>8. Answers(p, ways, best, given)
      BY <3>3, <3>4, <3>5, <3>6, <3>7 DEF Answers
    <3>9. QED
      BY <3>1, <3>8 DEF ways, best, x, given
  <2>5. CASE ~Prunes(p, best, bound) /\ rest # {}
    <3>1. left # 0
      <4> HIDE DEF rest
      <4>1. QED
        BY <1>2, <1>4, <2>5, FS_EmptySet
    <3>2. x = Tried(p, at, v, deeper)
      BY <1>1, <1>8, <2>5, <3>1
    <3>3. v \in rest /\ \A u \in rest : v <= u
      <4> HIDE DEF rest
      <4>1. QED
        BY <1>4, <2>5, LeastOf
    <3> HIDE DEF v
    <3>4. v \in component /\ v \notin DOMAIN given
      BY <3>3
    <3>5. \A u \in component : u < v => u \in DOMAIN given
      <4> SUFFICES ASSUME NEW u \in component, u < v, u \notin DOMAIN given PROVE FALSE
        OBVIOUS
      <4>1. u \in rest /\ u \in Nat /\ v \in Nat
        BY <1>4, <3>3
      <4>2. v <= u
        BY <3>3, <4>1
      <4>3. QED
        BY <4>1, <4>2
    <3>6. ASSUME NEW c \in Open(p, given, v), NEW b \in Partial(component), Good(p, component, b)
          PROVE  Answers(p, Ways(p, component, Assign(given, v, c)), b,
                         deeper[[given |-> Assign(given, v, c), best |-> b]])
      <4> DEFINE more == Assign(given, v, c)
                 next == [given |-> more, best |-> b]
      <4>1. /\ more \in Partial(component) /\ Agrees(p, more) /\ DOMAIN more = DOMAIN given \cup {v}
        <5>1. IsAssigned(more, p, component, given, v)
          BY <1>0, <1>2, <3>4, AssignAgrees DEF Allowed
        <5>2. QED
          BY <5>1 DEF IsAssigned
      <4> HIDE DEF more
      <4>2. component \ DOMAIN more = rest \ {v}
        BY <4>1
      <4>3. Cardinality(rest \ {v}) = Cardinality(rest) - 1
        <5> HIDE DEF rest
        <5>1. QED
          BY <1>4, <3>3, FS_RemoveElement
      <4>4. next \in Ats(component) /\ next.given = more /\ next.best = b
        BY <4>1 DEF Ats
      <4>5. Cardinality(component \ DOMAIN more) = left - 1
        BY <1>2, <4>2, <4>3
      <4>6. InSlotOrder(component, more)
        <5> SUFFICES ASSUME NEW u \in DOMAIN more, NEW w \in component \ DOMAIN more PROVE u < w
          BY DEF InSlotOrder
        <5>1. w \in rest /\ w # v /\ (u \in DOMAIN given \/ u = v)
          BY <4>1
        <5>2. CASE u \in DOMAIN given
          BY <1>2, <5>1, <5>2 DEF InSlotOrder
        <5>3. CASE u = v
          <6>1. v <= w /\ w \in Nat /\ v \in Nat
            BY <1>4, <3>3, <5>1
          <6>2. QED
            BY <5>1, <5>3, <6>1
        <5>4. QED
          BY <5>1, <5>2, <5>3
      <4> HIDE DEF next, rest
      <4>7. Made(p, component, next, left - 1)
        BY <3>6, <4>1, <4>4, <4>5, <4>6 DEF Made
      <4>8. Answers(p, Ways(p, component, next.given), next.best, deeper[next])
        BY <3>1, <4>4, <4>7
      <4>9. QED
        BY <4>4, <4>8 DEF next, more
    <3>7. \A c \in Open(p, given, v), b \in Partial(component) :
               Good(p, component, b) =>
               Answers(p, Ways(p, component, Assign(given, v, c)), b,
                       deeper[[given |-> Assign(given, v, c), best |-> b]])
      BY <3>6
    <3>8. Answers(p, ways, best, Tried(p, at, v, deeper))
      <4> HIDE DEF rest
      <4>1. QED
        BY <1>2, <3>1, <3>4, <3>5, <3>7, TriedAnswers
    <3>9. QED
      BY <3>2, <3>8 DEF x
  <2>6. QED
    BY <2>3, <2>4, <2>5
<1>9. QED
  BY <1>7, <1>8

\* The search of a component, from none of its slots assigned.
LEMMA VisitAnswers ==
    ASSUME NEW p, NEW component, IsProblem(p, component), Weighed(p, component), component # {}
    PROVE  Answers(p, Ways(p, component, <<>>), <<>>, Visit(p, component))
<1> DEFINE m == Cardinality(component)
           start == [given |-> <<>>, best |-> <<>>]
<1>0. m \in Nat
  BY FS_CardinalityType DEF IsProblem
<1>1. PICK f : /\ Visit(p, component) = f[m][start]
               /\ f \in [0 .. m -> [Ats(component) -> Partial(component)]]
               /\ \A left \in 0 .. m : f[left] = Visited(p, component, left, f[left - 1])
  BY VisitLoop
<1> HIDE DEF m
<1> DEFINE Fit(n) == \A at \in Ats(component) :
                Made(p, component, at, n) => Answers(p, Ways(p, component, at.given), at.best, f[n][at])
           T == {n \in Nat : n <= m => Fit(n)}
<1>2. ASSUME NEW n \in 0 .. m, n # 0 => Fit(n - 1) PROVE Fit(n)
  <2> SUFFICES ASSUME NEW at \in Ats(component), Made(p, component, at, n)
               PROVE  Answers(p, Ways(p, component, at.given), at.best, f[n][at])
    OBVIOUS
  <2>1. n \in Nat /\ (n # 0 => n - 1 \in 0 .. m)
    BY <1>0
  <2>2. n # 0 => f[n - 1] \in [Ats(component) -> Partial(component)]
    BY <1>1, <2>1
  <2>3. Answers(p, Ways(p, component, at.given), at.best, Visited(p, component, n, f[n - 1])[at])
    BY <1>2, <2>1, <2>2, VisitedAnswers
  <2>4. QED
    BY <1>1, <2>3
<1>3. 0 \in T
  <2>1. 0 \in 0 .. m
    BY <1>0
  <2> HIDE DEF Fit
  <2>2. QED
    BY <1>2, <2>1
<1>4. ASSUME NEW n \in Nat, n \in T PROVE n + 1 \in T
  <2> HIDE DEF Fit
  <2> SUFFICES ASSUME n + 1 <= m PROVE Fit(n + 1)
    OBVIOUS
  <2>1. n + 1 \in 0 .. m /\ n <= m /\ (n + 1) - 1 = n
    BY <1>0
  <2>2. Fit((n + 1) - 1)
    BY <1>4, <2>1
  <2>3. QED
    BY <1>2, <2>1, <2>2
<1>5. Nat \subseteq T
  <2> HIDE DEF T
  <2>1. QED
    BY <1>3, <1>4, Counting
<1>6. Fit(m)
  <2> HIDE DEF Fit
  <2>1. QED
    BY <1>0, <1>5
<1>7. <<>> \in Partial(component) /\ Agrees(p, <<>>) /\ DOMAIN <<>> = {}
  <2>1. DOMAIN <<>> = {}
    OBVIOUS
  <2>2. <<>> \in [{} -> 1 .. Unknown]
    OBVIOUS
  <2>3. QED
    BY <2>1, <2>2, PartialTypes DEF Agrees
<1>8. start \in Ats(component) /\ start.given = <<>> /\ start.best = <<>>
  BY <1>7 DEF Ats
<1>9. component \ DOMAIN start.given = component
  BY <1>7, <1>8
<1>10. Good(p, component, start.best)
  BY <1>8 DEF Good
<1>11. InSlotOrder(component, start.given)
  BY <1>7, <1>8 DEF InSlotOrder
<1> HIDE DEF start
<1>12. Made(p, component, start, m)
  BY <1>7, <1>8, <1>9, <1>10, <1>11 DEF m, Made
<1>13. Answers(p, Ways(p, component, start.given), start.best, f[m][start])
  BY <1>6, <1>8, <1>12
<1>14. QED
  BY <1>1, <1>8, <1>13


------------------------
(* The components together. *)

\* A problem that can be scored, whose conflicts are between its slots.
IsScored(p) ==
    IsProblem(p, p.slots) /\ Weighed(p, p.slots) /\ p.edges \subseteq p.slots \X p.slots

\* The components are apart.
LEMMA ComponentsApart ==
    ASSUME NEW p, IsScored(p), NEW v \in p.slots, NEW u \in Component(p, v)
    PROVE  u \in p.slots /\ Component(p, u) = Component(p, v) /\ u \in Component(p, u)
<1> DEFINE S == {x \in p.slots : Component(p, x) = Component(p, v)}
<1>1. S \in SUBSET p.slots /\ v \in S
  OBVIOUS
<1>2. ASSUME NEW e \in p.edges, e[1] \in S PROVE e[2] \in S
  <2>1. e = <<e[1], e[2]>> /\ e[1] \in p.slots /\ e[2] \in p.slots
    BY DEF IsScored
  <2>2. Component(p, e[2]) = Component(p, e[1])
    BY <2>1, ComponentIs DEF IsScored
  <2>3. QED
    BY <1>2, <2>1, <2>2
<1> HIDE DEF S
<1>3. u \in S
  BY <1>1, <1>2 DEF Component
<1>4. u \in p.slots /\ Component(p, u) = Component(p, v)
  BY <1>3 DEF S
<1>5. u \in Component(p, u)
  BY <1>4, ComponentIs DEF IsScored
<1>6. QED
  BY <1>4, <1>5

\* A component poses a problem that can be scored.
LEMMA ComponentScored ==
    ASSUME NEW p, IsScored(p), NEW v \in p.slots
    PROVE  /\ IsProblem(p, Component(p, v)) /\ Weighed(p, Component(p, v))
           /\ v \in Component(p, v) /\ Component(p, v) \subseteq p.slots /\ Component(p, v) # {}
<1>1. v \in Component(p, v) /\ Component(p, v) \subseteq p.slots /\ IsProblem(p, Component(p, v))
  BY ComponentIs DEF IsScored
<1>2. QED
  BY <1>1 DEF IsScored, Weighed

\* A whole assignment is one of every component.
LEMMA PartOfComponent ==
    ASSUME NEW p, IsScored(p), NEW g, Proper(p, p.slots, g), NEW v \in p.slots
    PROVE  Part(g, Component(p, v)) \in Ways(p, Component(p, v), <<>>)
<1> DEFINE C == Component(p, v)
           a == Part(g, C)
<1>1. C \subseteq p.slots
  BY ComponentScored
<1>2. DOMAIN g = p.slots /\ Allowed(p, p.slots, g)
  BY DEF Proper, Allowed
<1>3. Agrees(p, a) /\ DOMAIN a = C
  <2>1. C \in SUBSET DOMAIN g
    BY <1>1, <1>2
  <2>2. Allowed(p, p.slots, a)
    BY <1>2, <2>1, PartAllowed
  <2>3. QED
    BY <2>2 DEF Allowed, Part
<1>4. a \in Partial(C)
  <2>1. PICK slots \in SUBSET p.slots : g \in [slots -> 1 .. Unknown]
    BY <1>2, PartialTypes DEF Allowed
  <2>2. a \in [C -> 1 .. Unknown] /\ C \in SUBSET C
    BY <1>1, <1>2, <2>1 DEF Part
  <2> HIDE DEF a, C
  <2>3. QED
    BY <2>2, PartialTypes
<1>5. \A u \in DOMAIN <<>> : a[u] = <<>>[u]
  <2>1. DOMAIN <<>> = {}
    OBVIOUS
  <2>2. QED
    BY <2>1
<1> HIDE DEF a, C
<1>6. QED
  BY <1>3, <1>4, <1>5 DEF Ways, Continues, Proper, a, C

\* Where no component of one assignment exceeds that of another, the one exceeds
\* the other nowhere, and they are equal only if all components are.
LEMMA ComponentsAddUp ==
    ASSUME NEW p, IsScored(p), NEW f, Proper(p, p.slots, f), NEW g, Proper(p, p.slots, g),
           \A v \in p.slots : Score(p, Part(g, Component(p, v))) <= Score(p, Part(f, Component(p, v)))
    PROVE  /\ Score(p, g) <= Score(p, f)
           /\ Score(p, g) = Score(p, f) =>
                \A v \in p.slots : Score(p, Part(g, Component(p, v))) = Score(p, Part(f, Component(p, v)))
<1> DEFINE C(v) == Component(p, v)
           F(D) == Score(p, Part(f, D))
           G(D) == Score(p, Part(g, D))
           Closed(D) == \A v \in D : C(v) \subseteq D
           Holds(D) == G(D) <= F(D) /\ (G(D) = F(D) => \A v \in D : G(C(v)) = F(C(v)))
           T == {k \in Nat : \A D \in SUBSET p.slots : Closed(D) /\ Cardinality(D) <= k => Holds(D)}
<1>0. \A h \in {f, g} : DOMAIN h = p.slots /\ Allowed(p, p.slots, h)
  BY DEF Proper, Allowed
<1>1. \A h \in {f, g} : \A D \in SUBSET p.slots : Score(p, Part(h, D)) \in Nat
  <2> SUFFICES ASSUME NEW h \in {f, g}, NEW D \in SUBSET p.slots PROVE Score(p, Part(h, D)) \in Nat
    OBVIOUS
  <2>1. Allowed(p, p.slots, h) /\ D \in SUBSET DOMAIN h
    BY <1>0
  <2>2. Allowed(p, p.slots, Part(h, D))
    BY <2>1, PartAllowed
  <2>3. QED
    BY <2>2, WeightsAre DEF IsScored
<1>2. \A h \in {f, g} : \A D \in SUBSET p.slots : \A A \in SUBSET D :
        Score(p, Part(h, D)) = Score(p, Part(h, A)) + Score(p, Part(h, D \ A))
  <2> SUFFICES ASSUME NEW h \in {f, g}, NEW D \in SUBSET p.slots, NEW A \in SUBSET D
               PROVE  Score(p, Part(h, D)) = Score(p, Part(h, A)) + Score(p, Part(h, D \ A))
    OBVIOUS
  <2> DEFINE a == Part(h, D)
             B == D \ A
  <2>1. Allowed(p, p.slots, h) /\ D \in SUBSET DOMAIN h
    BY <1>0
  <2>a. Allowed(p, p.slots, a)
    BY <2>1, PartAllowed
  <2>2. Allowed(p, p.slots, a) /\ DOMAIN a = D
    BY <2>a DEF Part
  <2>3. Part(a, A) = Part(h, A) /\ Part(a, B) = Part(h, B)
    BY DEF Part
  <2>4. A \cup B = DOMAIN a /\ A \cap B = {}
    BY <2>2
  <2> HIDE DEF a, B
  <2>5. Score(p, a) = Score(p, Part(a, A)) + Score(p, Part(a, B))
    BY <2>2, <2>4, ScoreSplit DEF IsScored
  <2>6. QED
    BY <2>3, <2>5 DEF a, B
<1>3. \A D \in SUBSET p.slots : /\ IsFiniteSet(D) /\ Cardinality(D) \in Nat /\ (Cardinality(D) = 0 <=> D = {})
                                /\ \A v \in D : Cardinality(D \ {v}) = Cardinality(D) - 1
  BY SubsetIs DEF IsScored, IsProblem
<1>4. \A v \in p.slots : /\ v \in C(v) /\ C(v) \in SUBSET p.slots
                         /\ \A u \in C(v) : C(u) = C(v)
  <2> SUFFICES ASSUME NEW v \in p.slots
               PROVE  v \in C(v) /\ C(v) \in SUBSET p.slots /\ \A u \in C(v) : C(u) = C(v)
    OBVIOUS
  <2>1. \A u \in C(v) : C(u) = C(v)
    BY ComponentsApart
  <2>2. QED
    BY <2>1, ComponentScored
<1>5. \A v \in p.slots : G(C(v)) <= F(C(v))
  OBVIOUS
<1>t. \A D \in SUBSET p.slots : F(D) \in Nat /\ G(D) \in Nat
  BY <1>1
<1>s. \A D \in SUBSET p.slots : \A A \in SUBSET D : F(D) = F(A) + F(D \ A) /\ G(D) = G(A) + G(D \ A)
  BY <1>2
<1>e. F({}) = G({})
  BY DEF Part
<1> HIDE DEF C, F, G
<1>6. 0 \in T
  <2> SUFFICES ASSUME NEW D \in SUBSET p.slots, Cardinality(D) <= 0 PROVE Holds(D)
    OBVIOUS
  <2>1. D = {}
    BY <1>3
  <2>2. QED
    BY <1>e, <1>t, <2>1
<1>7. ASSUME NEW k \in Nat, k \in T PROVE k + 1 \in T
  <2> SUFFICES ASSUME NEW D \in SUBSET p.slots, Closed(D), Cardinality(D) <= k + 1 PROVE Holds(D)
    OBVIOUS
  <2>1. CASE D = {}
    BY <1>e, <1>t, <2>1
  <2>2. CASE D # {}
    <3>1. PICK v \in D : TRUE
      BY <2>2
    <3> DEFINE A == C(v)
               B == D \ A
    <3>2. v \in p.slots /\ v \in A /\ A \in SUBSET D /\ B \in SUBSET p.slots
      BY <1>4, <3>1
    <3>3. Closed(B)
      <4> SUFFICES ASSUME NEW u \in B, NEW x \in C(u), x \notin B PROVE FALSE
        OBVIOUS
      <4>1. u \in p.slots /\ x \in D
        OBVIOUS
      <4>2. x \in A
        BY <4>1
      <4>3. C(x) = C(u) /\ C(x) = C(v) /\ u \in C(u)
        BY <1>4, <3>2, <4>1, <4>2
      <4>4. QED
        BY <4>3
    <3>4. Cardinality(B) <= k
      <4>1. B \in SUBSET (D \ {v}) /\ D \ {v} \in SUBSET p.slots
        BY <3>2
      <4> HIDE DEF B
      <4>2. IsFiniteSet(D \ {v}) /\ Cardinality(D \ {v}) = Cardinality(D) - 1 /\ Cardinality(D) \in Nat
        BY <1>3, <3>1, <4>1
      <4>3. Cardinality(B) <= Cardinality(D \ {v})
        BY <4>1, <4>2, FS_Subset
      <4>4. Cardinality(B) \in Nat
        BY <1>3, <3>2
      <4>5. QED
        BY <4>2, <4>3, <4>4
    <3>5. Holds(B)
      BY <1>7, <3>2, <3>3, <3>4
    <3>6. F(D) = F(A) + F(B) /\ G(D) = G(A) + G(B)
      BY <1>s, <3>2
    <3>7. G(A) <= F(A)
      BY <1>5, <3>2
    <3>8. /\ F(A) \in Nat /\ F(B) \in Nat /\ G(A) \in Nat /\ G(B) \in Nat
      BY <1>t, <3>2
    <3>9. G(D) <= F(D)
      <4> HIDE DEF A, B, Closed
      <4>1. QED
        BY <3>5, <3>6, <3>7, <3>8
    <3>10. ASSUME G(D) = F(D), NEW u \in D PROVE G(C(u)) = F(C(u))
      <4>1. G(A) = F(A) /\ G(B) = F(B)
        <5> DEFINE a == G(A)
                   b == G(B)
                   c == F(A)
                   d == F(B)
        <5>1. a \in Nat /\ b \in Nat /\ c \in Nat /\ d \in Nat /\ a <= c /\ b <= d /\ a + b = c + d
          BY <3>5, <3>6, <3>7, <3>8, <3>10
        <5> HIDE DEF a, b, c, d
        <5>2. a = c /\ b = d
          BY <5>1
        <5>3. QED
          BY <5>2 DEF a, b, c, d
      <4>2. CASE u \in A
        BY <1>4, <3>2, <4>1, <4>2
      <4>3. CASE u \in B
        BY <3>5, <4>1, <4>3
      <4>4. QED
        BY <4>2, <4>3
    <3> HIDE DEF A, B, Closed
    <3>11. QED
      BY <3>9, <3>10
  <2>3. QED
    BY <2>1, <2>2
<1>8. Nat \subseteq T
  <2> HIDE DEF T
  <2>1. QED
    BY <1>6, <1>7, Counting
<1>9. Holds(p.slots)
  <2>1. p.slots \in SUBSET p.slots /\ Closed(p.slots)
    BY <1>4
  <2>2. Cardinality(p.slots) \in Nat /\ Cardinality(p.slots) <= Cardinality(p.slots)
    BY <1>3
  <2> HIDE DEF Closed, Holds
  <2>3. QED
    BY <1>8, <2>1, <2>2
<1>10. \A h \in {f, g} : Part(h, p.slots) = h
  <2> SUFFICES ASSUME NEW h \in {f, g} PROVE Part(h, p.slots) = h
    OBVIOUS
  <2>1. PICK slots \in SUBSET p.slots : h \in [slots -> 1 .. Unknown]
    BY <1>0, PartialTypes DEF Allowed
  <2>2. DOMAIN h = p.slots
    BY <1>0
  <2>3. QED
    BY <2>1, <2>2 DEF Part
<1>11. F(p.slots) = Score(p, f) /\ G(p.slots) = Score(p, g)
  BY <1>10 DEF F, G
<1>12. QED
  BY <1>9, <1>11 DEF F, G, C

\* What a solution consists of.
LEMMA SolutionIs ==
    ASSUME NEW p
    PROVE  /\ Solve(p).ok <=> \A v \in p.slots : Visit(p, Component(p, v)) # <<>>
           /\ DOMAIN Solve(p).columns = p.slots
           /\ Solve(p).ok =>
                \A v \in p.slots : Solve(p).columns[v] = Visit(p, Component(p, v))[v]
<1> DEFINE best(u) == Visit(p, Component(p, u))
           all == [x \in p.slots |-> best(x)]
           columns == [u \in p.slots |-> IF all[u] = <<>> THEN Unknown ELSE all[u][u]]
<1>1. (Solve(p).ok <=> \A u \in p.slots : all[u] # <<>>) /\ Solve(p).columns = columns
  BY DEF Solve
<1> HIDE DEF best
<1>2. \A u \in p.slots : all[u] = best(u)
  OBVIOUS
<1> HIDE DEF all
<1>3. DOMAIN columns = p.slots /\ \A u \in p.slots : columns[u] = IF all[u] = <<>> THEN Unknown ELSE all[u][u]
  OBVIOUS
<1> HIDE DEF columns
<1>4. Solve(p).ok <=> \A v \in p.slots : best(v) # <<>>
  BY <1>1, <1>2
<1>5. Solve(p).ok => \A v \in p.slots : Solve(p).columns[v] = best(v)[v]
  BY <1>1, <1>2, <1>3
<1>6. QED
  BY <1>1, <1>3, <1>4, <1>5 DEF best

\* A solution is an assignment, the first of the best; without one there is none.
IsFirst(p, f) ==
    \A g : Proper(p, p.slots, g) =>
        Score(p, g) < Score(p, f) \/ (Score(p, g) = Score(p, f) /\ ~Lexically(g, f))

\* The solution of a problem is the first of its best assignments.
LEMMA SolveIsFirst ==
    ASSUME NEW p, IsScored(p)
    PROVE  /\ Solve(p).ok => Proper(p, p.slots, Solve(p).columns) /\ IsFirst(p, Solve(p).columns)
           /\ ~Solve(p).ok => \A g : ~Proper(p, p.slots, g)
<1> DEFINE C(v) == Component(p, v)
           best(v) == Visit(p, C(v))
           f == Solve(p).columns
<1>1. \A v \in p.slots : /\ v \in C(v) /\ C(v) \subseteq p.slots
                         /\ \A u \in C(v) : C(u) = C(v)
  <2> SUFFICES ASSUME NEW v \in p.slots
               PROVE  v \in C(v) /\ C(v) \subseteq p.slots /\ \A u \in C(v) : C(u) = C(v)
    OBVIOUS
  <2>1. \A u \in C(v) : C(u) = C(v)
    BY ComponentsApart
  <2>2. QED
    BY <2>1, ComponentScored
<1>2. \A v \in p.slots : Answers(p, Ways(p, C(v), <<>>), <<>>, best(v))
  <2> SUFFICES ASSUME NEW v \in p.slots PROVE Answers(p, Ways(p, C(v), <<>>), <<>>, best(v))
    OBVIOUS
  <2>1. IsProblem(p, C(v)) /\ Weighed(p, C(v)) /\ C(v) # {}
    BY ComponentScored
  <2>2. QED
    BY <2>1, VisitAnswers
<1>3. \A g : Proper(p, p.slots, g) => \A v \in p.slots : Part(g, C(v)) \in Ways(p, C(v), <<>>)
  BY PartOfComponent
<1>4. /\ Solve(p).ok <=> \A v \in p.slots : best(v) # <<>>
      /\ DOMAIN f = p.slots
      /\ Solve(p).ok => \A v \in p.slots : f[v] = best(v)[v]
  BY SolutionIs
<1>5. ASSUME ~Solve(p).ok, NEW g, Proper(p, p.slots, g) PROVE FALSE
  <2>1. PICK v \in p.slots : best(v) = <<>>
    BY <1>4, <1>5
  <2>2. Part(g, C(v)) \in Ways(p, C(v), <<>>)
    BY <1>3, <1>5
  <2> HIDE DEF best, C
  <2>3. best(v) # <<>>
    BY <1>2, <2>2 DEF Answers
  <2>4. QED
    BY <2>1, <2>3
<1>6. ASSUME Solve(p).ok
      PROVE  Proper(p, p.slots, f) /\ IsFirst(p, f)
  <2>1. \A v \in p.slots : best(v) # <<>> /\ f[v] = best(v)[v]
    BY <1>4, <1>6
  <2>2. \A v \in p.slots : best(v) \in Ways(p, C(v), <<>>)
    <3> HIDE DEF best, C
    <3>1. QED
      BY <1>2, <2>1 DEF Answers
  <2>3. \A v \in p.slots : /\ best(v) \in [C(v) -> 1 .. Unknown] /\ Agrees(p, best(v)) /\ DOMAIN best(v) = C(v)
    <3> SUFFICES ASSUME NEW v \in p.slots
                 PROVE  best(v) \in [C(v) -> 1 .. Unknown] /\ Agrees(p, best(v)) /\ DOMAIN best(v) = C(v)
      OBVIOUS
    <3>1. IsProblem(p, C(v)) /\ Weighed(p, C(v)) /\ C(v) # {} /\ best(v) \in Ways(p, C(v), <<>>)
      BY <2>2, ComponentScored
    <3> HIDE DEF best, C
    <3>2. Proper(p, C(v), best(v)) /\ best(v) \in [C(v) -> 1 .. Unknown]
      BY <3>1, WaysAre
    <3>3. QED
      BY <3>2 DEF Proper
  <2>4. \A v \in p.slots : \A u \in C(v) : f[u] = best(v)[u]
    <3> SUFFICES ASSUME NEW v \in p.slots, NEW u \in C(v) PROVE f[u] = best(v)[u]
      OBVIOUS
    <3>1. u \in p.slots /\ C(u) = C(v)
      BY <1>1
    <3>2. best(u) = best(v)
      BY <3>1
    <3>3. QED
      BY <2>1, <3>1, <3>2
  <2>5. \A v \in p.slots : Part(f, C(v)) = best(v)
    <3> SUFFICES ASSUME NEW v \in p.slots PROVE Part(f, C(v)) = best(v)
      OBVIOUS
    <3> HIDE DEF best, C, f
    <3>1. best(v) = [u \in C(v) |-> best(v)[u]]
      BY <2>3
    <3>2. QED
      BY <2>4, <3>1 DEF Part
  <2>6. f \in Partial(p.slots)
    <3>1. f = [v \in p.slots |-> f[v]]
      <4> DEFINE h == [v \in p.slots |-> IF best(v) = <<>> THEN Unknown ELSE best(v)[v]]
      <4>1. Solve(p).columns = h
        BY DEF Solve
      <4> HIDE DEF best
      <4>2. h = [v \in p.slots |-> h[v]]
        OBVIOUS
      <4> HIDE DEF h
      <4>3. QED
        BY <4>1, <4>2
    <3> HIDE DEF best, C, f
    <3>2. \A v \in p.slots : f[v] \in 1 .. Unknown
      BY <1>1, <2>1, <2>3
    <3>3. f \in [p.slots -> 1 .. Unknown] /\ p.slots \in SUBSET p.slots
      BY <3>1, <3>2
    <3>4. QED
      BY <3>3, PartialTypes
  <2>7. Agrees(p, f)
    <3> SUFFICES ASSUME NEW v \in p.slots
                 PROVE  /\ f[v] \in p.domain[v]
                        /\ \A o \in p.slots : <<v, o>> \in p.edges => f[o] # f[v]
      BY <1>4 DEF Agrees
    <3> HIDE DEF best, C, f
    <3>1. v \in C(v) /\ f[v] = best(v)[v] /\ Agrees(p, best(v)) /\ DOMAIN best(v) = C(v)
      BY <1>1, <2>1, <2>3
    <3>2. f[v] \in p.domain[v]
      BY <3>1 DEF Agrees
    <3>3. ASSUME NEW o \in p.slots, <<v, o>> \in p.edges PROVE f[o] # f[v]
      <4>1. C(o) = C(v) /\ o \in C(o)
        BY <1>1, <3>3, ComponentIs DEF IsScored, C
      <4>2. f[o] = best(v)[o]
        BY <2>4, <4>1
      <4>3. QED
        BY <3>1, <3>3, <4>1, <4>2 DEF Agrees
    <3>4. QED
      BY <3>2, <3>3
  <2>8. Proper(p, p.slots, f)
    BY <1>4, <2>6, <2>7 DEF Proper
  <2>9. ASSUME NEW g, Proper(p, p.slots, g)
        PROVE  Score(p, g) < Score(p, f) \/ (Score(p, g) = Score(p, f) /\ ~Lexically(g, f))
    <3> HIDE DEF f
    <3>1. \A v \in p.slots :
            /\ Score(p, Part(g, C(v))) <= Score(p, Part(f, C(v)))
            /\ Score(p, Part(g, C(v))) = Score(p, Part(f, C(v))) => ~Lexically(Part(g, C(v)), Part(f, C(v)))
      <4> SUFFICES ASSUME NEW v \in p.slots
                   PROVE  /\ Score(p, Part(g, C(v))) <= Score(p, best(v))
                          /\ Score(p, Part(g, C(v))) = Score(p, best(v)) => ~Lexically(Part(g, C(v)), best(v))
        BY <2>5
      <4>1. Part(g, C(v)) \in Ways(p, C(v), <<>>) /\ best(v) # <<>>
        BY <1>3, <2>1, <2>9
      <4>2. Answers(p, Ways(p, C(v), <<>>), <<>>, best(v))
        BY <1>2
      <4> HIDE DEF best, C
      <4>3. QED
        BY <4>1, <4>2 DEF Answers
    <3>2. /\ Score(p, g) <= Score(p, f)
          /\ Score(p, g) = Score(p, f) =>
                \A v \in p.slots : Score(p, Part(g, C(v))) = Score(p, Part(f, C(v)))
      BY <2>8, <2>9, <3>1, ComponentsAddUp
    <3>3. Score(p, g) \in Nat /\ Score(p, f) \in Nat
      BY <2>8, <2>9, WeightsAre DEF Proper, Allowed, IsScored
    <3>4. ASSUME Score(p, g) = Score(p, f) PROVE ~Lexically(g, f)
      <4> SUFFICES ASSUME NEW v \in DOMAIN g, g[v] < f[v], \A u \in DOMAIN g : u < v => g[u] = f[u]
                   PROVE  FALSE
        BY DEF Lexically
      <4> HIDE DEF best, C
      <4>1. DOMAIN g = p.slots
        BY <2>9 DEF Proper
      <4>2. v \in C(v) /\ C(v) \subseteq p.slots
        BY <1>1, <4>1
      <4>3. ~Lexically(Part(g, C(v)), Part(f, C(v)))
        BY <3>1, <3>2, <3>4, <4>1
      <4>4. \A h : DOMAIN Part(h, C(v)) = C(v) /\ \A u \in C(v) : Part(h, C(v))[u] = h[u]
        BY DEF Part
      <4>5. Lexically(Part(g, C(v)), Part(f, C(v)))
        BY <4>1, <4>2, <4>4 DEF Lexically
      <4>6. QED
        BY <4>3, <4>5
    <3>5. QED
      BY <3>2, <3>3, <3>4
  <2>10. QED
    BY <2>8, <2>9 DEF IsFirst
<1>7. QED
  BY <1>5, <1>6


------------------------
(* The mapping of a window's speakers is the first of the best. *)

\* Two spans overlap for some time, or for none.
LEMMA OverlapTypes ==
    ASSUME NEW a, NEW b, a.start \in Nat, a.end \in Nat, b.start \in Nat, b.end \in Nat
    PROVE  Overlap(a, b) \in Nat
<1>1. Min({a.end, b.end}) \in Nat /\ Max({a.start, b.start}) \in Nat
  BY MinMax
<1>2. \A x \in Int : Max({0, x}) \in Nat
  <2> SUFFICES ASSUME NEW x \in Int PROVE Max({0, x}) \in Nat
    OBVIOUS
  <2>1. \E z \in {0, x} : \A t \in {0, x} : z >= t
    OBVIOUS
  <2>2. Max({0, x}) \in {0, x} /\ \A t \in {0, x} : Max({0, x}) >= t
    BY <2>1 DEF Max
  <2>3. QED
    BY <2>2
<1>3. QED
  BY <1>1, <1>2 DEF Overlap

\* The support of a speaker is a number.
LEMMA SupportTypes ==
    ASSUME NEW segments \in Seq(Pieces), anchors \in Seq(Spans), NEW w, NEW v, NEW g
    PROVE  Support(segments, w, v, g) \in Nat
<1> DEFINE mine == {i \in DOMAIN segments : segments[i].window = w /\ segments[i].who = v}
           theirs == {k \in DOMAIN anchors : anchors[k].who = g}
           S == mine \X theirs
           f == [p \in S |-> Overlap(segments[p[1]], anchors[p[2]])]
<1>1. IsFiniteSet(DOMAIN segments) /\ IsFiniteSet(DOMAIN anchors)
  <2>1. /\ DOMAIN segments = 1 .. Len(segments) /\ Len(segments) \in Nat
        /\ DOMAIN anchors = 1 .. Len(anchors) /\ Len(anchors) \in Nat
    OBVIOUS
  <2>2. QED
    BY <2>1, FS_Interval
<1>2. IsFiniteSet(mine) /\ IsFiniteSet(theirs)
  BY <1>1, FS_Subset
<1>3. \A i \in mine : segments[i].start \in Nat /\ segments[i].end \in Nat
  <2>1. \A i \in DOMAIN segments : segments[i] \in Pieces
    OBVIOUS
  <2>2. QED
    BY <2>1 DEF Pieces
<1>4. \A k \in theirs : anchors[k].start \in Nat /\ anchors[k].end \in Nat
  <2>1. \A k \in DOMAIN anchors : anchors[k] \in Spans
    OBVIOUS
  <2>2. QED
    BY <2>1 DEF Spans
<1>5. Support(segments, w, v, g) = Total(f)
  BY DEF Support
<1> HIDE DEF mine, theirs
<1>6. IsFiniteSet(S)
  BY <1>2, FS_Product
<1>7. \A p \in S : Overlap(segments[p[1]], anchors[p[2]]) \in Nat
  <2> SUFFICES ASSUME NEW p \in S PROVE Overlap(segments[p[1]], anchors[p[2]]) \in Nat
    OBVIOUS
  <2>1. p[1] \in mine /\ p[2] \in theirs
    OBVIOUS
  <2>2. QED
    BY <1>3, <1>4, <2>1, OverlapTypes
<1> HIDE DEF S
<1>8. f \in [S -> Nat]
  BY <1>7
<1> HIDE DEF f
<1>9. QED
  BY <1>5, <1>6, <1>8, TotalTypes

\* The columns of a slot: who is heard while it speaks, and nobody if it may be.
LEMMA DomainIs ==
    ASSUME NEW segments, NEW w, NEW v \in Slots(segments, w)
    PROVE  /\ Problem(segments, w).domain[v] =
                {g \in Kit : Problem(segments, w).weight[v][g] > 0}
                \cup (IF Conflict(segments, w, v, Nobody) THEN {} ELSE {Unknown})
           /\ \A g \in Kit \cup {Unknown} :
                Problem(segments, w).weight[v][g] = IF g = Unknown THEN 0 ELSE Support(segments, w, v, g)
<1> DEFINE slots == Slots(segments, w)
           weight == [x \in slots |-> [g \in Kit \cup {Unknown} |->
                        IF g = Unknown THEN 0 ELSE Support(segments, w, x, g)]]
           domain == [x \in slots |-> {g \in Kit : weight[x][g] > 0}
                        \cup (IF Conflict(segments, w, x, Nobody) THEN {} ELSE {Unknown})]
           p == Problem(segments, w)
<1>1. p.domain = domain /\ p.weight = weight
  BY DEF Problem
<1> HIDE DEF slots
<1>2. v \in slots
  BY DEF slots
<1>3. \A g \in Kit \cup {Unknown} : weight[v][g] = IF g = Unknown THEN 0 ELSE Support(segments, w, v, g)
  BY <1>2
<1> HIDE DEF weight
<1>4. domain[v] = {g \in Kit : weight[v][g] > 0} \cup (IF Conflict(segments, w, v, Nobody) THEN {} ELSE {Unknown})
  BY <1>2
<1> HIDE DEF domain, p
<1>5. QED
  BY <1>1, <1>3, <1>4 DEF p

\* A window's problem can be scored.
LEMMA ProblemScored ==
    ASSUME NEW segments \in Seq(Pieces), anchors \in Seq(Spans), NEW w
    PROVE  IsScored(Problem(segments, w)) /\ Problem(segments, w).slots = Slots(segments, w)
<1> DEFINE p == Problem(segments, w)
           slots == Slots(segments, w)
<1>1. /\ IsProblem(p, p.slots) /\ p.slots = slots
      /\ p.edges = {e \in slots \X slots : e[1] # e[2] /\ Conflict(segments, w, e[1], e[2])}
  BY ProblemIs
<1>2. p.edges \subseteq slots \X slots
  <2> HIDE DEF slots, p
  <2>1. QED
    BY <1>1
<1>3. \A v \in slots : p.domain[v] \subseteq Kit \cup {Unknown}
  <2> SUFFICES ASSUME NEW v \in slots PROVE p.domain[v] \subseteq Kit \cup {Unknown}
    OBVIOUS
  <2>1. p.domain[v] = {g \in Kit : p.weight[v][g] > 0}
                      \cup (IF Conflict(segments, w, v, Nobody) THEN {} ELSE {Unknown})
    BY DomainIs
  <2> HIDE DEF p
  <2>2. QED
    BY <2>1
<1>4. ASSUME NEW v \in slots, NEW c \in Kit \cup {Unknown} PROVE p.weight[v][c] \in Nat
  <2>1. p.weight[v][c] = IF c = Unknown THEN 0 ELSE Support(segments, w, v, c)
    BY DomainIs
  <2>2. Support(segments, w, v, c) \in Nat
    BY SupportTypes
  <2>3. QED
    BY <2>1, <2>2
<1> HIDE DEF p, slots
<1>5. Weighed(p, p.slots)
  BY <1>1, <1>3, <1>4 DEF Weighed
<1>6. QED
  BY <1>1, <1>2, <1>5 DEF IsScored, p, slots

\* The column that segment i is given under f.
ColumnOf(f, segments, i) == IF segments[i].who = Nobody THEN Unknown ELSE f[segments[i].who]

\* Under a proper assignment nobody overlaps, and the other way round.
LEMMA AssignmentsAre ==
    ASSUME NEW segments, IsAssembled(segments), anchors \in Seq(Spans), NEW w, NEW f
    PROVE  f \in Assignments(Problem(segments, w), segments, w)
           <=> Proper(Problem(segments, w), Problem(segments, w).slots, f)
<1> DEFINE p == Problem(segments, w)
           slots == Slots(segments, w)
           n == Len(segments)
           mine == {i \in DOMAIN segments : segments[i].window = w}
           column(i) == ColumnOf(f, segments, i)
           apart == \A i, j \in mine : i < j /\ column(i) = column(j) => segments[i].end <= segments[j].start
           supported == \A v \in slots : f[v] # Unknown => p.weight[v][f[v]] > 0
<1>1. /\ segments \in Seq(Pieces) /\ n \in Nat /\ DOMAIN segments = 1 .. n
      /\ \A i, j \in 1 .. n : i < j /\ segments[i].who = segments[j].who => segments[i].end <= segments[j].start
  BY DEF IsAssembled
<1>2. \A i \in 1 .. n : segments[i].start \in Nat /\ segments[i].end \in Nat
  <2>1. \A i \in 1 .. n : segments[i] \in Pieces
    BY <1>1
  <2>2. QED
    BY <2>1 DEF Pieces
<1>3. /\ p.slots = slots
      /\ p.edges = {e \in slots \X slots : e[1] # e[2] /\ Conflict(segments, w, e[1], e[2])}
  BY <1>1, ProblemIs
<1>4. \A v \in slots : p.domain[v] = {g \in Kit : p.weight[v][g] > 0}
                                     \cup (IF Conflict(segments, w, v, Nobody) THEN {} ELSE {Unknown})
  BY DomainIs
<1>5. f \in Assignments(p, segments, w) <=> f \in [slots -> Kit \cup {Unknown}] /\ supported /\ apart
  <2>1. f \in Assignments(p, segments, w) <=>
          f \in [p.slots -> Kit \cup {Unknown}] /\ (\A v \in p.slots : f[v] # Unknown => p.weight[v][f[v]] > 0)
          /\ apart
    <3> HIDE DEF p
    <3>1. QED
      BY DEF Assignments, ColumnOf
  <2> HIDE DEF p, slots, apart
  <2>2. QED
    BY <1>3, <2>1
<1>6. \A i \in mine : segments[i].who # Nobody => segments[i].who \in slots
  BY DEF Slots, ToSet
<1>7. \A a, b : Conflict(segments, w, a, b) <=>
        \E i, j \in mine : i < j /\ {segments[i].who, segments[j].who} = {a, b} /\ segments[i].end > segments[j].start
  BY DEF Conflict
<1>8. \A i \in mine : i \in 1 .. n
  BY <1>1
<1>k. Nobody \notin slots
  BY DEF Slots
<1>u. \A g \in Kit : g # Unknown
  BY KitTypes
<1> HIDE DEF p, slots, n, mine
<1>9. ASSUME f \in [slots -> Kit \cup {Unknown}], supported, apart
      PROVE  Proper(p, p.slots, f)
  <2>1. f \in Partial(p.slots) /\ DOMAIN f = p.slots
    <3>1. f \in [slots -> 1 .. Unknown]
      BY <1>9, KitTypes
    <3>2. QED
      BY <1>3, <3>1, PartialTypes
  <2>2. ASSUME NEW v \in slots PROVE f[v] \in p.domain[v]
    <3>1. CASE f[v] # Unknown
      BY <1>4, <1>9, <2>2, <3>1
    <3>2. CASE f[v] = Unknown
      <4> SUFFICES ASSUME Conflict(segments, w, v, Nobody) PROVE FALSE
        BY <1>4, <2>2, <3>2
      <4>1. PICK i \in mine, j \in mine :
              i < j /\ {segments[i].who, segments[j].who} = {v, Nobody} /\ segments[i].end > segments[j].start
        BY <1>7
      <4>2. column(i) = Unknown /\ column(j) = Unknown
        <5>1. segments[i].who \in {v, Nobody} /\ segments[j].who \in {v, Nobody}
          BY <4>1
        <5>2. QED
          BY <3>2, <5>1 DEF ColumnOf
      <4>3. segments[i].end <= segments[j].start
        BY <1>9, <4>1, <4>2
      <4>4. segments[i].end \in Nat /\ segments[j].start \in Nat
        BY <1>2, <1>8
      <4>5. QED
        BY <4>1, <4>3, <4>4
    <3>3. QED
      BY <3>1, <3>2
  <2>3. ASSUME NEW v \in slots, NEW o \in slots, <<v, o>> \in p.edges, f[o] = f[v] PROVE FALSE
    <3>1. Conflict(segments, w, v, o)
      BY <1>3, <2>3
    <3>2. PICK i \in mine, j \in mine :
            i < j /\ {segments[i].who, segments[j].who} = {v, o} /\ segments[i].end > segments[j].start
      BY <1>7, <3>1
    <3>3. column(i) = f[v] /\ column(j) = f[v]
      <4>1. segments[i].who \in {v, o} /\ segments[j].who \in {v, o}
        BY <3>2
      <4>2. v # Nobody /\ o # Nobody
        BY <1>k
      <4>3. QED
        BY <2>3, <4>1, <4>2 DEF ColumnOf
    <3>4. segments[i].end <= segments[j].start
      BY <1>9, <3>2, <3>3
    <3>5. segments[i].end \in Nat /\ segments[j].start \in Nat
      BY <1>2, <1>8
    <3>6. QED
      BY <3>2, <3>4, <3>5
  <2>4. Agrees(p, f)
    BY <1>3, <2>1, <2>2, <2>3 DEF Agrees
  <2>5. QED
    BY <2>1, <2>4 DEF Proper
<1>10. ASSUME Proper(p, p.slots, f)
       PROVE  f \in [slots -> Kit \cup {Unknown}] /\ supported /\ apart
  <2>1. f \in Partial(slots) /\ DOMAIN f = slots /\ Agrees(p, f)
    BY <1>3, <1>10 DEF Proper
  <2>2. \A v \in slots : f[v] \in p.domain[v] /\ \A o \in slots : <<v, o>> \in p.edges => f[o] # f[v]
    BY <2>1 DEF Agrees
  <2>3. \A v \in slots : f[v] \in Kit \cup {Unknown}
    BY <1>4, <2>2
  <2>4. f \in [slots -> Kit \cup {Unknown}]
    <3>1. PICK s \in SUBSET slots : f \in [s -> 1 .. Unknown]
      BY <2>1, PartialTypes
    <3>2. QED
      BY <2>1, <2>3, <3>1
  <2>5. supported
    BY <1>4, <2>2
  <2>6. ASSUME NEW i \in mine, NEW j \in mine, i < j, column(i) = column(j), ~(segments[i].end <= segments[j].start)
        PROVE  FALSE
    <3> DEFINE a == segments[i].who
               b == segments[j].who
    <3>1. segments[i].end > segments[j].start
      BY <1>2, <1>8, <2>6
    <3>2. a # b
      BY <1>1, <1>8, <2>6
    <3>3. Conflict(segments, w, a, b) /\ Conflict(segments, w, b, a)
      <4>1. {a, b} = {b, a}
        OBVIOUS
      <4>2. QED
        BY <1>7, <2>6, <3>1, <4>1
    <3>4. (a # Nobody => a \in slots) /\ (b # Nobody => b \in slots)
      BY <1>6
    <3>5. /\ column(i) = IF a = Nobody THEN Unknown ELSE f[a]
          /\ column(j) = IF b = Nobody THEN Unknown ELSE f[b]
      BY DEF ColumnOf
    <3>6. \A v \in slots : Conflict(segments, w, v, Nobody) => f[v] # Unknown
      BY <1>4, <1>u, <2>2
    <3>7. \A v, o \in slots : v # o /\ Conflict(segments, w, v, o) => f[o] # f[v]
      BY <1>3, <2>2
    <3> HIDE DEF a, b, column
    <3>8. QED
      BY <2>6, <3>2, <3>3, <3>4, <3>5, <3>6, <3>7
  <2>7. QED
    BY <2>4, <2>5, <2>6
<1> HIDE DEF supported, apart
<1>11. QED
  BY <1>5, <1>9, <1>10 DEF p

\* A solution is the first of the best assignments of its window.
LEMMA SolutionIsBest ==
    ASSUME NEW segments, IsAssembled(segments), anchors \in Seq(Spans), NEW w
    PROVE  LET p == Problem(segments, w) all == Assignments(p, segments, w) IN
           /\ Solve(p).ok => Solve(p).columns \in all /\ IsFirstBest(Solve(p).columns, all, p)
           /\ ~Solve(p).ok => all = {}
<1> DEFINE p == Problem(segments, w)
           all == Assignments(p, segments, w)
           f == Solve(p).columns
<1>1. segments \in Seq(Pieces)
  BY DEF IsAssembled
<1>2. IsScored(p)
  BY <1>1, ProblemScored
<1>3. \A g : g \in all <=> Proper(p, p.slots, g)
  BY AssignmentsAre
<1> HIDE DEF p, all
<1>4. /\ Solve(p).ok => Proper(p, p.slots, f) /\ IsFirst(p, f)
      /\ ~Solve(p).ok => \A g : ~Proper(p, p.slots, g)
  BY <1>2, SolveIsFirst
<1> HIDE DEF f
<1>5. Solve(p).ok => f \in all /\ IsFirstBest(f, all, p)
  BY <1>3, <1>4 DEF IsFirst, IsFirstBest
<1>6. ~Solve(p).ok => all = {}
  BY <1>3, <1>4
<1>7. QED
  BY <1>5, <1>6 DEF p, all, f


------------------------
(* The invariant of the mapping. *)

\* The first of the best assignments of window w is in the transcript.
FirstBestIn(p, segments, w, given) ==
    \E f \in Assignments(p, segments, w) :
        /\ \A i \in DOMAIN segments :
              segments[i].window = w /\ segments[i].who # Nobody => given[i].who = f[segments[i].who]
        /\ IsFirstBest(f, Assignments(p, segments, w), p)

\* The segments and their problems stay as long as what they are made of does.
LEMMA AssembledStays == ASSUME plan' = plan, replies' = replies PROVE Assembled' = Assembled
BY DEF Assembled

\* The problems of the windows change only with the answers.
LEMMA ProblemStays ==
    ASSUME anchors' = anchors, NEW segments, NEW w
    PROVE  Problem(segments, w)' = Problem(segments, w)
BY DEF Problem, Support

\* What has been found stays so, as long as it stays.
LEMMA MappingStays ==
    ASSUME MappingIsBest, UNCHANGED <<stage, failure, plan, replies, anchors, transcript>>
    PROVE  MappingIsBest'
BY AssembledStays, ProblemStays DEF MappingIsBest, NativeSlots

\* Nothing has to be shown before the mapping is done, nor if it failed for another reason.
LEMMA NothingMapped ==
    /\ stage # "done" /\ failure # "assignment_infeasible" => MappingIsBest
    /\ NativeSlots /\ failure # "assignment_infeasible" => MappingIsBest
BY DEF MappingIsBest

\* The mapping that ends with a transcript.
LEMMA DoneIsBest ==
    ASSUME failure # "assignment_infeasible", Done(transcript'),
           \A w \in DOMAIN plan.windows : FirstBestIn(Problem(Assembled, w), Assembled, w, transcript')
    PROVE  MappingIsBest'
<1>1. stage' = "done" /\ UNCHANGED <<failure, plan, answer, replies, anchors>>
  BY DEF Done
<1>2. Assembled' = Assembled
  BY <1>1, AssembledStays
<1>3. QED
  BY <1>1, <1>2, ProblemStays DEF MappingIsBest, FirstBestIn

\* The mapping that finds no assignment.
LEMMA InfeasibleIsBest ==
    ASSUME Fail("assignment_infeasible"), NEW w \in DOMAIN plan.windows,
           Assignments(Problem(Assembled, w), Assembled, w) = {}
    PROVE  MappingIsBest'
<1>1. stage' = "failed" /\ UNCHANGED <<plan, answer, replies, anchors, transcript>>
  BY DEF Fail
<1>2. Assembled' = Assembled
  BY <1>1, AssembledStays
<1>3. QED
  BY <1>1, <1>2, ProblemStays DEF MappingIsBest

\* What was accepted is as TranscriptInv says, the diarization names speakers by
\* their spans, and the mapping that was made is the best.
BestInv ==
    /\ TranscriptInv /\ anchors \in Seq(Spans)
    /\ stage # "failed" => failure = "none"
    /\ MappingIsBest

\* It holds at the start.
LEMMA BestInvInit == MossInit => BestInv
<1> SUFFICES ASSUME MossInit PROVE BestInv
  OBVIOUS
<1>1. stage = "planning" /\ failure = "none" /\ anchors = <<>>
  BY DEF MossInit
<1>2. MappingIsBest
  BY <1>1, NothingMapped
<1>3. anchors \in Seq(Spans)
  BY <1>1
<1>4. QED
  BY <1>1, <1>2, <1>3, TranscriptInvInit DEF BestInv

\* A failure for another reason keeps it.
LEMMA FailIsBest ==
    ASSUME NEW code, code # "assignment_infeasible", Fail(code)
    PROVE  MappingIsBest' /\ stage' = "failed" /\ anchors' = anchors
<1>1. stage' = "failed" /\ failure' = code /\ anchors' = anchors
  BY DEF Fail
<1>2. QED
  BY <1>1 DEF MappingIsBest

\* The mapping of the accepted replies is the best.
LEMMA FinalizeIsBest ==
    ASSUME BestInv, Finalize
    PROVE  MappingIsBest' /\ (stage' # "failed" => failure' = "none") /\ anchors' = anchors
<1> DEFINE segments == Assembled
           solution == [w \in DOMAIN plan.windows |-> Solve(Problem(segments, w))]
           assigned == [i \in DOMAIN segments |->
                           LET s == segments[i] IN
                           [s EXCEPT !.who = IF @ = Nobody THEN Unknown ELSE solution[s.window].columns[@]]]
<1>1. /\ stage = "collected" /\ PlanIsValid /\ RepliesAreValid /\ Len(replies) = Len(plan.windows)
      /\ failure = "none" /\ anchors \in Seq(Spans)
  BY DEF Finalize, TranscriptInv, BestInv
<1>2. DOMAIN plan.windows = 1 .. Len(plan.windows)
  BY <1>1 DEF PlanIsValid
<1>3. IsAssembled(segments)
  BY <1>1, AssembledIs
<1>4. \A w \in DOMAIN plan.windows :
        LET p == Problem(segments, w) all == Assignments(p, segments, w) IN
        /\ solution[w].ok => solution[w].columns \in all /\ IsFirstBest(solution[w].columns, all, p)
        /\ ~solution[w].ok => all = {}
  <2> SUFFICES ASSUME NEW w \in DOMAIN plan.windows
               PROVE  LET p == Problem(segments, w) all == Assignments(p, segments, w) IN
                      /\ Solve(p).ok => Solve(p).columns \in all /\ IsFirstBest(Solve(p).columns, all, p)
                      /\ ~Solve(p).ok => all = {}
    OBVIOUS
  <2> HIDE DEF segments
  <2>1. QED
    BY <1>1, <1>3, SolutionIsBest
<1>5. \/ \E code : code # "assignment_infeasible" /\ Fail(code)
      \/ NativeSlots /\ Done(segments)
      \/ Fail("assignment_infeasible") /\ \E w \in DOMAIN plan.windows : ~solution[w].ok
      \/ Done(assigned) /\ \A w \in DOMAIN plan.windows : solution[w].ok
  BY DEF Finalize, Reconcile
<1>6. CASE \E code : code # "assignment_infeasible" /\ Fail(code)
  BY <1>6, FailIsBest
<1>7. CASE NativeSlots /\ Done(segments)
  <2>1. stage' = "done" /\ UNCHANGED <<failure, plan, answer, replies, anchors>>
    BY <1>7 DEF Done
  <2>2. MappingIsBest'
    BY <1>1, <1>7, <2>1 DEF MappingIsBest, NativeSlots
  <2>3. QED
    BY <1>1, <2>1, <2>2
<1>8. CASE Fail("assignment_infeasible") /\ \E w \in DOMAIN plan.windows : ~solution[w].ok
  <2>1. PICK w \in DOMAIN plan.windows : ~solution[w].ok
    BY <1>8
  <2>2. Assignments(Problem(Assembled, w), Assembled, w) = {}
    BY <1>4, <2>1
  <2>3. MappingIsBest'
    BY <1>8, <2>2, InfeasibleIsBest
  <2>4. QED
    BY <1>8, <2>3 DEF Fail
<1>9. CASE Done(assigned) /\ \A w \in DOMAIN plan.windows : solution[w].ok
  <2>1. stage' = "done" /\ transcript' = assigned /\ UNCHANGED <<failure, plan, answer, replies, anchors>>
    BY <1>9 DEF Done
  <2>2. ASSUME NEW w \in DOMAIN plan.windows
        PROVE  FirstBestIn(Problem(segments, w), segments, w, assigned)
    <3> DEFINE p == Problem(segments, w)
               f == solution[w].columns
    <3>1. f \in Assignments(p, segments, w) /\ IsFirstBest(f, Assignments(p, segments, w), p)
      BY <1>4, <1>9
    <3>2. ASSUME NEW i \in DOMAIN segments, segments[i].window = w, segments[i].who # Nobody
          PROVE  assigned[i].who = f[segments[i].who]
      <4>1. segments[i] \in Pieces
        BY <1>3 DEF IsAssembled
      <4> DEFINE s == segments[i]
      <4>2. assigned[i] = [s EXCEPT !.who = IF @ = Nobody THEN Unknown ELSE solution[s.window].columns[@]]
        OBVIOUS
      <4> HIDE DEF assigned, solution, segments, s
      <4>3. s \in Pieces /\ s.who # Nobody /\ s.window = w
        BY <3>2, <4>1 DEF s
      <4>4. assigned[i].who = solution[w].columns[s.who]
        BY <4>2, <4>3 DEF Pieces
      <4>5. QED
        BY <4>4 DEF s
    <3> HIDE DEF p, f, assigned, segments, solution
    <3>3. QED
      BY <3>1, <3>2 DEF FirstBestIn, p
  <2>3. MappingIsBest'
    <3>1. failure # "assignment_infeasible" /\ Done(transcript')
      BY <1>1, <1>9, <2>1
    <3>2. \A w \in DOMAIN plan.windows : FirstBestIn(Problem(Assembled, w), Assembled, w, transcript')
      BY <2>1, <2>2
    <3>3. QED
      BY <3>1, <3>2, DoneIsBest
  <2>4. QED
    BY <1>1, <2>1, <2>3
<1>10. QED
  BY <1>5, <1>6, <1>7, <1>8, <1>9

\* No action leads out of it.
LEMMA BestInvNext == BestInv /\ [MossNext]_mossVars => BestInv'
<1> SUFFICES ASSUME BestInv, [MossNext]_mossVars
             PROVE  MappingIsBest' /\ (stage' # "failed" => failure' = "none") /\ anchors' \in Seq(Spans)
  BY TranscriptInvNext DEF BestInv
<1>1. anchors \in Seq(Spans) /\ (stage # "failed" => failure = "none")
  BY DEF BestInv
<1>2. \/ \E code : code # "assignment_infeasible" /\ Fail(code)
      \/ stage \in {"planning", "answering"} /\ UNCHANGED <<failure, anchors>> /\ stage' \in {"planning", "answering"}
      \/ stage = "answering" /\ stage' = "collected" /\ anchors' \in Tracks /\ failure' = failure
      \/ Finalize
      \/ UNCHANGED mossVars
  <2>1. CASE PlanWindow
    BY <2>1 DEF PlanWindow
  <2>2. CASE Prepare
    BY <2>2 DEF Prepare
  <2>3. CASE Decode
    BY <2>3 DEF Decode
  <2>4. CASE Collect
    BY <2>4 DEF Collect
  <2>5. CASE Cancelled
    BY <2>5 DEF Cancelled
  <2>6. QED
    BY <2>1, <2>2, <2>3, <2>4, <2>5 DEF MossNext
<1>3. CASE \E code : code # "assignment_infeasible" /\ Fail(code)
  BY <1>1, <1>3, FailIsBest
<1>4. CASE /\ stage \in {"planning", "answering"} /\ UNCHANGED <<failure, anchors>>
           /\ stage' \in {"planning", "answering"}
  BY <1>1, <1>4 DEF MappingIsBest
<1>5. CASE stage = "answering" /\ stage' = "collected" /\ anchors' \in Tracks /\ failure' = failure
  <2>1. anchors' \in Seq(Spans)
    BY <1>5, MossAssumption
  <2>2. QED
    BY <1>1, <1>5, <2>1 DEF MappingIsBest
<1>6. CASE Finalize
  BY <1>1, <1>6, FinalizeIsBest
<1>7. CASE UNCHANGED mossVars
  BY <1>1, <1>7, MappingStays DEF mossVars, BestInv
<1>8. QED
  BY <1>2, <1>3, <1>4, <1>5, <1>6, <1>7

\* The search finds the first of the best assignments of every window, and fails only
\* where there is none: for all recordings, answers, tracks and numbers of speakers.
THEOREM MappingIsBestAlways == MossSpec => []MappingIsBest
<1>1. BestInv => MappingIsBest
  BY DEF BestInv
<1>2. QED
  BY <1>1, BestInvInit, BestInvNext, PTL DEF MossSpec

=============================================================================
