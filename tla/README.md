# Verification of EchoWall

TLA+ models of the EchoWall app (the Tauri crate in
`src/desktop/src-tauri/`, its native Android recorder and its local workers),
their model checks and their proofs.  Paths below are relative to
`src/desktop/src-tauri/src/` unless they start with `src/` or `docs/`.

Contents: 1 the system, 2 the modules and how they correspond to the code,
3 the runs, their bounds and fairness, 4 the proofs, 5 where the code and its
documents disagree, 6 what is not modelled and what could come next.

## 1. The system

A recording is captured on the desktop or on a phone, or imported from a file,
into an app-owned *package* in the inbox.  Processing takes it from there: the
audio goes to a temporary TOS object, 妙记 transcribes it (or local models do),
a summary is made, both are published to an archive, the archived audio is read
back (the *canonical backup*), and only then the temporary object is deleted.
Every external effect is fenced by a durable record in the recording's *ledger*.
The archive is a Git branch plus a bucket that nothing ties to it; other
devices publish to it, and phones pull from it.

| Component | State it keeps | Operations | Talks to | What makes it correct |
|---|---|---|---|---|
| Ledger and store (`processing/mod.rs`) | one JSON ledger per recording: state, backends, checkpoints, publication, cleanup | some forty checkpoint, selection, retry, cancel and discard operations, `resume` | the engine, the commands | no paid or destructive effect is repeated or lost; Complete means backed up; evidence is never lost |
| Ledger file (`processing/mod.rs`) | `{id}.json`, `.{id}.*.tmp` | `load_locked`, `persist_locked` | the file system | an atomic, durable register |
| Engine, commands, launch (`processing/engine.rs`, `commands.rs`) | the in-flight marker of TOS operations | `run_until_wait`, `cancel_and_cleanup`, `discard_local`, `retry`, `reprocess`, `back_up_local_to_cloud`, `resume_pending` | store, inbox, effects | duplicates and restarts are harmless |
| Effects (`processing/direct.rs`, `tos.rs`, `providers.rs`) | the bucket, provider jobs (external) | upload, probe, delete, submit, poll, summarize | network | a lost answer is classified, never guessed |
| MOSS (`processing/moss_*.rs`, `engine/moss.rs`) | preparation and inference claims, owner lease, run registry, response artifacts | claim, prepare, checkpoint, finalize, cancel | store, child processes | one effect at a time, no stale claim accepted, the ledger never ahead of its files |
| Inbox, import (`ingest/inbox.rs`, `import.rs`, `envelope.rs`, `state.rs`) | packages: envelope, event journal, audio | import, confirm, finalize, append, prune, discard, list ready | capture, engine | recoverable after any stop; a file is imported once |
| Capture session (`capture/session.rs`, `commands.rs`, `windows/`) | session snapshot, open segments, signals | start, pause, resume, poll, stop, recover | native stream, inbox | the timeline is complete |
| macOS stream (`capture/macos.rs`) | tracks, open WAV files, tap watchdog | callbacks, poll, close, pause, resume | Core Audio, session | no hole is silent |
| Android recording (Kotlin service, plugin, journal; `ingest/mobile.rs`) | active snapshot, event journal, segments | start, pause, resume, stop, finalize, cleanup | the viewer, the inbox | a stopped recording is saved whole |
| Archive (`processing/archive.rs`, `lib.rs`) | branch, bucket, local copies, upload records, outbox | publish, verify, edit, delete, pull | GitHub, R2, other devices | compare-and-swap takes nothing; no upload is forgotten |
| Sync and cache (`sync.rs`, `r2.rs`, `secrets.rs`) | credentials and handles, pull, pins, cached audio | save, delete, refresh, pin, serve, fill, evict | archive | no mixed credentials; pins stay playable |
| Local models (`processing/local_models*`) | pack files, partial files, lease, cached verdicts | install, remove, inspect, prove, cancel | workers | what is reported installed is whole |
| Local workers (`src/desktop/*-worker`, `src/desktop/local-*-protocol`, `processing/local_worker.rs`, `moss_worker.rs`, `local_moss*`) | private model copies, pipes, open files | call, snapshot, reclaim, cut, transcribe, map speakers, summarize | engine | calls end; answers are whole and from verified files |
| Legacy watcher (`src/transcribe.py`, `src/volc_lark.py`, `src/deliveries/`) | processed list, manifest | process, deliver | providers, archive | one delivery per recording |

Hard behaviours: any number of tasks run the engine on one recording at once
(no lock spans an effect); the process may end anywhere and is launched again;
a PUT, a submit or a publication may take hold although its answer is lost;
receipts arrive after retries, cancels and new generations; credentials may
vanish; files may be torn and unsynced names lost; two devices commit to one
branch; native callbacks come late, early or not at all; a request's caller is
dropped while its effect goes on; a worker hangs, floods its pipes or is killed
over a copy of gigabytes.  `PROJECT.json` lists these hazards at their lines,
with the properties that cover each.

## 2. Modules

| Module | Models | Variables |
|---|---|---|
| `ProcessingState` | `ProcessingState`, `can_transition_to` | none |
| `LedgerOperations` | every `ProcessingStore` operation, `validate`, `validate_checkpoint_consistency`, the MOSS operations' ledger side | none: operators on a ledger record |
| `ProcessingLedger` | the store alone | `ledger` |
| `LedgerRegister` | the abstract register that a ledger file should be | `value`, `reported` |
| `LedgerFile` | `load_locked`, `persist_locked`, `mutate` on a file system | `destination`, `named`, `temporaries`, `current`, `phase`, `reported`, `faults` |
| `ProcessingEngine` | the engine, the launch and the world, composed with the store's operations | `ledger`, `worker`, `tos_operation`, `package`, `credentials`, `bucket`, `named`, `late_puts`, `sent_again`, `tasks`, `archive` |
| `MossRun` | leased, cancelable MOSS runs over two processes, composed with the store's operations | `ledger`, `moss`, `files`, `registry`, `run`, `task`, `canceller`, ... |
| `RecordingInbox` | packages; import, review, capture's finalization, adoption, pruning, discard | `package`, `importer`, `capture`, `adopting`, `ledger`, ... |
| `CaptureSession` | the desktop session, its snapshot, the stream with one worker per track, launch recovery | `activeSession`, `snap`, `tracks`, `queue`, `durable`, `envelope`, ... |
| `MacTracks` | the macOS stream and its tap watchdog under the session's calls | `stream`, `session`, `called`, `polled`, `time`, `faults` |
| `MobileCapture` | Android plugin, service, recorder, journal and the Rust ingest | `snapshot`, `journal`, `service`, `recorder`, `package`, `finalizer`, ... |
| `ArchivePublication` | publication, edits, deletes and pulls of devices over branch and bucket | `commits`, `bucket`, `attempts`, `manifest`, `outbox`, `op`, ... |
| `ArchiveSync` | credentials' record and handles; the pull and its overlay | `stored`, `gh`, `bucket`, `pull`, `command`, `lock`, ... |
| `AudioCache` | pins, cached audio, fills, eviction | `kept`, `cached`, `partial`, `pin`, `fill`, `listed`, ... |
| `LocalModels` | packs and the pipeline that shares their files | `content`, `partial`, `cache`, `status`, `job`, `busy`, ... |
| `SnapshotSlots` | `src/desktop/moss-worker/src/scratch.rs`: slots, leases, journals, model copies | `registry`, `lease`, `journal`, `model`, `actor`, ... |
| `WorkerCall` | one call of a worker process, by both launchers | `call`, `input`, `child`, `stream`, `drain`, ... |
| `VerifiedWorker` | a worker's checks of its files around inference | `disk`, `handle`, `used`, `at`, `outcome`, ... |
| `MossTranscript` | windows, plan, adaptation of turns, speaker mapping | `plan`, `answer`, `replies`, `anchors`, `transcript`, ... |
| `SpeechText` | ranges, segments, words' speakers, summary rounds | `input`, `output` |
| `LedgerOperationsProofs`, `ProcessingLedgerProofs`, `ProcessingEngineProofs`, `MossRunProofs`, `ArchivePublicationProofs`, `RecordingProofs`, `CaptureProofs`, `WorkersProofs` | the theorems of section 4 | |
| `MC...` | constants, symmetry and unions for TLC; `MCText` names the texts' constants for `MCLedger` and for the proofs | |

Where a module composes others it takes their operators: `ProcessingEngine` and
`MossRun` change `ledger` by the operators of `LedgerOperations` only, and both
instantiate `ProcessingLedger` as the abstract specification of what they do to
it.  `RecordingInbox` is what `CaptureSession`, `MobileCapture` and the import
hand a package to; the engine sees a package as present or gone (`package`).
`ArchivePublication` is what stands behind the engine's `archive` and its
`TargetIsPublished`; `ArchiveSync` and `AudioCache` are two more readers of the
same archive.

### The ledger, its file and the engine

**A store operation** is an operator from a ledger to the *set* of ledgers it
may leave: `{}` is an error (nothing persisted), `{l}` is `Ok(false)`, `{n}` is
`n` persisted.  `Transition` and `Mutate` are the code's `transition` and
`mutate`: the table and the validator guard every result.  The store holds its
writer mutex and a process-wide file lock, so an operation is one step.  A
payload (locator, digest, JSON, model pin) is abstracted to its presence, since
no property tells two payloads apart; comparing an incoming payload with a
stored one is therefore always a match.  A generation of 0 stands for "no
publication"; `MaxGeneration` for `u64::MAX`, at which `checked_add` fails.

**A worker** of `ProcessingEngine` is one task inside `run_until_wait`, a
command or the launch; its `at` names the effect or the step it is at.  An
effect is cut where others may act: the call, its taking hold in the world
(`PutArrives`, `SubmitIsAccepted`, `TargetIsPublished`), the checkpoint of its
answer, or the loss of the answer.  The marker in `tos_operations_in_flight` is
taken in the same step as `resume` because the code holds the marker's mutex
over both.  Merged on purpose: the load that follows `resume` with the dispatch
that follows it, and a checkpoint with the release of the marker after it.
`ProbeFindsAbsence` is the whole repeated probe.  `Restart` ends all tasks at
once, keeps the durable and external state, and starts a worker at
`resume_pending`.

**`LedgerFile`** keeps what a file reads like now (`whole`) apart from what is
on the disk (`synced`), and the directory's current entry (`destination`) apart
from the one it had when last synced (`named`).  `Value` is the revision a load
would return; the refinement to `LedgerRegister` maps `value` to it.

### MOSS runs

A run is a `RunControl` in its process's registry and an `OwnerLease`, an
`flock` that excludes other processes.  Each effect runs in a task that keeps
the lease when the run's caller is dropped; a response is attested in the ledger
(the *intent*) before its file is published, and completed after.  Actions cut
between the registry's lock, the ledger's operations and each file step;
cancels, dropped callers and crashes come at any of them.  `Notify` and the
task count are modelled as they are used by `wait_idle`.

### Capture and ingest

`CaptureSession` and `MacTracks` thread a record through the chain of fallible
steps of a command: what came before the step that fails has taken effect, as
in the code.  The session's mutex makes a command one action; a process killed
inside it is a command that fails there and then `Exit`.  `CaptureSession` has
the Windows stream, whose segments run from boundary to boundary; `MacTracks`
has the macOS stream, whose segments are what the callbacks brought, and the
session's acceptance rule.  `MobileCapture` follows the Android main thread
(commands, intents), the recorder thread and the ingest, with a kill between
any two steps and one torn line of the journal.  In `RecordingInbox` an
operation holds the inbox's write lock and is one action; the `...Partly`
actions are what a kill or a failed write leaves of it.

### Archive

`ArchivePublication` has one operation per device at a time (its operation and
process locks), cut at every request to GitHub and R2 and at every local write;
`commits` is the whole history of the branch, so that a compare-and-swap is a
comparison of positions.  Names stand for all editable fields.  `ArchiveSync`
has a pull that downloads without the archive's lock and lays its tarball over
the local files under it, beside the credential commands and the publisher.
`AudioCache` has one pin request and one fill per path and walks of an eviction
over the list it made earlier; the order in which it evicts is abstracted.

### Local models and workers

`LocalModels` cuts an operation at each file step, so that packs sharing a file
with the pipeline meet between verification and verdict.  `SnapshotSlots` cuts
at each system call of `scratch.rs` that matters after a kill or a power loss:
appended bytes, new names and removed names are each either synced or not, and
what is not survives a power loss or not independently, in all slots at once.  A
removal and its sync are two steps (`Remove`); a file whose removal is not synced
is kept in `old` as what may come back.
`WorkerCall` models a pipe by how much of it is filled.  `MossTranscript` and
`SpeechText` are computations: one step is one call of the code, and the inputs
are enumerated.  There a text is the sequence of the places it was recognized
at, so that "nothing is lost or said twice" is a statement about sequences.

## 3. Runs

| Run | Bounds | Shows |
|---|---|---|
| `Ledger` | 2 targets (the second at-most-once, both required), 3 generations; files: 3 revisions; texts: see below | the store's safety under every operation sequence; the ledger's files implement a register; MOSS windows, speech and summaries lose and repeat nothing, and the speaker search is optimal |
| `Engine` | 2 workers, 2 targets (first required), 2 generations, Whisper, removable credentials, at most 2 provider jobs | one provider job, true receipts, no deletion before the backup, refinement of the store |
| `EngineRemote` | 2 workers, 1 target, 2 generations, remote route, credentials kept, at most 2 PUTs nobody waits for | no temporary object is left behind unless an upload was sent twice; the cleanup of a canceled upload finishes |
| `Moss` | 2 runs in 2 processes, 2 different model answers, 1 window with its anchors and mapping | one effect at a time, ledger never ahead of its files, no lost wake-up |
| `Archive` | 2 devices with 1 recording each, 2 generations, 4 operations, 1 lost object, 2 tries per push, one key occupied | no upload is forgotten, a commit takes nothing |
| `Inbox` | 2 recordings (a file and a capture), 1 review, 1 mishap | Ready has its audio, one import per file, events are kept |
| `Capture` | 1 meeting of 2 tracks, clock up to 4, rolling every 2, 1 fault at any of 9 places, 1 pending signal | no silent hole, nothing recorded in a gap |
| `Mac` | 2 tracks, clock up to 4, 1 fault at any of 4 places | holes are reported, a stall is reported |
| `Mac_CloseIsAccepted` | as `Mac`, no fault | finding, section 5 |
| `Mobile` | 2 sessions of at most 2 segments, 2 faults; sync: 2 destinations, 1 entry, 2 commands, 1 kill; cache: 2 paths, 2 pin requests, a cap of 1 file, 4 requests, 1 kill | a stopped recording is saved whole and in the end; pins stay playable; a pull ends |
| `LocalModels` | 3 plain packs of one file each and the pipeline of all three, 3 requests, 2 faults, at most one leftover bad file | installed is whole, pipeline operations end |
| `Workers` | slots: 2 slots, 2 workers and the app, 3 runs, 1 kill, 1 power loss; call: a request of 2 parts, a pipe of 1, a limit of 2; files: 2 changes | copies stay registered, live ones are kept, orphans reclaimed; an answer is whole and verified; a call ends |

**Unions.**  `MCLedger`, `MCMobile` and `MCWorkers` check parts that share no
state in one run: an initial state picks a part, the steps are that part's, and
the variables of the others keep a fixed value.  The parts of `Ledger` other
than the operations start with `ledger = Enqueued`.  Nothing is composed that
way; it only saves a TLC start per part.

**Why the bounds suffice.**  Two targets give "earlier target not verified" and
"second of a plan"; three generations give a stale receipt of a former
generation and exhaustion; two workers give every pairwise race; `MaxTasks = 2`
lets a second provider job happen so that `OneProviderJob` can fail.  In
`Ledger` every operation is offered in every state with every generation and
target, so the caller is as hostile as possible.  In `Moss` two processes with
two runs give a stale claim after a change of the lease, and two bodies an
answer that differs on retry.  Two devices and two tries give a push that loses
and wins, and one that gives up.  A clock of four with a rolling of two gives a
segment before, across and after a pause.  In `Mobile` the second session is
the one that the first one's leftovers may block; the constraint `Attended`
stops at a second stop, after which the properties say nothing (section 5 has
what happens then); sync starts with at most the first destination stored since
the two are alike.  In `Mac` there is at most one buffer per track and unit,
the microphone's first, before the session looks.  Every bound is a constant of
its module with a comment.  The theorems of section 4 lift the bounds of the
ledger, the engine's safety, the ledger's file, the MOSS runs, the inbox
the macOS tracks, the recorder of the phone, the archive's
publication, the desktop session, the adaptation and mapping of turns, the transcripts
and summaries, the credentials, the pins, the slots, the workers' calls and files and
the model packs altogether.

**Texts.**  `MossTranscript`: 2 frames per ms, windows of at most 6 frames with
4 of lookback, sources of 5 and 9 frames, at most 3 windows and 3 turns in all,
speakers 0 to 2, two diarizations.  That is enough for a turn that crosses a
cut, two that tie, a window without speech and a conflict whose best resolution
is not the greedy one.  `SpeechText`: frames of 2 samples, loud or silent, ranges
of 3 to 8 samples and at most 3 of them, a search of 5, audio of up to 19 frames of
the file, so that there are too many ranges, long ones and late ones; five rounds of summaries of 4-byte chunks.  The partial
summaries of a run are all of one size.

**Deadlock** checking is on in `Engine`, `EngineRemote` and `Ledger`.  The other
runs turn it off: a recording that is saved, a bound that is reached or an app
that is not launched again ends the behaviour.

**Fairness.**  Only liveness properties use it.

- `EngineRemote` (`RecurringLaunches`): the app is launched again and again
  (`WF` of `Restart`: nothing in the process retries a failed cleanup, the next
  launch does), and no cleanup step is prevented for ever by stops or failures
  that hit the same step each time (`SF`).  Nothing is assumed of upload,
  submit, publication or the user.
- `Mobile`: the main thread handles a posted intent, a recorder thread ends once
  told to, the viewer polls and finalizes what is stopped, a pull under way
  goes on.  No control of the user is fair.
- `LocalModels`: a started operation's own next step (`Step` of each slot)
  happens; the network may still stall for ever, which is what `PipelineEnds`
  is about: the pipeline's download has its own deadline.
- `Workers`: a thread or a process that is not killed goes on; `SF` of the app's
  reclaim, which it repeats at every MOSS run; the deadline passes.  A worker
  may hang for ever.

**World.**  TOS honours `x-tos-forbid-overwrite`; the repeated absence probes
outlast a PUT nobody waits for; deleting an exact version is idempotent; GitHub
moves a branch by compare-and-swap; `tokio::sync::Notify` loses no wakeup of a
registered waiter; a rename is atomic; a file whose content was synced is not
torn; `flock` goes with its process; a content digest identifies the content.

**Held too, in no run.**  These hold on the bounds above and stay in the modules:
`ProcessingLedger` `TypeOK`, `StepsFollowTable` (both proved),
`ReceiptsAreAccepted`, `ResumeNeverFails`; `ProcessingEngine` `TypeOK` (proved),
`DiscardIsFinished` (with `EngineRemote.cfg`); `MossRun` `EndedRunIsForgotten`,
`CanceledIsQuiet`, `AnswersAreKept`, `ImplementsStore` (all four proved);
`ArchivePublication` `PublishedIsKept` (proved); `RecordingInbox` `ReviewIsKept` (proved);
`CaptureSession` `SegmentsAreKept` (proved); `MobileCapture` `RemovedIsCopied` (proved); `LocalModels`
`OnlyVerifiedIsPublished`; `MacTracks` `SegmentsAreContinuous`; `MossTranscript`
`PlanIsAccepted`; `ArchiveSync` `HandlesMatchRecord` (proved).  Adding a name to
the run's cfg checks it.

## 4. Proofs

| Module | Theorem | Statement |
|---|---|---|
| `ProcessingLedgerProofs` | `Invariant` | `Spec => []IInv` |
| | `TypeCorrect` | `Spec => []TypeOK` |
| | `CompleteIsSafe` | `Spec => []CompleteIsBackedUp` |
| | `DiscardIsSafe` | `Spec => []DiscardLeavesNoObject` |
| | `EvidenceIsSafe` | `Spec => EvidenceIsKept` |
| | `TableIsFollowed` | `Spec => StepsFollowTable` |
| | `FilesAreARegister` | `Files!Spec => Files!ImplementsRegister`, under `FilesAssumed` |
| | `TranscriptInvariant` | `MossSpec => []TranscriptInv` |
| | `TurnsAreConservedAlways` | `MossSpec => []TurnsAreConserved` |
| | `SpeakersNeverOverlapAlways` | `MossSpec => []SpeakersNeverOverlap` |
| | `MappingIsBestAlways` | `MossSpec => []MappingIsBest` |
| `ProcessingEngineProofs` | `EngineInvariant` | `Spec => []EInv` |
| | `JobIsUnique` | `Spec => []OneProviderJob` |
| | `VerifiedIsTrue` | `Spec => []VerifiedIsPublished` |
| | `DeletionComesLast` | `Spec => BackupBeforeDeletion` |
| | `EngineIsAStore` | `Spec => ImplementsStore` |
| | `NothingIsLeft` | `Spec => []NothingLeftInBucket`, under `~CredentialsRemovable` and `LocalBackends = {}` |
| | `RemoteJobsLeaveNothing` | `Spec => [](IsRemote(ledger) => NothingLeftInBucket)`, under `~CredentialsRemovable` |
| `CaptureProofs` | `PinnedStays` | `Cache!Spec => []PinnedIsPlayable` |
| | `HandlesAreOneRecord` | `Sync!Spec => []Sync!HandlesMatchRecord` |
| | `StoppedStaysWhole` | `Spec => []StoppedIsWhole` |
| | `RemovalComesAfterTheCopy` | `Spec => RemovedIsCopied` |
| | `CaptureInvariant` | `CaptureSpec => []CaptureInv` |
| | `SavedHasNoHole` | `CaptureSpec => []NoSilentHole` |
| | `SavedGapsAreSilent` | `CaptureSpec => []GapsAreSilent` |
| | `DurableSegmentsAreKept` | `CaptureSpec => SegmentsAreKept` |
| `WorkersProofs` | `LiveCopyStays` | `Spec => []LiveCopyIsKept` |
| | `EveryCopyIsRecoverable` | `Spec => CopiesAreRecoverable` |
| | `AnswersAreWhole` | `Call!Spec => []AnswerIsWhole` |
| | `AcceptedIsVerified` | `Verified!Spec => []AnswerIsFromVerifiedFiles` |
| | `ModelsInvariant` | `Models!Spec => []ModelsInv`, under `Models!WellFormed` |
| | `InstalledStaysWhole` | `Models!Spec => Models!InstalledIsWhole`, under `Models!WellFormed` |
| | `OnlyWholeIsPublished` | `Models!Spec => Models!OnlyVerifiedIsPublished`, under `Models!WellFormed` |
| | `TextInvariant` | `Text!Spec => []TextInv`, under `Text!WellFormed` |
| | `ChunksCoverAudioAlways` | `Text!Spec => []ChunksCoverAudio`, under `Text!WellFormed` |
| | `TranscriptIsWholeAlways` | `Text!Spec => []TranscriptIsWhole`, under `Text!WellFormed` |
| | `SummaryCoversTranscriptAlways` | `Text!Spec => []SummaryCoversTranscript`, under `Text!WellFormed` |
| `RecordingProofs` | `ReadyIsWholeUntilDiscarded` | `Spec => []ReadyUntilDiscarded` |
| | `ImportedOnce` | `Spec => []NoDuplicateImport` |
| | `ReviewStays` | `Spec => ReviewIsKept` |
| | `EventsStay` | `Spec => EventsAreKept` |
| | `MacInvariant` | `MacSpec => []MacInv` |
| | `HolesHaveReports` | `MacSpec => []HolesAreReported` |
| | `StallsHaveReports` | `MacSpec => []StallIsReported` |
| `MossRunProofs` | `MossInvariant` | `Spec => []MossInv` |
| | `EffectsExclude` | `Spec => []OneEffect` |
| | `EvidenceIsOnDisk` | `Spec => []EvidenceMatchesFiles` |
| | `NoAnswerIsWasted` | `Spec => AnswersAreKept` |
| | `WakeUpsArrive` | `Spec => []NoLostWakeUp` |
| | `EndedRunsLeave` | `Spec => []EndedRunIsForgotten` |
| | `CancelEndsWorkers` | `Spec => []CanceledIsQuiet` |
| | `RunsAreAStore` | `Spec => ImplementsStore` |
| `ArchivePublicationProofs` | `ArchiveInvariant` | `Spec => []ArchiveInv` |
| | `AudioIsAccounted` | `Spec => []AudioIsAccountedFor` |
| | `PublishedStays` | `Spec => []PublishedIsKept` |
| | `CommitsKeep` | `Spec => CommitsTakeNothing` |

**The ledger**, for every number of targets and generations and every set of
at-most-once and required targets (`LedgerAssumption`: positive bounds, target
sets within the plan).  `CompleteIsBackedUp` is not inductive: the validator
looks at `canonical_backup` but not at the targets.  `IInv` adds the ledger's
type, its validity, and what the backup and the deletion records say about the
targets and the state.  `LedgerOperationsProofs` has one lemma per operation
(`...Sound`): from any good ledger it leaves only good ledgers, keeps the
evidence and follows the table.  Lemmas on `Transition` and `Mutate` carry the
common part; `resume`, which does not call `transition`, has its own.

**The engine**, for every number of tasks, targets, generations and provider
jobs and every choice of local backends.  A task acts on a ledger it read some
steps ago, so the argument is about what no operation does behind its back:
`Calm(l, m)` says that an operation leads from `l` to `m` without going back to
before the request (`Unasked`), without verifying a target by itself
(`Vouched`), and without making a due deletion undue (`StaysDue`, `Awaits`).
Each operation has a lemma that it is calm, or calm but for the one thing it is
there for (`...Tame`).  `EInv` strengthens the properties by

- `MarkerIsHeld`: a task in the upload or in the canceled cleanup holds the marker;
- `ReceiptsAreNamed`: a task about to publish carries a target, and a generation
  once it has started it;
- `RequestIsUnique`: at most one task asks the provider or waits for the answer,
  and no job was accepted before it asked;
- `DeletionIsDue`: a task about to delete the object does so for a reason that
  nobody can take away.

There is one lemma per group of the engine's actions.  `EngineIsAStore` is the
refinement: `LedgerStore` is an instance of `ProcessingLedger` over the engine's
own ledger, `SameStore` shows that its operations are the engine's, and
`NextStores` that every step of every task is one of them or leaves the ledger
alone; a publication's receipt needs `ReceiptsAreNamed` for its target.  The
theorems about `ProcessingLedger` therefore hold of the running engine, with
any number of tasks.

**The bucket**, about which the store knows only what it is told.  `BucketInv`
says when an object may be there: while the upload is under way or was canceled
under way (`Sending`), or as long as the ledger owes the deletion of the version
it names (`NamedIsOwed`, `ObjectIsOwed`); and that a task on its way to put, probe
or delete still has the ledger's reason to do so (`TosWorkersKnow`).  Every operation
but the six that answer an upload or record a deletion is `Plain`: it touches neither.
`ObjectIsOwed` says nothing once a PUT was sent while an earlier one was on its way
(`sent_again`): the server refuses it only while the key is taken, so that it may
arrive after the deletion (`NoObjectOutlivesItsJob`, section 5).  What is left of the
theorem then is that no version the ledger names stays.  The two
hypotheses are those of `EngineRemote`.  Without credentials at a launch an
upload whose PUT is still on its way may be rejected and the job canceled as
"before upload".  A job handed to a local backend may leave its object behind;
`RemoteJobsLeaveNothing` is the statement for the jobs that were not, in an app
with any backends.  Once handed over a job does not go back (`Plain`).

**The ledger's file**, for every number of revisions, where a behaviour sees
stops or power losses but not both (`FilesAssumed`: `Faults` holds nothing but `{}`,
`{"stop"}` and `{"power"}`; section 5 has why).  `FilesLoaded` says that a load makes
the destination the best revision there was; `FilesDurable` that what was reported is
under the file's current name and under the one on the disk.

**The transcript** (`ProcessingLedgerProofs`, any recordings, drifts, turns,
diarizations and bounds; `MossAssumption`: the cuts' grid is one of whole
milliseconds, a diarization names somebody, and nobody is none of its speakers).
`TranscriptInv` says that the plan and the replies that were accepted are valid,
that the last answer is conserved in its reply, and that none of the codes that
would say otherwise was met.  What the code computes in loops is a recursive
function here, and what such a function keeps is derived from the least number of a
set (`Counting`, `LoopExists`).  The argument follows the code:

- the order that turns are taken in is one of all turns and keeps each speaker's own
  (`ChronologicalSorts`, `OrderKeeps`), and the groups of the segments, joined, are
  that order (`FlattenAppend`, `FlattenExtend`);
- taking one turn keeps what the segments promise (`Kept`): each is made of its turns
  (`MadeOf`), and a speaker's begins when his last has ended (`InSequence`).  A turn
  that is joined prolongs the last segment of its speaker without a hole
  (`CoalescedKeeps`), one that would overlap is given to nobody (`EmittedKeeps`);
- windows end where the next begins, on the grid, so that milliseconds rounded up
  and rounded down agree there (`WindowTimes`), and the segments of all windows are
  in one order (`AssembledIs`);
- the search answers nothing or an assignment of all slots of a component that the
  conflicts allow, wherever it prunes (`Good`, `VisitedGood`); slots of different
  components have no conflict, so that the columns found one by one agree
  (`SolveAgrees`).  Two segments of one window that overlap are of slots in conflict,
  so nobody is given two of them, nor is the unknown speaker (`AssignedApart`).

That the search is optimal, and not only sound, is `MappingIsBestAlways`.  `BestInv`
adds to `TranscriptInv` that the diarization's spans are spans, and that a failure is
set only by a step that ends the run.  What is new is the argument about the search:

- a total is a fold of the library, whose elements are taken in an arbitrary order;
  that the order does not matter, that a total splits, and that it grows with each
  part, is proved first (`SumExists`, `SumTakes`, `TotalSplit`, `TotalGrows`);
- the bound is no less than the score of any way to go on (`BoundHolds`), because a
  column that a full assignment uses is open to its slot; so what is pruned could at
  most have equalled the best;
- `Answers` is the contract of a visit: it keeps the best it was given, or finds one
  of the ways to go on that is higher; no way to go on is higher than what it
  returns, and none that ties with it comes before it.  A visit that tries the columns
  in order keeps it (`ColumnAnswers`), which needs that slots are assigned in their
  order (`InSlotOrder`): that is why the pruning may be `<=` and not `<`;
- a component's score does not depend on the others' columns (`ComponentsAddUp`).
  An assignment that equals the best in all equals it in each component, so the
  first slot where two differ decides the tie within its own component;
- the assignments the edges and domains allow are those under which nobody overlaps
  and everybody named has support (`AssignmentsAre`), so `MappingIsBest` speaks of the
  transcript and not of the search's own tables.

The theorem is about runs whose search ends: the limit on visits, at which the code
refuses the transcript, is not in the model.

**Credentials** (`CaptureProofs`, any set of destinations): how far a command
has come determines which of the record and the two handles are new.  **Pins**
(`CaptureProofs`, any paths, requests and cap): files are missing or whole,
and an eviction's list holds names of `audio-cache/` only.

**A recording on the phone** (`CaptureProofs`, any sessions, segments and faults).
`RecordingInv` says, as long as no second stop has destroyed a service under its
recorder, that there is one live recorder and the service is its (`OneRecorder`);
that the snapshot is about it and open until its loop ends (`SnapshotFollows`);
that what is written and not journaled is the one open segment
(`JournalFollows`); and that what the ingest copies is all that a recorder whose
loop is over has journaled (`CopyIsWhole`).  A second stop breaks `OneRecorder`:
the next session's snapshot may meet the last one's recorder (section 5).
`OnlyReadyIsRemoved` needs no such hypothesis.

**The desktop session** (`CaptureProofs`, any recordings, tracks, rolling limit,
skew, length of a process, fallible steps, faults and signals;
`CaptureAssumption`: at least one track, a positive roll).  What an envelope says
is what the snapshot said, so the argument is about the snapshot: everything up to
the end of any of its segments is in a segment or a gap (`Covered`), and nothing
recorded lies in a pause or a loss (`Quiet`); together, `Kept`.  That is not
inductive: a close adds a segment that begins at `segment_started_ns`, a resume a
gap that begins at `paused_at_ns`.  `CaptureInv` says of these two marks that the
recording is covered up to them and that no segment ends after them (`Recording`,
`Halted`).  There is one exception, and the proof needs it: a close that failed
after it took some of the segments leaves a snapshot with an end beyond the mark.
No worker has a segment of that interval open any more, so that no further close
can succeed (`Ready`); it is the session of `StopCanBeRetried` (section 5), which
loses nothing that is saved.

A command threads a record through its steps and any of them may fail, so the
invariant is stated of that record too: `Good(w, ...)` holds of the work in hand,
and has what a kill at that point would leave on the disk (`Stored`).  Every
operator of the module has a lemma that it keeps `Good`; the fallible step has one
that it does its work or nothing (`StepGood`).  Those on the close and the resume
also say what their success gives: every track closed at that instant, every
segment taken (`ClosedAt`); every track open from that instant.  The loops over
tracks, segments, signals and due rolls are recursive functions; that such a
function exists and keeps what its body keeps is derived from the least number of
a set (`Counting`, `LoopExists`).  The sort of the gaps and the merge of
discontinuities lose no instant and mark none as paused (`Refill`).

**Slots** (`WorkersProofs`, any workers, slots, runs, kills and power losses):
whoever works on a slot holds its lease (`Leased`), what is on the disk at each
step (`Progress`), and a model that has a name, or may get it back after a power
loss, has a synced journal (`Registered`), or else its journal's removal waits for
its sync as well.  Only from there, and only by a power loss, does a copy become
`Stuck`: no journal registers it, and nobody touches it again.

**A worker's call** (`WorkersProofs`, any size of request, pipe and limit): what
a reader got and what the pipe still holds is what the child wrote (`Counted`),
and only a reader that saw the end of its stream, of a child that was reaped
with a good status, lets a call succeed (`CallInv`).  **A worker's files**, for
any number of changes to them: `FilesInv` says of each script how far it has
come, that a file it has verified is held by a handle, and that what was used
was read through one.  That every script checks before it reads is a lemma on
the scripts themselves (`ScriptsAreWellFormed`).

**The model packs** (`WorkersProofs`, any catalog, operations and faults).  The
hypothesis `WellFormed` says what a catalog is, with no pack empty; the module
assumes it of its constants and TLC evaluates it.  A scan reads a pack's files one
by one, so its verdict is about the moment of the last only if nobody writes
meanwhile: whoever writes holds the one lease (`LeaseOK`, `DiskStep`), a verdict in
the pipeline's cache is forgotten when its file is written (`DiskOK`), and a scan that
is still good has passed only files that are good still (`ScannedIsGood`).  The
reader, which takes no lease, serves neither MOSS nor the pipeline, and of its answer
nothing is claimed.  `OnlyWholeIsPublished` needs that what is about to be published
was found whole (`StagedIsGood`); no run checks its property, which that module states.

**Speech and summaries** (`WorkersProofs`, any answers, diarizations,
transcripts and limits that `Text!WellFormed` admits).  That hypothesis says what
reaches the code: rates, durations and chunks are positive
(`src/desktop/local-qwen-protocol/src/lib.rs:94`), a range that is cut holds two of
the smallest (`src/desktop/qwen-worker/src/lib.rs:583`), the ranges Qwen answers for
follow each other within the recording (`validate_against`), a diarization is a
sequence of intervals, and a transcript has a line and no more chunks than fifteen
halvings reduce to one (`Reducible`, 32768: of 2 MiB in chunks of 128 KiB there are
a few dozen).  TLC evaluates it of the constants of `Ledger`
(`MCText`).  A computation is
one step, so the invariant only adds that a request is one of those given
(`Given`); the work is in what the loops, recursive functions here, compute:

- *Ranges.*  The resampler's loop has a closed form (`ResampledIs`): a sample is due
  between the frame it falls on and the one before.  Silences only add boundaries
  that are a smallest range apart and as far from the end (`Marks`, `ScanKeeps`); a
  quiet split leaves as much on both sides and no more than a largest before
  (`QuietIs`).  So what is cut of a piece is a chain from its start to its end
  (`Chain`, `CutIs`: every split goes forward, so the loop ends), the chains of all
  pieces join (`ChainsJoin`, `RangesAre`), and there are too many only if the audio
  is long enough for it.  A smallest range lasts a tick or more, so no recognized
  range is empty but one beyond the declared end (`TicksGrow`, `RecognizedIsValid`).
- *Segments of whisper.*  At each segment `Take` keeps that what is put out, followed
  by the text that waits, is what was said so far, in order (`TakeMore`).  So an
  answer that is valid tells every place once (`AdaptedTells`); a speaker changes no
  place (`MergedTells`).
- *Words of Qwen.*  None of the passes that spread instants, assign, bridge and
  punctuate adds or drops a word (`MergedWords`), and the places of a range's words
  are found in order and in no other range (`WhereIs`).  Grouped by speaker they are
  told once, in order (`GroupedTells`), however the passes moved their times: what
  they moved badly is not canonical, and the range stays whole (`CanonicalIs`,
  `UnresolvedIs`).  Ranges that follow each other then have segments that do, so no
  valid answer is refused (`QwenValid`), and all words are told (`QwenTells`).
- *Summaries.*  The chunks of a text, joined, are its lines cut into pieces that
  follow each other (`PiecesAre`, `ChunkTextReaches`).  If a prompt takes two
  documents, a round leaves at most half of the chunks, rounded up
  (`ChunkTextHalves`, `ReducedIs`), and the documents of a round, joined, are those
  of the round before (`SourcesFlatten`): `SummarizedIs`.

**The inbox** (`RecordingProofs`, any recordings, contents and reviews).
`InboxInv` is a statement about each recording by itself (`Sound`) and one about
all of them: a recording has one content and a content one recording (`Named`),
counting the envelope, a temporary that may come back, the importer's copy and
the capture.  The importer holds an envelope while others write the package, so
`Sound` says what they cannot have done: while an import is on its way to make
an envelope ready nobody else does (`Alone`), and its audio is in place before
(`Whole`).  Who may not be trusted is a discard: cut short, it removes the
envelope but not a temporary that a killed persist left (`.recording.json.*.tmp`
is only ever promoted, `ingest/inbox.rs:829`), and the package comes back as
what it was before.  That needs two mishaps (section 5 has the trace), so `Sound`
asks for the audio only while nobody has begun a discard (`Protected`), and
`ReadyHasAudio` itself stays with the run.  The four theorems have no bound.

**The macOS tracks** (`RecordingProofs`, any clock, tolerance, timeout and roll, any
number of faults at any place).  The stream is a record that a call or a callback
threads through its steps, so the lemmas are about the operators: each says what it
keeps of the record it is given (`Conserves`, `Steady`, `Careful`), in the terms of
what a track holds (`Audio`: returned, finished, drafted or open), and they are
composed in the order of the code.  `HolesAreReported` is not inductive, since it
does not say when the next callback will be found to jump.  `Accounted` adds that
the expected clock of a track is the end of what it holds, unless a loss was
reported at that clock or later: a buffer that could not be stored moves the
expected clock and reports a loss.  So a buffer that comes within the tolerance
leaves no hole of more than the tolerance but before such a loss, and one that does
not reports a gap (`NewAudio`).  A call of the session only moves audio from the
tracks to the list it returns, or marks the stream spoiled (`CloseKeeps`).
`StallIsReported` needs `Awaited`: while the session records, the watchdog that has
not given up either has its next look before a timeout has passed since the last
sign of life, or has restarted the tap by then and looks before a timeout has passed
since the restart.  `PollAwaits` shows that a poll which does not report keeps it
so; a resume starts the watchdog anew, and `SourceLost` is what it does when it
gives up.  That a session polls in every unit of time before the clock goes on is
the guard of `Elapse`.

**MOSS runs** (`MossRunProofs`, any runs, processes, windows and answers).
`MossInv` rests on one fact: a run past its begin, or its task, holds the lease,
and nobody else then (`OneLease`).  So a step of the holder leaves nothing to show
of the others (`HolderKeeps`), and `StageKnows` may say of the holder what no
other run can take from it: that the intent is the one it read, that the
response it asks a model for has no file, that the copy is made before a name
goes.  `PrepareKnows` says how far the files of a preparation have come, `Settled`
that the ledger's evidence is on disk.  Steps that leave the evidence alone are
`PlainStep`s and need no argument of their own.  `Calls` collects the store's
operations a run, a retry or a cancel uses; none but `CompleteMossPreparation`
makes a plan.  `AnswersAreKept` follows from `MossInv` by a look at the five
actions that touch a response or an intent.

The lease says nothing about the registry, which a cancel goes by.  `Forgotten`
says when a run's entry is gone, `Registered` that it is there as long as the run
is at work or its task holds the lease.  So the signal sets the flag of whoever
may start a worker (`Silenced`).  Who begins later finds a ledger in which the job
has ended, and no operation revives it (`TerminalStays`): such a run never sets
out for a worker (`SilentStep`).  `RunsAreAStore` is a refinement as
`EngineIsAStore` is: the theorems about `ProcessingLedger` hold of the runs.

**The archive** (`ArchivePublicationProofs`, any devices, recordings and owners, any
number of generations, operations, retries and lost objects, any keys that are
taken; `ArchiveAssumption`: every recording has an owner among the devices).
`AudioIsAccountedFor` is not inductive: a commit that names another key for a
recording would forget the object of its former entry, and an attempt record is
cleared by a device that only knows what the head said earlier.  `ArchiveInv` adds

- what a device's operation holds against the present head: a publication's next
  manifest takes nothing from the head it fetched (`PreparedFrom`), its attempt is
  recorded or it reuses the head's key (`AttemptFits`), and once committed or found
  committed the head has it until a delete (`InTheHead`);
- `AttemptReplacesNothing`: where an attempt is recorded that differs from the key
  the head names, that key's object is gone;
- `AudioIsKnown`, which is stronger than the property: a staged delete accounts for
  an object only once it is pushed (`Pushed`), since a ticket that conflicts is
  dropped.  A delete that was pushed meets a head with nothing to delete and cannot
  conflict any more (`PushedIsDone`);
- `TipIsSound`: what was deleted has no note.

Where the head cannot be read (section 5) no operation fetches any more, so what is
said of keys in the head is said of a readable one.  Each action has a lemma.  A
step of one device leaves the operations of the others sound (`OthersStay`) if it
grows the branch, keeps its tombstones and leaves `Undisturbed` what other devices
publish; a step that changes one recording's objects or records is an `OwnStep`; a
step that does neither is `Quiet`.  `CommitsKeep` needs `PreparedFrom` for a
publication, and for an edit that it did not conflict with the head it is pushed to.

**Model-checked only**: liveness, which is out of the prover's reach, and
`ReadyHasAudio`, which is true of one mishap only.  Every other invariant that a
run checks is proved.

## 5. Where the code and its documents disagree

One finding has a run of its own.

`Mac_CloseIsAccepted`: `close_native` (`capture/session.rs:838`) accepts a
segment only if its clocks equal the session's to the nanosecond, while
`MacNativeStream::close_segment` (`capture/macos.rs:559`) ignores the clock it
is given and returns the bounds of the callbacks that arrived.  Without any
fault a roll, a pause or a stop on macOS is refused with `invalid_segment`
(`docs/capture/PLAN.md:751`: "Pause closes the current segment").

The following properties are refuted too.  They stay in their modules, each with
the sentence of a document or comment it states or the hazard it is about, and no
run expects them.  To see one, copy the cfg named here and put the property in
place of the others as an `INVARIANT`, or a `PROPERTY` when it is a formula on
steps or with `~>`.  A property of an instantiated module needs a
line in the MC module, such as `LedgerIsReadable == Files!LedgerIsReadable`.

| Property (module, cfg) | What happens |
|---|---|
| `CancelIsPersistable` (`ProcessingLedger`, `Ledger`) | canceling a reprocess or a cloud backup in publication is refused by the validator |
| `LedgerIsReadable` (`LedgerFile`, `Ledger`) | a stop in the first persist leaves files that no later load gets past: the recording is blocked for ever |
| `ReportedIsDurable` (`LedgerFile`, `Ledger` with `Faults = {{"stop", "power"}}`) | a temporary promoted by a load was never synced; a stop and then a power failure lose a reported revision |
| `LocalAfterReconciliation` (`ProcessingEngine`, `Engine`) | choosing a local backend while an upload is in flight leaves an object no ledger names |
| `CanceledBeforeUploadIsTrue` (`ProcessingEngine`, `EngineRemote` with `CredentialsRemovable = TRUE`) | a locally rejected second attempt settles a canceled upload without probing for the first |
| `NoObjectOutlivesItsJob` (`ProcessingEngine`, `EngineRemote`) | a stop abandons a PUT; after one absent HEAD the upload is sent again (`tos.rs:316`), recorded, canceled and deleted; then the first PUT arrives at the free key |
| `AcceptedJobIsRecordable` (`ProcessingEngine`, `Engine`) | a duplicate process call makes a live submit ambiguous; its answer is refused, and no command resolves it |
| `ConflictIsRecoverable` (`ProcessingEngine`, `Engine`) | a conflict reported after another run verified the last target cannot be retried |
| `PackageOutlivesUpload` (`ProcessingEngine`, `Engine` with three workers) | an upload is under way; a second task selects Whisper, a third cancels (before upload, so nothing to clean up) and discards: the package goes under the upload.  It holds with two tasks and on the remote route |
| `NoUntrackedArchive` (`MossRun`, `Moss`) | `prepare_local` writes the manifest before steps that may fail; the failed target becomes Pending again on a retry, and `cancel`'s fence (`processing/mod.rs:2236`) lets a cancel through: canceled, with its archive on disk |
| `AdoptionIsPossible` (`RecordingInbox`, `Inbox`) | one package whose envelope does not load (a capture in progress or not finalized, an import or a removal cut short) fails the listing of all: no import and no adoption at launch (`ingest/inbox.rs:409`) |
| `ReadyHasAudio` (`RecordingInbox`, `Inbox` with `MaxMishaps = 2`) | the last persist of an import is killed and leaves its temporary; later the recording's discard is cut short after the envelope: the temporary is promoted, a new import of the file finds the audio in place and goes on to make the package ready, the discard's second attempt removes it, and the import writes an envelope that says Ready, alone |
| `TracksAreAligned` (`CaptureSession`, `Capture`) | a close that fails between two tracks is completed by the next signal, for one track only |
| `PausedIsSilent` (`CaptureSession`, `Capture`) | a resume that fails on the second track leaves the first one recording |
| `StopCanBeRetried` (`CaptureSession`, `Capture`) | `close_native` takes the workers' segments before it verifies and persists them; after a failure there every further stop fails, and `start` answers `capture_already_active` (`tray.rs:90` tells the user to retry) |
| `LaunchIsPossible` (`CaptureSession`, `Capture`) | two starts that failed, or a snapshot full of warnings, end every later launch of capture |
| `GapsSpareThePause` (`MacTracks`, `Mac`) | the watchdog's reset does not clear the last callback, so the first poll after a long pause restarts the tap and reports a gap over the pause |
| `NextSegmentOpens` (`MacTracks`, `Mac`) | a failed finalization leaves the sequence's file, and the track can never open its next segment |
| `RepairedIsExposed` (`MobileCapture`, `Mobile`) | `recoverInterrupted` repairs the open segment's header but appends no event for it: a session killed in its first segment can neither be finalized nor make way for another |
| `StopTwiceKeepsAll` (`MobileCapture`, `Mobile` without its constraint) | a second stop destroys the service under its recorder; the ingest runs before the last segment is closed |
| `DeletedStaysDeleted` (`ArchivePublication`, `Archive`) | a publication commits an entry although the head already holds the recording's tombstone: the guard compares the tombstones the device fetched earlier |
| `HeadIsReadable` (`ArchivePublication`, `Archive`) | a push takes along local entries that the remote lacks but not their notes; a head with an entry without a note is refused by every later `fetch_github_head`, on every device (`processing/archive.rs:1893`, `:2866`) |
| `OverlayIsBound` (`ArchiveSync`, `Mobile`) | the generation is compared before the archive's lock is taken (`sync.rs:256`): an overlay of the former destination is extracted after a change |
| `LocalEntryIsKept` (`ArchiveSync`, `Mobile`) | a pull lays the repository's manifest over local entries that were not committed when it was fetched |
| `StatusIsCurrent` (`ArchiveSync`, `Mobile`) | "syncing" stays shown after the credentials were revoked or replaced |
| `NothingIsLeftOver` (`AudioCache`, `Mobile`) | temporaries of pins stay under `data/` after a kill |
| `InstallIsResumable` (`LocalModels`, `LocalModels`) | an interrupted first write leaves an empty partial file, on which every retry of a plain pack fails with `model_install_failed` (the pipeline's own download knows this, `pipeline/download.rs:197`; `docs/local-models/PLAN.md` promises resumable installs) |
| `NoCopyIsUnregistered` (`SnapshotSlots`, `Workers`) | a cleaner is killed between the unlink of the model and its sync; the next one finds it absent and unlinks the journal (`scratch.rs:344`); the power goes before the sync: the model is back, its journal is not, and every cleanup refuses it |
| `SlotsAreRecoverable` (`SnapshotSlots`, `Workers`) | a torn binding whose model is gone makes `Slot::cleanup` fail for ever, so that no worker gets past that slot (`src/desktop/moss-worker/src/scratch.rs:338`) |
| `FreeSlotIsGiven` (`SnapshotSlots` alone, with the slots' constants of `Workers.cfg`) | a worker that starts while the app or another worker reclaims fails with `snapshot_busy` although all slots are free |
| `OneShotEnds` (`WorkerCall`, `Workers`) | `processing/local_worker.rs` does not time its write: a worker that hangs before it reads a request larger than the pipe holds the call for ever |
| `NobodyElseIsHeard` (`SpeechText`, `Ledger`) | a word heard equally from two speakers is bridged to a third (`src/desktop/local-whisper-protocol/src/lib.rs:408`) |

Seen while modelling, without a property of their own:

- `cancel` (`processing/mod.rs:2238`) says that a job is not reported canceled
  once a target was Started; the code fences `MossLocal` jobs only.
- `local_worker.rs` clears the environment and does not pass
  `ECHOWALL_WORKER_PARENT_PID` (only `moss_worker.rs:305` does), so its workers
  outlive a killed app.
- Plain installers have no read timeout.  A kill between the pipeline's link and
  unlink leaves a partial file on which SpeakerKit's exact-tree check fails until
  the pipeline is installed or removed again.  Status reads without the lease
  may store a stale verdict.
- Android: a session stopped before any audio has no segment and blocks every
  later start; a torn journal line makes the journal unreadable; a toggle in the
  wrong state throws `InvalidToggle` and ends the process.
- A kill during a pull's extraction may leave a torn manifest until the next
  pull.  Cached audio is keyed by path and not by bucket.  An unpin during a
  pin's download is undone when the download completes.
- Whisper text without a duration that no later segment follows is lost, and
  the answer refused.  A recording with more than 1000 pauses that are long enough
  to cut at is refused with `inference_limit` (`src/desktop/qwen-worker/src/lib.rs:623`),
  although one of five hours is admitted and pieces of half a second are.  Qwen audio that decodes to a minimal chunk more than its
  declared duration gives a zero-length segment, and the transcription fails.
  Interpolation does not move punctuation, so the order may break; the words
  then stay unresolved.  Qwen's merge does not compare the diarization's
  recording and audio identity; only `merge_diarization` does.

## 6. Not modelled

| Part | Why |
|---|---|
| HTTP signing, wire formats, validation of payloads, error texts, UI | no state of the program depends on their detail; outcomes are choices |
| inference, decoding, numerical code | its answers are enumerated |
| iOS and the desktop share of mobile ingest beyond Android; adoption of shared files | a native queue with a journal of its own, which needs a module beside `MobileCapture` |
| retention sweep over all recordings, `StepLimit`, a launch over several recordings | `ProcessingEngine` has one recording; the sweep's own step (`CheckpointSourceTracksDeleted`, `prune_source_tracks`) is in `ProcessingLedger` and `RecordingInbox` |
| attachments, speaker colours, rollups and topic views of the archive; a change of its destination while publishing | further fields of the same edit; derived files |
| the loopback server's headers, ranges and path checks | no state |
| `processing/quality_matrix.rs` and evaluation | offline measurement |
| `src/desktop/diarization-worker` | Swift around a vendored numerical library; its answers are the tracks given to `MossTranscript` and `SpeechText` |
| the limits on segments, speakers and search visits of the mapping | each refuses the recording whole; the instances stay below them |
| MOSS timing of version 1, the legacy chunk policy, `transcript_json` | superseded formats |
| legacy watcher and deliveries (`src/transcribe.py`, `src/volc_lark.py`, `src/deliveries/`) | a script that one process runs by itself |
| secrets, features, preference, tray | plain I/O; the archive's credentials are in `ArchiveSync`, the processing credentials a Boolean in `ProcessingEngine` |

Abstractions to know of.  A restored file of the same inode (ABA) is not in
`VerifiedWorker`; foreign files in a package are seen at listing only; inference
failures have two representatives.  The eviction's order is any order.  An
operation of the inbox is cut short at most once in a behaviour of the run
`Inbox`; the theorems have no such bound.  A file rewritten in place is told only by
its fingerprint in `VerifiedWorker`.  The app's own death excuses a worker's call
from ending (`CallsEnd`).

What could come next: the iOS journal; the retention sweep over two recordings beside a reprocess.
