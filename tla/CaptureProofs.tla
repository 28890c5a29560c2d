---------------------------- MODULE CaptureProofs -----------------------------
(* Proofs about what records, keeps and plays audio, for every value of the    *)
(* constants: MCMobile's parts (the cache of audio, the credentials of the     *)
(* archive, a recording on the phone) and, after them, the desktop session.    *)
EXTENDS MCMobile, CaptureSession, FiniteSetTheorems, WellFoundedInduction, TLAPS


------------------------
(* The cache: what was pinned stays playable until it is unpinned. *)

File == {None, "whole"}

\* Files are missing or whole; a pin request knows its path; an eviction holds
\* names of audio-cache/ only, so that it can take nothing from data/.
FilesOK ==
    /\ kept \in [Audio -> File]
    /\ cached \in [Audio -> File]

PinsOK ==
    /\ pin \in [Requests -> [at : {"idle", "move", "download"}, path : Audio \cup {None}]]
    /\ \A r \in Requests : pin[r].at # "idle" => pin[r].path \in Audio

ListsOK ==
    /\ DOMAIN listed = Audio
    /\ \A a \in Audio : \A name \in listed[a].names : name.root = "cache"

CacheInv ==
    /\ FilesOK
    /\ PinsOK
    /\ ListsOK
    /\ promised \subseteq Audio
    /\ Cache!PinnedIsPlayable

\* evict_lru lists only audio-cache/.
LEMMA WalkedIsCache == \A name \in Cache!Walked : name.root = "cache"
  BY DEF Cache!Walked, Cache!Names

\* Removing what a list of audio-cache/ names leaves data/ alone.
LEMMA WithoutKeepsData ==
    ASSUME FilesOK, NEW name, name.root = "cache"
    PROVE  /\ Cache!Without("data", kept, name) = kept
           /\ Cache!Without("cache", cached, name) \in [Audio -> File]
  BY DEF FilesOK, File, Cache!Without

LEMMA CacheInitInv == Cache!Init => CacheInv
  BY DEF Cache!Init, CacheInv, FilesOK, File, PinsOK, ListsOK, Cache!PinnedIsPlayable,
         Cache!NoRequest, Cache!NoList

LEMMA CacheStepInv == CacheInv /\ [Cache!Next]_(Cache!vars) => CacheInv'
<1> SUFFICES ASSUME CacheInv, [Cache!Next]_(Cache!vars) PROVE CacheInv'
  OBVIOUS
<1> USE DEF CacheInv, FilesOK, File, PinsOK, ListsOK, Cache!PinnedIsPlayable
<1>1. ASSUME NEW r \in Requests, NEW a \in Audio, Cache!Pin(r, a) PROVE CacheInv'
  BY <1>1, SMTT(30) DEF Cache!Pin, Cache!Begins, Cache!Counts, Cache!files
<1>2. ASSUME NEW r \in Requests, Cache!Move(r) PROVE CacheInv'
  BY <1>2, SMTT(30) DEF Cache!Move, Cache!Answer, Cache!NoRequest, Cache!files
<1>3. ASSUME NEW r \in Requests, Cache!Download(r) PROVE CacheInv'
  BY <1>3, SMTT(30) DEF Cache!Download, Cache!Answer, Cache!NoRequest
<1>4. ASSUME NEW a \in Audio, Cache!Unpin(a) PROVE CacheInv'
  BY <1>4 DEF Cache!Unpin, Cache!Counts
<1>5. ASSUME NEW a \in Audio, Cache!Serve(a) \/ Cache!BeginFill(a) \/ Cache!EndFill(a) PROVE CacheInv'
  BY <1>5 DEF Cache!Serve, Cache!BeginFill, Cache!EndFill, Cache!files
<1>6. ASSUME NEW a \in Audio, Cache!Walk(a) PROVE CacheInv'
  BY <1>6, WalkedIsCache DEF Cache!Walk, Cache!files
<1>7. ASSUME NEW a \in Audio, Cache!Evict(a) PROVE CacheInv'
  <2>1. PICK name \in listed[a].names :
          /\ listed' = [listed EXCEPT ![a].names = @ \ {name},
                                      ![a].total = IF Cache!Exists(name) THEN @ - 1 ELSE @]
          /\ cached' = Cache!Without("cache", cached, name) /\ kept' = Cache!Without("data", kept, name)
    BY <1>7 DEF Cache!Evict
  <2>2. kept' = kept /\ cached' \in [Audio -> File]
    BY <2>1, WithoutKeepsData
  <2>3. ListsOK'
    BY <2>1
  <2>4. QED
    BY <1>7, <2>2, <2>3 DEF Cache!Evict
<1>8. ASSUME NEW a \in Audio, Cache!EndEviction(a) PROVE CacheInv'
  BY <1>8 DEF Cache!EndEviction, Cache!NoList, Cache!files
<1>9. CASE Cache!Kill
  BY <1>9 DEF Cache!Kill, Cache!NoRequest, Cache!NoList, Cache!files
<1>10. CASE UNCHANGED Cache!vars
  BY <1>10 DEF Cache!vars, Cache!files
<1>11. QED
  BY <1>1, <1>2, <1>3, <1>4, <1>5, <1>6, <1>7, <1>8, <1>9, <1>10 DEF Cache!Next

\* docs/mobile/PLAN.md:225, for every set of paths and requests and every cap:
\* what was pinned is whole and stays until it is unpinned.
THEOREM PinnedStays == Cache!Spec => []PinnedIsPlayable
  <1>1. CacheInv => PinnedIsPlayable
    BY DEF CacheInv, PinnedIsPlayable
  <1>2. QED
    BY CacheInitInv, CacheStepInv, <1>1, PTL DEF Cache!Spec

------------------------
(* The credentials: the handles in memory are those of one record of the *)
(* secure store.                                                               *)

Values == Destinations \cup {None}

\* The step that a command has reached, if it is inside its transaction.
CommandOK ==
    /\ command \in [at : 0 .. 6, to : Values]
    /\ command.at = 0 => command = Sync!NoCommand

\* How far a command has brought the store and the handles, step by step; a
\* command that stops early leaves them either all as they were or, after a
\* revocation, all gone.
Saving ==
    command.at > 2 /\ command.to # None =>
        /\ stored = command.to
        /\ command.at > 4 => gh = command.to
        /\ command.at > 5 => bucket = command.to
        /\ command.at <= 4 => gh = bucket

Deleting ==
    command.at > 1 /\ command.to = None =>
        /\ command.at > 3 => gh = None
        /\ command.at > 4 => bucket = None
        /\ command.at <= 3 => gh = bucket /\ (gh # None => gh = stored)

Resting ==
    command.at <= 1 \/ (command.at = 2 /\ command.to # None) =>
        gh = bucket /\ (gh # None => gh = stored)

SyncInv ==
    /\ stored \in Values /\ gh \in Values /\ bucket \in Values
    /\ CommandOK /\ Saving /\ Deleting /\ Resting

LEMMA SyncInitInv == Sync!Init => SyncInv
  BY DEF Sync!Init, SyncInv, Values, CommandOK, Saving, Deleting, Resting, Sync!NoCommand

LEMMA DoesAre ==
    ASSUME CommandOK, NEW step, Sync!Does(step)
    PROVE  /\ command.at \in 2 .. 6
           /\ command.to = None =>
                step = (CASE command.at = 2 -> "count" [] command.at = 3 -> "github"
                          [] command.at = 4 -> "bucket" [] command.at = 5 -> "show"
                          [] OTHER -> "erase")
           /\ command.to # None =>
                step = (CASE command.at = 2 -> "store" [] command.at = 3 -> "count"
                          [] command.at = 4 -> "github" [] command.at = 5 -> "bucket"
                          [] OTHER -> "show")
  BY DEF CommandOK, Sync!Does, Sync!Steps

LEMMA ProceedsIs ==
    ASSUME CommandOK, command.at \in 2 .. 6, Sync!Proceeds
    PROVE  command' = IF command.at = 6 THEN Sync!NoCommand ELSE [command EXCEPT !.at = @ + 1]
  BY DEF CommandOK, Sync!Proceeds, Sync!Steps

LEMMA SyncStoreInv == SyncInv /\ Sync!Store => SyncInv'
<1> SUFFICES ASSUME SyncInv, Sync!Store PROVE SyncInv'
  OBVIOUS
<1>1. /\ command.at \in 2 .. 6
      /\ command.to = None => command.at = 6
      /\ command.to # None => command.at = 2
  BY DoesAre DEF SyncInv, Sync!Store
<1>2. CASE stored' = command.to /\ Sync!Proceeds
  <2>1. command' = IF command.at = 6 THEN Sync!NoCommand ELSE [command EXCEPT !.at = @ + 1]
    BY <1>1, <1>2, ProceedsIs DEF SyncInv
  <2>2. QED
    BY <1>1, <1>2, <2>1
       DEF SyncInv, Sync!Store, Values, CommandOK, Saving, Deleting, Resting,
           Sync!NoCommand, Sync!handles
<1>3. CASE UNCHANGED stored /\ command' = Sync!NoCommand
  BY <1>1, <1>3
     DEF SyncInv, Sync!Store, Values, CommandOK, Saving, Deleting, Resting,
         Sync!NoCommand, Sync!handles
<1>4. QED
  BY <1>2, <1>3 DEF Sync!Store

LEMMA SyncInstallInv == SyncInv /\ Sync!Install => SyncInv'
<1> SUFFICES ASSUME SyncInv, Sync!Install PROVE SyncInv'
  OBVIOUS
<1> USE DEF SyncInv, Values, CommandOK, Saving, Deleting, Resting
<1>1. command.at \in 2 .. 6
  BY DoesAre DEF Sync!Install
<1>2. command' = IF command.at = 6 THEN Sync!NoCommand ELSE [command EXCEPT !.at = @ + 1]
  BY <1>1, ProceedsIs DEF Sync!Install
<1>3. CASE Sync!Does("count") /\ UNCHANGED <<gh, bucket, state>>
  <2>1. command.at = IF command.to = None THEN 2 ELSE 3
    BY <1>3, DoesAre
  <2>2. QED
    BY <1>2, <1>3, <2>1 DEF Sync!Install, Sync!NoCommand
<1>4. CASE Sync!Does("github") /\ gh' = command.to /\ UNCHANGED <<generation, bucket, state>>
  <2>1. command.at = IF command.to = None THEN 3 ELSE 4
    BY <1>4, DoesAre
  <2>2. QED
    BY <1>2, <1>4, <2>1 DEF Sync!Install, Sync!NoCommand
<1>5. CASE Sync!Does("bucket") /\ bucket' = command.to /\ UNCHANGED <<generation, gh, state>>
  <2>1. command.at = IF command.to = None THEN 4 ELSE 5
    BY <1>5, DoesAre
  <2>2. QED
    BY <1>2, <1>5, <2>1 DEF Sync!Install, Sync!NoCommand
<1>6. CASE Sync!Does("show") /\ UNCHANGED <<generation, gh, bucket>>
  <2>1. command.at = IF command.to = None THEN 5 ELSE 6
    BY <1>6, DoesAre
  <2>2. QED
    BY <1>2, <1>6, <2>1 DEF Sync!Install, Sync!NoCommand
<1>7. QED
  BY <1>3, <1>4, <1>5, <1>6 DEF Sync!Install

LEMMA SyncStepInv == SyncInv /\ [Sync!Next]_(Sync!vars) => SyncInv'
<1> SUFFICES ASSUME SyncInv, [Sync!Next]_(Sync!vars) PROVE SyncInv'
  OBVIOUS
<1> USE DEF SyncInv, Values, CommandOK, Saving, Deleting, Resting
<1>1. ASSUME NEW to \in Values, Sync!Ask(to) PROVE SyncInv'
  BY <1>1 DEF Sync!Ask, Sync!NoCommand, Sync!handles
<1>2. CASE Sync!BeginTransaction
  BY <1>2 DEF Sync!BeginTransaction, Sync!NoCommand, Sync!handles
<1>3. CASE Sync!Refresh \/ Sync!PullStep
  BY <1>3
     DEF Sync!Refresh, Sync!PullStep, Sync!ReadDestination, Sync!ShowSyncing, Sync!Fetch,
         Sync!CheckGeneration, Sync!LockArchive,
              Sync!Extract, Sync!EndPull, Sync!Report, Sync!Finish, Sync!Pulls, Sync!handles
<1>4. CASE Sync!BeginPublication \/ Sync!EndPublication \/ Sync!Commit
  BY <1>4 DEF Sync!BeginPublication, Sync!EndPublication, Sync!Commit, Sync!handles
<1>5. CASE Sync!Kill
  BY <1>5 DEF Sync!Kill, Sync!NoCommand
<1>6. CASE UNCHANGED Sync!vars
  BY <1>6 DEF Sync!vars, Sync!handles, Sync!archive, Sync!bounds
<1>7. QED
  BY <1>1, <1>2, <1>3, <1>4, <1>5, <1>6, SyncStoreInv, SyncInstallInv DEF Sync!Next

\* docs/capture/PHASE-0-ADR.md:234, for every set of destinations: between two
\* commands, whichever of their steps failed or was the last before the process
\* ended, the handles in memory are of one record, the stored one.
THEOREM HandlesAreOneRecord == Sync!Spec => []Sync!HandlesMatchRecord
  <1>1. SyncInv => Sync!HandlesMatchRecord
    BY DEF SyncInv, Resting, CommandOK, Sync!NoCommand, Sync!HandlesMatchRecord
  <1>2. QED
    BY SyncInitInv, SyncStepInv, <1>1, PTL DEF Sync!Spec

------------------------
(* A recording: what was stopped is saved whole, as long as no second stop has *)
(* destroyed the service under its recorder.                                   *)

SnapshotStates == {"IDLE", "RECORDING", "PAUSED", "STOPPED", "INTERRUPTED"}
RecorderSteps ==
    {"unused", "loop", "full", "roll", "last", "checkpoint", "transition", "finally", "done"}
NativeSteps == {"persist", "copy", "ready", "remove", "snapshot"}

SnapshotType ==
    snapshot \in [session : Sessions \cup {NoSession}, state : SnapshotStates, index : Nat]

SegmentsType == journal \in [Sessions -> SUBSET Nat] /\ written \in [Sessions -> SUBSET Nat]

ServiceType ==
    /\ active \in BOOLEAN /\ abandoned \in BOOLEAN
    /\ service \in Sessions \cup {NoSession}
    /\ flags \in [Sessions -> [running : BOOLEAN, paused : BOOLEAN, stopping : BOOLEAN]]
    /\ intent \in [action : {"none", "START", "PAUSE", "RESUME", "STOP"},
                   session : Sessions \cup {NoSession}]

RecorderType == recorder \in [Sessions -> [pc : RecorderSteps, next : Nat, open : BOOLEAN]]

PackageType ==
    package \in [Sessions -> [state : {"none", "Finalizing", "Ready"}, audio : SUBSET Nat,
                             from : SnapshotStates]]

FinalizerType ==
    finalizer \in [pc : NativeSteps \cup {"idle"}, session : Sessions \cup {NoSession},
                  segments : SUBSET Nat, from : SnapshotStates]

RecordingType ==
    /\ SnapshotType /\ SegmentsType /\ ServiceType /\ RecorderType
    /\ PackageType /\ FinalizerType

\* The loop is over, and so is all the recorder journals and writes.
Over(s) == recorder[s].pc \in {"finally", "done"}

\* One service, one live recorder: the next session waits for the last one's end.
OneRecorder ==
    /\ \A s \in Sessions : Alive(s) => service = s
    /\ service # NoSession => Alive(service)
    /\ active <=> service # NoSession
    /\ \A s \in Sessions : flags[s].running => Alive(s)
    /\ intent.action = "START" =>
          /\ intent.session \in Sessions
          /\ ~active /\ recorder[intent.session].pc = "unused" /\ snapshot.state = "IDLE"

\* The snapshot is about the session that was begun last, and open as long as
\* its loop runs.
SnapshotFollows ==
    /\ snapshot.state # "IDLE" => snapshot.session \in Sessions
    /\ \A s \in Sessions :
         /\ Alive(s) /\ ~Over(s) => snapshot.session = s /\ Open(snapshot.state)
         /\ snapshot.session = s => recorder[s].pc # "unused"
         /\ snapshot.session = s /\ snapshot.state = "STOPPED" =>
               Over(s) /\ journal[s] = written[s]

\* What is written and not journaled is the one segment that is open.
JournalFollows ==
    \A s \in Sessions :
       /\ recorder[s].pc = "unused" =>
             ~recorder[s].open /\ written[s] = journal[s]
       /\ recorder[s].pc = "loop" =>
             written[s] = journal[s] \cup (IF recorder[s].open THEN {recorder[s].next} ELSE {})
       /\ recorder[s].pc \in {"full", "last"} => written[s] = journal[s] \cup {recorder[s].next}
       /\ recorder[s].pc \in {"roll", "checkpoint", "transition"} => written[s] = journal[s]

\* Segments on their way into a package, or in one, are all that was journaled,
\* and all that was written if the session was stopped.
Covers(s, segments, from) ==
    /\ Over(s) /\ segments = journal[s]
    /\ from = "STOPPED" => journal[s] = written[s]

CopyIsWhole ==
    /\ finalizer.pc # "idle" => finalizer.session \in Sessions
    /\ finalizer.pc \in {"persist", "copy", "ready"} =>
          /\ Covers(finalizer.session, finalizer.segments, finalizer.from)
          /\ package[finalizer.session].state # "Ready"
    /\ finalizer.pc = "ready" => package[finalizer.session].audio = finalizer.segments
    /\ \A s \in Sessions :
          package[s].state = "Ready" => Covers(s, package[s].audio, package[s].from)

\* This holds after a second stop too.
OnlyReadyIsRemoved ==
    /\ finalizer.pc # "idle" => finalizer.session \in Sessions
    /\ finalizer.pc \in {"persist", "copy", "ready"} =>
          package[finalizer.session].state # "Ready"
    /\ finalizer.pc \in {"remove", "snapshot"} => package[finalizer.session].state = "Ready"

RecordingInv ==
    /\ RecordingType
    /\ OnlyReadyIsRemoved
    /\ ~abandoned => OneRecorder /\ SnapshotFollows /\ JournalFollows /\ CopyIsWhole

LEMMA StartKeeps ==
  ASSUME RecordingInv, NEW s \in Sessions, Start(s)
  PROVE  RecordingInv'
<1> USE MobileAssumption DEF RecordingInv, RecordingType, Over, Alive, Start, rust
<1>1. SnapshotType' /\ SegmentsType'
  BY DEF SnapshotType, SegmentsType
<1>2. ServiceType'
  BY DEF ServiceType
<1>3. RecorderType'
  BY DEF RecorderType
<1>4. PackageType' /\ FinalizerType'
  BY DEF PackageType, FinalizerType
<1>5. OnlyReadyIsRemoved'
  BY DEF OnlyReadyIsRemoved
<1>6. ASSUME ~abandoned' PROVE OneRecorder'
  BY <1>6 DEF OneRecorder
<1>7. ASSUME ~abandoned' PROVE SnapshotFollows'
  BY <1>7 DEF SnapshotFollows
<1>8. ASSUME ~abandoned' PROVE JournalFollows'
  BY <1>8 DEF JournalFollows
<1>9. ASSUME ~abandoned' PROVE CopyIsWhole'
  BY <1>9 DEF CopyIsWhole, Covers
<1> QED
  BY <1>1, <1>2, <1>3, <1>4, <1>5, <1>6, <1>7, <1>8, <1>9

LEMMA ControlKeeps ==
  ASSUME RecordingInv, SendControl
  PROVE  RecordingInv'
<1> USE MobileAssumption
   DEF RecordingInv, RecordingType, Over, Alive, SendControl, Offers, rust
<1>1. SnapshotType' /\ SegmentsType'
  BY DEF SnapshotType, SegmentsType
<1>2. ServiceType'
  BY DEF ServiceType
<1>3. RecorderType'
  BY DEF RecorderType
<1>4. PackageType' /\ FinalizerType'
  BY DEF PackageType, FinalizerType
<1>5. OnlyReadyIsRemoved'
  BY DEF OnlyReadyIsRemoved
<1>6. ASSUME ~abandoned' PROVE OneRecorder'
  BY <1>6 DEF OneRecorder
<1>7. ASSUME ~abandoned' PROVE SnapshotFollows'
  BY <1>7 DEF SnapshotFollows
<1>8. ASSUME ~abandoned' PROVE JournalFollows'
  BY <1>8 DEF JournalFollows
<1>9. ASSUME ~abandoned' PROVE CopyIsWhole'
  BY <1>9 DEF CopyIsWhole, Covers
<1> QED
  BY <1>1, <1>2, <1>3, <1>4, <1>5, <1>6, <1>7, <1>8, <1>9

LEMMA StatusKeeps ==
  ASSUME RecordingInv, Status
  PROVE  RecordingInv'
<1> USE MobileAssumption
   DEF RecordingInv, RecordingType, Over, Alive, Status, RecoverInterrupted, To, Appended,
       rust
<1>1. SnapshotType' /\ SegmentsType'
  BY DEF SnapshotType, SegmentsType, SnapshotStates
<1>2. ServiceType'
  BY DEF ServiceType
<1>3. RecorderType'
  BY DEF RecorderType
<1>4. PackageType' /\ FinalizerType'
  BY DEF PackageType, FinalizerType
<1>5. OnlyReadyIsRemoved'
  BY DEF OnlyReadyIsRemoved
<1>6. ASSUME ~abandoned' PROVE OneRecorder'
  <2>1. intent.action # "START" \/ snapshot' = snapshot
    BY <1>6 DEF OneRecorder, Open
  <2> QED
    BY <1>6, <2>1 DEF OneRecorder
<1>7. ASSUME ~abandoned' PROVE SnapshotFollows'
  BY <1>7
     DEF SnapshotType, RecorderType, OneRecorder, SnapshotFollows, JournalFollows, Open,
         RecorderSteps
<1>8. ASSUME ~abandoned' PROVE JournalFollows'
  BY <1>8 DEF JournalFollows
<1>9. ASSUME ~abandoned' PROVE CopyIsWhole'
  BY <1>9 DEF CopyIsWhole, Covers
<1> QED
  BY <1>1, <1>2, <1>3, <1>4, <1>5, <1>6, <1>7, <1>8, <1>9

LEMMA HandleStartKeeps ==
  ASSUME RecordingInv, HandleStart
  PROVE  RecordingInv'
<1> USE MobileAssumption DEF RecordingInv, RecordingType, Over, Alive, rust
<1>1. CASE Running
  <2>1. /\ intent.action = "START" /\ intent' = NoIntent
        /\ UNCHANGED <<snapshot, tail, active, service, flags, recorder, directories, journal,
                      written, package, finalizer, abandoned, faults>>
    BY <1>1 DEF HandleStart
  <2>2. RecordingType'
    BY <2>1
       DEF NoIntent, SnapshotType, SegmentsType, ServiceType, RecorderType, PackageType,
                FinalizerType
  <2>3. OneRecorder => OneRecorder'
    BY <2>1 DEF NoIntent, OneRecorder
  <2> QED
    BY <2>1, <2>2, <2>3
       DEF OnlyReadyIsRemoved, SnapshotFollows, JournalFollows, CopyIsWhole, Covers
<1>2. CASE ~Running
  <2> DEFINE s == intent.session
  <2>1. /\ intent.action = "START" /\ intent' = NoIntent
        /\ snapshot' = [session |-> s, state |-> "RECORDING", index |-> 0]
        /\ active' = TRUE /\ service' = s
        /\ flags' = [flags EXCEPT ![s].running = TRUE]
        /\ recorder' = [recorder EXCEPT ![s].pc = "loop"]
        /\ UNCHANGED <<journal, written, package, finalizer, abandoned, faults>>
    BY <1>2 DEF HandleStart
  <2>2. s \in Sessions \cup {NoSession}
    BY DEF ServiceType
  <2> HIDE DEF s
  <2>3. SnapshotType' /\ SegmentsType'
    BY <2>1, <2>2 DEF SnapshotType, SegmentsType, SnapshotStates
  <2>4. active' \in BOOLEAN /\ abandoned' \in BOOLEAN /\ service' \in Sessions \cup {NoSession}
    BY <2>1, <2>2 DEF ServiceType
  <2>5. flags' \in [Sessions -> [running : BOOLEAN, paused : BOOLEAN, stopping : BOOLEAN]]
    BY <2>1 DEF ServiceType
  <2>6. intent' \in [action : {"none", "START", "PAUSE", "RESUME", "STOP"},
                    session : Sessions \cup {NoSession}]
    BY <2>1 DEF NoIntent
  <2>7. ServiceType'
    BY <2>4, <2>5, <2>6 DEF ServiceType
  <2>8. RecorderType' /\ PackageType' /\ FinalizerType'
    BY <2>1, ZenonT(40) DEF RecorderType, RecorderSteps, PackageType, FinalizerType
  <2>9. OnlyReadyIsRemoved'
    BY <2>1 DEF OnlyReadyIsRemoved
  <2>10. ASSUME ~abandoned'
         PROVE  OneRecorder' /\ SnapshotFollows' /\ JournalFollows' /\ CopyIsWhole'
    <3>1. /\ OneRecorder /\ SnapshotFollows /\ JournalFollows /\ CopyIsWhole
          /\ s \in Sessions /\ ~active /\ recorder[s].pc = "unused"
      BY <2>1, <2>10 DEF OneRecorder, s
    <3>2. /\ \A r \in Sessions : ~Alive(r)
          /\ \A r \in Sessions : ~flags[r].running
      BY <3>1 DEF OneRecorder
    <3>3. \A r \in Sessions :
            /\ recorder'[r].pc = IF r = s THEN "loop" ELSE recorder[r].pc
            /\ recorder'[r].open = recorder[r].open /\ recorder'[r].next = recorder[r].next
            /\ flags'[r].running = IF r = s THEN TRUE ELSE flags[r].running
      BY <2>1, <3>1 DEF RecorderType, ServiceType
    <3>4. OneRecorder'
      <4>1. \A r \in Sessions : recorder'[r].pc \notin {"unused", "done"} => r = s
        BY <3>2, <3>3
      <4>2. recorder'[s].pc = "loop" /\ s # NoSession /\ intent'.action = "none"
        BY <2>1, <3>1, <3>3 DEF NoIntent
      <4>3. \A r \in Sessions : flags'[r].running => r = s
        BY <3>2, <3>3
      <4> QED
        BY <2>1, <3>1, <4>1, <4>2, <4>3 DEF OneRecorder
    <3>5. SnapshotFollows'
      <4>1. snapshot'.session = s /\ snapshot'.state = "RECORDING"
        BY <2>1
      <4>2. \A r \in Sessions : recorder'[r].pc \notin {"unused", "done"} => r = s
        BY <3>2, <3>3
      <4>3. recorder'[s].pc = "loop"
        BY <3>1, <3>3
      <4> QED
        BY <3>1, <4>1, <4>2, <4>3 DEF SnapshotFollows, Open
    <3>6. JournalFollows'
      BY <2>1, <3>1, <3>3 DEF JournalFollows
    <3>7. CopyIsWhole'
      BY <2>1, <3>1, <3>3 DEF CopyIsWhole, Covers
    <3> QED
      BY <3>4, <3>5, <3>6, <3>7
  <2> QED
    BY <2>3, <2>7, <2>8, <2>9, <2>10
<1> QED
  BY <1>1, <1>2

LEMMA HandleLateKeeps ==
  ASSUME RecordingInv, HandleLate
  PROVE  RecordingInv'
<1> USE MobileAssumption
   DEF RecordingInv, RecordingType, Over, Alive, HandleLate, RecoverInterrupted, To,
       Appended, Running, NoIntent, rust
<1>1. SnapshotType' /\ SegmentsType'
  BY DEF SnapshotType, SegmentsType, SnapshotStates
<1>2. ServiceType'
  BY DEF ServiceType
<1>3. RecorderType'
  BY DEF RecorderType
<1>4. PackageType' /\ FinalizerType'
  BY DEF PackageType, FinalizerType
<1>5. OnlyReadyIsRemoved'
  BY DEF OnlyReadyIsRemoved
<1>6. ASSUME ~abandoned' PROVE OneRecorder'
  BY <1>6 DEF OneRecorder
<1>7. ASSUME ~abandoned' PROVE SnapshotFollows'
  BY <1>7
     DEF SnapshotType, SegmentsType, ServiceType, RecorderType, OneRecorder,
         SnapshotFollows, JournalFollows, Open, RecorderSteps
<1>8. ASSUME ~abandoned' PROVE JournalFollows'
  BY <1>8 DEF JournalFollows
<1>9. ASSUME ~abandoned' PROVE CopyIsWhole'
  BY <1>9 DEF CopyIsWhole, Covers
<1> QED
  BY <1>1, <1>2, <1>3, <1>4, <1>5, <1>6, <1>7, <1>8, <1>9

LEMMA HandleStopKeeps ==
  ASSUME RecordingInv, HandleStop
  PROVE  RecordingInv'
<1> USE MobileAssumption
   DEF RecordingInv, RecordingType, Over, Alive, HandleStop, Running, NoIntent, rust
<1>1. SnapshotType' /\ SegmentsType'
  BY DEF SnapshotType, SegmentsType
<1>2. ServiceType'
  BY DEF ServiceType
<1>3. RecorderType'
  BY DEF RecorderType
<1>4. PackageType' /\ FinalizerType'
  BY DEF PackageType, FinalizerType
<1>5. OnlyReadyIsRemoved'
  BY DEF OnlyReadyIsRemoved
<1>6. ASSUME ~abandoned' PROVE OneRecorder'
  BY <1>6
     DEF SnapshotType, SegmentsType, ServiceType, RecorderType, OneRecorder, SnapshotFollows
<1>7. ASSUME ~abandoned' PROVE SnapshotFollows'
  BY <1>7 DEF SnapshotFollows
<1>8. ASSUME ~abandoned' PROVE JournalFollows'
  BY <1>8 DEF JournalFollows
<1>9. ASSUME ~abandoned' PROVE CopyIsWhole'
  BY <1>9 DEF CopyIsWhole, Covers
<1> QED
  BY <1>1, <1>2, <1>3, <1>4, <1>5, <1>6, <1>7, <1>8, <1>9

LEMMA HandleToggleKeeps ==
  ASSUME RecordingInv, HandleToggle
  PROVE  RecordingInv'
<1> USE MobileAssumption DEF RecordingInv, RecordingType, Over, Alive, rust
<1>1. /\ intent.action # "START" /\ intent'.action = "none"
      /\ service # NoSession
      /\ UNCHANGED <<journal, active, service, recorder, written, package, finalizer, abandoned>>
  BY DEF HandleToggle, Running, NoIntent
<1>2. \/ snapshot' = snapshot /\ flags' = flags
      \/ /\ Open(snapshot.state) /\ Target \in {"RECORDING", "PAUSED"}
         /\ snapshot' = [snapshot EXCEPT !.state = Target]
         /\ flags' = [flags EXCEPT ![service].paused = ~@]
  BY DEF HandleToggle, Allowed, Target, To, Open
<1>3. /\ SnapshotType'
      /\ snapshot'.session = snapshot.session
      /\ snapshot' = snapshot \/ (Open(snapshot.state) /\ Open(snapshot'.state))
  <2>1. CASE snapshot' = snapshot
    BY <2>1 DEF SnapshotType
  <2>2. CASE snapshot' = [snapshot EXCEPT !.state = Target] /\ Target \in {"RECORDING", "PAUSED"}
             /\ Open(snapshot.state)
    BY <2>2 DEF SnapshotType, SnapshotStates, Open
  <2> QED
    BY <1>2, <2>1, <2>2
<1>4. /\ flags' \in [Sessions -> [running : BOOLEAN, paused : BOOLEAN, stopping : BOOLEAN]]
      /\ \A s \in Sessions : flags'[s].running = flags[s].running
  <2>1. service \in Sessions
        /\ flags \in [Sessions -> [running : BOOLEAN, paused : BOOLEAN, stopping : BOOLEAN]]
    BY <1>1 DEF ServiceType
  <2>2. CASE flags' = [flags EXCEPT ![service].paused = ~@]
    BY <2>1, <2>2
  <2> QED
    BY <1>2, <2>1, <2>2
<1>5. intent' \in [action : {"none", "START", "PAUSE", "RESUME", "STOP"},
                  session : Sessions \cup {NoSession}]
  BY DEF HandleToggle, NoIntent
<1>6. ServiceType'
  BY <1>1, <1>4, <1>5 DEF ServiceType
<1>7. SegmentsType' /\ RecorderType' /\ PackageType' /\ FinalizerType' /\ OnlyReadyIsRemoved'
  BY <1>1 DEF SegmentsType, RecorderType, PackageType, FinalizerType, OnlyReadyIsRemoved
<1>8. ASSUME ~abandoned' PROVE OneRecorder'
  BY <1>1, <1>4, <1>8 DEF OneRecorder
<1>9. ASSUME ~abandoned' PROVE SnapshotFollows'
  BY <1>1, <1>3, <1>9 DEF SnapshotFollows, Open
<1>10. ASSUME ~abandoned' PROVE JournalFollows' /\ CopyIsWhole'
  BY <1>1, <1>10 DEF JournalFollows, CopyIsWhole, Covers
<1> QED
  BY <1>3, <1>6, <1>7, <1>8, <1>9, <1>10

LEMMA WriteKeeps ==
  ASSUME RecordingInv, NEW s \in Sessions, WriteAudio(s)
  PROVE  RecordingInv'
<1> USE MobileAssumption
   DEF RecordingInv, RecordingType, Over, Alive, WriteAudio, RecorderOnly, rust
<1>1. SnapshotType' /\ SegmentsType'
  BY DEF SnapshotType, SegmentsType, RecorderType
<1>2. ServiceType'
  BY DEF ServiceType
<1>3. RecorderType'
  BY DEF RecorderType
<1>4. PackageType' /\ FinalizerType'
  BY DEF PackageType, FinalizerType
<1>5. OnlyReadyIsRemoved'
  BY DEF OnlyReadyIsRemoved
<1>6. ASSUME ~abandoned' PROVE OneRecorder'
  BY <1>6 DEF OneRecorder
<1>7. ASSUME ~abandoned' PROVE SnapshotFollows'
  BY <1>7 DEF SnapshotFollows
<1>8. ASSUME ~abandoned' PROVE JournalFollows'
  BY <1>8 DEF SegmentsType, RecorderType, OneRecorder, SnapshotFollows, JournalFollows
<1>9. ASSUME ~abandoned' PROVE CopyIsWhole'
  BY <1>9 DEF CopyIsWhole, Covers
<1> QED
  BY <1>1, <1>2, <1>3, <1>4, <1>5, <1>6, <1>7, <1>8, <1>9

LEMMA FillKeeps ==
  ASSUME RecordingInv, NEW s \in Sessions, FillSegment(s)
  PROVE  RecordingInv'
<1> USE MobileAssumption
   DEF RecordingInv, RecordingType, Over, Alive, FillSegment, Goes, RecorderOnly, rust
<1>1. SnapshotType' /\ SegmentsType'
  BY DEF SnapshotType, SegmentsType
<1>2. ServiceType'
  BY DEF ServiceType
<1>3. RecorderType'
  BY DEF RecorderType, RecorderSteps
<1>4. PackageType' /\ FinalizerType'
  BY DEF PackageType, FinalizerType
<1>5. OnlyReadyIsRemoved'
  BY DEF OnlyReadyIsRemoved
<1>6. ASSUME ~abandoned' PROVE OneRecorder'
  BY <1>6 DEF OneRecorder
<1>7. ASSUME ~abandoned' PROVE SnapshotFollows'
  BY <1>7 DEF SnapshotFollows
<1>8. ASSUME ~abandoned' PROVE JournalFollows'
  BY <1>8 DEF JournalFollows
<1>9. ASSUME ~abandoned' PROVE CopyIsWhole'
  BY <1>9 DEF CopyIsWhole, Covers
<1> QED
  BY <1>1, <1>2, <1>3, <1>4, <1>5, <1>6, <1>7, <1>8, <1>9

LEMMA CompleteKeeps ==
  ASSUME RecordingInv, NEW s \in Sessions, CompleteSegment(s)
  PROVE  RecordingInv'
<1> USE MobileAssumption
   DEF RecordingInv, RecordingType, Over, Alive, CompleteSegment, Journal, Goes, Appended,
       RecorderOnly, rust
<1>1. SnapshotType' /\ SegmentsType'
  BY DEF SnapshotType, SegmentsType, RecorderType
<1>2. ServiceType'
  BY DEF ServiceType
<1>3. RecorderType'
  BY DEF RecorderType, RecorderSteps
<1>4. PackageType' /\ FinalizerType'
  BY DEF PackageType, FinalizerType
<1>5. OnlyReadyIsRemoved'
  BY DEF OnlyReadyIsRemoved
<1>6. ASSUME ~abandoned' PROVE OneRecorder'
  BY <1>6 DEF OneRecorder
<1>7. ASSUME ~abandoned' PROVE SnapshotFollows'
  BY <1>7 DEF SnapshotFollows
<1>8. ASSUME ~abandoned' PROVE JournalFollows'
  BY <1>8 DEF SegmentsType, RecorderType, OneRecorder, SnapshotFollows, JournalFollows
<1>9. ASSUME ~abandoned' PROVE CopyIsWhole'
  BY <1>9 DEF CopyIsWhole, Covers
<1> QED
  BY <1>1, <1>2, <1>3, <1>4, <1>5, <1>6, <1>7, <1>8, <1>9

LEMMA CompleteLastKeeps ==
  ASSUME RecordingInv, NEW s \in Sessions, CompleteLast(s)
  PROVE  RecordingInv'
<1> USE MobileAssumption
   DEF RecordingInv, RecordingType, Over, Alive, CompleteLast, Journal, Goes, Appended,
       RecorderOnly, rust
<1>1. SnapshotType' /\ SegmentsType'
  BY DEF SnapshotType, SegmentsType, RecorderType
<1>2. ServiceType'
  BY DEF ServiceType
<1>3. RecorderType'
  BY DEF RecorderType, RecorderSteps
<1>4. PackageType' /\ FinalizerType'
  BY DEF PackageType, FinalizerType
<1>5. OnlyReadyIsRemoved'
  BY DEF OnlyReadyIsRemoved
<1>6. ASSUME ~abandoned' PROVE OneRecorder'
  BY <1>6 DEF OneRecorder
<1>7. ASSUME ~abandoned' PROVE SnapshotFollows'
  BY <1>7 DEF SnapshotFollows
<1>8. ASSUME ~abandoned' PROVE JournalFollows'
  BY <1>8 DEF SegmentsType, RecorderType, OneRecorder, SnapshotFollows, JournalFollows
<1>9. ASSUME ~abandoned' PROVE CopyIsWhole'
  BY <1>9 DEF CopyIsWhole, Covers
<1> QED
  BY <1>1, <1>2, <1>3, <1>4, <1>5, <1>6, <1>7, <1>8, <1>9

LEMMA RollKeeps ==
  ASSUME RecordingInv, NEW s \in Sessions, RollSegment(s)
  PROVE  RecordingInv'
<1> USE MobileAssumption
   DEF RecordingInv, RecordingType, Over, Alive, RollSegment, Checkpoint, Idle,
       RecorderOnly, rust
<1>1. SnapshotType' /\ SegmentsType'
  BY DEF SnapshotType, SegmentsType, SnapshotStates, RecorderType
<1>2. ServiceType'
  BY DEF ServiceType
<1>3. RecorderType'
  BY DEF RecorderType, RecorderSteps
<1>4. PackageType' /\ FinalizerType'
  BY DEF PackageType, FinalizerType
<1>5. OnlyReadyIsRemoved'
  BY DEF OnlyReadyIsRemoved
<1>6. ASSUME ~abandoned' PROVE OneRecorder'
  BY <1>6 DEF OneRecorder
<1>7. ASSUME ~abandoned' PROVE SnapshotFollows'
  BY <1>7 DEF SnapshotFollows
<1>8. ASSUME ~abandoned' PROVE JournalFollows'
  BY <1>8 DEF JournalFollows
<1>9. ASSUME ~abandoned' PROVE CopyIsWhole'
  BY <1>9 DEF CopyIsWhole, Covers
<1> QED
  BY <1>1, <1>2, <1>3, <1>4, <1>5, <1>6, <1>7, <1>8, <1>9

LEMMA LastCheckpointKeeps ==
  ASSUME RecordingInv, NEW s \in Sessions, LastCheckpoint(s)
  PROVE  RecordingInv'
<1> USE MobileAssumption
   DEF RecordingInv, RecordingType, Over, Alive, LastCheckpoint, Checkpoint, Idle, Goes,
       RecorderOnly, rust
<1>1. SnapshotType' /\ SegmentsType'
  BY DEF SnapshotType, SegmentsType, SnapshotStates, RecorderType
<1>2. ServiceType'
  BY DEF ServiceType
<1>3. RecorderType'
  BY DEF RecorderType, RecorderSteps
<1>4. PackageType' /\ FinalizerType'
  BY DEF PackageType, FinalizerType
<1>5. OnlyReadyIsRemoved'
  BY DEF OnlyReadyIsRemoved
<1>6. ASSUME ~abandoned' PROVE OneRecorder'
  BY <1>6 DEF OneRecorder
<1>7. ASSUME ~abandoned' PROVE SnapshotFollows'
  BY <1>7 DEF SnapshotFollows
<1>8. ASSUME ~abandoned' PROVE JournalFollows'
  BY <1>8 DEF JournalFollows
<1>9. ASSUME ~abandoned' PROVE CopyIsWhole'
  BY <1>9 DEF CopyIsWhole, Covers
<1> QED
  BY <1>1, <1>2, <1>3, <1>4, <1>5, <1>6, <1>7, <1>8, <1>9

LEMMA LeaveKeeps ==
  ASSUME RecordingInv, NEW s \in Sessions, LeaveLoop(s)
  PROVE  RecordingInv'
<1> USE MobileAssumption
   DEF RecordingInv, RecordingType, Over, Alive, LeaveLoop, Goes, RecorderOnly, rust
<1>1. SnapshotType' /\ SegmentsType'
  BY DEF SnapshotType, SegmentsType
<1>2. ServiceType'
  BY DEF ServiceType
<1>3. RecorderType'
  BY DEF RecorderType, RecorderSteps
<1>4. PackageType' /\ FinalizerType'
  BY DEF PackageType, FinalizerType
<1>5. OnlyReadyIsRemoved'
  BY DEF OnlyReadyIsRemoved
<1>6. ASSUME ~abandoned' PROVE OneRecorder'
  BY <1>6 DEF OneRecorder
<1>7. ASSUME ~abandoned' PROVE SnapshotFollows'
  BY <1>7 DEF SnapshotFollows
<1>8. ASSUME ~abandoned' PROVE JournalFollows'
  <2>1. \A r \in Sessions :
          /\ recorder'[r].open = recorder[r].open /\ recorder'[r].next = recorder[r].next
          /\ r # s => recorder'[r].pc = recorder[r].pc
    OBVIOUS
  <2>2. /\ recorder[s].pc = "loop"
        /\ recorder'[s].pc = IF recorder[s].open THEN "last" ELSE "checkpoint"
    BY DEF RecorderType
  <2>3. UNCHANGED <<journal, written, abandoned>>
    OBVIOUS
  <2>4. JournalFollows
    BY <1>8
  <2> HIDE DEF LeaveLoop, Goes, RecordingInv
  <2>5. ASSUME NEW r \in Sessions, r # s
        PROVE  UNCHANGED <<recorder[r].pc, recorder[r].open, recorder[r].next>>
    BY <2>1, <2>5
  <2>6. /\ recorder'[s].pc \in {"full", "last"} => written'[s] = journal'[s] \cup {recorder'[s].next}
        /\ recorder'[s].pc \in {"roll", "checkpoint", "transition"} => written'[s] = journal'[s]
        /\ recorder'[s].pc \notin {"unused", "loop"}
    BY <2>1, <2>2, <2>3, <2>4 DEF JournalFollows
  <2> QED
    BY <2>3, <2>4, <2>5, <2>6 DEF JournalFollows
<1>9. ASSUME ~abandoned' PROVE CopyIsWhole'
  BY <1>9 DEF CopyIsWhole, Covers
<1> QED
  BY <1>1, <1>2, <1>3, <1>4, <1>5, <1>6, <1>7, <1>8, <1>9

LEMMA EndKeeps ==
  ASSUME RecordingInv, NEW s \in Sessions, EndSession(s)
  PROVE  RecordingInv'
<1> USE MobileAssumption
   DEF RecordingInv, RecordingType, Over, Alive, EndSession, To, Goes, Appended,
       RecorderOnly, rust
<1>1. SnapshotType' /\ SegmentsType'
  BY DEF SnapshotType, SegmentsType, SnapshotStates
<1>2. ServiceType'
  BY DEF ServiceType
<1>3. RecorderType'
  BY DEF RecorderType, RecorderSteps
<1>4. PackageType' /\ FinalizerType'
  BY DEF PackageType, FinalizerType
<1>5. OnlyReadyIsRemoved'
  BY DEF OnlyReadyIsRemoved
<1>6. ASSUME ~abandoned' PROVE OneRecorder'
  BY <1>6 DEF OneRecorder
<1>7. ASSUME ~abandoned' PROVE SnapshotFollows'
  BY <1>7
     DEF SnapshotType, RecorderType, OneRecorder, SnapshotFollows, JournalFollows, Open,
         RecorderSteps
<1>8. ASSUME ~abandoned' PROVE JournalFollows'
  BY <1>8 DEF JournalFollows
<1>9. ASSUME ~abandoned' PROVE CopyIsWhole'
  BY <1>9 DEF CopyIsWhole, Covers
<1> QED
  BY <1>1, <1>2, <1>3, <1>4, <1>5, <1>6, <1>7, <1>8, <1>9

LEMMA FailKeeps ==
  ASSUME RecordingInv, NEW s \in Sessions, FailRecorder(s)
  PROVE  RecordingInv'
<1> USE MobileAssumption
   DEF RecordingInv, RecordingType, Over, Alive, FailRecorder, RecoverInterrupted, To,
       Appended, rust
<1>1. SnapshotType' /\ SegmentsType'
  BY DEF SnapshotType, SegmentsType, SnapshotStates
<1>2. ServiceType'
  BY DEF ServiceType
<1>3. RecorderType'
  BY DEF RecorderType, RecorderSteps
<1>4. PackageType' /\ FinalizerType'
  BY DEF PackageType, FinalizerType
<1>5. OnlyReadyIsRemoved'
  BY DEF OnlyReadyIsRemoved
<1>6. ASSUME ~abandoned' PROVE OneRecorder'
  BY <1>6 DEF OneRecorder
<1>7. ASSUME ~abandoned' PROVE SnapshotFollows'
  BY <1>7 DEF SnapshotFollows, Open, SnapshotType, RecorderType
<1>8. ASSUME ~abandoned' PROVE JournalFollows'
  BY <1>8 DEF JournalFollows
<1>9. ASSUME ~abandoned' PROVE CopyIsWhole'
  BY <1>9 DEF CopyIsWhole, Covers
<1> QED
  BY <1>1, <1>2, <1>3, <1>4, <1>5, <1>6, <1>7, <1>8, <1>9

LEMMA FinallyKeeps ==
  ASSUME RecordingInv, NEW s \in Sessions, Finally(s)
  PROVE  RecordingInv'
<1> USE MobileAssumption DEF RecordingInv, RecordingType, Over, Alive, Finally, rust
<1>1. SnapshotType' /\ SegmentsType'
  BY DEF SnapshotType, SegmentsType
<1>2. ServiceType'
  BY DEF ServiceType
<1>3. RecorderType'
  BY DEF RecorderType, RecorderSteps
<1>4. PackageType' /\ FinalizerType'
  BY DEF PackageType, FinalizerType
<1>5. OnlyReadyIsRemoved'
  BY DEF OnlyReadyIsRemoved
<1>6. ASSUME ~abandoned' PROVE OneRecorder'
  BY <1>6
     DEF SnapshotType, SegmentsType, ServiceType, RecorderType, OneRecorder, SnapshotFollows
<1>7. ASSUME ~abandoned' PROVE SnapshotFollows'
  BY <1>7 DEF SnapshotFollows
<1>8. ASSUME ~abandoned' PROVE JournalFollows'
  BY <1>8 DEF JournalFollows
<1>9. ASSUME ~abandoned' PROVE CopyIsWhole'
  BY <1>9 DEF CopyIsWhole, Covers
<1> QED
  BY <1>1, <1>2, <1>3, <1>4, <1>5, <1>6, <1>7, <1>8, <1>9

LEMMA BeginKeeps ==
  ASSUME RecordingInv, NEW s \in Sessions, BeginFinalize(s)
  PROVE  RecordingInv'
<1> USE MobileAssumption
   DEF RecordingInv, RecordingType, Over, Alive, BeginFinalize, Readable, Terminal, NoJob,
       NativeKept, native
<1>1. SnapshotType' /\ SegmentsType'
  BY DEF SnapshotType, SegmentsType
<1>2. ServiceType'
  BY DEF ServiceType
<1>3. RecorderType'
  BY DEF RecorderType
<1>4. PackageType' /\ FinalizerType'
  BY DEF PackageType, FinalizerType, NativeSteps, SnapshotStates, SegmentsType, SnapshotType
<1>5. OnlyReadyIsRemoved'
  BY DEF OnlyReadyIsRemoved
<1>6. ASSUME ~abandoned' PROVE OneRecorder'
  BY <1>6 DEF OneRecorder
<1>7. ASSUME ~abandoned' PROVE SnapshotFollows'
  BY <1>7 DEF SnapshotFollows
<1>8. ASSUME ~abandoned' PROVE JournalFollows'
  BY <1>8 DEF JournalFollows
<1>9. ASSUME ~abandoned' PROVE CopyIsWhole'
  <2>1. Over(s) /\ Covers(s, journal[s], snapshot.state)
    BY <1>9 DEF OneRecorder, SnapshotFollows, Covers, Open
  <2>2. /\ finalizer'.session = s /\ finalizer'.segments = journal[s]
        /\ finalizer'.from = snapshot.state
        /\ finalizer'.pc = IF package[s].state = "Ready" THEN "remove" ELSE "persist"
    OBVIOUS
  <2>3. UNCHANGED <<journal, written, recorder, package, abandoned>>
    OBVIOUS
  <2> QED
    BY <1>9, <2>1, <2>2, <2>3 DEF CopyIsWhole, Covers
<1> QED
  BY <1>1, <1>2, <1>3, <1>4, <1>5, <1>6, <1>7, <1>8, <1>9

LEMMA CleanupKeeps ==
  ASSUME RecordingInv, NEW s \in Sessions, BeginCleanup(s)
  PROVE  RecordingInv'
<1> USE MobileAssumption
   DEF RecordingInv, RecordingType, Over, Alive, BeginCleanup, NoJob, NativeKept, native
<1>1. SnapshotType' /\ SegmentsType'
  BY DEF SnapshotType, SegmentsType
<1>2. ServiceType'
  BY DEF ServiceType
<1>3. RecorderType'
  BY DEF RecorderType
<1>4. PackageType' /\ FinalizerType'
  BY DEF PackageType, FinalizerType, NativeSteps, SnapshotStates, SegmentsType, SnapshotType
<1>5. OnlyReadyIsRemoved'
  BY DEF OnlyReadyIsRemoved
<1>6. ASSUME ~abandoned' PROVE OneRecorder'
  BY <1>6 DEF OneRecorder
<1>7. ASSUME ~abandoned' PROVE SnapshotFollows'
  BY <1>7 DEF SnapshotFollows
<1>8. ASSUME ~abandoned' PROVE JournalFollows'
  BY <1>8 DEF JournalFollows
<1>9. ASSUME ~abandoned' PROVE CopyIsWhole'
  BY <1>9 DEF CopyIsWhole, Covers
<1> QED
  BY <1>1, <1>2, <1>3, <1>4, <1>5, <1>6, <1>7, <1>8, <1>9

LEMMA PersistKeeps ==
  ASSUME RecordingInv, PersistFinalizing
  PROVE  RecordingInv'
<1> USE MobileAssumption
   DEF RecordingInv, RecordingType, Over, Alive, PersistFinalizing, FinalizerGoes,
       NativeKept, native
<1>1. SnapshotType' /\ SegmentsType'
  BY DEF SnapshotType, SegmentsType
<1>2. ServiceType'
  BY DEF ServiceType
<1>3. RecorderType'
  BY DEF RecorderType
<1>4. PackageType' /\ FinalizerType'
  <2>1. PackageType'
    BY ZenonT(40) DEF PackageType, FinalizerType, SnapshotType
  <2>2. FinalizerType'
    BY DEF FinalizerType, NativeSteps, SnapshotType, SegmentsType
  <2>3. QED
    BY <2>1, <2>2
<1>5. OnlyReadyIsRemoved'
  BY DEF OnlyReadyIsRemoved
<1>6. ASSUME ~abandoned' PROVE OneRecorder'
  BY <1>6 DEF OneRecorder
<1>7. ASSUME ~abandoned' PROVE SnapshotFollows'
  BY <1>7 DEF SnapshotFollows
<1>8. ASSUME ~abandoned' PROVE JournalFollows'
  BY <1>8 DEF JournalFollows
<1>9. ASSUME ~abandoned' PROVE CopyIsWhole'
  BY <1>9 DEF CopyIsWhole, Covers
<1> QED
  BY <1>1, <1>2, <1>3, <1>4, <1>5, <1>6, <1>7, <1>8, <1>9

LEMMA CopyKeeps ==
  ASSUME RecordingInv, CopySegments
  PROVE  RecordingInv'
<1> USE MobileAssumption
   DEF RecordingInv, RecordingType, Over, Alive, CopySegments, FinalizerGoes, NativeKept,
       native
<1>1. SnapshotType' /\ SegmentsType'
  BY DEF SnapshotType, SegmentsType
<1>2. ServiceType'
  BY DEF ServiceType
<1>3. RecorderType'
  BY DEF RecorderType
<1>4. PackageType' /\ FinalizerType'
  <2>1. PackageType'
    BY ZenonT(40) DEF PackageType, FinalizerType, SnapshotType
  <2>2. FinalizerType'
    BY DEF FinalizerType, NativeSteps, SnapshotType, SegmentsType
  <2>3. QED
    BY <2>1, <2>2
<1>5. OnlyReadyIsRemoved'
  BY DEF OnlyReadyIsRemoved
<1>6. ASSUME ~abandoned' PROVE OneRecorder'
  BY <1>6 DEF OneRecorder
<1>7. ASSUME ~abandoned' PROVE SnapshotFollows'
  BY <1>7 DEF SnapshotFollows
<1>8. ASSUME ~abandoned' PROVE JournalFollows'
  BY <1>8 DEF JournalFollows
<1>9. ASSUME ~abandoned' PROVE CopyIsWhole'
  BY <1>9 DEF CopyIsWhole, Covers, OnlyReadyIsRemoved, PackageType, FinalizerType
<1> QED
  BY <1>1, <1>2, <1>3, <1>4, <1>5, <1>6, <1>7, <1>8, <1>9

LEMMA ReadyKeeps ==
  ASSUME RecordingInv, PersistReady
  PROVE  RecordingInv'
<1> USE MobileAssumption
   DEF RecordingInv, RecordingType, Over, Alive, PersistReady, FinalizerGoes, NativeKept,
       native
<1>1. SnapshotType' /\ SegmentsType'
  BY DEF SnapshotType, SegmentsType
<1>2. ServiceType'
  BY DEF ServiceType
<1>3. RecorderType'
  BY DEF RecorderType
<1>4. PackageType' /\ FinalizerType'
  <2>1. FinalizerType'
    BY DEF FinalizerType, NativeSteps
  <2>2. finalizer.from \in SnapshotStates
    BY DEF FinalizerType
  <2>3. PackageType'
    BY <2>2 DEF PackageType
  <2> QED
    BY <2>1, <2>3
<1>5. OnlyReadyIsRemoved'
  BY DEF OnlyReadyIsRemoved, PackageType
<1>6. ASSUME ~abandoned' PROVE OneRecorder'
  BY <1>6 DEF OneRecorder
<1>7. ASSUME ~abandoned' PROVE SnapshotFollows'
  BY <1>7 DEF SnapshotFollows
<1>8. ASSUME ~abandoned' PROVE JournalFollows'
  BY <1>8 DEF JournalFollows
<1>9. ASSUME ~abandoned' PROVE CopyIsWhole'
  BY <1>9 DEF CopyIsWhole, Covers, OnlyReadyIsRemoved, PackageType, FinalizerType
<1> QED
  BY <1>1, <1>2, <1>3, <1>4, <1>5, <1>6, <1>7, <1>8, <1>9

LEMMA RemoveKeeps ==
  ASSUME RecordingInv, RemoveDirectory
  PROVE  RecordingInv'
<1> USE MobileAssumption
   DEF RecordingInv, RecordingType, Over, Alive, RemoveDirectory, FinalizerGoes,
       NativeKept, native
<1>1. SnapshotType' /\ SegmentsType'
  BY DEF SnapshotType, SegmentsType
<1>2. ServiceType'
  BY DEF ServiceType
<1>3. RecorderType'
  BY DEF RecorderType
<1>4. PackageType' /\ FinalizerType'
  BY DEF PackageType, FinalizerType, NativeSteps, SnapshotStates, SegmentsType, SnapshotType
<1>5. OnlyReadyIsRemoved'
  BY DEF OnlyReadyIsRemoved
<1>6. ASSUME ~abandoned' PROVE OneRecorder'
  BY <1>6 DEF OneRecorder
<1>7. ASSUME ~abandoned' PROVE SnapshotFollows'
  BY <1>7 DEF SnapshotFollows
<1>8. ASSUME ~abandoned' PROVE JournalFollows'
  BY <1>8 DEF JournalFollows
<1>9. ASSUME ~abandoned' PROVE CopyIsWhole'
  BY <1>9 DEF CopyIsWhole, Covers
<1> QED
  BY <1>1, <1>2, <1>3, <1>4, <1>5, <1>6, <1>7, <1>8, <1>9

LEMMA RemoveSnapshotKeeps ==
  ASSUME RecordingInv, RemoveSnapshot
  PROVE  RecordingInv'
<1> USE MobileAssumption
   DEF RecordingInv, RecordingType, Over, Alive, RemoveSnapshot, Removable, Terminal,
       Idle, NoJob
<1>1. SnapshotType' /\ SegmentsType'
  BY DEF SnapshotType, SegmentsType, SnapshotStates
<1>2. ServiceType'
  BY DEF ServiceType
<1>3. RecorderType'
  BY DEF RecorderType
<1>4. PackageType' /\ FinalizerType'
  BY DEF PackageType, FinalizerType, SnapshotStates, SegmentsType, SnapshotType
<1>5. OnlyReadyIsRemoved'
  BY DEF OnlyReadyIsRemoved
<1>6. ASSUME ~abandoned' PROVE OneRecorder'
  BY <1>6 DEF OneRecorder
<1>7. ASSUME ~abandoned' PROVE SnapshotFollows'
  BY <1>7 DEF OneRecorder, SnapshotFollows, Open
<1>8. ASSUME ~abandoned' PROVE JournalFollows'
  BY <1>8 DEF JournalFollows
<1>9. ASSUME ~abandoned' PROVE CopyIsWhole'
  BY <1>9 DEF CopyIsWhole, Covers
<1> QED
  BY <1>1, <1>2, <1>3, <1>4, <1>5, <1>6, <1>7, <1>8, <1>9

LEMMA FailFinalizerKeeps ==
  ASSUME RecordingInv, FailFinalizer
  PROVE  RecordingInv'
<1> USE MobileAssumption
   DEF RecordingInv, RecordingType, Over, Alive, FailFinalizer, NoJob, native
<1>1. SnapshotType' /\ SegmentsType'
  BY DEF SnapshotType, SegmentsType
<1>2. ServiceType'
  BY DEF ServiceType
<1>3. RecorderType'
  BY DEF RecorderType
<1>4. PackageType' /\ FinalizerType'
  BY DEF PackageType, FinalizerType, SnapshotStates, SegmentsType, SnapshotType
<1>5. OnlyReadyIsRemoved'
  BY DEF OnlyReadyIsRemoved
<1>6. ASSUME ~abandoned' PROVE OneRecorder'
  BY <1>6 DEF OneRecorder
<1>7. ASSUME ~abandoned' PROVE SnapshotFollows'
  BY <1>7 DEF SnapshotFollows
<1>8. ASSUME ~abandoned' PROVE JournalFollows'
  BY <1>8 DEF JournalFollows
<1>9. ASSUME ~abandoned' PROVE CopyIsWhole'
  BY <1>9 DEF CopyIsWhole, Covers
<1> QED
  BY <1>1, <1>2, <1>3, <1>4, <1>5, <1>6, <1>7, <1>8, <1>9

LEMMA DieKeeps ==
  ASSUME RecordingInv, Die
  PROVE  RecordingInv'
<1> USE MobileAssumption DEF RecordingInv, RecordingType, Over, Alive, Die, NoIntent, NoJob
<1>1. SnapshotType' /\ SegmentsType'
  BY DEF SnapshotType, SegmentsType
<1>2. ServiceType'
  BY DEF ServiceType
<1>3. RecorderType'
  BY DEF RecorderType, RecorderSteps
<1>4. PackageType' /\ FinalizerType'
  BY DEF PackageType, FinalizerType, SnapshotStates, SegmentsType, SnapshotType
<1>5. OnlyReadyIsRemoved'
  BY DEF OnlyReadyIsRemoved
<1>6. ASSUME ~abandoned' PROVE OneRecorder'
  BY <1>6 DEF OneRecorder
<1>7. ASSUME ~abandoned' PROVE SnapshotFollows'
  BY <1>7 DEF SnapshotFollows
<1>8. ASSUME ~abandoned' PROVE JournalFollows'
  BY <1>8 DEF JournalFollows
<1>9. ASSUME ~abandoned' PROVE CopyIsWhole'
  BY <1>9 DEF CopyIsWhole, Covers
<1> QED
  BY <1>1, <1>2, <1>3, <1>4, <1>5, <1>6, <1>7, <1>8, <1>9

LEMMA StutterKeeps ==
  ASSUME RecordingInv, UNCHANGED vars
  PROVE  RecordingInv'
<1> USE MobileAssumption DEF RecordingInv, RecordingType, Over, Alive, vars
<1>1. SnapshotType' /\ SegmentsType'
  BY DEF SnapshotType, SegmentsType
<1>2. ServiceType'
  BY DEF ServiceType
<1>3. RecorderType'
  BY DEF RecorderType
<1>4. PackageType' /\ FinalizerType'
  BY DEF PackageType, FinalizerType
<1>5. OnlyReadyIsRemoved'
  BY DEF OnlyReadyIsRemoved
<1>6. ASSUME ~abandoned' PROVE OneRecorder'
  BY <1>6 DEF OneRecorder
<1>7. ASSUME ~abandoned' PROVE SnapshotFollows'
  BY <1>7 DEF SnapshotFollows
<1>8. ASSUME ~abandoned' PROVE JournalFollows'
  BY <1>8 DEF JournalFollows
<1>9. ASSUME ~abandoned' PROVE CopyIsWhole'
  BY <1>9 DEF CopyIsWhole, Covers
<1> QED
  BY <1>1, <1>2, <1>3, <1>4, <1>5, <1>6, <1>7, <1>8, <1>9

LEMMA InitRecords == Init => RecordingInv
<1> SUFFICES ASSUME Init PROVE RecordingInv
  OBVIOUS
<1> USE MobileAssumption DEF Init, Idle, NoIntent, NoJob, Alive, Over
<1>1. SnapshotType /\ SegmentsType /\ ServiceType
  BY DEF SnapshotType, SegmentsType, ServiceType, SnapshotStates
<1>2. RecorderType /\ PackageType /\ FinalizerType
  BY DEF RecorderType, RecorderSteps, PackageType, FinalizerType, NativeSteps,
         SnapshotStates
<1>3. OnlyReadyIsRemoved /\ CopyIsWhole
  BY DEF OnlyReadyIsRemoved, CopyIsWhole
<1>4. OneRecorder /\ SnapshotFollows /\ JournalFollows
  BY DEF OneRecorder, SnapshotFollows, JournalFollows
<1> QED
  BY <1>1, <1>2, <1>3, <1>4 DEF RecordingInv, RecordingType

LEMMA RecordingKeeps ==
  ASSUME RecordingInv, [Next]_vars
  PROVE  RecordingInv'
<1>1. CASE Main
  <2>1. CASE InvalidToggle
    BY <2>1, DieKeeps DEF InvalidToggle
  <2> QED
    BY <1>1, <2>1, HandleStartKeeps, HandleLateKeeps, HandleStopKeeps, HandleToggleKeeps
       DEF Main
<1>2. CASE Ingest
  BY <1>2, PersistKeeps, CopyKeeps, ReadyKeeps, RemoveKeeps, RemoveSnapshotKeeps DEF Ingest
<1>3. CASE Kill
  BY <1>3, DieKeeps DEF Kill
<1>4. ASSUME NEW s \in Sessions, Ends(s) PROVE RecordingInv'
  BY <1>4, LeaveKeeps, CompleteKeeps, CompleteLastKeeps, RollKeeps, LastCheckpointKeeps,
     EndKeeps, FinallyKeeps DEF Ends
<1> QED
  BY <1>1, <1>2, <1>3, <1>4, StartKeeps, ControlKeeps, StatusKeeps, WriteKeeps, FillKeeps,
     FailKeeps,
     BeginKeeps, CleanupKeeps, FailFinalizerKeeps, StutterKeeps
     DEF Next

\* Whatever failed, was killed or retried, a stopped recording's package holds
\* every segment its recorder wrote, for any sessions, segments and faults.
THEOREM StoppedStaysWhole == Spec => []StoppedIsWhole
<1>1. RecordingInv => StoppedIsWhole
  BY DEF RecordingInv, CopyIsWhole, Covers, StoppedIsWhole
<1> QED
  BY <1>1, InitRecords, RecordingKeeps, PTL DEF Spec

\* The native storage of a session is removed once its package is Ready and,
\* unless a second stop came, holds all that the recorder completed.
THEOREM RemovalComesAfterTheCopy == Spec => RemovedIsCopied
<1> DEFINE RemovesCopied ==
      \A s \in directories \ directories' :
         /\ package[s].state = "Ready"
         /\ ~abandoned => journal[s] \subseteq package[s].audio
                          /\ recorder[s].pc \in {"finally", "done"}
<1>1. ASSUME RecordingInv, [Next]_vars PROVE RemovesCopied \/ UNCHANGED vars
  <2>1. CASE RemoveDirectory
    BY <1>1, <2>1
       DEF RemoveDirectory, FinalizerGoes, RecordingInv, OnlyReadyIsRemoved, CopyIsWhole,
           Covers, Over
  <2>2. CASE ~RemoveDirectory
    <3>1. directories \subseteq directories'
      BY <1>1, <2>2
         DEF Next, vars, SendControl, Status, Main, HandleStart, HandleLate, HandleStop,
             HandleToggle, InvalidToggle, Kill, Die, FailFinalizer, Ingest, PersistFinalizing,
             CopySegments, PersistReady, RemoveSnapshot, Start, WriteAudio, FillSegment, Ends,
             LeaveLoop, CompleteLast, LastCheckpoint, EndSession, Finally, CompleteSegment,
             RollSegment, FailRecorder, BeginFinalize, BeginCleanup, RecorderOnly
    <3> QED
      BY <3>1, SMTT(30)
  <2> QED
    BY <2>1, <2>2
<1>2. RecordingInv /\ [Next]_vars => [RemovesCopied]_vars
  BY <1>1
<1> QED
  BY <1>2, InitRecords, RecordingKeeps, PTL DEF Spec, RemovedIsCopied

------------------------
(* The desktop session.  It is stated about a running command as well as about *)
(* the state between two commands: Good(w, ...) is what every fallible step of *)
(* a command keeps, so that a fault, or a kill, may come after any of them.    *)

------------------------
(* Numbers, loops and sorts. *)

\* A set of numbers that is not empty has a least one.
LEMMA Smallest ==
    ASSUME NEW T, T \subseteq Nat, T # {}
    PROVE  \E x \in T : \A y \in T : x <= y
<1>1. IsWellFoundedOn(OpToRel(<, Nat), Nat)
  BY NatLessThanWellFounded
<1>2. PICK t \in T : \A u \in T : ~(<<u, t>> \in OpToRel(<, Nat))
  BY <1>1, WFMin
<1>3. \A u \in T : ~(u < t)
  BY <1>2 DEF OpToRel
<1>4. \A u \in T : u \in Nat /\ t \in Nat
  OBVIOUS
<1>5. QED
  BY <1>3, <1>4

\* A set of numbers closed under the successor holds them all.
LEMMA Counting ==
    ASSUME NEW T, 0 \in T, \A n \in Nat : n \in T => n + 1 \in T
    PROVE  Nat \subseteq T
<1> SUFFICES ASSUME Nat \ T # {} PROVE FALSE
  OBVIOUS
<1>1. PICK x \in Nat \ T : \A y \in Nat \ T : x <= y
  BY Smallest
<1>2. x # 0 /\ x - 1 \in Nat /\ (x - 1) + 1 = x
  BY <1>1
<1>3. x - 1 \in T
  BY <1>1, <1>2
<1>4. QED
  BY <1>1, <1>2, <1>3

\* A set of numbers under some bound has a greatest one.
LEMMA Greatest ==
    ASSUME NEW T, T \subseteq Nat, T # {}, NEW b \in Nat, \A x \in T : x <= b
    PROVE  Max(T) \in T /\ \A y \in T : y <= Max(T)
<1> DEFINE Bounds == {n \in Nat : \A x \in T : x <= n}
<1>1. Bounds \subseteq Nat /\ Bounds # {}
  OBVIOUS
<1>2. PICK n \in Bounds : \A k \in Bounds : n <= k
  <2> HIDE DEF Bounds
  <2>1. QED
    BY <1>1, Smallest
<1>3. n \in T
  <2> SUFFICES ASSUME n \notin T PROVE FALSE
    OBVIOUS
  <2>1. PICK x \in T : TRUE
    OBVIOUS
  <2>2. n \in Nat /\ x \in Nat /\ x <= n /\ n # 0
    BY <1>2, <2>1
  <2>3. n - 1 \in Nat /\ \A y \in T : y <= n - 1
    BY <1>2, <2>2
  <2>4. n - 1 \in Bounds
    BY <2>3
  <2>5. n <= n - 1
    BY <1>2, <2>4
  <2>6. QED
    BY <2>2, <2>5
<1>4. \E m \in T : \A y \in T : m >= y
  BY <1>2, <1>3
<1>5. Max(T) \in T /\ \A y \in T : Max(T) >= y
  BY <1>4 DEF Max
<1>6. QED
  BY <1>5

\* The chosen least element is one of the set, and least.
LEMMA Least ==
    ASSUME NEW T, T \subseteq Nat, T # {}
    PROVE  Min(T) \in T /\ \A y \in T : Min(T) <= y
BY Smallest DEF Min

\* The values of a finite sequence of numbers have a bound.
LEMMA Bounded ==
    ASSUME NEW m \in Nat, NEW f \in [1 .. m -> Nat]
    PROVE  \E b \in Nat : \A i \in 1 .. m : f[i] <= b
<1> DEFINE T == {n \in Nat : n <= m => \E b \in Nat : \A i \in 1 .. n : f[i] <= b}
<1>1. 0 \in T
  <2>1. \A i \in 1 .. 0 : f[i] <= 0
    OBVIOUS
  <2>2. QED
    BY <2>1
<1>2. ASSUME NEW n \in Nat, n \in T PROVE n + 1 \in T
  <2> SUFFICES ASSUME n + 1 <= m PROVE \E b \in Nat : \A i \in 1 .. n + 1 : f[i] <= b
    OBVIOUS
  <2>1. PICK b \in Nat : \A i \in 1 .. n : f[i] <= b
    BY <1>2
  <2>2. f[n + 1] \in Nat
    OBVIOUS
  <2>3. \A i \in 1 .. n + 1 : i \in 1 .. n \/ i = n + 1
    OBVIOUS
  <2>4. b + f[n + 1] \in Nat /\ \A i \in 1 .. n + 1 : f[i] <= b + f[n + 1]
    BY <2>1, <2>2, <2>3
  <2>5. QED
    BY <2>4
<1>3. Nat \subseteq T
  <2> HIDE DEF T
  <2>1. QED
    BY <1>1, <1>2, Counting
<1>4. m \in T
  BY <1>3
<1>5. QED
  BY <1>4

\* The states of a loop exist, for a body that keeps a set.
LEMMA LoopExists ==
    ASSUME NEW D, NEW a \in D, NEW m \in Nat, NEW S \in [1 .. m -> [D -> D]]
    PROVE  \E f \in [0 .. m -> D] : /\ f[0] = a
                                    /\ \A n \in 1 .. m : f[n] = S[n][f[n - 1]]
<1> DEFINE Run(k) == \E f \in [0 .. k -> D] : f[0] = a /\ \A n \in 1 .. k : f[n] = S[n][f[n - 1]]
           T == {k \in Nat : k <= m => Run(k)}
<1>1. 0 \in T
  <2> DEFINE f == [n \in 0 .. 0 |-> a]
  <2>1. f \in [0 .. 0 -> D] /\ f[0] = a /\ 1 .. 0 = {}
    OBVIOUS
  <2>2. QED
    BY <2>1
<1>2. ASSUME NEW k \in Nat, k \in T PROVE k + 1 \in T
  <2> SUFFICES ASSUME k + 1 <= m PROVE Run(k + 1)
    OBVIOUS
  <2>0. Run(k)
    BY <1>2
  <2>1. PICK f \in [0 .. k -> D] : f[0] = a /\ \A n \in 1 .. k : f[n] = S[n][f[n - 1]]
    BY <2>0
  <2> DEFINE g == [n \in 0 .. k + 1 |-> IF n <= k THEN f[n] ELSE S[k + 1][f[k]]]
  <2>2. f[k] \in D /\ k + 1 \in 1 .. m
    BY <2>1
  <2>3. S[k + 1][f[k]] \in D
    BY <2>2
  <2>4. g \in [0 .. k + 1 -> D]
    BY <2>1, <2>3
  <2>5. g[0] = a
    BY <2>1
  <2>6. ASSUME NEW n \in 1 .. k + 1 PROVE g[n] = S[n][g[n - 1]]
    <3>1. CASE n <= k
      BY <2>1, <3>1
    <3>2. CASE n = k + 1
      BY <2>1, <3>2
    <3>3. QED
      BY <3>1, <3>2
  <2>7. QED
    BY <2>4, <2>5, <2>6
<1>3. Nat \subseteq T
  <2> HIDE DEF T
  <2>1. QED
    BY <1>1, <1>2, Counting
<1>4. m \in T
  BY <1>3
<1>5. QED
  BY <1>4

\* Sorting keeps the gaps: no more, no less.
LEMMA SortedKeeps ==
    ASSUME NEW gaps \in Seq(Gaps), NEW chosen, chosen \subseteq DOMAIN gaps
    PROVE  /\ Sorted(gaps, chosen) \in Seq(Gaps)
           /\ \A k \in DOMAIN Sorted(gaps, chosen) : \E i \in chosen : Sorted(gaps, chosen)[k] = gaps[i]
           /\ \A i \in chosen : \E k \in DOMAIN Sorted(gaps, chosen) : Sorted(gaps, chosen)[k] = gaps[i]
<1> DEFINE n == Cardinality(chosen)
           Lower(i) == {j \in chosen : Before(gaps, j, i)}
           place == [i \in chosen |-> Cardinality(Lower(i)) + 1]
<1>1. IsFiniteSet(chosen) /\ n \in Nat
  <2>1. Len(gaps) \in Int /\ DOMAIN gaps = 1 .. Len(gaps)
    OBVIOUS
  <2>2. IsFiniteSet(1 .. Len(gaps))
    BY <2>1, FS_Interval
  <2>3. IsFiniteSet(chosen)
    BY <2>1, <2>2, FS_Subset
  <2>4. QED
    BY <2>3, FS_CardinalityType
<1>2. \A i \in chosen : i \in Nat /\ gaps[i] \in Gaps /\ gaps[i].from \in Nat
  <2>1. \A i \in chosen : i \in Nat /\ gaps[i] \in Gaps
    OBVIOUS
  <2>2. QED
    BY <2>1 DEF Gaps
<1>3. ASSUME NEW i \in chosen
      PROVE  /\ IsFiniteSet(Lower(i)) /\ Cardinality(Lower(i)) \in Nat
             /\ Cardinality(Lower(i)) < n
  <2>1. i \notin Lower(i)
    BY <1>2 DEF Before
  <2>2. Lower(i) \in SUBSET chosen /\ Lower(i) # chosen
    BY <2>1
  <2> HIDE DEF Lower
  <2>3. /\ IsFiniteSet(Lower(i)) /\ Cardinality(Lower(i)) <= n
        /\ (n = Cardinality(Lower(i)) => chosen = Lower(i))
    BY <1>1, <2>2, FS_Subset
  <2>4. Cardinality(Lower(i)) \in Nat
    BY <2>3, FS_CardinalityType
  <2>5. QED
    BY <1>1, <2>2, <2>3, <2>4
<1>4. ASSUME NEW i \in chosen, NEW j \in chosen, Before(gaps, i, j)
      PROVE  place[i] < place[j]
  <2>1. \A k \in Lower(i) : Before(gaps, k, j) /\ k \in chosen
    BY <1>2, <1>4 DEF Before
  <2>2. i \in Lower(j) /\ i \notin Lower(i) /\ Lower(i) \subseteq Lower(j)
    BY <1>2, <1>4, <2>1 DEF Before
  <2>3. /\ IsFiniteSet(Lower(j)) /\ Cardinality(Lower(i)) \in Nat
        /\ Cardinality(Lower(j)) \in Nat
    BY <1>3
  <2>4. place[i] = Cardinality(Lower(i)) + 1 /\ place[j] = Cardinality(Lower(j)) + 1
    OBVIOUS
  <2> HIDE DEF Lower, place
  <2>5. /\ Cardinality(Lower(i)) <= Cardinality(Lower(j))
        /\ (Cardinality(Lower(j)) = Cardinality(Lower(i)) => Lower(j) = Lower(i))
    BY <2>2, <2>3, FS_Subset
  <2>6. QED
    BY <2>2, <2>3, <2>4, <2>5
<1>5. place \in Injection(chosen, 1 .. n)
  <2>1. ASSUME NEW i \in chosen PROVE place[i] \in 1 .. n
    <3>1. place[i] = Cardinality(Lower(i)) + 1
      OBVIOUS
    <3> HIDE DEF place, Lower, n
    <3>2. QED
      BY <1>1, <1>3, <3>1
  <2>2. place \in [chosen -> 1 .. n]
    BY <2>1
  <2>3. ASSUME NEW i \in chosen, NEW j \in chosen, i # j PROVE place[i] # place[j]
    <3>1. Before(gaps, i, j) \/ Before(gaps, j, i)
      BY <1>2, <2>3 DEF Before
    <3>2. place[i] \in 1 .. n /\ place[j] \in 1 .. n
      BY <2>1
    <3> HIDE DEF place
    <3>3. QED
      BY <1>4, <3>1, <3>2
  <2> HIDE DEF place
  <2>4. QED
    BY <2>2, <2>3 DEF Injection, IsInjective
<1>6. place \in Surjection(chosen, 1 .. n)
  <2>1. IsFiniteSet(1 .. n) /\ Cardinality(1 .. n) = n
    BY <1>1, FS_Interval
  <2> HIDE DEF place
  <2>2. QED
    BY <1>1, <1>5, <2>1, FS_Injection
<1> DEFINE at == [k \in 1 .. n |-> CHOOSE i \in chosen : Cardinality(Lower(i)) + 1 = k]
<1>7. \A k \in 1 .. n : at[k] \in chosen /\ place[at[k]] = k
  <2>1. \A i \in chosen : place[i] = Cardinality(Lower(i)) + 1
    OBVIOUS
  <2> HIDE DEF place, Lower
  <2>2. \A k \in 1 .. n : \E i \in chosen : place[i] = k
    BY <1>6 DEF Surjection
  <2>3. QED
    BY <2>1, <2>2
<1>8. \A i \in chosen : place[i] \in 1 .. n /\ at[place[i]] = i
  <2>1. \A i \in chosen : place[i] \in 1 .. n
    BY <1>5 DEF Injection
  <2> HIDE DEF place, at
  <2>2. \A i, j \in chosen : place[i] = place[j] => i = j
    BY <1>5 DEF Injection, IsInjective
  <2>3. QED
    BY <1>7, <2>1, <2>2
<1>9. Sorted(gaps, chosen) = [k \in 1 .. n |-> gaps[at[k]]]
  <2>1. Sorted(gaps, chosen) =
           [k \in 1 .. n |-> gaps[CHOOSE i \in chosen : Cardinality(Lower(i)) + 1 = k]]
    BY DEF Sorted
  <2> HIDE DEF Lower, n
  <2>2. QED
    BY <2>1
<1>10. \A k \in 1 .. n : gaps[at[k]] \in Gaps
  BY <1>2, <1>7
<1> HIDE DEF at, place, n
<1>11. [k \in 1 .. n |-> gaps[at[k]]] \in Seq(Gaps)
  BY <1>1, <1>10
<1>12. QED
  BY <1>7, <1>8, <1>9, <1>11

------------------------
(* The invariant. *)

TrackStates == [from: Nat \cup {Unset}, sequence: Nat, reported: BOOLEAN]

\* Every instant from "from" to "end" was recorded or is in a gap.
Covered(from, segments, gaps, end) ==
    \A t \in Nat : from <= t /\ t < end => Within(t, segments) \/ Within(t, gaps)

Quiet(segments, gaps) == \A t \in Nat : Within(t, segments) => ~Marked(t, gaps)

\* A snapshot that may be recovered: covered to the end of every segment.
Kept(s) ==
    /\ s \in Snapshots
    /\ \A i \in 1 .. Len(s.segments) :
        Covered(s.started, s.segments, s.gaps, s.segments[i].to)
    /\ Quiet(s.segments, s.gaps)

Saved(e) ==
    /\ e \in Envelopes
    /\ Covered(e.from, e.segments, e.gaps, e.to)
    /\ Quiet(e.segments, e.gaps)

EndsBy(s, t) == \A i \in 1 .. Len(s.segments) : s.segments[i].to <= t

MarkedBy(s, t) ==
    \A i \in 1 .. Len(s.gaps) : s.gaps[i].kind # "device" => s.gaps[i].to <= t

Reaches(s, t) == Covered(s.started, s.segments, s.gaps, t) /\ MarkedBy(s, t)

PhaseAgrees(s) ==
    /\ s.phase = "recording" <=> s.segmentStart # Unset
    /\ s.phase \in {"paused", "sourceLost"} <=> s.pausedAt # Unset

\* A close that failed midway leaves segments that end after segmentStart: then
\* no worker has a segment open from there, so that no close can succeed again.
Ready(s, workers) ==
    EndsBy(s, s.segmentStart) \/ \A r \in Roles : workers[r].from # s.segmentStart

Recording(s, workers) ==
    s.segmentStart # Unset => Reaches(s, s.segmentStart) /\ Ready(s, workers)

Halted(s, now) ==
    s.pausedAt # Unset =>
        s.pausedAt <= now /\ Reaches(s, s.pausedAt) /\ EndsBy(s, s.pausedAt)

Live(s, workers, now) ==
    Kept(s) /\ PhaseAgrees(s) /\ Recording(s, workers) /\ Halted(s, now)

Extends(a, b) == Len(a) <= Len(b) /\ \A i \in 1 .. Len(a) : a[i] = b[i]

\* The durable snapshot and the envelope of the recording in memory.
Stored(d, e, s) ==
    /\ d # Unset => Kept(d) /\ Extends(d.segments, s.segments)
    /\ e # Unset => /\ Saved(e) /\ e.segments = s.segments
                    /\ s.segmentStart = Unset /\ s.pausedAt = Unset

Waiting(signals, now) ==
    signals \subseteq Signals /\ IsFiniteSet(signals) /\ \A g \in signals : g.from <= now

CaptureInv ==
    /\ time \in Nat
    /\ activeSession \in Recordings \cup {Unset}
    /\ tracks \in [Roles -> TrackStates]
    /\ Waiting(queue, time)
    /\ durable \in [Recordings -> Snapshots \cup {Unset}]
    /\ envelope \in [Recordings -> Envelopes \cup {Unset}]
    /\ \A x \in Recordings :
        /\ durable[x] # Unset => Kept(durable[x])
        /\ envelope[x] # Unset =>
            /\ Saved(envelope[x])
            /\ durable[x] # Unset /\ Extends(durable[x].segments, envelope[x].segments)
    /\ activeSession # Unset =>
        /\ Live(snap, tracks, time)
        /\ durable[activeSession] # Unset
        /\ Stored(durable[activeSession], envelope[activeSession], snap)

------------------------
(* Gaps and segments. *)

\* "new" has the gaps of "old", with some faults of a device merged or added.
Refill(old, new) ==
    /\ old \in Seq(Gaps) /\ new \in Seq(Gaps)
    /\ \A i \in 1 .. Len(new) : new[i].kind # "device" =>
        \E j \in 1 .. Len(old) : old[j] = new[i]
    /\ \A j \in 1 .. Len(old) : \E i \in 1 .. Len(new) :
        new[i].from <= old[j].from /\ old[j].to <= new[i].to

\* A gap of a list of gaps has two ends.
LEMMA GapTypes ==
    ASSUME NEW gaps \in Seq(Gaps), NEW i \in 1 .. Len(gaps)
    PROVE  gaps[i] \in Gaps /\ gaps[i].from \in Nat /\ gaps[i].to \in Nat
<1>1. gaps[i] \in Gaps
  OBVIOUS
<1>2. QED
  BY <1>1 DEF Gaps

\* The same gaps refill themselves.
LEMMA RefillSame ==
    ASSUME NEW gaps \in Seq(Gaps)
    PROVE  Refill(gaps, gaps)
BY GapTypes DEF Refill

\* Sorting the gaps by their start refills them.
LEMMA RefillSorted ==
    ASSUME NEW gaps \in Seq(Gaps)
    PROVE  Refill(gaps, ByStart(gaps))
<1> DEFINE new == Sorted(gaps, DOMAIN gaps)
<1>1. ByStart(gaps) = new
  BY DEF ByStart
<1>2. /\ new \in Seq(Gaps)
      /\ \A k \in DOMAIN new : \E i \in DOMAIN gaps : new[k] = gaps[i]
      /\ \A i \in DOMAIN gaps : \E k \in DOMAIN new : new[k] = gaps[i]
  BY SortedKeeps
<1>3. DOMAIN new = 1 .. Len(new) /\ DOMAIN gaps = 1 .. Len(gaps)
  BY <1>2
<1>4. \A j \in 1 .. Len(gaps) : gaps[j].from \in Nat /\ gaps[j].to \in Nat
  BY GapTypes
<1> HIDE DEF new
<1>5. \A j \in 1 .. Len(gaps) : \E i \in 1 .. Len(new) :
        new[i].from <= gaps[j].from /\ gaps[j].to <= new[i].to
  <2> SUFFICES ASSUME NEW j \in 1 .. Len(gaps)
               PROVE  \E i \in 1 .. Len(new) :
                        new[i].from <= gaps[j].from /\ gaps[j].to <= new[i].to
    OBVIOUS
  <2>1. PICK i \in 1 .. Len(new) : new[i] = gaps[j]
    BY <1>2, <1>3
  <2>2. QED
    BY <1>4, <2>1
<1>6. QED
  BY <1>1, <1>2, <1>3, <1>5, SMTT(30) DEF Refill

\* Inserting a gap, with the merges it causes, refills the gaps there were.
LEMMA RefillInsert ==
    ASSUME NEW gaps \in Seq(Gaps), NEW from \in Nat, NEW to \in Nat
    PROVE  Refill(gaps, InsertGap(gaps, from, to))
<1> DEFINE met  == {i \in DOMAIN gaps : /\ gaps[i].kind = "device"
                                        /\ from < gaps[i].to /\ gaps[i].from < to}
           starts == {from} \cup {gaps[i].from : i \in met}
           ends == {to} \cup {gaps[i].to : i \in met}
           hull == [kind |-> "device", from |-> Min(starts), to |-> Max(ends)]
           all == Append(gaps, hull)
           new == Sorted(all, DOMAIN all \ met)
<1>1. InsertGap(gaps, from, to) = new
  BY DEF InsertGap
<1>2. \A i \in 1 .. Len(gaps) : gaps[i].from \in Nat /\ gaps[i].to \in Nat
  BY GapTypes
<1>3. met \subseteq 1 .. Len(gaps) /\ Len(gaps) \in Nat
  OBVIOUS
<1>4. Min(starts) \in Nat /\ \A i \in met : Min(starts) <= gaps[i].from
  <2> HIDE DEF met
  <2>1. starts \subseteq Nat /\ starts # {}
    BY <1>2, <1>3
  <2>2. \A i \in met : gaps[i].from \in starts
    OBVIOUS
  <2> HIDE DEF starts
  <2>3. QED
    BY <2>1, <2>2, Least
<1>5. Max(ends) \in Nat /\ \A i \in met : gaps[i].to <= Max(ends)
  <2> DEFINE f == [i \in 1 .. Len(gaps) |-> gaps[i].to]
  <2>1. f \in [1 .. Len(gaps) -> Nat]
    BY <1>2
  <2>2. PICK b \in Nat : \A i \in 1 .. Len(gaps) : f[i] <= b
    <3> HIDE DEF f
    <3>1. QED
      BY <1>3, <2>1, Bounded
  <2>3. \A i \in 1 .. Len(gaps) : gaps[i].to <= b
    BY <2>2
  <2> HIDE DEF met, f
  <2>4. ends \subseteq Nat /\ ends # {} /\ \A x \in ends : x <= b + to
    BY <1>2, <1>3, <2>3
  <2>5. \A i \in met : gaps[i].to \in ends
    OBVIOUS
  <2>6. b + to \in Nat
    OBVIOUS
  <2> HIDE DEF ends
  <2>7. QED
    BY <2>4, <2>5, <2>6, Greatest
<1> DEFINE n == Len(gaps)
<1>6. hull \in Gaps
  BY <1>4, <1>5 DEF Gaps
<1>7. /\ all \in Seq(Gaps) /\ DOMAIN all = 1 .. n + 1
      /\ all[n + 1] = hull /\ \A i \in 1 .. n : all[i] = gaps[i]
  <2> HIDE DEF hull
  <2>1. QED
    BY <1>6
<1>8. /\ hull.kind = "device"
      /\ \A i \in met : hull.from <= gaps[i].from /\ gaps[i].to <= hull.to
  BY <1>4, <1>5
<1>9. \A i \in met : gaps[i].kind = "device"
  OBVIOUS
<1> HIDE DEF hull, all, met, starts, ends
<1> DEFINE chosen == DOMAIN all \ met
<1>10. /\ new \in Seq(Gaps)
       /\ \A k \in DOMAIN new : \E i \in chosen : new[k] = all[i]
       /\ \A i \in chosen : \E k \in DOMAIN new : new[k] = all[i]
  <2>1. chosen \subseteq DOMAIN all
    OBVIOUS
  <2>2. new = Sorted(all, chosen)
    OBVIOUS
  <2> HIDE DEF chosen, new
  <2>3. QED
    BY <1>7, <2>1, <2>2, SortedKeeps
<1>11. chosen = {i \in 1 .. n + 1 : i \notin met} /\ n + 1 \in chosen
  BY <1>3, <1>7
<1> HIDE DEF new, chosen
<1>12. DOMAIN new = 1 .. Len(new)
  BY <1>10
<1>13. ASSUME NEW i \in 1 .. Len(new), new[i].kind # "device"
       PROVE  \E j \in 1 .. n : gaps[j] = new[i]
  <2>1. PICK j \in chosen : new[i] = all[j]
    BY <1>10, <1>12
  <2>2. j # n + 1
    BY <1>7, <1>8, <1>13, <2>1
  <2>3. j \in 1 .. n
    BY <1>3, <1>11, <2>2
  <2>4. QED
    BY <1>7, <2>1, <2>3
<1>14. ASSUME NEW j \in 1 .. n
       PROVE  \E i \in 1 .. Len(new) : new[i].from <= gaps[j].from /\ gaps[j].to <= new[i].to
  <2>1. CASE j \in met
    <3>1. PICK i \in 1 .. Len(new) : new[i] = hull
      BY <1>7, <1>10, <1>11, <1>12
    <3>2. QED
      BY <1>8, <2>1, <3>1
  <2>2. CASE j \notin met
    <3>1. PICK i \in 1 .. Len(new) : new[i] = gaps[j]
      <4>1. j \in chosen /\ all[j] = gaps[j]
        BY <1>3, <1>7, <1>11, <2>2
      <4>2. QED
        BY <1>10, <1>12, <4>1
    <3>2. QED
      BY <1>2, <3>1
  <2>3. QED
    BY <2>1, <2>2
<1>15. QED
  BY <1>1, <1>10, <1>13, <1>14 DEF Refill

\* Refilled gaps hold every instant of the old ones and mark no other.
LEMMA RefillWithin ==
    ASSUME NEW old, NEW new, Refill(old, new), NEW t \in Nat
    PROVE  (Within(t, old) => Within(t, new)) /\ (Marked(t, new) => Marked(t, old))
<1>1. old \in Seq(Gaps) /\ new \in Seq(Gaps)
  BY DEF Refill
<1>2. /\ \A j \in 1 .. Len(old) : old[j].from \in Nat /\ old[j].to \in Nat
      /\ \A i \in 1 .. Len(new) : new[i].from \in Nat /\ new[i].to \in Nat
  BY <1>1, GapTypes
<1>3. ASSUME Within(t, old) PROVE Within(t, new)
  <2>1. PICK j \in 1 .. Len(old) : old[j].from <= t /\ t < old[j].to
    BY <1>3 DEF Within
  <2>2. PICK i \in 1 .. Len(new) : new[i].from <= old[j].from /\ old[j].to <= new[i].to
    BY DEF Refill
  <2>3. new[i].from <= t /\ t < new[i].to
    BY <1>2, <2>1, <2>2
  <2>4. QED
    BY <2>3 DEF Within
<1>4. ASSUME Marked(t, new) PROVE Marked(t, old)
  BY <1>4 DEF Marked, Refill
<1>5. QED
  BY <1>3, <1>4

\* What an update of the snapshot that keeps its segments and its gaps keeps.
LEMMA SameAudio ==
    ASSUME NEW s, Kept(s), NEW u \in Snapshots, u.started = s.started,
           u.segments = s.segments, Refill(s.gaps, u.gaps)
    PROVE  /\ Kept(u)
           /\ \A t \in Nat : /\ Reaches(s, t) => Reaches(u, t)
                             /\ EndsBy(s, t) => EndsBy(u, t)
<1>1. ASSUME NEW e PROVE Covered(s.started, s.segments, s.gaps, e)
                         => Covered(u.started, u.segments, u.gaps, e)
  BY RefillWithin DEF Covered
<1>2. Quiet(u.segments, u.gaps)
  BY RefillWithin DEF Kept, Quiet
<1>3. Kept(u)
  BY <1>1, <1>2 DEF Kept
<1>4. ASSUME NEW t \in Nat, Reaches(s, t) PROVE Reaches(u, t)
  <2>1. MarkedBy(u, t)
    BY <1>4 DEF Reaches, MarkedBy, Refill
  <2>2. QED
    BY <1>1, <1>4, <2>1 DEF Reaches
<1>5. QED
  BY <1>3, <1>4 DEF EndsBy

------------------------
(* Snapshots. *)

\* The fields of a snapshot.
LEMMA SnapTypes ==
    ASSUME NEW s \in Snapshots
    PROVE  /\ s.started \in Nat /\ s.notices \in Nat
           /\ s.segmentStart \in Nat \cup {Unset} /\ s.pausedAt \in Nat \cup {Unset}
           /\ s.segments \in Seq(AudioSegments) /\ s.gaps \in Seq(Gaps)
BY DEF Snapshots

\* Updates of a snapshot by name.
SegmentsSet(s, list) == [s EXCEPT !.segments = list]

GapsSet(s, list) == [s EXCEPT !.gaps = list]

\* A snapshot with other segments.
LEMMA SnapSegments ==
    ASSUME NEW s \in Snapshots, NEW list \in Seq(AudioSegments), NEW u,
           u = SegmentsSet(s, list)
    PROVE  /\ u \in Snapshots /\ u.segments = list
           /\ u.started = s.started /\ u.gaps = s.gaps /\ u.phase = s.phase
           /\ u.segmentStart = s.segmentStart /\ u.pausedAt = s.pausedAt
BY DEF Snapshots, SegmentsSet

\* A snapshot with other gaps.
LEMMA SnapGaps ==
    ASSUME NEW s \in Snapshots, NEW list \in Seq(Gaps), NEW u,
           u = GapsSet(s, list)
    PROVE  /\ u \in Snapshots /\ u.gaps = list
           /\ u.started = s.started /\ u.segments = s.segments /\ u.phase = s.phase
           /\ u.segmentStart = s.segmentStart /\ u.pausedAt = s.pausedAt
           /\ u.notices = s.notices
BY DEF Snapshots, GapsSet

\* The fields of a segment of a list.
LEMMA SegmentTypes ==
    ASSUME NEW list \in Seq(AudioSegments), NEW i \in 1 .. Len(list)
    PROVE  list[i] \in AudioSegments /\ list[i].from \in Nat /\ list[i].to \in Nat
<1>1. list[i] \in AudioSegments
  OBVIOUS
<1>2. QED
  BY <1>1 DEF AudioSegments

\* A snapshot is as live as another that differs in its gaps, refilled.
LEMMA LiveSame ==
    ASSUME NEW s, NEW workers, NEW now, Live(s, workers, now),
           NEW u \in Snapshots, u.started = s.started, u.segments = s.segments,
           Refill(s.gaps, u.gaps), u.phase = s.phase,
           u.segmentStart = s.segmentStart, u.pausedAt = s.pausedAt
    PROVE  Live(u, workers, now)
<1>1. Kept(s) /\ s \in Snapshots
  BY DEF Live, Kept
<1>2. /\ Kept(u)
      /\ \A t \in Nat : /\ Reaches(s, t) => Reaches(u, t)
                        /\ EndsBy(s, t) => EndsBy(u, t)
  BY <1>1, SameAudio
<1>3. PhaseAgrees(u)
  BY DEF Live, PhaseAgrees
<1>4. Recording(u, workers)
  BY <1>1, <1>2, SnapTypes DEF Live, Recording, Ready
<1>5. Halted(u, now)
  BY <1>1, <1>2, SnapTypes DEF Live, Halted
<1>6. QED
  BY <1>2, <1>3, <1>4, <1>5 DEF Live

\* A recording covered to an instant may pause, or lose its source, there.
LEMMA LiveHalted ==
    ASSUME NEW s, Kept(s), NEW at \in Nat, Reaches(s, at), EndsBy(s, at),
           NEW workers, NEW now, at <= now,
           NEW u \in Snapshots, u.started = s.started, u.segments = s.segments,
           u.gaps = s.gaps, u.phase \in {"paused", "sourceLost"},
           u.segmentStart = Unset, u.pausedAt = at
    PROVE  Live(u, workers, now)
<1>1. Refill(s.gaps, u.gaps)
  BY SnapTypes, RefillSame DEF Kept
<1>2. Kept(u) /\ Reaches(u, at) /\ EndsBy(u, at)
  BY <1>1, SameAudio
<1>3. at # Unset
  BY CaptureAssumption
<1>4. QED
  BY <1>2, <1>3 DEF Live, PhaseAgrees, Recording, Halted

\* A recording that is kept may end.
LEMMA LiveEnded ==
    ASSUME NEW s, Kept(s), NEW workers, NEW now,
           NEW u \in Snapshots, u.started = s.started, u.segments = s.segments,
           u.gaps = s.gaps, u.phase \in {"interrupted", "finalizing", "stopped"},
           u.segmentStart = Unset, u.pausedAt = Unset
    PROVE  Live(u, workers, now)
<1>1. Refill(s.gaps, u.gaps)
  BY SnapTypes, RefillSame DEF Kept
<1>2. Kept(u)
  BY <1>1, SameAudio
<1>3. QED
  BY <1>2 DEF Live, PhaseAgrees, Recording, Halted

\* A recording covered to an instant may open its next segment there.
LEMMA LiveOpened ==
    ASSUME NEW s, Kept(s), NEW at \in Nat, Reaches(s, at), EndsBy(s, at),
           NEW workers, NEW now,
           NEW u \in Snapshots, u.started = s.started, u.segments = s.segments,
           u.gaps = s.gaps, u.phase = "recording",
           u.segmentStart = at, u.pausedAt = Unset
    PROVE  Live(u, workers, now)
<1>1. Refill(s.gaps, u.gaps)
  BY SnapTypes, RefillSame DEF Kept
<1>2. Kept(u) /\ Reaches(u, at) /\ EndsBy(u, at)
  BY <1>1, SameAudio
<1>3. at # Unset
  BY CaptureAssumption
<1>4. QED
  BY <1>2, <1>3 DEF Live, PhaseAgrees, Recording, Halted, Ready

\* The gap of a pause or of a lost source closes what the stop of the workers left.
LEMMA GapCloses ==
    ASSUME NEW s, NEW workers, NEW now \in Nat, Live(s, workers, now),
           s.phase \in {"paused", "sourceLost"}, NEW u, u = WithGap(s, now)
    PROVE  /\ u \in Snapshots /\ Kept(u) /\ Reaches(u, now) /\ EndsBy(u, now)
           /\ u.started = s.started /\ u.segments = s.segments /\ u.phase = s.phase
           /\ u.notices = s.notices
<1>1. Kept(s) /\ s \in Snapshots
  BY DEF Live, Kept
<1>2. s.pausedAt # Unset /\ s.pausedAt \in Nat
  BY <1>1, SnapTypes DEF Live, PhaseAgrees
<1>3. s.pausedAt <= now /\ Reaches(s, s.pausedAt) /\ EndsBy(s, s.pausedAt)
  BY <1>2 DEF Live, Halted
<1>4. CASE now <= s.pausedAt
  <2>1. u = s /\ now = s.pausedAt
    BY <1>2, <1>3, <1>4 DEF WithGap
  <2>2. QED
    BY <1>1, <1>3, <2>1
<1>5. CASE ~(now <= s.pausedAt)
  <2> DEFINE gap == [kind |-> s.phase, from |-> s.pausedAt, to |-> now]
             n == Len(s.gaps)
  <2>1. u = GapsSet(s, Append(s.gaps, gap))
    BY <1>5 DEF WithGap, GapsSet
  <2>2. gap \in Gaps /\ s.gaps \in Seq(Gaps) /\ n \in Nat
    BY <1>1, <1>2, SnapTypes DEF Gaps
  <2>3. gap.kind # "device" /\ gap.from = s.pausedAt /\ gap.to = now
    OBVIOUS
  <2> HIDE DEF gap
  <2>4. /\ u.started = s.started /\ u.segments = s.segments /\ u.phase = s.phase
        /\ u.notices = s.notices /\ u.gaps = Append(s.gaps, gap)
        /\ u.gaps \in Seq(Gaps) /\ u \in Snapshots
    <3>1. Append(s.gaps, gap) \in Seq(Gaps)
      BY <2>2
    <3> DEFINE list == Append(s.gaps, gap)
    <3>2. list \in Seq(Gaps) /\ u = GapsSet(s, list)
      BY <2>1, <3>1
    <3> HIDE DEF list
    <3>3. /\ u \in Snapshots /\ u.gaps = list
          /\ u.started = s.started /\ u.segments = s.segments /\ u.phase = s.phase
          /\ u.notices = s.notices
      BY <1>1, <3>2, SnapGaps
    <3>4. QED
      BY <3>1, <3>3 DEF list
  <2>5. /\ Len(u.gaps) = n + 1 /\ u.gaps[n + 1] = gap
        /\ \A i \in 1 .. n : u.gaps[i] = s.gaps[i]
    BY <2>2, <2>4
  <2>6. \A i \in 1 .. n + 1 : i \in 1 .. n \/ i = n + 1
    BY <2>2
  <2>7. /\ 1 .. n \subseteq 1 .. n + 1 /\ n + 1 \in 1 .. n + 1
    BY <2>2
  <2>8. ASSUME NEW t \in Nat
        PROVE  /\ Within(t, s.gaps) => Within(t, u.gaps)
               /\ s.pausedAt <= t /\ t < now => Within(t, u.gaps)
               /\ Marked(t, u.gaps) => Marked(t, s.gaps) \/ (s.pausedAt <= t /\ t < now)
    <3>1. Within(t, s.gaps) => Within(t, u.gaps)
      BY <2>5, <2>7 DEF Within
    <3>2. s.pausedAt <= t /\ t < now => Within(t, u.gaps)
      BY <2>3, <2>5, <2>7 DEF Within
    <3>3. Marked(t, u.gaps) => Marked(t, s.gaps) \/ (s.pausedAt <= t /\ t < now)
      BY <2>3, <2>5, <2>6, SMTT(30) DEF Marked
    <3>4. QED
      BY <3>1, <3>2, <3>3
  <2>9. ASSUME NEW e PROVE Covered(s.started, s.segments, s.gaps, e)
                           => Covered(u.started, u.segments, u.gaps, e)
    BY <2>4, <2>8 DEF Covered
  <2>10. Covered(u.started, u.segments, u.gaps, now)
    <3> SUFFICES ASSUME NEW t \in Nat, s.started <= t, t < now
                 PROVE  Within(t, u.segments) \/ Within(t, u.gaps)
      BY <2>4 DEF Covered
    <3>1. CASE t < s.pausedAt
      BY <1>3, <2>4, <2>8, <3>1 DEF Reaches, Covered
    <3>2. CASE ~(t < s.pausedAt)
      BY <1>2, <2>8, <3>2
    <3>3. QED
      BY <3>1, <3>2
  <2>11. \A i \in 1 .. Len(s.segments) : s.segments[i].to \in Nat /\ s.segments[i].from \in Nat
    BY <1>1, SnapTypes, SegmentTypes
  <2>12. Quiet(u.segments, u.gaps)
    <3> SUFFICES ASSUME NEW t \in Nat, Within(t, s.segments), Marked(t, u.gaps) PROVE FALSE
      BY <2>4 DEF Quiet
    <3>1. ~Marked(t, s.gaps)
      BY <1>1 DEF Kept, Quiet
    <3>2. s.pausedAt <= t
      BY <2>8, <3>1
    <3>3. PICK i \in 1 .. Len(s.segments) : t < s.segments[i].to
      BY DEF Within
    <3>4. s.segments[i].to <= s.pausedAt
      BY <1>3 DEF EndsBy
    <3>5. QED
      BY <1>2, <2>11, <3>2, <3>3, <3>4
  <2>13. Kept(u)
    BY <1>1, <2>4, <2>9, <2>12 DEF Kept
  <2>14. MarkedBy(u, now)
    <3>1. \A i \in 1 .. n : s.gaps[i].to \in Nat
      BY <2>2, GapTypes
    <3>2. ASSUME NEW i \in 1 .. n, s.gaps[i].kind # "device" PROVE s.gaps[i].to <= now
      <4>1. s.gaps[i].to <= s.pausedAt
        BY <1>3, <3>2 DEF Reaches, MarkedBy
      <4>2. QED
        BY <1>2, <1>3, <3>1, <4>1
    <3>3. ASSUME NEW i \in 1 .. n + 1, u.gaps[i].kind # "device" PROVE u.gaps[i].to <= now
      <4>1. CASE i = n + 1
        BY <1>3, <2>3, <2>5, <4>1
      <4>2. CASE i \in 1 .. n
        <5>1. u.gaps[i] = s.gaps[i]
          BY <2>5, <4>2
        <5>2. QED
          BY <3>2, <3>3, <4>2, <5>1
      <4>3. QED
        BY <2>6, <4>1, <4>2
    <3>4. QED
      BY <2>5, <3>3 DEF MarkedBy
  <2>15. EndsBy(u, now)
    BY <1>2, <1>3, <2>4, <2>11 DEF EndsBy
  <2>16. QED
    BY <2>4, <2>10, <2>13, <2>14, <2>15 DEF Reaches
<1>6. QED
  BY <1>4, <1>5

\* A segment that spans what is open takes the recording to its end.
LEMMA SegmentReaches ==
    ASSUME NEW s, NEW workers, NEW now, Live(s, workers, now), s.segmentStart # Unset,
           NEW at \in Nat, s.segmentStart < at,
           NEW g \in AudioSegments, g.from = s.segmentStart, g.to = at,
           \A r \in Roles : workers[r].from # s.segmentStart,
           NEW u, u = SegmentsSet(s, Append(s.segments, g))
    PROVE  /\ Live(u, workers, now) /\ Reaches(u, at)
           /\ EndsBy(s, at) => EndsBy(u, at)
           /\ Extends(s.segments, u.segments)
<1> DEFINE n == Len(s.segments)
<1>1. Kept(s) /\ s \in Snapshots
  BY DEF Live, Kept
<1>2. s.segmentStart \in Nat /\ s.segments \in Seq(AudioSegments) /\ s.gaps \in Seq(Gaps) /\ n \in Nat
  BY <1>1, SnapTypes
<1>3. Reaches(s, s.segmentStart)
  BY DEF Live, Recording
<1>4. /\ u \in Snapshots /\ u.segments = Append(s.segments, g)
      /\ u.started = s.started /\ u.gaps = s.gaps /\ u.phase = s.phase
      /\ u.segmentStart = s.segmentStart /\ u.pausedAt = s.pausedAt
  <2> DEFINE list == Append(s.segments, g)
  <2>1. list \in Seq(AudioSegments) /\ u = SegmentsSet(s, list)
    BY <1>2 DEF SegmentsSet
  <2> HIDE DEF list
  <2>2. /\ u \in Snapshots /\ u.segments = list
        /\ u.started = s.started /\ u.gaps = s.gaps /\ u.phase = s.phase
        /\ u.segmentStart = s.segmentStart /\ u.pausedAt = s.pausedAt
    BY <1>1, <2>1, SnapSegments
  <2>3. QED
    BY <2>2 DEF list
<1>5. /\ Len(u.segments) = n + 1 /\ u.segments[n + 1] = g
      /\ \A i \in 1 .. n : u.segments[i] = s.segments[i]
  BY <1>2, <1>4
<1>6. /\ \A i \in 1 .. n + 1 : i \in 1 .. n \/ i = n + 1
      /\ 1 .. n \subseteq 1 .. n + 1 /\ n + 1 \in 1 .. n + 1
  BY <1>2
<1>7. ASSUME NEW t \in Nat
      PROVE  /\ Within(t, s.segments) => Within(t, u.segments)
             /\ s.segmentStart <= t /\ t < at => Within(t, u.segments)
             /\ Within(t, u.segments) => Within(t, s.segments) \/ (s.segmentStart <= t /\ t < at)
  <2>1. Within(t, s.segments) => Within(t, u.segments)
    BY <1>5, <1>6 DEF Within
  <2>2. s.segmentStart <= t /\ t < at => Within(t, u.segments)
    BY <1>5, <1>6 DEF Within
  <2>3. Within(t, u.segments) => Within(t, s.segments) \/ (s.segmentStart <= t /\ t < at)
    BY <1>5, <1>6 DEF Within
  <2>4. QED
    BY <2>1, <2>2, <2>3
<1>8. ASSUME NEW e PROVE Covered(s.started, s.segments, s.gaps, e)
                         => Covered(u.started, u.segments, u.gaps, e)
  BY <1>4, <1>7 DEF Covered
<1>9. Covered(u.started, u.segments, u.gaps, at)
  <2> SUFFICES ASSUME NEW t \in Nat, s.started <= t, t < at
               PROVE  Within(t, u.segments) \/ Within(t, u.gaps)
    BY <1>4 DEF Covered
  <2>1. CASE t < s.segmentStart
    BY <1>3, <1>4, <1>7, <2>1 DEF Reaches, Covered
  <2>2. CASE ~(t < s.segmentStart)
    BY <1>2, <1>7, <2>2
  <2>3. QED
    BY <2>1, <2>2
<1>10. \A i \in 1 .. Len(s.gaps) : s.gaps[i].to \in Nat /\ s.gaps[i].from \in Nat
  BY <1>2, GapTypes
<1>11. MarkedBy(s, s.segmentStart) /\ MarkedBy(u, s.segmentStart)
  BY <1>3, <1>4 DEF Reaches, MarkedBy
<1>12. Quiet(u.segments, u.gaps)
  <2> SUFFICES ASSUME NEW t \in Nat, Within(t, u.segments), Marked(t, s.gaps) PROVE FALSE
    BY <1>4 DEF Quiet
  <2>1. ~Within(t, s.segments)
    BY <1>1 DEF Kept, Quiet
  <2>2. s.segmentStart <= t
    BY <1>7, <2>1
  <2>3. PICK i \in 1 .. Len(s.gaps) : s.gaps[i].kind # "device" /\ t < s.gaps[i].to
    BY DEF Marked
  <2>4. s.gaps[i].to <= s.segmentStart
    BY <1>11, <2>3 DEF MarkedBy
  <2>5. QED
    BY <1>2, <1>10, <2>2, <2>3, <2>4
<1>13. Kept(u)
  <2>1. ASSUME NEW i \in 1 .. n + 1
        PROVE  Covered(u.started, u.segments, u.gaps, u.segments[i].to)
    BY <1>1, <1>5, <1>6, <1>8, <1>9 DEF Kept
  <2>2. QED
    BY <1>4, <1>5, <1>12, <2>1 DEF Kept
<1>14. MarkedBy(u, at)
  BY <1>2, <1>4, <1>10, <1>11 DEF MarkedBy
<1>15. Reaches(u, at) /\ Reaches(u, u.segmentStart)
  BY <1>3, <1>4, <1>8, <1>9, <1>11, <1>14 DEF Reaches
<1>16. EndsBy(s, at) => EndsBy(u, at)
  BY <1>5, <1>6 DEF EndsBy
<1>17. Extends(s.segments, u.segments)
  BY <1>2, <1>5 DEF Extends
<1>18. s.pausedAt = Unset
  BY DEF Live, PhaseAgrees
<1>19. QED
  BY <1>4, <1>13, <1>15, <1>16, <1>17, <1>18
     DEF Live, PhaseAgrees, Recording, Ready, Halted

------------------------
(* The steps of a command. *)

Works == [snap: Snapshots, tracks: [Roles -> TrackStates], queue: SUBSET Signals,
          closed: Seq(AudioSegments), durable: Snapshots \cup {Unset},
          envelope: Envelopes \cup {Unset}, fault: Nat, ok: BOOLEAN]

\* "old" is the durable list of segments the command began with.
Good(w, old, now) ==
    /\ w \in Works
    /\ Live(w.snap, w.tracks, now)
    /\ w.durable # Unset /\ Stored(w.durable, w.envelope, w.snap)
    /\ Extends(old, w.durable.segments)
    /\ Waiting(w.queue, now)

\* The same work, but for the segments in hand, the faults to come and success.
Same(u, w) ==
    /\ u.snap = w.snap /\ u.tracks = w.tracks /\ u.queue = w.queue
    /\ u.durable = w.durable /\ u.envelope = w.envelope

\* The fields of the work in hand.
LEMMA WorkTypes ==
    ASSUME NEW w \in Works
    PROVE  /\ w.snap \in Snapshots /\ w.tracks \in [Roles -> TrackStates]
           /\ w.queue \subseteq Signals /\ w.closed \in Seq(AudioSegments)
           /\ w.durable \in Snapshots \cup {Unset}
           /\ w.envelope \in Envelopes \cup {Unset}
           /\ w.fault \in Nat /\ w.ok \in BOOLEAN
BY DEF Works

\* A list of segments extends itself.
LEMMA ExtendsSelf ==
    ASSUME NEW list \in Seq(AudioSegments)
    PROVE  Extends(list, list)
BY DEF Extends

\* What extends an extension extends the first list.
LEMMA ExtendsOn ==
    ASSUME NEW a, Len(a) \in Nat, NEW b \in Seq(AudioSegments), NEW c \in Seq(AudioSegments),
           Extends(a, b), Extends(b, c)
    PROVE  Extends(a, c)
BY DEF Extends

\* Being good does not depend on the closed segments, the fault or success.
LEMMA GoodSame ==
    ASSUME NEW w, NEW old, NEW now, Good(w, old, now), NEW u \in Works, Same(u, w)
    PROVE  Good(u, old, now)
BY DEF Good, Same

\* A failure only records that the command failed.
LEMMA FailedKeeps ==
    ASSUME NEW w \in Works, NEW u, u = Failed(w)
    PROVE  u \in Works /\ Same(u, w) /\ u.closed = w.closed /\ u.ok = FALSE
BY DEF Failed, Works, Same

\* "u" is what a step from "w" to "next" makes, which may have failed.
Stepped(u, w, next) ==
    /\ u \in Works
    /\ \/ ~u.ok /\ Same(u, w) /\ u.closed = w.closed
       \/ w.ok /\ Same(u, next) /\ u.closed = next.closed /\ u.ok = next.ok

\* No step follows a failure.
LEMMA StepFails ==
    ASSUME NEW w \in Works, NEW next, ~w.ok, NEW u, u = Step(w, next)
    PROVE  Stepped(u, w, next)
<1>1. u = Failed(w)
  BY DEF Step
<1>2. u \in Works /\ Same(u, w) /\ u.closed = w.closed /\ u.ok = FALSE
  BY <1>1, FailedKeeps
<1>3. QED
  BY <1>2 DEF Stepped

\* A fallible step does its work or fails with nothing done.
LEMMA StepKeeps ==
    ASSUME NEW w \in Works, NEW next \in Works, NEW u, u = Step(w, next)
    PROVE  Stepped(u, w, next)
<1>1. CASE ~w.ok \/ w.fault = 1
  <2>1. u = Failed(w)
    BY <1>1 DEF Step
  <2>2. u \in Works /\ Same(u, w) /\ u.closed = w.closed /\ u.ok = FALSE
    BY <2>1, FailedKeeps
  <2>3. QED
    BY <2>2 DEF Stepped
<1>2. CASE ~(~w.ok \/ w.fault = 1)
  <2> DEFINE fault == IF w.fault = 0 THEN 0 ELSE w.fault - 1
  <2>1. fault \in Nat
    BY WorkTypes
  <2>2. u = [next EXCEPT !.fault = fault]
    BY <1>2 DEF Step
  <2> HIDE DEF fault
  <2>3. u \in Works /\ Same(u, next) /\ u.closed = next.closed /\ u.ok = next.ok
    BY <2>1, <2>2 DEF Works, Same
  <2>4. QED
    BY <1>2, <2>3 DEF Stepped
<1>3. QED
  BY <1>1, <1>2

\* A fallible step between two good works is good, whether or not it fails.
LEMMA StepGood ==
    ASSUME NEW w, NEW old, NEW now, Good(w, old, now),
           NEW next, w.ok => Good(next, old, now), NEW u, u = Step(w, next)
    PROVE  Good(u, old, now) /\ Stepped(u, w, next)
<1>1. w \in Works
  BY DEF Good
<1>2. Stepped(u, w, next)
  <2>1. CASE ~w.ok
    BY <1>1, <2>1, StepFails
  <2>2. CASE w.ok
    <3>1. next \in Works
      BY <2>2 DEF Good
    <3>2. QED
      BY <1>1, <3>1, StepKeeps
  <2>3. QED
    BY <2>1, <2>2
<1>3. QED
  BY <1>2, GoodSame DEF Stepped

\* The append to the journal of events may fail and changes nothing here.
LEMMA JournalGood ==
    ASSUME NEW w, NEW old, NEW now, Good(w, old, now), NEW u, u = JournalEvent(w)
    PROVE  Good(u, old, now) /\ Same(u, w) /\ (u.ok => w.ok)
<1>1. u = Step(w, w)
  BY DEF JournalEvent
<1>2. Good(u, old, now) /\ Stepped(u, w, w)
  BY <1>1, StepGood
<1>3. QED
  BY <1>2 DEF Stepped

\* An assignment of the snapshot in memory.
LEMMA SetGood ==
    ASSUME NEW w, NEW old, NEW now, Good(w, old, now), NEW s,
           w.ok => Live(s, w.tracks, now) /\ Stored(w.durable, w.envelope, s),
           NEW u, u = Set(w, s)
    PROVE  /\ Good(u, old, now)
           /\ u.ok <=> w.ok
           /\ u.ok => u.snap = s
           /\ u.tracks = w.tracks /\ u.queue = w.queue
           /\ u.durable = w.durable /\ u.envelope = w.envelope
<1>1. w \in Works
  BY DEF Good
<1>2. CASE w.ok
  <2>1. u = [w EXCEPT !.snap = s] /\ s \in Snapshots
    BY <1>2 DEF Set, Live, Kept
  <2>2. /\ u \in Works /\ u.snap = s /\ u.tracks = w.tracks /\ u.queue = w.queue
        /\ u.durable = w.durable /\ u.envelope = w.envelope /\ u.ok = w.ok
    BY <1>1, <2>1 DEF Works
  <2>3. QED
    BY <1>2, <2>2 DEF Good
<1>3. CASE ~w.ok
  BY <1>3 DEF Set
<1>4. QED
  BY <1>2, <1>3

\* Storing the snapshot: the file then holds what is in memory, or what it held.
LEMMA PersistGood ==
    ASSUME NEW w, NEW old, NEW now, Len(old) \in Nat, Good(w, old, now), NEW u, u = Persist(w)
    PROVE  /\ Good(u, old, now)
           /\ u.ok => w.ok
           /\ u.snap = w.snap /\ u.tracks = w.tracks /\ u.queue = w.queue
           /\ u.envelope = w.envelope
<1>1. w \in Works
  BY DEF Good
<1>2. CASE ~(w.ok /\ Valid(w.snap))
  <2>1. u = Failed(w)
    BY <1>2 DEF Persist
  <2>2. u \in Works /\ Same(u, w) /\ u.ok = FALSE
    BY <1>1, <2>1, FailedKeeps
  <2>3. QED
    BY <2>2, GoodSame DEF Same
<1>3. CASE w.ok /\ Valid(w.snap)
  <2> DEFINE next == [w EXCEPT !.durable = w.snap]
  <2>1. u = Step(w, next)
    BY <1>3 DEF Persist
  <2>2. w.snap \in Snapshots /\ w.snap # Unset
    BY <1>1, WorkTypes, CaptureAssumption
  <2>3. /\ next \in Works /\ next.snap = w.snap /\ next.tracks = w.tracks
        /\ next.queue = w.queue /\ next.durable = w.snap /\ next.envelope = w.envelope
        /\ next.ok = w.ok
    BY <1>1, <2>2 DEF Works
  <2> HIDE DEF next
  <2>4. Kept(w.snap) /\ Extends(w.snap.segments, w.snap.segments)
    BY <2>2, SnapTypes, ExtendsSelf DEF Good, Live
  <2>5. Stored(next.durable, next.envelope, next.snap)
    BY <2>3, <2>4 DEF Good, Stored
  <2>6. Extends(old, w.snap.segments)
    <3>1. Extends(old, w.durable.segments) /\ Extends(w.durable.segments, w.snap.segments)
      BY DEF Good, Stored
    <3>2. w.durable \in Snapshots
      BY <1>1, WorkTypes DEF Good
    <3>3. w.durable.segments \in Seq(AudioSegments) /\ w.snap.segments \in Seq(AudioSegments)
      BY <2>2, <3>2, SnapTypes
    <3>4. QED
      BY <3>1, <3>3, ExtendsOn
  <2>7. Good(next, old, now)
    BY <2>2, <2>3, <2>5, <2>6 DEF Good
  <2>8. Good(u, old, now) /\ Stepped(u, w, next)
    BY <2>1, <2>7, StepGood
  <2>9. QED
    BY <2>3, <2>8 DEF Stepped, Same
<1>4. QED
  BY <1>2, <1>3

\* A guard of a command: it holds from there on, or the command failed.
LEMMA RequireGood ==
    ASSUME NEW w, NEW old, NEW now, Good(w, old, now), NEW condition \in BOOLEAN,
           NEW u, u = Require(w, condition)
    PROVE  Good(u, old, now) /\ Same(u, w) /\ (u.ok => w.ok /\ condition)
<1>1. CASE condition
  BY <1>1 DEF Require, Same
<1>2. CASE ~condition
  <2>1. w \in Works /\ u = Failed(w)
    BY <1>2 DEF Require, Good
  <2>2. u \in Works /\ Same(u, w) /\ u.ok = FALSE
    BY <2>1, FailedKeeps
  <2>3. QED
    BY <2>2, GoodSame
<1>3. QED
  BY <1>1, <1>2

------------------------
(* Closing the workers' segments. *)

Tracked(u, w, r, track) ==
    /\ u \in Works /\ u.tracks[r] = track
    /\ \A q \in Roles : q # r => u.tracks[q] = w.tracks[q]
    /\ u.snap = w.snap /\ u.queue = w.queue /\ u.closed = w.closed /\ u.ok = w.ok
    /\ u.durable = w.durable /\ u.envelope = w.envelope

\* An update of one track of the work in hand.
LEMMA WithTrackKeeps ==
    ASSUME NEW w \in Works, NEW r \in Roles, NEW track \in TrackStates,
           NEW u, u = WithTrack(w, r, track)
    PROVE  Tracked(u, w, r, track)
<1>1. w.tracks \in [Roles -> TrackStates]
  BY WorkTypes
<1> DEFINE all == [w.tracks EXCEPT ![r] = track]
<1>2. /\ all \in [Roles -> TrackStates] /\ all[r] = track
      /\ \A q \in Roles : q # r => all[q] = w.tracks[q]
  BY <1>1
<1>3. u = [w EXCEPT !.tracks = all]
  BY DEF WithTrack
<1> HIDE DEF all
<1>4. u \in Works /\ u.tracks = all
  BY <1>2, <1>3 DEF Works
<1>5. /\ u.snap = w.snap /\ u.queue = w.queue /\ u.closed = w.closed /\ u.ok = w.ok
      /\ u.durable = w.durable /\ u.envelope = w.envelope
  BY <1>3 DEF Works
<1>6. QED
  BY <1>2, <1>4, <1>5 DEF Tracked

\* An update of the closed segments of the work in hand.
LEMMA WithClosedKeeps ==
    ASSUME NEW w \in Works, NEW g \in AudioSegments, NEW u, u = WithClosed(w, g)
    PROVE  u \in Works /\ Same(u, w) /\ u.closed = Append(w.closed, g) /\ u.ok = w.ok
<1> DEFINE list == Append(w.closed, g)
<1>1. list \in Seq(AudioSegments)
  BY WorkTypes
<1>2. u = [w EXCEPT !.closed = list]
  BY DEF WithClosed
<1> HIDE DEF list
<1>3. u \in Works /\ Same(u, w) /\ u.closed = list /\ u.ok = w.ok
  BY <1>1, <1>2 DEF Works, Same
<1>4. QED
  BY <1>3 DEF list

\* A worker that gives up its segment, or opens one.
LEMMA TrackTypes ==
    ASSUME NEW track \in TrackStates, NEW at \in Nat \cup {Unset}
    PROVE  /\ [track EXCEPT !.from = at] \in TrackStates
           /\ [track EXCEPT !.from = at].from = at
           /\ [track EXCEPT !.reported = FALSE] \in TrackStates
           /\ [track EXCEPT !.reported = FALSE].from = track.from
           /\ [track EXCEPT !.reported = TRUE] \in TrackStates
           /\ [track EXCEPT !.reported = TRUE].from = track.from
           /\ NextSegment(track, at) \in TrackStates
           /\ NextSegment(track, at).from = at
<1>1. /\ [track EXCEPT !.from = at] \in TrackStates
      /\ [track EXCEPT !.from = at].from = at
  BY DEF TrackStates
<1>2. /\ [track EXCEPT !.reported = FALSE] \in TrackStates
      /\ [track EXCEPT !.reported = FALSE].from = track.from
  BY DEF TrackStates
<1>3. /\ [track EXCEPT !.reported = TRUE] \in TrackStates
      /\ [track EXCEPT !.reported = TRUE].from = track.from
  BY DEF TrackStates
<1>4. NextSegment(track, at) \in TrackStates /\ NextSegment(track, at).from = at
  <2> DEFINE sequence == track.sequence + 1
  <2>1. sequence \in Nat
    BY DEF TrackStates
  <2>2. NextSegment(track, at) = [track EXCEPT !.from = at, !.sequence = sequence]
    BY DEF NextSegment
  <2> HIDE DEF sequence
  <2>3. QED
    BY <2>1, <2>2 DEF TrackStates
<1>5. QED
  BY <1>1, <1>2, <1>3, <1>4

\* Closing one track: its segment is finished, or it gives up.
LEMMA CloseTrackKeeps ==
    ASSUME NEW w \in Works, NEW r \in Roles, NEW reason, NEW at \in Nat,
           NEW u, u = CloseTrack(w, r, reason, at)
    PROVE  /\ u \in Works
           /\ u.snap = w.snap /\ u.queue = w.queue
           /\ u.durable = w.durable /\ u.envelope = w.envelope
           /\ \A q \in Roles : q # r => u.tracks[q] = w.tracks[q]
           /\ u.tracks[r].from \in {w.tracks[r].from, Unset, at}
           /\ \/ ~u.ok /\ u.closed = w.closed
              \/ /\ u.ok /\ w.ok /\ u.tracks[r].from \in {Unset, at}
                 /\ \E g \in AudioSegments : /\ g.from = w.tracks[r].from /\ g.from < at
                                        /\ g.to = at /\ u.closed = Append(w.closed, g)
<1> DEFINE open == w.tracks[r]
           lost == [open EXCEPT !.from = Unset]
           taken == WithTrack(w, r, lost)
           segment == [role |-> r, sequence |-> open.sequence, from |-> open.from, to |-> at]
           done == WithClosed(taken, segment)
           track == NextSegment(open, at)
           rolled == WithTrack(done, r, track)
           next == IF reason = "rolling" THEN rolled ELSE done
<1>1. u = IF ~w.ok \/ open.from = Unset THEN Failed(w)
          ELSE IF ~Finishes(open.from, at) \/ w.fault = 1 THEN Failed(taken)
          ELSE Step(w, next)
  BY DEF CloseTrack
<1>2. /\ open \in TrackStates /\ open.from \in Nat \cup {Unset} /\ open.sequence \in Nat
      /\ w.ok \in BOOLEAN /\ w.closed \in Seq(AudioSegments)
  BY WorkTypes DEF TrackStates
<1>3. /\ lost \in TrackStates /\ lost.from = Unset
      /\ track \in TrackStates /\ track.from = at
  <2> HIDE DEF open
  <2>1. QED
    BY <1>2, TrackTypes
<1> HIDE DEF lost, track
<1>4. /\ taken \in Works /\ taken.tracks[r].from = Unset
      /\ \A q \in Roles : q # r => taken.tracks[q] = w.tracks[q]
      /\ taken.snap = w.snap /\ taken.queue = w.queue /\ taken.closed = w.closed
      /\ taken.ok = w.ok /\ taken.durable = w.durable /\ taken.envelope = w.envelope
  <2>1. taken = WithTrack(w, r, lost)
    OBVIOUS
  <2> HIDE DEF taken
  <2>2. Tracked(taken, w, r, lost)
    BY <1>3, <2>1, WithTrackKeeps
  <2>3. QED
    BY <1>3, <2>2 DEF Tracked
<1>5. done = WithClosed(taken, segment) /\ rolled = WithTrack(done, r, track)
  OBVIOUS
<1>6. next = IF reason = "rolling" THEN rolled ELSE done
  OBVIOUS
<1> HIDE DEF taken, done, rolled, next
<1>7. CASE ~w.ok \/ open.from = Unset
  <2>1. u = Failed(w)
    BY <1>1, <1>7
  <2>2. u \in Works /\ Same(u, w) /\ u.closed = w.closed /\ u.ok = FALSE
    BY <2>1, FailedKeeps
  <2>3. QED
    BY <2>2 DEF Same
<1>8. CASE ~(~w.ok \/ open.from = Unset) /\ (~Finishes(open.from, at) \/ w.fault = 1)
  <2>1. u = Failed(taken)
    BY <1>1, <1>8
  <2>2. u \in Works /\ Same(u, taken) /\ u.closed = taken.closed /\ u.ok = FALSE
    BY <1>4, <2>1, FailedKeeps
  <2>3. QED
    BY <1>4, <2>2 DEF Same
<1>9. CASE ~(~w.ok \/ open.from = Unset) /\ ~(~Finishes(open.from, at) \/ w.fault = 1)
  <2>1. w.ok = TRUE /\ open.from \in Nat /\ open.from < at
    BY <1>2, <1>9 DEF Finishes
  <2>2. /\ segment \in AudioSegments /\ segment.from = open.from /\ segment.to = at
    BY <1>2, <2>1 DEF AudioSegments
  <2>3. u = Step(w, next)
    BY <1>1, <1>9
  <2> HIDE DEF segment
  <2>4. /\ done \in Works /\ Same(done, taken) /\ done.closed = Append(w.closed, segment)
        /\ done.ok = w.ok
    <3>1. /\ done \in Works /\ Same(done, taken)
          /\ done.closed = Append(taken.closed, segment) /\ done.ok = taken.ok
      BY <1>4, <1>5, <2>2, WithClosedKeeps
    <3>2. QED
      BY <1>4, <3>1
  <2>5. /\ done.tracks[r].from = Unset
        /\ \A q \in Roles : q # r => done.tracks[q] = w.tracks[q]
        /\ done.snap = w.snap /\ done.queue = w.queue
        /\ done.durable = w.durable /\ done.envelope = w.envelope
    BY <1>4, <2>4 DEF Same
  <2>6. /\ rolled \in Works /\ rolled.tracks[r].from = at
        /\ \A q \in Roles : q # r => rolled.tracks[q] = w.tracks[q]
        /\ rolled.snap = w.snap /\ rolled.queue = w.queue
        /\ rolled.durable = w.durable /\ rolled.envelope = w.envelope
        /\ rolled.closed = Append(w.closed, segment) /\ rolled.ok = w.ok
    <3>1. Tracked(rolled, done, r, track)
      BY <1>3, <1>5, <2>4, WithTrackKeeps
    <3>2. QED
      BY <1>3, <2>4, <2>5, <3>1 DEF Tracked
  <2>7. /\ next \in Works /\ next.tracks[r].from \in {Unset, at}
        /\ \A q \in Roles : q # r => next.tracks[q] = w.tracks[q]
        /\ next.snap = w.snap /\ next.queue = w.queue
        /\ next.durable = w.durable /\ next.envelope = w.envelope
        /\ next.closed = Append(w.closed, segment) /\ next.ok = w.ok
    BY <1>6, <2>4, <2>5, <2>6
  <2>8. Stepped(u, w, next)
    BY <2>3, <2>7, StepKeeps
  <2>9. CASE ~u.ok /\ Same(u, w) /\ u.closed = w.closed
    BY <2>8, <2>9 DEF Stepped, Same
  <2>10. CASE w.ok /\ Same(u, next) /\ u.closed = next.closed /\ u.ok = next.ok
    <3>1. /\ u.snap = w.snap /\ u.queue = w.queue
          /\ u.durable = w.durable /\ u.envelope = w.envelope
          /\ \A q \in Roles : q # r => u.tracks[q] = w.tracks[q]
          /\ u.tracks[r].from \in {Unset, at}
          /\ u.ok /\ w.ok /\ u.closed = Append(w.closed, segment)
      BY <2>7, <2>10 DEF Same
    <3>2. \E g \in AudioSegments : /\ g.from = w.tracks[r].from /\ g.from < at
                              /\ g.to = at /\ u.closed = Append(w.closed, g)
      BY <2>1, <2>2, <3>1
    <3>3. QED
      BY <2>8, <3>1, <3>2 DEF Stepped
  <2>11. QED
    BY <2>8, <2>9, <2>10 DEF Stepped
<1>10. QED
  BY <1>7, <1>8, <1>9

------------------------
(* Loops over the workers. *)

\* The states of the loop that closes the tracks.
LEMMA CloseTracksLoop ==
    ASSUME NEW w, NEW reason, NEW at, NEW D, [w EXCEPT !.closed = <<>>] \in D, Len(Tracks) \in Nat,
           \A n \in 1 .. Len(Tracks), x \in D : CloseTrack(x, Tracks[n], reason, at) \in D
    PROVE  \E f : /\ CloseTracks(w, reason, at) = f[Len(Tracks)]
                  /\ f[0] = [w EXCEPT !.closed = <<>>]
                  /\ \A n \in 1 .. Len(Tracks) : f[n] = CloseTrack(f[n - 1], Tracks[n], reason, at)
<1> DEFINE m == Len(Tracks)
           a == [w EXCEPT !.closed = <<>>]
           S == [n \in 1 .. m |-> [x \in D |-> CloseTrack(x, Tracks[n], reason, at)]]
           Is(f) == f = [n \in 0 .. m |-> IF n = 0 THEN a ELSE CloseTrack(f[n - 1], Tracks[n], reason, at)]
           after == CHOOSE f : Is(f)
<1>1. S \in [1 .. m -> [D -> D]] /\ m \in Nat /\ a \in D
  OBVIOUS
<1>2. PICK f \in [0 .. m -> D] : f[0] = a /\ \A n \in 1 .. m : f[n] = S[n][f[n - 1]]
  <2> HIDE DEF S, m, a
  <2>1. QED
    BY <1>1, LoopExists
<1>3. \A n \in 1 .. m : f[n - 1] \in D /\ S[n][f[n - 1]] = CloseTrack(f[n - 1], Tracks[n], reason, at)
  <2>1. \A n \in 1 .. m : n - 1 \in 0 .. m
    BY <1>1
  <2>2. \A n \in 1 .. m, x \in D : S[n][x] = CloseTrack(x, Tracks[n], reason, at)
    OBVIOUS
  <2> HIDE DEF S, m, a
  <2>3. QED
    BY <1>2, <2>1, <2>2
<1>4. Is(f)
  <2> DEFINE h == [n \in 0 .. m |-> IF n = 0 THEN a ELSE CloseTrack(f[n - 1], Tracks[n], reason, at)]
  <2> HIDE DEF S, m, a
  <2>1. \A n \in 0 .. m : n # 0 => n \in 1 .. m
    BY <1>1
  <2>2. ASSUME NEW n \in 0 .. m PROVE f[n] = h[n]
    <3>1. CASE n = 0
      BY <1>2, <3>1
    <3>2. CASE n # 0
      BY <1>2, <1>3, <2>1, <3>2
    <3>3. QED
      BY <3>1, <3>2
  <2>3. f = [n \in 0 .. m |-> f[n]] /\ h = [n \in 0 .. m |-> h[n]]
    BY <1>2
  <2> HIDE DEF h
  <2>4. f = h
    BY <2>2, <2>3
  <2>5. QED
    BY <2>4 DEF h
<1>5. Is(after)
  BY <1>4
<1>6. CloseTracks(w, reason, at) = after[m]
  BY DEF CloseTracks
<1>7. after[0] = a /\ \A n \in 1 .. m : after[n] = CloseTrack(after[n - 1], Tracks[n], reason, at)
  <2> DEFINE h == [n \in 0 .. m |-> IF n = 0 THEN a ELSE CloseTrack(after[n - 1], Tracks[n], reason, at)]
  <2>1. after = h
    BY <1>5
  <2> HIDE DEF after, a, m
  <2>2. 0 \in 0 .. m /\ \A n \in 1 .. m : n \in 0 .. m /\ n # 0
    BY <1>1
  <2>3. h[0] = a /\ \A n \in 1 .. m : h[n] = CloseTrack(after[n - 1], Tracks[n], reason, at)
    BY <2>2
  <2> HIDE DEF h
  <2>4. QED
    BY <2>1, <2>3
<1>8. QED
  BY <1>6, <1>7

\* After n workers: what they gave up was open before, and ends where asked.
Closing(x, w, at, n) ==
    /\ x \in Works /\ x.snap = w.snap /\ x.queue = w.queue
    /\ x.durable = w.durable /\ x.envelope = w.envelope
    /\ \A q \in Roles : x.tracks[q].from \in {w.tracks[q].from, Unset, at}
    /\ \A i \in 1 .. Len(x.closed) :
        /\ x.closed[i].to = at /\ x.closed[i].from < at
        /\ \E q \in Roles : x.closed[i].from = w.tracks[q].from
    /\ x.ok => /\ w.ok /\ Len(x.closed) = n
               /\ \A i \in 1 .. n : x.tracks[Tracks[i]].from \in {Unset, at}

\* The list of tracks names every role, and nothing else.
LEMMA TracksTypes ==
    /\ Len(Tracks) \in Nat /\ Len(Tracks) # 0
    /\ \A n \in 1 .. Len(Tracks) : Tracks[n] \in Roles
    /\ \A r \in Roles : \E n \in 1 .. Len(Tracks) : Tracks[n] = r
BY CaptureAssumption DEF Roles, ToSet

\* One more track is closed.
LEMMA ClosingNext ==
    ASSUME NEW w \in Works, NEW at \in Nat, NEW reason, NEW n \in Nat, n + 1 \in 1 .. Len(Tracks),
           NEW x, Closing(x, w, at, n), NEW u, u = CloseTrack(x, Tracks[n + 1], reason, at)
    PROVE  Closing(u, w, at, n + 1)
<1> DEFINE r == Tracks[n + 1]
<1>1. x \in Works /\ r \in Roles
  BY TracksTypes DEF Closing
<1>2. u = CloseTrack(x, r, reason, at)
  OBVIOUS
<1> HIDE DEF r
<1>3. /\ u \in Works
      /\ u.snap = x.snap /\ u.queue = x.queue
      /\ u.durable = x.durable /\ u.envelope = x.envelope
      /\ \A q \in Roles : q # r => u.tracks[q] = x.tracks[q]
      /\ u.tracks[r].from \in {x.tracks[r].from, Unset, at}
      /\ \/ ~u.ok /\ u.closed = x.closed
         \/ /\ u.ok /\ x.ok /\ u.tracks[r].from \in {Unset, at}
            /\ \E g \in AudioSegments : /\ g.from = x.tracks[r].from /\ g.from < at
                                   /\ g.to = at /\ u.closed = Append(x.closed, g)
  BY <1>1, <1>2, CloseTrackKeeps
<1>4. /\ u.snap = w.snap /\ u.queue = w.queue
      /\ u.durable = w.durable /\ u.envelope = w.envelope
  BY <1>3 DEF Closing
<1>5. \A q \in Roles : u.tracks[q].from \in {w.tracks[q].from, Unset, at}
  <2>1. \A q \in Roles : x.tracks[q].from \in {w.tracks[q].from, Unset, at}
    BY DEF Closing
  <2>2. \A q \in Roles : u.tracks[q].from \in {x.tracks[q].from, Unset, at}
    BY <1>3, SMTT(30)
  <2>3. QED
    BY <2>1, <2>2
<1>6. CASE ~u.ok /\ u.closed = x.closed
  BY <1>3, <1>4, <1>5, <1>6, SMTT(30) DEF Closing
<1>7. CASE u.ok /\ x.ok /\ u.tracks[r].from \in {Unset, at}
           /\ \E g \in AudioSegments : /\ g.from = x.tracks[r].from /\ g.from < at
                                  /\ g.to = at /\ u.closed = Append(x.closed, g)
  <2>1. PICK g \in AudioSegments : /\ g.from = x.tracks[r].from /\ g.from < at
                              /\ g.to = at /\ u.closed = Append(x.closed, g)
    BY <1>7
  <2>2. w.ok /\ Len(x.closed) = n /\ x.closed \in Seq(AudioSegments)
    BY <1>1, <1>7, WorkTypes DEF Closing
  <2>3. /\ Len(u.closed) = n + 1 /\ u.closed[n + 1] = g
        /\ \A i \in 1 .. n : u.closed[i] = x.closed[i]
    BY <2>1, <2>2
  <2>4. \A i \in 1 .. n + 1 : i \in 1 .. n \/ i = n + 1
    OBVIOUS
  <2>5. g.from = w.tracks[r].from
    <3>1. g.from \in Nat /\ g.from # Unset
      BY CaptureAssumption DEF AudioSegments
    <3>2. g.from \in {w.tracks[r].from, Unset, at}
      BY <1>1, <2>1 DEF Closing
    <3>3. QED
      BY <2>1, <3>1, <3>2
  <2>6. ASSUME NEW i \in 1 .. n + 1
        PROVE  /\ u.closed[i].to = at /\ u.closed[i].from < at
               /\ \E q \in Roles : u.closed[i].from = w.tracks[q].from
    <3>1. CASE i \in 1 .. n
      BY <2>2, <2>3, <3>1 DEF Closing
    <3>2. CASE i = n + 1
      BY <1>1, <2>1, <2>3, <2>5, <3>2
    <3>3. QED
      BY <2>4, <3>1, <3>2
  <2>7. ASSUME NEW i \in 1 .. n + 1 PROVE u.tracks[Tracks[i]].from \in {Unset, at}
    <3>1. CASE Tracks[i] = r
      BY <1>7, <3>1
    <3>2. CASE Tracks[i] # r
      <4>1. i \in 1 .. n
        BY <2>4, <3>2 DEF r
      <4>2. Tracks[i] \in Roles
        BY TracksTypes
      <4>3. x.tracks[Tracks[i]].from \in {Unset, at}
        BY <1>7, <4>1 DEF Closing
      <4>4. QED
        BY <1>3, <3>2, <4>2, <4>3
    <3>3. QED
      BY <3>1, <3>2
  <2>8. QED
    BY <1>3, <1>4, <1>5, <2>2, <2>3, <2>6, <2>7 DEF Closing
<1>8. QED
  BY <1>3, <1>6, <1>7

\* Every track is closed, or the command fails with some of them closed.
LEMMA CloseTracksKeeps ==
    ASSUME NEW w \in Works, NEW at \in Nat, NEW reason, NEW c, c = CloseTracks(w, reason, at)
    PROVE  Closing(c, w, at, Len(Tracks))
<1> DEFINE m == Len(Tracks)
           none == <<>>
           a == [w EXCEPT !.closed = none]
<1>1. a \in Works /\ Same(a, w) /\ a.ok = w.ok /\ a.closed = <<>>
  <2>1. none \in Seq(AudioSegments)
    OBVIOUS
  <2> HIDE DEF none
  <2>2. a \in Works /\ Same(a, w) /\ a.ok = w.ok /\ a.closed = none
    BY <2>1 DEF Works, Same
  <2>3. QED
    BY <2>2 DEF none
<1>2. m \in Nat
  BY TracksTypes
<1>3. \A n \in 1 .. m, x \in Works : CloseTrack(x, Tracks[n], reason, at) \in Works
  BY TracksTypes, CloseTrackKeeps
<1>4. PICK f : /\ c = f[m] /\ f[0] = a
               /\ \A n \in 1 .. m : f[n] = CloseTrack(f[n - 1], Tracks[n], reason, at)
  BY <1>1, <1>2, <1>3, CloseTracksLoop
<1> DEFINE T == {n \in Nat : n <= m => Closing(f[n], w, at, n)}
<1>5. 0 \in T
  <2>1. Closing(a, w, at, 0)
    <3> HIDE DEF a
    <3>1. Len(a.closed) = 0 /\ 1 .. 0 = {}
      BY <1>1
    <3>2. QED
      BY <1>1, <3>1 DEF Closing, Same
  <2>2. QED
    BY <1>4, <2>1
<1>6. ASSUME NEW n \in Nat, n \in T PROVE n + 1 \in T
  <2> SUFFICES ASSUME n + 1 <= m PROVE Closing(f[n + 1], w, at, n + 1)
    OBVIOUS
  <2>1. n + 1 \in 1 .. m /\ (n + 1) - 1 = n /\ n <= m
    BY <1>2
  <2>2. Closing(f[n], w, at, n)
    BY <1>6, <2>1
  <2>3. f[n + 1] = CloseTrack(f[n], Tracks[n + 1], reason, at)
    BY <1>4, <2>1
  <2>4. QED
    BY <2>1, <2>2, <2>3, ClosingNext
<1>7. Nat \subseteq T
  <2> HIDE DEF T
  <2>1. QED
    BY <1>5, <1>6, Counting
<1>8. m \in T
  BY <1>2, <1>7
<1>9. QED
  BY <1>2, <1>4, <1>8

------------------------
(* Taking the closed segments. *)

\* The states of the loop that takes the closed segments.
LEMMA TakeSegmentsLoop ==
    ASSUME NEW w, NEW at, NEW D, w \in D, Len(w.closed) \in Nat,
           \A n \in 1 .. Len(w.closed), x \in D : TakeSegment(x, w.closed[n], at) \in D
    PROVE  \E f : /\ TakeSegments(w, at) = f[Len(w.closed)]
                  /\ f[0] = w
                  /\ \A n \in 1 .. Len(w.closed) : f[n] = TakeSegment(f[n - 1], w.closed[n], at)
<1> DEFINE m == Len(w.closed)
           S == [n \in 1 .. m |-> [x \in D |-> TakeSegment(x, w.closed[n], at)]]
           Is(f) == f = [n \in 0 .. m |-> IF n = 0 THEN w ELSE TakeSegment(f[n - 1], w.closed[n], at)]
           after == CHOOSE f : Is(f)
<1>1. S \in [1 .. m -> [D -> D]] /\ m \in Nat /\ w \in D
  OBVIOUS
<1>2. PICK f \in [0 .. m -> D] : f[0] = w /\ \A n \in 1 .. m : f[n] = S[n][f[n - 1]]
  <2> HIDE DEF S, m
  <2>1. QED
    BY <1>1, LoopExists
<1>3. \A n \in 1 .. m : f[n - 1] \in D /\ S[n][f[n - 1]] = TakeSegment(f[n - 1], w.closed[n], at)
  <2>1. \A n \in 1 .. m : n - 1 \in 0 .. m
    BY <1>1
  <2>2. \A n \in 1 .. m, x \in D : S[n][x] = TakeSegment(x, w.closed[n], at)
    OBVIOUS
  <2> HIDE DEF S, m
  <2>3. QED
    BY <1>2, <2>1, <2>2
<1>4. Is(f)
  <2> DEFINE h == [n \in 0 .. m |-> IF n = 0 THEN w ELSE TakeSegment(f[n - 1], w.closed[n], at)]
  <2> HIDE DEF S, m
  <2>1. \A n \in 0 .. m : n # 0 => n \in 1 .. m
    BY <1>1
  <2>2. ASSUME NEW n \in 0 .. m PROVE f[n] = h[n]
    <3>1. CASE n = 0
      BY <1>2, <3>1
    <3>2. CASE n # 0
      BY <1>2, <1>3, <2>1, <3>2
    <3>3. QED
      BY <3>1, <3>2
  <2>3. f = [n \in 0 .. m |-> f[n]] /\ h = [n \in 0 .. m |-> h[n]]
    BY <1>2
  <2> HIDE DEF h
  <2>4. f = h
    BY <2>2, <2>3
  <2>5. QED
    BY <2>4 DEF h
<1>5. Is(after)
  BY <1>4
<1>6. TakeSegments(w, at) = after[m]
  BY DEF TakeSegments
<1>7. after[0] = w /\ \A n \in 1 .. m : after[n] = TakeSegment(after[n - 1], w.closed[n], at)
  <2> DEFINE h == [n \in 0 .. m |-> IF n = 0 THEN w ELSE TakeSegment(after[n - 1], w.closed[n], at)]
  <2>1. after = h
    BY <1>5
  <2> HIDE DEF after, m
  <2>2. 0 \in 0 .. m /\ \A n \in 1 .. m : n \in 0 .. m /\ n # 0
    BY <1>1
  <2>3. h[0] = w /\ \A n \in 1 .. m : h[n] = TakeSegment(after[n - 1], w.closed[n], at)
    BY <2>2
  <2> HIDE DEF h
  <2>4. QED
    BY <2>1, <2>3
<1>8. QED
  BY <1>6, <1>7

\* The snapshot differs in its segments and its notices only.
Shape(u, s) ==
    /\ u.started = s.started /\ u.gaps = s.gaps /\ u.phase = s.phase
    /\ u.segmentStart = s.segmentStart /\ u.pausedAt = s.pausedAt

\* No worker of a close that succeeds has what it closed still open.
Released(w) == w.ok => \A r \in Roles : w.tracks[r].from # w.snap.segmentStart

\* "u" has taken the segment, or has failed.
Took(u, w, g, at) ==
    /\ u.tracks = w.tracks /\ u.queue = w.queue /\ Shape(u.snap, w.snap)
    /\ \/ ~u.ok /\ u.snap = w.snap
       \/ /\ u.ok /\ w.ok /\ g.from = w.snap.segmentStart
          /\ Reaches(u.snap, at) /\ (EndsBy(w.snap, at) => EndsBy(u.snap, at))

\* A segment that is taken takes the recording to its end.
LEMMA TakeSegmentGood ==
    ASSUME NEW w, NEW old, NEW now, Good(w, old, now), NEW at \in Nat,
           w.snap.segmentStart # Unset, w.snap.segmentStart < at, Released(w),
           NEW g \in AudioSegments, NEW u, u = TakeSegment(w, g, at)
    PROVE  Good(u, old, now) /\ Took(u, w, g, at)
<1>1. w \in Works
  BY DEF Good
<1>2. CASE ~w.ok \/ g.from # w.snap.segmentStart \/ g.to # at
  <2>1. u = Failed(w)
    BY <1>2 DEF TakeSegment
  <2>2. u \in Works /\ Same(u, w) /\ u.ok = FALSE
    BY <1>1, <2>1, FailedKeeps
  <2>3. Good(u, old, now)
    BY <2>2, GoodSame
  <2>4. QED
    BY <2>2, <2>3 DEF Took, Same, Shape
<1>3. CASE ~(~w.ok \/ g.from # w.snap.segmentStart \/ g.to # at)
  <2> DEFINE s == SegmentsSet(w.snap, Append(w.snap.segments, g))
             next == [w EXCEPT !.snap = s]
  <2>1. u = Step(w, next)
    BY <1>3 DEF TakeSegment, SegmentsSet
  <2>2. Live(w.snap, w.tracks, now) /\ Stored(w.durable, w.envelope, w.snap)
    BY DEF Good
  <2>3. \A r \in Roles : w.tracks[r].from # w.snap.segmentStart
    BY <1>3 DEF Released
  <2>4. /\ Live(s, w.tracks, now) /\ Reaches(s, at)
        /\ EndsBy(w.snap, at) => EndsBy(s, at)
        /\ Extends(w.snap.segments, s.segments)
    <3> HIDE DEF s
    <3>1. s = SegmentsSet(w.snap, Append(w.snap.segments, g))
      BY DEF s
    <3>2. g.from = w.snap.segmentStart /\ g.to = at
      BY <1>3
    <3>3. QED
      BY <2>2, <2>3, <3>1, <3>2, SegmentReaches
  <2>5. w.snap \in Snapshots /\ w.durable \in Snapshots
    BY <1>1, WorkTypes DEF Good
  <2>6. /\ s \in Snapshots /\ Shape(s, w.snap) /\ s.segments \in Seq(AudioSegments)
    <3>1. Append(w.snap.segments, g) \in Seq(AudioSegments)
      BY <2>5, SnapTypes
    <3> DEFINE list == Append(w.snap.segments, g)
    <3>2. s = SegmentsSet(w.snap, list) /\ list \in Seq(AudioSegments)
      BY <3>1
    <3> HIDE DEF s, list
    <3>3. QED
      BY <2>5, <3>2, SnapSegments DEF Shape
  <2> HIDE DEF s
  <2>7. Stored(w.durable, w.envelope, s)
    <3>1. w.envelope = Unset
      BY <2>2 DEF Stored
    <3>2. Extends(w.durable.segments, w.snap.segments) /\ Kept(w.durable)
      BY <2>2 DEF Stored, Good
    <3>3. /\ w.durable.segments \in Seq(AudioSegments) /\ w.snap.segments \in Seq(AudioSegments)
      BY <2>5, SnapTypes
    <3>4. Len(w.durable.segments) \in Nat
      BY <3>3
    <3>5. Extends(w.durable.segments, s.segments)
      BY <2>4, <2>6, <3>2, <3>3, <3>4, ExtendsOn
    <3>6. QED
      BY <3>1, <3>2, <3>5 DEF Stored
  <2>8. /\ next \in Works /\ next.snap = s /\ next.tracks = w.tracks
        /\ next.queue = w.queue /\ next.durable = w.durable
        /\ next.envelope = w.envelope /\ next.ok = w.ok
    BY <1>1, <2>6 DEF Works
  <2> HIDE DEF next
  <2>9. Good(next, old, now)
    BY <2>4, <2>7, <2>8 DEF Good
  <2>10. Good(u, old, now) /\ Stepped(u, w, next)
    BY <2>1, <2>9, StepGood
  <2>11. CASE ~u.ok /\ Same(u, w)
    BY <2>10, <2>11 DEF Took, Same, Shape
  <2>12. CASE w.ok /\ Same(u, next) /\ u.ok = next.ok
    <3>1. /\ u.snap = s /\ u.tracks = w.tracks /\ u.queue = w.queue /\ u.ok
      BY <2>8, <2>12 DEF Same
    <3>2. g.from = w.snap.segmentStart
      BY <1>3
    <3>3. QED
      BY <2>4, <2>6, <2>10, <2>12, <3>1, <3>2 DEF Took
  <2>13. QED
    BY <2>10, <2>11, <2>12 DEF Stepped
<1>4. QED
  BY <1>2, <1>3

\* After n segments: each that was taken ends where the close does.
Taking(x, c, old, now, at, n) ==
    /\ Good(x, old, now)
    /\ x.tracks = c.tracks /\ x.queue = c.queue /\ Shape(x.snap, c.snap)
    /\ x.ok => c.ok
    /\ EndsBy(c.snap, c.snap.segmentStart) => EndsBy(x.snap, at)
    /\ x.ok /\ n # 0 => Reaches(x.snap, at) /\ EndsBy(x.snap, at)

\* A worker has a segment open from segmentStart only while all the snapshot's
\* segments end by then.
Closes(c, at) ==
    /\ c.snap.segmentStart # Unset /\ c.snap.segmentStart < at
    /\ Released(c)
    /\ \A i \in 1 .. Len(c.closed) :
        c.closed[i].from = c.snap.segmentStart => EndsBy(c.snap, c.snap.segmentStart)

\* One more closed segment is in the snapshot.
LEMMA TakingNext ==
    ASSUME NEW c, NEW old, NEW now, Good(c, old, now), NEW at \in Nat, Closes(c, at),
           NEW n \in Nat, n + 1 \in 1 .. Len(c.closed), NEW x, Taking(x, c, old, now, at, n),
           NEW u, u = TakeSegment(x, c.closed[n + 1], at)
    PROVE  Taking(u, c, old, now, at, n + 1)
<1> DEFINE g == c.closed[n + 1]
<1>1. g \in AudioSegments
  <2>1. c.closed \in Seq(AudioSegments)
    BY WorkTypes DEF Good
  <2>2. QED
    BY <2>1, SegmentTypes
<1>2. u = TakeSegment(x, g, at)
  OBVIOUS
<1>3. g.from = c.snap.segmentStart => EndsBy(c.snap, c.snap.segmentStart)
  BY DEF Closes
<1> HIDE DEF g
<1>4. Good(x, old, now) /\ Released(x)
  BY DEF Taking, Closes, Released, Shape
<1>5. x.snap.segmentStart # Unset /\ x.snap.segmentStart < at
  BY DEF Taking, Closes, Shape
<1>6. Good(u, old, now) /\ Took(u, x, g, at)
  BY <1>1, <1>2, <1>4, <1>5, TakeSegmentGood
<1>7. u.tracks = c.tracks /\ u.queue = c.queue /\ Shape(u.snap, c.snap)
  BY <1>6 DEF Took, Taking, Shape
<1>8. CASE ~u.ok /\ u.snap = x.snap
  BY <1>6, <1>7, <1>8 DEF Taking
<1>9. CASE /\ u.ok /\ x.ok /\ g.from = x.snap.segmentStart
           /\ Reaches(u.snap, at) /\ (EndsBy(x.snap, at) => EndsBy(u.snap, at))
  <2>1. EndsBy(c.snap, c.snap.segmentStart)
    BY <1>3, <1>9 DEF Taking, Shape
  <2>2. EndsBy(x.snap, at) /\ c.ok
    BY <1>9, <2>1 DEF Taking
  <2>3. QED
    BY <1>6, <1>7, <1>9, <2>2 DEF Taking
<1>10. QED
  BY <1>6, <1>8, <1>9 DEF Took

\* Every closed segment is in the snapshot: it reaches the instant of the close.
LEMMA TakeSegmentsGood ==
    ASSUME NEW c, NEW old, NEW now, Good(c, old, now), NEW at \in Nat, Closes(c, at),
           NEW u, u = TakeSegments(c, at)
    PROVE  Taking(u, c, old, now, at, Len(c.closed))
<1> DEFINE m == Len(c.closed)
<1>1. m \in Nat /\ c.snap.segmentStart \in Nat \cup {Unset}
      /\ c.snap \in Snapshots /\ c \in Works
  BY WorkTypes, SnapTypes DEF Good
<1>2. Taking(c, c, old, now, at, 0)
  <2>1. EndsBy(c.snap, c.snap.segmentStart) => EndsBy(c.snap, at)
    <3> SUFFICES ASSUME EndsBy(c.snap, c.snap.segmentStart),
                        NEW i \in 1 .. Len(c.snap.segments)
                 PROVE  c.snap.segments[i].to <= at
      BY DEF EndsBy
    <3>1. c.snap.segments[i].to <= c.snap.segmentStart
      BY DEF EndsBy
    <3>2. c.snap.segments[i].to \in Nat /\ c.snap.segmentStart \in Nat
      BY <1>1, SnapTypes, SegmentTypes DEF Closes
    <3>3. QED
      BY <3>1, <3>2 DEF Closes
  <2>2. QED
    BY <2>1 DEF Taking, Shape
<1>3. \A n \in 1 .. m, x \in Works : TakeSegment(x, c.closed[n], at) \in Works
  <2> SUFFICES ASSUME NEW n \in 1 .. m, NEW x \in Works
               PROVE  TakeSegment(x, c.closed[n], at) \in Works
    OBVIOUS
  <2> DEFINE g == c.closed[n]
  <2>1. g \in AudioSegments
    BY <1>1, WorkTypes, SegmentTypes
  <2> HIDE DEF g
  <2>2. CASE ~x.ok \/ g.from # x.snap.segmentStart \/ g.to # at
    <3>1. TakeSegment(x, g, at) = Failed(x)
      BY <2>2 DEF TakeSegment
    <3>2. QED
      BY <3>1, FailedKeeps DEF g
  <2>3. CASE ~(~x.ok \/ g.from # x.snap.segmentStart \/ g.to # at)
    <3> DEFINE list == Append(x.snap.segments, g)
               s == SegmentsSet(x.snap, list)
               next == [x EXCEPT !.snap = s]
    <3>1. TakeSegment(x, g, at) = Step(x, next)
      BY <2>3 DEF TakeSegment, SegmentsSet
    <3>2. x.snap \in Snapshots /\ list \in Seq(AudioSegments)
      BY <2>1, WorkTypes, SnapTypes
    <3> HIDE DEF list
    <3>3. s \in Snapshots
      <4>1. s = SegmentsSet(x.snap, list)
        OBVIOUS
      <4> HIDE DEF s
      <4>2. QED
        BY <3>2, <4>1, SnapSegments
    <3> HIDE DEF s
    <3>4. next \in Works
      BY <3>3 DEF Works
    <3> HIDE DEF next
    <3>5. QED
      BY <3>1, <3>4, StepKeeps DEF Stepped, g
  <2>4. QED
    BY <2>2, <2>3
<1>4. PICK f : /\ u = f[m] /\ f[0] = c
               /\ \A n \in 1 .. m : f[n] = TakeSegment(f[n - 1], c.closed[n], at)
  BY <1>1, <1>3, TakeSegmentsLoop
<1> DEFINE T == {n \in Nat : n <= m => Taking(f[n], c, old, now, at, n)}
<1>5. 0 \in T
  BY <1>2, <1>4
<1>6. ASSUME NEW n \in Nat, n \in T PROVE n + 1 \in T
  <2> SUFFICES ASSUME n + 1 <= m PROVE Taking(f[n + 1], c, old, now, at, n + 1)
    OBVIOUS
  <2>1. n + 1 \in 1 .. m /\ (n + 1) - 1 = n /\ n <= m
    BY <1>1
  <2>2. Taking(f[n], c, old, now, at, n)
    BY <1>6, <2>1
  <2>3. f[n + 1] = TakeSegment(f[n], c.closed[n + 1], at)
    BY <1>4, <2>1
  <2>4. QED
    BY <2>1, <2>2, <2>3, TakingNext
<1>7. Nat \subseteq T
  <2> HIDE DEF T
  <2>1. QED
    BY <1>5, <1>6, Counting
<1>8. m \in T
  BY <1>1, <1>7
<1>9. QED
  BY <1>1, <1>4, <1>8

------------------------
(* A close of what is open. *)

\* A close that succeeds takes the recording to where it was closed.
ClosedAt(u, w, old, now, at) ==
    /\ Good(u, old, now) /\ u.queue = w.queue /\ Shape(u.snap, w.snap)
    /\ u.ok => /\ w.ok /\ w.snap.segmentStart # Unset
               /\ Reaches(u.snap, at) /\ EndsBy(u.snap, at)

\* The native close: all tracks, then all their segments, then the file.
LEMMA CloseNativeGood ==
    ASSUME NEW w, NEW old, NEW now, Len(old) \in Nat, Good(w, old, now), NEW reason,
           NEW at \in Nat, NEW u, u = CloseNative(w, reason, at)
    PROVE  ClosedAt(u, w, old, now, at)
<1> DEFINE ss == w.snap.segmentStart
           c == CloseTracks(w, reason, at)
           x == TakeSegments(c, at)
<1>1. w \in Works /\ w.snap \in Snapshots /\ ss \in Nat \cup {Unset}
  BY WorkTypes, SnapTypes DEF Good
<1>2. CASE ~w.ok \/ ss = Unset \/ at <= ss
  <2>1. u = Failed(w)
    BY <1>2 DEF CloseNative
  <2>2. u \in Works /\ Same(u, w) /\ u.ok = FALSE
    BY <1>1, <2>1, FailedKeeps
  <2>3. Good(u, old, now)
    BY <2>2, GoodSame
  <2>4. QED
    BY <2>2, <2>3 DEF ClosedAt, Same, Shape
<1>3. CASE ~(~w.ok \/ ss = Unset \/ at <= ss)
  <2>1. u = Persist(x) /\ x = TakeSegments(c, at) /\ c = CloseTracks(w, reason, at)
    BY <1>3 DEF CloseNative
  <2>2. ss # Unset /\ ss \in Nat /\ ss < at
    BY <1>1, <1>3
  <2> HIDE DEF x, c
  <2>3. Closing(c, w, at, Len(Tracks))
    BY <1>1, <2>1, CloseTracksKeeps
  <2>4. /\ c \in Works /\ c.snap = w.snap /\ c.queue = w.queue
        /\ c.durable = w.durable /\ c.envelope = w.envelope
        /\ c.ok => w.ok
    BY <2>3 DEF Closing
  <2>5. at # Unset
    BY CaptureAssumption
  <2>6. Ready(w.snap, w.tracks) => Ready(c.snap, c.tracks)
    <3> SUFFICES ASSUME \A r \in Roles : w.tracks[r].from # ss, NEW r \in Roles
                 PROVE  c.tracks[r].from # ss
      BY <2>4 DEF Ready
    <3>1. c.tracks[r].from \in {w.tracks[r].from, Unset, at}
      BY <2>3 DEF Closing
    <3>2. QED
      BY <2>2, <3>1
  <2>7. Live(c.snap, c.tracks, now)
    BY <2>4, <2>6 DEF Good, Live, Recording
  <2>8. Good(c, old, now)
    BY <2>4, <2>7 DEF Good
  <2>9. Closes(c, at)
    <3>1. Released(c)
      <4> SUFFICES ASSUME c.ok, NEW r \in Roles PROVE c.tracks[r].from # ss
        BY <2>4 DEF Released
      <4>1. PICK n \in 1 .. Len(Tracks) : Tracks[n] = r
        BY TracksTypes
      <4>2. c.tracks[r].from \in {Unset, at}
        BY <2>3, <4>1 DEF Closing
      <4>3. QED
        BY <2>2, <4>2
    <3>2. ASSUME NEW i \in 1 .. Len(c.closed), c.closed[i].from = ss
          PROVE  EndsBy(w.snap, ss)
      <4>1. PICK q \in Roles : c.closed[i].from = w.tracks[q].from
        BY <2>3 DEF Closing
      <4>2. Ready(w.snap, w.tracks)
        BY <2>2 DEF Good, Live, Recording
      <4>3. QED
        BY <3>2, <4>1, <4>2 DEF Ready
    <3>3. QED
      BY <2>2, <2>4, <3>1, <3>2 DEF Closes
  <2>10. Taking(x, c, old, now, at, Len(c.closed))
    BY <2>1, <2>8, <2>9, TakeSegmentsGood
  <2>11. Good(x, old, now)
    BY <2>10 DEF Taking
  <2>12. /\ Good(u, old, now) /\ (u.ok => x.ok)
         /\ u.snap = x.snap /\ u.tracks = x.tracks /\ u.queue = x.queue
    BY <2>1, <2>11, PersistGood
  <2>13. u.queue = w.queue /\ Shape(u.snap, w.snap)
    BY <2>4, <2>10, <2>12 DEF Taking
  <2>14. ASSUME u.ok PROVE Reaches(u.snap, at) /\ EndsBy(u.snap, at)
    <3>1. x.ok /\ c.ok
      BY <2>10, <2>12, <2>14 DEF Taking
    <3>2. Len(c.closed) = Len(Tracks) /\ Len(c.closed) # 0
      BY <2>3, <3>1, TracksTypes DEF Closing
    <3>3. QED
      BY <2>10, <2>12, <3>1, <3>2 DEF Taking
  <2>15. QED
    BY <1>3, <2>2, <2>12, <2>13, <2>14 DEF ClosedAt
<1>4. QED
  BY <1>2, <1>3

------------------------
(* Updates of the snapshot. *)

\* The same audio and the same marks, in another phase.
LEMMA StoredSame ==
    ASSUME NEW d, NEW e, NEW s, Stored(d, e, s), NEW u, u.segments = s.segments,
           e # Unset => u.segmentStart = Unset /\ u.pausedAt = Unset
    PROVE  Stored(d, e, u)
BY DEF Stored

PhaseSet(s, phase, from, paused) ==
    [s EXCEPT !.phase = phase, !.segmentStart = from, !.pausedAt = paused]

\* A recording covered to an instant halts there.
LEMMA HaltGood ==
    ASSUME NEW w, NEW old, NEW now, Good(w, old, now), NEW phase \in {"paused", "sourceLost"},
           NEW at \in Nat, at <= now,
           w.ok => w.snap.segmentStart # Unset /\ Reaches(w.snap, at) /\ EndsBy(w.snap, at),
           NEW u, u = Halt(w, phase, at)
    PROVE  Good(u, old, now)
<1> DEFINE s == PhaseSet(w.snap, phase, Unset, at)
<1>1. u = Set(w, s)
  BY DEF Halt, PhaseSet
<1>2. Kept(w.snap) /\ w.snap \in Snapshots
  BY DEF Good, Live, Kept
<1>3. /\ s \in Snapshots /\ s.phase = phase /\ s.segmentStart = Unset
      /\ s.pausedAt = at /\ s.started = w.snap.started
      /\ s.segments = w.snap.segments /\ s.gaps = w.snap.gaps
  <2> HIDE DEF s
  <2>1. s = PhaseSet(w.snap, phase, Unset, at)
    BY DEF s
  <2>2. QED
    BY <1>2, <2>1 DEF PhaseSet, Snapshots
<1> HIDE DEF s
<1>4. ASSUME w.ok PROVE Live(s, w.tracks, now) /\ Stored(w.durable, w.envelope, s)
  <2>1. Live(s, w.tracks, now)
    BY <1>2, <1>3, <1>4, LiveHalted
  <2>2. Stored(w.durable, w.envelope, w.snap) /\ w.envelope = Unset
    BY <1>4 DEF Good, Stored
  <2>3. QED
    BY <1>3, <2>1, <2>2, StoredSame
<1>5. QED
  BY <1>1, <1>4, SetGood

\* The recording is over: nothing is open and nothing paused.
LEMMA EndGood ==
    ASSUME NEW w, NEW old, NEW now, Good(w, old, now),
           NEW s, s = PhaseSet(w.snap, "finalizing", Unset, Unset), NEW u, u = Set(w, s)
    PROVE  /\ Good(u, old, now) /\ (u.ok <=> w.ok)
           /\ u.ok => u.snap = s /\ s.segmentStart = Unset /\ s.pausedAt = Unset
<1>1. Kept(w.snap) /\ w.snap \in Snapshots
  BY DEF Good, Live, Kept
<1>2. /\ s \in Snapshots /\ s.phase = "finalizing" /\ s.segmentStart = Unset
      /\ s.pausedAt = Unset /\ s.started = w.snap.started
      /\ s.segments = w.snap.segments /\ s.gaps = w.snap.gaps
  BY <1>1 DEF PhaseSet, Snapshots
<1>3. Live(s, w.tracks, now)
  BY <1>1, <1>2, LiveEnded
<1>4. Stored(w.durable, w.envelope, s)
  BY <1>2, StoredSame DEF Good
<1>5. QED
  BY <1>2, <1>3, <1>4, SetGood

NoticesSet(s, n) == [s EXCEPT !.notices = n]

\* Counting a notice.
LEMMA NoticedGood ==
    ASSUME NEW w, NEW old, NEW now, Good(w, old, now), NEW u, u = Noticed(w)
    PROVE  Good(u, old, now)
<1> DEFINE n == w.snap.notices + 1
           s == NoticesSet(w.snap, n)
<1>1. u = Set(w, s)
  BY DEF Noticed, NoticesSet
<1>2. w.snap \in Snapshots /\ n \in Nat
  BY SnapTypes DEF Good, Live, Kept
<1> HIDE DEF n
<1>3. /\ s \in Snapshots /\ s.phase = w.snap.phase /\ s.segmentStart = w.snap.segmentStart
      /\ s.pausedAt = w.snap.pausedAt /\ s.started = w.snap.started
      /\ s.segments = w.snap.segments /\ s.gaps = w.snap.gaps
  BY <1>2 DEF Snapshots, NoticesSet
<1> HIDE DEF s
<1>4. Refill(w.snap.gaps, s.gaps)
  BY <1>2, <1>3, SnapTypes, RefillSame
<1>5. Live(s, w.tracks, now)
  BY <1>3, <1>4, LiveSame DEF Good
<1>6. Stored(w.durable, w.envelope, s)
  BY <1>3 DEF Good, Stored
<1>7. QED
  BY <1>1, <1>5, <1>6, SetGood

\* The gaps of the snapshot after a merge or a sort.
LEMMA GapsGood ==
    ASSUME NEW w, NEW old, NEW now, Good(w, old, now), NEW list, Refill(w.snap.gaps, list),
           NEW s, s = GapsSet(w.snap, list), NEW u, u = Set(w, s)
    PROVE  Good(u, old, now)
<1>1. w.snap \in Snapshots /\ list \in Seq(Gaps)
  BY DEF Good, Live, Kept, Refill
<1>2. /\ s \in Snapshots /\ s.phase = w.snap.phase /\ s.segmentStart = w.snap.segmentStart
      /\ s.pausedAt = w.snap.pausedAt /\ s.started = w.snap.started
      /\ s.segments = w.snap.segments /\ s.gaps = list
  BY <1>1, SnapGaps
<1>3. Refill(w.snap.gaps, s.gaps)
  BY <1>2
<1>4. Live(s, w.tracks, now)
  BY <1>2, <1>3, LiveSame DEF Good
<1>5. Stored(w.durable, w.envelope, s)
  BY <1>2 DEF Good, Stored
<1>6. QED
  BY <1>4, <1>5, SetGood

------------------------
(* Signals. *)

\* The fields of a signal of the workers.
LEMMA SignalTypes ==
    ASSUME NEW g \in Signals
    PROVE  g.from \in Nat /\ g.to \in Nat
BY DEF Signals

\* Taking one signal: the gap of a loss, or a notice.
LEMMA TakeSignalGood ==
    ASSUME NEW w, NEW old, NEW now, Len(old) \in Nat, Good(w, old, now),
           NEW g \in Signals, g.from <= now, NEW u, u = TakeSignal(w, g)
    PROVE  Good(u, old, now)
<1>1. CASE ~w.ok
  BY <1>1 DEF TakeSignal
<1>2. CASE w.ok /\ g.kind = "gap"
  <2> DEFINE list == InsertGap(w.snap.gaps, g.from, g.to)
             s == GapsSet(w.snap, list)
             x == Set(w, s)
  <2>1. u = Noticed(x)
    BY <1>2 DEF TakeSignal, GapsSet
  <2>2. Refill(w.snap.gaps, list)
    BY SignalTypes, SnapTypes, RefillInsert DEF Good, Live, Kept
  <2> HIDE DEF list
  <2>3. s = GapsSet(w.snap, list) /\ x = Set(w, s)
    OBVIOUS
  <2> HIDE DEF s, x
  <2>4. Good(x, old, now)
    BY <2>2, <2>3, GapsGood
  <2>5. QED
    BY <2>1, <2>4, NoticedGood
<1>3. CASE w.ok /\ g.kind # "gap" /\ w.snap.phase = "recording"
  <2> DEFINE c == CloseNative(w, "sourceLoss", g.from)
             h == Halt(c, "sourceLost", g.from)
  <2>1. u = Noticed(h)
    BY <1>3 DEF TakeSignal
  <2>2. h = Halt(c, "sourceLost", g.from) /\ c = CloseNative(w, "sourceLoss", g.from)
    OBVIOUS
  <2> HIDE DEF c, h
  <2>3. g.from \in Nat
    BY SignalTypes
  <2>4. ClosedAt(c, w, old, now, g.from)
    BY <2>2, <2>3, CloseNativeGood
  <2>5. /\ Good(c, old, now)
        /\ c.ok => c.snap.segmentStart # Unset /\ Reaches(c.snap, g.from)
                   /\ EndsBy(c.snap, g.from)
    BY <2>4 DEF ClosedAt, Shape
  <2>6. Good(h, old, now)
    BY <2>2, <2>3, <2>5, HaltGood
  <2>7. QED
    BY <2>1, <2>6, NoticedGood
<1>4. CASE w.ok /\ g.kind # "gap" /\ w.snap.phase # "recording"
  <2>1. u = Noticed(w)
    BY <1>4 DEF TakeSignal
  <2>2. QED
    BY <2>1, NoticedGood
<1>5. QED
  BY <1>1, <1>2, <1>3, <1>4

\* The states of the loop that takes the signals.
LEMMA TakeSignalsLoop ==
    ASSUME NEW w, NEW list, NEW D, [w EXCEPT !.queue = {}] \in D, Len(list) \in Nat,
           \A n \in 1 .. Len(list), x \in D : TakeSignal(x, list[n]) \in D
    PROVE  \E f : /\ TakeSignals(w, list) = f[Len(list)]
                  /\ f[0] = [w EXCEPT !.queue = {}]
                  /\ \A n \in 1 .. Len(list) : f[n] = TakeSignal(f[n - 1], list[n])
<1> DEFINE m == Len(list)
           a == [w EXCEPT !.queue = {}]
           S == [n \in 1 .. m |-> [x \in D |-> TakeSignal(x, list[n])]]
           Is(f) == f = [n \in 0 .. m |-> IF n = 0 THEN a ELSE TakeSignal(f[n - 1], list[n])]
           after == CHOOSE f : Is(f)
<1>1. S \in [1 .. m -> [D -> D]] /\ m \in Nat /\ a \in D
  OBVIOUS
<1>2. PICK f \in [0 .. m -> D] : f[0] = a /\ \A n \in 1 .. m : f[n] = S[n][f[n - 1]]
  <2> HIDE DEF S, m, a
  <2>1. QED
    BY <1>1, LoopExists, SMTT(30)
<1>3. \A n \in 1 .. m : f[n - 1] \in D /\ S[n][f[n - 1]] = TakeSignal(f[n - 1], list[n])
  <2>1. \A n \in 1 .. m : n - 1 \in 0 .. m
    BY <1>1
  <2>2. \A n \in 1 .. m, x \in D : S[n][x] = TakeSignal(x, list[n])
    OBVIOUS
  <2> HIDE DEF S, m, a
  <2>3. QED
    BY <1>2, <2>1, <2>2
<1>4. Is(f)
  <2> DEFINE h == [n \in 0 .. m |-> IF n = 0 THEN a ELSE TakeSignal(f[n - 1], list[n])]
  <2> HIDE DEF S, m, a
  <2>1. \A n \in 0 .. m : n # 0 => n \in 1 .. m
    BY <1>1
  <2>2. ASSUME NEW n \in 0 .. m PROVE f[n] = h[n]
    <3>1. CASE n = 0
      BY <1>2, <3>1
    <3>2. CASE n # 0
      BY <1>2, <1>3, <2>1, <3>2
    <3>3. QED
      BY <3>1, <3>2
  <2>3. f = [n \in 0 .. m |-> f[n]] /\ h = [n \in 0 .. m |-> h[n]]
    BY <1>2
  <2> HIDE DEF h
  <2>4. f = h
    BY <2>2, <2>3
  <2>5. QED
    BY <2>4 DEF h
<1>5. Is(after)
  BY <1>4
<1>6. TakeSignals(w, list) = after[m]
  BY DEF TakeSignals
<1>7. after[0] = a /\ \A n \in 1 .. m : after[n] = TakeSignal(after[n - 1], list[n])
  <2> DEFINE h == [n \in 0 .. m |-> IF n = 0 THEN a ELSE TakeSignal(after[n - 1], list[n])]
  <2>1. after = h
    BY <1>5
  <2> HIDE DEF after, a, m
  <2>2. 0 \in 0 .. m /\ \A n \in 1 .. m : n \in 0 .. m /\ n # 0
    BY <1>1
  <2>3. h[0] = a /\ \A n \in 1 .. m : h[n] = TakeSignal(after[n - 1], list[n])
    BY <2>2
  <2> HIDE DEF h
  <2>4. QED
    BY <2>1, <2>3
<1>8. QED
  BY <1>6, <1>7

Heard(list, now) ==
    /\ Len(list) \in Nat
    /\ \A i \in 1 .. Len(list) : list[i] \in Signals /\ list[i].from <= now

\* Taking the signals that were heard, one after the other.
LEMMA TakeSignalsGood ==
    ASSUME NEW w, NEW old, NEW now, Len(old) \in Nat, Good(w, old, now),
           NEW list, Heard(list, now), NEW u, u = TakeSignals(w, list)
    PROVE  Good(u, old, now)
<1> DEFINE m == Len(list)
           D == {x \in Works : Good(x, old, now)}
           none == {}
           a == [w EXCEPT !.queue = none]
<1>1. m \in Nat
  BY DEF Heard
<1>2. w \in Works
  BY DEF Good
<1>3. /\ a \in Works /\ a.snap = w.snap /\ a.tracks = w.tracks /\ a.queue = {}
      /\ a.durable = w.durable /\ a.envelope = w.envelope
  <2>1. none \in SUBSET Signals
    OBVIOUS
  <2> HIDE DEF none
  <2>2. /\ a \in Works /\ a.snap = w.snap /\ a.tracks = w.tracks /\ a.queue = none
        /\ a.durable = w.durable /\ a.envelope = w.envelope
    BY <1>2, <2>1 DEF Works
  <2>3. QED
    BY <2>2 DEF none
<1>4. a \in D
  <2> HIDE DEF a
  <2>1. Waiting(a.queue, now)
    BY <1>3, FS_EmptySet DEF Waiting
  <2>2. Good(a, old, now)
    BY <1>3, <2>1 DEF Good
  <2>3. QED
    BY <1>3, <2>2
<1>6. \A n \in 1 .. m, x \in D : TakeSignal(x, list[n]) \in D
  <2> SUFFICES ASSUME NEW n \in 1 .. m, NEW x \in D PROVE TakeSignal(x, list[n]) \in D
    OBVIOUS
  <2> DEFINE y == TakeSignal(x, list[n])
             g == list[n]
  <2>1. g \in Signals /\ g.from <= now /\ Good(x, old, now) /\ y = TakeSignal(x, g)
    BY DEF Heard
  <2> HIDE DEF y, g
  <2>2. Good(y, old, now)
    BY <2>1, TakeSignalGood
  <2>3. QED
    BY <2>2 DEF Good, y
<1>5. PICK f : /\ u = f[m] /\ f[0] = a
               /\ \A n \in 1 .. m : f[n] = TakeSignal(f[n - 1], list[n])
  <2> HIDE DEF D
  <2>1. QED
    BY <1>1, <1>4, <1>6, TakeSignalsLoop
<1> DEFINE T == {n \in Nat : n <= m => f[n] \in D}
<1>7. 0 \in T
  BY <1>4, <1>5
<1>8. ASSUME NEW n \in Nat, n \in T PROVE n + 1 \in T
  <2> SUFFICES ASSUME n + 1 <= m PROVE f[n + 1] \in D
    OBVIOUS
  <2>1. n + 1 \in 1 .. m /\ (n + 1) - 1 = n /\ n <= m
    BY <1>1
  <2>2. f[n] \in D
    BY <1>8, <2>1
  <2> HIDE DEF D, T
  <2>3. QED
    BY <1>5, <1>6, <2>1, <2>2
<1>9. Nat \subseteq T
  <2> HIDE DEF T
  <2>1. QED
    BY <1>7, <1>8, Counting
<1>10. m \in T
  BY <1>1, <1>9
<1>11. QED
  BY <1>1, <1>5, <1>10

\* The poll that opens every command.
LEMMA PollGood ==
    ASSUME NEW w, NEW old, NEW now, Len(old) \in Nat, Good(w, old, now),
           NEW list, Heard(list, now), NEW u, u = Poll(w, list)
    PROVE  Good(u, old, now)
<1>1. CASE w.queue = {} \/ ~w.ok
  BY <1>1 DEF Poll
<1>2. CASE ~(w.queue = {} \/ ~w.ok)
  <2> DEFINE taken == TakeSignals(w, list)
             gaps == ByStart(taken.snap.gaps)
             s == GapsSet(taken.snap, gaps)
             x == Set(taken, s)
             y == Persist(x)
  <2>1. u = JournalEvent(y)
    BY <1>2 DEF Poll, GapsSet
  <2>2. taken = TakeSignals(w, list)
    OBVIOUS
  <2> HIDE DEF taken
  <2>3. Good(taken, old, now)
    BY <2>2, TakeSignalsGood
  <2>4. Refill(taken.snap.gaps, gaps)
    BY <2>3, SnapTypes, RefillSorted DEF Good, Live, Kept
  <2> HIDE DEF gaps
  <2>5. s = GapsSet(taken.snap, gaps) /\ x = Set(taken, s) /\ y = Persist(x)
    OBVIOUS
  <2> HIDE DEF s, x, y
  <2>6. Good(x, old, now)
    BY <2>3, <2>4, <2>5, GapsGood
  <2>7. Good(y, old, now)
    BY <2>5, <2>6, PersistGood
  <2>8. QED
    BY <2>1, <2>7, JournalGood
<1>3. QED
  BY <1>1, <1>2

------------------------
(* The clock, a pause and a resume. *)

StartSet(s, from) == [s EXCEPT !.segmentStart = from]

\* Rolling the segment that is open over to the next one.
LEMMA RollGood ==
    ASSUME NEW w, NEW old, NEW now, Len(old) \in Nat, Good(w, old, now),
           NEW u, u = Roll(w, now)
    PROVE  Good(u, old, now)
<1> DEFINE boundary == w.snap.segmentStart + Rolling
<1>1. CASE ~w.ok \/ w.snap.phase # "recording" \/ now < boundary
  BY <1>1 DEF Roll
<1>2. CASE ~(~w.ok \/ w.snap.phase # "recording" \/ now < boundary)
  <2> DEFINE c == CloseNative(w, "rolling", boundary)
             s == StartSet(c.snap, boundary)
             x == Set(c, s)
             y == Persist(x)
  <2>1. u = JournalEvent(y)
    BY <1>2 DEF Roll, StartSet
  <2>2. w.snap.segmentStart \in Nat /\ Rolling \in Nat
    BY <1>2, SnapTypes, CaptureAssumption DEF Good, Live, Kept, PhaseAgrees
  <2>3. boundary \in Nat
    BY <2>2
  <2> HIDE DEF boundary
  <2>4. c = CloseNative(w, "rolling", boundary)
    OBVIOUS
  <2> HIDE DEF c
  <2>5. ClosedAt(c, w, old, now, boundary)
    BY <2>3, <2>4, CloseNativeGood
  <2>6. Good(c, old, now) /\ Kept(c.snap) /\ c.snap \in Snapshots
    BY <2>5 DEF ClosedAt, Good, Live, Kept
  <2>7. /\ s \in Snapshots /\ s.phase = c.snap.phase /\ s.segmentStart = boundary
        /\ s.pausedAt = c.snap.pausedAt /\ s.started = c.snap.started
        /\ s.segments = c.snap.segments /\ s.gaps = c.snap.gaps
    BY <2>3, <2>6 DEF Snapshots, StartSet
  <2>8. x = Set(c, s) /\ y = Persist(x)
    OBVIOUS
  <2> HIDE DEF s, x, y
  <2>9. ASSUME c.ok PROVE Live(s, c.tracks, now) /\ Stored(c.durable, c.envelope, s)
    <3>1. Reaches(c.snap, boundary) /\ EndsBy(c.snap, boundary)
      BY <2>5, <2>9 DEF ClosedAt
    <3>2. c.snap.phase = "recording" /\ c.snap.pausedAt = Unset /\ c.snap.segmentStart # Unset
      BY <1>2, <2>5, <2>6, <2>9 DEF ClosedAt, Shape, Good, Live, PhaseAgrees
    <3>3. Live(s, c.tracks, now)
      BY <2>3, <2>6, <2>7, <3>1, <3>2, LiveOpened
    <3>4. Stored(c.durable, c.envelope, c.snap) /\ c.envelope = Unset
      BY <2>6, <3>2 DEF Good, Stored
    <3>5. QED
      BY <2>7, <3>3, <3>4, StoredSame
  <2>10. Good(x, old, now)
    BY <2>6, <2>8, <2>9, SetGood
  <2>11. Good(y, old, now)
    BY <2>8, <2>10, PersistGood
  <2>12. QED
    BY <2>1, <2>11, JournalGood
<1>3. QED
  BY <1>1, <1>2

FirstTick(w, list) == Poll(Require(w, w.snap.phase = "recording"), list)

\* The states of the loop over the rolls that are due.
LEMMA TickedLoop ==
    ASSUME NEW w, NEW list, NEW now, NEW D, FirstTick(w, list) \in D,
           \A x \in D : Roll(x, now) \in D
    PROVE  \E f : /\ Ticked(w, list, now) = f[MaxTime]
                  /\ f[0] = FirstTick(w, list)
                  /\ \A n \in 1 .. MaxTime : f[n] = Roll(f[n - 1], now)
<1> DEFINE m == MaxTime
           a == FirstTick(w, list)
           S == [n \in 1 .. m |-> [x \in D |-> Roll(x, now)]]
           Is(f) == f = [n \in 0 .. m |-> IF n = 0 THEN a ELSE Roll(f[n - 1], now)]
           after == CHOOSE f : Is(f)
<1>1. S \in [1 .. m -> [D -> D]] /\ m \in Nat /\ a \in D
  BY CaptureAssumption
<1>2. PICK f \in [0 .. m -> D] : f[0] = a /\ \A n \in 1 .. m : f[n] = S[n][f[n - 1]]
  <2> HIDE DEF S, m, a
  <2>1. QED
    BY <1>1, LoopExists, Z3
<1>3. \A n \in 1 .. m : f[n - 1] \in D /\ S[n][f[n - 1]] = Roll(f[n - 1], now)
  <2>1. \A n \in 1 .. m : n - 1 \in 0 .. m
    BY <1>1
  <2>2. \A n \in 1 .. m, x \in D : S[n][x] = Roll(x, now)
    OBVIOUS
  <2> HIDE DEF S, m, a
  <2>3. QED
    BY <1>2, <2>1, <2>2
<1>4. Is(f)
  <2> DEFINE h == [n \in 0 .. m |-> IF n = 0 THEN a ELSE Roll(f[n - 1], now)]
  <2> HIDE DEF S, m, a
  <2>1. \A n \in 0 .. m : n # 0 => n \in 1 .. m
    BY <1>1
  <2>2. ASSUME NEW n \in 0 .. m PROVE f[n] = h[n]
    <3>1. CASE n = 0
      BY <1>2, <3>1
    <3>2. CASE n # 0
      BY <1>2, <1>3, <2>1, <3>2
    <3>3. QED
      BY <3>1, <3>2
  <2>3. f = [n \in 0 .. m |-> f[n]] /\ h = [n \in 0 .. m |-> h[n]]
    BY <1>2
  <2> HIDE DEF h
  <2>4. f = h
    BY <2>2, <2>3
  <2>5. QED
    BY <2>4 DEF h
<1>5. Is(after)
  BY <1>4
<1>6. Ticked(w, list, now) = after[m]
  BY DEF Ticked, FirstTick
<1>7. after[0] = a /\ \A n \in 1 .. m : after[n] = Roll(after[n - 1], now)
  <2> DEFINE h == [n \in 0 .. m |-> IF n = 0 THEN a ELSE Roll(after[n - 1], now)]
  <2>1. after = h
    BY <1>5
  <2> HIDE DEF after, a, m
  <2>2. 0 \in 0 .. m /\ \A n \in 1 .. m : n \in 0 .. m /\ n # 0
    BY <1>1
  <2>3. h[0] = a /\ \A n \in 1 .. m : h[n] = Roll(after[n - 1], now)
    BY <2>2
  <2> HIDE DEF h
  <2>4. QED
    BY <2>1, <2>3
<1>8. QED
  BY <1>6, <1>7

\* Rolling every segment that is due.
LEMMA TickedGood ==
    ASSUME NEW w, NEW old, NEW now, Len(old) \in Nat, Good(w, old, now),
           NEW list, Heard(list, now), NEW u, u = Ticked(w, list, now)
    PROVE  Good(u, old, now)
<1> DEFINE m == MaxTime
           D == {x \in Works : Good(x, old, now)}
           b == Require(w, w.snap.phase = "recording")
           a == FirstTick(w, list)
<1>1. m \in Nat
  BY CaptureAssumption
<1>2. Good(b, old, now)
  BY RequireGood
<1>3. a = Poll(b, list)
  BY DEF FirstTick
<1>4. a \in D
  <2> HIDE DEF a, b
  <2>1. Good(a, old, now)
    BY <1>2, <1>3, PollGood
  <2>2. QED
    BY <2>1 DEF Good
<1>6. \A x \in D : Roll(x, now) \in D
  <2> SUFFICES ASSUME NEW x \in D PROVE Roll(x, now) \in D
    OBVIOUS
  <2> DEFINE y == Roll(x, now)
  <2>1. Good(x, old, now) /\ y = Roll(x, now)
    OBVIOUS
  <2> HIDE DEF y
  <2>2. Good(y, old, now)
    BY <2>1, RollGood
  <2>3. QED
    BY <2>2 DEF Good, y
<1>5. PICK f : /\ u = f[m] /\ f[0] = a
               /\ \A n \in 1 .. m : f[n] = Roll(f[n - 1], now)
  <2> HIDE DEF D
  <2>1. QED
    BY <1>1, <1>4, <1>6, TickedLoop
<1> DEFINE T == {n \in Nat : n <= m => f[n] \in D}
<1>7. 0 \in T
  BY <1>4, <1>5
<1>8. ASSUME NEW n \in Nat, n \in T PROVE n + 1 \in T
  <2> SUFFICES ASSUME n + 1 <= m PROVE f[n + 1] \in D
    OBVIOUS
  <2>1. n + 1 \in 1 .. m /\ (n + 1) - 1 = n /\ n <= m
    BY <1>1
  <2>2. f[n] \in D
    BY <1>8, <2>1
  <2> HIDE DEF D, T
  <2>3. QED
    BY <1>5, <1>6, <2>1, <2>2
<1>9. Nat \subseteq T
  <2> HIDE DEF T
  <2>1. QED
    BY <1>7, <1>8, Counting
<1>10. m \in T
  BY <1>1, <1>9
<1>11. QED
  BY <1>1, <1>5, <1>10

\* The body of the pause.
LEMMA PausedGood ==
    ASSUME NEW w, NEW old, NEW now \in Nat, Len(old) \in Nat, Good(w, old, now),
           NEW u, u = Paused(w, now)
    PROVE  Good(u, old, now)
<1> DEFINE b == Require(w, w.snap.phase = "recording")
           c == CloseNative(b, "pause", now)
           h == Halt(c, "paused", now)
           y == Persist(h)
<1>1. u = JournalEvent(y) /\ y = Persist(h) /\ h = Halt(c, "paused", now)
  BY DEF Paused
<1>2. c = CloseNative(b, "pause", now)
  OBVIOUS
<1>3. Good(b, old, now)
  BY RequireGood
<1> HIDE DEF b, c, h, y
<1>4. ClosedAt(c, b, old, now, now)
  BY <1>2, <1>3, CloseNativeGood
<1>5. /\ Good(c, old, now)
      /\ c.ok => c.snap.segmentStart # Unset /\ Reaches(c.snap, now) /\ EndsBy(c.snap, now)
  BY <1>4 DEF ClosedAt, Shape
<1>6. Good(h, old, now)
  BY <1>1, <1>5, HaltGood
<1>7. Good(y, old, now)
  BY <1>1, <1>6, PersistGood
<1>8. QED
  BY <1>1, <1>7, JournalGood

\* While nothing is declared open the workers may open and give up segments.
LEMMA TrackedGood ==
    ASSUME NEW w, NEW old, NEW now, Good(w, old, now), w.snap.segmentStart = Unset,
           NEW r, NEW track, NEW u, Tracked(u, w, r, track)
    PROVE  Good(u, old, now) /\ u.snap = w.snap
<1>1. Live(u.snap, u.tracks, now)
  BY DEF Tracked, Good, Live, Recording
<1>2. QED
  BY <1>1 DEF Tracked, Good

\* Resuming one track: it opens a segment at that instant, or fails.
LEMMA ResumeTrackGood ==
    ASSUME NEW w, NEW old, NEW now \in Nat, Good(w, old, now),
           w.ok => w.snap.segmentStart = Unset,
           NEW r \in Roles, NEW u, u = ResumeTrack(w, r, now)
    PROVE  Good(u, old, now) /\ u.snap = w.snap /\ (u.ok => w.ok)
<1> DEFINE opened == NextSegment(w.tracks[r], now)
           silent == [opened EXCEPT !.reported = FALSE]
           half == WithTrack(w, r, opened)
           next == WithTrack(w, r, silent)
<1>1. u = IF ~w.ok \/ w.tracks[r].from # Unset THEN Failed(w)
          ELSE IF w.fault = 1 THEN Failed(half) ELSE Step(w, next)
  BY DEF ResumeTrack
<1>2. w \in Works /\ w.tracks[r] \in TrackStates
  <2>1. w \in Works /\ w.tracks \in [Roles -> TrackStates]
    BY WorkTypes DEF Good
  <2>2. QED
    BY <2>1
<1>3. opened \in TrackStates
  BY <1>2, TrackTypes
<1>4. silent \in TrackStates
  <2> HIDE DEF opened
  <2>1. opened.from \in Nat \cup {Unset}
    BY <1>3 DEF TrackStates
  <2>2. QED
    BY <1>3, <2>1 DEF TrackStates
<1>5. half = WithTrack(w, r, opened) /\ next = WithTrack(w, r, silent)
  OBVIOUS
<1> HIDE DEF opened, silent, half, next
<1>6. Tracked(half, w, r, opened) /\ Tracked(next, w, r, silent)
  BY <1>2, <1>3, <1>4, <1>5, WithTrackKeeps
<1>7. CASE ~w.ok \/ w.tracks[r].from # Unset
  <2>1. u = Failed(w)
    BY <1>1, <1>7
  <2>2. u \in Works /\ Same(u, w) /\ u.ok = FALSE
    BY <1>2, <2>1, FailedKeeps
  <2>3. QED
    BY <2>2, GoodSame DEF Same
<1>8. CASE ~(~w.ok \/ w.tracks[r].from # Unset)
  <2>1. w.ok /\ w.snap.segmentStart = Unset
    BY <1>8
  <2>2. Good(half, old, now) /\ half.snap = w.snap
    BY <1>6, <2>1, TrackedGood
  <2>3. Good(next, old, now) /\ next.snap = w.snap
    BY <1>6, <2>1, TrackedGood
  <2>4. CASE w.fault = 1
    <3>1. u = Failed(half) /\ half \in Works
      BY <1>1, <1>8, <2>2, <2>4 DEF Good
    <3>2. u \in Works /\ Same(u, half) /\ u.ok = FALSE
      BY <3>1, FailedKeeps
    <3>3. QED
      BY <2>2, <3>2, GoodSame DEF Same
  <2>5. CASE w.fault # 1
    <3>1. u = Step(w, next)
      BY <1>1, <1>8, <2>5
    <3>2. Good(u, old, now) /\ Stepped(u, w, next)
      BY <2>3, <3>1, StepGood
    <3>3. QED
      BY <2>1, <2>3, <3>2 DEF Stepped, Same
  <2>6. QED
    BY <2>4, <2>5
<1>9. QED
  BY <1>7, <1>8

Halts == {"paused", "sourceLost"}

FirstResume(w) == Require(w, w.snap.phase \in Halts)

\* The states of the loop that resumes the tracks.
LEMMA ResumeTracksLoop ==
    ASSUME NEW w, NEW now, NEW D, FirstResume(w) \in D, Len(Tracks) \in Nat,
           \A n \in 1 .. Len(Tracks), x \in D : ResumeTrack(x, Tracks[n], now) \in D
    PROVE  \E f : /\ ResumeTracks(w, now) = f[Len(Tracks)]
                  /\ f[0] = FirstResume(w)
                  /\ \A n \in 1 .. Len(Tracks) : f[n] = ResumeTrack(f[n - 1], Tracks[n], now)
<1> DEFINE m == Len(Tracks)
           a == FirstResume(w)
           S == [n \in 1 .. m |-> [x \in D |-> ResumeTrack(x, Tracks[n], now)]]
           Is(f) == f = [n \in 0 .. m |-> IF n = 0 THEN a ELSE ResumeTrack(f[n - 1], Tracks[n], now)]
           after == CHOOSE f : Is(f)
<1>1. S \in [1 .. m -> [D -> D]] /\ m \in Nat /\ a \in D
  OBVIOUS
<1>2. PICK f \in [0 .. m -> D] : f[0] = a /\ \A n \in 1 .. m : f[n] = S[n][f[n - 1]]
  <2> HIDE DEF S, m, a
  <2>1. QED
    BY <1>1, LoopExists, Z3
<1>3. \A n \in 1 .. m : f[n - 1] \in D /\ S[n][f[n - 1]] = ResumeTrack(f[n - 1], Tracks[n], now)
  <2>1. \A n \in 1 .. m : n - 1 \in 0 .. m
    BY <1>1
  <2>2. \A n \in 1 .. m, x \in D : S[n][x] = ResumeTrack(x, Tracks[n], now)
    OBVIOUS
  <2> HIDE DEF S, m, a
  <2>3. QED
    BY <1>2, <2>1, <2>2
<1>4. Is(f)
  <2> DEFINE h == [n \in 0 .. m |-> IF n = 0 THEN a ELSE ResumeTrack(f[n - 1], Tracks[n], now)]
  <2> HIDE DEF S, m, a
  <2>1. \A n \in 0 .. m : n # 0 => n \in 1 .. m
    BY <1>1
  <2>2. ASSUME NEW n \in 0 .. m PROVE f[n] = h[n]
    <3>1. CASE n = 0
      BY <1>2, <3>1
    <3>2. CASE n # 0
      BY <1>2, <1>3, <2>1, <3>2
    <3>3. QED
      BY <3>1, <3>2
  <2>3. f = [n \in 0 .. m |-> f[n]] /\ h = [n \in 0 .. m |-> h[n]]
    BY <1>2
  <2> HIDE DEF h
  <2>4. f = h
    BY <2>2, <2>3
  <2>5. QED
    BY <2>4 DEF h
<1>5. Is(after)
  BY <1>4
<1>6. ResumeTracks(w, now) = after[m]
  BY DEF ResumeTracks, FirstResume, Halts
<1>7. after[0] = a /\ \A n \in 1 .. m : after[n] = ResumeTrack(after[n - 1], Tracks[n], now)
  <2> DEFINE h == [n \in 0 .. m |-> IF n = 0 THEN a ELSE ResumeTrack(after[n - 1], Tracks[n], now)]
  <2>1. after = h
    BY <1>5
  <2> HIDE DEF after, a, m
  <2>2. 0 \in 0 .. m /\ \A n \in 1 .. m : n \in 0 .. m /\ n # 0
    BY <1>1
  <2>3. h[0] = a /\ \A n \in 1 .. m : h[n] = ResumeTrack(after[n - 1], Tracks[n], now)
    BY <2>2
  <2> HIDE DEF h
  <2>4. QED
    BY <2>1, <2>3
<1>8. QED
  BY <1>6, <1>7

Resuming(x, w, old, now) ==
    /\ Good(x, old, now) /\ x.snap = w.snap
    /\ x.ok => w.ok /\ w.snap.phase \in Halts

\* Resuming every track: all of them opened a segment at that instant.
LEMMA ResumeTracksGood ==
    ASSUME NEW w, NEW old, NEW now \in Nat, Good(w, old, now),
           NEW u, u = ResumeTracks(w, now)
    PROVE  Resuming(u, w, old, now)
<1> DEFINE m == Len(Tracks)
           D == {x \in Works : Resuming(x, w, old, now)}
           a == FirstResume(w)
<1>1. m \in Nat
  BY TracksTypes
<1>2. PhaseAgrees(w.snap)
  BY DEF Good, Live
<1>3. Good(a, old, now) /\ Same(a, w) /\ (a.ok => w.ok /\ w.snap.phase \in Halts)
  <2> DEFINE c == w.snap.phase \in Halts
  <2>1. a = Require(w, c) /\ c \in BOOLEAN
    BY DEF FirstResume
  <2> HIDE DEF a, c
  <2>2. Good(a, old, now) /\ Same(a, w) /\ (a.ok => w.ok /\ c)
    BY <2>1, RequireGood
  <2>3. QED
    BY <2>2 DEF c
<1>4. a \in D
  <2> HIDE DEF a
  <2>1. Resuming(a, w, old, now) /\ a \in Works
    BY <1>3 DEF Resuming, Same, Good
  <2>2. QED
    BY <2>1
<1>6. \A n \in 1 .. m, x \in D : ResumeTrack(x, Tracks[n], now) \in D
  <2> SUFFICES ASSUME NEW n \in 1 .. m, NEW x \in D PROVE ResumeTrack(x, Tracks[n], now) \in D
    OBVIOUS
  <2> DEFINE r == Tracks[n]
             y == ResumeTrack(x, r, now)
  <2>1. r \in Roles /\ Resuming(x, w, old, now) /\ y = ResumeTrack(x, r, now)
    BY TracksTypes
  <2> HIDE DEF r, y
  <2>2. Good(x, old, now) /\ (x.ok => x.snap.segmentStart = Unset)
    BY <1>2, <2>1 DEF Resuming, PhaseAgrees, Halts
  <2>3. Good(y, old, now) /\ y.snap = x.snap /\ (y.ok => x.ok)
    BY <2>1, <2>2, ResumeTrackGood
  <2>4. Resuming(y, w, old, now) /\ y \in Works
    BY <2>1, <2>3 DEF Resuming, Good
  <2>5. QED
    BY <2>4 DEF y, r
<1>5. PICK f : /\ u = f[m] /\ f[0] = a
               /\ \A n \in 1 .. m : f[n] = ResumeTrack(f[n - 1], Tracks[n], now)
  <2> HIDE DEF D
  <2>1. QED
    BY <1>1, <1>4, <1>6, ResumeTracksLoop
<1> DEFINE T == {n \in Nat : n <= m => f[n] \in D}
<1>7. 0 \in T
  BY <1>4, <1>5
<1>8. ASSUME NEW n \in Nat, n \in T PROVE n + 1 \in T
  <2> SUFFICES ASSUME n + 1 <= m PROVE f[n + 1] \in D
    OBVIOUS
  <2>1. n + 1 \in 1 .. m /\ (n + 1) - 1 = n /\ n <= m
    BY <1>1
  <2>2. f[n] \in D
    BY <1>8, <2>1
  <2> HIDE DEF D, T
  <2>3. QED
    BY <1>5, <1>6, <2>1, <2>2
<1>9. Nat \subseteq T
  <2> HIDE DEF T
  <2>1. QED
    BY <1>7, <1>8, Counting
<1>10. m \in T
  BY <1>1, <1>9
<1>11. QED
  BY <1>1, <1>5, <1>10

ResumeSet(s, now) ==
    [s EXCEPT !.phase = "recording", !.pausedAt = Unset, !.segmentStart = now]

\* The body of the resume.
LEMMA ResumedGood ==
    ASSUME NEW w, NEW old, NEW now \in Nat, Len(old) \in Nat, Good(w, old, now),
           NEW u, u = Resumed(w, now)
    PROVE  Good(u, old, now)
<1> DEFINE n == ResumeTracks(w, now)
           g == WithGap(w.snap, now)
           s == ResumeSet(g, now)
           x == Set(n, s)
           y == Persist(x)
<1>1. u = JournalEvent(y)
  BY DEF Resumed, ResumeSet
<1>2. n = ResumeTracks(w, now) /\ g = WithGap(w.snap, now)
  OBVIOUS
<1> HIDE DEF n, g
<1>3. Resuming(n, w, old, now)
  BY <1>2, ResumeTracksGood
<1>4. x = Set(n, s) /\ y = Persist(x) /\ s = ResumeSet(g, now)
  OBVIOUS
<1> HIDE DEF s, x, y
<1>5. ASSUME n.ok PROVE Live(s, n.tracks, now) /\ Stored(n.durable, n.envelope, s)
  <2>1. Live(w.snap, w.tracks, now) /\ w.snap.phase \in {"paused", "sourceLost"}
    BY <1>3, <1>5 DEF Good, Resuming, Halts
  <2>2. /\ g \in Snapshots /\ Kept(g) /\ Reaches(g, now) /\ EndsBy(g, now)
        /\ g.started = w.snap.started /\ g.segments = w.snap.segments
    BY <1>2, <2>1, GapCloses
  <2>3. /\ s \in Snapshots /\ s.phase = "recording" /\ s.segmentStart = now
        /\ s.pausedAt = Unset /\ s.started = g.started
        /\ s.segments = g.segments /\ s.gaps = g.gaps
    BY <1>4, <2>2 DEF Snapshots, ResumeSet
  <2>4. Live(s, n.tracks, now)
    BY <2>2, <2>3, LiveOpened
  <2>5. Stored(n.durable, n.envelope, n.snap) /\ n.snap = w.snap
    BY <1>3 DEF Resuming, Good
  <2>6. n.envelope = Unset
    BY <2>1, <2>5 DEF Stored, Live, PhaseAgrees
  <2>7. QED
    BY <2>2, <2>3, <2>4, <2>5, <2>6, StoredSame
<1>6. Good(n, old, now)
  BY <1>3 DEF Resuming
<1>7. Good(x, old, now)
  BY <1>4, <1>5, <1>6, SetGood
<1>8. Good(y, old, now)
  BY <1>4, <1>7, PersistGood
<1>9. QED
  BY <1>1, <1>8, JournalGood

------------------------
(* A stop. *)

\* What was recorded is covered to its end.
LEMMA ObservedEndCovered ==
    ASSUME NEW s, Kept(s)
    PROVE  /\ ObservedEnd(s) \in Nat
           /\ Covered(s.started, s.segments, s.gaps, ObservedEnd(s))
<1> DEFINE n == Len(s.segments)
           f == [i \in 1 .. n |-> s.segments[i].to]
           ends == {s.started} \cup {s.segments[i].to : i \in 1 .. n}
<1>1. s.started \in Nat /\ s.segments \in Seq(AudioSegments) /\ n \in Nat
  BY SnapTypes DEF Kept
<1>2. \A i \in 1 .. n : s.segments[i].to \in Nat
  BY <1>1, SegmentTypes
<1>3. f \in [1 .. n -> Nat]
  BY <1>2
<1>4. PICK b \in Nat : \A i \in 1 .. n : f[i] <= b
  <2> HIDE DEF f, n
  <2>1. QED
    BY <1>1, <1>3, Bounded
<1>5. \A i \in 1 .. n : s.segments[i].to <= b
  BY <1>4
<1>6. ObservedEnd(s) = Max(ends)
  BY DEF ObservedEnd
<1>7. /\ ends \subseteq Nat /\ ends # {} /\ \A x \in ends : x <= b + s.started
      /\ b + s.started \in Nat
  <2> HIDE DEF f, n
  <2>1. ends \subseteq Nat /\ ends # {}
    BY <1>1, <1>2
  <2>2. \A x \in ends : x <= b + s.started
    BY <1>1, <1>2, <1>5
  <2> HIDE DEF ends
  <2>3. QED
    BY <1>1, <2>1, <2>2
<1>8. Max(ends) \in ends
  <2> HIDE DEF ends
  <2>1. QED
    BY <1>7, Greatest
<1>9. Max(ends) = s.started \/ \E i \in 1 .. n : Max(ends) = s.segments[i].to
  BY <1>8
<1>10. Covered(s.started, s.segments, s.gaps, s.started)
  BY <1>1 DEF Covered
<1>11. \A i \in 1 .. n : Covered(s.started, s.segments, s.gaps, s.segments[i].to)
  BY DEF Kept
<1> HIDE DEF ends, n
<1>12. QED
  BY <1>1, <1>2, <1>6, <1>9, <1>10, <1>11

EnvelopeOf(s) ==
    [segments |-> s.segments, gaps |-> s.gaps, from |-> s.started, to |-> ObservedEnd(s)]

\* The envelope of a covered recording has no hole.
LEMMA EnvelopeSaved ==
    ASSUME NEW s, Kept(s)
    PROVE  Saved(EnvelopeOf(s)) /\ EnvelopeOf(s).segments = s.segments
<1> DEFINE to == ObservedEnd(s)
           e == [segments |-> s.segments, gaps |-> s.gaps, from |-> s.started, to |-> to]
<1>1. to \in Nat /\ Covered(s.started, s.segments, s.gaps, to)
  BY ObservedEndCovered
<1>2. s.started \in Nat /\ s.segments \in Seq(AudioSegments) /\ s.gaps \in Seq(Gaps)
  BY SnapTypes DEF Kept
<1>3. EnvelopeOf(s) = e
  BY DEF EnvelopeOf
<1> HIDE DEF to
<1>4. /\ e \in Envelopes /\ e.segments = s.segments /\ e.gaps = s.gaps
      /\ e.from = s.started /\ e.to = to
  BY <1>1, <1>2 DEF Envelopes
<1> HIDE DEF e
<1>5. Quiet(s.segments, s.gaps)
  BY DEF Kept
<1>6. QED
  BY <1>1, <1>3, <1>4, <1>5 DEF Saved

AtRest(w) == w.ok => w.snap.segmentStart = Unset /\ w.snap.pausedAt = Unset

Audible(s) == s.segments # <<>> /\ ObservedEnd(s) > s.started

StoppedSet(s) == [s EXCEPT !.phase = "stopped"]

\* Finalizing: the envelope is made of the snapshot that is stored.
LEMMA FinalizedGood ==
    ASSUME NEW w, NEW old, NEW now, Len(old) \in Nat, Good(w, old, now), AtRest(w),
           NEW u, u = Finalized(w)
    PROVE  Good(u, old, now)
<1> DEFINE audible == Require(w, Audible(w.snap))
           e == EnvelopeOf(w.snap)
           next == [audible EXCEPT !.envelope = e]
           enveloped == Step(audible, next)
           noted == JournalEvent(enveloped)
           s == StoppedSet(noted.snap)
           x == Set(noted, s)
<1>1. u = Persist(x)
  BY DEF Finalized, Audible, EnvelopeOf, StoppedSet
<1>2. Audible(w.snap) \in BOOLEAN
  BY DEF Audible
<1>3. Good(audible, old, now) /\ Same(audible, w) /\ (audible.ok => w.ok)
  BY <1>2, RequireGood
<1> HIDE DEF audible
<1>4. Saved(e) /\ e.segments = w.snap.segments
  BY EnvelopeSaved DEF Good, Live
<1> HIDE DEF e
<1>5. enveloped = Step(audible, next) /\ noted = JournalEvent(enveloped)
  OBVIOUS
<1>6. /\ next \in Works /\ next.snap = audible.snap /\ next.tracks = audible.tracks
      /\ next.queue = audible.queue /\ next.durable = audible.durable
      /\ next.envelope = e /\ next.ok = audible.ok
  <2>1. audible \in Works /\ e \in Envelopes
    BY <1>3, <1>4 DEF Good, Saved
  <2>2. QED
    BY <2>1 DEF Works
<1> HIDE DEF next, enveloped, noted
<1>7. audible.ok => Good(next, old, now)
  <2> SUFFICES ASSUME audible.ok PROVE Good(next, old, now)
    OBVIOUS
  <2>1. w.snap.segmentStart = Unset /\ w.snap.pausedAt = Unset
    BY <1>3 DEF AtRest
  <2>2. Stored(next.durable, next.envelope, next.snap)
    BY <1>3, <1>4, <1>6, <2>1 DEF Good, Stored, Same
  <2>3. QED
    BY <1>3, <1>6, <2>2 DEF Good
<1>8. Good(enveloped, old, now) /\ Stepped(enveloped, audible, next)
  BY <1>3, <1>5, <1>7, StepGood
<1>9. Good(noted, old, now) /\ Same(noted, enveloped) /\ (noted.ok => enveloped.ok)
  BY <1>5, <1>8, JournalGood
<1>10. enveloped.snap = w.snap /\ (enveloped.ok => audible.ok)
  BY <1>3, <1>6, <1>8 DEF Stepped, Same
<1>11. noted.snap = w.snap /\ (noted.ok => w.ok)
  BY <1>3, <1>9, <1>10 DEF Same
<1>12. s = StoppedSet(noted.snap) /\ x = Set(noted, s)
  OBVIOUS
<1> HIDE DEF s, x
<1>13. Kept(noted.snap) /\ noted.snap \in Snapshots
  BY <1>9 DEF Good, Live, Kept
<1>14. /\ s \in Snapshots /\ s.phase = "stopped" /\ s.started = noted.snap.started
       /\ s.segments = noted.snap.segments /\ s.gaps = noted.snap.gaps
       /\ s.segmentStart = noted.snap.segmentStart /\ s.pausedAt = noted.snap.pausedAt
  BY <1>12, <1>13 DEF Snapshots, StoppedSet
<1>15. ASSUME noted.ok
       PROVE  Live(s, noted.tracks, now) /\ Stored(noted.durable, noted.envelope, s)
  <2>1. s.segmentStart = Unset /\ s.pausedAt = Unset
    BY <1>11, <1>14, <1>15 DEF AtRest
  <2>2. Live(s, noted.tracks, now)
    BY <1>13, <1>14, <2>1, LiveEnded
  <2>3. Stored(noted.durable, noted.envelope, noted.snap)
    BY <1>9 DEF Good
  <2>4. QED
    BY <1>14, <2>1, <2>2, <2>3, StoredSame
<1>16. Good(x, old, now)
  BY <1>9, <1>12, <1>15, SetGood
<1>17. QED
  BY <1>1, <1>16, PersistGood

\* Two assignments of the snapshot are the last one.
LEMMA SetTwice ==
    ASSUME NEW w \in Works, NEW g \in Snapshots, NEW s \in Snapshots, NEW x, x = Set(w, g),
           NEW u, u = Set(x, s)
    PROVE  u = Set(w, s)
<1>1. CASE w.ok
  <2>1. x = [w EXCEPT !.snap = g]
    BY <1>1 DEF Set
  <2>2. x \in Works /\ x.ok = w.ok
    BY <2>1 DEF Works
  <2>3. u = [x EXCEPT !.snap = s]
    BY <1>1, <2>2 DEF Set
  <2>4. u = [w EXCEPT !.snap = s]
    BY <2>1, <2>3 DEF Works
  <2>5. QED
    BY <1>1, <2>4 DEF Set
<1>2. CASE ~w.ok
  BY <1>2 DEF Set
<1>3. QED
  BY <1>1, <1>2

\* What a stop does with the phase it finds.
Ended(w, now) ==
    CASE w.snap.phase = "recording" -> CloseNative(w, "stop", now)
      [] w.snap.phase \in {"paused", "sourceLost"} -> Set(w, WithGap(w.snap, now))
      [] w.snap.phase \in {"interrupted", "finalizing"} -> w
      [] OTHER -> Failed(w)

\* The end of the recording, from each phase it can be stopped in.
LEMMA EndedGood ==
    ASSUME NEW w, NEW old, NEW now \in Nat, Len(old) \in Nat, Good(w, old, now),
           NEW ended, ended = Ended(w, now), NEW u, u = Halt(ended, "finalizing", Unset)
    PROVE  Good(u, old, now) /\ AtRest(u)
<1> DEFINE s == PhaseSet(ended.snap, "finalizing", Unset, Unset)
<1>1. u = Set(ended, s) /\ s = PhaseSet(ended.snap, "finalizing", Unset, Unset)
  BY DEF Halt, PhaseSet
<1> HIDE DEF s
<1>2. ASSUME Good(ended, old, now) PROVE Good(u, old, now) /\ AtRest(u)
  <2>1. /\ Good(u, old, now) /\ (u.ok <=> ended.ok)
        /\ u.ok => u.snap = s /\ s.segmentStart = Unset /\ s.pausedAt = Unset
    BY <1>1, <1>2, EndGood
  <2>2. QED
    BY <2>1 DEF AtRest
<1>3. w \in Works
  BY DEF Good
<1>4. CASE w.snap.phase = "recording"
  <2> DEFINE reason == "stop"
  <2>1. ended = CloseNative(w, reason, now)
    BY <1>4 DEF Ended
  <2> HIDE DEF reason
  <2>2. ClosedAt(ended, w, old, now, now)
    BY <2>1, CloseNativeGood
  <2>3. QED
    BY <1>2, <2>2 DEF ClosedAt
<1>5. CASE w.snap.phase \in {"paused", "sourceLost"}
  <2> DEFINE g == WithGap(w.snap, now)
  <2>1. ended = Set(w, g)
    BY <1>5 DEF Ended
  <2>2. g = WithGap(w.snap, now)
    OBVIOUS
  <2> HIDE DEF g
  <2>3. /\ g \in Snapshots /\ Kept(g) /\ g.segments = w.snap.segments
    BY <1>5, <2>2, GapCloses DEF Good
  <2>4. CASE ~w.ok
    <3>1. ended = w
      BY <2>1, <2>4 DEF Set
    <3>2. QED
      BY <1>2, <3>1
  <2>5. CASE w.ok
    <3>1. ended.snap = g
      BY <1>3, <2>1, <2>5 DEF Set, Works
    <3>2. s = PhaseSet(g, "finalizing", Unset, Unset)
      BY <1>1, <3>1
    <3>3. /\ s \in Snapshots /\ s.phase = "finalizing" /\ s.segmentStart = Unset
          /\ s.pausedAt = Unset /\ s.started = g.started
          /\ s.segments = g.segments /\ s.gaps = g.gaps
      BY <2>3, <3>2 DEF PhaseSet, Snapshots
    <3>4. u = Set(w, s)
      BY <1>1, <1>3, <2>1, <2>3, <3>3, SetTwice
    <3>5. Live(s, w.tracks, now)
      BY <2>3, <3>3, LiveEnded
    <3>6. Stored(w.durable, w.envelope, s)
      BY <2>3, <3>3, StoredSame DEF Good
    <3>7. Good(u, old, now) /\ (u.ok => u.snap = s)
      BY <3>4, <3>5, <3>6, SetGood
    <3>8. QED
      BY <3>3, <3>7 DEF AtRest
  <2>6. QED
    BY <2>4, <2>5
<1>6. CASE w.snap.phase \in {"interrupted", "finalizing"}
  <2>1. ended = w
    BY <1>6 DEF Ended
  <2>2. QED
    BY <1>2, <2>1
<1>7. CASE w.snap.phase \notin {"recording", "paused", "sourceLost", "interrupted", "finalizing"}
  <2>1. ended = Failed(w)
    BY <1>7 DEF Ended
  <2>2. ended \in Works /\ Same(ended, w)
    BY <1>3, <2>1, FailedKeeps
  <2>3. QED
    BY <1>2, <2>2, GoodSame
<1>8. QED
  BY <1>4, <1>5, <1>6, <1>7

\* The body of the stop.
LEMMA StoppedGood ==
    ASSUME NEW w, NEW old, NEW now \in Nat, Len(old) \in Nat, Good(w, old, now),
           NEW u, u = Stopped(w, now)
    PROVE  Good(u, old, now)
<1> DEFINE ended == Ended(w, now)
           final == Halt(ended, "finalizing", Unset)
           x == Persist(final)
           y == JournalEvent(x)
<1>1. u = Finalized(y)
  BY DEF Stopped, Ended
<1>2. ended = Ended(w, now) /\ final = Halt(ended, "finalizing", Unset)
      /\ x = Persist(final) /\ y = JournalEvent(x)
  OBVIOUS
<1> HIDE DEF ended, final, x, y
<1>3. Good(final, old, now) /\ AtRest(final)
  BY <1>2, EndedGood
<1>4. Good(x, old, now) /\ (x.ok => final.ok) /\ x.snap = final.snap
  BY <1>2, <1>3, PersistGood
<1>5. Good(y, old, now) /\ Same(y, x) /\ (y.ok => x.ok)
  BY <1>2, <1>4, JournalGood
<1>6. AtRest(y)
  BY <1>3, <1>4, <1>5 DEF AtRest, Same
<1>7. QED
  BY <1>1, <1>5, <1>6, FinalizedGood

------------------------
(* A start. *)

\* Nothing has been recorded: what was saved, if anything, is a snapshot to keep.
Begun(w) == w \in Works /\ Kept(w.snap) /\ (w.durable # Unset => Kept(w.durable))

\* A fallible step of a start that has not stored anything that is live.
LEMMA StepBegun ==
    ASSUME NEW w, Begun(w), NEW next, w.ok => Begun(next), NEW u, u = Step(w, next)
    PROVE  Begun(u) /\ Stepped(u, w, next)
<1>1. w \in Works
  BY DEF Begun
<1>2. Stepped(u, w, next)
  <2>1. CASE ~w.ok
    BY <1>1, <2>1, StepFails
  <2>2. CASE w.ok
    <3>1. next \in Works
      BY <2>2 DEF Begun
    <3>2. QED
      BY <1>1, <3>1, StepKeeps
  <2>3. QED
    BY <2>1, <2>2
<1>3. QED
  BY <1>2 DEF Begun, Stepped, Same

\* The append to the journal in a start.
LEMMA JournalBegun ==
    ASSUME NEW w, Begun(w), NEW u, u = JournalEvent(w)
    PROVE  Begun(u) /\ Same(u, w) /\ (u.ok => w.ok)
<1>1. u = Step(w, w)
  BY DEF JournalEvent
<1>2. Begun(u) /\ Stepped(u, w, w)
  BY <1>1, StepBegun
<1>3. QED
  BY <1>2 DEF Stepped

\* Storing the snapshot in a start.
LEMMA PersistBegun ==
    ASSUME NEW w, Begun(w), NEW u, u = Persist(w)
    PROVE  /\ Begun(u) /\ u.snap = w.snap /\ u.tracks = w.tracks
           /\ u.ok => w.ok /\ u.durable = w.snap
<1>1. w \in Works
  BY DEF Begun
<1>2. CASE ~(w.ok /\ Valid(w.snap))
  <2>1. u = Failed(w)
    BY <1>2 DEF Persist
  <2>2. u \in Works /\ Same(u, w) /\ u.ok = FALSE
    BY <1>1, <2>1, FailedKeeps
  <2>3. QED
    BY <2>2 DEF Same, Begun
<1>3. CASE w.ok /\ Valid(w.snap)
  <2> DEFINE next == [w EXCEPT !.durable = w.snap]
  <2>1. u = Step(w, next)
    BY <1>3 DEF Persist
  <2>2. w.snap \in Snapshots
    BY <1>1, WorkTypes
  <2>3. /\ next \in Works /\ next.snap = w.snap /\ next.tracks = w.tracks
        /\ next.durable = w.snap /\ next.ok = w.ok
    BY <1>1, <2>2 DEF Works
  <2> HIDE DEF next
  <2>4. Begun(next)
    BY <2>3 DEF Begun
  <2>5. Begun(u) /\ Stepped(u, w, next)
    BY <2>1, <2>4, StepBegun
  <2>6. QED
    BY <1>3, <2>3, <2>5 DEF Stepped, Same
<1>4. QED
  BY <1>2, <1>3

\* An assignment of the snapshot in a start.
LEMMA SetBegun ==
    ASSUME NEW w, Begun(w), NEW s, Kept(s), NEW u, u = Set(w, s)
    PROVE  /\ Begun(u) /\ u.tracks = w.tracks
           /\ u.ok => w.ok /\ u.snap = s
<1>1. w \in Works
  BY DEF Begun
<1>2. CASE w.ok
  <2>1. u = [w EXCEPT !.snap = s] /\ s \in Snapshots
    BY <1>2 DEF Set, Kept
  <2>2. /\ u \in Works /\ u.snap = s /\ u.tracks = w.tracks /\ u.durable = w.durable
        /\ u.ok = w.ok
    BY <1>1, <2>1 DEF Works
  <2>3. QED
    BY <1>2, <2>2 DEF Begun
<1>3. CASE ~w.ok
  BY <1>3 DEF Set
<1>4. QED
  BY <1>2, <1>3

\* A snapshot of nothing is covered up to its start.
LEMMA FreshKept ==
    ASSUME NEW s \in Snapshots, s.segments = <<>>, s.gaps = <<>>
    PROVE  Kept(s) /\ Reaches(s, s.started) /\ EndsBy(s, s.started)
<1>1. Len(s.segments) = 0 /\ Len(s.gaps) = 0 /\ 1 .. 0 = {} /\ s.started \in Nat
  BY SnapTypes
<1>2. Covered(s.started, s.segments, s.gaps, s.started)
  BY <1>1 DEF Covered
<1>3. Quiet(s.segments, s.gaps)
  BY <1>1 DEF Quiet, Within
<1>4. QED
  BY <1>1, <1>2, <1>3 DEF Kept, Reaches, MarkedBy, EndsBy

First == [phase |-> "starting", started |-> time, segmentStart |-> time,
          pausedAt |-> Unset, segments |-> <<>>, gaps |-> <<>>, notices |-> 0]

\* The snapshot a start begins with.
LEMMA FirstTypes ==
    ASSUME time \in Nat, NEW s, s = First
    PROVE  /\ s \in Snapshots /\ s.phase = "starting" /\ s.started = time
           /\ s.segmentStart = time /\ s.pausedAt = Unset
           /\ s.segments = <<>> /\ s.gaps = <<>>
<1> DEFINE noSegments == <<>>
           noGaps == <<>>
<1>1. noSegments \in Seq(AudioSegments) /\ noGaps \in Seq(Gaps)
  OBVIOUS
<1>2. s = [phase |-> "starting", started |-> time, segmentStart |-> time, pausedAt |-> Unset,
           segments |-> noSegments, gaps |-> noGaps, notices |-> 0]
  BY DEF First
<1> HIDE DEF noSegments, noGaps
<1>3. /\ s \in Snapshots /\ s.phase = "starting" /\ s.started = time
      /\ s.segmentStart = time /\ s.pausedAt = Unset
      /\ s.segments = noSegments /\ s.gaps = noGaps
  BY <1>1, <1>2 DEF Snapshots
<1>4. QED
  BY <1>3 DEF noSegments, noGaps

\* Work of a command with no recording in memory.
Loose == [snap: Snapshots \cup {Unset}, tracks: [Roles -> TrackStates], queue: SUBSET Signals,
          closed: Seq(AudioSegments), durable: Snapshots \cup {Unset},
          envelope: Envelopes \cup {Unset}, fault: Nat, ok: BOOLEAN]

Empty(w) == w \in Loose /\ w.durable = Unset

Void(w) == Empty(w) /\ ~w.ok

\* A failed start with nothing in memory stays one.
LEMMA VoidFails ==
    ASSUME NEW w, Empty(w), NEW u, u = Failed(w)
    PROVE  Void(u)
BY DEF Failed, Empty, Void, Loose

\* No step of a failed start changes anything.
LEMMA VoidStays ==
    ASSUME NEW w, Void(w)
    PROVE  /\ Void(Failed(w)) /\ w.durable = Unset
           /\ \A s : Set(w, s) = w
           /\ \A next : Step(w, next) = Failed(w)
           /\ Persist(w) = Failed(w)
<1>1. Void(Failed(w))
  BY VoidFails DEF Void
<1>2. QED
  BY <1>1 DEF Void, Empty, Set, Step, Persist

\* What a start leaves: a snapshot to keep, or none; and if it succeeds, a
\* recording that has begun.
BegunAt(u) ==
    /\ u.durable # Unset => Kept(u.durable)
    /\ u.ok => /\ Live(u.snap, u.tracks, time) /\ u.durable = u.snap
               /\ u.tracks \in [Roles -> TrackStates]

\* The body of the start: a recording that is good, or nothing but tracks at rest.
LEMMA StartedKeeps ==
    ASSUME time \in Nat, tracks \in [Roles -> TrackStates], queue \subseteq Signals,
           NEW w, Empty(w), w.ok, NEW u, u = Started(w)
    PROVE  BegunAt(u)
<1> DEFINE first == First
           x == Step(w, w)
           y == Set(x, first)
           p == Persist(y)
           requested == JournalEvent(p)
           opened == [r \in Roles |-> [Closed EXCEPT !.from = time]]
           next == [requested EXCEPT !.tracks = opened]
           streaming == Step(requested, next)
           begun == [first EXCEPT !.phase = "recording"]
           z == Set(streaming, begun)
           q == Persist(z)
           recording == JournalEvent(q)
           failed == [first EXCEPT !.phase = "interrupted", !.notices = 1]
           left == [streaming EXCEPT !.durable = failed]
<1>1. u = IF requested.ok /\ ~streaming.ok THEN left ELSE recording
  BY DEF Started, First
<1>2. /\ x = Step(w, w) /\ y = Set(x, first) /\ p = Persist(y)
      /\ requested = JournalEvent(p) /\ streaming = Step(requested, next)
      /\ z = Set(streaming, begun) /\ q = Persist(z) /\ recording = JournalEvent(q)
  OBVIOUS
<1>3. /\ first \in Snapshots /\ first.started = time /\ first.segmentStart = time
      /\ first.pausedAt = Unset /\ first.segments = <<>> /\ first.gaps = <<>>
  BY FirstTypes
<1> HIDE DEF first
<1>4. /\ begun \in Snapshots /\ begun.phase = "recording" /\ begun.started = time
      /\ begun.segmentStart = time /\ begun.pausedAt = Unset
      /\ begun.segments = <<>> /\ begun.gaps = <<>>
  <2>1. /\ begun \in Snapshots /\ begun.phase = "recording" /\ begun.started = first.started
        /\ begun.segmentStart = first.segmentStart /\ begun.pausedAt = first.pausedAt
        /\ begun.segments = first.segments /\ begun.gaps = first.gaps
    BY <1>3 DEF Snapshots
  <2>2. QED
    BY <1>3, <2>1
<1>5. /\ failed \in Snapshots /\ failed.segments = <<>> /\ failed.gaps = <<>>
  <2>1. /\ failed \in Snapshots
        /\ failed.segments = first.segments /\ failed.gaps = first.gaps
    BY <1>3 DEF Snapshots
  <2>2. QED
    BY <1>3, <2>1
<1>6. opened \in [Roles -> TrackStates]
  <2>1. [Closed EXCEPT !.from = time] \in TrackStates
    BY DEF Closed, TrackStates
  <2>2. QED
    BY <2>1
<1> HIDE DEF x, y, p, requested, opened, streaming, begun, z, q, recording, failed
<1>7. /\ Kept(first) /\ Kept(failed)
      /\ Kept(begun) /\ Reaches(begun, time) /\ EndsBy(begun, time)
  BY <1>3, <1>4, <1>5, FreshKept
<1>8. CASE w.fault = 1
  <2>1. Void(x)
    <3>1. x = Failed(w)
      BY <1>2, <1>8 DEF Step
    <3>2. QED
      BY <3>1, VoidFails
  <2>2. Void(y) /\ Void(p) /\ Void(requested) /\ ~requested.ok
    BY <1>2, <2>1, VoidStays DEF JournalEvent, Void
  <2>3. Void(streaming) /\ Void(z) /\ Void(q) /\ Void(recording)
    BY <1>2, <2>2, VoidStays DEF JournalEvent
  <2>4. recording.durable = Unset /\ ~recording.ok
    BY <2>3, VoidStays DEF Void
  <2>5. QED
    BY <1>1, <2>2, <2>4 DEF BegunAt
<1>9. CASE w.fault # 1
  <2> DEFINE rest == IF w.fault = 0 THEN 0 ELSE w.fault - 1
  <2>1. w \in Loose /\ w.durable = Unset /\ rest \in Nat
    BY DEF Empty, Loose
  <2>2. x = [w EXCEPT !.fault = rest]
    BY <1>2, <1>9 DEF Step
  <2> HIDE DEF rest
  <2>3. x \in Loose /\ x.durable = Unset /\ x.ok
    BY <2>1, <2>2 DEF Loose
  <2>4. y = [x EXCEPT !.snap = first]
    BY <1>2, <2>3 DEF Set
  <2>5. y \in Works
    BY <1>3, <2>3, <2>4 DEF Loose, Works
  <2>6. y.snap = first /\ y.durable = Unset
    BY <2>3, <2>4 DEF Loose
  <2>7. y \in Works /\ y.snap = first /\ y.durable = Unset
    BY <2>5, <2>6
  <2>8. Begun(y)
    BY <1>7, <2>7 DEF Begun
  <2>9. Begun(p)
    BY <1>2, <2>8, PersistBegun
  <2>10. Begun(requested)
    BY <1>2, <2>9, JournalBegun
  <2>11. /\ next \in Works /\ next.snap = requested.snap /\ next.durable = requested.durable
         /\ next.tracks = opened /\ next.ok = requested.ok
    BY <1>6, <2>10 DEF Begun, Works
  <2> HIDE DEF next
  <2>12. Begun(next)
    BY <2>10, <2>11 DEF Begun
  <2>13. Begun(streaming) /\ Stepped(streaming, requested, next)
    BY <1>2, <2>10, <2>12, StepBegun
  <2>14. streaming.ok => streaming.tracks = opened
    BY <2>11, <2>13 DEF Stepped, Same
  <2>15. Begun(z) /\ z.tracks = streaming.tracks /\ (z.ok => streaming.ok /\ z.snap = begun)
    BY <1>2, <1>7, <2>13, SetBegun, SMTT(30)
  <2>16. /\ Begun(q) /\ q.snap = z.snap /\ q.tracks = z.tracks
         /\ q.ok => z.ok /\ q.durable = z.snap
    BY <1>2, <2>15, PersistBegun
  <2>17. Begun(recording) /\ Same(recording, q) /\ (recording.ok => q.ok)
    BY <1>2, <2>16, JournalBegun
  <2>18. CASE u = recording
    <3>1. ASSUME u.ok PROVE Live(u.snap, u.tracks, time) /\ u.durable = u.snap
                            /\ u.tracks \in [Roles -> TrackStates]
      <4>1. u.snap = begun /\ u.tracks = opened /\ u.durable = begun
        BY <2>14, <2>15, <2>16, <2>17, <2>18, <3>1 DEF Same
      <4>2. Live(begun, opened, time)
        BY <1>4, <1>7, LiveOpened
      <4>3. QED
        BY <1>6, <4>1, <4>2
    <3>2. QED
      BY <2>17, <2>18, <3>1 DEF BegunAt, Begun
  <2>19. CASE u = left /\ ~streaming.ok
    <3>1. u.durable = failed /\ ~u.ok
      BY <1>5, <2>13, <2>19 DEF Begun, Works
    <3>2. QED
      BY <1>7, <3>1 DEF BegunAt
  <2>20. QED
    BY <1>1, <2>18, <2>19
<1>10. QED
  BY <1>8, <1>9

------------------------
(* Commands. *)

\* A fault is a number of steps.
LEMMA FaultTypes ==
    ASSUME NEW fault \in Faults
    PROVE  fault \in Nat
BY CaptureAssumption DEF Faults

\* The segments that are durable for the recording in memory.
KnownSegments == durable[activeSession].segments

\* The work a command begins with is good.
LEMMA WorkGood ==
    ASSUME CaptureInv, activeSession # Unset, NEW fault \in Nat, NEW w, w = Work(fault)
    PROVE  Good(w, KnownSegments, time) /\ Len(KnownSegments) \in Nat
<1> DEFINE none == <<>>
           d == durable[activeSession]
           e == envelope[activeSession]
<1>1. activeSession \in Recordings
  BY DEF CaptureInv
<1>2. d \in Snapshots /\ e \in Envelopes \cup {Unset} /\ d # Unset
  BY <1>1 DEF CaptureInv
<1>3. none \in Seq(AudioSegments)
  OBVIOUS
<1>4. /\ snap \in Snapshots /\ tracks \in [Roles -> TrackStates] /\ queue \in SUBSET Signals
      /\ Live(snap, tracks, time) /\ Stored(d, e, snap) /\ Waiting(queue, time)
  BY DEF CaptureInv, Live, Kept, Waiting
<1>5. w = [snap |-> snap, tracks |-> tracks, queue |-> queue, closed |-> none,
           durable |-> d, envelope |-> e, fault |-> fault, ok |-> TRUE]
  BY DEF Work
<1>6. KnownSegments = d.segments /\ d.segments \in Seq(AudioSegments)
  BY <1>2, SnapTypes DEF KnownSegments
<1> HIDE DEF none, d, e
<1>7. /\ w \in Works /\ w.snap = snap /\ w.tracks = tracks /\ w.queue = queue
      /\ w.durable = d /\ w.envelope = e
  BY <1>2, <1>3, <1>4, <1>5 DEF Works
<1>8. Extends(d.segments, d.segments)
  BY <1>6, ExtendsSelf
<1>9. QED
  BY <1>2, <1>4, <1>6, <1>7, <1>8 DEF Good

\* A drain of the queue lists signals of the past.
LEMMA DrainsHeard ==
    ASSUME CaptureInv, NEW list \in Drains
    PROVE  Heard(list, time)
<1> DEFINE n == Cardinality(queue)
<1>1. IsFiniteSet(queue) /\ queue \subseteq Signals /\ \A g \in queue : g.from <= time
  BY DEF CaptureInv, Waiting
<1>2. n \in Nat
  BY <1>1, FS_CardinalityType
<1>3. list \in [1 .. n -> queue]
  BY DEF Drains
<1> HIDE DEF n
<1>4. list \in Seq(queue) /\ Len(list) = n
  BY <1>2, <1>3
<1>5. QED
  BY <1>1, <1>2, <1>3, <1>4 DEF Heard

\* What a step keeps of the durable segments of one recording.
Keeps(d, next, e) ==
    d # Unset => /\ next # Unset
                 /\ Extends(d.segments, next.segments)
                 /\ e # Unset => Extends(d.segments, e.segments)

KeepsSegments == \A x \in Recordings : Keeps(durable[x], durable'[x], envelope'[x])

\* Files that do not change keep their segments.
LEMMA UnchangedKeeps ==
    ASSUME CaptureInv, NEW x \in Recordings, durable'[x] = durable[x],
           envelope'[x] = envelope[x]
    PROVE  Keeps(durable[x], durable'[x], envelope'[x])
<1>1. durable[x] # Unset => durable[x].segments \in Seq(AudioSegments)
  BY SnapTypes DEF CaptureInv
<1>2. QED
  BY <1>1, ExtendsSelf DEF CaptureInv, Keeps

\* The files of the recording in memory after a command.
LEMMA FilesGood ==
    ASSUME CaptureInv, activeSession # Unset, NEW w, Good(w, KnownSegments, time),
           durable' = [durable EXCEPT ![activeSession] = w.durable],
           envelope' = [envelope EXCEPT ![activeSession] = w.envelope]
    PROVE  /\ durable' \in [Recordings -> Snapshots \cup {Unset}]
           /\ envelope' \in [Recordings -> Envelopes \cup {Unset}]
           /\ \A x \in Recordings :
                /\ durable'[x] # Unset => Kept(durable'[x])
                /\ envelope'[x] # Unset =>
                    /\ Saved(envelope'[x])
                    /\ durable'[x] # Unset
                    /\ Extends(durable'[x].segments, envelope'[x].segments)
           /\ durable'[activeSession] = w.durable /\ envelope'[activeSession] = w.envelope
           /\ KeepsSegments
<1> DEFINE a == activeSession
<1>1. a \in Recordings /\ w \in Works
  BY DEF CaptureInv, Good
<1>2. w.durable \in Snapshots \cup {Unset} /\ w.envelope \in Envelopes \cup {Unset}
  BY <1>1, WorkTypes
<1>3. /\ durable'[a] = w.durable /\ envelope'[a] = w.envelope
      /\ \A x \in Recordings : x # a => durable'[x] = durable[x] /\ envelope'[x] = envelope[x]
  BY <1>1 DEF CaptureInv
<1>4. /\ durable' \in [Recordings -> Snapshots \cup {Unset}]
      /\ envelope' \in [Recordings -> Envelopes \cup {Unset}]
  BY <1>2 DEF CaptureInv
<1>5. w.durable # Unset /\ Stored(w.durable, w.envelope, w.snap)
      /\ Extends(durable[a].segments, w.durable.segments)
  BY DEF Good, KnownSegments
<1>6. Keeps(durable[a], durable'[a], envelope'[a])
  <2> SUFFICES ASSUME w.envelope # Unset, durable[a] # Unset
               PROVE  Extends(durable[a].segments, w.envelope.segments)
    BY <1>3, <1>5 DEF Keeps
  <2>1. /\ w.envelope.segments = w.snap.segments
        /\ Extends(w.durable.segments, w.snap.segments)
    BY <1>5 DEF Stored
  <2>2. /\ durable[a].segments \in Seq(AudioSegments) /\ w.durable.segments \in Seq(AudioSegments)
        /\ w.snap.segments \in Seq(AudioSegments)
    BY <1>1, <1>2, <1>5, WorkTypes, SnapTypes DEF CaptureInv
  <2>3. Len(durable[a].segments) \in Nat
    BY <2>2
  <2>4. Extends(durable[a].segments, w.snap.segments)
    BY <1>5, <2>1, <2>2, <2>3, ExtendsOn
  <2>5. QED
    BY <2>1, <2>4
<1>7. KeepsSegments
  <2> SUFFICES ASSUME NEW x \in Recordings
               PROVE  Keeps(durable[x], durable'[x], envelope'[x])
    BY DEF KeepsSegments
  <2>1. CASE x = a
    BY <1>6, <2>1
  <2>2. CASE x # a
    BY <1>3, <2>2, UnchangedKeeps
  <2>3. QED
    BY <2>1, <2>2
<1>8. ASSUME NEW x \in Recordings
      PROVE  /\ durable'[x] # Unset => Kept(durable'[x])
             /\ envelope'[x] # Unset =>
                    /\ Saved(envelope'[x])
                    /\ durable'[x] # Unset
                    /\ Extends(durable'[x].segments, envelope'[x].segments)
  <2>1. CASE x = a
    BY <1>3, <1>5, <2>1 DEF Stored
  <2>2. CASE x # a
    BY <1>3, <2>2 DEF CaptureInv
  <2>3. QED
    BY <2>1, <2>2
<1>9. QED
  BY <1>3, <1>4, <1>7, <1>8

\* A command whose work is good keeps the invariant when it is done.
LEMMA DoneKeeps ==
    ASSUME CaptureInv, activeSession # Unset, NEW w, Good(w, KnownSegments, time), Done(w)
    PROVE  CaptureInv' /\ KeepsSegments
<1>1. /\ durable' \in [Recordings -> Snapshots \cup {Unset}]
      /\ envelope' \in [Recordings -> Envelopes \cup {Unset}]
      /\ \A x \in Recordings :
           /\ durable'[x] # Unset => Kept(durable'[x])
           /\ envelope'[x] # Unset =>
               /\ Saved(envelope'[x])
               /\ durable'[x] # Unset
               /\ Extends(durable'[x].segments, envelope'[x].segments)
      /\ durable'[activeSession] = w.durable /\ envelope'[activeSession] = w.envelope
      /\ KeepsSegments
  BY FilesGood DEF Done
<1>2. /\ snap' = w.snap /\ tracks' = w.tracks /\ queue' = w.queue
      /\ time' = time /\ activeSession' = activeSession
  BY DEF Done
<1>3. w.tracks \in [Roles -> TrackStates]
  BY WorkTypes DEF Good
<1>4. Live(w.snap, w.tracks, time) /\ Waiting(w.queue, time)
      /\ w.durable # Unset /\ Stored(w.durable, w.envelope, w.snap)
  BY DEF Good
<1>5. QED
  BY <1>1, <1>2, <1>3, <1>4 DEF CaptureInv

\* The status and its poll.
LEMMA CaptureStatusKeeps ==
    ASSUME CaptureInv, CaptureStatus
    PROVE  CaptureInv' /\ KeepsSegments
<1>1. PICK fault \in Faults, list \in Drains : Done(Ticked(Work(fault), list, time))
  BY DEF CaptureStatus
<1> DEFINE b == Work(fault)
           w == Ticked(b, list, time)
<1>2. activeSession # Unset /\ fault \in Nat
  BY FaultTypes DEF CaptureStatus
<1>3. b = Work(fault) /\ w = Ticked(b, list, time) /\ Done(w)
  BY <1>1
<1> HIDE DEF b, w
<1>4. Good(b, KnownSegments, time) /\ Len(KnownSegments) \in Nat
  BY <1>2, <1>3, WorkGood
<1>5. Heard(list, time)
  BY DrainsHeard
<1>6. Good(w, KnownSegments, time)
  BY <1>3, <1>4, <1>5, TickedGood
<1>7. QED
  BY <1>2, <1>3, <1>6, DoneKeeps

\* The pause.
LEMMA PauseCaptureKeeps ==
    ASSUME CaptureInv, PauseCapture
    PROVE  CaptureInv' /\ KeepsSegments
<1>1. PICK fault \in Faults, list \in Drains :
        Done(Paused(Ticked(Work(fault), list, time), time))
  BY DEF PauseCapture
<1> DEFINE b == Work(fault)
           c == Ticked(b, list, time)
           w == Paused(c, time)
<1>2. activeSession # Unset /\ fault \in Nat /\ time \in Nat
  BY FaultTypes DEF PauseCapture, CaptureInv
<1>3. b = Work(fault) /\ c = Ticked(b, list, time) /\ w = Paused(c, time) /\ Done(w)
  BY <1>1
<1> HIDE DEF b, c, w
<1>4. Good(b, KnownSegments, time) /\ Len(KnownSegments) \in Nat
  BY <1>2, <1>3, WorkGood
<1>5. Heard(list, time)
  BY DrainsHeard
<1>6. Good(c, KnownSegments, time)
  BY <1>3, <1>4, <1>5, TickedGood
<1>7. Good(w, KnownSegments, time)
  BY <1>2, <1>3, <1>4, <1>6, PausedGood
<1>8. QED
  BY <1>2, <1>3, <1>7, DoneKeeps

\* The resume.
LEMMA ResumeCaptureKeeps ==
    ASSUME CaptureInv, ResumeCapture
    PROVE  CaptureInv' /\ KeepsSegments
<1>1. PICK fault \in Faults : Done(Resumed(Work(fault), time))
  BY DEF ResumeCapture
<1> DEFINE b == Work(fault)
           w == Resumed(b, time)
<1>2. activeSession # Unset /\ fault \in Nat /\ time \in Nat
  BY FaultTypes DEF ResumeCapture, CaptureInv
<1>3. b = Work(fault) /\ w = Resumed(b, time) /\ Done(w)
  BY <1>1
<1> HIDE DEF b, w
<1>4. Good(b, KnownSegments, time) /\ Len(KnownSegments) \in Nat
  BY <1>2, <1>3, WorkGood
<1>5. Good(w, KnownSegments, time)
  BY <1>2, <1>3, <1>4, ResumedGood
<1>6. QED
  BY <1>2, <1>3, <1>5, DoneKeeps

\* The tracks when nothing streams.
LEMMA NoStreamTypes == NoStream \in [Roles -> TrackStates] /\ Closed \in TrackStates
BY DEF NoStream, Closed, TrackStates

\* An empty queue holds no signal of the future.
LEMMA NothingWaits == \A now : Waiting({}, now)
BY FS_EmptySet DEF Waiting

\* The stop, and a stop that is tried again.
LEMMA StopCaptureKeeps ==
    ASSUME CaptureInv, StopCapture
    PROVE  CaptureInv' /\ KeepsSegments
<1> DEFINE Leave(w) ==
             /\ activeSession' = Unset /\ tracks' = NoStream /\ queue' = {}
             /\ durable' = [durable EXCEPT ![activeSession] = w.durable]
             /\ envelope' = [envelope EXCEPT ![activeSession] = w.envelope]
             /\ time' = time
<1>1. PICK fault \in Faults :
        LET w == Stopped(Work(fault), time) IN IF ~w.ok THEN Done(w) ELSE Leave(w)
  BY DEF StopCapture
<1> DEFINE b == Work(fault)
           w == Stopped(b, time)
<1>2. activeSession # Unset /\ fault \in Nat /\ time \in Nat
  BY FaultTypes DEF StopCapture, CaptureInv
<1>3. b = Work(fault) /\ w = Stopped(b, time) /\ (Done(w) \/ Leave(w))
  BY <1>1
<1> HIDE DEF b, w
<1>4. Good(b, KnownSegments, time) /\ Len(KnownSegments) \in Nat
  BY <1>2, <1>3, WorkGood
<1>5. Good(w, KnownSegments, time)
  BY <1>2, <1>3, <1>4, StoppedGood
<1>6. CASE Done(w)
  BY <1>2, <1>5, <1>6, DoneKeeps
<1>7. CASE Leave(w)
  <2>1. /\ durable' \in [Recordings -> Snapshots \cup {Unset}]
        /\ envelope' \in [Recordings -> Envelopes \cup {Unset}]
        /\ \A x \in Recordings :
             /\ durable'[x] # Unset => Kept(durable'[x])
             /\ envelope'[x] # Unset =>
                 /\ Saved(envelope'[x])
                 /\ durable'[x] # Unset
                 /\ Extends(durable'[x].segments, envelope'[x].segments)
        /\ KeepsSegments
    BY <1>2, <1>5, <1>7, FilesGood
  <2>2. tracks' \in [Roles -> TrackStates] /\ Waiting(queue', time') /\ time' \in Nat
    BY <1>2, <1>7, NoStreamTypes, NothingWaits
  <2>3. QED
    BY <1>7, <2>1, <2>2 DEF CaptureInv
<1>8. QED
  BY <1>3, <1>6, <1>7

\* The start.
LEMMA StartCaptureKeeps ==
    ASSUME CaptureInv, NEW r \in Recordings, StartCapture(r)
    PROVE  CaptureInv' /\ KeepsSegments
<1>1. PICK fault \in Faults :
        LET w == Started([Work(fault) EXCEPT !.snap = Unset]) IN
        /\ durable' = [durable EXCEPT ![r] = w.durable]
        /\ IF w.ok THEN activeSession' = r /\ snap' = w.snap /\ tracks' = w.tracks
                   ELSE UNCHANGED <<activeSession, snap, tracks>>
  BY DEF StartCapture
<1> DEFINE none == <<>>
           b == [Work(fault) EXCEPT !.snap = Unset]
           w == Started(b)
<1>2. /\ activeSession = Unset /\ durable[r] = Unset /\ fault \in Nat
      /\ time' = time /\ queue' = queue /\ envelope' = envelope
  BY FaultTypes DEF StartCapture
<1>3. /\ time \in Nat /\ tracks \in [Roles -> TrackStates] /\ queue \subseteq Signals
      /\ durable \in [Recordings -> Snapshots \cup {Unset}]
      /\ Waiting(queue, time)
  BY DEF CaptureInv, Waiting
<1>4. Empty(b) /\ b.ok
  <2>1. none \in Seq(AudioSegments)
    OBVIOUS
  <2> DEFINE v == Work(fault)
  <2>2. v = [snap |-> snap, tracks |-> tracks, queue |-> queue, closed |-> none,
             durable |-> Unset, envelope |-> Unset, fault |-> fault, ok |-> TRUE]
    BY <1>2 DEF Work
  <2>3. b = [v EXCEPT !.snap = Unset]
    OBVIOUS
  <2> HIDE DEF none, b, v
  <2>4. /\ v \in [snap: {snap}, tracks: [Roles -> TrackStates], queue: SUBSET Signals,
                  closed: Seq(AudioSegments), durable: {Unset}, envelope: {Unset},
                  fault: Nat, ok: BOOLEAN]
        /\ v.ok
    BY <1>2, <1>3, <2>1, <2>2
  <2>5. b \in Loose /\ b.durable = Unset /\ b.ok
    BY <2>3, <2>4 DEF Loose
  <2>6. QED
    BY <2>5 DEF Empty
<1>5. /\ w = Started(b) /\ durable' = [durable EXCEPT ![r] = w.durable]
      /\ \/ w.ok /\ activeSession' = r /\ snap' = w.snap /\ tracks' = w.tracks
         \/ ~w.ok /\ activeSession' = activeSession /\ tracks' = tracks
  BY <1>1
<1> HIDE DEF b, w
<1>6. BegunAt(w)
  BY <1>3, <1>4, <1>5, StartedKeeps
<1>7. w.durable \in Snapshots \cup {Unset}
  BY <1>6 DEF BegunAt, Kept
<1>8. /\ durable' \in [Recordings -> Snapshots \cup {Unset}]
      /\ durable'[r] = w.durable
      /\ \A x \in Recordings : x # r => durable'[x] = durable[x]
  BY <1>3, <1>5, <1>7
<1>9. envelope[r] = Unset
  BY <1>2 DEF CaptureInv
<1>10. KeepsSegments
  <2> SUFFICES ASSUME NEW x \in Recordings
               PROVE  Keeps(durable[x], durable'[x], envelope'[x])
    BY DEF KeepsSegments
  <2>1. CASE x = r
    BY <1>2, <2>1 DEF Keeps
  <2>2. CASE x # r
    BY <1>2, <1>8, <2>2, UnchangedKeeps
  <2>3. QED
    BY <2>1, <2>2
<1>11. ASSUME NEW x \in Recordings
       PROVE  /\ durable'[x] # Unset => Kept(durable'[x])
              /\ envelope'[x] # Unset =>
                   /\ Saved(envelope'[x])
                   /\ durable'[x] # Unset
                   /\ Extends(durable'[x].segments, envelope'[x].segments)
  <2>1. CASE x = r
    BY <1>2, <1>6, <1>8, <1>9, <2>1 DEF BegunAt
  <2>2. CASE x # r
    BY <1>2, <1>8, <2>2 DEF CaptureInv
  <2>3. QED
    BY <2>1, <2>2
<1>12. CASE w.ok /\ activeSession' = r /\ snap' = w.snap /\ tracks' = w.tracks
  <2>1. /\ Live(w.snap, w.tracks, time) /\ w.durable = w.snap
        /\ w.tracks \in [Roles -> TrackStates]
    BY <1>6, <1>12 DEF BegunAt
  <2>2. Kept(w.snap) /\ w.snap \in Snapshots /\ w.snap # Unset
    BY <2>1, CaptureAssumption DEF Live, Kept
  <2>3. Extends(w.snap.segments, w.snap.segments)
    BY <2>2, SnapTypes, ExtendsSelf
  <2>4. Stored(durable'[r], envelope'[r], snap')
    BY <1>2, <1>8, <1>9, <1>12, <2>1, <2>2, <2>3 DEF Stored
  <2>5. CaptureInv'
    BY <1>2, <1>3, <1>8, <1>11, <1>12, <2>1, <2>2, <2>4 DEF CaptureInv
  <2>6. QED
    BY <1>10, <2>5
<1>13. CASE ~w.ok /\ activeSession' = activeSession /\ tracks' = tracks
  <2>1. CaptureInv'
    BY <1>2, <1>3, <1>8, <1>11, <1>13 DEF CaptureInv
  <2>2. QED
    BY <1>10, <2>1
<1>14. QED
  BY <1>5, <1>12, <1>13

------------------------
(* The workers, the clock and the process. *)

\* A step that leaves the files alone keeps what they hold.
LEMMA FilesUnchanged ==
    ASSUME CaptureInv, UNCHANGED <<durable, envelope>>
    PROVE  KeepsSegments
BY UnchangedKeeps DEF KeepsSegments

\* A worker that only notes that its source is lost.
LEMMA LiveReported ==
    ASSUME NEW s, NEW a, NEW now, Live(s, a, now), NEW b,
           \A r \in Roles : b[r].from = a[r].from
    PROVE  Live(s, b, now)
BY DEF Live, Recording, Ready

\* A worker puts a signal of the past in the queue.
LEMMA EnqueueWaits ==
    ASSUME CaptureInv, NEW g \in Signals, g.from <= time, Enqueue(g)
    PROVE  /\ Waiting(queue', time)
           /\ UNCHANGED <<time, activeSession, snap, durable, envelope>>
<1>1. queue' = queue \cup {g} /\ Waiting(queue, time)
  BY DEF Enqueue, CaptureInv
<1>2. IsFiniteSet(queue \cup {g})
  BY <1>1, FS_AddElement DEF Waiting
<1>3. Waiting(queue', time)
  BY <1>1, <1>2 DEF Waiting
<1>4. QED
  BY <1>3 DEF Enqueue

\* A worker that reports an issue with a packet.
LEMMA PacketIssueKeeps ==
    ASSUME CaptureInv, NEW r \in Roles, PacketIssue(r)
    PROVE  CaptureInv' /\ KeepsSegments
<1>1. PICK from \in IssueStarts(r) : Enqueue([kind |-> "gap", from |-> from, to |-> from + 1])
  BY DEF PacketIssue
<1> DEFINE to == from + 1
           g == [kind |-> "gap", from |-> from, to |-> to]
<1>2. snap.started \in Nat /\ time \in Nat
  BY SnapTypes DEF CaptureInv, PacketIssue, Live, Kept
<1>3. from \in Nat /\ from <= time /\ to \in Nat
  BY <1>2 DEF IssueStarts
<1>4. Enqueue(g) /\ tracks' = tracks
  BY <1>1 DEF PacketIssue
<1> HIDE DEF to
<1>5. g \in Signals /\ g.from <= time
  BY <1>3 DEF Signals
<1> HIDE DEF g
<1>6. Waiting(queue', time) /\ UNCHANGED <<time, activeSession, snap, durable, envelope>>
  BY <1>4, <1>5, EnqueueWaits
<1>7. CaptureInv'
  BY <1>4, <1>6 DEF CaptureInv
<1>8. QED
  BY <1>6, <1>7, FilesUnchanged

\* A worker that loses its source.
LEMMA SourceGoneKeeps ==
    ASSUME CaptureInv, NEW r \in Roles, SourceGone(r)
    PROVE  CaptureInv' /\ KeepsSegments
<1>1. PICK at \in snap.started .. time : Enqueue([kind |-> "lost", from |-> at, to |-> at])
  BY DEF SourceGone
<1> DEFINE g == [kind |-> "lost", from |-> at, to |-> at]
           track == [tracks[r] EXCEPT !.reported = TRUE]
<1>2. snap.started \in Nat /\ time \in Nat /\ activeSession # Unset
  BY SnapTypes DEF CaptureInv, SourceGone, Native, Live, Kept
<1>3. at \in Nat /\ at <= time
  BY <1>2
<1>4. Enqueue(g) /\ tracks' = [tracks EXCEPT ![r] = track]
  BY <1>1 DEF SourceGone
<1>5. g \in Signals /\ g.from <= time
  BY <1>3 DEF Signals
<1>6. track \in TrackStates /\ track.from = tracks[r].from
  BY ZenonT(40) DEF CaptureInv, TrackStates
<1> HIDE DEF g, track
<1>7. Waiting(queue', time) /\ UNCHANGED <<time, activeSession, snap, durable, envelope>>
  BY <1>4, <1>5, EnqueueWaits
<1>8. /\ tracks' \in [Roles -> TrackStates]
      /\ \A q \in Roles : tracks'[q].from = tracks[q].from
  BY <1>4, <1>6 DEF CaptureInv
<1>9. Live(snap, tracks', time)
  BY <1>2, <1>8, LiveReported DEF CaptureInv
<1>10. CaptureInv'
  BY <1>7, <1>8, <1>9 DEF CaptureInv
<1>11. QED
  BY <1>7, <1>10, FilesUnchanged

\* Time passes.
LEMMA TickKeeps ==
    ASSUME CaptureInv, Tick
    PROVE  CaptureInv' /\ KeepsSegments
<1>1. /\ time \in Nat /\ time' = time + 1 /\ activeSession # Unset
      /\ UNCHANGED <<activeSession, snap, tracks, queue, durable, envelope>>
  BY DEF Tick, Native, CaptureInv
<1>2. Live(snap, tracks, time) /\ snap \in Snapshots
  BY <1>1 DEF CaptureInv, Live, Kept
<1>3. Halted(snap, time')
  BY <1>1, <1>2, SnapTypes DEF Live, Halted
<1>4. Live(snap, tracks, time')
  BY <1>2, <1>3 DEF Live
<1>5. Waiting(queue, time) /\ \A g \in queue : g.from \in Nat
  BY SignalTypes DEF CaptureInv, Waiting
<1>6. Waiting(queue, time')
  BY <1>1, <1>5 DEF Waiting
<1>7. CaptureInv'
  BY <1>1, <1>4, <1>6 DEF CaptureInv
<1>8. QED
  BY <1>1, <1>7, FilesUnchanged

\* The process ends, at any point between two commands.
LEMMA ExitKeeps ==
    ASSUME CaptureInv, Exit
    PROVE  CaptureInv' /\ KeepsSegments
<1>1. /\ time' = 0 /\ activeSession' = Unset /\ tracks' = NoStream /\ queue' = {}
      /\ UNCHANGED <<durable, envelope>>
  BY DEF Exit
<1>2. CaptureInv'
  BY <1>1, NoStreamTypes, NothingWaits DEF CaptureInv
<1>3. QED
  BY <1>1, <1>2, FilesUnchanged

\* A recovered snapshot is a snapshot.
LEMMA RecoveredTypes ==
    ASSUME NEW s \in Snapshots, NEW u, u = Recovered(s)
    PROVE  /\ u \in Snapshots /\ u.phase = "interrupted" /\ u.segmentStart = Unset
           /\ u.pausedAt = Unset /\ u.started = s.started
           /\ u.segments = s.segments /\ u.gaps = s.gaps
<1> DEFINE n == s.notices + 1
<1>1. n \in Nat
  BY SnapTypes
<1>2. u = [s EXCEPT !.phase = "interrupted", !.segmentStart = Unset,
                    !.pausedAt = Unset, !.notices = n]
  BY DEF Recovered
<1> HIDE DEF n
<1>3. QED
  BY <1>1, <1>2 DEF Snapshots

\* The launch, which recovers what was stored.
LEMMA LaunchKeeps ==
    ASSUME CaptureInv, Launch
    PROVE  CaptureInv' /\ KeepsSegments
<1>1. time' = time /\ tracks' = tracks /\ queue' = queue /\ envelope' = envelope
  BY DEF Launch
<1>2. CASE Candidates = {}
  <2>1. UNCHANGED <<activeSession, snap, durable>>
    BY <1>2 DEF Launch
  <2>2. CaptureInv'
    BY <1>1, <2>1 DEF CaptureInv
  <2>3. QED
    BY <1>1, <2>1, <2>2, FilesUnchanged
<1>3. CASE Candidates # {}
  <2> DEFINE r == CHOOSE x \in Candidates : TRUE
             d == durable[r]
             s == Recovered(d)
  <2>1. r \in Candidates
    BY <1>3
  <2>2. /\ activeSession' = r /\ snap' = s
        /\ durable' = [durable EXCEPT ![r] = s]
    BY <1>3 DEF Launch
  <2> HIDE DEF r
  <2>3. r \in Recordings /\ d # Unset /\ envelope[r] = Unset
    BY <2>1 DEF Candidates
  <2>4. d \in Snapshots /\ Kept(d) /\ s = Recovered(d)
    BY <2>3 DEF CaptureInv
  <2> HIDE DEF s
  <2>5. /\ s \in Snapshots /\ s.phase = "interrupted" /\ s.segmentStart = Unset
        /\ s.pausedAt = Unset /\ s.started = d.started
        /\ s.segments = d.segments /\ s.gaps = d.gaps
    BY <2>4, RecoveredTypes
  <2>6. Live(s, tracks, time)
    BY <2>4, <2>5, LiveEnded
  <2>7. s # Unset /\ Kept(s) /\ Extends(s.segments, s.segments)
    BY <2>5, <2>6, SnapTypes, ExtendsSelf, CaptureAssumption DEF Live
  <2>8. /\ durable' \in [Recordings -> Snapshots \cup {Unset}] /\ durable'[r] = s
        /\ \A x \in Recordings : x # r => durable'[x] = durable[x]
    BY <2>2, <2>3, <2>5 DEF CaptureInv
  <2>9. KeepsSegments
    <3> SUFFICES ASSUME NEW x \in Recordings
                 PROVE  Keeps(durable[x], durable'[x], envelope'[x])
      BY DEF KeepsSegments
    <3>1. CASE x = r
      BY <1>1, <2>3, <2>5, <2>7, <2>8, <3>1 DEF Keeps
    <3>2. CASE x # r
      BY <1>1, <2>8, <3>2, UnchangedKeeps
    <3>3. QED
      BY <3>1, <3>2
  <2>10. ASSUME NEW x \in Recordings
         PROVE  /\ durable'[x] # Unset => Kept(durable'[x])
                /\ envelope'[x] # Unset =>
                     /\ Saved(envelope'[x])
                     /\ durable'[x] # Unset
                     /\ Extends(durable'[x].segments, envelope'[x].segments)
    <3>1. CASE x = r
      BY <1>1, <2>3, <2>7, <2>8, <3>1
    <3>2. CASE x # r
      BY <1>1, <2>8, <3>2 DEF CaptureInv
    <3>3. QED
      BY <3>1, <3>2
  <2>11. Stored(durable'[r], envelope'[r], snap')
    BY <1>1, <2>2, <2>3, <2>7, <2>8 DEF Stored
  <2>12. CaptureInv'
    BY <1>1, <2>2, <2>3, <2>6, <2>7, <2>8, <2>10, <2>11 DEF CaptureInv
  <2>13. QED
    BY <2>9, <2>12
<1>4. QED
  BY <1>2, <1>3

------------------------
(* The theorems. *)

\* The invariant holds at first.
LEMMA CaptureInitially == CaptureInit => CaptureInv
<1> SUFFICES ASSUME CaptureInit PROVE CaptureInv
  OBVIOUS
<1>1. /\ time = 0 /\ activeSession = Unset /\ tracks = NoStream /\ queue = {}
      /\ durable = [r \in Recordings |-> Unset] /\ envelope = [r \in Recordings |-> Unset]
  BY DEF CaptureInit
<1>2. QED
  BY <1>1, NoStreamTypes, NothingWaits DEF CaptureInv

\* Every step keeps the invariant and the segments that are stored.
LEMMA CaptureStep ==
    ASSUME CaptureInv, CaptureNext
    PROVE  CaptureInv' /\ KeepsSegments
<1>1. CASE \E r \in Recordings : StartCapture(r)
  BY <1>1, StartCaptureKeeps
<1>2. CASE CaptureStatus
  BY <1>2, CaptureStatusKeeps
<1>3. CASE PauseCapture
  BY <1>3, PauseCaptureKeeps
<1>4. CASE ResumeCapture
  BY <1>4, ResumeCaptureKeeps
<1>5. CASE StopCapture
  BY <1>5, StopCaptureKeeps
<1>6. CASE \E r \in Roles : PacketIssue(r) \/ SourceGone(r)
  BY <1>6, PacketIssueKeeps, SourceGoneKeeps
<1>7. CASE Tick
  BY <1>7, TickKeeps
<1>8. CASE Exit
  BY <1>8, ExitKeeps
<1>9. CASE Launch
  BY <1>9, LaunchKeeps
<1>10. QED
  BY <1>1, <1>2, <1>3, <1>4, <1>5, <1>6, <1>7, <1>8, <1>9 DEF CaptureNext

\* So does a step that changes nothing.
LEMMA CaptureStutter ==
    ASSUME CaptureInv, UNCHANGED captureVars
    PROVE  CaptureInv'
BY DEF CaptureInv, captureVars

\* The invariant of every behaviour of the session: what is durable, saved or in
\* memory is covered to the end of its segments and silent in its pauses.
THEOREM CaptureInvariant == CaptureSpec => []CaptureInv
<1>1. CaptureInit => CaptureInv
  BY CaptureInitially
<1>2. CaptureInv /\ [CaptureNext]_captureVars => CaptureInv'
  BY CaptureStep, CaptureStutter
<1>3. QED
  BY <1>1, <1>2, PTL DEF CaptureSpec

\* No instant of a saved recording is lost without an explicit gap, whatever the
\* interleaving of commands, faults, signals, crashes and launches.
THEOREM SavedHasNoHole == CaptureSpec => []NoSilentHole
<1>1. CaptureInv => NoSilentHole
  <2> SUFFICES ASSUME CaptureInv, NEW x \in Recordings, envelope[x] # Unset,
                      NEW t \in Instants(envelope[x])
               PROVE  Within(t, envelope[x].segments) \/ Within(t, envelope[x].gaps)
    BY DEF NoSilentHole
  <2> DEFINE e == envelope[x]
  <2>1. Saved(e)
    BY DEF CaptureInv
  <2> HIDE DEF e
  <2>2. e.from \in Nat /\ e.to \in Nat
    BY <2>1 DEF Saved, Envelopes
  <2>3. t \in Nat /\ e.from <= t /\ t < e.to
    BY <2>2 DEF Instants, e
  <2>4. Within(t, e.segments) \/ Within(t, e.gaps)
    BY <2>1, <2>3 DEF Saved, Covered
  <2>5. QED
    BY <2>4 DEF e
<1>2. QED
  BY <1>1, CaptureInvariant, PTL

\* Nothing of a saved recording was recorded in a pause or after a loss.
THEOREM SavedGapsAreSilent == CaptureSpec => []GapsAreSilent
<1>1. CaptureInv => GapsAreSilent
  <2> SUFFICES ASSUME CaptureInv, NEW x \in Recordings, envelope[x] # Unset,
                      NEW t \in Instants(envelope[x])
               PROVE  ~(Within(t, envelope[x].segments) /\ Marked(t, envelope[x].gaps))
    BY DEF GapsAreSilent
  <2> DEFINE e == envelope[x]
  <2>1. Saved(e)
    BY DEF CaptureInv
  <2> HIDE DEF e
  <2>2. e.from \in Nat /\ e.to \in Nat
    BY <2>1 DEF Saved, Envelopes
  <2>3. t \in Nat
    BY <2>2 DEF Instants, e
  <2>4. ~(Within(t, e.segments) /\ Marked(t, e.gaps))
    BY <2>1, <2>3 DEF Saved, Quiet
  <2>5. QED
    BY <2>4 DEF e
<1>2. QED
  BY <1>1, CaptureInvariant, PTL

\* A list that extends another has it as a prefix.
LEMMA ExtendsPrefix ==
    ASSUME NEW a \in Seq(AudioSegments), NEW b \in Seq(AudioSegments), Extends(a, b)
    PROVE  IsPrefix(a, b)
BY DEF Extends, IsPrefix

\* Stored segments that are kept are a prefix of what is stored next.
LEMMA KeepsPrefix ==
    ASSUME CaptureInv, CaptureInv', KeepsSegments
    PROVE  \A x \in Recordings : durable[x] # Unset =>
             /\ durable'[x] # Unset
             /\ IsPrefix(durable[x].segments, durable'[x].segments)
             /\ envelope'[x] # Unset => IsPrefix(durable[x].segments, envelope'[x].segments)
<1> SUFFICES ASSUME NEW x \in Recordings, durable[x] # Unset
             PROVE  /\ durable'[x] # Unset
                    /\ IsPrefix(durable[x].segments, durable'[x].segments)
                    /\ envelope'[x] # Unset =>
                         IsPrefix(durable[x].segments, envelope'[x].segments)
  OBVIOUS
<1>1. /\ durable'[x] # Unset /\ Extends(durable[x].segments, durable'[x].segments)
      /\ envelope'[x] # Unset => Extends(durable[x].segments, envelope'[x].segments)
  BY DEF KeepsSegments, Keeps
<1>2. durable[x].segments \in Seq(AudioSegments)
  BY SnapTypes DEF CaptureInv
<1>3. durable'[x].segments \in Seq(AudioSegments)
  BY <1>1, SnapTypes DEF CaptureInv
<1>4. envelope'[x] # Unset => envelope'[x].segments \in Seq(AudioSegments)
  <2>1. envelope'[x] \in Envelopes \cup {Unset}
    BY DEF CaptureInv
  <2>2. QED
    BY <2>1 DEF Envelopes
<1>5. QED
  BY <1>1, <1>2, <1>3, <1>4, ExtendsPrefix

\* A segment once durable stays, in its place, in every later snapshot and in the
\* envelope: no command, fault, crash or recovery drops or reorders one.
THEOREM DurableSegmentsAreKept == CaptureSpec => SegmentsAreKept
<1>1. CaptureInv /\ CaptureInv' /\ [CaptureNext]_captureVars =>
        [\A x \in Recordings : durable[x] # Unset =>
           /\ durable'[x] # Unset
           /\ IsPrefix(durable[x].segments, durable'[x].segments)
           /\ envelope'[x] # Unset =>
                IsPrefix(durable[x].segments, envelope'[x].segments)]_captureVars
  BY CaptureStep, KeepsPrefix
<1>2. QED
  BY <1>1, CaptureInvariant, PTL DEF CaptureSpec, SegmentsAreKept
=============================================================================
