---------------------------- MODULE MobileCapture ----------------------------
(* A recording on Android: the plugin's commands and the service's intents,   *)
(* which run one after the other on the main thread; the recorder thread of   *)
(* each session; the snapshot and the event journal the two write through     *)
(* SessionJournal; and the Rust ingest, which copies a closed session into a  *)
(* package and then removes the session's own storage.  The process may be    *)
(* killed between any two steps, and starts again.                            *)
EXTENDS Naturals, FiniteSets

CONSTANTS
    Sessions,      \* the session ids the plugin may draw
    NoSession,
    MaxSegments,   \* bound: segments of one session
    MaxFaults      \* bound: kills, recorder failures and failed finalizations

ASSUME MobileAssumption == NoSession \notin Sessions

VARIABLES
    snapshot,      \* active-session.json (absent and idle are the same)
    journal,       \* segment_completed events, per session
    tail,          \* the end of session-events.ndjson
    directories,   \* sessions whose directory exists
    written,       \* history: segments that ever held audio, per session
    active,        \* RecordingService.activeService
    service,       \* the session of the service's current instance
    flags,         \* running, paused and stopRequested of each session's instance
    recorder,      \* the recorder thread of each session
    intent,        \* the intent posted to the service and not yet handled
    package,       \* the Rust package of each session
    finalizer,     \* the finalization or cleanup under way
    abandoned,     \* history: a service was destroyed under a live recorder
    faults

vars == <<snapshot, journal, tail, directories, written, active, service, flags,
          recorder, intent, package, finalizer, abandoned, faults>>
native == <<snapshot, journal, tail, active, service, flags, recorder, intent>>
rust == <<package, finalizer>>

Segments == 0 .. MaxSegments - 1
Idle == [session |-> NoSession, state |-> "IDLE", index |-> 0]
NoIntent == [action |-> "none", session |-> NoSession]
NoJob == [pc |-> "idle", session |-> NoSession, segments |-> {}, from |-> "IDLE"]

Init ==
    /\ snapshot = Idle /\ tail = "whole"
    /\ journal = [s \in Sessions |-> {}]
    /\ directories = {}
    /\ written = [s \in Sessions |-> {}]
    /\ active = FALSE /\ service = NoSession
    /\ flags = [s \in Sessions |-> [running |-> FALSE, paused |-> FALSE, stopping |-> FALSE]]
    /\ recorder = [s \in Sessions |-> [pc |-> "unused", next |-> 0, open |-> FALSE]]
    /\ intent = NoIntent
    /\ package = [s \in Sessions |-> [state |-> "none", audio |-> {}, from |-> "IDLE"]]
    /\ finalizer = NoJob
    /\ abandoned = FALSE /\ faults = 0

-----------------------------------------------------------------------------
(* SessionJournal.  Every append ends its line, so that one after a torn line *)
(* leaves the journal unreadable for good.                                    *)

Open(state) == state \in {"RECORDING", "PAUSED"}
Terminal(state) == state \in {"STOPPED", "INTERRUPTED"}
Allowed(from, to) ==
    \/ from = "RECORDING" /\ to \in {"PAUSED", "STOPPED", "INTERRUPTED"}
    \/ from = "PAUSED" /\ to \in {"RECORDING", "STOPPED", "INTERRUPTED"}

Appended == tail' = IF tail = "torn" THEN "broken" ELSE tail

To(state) == snapshot' = [snapshot EXCEPT !.state = state] /\ Appended

\* recoverInterrupted: repairs the WAV headers, which makes files readable but
\* names no segment, and ends a session that was open.
RecoverInterrupted ==
    IF Open(snapshot.state) THEN To("INTERRUPTED") ELSE UNCHANGED <<snapshot, tail>>

Checkpoint(index) == snapshot' = IF snapshot.session = NoSession
                                 THEN Idle ELSE [snapshot EXCEPT !.index = index]

-----------------------------------------------------------------------------
(* RecorderPlugin and RecordingService, on the main thread.                   *)

Alive(s) == s # NoSession /\ recorder[s].pc \notin {"unused", "done"}
Running == service # NoSession /\ flags[service].running

\* start: resolves before the service has handled the intent.
Start(s) ==
    /\ recorder[s].pc = "unused" /\ intent = NoIntent
    /\ ~active /\ snapshot.state = "IDLE"
    /\ intent' = [action |-> "START", session |-> s]
    /\ UNCHANGED <<snapshot, journal, tail, active, service, flags, recorder, rust,
                   directories, written, abandoned, faults>>

\* sendControl, or a button of the notification, which is shown while the
\* service is in the foreground and checks nothing.
Offers(action) ==
    \/ /\ active
       /\ \/ action = "PAUSE" /\ snapshot.state = "RECORDING"
          \/ action = "RESUME" /\ snapshot.state = "PAUSED"
          \/ action = "STOP" /\ Open(snapshot.state)
    \/ /\ service # NoSession /\ Alive(service)
       /\ \/ action = "STOP"
          \/ action = "PAUSE" /\ ~flags[service].paused
          \/ action = "RESUME" /\ flags[service].paused

SendControl ==
    /\ intent = NoIntent
    /\ \E action \in {"PAUSE", "RESUME", "STOP"} :
         Offers(action) /\ intent' = [action |-> action, session |-> NoSession]
    /\ UNCHANGED <<snapshot, journal, tail, active, service, flags, recorder, rust,
                   directories, written, abandoned, faults>>

\* status, preflight or start while no service is active.
Status ==
    /\ ~active /\ Open(snapshot.state)
    /\ RecoverInterrupted
    /\ UNCHANGED <<journal, active, service, flags, recorder, intent, rust,
                   directories, written, abandoned, faults>>

\* startUserSession, and SessionJournal.begin.
HandleStart ==
    /\ intent.action = "START" /\ intent' = NoIntent
    /\ IF Running THEN UNCHANGED <<snapshot, tail, active, service, flags, recorder, directories>>
       ELSE LET s == intent.session IN
            /\ snapshot' = [session |-> s, state |-> "RECORDING", index |-> 0]
            /\ Appended
            /\ directories' = directories \cup {s}
            /\ active' = TRUE /\ service' = s
            /\ flags' = [flags EXCEPT ![s].running = TRUE]
            /\ recorder' = [recorder EXCEPT ![s].pc = "loop"]
    /\ UNCHANGED <<journal, written, rust, abandoned, faults>>

\* A control that meets a service which no longer runs destroys it: onDestroy
\* says that no service is active, whatever its recorder still has to write.
HandleLate ==
    /\ intent.action \in {"PAUSE", "RESUME", "STOP"} /\ ~Running
    /\ intent' = NoIntent
    /\ active' = FALSE /\ service' = NoSession
    /\ abandoned' = (abandoned \/ Alive(service))
    /\ IF service = NoSession THEN RecoverInterrupted ELSE UNCHANGED <<snapshot, tail>>
    /\ UNCHANGED <<journal, flags, recorder, rust, directories, written, faults>>

HandleStop ==
    /\ intent.action = "STOP" /\ Running
    /\ intent' = NoIntent
    /\ flags' = [flags EXCEPT ![service].stopping = TRUE, ![service].running = FALSE]
    /\ UNCHANGED <<snapshot, journal, tail, active, service, recorder, rust,
                   directories, written, abandoned, faults>>

\* pauseSession and resumeSession: nothing when the flag already says so.  A
\* transition the state does not allow throws, and the process dies (see Die).
Toggles(action) ==
    /\ intent.action = action /\ Running
    /\ flags[service].paused = (action = "RESUME")
Target == IF intent.action = "PAUSE" THEN "PAUSED" ELSE "RECORDING"

HandleToggle ==
    /\ intent.action \in {"PAUSE", "RESUME"} /\ Running
    /\ intent' = NoIntent
    /\ IF Toggles(intent.action)
       THEN /\ Allowed(snapshot.state, Target)
            /\ flags' = [flags EXCEPT ![service].paused = ~@]
            /\ To(Target)
       ELSE UNCHANGED <<flags, snapshot, tail>>
    /\ UNCHANGED <<journal, active, service, recorder, rust, directories, written,
                   abandoned, faults>>

-----------------------------------------------------------------------------
(* recordLoop, the recorder thread of a session.                              *)

Goes(s, from, to) ==
    recorder[s].pc = from /\ recorder' = [recorder EXCEPT ![s].pc = to]
RecorderOnly == UNCHANGED <<active, service, flags, intent, directories, rust,
                            abandoned, faults>>

\* Audio is read and written to a new segment.  The checkpoints of an open
\* segment repeat the index the snapshot already has.
WriteAudio(s) ==
    /\ recorder[s].pc = "loop" /\ ~recorder[s].open
    /\ flags[s].running /\ ~flags[s].paused
    /\ recorder[s].next < MaxSegments /\ s \in directories
    /\ recorder' = [recorder EXCEPT ![s].open = TRUE]
    /\ written' = [written EXCEPT ![s] = @ \cup {recorder[s].next}]
    /\ UNCHANGED <<snapshot, journal, tail>> /\ RecorderOnly

\* The segment has reached its size and is closed.
FillSegment(s) ==
    /\ recorder[s].open /\ flags[s].running /\ ~flags[s].paused
    /\ Goes(s, "loop", "full")
    /\ UNCHANGED <<snapshot, journal, tail, written>> /\ RecorderOnly

Journal(s) == journal' = [journal EXCEPT ![s] = @ \cup {recorder[s].next}] /\ Appended

CompleteSegment(s) ==
    /\ s \in directories /\ Goes(s, "full", "roll") /\ Journal(s)
    /\ UNCHANGED <<snapshot, written>> /\ RecorderOnly

RollSegment(s) ==
    /\ recorder[s].pc = "roll"
    /\ recorder' = [recorder EXCEPT ![s] = [pc |-> "loop", next |-> @.next + 1, open |-> FALSE]]
    /\ Checkpoint(recorder[s].next + 1)
    /\ UNCHANGED <<journal, tail, written>> /\ RecorderOnly

\* Mutant: the last, partial segment is closed but not journaled.
LeaveLoop_DropsLast(s) ==
    /\ ~flags[s].running
    /\ Goes(s, "loop", "checkpoint")
    /\ UNCHANGED <<snapshot, journal, tail, written>> /\ RecorderOnly

LeaveLoop(s) ==
    /\ ~flags[s].running
    /\ Goes(s, "loop", IF recorder[s].open THEN "last" ELSE "checkpoint")
    /\ UNCHANGED <<snapshot, journal, tail, written>> /\ RecorderOnly

CompleteLast(s) ==
    /\ s \in directories /\ Goes(s, "last", "checkpoint") /\ Journal(s)
    /\ UNCHANGED <<snapshot, written>> /\ RecorderOnly

LastCheckpoint(s) ==
    /\ Goes(s, "checkpoint", "transition") /\ Checkpoint(recorder[s].next)
    /\ UNCHANGED <<journal, tail, written>> /\ RecorderOnly

EndSession(s) ==
    /\ Goes(s, "transition", "finally")
    /\ IF Open(snapshot.state)
       THEN To(IF flags[s].stopping THEN "STOPPED" ELSE "INTERRUPTED")
       ELSE UNCHANGED <<snapshot, tail>>
    /\ UNCHANGED <<journal, written>> /\ RecorderOnly

\* A step of the loop throws: the microphone or its permission is gone, the
\* storage is full, or the directory is.  The open segment is not journaled.
FailRecorder(s) ==
    /\ recorder[s].pc \in {"loop", "full", "roll", "last", "checkpoint"}
    /\ s \in directories => faults < MaxFaults
    /\ faults' = IF s \in directories THEN faults + 1 ELSE faults
    /\ recorder' = [recorder EXCEPT ![s].pc = "finally"]
    /\ RecoverInterrupted
    /\ UNCHANGED <<journal, written, active, service, flags, intent, directories,
                   rust, abandoned>>

\* finally, and the onDestroy that its stopSelf leads to.
Finally(s) ==
    /\ recorder[s].pc = "finally"
    /\ recorder' = [recorder EXCEPT ![s].pc = "done"]
    /\ flags' = [flags EXCEPT ![s].running = FALSE]
    /\ active' = FALSE
    /\ service' = IF service = s THEN NoSession ELSE service
    /\ UNCHANGED <<snapshot, journal, tail, intent, rust, directories, written,
                   abandoned, faults>>

-----------------------------------------------------------------------------
(* ingest/mobile.rs: one call at a time, as the viewer makes them.            *)

FinalizerGoes(from, to) ==
    finalizer.pc = from /\ finalizer' = [finalizer EXCEPT !.pc = to]
NativeKept == UNCHANGED native /\ UNCHANGED <<written, abandoned, faults>>

\* What read_pending_android_session and validate_session accept.
Readable(s) ==
    /\ snapshot.session = s /\ Terminal(snapshot.state)
    /\ tail = "whole"
    /\ journal[s] # {} /\ journal[s] = 0 .. Cardinality(journal[s]) - 1
    /\ snapshot.index + 1 >= Cardinality(journal[s])

\* Mutant: any package that was begun counts as finished.
BeginFinalize_Begun(s) ==
    /\ finalizer.pc = "idle" /\ Readable(s)
    /\ finalizer' = [pc |-> IF package[s].state # "none" THEN "remove" ELSE "persist",
                     session |-> s, segments |-> journal[s], from |-> snapshot.state]
    /\ UNCHANGED <<package, directories>> /\ NativeKept

\* finalize_pending_capture, up to the first thing it writes.
BeginFinalize(s) ==
    /\ finalizer.pc = "idle" /\ Readable(s)
    /\ finalizer' = [pc |-> IF package[s].state = "Ready" THEN "remove" ELSE "persist",
                     session |-> s, segments |-> journal[s], from |-> snapshot.state]
    /\ UNCHANGED <<package, directories>> /\ NativeKept

\* list_pending: storage that a Ready package left behind is removed.
BeginCleanup(s) ==
    /\ finalizer.pc = "idle" /\ package[s].state = "Ready"
    /\ s \in directories \/ snapshot.session = s
    /\ finalizer' = [NoJob EXCEPT !.pc = "remove", !.session = s]
    /\ UNCHANGED <<package, directories>> /\ NativeKept

\* The segments are opened and checked, the Finalizing envelope is persisted.
PersistFinalizing ==
    /\ finalizer.session \in directories
    /\ FinalizerGoes("persist", "copy")
    /\ package' = [package EXCEPT ![finalizer.session].state = "Finalizing"]
    /\ UNCHANGED directories /\ NativeKept

CopySegments ==
    /\ FinalizerGoes("copy", "ready")
    /\ package' = [package EXCEPT ![finalizer.session].audio = finalizer.segments]
    /\ UNCHANGED directories /\ NativeKept

PersistReady ==
    /\ FinalizerGoes("ready", "remove")
    /\ package' = [package EXCEPT ![finalizer.session].state = "Ready",
                                  ![finalizer.session].from = finalizer.from]
    /\ UNCHANGED directories /\ NativeKept

\* cleanup_native_storage, then cleanup_android_active_snapshot.
RemoveDirectory ==
    /\ FinalizerGoes("remove", "snapshot")
    /\ directories' = directories \ {finalizer.session}
    /\ UNCHANGED package /\ NativeKept

\* Mutant: only the snapshot of a session that was interrupted is removed.
Removable_Interrupted(s) == snapshot.session = s /\ snapshot.state = "INTERRUPTED"
Removable(s) == snapshot.session = s /\ Terminal(snapshot.state)

RemoveSnapshot ==
    /\ finalizer.pc = "snapshot" /\ finalizer' = NoJob
    /\ snapshot' = IF Removable(finalizer.session) THEN Idle ELSE snapshot
    /\ UNCHANGED <<journal, tail, active, service, flags, recorder, intent, package,
                   directories, written, abandoned, faults>>

\* A step of the ingest fails, and the call returns its error.
FailFinalizer ==
    /\ finalizer.pc # "idle" /\ faults < MaxFaults
    /\ finalizer' = NoJob /\ faults' = faults + 1
    /\ UNCHANGED native /\ UNCHANGED <<package, directories, written, abandoned>>

-----------------------------------------------------------------------------
(* The process dies, which may tear the line a recorder is appending.         *)

Die ==
    /\ tail' \in IF \E s \in Sessions : Alive(s) /\ tail = "whole"
                 THEN {tail, "torn"} ELSE {tail}
    /\ recorder' = [s \in Sessions |-> IF Alive(s) THEN [recorder[s] EXCEPT !.pc = "done"]
                                       ELSE recorder[s]]
    /\ active' = FALSE /\ service' = NoSession
    /\ flags' = [s \in Sessions |-> [running |-> FALSE, paused |-> FALSE, stopping |-> FALSE]]
    /\ intent' = NoIntent /\ finalizer' = NoJob
    /\ UNCHANGED <<snapshot, journal, directories, written, package, abandoned>>

Kill == faults < MaxFaults /\ Die /\ faults' = faults + 1

\* A pause that meets a session the recorder has just given up throws.
InvalidToggle ==
    /\ \E a \in {"PAUSE", "RESUME"} : Toggles(a)
    /\ ~Allowed(snapshot.state, Target)
    /\ Die /\ UNCHANGED faults

Main == HandleStart \/ HandleLate \/ HandleStop \/ HandleToggle \/ InvalidToggle
Ends(s) == LeaveLoop(s) \/ CompleteLast(s) \/ LastCheckpoint(s) \/ EndSession(s) \/ Finally(s)
           \/ CompleteSegment(s) \/ RollSegment(s)
Ingest == PersistFinalizing \/ CopySegments \/ PersistReady \/ RemoveDirectory
          \/ RemoveSnapshot

Next ==
    \/ SendControl \/ Status \/ Main \/ Kill \/ FailFinalizer \/ Ingest
    \/ \E s \in Sessions :
         \/ Start(s) \/ WriteAudio(s) \/ FillSegment(s)
         \/ Ends(s) \/ FailRecorder(s)
         \/ BeginFinalize(s) \/ BeginCleanup(s)

\* Threads and calls that have begun go on; the viewer polls the session it
\* shows every 1.5 seconds and finalizes it when it is STOPPED.  Nothing makes
\* the user start, stop or save an interrupted session.
Spec ==
    /\ Init /\ [][Next]_vars
    /\ WF_vars(Main) /\ WF_vars(Status) /\ WF_vars(Ingest)
    /\ \A s \in Sessions :
         /\ WF_vars(Ends(s))
         /\ WF_vars(snapshot.state = "STOPPED" /\ BeginFinalize(s))

-----------------------------------------------------------------------------
(* Properties.                                                                *)

\* A recording that was stopped is saved whole: its package holds every segment
\* the recorder wrote, the last one too, whatever failed and was retried.
\* Not so once a second stop has destroyed the service under its recorder.
StoppedIsWhole ==
    \A s \in Sessions :
        package[s].state = "Ready" /\ package[s].from = "STOPPED" /\ ~abandoned =>
            package[s].audio = written[s]

\* A session's own storage is only removed once a Ready package holds all that
\* its recorder completed, and its recorder writes no more.
RemovedIsCopied ==
    [][\A s \in directories \ directories' :
         /\ package[s].state = "Ready"
         /\ ~abandoned => journal[s] \subseteq package[s].audio
                          /\ recorder[s].pc \in {"finally", "done"}]_vars

\* A session that was stopped and has a completed segment becomes Ready, and
\* the next one can start.
StoppedIsSaved ==
    \A s \in Sessions :
        snapshot.session = s /\ snapshot.state = "STOPPED" /\ journal[s] # {} ~>
            \/ package[s].state = "Ready" /\ snapshot.session # s
            \/ tail # "whole" \/ abandoned

\* Refuted by the code.  Audio in an interrupted session, whose WAV headers were
\* repaired, is exposed to the ingest.  The segment that was open has no event,
\* so a session that ends in its first segment can neither be finalized nor
\* make way for another.
RepairedIsExposed ==
    LET s == snapshot.session IN
    snapshot.state = "INTERRUPTED" /\ recorder[s].pc = "done"
        /\ tail = "whole" /\ written[s] # {} => Readable(s)

\* Refuted by the code.  Storage is removed after all the recorder wrote has
\* been copied: a second stop lets the ingest run before the last segment.
StopTwiceKeepsAll ==
    [][\A s \in directories \ directories' :
         recorder[s].pc \in {"finally", "done"}]_vars
=============================================================================
