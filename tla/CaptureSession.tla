--------------------------- MODULE CaptureSession ---------------------------
(* A desktop recording: the session kept in memory behind one mutex, its      *)
(* durable snapshot (capture-session.json), the native stream with one worker *)
(* thread per track (the Windows backend, whose segments run from boundary to *)
(* boundary), and the recovery of an unfinished recording at launch.          *)
(*                                                                            *)
(* A command is one action, since the mutex is held throughout.  Inside, it   *)
(* is a chain of fallible steps threaded through a record "w": the steps      *)
(* before the one that fails have taken effect, as in the code.  A process    *)
(* killed inside a command is a command that fails there and then Exit.       *)
EXTENDS Naturals, Sequences, SequencesExt, FiniteSets, FiniteSetsExt

CONSTANTS
    Recordings,    \* the package ids
    Tracks,        \* the required roles, in the order the backend opens them
    Unset,         \* Option::None
    Rolling,       \* ROLLING_SEGMENT_NS, in units of the model's clock
    MaxWarnings,   \* MAX_CAPTURE_WARNINGS: gaps and notices of a snapshot
    Skew,          \* how far a packet's clock may lag behind the session's
    MaxTime,       \* bound: the clock of one process
    MaxSignals,    \* bound: signals waiting in the queue
    FaultAt,       \* which fallible step of a command may fail
    MaxFailures    \* bound: commands that meet a fault

Roles == ToSet(Tracks)

\* SegmentMetadata, CaptureGap, CaptureSessionSnapshot, RecordingEnvelope and
\* NativeCaptureSignal, with what the session reads of them.
AudioSegments == [role: Roles, sequence: Nat, from: Nat, to: Nat]
Gaps == [kind: {"device", "paused", "sourceLost"}, from: Nat, to: Nat]
Snapshots == [phase: {"starting", "recording", "paused", "sourceLost", "interrupted",
                      "finalizing", "stopped"},
              started: Nat, segmentStart: Nat \cup {Unset}, pausedAt: Nat \cup {Unset},
              segments: Seq(AudioSegments), gaps: Seq(Gaps), notices: Nat]
Envelopes == [segments: Seq(AudioSegments), gaps: Seq(Gaps), from: Nat, to: Nat]
Signals == [kind: {"gap", "lost"}, from: Nat, to: Nat]

ASSUME CaptureAssumption ==
    /\ Tracks \in Seq(STRING) /\ Tracks # <<>>
    /\ Rolling \in Nat \ {0}
    /\ Skew \in Nat /\ MaxTime \in Nat
    /\ FaultAt \subseteq Nat
    /\ Unset \notin Nat \cup Recordings \cup Snapshots \cup Envelopes

VARIABLES
    time,          \* the monotonic clock, from 0 in every process
    up,            \* the application has launched
    activeSession, \* CaptureCommandState.active: the recording, or Unset
    snap,          \* its snapshot in memory
    tracks,        \* the workers: the open segment's start and its sequence
    queue,         \* signals not yet taken
    durable,       \* capture-session.json per recording
    envelope,      \* recording.json per recording
    failures

captureVars == <<time, up, activeSession, snap, tracks, queue, durable, envelope, failures>>

Closed == [from |-> Unset, sequence |-> 0, reported |-> FALSE]

NoStream == [r \in Roles |-> Closed]

CaptureInit ==
    /\ time = 0 /\ up = FALSE
    /\ activeSession = Unset /\ snap = Unset
    /\ tracks = NoStream /\ queue = {}
    /\ durable = [r \in Recordings |-> Unset]
    /\ envelope = [r \in Recordings |-> Unset]
    /\ failures = 0

-----------------------------------------------------------------------------
(* Snapshots.                                                               *)

Ordered(gaps) ==
    \A i \in 1 .. Len(gaps) - 1 : gaps[i].to <= gaps[i + 1].from

RoleSegments(s, r) == SelectSeq(s.segments, LAMBDA g : g.role = r)

Valid(s) ==
    /\ Len(s.gaps) + s.notices <= MaxWarnings
    /\ \A i \in 1 .. Len(s.gaps) : s.started <= s.gaps[i].from
    /\ Ordered(s.gaps)
    /\ \A r \in Roles : LET own == RoleSegments(s, r) IN
        /\ Ordered(own)
        /\ \A i \in 1 .. Len(own) : own[i].sequence = i - 1 /\ s.started <= own[i].from

ObservedEnd(s) == Max({s.started} \cup {s.segments[i].to : i \in 1 .. Len(s.segments)})

\* The stable sort_by_key of those gaps that are kept.
Before(gaps, i, j) == gaps[i].from < gaps[j].from \/ (gaps[i].from = gaps[j].from /\ i < j)

Sorted(gaps, kept) ==
    LET place(i) == Cardinality({j \in kept : Before(gaps, j, i)}) + 1
    IN  [k \in 1 .. Cardinality(kept) |-> gaps[CHOOSE i \in kept : place(i) = k]]

ByStart(gaps) == Sorted(gaps, DOMAIN gaps)

\* A discontinuity is merged with those it overlaps, never with another kind.
InsertGap(gaps, from, to) ==
    LET met  == {i \in DOMAIN gaps : /\ gaps[i].kind = "device"
                                     /\ from < gaps[i].to /\ gaps[i].from < to}
        hull == [kind |-> "device", from |-> Min({from} \cup {gaps[i].from : i \in met}),
                                    to   |-> Max({to} \cup {gaps[i].to : i \in met})]
        all  == Append(gaps, hull)
    IN  Sorted(all, DOMAIN all \ met)

-----------------------------------------------------------------------------
(* Steps of a command.  w.fault counts the fallible steps that still succeed.*)

Work(fault) == [snap |-> snap, tracks |-> tracks, queue |-> queue, closed |-> <<>>,
                durable |-> IF activeSession = Unset THEN Unset ELSE durable[activeSession],
                envelope |-> IF activeSession = Unset THEN Unset ELSE envelope[activeSession],
                fault |-> fault, ok |-> TRUE]

Failed(w) == [w EXCEPT !.ok = FALSE]
Step(w, next) == IF ~w.ok \/ w.fault = 1 THEN Failed(w)
                 ELSE [next EXCEPT !.fault = IF w.fault = 0 THEN 0 ELSE w.fault - 1]
Require(w, condition) == IF condition THEN w ELSE Failed(w)
Set(w, s) == IF w.ok THEN [w EXCEPT !.snap = s] ELSE w

Persist(w) == IF w.ok /\ Valid(w.snap) THEN Step(w, [w EXCEPT !.durable = w.snap])
              ELSE Failed(w)
JournalEvent(w) == Step(w, w)

Finishes(from, at) == from < at /\ at - from <= Rolling

WithTrack(w, r, track) == [w EXCEPT !.tracks[r] = track]
WithClosed(w, segment) == [w EXCEPT !.closed = Append(@, segment)]

NextSegment(track, at) == [track EXCEPT !.from = at, !.sequence = @ + 1]

\* TrackWorker::close_segment: the writer is taken before its file is finished.
CloseTrack(w, r, reason, at) ==
    LET open    == w.tracks[r]
        taken   == WithTrack(w, r, [open EXCEPT !.from = Unset])
        segment == [role |-> r, sequence |-> open.sequence, from |-> open.from, to |-> at]
        done    == WithClosed(taken, segment)
        rolled  == WithTrack(done, r, NextSegment(open, at))
    IN  IF ~w.ok \/ open.from = Unset THEN Failed(w)
        ELSE IF ~Finishes(open.from, at) \/ w.fault = 1 THEN Failed(taken)
        ELSE Step(w, IF reason = "rolling" THEN rolled ELSE done)

CloseTracks(w, reason, at) ==
    LET after[n \in 0 .. Len(Tracks)] ==
            IF n = 0 THEN [w EXCEPT !.closed = <<>>]
            ELSE CloseTrack(after[n - 1], Tracks[n], reason, at)
    IN  after[Len(Tracks)]

\* A closed segment enters the snapshot once it is known to span the interval
\* the session declared and its file has been hashed.
TakeSegment(w, segment, at) ==
    IF ~w.ok \/ segment.from # w.snap.segmentStart \/ segment.to # at THEN Failed(w)
    ELSE Step(w, [w EXCEPT !.snap.segments = Append(@, segment)])

TakeSegments(w, at) ==
    LET after[n \in 0 .. Len(w.closed)] ==
            IF n = 0 THEN w ELSE TakeSegment(after[n - 1], w.closed[n], at)
    IN  after[Len(w.closed)]

CloseNative(w, reason, at) ==
    IF ~w.ok \/ w.snap.segmentStart = Unset THEN Failed(w)
    ELSE IF at <= w.snap.segmentStart THEN Failed(w)
    ELSE Persist(TakeSegments(CloseTracks(w, reason, at), at))

Halt_FromSegmentStart(w, phase, at) ==
    Set(w, [w.snap EXCEPT !.phase = phase, !.segmentStart = Unset,
            !.pausedAt = IF at = Unset THEN Unset ELSE w.snap.segmentStart])

Halt(w, phase, at) ==
    Set(w, [w.snap EXCEPT !.phase = phase, !.segmentStart = Unset, !.pausedAt = at])

Noticed(w) == Set(w, [w.snap EXCEPT !.notices = @ + 1])

\* A source loss closes the segment; the signal was drained either way.
TakeSignal(w, g) ==
    IF ~w.ok THEN w
    ELSE IF g.kind = "gap"
    THEN Noticed(Set(w, [w.snap EXCEPT !.gaps = InsertGap(@, g.from, g.to)]))
    ELSE IF w.snap.phase = "recording"
    THEN Noticed(Halt(CloseNative(w, "sourceLoss", g.from), "sourceLost", g.from))
    ELSE Noticed(w)

\* Sorted by their clock; of two with the same clock either may have come first.
Drains == {list \in [1 .. Cardinality(queue) -> queue] :
    /\ queue \subseteq ToSet(list)
    /\ \A i, j \in DOMAIN list : i < j => list[i].from <= list[j].from}

TakeSignals(w, list) ==
    LET after[n \in 0 .. Len(list)] ==
            IF n = 0 THEN [w EXCEPT !.queue = {}] ELSE TakeSignal(after[n - 1], list[n])
    IN  after[Len(list)]

Poll(w, list) ==
    LET taken == TakeSignals(w, list)
    IN  IF w.queue = {} \/ ~w.ok THEN w
        ELSE JournalEvent(Persist(Set(taken, [taken.snap EXCEPT !.gaps = ByStart(@)])))

Roll(w, now) ==
    LET boundary == w.snap.segmentStart + Rolling IN
    IF ~w.ok \/ w.snap.phase # "recording" \/ now < boundary THEN w
    ELSE LET c == CloseNative(w, "rolling", boundary)
         IN  JournalEvent(Persist(Set(c, [c.snap EXCEPT !.segmentStart = boundary])))

\* No more than MaxTime rolls are due.
Ticked(w, list, now) ==
    LET after[n \in 0 .. MaxTime] ==
            IF n = 0 THEN Poll(Require(w, w.snap.phase = "recording"), list)
            ELSE Roll(after[n - 1], now)
    IN  after[MaxTime]

Paused(w, now) ==
    LET c == CloseNative(Require(w, w.snap.phase = "recording"), "pause", now)
    IN  JournalEvent(Persist(Halt(c, "paused", now)))

\* TrackWorker::resume: the new segment is open before the device is started.
ResumeTrack(w, r, now) ==
    LET opened == NextSegment(w.tracks[r], now)
    IN  IF ~w.ok \/ w.tracks[r].from # Unset THEN Failed(w)
        ELSE IF w.fault = 1 THEN Failed(WithTrack(w, r, opened))
        ELSE Step(w, WithTrack(w, r, [opened EXCEPT !.reported = FALSE]))

WithGap_Forgotten(s, now) == s

WithGap(s, now) ==
    IF now <= s.pausedAt THEN s
    ELSE [s EXCEPT !.gaps = Append(@, [kind |-> s.phase, from |-> s.pausedAt, to |-> now])]

ResumeTracks(w, now) ==
    LET after[n \in 0 .. Len(Tracks)] ==
            IF n = 0 THEN Require(w, w.snap.phase \in {"paused", "sourceLost"})
            ELSE ResumeTrack(after[n - 1], Tracks[n], now)
    IN  after[Len(Tracks)]

Resumed(w, now) ==
    LET n == ResumeTracks(w, now)
        s == WithGap(w.snap, now)
    IN  JournalEvent(Persist(Set(n, [s EXCEPT !.phase = "recording", !.pausedAt = Unset,
                                              !.segmentStart = now])))

\* PcmTimelineFinalizer, then the envelope, then the last snapshot.
Finalized(w) ==
    LET audible == Require(w, w.snap.segments # <<>> /\ ObservedEnd(w.snap) > w.snap.started)
        written == Step(audible, [audible EXCEPT !.envelope =
            [segments |-> w.snap.segments, gaps |-> w.snap.gaps,
             from |-> w.snap.started, to |-> ObservedEnd(w.snap)]])
        noted   == JournalEvent(written)
    IN  Persist(Set(noted, [noted.snap EXCEPT !.phase = "stopped"]))

Stopped(w, now) ==
    LET ended == CASE w.snap.phase = "recording" -> CloseNative(w, "stop", now)
                   [] w.snap.phase \in {"paused", "sourceLost"} -> Set(w, WithGap(w.snap, now))
                   [] w.snap.phase \in {"interrupted", "finalizing"} -> w
                   [] OTHER -> Failed(w)
        final == Halt(ended, "finalizing", Unset)
    IN  Finalized(JournalEvent(Persist(final)))

-----------------------------------------------------------------------------
(* The commands, and the tray's clock.                                      *)

\* 0: no step of the command fails.
Faults == {0} \cup {n \in FaultAt : failures < MaxFailures}

Meets(fault) == failures' = failures + IF fault = 0 THEN 0 ELSE 1

Done(w) ==
    /\ snap' = w.snap /\ tracks' = w.tracks /\ queue' = w.queue
    /\ durable' = [durable EXCEPT ![activeSession] = w.durable]
    /\ envelope' = [envelope EXCEPT ![activeSession] = w.envelope]
    /\ UNCHANGED <<time, up, activeSession>>

\* start_capture: a failed start leaves its package behind.
Started(w) ==
    LET first     == [phase |-> "starting", started |-> time, segmentStart |-> time,
                      pausedAt |-> Unset, segments |-> <<>>, gaps |-> <<>>, notices |-> 0]
        requested == JournalEvent(Persist(Set(Step(w, w), first)))
        native    == Step(requested, [requested EXCEPT !.tracks =
                         [x \in Roles |-> [Closed EXCEPT !.from = time]]])
        recording == JournalEvent(Persist(Set(native, [first EXCEPT !.phase = "recording"])))
        failed    == [first EXCEPT !.phase = "interrupted", !.notices = 1]
    IN  IF requested.ok /\ ~native.ok THEN [native EXCEPT !.durable = failed] ELSE recording

StartCapture(r) ==
    /\ up /\ activeSession = Unset /\ durable[r] = Unset
    /\ \E fault \in Faults :
        LET w == Started([Work(fault) EXCEPT !.snap = Unset]) IN
        /\ Meets(fault)
        /\ durable' = [durable EXCEPT ![r] = w.durable]
        /\ IF w.ok THEN activeSession' = r /\ snap' = w.snap /\ tracks' = w.tracks
                   ELSE UNCHANGED <<activeSession, snap, tracks>>
    /\ UNCHANGED <<time, up, queue, envelope>>

CaptureStatus ==
    /\ activeSession # Unset /\ snap.phase = "recording"
    /\ \E fault \in Faults, list \in Drains :
        Meets(fault) /\ Done(Ticked(Work(fault), list, time))

PauseCapture ==
    /\ activeSession # Unset
    /\ \E fault \in Faults, list \in Drains :
        Meets(fault) /\ Done(Paused(Ticked(Work(fault), list, time), time))

ResumeCapture ==
    /\ activeSession # Unset
    /\ \E fault \in Faults : Meets(fault) /\ Done(Resumed(Work(fault), time))

\* On success the session and its native stream are dropped.
StopCapture ==
    /\ activeSession # Unset
    /\ \E fault \in Faults :
        LET w == Stopped(Work(fault), time) IN
        /\ Meets(fault)
        /\ IF ~w.ok THEN Done(w)
           ELSE /\ activeSession' = Unset /\ snap' = Unset
                /\ tracks' = NoStream /\ queue' = {}
                /\ durable' = [durable EXCEPT ![activeSession] = w.durable]
                /\ envelope' = [envelope EXCEPT ![activeSession] = w.envelope]
                /\ UNCHANGED <<time, up>>

-----------------------------------------------------------------------------
(* The workers, the clock and the life of the process.                      *)

\* Only these phases use the clock or the workers.
Native == activeSession # Unset /\ snap.phase \in {"recording", "paused", "sourceLost"}

Enqueue(signal) ==
    /\ snap.notices <= MaxWarnings  \* bound: once past it nothing can be saved
    /\ Cardinality(queue \cup {signal}) <= MaxSignals
    /\ queue' = queue \cup {signal}
    /\ UNCHANGED <<time, up, activeSession, snap, durable, envelope, failures>>

\* Where a packet of the open segment may claim a gap of one unit: its clock
\* was set after the session's, so that it runs behind.
IssueStarts(r) == {from \in snap.started .. time - 1 :
    from + Skew + 1 >= time /\ from + Skew + 1 > tracks[r].from}

\* report_issue: a discontinuity, a bad timestamp or a drift.
PacketIssue(r) ==
    /\ activeSession # Unset /\ tracks[r].from # Unset
    /\ \E from \in IssueStarts(r) :
        Enqueue([kind |-> "gap", from |-> from, to |-> from + 1])
    /\ UNCHANGED tracks

\* push_source_loss: reported once, whether or not the track is paused.
SourceGone(r) ==
    /\ Native /\ ~tracks[r].reported
    /\ \E at \in snap.started .. time :
        at + Skew >= time /\ Enqueue([kind |-> "lost", from |-> at, to |-> at])
    /\ tracks' = [tracks EXCEPT ![r].reported = TRUE]

Tick ==
    /\ Native /\ time < MaxTime
    /\ time' = time + 1
    /\ UNCHANGED <<up, activeSession, snap, tracks, queue, durable, envelope, failures>>

\* Quit with no recording, a kill or a power cut.
Exit ==
    /\ up
    /\ up' = FALSE /\ time' = 0
    /\ activeSession' = Unset /\ snap' = Unset /\ tracks' = NoStream /\ queue' = {}
    /\ UNCHANGED <<durable, envelope, failures>>

Candidates == {r \in Recordings : durable[r] # Unset /\ envelope[r] = Unset}

Recovered_WithoutLast(s) ==
    [s EXCEPT !.phase = "interrupted", !.segmentStart = Unset, !.pausedAt = Unset,
              !.segments = IF @ = <<>> THEN @ ELSE Front(@), !.notices = @ + 1]

Recovered(s) == [s EXCEPT !.phase = "interrupted", !.segmentStart = Unset,
                          !.pausedAt = Unset, !.notices = @ + 1]

Launchable == Cardinality(Candidates) <= 1 /\ \A r \in Candidates : Valid(Recovered(durable[r]))

\* initialize_capture_state; a launch that cannot recover ends in Exit.
Launch ==
    /\ ~up /\ Launchable
    /\ up' = TRUE
    /\ IF Candidates = {} THEN UNCHANGED <<activeSession, snap, durable>>
       ELSE LET r == CHOOSE x \in Candidates : TRUE IN
            /\ activeSession' = r /\ snap' = Recovered(durable[r])
            /\ durable' = [durable EXCEPT ![r] = Recovered(@)]
    /\ UNCHANGED <<time, tracks, queue, envelope, failures>>

CaptureNext ==
    \/ \E r \in Recordings : StartCapture(r)
    \/ CaptureStatus \/ PauseCapture \/ ResumeCapture \/ StopCapture
    \/ \E r \in Roles : PacketIssue(r) \/ SourceGone(r)
    \/ Tick \/ Exit \/ Launch

CaptureSpec == CaptureInit /\ [][CaptureNext]_captureVars

-----------------------------------------------------------------------------
(* Properties.                                                              *)

Within(t, spans) == \E i \in 1 .. Len(spans) : spans[i].from <= t /\ t < spans[i].to

Instants(e) == e.from .. e.to - 1

\* Within a pause or a source loss, which are the gaps the session marks itself.
Marked(t, gaps) == \E i \in 1 .. Len(gaps) :
    gaps[i].kind # "device" /\ gaps[i].from <= t /\ t < gaps[i].to

\* Every instant of a saved recording was recorded by some track or is in an
\* explicit gap: pauses, lost sources, failures of the disk and crashes included.
NoSilentHole ==
    \A x \in Recordings : envelope[x] # Unset =>
        \A t \in Instants(envelope[x]) :
            Within(t, envelope[x].segments) \/ Within(t, envelope[x].gaps)

\* Nothing a track recorded lies in a pause or behind the loss of its source.
GapsAreSilent ==
    \A x \in Recordings : envelope[x] # Unset =>
        \A t \in Instants(envelope[x]) :
            ~(Within(t, envelope[x].segments) /\ Marked(t, envelope[x].gaps))

\* A segment that was once durable stays in the recording, in its place.
SegmentsAreKept ==
    [][\A x \in Recordings : durable[x] # Unset =>
         /\ durable'[x] # Unset
         /\ IsPrefix(durable[x].segments, durable'[x].segments)
         /\ envelope'[x] # Unset => IsPrefix(durable[x].segments, envelope'[x].segments)]_captureVars

\* Refuted by the code.  Every track of a saved recording covers all of it: a
\* close that fails between two tracks is saved by the next signal.
TracksAreAligned ==
    \A x \in Recordings : envelope[x] # Unset =>
        \A r \in Roles, t \in Instants(envelope[x]) :
            Within(t, RoleSegments(envelope[x], r)) \/ Within(t, envelope[x].gaps)

\* Refuted by the code.  A stop that failed can be tried again: the workers
\* have given up their segments, or the snapshot has become invalid.
StopCanBeRetried ==
    activeSession # Unset /\ snap.phase \in {"recording", "paused"} /\ snap.segments # <<>>
        /\ snap.segmentStart \notin {time}
        => Stopped(Work(0), time).ok

\* Refuted by the code.  The application can be launched again: two starts
\* that failed, or a snapshot full of warnings, end every launch.
LaunchIsPossible == ~up => Launchable

\* Refuted by the code.  No track has a segment open while paused: a resume that
\* fails on the second track leaves the first one recording.
PausedIsSilent ==
    activeSession # Unset /\ snap.phase \in {"paused", "sourceLost"} =>
        \A r \in Roles : tracks[r].from = Unset
=============================================================================
