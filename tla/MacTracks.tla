------------------------------ MODULE MacTracks ------------------------------
(* The macOS capture stream: the callbacks of Core Audio that write each      *)
(* track's WAV segments, the watchdog of the process tap, and the calls the   *)
(* session makes of the stream.  A callback brings one unit of the clock.     *)
(*                                                                            *)
(* A call is a chain of fallible steps threaded through a record "s": steps   *)
(* before the one that fails have taken effect.                               *)
EXTENDS Naturals, Sequences, FiniteSets, FiniteSetsExt

CONSTANTS
    Roles,         \* the tracks: microphone, and system if a meeting is recorded
    Unset,         \* no segment is open; no instant is noted
    Tolerance,     \* how far a callback may be from its expected clock
    SilenceAfter,  \* how long the system track is silent before it is reported
    Timeout,       \* PROCESS_TAP_CALLBACK_TIMEOUT_NS
    Rolling,       \* ROLLING_SEGMENT_NS
    MaxTime,       \* bound: the clock
    FaultAt,       \* which fallible step of a call may fail
    MaxFaults      \* bound: calls and callbacks that meet a fault

ASSUME TrackAssumption ==
    /\ "microphone" \in Roles /\ Roles \subseteq {"microphone", "system"}
    /\ Tolerance \in Nat /\ Timeout \in Nat \ {0} /\ FaultAt \subseteq Nat
    /\ Unset \notin Nat \cup [from : Nat, to : Nat, audio : SUBSET Nat]

VARIABLES
    time,          \* the session's clock
    stream,        \* MacNativeStream with its SharedCapture
    session,       \* the session's phase and the start of its open segment
    called,        \* the roles that had their callback in this unit of time
    polled,        \* the session has taken the signals in this unit of time
    faults

macVars == <<time, stream, session, called, polled, faults>>

Track == [sequence |-> 0, open |-> Unset, closed |-> <<>>, expected |-> 0,
          silentFrom |-> Unset, silenceReported |-> FALSE,
          left |-> FALSE]  \* a file of this sequence is left without a segment

Watchdog(at) == [started |-> at, restarted |-> Unset, failed |-> FALSE]

MacInit ==
    /\ time = 0 /\ called = {} /\ polled = FALSE /\ faults = 0
    /\ session = [phase |-> "recording", from |-> 0]
    /\ stream = [devices |-> Roles, track |-> [r \in Roles |-> Track],
                 returned |-> <<>>, watchdog |-> Watchdog(0), last |-> Unset,
                 gaps |-> {},        \* the instants reported as gaps
                 lossAt |-> Unset,   \* a source loss not yet taken
                 losses |-> {},      \* when source losses were reported
                 app |-> TRUE, paused |-> FALSE, stopped |-> FALSE,
                 spoiled |-> FALSE]  \* a segment could not be finished

-----------------------------------------------------------------------------
(* Signals and the recorder of a track.                                     *)

PushGap(s, from, to) == [s EXCEPT !.gaps = @ \cup (from .. to - 1)]
SourceLost(s, at) == [s EXCEPT !.lossAt = IF @ = Unset THEN at ELSE @, !.losses = @ \cup {at}]

Distance(a, b) == IF a < b THEN b - a ELSE a - b
Least(a, b) == IF a < b THEN a ELSE b
Greatest(a, b) == IF a < b THEN b ELSE a

With(s, r, t) == [s EXCEPT !.track[r] = t]

\* A segment without a frame is deleted.
Rotate(t) ==
    IF t.open = Unset THEN t
    ELSE IF t.open.audio = {} THEN [t EXCEPT !.open = Unset]
    ELSE [t EXCEPT !.open = Unset, !.sequence = @ + 1,
                   !.closed = Append(@, [sequence |-> t.sequence, segment |-> t.open])]

Jumps_Never(t, from) == FALSE
Jumps(t, from) == Distance(t.expected, from) > Tolerance

Discontinued_Unreported(s, r, from) ==
    IF Jumps(s.track[r], from) THEN With(s, r, Rotate(s.track[r])) ELSE s

Discontinued(s, r, from) ==
    LET t     == s.track[r]
        first == t.sequence = 0 /\ t.open = Unset
        split == IF first THEN s ELSE With(s, r, Rotate(t))
    IN  IF Jumps(t, from)
        THEN PushGap(split, Least(t.expected, from), Greatest(t.expected, from))
        ELSE s

Listen(s, r, from, to, silent) ==
    LET t     == s.track[r]
        since == IF t.silentFrom = Unset THEN from ELSE t.silentFrom
        long  == silent /\ ~t.silenceReported /\ to >= since + SilenceAfter
        heard == [t EXCEPT !.silentFrom = IF silent THEN since ELSE Unset,
                           !.silenceReported = (@ /\ silent) \/ long]
        next  == With(s, r, heard)
    IN  IF r # "system" THEN s
        ELSE IF long THEN PushGap(next, since, to)
        ELSE next

\* The segment that is open, or a new one; and with the samples of a callback.
Ready(t, from, to) == IF t.open = Unset THEN [from |-> from, to |-> to, audio |-> {}] ELSE t.open
Grown(open, from, to) ==
    [open EXCEPT !.audio = @ \cup (from .. to - 1), !.to = Greatest(@, to)]

\* OpenOptions::create_new refuses a file that an earlier failure left.
Store(s, r, from, to, fault) ==
    LET t     == s.track[r]
        ready == Ready(t, from, to)
    IN  IF t.open = Unset /\ (t.left \/ fault = "open") THEN SourceLost(s, time)
        ELSE IF t.open = Unset /\ fault = "header"
        THEN SourceLost(With(s, r, [t EXCEPT !.left = TRUE]), time)
        ELSE IF fault = "write" THEN SourceLost(With(s, r, [t EXCEPT !.open = ready]), time)
        ELSE With(s, r, [t EXCEPT !.open = Grown(ready, from, to)])

\* push_i16_at: the activity is noted whatever becomes of the audio.
Push(s, r, from, to, silent, fault) ==
    LET noted    == IF r = "system" THEN [s EXCEPT !.last = to] ELSE s
        split    == Discontinued(noted, r, from)
        expected == With(split, r, [split.track[r] EXCEPT !.expected = to])
    IN  IF fault = "format" THEN SourceLost(noted, time)
        ELSE Store(Listen(expected, r, from, to, silent), r, from, to, fault)

-----------------------------------------------------------------------------
(* Closing segments.  s.fault counts the fallible steps that still succeed.  *)

Step(s, next, failed) ==
    IF ~s.ok THEN s
    ELSE IF s.fault = 1 THEN [failed EXCEPT !.ok = FALSE, !.fault = 0]
    ELSE [next EXCEPT !.fault = IF s.fault = 0 THEN 0 ELSE s.fault - 1]

Segment(r, sequence, open) == [role |-> r, sequence |-> sequence, from |-> open.from,
                               to |-> open.to, audio |-> open.audio]

Finished(drafts, n, r) == [i \in 1 .. n |-> Segment(r, drafts[i].sequence, drafts[i].segment)]

Finish(s, r, n) ==
    LET t == s.track[r] IN
    [With(s, r, [t EXCEPT !.closed = SubSeq(@, n + 1, Len(@))])
        EXCEPT !.done = @ \o Finished(t.closed, n, r)]

\* finalize_closed: the drafts in their order, up to one that fails; that one
\* stays, those finished before it are gone.
FinishDrafts(s, r) ==
    LET all == Len(s.track[r].closed) IN
    IF ~s.ok THEN s
    ELSE IF s.fault \in 1 .. all
    THEN [Finish(s, r, s.fault - 1) EXCEPT !.ok = FALSE, !.fault = 0, !.spoiled = TRUE]
    ELSE [Finish(s, r, all) EXCEPT !.fault = IF @ = 0 THEN 0 ELSE @ - all]

\* close: the segment is given up before it is finished, its number after.
CloseTrack(s, r) ==
    LET t     == s.track[r]
        taken == [t EXCEPT !.open = Unset]
        next  == With(s, r, [taken EXCEPT !.sequence = @ + 1])
        fails == With(s, r, [taken EXCEPT !.left = TRUE])
    IN  IF ~s.ok \/ t.open = Unset THEN s
        ELSE IF t.open.audio = {} THEN With(s, r, taken)
        ELSE Step(s, [next EXCEPT !.done = Append(@, Segment(r, t.sequence, t.open))],
                     [fails EXCEPT !.spoiled = TRUE])

CloseRole(s, r) == CloseTrack(FinishDrafts(s, r), r)

\* The tracks come in the order of a hash map; one failure loses the list.
CloseSegments(s, first) ==
    LET one == CloseRole([s EXCEPT !.done = <<>>], first)
        all == IF Roles = {first} THEN one ELSE CloseRole(one, CHOOSE r \in Roles : r # first)
    IN  IF all.ok THEN all ELSE [all EXCEPT !.done = <<>>]

\* MacNativeStream::close_segment ignores the clock it is given.
Close(s, reason, first) ==
    LET mic   == Step(s, [s EXCEPT !.devices = @ \ {"microphone"}], s)
        quiet == IF "system" \in Roles
                 THEN Step(mic, [mic EXCEPT !.devices = {}], mic) ELSE mic
        ended == [quiet EXCEPT !.paused = reason # "stop", !.stopped = reason = "stop"]
    IN  IF reason = "rolling" THEN CloseSegments(s, first)
        ELSE IF ~quiet.ok THEN quiet
        ELSE CloseSegments(ended, first)

\* close_native: the session takes segments of its own interval, nothing else.
Accepts(s, at, allowMissing) ==
    /\ s.ok
    /\ allowMissing \/ \A r \in Roles : \E i \in DOMAIN s.done : s.done[i].role = r
    /\ \A i \in DOMAIN s.done : s.done[i].from = session.from /\ s.done[i].to = at

-----------------------------------------------------------------------------
(* The watchdog of the process tap.                                         *)

Reset_KeepsFailure(w, at) == [w EXCEPT !.started = at, !.restarted = Unset]
Reset(w, at) == Watchdog(at)

Poll(s) ==
    LET w        == s.watchdog
        recent   == w.restarted # Unset /\ s.last # Unset /\ s.last >= w.restarted
        since    == IF s.last = Unset THEN w.started ELSE s.last
        again    == IF recent THEN Unset ELSE w.restarted
        cleared  == [s EXCEPT !.watchdog.restarted = again]
        restart  == PushGap([cleared EXCEPT !.watchdog.restarted = time], since, time)
    IN  IF "system" \notin Roles \/ w.failed THEN s
        ELSE IF time < since + Timeout THEN cleared
        ELSE IF again = Unset
        THEN Step(restart, [restart EXCEPT !.devices = @ \cup {"system"}],
                  SourceLost([restart EXCEPT !.watchdog.failed = TRUE,
                                             !.devices = @ \ {"system"}], time))
        ELSE IF time >= again + Timeout
        THEN SourceLost([cleared EXCEPT !.watchdog.failed = TRUE], time)
        ELSE cleared

Presence(s, gone) ==
    LET mic == IF "microphone" \in gone THEN SourceLost(s, time) ELSE s
    IN  IF "application" \in gone /\ s.app
        THEN [SourceLost(mic, time) EXCEPT !.app = FALSE] ELSE mic

-----------------------------------------------------------------------------
(* The session's calls.                                                     *)

Work(fault) ==
    LET call == [ok |-> TRUE, fault |-> fault, done |-> <<>>]
    IN  [f \in DOMAIN stream \cup DOMAIN call |-> IF f \in DOMAIN call THEN call[f] ELSE stream[f]]

Kept(s) == [f \in DOMAIN stream |-> IF f = "returned" THEN s.returned \o s.done ELSE s[f]]

Faulty(n) == faults + n <= MaxFaults /\ faults' = faults + n
Count(fault) == IF fault = 0 THEN 0 ELSE 1

\* CaptureSession::tick: the signals, then the rolling of the segment.
Tick ==
    /\ session.phase = "recording" /\ ~polled
    /\ polled' = TRUE
    /\ \E fault \in {0} \cup FaultAt, gone \in SUBSET {"microphone", "application"},
          first \in Roles :
        LET seen     == [Presence(Poll(Work(fault)), gone) EXCEPT !.ok = TRUE]
            loss     == seen.lossAt
            drained  == [seen EXCEPT !.lossAt = Unset]
            lost     == Close(drained, "sourceLoss", first)
            boundary == session.from + Rolling
            rolled   == Close(drained, "rolling", first)
        IN  /\ Faulty(Count(fault) + Cardinality(gone))
            /\ IF loss # Unset /\ loss > session.from
               THEN /\ stream' = Kept(lost)
                    /\ session' = IF Accepts(lost, loss, TRUE)
                                  THEN [session EXCEPT !.phase = "sourceLost"] ELSE session
               ELSE IF loss = Unset /\ time >= boundary
               THEN /\ stream' = Kept(rolled)
                    /\ session' = IF Accepts(rolled, boundary, FALSE)
                                  THEN [session EXCEPT !.from = boundary] ELSE session
               ELSE stream' = Kept(drained) /\ session' = session
    /\ UNCHANGED <<time, called>>

\* pause_capture and stop_capture.
End(reason, phase) ==
    /\ session.phase = "recording" /\ time > session.from
    /\ reason = "pause" => polled  \* pause_capture ticks first
    /\ \E fault \in {0} \cup FaultAt, first \in Roles :
        LET s == Close(Work(fault), reason, first) IN
        /\ Faulty(Count(fault))
        /\ stream' = Kept(s)
        /\ session' = IF Accepts(s, time, FALSE) THEN [session EXCEPT !.phase = phase] ELSE session
    /\ UNCHANGED <<time, called, polled>>

Pause == End("pause", "paused")
Stop  == End("stop", "stopped")

\* The tap first; if the microphone does not play, the tap is stopped again.
Resumed(s) ==
    LET tap == IF "system" \in Roles THEN Step(s, [s EXCEPT !.devices = @ \cup {"system"}], s) ELSE s
        set == IF tap.ok THEN [tap EXCEPT !.watchdog = Reset(@, time)] ELSE tap
        mic == Step(set, [set EXCEPT !.devices = @ \cup {"microphone"}],
                         [set EXCEPT !.devices = {}])
    IN  IF s.stopped THEN [s EXCEPT !.ok = FALSE]
        ELSE IF ~s.paused THEN s
        ELSE IF ~mic.ok THEN mic
        ELSE [mic EXCEPT !.paused = FALSE]

Resume ==
    /\ session.phase \in {"paused", "sourceLost"}
    /\ \E fault \in {0} \cup FaultAt :
        LET s == Resumed(Work(fault)) IN
        /\ Faulty(Count(fault))
        /\ stream' = Kept(s)
        /\ session' = IF s.ok THEN [phase |-> "recording", from |-> time] ELSE session
    /\ UNCHANGED <<time, called, polled>>

-----------------------------------------------------------------------------
(* Core Audio, and the clock.                                               *)

\* A buffer of the unit just past, or of the one before it.  Bound: one buffer
\* of a track in a unit, the microphone's first, both before the session looks.
Callback(r) ==
    /\ r \in stream.devices /\ r \notin called /\ time > 0 /\ ~polled
    /\ r = "microphone" => called = {}
    /\ called' = called \cup {r}
    /\ \E late \in {0, 1}, silent \in BOOLEAN,
          fault \in {"none", "format", "open", "header", "write"} :
        /\ late < time
        /\ silent => r = "system"
        /\ Faulty(late + IF fault = "none" THEN 0 ELSE 1)
        /\ stream' = Push(stream, r, time - 1 - late, time - late, silent, fault)
    /\ UNCHANGED <<time, session, polled>>

\* The stream's own error handler.
DeviceError ==
    /\ session.phase = "recording" /\ stream.lossAt = Unset
    /\ Faulty(1)
    /\ stream' = SourceLost(stream, time)
    /\ UNCHANGED <<time, session, called, polled>>

Elapse ==
    /\ session.phase = "recording" => polled
    /\ session.phase # "stopped" /\ time < MaxTime
    /\ time' = time + 1 /\ called' = {} /\ polled' = FALSE
    /\ UNCHANGED <<stream, session, faults>>

MacNext == Tick \/ Pause \/ Stop \/ Resume \/ DeviceError \/ Elapse
            \/ \E r \in Roles : Callback(r)

MacSpec == MacInit /\ [][MacNext]_macVars

-----------------------------------------------------------------------------
(* Properties.                                                              *)

Held(r) ==
    LET t == stream.track[r] IN
    UNION ({stream.returned[i].audio : i \in {j \in DOMAIN stream.returned : stream.returned[j].role = r}}
        \cup {t.closed[i].segment.audio : i \in DOMAIN t.closed}
        \cup (IF t.open = Unset THEN {} ELSE {t.open.audio}))

\* The instants before the last of "set" that it leaves out, in runs longer than
\* a callback may be off.
Holes(set, from) ==
    IF set = {} THEN {}
    ELSE {t \in from .. Max(set) : \E a \in from .. t :
             t <= a + Tolerance /\ a + Tolerance < Max(set) /\ (a .. a + Tolerance) \cap set = {}}

Excused(t) == stream.spoiled \/ \E l \in stream.losses : t < l + Tolerance

\* Whatever a track is missing before its last sample is in a reported gap or
\* before a reported loss of the source (or within the tolerance of the callback
\* that follows it), unless finishing a file failed.
HolesAreReported ==
    \A r \in Roles : \A t \in Holes(Held(r), 0) : t \in stream.gaps \/ Excused(t)

\* A segment is one stretch of audio up to the last reported loss: what follows
\* a jump of the clock is in a segment of its own, so that positions in a file
\* are positions in time.
SegmentsAreContinuous ==
    LET whole(g) == \A t \in Holes(g.audio, g.from) : Excused(t) IN
    /\ \A i \in DOMAIN stream.returned : whole(stream.returned[i])
    /\ \A r \in Roles : LET t == stream.track[r] IN
        /\ t.open # Unset => whole(t.open)
        /\ \A i \in DOMAIN t.closed : whole(t.closed[i].segment)

\* A tap that stays silent through a restart is reported as lost, also after
\* a resume.
StallIsReported ==
    session.phase = "recording" /\ polled /\ "system" \in Roles
        /\ time >= 2 * Timeout + Greatest(stream.watchdog.started,
                                          IF stream.last = Unset THEN 0 ELSE stream.last)
        => \E l \in stream.losses : l >= stream.watchdog.started

\* Refuted by the code.  A close without a fault, in which every track has
\* something to give, is taken by the session: the stream answers with what the
\* callbacks brought, whatever clock it was asked for.
CloseIsAccepted ==
    [][faults' = 0 /\ session'.phase = "recording" /\ session'.from = session.from
       => \E r \in Roles : \A i \in DOMAIN stream'.returned :
              i <= Len(stream.returned) \/ stream'.returned[i].role # r]_macVars

\* Refuted by the code.  A gap reported by the stream does not reach back over
\* a pause: neither the expected clock nor the last callback is reset by resume.
GapsSpareThePause ==
    [][stream.watchdog.started > 0 /\ stream'.gaps # stream.gaps
       => \A t \in stream'.gaps \ stream.gaps : t >= stream.watchdog.started]_macVars

\* Refuted by the code.  A track can always open its next segment: one whose
\* finishing failed keeps the number that the next one takes.
NextSegmentOpens == \A r \in Roles : ~stream.track[r].left
=============================================================================
