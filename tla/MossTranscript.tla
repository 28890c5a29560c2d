---------------------------- MODULE MossTranscript ----------------------------
(* From the windows of a recording to its transcript: quiet cuts              *)
(* (local-moss-protocol/src/windows.rs), the plan that pins them, the         *)
(* adaptation of each window's turns (lib.rs, chronology.rs) and the mapping  *)
(* of every window's speakers onto those of the whole recording (speakers.rs, *)
(* solver.rs, local_moss.rs).                                                 *)
(*                                                                            *)
(* A turn's text is its index in the worker's answer.                         *)
EXTENDS Integers, Sequences, FiniteSets, FiniteSetsExt, SequencesExt

CONSTANTS
    FramesPerMs, Grid, MaxWindow, Lookback, Energy, MaxSource, MaxWindows, MaxTail, MaxDrift,
    MaxJoined,    \* bound of a joined text, in turns
    Sources,      \* lengths of the recordings, in frames
    Drifts,       \* the container's duration, relative to the decoded one
    Turns,        \* the turns a worker may emit
    MaxTurns,     \* bound: turns of all windows together
    Tracks        \* the diarizations a SpeakerKit worker may answer

Nobody == 0   \* no attribution

Kit == {t.who : t \in UNION {ToSet(track) : track \in Tracks}}

Spans == [start : Nat, end : Nat, who : Nat]

\* Milliseconds are whole on the grid of the cuts; a diarization names someone.
ASSUME MossAssumption ==
    /\ {Grid, FramesPerMs} \subseteq Nat \ {0} /\ Grid % FramesPerMs = 0
    /\ {MaxWindow, Lookback, Energy, MaxSource, MaxWindows, MaxTail, MaxDrift, MaxJoined, MaxTurns} \subseteq Nat
    /\ Sources \subseteq Nat /\ Drifts \subseteq Int /\ Turns \subseteq Spans
    /\ Tracks # {} /\ Tracks \subseteq Seq(Spans) \ {<<>>}
    /\ IsFiniteSet(Kit) /\ Nobody \notin Kit

VARIABLES
    stage, failure,
    plan,         \* [frames, duration, windows, timing, mapping]
    answer,       \* the turns that were decoded last
    replies,      \* window -> [out, groups]: its segments and the turns of each
    anchors,      \* the diarization of the whole recording
    transcript    \* the segments with the recording's speakers

mossVars == <<stage, failure, plan, answer, replies, anchors, transcript>>

MossInit ==
    /\ stage = "planning" /\ failure = "none"
    /\ \E frames \in Sources, drift \in Drifts, timing \in {"v2", "v3"}, mapping \in {"graph", "composed"} :
          plan = [frames |-> frames, windows |-> <<>>, timing |-> timing, mapping |-> mapping,
                  duration |-> (frames + FramesPerMs - 1) \div FramesPerMs + drift]
    /\ answer = <<>> /\ replies = <<>> /\ anchors = <<>> /\ transcript = <<>>

Fail(code) ==
    /\ stage' = "failed" /\ failure' = code
    /\ UNCHANGED <<plan, answer, replies, anchors, transcript>>

Milliseconds(frames) == (frames + FramesPerMs - 1) \div FramesPerMs
Frames(window) == window.to - window.from
Starts(window) == window.from \div FramesPerMs
Ends(window) == Milliseconds(window.to)

-----------------------------------------------------------------------------
(* The plan.                                                                *)

Offsets == {o \in 0 .. Lookback : o % Grid = 0}

QuietCut_FromRead(target, energy) ==
    LET quiet == {o \in Offsets : energy[o] <= 1 /\ \A p \in Offsets : energy[o] <= energy[p]}
    IN IF quiet = {} THEN target ELSE target - (Lookback + Energy) + Max(quiet)

\* The latest of the quietest spans, if it is quiet (not 2): the cut is its end.
QuietCut(target, energy) ==
    LET quiet == {o \in Offsets : energy[o] <= 1 /\ \A p \in Offsets : energy[o] <= energy[p]}
    IN IF quiet = {} THEN target ELSE target - (Lookback + Energy) + Max(quiet) + Energy

Planned == IF plan.windows = <<>> THEN 0 ELSE Last(plan.windows).to

PlanWindow ==
    LET target == Min({Planned + MaxWindow, plan.frames}) IN
    /\ stage = "planning" /\ Planned < plan.frames
    /\ IF Len(plan.windows) >= MaxWindows THEN Fail("window_limit")
       ELSE \E energy \in [Offsets -> 0 .. 2] :
            LET to == IF target < plan.frames THEN QuietCut(target, energy) ELSE target IN
            IF to <= Planned \/ to > target THEN Fail("window_invalid")
            ELSE /\ plan' = [plan EXCEPT !.windows = Append(@, [from |-> Planned, to |-> to])]
                 /\ UNCHANGED <<stage, failure, answer, replies, anchors, transcript>>

WindowIsValid(i) ==
    LET w == plan.windows[i] IN
    /\ w.from = (IF i = 1 THEN 0 ELSE plan.windows[i - 1].to)
    /\ Frames(w) \in 1 .. MaxWindow /\ w.to <= plan.frames /\ w.from % Grid = 0
    /\ i < Len(plan.windows) => Frames(w) >= MaxWindow - Lookback /\ w.to % Grid = 0

\* LocalMossPlan::validate_spec, also when a retained plan is read again.
Prepare ==
    LET drift == plan.duration - Milliseconds(plan.frames) IN
    /\ stage = "planning" /\ Planned = plan.frames
    /\ IF plan.frames \notin 1 .. MaxSource - 1 \/ Len(plan.windows) > MaxWindows
            \/ drift > MaxDrift \/ -drift > MaxDrift
       THEN Fail("local_moss_plan_invalid")
       ELSE IF \E i \in DOMAIN plan.windows : ~WindowIsValid(i) THEN Fail("local_moss_window_invalid")
       ELSE /\ stage' = "answering"
            /\ UNCHANGED <<failure, plan, answer, replies, anchors, transcript>>

-----------------------------------------------------------------------------
(* The adaptation of one window's turns.                                    *)

TurnIsValid(raw, i, duration) ==
    LET turn == raw[i] IN
    /\ turn.end > turn.start /\ turn.start < duration
    /\ turn.end > duration => i = Len(raw) /\ turn.end - duration <= MaxTail

Earlier(raw, i, j) == raw[i].start < raw[j].start \/ (raw[i].start = raw[j].start /\ i < j)

\* A sort that is stable, and refused where it would reorder one speaker's turns.
Chronological(raw) ==
    LET place(i) == Cardinality({j \in DOMAIN raw : Earlier(raw, j, i)}) + 1
    IN [n \in DOMAIN raw |-> CHOOSE i \in DOMAIN raw : place(i) = n]

Reorders(raw) ==
    \E i, j \in DOMAIN raw : i < j /\ raw[i].who = raw[j].who /\ raw[j].start < raw[i].start

Coalesces_Apart(a, turn) ==
    /\ a.out # <<>> /\ turn.who # Nobody
    /\ Last(a.out).who = turn.who
    /\ Len(Last(a.groups)) < MaxJoined

\* Only the turn just before, of the same known speaker, and only if they overlap.
Coalesces(a, turn) ==
    /\ a.out # <<>> /\ turn.who # Nobody
    /\ Last(a.out).who = turn.who /\ turn.start < Last(a.out).end
    /\ Len(Last(a.groups)) < MaxJoined

Coalesced(a, i, turn, end) ==
    LET n == Len(a.out) IN
    [a EXCEPT !.out[n].end = Max({@, end}), !.groups[n] = Append(@, i), !.lastStart = turn.start,
              !.lastEnd[turn.who] = Max({a.out[n].end, end})]

Attributed_Blindly(a, turn) == turn.who

\* A known speaker whose last turn is not over is taken for nobody.
Attributed(a, turn) == IF turn.start < a.lastEnd[turn.who] THEN Nobody ELSE turn.who

Emitted(a, i, turn, end, who) ==
    [a EXCEPT !.out = Append(@, [start |-> turn.start, end |-> end, who |-> who]),
              !.groups = Append(@, <<i>>), !.lastStart = turn.start, !.lastEnd[who] = end]

\* The turns are taken by their time, before v3 as they were emitted.
Order(raw) == IF plan.timing = "v3" THEN Chronological(raw) ELSE [i \in DOMAIN raw |-> i]

Speakers == {Nobody} \cup {t.who : t \in Turns}

Begun(raw, duration) ==
    [ok |-> /\ raw # <<>> /\ \A i \in DOMAIN raw : TurnIsValid(raw, i, duration)
            /\ plan.timing = "v3" => ~Reorders(raw),
     out |-> <<>>, groups |-> <<>>, lastStart |-> 0, lastEnd |-> [who \in Speakers |-> 0]]

TakeTurn(a, raw, n, duration) ==
    LET i == Order(raw)[n] turn == raw[i] end == Min({turn.end, duration}) IN
    IF ~a.ok \/ turn.start < a.lastStart \/ (turn.end > duration /\ n < Len(raw))
       THEN [a EXCEPT !.ok = FALSE]
    ELSE IF Coalesces(a, turn) THEN Coalesced(a, i, turn, end)
    ELSE LET who == IF turn.who = Nobody THEN Nobody ELSE Attributed(a, turn) IN
         IF who = Nobody /\ turn.start < a.lastEnd[Nobody] THEN [a EXCEPT !.ok = FALSE]
         ELSE Emitted(a, i, turn, end, who)

Adapt(raw, duration) ==
    LET adapted[n \in 0 .. Len(raw)] ==
            IF n = 0 THEN Begun(raw, duration) ELSE TakeTurn(adapted[n - 1], raw, n, duration)
    IN adapted[Len(raw)]

\* verify_chronological_conservation; before v3, the joined text in its own order.
Conserves(raw, adapted) == FlattenSeq(adapted.groups) = Order(raw)

Taken == FoldLeft(LAMBDA n, r : n + Len(FlattenSeq(r.groups)), 0, replies)

Budget == MaxTurns - Taken - (Len(plan.windows) - Len(replies) - 1)

\* A retained response is bound to the request of one window.
Decode ==
    LET index == Len(replies) + 1 IN
    /\ stage = "answering" /\ index <= Len(plan.windows)
    /\ \/ Len(plan.windows) > 1 /\ Fail("local_moss_response_binding_mismatch")
       \/ \E raw \in {answered \in BoundedSeq(Turns, MaxTurns) : Len(answered) <= Budget} :
            LET adapted == Adapt(raw, Milliseconds(Frames(plan.windows[index]))) IN
            IF ~adapted.ok THEN Fail("local_moss_response_invalid")
            ELSE IF ~Conserves(raw, adapted) THEN Fail("local_moss_source_text_changed")
            ELSE /\ replies' = Append(replies, [out |-> adapted.out, groups |-> adapted.groups])
                 /\ answer' = raw
                 /\ UNCHANGED <<stage, failure, plan, anchors, transcript>>

\* CompleteMossResponses and ValidatedSpeakerKitResponse: all windows, one track.
Collect ==
    /\ stage = "answering" /\ Len(replies) = Len(plan.windows)
    /\ \E track \in Tracks :
          IF Last(track).end > plan.duration THEN Fail("local_moss_diarization_response_invalid")
          ELSE /\ stage' = "collected" /\ anchors' = track /\ answer' = <<>>
               /\ UNCHANGED <<failure, plan, replies, transcript>>

-----------------------------------------------------------------------------
(* The mapping of one window's speakers.                                    *)

Assembled ==
    FlattenSeq([w \in DOMAIN replies |->
        [i \in DOMAIN replies[w].out |->
            LET s == replies[w].out[i] at == Starts(plan.windows[w])
            IN [start |-> at + s.start, end |-> at + s.end, who |-> s.who, window |-> w]]])

Unknown == 1 + Max(Kit)   \* the column after the last global speaker

Slots(segments, w) == {s.who : s \in {x \in ToSet(segments) : x.window = w}} \ {Nobody}

Overlap(a, b) == Max({0, Min({a.end, b.end}) - Max({a.start, b.start})})

Total(f) == MapThenSumSet(LAMBDA x : f[x], DOMAIN f)

\* How long the anchors hold global speaker g while slot v speaks.
Support(segments, w, v, g) ==
    LET mine == {i \in DOMAIN segments : segments[i].window = w /\ segments[i].who = v}
        theirs == {k \in DOMAIN anchors : anchors[k].who = g}
    IN Total([p \in mine \X theirs |-> Overlap(segments[p[1]], anchors[p[2]])])

\* Whose turn is not over when another's, or nobody's, begins in the window.
Conflict(segments, w, a, b) ==
    \E i, j \in DOMAIN segments :
        /\ i < j /\ segments[i].window = w /\ segments[j].window = w
        /\ {segments[i].who, segments[j].who} = {a, b}
        /\ segments[i].end > segments[j].start

Problem(segments, w) ==
    LET slots == Slots(segments, w)
        weight == [v \in slots |-> [g \in Kit \cup {Unknown} |->
                      IF g = Unknown THEN 0 ELSE Support(segments, w, v, g)]]
    IN [slots |-> slots, weight |-> weight,
        edges |-> {e \in slots \X slots : e[1] # e[2] /\ Conflict(segments, w, e[1], e[2])},
        domain |-> [v \in slots |-> {g \in Kit : weight[v][g] > 0}
                       \cup (IF Conflict(segments, w, v, Nobody) THEN {} ELSE {Unknown})]]

Score(p, columns) == Total([v \in DOMAIN columns |-> p.weight[v][columns[v]]])

Prunes_Worse(p, best, bound) == best # <<>> /\ bound < Score(p, best)

\* Columns are tried in order, so that a branch that can only equal is not better.
Prunes(p, best, bound) == best # <<>> /\ bound <= Score(p, best)

\* The columns that are left to slot v.
Open(p, given, v) == {c \in p.domain[v] : \A o \in DOMAIN given : <<v, o>> \in p.edges => given[o] # c}

\* What the slots that are left can add at most.
Bound(p, given, rest) ==
    Score(p, given) + Total([v \in rest |-> Max({p.weight[v][c] : c \in Open(p, given, v)})])

Assign(given, v, c) == [u \in DOMAIN given \cup {v} |-> IF u = v THEN c ELSE given[u]]

Partial(component) == UNION {[slots -> 1 .. Unknown] : slots \in SUBSET component}

\* The columns of slot v in order, each with the best that was found before it.
Tried(p, at, v, deeper) ==
    LET tried[c \in 0 .. Unknown] ==
            IF c = 0 THEN at.best
            ELSE IF c \notin Open(p, at.given, v) THEN tried[c - 1]
            ELSE deeper[[given |-> Assign(at.given, v, c), best |-> tried[c - 1]]]
    IN tried[Unknown]

\* Search::visit where "left" slots are not assigned, by the visits with one less.
Visited(p, component, left, deeper) ==
    [at \in [given : Partial(component), best : Partial(component)] |->
        LET rest == component \ DOMAIN at.given
        IN IF \E v \in rest : Open(p, at.given, v) = {} THEN at.best
           ELSE IF Prunes(p, at.best, Bound(p, at.given, rest)) THEN at.best
           ELSE IF rest = {} \/ left = 0 THEN at.given ELSE Tried(p, at, Min(rest), deeper)]

\* The slots in order, from none assigned.
Visit(p, component) ==
    LET visit[left \in 0 .. Cardinality(component)] == Visited(p, component, left, visit[left - 1])
    IN visit[Cardinality(component)][[given |-> <<>>, best |-> <<>>]]

\* The slots that a chain of conflicts links to v.
Component(p, v) ==
    {u \in p.slots : \A slots \in SUBSET p.slots :
        v \in slots /\ (\A e \in p.edges : e[1] \in slots => e[2] \in slots) => u \in slots}

\* Every connected component of the conflicts is searched by itself.
Solve(p) ==
    LET best == [v \in p.slots |-> Visit(p, Component(p, v))]
    IN [ok |-> \A v \in p.slots : best[v] # <<>>,
        columns |-> [v \in p.slots |-> IF best[v] = <<>> THEN Unknown ELSE best[v][v]]]

-----------------------------------------------------------------------------
(* The transcript.                                                          *)

Overlapping(segments) ==
    \E i, j \in DOMAIN segments :
        i < j /\ segments[i].who = segments[j].who /\ segments[j].start < segments[i].end

TimingIsValid(segments) ==
    \A i \in DOMAIN segments :
        LET s == segments[i] IN
        /\ s.start < s.end /\ s.end <= Ends(plan.windows[s.window])
        /\ i > 1 => segments[i - 1].start <= s.start

Timeline == Max({plan.duration, Milliseconds(plan.frames)})

\* A composed plan of one window keeps the model's own slots.
NativeSlots == plan.mapping = "composed" /\ Len(plan.windows) = 1

Done(segments) ==
    /\ stage' = "done" /\ transcript' = segments
    /\ UNCHANGED <<failure, plan, answer, replies, anchors>>

Reconcile(segments) ==
    LET solution == [w \in DOMAIN plan.windows |-> Solve(Problem(segments, w))]
        assigned == [i \in DOMAIN segments |->
                        LET s == segments[i] IN
                        [s EXCEPT !.who = IF @ = Nobody THEN Unknown ELSE solution[s.window].columns[@]]]
    IN IF Last(segments).end > Timeline THEN Fail("invalid_mapping_timing")
       ELSE IF Overlapping(segments) THEN Fail("same_speaker_overlap")
       ELSE IF \E w \in DOMAIN plan.windows : ~solution[w].ok THEN Fail("assignment_infeasible")
       ELSE IF Overlapping(assigned) THEN Fail("mapping_invariant_failed")
       ELSE Done(assigned)

Finalize ==
    /\ stage = "collected"
    /\ IF ~TimingIsValid(Assembled) THEN Fail("local_moss_assembled_timing_invalid")
       ELSE IF NativeSlots THEN Done(Assembled) ELSE Reconcile(Assembled)

Cancelled == stage \in {"planning", "collected"} /\ Fail("cancelled")

MossNext == PlanWindow \/ Prepare \/ Decode \/ Collect \/ Finalize \/ Cancelled

MossSpec == MossInit /\ [][MossNext]_mossVars

-----------------------------------------------------------------------------
(* Properties.                                                              *)

\* Wherever the quiet spans are, the planner's cuts make a plan that is accepted:
\* a recording is not refused for how it sounds.
PlanIsAccepted ==
    failure \notin {"window_limit", "window_invalid", "local_moss_window_invalid"}

\* Every turn of an answer is in one segment, in an order that keeps each
\* speaker's own, and a segment lasts exactly while one of its turns does.
SpansItsTurns(s, group) ==
    LET turns == {answer[i] : i \in ToSet(group)} IN
    /\ s.start = Min({t.start : t \in turns})
    /\ \A at \in s.start .. s.end - 1 : \E t \in turns : at \in t.start .. t.end - 1
    /\ s.who # Nobody => \A t \in turns : t.who = s.who
    /\ s.end = Max({t.end : t \in turns}) \/ Max({t.end : t \in turns}) > s.end

TurnsAreConserved ==
    /\ failure # "local_moss_source_text_changed"
    /\ answer # <<>> =>
        LET reply == Last(replies) order == FlattenSeq(reply.groups) IN
        /\ Len(order) = Len(answer) /\ ToSet(order) = DOMAIN answer
        /\ \A i, j \in DOMAIN order :
              i < j /\ answer[order[i]].who = answer[order[j]].who => order[i] < order[j]
        /\ \A k \in DOMAIN reply.out : SpansItsTurns(reply.out[k], reply.groups[k])

\* Accepted answers never contradict each other later: no speaker, and not the
\* unknown one, has two segments at one time, in the result or on the way to it.
SpeakersNeverOverlap ==
    /\ ~Overlapping(transcript)
    /\ failure \notin {"local_moss_assembled_timing_invalid", "invalid_mapping_timing",
                       "same_speaker_overlap", "mapping_invariant_failed"}

Lexically(f, g) == \E v \in DOMAIN f : f[v] < g[v] /\ \A u \in DOMAIN f : u < v => f[u] = g[u]

\* Assignments under which no speaker overlaps himself and each is supported.
Assignments(p, segments, w) ==
    LET column(f, i) == IF segments[i].who = Nobody THEN Unknown ELSE f[segments[i].who]
        mine == {i \in DOMAIN segments : segments[i].window = w}
    IN {f \in [p.slots -> Kit \cup {Unknown}] :
           /\ \A v \in p.slots : f[v] # Unknown => p.weight[v][f[v]] > 0
           /\ \A i, j \in mine :
                 i < j /\ column(f, i) = column(f, j) => segments[i].end <= segments[j].start}

IsFirstBest(f, all, p) ==
    \A g \in all : Score(p, g) < Score(p, f) \/ (Score(p, g) = Score(p, f) /\ ~Lexically(g, f))

\* The search finds the first of the best assignments of all, and fails only
\* where there is none, though it prunes and takes the conflicts one by one.
MappingIsBest ==
    LET segments == Assembled
        all == [w \in DOMAIN plan.windows |-> Assignments(Problem(segments, w), segments, w)]
    IN /\ stage = "done" /\ ~NativeSlots =>
            \A w \in DOMAIN plan.windows : \E f \in all[w] :
                /\ \A i \in DOMAIN segments :
                      segments[i].window = w /\ segments[i].who # Nobody => transcript[i].who = f[segments[i].who]
                /\ IsFirstBest(f, all[w], Problem(segments, w))
       /\ failure = "assignment_infeasible" => \E w \in DOMAIN plan.windows : all[w] = {}
=============================================================================
