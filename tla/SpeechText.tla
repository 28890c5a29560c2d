------------------------------ MODULE SpeechText ------------------------------
(* What the speech and summary workers compute, and what the app makes of it:  *)
(* the ranges of a recording that are recognized one by one (qwen-worker), the *)
(* adaptation of recognized segments (whisper-worker), the speakers of words   *)
(* and segments (local-whisper-protocol, direct.rs) and the reduction of a     *)
(* long transcript to one summary (summary-worker).                            *)
(*                                                                             *)
(* A text is the sequence of the places it was recognized at; a speaker is a   *)
(* number, 0 for nobody.                                                       *)
EXTENDS Integers, Sequences, FiniteSets, FiniteSetsExt, SequencesExt

CONSTANTS
    None,
    TargetRate, Second, Tolerance,                  \* samples and ticks per second
    Frame, MinChunk, MaxChunk, Search, Window,      \* in samples; 2 * MinChunk <= MaxChunk
    Silence,                                        \* in frames
    MaxRanges,                                      \* of a recording
    MinOverlap, MaxBridge,                          \* in ticks
    ChunkBytes, MaxRounds,
    Audios,      \* [frames, rate, declared]: a file and the duration it is declared with
    Spoken,      \* [start, end, said]: the segments whisper may emit
    Declared,    \* the duration of the recording that is transcribed
    Spans,       \* the ranges that Qwen recognized in it
    MaxWords,    \* bound: words of a transcript; in one so long, all are lexical
    Tracks,      \* the diarizations a worker may answer; <<>> if the user does without
    Transcripts, \* sequences of [size, width]: lines, and the bytes of their characters
    Documents    \* the sizes of a partial summary

VARIABLES input, output

vars == <<input, output>>

Init ==
    /\ output = None
    /\ \/ \E audio \in Audios : input = [work |-> "ranges", audio |-> audio]
       \/ \E work \in {"whisper", "qwen"}, track \in Tracks : input = [work |-> work, track |-> track]
       \/ \E size \in Documents : input = [work |-> "summary", size |-> size]

\* What is given is kept beside what is made of it.
Yields(given, result) == input' = given /\ output' = result

Failed(code) == [result |-> code]

-----------------------------------------------------------------------------
(* The ranges of a recording.                                               *)

Least(x, y) == IF x < y THEN x ELSE y
Most(x, y) == IF x < y THEN y ELSE x
Clamp(x, low, high) == Most(low, Least(x, high))

\* LinearResampler: the samples due by a frame, between it and the one before.
Push(r, current, rate) ==
    LET due == {k \in r.samples .. r.samples + TargetRate : k * rate <= current * TargetRate} IN
    [samples |-> r.samples + Cardinality(due),
     ok |-> r.ok /\ \A k \in due : (k * rate) \div TargetRate \in {current - 1, current}]

Resampled(frames, rate) ==
    LET pushed[n \in 0 .. frames] ==
            IF n = 0 THEN [samples |-> 0, ok |-> TRUE] ELSE Push(pushed[n - 1], n - 1, rate)
    IN pushed[frames]

Decoded(audio) ==
    LET actual == (audio.frames * Second) \div audio.rate
        decoded == Resampled(audio.frames, audio.rate)
        most == ((audio.declared + Tolerance) * TargetRate) \div Second
    IN IF ~decoded.ok THEN Failed("decode_failed")
       ELSE IF actual = 0 \/ actual - audio.declared > Tolerance \/ audio.declared - actual > Tolerance
       THEN Failed("duration_mismatch")
       ELSE IF decoded.samples > most THEN Failed("decode_limit")
       ELSE [result |-> "ok", samples |-> decoded.samples]

\* The middle of a run of frames, the last of which may be cut short.
Middle(run, total) == run[1] * Frame + (Least(run[2] * Frame, total) - run[1] * Frame) \div 2

PushBoundary_Late(boundaries, run, total) ==
    LET at == Middle(run, total) IN
    IF run[2] - run[1] >= Silence /\ at - Last(boundaries) >= MinChunk THEN Append(boundaries, at) ELSE boundaries

\* A long silence is cut in its middle, unless that leaves a piece too short.
PushBoundary(boundaries, run, total) ==
    LET at == Middle(run, total) IN
    IF run[2] - run[1] >= Silence /\ at - Last(boundaries) >= MinChunk /\ total - at >= MinChunk
    THEN Append(boundaries, at) ELSE boundaries

SilentFrom(level, i) == Min({a \in 0 .. i - 1 : \A j \in a .. i - 1 : level[j] = 0})

\* level: the loudness of every frame, 0 for silence, which may end before i.
Scan(boundaries, level, i, total) ==
    IF level[i] > 0 /\ level[i - 1] = 0
    THEN PushBoundary(boundaries, <<SilentFrom(level, i), i>>, total) ELSE boundaries

Frames(total) == (total + Frame - 1) \div Frame

\* A last silence ends nowhere.
Boundaries(level, total) ==
    LET scanned[i \in 0 .. Frames(total) - 1] ==
            IF i = 0 THEN <<0>> ELSE Scan(scanned[i - 1], level, i, total)
    IN Append(scanned[Frames(total) - 1], total)

\* The samples of a frame are all loud or all silent: the more of them are loud in
\* a window, the more energy it has.
Loud(level, p) == Cardinality({i \in p .. p + Window - 1 : level[i \div Frame] > 0})

QuietSplitPoint(level, start, end) ==
    LET target == start + MaxChunk
        minimum == start + MinChunk
        maximum == end - MinChunk
        upper == Least(target, maximum)
        lower == Most(upper - Search, minimum)
        tried == {p \in lower .. upper - Window : (p - lower) % Frame = 0}
        quietest == {p \in tried : \A q \in tried : Loud(level, p) <= Loud(level, q)}
    IN IF lower >= upper \/ upper - lower < Window THEN Clamp(target, minimum, maximum)
       ELSE Clamp(Min(quietest) + Window \div 2, minimum, maximum)

\* One more range, where what is left is too long for one and can be split.
Split(c, level, end) ==
    LET at == QuietSplitPoint(level, c.start, end) IN
    IF end - c.start <= MaxChunk \/ at <= c.start \/ at >= end THEN c
    ELSE [start |-> at, ranges |-> Append(c.ranges, <<c.start, at>>)]

Cut(level, start, end) ==
    LET cut[n \in 0 .. end - start] ==
            IF n = 0 THEN [start |-> start, ranges |-> <<>>] ELSE Split(cut[n - 1], level, end)
        last == cut[end - start]
    IN IF end - last.start <= MaxChunk THEN Append(last.ranges, <<last.start, end>>) ELSE <<>>

Ranges(level, total) ==
    LET bs == Boundaries(level, total) IN
    FlattenSeq([i \in 1 .. Len(bs) - 1 |-> Cut(level, bs[i], bs[i + 1])])

Ticks(samples) == (samples * Second) \div TargetRate

\* What is recognized in a range, never beyond it; the grid of the aligner rounds up.
Recognized(range, declared, rounding) ==
    LET end == Least(Ticks(range[2]), declared) start == Ticks(range[1]) IN
    [start |-> Least(start, end), end |-> Least(start + Ticks(range[2] - range[1]) + rounding, end)]

\* validate_against: in order, inside the recording, none empty.
IsValid(segments, declared) ==
    /\ segments # <<>>
    /\ \A i \in DOMAIN segments :
          /\ segments[i].start < segments[i].end /\ segments[i].end <= declared
          /\ i > 1 => segments[i].start >= segments[i - 1].end

Recognize(audio, samples, level, rounding) ==
    LET ranges == Ranges(level, samples)
        segments == [i \in DOMAIN ranges |-> Recognized(ranges[i], audio.declared, rounding)]
    IN IF ranges = <<>> \/ Len(ranges) > MaxRanges \/ ranges[1][1] # 0 \/ Last(ranges)[2] # samples
            \/ \E i \in 2 .. Len(ranges) : ranges[i][1] # ranges[i - 1][2]
       THEN Failed("inference_limit")
       ELSE IF ~IsValid(segments, audio.declared) THEN Failed("invalid_response")
       ELSE [result |-> "ok", ranges |-> ranges]

RecognizeRanges ==
    /\ output = None /\ input.work = "ranges"
    /\ LET decoded == Decoded(input.audio) IN
       IF decoded.result # "ok" THEN Yields(input, decoded)
       ELSE \E level \in [0 .. Frames(decoded.samples) - 1 -> 0 .. 1], rounding \in 0 .. 1 :
            Yields(input, Recognize(input.audio, decoded.samples, level, rounding))

-----------------------------------------------------------------------------
(* The segments of whisper.                                                 *)

Overlap(a, b) == Most(0, Least(a.end, b.end) - Most(a.start, b.start))

\* The confident intervals of a diarization; they do not overlap each other.
Sure(track) == {k \in DOMAIN track : track[k].sure}

\* How long each speaker is confidently heard during a span.
Heard(span, track) ==
    [who \in {interval.who : interval \in ToSet(track)} |->
        MapThenSumSet(LAMBDA k : Overlap(span, track[k]), {k \in Sure(track) : track[k].who = who})]

\* The one who is heard longest, if there is one.
Longest(heard) ==
    {who \in DOMAIN heard : heard[who] > 0 /\ \A other \in DOMAIN heard \ {who} : heard[who] > heard[other]}

TheOne(speakers) == IF speakers = {} THEN 0 ELSE CHOOSE who \in speakers : TRUE

WithoutDuration_Dropped(a, i, s, end) ==
    IF a.out = <<>> THEN [a EXCEPT !.lead = Append(@, i)] ELSE a

\* Text without a duration goes to the segment before, or waits for the first.
WithoutDuration(a, i, s, end) ==
    IF a.out = <<>> THEN [a EXCEPT !.lead = Append(@, i)]
    ELSE [a EXCEPT !.out[Len(a.out)].of = Append(@, i)]

WithDuration(a, i, s, end) ==
    [a EXCEPT !.out = Append(@, [start |-> s.start, end |-> end, of |-> Append(a.lead, i), who |-> 0]),
              !.lead = <<>>]

Take(a, i, s) ==
    LET end == Least(s.end, Declared) IN
    IF a.result # "ok" \/ ~s.said \/ s.start >= Declared THEN a
    ELSE IF s.start = end THEN WithoutDuration(a, i, s, end)
    ELSE IF s.start > end THEN [a EXCEPT !.result = "segment_timestamp_reversed"]
    ELSE IF a.out # <<>> /\ s.start < Last(a.out).end THEN [a EXCEPT !.result = "segment_overlap"]
    ELSE WithDuration(a, i, s, end)

Adapted(raw) ==
    LET taken[n \in 0 .. Len(raw)] ==
            IF n = 0 THEN [result |-> "ok", out |-> <<>>, lead |-> <<>>] ELSE Take(taken[n - 1], n, raw[n])
        adapted == taken[Len(raw)]
    IN IF adapted.result = "ok" /\ ~IsValid(adapted.out, Declared) THEN Failed("invalid_response") ELSE adapted

\* merge_diarization: a segment's speaker is heard during three tenths of it.
MergeDiarization(segments, track) ==
    [i \in DOMAIN segments |->
        LET s == segments[i] heard == Heard(s, track)
        IN [s EXCEPT !.who = TheOne({w \in Longest(heard) :
                heard[w] >= MinOverlap /\ heard[w] * 10 >= (s.end - s.start) * 3})]]

\* transcribe_local: nineteen of twenty segments are assigned, or none need to be.
Whisper ==
    /\ output = None /\ input.work = "whisper"
    /\ \E n \in 0 .. 3 : \E raw \in [1 .. n -> Spoken] :
          LET adapted == Adapted(raw)
              merged == MergeDiarization(adapted.out, input.track)
              assigned == Cardinality({i \in DOMAIN merged : merged[i].who # 0})
          IN Yields([work |-> "whisper", track |-> input.track, raw |-> raw],
                 IF adapted.result # "ok" THEN Failed(adapted.result)
                 ELSE IF input.track # <<>> /\ (~IsValid(merged, Declared) \/ assigned * 100 < Len(merged) * 95)
                 THEN Failed("verification")
                 ELSE [result |-> "ok", segments |-> merged])

-----------------------------------------------------------------------------
(* The words of Qwen.                                                       *)

\* The places where a test holds, in order.
Where(test) ==
    LET found[n \in 0 .. Len(test)] ==
            IF n = 0 THEN <<>> ELSE IF test[n] THEN Append(found[n - 1], n) ELSE found[n - 1]
    IN found[Len(test)]

Lexical(words) == Where([i \in DOMAIN words |-> words[i].lexical])

Instant(word) == word.end <= word.start

\* The longest run of positions around p that satisfy a test.
Around(p, test) ==
    LET part(a, b) == \A q \in a .. b : test[q]
    IN <<Min({a \in 1 .. p : part(a, p)}), Max({b \in p .. Len(test) : part(p, b)})>>

\* Instants between two words that last are spread over the time between them.
Spread(words, lexical, p) ==
    LET instants == [q \in DOMAIN lexical |-> Instant(words[lexical[q]])]
        run == Around(p, instants)
        from == words[lexical[run[1] - 1]].end
        span == words[lexical[run[2] + 1]].start - from
        count == run[2] - run[1] + 1
        k == p - run[1]
        word == words[lexical[p]]
    IN IF ~instants[p] \/ run[1] = 1 \/ run[2] = Len(lexical) THEN word
       ELSE IF span <= 0 THEN word
       ELSE [word EXCEPT !.start = from + (span * k) \div count,
                         !.end = from + (span * (k + 1) + count - 1) \div count]

\* The place of a lexical word among those that are.
Place(lexical, i) == CHOOSE p \in DOMAIN lexical : lexical[p] = i

Interpolated(words) ==
    LET lexical == Lexical(words) IN
    [i \in DOMAIN words |->
        IF words[i].lexical THEN Spread(words, lexical, Place(lexical, i)) ELSE words[i]]

\* A word's speaker by itself: who is heard longest, or whom an instant is inside.
Direct(word, track) ==
    LET inside == {k \in Sure(track) : track[k].start < word.start /\ word.start < track[k].end} IN
    IF ~word.lexical THEN word
    ELSE IF ~Instant(word) THEN [word EXCEPT !.who = TheOne(Longest(Heard(word, track)))]
    ELSE IF inside = {} THEN word
    ELSE LET k == CHOOSE k \in inside : TRUE
         IN [word EXCEPT !.who = track[k].who, !.end = Least(word.start + 1, track[k].end)]

Assigned(words, track) ==
    LET assigned[n \in 0 .. Len(words)] ==
            IF n = 0 THEN <<>> ELSE Append(assigned[n - 1], Direct(words[n], track))
    IN assigned[Len(words)]

\* safe_bridge_speaker: the same speaker is heard just before and just after.
Bridge(start, end, track) ==
    LET before == {k \in Sure(track) : track[k].end <= start}
        after == {k \in Sure(track) : track[k].start >= end}
    IN IF before = {} \/ after = {} THEN 0
       ELSE LET b == track[Max(before)] a == track[Min(after)]
            IN IF b.who = a.who /\ a.start - b.end <= MaxBridge THEN b.who ELSE 0

Filled(words, lexical, p, track) ==
    LET open == [q \in DOMAIN lexical |-> words[lexical[q]].who = 0]
        run == Around(p, open)
        gap == {words[lexical[q]] : q \in run[1] .. run[2]}
        word == words[lexical[p]]
    IN IF ~open[p] THEN word
       ELSE [word EXCEPT !.who = Bridge(Min({w.start : w \in gap}), Max({w.end : w \in gap}), track)]

Bridged(words, track) ==
    LET lexical == Lexical(words) IN
    [i \in DOMAIN words |->
        IF words[i].lexical THEN Filled(words, lexical, Place(lexical, i), track) ELSE words[i]]

\* Who said the last word up to a place.
Preceding(words, i) ==
    LET speaker[n \in 0 .. i] ==
            IF n = 0 THEN 0 ELSE IF words[n].lexical THEN words[n].who ELSE speaker[n - 1]
    IN speaker[i]

\* Punctuation is said by whoever said the word before it.
Punctuated(words) == [i \in DOMAIN words |-> [words[i] EXCEPT !.who = Preceding(words, i)]]

MergeAlignedWords(words, track) == Punctuated(Bridged(Assigned(Interpolated(words), track), track))

\* A word prolongs the segment of its speaker, or begins one.
Group(out, i, word) ==
    LET n == Len(out) IN
    IF n > 0 /\ out[n].who = word.who
    THEN [out EXCEPT ![n].end = Most(@, word.end), ![n].of = Append(@, i)]
    ELSE Append(out, [start |-> word.start, end |-> word.end, who |-> word.who, of |-> <<i>>])

Grouped(words, indices) ==
    LET grouped[n \in 0 .. Len(indices)] ==
            IF n = 0 THEN <<>> ELSE Group(grouped[n - 1], indices[n], words[indices[n]])
    IN grouped[Len(indices)]

Unresolved(span, indices) == <<[start |-> span[1], end |-> span[2], who |-> 0, of |-> indices]>>

IsCanonical_Anywhere(segments, span) ==
    \A i \in DOMAIN segments : segments[i].start < segments[i].end

IsCanonical(segments, span) ==
    /\ segments # <<>> /\ segments[1].start >= span[1] /\ Last(segments).end <= span[2]
    /\ \A i \in DOMAIN segments :
          /\ segments[i].start < segments[i].end /\ segments[i].end <= span[2]
          /\ i > 1 => segments[i].start >= segments[i - 1].end

\* A range that cannot be told apart word by word stays whole, and nobody's.
Canonical(words, span, indices, drifts) ==
    LET grouped == Grouped(words, indices) IN
    IF (\E i \in ToSet(indices) : Instant(words[i])) \/ drifts \/ ~IsCanonical(grouped, span)
    THEN Unresolved(span, indices) ELSE grouped

WordsOf(words, c) == Where([i \in DOMAIN words |-> words[i].range = c])

QwenTranscript(words, track, drifting) ==
    LET merged == MergeAlignedWords(words, track)
        segments == FlattenSeq([c \in DOMAIN Spans |->
            IF track = <<>> THEN Unresolved(Spans[c], WordsOf(words, c))
            ELSE Canonical(merged, Spans[c], WordsOf(words, c), c \in drifting)])
    IN IF IsValid(segments, Declared) THEN [result |-> "ok", segments |-> segments, words |-> merged]
       ELSE Failed("verification")

\* The words a valid answer may hold: by range, in the order they start.
Answers ==
    LET times == {t \in (DOMAIN Spans) \X (0 .. Declared) \X (0 .. Declared) :
                      Spans[t[1]][1] <= t[2] /\ t[2] <= t[3] /\ t[3] <= Spans[t[1]][2]}
        words(l) == {[start |-> t[2], end |-> t[3], lexical |-> l, range |-> t[1], who |-> 0] : t \in times}
    IN {answer \in [1 .. MaxWords -> words(TRUE)]
                  \cup UNION {[1 .. n -> words(TRUE) \cup words(FALSE)] : n \in Len(Spans) .. MaxWords - 1} :
           /\ {answer[i].range : i \in DOMAIN answer} = DOMAIN Spans
           /\ \A i \in 2 .. Len(answer) :
                 /\ answer[i - 1].range <= answer[i].range
                 /\ answer[i - 1].range = answer[i].range => answer[i - 1].start <= answer[i].start}

Qwen ==
    /\ output = None /\ input.work = "qwen"
    /\ \E words \in Answers, drifting \in SUBSET {1} :
          Yields([work |-> "qwen", track |-> input.track, words |-> words],
                 QwenTranscript(words, input.track, drifting))

-----------------------------------------------------------------------------
(* The summary of a transcript.                                             *)

\* A line that is longer than a chunk is cut between characters.
Pieces(line, i) ==
    LET step == ChunkBytes - (ChunkBytes % line.width)
        count == (line.size + step - 1) \div step
    IN [k \in 1 .. count |-> [line |-> i, from |-> (k - 1) * step, to |-> Least(k * step, line.size)]]

\* The chunks that are full, the pieces of the one that is not, and its bytes.
Full(out) == [out |-> out, current |-> <<>>, bytes |-> 0]

Closed(a) == IF a.current = <<>> THEN a ELSE Full(Append(a.out, a.current))

Alone(pieces) == [k \in DOMAIN pieces |-> <<pieces[k]>>]

Joined(a, line, i) ==
    [out |-> a.out, bytes |-> a.bytes + line.size,
     current |-> Append(a.current, [line |-> i, from |-> 0, to |-> line.size])]

Added_Forgetting(a, line, i) ==
    IF line.size > ChunkBytes THEN Full(a.out \o Alone(Pieces(line, i)))
    ELSE Joined(IF a.bytes + line.size > ChunkBytes THEN Closed(a) ELSE a, line, i)

Added(a, line, i) ==
    IF line.size > ChunkBytes THEN Full(Closed(a).out \o Alone(Pieces(line, i)))
    ELSE Joined(IF a.bytes + line.size > ChunkBytes THEN Closed(a) ELSE a, line, i)

ChunkText(lines) ==
    LET added[n \in 0 .. Len(lines)] == IF n = 0 THEN Full(<<>>) ELSE Added(added[n - 1], lines[n], n)
    IN Closed(added[Len(lines)]).out

\* A document is of the chunk whose line it is, wherever it is cut itself.
Source(piece, chunks) == IF piece.from = 0 THEN chunks[piece.line] ELSE <<>>

\* One document for each chunk; several are written down as lines, and cut again.
Reduced(chunks, size) ==
    LET partials == ChunkText([k \in DOMAIN chunks |-> [size |-> size, width |-> 1]]) IN
    IF Len(chunks) = 1 THEN chunks
    ELSE [k \in DOMAIN partials |->
             FlattenSeq([p \in DOMAIN partials[k] |-> Source(partials[k][p], chunks)])]

Summarized(chunks, size) ==
    LET reduced[round \in 0 .. MaxRounds - 1] ==
            IF round = 0 THEN chunks ELSE Reduced(reduced[round - 1], size)
        last == reduced[MaxRounds - 1]
    IN IF Len(last) = 1 THEN [result |-> "ok", of |-> last[1]] ELSE Failed("input_too_large")

Summarize ==
    /\ output = None /\ input.work = "summary"
    /\ \E lines \in Transcripts :
          \/ Yields([work |-> "summary", size |-> input.size, lines |-> lines],
                    IF \E i \in DOMAIN lines : lines[i].width > ChunkBytes THEN Failed("invalid_input")
                    ELSE Summarized(ChunkText(lines), input.size))
          \/ Yields(input, Failed("invalid_output"))

\* How many chunks the rounds reduce to one, if each leaves half of them.
Reducible ==
    LET most[n \in 0 .. MaxRounds - 1] == IF n = 0 THEN 1 ELSE 2 * most[n - 1]
    IN most[MaxRounds - 1]

Next == RecognizeRanges \/ Whisper \/ Qwen \/ Summarize

Spec == Init /\ [][Next]_vars

-----------------------------------------------------------------------------
(* What a request may be.                                                   *)

WellFormed ==
    /\ {TargetRate, Second, MinChunk, MaxChunk, MaxRanges, Frame, ChunkBytes, MaxRounds} \subseteq Nat \ {0}
    /\ {Tolerance, Silence, Search, Window, Declared} \subseteq Nat
    /\ 2 * MinChunk <= MaxChunk /\ TargetRate <= MinChunk * Second
    /\ \A audio \in Audios : {audio.frames, audio.rate, audio.declared} \subseteq Nat \ {0}
    /\ Spoken \subseteq [start : Nat, end : Nat, said : BOOLEAN]
    /\ Spans \in Seq(Nat \X Nat) /\ Spans # <<>>
    /\ \A c \in DOMAIN Spans :
          /\ Spans[c][1] < Spans[c][2] /\ Spans[c][2] <= Declared
          /\ c > 1 => Spans[c - 1][2] <= Spans[c][1]
    /\ \A track \in Tracks : track \in Seq([start : Nat, end : Nat, who : Nat, sure : BOOLEAN])
    /\ MaxWords \in Nat
    /\ Documents \subseteq Nat \ {0}
    /\ \A lines \in Transcripts :
          /\ lines \in Seq([size : Nat \ {0}, width : Nat \ {0}]) /\ lines # <<>>
          /\ (\A i \in DOMAIN lines : lines[i].width <= ChunkBytes) => Len(ChunkText(lines)) <= Reducible

-----------------------------------------------------------------------------
(* Properties.                                                              *)

\* However loud a recording is and wherever it is silent, its samples keep its
\* time and every one is in a range that can be recognized; a recording is only
\* refused for its duration if it goes on long after the declared one, and for its
\* pauses if there may be too many.
ChunksCoverAudio ==
    output # None /\ input.work = "ranges" =>
        LET samples == ((input.audio.frames - 1) * TargetRate) \div input.audio.rate + 1 IN
        /\ output.result # "decode_failed"
        /\ output.result = "inference_limit" => samples >= (MaxRanges + 1) * MinChunk
        /\ output.result = "invalid_response" =>
              Ticks(samples) = 0 \/ Ticks(samples - MinChunk) >= input.audio.declared
        /\ output.result = "ok" =>
              /\ Last(output.ranges)[2] = samples
              /\ \A i \in DOMAIN output.ranges :
                    output.ranges[i][2] - output.ranges[i][1] \in Least(MinChunk, samples) .. MaxChunk

\* Every place that was said is in one segment, and they are in order.
Tells(segments, said) ==
    /\ said = UNION {ToSet(segments[i].of) : i \in DOMAIN segments}
    /\ \A i, j \in DOMAIN segments : \A k \in DOMAIN segments[i].of, l \in DOMAIN segments[j].of :
          i < j \/ (i = j /\ k < l) => segments[i].of[k] < segments[j].of[l]

\* A valid answer is never refused, and no part of it is lost, said twice or said
\* out of order: not by the words that have no duration, not by those that are
\* spread, and not by the speakers they are given to.
TranscriptIsWhole ==
    output # None =>
        /\ input.work = "whisper" /\ output.result = "ok" =>
              Tells(output.segments,
                    {i \in DOMAIN input.raw : input.raw[i].said /\ input.raw[i].start < Declared})
        /\ input.work = "qwen" => output.result = "ok" /\ Tells(output.segments, DOMAIN input.words)

\* The pieces are the lines from the first to the last, and none is empty.
Covers(pieces, lines) ==
    /\ pieces # <<>> /\ pieces[1].line = 1 /\ pieces[1].from = 0
    /\ Last(pieces).line = Len(lines) /\ Last(pieces).to = lines[Len(lines)].size
    /\ \A k \in DOMAIN pieces : pieces[k].from < pieces[k].to
    /\ \A k \in 2 .. Len(pieces) :
          LET a == pieces[k - 1] b == pieces[k] IN
          \/ b.line = a.line /\ b.from = a.to
          \/ b.line = a.line + 1 /\ b.from = 0 /\ a.to = lines[a.line].size

\* A summary is of the whole transcript, and of nothing twice; unless a document
\* is larger than half of what a prompt takes, the rounds are enough for it.
SummaryCoversTranscript ==
    output # None /\ input.work = "summary" =>
        /\ output.result = "input_too_large" => 2 * input.size > ChunkBytes
        /\ output.result = "ok" => Covers(output.of, input.lines)

\* local-whisper-protocol/src/lib.rs:408 says that only an uncovered run of words is
\* bridged and every other word remains unresolved. The code violates it: a word
\* during which two others are heard equally long is given to a third one.
NobodyElseIsHeard ==
    output # None /\ input.work = "qwen" =>
        \A i \in DOMAIN output.words :
            LET word == output.words[i] heard == Heard(word, input.track) IN
            word.lexical /\ word.who # 0 => \A other \in DOMAIN heard : heard[other] <= heard[word.who]
=============================================================================
