-------------------------------- MODULE MCText --------------------------------
(* Small recordings, transcripts and summaries for SpeechText.  Whoever extends *)
(* this module has them beside other names: MCLedger checks the texts together  *)
(* with the ledger they are put in, WorkersProofs proves what is said of them.  *)
EXTENDS Integers, Sequences

CONSTANTS
    Unmade, \* nothing was made yet
    TargetRate, Second, Tolerance, Silence, MinChunk, MaxChunk, MaxRanges, Search, Window, Frame,
    MinOverlap, MaxBridge, ChunkBytes, MaxRounds, Audios, Spoken, Declared, QwenSpans, MaxWords, SpeechTracks,
    Transcripts, Documents

VARIABLES given, made

textVars == <<given, made>>

Text == INSTANCE SpeechText WITH
    None <- Unmade, input <- given, output <- made, Spans <- QwenSpans, Tracks <- SpeechTracks

ASSUME TextAssumption == Text!WellFormed

-----------------------------------------------------------------------------
(* What they are given.                                                     *)

AudioOf(f, r, d) == [frames |-> f, rate |-> r, declared |-> d]

SmallAudios ==
    {AudioOf(8, 4, 4), AudioOf(4, 2, 4), AudioOf(10, 6, 3), AudioOf(8, 4, 2), AudioOf(2, 4, 1), AudioOf(1, 4, 1),
     AudioOf(12, 4, 6), AudioOf(12, 4, 3), AudioOf(19, 4, 9)}

SpokenAt(s, e) == [start |-> s, end |-> e, said |-> TRUE]

SmallSpoken ==
    {SpokenAt(s, e) : s \in {0, 1, 3}, e \in {0, 1, 3, 5}} \cup {SpokenAt(5, 5), SpokenAt(3, 7)}
    \cup {[start |-> 1, end |-> 3, said |-> FALSE]}

HeardAt(s, e, w, c) == [start |-> s, end |-> e, who |-> w, sure |-> c]

SmallSpeechTracks ==
    {<<>>,
     <<HeardAt(0, 2, 1, TRUE), HeardAt(2, 4, 2, TRUE)>>,
     <<HeardAt(0, 1, 1, TRUE), HeardAt(1, 2, 2, FALSE), HeardAt(2, 3, 1, TRUE)>>,
     <<HeardAt(0, 1, 1, TRUE), HeardAt(1, 2, 2, TRUE), HeardAt(2, 3, 3, TRUE), HeardAt(3, 4, 1, TRUE)>>,
     <<HeardAt(0, 1, 2, TRUE), HeardAt(1, 4, 1, FALSE), HeardAt(4, 5, 2, TRUE)>>}

LineOf(s, w) == [size |-> s, width |-> w]

SmallLines == {LineOf(1, 1), LineOf(3, 1), LineOf(4, 2), LineOf(9, 1), LineOf(10, 5), LineOf(6, 2), LineOf(6, 3)}

SmallTranscripts == UNION {[1 .. n -> SmallLines] : n \in 1 .. 3}

SmallSpans == <<<<0, 3>>, <<3, 5>>>>

-----------------------------------------------------------------------------
(* The properties of SpeechText, by the names that the runs use.            *)

ChunksCoverAudio == Text!ChunksCoverAudio

TranscriptIsWhole == Text!TranscriptIsWhole

SummaryCoversTranscript == Text!SummaryCoversTranscript
=============================================================================
