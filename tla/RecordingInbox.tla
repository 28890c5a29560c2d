--------------------------- MODULE RecordingInbox ---------------------------
(* The inbox: one package directory per recording, with an envelope           *)
(* (recording.json), an event journal and the audio.  Files are imported,     *)
(* captures finalized, imports reviewed, packages adopted by the processing   *)
(* engine at launch or on request, discarded and their source tracks pruned.  *)
(*                                                                            *)
(* Every operation of the inbox holds its write lock, so it is one action;    *)
(* what a killed process or a failed write leaves of it is another (the       *)
(* ...Partly actions).  An actor may stop between any two operations.         *)
EXTENDS Naturals, Sequences, SequencesExt, FiniteSets

CONSTANTS
    Recordings,   \* the package ids
    Contents,     \* what audio files may hold, one per SHA-256
    Captures,     \* the contents that are recorded here
    None,
    MaxReviews,   \* bound on confirmations
    MaxMishaps    \* bound on operations cut short and audio files lost

Envelopes == [kind : {"import", "capture"}, content : Contents,
              state : {"Importing", "Finalizing", "Ready"}, review : Nat]

ASSUME InboxAssumption ==
    /\ Captures \subseteq Contents
    /\ None \notin Recordings \cup Contents \cup Envelopes
    /\ {MaxReviews, MaxMishaps} \subseteq Nat

VARIABLES
    package,      \* the directories of the inbox
    used,         \* ids that were ever given to a recording
    importer,     \* DesktopImporter, behind its mutex
    reviewer,     \* a confirmed review whose event is not written yet
    capture,      \* the phase of each recording's capture
    adopting,     \* what a launch listed and has not enqueued yet
    ledger,       \* the processing ledger, as far as the inbox is concerned
    damaged,      \* packages whose audio was lost
    reviews, mishaps

vars == <<package, used, importer, reviewer, capture, adopting, ledger, damaged,
          reviews, mishaps>>

bounds == <<reviews, mishaps>>

NoPackage == [dir |-> FALSE, envelope |-> None, temporary |-> None, audio |-> None,
              tracks |-> FALSE, journal |-> <<>>]

Idle == [pc |-> "idle", recording |-> None, content |-> None, envelope |-> None]

Init ==
    /\ package = [r \in Recordings |-> NoPackage]
    /\ used = {}
    /\ importer = Idle
    /\ reviewer = None
    /\ capture = [r \in Recordings |-> [phase |-> "none", content |-> None]]
    /\ adopting = {}
    /\ ledger = [r \in Recordings |-> "none"]
    /\ damaged = {}
    /\ reviews = 0 /\ mishaps = 0

-----------------------------------------------------------------------------
(* Reading a package.                                                       *)

Envelope(kind, content, state) ==
    [kind |-> kind, content |-> content, state |-> state, review |-> 0]

\* load_envelope: a missing recording.json is recovered from a whole temporary.
Loaded(p) == IF p.envelope # None THEN p.envelope ELSE p.temporary

Loads(r) == package[r].dir /\ Loaded(package[r]) # None

\* load_envelope_locked leaves the recovered file in place.
Recovered(p) == [p EXCEPT !.envelope = Loaded(p),
                          !.temporary = IF p.envelope = None THEN None ELSE @]

\* list_ready_for_processing and find_envelope_by_sha256 load every package
\* and fail with the first that does not load.
Listable == \A r \in Recordings : package[r].dir => Loads(r)

AllRecovered == [r \in Recordings |-> IF package[r].dir THEN Recovered(package[r]) ELSE NoPackage]

\* A mutant: only finished imports are looked at.
Matching_ReadyOnly(content) ==
    {r \in Recordings : Loads(r) /\ Loaded(package[r]).content = content
                                 /\ Loaded(package[r]).state = "Ready"}

\* normalized_sha256: the envelope of an import names its hash from the start.
Matching(content) == {r \in Recordings : Loads(r) /\ Loaded(package[r]).content = content}

\* hash_package_file
AudioIs(r, content) == package[r].dir /\ package[r].audio = content

ReadyToProcess(e) == e.state = "Ready" /\ (e.kind = "import" => e.review > 0)

-----------------------------------------------------------------------------
(* Writing a package.                                                       *)

\* persist_envelope: the directory, a synced temporary, a rename over the file.
Persisted(p, e) == [p EXCEPT !.dir = TRUE, !.envelope = e]

\* What is left of it when it is cut short.
PersistPartly(p, e) ==
    {[p EXCEPT !.dir = TRUE], [p EXCEPT !.dir = TRUE, !.temporary = e]}

\* A mutant: whatever has no newline is cut.
RecoverTail_CutWhole(journal) ==
    IF journal = <<>> \/ Last(journal).end = "line" THEN journal ELSE Front(journal)

\* recover_event_tail: a whole last event gets its newline, a torn one is cut.
RecoverTail(journal) ==
    IF journal = <<>> \/ Last(journal).end = "line" THEN journal
    ELSE IF Last(journal).end = "whole"
         THEN [journal EXCEPT ![Len(journal)].end = "line"]
         ELSE Front(journal)

Parses(journal) == \A i \in 1..Len(journal) : journal[i].end # "line" => i = Len(journal)

Appended(p, kind, end) ==
    [Recovered(p) EXCEPT !.journal = Append(RecoverTail(@), [kind |-> kind, end |-> end])]

CanAppend(r) == Loads(r) /\ Parses(package[r].journal)

AppendPartly(p, kind) ==
    {Appended(p, kind, "torn"), Appended(p, kind, "whole"),
     [Recovered(p) EXCEPT !.journal = RecoverTail(@)]}

\* copy_open_file_into_package recreates the directory it copies into.
Copied(p, content) == [p EXCEPT !.dir = TRUE, !.audio = content]

Set(r, p) == package' = [package EXCEPT ![r] = p]

Mishap == mishaps < MaxMishaps /\ mishaps' = mishaps + 1

-----------------------------------------------------------------------------
(* DesktopImporter::import_one                                              *)

Goto(pc) == importer' = [importer EXCEPT !.pc = pc]

\* transition: the next state of the envelope that the import loaded.
Transition ==
    \/ /\ importer.envelope.state = "Importing"
       /\ importer' = [importer EXCEPT !.pc = "persist", !.envelope.state = "Finalizing"]
    \/ /\ importer.envelope.state = "Finalizing"
       /\ importer' = [importer EXCEPT !.pc = "persist", !.envelope.state = "Ready"]
    \/ /\ importer.envelope.state = "Ready"
       /\ importer' = Idle

\* export_recording_original: a verified copy outside the inbox.
Exportable(r, content) == Loads(r) /\ Loaded(package[r]).content = content /\ AudioIs(r, content)

\* SourceFile::open: a file that is there, stays as it is and decodes.
Importable(content) == content \in Captures => \E r \in Recordings : Exportable(r, content)

\* The hash is looked up among all packages.
Find(content) ==
    /\ importer = Idle /\ Importable(content) /\ Listable
    /\ package' = AllRecovered
    /\ \/ /\ Matching(content) # {}
          /\ \E r \in Matching(content) :
               importer' = [pc |-> "verify", recording |-> r, content |-> content,
                            envelope |-> Loaded(package[r])]
          /\ UNCHANGED used
       \/ /\ Matching(content) = {}
          /\ \E r \in Recordings \ used :
               /\ importer' = [pc |-> "persist", recording |-> r, content |-> content,
                               envelope |-> Envelope("import", content, "Importing")]
               /\ used' = used \cup {r}
    /\ UNCHANGED <<reviewer, capture, adopting, ledger, damaged, bounds>>

\* A mutant: an unfinished import is finished without looking at its bytes.
Verify_Trusting ==
    /\ importer.pc = "verify"
    /\ Transition
    /\ UNCHANGED <<package, used, reviewer, capture, adopting, ledger, damaged, bounds>>

\* A duplicate's bytes are hashed; missing ones are copied again, but never
\* into a capture.  Then the transitions it still lacks.
Verify ==
    /\ importer.pc = "verify"
    /\ IF AudioIs(importer.recording, importer.content) THEN Transition
       ELSE IF importer.envelope.kind = "import" THEN Goto("copy")
       ELSE importer' = Idle
    /\ UNCHANGED <<package, used, reviewer, capture, adopting, ledger, damaged, bounds>>

\* persist_envelope of the importing envelope, or of a transition.
Persist ==
    /\ importer.pc = "persist"
    /\ Set(importer.recording, Persisted(package[importer.recording], importer.envelope))
    /\ Goto(IF importer.envelope.state = "Importing" THEN "started" ELSE "changed")
    /\ UNCHANGED <<used, reviewer, capture, adopting, ledger, damaged, bounds>>

\* The event each persisted step is followed by, and what comes next.
Event == CASE importer.pc = "started" -> "import_started"
           [] importer.pc = "copied" -> "import_copied"
           [] importer.pc = "changed" -> importer.envelope.state

Record ==
    /\ importer.pc \in {"started", "copied", "changed"}
    /\ CanAppend(importer.recording)
    /\ Set(importer.recording, Appended(package[importer.recording], Event, "line"))
    /\ IF importer.pc = "started" THEN Goto("copynew") ELSE Transition
    /\ UNCHANGED <<used, reviewer, capture, adopting, ledger, damaged, bounds>>

\* copy_and_verify, of a source that still has the hash it had.
Copy ==
    /\ importer.pc \in {"copy", "copynew"}
    /\ Set(importer.recording, Copied(package[importer.recording], importer.content))
    /\ damaged' = damaged \ {importer.recording}
    /\ IF importer.pc = "copynew" THEN Goto("copied") ELSE Transition
    /\ UNCHANGED <<used, reviewer, capture, adopting, ledger, bounds>>

\* The source changed, an operation failed, or the process ended.
ImportStops ==
    /\ importer # Idle
    /\ importer' = Idle
    /\ UNCHANGED <<package, used, reviewer, capture, adopting, ledger, damaged, bounds>>

ImportPartly ==
    /\ Mishap
    /\ LET r == importer.recording
           p == package[r]
       IN  \/ /\ importer.pc = "persist"
              /\ \E q \in PersistPartly(p, importer.envelope) : Set(r, q)
           \/ /\ importer.pc \in {"started", "copied", "changed"} /\ CanAppend(r)
              /\ \E q \in AppendPartly(p, Event) : Set(r, q)
           \/ /\ importer.pc \in {"copy", "copynew"}
              /\ Set(r, [p EXCEPT !.dir = TRUE])
    /\ importer' = Idle
    /\ UNCHANGED <<used, reviewer, capture, adopting, ledger, damaged, reviews>>

-----------------------------------------------------------------------------
(* ImportReviewState::confirm                                               *)

Reviewed(e) == [e EXCEPT !.review = reviews + 1]

\* A mutant: an import may be reviewed before it is ready.
Reviewable_Early(e) == e.kind = "import"

Reviewable(e) == e.kind = "import" /\ e.state = "Ready"

Confirm(r) ==
    /\ reviewer = None /\ reviews < MaxReviews
    /\ Loads(r) /\ Reviewable(Loaded(package[r]))
    /\ Set(r, Persisted(Recovered(package[r]), Reviewed(Loaded(package[r]))))
    /\ reviewer' = r
    /\ reviews' = reviews + 1
    /\ UNCHANGED <<used, importer, capture, adopting, ledger, damaged, mishaps>>

ConfirmPartly(r) ==
    /\ reviewer = None /\ reviews < MaxReviews /\ Mishap
    /\ Loads(r) /\ Reviewable(Loaded(package[r]))
    /\ \E q \in PersistPartly(Recovered(package[r]), Reviewed(Loaded(package[r]))) : Set(r, q)
    /\ reviews' = reviews + 1
    /\ UNCHANGED <<used, importer, reviewer, capture, adopting, ledger, damaged>>

\* The event of the review, which fails once the package is gone.
RecordReview ==
    /\ reviewer # None
    /\ \/ CanAppend(reviewer) /\ Set(reviewer, Appended(package[reviewer], "reviewed", "line"))
       \/ UNCHANGED package
    /\ reviewer' = None
    /\ UNCHANGED <<used, importer, capture, adopting, ledger, damaged, bounds>>

-----------------------------------------------------------------------------
(* A capture writes into its package before it has an envelope.             *)

Captured == {capture[r].content : r \in Recordings} \ {None}

\* CaptureJournal::create.  What is recorded was never in a file before.
BeginCapture(r, content) ==
    /\ r \notin used /\ content \in Captures \ Captured
    /\ used' = used \cup {r}
    /\ Set(r, [NoPackage EXCEPT !.dir = TRUE, !.tracks = TRUE])
    /\ capture' = [capture EXCEPT ![r] = [phase |-> "recording", content |-> content]]
    /\ UNCHANGED <<importer, reviewer, adopting, ledger, damaged, bounds>>

Normalized(r) == [package[r] EXCEPT !.audio = capture[r].content]

\* finalize, after a stop or for a capture recovered at launch.
Finalize(r) ==
    /\ capture[r].phase = "recording" /\ package[r].dir /\ package[r].tracks
    /\ Set(r, Persisted(Normalized(r), Envelope("capture", capture[r].content, "Ready")))
    /\ damaged' = damaged \ {r}
    /\ capture' = [capture EXCEPT ![r].phase = "persisted"]
    /\ UNCHANGED <<used, importer, reviewer, adopting, ledger, bounds>>

FinalizePartly(r) ==
    /\ Mishap
    /\ capture[r].phase = "recording" /\ package[r].dir /\ package[r].tracks
    /\ \E q \in PersistPartly(Normalized(r), Envelope("capture", capture[r].content, "Ready")) :
          Set(r, q)
    /\ UNCHANGED <<used, importer, reviewer, capture, adopting, ledger, damaged, reviews>>

\* The event and the last snapshot; without them a further stop in the same
\* process finalizes the capture again.
RecordFinalized(r) ==
    /\ capture[r].phase = "persisted"
    /\ \/ /\ CanAppend(r)
          /\ Set(r, Appended(package[r], "capture_finalized", "line"))
          /\ capture' = [capture EXCEPT ![r].phase = "stopped"]
       \/ /\ UNCHANGED package
          /\ capture' = [capture EXCEPT ![r].phase = "recording"]
    /\ UNCHANGED <<used, importer, reviewer, adopting, ledger, damaged, bounds>>

-----------------------------------------------------------------------------
(* The processing engine's use of the inbox.                                *)

\* ProcessingEngine::enqueue verifies the audio; a recording keeps its ledger.
Enqueueable(r) ==
    Loads(r) /\ Loaded(package[r]).state = "Ready" /\ AudioIs(r, Loaded(package[r]).content)

Enqueued(r) == ledger' = [ledger EXCEPT ![r] = IF @ = "none" THEN "queued" ELSE @]

\* resume_pending: a launch lists what is ready ...
ListReady ==
    /\ adopting = {} /\ Listable
    /\ package' = AllRecovered
    /\ adopting' = {r \in Recordings : Loads(r) /\ ReadyToProcess(Loaded(package[r]))}
    /\ UNCHANGED <<used, importer, reviewer, capture, ledger, damaged, bounds>>

\* ... and enqueues it one by one, up to the first failure or the process's end.
Adopt(r) ==
    /\ r \in adopting
    /\ \/ /\ Enqueueable(r) /\ Enqueued(r) /\ adopting' = adopting \ {r}
          /\ Set(r, Recovered(package[r]))
       \/ UNCHANGED <<package, ledger>> /\ adopting' = {}
    /\ UNCHANGED <<used, importer, reviewer, capture, damaged, bounds>>

\* process, asked for one recording; the review is not looked at here.
Process(r) ==
    /\ Enqueueable(r) /\ ledger[r] = "none"
    /\ Set(r, Recovered(package[r]))
    /\ Enqueued(r)
    /\ UNCHANGED <<used, importer, reviewer, capture, adopting, damaged, bounds>>

\* discard_local: the intent, the package, the end.
BeginDiscard(r) ==
    /\ ledger[r] = "queued" /\ Enqueueable(r)
    /\ ledger' = [ledger EXCEPT ![r] = "discarding"]
    /\ UNCHANGED <<package, used, importer, reviewer, capture, adopting, damaged, bounds>>

RemovePackage(r) ==
    /\ ledger[r] = "discarding"
    /\ Set(r, NoPackage)
    /\ damaged' = damaged \ {r}
    /\ UNCHANGED <<used, importer, reviewer, capture, adopting, ledger, bounds>>

\* remove_tree_without_following_links, cut short.
RemovePartly(r) ==
    /\ ledger[r] = "discarding" /\ package[r].dir /\ Mishap
    /\ \E envelope, audio, temporary \in BOOLEAN :
          Set(r, [package[r] EXCEPT !.envelope = IF envelope THEN @ ELSE None,
                                    !.audio = IF audio THEN @ ELSE None,
                                    !.temporary = IF temporary THEN @ ELSE None])
    /\ damaged' = damaged \cup {r}
    /\ UNCHANGED <<used, importer, reviewer, capture, adopting, ledger, reviews>>

EndDiscard(r) ==
    /\ ledger[r] = "discarding" /\ ~package[r].dir
    /\ ledger' = [ledger EXCEPT ![r] = "discarded"]
    /\ UNCHANGED <<package, used, importer, reviewer, capture, adopting, damaged, bounds>>

\* prune_source_tracks: a capture's tracks, once its normalized audio is verified.
Prune(r) ==
    /\ ledger[r] = "queued" /\ package[r].tracks
    /\ Enqueueable(r)
    /\ Set(r, [Recovered(package[r]) EXCEPT !.tracks = FALSE])
    /\ UNCHANGED <<used, importer, reviewer, capture, adopting, ledger, damaged, bounds>>

\* Somebody deletes or changes an audio file.
Damage(r) ==
    /\ Mishap /\ package[r].audio # None
    /\ Set(r, [package[r] EXCEPT !.audio = None])
    /\ damaged' = damaged \cup {r}
    /\ UNCHANGED <<used, importer, reviewer, capture, adopting, ledger, reviews>>

ImportNext ==
    \/ \E content \in Contents : Find(content)
    \/ Verify \/ Persist \/ Record \/ Copy \/ ImportStops \/ ImportPartly

Next ==
    \/ ImportNext
    \/ RecordReview \/ ListReady
    \/ \E r \in Recordings :
          \/ Confirm(r) \/ ConfirmPartly(r)
          \/ \E content \in Captures : BeginCapture(r, content)
          \/ Finalize(r) \/ FinalizePartly(r) \/ RecordFinalized(r)
          \/ Adopt(r) \/ Process(r) \/ Prune(r) \/ Damage(r)
          \/ BeginDiscard(r) \/ RemovePackage(r) \/ RemovePartly(r) \/ EndDiscard(r)

Spec == Init /\ [][Next]_vars

-----------------------------------------------------------------------------
(* What the inbox promises.                                                 *)

\* A package whose envelope says Ready holds the audio the envelope names,
\* whatever crashed during its import, unless the file was lost afterwards
\* (import_one copies and verifies before the transitions).
ReadyHasAudio ==
    \A r \in Recordings \ damaged :
        package[r].dir /\ package[r].envelope # None /\ package[r].envelope.state = "Ready"
        => AudioIs(r, package[r].envelope.content)

\* One file is in the inbox once, however often it is imported, after
\* whatever stopped an earlier import of it (find_envelope_by_sha256).
NoDuplicateImport ==
    \A r, q \in Recordings :
        package[r].envelope # None /\ package[q].envelope # None
        /\ package[r].envelope.content = package[q].envelope.content => r = q

\* A user's review stays until the package is discarded: an import that is
\* resumed from an envelope it loaded earlier does not write over it.
ReviewIsKept ==
    [][\A r \in Recordings :
          /\ ledger[r] \in {"none", "queued"}
          /\ package[r].envelope # None /\ package'[r].envelope # None
          => package'[r].envelope.review >= package[r].envelope.review]_vars

\* An event whose bytes were all written stays where it is in the journal: a
\* repair of the tail drops nothing but a torn event (recover_event_tail).
EventsAreKept ==
    [][\A r \in Recordings :
          package'[r].dir =>
          \A i \in DOMAIN package[r].journal :
              package[r].journal[i].end # "torn" =>
              /\ i \in DOMAIN package'[r].journal
              /\ package'[r].journal[i].kind = package[r].journal[i].kind]_vars

\* "captures are automatically adopted on launch" (inbox.rs:384-386): a launch
\* can list the inbox whenever it holds a capture that is ready.
AdoptionIsPossible ==
    (\E r \in Recordings : Loads(r) /\ ReadyToProcess(Loaded(package[r]))) => Listable
=============================================================================
