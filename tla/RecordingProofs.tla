-------------------------- MODULE RecordingProofs ---------------------------
(* Recordings on the desktop.  First the inbox's packages: whatever stops, a  *)
(* file is in it once, what is ready has its audio, and reviews and events    *)
(* stay.  Then the tracks that macOS captures: what a track is missing, and   *)
(* a tap that stalls, have been reported.                                     *)
EXTENDS RecordingInbox, MacTracks, TLAPS


------------------------
(* The inductive invariant, recording by recording. *)

Kinds == {"import_started", "import_copied", "Finalizing", "Ready", "reviewed", "capture_finalized"}

Events == [kind : Kinds, end : {"line", "whole", "torn"}]

Packages == [dir : BOOLEAN, envelope : Envelopes \cup {None}, temporary : Envelopes \cup {None},
             audio : Contents \cup {None}, tracks : BOOLEAN,
             journal : Seq(Events)]

Imports == [pc : {"verify", "persist", "started", "copynew", "copied", "copy", "changed"},
            recording : Recordings, content : Contents, envelope : Envelopes]

\* The envelopes there are of recording r: in its package p and in the importer.
Names(r, p, im) ==
    ({p.envelope, p.temporary} \cup (IF im.recording = r THEN {im.envelope} ELSE {})) \ {None}

ContentsOf(r, p, im, cp) == {e.content : e \in Names(r, p, im)} \cup ({cp.content} \ {None})

\* An envelope says what its recording is.
Entitled(e, cp, n) ==
    /\ e.kind = "capture" <=> e.content \in Captures
    /\ e.kind = "capture" => e.state = "Ready" /\ e.review = 0 /\ cp.content = e.content
    /\ e.state # "Ready" => e.review = 0
    /\ e.review <= n

\* The importer is on its way to make an envelope ready.
Finishing(im) == im.pc = "persist" \/ im.envelope.state # "Ready"

\* What the importer does with a package it has reached.
OnTheWay(im) ==
    /\ im.pc \in {"started", "copynew", "copied"} => im.envelope.state = "Importing"
    /\ im.pc = "changed" => im.envelope.state # "Importing"
    /\ im.pc # "verify" => im.envelope.kind = "import"
    /\ im.content = im.envelope.content

\* Nobody makes the envelope ready in the meantime, and none comes back.
Alone(im, p) ==
    Finishing(im) => /\ p.envelope # None => p.envelope.state # "Ready"
                     /\ p.envelope = None => p.temporary = None

\* The importer has the audio in place.
Copies(im) ==
    \/ im.pc = "copied"
    \/ im.pc = "persist" /\ im.envelope.state # "Importing"
    \/ im.pc = "changed" /\ im.envelope.state = "Finalizing"

\* The audio is there before an envelope calls it ready.
Whole(r, p, im) ==
    /\ p.envelope # None /\ p.envelope.state = "Ready" => p.audio = p.envelope.content
    /\ p.temporary # None /\ p.temporary.state = "Ready" => p.audio = p.temporary.content
    /\ im.recording = r /\ Copies(im) => p.audio = im.content

\* What a discard has not reached yet.
Protected(l) == l \in {"none", "queued"}

Sound(r, p, im, cp, l, u, d, n) ==
    /\ p \in Packages /\ cp.content \in Captures \cup {None}
    /\ l \in {"none", "queued", "discarding", "discarded"}
    /\ cp.phase = "none" <=> cp.content = None
    /\ ~p.dir => p = NoPackage
    /\ r \notin u => p = NoPackage /\ cp.content = None /\ im.recording # r /\ l = "none"
    /\ \A e \in Names(r, p, im) : Entitled(e, cp, n)
    /\ im.recording = r => OnTheWay(im) /\ (Protected(l) => Alone(im, p))
    /\ Protected(l) /\ r \notin d => Whole(r, p, im)

\* A recording has one content, and a content one recording.
Named(pk, im, cp) ==
    \A r, q \in Recordings :
        \A c \in ContentsOf(r, pk[r], im, cp[r]), d \in ContentsOf(q, pk[q], im, cp[q]) :
            r = q <=> c = d

Typed ==
    /\ package \in [Recordings -> Packages] /\ importer \in Imports \cup {Idle}
    /\ capture \in [Recordings -> [phase : {"none", "recording", "persisted", "stopped"},
                                   content : Captures \cup {None}]]
    /\ ledger \in [Recordings -> {"none", "queued", "discarding", "discarded"}]
    /\ reviewer \in Recordings \cup {None}
    /\ reviews \in Nat /\ mishaps \in Nat /\ mishaps <= MaxMishaps

InboxInv ==
    /\ Typed
    /\ \A r \in Recordings :
          Sound(r, package[r], importer, capture[r], ledger[r], used, damaged, reviews)
    /\ Named(package, importer, capture)

LEMMA NamesAreEnvelopes ==
  ASSUME Typed, NEW r \in Recordings
  PROVE  Names(r, package[r], importer) \subseteq Envelopes
<1>1. package[r] \in Packages
  BY DEF Typed
<1>2. package[r].envelope \in Envelopes \cup {None} /\ package[r].temporary \in Envelopes \cup {None}
  BY <1>1 DEF Packages
<1>3. importer.recording = r => importer.envelope \in Envelopes
  BY InboxAssumption DEF Typed, Imports, Idle
<1>4. QED
  BY <1>2, <1>3 DEF Names

LEMMA InboxInit == Init => InboxInv
<1> SUFFICES ASSUME Init PROVE InboxInv
  OBVIOUS
<1>1. NoPackage \in Packages
  BY DEF NoPackage, Packages
<1>2. Typed
  BY <1>1, InboxAssumption DEF Init, Typed
<1>3. ASSUME NEW r \in Recordings
      PROVE  /\ Names(r, package[r], importer) = {}
             /\ ContentsOf(r, package[r], importer, capture[r]) = {}
  BY InboxAssumption DEF Init, Names, ContentsOf, NoPackage, Idle
<1>4. ASSUME NEW r \in Recordings
      PROVE  Sound(r, package[r], importer, capture[r], ledger[r], used, damaged, reviews)
  BY <1>1, <1>3, InboxAssumption DEF Init, Sound, Whole, NoPackage, Idle
<1>5. QED
  BY <1>2, <1>3, <1>4 DEF InboxInv, Named

------------------------
(* A step that touches one recording. *)

\* Nothing is different about any recording but r.
Only(r) ==
    \A q \in Recordings \ {r} :
        /\ package'[q] = package[q] /\ capture'[q] = capture[q] /\ ledger'[q] = ledger[q]
        /\ q \in used' <=> q \in used
        /\ q \in damaged' <=> q \in damaged
        /\ importer'.recording = q => importer' = importer

SoundNext(r) ==
    Sound(r, package'[r], importer', capture'[r], ledger'[r], used', damaged', reviews')

Contents0(r) == ContentsOf(r, package[r], importer, capture[r])

Contents1(r) == ContentsOf(r, package'[r], importer', capture'[r])

\* r keeps its content, or gets one that no recording has.
NamedNext(r) ==
    \/ Contents1(r) \subseteq Contents0(r)
    \/ /\ Contents0(r) = {}
       /\ \E c : Contents1(r) = {c} /\ \A q \in Recordings : c \notin Contents0(q)

LEMMA NamedStep ==
  ASSUME InboxInv, NEW r \in Recordings, NamedNext(r),
         \A q \in Recordings \ {r} : Contents1(q) \subseteq Contents0(q)
  PROVE  Named(package', importer', capture')
BY DEF NamedNext, Named, InboxInv, Contents0, Contents1

LEMMA Update ==
  ASSUME InboxInv, NEW r \in Recordings, Typed', Only(r), SoundNext(r), NamedNext(r),
         reviews' >= reviews, mishaps' >= mishaps
  PROVE  InboxInv'
<1>1. ASSUME NEW q \in Recordings \ {r} PROVE SoundNext(q)
  <2>1. Sound(q, package[q], importer, capture[q], ledger[q], used, damaged, reviews)
    BY DEF InboxInv
  <2>2. /\ reviews \in Nat /\ reviews' \in Nat /\ mishaps \in Nat /\ mishaps' \in Nat
    BY DEF InboxInv, Typed
  <2>3. Names(q, package'[q], importer') \subseteq Names(q, package[q], importer)
    BY DEF Only, Names
  <2>4. \A e \in Names(q, package'[q], importer') : Entitled(e, capture'[q], reviews')
    <3> SUFFICES ASSUME NEW e \in Names(q, package'[q], importer')
                 PROVE  Entitled(e, capture'[q], reviews')
      OBVIOUS
    <3>1. Entitled(e, capture[q], reviews) /\ e \in Envelopes
      BY <2>1, <2>3, NamesAreEnvelopes DEF Sound, InboxInv
    <3>2. QED
      BY <2>2, <3>1 DEF Only, Entitled, Envelopes
  <2>5. Protected(ledger[q]) /\ q \notin damaged => Whole(q, package'[q], importer')
    BY <2>1 DEF Sound, Whole, Only
  <2>7. QED
    BY <2>1, <2>4, <2>5 DEF SoundNext, Sound, Only
<1>2. \A q \in Recordings \ {r} : Contents1(q) \subseteq Contents0(q)
  BY DEF Only, Contents0, Contents1, ContentsOf, Names
<1>3. Named(package', importer', capture')
  BY <1>2, NamedStep
<1>4. QED
  BY <1>1, <1>3 DEF InboxInv, SoundNext

------------------------
(* The package's own operations. *)

\* The importer is, or goes, elsewhere.
LEMMA AwayIsSound ==
  ASSUME NEW r, NEW p, NEW im, NEW jm, NEW cp, NEW l, NEW u, NEW d, NEW n,
         Sound(r, p, im, cp, l, u, d, n), jm.recording # r
  PROVE  /\ Sound(r, p, jm, cp, l, u, d, n)
         /\ ContentsOf(r, p, jm, cp) \subseteq ContentsOf(r, p, im, cp)
<1>1. Names(r, p, jm) \subseteq Names(r, p, im)
  BY DEF Names
<1>2. QED
  BY <1>1 DEF Sound, Whole, ContentsOf

LEMMA DirectoryIsSound ==
  ASSUME NEW r \in Recordings, NEW p, NEW im, NEW cp, NEW l, NEW u, NEW d, NEW n,
         Sound(r, p, im, cp, l, u, d, n), r \in u
  PROVE  LET q == [p EXCEPT !.dir = TRUE] IN
         /\ Sound(r, q, im, cp, l, u, d, n)
         /\ ContentsOf(r, q, im, cp) \subseteq ContentsOf(r, p, im, cp)
<1> DEFINE q == [p EXCEPT !.dir = TRUE]
<1>1. p \in Packages
  BY DEF Sound
<1>2. /\ q \in Packages /\ q.dir /\ q.envelope = p.envelope /\ q.temporary = p.temporary
      /\ q.audio = p.audio /\ q.tracks = p.tracks
  BY <1>1 DEF Packages
<1> HIDE DEF q
<1>3. Names(r, q, im) = Names(r, p, im)
  BY <1>2 DEF Names
<1>4. Sound(r, q, im, cp, l, u, d, n)
  BY <1>2, <1>3 DEF Sound, Alone, Whole
<1>5. QED
  BY <1>3, <1>4 DEF ContentsOf, q

LEMMA RecoveredIsSound ==
  ASSUME NEW r \in Recordings, NEW p, NEW im, NEW cp, NEW l, NEW u, NEW d, NEW n,
         Sound(r, p, im, cp, l, u, d, n)
  PROVE  /\ Sound(r, Recovered(p), im, cp, l, u, d, n)
         /\ ContentsOf(r, Recovered(p), im, cp) \subseteq ContentsOf(r, p, im, cp)
         /\ ~p.dir => Recovered(p) = NoPackage
         /\ Recovered(p) \in Packages /\ Recovered(p).dir = p.dir
<1> DEFINE q == Recovered(p)
<1>1. p \in Packages
  BY DEF Sound
<1>2. /\ q \in Packages /\ q.dir = p.dir /\ q.audio = p.audio /\ q.envelope = Loaded(p)
      /\ q.tracks = p.tracks
      /\ q.temporary = IF p.envelope = None THEN None ELSE p.temporary
  BY <1>1 DEF Recovered, Loaded, Packages
<1>3. p = NoPackage => q = NoPackage
  <2>1. p.envelope = None /\ p.temporary = None => q = p
    BY <1>1 DEF Recovered, Loaded, Packages
  <2>2. QED
    BY <2>1 DEF NoPackage
<1> HIDE DEF q
<1>4. Names(r, q, im) \subseteq Names(r, p, im)
  BY <1>2 DEF Names, Loaded
<1>5. ~q.dir => q = NoPackage
  BY <1>2, <1>3 DEF Sound
<1>6. im.recording = r /\ Protected(l) => Alone(im, q)
  BY <1>2 DEF Sound, Alone, Loaded
<1>7. Protected(l) /\ r \notin d => Whole(r, q, im)
  BY <1>2 DEF Sound, Whole, Loaded
<1>9. Sound(r, q, im, cp, l, u, d, n)
  BY <1>2, <1>3, <1>4, <1>5, <1>6, <1>7 DEF Sound
<1>10. QED
  BY <1>2, <1>4, <1>5, <1>9 DEF ContentsOf, q

LEMMA JournalIsSound ==
  ASSUME NEW r \in Recordings, NEW p, NEW im, NEW cp, NEW l, NEW u, NEW d, NEW n,
         Sound(r, p, im, cp, l, u, d, n), p.dir, NEW j \in Seq(Events)
  PROVE  LET q == [Recovered(p) EXCEPT !.journal = j] IN
         /\ Sound(r, q, im, cp, l, u, d, n)
         /\ ContentsOf(r, q, im, cp) \subseteq ContentsOf(r, p, im, cp)
<1> DEFINE q == [Recovered(p) EXCEPT !.journal = j]
<1>1. /\ Sound(r, Recovered(p), im, cp, l, u, d, n)
      /\ ContentsOf(r, Recovered(p), im, cp) \subseteq ContentsOf(r, p, im, cp)
      /\ Recovered(p) \in Packages /\ Recovered(p).dir
  BY RecoveredIsSound
<1> DEFINE o == Recovered(p)
<1> HIDE DEF o
<1>2. o \in Packages /\ o.dir /\ Sound(r, o, im, cp, l, u, d, n)
  BY <1>1 DEF o
<1>3. /\ q \in Packages /\ q.dir = o.dir /\ q.audio = o.audio /\ q.envelope = o.envelope
      /\ q.temporary = o.temporary /\ q.tracks = o.tracks
  BY <1>2 DEF Packages, o
<1>4. r \in u
  BY <1>2 DEF Sound, NoPackage
<1> HIDE DEF q
<1>5. Names(r, q, im) = Names(r, o, im)
  BY <1>3 DEF Names
<1>6. Sound(r, q, im, cp, l, u, d, n)
  BY <1>2, <1>3, <1>4, <1>5 DEF Sound, Alone, Whole
<1>7. QED
  BY <1>1, <1>5, <1>6 DEF ContentsOf, q, o

LEMMA TailIsTyped ==
  ASSUME NEW journal \in Seq(Events)
  PROVE  RecoverTail(journal) \in Seq(Events)
<1>1. CASE journal = <<>>
  BY <1>1 DEF RecoverTail
<1>2. CASE journal # <<>>
  <2>1. Len(journal) \in Nat \ {0} /\ \A i \in 1 .. Len(journal) : journal[i] \in Events
    BY <1>2
  <2>2. Front(journal) \in Seq(Events)
    BY <2>1 DEF Front
  <2>3. [journal EXCEPT ![Len(journal)].end = "line"] \in Seq(Events)
    BY <2>1 DEF Events
  <2>4. QED
    BY <2>2, <2>3 DEF RecoverTail
<1>3. QED
  BY <1>1, <1>2

LEMMA AppendedIsSound ==
  ASSUME NEW r \in Recordings, NEW p, NEW im, NEW cp, NEW l, NEW u, NEW d, NEW n,
         Sound(r, p, im, cp, l, u, d, n), p.dir, NEW kind \in Kinds, NEW q,
         \/ \E end \in {"line", "whole", "torn"} : q = Appended(p, kind, end)
         \/ q = [Recovered(p) EXCEPT !.journal = RecoverTail(@)]
  PROVE  /\ Sound(r, q, im, cp, l, u, d, n)
         /\ ContentsOf(r, q, im, cp) \subseteq ContentsOf(r, p, im, cp)
<1>1. Recovered(p) \in Packages
  BY RecoveredIsSound
<1>2. RecoverTail(Recovered(p).journal) \in Seq(Events)
  BY <1>1, TailIsTyped DEF Packages
<1>3. CASE q = [Recovered(p) EXCEPT !.journal = RecoverTail(@)]
  BY <1>2, <1>3, JournalIsSound
<1>4. ASSUME NEW end \in {"line", "whole", "torn"}, q = Appended(p, kind, end)
      PROVE  /\ Sound(r, q, im, cp, l, u, d, n)
             /\ ContentsOf(r, q, im, cp) \subseteq ContentsOf(r, p, im, cp)
  <2>1. Append(RecoverTail(Recovered(p).journal), [kind |-> kind, end |-> end]) \in Seq(Events)
    BY <1>2 DEF Events
  <2>2. QED
    BY <1>4, <2>1, JournalIsSound DEF Appended
<1>5. QED
  BY <1>3, <1>4

------------------------
(* The importer. *)

LEMMA ImporterIsTyped ==
  ASSUME Typed, importer # Idle
  PROVE  /\ importer \in Imports /\ importer.recording \in Recordings
         /\ importer.envelope \in Envelopes /\ importer.content \in Contents
         /\ importer.envelope \in Names(importer.recording, package[importer.recording], importer)
BY InboxAssumption DEF Typed, Imports, Names

\* The next state of the envelope that the importer has.
Advanced(im, jm) ==
    \/ im.envelope.state = "Ready" /\ jm = Idle
    \/ /\ jm \in Imports /\ jm.pc = "persist" /\ jm.recording = im.recording
       /\ jm.content = im.content /\ im.envelope.state # "Ready"
       /\ \E s \in {"Finalizing", "Ready"} : jm.envelope = [im.envelope EXCEPT !.state = s]

LEMMA TransitionAdvances ==
  ASSUME Typed, importer # Idle, Transition
  PROVE  Advanced(importer, importer') /\ importer' \in Imports \cup {Idle}
<1>1. importer \in Imports /\ importer.envelope \in Envelopes
  BY ImporterIsTyped
<1>2. CASE importer.envelope.state = "Importing"
           /\ importer' = [importer EXCEPT !.pc = "persist", !.envelope.state = "Finalizing"]
  BY <1>1, <1>2 DEF Imports, Envelopes, Advanced
<1>3. CASE importer.envelope.state = "Finalizing"
           /\ importer' = [importer EXCEPT !.pc = "persist", !.envelope.state = "Ready"]
  BY <1>1, <1>3 DEF Imports, Envelopes, Advanced
<1>4. QED
  BY <1>2, <1>3 DEF Transition, Advanced

\* It goes there once the audio is in place.
LEMMA AdvancedIsSound ==
  ASSUME NEW r \in Recordings, NEW p, NEW im \in Imports, NEW jm, NEW cp, NEW l, NEW u, NEW d,
         NEW n \in Nat,
         Sound(r, p, im, cp, l, u, d, n), im.recording = r, Advanced(im, jm),
         Protected(l) /\ r \notin d /\ im.envelope.state # "Ready" => p.audio = im.content
  PROVE  /\ Sound(r, p, jm, cp, l, u, d, n)
         /\ ContentsOf(r, p, jm, cp) \subseteq ContentsOf(r, p, im, cp)
<1>1. CASE jm = Idle
  BY <1>1, AwayIsSound, InboxAssumption DEF Idle
<1>2. ASSUME jm \in Imports, jm.pc = "persist", jm.recording = r, jm.content = im.content,
             im.envelope.state # "Ready", NEW s \in {"Finalizing", "Ready"},
             jm.envelope = [im.envelope EXCEPT !.state = s]
      PROVE  /\ Sound(r, p, jm, cp, l, u, d, n)
             /\ ContentsOf(r, p, jm, cp) \subseteq ContentsOf(r, p, im, cp)
  <2>1. im.envelope \in Envelopes /\ im.envelope # None
    BY InboxAssumption DEF Imports
  <2>2. /\ jm.envelope.content = im.envelope.content /\ jm.envelope.kind = im.envelope.kind
        /\ jm.envelope.review = im.envelope.review /\ jm.envelope.state = s
        /\ jm.envelope \in Envelopes /\ jm.envelope # None
    BY <1>2, <2>1, InboxAssumption DEF Envelopes
  <2>3. im.envelope \in Names(r, p, im)
    BY <2>1 DEF Names
  <2>4. Entitled(im.envelope, cp, n) /\ OnTheWay(im) /\ Finishing(im)
    BY <1>2, <2>3 DEF Sound, Finishing
  <2>5. im.envelope.kind = "import" /\ im.envelope.review = 0
    BY <1>2, <2>1, <2>4 DEF Entitled, Envelopes
  <2>6. Entitled(jm.envelope, cp, n) /\ OnTheWay(jm) /\ Finishing(jm)
    BY <1>2, <2>2, <2>4, <2>5 DEF Entitled, OnTheWay, Finishing
  <2>7. \A e \in Names(r, p, jm) : e \in Names(r, p, im) \/ e = jm.envelope
    BY DEF Names
  <2>8. \A e \in Names(r, p, jm) : Entitled(e, cp, n)
    BY <2>6, <2>7 DEF Sound
  <2>9. Protected(l) => Alone(jm, p)
    BY <2>4 DEF Sound, Alone
  <2>10. Protected(l) /\ r \notin d => Whole(r, p, jm)
    BY <1>2 DEF Sound, Whole
  <2>12. ContentsOf(r, p, jm, cp) \subseteq ContentsOf(r, p, im, cp)
    BY <2>2, <2>3, <2>7 DEF ContentsOf
  <2>13. QED
    BY <1>2, <2>6, <2>8, <2>9, <2>10, <2>12 DEF Sound
<1>3. QED
  BY <1>1, <1>2 DEF Advanced

\* It ends where it is.
LEMMA EndedIsSound ==
  ASSUME NEW r \in Recordings, NEW p, NEW im, NEW cp, NEW l, NEW u, NEW d, NEW n,
         Sound(r, p, im, cp, l, u, d, n)
  PROVE  /\ Sound(r, p, Idle, cp, l, u, d, n)
         /\ ContentsOf(r, p, Idle, cp) \subseteq ContentsOf(r, p, im, cp)
<1>1. Idle.recording # r
  BY InboxAssumption DEF Idle
<1>2. QED
  BY <1>1, AwayIsSound

\* It goes to a step that asks for no more than the one it comes from.
LEMMA GotoIsSound ==
  ASSUME NEW r \in Recordings, NEW p, NEW im \in Imports, NEW jm, NEW pc, NEW cp, NEW l, NEW u, NEW d,
         NEW n, Sound(r, p, im, cp, l, u, d, n),
         im.recording = r, jm = [im EXCEPT !.pc = pc], OnTheWay(jm), Finishing(jm) => Finishing(im),
         Protected(l) /\ r \notin d /\ Copies(jm) => p.audio = im.content
  PROVE  /\ Sound(r, p, jm, cp, l, u, d, n)
         /\ ContentsOf(r, p, jm, cp) \subseteq ContentsOf(r, p, im, cp)
<1>1. jm.recording = r /\ jm.envelope = im.envelope /\ jm.content = im.content
  BY DEF Imports
<1>2. Names(r, p, jm) = Names(r, p, im)
  BY <1>1 DEF Names
<1>3. QED
  BY <1>1, <1>2 DEF Sound, Alone, Whole, ContentsOf

\* A step of the importer, and perhaps of the package it works on.
LEMMA ImportStep ==
  ASSUME InboxInv, importer # Idle, importer' \in Imports \cup {Idle},
         importer' # Idle => importer'.recording = importer.recording,
         package' \in [Recordings -> Packages],
         \A q \in Recordings \ {importer.recording} : package'[q] = package[q],
         UNCHANGED <<used, reviewer, capture, ledger, reviews>>,
         \A q \in Recordings \ {importer.recording} : q \in damaged' <=> q \in damaged,
         mishaps' \in Nat, mishaps' <= MaxMishaps, mishaps' >= mishaps,
         Sound(importer.recording, package'[importer.recording], importer',
               capture[importer.recording], ledger[importer.recording], used, damaged', reviews),
         ContentsOf(importer.recording, package'[importer.recording], importer',
                    capture[importer.recording])
         \subseteq Contents0(importer.recording)
  PROVE  InboxInv'
<1> DEFINE r == importer.recording
<1>1. importer \in Imports /\ r \in Recordings /\ Typed
  BY ImporterIsTyped DEF InboxInv
<1>3. Typed'
  BY <1>1 DEF Typed
<1>5. Only(r)
  BY <1>1, InboxAssumption DEF Only, Idle, Typed
<1>6. SoundNext(r) /\ NamedNext(r)
  BY DEF SoundNext, NamedNext, Contents1
<1>7. QED
  BY <1>1, <1>3, <1>5, <1>6, Update DEF Typed

\* What the proofs about the importer's steps start from.
LEMMA ImporterFacts ==
  ASSUME InboxInv, importer # Idle
  PROVE  /\ Typed /\ importer \in Imports /\ importer.recording \in Recordings
         /\ package[importer.recording] \in Packages
         /\ package = [package EXCEPT ![importer.recording] = package[importer.recording]]
         /\ importer.envelope \in Envelopes
         /\ OnTheWay(importer) /\ Entitled(importer.envelope, capture[importer.recording], reviews)
         /\ importer.recording \in used
         /\ Sound(importer.recording, package[importer.recording], importer,
                  capture[importer.recording], ledger[importer.recording], used, damaged, reviews)
BY ImporterIsTyped DEF InboxInv, Sound, Typed

LEMMA VerifyInv ==
  ASSUME InboxInv, Verify
  PROVE  InboxInv'
<1> DEFINE r == importer.recording
<1>1. importer # Idle /\ importer.pc = "verify"
  BY DEF Verify, Idle
<1>2. /\ Typed /\ importer \in Imports /\ r \in Recordings /\ importer.envelope \in Envelopes
      /\ package = [package EXCEPT ![r] = package[r]] /\ OnTheWay(importer)
      /\ Sound(r, package[r], importer, capture[r], ledger[r], used, damaged, reviews)
  BY <1>1, ImporterFacts
<1>3. UNCHANGED <<package, used, reviewer, capture, ledger, damaged, reviews, mishaps>>
  BY DEF Verify, bounds
<1>4. mishaps \in Nat /\ mishaps <= MaxMishaps /\ reviews \in Nat
  BY <1>2 DEF Typed
<1> DEFINE Good ==
      /\ importer' \in Imports \cup {Idle} /\ (importer' # Idle => importer'.recording = r)
      /\ Sound(r, package[r], importer', capture[r], ledger[r], used, damaged, reviews)
      /\ ContentsOf(r, package[r], importer', capture[r]) \subseteq Contents0(r)
<1>5. ASSUME AudioIs(r, importer.content), Transition PROVE Good
  BY <1>1, <1>2, <1>4, <1>5, TransitionAdvances, AdvancedIsSound
  DEF Contents0, AudioIs, Advanced
<1>6. ASSUME importer' = Idle PROVE Good
  BY <1>2, <1>6, EndedIsSound DEF Contents0
<1>7. ASSUME importer.envelope.kind = "import", Goto("copy") PROVE Good
  <2>1. /\ importer' = [importer EXCEPT !.pc = "copy"] /\ importer' \in Imports
        /\ importer'.recording = r
    BY <1>2, <1>7 DEF Goto, Imports
  <2>2. OnTheWay(importer') /\ (Finishing(importer') => Finishing(importer)) /\ ~Copies(importer')
    BY <1>2, <1>7, <2>1 DEF OnTheWay, Finishing, Copies, Imports
  <2>3. QED
    BY <1>2, <2>1, <2>2, GotoIsSound, ZenonT(40) DEF Contents0
<1>8. Good
  BY <1>5, <1>6, <1>7 DEF Verify
<1>9. QED
  BY <1>1, <1>2, <1>3, <1>4, <1>8, ImportStep DEF Typed

LEMMA ImportStopsInv ==
  ASSUME InboxInv, ImportStops
  PROVE  InboxInv'
<1> DEFINE r == importer.recording
<1>1. importer # Idle /\ importer' = Idle
  BY DEF ImportStops
<1>2. /\ Typed /\ r \in Recordings /\ package = [package EXCEPT ![r] = package[r]]
      /\ Sound(r, package[r], importer, capture[r], ledger[r], used, damaged, reviews)
  BY <1>1, ImporterFacts
<1>3. UNCHANGED <<package, used, reviewer, capture, ledger, damaged, reviews, mishaps>>
  BY DEF ImportStops, bounds
<1>4. mishaps \in Nat /\ mishaps <= MaxMishaps
  BY <1>2 DEF Typed
<1>5. QED
  BY <1>1, <1>2, <1>3, <1>4, EndedIsSound, ImportStep DEF Contents0, Typed

LEMMA RecordInv ==
  ASSUME InboxInv, Record
  PROVE  InboxInv'
<1> DEFINE r == importer.recording
<1> DEFINE p == package[r]
<1> DEFINE q == Appended(p, Event, "line")
<1>1. importer # Idle /\ importer.pc \in {"started", "copied", "changed"}
  BY DEF Record, Idle
<1>2. /\ Typed /\ importer \in Imports /\ r \in Recordings /\ importer.envelope \in Envelopes
      /\ OnTheWay(importer) /\ p.dir /\ package' = [package EXCEPT ![r] = q]
      /\ Sound(r, p, importer, capture[r], ledger[r], used, damaged, reviews)
  BY <1>1, ImporterFacts DEF Record, Set, CanAppend, Loads
<1>3. UNCHANGED <<used, reviewer, capture, ledger, damaged, reviews, mishaps>>
  BY DEF Record, bounds
<1>4. mishaps \in Nat /\ mishaps <= MaxMishaps /\ reviews \in Nat
  BY <1>2 DEF Typed
<1>5. Event \in Kinds
  BY <1>1, <1>2 DEF Event, Kinds, OnTheWay, Envelopes
<1>6. /\ Sound(r, q, importer, capture[r], ledger[r], used, damaged, reviews)
      /\ ContentsOf(r, q, importer, capture[r]) \subseteq Contents0(r)
  BY <1>2, <1>5, AppendedIsSound DEF Contents0
<1> HIDE DEF q, p
<1> DEFINE Good ==
      /\ importer' \in Imports \cup {Idle} /\ (importer' # Idle => importer'.recording = r)
      /\ Sound(r, q, importer', capture[r], ledger[r], used, damaged, reviews)
      /\ ContentsOf(r, q, importer', capture[r]) \subseteq Contents0(r)
<1>7. ASSUME Transition, importer.pc # "started" PROVE Good
  <2>1. importer.envelope.state # "Ready" => Copies(importer)
    BY <1>1, <1>2, <1>7 DEF Copies, OnTheWay, Envelopes
  <2>2. Protected(ledger[r]) /\ r \notin damaged /\ importer.envelope.state # "Ready"
        => q.audio = importer.content
    BY <1>2, <1>6, <2>1 DEF Sound, Whole
  <2>3. Advanced(importer, importer') /\ importer' \in Imports \cup {Idle}
    BY <1>1, <1>2, <1>7, TransitionAdvances
  <2>4. /\ Sound(r, q, importer', capture[r], ledger[r], used, damaged, reviews)
        /\ ContentsOf(r, q, importer', capture[r]) \subseteq ContentsOf(r, q, importer, capture[r])
    BY <1>2, <1>4, <1>6, <2>2, <2>3, AdvancedIsSound
  <2>5. QED
    BY <1>6, <2>3, <2>4 DEF Advanced
<1>8. ASSUME importer.pc = "started", Goto("copynew") PROVE Good
  <2>1. /\ importer' = [importer EXCEPT !.pc = "copynew"] /\ importer' \in Imports
        /\ importer'.recording = r
    BY <1>2, <1>8 DEF Goto, Imports
  <2>2. OnTheWay(importer') /\ (Finishing(importer') => Finishing(importer)) /\ ~Copies(importer')
    BY <1>2, <1>8, <2>1 DEF OnTheWay, Finishing, Copies, Imports
  <2>3. QED
    BY <1>2, <1>6, <2>1, <2>2, GotoIsSound, SMTT(30)
<1>9. Good
  BY <1>7, <1>8 DEF Record
<1>10. /\ package'[r] = q /\ package' \in [Recordings -> Packages] /\ mishaps' >= mishaps
       /\ \A x \in Recordings \ {r} : package'[x] = package[x]
  BY <1>2, <1>3, <1>4, <1>9 DEF Typed, Sound
<1>11. QED
  BY <1>1, <1>2, <1>3, <1>4, <1>9, <1>10, ImportStep

LEMMA PersistInv ==
  ASSUME InboxInv, Persist
  PROVE  InboxInv'
<1> DEFINE r == importer.recording
<1> DEFINE p == package[r]
<1> DEFINE q == Persisted(p, importer.envelope)
<1>1. importer # Idle /\ importer.pc = "persist" /\ Finishing(importer)
  BY DEF Persist, Idle, Finishing
<1>2. /\ Typed /\ importer \in Imports /\ r \in Recordings /\ importer.envelope \in Envelopes
      /\ OnTheWay(importer) /\ p \in Packages /\ package' = [package EXCEPT ![r] = q]
      /\ r \in used
      /\ Sound(r, p, importer, capture[r], ledger[r], used, damaged, reviews)
  BY <1>1, ImporterFacts DEF Persist, Set
<1>3. UNCHANGED <<used, reviewer, capture, ledger, damaged, reviews, mishaps>>
  BY DEF Persist, bounds
<1>4. mishaps \in Nat /\ mishaps <= MaxMishaps /\ reviews \in Nat
  BY <1>2 DEF Typed
<1>5. /\ importer' \in Imports /\ importer'.recording = r
      /\ importer'.envelope = importer.envelope /\ importer'.content = importer.content
      /\ importer'.pc = IF importer.envelope.state = "Importing" THEN "started" ELSE "changed"
  BY <1>2 DEF Persist, Goto, Imports
<1>6. /\ q \in Packages /\ q.dir /\ q.envelope = importer.envelope /\ q.temporary = p.temporary
      /\ q.audio = p.audio
  BY <1>2 DEF Persisted, Packages
<1>7. importer.envelope # None
  BY <1>2, InboxAssumption
<1> HIDE DEF p, q
<1>8. Names(r, q, importer') \subseteq Names(r, p, importer)
  BY <1>5, <1>6, <1>7 DEF Names
<1>9. OnTheWay(importer') /\ Alone(importer', q)
  BY <1>1, <1>2, <1>5, <1>6, <1>7 DEF OnTheWay, Alone, Finishing
<1>10. Protected(ledger[r]) /\ r \notin damaged => Whole(r, q, importer')
  BY <1>1, <1>2, <1>5, <1>6 DEF Sound, Whole, Copies, OnTheWay
<1>12. Sound(r, q, importer', capture[r], ledger[r], used, damaged, reviews)
  BY <1>2, <1>6, <1>8, <1>9, <1>10 DEF Sound
<1>13. ContentsOf(r, q, importer', capture[r]) \subseteq Contents0(r)
  BY <1>8 DEF ContentsOf, Contents0, p
<1>14. /\ package'[r] = q /\ package' \in [Recordings -> Packages] /\ mishaps' >= mishaps
       /\ \A x \in Recordings \ {r} : package'[x] = package[x]
  BY <1>2, <1>3, <1>4, <1>6 DEF Typed, Sound
<1>15. QED
  BY <1>1, <1>2, <1>3, <1>4, <1>5, <1>12, <1>13, <1>14, ImportStep

\* All envelopes of a recording name the same content.
LEMMA OneContent ==
  ASSUME InboxInv, importer # Idle,
         NEW e \in Names(importer.recording, package[importer.recording], importer)
  PROVE  e.content = importer.content
<1> DEFINE r == importer.recording
<1>1. /\ r \in Recordings /\ importer.envelope \in Names(r, package[r], importer)
      /\ importer.content = importer.envelope.content
  BY ImporterIsTyped, ImporterFacts DEF InboxInv, OnTheWay
<1>2. /\ e.content \in ContentsOf(r, package[r], importer, capture[r])
      /\ importer.content \in ContentsOf(r, package[r], importer, capture[r])
  BY <1>1 DEF ContentsOf
<1>3. QED
  BY <1>1, <1>2 DEF InboxInv, Named

LEMMA CopyInv ==
  ASSUME InboxInv, Copy
  PROVE  InboxInv'
<1> DEFINE r == importer.recording
<1> DEFINE p == package[r]
<1> DEFINE q == Copied(p, importer.content)
<1>1. importer # Idle /\ importer.pc \in {"copy", "copynew"}
  BY DEF Copy, Idle
<1>2. /\ Typed /\ importer \in Imports /\ r \in Recordings /\ importer.envelope \in Envelopes
      /\ OnTheWay(importer) /\ p \in Packages /\ package' = [package EXCEPT ![r] = q]
      /\ r \in used /\ importer.content \in Contents
      /\ Sound(r, p, importer, capture[r], ledger[r], used, damaged, reviews)
  BY <1>1, ImporterFacts, ImporterIsTyped DEF Copy, Set
<1>3. UNCHANGED <<used, reviewer, capture, ledger, reviews, mishaps>> /\ damaged' = damaged \ {r}
  BY DEF Copy, bounds
<1>4. mishaps \in Nat /\ mishaps <= MaxMishaps /\ reviews \in Nat
  BY <1>2 DEF Typed
<1>5. /\ q \in Packages /\ q.dir /\ q.envelope = p.envelope /\ q.temporary = p.temporary
      /\ q.audio = importer.content /\ q.tracks = p.tracks
  BY <1>2 DEF Copied, Packages
<1>6. \A e \in Names(r, p, importer) : e.content = importer.content
  BY <1>1, OneContent
<1> HIDE DEF p, q
<1>7. Names(r, q, importer) = Names(r, p, importer)
  BY <1>5 DEF Names
<1>8. Whole(r, q, importer)
  BY <1>5, <1>6 DEF Whole, Names
<1>9. Sound(r, q, importer, capture[r], ledger[r], used, damaged', reviews)
  BY <1>2, <1>5, <1>7, <1>8 DEF Sound, Alone
<1>10. ContentsOf(r, q, importer, capture[r]) \subseteq Contents0(r)
  BY <1>7 DEF ContentsOf, Contents0, p
<1> DEFINE Good ==
      /\ importer' \in Imports \cup {Idle} /\ (importer' # Idle => importer'.recording = r)
      /\ Sound(r, q, importer', capture[r], ledger[r], used, damaged', reviews)
      /\ ContentsOf(r, q, importer', capture[r]) \subseteq Contents0(r)
<1>11. ASSUME Transition PROVE Good
  <2>1. Advanced(importer, importer') /\ importer' \in Imports \cup {Idle}
    BY <1>1, <1>2, <1>11, TransitionAdvances
  <2> DEFINE l == ledger[r]
  <2> DEFINE cp == capture[r]
  <2>2. /\ importer \in Imports /\ r \in Recordings /\ q.audio = importer.content /\ reviews \in Nat
        /\ Sound(r, q, importer, cp, l, used, damaged', reviews)
    BY <1>2, <1>4, <1>5, <1>9
  <2> HIDE DEF l, cp
  <2>4. /\ Sound(r, q, importer', cp, l, used, damaged', reviews)
        /\ ContentsOf(r, q, importer', cp) \subseteq ContentsOf(r, q, importer, cp)
    BY <2>1, <2>2, AdvancedIsSound
  <2>3. QED
    BY <1>10, <2>1, <2>4 DEF Advanced, l, cp
<1>12. ASSUME importer.pc = "copynew", Goto("copied") PROVE Good
  <2>1. /\ importer' = [importer EXCEPT !.pc = "copied"] /\ importer' \in Imports
        /\ importer'.recording = r
    BY <1>2, <1>12 DEF Goto, Imports
  <2>2. OnTheWay(importer') /\ (Finishing(importer') => Finishing(importer))
    BY <1>2, <1>12, <2>1 DEF OnTheWay, Finishing, Imports
  <2> DEFINE l == ledger[r]
  <2> DEFINE cp == capture[r]
  <2>3. /\ importer \in Imports /\ r \in Recordings /\ q.audio = importer.content
        /\ Sound(r, q, importer, cp, l, used, damaged', reviews)
    BY <1>2, <1>5, <1>9
  <2> HIDE DEF l, cp
  <2>4. /\ Sound(r, q, importer', cp, l, used, damaged', reviews)
        /\ ContentsOf(r, q, importer', cp) \subseteq ContentsOf(r, q, importer, cp)
    BY <2>1, <2>2, <2>3, GotoIsSound
  <2>5. QED
    BY <1>10, <2>1, <2>4 DEF l, cp
<1>13. Good
  BY <1>11, <1>12 DEF Copy
<1>14. \A x \in Recordings \ {r} : x \in damaged' <=> x \in damaged
  BY <1>3
<1>15. /\ package'[r] = q /\ package' \in [Recordings -> Packages] /\ mishaps' >= mishaps
       /\ \A x \in Recordings \ {r} : package'[x] = package[x]
  BY <1>2, <1>3, <1>4, <1>5 DEF Typed, Sound
<1>16. QED
  BY <1>1, <1>2, <1>3, <1>4, <1>13, <1>14, <1>15, ImportStep

LEMMA ImportPartlyInv ==
  ASSUME InboxInv, ImportPartly
  PROVE  InboxInv'
<1> DEFINE r == importer.recording
<1> DEFINE p == package[r]
<1>1. importer # Idle /\ importer' = Idle /\ mishaps < MaxMishaps /\ mishaps' = mishaps + 1
  BY DEF ImportPartly, Mishap, Idle
<1>2. /\ Typed /\ importer \in Imports /\ r \in Recordings /\ importer.envelope \in Envelopes
      /\ OnTheWay(importer) /\ p \in Packages /\ r \in used
      /\ Sound(r, p, importer, capture[r], ledger[r], used, damaged, reviews)
  BY <1>1, ImporterFacts
<1>3. UNCHANGED <<used, reviewer, capture, ledger, damaged, reviews>>
  BY DEF ImportPartly
<1>4. mishaps \in Nat /\ mishaps' \in Nat /\ mishaps' <= MaxMishaps /\ mishaps' >= mishaps
  BY <1>1, <1>2, InboxAssumption DEF Typed
<1> HIDE DEF p
<1> DEFINE Good(q) ==
      /\ Sound(r, q, Idle, capture[r], ledger[r], used, damaged, reviews)
      /\ ContentsOf(r, q, Idle, capture[r]) \subseteq Contents0(r)
<1>5. ASSUME NEW q, Sound(r, q, importer, capture[r], ledger[r], used, damaged, reviews),
             ContentsOf(r, q, importer, capture[r]) \subseteq Contents0(r)
      PROVE  Good(q)
  BY <1>2, <1>5, EndedIsSound
<1>6. Good([p EXCEPT !.dir = TRUE])
  BY <1>2, <1>5, DirectoryIsSound DEF Contents0, p
<1>7. ASSUME importer.pc = "persist" PROVE Good([p EXCEPT !.dir = TRUE, !.temporary = importer.envelope])
  <2> DEFINE q == [p EXCEPT !.dir = TRUE, !.temporary = importer.envelope]
  <2>1. Finishing(importer) /\ importer.envelope # None
    BY <1>2, <1>7, InboxAssumption DEF Finishing
  <2>2. /\ q \in Packages /\ q.dir /\ q.temporary = importer.envelope /\ q.envelope = p.envelope
        /\ q.audio = p.audio
    BY <1>2 DEF Packages
  <2> HIDE DEF q
  <2>3. Idle.recording # r
    BY <1>2, InboxAssumption DEF Idle
  <2>4. Names(r, q, Idle) \subseteq Names(r, p, importer)
    BY <2>1, <2>2, <2>3 DEF Names
  <2>5. Protected(ledger[r]) /\ r \notin damaged => Whole(r, q, Idle)
    BY <1>2, <1>7, <2>1, <2>2, <2>3 DEF Sound, Whole, Copies, OnTheWay
  <2>7. Sound(r, q, Idle, capture[r], ledger[r], used, damaged, reviews)
    BY <1>2, <2>2, <2>3, <2>4, <2>5 DEF Sound
  <2>8. QED
    BY <2>4, <2>7 DEF ContentsOf, Contents0, p, q
<1>8. ASSUME importer.pc \in {"started", "copied", "changed"}, CanAppend(r), NEW q \in AppendPartly(p, Event)
      PROVE  Good(q)
  <2>1. Event \in Kinds
    BY <1>2, <1>8 DEF Event, Kinds, OnTheWay, Envelopes
  <2>2. p.dir
    BY <1>8 DEF CanAppend, Loads, p
  <2>3. \/ \E end \in {"line", "whole", "torn"} : q = Appended(p, Event, end)
        \/ q = [Recovered(p) EXCEPT !.journal = RecoverTail(@)]
    BY <1>8 DEF AppendPartly
  <2>4. QED
    BY <1>2, <1>5, <2>1, <2>2, <2>3, AppendedIsSound DEF Contents0, p
<1>9. PICK q : package' = [package EXCEPT ![r] = q] /\ Good(q)
  BY <1>6, <1>7, <1>8 DEF ImportPartly, Set, PersistPartly, p
<1>10. /\ package' \in [Recordings -> Packages] /\ package'[r] = q
       /\ \A x \in Recordings \ {r} : package'[x] = package[x]
  BY <1>2, <1>9 DEF Typed, Sound
<1>11. QED
  BY <1>1, <1>2, <1>3, <1>4, <1>9, <1>10, ImportStep

------------------------
(* Steps that load every package. *)

LEMMA AllAreRecovered ==
  ASSUME InboxInv, package' = AllRecovered
  PROVE  /\ package' \in [Recordings -> Packages]
         /\ \A q \in Recordings :
               /\ package'[q] = Recovered(package[q])
               /\ Sound(q, package'[q], importer, capture[q], ledger[q], used, damaged, reviews)
               /\ ContentsOf(q, package'[q], importer, capture[q]) \subseteq Contents0(q)
<1>1. ASSUME NEW q \in Recordings
      PROVE  /\ Recovered(package[q]) \in Packages /\ (~package[q].dir => Recovered(package[q]) = NoPackage)
             /\ Sound(q, Recovered(package[q]), importer, capture[q], ledger[q], used, damaged,
                      reviews)
             /\ ContentsOf(q, Recovered(package[q]), importer, capture[q]) \subseteq Contents0(q)
  BY RecoveredIsSound DEF InboxInv, Contents0
<1>2. \A q \in Recordings : package'[q] = Recovered(package[q])
  BY <1>1 DEF AllRecovered
<1>3. package' \in [Recordings -> Packages]
  BY <1>1, <1>2 DEF AllRecovered
<1>4. QED
  BY <1>1, <1>2, <1>3

LEMMA ListReadyInv ==
  ASSUME InboxInv, ListReady
  PROVE  InboxInv'
<1>1. /\ package' = AllRecovered
      /\ UNCHANGED <<used, importer, reviewer, capture, ledger, damaged, reviews, mishaps>>
  BY DEF ListReady, bounds
<1>2. Typed'
  BY <1>1, AllAreRecovered DEF InboxInv, Typed
<1>3. \A q \in Recordings : SoundNext(q) /\ Contents1(q) \subseteq Contents0(q)
  BY <1>1, AllAreRecovered DEF SoundNext, Contents1
<1>4. Named(package', importer', capture')
  BY <1>3 DEF Named, InboxInv, Contents0, Contents1
<1>5. QED
  BY <1>2, <1>3, <1>4 DEF InboxInv, SoundNext

\* What no package matches is a content that no recording has.
LEMMA Unmatched ==
  ASSUME InboxInv, NEW content \in Contents, importer = Idle, Importable(content), Listable,
         Matching(content) = {}, NEW q \in Recordings
  PROVE  content \notin Contents0(q) /\ content \notin Captures
<1>1. content \notin Captures
  BY DEF Importable, Exportable, Matching
<1>2. Sound(q, package[q], Idle, capture[q], ledger[q], used, damaged, reviews)
  BY DEF InboxInv
<1>3. content # capture[q].content
  BY <1>1, <1>2, InboxAssumption DEF Sound
<1>4. ASSUME NEW e \in Names(q, package[q], Idle) PROVE e.content # content
  <2>1. e = package[q].envelope \/ e = package[q].temporary
    BY InboxAssumption DEF Names, Idle
  <2>2. e # None
    BY DEF Names
  <2>3. package[q].dir
    BY <1>2, <2>1, <2>2 DEF Sound, NoPackage
  <2>4. Loaded(package[q]) # None /\ Loaded(package[q]).content # content
    BY <2>3 DEF Listable, Matching, Loads
  <2>5. Loaded(package[q]) \in Names(q, package[q], Idle)
    BY <2>4 DEF Loaded, Names
  <2>6. /\ e.content \in ContentsOf(q, package[q], Idle, capture[q])
        /\ Loaded(package[q]).content \in ContentsOf(q, package[q], Idle, capture[q])
    BY <2>5 DEF ContentsOf
  <2>7. e.content = Loaded(package[q]).content
    BY <2>6 DEF InboxInv, Named
  <2>8. QED
    BY <2>4, <2>7
<1>5. QED
  BY <1>1, <1>3, <1>4 DEF Contents0, ContentsOf

LEMMA FindInv ==
  ASSUME InboxInv, NEW content \in Contents, Find(content)
  PROVE  InboxInv'
<1>1. /\ package' = AllRecovered /\ importer = Idle /\ Importable(content) /\ Listable
      /\ UNCHANGED <<reviewer, capture, ledger, damaged, reviews, mishaps>>
  BY DEF Find, bounds
<1>2. /\ Typed /\ package' \in [Recordings -> Packages]
      /\ \A q \in Recordings : package'[q] = Recovered(package[q])
  BY <1>1, AllAreRecovered DEF InboxInv
<1> DEFINE Elsewhere(r) ==
      \A q \in Recordings \ {r} :
          /\ Sound(q, package'[q], importer', capture[q], ledger[q], used, damaged, reviews)
          /\ Contents1(q) \subseteq Contents0(q)
<1>3. ASSUME NEW r \in Recordings, importer'.recording = r PROVE Elsewhere(r)
  BY <1>1, <1>3, AllAreRecovered, AwayIsSound DEF Contents1, Contents0
<1>4. ASSUME NEW r \in Matching(content), used' = used,
             importer' = [pc |-> "verify", recording |-> r, content |-> content,
                          envelope |-> Loaded(package[r])]
      PROVE  InboxInv'
  <2>1. r \in Recordings /\ Loads(r) /\ Loaded(package[r]).content = content
    BY DEF Matching
  <2> DEFINE p == package'[r]
  <2>2. /\ p = Recovered(package[r]) /\ p \in Packages
        /\ Sound(r, p, importer, capture[r], ledger[r], used, damaged, reviews)
        /\ ContentsOf(r, p, importer, capture[r]) \subseteq Contents0(r)
    BY <1>1, <2>1, AllAreRecovered
  <2>3. package[r] \in Packages /\ package[r].dir
    BY <1>2, <2>1 DEF Typed, Loads
  <2>4. /\ p.envelope = Loaded(package[r]) /\ p.envelope # None /\ p.envelope \in Envelopes /\ p.dir
    BY <2>1, <2>2, <2>3 DEF Recovered, Loaded, Loads, Packages
  <2>5. importer' \in Imports /\ importer'.recording = r /\ importer'.envelope = p.envelope
        /\ importer'.content = p.envelope.content /\ importer'.pc = "verify"
    BY <1>4, <2>1, <2>4 DEF Imports
  <2> HIDE DEF p
  <2>6. Names(r, p, importer') \subseteq Names(r, p, importer)
    BY <2>4, <2>5 DEF Names
  <2>7. OnTheWay(importer') /\ Alone(importer', p)
    BY <2>4, <2>5 DEF OnTheWay, Alone, Finishing
  <2>8. Protected(ledger[r]) /\ r \notin damaged => Whole(r, p, importer')
    BY <2>2, <2>5 DEF Sound, Whole, Copies
  <2>10. r \in used
    BY <2>2, <2>4 DEF Sound, NoPackage
  <2>11. Sound(r, p, importer', capture[r], ledger[r], used, damaged, reviews)
    BY <2>2, <2>4, <2>6, <2>7, <2>8, <2>10 DEF Sound
  <2>12. Contents1(r) \subseteq Contents0(r)
    BY <1>1, <2>2, <2>6 DEF Contents1, ContentsOf, p
  <2>13. Named(package', importer', capture')
    BY <1>3, <2>1, <2>5, <2>12, NamedStep DEF NamedNext
  <2>14. Typed'
    BY <1>1, <1>2, <2>5 DEF Typed
  <2>15. \A q \in Recordings : SoundNext(q)
    BY <1>1, <1>3, <1>4, <2>1, <2>5, <2>11 DEF SoundNext, p
  <2>16. QED
    BY <2>13, <2>14, <2>15 DEF InboxInv, SoundNext
<1>5. ASSUME NEW r \in Recordings \ used, Matching(content) = {}, used' = used \cup {r},
             importer' = [pc |-> "persist", recording |-> r, content |-> content,
                          envelope |-> Envelope("import", content, "Importing")]
      PROVE  InboxInv'
  <2>1. Sound(r, package[r], Idle, capture[r], ledger[r], used, damaged, reviews)
    BY <1>1 DEF InboxInv
  <2>2. package[r] = NoPackage /\ capture[r].content = None /\ ledger[r] = "none"
    BY <2>1 DEF Sound
  <2>3. package'[r] = NoPackage
    BY <1>1, <2>2 DEF NoPackage, AllRecovered
  <2> DEFINE e == Envelope("import", content, "Importing")
  <2>4. e \in Envelopes /\ e # None
    BY InboxAssumption DEF Envelope, Envelopes
  <2>5. /\ importer' \in Imports /\ importer'.recording = r /\ importer'.pc = "persist"
        /\ importer'.envelope = e /\ importer'.content = content
    BY <1>5, <2>4 DEF Imports
  <2>6. content \notin Captures /\ \A q \in Recordings : content \notin Contents0(q)
    BY <1>1, <1>5, Unmatched
  <2>7. Names(r, NoPackage, importer') = {e}
    BY <2>4, <2>5 DEF Names, NoPackage
  <2>8. Entitled(e, capture[r], reviews) /\ e.content = content
    BY <1>2, <2>6 DEF Entitled, Envelope, Typed
  <2>9. OnTheWay(importer') /\ Alone(importer', NoPackage) /\ ~Copies(importer')
    BY <2>5 DEF OnTheWay, Alone, Copies, Envelope, NoPackage
  <2>10. Whole(r, NoPackage, importer')
    BY <2>9 DEF Whole, NoPackage
  <2>12. SoundNext(r)
    <3>1. NoPackage \in Packages
      BY DEF NoPackage, Packages
    <3>2. QED
      BY <1>1, <1>5, <2>1, <2>3, <2>5, <2>7, <2>8, <2>9, <2>10, <3>1 DEF SoundNext, Sound
  <2>13. Contents1(r) = {content}
    BY <1>1, <2>2, <2>3, <2>7, <2>8 DEF Contents1, ContentsOf
  <2>14. Contents0(r) = {}
    BY <1>1, <2>2, InboxAssumption DEF Contents0, ContentsOf, Names, NoPackage, Idle
  <2>15. Named(package', importer', capture')
    BY <1>3, <2>5, <2>6, <2>13, <2>14, NamedStep DEF NamedNext
  <2>16. Typed'
    BY <1>1, <1>2, <2>5 DEF Typed
  <2>17. \A q \in Recordings \ {r} : SoundNext(q)
    BY <1>1, <1>3, <1>5, <2>5 DEF SoundNext, Sound
  <2>18. QED
    BY <2>12, <2>15, <2>16, <2>17 DEF InboxInv, SoundNext
<1>6. QED
  BY <1>4, <1>5 DEF Find

------------------------
(* The others. *)

\* A step beside the importer, and what it starts from.
LEMMA OtherStep ==
  ASSUME InboxInv, NEW r \in Recordings, NEW q, package' = [package EXCEPT ![r] = q],
         UNCHANGED <<used, importer>>,
         capture' \in [Recordings -> [phase : {"none", "recording", "persisted", "stopped"},
                                      content : Captures \cup {None}]],
         ledger' \in [Recordings -> {"none", "queued", "discarding", "discarded"}],
         \A x \in Recordings \ {r} : /\ capture'[x] = capture[x] /\ ledger'[x] = ledger[x]
                                     /\ x \in damaged' <=> x \in damaged,
         reviewer' \in Recordings \cup {None}, reviews' \in Nat, reviews' >= reviews,
         mishaps' \in Nat, mishaps' <= MaxMishaps, mishaps' >= mishaps,
         Sound(r, q, importer, capture'[r], ledger'[r], used, damaged', reviews'),
         ContentsOf(r, q, importer, capture'[r]) \subseteq Contents0(r)
  PROVE  InboxInv'
<1>1. q \in Packages /\ Typed
  BY DEF Sound, InboxInv
<1>2. /\ package' \in [Recordings -> Packages] /\ package'[r] = q
      /\ \A x \in Recordings \ {r} : package'[x] = package[x]
  BY <1>1 DEF Typed
<1>3. Typed'
  BY <1>1, <1>2 DEF Typed
<1>4. Only(r)
  BY <1>2 DEF Only
<1>5. SoundNext(r) /\ NamedNext(r)
  BY <1>2 DEF SoundNext, NamedNext, Contents1
<1>6. QED
  BY <1>3, <1>4, <1>5, Update

LEMMA RecordingFacts ==
  ASSUME InboxInv, NEW r \in Recordings
  PROVE  /\ Typed /\ package[r] \in Packages /\ package = [package EXCEPT ![r] = package[r]]
         /\ Sound(r, package[r], importer, capture[r], ledger[r], used, damaged, reviews)
         /\ mishaps \in Nat /\ mishaps <= MaxMishaps /\ mishaps + 1 \in Nat
         /\ mishaps < MaxMishaps => mishaps + 1 <= MaxMishaps
         /\ reviews \in Nat /\ reviews + 1 \in Nat /\ reviews + 1 >= reviews /\ mishaps + 1 >= mishaps
         /\ reviews >= reviews /\ mishaps >= mishaps
BY InboxAssumption DEF InboxInv, Typed

LEMMA RecordReviewInv ==
  ASSUME InboxInv, RecordReview
  PROVE  InboxInv'
<1> DEFINE r == reviewer
<1>1. r \in Recordings
  BY DEF RecordReview, InboxInv, Typed
<1>2. /\ Typed /\ package = [package EXCEPT ![r] = package[r]]
      /\ Sound(r, package[r], importer, capture[r], ledger[r], used, damaged, reviews)
  BY <1>1, RecordingFacts
<1>3. UNCHANGED <<used, importer, capture, ledger, damaged, reviews, mishaps>> /\ reviewer' = None
  BY DEF RecordReview, bounds
<1>4. PICK q : /\ package' = [package EXCEPT ![r] = q]
               /\ Sound(r, q, importer, capture[r], ledger[r], used, damaged, reviews)
               /\ ContentsOf(r, q, importer, capture[r]) \subseteq Contents0(r)
  <2>1. CASE CanAppend(r) /\ package' = [package EXCEPT ![r] = Appended(package[r], "reviewed", "line")]
    <3>1. package[r].dir /\ "reviewed" \in Kinds
      BY <2>1 DEF CanAppend, Loads, Kinds
    <3> DEFINE q == Appended(package[r], "reviewed", "line")
    <3>2. \E end \in {"line", "whole", "torn"} : q = Appended(package[r], "reviewed", end)
      OBVIOUS
    <3> HIDE DEF q
    <3>3. /\ Sound(r, q, importer, capture[r], ledger[r], used, damaged, reviews)
          /\ ContentsOf(r, q, importer, capture[r]) \subseteq Contents0(r)
      BY <1>1, <1>2, <3>1, <3>2, AppendedIsSound DEF Contents0
    <3>4. QED
      BY <2>1, <3>3 DEF q
  <2>2. CASE UNCHANGED package
    BY <1>2, <2>2 DEF Contents0
  <2>3. QED
    BY <2>1, <2>2 DEF RecordReview, Set
<1>5. QED
  BY <1>1, <1>2, <1>3, <1>4, OtherStep, RecordingFacts DEF Typed

\* A reviewed envelope names what it named, and no importer is finishing it.
LEMMA ReviewedIsSound ==
  ASSUME InboxInv, NEW r \in Recordings, Loads(r), Reviewable(Loaded(package[r]))
  PROVE  LET p == Recovered(package[r])
             e == Reviewed(Loaded(package[r]))
         IN  /\ p \in Packages /\ p.dir /\ p.envelope # None /\ p.envelope.state = "Ready"
             /\ Sound(r, p, importer, capture[r], ledger[r], used, damaged, reviews)
             /\ ContentsOf(r, p, importer, capture[r]) \subseteq Contents0(r)
             /\ \A x \in Names(r, p, importer) : Entitled(x, capture[r], reviews + 1)
             /\ e \in Envelopes /\ e # None /\ Entitled(e, capture[r], reviews + 1)
             /\ e.content = p.envelope.content /\ e.state = "Ready"
             /\ e.review = reviews + 1 /\ p.envelope.review <= reviews /\ r \in used
<1> DEFINE p == Recovered(package[r])
<1> DEFINE e == Reviewed(Loaded(package[r]))
<1>1. /\ Sound(r, package[r], importer, capture[r], ledger[r], used, damaged, reviews)
      /\ Typed /\ package[r] \in Packages /\ package[r].dir /\ reviews \in Nat
  BY RecordingFacts DEF Loads
<1>2. /\ p \in Packages /\ p.dir
      /\ Sound(r, p, importer, capture[r], ledger[r], used, damaged, reviews)
      /\ ContentsOf(r, p, importer, capture[r]) \subseteq Contents0(r)
  BY <1>1, RecoveredIsSound DEF Contents0
<1>3. /\ p.envelope = Loaded(package[r]) /\ p.envelope # None /\ p.envelope \in Envelopes
      /\ p.envelope.state = "Ready" /\ p.envelope.kind = "import"
  BY <1>1, <1>2 DEF Recovered, Loads, Reviewable, Packages
<1>4. e = [p.envelope EXCEPT !.review = reviews + 1]
  BY <1>3 DEF Reviewed
<1>5. r \in used
  BY <1>2 DEF Sound, NoPackage
<1> HIDE DEF p, e
<1>6. /\ e \in Envelopes /\ e # None /\ e.content = p.envelope.content /\ e.kind = "import"
      /\ e.state = "Ready" /\ e.review = reviews + 1
  BY <1>1, <1>3, <1>4, InboxAssumption DEF Envelopes
<1>7. p.envelope \in Names(r, p, importer)
  BY <1>3 DEF Names
<1>8. Entitled(p.envelope, capture[r], reviews)
  BY <1>2, <1>7 DEF Sound
<1>9. Entitled(e, capture[r], reviews + 1)
  BY <1>1, <1>3, <1>6, <1>8 DEF Entitled
<1>10. ASSUME NEW x \in Names(r, p, importer) PROVE Entitled(x, capture[r], reviews + 1)
  <2>1. x \in Envelopes
    BY <1>1, <1>2, InboxAssumption DEF Names, Packages, Typed, Imports, Idle
  <2>2. Entitled(x, capture[r], reviews)
    BY <1>2 DEF Sound
  <2>3. QED
    BY <1>1, <2>1, <2>2 DEF Entitled, Envelopes
<1>11. p.envelope.review <= reviews
  BY <1>8 DEF Entitled
<1>12. QED
  BY <1>2, <1>3, <1>5, <1>6, <1>9, <1>10, <1>11 DEF p, e

LEMMA ConfirmInv ==
  ASSUME InboxInv, NEW r \in Recordings, Confirm(r)
  PROVE  InboxInv'
<1> DEFINE p == Recovered(package[r])
<1> DEFINE e == Reviewed(Loaded(package[r]))
<1> DEFINE q == Persisted(p, e)
<1>1. /\ package' = [package EXCEPT ![r] = q] /\ reviews' = reviews + 1 /\ reviewer' = r
      /\ UNCHANGED <<used, importer, capture, ledger, damaged, mishaps>>
      /\ Loads(r) /\ Reviewable(Loaded(package[r]))
  BY DEF Confirm, Set
<1>2. /\ p \in Packages /\ p.dir /\ p.envelope # None /\ p.envelope.state = "Ready"
      /\ Sound(r, p, importer, capture[r], ledger[r], used, damaged, reviews)
      /\ ContentsOf(r, p, importer, capture[r]) \subseteq Contents0(r)
      /\ \A x \in Names(r, p, importer) : Entitled(x, capture[r], reviews + 1)
      /\ e \in Envelopes /\ e # None /\ Entitled(e, capture[r], reviews + 1)
      /\ e.content = p.envelope.content /\ e.state = "Ready" /\ r \in used
  BY <1>1, ReviewedIsSound
<1> HIDE DEF p, e
<1>3. /\ q \in Packages /\ q.dir /\ q.envelope = e /\ q.temporary = p.temporary
      /\ q.audio = p.audio /\ q.tracks = p.tracks
  BY <1>2 DEF Persisted, Packages
<1> HIDE DEF q
<1>4. \A x \in Names(r, q, importer) : x = e \/ x \in Names(r, p, importer)
  BY <1>3 DEF Names
<1>5. importer.recording = r /\ Protected(ledger[r]) => Alone(importer, q)
  BY <1>2, <1>3 DEF Sound, Alone
<1>6. Protected(ledger[r]) /\ r \notin damaged => Whole(r, q, importer)
  BY <1>2, <1>3 DEF Sound, Whole
<1>8. Sound(r, q, importer, capture[r], ledger[r], used, damaged, reviews + 1)
  BY <1>2, <1>3, <1>4, <1>5, <1>6 DEF Sound
<1>9. p.envelope.content \in ContentsOf(r, p, importer, capture[r])
  BY <1>2 DEF ContentsOf, Names
<1>10. ContentsOf(r, q, importer, capture[r]) \subseteq Contents0(r)
  BY <1>2, <1>4, <1>9 DEF ContentsOf
<1>11. QED
  BY <1>1, <1>8, <1>10, RecordingFacts, OtherStep DEF Typed

LEMMA ConfirmPartlyInv ==
  ASSUME InboxInv, NEW r \in Recordings, ConfirmPartly(r)
  PROVE  InboxInv'
<1> DEFINE p == Recovered(package[r])
<1> DEFINE e == Reviewed(Loaded(package[r]))
<1>1. /\ reviews' = reviews + 1 /\ mishaps < MaxMishaps /\ mishaps' = mishaps + 1
      /\ UNCHANGED <<used, importer, reviewer, capture, ledger, damaged>>
      /\ Loads(r) /\ Reviewable(Loaded(package[r]))
  BY DEF ConfirmPartly, Mishap
<1>2. /\ p \in Packages /\ p.dir /\ p.envelope # None /\ p.envelope.state = "Ready"
      /\ Sound(r, p, importer, capture[r], ledger[r], used, damaged, reviews)
      /\ ContentsOf(r, p, importer, capture[r]) \subseteq Contents0(r)
      /\ \A x \in Names(r, p, importer) : Entitled(x, capture[r], reviews + 1)
      /\ e \in Envelopes /\ e # None /\ Entitled(e, capture[r], reviews + 1)
      /\ e.content = p.envelope.content /\ e.state = "Ready" /\ r \in used
  BY <1>1, ReviewedIsSound
<1>3. PICK q \in PersistPartly(p, e) : package' = [package EXCEPT ![r] = q]
  BY DEF ConfirmPartly, Set
<1>4. mishaps \in Nat /\ mishaps' # 0
  BY <1>1, RecordingFacts
<1> HIDE DEF p, e
<1>5. /\ q \in Packages /\ q.dir /\ q.envelope = p.envelope /\ q.temporary \in {p.temporary, e}
      /\ q.audio = p.audio
  BY <1>2 DEF PersistPartly, Packages
<1>6. \A x \in Names(r, q, importer) : x = e \/ x \in Names(r, p, importer)
  BY <1>5 DEF Names
<1>7. importer.recording = r /\ Protected(ledger[r]) => Alone(importer, q)
  BY <1>2, <1>5 DEF Sound, Alone
<1>8. Protected(ledger[r]) /\ r \notin damaged => Whole(r, q, importer)
  BY <1>2, <1>5 DEF Sound, Whole
<1>10. Sound(r, q, importer, capture[r], ledger[r], used, damaged, reviews + 1)
  BY <1>2, <1>5, <1>6, <1>7, <1>8 DEF Sound
<1>11. p.envelope.content \in ContentsOf(r, p, importer, capture[r])
  BY <1>2 DEF ContentsOf, Names
<1>12. ContentsOf(r, q, importer, capture[r]) \subseteq Contents0(r)
  BY <1>2, <1>6, <1>11 DEF ContentsOf
<1>13. QED
  BY <1>1, <1>3, <1>10, <1>12, RecordingFacts, OtherStep DEF Typed

\* What is recorded here is no other recording's content.
LEMMA BeginCaptureInv ==
  ASSUME InboxInv, NEW r \in Recordings, NEW content \in Captures, BeginCapture(r, content)
  PROVE  InboxInv'
<1> DEFINE q == [NoPackage EXCEPT !.dir = TRUE, !.tracks = TRUE]
<1>1. /\ r \notin used /\ content \notin Captured /\ used' = used \cup {r}
      /\ package' = [package EXCEPT ![r] = q]
      /\ capture' = [capture EXCEPT ![r] = [phase |-> "recording", content |-> content]]
      /\ UNCHANGED <<importer, reviewer, ledger, damaged, reviews, mishaps>>
  BY DEF BeginCapture, Set, bounds
<1>2. /\ Typed /\ content # None
      /\ Sound(r, package[r], importer, capture[r], ledger[r], used, damaged, reviews)
  BY InboxAssumption DEF InboxInv
<1>3. /\ q \in Packages /\ q.dir /\ q.envelope = None /\ q.temporary = None
  <2>1. /\ NoPackage \in Packages /\ NoPackage.envelope = None /\ NoPackage.temporary = None
    BY DEF NoPackage, Packages
  <2>2. QED
    BY <2>1 DEF Packages
<1>4. package[r] = NoPackage /\ capture[r].content = None /\ importer.recording # r /\ ledger[r] = "none"
  BY <1>1, <1>2 DEF Sound
<1> HIDE DEF q
<1>5. /\ package' \in [Recordings -> Packages] /\ package'[r] = q
      /\ capture'[r] = [phase |-> "recording", content |-> content]
      /\ \A x \in Recordings \ {r} : package'[x] = package[x] /\ capture'[x] = capture[x]
      /\ capture' \in [Recordings -> [phase : {"none", "recording", "persisted", "stopped"},
                                      content : Captures \cup {None}]]
  BY <1>1, <1>2, <1>3 DEF Typed
<1>6. Names(r, q, importer) = {}
  BY <1>3, <1>4 DEF Names
<1>7. SoundNext(r)
  BY <1>1, <1>2, <1>3, <1>4, <1>5, <1>6 DEF SoundNext, Sound, Whole
<1>8. Contents0(r) = {} /\ Contents1(r) = {content}
  BY <1>1, <1>2, <1>4, <1>5, <1>6 DEF Contents0, Contents1, ContentsOf, Names, NoPackage
<1>9. ASSUME NEW x \in Recordings PROVE content \notin Contents0(x)
  <2>1. content # capture[x].content
    BY <1>1, <1>2 DEF Captured
  <2>2. Sound(x, package[x], importer, capture[x], ledger[x], used, damaged, reviews)
    BY DEF InboxInv
  <2>3. ASSUME NEW e \in Names(x, package[x], importer) PROVE e.content # content
    BY <2>1, <2>2 DEF Sound, Entitled
  <2>4. QED
    BY <2>1, <2>3 DEF Contents0, ContentsOf
<1>10. NamedNext(r)
  BY <1>8, <1>9 DEF NamedNext
<1>11. Only(r)
  BY <1>1, <1>5 DEF Only
<1>12. Typed' /\ reviews' >= reviews /\ mishaps' >= mishaps
  BY <1>1, <1>2, <1>5 DEF Typed
<1>13. QED
  BY <1>7, <1>10, <1>11, <1>12, Update

\* What a finalization writes: every envelope of a capture names its content.
LEMMA FinalizedIsSound ==
  ASSUME InboxInv, NEW r \in Recordings, capture[r].phase = "recording", package[r].dir
  PROVE  LET p == Normalized(r)
             e == Envelope("capture", capture[r].content, "Ready")
         IN  /\ e \in Envelopes /\ e # None /\ e.content = capture[r].content /\ e.state = "Ready"
             /\ Entitled(e, capture[r], reviews) /\ r \in used
             /\ p \in Packages /\ p.dir /\ p.envelope = package[r].envelope
             /\ p.temporary = package[r].temporary /\ p.audio = capture[r].content
             /\ p.tracks = package[r].tracks
             /\ \A x \in Names(r, p, importer) : x.content = capture[r].content
                                                 /\ Entitled(x, capture[r], reviews)
             /\ Names(r, p, importer) = Names(r, package[r], importer)
             /\ importer.recording = r =>
                   ~Finishing(importer) /\ importer.content = capture[r].content
             /\ capture[r].content \in Contents0(r)
<1> DEFINE c == capture[r].content
<1> DEFINE p == Normalized(r)
<1> DEFINE e == Envelope("capture", c, "Ready")
<1>1. /\ Sound(r, package[r], importer, capture[r], ledger[r], used, damaged, reviews)
      /\ Typed /\ package[r] \in Packages /\ reviews \in Nat
  BY RecordingFacts
<1>2. c \in Captures /\ c \in Contents /\ c # None
  BY <1>1, InboxAssumption DEF Sound
<1>3. e \in Envelopes /\ e # None /\ e.content = c /\ e.state = "Ready" /\ e.kind = "capture" /\ e.review = 0
  BY <1>2, InboxAssumption DEF Envelope, Envelopes
<1>4. Entitled(e, capture[r], reviews)
  BY <1>1, <1>2, <1>3 DEF Entitled
<1>5. /\ p \in Packages /\ p.dir /\ p.envelope = package[r].envelope
      /\ p.temporary = package[r].temporary /\ p.audio = c /\ p.tracks = package[r].tracks
  BY <1>1, <1>2 DEF Normalized, Packages
<1>6. Names(r, p, importer) = Names(r, package[r], importer)
  BY <1>5 DEF Names
<1>7. c \in Contents0(r)
  BY <1>2 DEF Contents0, ContentsOf
<1>8. ASSUME NEW x \in Names(r, package[r], importer)
      PROVE  x.content = c /\ Entitled(x, capture[r], reviews)
  <2>1. x.content \in Contents0(r)
    BY DEF Contents0, ContentsOf
  <2>2. QED
    BY <1>1, <1>7, <2>1, SMTT(30) DEF InboxInv, Named, Contents0, Sound
<1>9. ASSUME importer.recording = r PROVE ~Finishing(importer) /\ importer.content = c
  <2>1. /\ importer # Idle /\ importer.envelope \in Names(r, package[r], importer)
    BY <1>1, <1>9, InboxAssumption, ImporterIsTyped DEF Idle
  <2>2. OnTheWay(importer)
    BY <1>1, <1>9 DEF Sound
  <2>3. Entitled(importer.envelope, capture[r], reviews) /\ importer.envelope.content = c
    BY <1>8, <2>1
  <2>4. importer.envelope.kind = "capture" /\ importer.envelope.state = "Ready"
    BY <1>2, <2>3 DEF Entitled
  <2>5. QED
    BY <2>2, <2>3, <2>4 DEF OnTheWay, Finishing
<1>10. r \in used
  BY <1>1, <1>2 DEF Sound
<1>11. QED
  BY <1>3, <1>4, <1>5, <1>6, <1>7, <1>8, <1>9, <1>10

LEMMA FinalizeInv ==
  ASSUME InboxInv, NEW r \in Recordings, Finalize(r)
  PROVE  InboxInv'
<1> DEFINE c == capture[r].content
<1> DEFINE p == Normalized(r)
<1> DEFINE e == Envelope("capture", c, "Ready")
<1> DEFINE q == Persisted(p, e)
<1>1. /\ capture[r].phase = "recording" /\ package[r].dir
      /\ package' = [package EXCEPT ![r] = q] /\ damaged' = damaged \ {r}
      /\ capture' = [capture EXCEPT ![r].phase = "persisted"]
      /\ UNCHANGED <<used, importer, reviewer, ledger, reviews, mishaps>>
  BY DEF Finalize, Set, bounds
<1>2. /\ e \in Envelopes /\ e # None /\ e.content = c /\ e.state = "Ready"
      /\ Entitled(e, capture[r], reviews) /\ r \in used
      /\ p \in Packages /\ p.temporary = package[r].temporary /\ p.audio = c
      /\ \A x \in Names(r, package[r], importer) : x.content = c /\ Entitled(x, capture[r], reviews)
      /\ importer.recording = r => ~Finishing(importer) /\ importer.content = c
      /\ c \in Contents0(r)
  BY <1>1, FinalizedIsSound
<1>3. /\ Typed /\ mishaps \in Nat
      /\ Sound(r, package[r], importer, capture[r], ledger[r], used, damaged, reviews)
  BY RecordingFacts
<1> HIDE DEF p, e
<1>4. /\ q \in Packages /\ q.dir /\ q.envelope = e /\ q.temporary = p.temporary /\ q.audio = c
  BY <1>2 DEF Persisted, Packages
<1> HIDE DEF q
<1>5. /\ capture' \in [Recordings -> [phase : {"none", "recording", "persisted", "stopped"},
                                      content : Captures \cup {None}]]
      /\ capture'[r].content = c /\ capture'[r].phase = "persisted"
      /\ \A x \in Recordings \ {r} : capture'[x] = capture[x]
  BY <1>1, <1>3 DEF Typed
<1>6. \A x \in Names(r, q, importer) : x = e \/ x \in Names(r, package[r], importer)
  BY <1>2, <1>4 DEF Names
<1>7. \A x \in Names(r, q, importer) : Entitled(x, capture'[r], reviews) /\ x.content = c
  BY <1>2, <1>5, <1>6 DEF Entitled
<1>8. Whole(r, q, importer)
  BY <1>2, <1>4, <1>7 DEF Whole, Names
<1>10. importer.recording = r => Alone(importer, q) /\ OnTheWay(importer)
  BY <1>2, <1>3 DEF Sound, Alone
<1>11. Sound(r, q, importer, capture'[r], ledger[r], used, damaged', reviews)
  BY <1>1, <1>2, <1>3, <1>4, <1>5, <1>7, <1>8, <1>10 DEF Sound
<1>12. ContentsOf(r, q, importer, capture'[r]) \subseteq Contents0(r)
  BY <1>2, <1>5, <1>7 DEF ContentsOf
<1>13. \A x \in Recordings \ {r} : x \in damaged' <=> x \in damaged
  BY <1>1
<1>14. QED
  BY <1>1, <1>3, <1>5, <1>11, <1>12, <1>13, RecordingFacts, OtherStep DEF Typed

LEMMA FinalizePartlyInv ==
  ASSUME InboxInv, NEW r \in Recordings, FinalizePartly(r)
  PROVE  InboxInv'
<1> DEFINE c == capture[r].content
<1> DEFINE p == Normalized(r)
<1> DEFINE e == Envelope("capture", c, "Ready")
<1>1. /\ capture[r].phase = "recording" /\ package[r].dir /\ package[r].tracks
      /\ mishaps < MaxMishaps /\ mishaps' = mishaps + 1
      /\ UNCHANGED <<used, importer, reviewer, capture, ledger, damaged, reviews>>
  BY DEF FinalizePartly, Mishap
<1>2. /\ e \in Envelopes /\ e # None /\ e.content = c /\ e.state = "Ready"
      /\ Entitled(e, capture[r], reviews) /\ r \in used
      /\ p \in Packages /\ p.envelope = package[r].envelope /\ p.temporary = package[r].temporary
      /\ p.audio = c
      /\ \A x \in Names(r, package[r], importer) : x.content = c /\ Entitled(x, capture[r], reviews)
      /\ importer.recording = r => ~Finishing(importer) /\ importer.content = c
      /\ c \in Contents0(r)
  BY <1>1, FinalizedIsSound
<1>3. /\ Typed /\ mishaps \in Nat
      /\ Sound(r, package[r], importer, capture[r], ledger[r], used, damaged, reviews)
  BY RecordingFacts
<1>4. PICK q \in PersistPartly(p, e) : package' = [package EXCEPT ![r] = q]
  BY DEF FinalizePartly, Set
<1> HIDE DEF p, e
<1>5. /\ q \in Packages /\ q.dir /\ q.envelope = package[r].envelope
      /\ q.temporary \in {package[r].temporary, e} /\ q.audio = c
  BY <1>2 DEF PersistPartly, Packages
<1>6. \A x \in Names(r, q, importer) : x = e \/ x \in Names(r, package[r], importer)
  BY <1>5 DEF Names
<1>7. \A x \in Names(r, q, importer) : Entitled(x, capture[r], reviews) /\ x.content = c
  BY <1>2, <1>6
<1>8. Whole(r, q, importer)
  BY <1>2, <1>5, <1>7 DEF Whole, Names
<1>10. importer.recording = r => Alone(importer, q) /\ OnTheWay(importer)
  BY <1>2, <1>3 DEF Sound, Alone
<1>11. Sound(r, q, importer, capture[r], ledger[r], used, damaged, reviews)
  BY <1>2, <1>3, <1>5, <1>7, <1>8, <1>10 DEF Sound
<1>12. ContentsOf(r, q, importer, capture[r]) \subseteq Contents0(r)
  BY <1>2, <1>7 DEF ContentsOf
<1>13. QED
  BY <1>1, <1>3, <1>4, <1>11, <1>12, RecordingFacts, OtherStep DEF Typed

LEMMA RecordFinalizedInv ==
  ASSUME InboxInv, NEW r \in Recordings, RecordFinalized(r)
  PROVE  InboxInv'
<1>1. /\ Typed /\ package = [package EXCEPT ![r] = package[r]]
      /\ Sound(r, package[r], importer, capture[r], ledger[r], used, damaged, reviews)
  BY RecordingFacts
<1>2. /\ capture[r].phase = "persisted"
      /\ UNCHANGED <<used, importer, reviewer, ledger, damaged, reviews, mishaps>>
      /\ \E phase \in {"stopped", "recording"} : capture' = [capture EXCEPT ![r].phase = phase]
  BY DEF RecordFinalized, bounds
<1>3. /\ capture' \in [Recordings -> [phase : {"none", "recording", "persisted", "stopped"},
                                      content : Captures \cup {None}]]
      /\ capture'[r].content = capture[r].content /\ capture'[r].phase \in {"stopped", "recording"}
      /\ \A x \in Recordings \ {r} : capture'[x] = capture[x]
  BY <1>1, <1>2 DEF Typed
<1>4. PICK q : /\ package' = [package EXCEPT ![r] = q]
               /\ Sound(r, q, importer, capture[r], ledger[r], used, damaged, reviews)
               /\ ContentsOf(r, q, importer, capture[r]) \subseteq Contents0(r)
  <2>1. CASE CanAppend(r)
             /\ package' = [package EXCEPT ![r] = Appended(package[r], "capture_finalized", "line")]
    <3>1. package[r].dir /\ "capture_finalized" \in Kinds
      BY <2>1 DEF CanAppend, Loads, Kinds
    <3> DEFINE q == Appended(package[r], "capture_finalized", "line")
    <3>2. \E end \in {"line", "whole", "torn"} : q = Appended(package[r], "capture_finalized", end)
      OBVIOUS
    <3> HIDE DEF q
    <3>3. /\ Sound(r, q, importer, capture[r], ledger[r], used, damaged, reviews)
          /\ ContentsOf(r, q, importer, capture[r]) \subseteq Contents0(r)
      BY <1>1, <3>1, <3>2, AppendedIsSound DEF Contents0
    <3>4. QED
      BY <2>1, <3>3 DEF q
  <2>2. CASE UNCHANGED package
    BY <1>1, <2>2 DEF Contents0
  <2>3. QED
    BY <2>1, <2>2 DEF RecordFinalized, Set
<1>5. \A x \in Names(r, q, importer) : Entitled(x, capture'[r], reviews)
  BY <1>3, <1>4 DEF Sound, Entitled
<1>6. Sound(r, q, importer, capture'[r], ledger[r], used, damaged, reviews)
  BY <1>2, <1>3, <1>4, <1>5 DEF Sound
<1>7. ContentsOf(r, q, importer, capture'[r]) \subseteq Contents0(r)
  BY <1>3, <1>4 DEF ContentsOf
<1>8. QED
  BY <1>1, <1>2, <1>3, <1>4, <1>6, <1>7, OtherStep, RecordingFacts DEF Typed

------------------------
(* The processing engine. *)

\* A recording that the ledger takes is ready, so nobody finishes it any more.
LEMMA EnqueuedIsSound ==
  ASSUME InboxInv, NEW r \in Recordings, Enqueueable(r), Enqueued(r),
         package' = [package EXCEPT ![r] = Recovered(package[r])],
         UNCHANGED <<used, importer, reviewer, capture, damaged, reviews, mishaps>>
  PROVE  InboxInv'
<1> DEFINE q == Recovered(package[r])
<1> DEFINE l == IF ledger[r] = "none" THEN "queued" ELSE ledger[r]
<1>1. /\ Typed
      /\ Sound(r, package[r], importer, capture[r], ledger[r], used, damaged, reviews)
  BY RecordingFacts
<1>2. /\ Sound(r, q, importer, capture[r], ledger[r], used, damaged, reviews)
      /\ ContentsOf(r, q, importer, capture[r]) \subseteq Contents0(r)
      /\ q \in Packages /\ q.dir
  BY <1>1, RecoveredIsSound DEF Contents0, Enqueueable, Loads
<1>3. q.envelope # None /\ q.envelope.state = "Ready" /\ r \in used
  <2>1. package[r] \in Packages /\ package[r].dir /\ Loaded(package[r]) # None
        /\ Loaded(package[r]).state = "Ready"
    BY <1>1 DEF Enqueueable, Loads, Sound
  <2>2. q.envelope = Loaded(package[r])
    BY <2>1 DEF Recovered, Packages
  <2>3. QED
    BY <1>1, <2>1, <2>2 DEF Sound, NoPackage
<1>4. /\ ledger' \in [Recordings -> {"none", "queued", "discarding", "discarded"}]
      /\ ledger'[r] = l /\ \A x \in Recordings \ {r} : ledger'[x] = ledger[x]
  BY <1>1 DEF Typed, Enqueued
<1>5. l \in {"none", "queued", "discarding", "discarded"} /\ (Protected(l) => Protected(ledger[r]))
  BY <1>1 DEF Sound, Protected
<1> HIDE DEF q, l
<1>7. Sound(r, q, importer, capture[r], l, used, damaged, reviews)
  BY <1>2, <1>3, <1>5 DEF Sound
<1>8. package' = [package EXCEPT ![r] = q]
  BY DEF q
<1>9. QED
  BY <1>1, <1>2, <1>4, <1>7, <1>8, OtherStep, RecordingFacts DEF Typed

LEMMA AdoptInv ==
  ASSUME InboxInv, NEW r \in Recordings, Adopt(r)
  PROVE  InboxInv'
<1>1. UNCHANGED <<used, importer, reviewer, capture, damaged, reviews, mishaps>>
  BY DEF Adopt, bounds
<1>2. CASE Enqueueable(r) /\ Enqueued(r) /\ Set(r, Recovered(package[r]))
  BY <1>1, <1>2, EnqueuedIsSound DEF Set
<1>3. CASE UNCHANGED <<package, ledger>>
  BY <1>1, <1>3 DEF InboxInv, Typed
<1>4. QED
  BY <1>2, <1>3 DEF Adopt

LEMMA ProcessInv ==
  ASSUME InboxInv, NEW r \in Recordings, Process(r)
  PROVE  InboxInv'
<1>1. /\ UNCHANGED <<used, importer, reviewer, capture, damaged, reviews, mishaps>>
      /\ Enqueueable(r) /\ Enqueued(r) /\ package' = [package EXCEPT ![r] = Recovered(package[r])]
  BY DEF Process, Set, bounds
<1>2. QED
  BY <1>1, EnqueuedIsSound

LEMMA BeginDiscardInv ==
  ASSUME InboxInv, NEW r \in Recordings, BeginDiscard(r)
  PROVE  InboxInv'
<1>1. /\ ledger[r] = "queued" /\ ledger' = [ledger EXCEPT ![r] = "discarding"]
      /\ UNCHANGED <<package, used, importer, reviewer, capture, damaged, reviews, mishaps>>
  BY DEF BeginDiscard, bounds
<1>2. /\ Typed /\ package = [package EXCEPT ![r] = package[r]]
      /\ Sound(r, package[r], importer, capture[r], ledger[r], used, damaged, reviews)
  BY RecordingFacts
<1>3. /\ ledger' \in [Recordings -> {"none", "queued", "discarding", "discarded"}]
      /\ ledger'[r] = "discarding" /\ \A x \in Recordings \ {r} : ledger'[x] = ledger[x]
  BY <1>1, <1>2 DEF Typed
<1>4. Sound(r, package[r], importer, capture[r], "discarding", used, damaged, reviews)
  BY <1>1, <1>2 DEF Sound, Protected
<1>5. package' = [package EXCEPT ![r] = package[r]]
  BY <1>1, <1>2
<1>6. ContentsOf(r, package[r], importer, capture[r]) \subseteq Contents0(r)
  BY DEF Contents0
<1>7. QED
  BY <1>1, <1>2, <1>3, <1>4, <1>5, <1>6, OtherStep, RecordingFacts DEF Typed

LEMMA EndDiscardInv ==
  ASSUME InboxInv, NEW r \in Recordings, EndDiscard(r)
  PROVE  InboxInv'
<1>1. /\ ledger[r] = "discarding" /\ ledger' = [ledger EXCEPT ![r] = "discarded"]
      /\ UNCHANGED <<package, used, importer, reviewer, capture, damaged, reviews, mishaps>>
  BY DEF EndDiscard, bounds
<1>2. /\ Typed /\ package = [package EXCEPT ![r] = package[r]]
      /\ Sound(r, package[r], importer, capture[r], ledger[r], used, damaged, reviews)
  BY RecordingFacts
<1>3. /\ ledger' \in [Recordings -> {"none", "queued", "discarding", "discarded"}]
      /\ ledger'[r] = "discarded" /\ \A x \in Recordings \ {r} : ledger'[x] = ledger[x]
  BY <1>1, <1>2 DEF Typed
<1>4. Sound(r, package[r], importer, capture[r], "discarded", used, damaged, reviews)
  BY <1>1, <1>2 DEF Sound, Protected
<1>5. package' = [package EXCEPT ![r] = package[r]]
  BY <1>1, <1>2
<1>6. ContentsOf(r, package[r], importer, capture[r]) \subseteq Contents0(r)
  BY DEF Contents0
<1>7. QED
  BY <1>1, <1>2, <1>3, <1>4, <1>5, <1>6, OtherStep, RecordingFacts DEF Typed

LEMMA RemovePackageInv ==
  ASSUME InboxInv, NEW r \in Recordings, RemovePackage(r)
  PROVE  InboxInv'
<1> DEFINE q == NoPackage
<1>1. /\ ledger[r] = "discarding" /\ package' = [package EXCEPT ![r] = q]
      /\ damaged' = damaged \ {r}
      /\ UNCHANGED <<used, importer, reviewer, capture, ledger, reviews, mishaps>>
  BY DEF RemovePackage, Set, bounds
<1>2. /\ Typed
      /\ Sound(r, package[r], importer, capture[r], ledger[r], used, damaged, reviews)
  BY RecordingFacts
<1>3. /\ q \in Packages /\ q.envelope = None /\ q.temporary = None /\ ~q.dir /\ ~q.tracks
  BY DEF NoPackage, Packages
<1>4. /\ Names(r, q, importer) \subseteq Names(r, package[r], importer) /\ r \in used
  BY <1>1, <1>2, <1>3 DEF Names, Sound
<1>7. ~Protected(ledger[r])
  BY <1>1 DEF Protected
<1>9. importer.recording = r => OnTheWay(importer) /\ Alone(importer, q)
  BY <1>2, <1>3 DEF Sound, Alone
<1>10. Sound(r, q, importer, capture[r], ledger[r], used, damaged', reviews)
  BY <1>2, <1>3, <1>4, <1>7, <1>9 DEF Sound
<1>11. ContentsOf(r, q, importer, capture[r]) \subseteq Contents0(r)
  BY <1>4 DEF ContentsOf, Contents0
<1>12. \A x \in Recordings \ {r} : x \in damaged' <=> x \in damaged
  BY <1>1
<1> HIDE DEF q
<1>13. QED
  BY <1>1, <1>2, <1>10, <1>11, <1>12, OtherStep, RecordingFacts DEF Typed

LEMMA RemovePartlyInv ==
  ASSUME InboxInv, NEW r \in Recordings, RemovePartly(r)
  PROVE  InboxInv'
<1>1. /\ ledger[r] = "discarding" /\ package[r].dir /\ damaged' = damaged \cup {r}
      /\ mishaps < MaxMishaps /\ mishaps' = mishaps + 1
      /\ UNCHANGED <<used, importer, reviewer, capture, ledger, reviews>>
  BY DEF RemovePartly, Mishap
<1>2. /\ Typed /\ package[r] \in Packages /\ mishaps \in Nat
      /\ Sound(r, package[r], importer, capture[r], ledger[r], used, damaged, reviews)
  BY RecordingFacts
<1>3. PICK envelope \in BOOLEAN, audio \in BOOLEAN, temporary \in BOOLEAN :
         package' = [package EXCEPT ![r] =
                        [package[r] EXCEPT !.envelope = IF envelope THEN @ ELSE None,
                                           !.audio = IF audio THEN @ ELSE None,
                                           !.temporary = IF temporary THEN @ ELSE None]]
  BY DEF RemovePartly, Set
<1> DEFINE q == [package[r] EXCEPT !.envelope = IF envelope THEN @ ELSE None,
                                   !.audio = IF audio THEN @ ELSE None,
                                   !.temporary = IF temporary THEN @ ELSE None]
<1>4. /\ q \in Packages /\ q.dir /\ q.envelope \in {package[r].envelope, None}
      /\ q.temporary \in {package[r].temporary, None}
  BY <1>1, <1>2 DEF Packages
<1>5. package' = [package EXCEPT ![r] = q]
  BY <1>3
<1> HIDE DEF q
<1>6. Names(r, q, importer) \subseteq Names(r, package[r], importer) /\ r \in used
  BY <1>1, <1>2, <1>4 DEF Names, Sound
<1>11. importer.recording = r => OnTheWay(importer) /\ ~Protected(ledger[r])
  BY <1>1, <1>2 DEF Sound, Protected
<1>12. r \in damaged'
  BY <1>1
<1>13. Sound(r, q, importer, capture[r], ledger[r], used, damaged', reviews)
  BY <1>2, <1>4, <1>6, <1>11, <1>12 DEF Sound
<1>14. ContentsOf(r, q, importer, capture[r]) \subseteq Contents0(r)
  BY <1>6 DEF ContentsOf, Contents0
<1>15. \A x \in Recordings \ {r} : x \in damaged' <=> x \in damaged
  BY <1>1
<1>16. QED
  BY <1>1, <1>2, <1>5, <1>13, <1>14, <1>15, OtherStep, RecordingFacts, ZenonT(40) DEF Typed

LEMMA PruneInv ==
  ASSUME InboxInv, NEW r \in Recordings, Prune(r)
  PROVE  InboxInv'
<1> DEFINE p == Recovered(package[r])
<1> DEFINE q == [p EXCEPT !.tracks = FALSE]
<1>1. /\ package' = [package EXCEPT ![r] = q] /\ Enqueueable(r)
      /\ UNCHANGED <<used, importer, reviewer, capture, ledger, damaged, reviews, mishaps>>
  BY DEF Prune, Set, bounds
<1>2. /\ Typed
      /\ Sound(r, package[r], importer, capture[r], ledger[r], used, damaged, reviews)
  BY RecordingFacts
<1>3. /\ Sound(r, p, importer, capture[r], ledger[r], used, damaged, reviews)
      /\ ContentsOf(r, p, importer, capture[r]) \subseteq Contents0(r)
      /\ p \in Packages /\ p.dir
  BY <1>1, <1>2, RecoveredIsSound DEF Contents0, Enqueueable, Loads
<1> HIDE DEF p
<1>4. /\ q \in Packages /\ q.dir /\ q.envelope = p.envelope /\ q.temporary = p.temporary
      /\ q.audio = p.audio /\ ~q.tracks
  BY <1>3 DEF Packages
<1> HIDE DEF q
<1>5. Names(r, q, importer) = Names(r, p, importer)
  BY <1>4 DEF Names
<1>6. r \in used
  BY <1>3 DEF Sound, NoPackage
<1>7. Sound(r, q, importer, capture[r], ledger[r], used, damaged, reviews)
  BY <1>3, <1>4, <1>5, <1>6 DEF Sound, Alone, Whole
<1>8. ContentsOf(r, q, importer, capture[r]) \subseteq Contents0(r)
  BY <1>3, <1>5 DEF ContentsOf
<1>9. QED
  BY <1>1, <1>2, <1>7, <1>8, OtherStep, RecordingFacts DEF Typed

LEMMA DamageInv ==
  ASSUME InboxInv, NEW r \in Recordings, Damage(r)
  PROVE  InboxInv'
<1> DEFINE p == package[r]
<1> DEFINE q == [p EXCEPT !.audio = None]
<1>1. /\ package' = [package EXCEPT ![r] = q] /\ damaged' = damaged \cup {r} /\ p.audio # None
      /\ mishaps < MaxMishaps /\ mishaps' = mishaps + 1
      /\ UNCHANGED <<used, importer, reviewer, capture, ledger, reviews>>
  BY DEF Damage, Set, Mishap
<1>2. /\ Typed /\ mishaps \in Nat /\ p \in Packages
      /\ Sound(r, p, importer, capture[r], ledger[r], used, damaged, reviews)
  BY RecordingFacts
<1>3. p.dir /\ r \in used
  BY <1>1, <1>2 DEF Sound, NoPackage
<1>4. /\ q \in Packages /\ q.dir /\ q.envelope = p.envelope /\ q.temporary = p.temporary
      /\ q.tracks = p.tracks
  BY <1>2, <1>3 DEF Packages
<1>5. /\ Names(r, q, importer) = Names(r, p, importer)
      /\ ContentsOf(r, q, importer, capture[r]) = Contents0(r)
  BY <1>4 DEF Names, ContentsOf, Contents0
<1> HIDE DEF p, q
<1>7. r \in damaged'
  BY <1>1
<1>8. Sound(r, q, importer, capture[r], ledger[r], used, damaged', reviews)
  BY <1>2, <1>3, <1>4, <1>5, <1>7 DEF Sound, Alone
<1>9. \A x \in Recordings \ {r} : x \in damaged' <=> x \in damaged
  BY <1>1
<1>10. QED
  BY <1>1, <1>2, <1>5, <1>8, <1>9, OtherStep, RecordingFacts, ZenonT(40) DEF Typed

LEMMA InboxStep == InboxInv /\ [Next]_vars => InboxInv'
<1> SUFFICES ASSUME InboxInv, [Next]_vars PROVE InboxInv'
  OBVIOUS
<1>1. ASSUME NEW r \in Recordings,
             \/ Confirm(r) \/ ConfirmPartly(r) \/ \E content \in Captures : BeginCapture(r, content)
             \/ Finalize(r) \/ FinalizePartly(r) \/ RecordFinalized(r)
             \/ Adopt(r) \/ Process(r) \/ Prune(r) \/ Damage(r)
             \/ BeginDiscard(r) \/ RemovePackage(r) \/ RemovePartly(r) \/ EndDiscard(r)
      PROVE  InboxInv'
  BY <1>1, ConfirmInv, ConfirmPartlyInv, BeginCaptureInv, FinalizeInv, FinalizePartlyInv,
     RecordFinalizedInv, AdoptInv, ProcessInv, PruneInv, DamageInv, BeginDiscardInv,
     RemovePackageInv, RemovePartlyInv, EndDiscardInv
<1>2. CASE ImportNext
  BY <1>2, FindInv, VerifyInv, PersistInv, RecordInv, CopyInv, ImportStopsInv, ImportPartlyInv
     DEF ImportNext
<1>3. CASE RecordReview \/ ListReady
  BY <1>3, RecordReviewInv, ListReadyInv
<1>4. CASE UNCHANGED vars
  BY <1>4 DEF vars, bounds, InboxInv, Typed
<1>5. QED
  BY <1>1, <1>2, <1>3, <1>4 DEF Next

LEMMA InboxInvariant == Spec => []InboxInv
<1>1. Init => InboxInv
  BY InboxInit
<1>2. InboxInv /\ [Next]_vars => InboxInv'
  BY InboxStep
<1>3. QED
  BY <1>1, <1>2, PTL DEF Spec

------------------------
(* What a step does to a package's review and its journal. *)

EventStays(j, k) ==
    \A i \in DOMAIN j : j[i].end # "torn" => i \in DOMAIN k /\ k[i].kind = j[i].kind

Keeps(p, q, l) ==
    /\ q.dir => EventStays(p.journal, q.journal)
    /\ l \in {"none", "queued"} /\ p.envelope # None /\ q.envelope # None
       => q.envelope.review >= p.envelope.review

AllKeep == \A r \in Recordings : Keeps(package[r], package'[r], ledger[r])

LEMMA Unwritten ==
  ASSUME NEW p \in Packages, NEW q, NEW l, q.journal = p.journal,
         q.envelope \in {p.envelope, None} \/ p.envelope = None
  PROVE  Keeps(p, q, l)
<1>1. p.envelope # None => p.envelope.review \in Nat
  BY DEF Packages, Envelopes
<1>2. QED
  BY <1>1 DEF Keeps, EventStays

LEMMA TailKeeps ==
  ASSUME NEW j \in Seq(Events)
  PROVE  EventStays(j, RecoverTail(j))
<1>1. CASE j = <<>>
  BY <1>1 DEF RecoverTail, EventStays
<1>2. CASE j # <<>>
  <2>1. /\ Len(j) \in Nat \ {0} /\ DOMAIN j = 1 .. Len(j) /\ Last(j) = j[Len(j)]
        /\ \A i \in 1 .. Len(j) : j[i] \in Events
    BY <1>2 DEF Last
  <2>2. CASE Last(j).end = "line"
    BY <2>1, <2>2 DEF RecoverTail, EventStays
  <2>3. CASE Last(j).end = "whole"
    <3> DEFINE k == [j EXCEPT ![Len(j)].end = "line"]
    <3>1. RecoverTail(j) = k
      BY <1>2, <2>3 DEF RecoverTail
    <3>2. DOMAIN k = 1 .. Len(j) /\ \A i \in 1 .. Len(j) : k[i].kind = j[i].kind
      BY <2>1 DEF Events
    <3>3. QED
      BY <2>1, <3>1, <3>2 DEF EventStays
  <2>4. CASE Last(j).end = "torn"
    <3>1. RecoverTail(j) = Front(j)
      BY <1>2, <2>4 DEF RecoverTail
    <3>2. Front(j) = [i \in 1 .. Len(j) - 1 |-> j[i]]
      BY DEF Front
    <3>3. \A i \in DOMAIN j : j[i].end # "torn" => i \in 1 .. Len(j) - 1
      BY <2>1, <2>4
    <3>4. QED
      BY <3>1, <3>2, <3>3 DEF EventStays
  <2>5. QED
    BY <2>1, <2>2, <2>3, <2>4 DEF Events
<1>3. QED
  BY <1>1, <1>2

LEMMA AppendedKeeps ==
  ASSUME NEW p \in Packages, NEW q, NEW l, NEW kind,
         \/ \E end \in {"line", "whole", "torn"} : q = Appended(p, kind, end)
         \/ q = [Recovered(p) EXCEPT !.journal = RecoverTail(@)]
  PROVE  Keeps(p, q, l)
<1> DEFINE o == Recovered(p)
<1> DEFINE k == RecoverTail(o.journal)
<1>1. /\ o \in Packages /\ o.journal = p.journal /\ o.envelope = Loaded(p)
      /\ o.envelope = p.envelope \/ p.envelope = None
  BY DEF Recovered, Loaded, Packages
<1>2. EventStays(p.journal, k) /\ k \in Seq(Events)
  BY <1>1, TailKeeps, TailIsTyped DEF Packages
<1>3. PICK j : /\ q = [o EXCEPT !.journal = j] /\ EventStays(p.journal, j)
  <2>1. CASE q = [o EXCEPT !.journal = k]
    BY <1>2, <2>1
  <2>2. ASSUME NEW end \in {"line", "whole", "torn"}, q = Appended(p, kind, end)
        PROVE  \E j : q = [o EXCEPT !.journal = j] /\ EventStays(p.journal, j)
    <3> DEFINE e == [kind |-> kind, end |-> end]
    <3>1. q = [o EXCEPT !.journal = Append(k, e)]
      BY <2>2 DEF Appended
    <3> HIDE DEF e, k, o
    <3>2. \A i \in DOMAIN k : i \in DOMAIN Append(k, e) /\ Append(k, e)[i] = k[i]
      BY <1>2
    <3>3. EventStays(p.journal, Append(k, e))
      BY <1>2, <3>2 DEF EventStays
    <3>4. QED
      BY <3>1, <3>3
  <2>3. QED
    BY <2>1, <2>2
<1> HIDE DEF o, k
<1>4. q.journal = j /\ q.envelope = o.envelope
  BY <1>1, <1>3 DEF Packages
<1>5. p.envelope # None => p.envelope.review \in Nat
  BY DEF Packages, Envelopes
<1>6. QED
  BY <1>1, <1>3, <1>4, <1>5 DEF Keeps

LEMMA OneKeeps ==
  ASSUME Typed, NEW r \in Recordings, NEW q, package' = [package EXCEPT ![r] = q],
         Keeps(package[r], q, ledger[r])
  PROVE  AllKeep
<1>1. ASSUME NEW x \in Recordings \ {r} PROVE Keeps(package[x], package'[x], ledger[x])
  BY Unwritten DEF Typed
<1>2. package'[r] = q
  BY DEF Typed
<1>3. QED
  BY <1>1, <1>2 DEF AllKeep

LEMMA StillKeeps ==
  ASSUME Typed, UNCHANGED package
  PROVE  AllKeep
BY Unwritten DEF AllKeep, Typed

LEMMA RecoveredKeep ==
  ASSUME InboxInv, package' = AllRecovered
  PROVE  AllKeep
<1>1. ASSUME NEW r \in Recordings PROVE Keeps(package[r], package'[r], ledger[r])
  <2>1. package[r] \in Packages /\ package'[r] = Recovered(package[r])
    BY AllAreRecovered DEF InboxInv, Typed
  <2>2. Recovered(package[r]).journal = package[r].journal
        /\ Recovered(package[r]).envelope = Loaded(package[r])
    BY <2>1 DEF Recovered, Packages
  <2>3. QED
    BY <2>1, <2>2, Unwritten DEF Loaded
<1>2. QED
  BY <1>1 DEF AllKeep

\* An import is resumed with an envelope that has no review: while it goes on,
\* the one in the package is not ready, so it has none either.
LEMMA PersistKeeps ==
  ASSUME InboxInv, Persist
  PROVE  AllKeep
<1> DEFINE r == importer.recording
<1> DEFINE e == importer.envelope
<1> DEFINE q == Persisted(package[r], e)
<1>1. importer # Idle /\ importer.pc = "persist" /\ package' = [package EXCEPT ![r] = q]
  BY DEF Persist, Set, Idle
<1>2. /\ Typed /\ r \in Recordings /\ e \in Envelopes
  BY <1>1, ImporterIsTyped DEF InboxInv
<1>3. /\ package[r] \in Packages
      /\ Sound(r, package[r], importer, capture[r], ledger[r], used, damaged, reviews)
  BY <1>2, RecordingFacts
<1>4. q.journal = package[r].journal /\ q.envelope = e
  BY <1>3 DEF Persisted, Packages
<1>5. ASSUME ledger[r] \in {"none", "queued"}, package[r].envelope # None
      PROVE  package[r].envelope.review = 0
  <2>1. package[r].envelope.state # "Ready"
    BY <1>1, <1>3, <1>5 DEF Sound, Alone, Protected, Finishing
  <2>2. package[r].envelope \in Names(r, package[r], importer)
    BY <1>5 DEF Names
  <2>3. QED
    BY <1>3, <2>1, <2>2 DEF Sound, Entitled
<1>6. e.review \in Nat
  BY <1>2 DEF Envelopes
<1> HIDE DEF q, e, r
<1>7. Keeps(package[r], q, ledger[r])
  BY <1>4, <1>5, <1>6 DEF Keeps, EventStays
<1>8. QED
  BY <1>1, <1>2, <1>7, OneKeeps

LEMMA RecordKeeps ==
  ASSUME InboxInv, Record
  PROVE  AllKeep
<1>1. /\ importer # Idle
      /\ package' = [package EXCEPT ![importer.recording] =
                        Appended(package[importer.recording], Event, "line")]
  BY DEF Record, Set, Idle
<1>2. Typed /\ importer.recording \in Recordings /\ package[importer.recording] \in Packages
  BY <1>1, ImporterIsTyped DEF InboxInv, Typed
<1> DEFINE q == Appended(package[importer.recording], Event, "line")
<1>3. \E end \in {"line", "whole", "torn"} : q = Appended(package[importer.recording], Event, end)
  OBVIOUS
<1> HIDE DEF q
<1>4. Keeps(package[importer.recording], q, ledger[importer.recording])
  BY <1>2, <1>3, AppendedKeeps
<1>5. QED
  BY <1>1, <1>2, <1>4, OneKeeps DEF q

LEMMA CopyKeeps ==
  ASSUME InboxInv, Copy
  PROVE  AllKeep
<1> DEFINE r == importer.recording
<1> DEFINE q == Copied(package[r], importer.content)
<1>1. importer # Idle /\ package' = [package EXCEPT ![r] = q]
  BY DEF Copy, Set, Idle
<1>2. Typed /\ r \in Recordings /\ package[r] \in Packages
  BY <1>1, ImporterIsTyped DEF InboxInv, Typed
<1>3. q.journal = package[r].journal /\ q.envelope = package[r].envelope
  BY <1>2 DEF Copied, Packages
<1> HIDE DEF q, r
<1>4. Keeps(package[r], q, ledger[r])
  BY <1>2, <1>3, Unwritten
<1>5. QED
  BY <1>1, <1>2, <1>4, OneKeeps

\* What is left of a persist that is cut short.
LEMMA PartlyKeeps ==
  ASSUME NEW p \in Packages, NEW e, NEW q \in PersistPartly(p, e), NEW l
  PROVE  Keeps(p, q, l)
<1>1. q.journal = p.journal /\ q.envelope = p.envelope
  BY DEF PersistPartly, Packages
<1>2. QED
  BY <1>1, Unwritten

LEMMA ImportPartlyKeeps ==
  ASSUME InboxInv, ImportPartly
  PROVE  AllKeep
<1> DEFINE r == importer.recording
<1>1. importer # Idle
  BY DEF ImportPartly, Idle
<1>2. Typed /\ r \in Recordings /\ package[r] \in Packages
  BY <1>1, ImporterIsTyped DEF InboxInv, Typed
<1>3. CASE \E q \in PersistPartly(package[r], importer.envelope) : Set(r, q)
  BY <1>2, <1>3, PartlyKeeps, OneKeeps DEF Set
<1>4. CASE \E q \in AppendPartly(package[r], Event) : Set(r, q)
  <2>1. PICK q \in AppendPartly(package[r], Event) : package' = [package EXCEPT ![r] = q]
    BY <1>4 DEF Set
  <2>2. \/ \E end \in {"line", "whole", "torn"} : q = Appended(package[r], Event, end)
        \/ q = [Recovered(package[r]) EXCEPT !.journal = RecoverTail(@)]
    BY <2>1 DEF AppendPartly
  <2>3. Keeps(package[r], q, ledger[r])
    BY <1>2, <2>2, AppendedKeeps
  <2>4. QED
    BY <1>2, <2>1, <2>3, OneKeeps
<1>5. CASE Set(r, [package[r] EXCEPT !.dir = TRUE])
  <2> DEFINE q == [package[r] EXCEPT !.dir = TRUE]
  <2>1. q.journal = package[r].journal /\ q.envelope = package[r].envelope
    BY <1>2 DEF Packages
  <2>2. package' = [package EXCEPT ![r] = q]
    BY <1>5 DEF Set
  <2> HIDE DEF q
  <2>3. Keeps(package[r], q, ledger[r])
    BY <1>2, <2>1, Unwritten
  <2>4. QED
    BY <1>2, <2>2, <2>3, OneKeeps
<1>6. QED
  BY <1>3, <1>4, <1>5 DEF ImportPartly

LEMMA ReviewKeeps ==
  ASSUME InboxInv, NEW r \in Recordings, Confirm(r) \/ ConfirmPartly(r)
  PROVE  AllKeep
<1> DEFINE p == Recovered(package[r])
<1> DEFINE e == Reviewed(Loaded(package[r]))
<1>1. Loads(r) /\ Reviewable(Loaded(package[r]))
  BY DEF Confirm, ConfirmPartly
<1>2. /\ p \in Packages /\ e.review = reviews + 1 /\ p.envelope.review <= reviews /\ e # None
      /\ e \in Envelopes /\ p.envelope \in Envelopes
  BY <1>1, ReviewedIsSound DEF Packages
<1>3. Typed /\ package[r] \in Packages /\ reviews \in Nat
  BY RecordingFacts
<1>4. /\ p.journal = package[r].journal
      /\ p.envelope = package[r].envelope \/ package[r].envelope = None
  BY <1>3 DEF Recovered, Loaded, Packages
<1>5. CASE Confirm(r)
  <2> DEFINE q == Persisted(p, e)
  <2>1. package' = [package EXCEPT ![r] = q]
    BY <1>5 DEF Confirm, Set
  <2>2. q.journal = p.journal /\ q.envelope = e
    BY <1>2 DEF Persisted, Packages
  <2>3. p.envelope.review \in Nat
    BY <1>2 DEF Envelopes
  <2> HIDE DEF q, p, e
  <2>4. Keeps(package[r], q, ledger[r])
    BY <1>2, <1>3, <1>4, <2>2, <2>3 DEF Keeps, EventStays
  <2>5. QED
    BY <1>3, <2>1, <2>4, OneKeeps
<1>6. CASE ConfirmPartly(r)
  <2>1. PICK q \in PersistPartly(p, e) : package' = [package EXCEPT ![r] = q]
    BY <1>6 DEF ConfirmPartly, Set
  <2>2. q.journal = p.journal /\ q.envelope = p.envelope
    BY <1>2 DEF PersistPartly, Packages
  <2> HIDE DEF p, e
  <2>3. Keeps(package[r], q, ledger[r])
    BY <1>3, <1>4, <2>2, Unwritten
  <2>4. QED
    BY <1>3, <2>1, <2>3, OneKeeps
<1>7. QED
  BY <1>5, <1>6

\* A capture's package has no envelope but the capture's, which has no review.
LEMMA CaptureKeeps ==
  ASSUME InboxInv, NEW r \in Recordings,
         \/ \E content \in Captures : BeginCapture(r, content)
         \/ Finalize(r) \/ FinalizePartly(r) \/ RecordFinalized(r)
  PROVE  AllKeep
<1>1. /\ Typed /\ package[r] \in Packages
      /\ Sound(r, package[r], importer, capture[r], ledger[r], used, damaged, reviews)
  BY RecordingFacts
<1>2. ASSUME NEW content \in Captures, BeginCapture(r, content) PROVE AllKeep
  <2> DEFINE q == [NoPackage EXCEPT !.dir = TRUE, !.tracks = TRUE]
  <2>1. package' = [package EXCEPT ![r] = q] /\ r \notin used
    BY <1>2 DEF BeginCapture, Set
  <2>2. package[r].envelope = None /\ q.journal = package[r].journal
    BY <1>1, <2>1 DEF Sound, NoPackage
  <2> HIDE DEF q
  <2>3. Keeps(package[r], q, ledger[r])
    BY <1>1, <2>2, Unwritten
  <2>4. QED
    BY <1>1, <2>1, <2>3, OneKeeps
<1>3. ASSUME Finalize(r) \/ FinalizePartly(r) PROVE AllKeep
  <2> DEFINE p == Normalized(r)
  <2> DEFINE e == Envelope("capture", capture[r].content, "Ready")
  <2>1. capture[r].phase = "recording" /\ package[r].dir
    BY <1>3 DEF Finalize, FinalizePartly
  <2>2. /\ p \in Packages /\ p.envelope = package[r].envelope
        /\ \A x \in Names(r, package[r], importer) :
              x.content = capture[r].content /\ Entitled(x, capture[r], reviews)
        /\ Entitled(e, capture[r], reviews) /\ e.content = capture[r].content
    BY <2>1, FinalizedIsSound
  <2>3. p.journal = package[r].journal
    BY <1>1 DEF Normalized, Packages
  <2>4. capture[r].content \in Captures
    BY <1>1, <2>1 DEF Sound
  <2>5. package[r].envelope # None => package[r].envelope.review = 0
    BY <2>2, <2>4 DEF Names, Entitled
  <2>6. e.review = 0
    BY DEF Envelope
  <2>7. PICK q : /\ package' = [package EXCEPT ![r] = q] /\ q.journal = p.journal
                 /\ q.envelope \in {p.envelope, e}
    <3>1. CASE Finalize(r)
      <4>1. Persisted(p, e).journal = p.journal /\ Persisted(p, e).envelope = e
        BY <2>2 DEF Persisted, Packages
      <4>2. QED
        BY <3>1, <4>1 DEF Finalize, Set
    <3>2. CASE FinalizePartly(r)
      <4>1. \A q \in PersistPartly(p, e) : q.journal = p.journal /\ q.envelope = p.envelope
        BY <2>2 DEF PersistPartly, Packages
      <4>2. QED
        BY <3>2, <4>1 DEF FinalizePartly, Set
    <3>3. QED
      BY <1>3, <3>1, <3>2
  <2> HIDE DEF p, e
  <2>8. Keeps(package[r], q, ledger[r])
    BY <2>2, <2>3, <2>5, <2>6, <2>7 DEF Keeps, EventStays
  <2>9. QED
    BY <1>1, <2>7, <2>8, OneKeeps
<1>4. ASSUME RecordFinalized(r) PROVE AllKeep
  <2>1. CASE package' = [package EXCEPT ![r] = Appended(package[r], "capture_finalized", "line")]
    <3> DEFINE q == Appended(package[r], "capture_finalized", "line")
    <3>1. \E end \in {"line", "whole", "torn"} : q = Appended(package[r], "capture_finalized", end)
      OBVIOUS
    <3> HIDE DEF q
    <3>2. Keeps(package[r], q, ledger[r])
      BY <1>1, <3>1, AppendedKeeps
    <3>3. QED
      BY <1>1, <2>1, <3>2, OneKeeps DEF q
  <2>2. QED
    BY <1>1, <1>4, <2>1, StillKeeps DEF RecordFinalized, Set
<1>5. QED
  BY <1>2, <1>3, <1>4

LEMMA RecordReviewKeeps ==
  ASSUME InboxInv, RecordReview
  PROVE  AllKeep
<1>1. Typed /\ reviewer \in Recordings /\ package[reviewer] \in Packages
  BY DEF InboxInv, Typed, RecordReview
<1>2. CASE package' = [package EXCEPT ![reviewer] = Appended(package[reviewer], "reviewed", "line")]
  <2> DEFINE q == Appended(package[reviewer], "reviewed", "line")
  <2>1. \E end \in {"line", "whole", "torn"} : q = Appended(package[reviewer], "reviewed", end)
    OBVIOUS
  <2> HIDE DEF q
  <2>2. Keeps(package[reviewer], q, ledger[reviewer])
    BY <1>1, <2>1, AppendedKeeps
  <2>3. QED
    BY <1>1, <1>2, <2>2, OneKeeps DEF q
<1>3. QED
  BY <1>1, <1>2, StillKeeps DEF RecordReview, Set

LEMMA EngineKeeps ==
  ASSUME InboxInv, NEW r \in Recordings,
         \/ Adopt(r) \/ Process(r) \/ Prune(r) \/ Damage(r)
         \/ BeginDiscard(r) \/ RemovePackage(r) \/ RemovePartly(r) \/ EndDiscard(r)
  PROVE  AllKeep
<1>1. Typed /\ package[r] \in Packages
  BY RecordingFacts
<1>2. /\ Recovered(package[r]) \in Packages /\ Recovered(package[r]).journal = package[r].journal
      /\ Recovered(package[r]).envelope \in {package[r].envelope, None} \/ package[r].envelope = None
  BY <1>1 DEF Recovered, Loaded, Packages
<1>3. CASE UNCHANGED package
  BY <1>1, <1>3, StillKeeps
<1>4. CASE package' = [package EXCEPT ![r] = Recovered(package[r])]
  <2>1. Keeps(package[r], Recovered(package[r]), ledger[r])
    BY <1>1, <1>2, Unwritten
  <2>2. QED
    BY <1>1, <1>4, <2>1, OneKeeps
<1>5. ASSUME NEW p \in Packages, NEW q, package' = [package EXCEPT ![r] = q],
             p.journal = package[r].journal,
             p.envelope \in {package[r].envelope, None} \/ package[r].envelope = None,
             q.journal = p.journal, q.envelope \in {p.envelope, None}
      PROVE  AllKeep
  <2>1. Keeps(package[r], q, ledger[r])
    BY <1>1, <1>5, Unwritten
  <2>2. QED
    BY <1>1, <1>5, <2>1, OneKeeps
<1>6. CASE Prune(r)
  <2> DEFINE p == Recovered(package[r])
  <2> DEFINE q == [p EXCEPT !.tracks = FALSE]
  <2>1. q.journal = p.journal /\ q.envelope = p.envelope /\ package' = [package EXCEPT ![r] = q]
    BY <1>2, <1>6 DEF Prune, Set, Packages
  <2> HIDE DEF q, p
  <2>2. QED
    BY <1>2, <1>5, <2>1 DEF p
<1>7. CASE Damage(r)
  <2> DEFINE q == [package[r] EXCEPT !.audio = None]
  <2>1. /\ q.journal = package[r].journal /\ q.envelope = package[r].envelope
        /\ package' = [package EXCEPT ![r] = q]
    BY <1>1, <1>7 DEF Damage, Set, Packages
  <2> HIDE DEF q
  <2>2. QED
    BY <1>1, <1>5, <2>1
<1>8. CASE RemovePartly(r)
  <2>1. PICK envelope \in BOOLEAN, audio \in BOOLEAN, temporary \in BOOLEAN :
           package' = [package EXCEPT ![r] =
                          [package[r] EXCEPT !.envelope = IF envelope THEN @ ELSE None,
                                             !.audio = IF audio THEN @ ELSE None,
                                             !.temporary = IF temporary THEN @ ELSE None]]
    BY <1>8 DEF RemovePartly, Set
  <2> DEFINE q == [package[r] EXCEPT !.envelope = IF envelope THEN @ ELSE None,
                                     !.audio = IF audio THEN @ ELSE None,
                                     !.temporary = IF temporary THEN @ ELSE None]
  <2>2. q.journal = package[r].journal /\ q.envelope \in {package[r].envelope, None}
    BY <1>1 DEF Packages
  <2>3. package' = [package EXCEPT ![r] = q]
    BY <2>1
  <2> HIDE DEF q
  <2>4. QED
    BY <1>1, <1>5, <2>2, <2>3
<1>9. CASE RemovePackage(r)
  <2>1. package' = [package EXCEPT ![r] = NoPackage]
    BY <1>9 DEF RemovePackage, Set
  <2>2. Keeps(package[r], NoPackage, ledger[r])
    BY DEF Keeps, NoPackage
  <2>3. QED
    BY <1>1, <2>1, <2>2, OneKeeps
<1>10. QED
  BY <1>3, <1>4, <1>6, <1>7, <1>8, <1>9 DEF Adopt, Process, BeginDiscard, EndDiscard, Set

LEMMA PackagesKeep == InboxInv /\ [Next]_vars => AllKeep
<1> SUFFICES ASSUME InboxInv, [Next]_vars PROVE AllKeep
  OBVIOUS
<1>1. Typed
  BY DEF InboxInv
<1>2. ASSUME NEW r \in Recordings,
             \/ Confirm(r) \/ ConfirmPartly(r) \/ \E content \in Captures : BeginCapture(r, content)
             \/ Finalize(r) \/ FinalizePartly(r) \/ RecordFinalized(r)
             \/ Adopt(r) \/ Process(r) \/ Prune(r) \/ Damage(r)
             \/ BeginDiscard(r) \/ RemovePackage(r) \/ RemovePartly(r) \/ EndDiscard(r)
      PROVE  AllKeep
  BY <1>2, ReviewKeeps, CaptureKeeps, EngineKeeps
<1>3. CASE ImportNext
  <2>1. ASSUME NEW content \in Contents, Find(content) PROVE AllKeep
    BY <2>1, RecoveredKeep DEF Find
  <2>2. CASE Verify \/ ImportStops
    BY <1>1, <2>2, StillKeeps DEF Verify, ImportStops
  <2>3. QED
    BY <1>3, <2>1, <2>2, PersistKeeps, RecordKeeps, CopyKeeps, ImportPartlyKeeps DEF ImportNext
<1>4. CASE RecordReview \/ ListReady
  BY <1>4, RecordReviewKeeps, RecoveredKeep DEF ListReady
<1>5. CASE UNCHANGED vars
  BY <1>1, <1>5, StillKeeps DEF vars
<1>6. QED
  BY <1>2, <1>3, <1>4, <1>5 DEF Next

------------------------
(* The theorems. *)

\* A recording that nobody discards has its audio when its envelope says
\* Ready, however many operations were cut short.
ReadyUntilDiscarded ==
    \A r \in Recordings \ damaged :
        ledger[r] \in {"none", "queued"} /\ package[r].envelope # None
        /\ package[r].envelope.state = "Ready" => AudioIs(r, package[r].envelope.content)

\* However many operations are cut short, a package whose recording is not being
\* discarded and that says Ready holds its audio (import_one, finalize).
THEOREM ReadyIsWholeUntilDiscarded == Spec => []ReadyUntilDiscarded
<1>1. InboxInv => ReadyUntilDiscarded
  BY DEF InboxInv, Sound, Whole, Protected, ReadyUntilDiscarded, AudioIs, NoPackage
<1>2. QED
  BY <1>1, InboxInvariant, PTL

\* One file is in the inbox once, for any number of recordings and mishaps
\* (find_envelope_by_sha256 reads every envelope before an id is given).
THEOREM ImportedOnce == Spec => []NoDuplicateImport
<1>1. ASSUME InboxInv PROVE NoDuplicateImport
  <2>1. ASSUME NEW r \in Recordings, package[r].envelope # None
        PROVE  package[r].envelope.content \in ContentsOf(r, package[r], importer, capture[r])
    BY <2>1 DEF ContentsOf, Names
  <2>2. SUFFICES ASSUME NEW r \in Recordings, NEW q \in Recordings,
                        package[r].envelope # None, package[q].envelope # None,
                        package[r].envelope.content = package[q].envelope.content
                 PROVE  r = q
    BY DEF NoDuplicateImport
  <2>3. QED
    BY <1>1, <2>1, <2>2, SMTT(30) DEF InboxInv, Named
<1>2. QED
  BY <1>1, InboxInvariant, PTL

\* A resumed import, a repeated confirmation and a finalization leave a review
\* that is there, until the recording's discard begins.
THEOREM ReviewStays == Spec => ReviewIsKept
<1>1. InboxInv /\ [Next]_vars =>
      \A r \in Recordings :
          /\ ledger[r] \in {"none", "queued"}
          /\ package[r].envelope # None /\ package'[r].envelope # None
          => package'[r].envelope.review >= package[r].envelope.review
  BY PackagesKeep DEF AllKeep, Keeps
<1>2. QED
  BY <1>1, InboxInvariant, PTL DEF Spec, ReviewIsKept

\* No repair of a journal's tail and no append drops a written event
\* (recover_event_tail, append_event).
THEOREM EventsStay == Spec => EventsAreKept
<1>1. InboxInv /\ [Next]_vars =>
      \A r \in Recordings :
          package'[r].dir =>
          \A i \in DOMAIN package[r].journal :
              package[r].journal[i].end # "torn" =>
              /\ i \in DOMAIN package'[r].journal
              /\ package'[r].journal[i].kind = package[r].journal[i].kind
  BY PackagesKeep DEF AllKeep, Keeps, EventStays
<1>2. QED
  BY <1>1, InboxInvariant, PTL DEF Spec, EventsAreKept

------------------------
(* MacTracks.  The states of a track, of the stream, and of a call's work. *)

OpenSegments == [from : Nat, to : Nat, audio : SUBSET Nat]
Drafts == [sequence : Nat, segment : OpenSegments]
Segments == [role : Roles, sequence : Nat, from : Nat, to : Nat, audio : SUBSET Nat]

TrackFields == {"sequence", "open", "closed", "expected", "silentFrom", "silenceReported", "left"}
StreamFields == {"devices", "track", "returned", "watchdog", "last", "gaps", "lossAt", "losses",
                 "app", "paused", "stopped", "spoiled"}
WorkFields == StreamFields \cup {"ok", "fault", "done"}

TrackOK(t) ==
    /\ DOMAIN t = TrackFields
    /\ t.sequence \in Nat /\ t.expected \in Nat
    /\ t.open \in OpenSegments \cup {Unset}
    /\ t.closed \in Seq(Drafts)

TracksOK(f) == DOMAIN f = Roles /\ \A r \in Roles : TrackOK(f[r])

StreamOK(s) ==
    /\ TracksOK(s.track)
    /\ s.returned \in Seq(Segments)
    /\ s.losses \subseteq Nat

WorkOK(s) ==
    /\ DOMAIN s = WorkFields
    /\ StreamOK(s)
    /\ s.done \in Seq(Segments) /\ s.fault \in Nat

\* The audio of a role that is in a list of segments, and in a track.
Sounds(list, r) == UNION {list[i].audio : i \in {j \in DOMAIN list : list[j].role = r}}
Audios(drafts) == UNION {drafts[i].segment.audio : i \in DOMAIN drafts}
Drafted(t) == Audios(t.closed)
Opened(t) == IF t.open = Unset THEN {} ELSE t.open.audio

Audio(s, r) == Sounds(s.returned, r) \cup Sounds(s.done, r)
                  \cup Drafted(s.track[r]) \cup Opened(s.track[r])

\* What a step of a call keeps: reports, and unless a file is spoiled, the audio.
Conserves(s, u) ==
    /\ WorkOK(u)
    /\ u.last = s.last
    /\ s.gaps \subseteq u.gaps /\ s.losses \subseteq u.losses
    /\ s.spoiled => u.spoiled
    /\ u.spoiled \/ \A r \in Roles : Audio(u, r) = Audio(s, r)
    /\ \A r \in Roles : u.track[r].expected = s.track[r].expected

Steady(s, u) == Conserves(s, u) /\ u.watchdog = s.watchdog /\ u.paused = s.paused

\* A step that fails has spoiled a file.
Careful(s, u) == Steady(s, u) /\ (s.ok \/ s.spoiled => u.ok \/ u.spoiled)

\* A step of a call that changes only the fields of a set.
Changes(s, u, fields) == DOMAIN u = WorkFields /\ \A f \in WorkFields \ fields : u[f] = s[f]

LEMMA KeepsTransitive ==
    ASSUME NEW s, NEW u, NEW v, Conserves(s, u), Conserves(u, v)
    PROVE  Conserves(s, v)
BY DEF Conserves

LEMMA SteadyTransitive ==
    ASSUME NEW s, NEW u, NEW v, Steady(s, u), Steady(u, v)
    PROVE  Steady(s, v)
BY KeepsTransitive DEF Steady

------------------------
(* Lists of segments. *)

LEMMA SoundsOfNone == ASSUME NEW r PROVE Sounds(<<>>, r) = {}
BY DEF Sounds

LEMMA SoundsJoin ==
    ASSUME NEW p \in Seq(Segments), NEW q \in Seq(Segments), NEW r
    PROVE  p \o q \in Seq(Segments) /\ Sounds(p \o q, r) = Sounds(p, r) \cup Sounds(q, r)
<1>1. p \o q \in Seq(Segments) /\ Len(p \o q) = Len(p) + Len(q)
  OBVIOUS
<1>2. \A i \in DOMAIN p : i \in DOMAIN (p \o q) /\ (p \o q)[i] = p[i]
  OBVIOUS
<1>3. \A i \in DOMAIN q : i + Len(p) \in DOMAIN (p \o q) /\ (p \o q)[i + Len(p)] = q[i]
  OBVIOUS
<1>4. \A i \in DOMAIN (p \o q) : \/ i \in DOMAIN p /\ (p \o q)[i] = p[i]
                                \/ \E k \in DOMAIN q : (p \o q)[i] = q[k]
  <2> TAKE i \in DOMAIN (p \o q)
  <2>1. i \in 1 .. Len(p) + Len(q) /\ Len(p) \in Nat /\ Len(q) \in Nat
    BY <1>1
  <2>2. CASE i <= Len(p)
    BY <2>1, <2>2, <1>2
  <2>3. CASE i > Len(p)
    <3>1. i - Len(p) \in DOMAIN q /\ (i - Len(p)) + Len(p) = i
      BY <2>1, <2>3
    <3>2. QED
      BY <3>1, <1>3
  <2>4. QED
    BY <2>1, <2>2, <2>3
<1>5. \A x : x \in Sounds(p \o q, r) <=> x \in Sounds(p, r) \cup Sounds(q, r)
  <2>1. ASSUME NEW x, x \in Sounds(p \o q, r) PROVE x \in Sounds(p, r) \cup Sounds(q, r)
    <3>1. PICK i \in DOMAIN (p \o q) : (p \o q)[i].role = r /\ x \in (p \o q)[i].audio
      BY <2>1 DEF Sounds
    <3>2. QED
      BY <3>1, <1>4 DEF Sounds
  <2>2. ASSUME NEW x, x \in Sounds(p, r) PROVE x \in Sounds(p \o q, r)
    BY <2>2, <1>2 DEF Sounds
  <2>3. ASSUME NEW x, x \in Sounds(q, r) PROVE x \in Sounds(p \o q, r)
    <3>1. PICK i \in DOMAIN q : q[i].role = r /\ x \in q[i].audio
      BY <2>3 DEF Sounds
    <3>2. QED
      BY <3>1, <1>3 DEF Sounds
  <2>4. QED
    BY <2>1, <2>2, <2>3
<1>6. QED
  BY <1>1, <1>5

LEMMA SoundsAreTimes ==
    ASSUME NEW p \in Seq(Segments), NEW r
    PROVE  Sounds(p, r) \subseteq Nat
<1>1. \A g \in Segments : g.audio \subseteq Nat
  BY DEF Segments
<1>2. \A i \in DOMAIN p : p[i] \in Segments
  OBVIOUS
<1>3. QED
  BY <1>1, <1>2 DEF Sounds

LEMMA TrackIsTimes ==
    ASSUME NEW t, TrackOK(t)
    PROVE  Drafted(t) \subseteq Nat /\ Opened(t) \subseteq Nat
<1>1. \A d \in Drafts : d.segment.audio \subseteq Nat
  BY DEF Drafts, OpenSegments
<1>2. \A i \in DOMAIN t.closed : t.closed[i] \in Drafts
  BY DEF TrackOK
<1>3. Drafted(t) \subseteq Nat
  BY <1>1, <1>2 DEF Audios, Drafted
<1>4. Opened(t) \subseteq Nat
  BY DEF Opened, TrackOK, OpenSegments
<1>5. QED
  BY <1>3, <1>4

\* rotate: what was open becomes a draft, or was empty.
LEMMA RotateKeeps ==
    ASSUME NEW t, TrackOK(t)
    PROVE  LET n == Rotate(t) IN
           /\ TrackOK(n) /\ n.expected = t.expected
           /\ Drafted(n) \cup Opened(n) = Drafted(t) \cup Opened(t)
<1>1. CASE t.open = Unset
  BY <1>1 DEF Rotate
<1>2. CASE t.open # Unset /\ t.open.audio = {}
  <2>1. LET n == Rotate(t) IN TrackOK(n) /\ n.expected = t.expected /\ n.closed = t.closed /\ n.open = Unset
    BY <1>2 DEF Rotate, TrackOK, TrackFields
  <2>2. QED
    BY <1>2, <2>1 DEF Audios, Drafted, Opened
<1>3. CASE t.open # Unset /\ t.open.audio # {}
  <2> DEFINE d == [sequence |-> t.sequence, segment |-> t.open]
  <2>1. d \in Drafts
    BY <1>3 DEF TrackOK, Drafts
  <2>2. LET n == Rotate(t) IN
        /\ DOMAIN n = TrackFields /\ n.expected = t.expected /\ n.open = Unset
        /\ n.closed = Append(t.closed, d) /\ n.sequence \in Nat
    BY <1>3 DEF Rotate, TrackOK, TrackFields
  <2>3. Append(t.closed, d) \in Seq(Drafts)
    BY <2>1 DEF TrackOK
  <2>4. Audios(Append(t.closed, d)) = Audios(t.closed) \cup t.open.audio
    <3>1. /\ DOMAIN Append(t.closed, d) = DOMAIN t.closed \cup {Len(t.closed) + 1}
          /\ \A i \in DOMAIN t.closed : Append(t.closed, d)[i] = t.closed[i]
          /\ Append(t.closed, d)[Len(t.closed) + 1] = d
      BY <2>1 DEF TrackOK
    <3>2. d.segment.audio = t.open.audio
      OBVIOUS
    <3> HIDE DEF d
    <3>3. QED
      BY <3>1, <3>2 DEF Audios
  <2> HIDE DEF d
  <2>5. PICK n, list : n = Rotate(t) /\ list = Append(t.closed, d)
    OBVIOUS
  <2>6. TrackOK(n) /\ n.expected = t.expected
    BY <2>2, <2>3, <2>5 DEF TrackOK
  <2>7. Drafted(n) = Audios(list) /\ Opened(n) = {} /\ Drafted(t) = Audios(t.closed) /\ Opened(t) = t.open.audio
    BY <1>3, <2>2, <2>5 DEF Drafted, Opened
  <2>8. Audios(list) = Audios(t.closed) \cup t.open.audio
    BY <2>4, <2>5
  <2>9. QED
    BY <2>5, <2>6, <2>7, <2>8
<1>4. QED
  BY <1>1, <1>2, <1>3

------------------------
(* What a callback does. *)

\* A stream that differs from s in one track, in reports and in its last callback.
Recorded(s, u, r) ==
    /\ DOMAIN u = StreamFields
    /\ u.returned = s.returned /\ u.watchdog = s.watchdog
    /\ u.paused = s.paused /\ u.spoiled = s.spoiled
    /\ s.gaps \subseteq u.gaps /\ s.losses \subseteq u.losses /\ u.losses \subseteq Nat
    /\ TracksOK(u.track)
    /\ \A q \in Roles \ {r} : u.track[q] = s.track[q]

Recording(t) == Drafted(t) \cup Opened(t)

LEMMA RecordedTransitive ==
    ASSUME NEW s, NEW u, NEW v, NEW r, Recorded(s, u, r), Recorded(u, v, r)
    PROVE  Recorded(s, v, r)
BY DEF Recorded

\* Another track in the place of one.
LEMMA WithTrack ==
    ASSUME NEW s, StreamFields \subseteq DOMAIN s, TracksOK(s.track), NEW r \in Roles, NEW t, TrackOK(t)
    PROVE  LET u == With(s, r, t) IN
           /\ DOMAIN u = DOMAIN s /\ \A f \in DOMAIN s \ {"track"} : u[f] = s[f]
           /\ u.track[r] = t /\ \A q \in Roles \ {r} : u.track[q] = s.track[q]
           /\ TracksOK(u.track)
<1>1. DOMAIN With(s, r, t) = DOMAIN s /\ \A f \in DOMAIN s \ {"track"} : With(s, r, t)[f] = s[f]
  BY DEF With
<1>2. With(s, r, t).track = [s.track EXCEPT ![r] = t]
  BY DEF With, StreamFields
<1>3. QED
  BY <1>1, <1>2 DEF TracksOK

LEMMA WithRecorded ==
    ASSUME NEW s, DOMAIN s = StreamFields, TracksOK(s.track), s.losses \subseteq Nat,
           NEW r \in Roles, NEW t, TrackOK(t)
    PROVE  /\ Recorded(s, With(s, r, t), r) /\ With(s, r, t).track[r] = t
           /\ With(s, r, t).last = s.last
<1>1. PICK u : u = With(s, r, t)
  OBVIOUS
<1>2. /\ DOMAIN u = StreamFields /\ TracksOK(u.track)
      /\ \A f \in DOMAIN s \ {"track"} : u[f] = s[f]
      /\ u.track[r] = t /\ \A q \in Roles \ {r} : u.track[q] = s.track[q]
  BY <1>1, WithTrack
<1>3. /\ u.returned = s.returned /\ u.watchdog = s.watchdog /\ u.paused = s.paused
      /\ u.spoiled = s.spoiled /\ u.gaps = s.gaps /\ u.losses = s.losses /\ u.last = s.last
  BY <1>2 DEF StreamFields
<1>4. Recorded(s, u, r)
  BY <1>2, <1>3 DEF Recorded
<1>5. QED
  BY <1>1, <1>2, <1>3, <1>4

LEMMA LossReported ==
    ASSUME NEW s, DOMAIN s = StreamFields, TracksOK(s.track), s.losses \subseteq Nat,
           NEW r \in Roles, NEW at \in Nat
    PROVE  LET u == SourceLost(s, at) IN
           Recorded(s, u, r) /\ u.track = s.track /\ u.last = s.last /\ at \in u.losses
BY DEF SourceLost, Recorded, StreamFields

LEMMA GapReported ==
    ASSUME NEW s, DOMAIN s = StreamFields, TracksOK(s.track), s.losses \subseteq Nat,
           NEW r \in Roles, NEW from, NEW to
    PROVE  LET u == PushGap(s, from, to) IN
           Recorded(s, u, r) /\ u.track = s.track /\ u.last = s.last
               /\ u.gaps = s.gaps \cup (from .. to - 1)
BY DEF PushGap, Recorded, StreamFields

\* The segment is split at a jump, and the jump is reported.
LEMMA Split ==
    ASSUME NEW s, DOMAIN s = StreamFields, TracksOK(s.track), s.losses \subseteq Nat,
           NEW r \in Roles, NEW from \in Nat, NEW u, u = Discontinued(s, r, from)
    PROVE  /\ Recorded(s, u, r) /\ u.last = s.last
           /\ Recording(u.track[r]) = Recording(s.track[r])
           /\ u.track[r].expected = s.track[r].expected
           /\ s.track[r].expected + Tolerance < from => s.track[r].expected .. from - 1 \subseteq u.gaps
<1> DEFINE t == s.track[r]
<1>1. TrackOK(t) /\ t.expected \in Nat
  BY DEF TracksOK, TrackOK
<1>2. TrackOK(Rotate(t)) /\ Rotate(t).expected = t.expected /\ Recording(Rotate(t)) = Recording(t)
  BY <1>1, RotateKeeps DEF Recording
<1>3. Recorded(s, s, r)
  BY DEF Recorded
<1>4. PICK split : split = IF t.sequence = 0 /\ t.open = Unset THEN s ELSE With(s, r, Rotate(t))
  OBVIOUS
<1>5. /\ Recorded(s, split, r) /\ split.last = s.last
      /\ split.track[r].expected = t.expected /\ Recording(split.track[r]) = Recording(t)
  BY <1>2, <1>3, <1>4, WithRecorded
<1>6. u = IF Jumps(t, from) THEN PushGap(split, Least(t.expected, from), Greatest(t.expected, from)) ELSE s
  BY <1>4 DEF Discontinued
<1>7. CASE Jumps(t, from)
  <2>1. Recorded(split, u, r) /\ u.track = split.track /\ u.last = split.last
          /\ u.gaps = split.gaps \cup (Least(t.expected, from) .. Greatest(t.expected, from) - 1)
    BY <1>5, <1>6, <1>7, GapReported DEF Recorded
  <2>2. t.expected + Tolerance < from =>
           Least(t.expected, from) = t.expected /\ Greatest(t.expected, from) = from
    BY <1>1, TrackAssumption DEF Least, Greatest
  <2>3. Recorded(s, u, r)
    BY <1>5, <2>1, RecordedTransitive
  <2>4. QED
    BY <1>5, <2>1, <2>2, <2>3, SMTT(30)
<1>8. CASE ~Jumps(t, from)
  <2>1. ~(t.expected + Tolerance < from)
    BY <1>1, <1>8, TrackAssumption DEF Jumps, Distance
  <2>2. QED
    BY <1>3, <1>6, <1>8, <2>1
<1>9. QED
  BY <1>7, <1>8

\* The silence of a track is noted, and may be reported.
LEMMA Listened ==
    ASSUME NEW s, DOMAIN s = StreamFields, TracksOK(s.track), s.losses \subseteq Nat,
           NEW r \in Roles, NEW from \in Nat, NEW to \in Nat, NEW silent,
           NEW u, u = Listen(s, r, from, to, silent)
    PROVE  /\ Recorded(s, u, r) /\ u.last = s.last
           /\ Recording(u.track[r]) = Recording(s.track[r])
           /\ u.track[r].expected = s.track[r].expected
<1> DEFINE t == s.track[r]
           since == IF t.silentFrom = Unset THEN from ELSE t.silentFrom
           long == silent /\ ~t.silenceReported /\ to >= since + SilenceAfter
           heard == [t EXCEPT !.silentFrom = IF silent THEN since ELSE Unset,
                              !.silenceReported = (@ /\ silent) \/ long]
<1>1. TrackOK(t)
  BY DEF TracksOK
<1>2. TrackOK(heard) /\ Recording(heard) = Recording(t) /\ heard.expected = t.expected
  <2>1. ASSUME NEW a, NEW b
        PROVE  LET x == [t EXCEPT !.silentFrom = a, !.silenceReported = b] IN
               TrackOK(x) /\ Recording(x) = Recording(t) /\ x.expected = t.expected
    BY <1>1 DEF TrackOK, TrackFields, Recording, Drafted, Opened
  <2>2. QED
    BY <2>1, ZenonT(40)
<1>3. Recorded(s, s, r)
  BY DEF Recorded
<1>4. PICK next : next = With(s, r, heard)
  OBVIOUS
<1>5. u = IF r # "system" THEN s ELSE IF long THEN PushGap(next, since, to) ELSE next
  BY <1>4 DEF Listen
<1> HIDE DEF heard, since, long
<1>6. Recorded(s, next, r) /\ next.track[r] = heard /\ next.last = s.last
  BY <1>2, <1>4, WithRecorded
<1>7. PICK v : v = PushGap(next, since, to)
  OBVIOUS
<1>8. Recorded(next, v, r) /\ v.track = next.track /\ v.last = next.last
  BY <1>6, <1>7, GapReported DEF Recorded
<1>9. Recorded(s, v, r)
  BY <1>6, <1>8, RecordedTransitive
<1>10. u = s \/ u = next \/ u = v
  BY <1>5, <1>7
<1>11. QED
  BY <1>2, <1>3, <1>6, <1>8, <1>9, <1>10

LEMMA TimesJoin == \A n \in Nat : n .. (n + 1) - 1 = {n}
OBVIOUS

\* Another open segment in the place of the one a track had.
LEMMA OpenTrack ==
    ASSUME NEW t, TrackOK(t), NEW o \in OpenSegments
    PROVE  LET n == [t EXCEPT !.open = o] IN
           TrackOK(n) /\ n.expected = t.expected /\ Recording(n) = Drafted(t) \cup o.audio
<1> DEFINE n == [t EXCEPT !.open = o]
<1>1. TrackOK(n) /\ n.expected = t.expected /\ n.closed = t.closed /\ n.open = o
  BY DEF TrackOK, TrackFields
<1>2. o # Unset
  BY TrackAssumption DEF OpenSegments
<1> HIDE DEF n
<1>3. Recording(n) = Drafted(t) \cup o.audio
  BY <1>1, <1>2 DEF Recording, Drafted, Opened
<1>4. TrackOK(n) /\ n.expected = t.expected /\ Recording(n) = Drafted(t) \cup o.audio
  BY <1>1, <1>3
<1>5. QED
  BY <1>4 DEF n

LEMMA GrownSegment ==
    ASSUME NEW o \in OpenSegments, NEW n \in Nat
    PROVE  Grown(o, n, n + 1) \in OpenSegments /\ Grown(o, n, n + 1).audio = o.audio \cup {n}
<1>1. o.audio \cup (n .. (n + 1) - 1) = o.audio \cup {n}
  BY TimesJoin
<1>2. o.audio \cup {n} \in SUBSET Nat /\ Greatest(o.to, n + 1) \in Nat
  BY DEF OpenSegments, Greatest
<1>3. \A a \in SUBSET Nat, e \in Nat :
        [o EXCEPT !.audio = a, !.to = e] \in OpenSegments /\ [o EXCEPT !.audio = a, !.to = e].audio = a
  BY DEF OpenSegments
<1>4. Grown(o, n, n + 1) = [o EXCEPT !.audio = o.audio \cup {n}, !.to = Greatest(o.to, n + 1)]
  BY <1>1 DEF Grown
<1>5. QED
  BY <1>2, <1>3, <1>4, ZenonT(40)

\* What storing the audio of the unit "from" does to the track of r.
StoredOrLost(s, u, r, from) ==
    /\ Recorded(s, u, r) /\ u.last = s.last
    /\ u.track[r].expected = s.track[r].expected
    /\ \/ Recording(u.track[r]) = Recording(s.track[r]) \cup {from}
       \/ Recording(u.track[r]) = Recording(s.track[r]) /\ time \in u.losses

\* The audio is stored, or a loss of the source is reported now.
LEMMA Stored ==
    ASSUME NEW s, DOMAIN s = StreamFields, TracksOK(s.track), s.losses \subseteq Nat,
           NEW r \in Roles, NEW from \in Nat, NEW fault, time \in Nat,
           NEW u, u = Store(s, r, from, from + 1, fault)
    PROVE  StoredOrLost(s, u, r, from)
<1> DEFINE t == s.track[r]
           ready == Ready(t, from, from + 1)
           grown == Grown(ready, from, from + 1)
           lost == [t EXCEPT !.left = TRUE]
           opened == [t EXCEPT !.open = ready]
           full == [t EXCEPT !.open = grown]
<1>1. TrackOK(t)
  BY DEF TracksOK
<1>2. ready \in OpenSegments /\ ready.audio = Opened(t)
  BY <1>1 DEF Ready, TrackOK, OpenSegments, Opened
<1>3. grown \in OpenSegments /\ grown.audio = Opened(t) \cup {from}
  BY <1>2, GrownSegment
<1>4. u = IF t.open = Unset /\ (t.left \/ fault = "open") THEN SourceLost(s, time)
          ELSE IF t.open = Unset /\ fault = "header" THEN SourceLost(With(s, r, lost), time)
          ELSE IF fault = "write" THEN SourceLost(With(s, r, opened), time)
          ELSE With(s, r, full)
  BY DEF Store
<1>5. TrackOK(lost) /\ lost.expected = t.expected /\ Recording(lost) = Recording(t)
  BY <1>1 DEF TrackOK, TrackFields, Recording, Drafted, Opened
<1> HIDE DEF ready, grown
<1>6. TrackOK(opened) /\ opened.expected = t.expected /\ Recording(opened) = Recording(t)
  BY <1>1, <1>2, OpenTrack DEF Recording
<1>7. TrackOK(full) /\ full.expected = t.expected /\ Recording(full) = Recording(t) \cup {from}
  BY <1>1, <1>3, OpenTrack DEF Recording
<1> HIDE DEF lost, opened, full
<1>8. ASSUME NEW v, Recorded(s, v, r), v.last = s.last, v.track[r].expected = t.expected,
             Recording(v.track[r]) = Recording(t), u = SourceLost(v, time)
      PROVE  /\ Recorded(s, u, r) /\ u.last = s.last /\ u.track[r].expected = t.expected
             /\ Recording(u.track[r]) = Recording(t) /\ time \in u.losses
  <2>1. Recorded(v, u, r) /\ u.track = v.track /\ u.last = v.last /\ time \in u.losses
    BY <1>8, LossReported DEF Recorded
  <2>2. Recorded(s, u, r)
    BY <1>8, <2>1, RecordedTransitive
  <2>3. QED
    BY <1>8, <2>1, <2>2
<1>9. Recorded(s, s, r)
  BY DEF Recorded
<1>10. /\ Recorded(s, With(s, r, lost), r) /\ With(s, r, lost).track[r] = lost
       /\ With(s, r, lost).last = s.last
  BY <1>5, WithRecorded
<1>11. /\ Recorded(s, With(s, r, opened), r) /\ With(s, r, opened).track[r] = opened
       /\ With(s, r, opened).last = s.last
  BY <1>6, WithRecorded
<1>12. /\ Recorded(s, With(s, r, full), r) /\ With(s, r, full).track[r] = full
       /\ With(s, r, full).last = s.last
  BY <1>7, WithRecorded
<1>13. /\ Recorded(s, u, r) /\ u.last = s.last
       /\ u.track[r].expected = s.track[r].expected
       /\ \/ Recording(u.track[r]) = Recording(s.track[r]) \cup {from}
          \/ Recording(u.track[r]) = Recording(s.track[r]) /\ time \in u.losses
  BY <1>4, <1>5, <1>6, <1>7, <1>8, <1>9, <1>10, <1>11, <1>12
<1>14. QED
  BY <1>13 DEF StoredOrLost

\* A callback: its audio is kept or a loss is reported, and a jump is a gap.
LEMMA Pushed ==
    ASSUME NEW s, DOMAIN s = StreamFields, TracksOK(s.track), s.losses \subseteq Nat,
           NEW r \in Roles, NEW from \in Nat, NEW silent, NEW fault, time \in Nat,
           NEW u, u = Push(s, r, from, from + 1, silent, fault)
    PROVE  /\ Recorded(s, u, r) /\ u.last = IF r = "system" THEN from + 1 ELSE s.last
           /\ \/ Recording(u.track[r]) = Recording(s.track[r]) /\ u.track[r].expected = s.track[r].expected
              \/ /\ u.track[r].expected = from + 1
                 /\ s.track[r].expected + Tolerance < from => s.track[r].expected .. from - 1 \subseteq u.gaps
                 /\ \/ Recording(u.track[r]) = Recording(s.track[r]) \cup {from}
                    \/ Recording(u.track[r]) = Recording(s.track[r]) /\ time \in u.losses
<1>1. PICK noted : noted = IF r = "system" THEN [s EXCEPT !.last = from + 1] ELSE s
  OBVIOUS
<1>2. /\ Recorded(s, noted, r) /\ noted.track = s.track
      /\ noted.last = IF r = "system" THEN from + 1 ELSE s.last
  BY <1>1 DEF Recorded, StreamFields
<1>3. PICK split : split = Discontinued(noted, r, from)
  OBVIOUS
<1>4. /\ Recorded(noted, split, r) /\ split.last = noted.last
      /\ Recording(split.track[r]) = Recording(s.track[r])
      /\ split.track[r].expected = s.track[r].expected
      /\ s.track[r].expected + Tolerance < from => s.track[r].expected .. from - 1 \subseteq split.gaps
  BY <1>2, <1>3, Split DEF Recorded
<1> DEFINE t == [split.track[r] EXCEPT !.expected = from + 1]
<1>5. TrackOK(t) /\ t.expected = from + 1 /\ Recording(t) = Recording(s.track[r])
  <2>1. TrackOK(split.track[r])
    BY <1>4 DEF Recorded, TracksOK
  <2>2. TrackOK(t) /\ t.expected = from + 1 /\ Recording(t) = Recording(split.track[r])
    BY <2>1 DEF TrackOK, TrackFields, Recording, Drafted, Opened
  <2>3. QED
    BY <1>4, <2>2
<1>6. PICK expected : expected = With(split, r, t)
  OBVIOUS
<1>7. PICK heard : heard = Listen(expected, r, from, from + 1, silent)
  OBVIOUS
<1>8. u = IF fault = "format" THEN SourceLost(noted, time) ELSE Store(heard, r, from, from + 1, fault)
  BY <1>1, <1>3, <1>6, <1>7 DEF Push
<1> HIDE DEF t
<1>9. CASE fault = "format"
  <2>1. Recorded(noted, u, r) /\ u.track = noted.track /\ u.last = noted.last
    BY <1>2, <1>8, <1>9, LossReported DEF Recorded
  <2>2. Recorded(s, u, r)
    BY <1>2, <2>1, RecordedTransitive
  <2>3. QED
    BY <1>2, <2>1, <2>2
<1>10. CASE fault # "format"
  <2>1. Recorded(split, expected, r) /\ expected.track[r] = t /\ expected.last = split.last
    BY <1>4, <1>5, <1>6, WithRecorded DEF Recorded
  <2>2. /\ Recorded(expected, heard, r) /\ heard.last = expected.last
        /\ Recording(heard.track[r]) = Recording(s.track[r])
        /\ heard.track[r].expected = from + 1
    <3>1. DOMAIN expected = StreamFields /\ TracksOK(expected.track) /\ expected.losses \subseteq Nat
      BY <2>1 DEF Recorded
    <3>2. from + 1 \in Nat
      OBVIOUS
    <3>3. /\ Recorded(expected, heard, r) /\ heard.last = expected.last
          /\ Recording(heard.track[r]) = Recording(expected.track[r])
          /\ heard.track[r].expected = expected.track[r].expected
      BY <1>7, <3>1, <3>2, Listened
    <3>4. QED
      BY <1>5, <2>1, <3>3
  <2>3. StoredOrLost(heard, u, r, from)
    <3>1. DOMAIN heard = StreamFields /\ TracksOK(heard.track) /\ heard.losses \subseteq Nat
      BY <2>2 DEF Recorded
    <3>2. u = Store(heard, r, from, from + 1, fault)
      BY <1>8, <1>10
    <3>3. QED
      BY <3>1, <3>2, Stored
  <2>4. Recorded(s, split, r)
    BY <1>2, <1>4, RecordedTransitive
  <2>5. Recorded(s, expected, r)
    BY <2>1, <2>4, RecordedTransitive
  <2>6. Recorded(s, heard, r)
    BY <2>2, <2>5, RecordedTransitive
  <2>7. Recorded(s, u, r)
    BY <2>3, <2>6, RecordedTransitive DEF StoredOrLost
  <2>8. split.gaps \subseteq u.gaps
    BY <2>1, <2>2, <2>3 DEF Recorded, StoredOrLost
  <2>9. QED
    BY <1>2, <1>4, <2>1, <2>2, <2>3, <2>7, <2>8 DEF StoredOrLost
<1>11. QED
  BY <1>9, <1>10

------------------------
(* What is said of the instants that a track holds. *)

Explained(t, gaps, losses) == t \in gaps \/ \E l \in losses : t < l + Tolerance

\* The last instant of a set, and the holes before it.
Top(held, m) == m \in held /\ \A x \in held : x <= m

\* Every hole is explained, and the expected clock is the end of what is held
\* unless a loss was reported at it or later.
Accounted(held, expected, gaps, losses) ==
    /\ held = {} \/ \E m \in held : Top(held, m)
    /\ \A t \in Holes(held, 0) : Explained(t, gaps, losses)
    /\ expected = 0 \/ expected - 1 \in held \/ \E l \in losses : expected <= l

LEMMA MaxIsTop ==
    ASSUME NEW held \in SUBSET Nat, NEW m, Top(held, m)
    PROVE  Max(held) = m
<1>1. Max(held) \in held /\ \A y \in held : Max(held) >= y
  BY DEF Max, Top
<1>2. m \in Nat /\ Max(held) \in Nat /\ m <= Max(held) /\ Max(held) <= m
  BY <1>1 DEF Top
<1>3. QED
  BY <1>2

LEMMA HoleIs ==
    ASSUME NEW held \in SUBSET Nat, NEW m, Top(held, m), NEW t
    PROVE  t \in Holes(held, 0) <=>
             /\ t \in Nat /\ t <= m
             /\ \E a \in Nat : /\ a <= t /\ t <= a + Tolerance /\ a + Tolerance < m
                               /\ (a .. a + Tolerance) \cap held = {}
<1>1. held # {} /\ m \in Nat /\ Max(held) = m
  BY MaxIsTop DEF Top
<1>2. Holes(held, 0) = {u \in 0 .. m : \E a \in 0 .. u :
             u <= a + Tolerance /\ a + Tolerance < m /\ (a .. a + Tolerance) \cap held = {}}
  BY <1>1 DEF Holes
<1>3. QED
  BY <1>1, <1>2, TrackAssumption

LEMMA SameAudio ==
    ASSUME NEW held, NEW e, NEW gaps, NEW losses, NEW gaps2, NEW losses2,
           Accounted(held, e, gaps, losses), gaps \subseteq gaps2, losses \subseteq losses2
    PROVE  Accounted(held, e, gaps2, losses2)
BY DEF Accounted, Explained

LEMMA LostAudio ==
    ASSUME NEW held, NEW e, NEW gaps, NEW losses, NEW gaps2, NEW losses2,
           Accounted(held, e, gaps, losses), gaps \subseteq gaps2, losses \subseteq losses2,
           NEW e2, NEW l \in losses2, e2 <= l
    PROVE  Accounted(held, e2, gaps2, losses2)
BY DEF Accounted, Explained

LEMMA NewAudio ==
    ASSUME NEW held \in SUBSET Nat, NEW e \in Nat, NEW gaps, NEW losses, NEW gaps2,
           NEW losses2 \in SUBSET Nat,
           Accounted(held, e, gaps, losses), gaps \subseteq gaps2, losses \subseteq losses2,
           NEW f \in Nat, e + Tolerance < f => e .. f - 1 \subseteq gaps2
    PROVE  Accounted(held \cup {f}, f + 1, gaps2, losses2)
<1> DEFINE all == held \cup {f}
<1>1. all \in SUBSET Nat
  OBVIOUS
<1>2. PICK m \in all : Top(all, m)
  <2>1. CASE held = {}
    BY <2>1 DEF Top
  <2>2. CASE held # {}
    <3>1. PICK k \in held : Top(held, k)
      BY <2>2 DEF Accounted
    <3>2. Top(all, IF k < f THEN f ELSE k)
      BY <3>1 DEF Top
    <3>3. QED
      BY <3>1, <3>2
  <2>3. QED
    BY <2>1, <2>2
<1>3. ASSUME NEW t \in Holes(all, 0)
      PROVE  Explained(t, gaps2, losses2)
  <2> HIDE DEF all
  <2>1. t \in Nat /\ t <= m
    BY <1>1, <1>2, HoleIs
  <2>2. PICK a \in Nat : /\ a <= t /\ t <= a + Tolerance /\ a + Tolerance < m
                         /\ (a .. a + Tolerance) \cap all = {}
    BY <1>1, <1>2, HoleIs
  <2>3. m \in Nat /\ (a .. a + Tolerance) \cap held = {}
    BY <1>1, <2>2 DEF all
  <2>4. CASE \E x \in held : a + Tolerance < x
    <3>1. PICK k \in held : Top(held, k)
      BY <2>4 DEF Accounted
    <3>2. a + Tolerance < k /\ k \in Nat
      BY <2>4, <3>1, TrackAssumption DEF Top
    <3>3. t <= k
      BY <2>1, <2>2, <3>2, TrackAssumption
    <3>4. t \in Holes(held, 0)
      BY <2>1, <2>2, <2>3, <3>1, <3>2, <3>3, HoleIs
    <3>5. QED
      BY <3>4 DEF Accounted, Explained
  <2>5. CASE ~ \E x \in held : a + Tolerance < x
    <3>1. f = m
      <4>1. m \notin held
        BY <2>2, <2>5
      <4>2. QED
        BY <1>2, <4>1 DEF all
    <3>2. \A x \in held : x < a
      <4> TAKE x \in held
      <4>1. x \in Nat /\ ~(a + Tolerance < x) /\ x \notin a .. a + Tolerance
        BY <2>3, <2>5
      <4>2. QED
        BY <4>1, TrackAssumption
    <3>3. CASE e <= a
      <4>1. e + Tolerance < f
        BY <2>2, <2>3, <3>1, <3>3, TrackAssumption
      <4>2. t \in e .. f - 1
        BY <2>1, <2>2, <2>3, <3>1, <3>3, TrackAssumption
      <4>3. QED
        BY <4>1, <4>2 DEF Explained
    <3>4. CASE ~(e <= a)
      <4>1. ~(e = 0 \/ e - 1 \in held)
        BY <3>2, <3>4
      <4>2. PICK l \in losses : e <= l
        BY <4>1 DEF Accounted
      <4>3. l \in losses2 /\ l \in Nat
        BY <4>2
      <4>4. t < l + Tolerance
        BY <2>1, <2>2, <3>4, <4>2, <4>3, TrackAssumption
      <4>5. QED
        BY <4>3, <4>4 DEF Explained
    <3>5. QED
      BY <3>3, <3>4
  <2>6. QED
    BY <2>4, <2>5
<1>4. (f + 1) - 1 \in all
  OBVIOUS
<1>5. QED
  BY <1>2, <1>3, <1>4 DEF Accounted

------------------------
(* What a call of the session does to the tracks. *)

\* A step that touches no track and no list of segments.
LEMMA PlainKeeps ==
    ASSUME NEW s, WorkOK(s), NEW u,
           Changes(s, u, {"devices", "watchdog", "gaps", "lossAt", "losses", "app", "paused",
                          "stopped", "ok", "fault"}),
           s.gaps \subseteq u.gaps, s.losses \subseteq u.losses, u.losses \subseteq Nat, u.fault \in Nat
    PROVE  Conserves(s, u)
<1>1. /\ DOMAIN u = WorkFields /\ u.track = s.track /\ u.returned = s.returned /\ u.done = s.done
      /\ u.last = s.last /\ u.spoiled = s.spoiled
  BY DEF Changes, WorkFields, StreamFields
<1>2. WorkOK(u)
  BY <1>1 DEF WorkOK, StreamOK
<1>3. \A r \in Roles : Audio(u, r) = Audio(s, r)
  BY <1>1 DEF Audio
<1>4. QED
  BY <1>1, <1>2, <1>3 DEF Conserves

\* A track gives up the segments d, and becomes m.
Gives(t, m, d, r) ==
    /\ TrackOK(m) /\ m.expected = t.expected /\ d \in Seq(Segments)
    /\ \A q \in Roles \ {r} : Sounds(d, q) = {}
    /\ Sounds(d, r) \cup Recording(m) = Recording(t)

\* A step that makes m of the track of r and adds d to the segments that are done.
Moves(s, u, r, m, d) ==
    /\ Changes(s, u, {"track", "done", "fault", "ok", "spoiled"})
    /\ TracksOK(u.track) /\ u.track[r] = m /\ \A q \in Roles \ {r} : u.track[q] = s.track[q]
    /\ TrackOK(m) /\ m.expected = s.track[r].expected /\ d \in Seq(Segments)
    /\ u.done = s.done \o d /\ u.fault \in Nat /\ (s.spoiled => u.spoiled)
    /\ u.spoiled \/ Gives(s.track[r], m, d, r)

\* A step that moves the audio of one track to the segments that are done.
LEMMA TrackKeeps ==
    ASSUME NEW s, WorkOK(s), NEW r \in Roles, NEW m, NEW d, NEW u, Moves(s, u, r, m, d)
    PROVE  Steady(s, u)
<1> USE DEF Moves
<1>1. /\ DOMAIN u = WorkFields /\ u.returned = s.returned /\ u.last = s.last
      /\ u.gaps = s.gaps /\ u.losses = s.losses /\ u.watchdog = s.watchdog /\ u.paused = s.paused
  BY DEF Changes, WorkFields, StreamFields
<1>2. u.done \in Seq(Segments) /\ \A q : Sounds(u.done, q) = Sounds(s.done, q) \cup Sounds(d, q)
  <2>1. s.done \in Seq(Segments) /\ d \in Seq(Segments) /\ u.done = s.done \o d
    BY DEF WorkOK
  <2>2. QED
    BY <2>1, SoundsJoin
<1>3. WorkOK(u)
  BY <1>1, <1>2 DEF WorkOK, StreamOK
<1>4. ASSUME ~u.spoiled, NEW q \in Roles PROVE Audio(u, q) = Audio(s, q)
  <2>1. CASE q = r
    <3>1. Sounds(u.done, q) \cup Recording(u.track[q]) = Sounds(s.done, q) \cup Recording(s.track[q])
      BY <1>2, <1>4, <2>1 DEF Gives
    <3>2. QED
      BY <1>1, <3>1 DEF Audio, Recording
  <2>2. CASE q # r
    <3>1. Sounds(u.done, q) = Sounds(s.done, q) /\ u.track[q] = s.track[q]
      BY <1>2, <1>4, <2>2 DEF Gives
    <3>2. QED
      BY <1>1, <3>1 DEF Audio
  <2>3. QED
    BY <2>1, <2>2
<1>5. \A q \in Roles : u.track[q].expected = s.track[q].expected
  OBVIOUS
<1>6. QED
  BY <1>1, <1>3, <1>4, <1>5 DEF Steady, Conserves

\* The drafts are in d, finished, or in rest.
Parts(drafts, d, rest, r) ==
    /\ d \in Seq(Segments) /\ rest \in Seq(Drafts)
    /\ \A q : q # r => Sounds(d, q) = {}
    /\ Sounds(d, r) \cup Audios(rest) = Audios(drafts)

\* The drafts that are finished, and those that are left.
LEMMA FinishedDrafts ==
    ASSUME NEW drafts \in Seq(Drafts), NEW n \in 0 .. Len(drafts), NEW r \in Roles,
           NEW d, d = Finished(drafts, n, r),
           NEW rest, rest = SubSeq(drafts, n + 1, Len(drafts))
    PROVE  Parts(drafts, d, rest, r)
<1>1. Len(drafts) \in Nat /\ DOMAIN drafts = 1 .. Len(drafts)
  OBVIOUS
<1>2. \A i \in 1 .. n : drafts[i] \in Drafts
  BY <1>1
<1>3. \A i \in 1 .. n : d[i].role = r /\ d[i].audio = drafts[i].segment.audio /\ d[i] \in Segments
  BY <1>2 DEF Finished, Segment, Segments, Drafts, OpenSegments
<1>4. d \in Seq(Segments) /\ DOMAIN d = 1 .. n
  BY <1>3 DEF Finished
<1>5. /\ rest \in Seq(Drafts) /\ DOMAIN rest = 1 .. Len(drafts) - n
      /\ \A i \in 1 .. Len(drafts) - n : rest[i] = drafts[n + i]
  BY <1>1
<1>6. \A q : q # r => Sounds(d, q) = {}
  BY <1>3, <1>4 DEF Sounds
<1>7. \A x : x \in Sounds(d, r) <=> \E i \in 1 .. n : x \in drafts[i].segment.audio
  <2>1. {j \in DOMAIN d : d[j].role = r} = 1 .. n
    BY <1>3, <1>4
  <2>2. Sounds(d, r) = UNION {d[i].audio : i \in 1 .. n}
    BY <2>1 DEF Sounds
  <2>3. UNION {d[i].audio : i \in 1 .. n} = UNION {drafts[i].segment.audio : i \in 1 .. n}
    BY <1>3
  <2>4. ASSUME NEW x PROVE x \in UNION {drafts[i].segment.audio : i \in 1 .. n}
                             <=> \E i \in 1 .. n : x \in drafts[i].segment.audio
    BY Zenon
  <2>5. QED
    BY <2>2, <2>3, <2>4
<1>8. \A i \in DOMAIN drafts : i \in 1 .. n \/ \E k \in DOMAIN rest : rest[k] = drafts[i]
  <2> TAKE i \in DOMAIN drafts
  <2>1. CASE i > n
    <3>1. i - n \in 1 .. Len(drafts) - n /\ n + (i - n) = i
      BY <1>1, <2>1
    <3>2. QED
      BY <1>5, <3>1
  <2>2. QED
    BY <1>1, <2>1
<1>9. \A k \in DOMAIN rest : \E i \in DOMAIN drafts : rest[k] = drafts[i]
  <2> TAKE k \in DOMAIN rest
  <2>1. n + k \in DOMAIN drafts
    BY <1>1, <1>5
  <2>2. QED
    BY <1>5, <2>1
<1>10. 1 .. n \subseteq DOMAIN drafts
  BY <1>1
<1> DEFINE whole == UNION {drafts[i].segment.audio : i \in DOMAIN drafts}
           left == UNION {rest[i].segment.audio : i \in DOMAIN rest}
<1>11. \A x : x \in whole <=> \E i \in DOMAIN drafts : x \in drafts[i].segment.audio
  BY Zenon
<1>12. \A x : x \in left <=> \E i \in DOMAIN rest : x \in rest[i].segment.audio
  BY Zenon
<1> HIDE DEF whole, left
<1>13. Sounds(d, r) \cup left = whole
  <2>1. ASSUME NEW x \in Sounds(d, r) PROVE x \in whole
    BY <1>7, <1>10, <1>11
  <2>2. ASSUME NEW x \in left PROVE x \in whole
    <3>1. PICK k \in DOMAIN rest : x \in rest[k].segment.audio
      BY <1>12
    <3>2. PICK i \in DOMAIN drafts : rest[k] = drafts[i]
      BY <1>9
    <3>3. QED
      BY <1>11, <3>1, <3>2
  <2>3. ASSUME NEW x \in whole PROVE x \in Sounds(d, r) \cup left
    <3>1. PICK i \in DOMAIN drafts : x \in drafts[i].segment.audio
      BY <1>11
    <3>2. CASE i \in 1 .. n
      BY <1>7, <3>1, <3>2
    <3>3. CASE \E k \in DOMAIN rest : rest[k] = drafts[i]
      BY <1>12, <3>1, <3>3
    <3>4. QED
      BY <1>8, <3>2, <3>3
  <2>4. QED
    BY <2>1, <2>2, <2>3
<1>14. QED
  BY <1>4, <1>5, <1>6, <1>13 DEF whole, left, Audios, Parts

LEMMA FinishedTrack ==
    ASSUME NEW t, TrackOK(t), NEW n \in 0 .. Len(t.closed), NEW r \in Roles,
           NEW m, m = [t EXCEPT !.closed = SubSeq(@, n + 1, Len(@))]
    PROVE  Gives(t, m, Finished(t.closed, n, r), r)
<1>1. PICK d : d = Finished(t.closed, n, r)
  OBVIOUS
<1>2. PICK rest : rest = SubSeq(t.closed, n + 1, Len(t.closed))
  OBVIOUS
<1>3. PICK drafts : drafts = t.closed
  OBVIOUS
<1>4. /\ d \in Seq(Segments) /\ rest \in Seq(Drafts)
      /\ \A q : q # r => Sounds(d, q) = {}
      /\ Sounds(d, r) \cup Audios(rest) = Audios(t.closed)
  <2>1. n \in 0 .. Len(drafts) /\ d = Finished(drafts, n, r) /\ rest = SubSeq(drafts, n + 1, Len(drafts))
    BY <1>1, <1>2, <1>3
  <2>2. drafts \in Seq(Drafts)
    BY <1>3 DEF TrackOK
  <2>3. Parts(drafts, d, rest, r)
    BY <2>1, <2>2, FinishedDrafts
  <2>4. QED
    BY <1>3, <2>3 DEF Parts
<1>5. TrackOK(m) /\ m.expected = t.expected /\ m.closed = rest /\ m.open = t.open
  BY <1>2, <1>4 DEF TrackOK, TrackFields
<1>6. Sounds(d, r) \cup Drafted(m) = Drafted(t)
  BY <1>4, <1>5 DEF Drafted
<1>7. Sounds(d, r) \cup Recording(m) = Recording(t)
  BY <1>5, <1>6 DEF Recording, Opened
<1>8. QED
  BY <1>1, <1>4, <1>5, <1>7 DEF Gives

LEMMA NothingKeeps == ASSUME NEW s, WorkOK(s) PROVE Careful(s, s)
BY DEF Careful, Steady, Conserves

LEMMA CarefulTransitive ==
    ASSUME NEW s, NEW u, NEW v, Careful(s, u), Careful(u, v)
    PROVE  Careful(s, v)
BY SteadyTransitive DEF Careful

LEMMA WithWork ==
    ASSUME NEW s, WorkOK(s), NEW r \in Roles, NEW t, TrackOK(t), NEW u, u = With(s, r, t)
    PROVE  /\ Changes(s, u, {"track"}) /\ u.track[r] = t
           /\ \A q \in Roles \ {r} : u.track[q] = s.track[q]
           /\ TracksOK(u.track)
<1>1. StreamFields \subseteq DOMAIN s /\ TracksOK(s.track) /\ DOMAIN s = WorkFields
  BY DEF WorkOK, StreamOK, WorkFields
<1>2. QED
  BY <1>1, WithTrack DEF Changes

LEMMA FinishMoves ==
    ASSUME NEW s, WorkOK(s), NEW r \in Roles, NEW n \in 0 .. Len(s.track[r].closed),
           NEW u, u = Finish(s, r, n)
    PROVE  /\ \E m, d : Moves(s, u, r, m, d)
           /\ u.spoiled = s.spoiled /\ u.fault = s.fault /\ u.ok = s.ok
<1> DEFINE t == s.track[r]
           m == [t EXCEPT !.closed = SubSeq(@, n + 1, Len(@))]
           d == Finished(t.closed, n, r)
           w == With(s, r, m)
<1>1. TrackOK(t)
  BY DEF WorkOK, StreamOK, TracksOK
<1>2. u = [w EXCEPT !.done = @ \o d]
  BY DEF Finish
<1>3. Gives(t, m, d, r)
  BY <1>1, FinishedTrack
<1> HIDE DEF m, d
<1>4. /\ Changes(s, w, {"track"}) /\ w.track[r] = m
      /\ \A q \in Roles \ {r} : w.track[q] = s.track[q]
      /\ TracksOK(w.track)
  BY <1>3, WithWork DEF Gives
<1> HIDE DEF w
<1>5. Changes(w, u, {"done"}) /\ u.done = w.done \o d
  BY <1>2, <1>4 DEF Changes, WorkFields, StreamFields
<1>6. /\ Changes(s, u, {"track", "done", "fault", "ok", "spoiled"})
      /\ u.track = w.track /\ u.done = s.done \o d /\ u.fault = s.fault /\ u.spoiled = s.spoiled
      /\ u.ok = s.ok
  BY <1>4, <1>5 DEF Changes, WorkFields, StreamFields
<1>7. Moves(s, u, r, m, d)
  BY <1>3, <1>4, <1>6 DEF Moves, Gives, WorkOK
<1>8. QED
  BY <1>6, <1>7

LEMMA FinishKeeps ==
    ASSUME NEW s, WorkOK(s), NEW r \in Roles, NEW u, u = FinishDrafts(s, r)
    PROVE  Careful(s, u)
<1> DEFINE all == Len(s.track[r].closed)
<1>1. all \in Nat /\ s.fault \in Nat
  BY DEF WorkOK, StreamOK, TracksOK, TrackOK
<1>2. CASE ~s.ok
  BY <1>2, NothingKeeps DEF FinishDrafts
<1>3. CASE s.ok /\ s.fault \in 1 .. all
  <2>1. PICK w : w = Finish(s, r, s.fault - 1)
    OBVIOUS
  <2>2. s.fault - 1 \in 0 .. all
    BY <1>1, <1>3
  <2>3. PICK m, d : Moves(s, w, r, m, d)
    BY <2>1, <2>2, FinishMoves
  <2>4. u = [w EXCEPT !.ok = FALSE, !.fault = 0, !.spoiled = TRUE]
    BY <1>3, <2>1 DEF FinishDrafts
  <2>5. Changes(w, u, {"ok", "fault", "spoiled"}) /\ u.spoiled = TRUE /\ u.fault = 0
    BY <2>3, <2>4 DEF Moves, Changes, WorkFields, StreamFields
  <2>6. /\ Changes(s, u, {"track", "done", "fault", "ok", "spoiled"})
        /\ u.track = w.track /\ u.done = w.done
    BY <2>3, <2>5 DEF Moves, Changes, WorkFields, StreamFields
  <2>7. Moves(s, u, r, m, d)
    BY <2>3, <2>5, <2>6 DEF Moves
  <2>8. QED
    BY <2>5, <2>6, <2>7, TrackKeeps DEF Careful
<1>4. CASE s.ok /\ s.fault \notin 1 .. all
  <2>1. PICK w : w = Finish(s, r, all)
    OBVIOUS
  <2>2. all \in 0 .. all
    BY <1>1
  <2>3. w.fault = s.fault /\ w.ok = s.ok /\ \E m, d : Moves(s, w, r, m, d)
    BY <2>1, <2>2, FinishMoves
  <2>4. PICK m, d : Moves(s, w, r, m, d)
    BY <2>3
  <2>5. PICK k \in Nat : u = [w EXCEPT !.fault = k]
    <3>1. u = [w EXCEPT !.fault = IF w.fault = 0 THEN 0 ELSE w.fault - all]
      BY <1>4, <2>1 DEF FinishDrafts
    <3>2. (IF w.fault = 0 THEN 0 ELSE w.fault - all) \in Nat
      BY <1>1, <1>4, <2>3
    <3>3. QED
      BY <3>1, <3>2
  <2>6. Changes(w, u, {"fault"}) /\ u.fault = k
    BY <2>4, <2>5 DEF Moves, Changes, WorkFields, StreamFields
  <2>7. /\ Changes(s, u, {"track", "done", "fault", "ok", "spoiled"})
        /\ u.track = w.track /\ u.done = w.done /\ u.spoiled = w.spoiled /\ u.ok = w.ok
    BY <2>4, <2>6 DEF Moves, Changes, WorkFields, StreamFields
  <2>8. Moves(s, u, r, m, d)
    BY <2>4, <2>6, <2>7 DEF Moves
  <2>9. QED
    BY <1>4, <2>3, <2>7, <2>8, TrackKeeps DEF Careful
<1>5. QED
  BY <1>2, <1>3, <1>4

\* What is open is dropped if it is empty, or becomes a segment.
LEMMA TakenTrack ==
    ASSUME NEW t, TrackOK(t), t.open # Unset, NEW r \in Roles,
           NEW taken, taken = [t EXCEPT !.open = Unset]
    PROVE  /\ t.open.audio = {} => Gives(t, taken, <<>>, r)
           /\ Gives(t, [taken EXCEPT !.sequence = @ + 1], <<Segment(r, t.sequence, t.open)>>, r)
           /\ TrackOK([taken EXCEPT !.left = TRUE])
           /\ [taken EXCEPT !.left = TRUE].expected = t.expected
<1>1. /\ TrackOK(taken) /\ taken.expected = t.expected /\ taken.open = Unset
      /\ taken.closed = t.closed /\ taken.sequence \in Nat
  BY DEF TrackOK, TrackFields
<1>2. PICK n : n = [taken EXCEPT !.sequence = @ + 1]
  OBVIOUS
<1>3. TrackOK(n) /\ n.expected = t.expected /\ n.open = Unset /\ n.closed = t.closed
  BY <1>1, <1>2 DEF TrackOK, TrackFields
<1>4. /\ TrackOK([taken EXCEPT !.left = TRUE])
      /\ [taken EXCEPT !.left = TRUE].expected = t.expected
  BY <1>1 DEF TrackOK, TrackFields
<1>5. PICK g : g = Segment(r, t.sequence, t.open)
  OBVIOUS
<1>6. g \in Segments /\ g.role = r /\ g.audio = t.open.audio
  BY <1>5 DEF Segment, Segments, TrackOK, OpenSegments
<1>7. PICK d : d = <<g>>
  OBVIOUS
<1>8. d \in Seq(Segments) /\ DOMAIN d = {1} /\ d[1] = g
  BY <1>6, <1>7
<1>9. Sounds(d, r) = t.open.audio /\ \A q \in Roles \ {r} : Sounds(d, q) = {}
  BY <1>6, <1>8 DEF Sounds
<1>10. Recording(t) = Drafted(t) \cup t.open.audio
  BY DEF Recording, Opened
<1>11. Recording(n) = Drafted(t) /\ Recording(taken) = Drafted(t)
  BY <1>1, <1>3 DEF Recording, Opened, Drafted
<1>12. Gives(t, n, d, r)
  BY <1>3, <1>8, <1>9, <1>10, <1>11 DEF Gives
<1>13. t.open.audio = {} => Gives(t, taken, <<>>, r)
  BY <1>1, <1>10, <1>11, SoundsOfNone DEF Gives
<1>14. QED
  BY <1>2, <1>4, <1>5, <1>7, <1>12, <1>13

LEMMA CloseTrackKeeps ==
    ASSUME NEW s, WorkOK(s), NEW r \in Roles, NEW u, u = CloseTrack(s, r)
    PROVE  Careful(s, u)
<1> DEFINE t == s.track[r]
           taken == [t EXCEPT !.open = Unset]
           after == [taken EXCEPT !.sequence = @ + 1]
           stuck == [taken EXCEPT !.left = TRUE]
           g == Segment(r, t.sequence, t.open)
           next == With(s, r, after)
           fails == With(s, r, stuck)
<1>1. TrackOK(t) /\ s.done \in Seq(Segments) /\ s.fault \in Nat /\ DOMAIN s = WorkFields
  BY DEF WorkOK, StreamOK, TracksOK
<1>2. CASE ~s.ok \/ t.open = Unset
  BY <1>2, NothingKeeps DEF CloseTrack
<1>3. CASE s.ok /\ t.open # Unset
  <2>1. /\ t.open.audio = {} => Gives(t, taken, <<>>, r)
        /\ Gives(t, after, <<g>>, r)
        /\ TrackOK(stuck) /\ stuck.expected = t.expected
    BY <1>1, <1>3, TakenTrack
  <2>2. u = IF t.open.audio = {} THEN With(s, r, taken)
            ELSE IF s.fault = 1
            THEN [[fails EXCEPT !.spoiled = TRUE] EXCEPT !.ok = FALSE, !.fault = 0]
            ELSE [[next EXCEPT !.done = Append(@, g)] EXCEPT !.fault = IF s.fault = 0 THEN 0 ELSE s.fault - 1]
    BY <1>3 DEF CloseTrack, Step
  <2> HIDE DEF taken, after, stuck, g
  <2>3. CASE t.open.audio = {}
    <3>1. TrackOK(taken)
      BY <2>1, <2>3 DEF Gives
    <3>2. /\ Changes(s, u, {"track"}) /\ u.track[r] = taken
          /\ \A q \in Roles \ {r} : u.track[q] = s.track[q] /\ TracksOK(u.track)
      BY <2>2, <2>3, <3>1, WithWork
    <3>3. u.done = s.done \o <<>> /\ u.ok = s.ok /\ u.fault = s.fault /\ u.spoiled = s.spoiled
      BY <1>1, <3>2 DEF Changes, WorkFields, StreamFields
    <3>4. Changes(s, u, {"track", "done", "fault", "ok", "spoiled"})
      BY <3>2 DEF Changes
    <3>5. TracksOK(u.track)
      BY <2>2, <2>3, <3>1, WithWork
    <3>6. Moves(s, u, r, taken, <<>>)
      BY <1>1, <2>1, <2>3, <3>2, <3>3, <3>4, <3>5 DEF Moves, Gives
    <3>7. QED
      BY <1>3, <3>3, <3>6, TrackKeeps DEF Careful
  <2>4. CASE t.open.audio # {} /\ s.fault = 1
    <3>1. /\ Changes(s, fails, {"track"}) /\ fails.track[r] = stuck
          /\ \A q \in Roles \ {r} : fails.track[q] = s.track[q]
          /\ TracksOK(fails.track)
      BY <2>1, WithWork
    <3> HIDE DEF fails
    <3>2. /\ Changes(fails, u, {"spoiled", "ok", "fault"}) /\ u.spoiled = TRUE /\ u.fault = 0
          /\ u.track = fails.track /\ u.done = fails.done
      BY <2>2, <2>4, <3>1 DEF Changes, WorkFields, StreamFields
    <3>3. /\ Changes(s, u, {"track", "done", "fault", "ok", "spoiled"})
          /\ u.done = s.done \o <<>>
      BY <1>1, <3>1, <3>2 DEF Changes, WorkFields, StreamFields
    <3>4. <<>> \in Seq(Segments)
      OBVIOUS
    <3>5. Moves(s, u, r, stuck, <<>>)
      BY <2>1, <3>1, <3>2, <3>3, <3>4 DEF Moves
    <3>6. QED
      BY <3>2, <3>5, TrackKeeps DEF Careful
  <2>5. CASE t.open.audio # {} /\ s.fault # 1
    <3>1. /\ Changes(s, next, {"track"}) /\ next.track[r] = after
          /\ \A q \in Roles \ {r} : next.track[q] = s.track[q]
          /\ TracksOK(next.track)
      BY <2>1, WithWork DEF Gives
    <3> HIDE DEF next
    <3>2. PICK k \in Nat : k = IF s.fault = 0 THEN 0 ELSE s.fault - 1
      BY <1>1
    <3>3. u = [[next EXCEPT !.done = Append(@, g)] EXCEPT !.fault = k]
      BY <2>2, <2>5, <3>2
    <3>4. /\ Changes(next, u, {"done", "fault"}) /\ u.fault = k
          /\ u.track = next.track /\ u.done = Append(next.done, g)
      BY <3>1, <3>3 DEF Changes, WorkFields, StreamFields
    <3>5. <<g>> \in Seq(Segments) /\ Append(s.done, g) = s.done \o <<g>>
      <4>1. g \in Segments
        BY <1>1, <1>3 DEF g, Segment, Segments, TrackOK, OpenSegments
      <4>2. QED
        BY <1>1, <4>1
    <3>6. /\ Changes(s, u, {"track", "done", "fault", "ok", "spoiled"})
          /\ u.done = s.done \o <<g>> /\ u.ok = s.ok /\ u.spoiled = s.spoiled
      BY <3>1, <3>4, <3>5 DEF Changes, WorkFields, StreamFields
    <3>7. Moves(s, u, r, after, <<g>>)
      BY <2>1, <3>1, <3>4, <3>5, <3>6 DEF Moves, Gives
    <3>8. QED
      BY <1>3, <3>6, <3>7, TrackKeeps DEF Careful
  <2>6. QED
    BY <2>3, <2>4, <2>5
<1>4. QED
  BY <1>2, <1>3

LEMMA CloseRoleKeeps ==
    ASSUME NEW s, WorkOK(s), NEW r \in Roles, NEW u, u = CloseRole(s, r)
    PROVE  Careful(s, u)
<1>1. PICK v : v = FinishDrafts(s, r)
  OBVIOUS
<1>2. Careful(s, v) /\ WorkOK(v)
  BY <1>1, FinishKeeps DEF Careful, Steady, Conserves
<1>3. u = CloseTrack(v, r)
  BY <1>1 DEF CloseRole
<1>4. QED
  BY <1>2, <1>3, CloseTrackKeeps, CarefulTransitive

LEMMA CloseSegmentsKeeps ==
    ASSUME NEW s, WorkOK(s), s.done = <<>>, s.ok, NEW first \in Roles,
           NEW u, u = CloseSegments(s, first)
    PROVE  Steady(s, u)
<1>1. PICK empty : empty = [s EXCEPT !.done = <<>>]
  OBVIOUS
<1>2. PICK one : one = CloseRole(empty, first)
  OBVIOUS
<1>3. Careful(s, one) /\ WorkOK(one)
  <2>1. Changes(s, empty, {}) /\ empty.done = s.done
    BY <1>1 DEF WorkOK, Changes, WorkFields, StreamFields
  <2>2. /\ empty.track = s.track /\ empty.returned = s.returned /\ empty.fault = s.fault
        /\ empty.last = s.last /\ empty.gaps = s.gaps /\ empty.losses = s.losses
        /\ empty.spoiled = s.spoiled /\ empty.watchdog = s.watchdog
        /\ empty.paused = s.paused /\ empty.ok = s.ok
    BY <2>1 DEF Changes, WorkFields, StreamFields
  <2>3. WorkOK(empty)
    BY <2>1, <2>2 DEF WorkOK, StreamOK, Changes
  <2>4. Careful(s, empty)
    BY <2>1, <2>2, <2>3 DEF Careful, Steady, Conserves, Audio
  <2>5. Careful(empty, one)
    BY <1>2, <2>3, CloseRoleKeeps
  <2>6. QED
    BY <2>4, <2>5, CarefulTransitive DEF Careful, Steady, Conserves
<1>4. PICK all : all = IF Roles = {first} THEN one ELSE CloseRole(one, CHOOSE r \in Roles : r # first)
  OBVIOUS
<1>5. u = IF all.ok THEN all ELSE [all EXCEPT !.done = <<>>]
  BY <1>1, <1>2, <1>4 DEF CloseSegments
<1>6. Careful(s, all)
  <2>1. CASE Roles = {first}
    BY <1>3, <1>4, <2>1
  <2>2. CASE Roles # {first}
    <3>1. PICK r \in Roles : r = CHOOSE q \in Roles : q # first
      BY <2>2
    <3>2. all = CloseRole(one, r)
      BY <1>4, <2>2, <3>1
    <3>3. QED
      BY <1>3, <3>2, CloseRoleKeeps, CarefulTransitive
  <2>3. QED
    BY <2>1, <2>2
<1>7. CASE all.ok
  BY <1>5, <1>6, <1>7 DEF Careful
<1>8. CASE ~all.ok
  <2>1. all.spoiled /\ WorkOK(all)
    BY <1>6, <1>8 DEF Careful, Steady, Conserves
  <2>2. Changes(all, u, {"done"}) /\ u.done = <<>>
    BY <1>5, <1>8, <2>1 DEF WorkOK, Changes, WorkFields, StreamFields
  <2>3. /\ u.track = all.track /\ u.returned = all.returned /\ u.fault = all.fault
        /\ u.last = all.last /\ u.gaps = all.gaps /\ u.losses = all.losses
        /\ u.spoiled = all.spoiled /\ u.watchdog = all.watchdog /\ u.paused = all.paused
    BY <2>2 DEF Changes, WorkFields, StreamFields
  <2>4. WorkOK(u)
    BY <2>1, <2>2, <2>3 DEF WorkOK, StreamOK, Changes
  <2>5. Steady(all, u)
    BY <2>1, <2>3, <2>4 DEF Steady, Conserves
  <2>6. QED
    BY <1>6, <2>5, SteadyTransitive DEF Careful
<1>9. QED
  BY <1>7, <1>8

Plain == {"devices", "watchdog", "gaps", "lossAt", "losses", "app", "paused", "stopped", "ok", "fault"}

Dog == [started : Nat, restarted : Nat \cup {Unset}, failed : BOOLEAN]

\* The session's call of the stream reports a loss, or a gap.
LEMMA WorkLoss ==
    ASSUME NEW s, WorkOK(s), NEW at \in Nat, NEW u, u = SourceLost(s, at)
    PROVE  /\ Conserves(s, u) /\ Changes(s, u, {"lossAt", "losses"}) /\ at \in u.losses
<1>1. /\ Changes(s, u, {"lossAt", "losses"})
      /\ u.losses = s.losses \cup {at}
  BY DEF SourceLost, Changes, WorkOK, WorkFields, StreamFields
<1>2. Changes(s, u, Plain) /\ s.gaps = u.gaps /\ s.fault = u.fault
  BY <1>1 DEF Changes, Plain, WorkFields, StreamFields
<1>3. s.losses \subseteq Nat /\ s.fault \in Nat
  BY DEF WorkOK, StreamOK
<1>4. Conserves(s, u)
  BY <1>1, <1>2, <1>3, PlainKeeps DEF Plain
<1>5. QED
  BY <1>1, <1>4

\* What a fallible step may do, without its fields: nothing, fail, or go on.
Outcome(s, u, next, failed) ==
    /\ u.fault \in Nat
    /\ \/ u = s /\ ~s.ok
       \/ s.ok /\ ~u.ok /\ Changes(failed, u, {"ok", "fault"})
       \/ s.ok /\ Changes(next, u, {"fault"})

LEMMA StepIs ==
    ASSUME NEW s, s.fault \in Nat, NEW next, DOMAIN next = WorkFields,
           NEW failed, DOMAIN failed = WorkFields, NEW u, u = Step(s, next, failed)
    PROVE  Outcome(s, u, next, failed)
<1>1. CASE ~s.ok
  BY <1>1 DEF Step, Outcome
<1>2. CASE s.ok /\ s.fault = 1
  <2>1. u = [failed EXCEPT !.ok = FALSE, !.fault = 0]
    BY <1>2 DEF Step
  <2>2. u.ok = FALSE /\ u.fault = 0 /\ DOMAIN u = WorkFields
    BY <2>1 DEF WorkFields
  <2>3. \A f \in WorkFields \ {"ok", "fault"} : u[f] = failed[f]
    BY <2>1
  <2>4. QED
    BY <1>2, <2>2, <2>3 DEF Outcome, Changes
<1>3. CASE s.ok /\ s.fault # 1
  <2>1. PICK k \in Nat : k = IF s.fault = 0 THEN 0 ELSE s.fault - 1
    OBVIOUS
  <2>2. u = [next EXCEPT !.fault = k]
    BY <1>3, <2>1 DEF Step
  <2>3. QED
    BY <1>3, <2>2 DEF Outcome, Changes, WorkFields
<1>4. QED
  BY <1>1, <1>2, <1>3

LEMMA DeviceStep ==
    ASSUME NEW s, DOMAIN s = WorkFields, s.fault \in Nat, NEW devices,
           NEW u, u = Step(s, [s EXCEPT !.devices = devices], s)
    PROVE  Changes(s, u, {"devices", "ok", "fault"}) /\ u.fault \in Nat
<1>1. PICK next : next = [s EXCEPT !.devices = devices]
  OBVIOUS
<1>2. Changes(s, next, {"devices"}) /\ Changes(s, s, {})
  BY <1>1 DEF Changes
<1>3. Outcome(s, u, next, s)
  BY <1>1, <1>2, StepIs DEF Changes
<1>4. QED
  BY <1>2, <1>3 DEF Outcome, Changes

\* Ending the tracks stops the devices and then finishes the segments.
LEMMA CloseKeeps ==
    ASSUME NEW s, WorkOK(s), s.done = <<>>, s.ok, NEW first \in Roles, NEW reason,
           NEW u, u = Close(s, reason, first)
    PROVE  /\ Conserves(s, u) /\ u.watchdog = s.watchdog
           /\ u.ok /\ reason # "rolling" => u.paused = (reason # "stop")
           /\ reason = "rolling" => u.paused = s.paused
<1>1. PICK mic : mic = Step(s, [s EXCEPT !.devices = @ \ {"microphone"}], s)
  OBVIOUS
<1>2. PICK quiet : quiet = IF "system" \in Roles THEN Step(mic, [mic EXCEPT !.devices = {}], mic) ELSE mic
  OBVIOUS
<1>3. PICK ended : ended = [quiet EXCEPT !.paused = reason # "stop", !.stopped = reason = "stop"]
  OBVIOUS
<1>4. u = IF reason = "rolling" THEN CloseSegments(s, first)
          ELSE IF ~quiet.ok THEN quiet ELSE CloseSegments(ended, first)
  BY <1>1, <1>2, <1>3 DEF Close
<1> DEFINE Stops == {"devices", "ok", "fault"}
<1>5. Changes(s, mic, Stops) /\ mic.fault \in Nat
  BY <1>1, DeviceStep DEF WorkOK
<1>6. Changes(s, quiet, Stops) /\ quiet.fault \in Nat
  <2>1. CASE "system" \in Roles
    <3>1. quiet = Step(mic, [mic EXCEPT !.devices = {}], mic)
      BY <1>2, <2>1
    <3>2. DOMAIN mic = WorkFields
      BY <1>5 DEF Changes
    <3>3. Changes(mic, quiet, Stops) /\ quiet.fault \in Nat
      BY <1>5, <3>1, <3>2, DeviceStep
    <3>4. QED
      BY <1>5, <3>3 DEF Changes
  <2>2. QED
    BY <1>2, <1>5, <2>1
<1>7. /\ Changes(s, quiet, Plain) /\ s.gaps = quiet.gaps /\ s.losses = quiet.losses
      /\ s.watchdog = quiet.watchdog
  BY <1>6 DEF Changes, Plain, WorkFields, StreamFields
<1>8. /\ Changes(s, ended, Plain) /\ s.gaps = ended.gaps /\ s.losses = ended.losses
      /\ s.watchdog = ended.watchdog /\ ended.ok = quiet.ok /\ ended.done = s.done
      /\ ended.paused = (reason # "stop") /\ ended.fault = quiet.fault
  BY <1>3, <1>6 DEF Changes, Plain, WorkFields, StreamFields
<1>9. s.losses \subseteq Nat
  BY DEF WorkOK, StreamOK
<1>10. Conserves(s, quiet)
  BY <1>6, <1>7, <1>9, PlainKeeps DEF Plain
<1>11. Conserves(s, ended)
  BY <1>6, <1>8, <1>9, PlainKeeps DEF Plain
<1>12. CASE reason = "rolling"
  BY <1>4, <1>12, CloseSegmentsKeeps DEF Steady
<1>13. CASE reason # "rolling" /\ ~quiet.ok
  BY <1>4, <1>7, <1>10, <1>13
<1>14. CASE reason # "rolling" /\ quiet.ok
  <2>1. WorkOK(ended) /\ ended.done = <<>> /\ ended.ok
    BY <1>8, <1>11, <1>14 DEF Conserves
  <2>2. u = CloseSegments(ended, first)
    BY <1>4, <1>14
  <2>3. Steady(ended, u)
    BY <2>1, <2>2, CloseSegmentsKeeps
  <2>4. QED
    BY <1>8, <1>11, <1>14, <2>3, KeepsTransitive DEF Steady
<1>15. QED
  BY <1>12, <1>13, <1>14

LEMMA PresenceKeeps ==
    ASSUME NEW s, WorkOK(s), NEW gone, time \in Nat, NEW u, u = Presence(s, gone)
    PROVE  Conserves(s, u) /\ Changes(s, u, {"lossAt", "losses", "app"})
<1>1. PICK mic : mic = IF "microphone" \in gone THEN SourceLost(s, time) ELSE s
  OBVIOUS
<1>2. PICK app : app = SourceLost(mic, time)
  OBVIOUS
<1>3. Changes(s, s, {}) /\ Conserves(s, s)
  BY NothingKeeps DEF Careful, Steady, Changes, WorkOK
<1>4. Conserves(s, mic) /\ Changes(s, mic, {"lossAt", "losses"}) /\ WorkOK(mic)
  BY <1>1, <1>3, WorkLoss DEF Changes, Conserves
<1>5. Conserves(s, app) /\ Changes(s, app, {"lossAt", "losses"}) /\ WorkOK(app)
  BY <1>2, <1>4, WorkLoss, KeepsTransitive DEF Changes, Conserves
<1>6. u = [app EXCEPT !.app = FALSE] \/ u = mic
  BY <1>1, <1>2 DEF Presence
<1>7. CASE u = [app EXCEPT !.app = FALSE]
  <2>1. Changes(app, u, {"app"})
    BY <1>5, <1>7 DEF Changes
  <2>2. Changes(app, u, Plain) /\ app.gaps = u.gaps /\ app.losses = u.losses /\ app.fault = u.fault
    BY <2>1 DEF Changes, Plain, WorkFields, StreamFields
  <2>3. Conserves(app, u)
    BY <1>5, <2>2, PlainKeeps DEF Plain, WorkOK, StreamOK
  <2>4. QED
    BY <1>5, <2>1, <2>3, KeepsTransitive DEF Changes
<1>8. CASE u = mic
  BY <1>4, <1>8 DEF Changes
<1>9. QED
  BY <1>6, <1>7, <1>8

\* A step that reports, and that changes devices or the watchdog.
Plainly(s, u) ==
    /\ Changes(s, u, {"devices", "watchdog", "gaps", "lossAt", "losses", "ok", "fault"})
    /\ s.gaps \subseteq u.gaps /\ s.losses \subseteq u.losses
    /\ u.losses \subseteq Nat /\ u.fault \in Nat

LEMMA PlainlyKeeps ==
    ASSUME NEW s, WorkOK(s), NEW u, Plainly(s, u)
    PROVE  Conserves(s, u) /\ u.done = s.done /\ u.paused = s.paused
<1>1. Changes(s, u, Plain) /\ u.done = s.done /\ u.paused = s.paused
  BY DEF Plainly, Changes, Plain, WorkFields, StreamFields
<1>2. QED
  BY <1>1, PlainKeeps DEF Plainly, Plain

Watch(s, w) == [s EXCEPT !.watchdog = w]
Wired(s, d) == [s EXCEPT !.devices = d]

LEMMA WatchIsPlain ==
    ASSUME NEW s, NEW v, Plainly(s, v), NEW w, NEW u, u = Watch(v, w)
    PROVE  Plainly(s, u) /\ u.watchdog = w
BY DEF Watch, Plainly, Changes, WorkFields, StreamFields

LEMMA WiredIsPlain ==
    ASSUME NEW s, NEW v, Plainly(s, v), NEW d, NEW u, u = Wired(v, d)
    PROVE  Plainly(s, u) /\ u.watchdog = v.watchdog
BY DEF Wired, Plainly, Changes, WorkFields, StreamFields

LEMMA GapIsPlain ==
    ASSUME NEW s, NEW v, Plainly(s, v), NEW a, NEW b, NEW u, u = PushGap(v, a, b)
    PROVE  Plainly(s, u) /\ u.watchdog = v.watchdog
BY DEF PushGap, Plainly, Changes, WorkFields, StreamFields

LEMMA LossIsPlain ==
    ASSUME NEW s, NEW v, Plainly(s, v), NEW at \in Nat, NEW u, u = SourceLost(v, at)
    PROVE  Plainly(s, u) /\ u.watchdog = v.watchdog /\ at \in u.losses
<1>1. DOMAIN v = WorkFields /\ v.losses \subseteq Nat
  BY DEF Plainly, Changes
<1>2. PICK l : l = IF v.lossAt = Unset THEN at ELSE v.lossAt
  OBVIOUS
<1>3. u = [[v EXCEPT !.lossAt = l] EXCEPT !.losses = v.losses \cup {at}]
  BY <1>2 DEF SourceLost
<1>4. /\ DOMAIN u = WorkFields /\ u.losses = v.losses \cup {at}
      /\ \A f \in WorkFields \ {"lossAt", "losses"} : u[f] = v[f]
  BY <1>1, <1>3 DEF WorkFields, StreamFields
<1>5. u.gaps = v.gaps /\ u.fault = v.fault /\ u.watchdog = v.watchdog
  BY <1>4 DEF WorkFields, StreamFields
<1>6. QED
  BY <1>1, <1>4, <1>5 DEF Plainly, Changes

\* The last callback, or the start.
Since(w, last) == IF last = Unset THEN w.started ELSE last

\* The restart that is still waiting for a callback.
Again(w, last) == IF w.restarted # Unset /\ last # Unset /\ last >= w.restarted THEN Unset ELSE w.restarted

\* What a poll makes of a watchdog: it waits, restarts the tap or gives it up.
PollDoes(w, last, v, losses) ==
    /\ v \in Dog /\ v.started = w.started /\ v.restarted \in {w.restarted, Unset, time}
    /\ \/ "system" \notin Roles /\ v = w
       \/ v.failed /\ (w.failed \/ time \in losses)
       \/ /\ ~w.failed /\ ~v.failed
          /\ \/ v.restarted = Again(w, last) /\ time < Since(w, last) + Timeout
             \/ /\ v.restarted = Again(w, last) /\ Again(w, last) # Unset
                /\ time < Again(w, last) + Timeout
             \/ v.restarted = time /\ Again(w, last) = Unset

LEMMA PollPlainly ==
    ASSUME NEW s, WorkOK(s), s.watchdog \in Dog, s.last \in Nat \cup {Unset}, time \in Nat,
           NEW u, u = Poll(s)
    PROVE  Plainly(s, u) /\ PollDoes(s.watchdog, s.last, u.watchdog, u.losses)
<1> DEFINE w == s.watchdog
           again == Again(w, s.last)
           since == Since(w, s.last)
<1>1. again \in Nat \cup {Unset} /\ since \in Nat /\ again \in {Unset, w.restarted}
  BY DEF Again, Since, Dog
<1>2. DOMAIN s = WorkFields /\ s.losses \subseteq Nat /\ s.fault \in Nat
  BY DEF WorkOK, StreamOK
<1>3. PICK wait : wait = [w EXCEPT !.restarted = again]
  OBVIOUS
<1>4. wait \in Dog /\ wait.started = w.started /\ wait.restarted = again /\ wait.failed = w.failed
  BY <1>1, <1>3 DEF Dog
<1>5. Plainly(s, s)
  BY <1>2 DEF Plainly, Changes
<1>6. PICK cleared : cleared = Watch(s, wait)
  OBVIOUS
<1>7. Plainly(s, cleared) /\ cleared.watchdog = wait
  BY <1>5, <1>6, WatchIsPlain
<1>8. PICK retry : retry = [wait EXCEPT !.restarted = time]
  OBVIOUS
<1>9. retry \in Dog /\ retry.started = w.started /\ retry.restarted = time /\ retry.failed = w.failed
  BY <1>4, <1>8 DEF Dog
<1>10. PICK restarted : restarted = Watch(cleared, retry)
  OBVIOUS
<1>11. Plainly(s, restarted) /\ restarted.watchdog = retry
  BY <1>7, <1>10, WatchIsPlain
<1>12. PICK restart : restart = PushGap(restarted, since, time)
  OBVIOUS
<1>13. Plainly(s, restart) /\ restart.watchdog = retry
  BY <1>11, <1>12, GapIsPlain
<1>14. PICK next : next = Wired(restart, restart.devices \cup {"system"})
  OBVIOUS
<1>15. Plainly(s, next) /\ next.watchdog = retry
  BY <1>13, <1>14, WiredIsPlain
<1>16. PICK dead : dead = [retry EXCEPT !.failed = TRUE]
  OBVIOUS
<1>17. dead \in Dog /\ dead.started = w.started /\ dead.failed /\ dead.restarted = time
  BY <1>9, <1>16 DEF Dog
<1>18. PICK dying : dying = Watch(restart, dead)
  OBVIOUS
<1>19. Plainly(s, dying) /\ dying.watchdog = dead
  BY <1>13, <1>18, WatchIsPlain
<1>20. PICK gone : gone = Wired(dying, restart.devices \ {"system"})
  OBVIOUS
<1>21. Plainly(s, gone) /\ gone.watchdog = dead
  BY <1>19, <1>20, WiredIsPlain
<1>22. PICK failed : failed = SourceLost(gone, time)
  OBVIOUS
<1>23. Plainly(s, failed) /\ failed.watchdog = dead /\ time \in failed.losses
  BY <1>21, <1>22, LossIsPlain
<1>24. PICK over : over = [wait EXCEPT !.failed = TRUE]
  OBVIOUS
<1>25. over \in Dog /\ over.started = w.started /\ over.failed /\ over.restarted = again
  BY <1>4, <1>24 DEF Dog
<1>26. PICK end : end = Watch(cleared, over)
  OBVIOUS
<1>27. Plainly(s, end) /\ end.watchdog = over
  BY <1>7, <1>26, WatchIsPlain
<1>28. PICK lost : lost = SourceLost(end, time)
  OBVIOUS
<1>280. Plainly(s, lost) /\ lost.watchdog = over /\ time \in lost.losses
  BY <1>27, <1>28, LossIsPlain
<1>29. u = IF "system" \notin Roles \/ w.failed THEN s
           ELSE IF time < since + Timeout THEN cleared
           ELSE IF again = Unset THEN Step(restart, next, failed)
           ELSE IF time >= again + Timeout THEN lost
           ELSE cleared
  <2> DEFINE c == [s EXCEPT !.watchdog.restarted = again]
             p == [c EXCEPT !.watchdog.restarted = time]
             q == PushGap(p, since, time)
             n == [q EXCEPT !.devices = @ \cup {"system"}]
             g == [q EXCEPT !.watchdog.failed = TRUE, !.devices = @ \ {"system"}]
             e == [c EXCEPT !.watchdog.failed = TRUE]
  <2>1. u = IF "system" \notin Roles \/ w.failed THEN s
            ELSE IF time < since + Timeout THEN c
            ELSE IF again = Unset THEN Step(q, n, SourceLost(g, time))
            ELSE IF time >= again + Timeout THEN SourceLost(e, time)
            ELSE c
    BY DEF Poll, Again, Since
  <2>2. c = cleared
    BY <1>3, <1>6 DEF Watch
  <2> HIDE DEF c
  <2>3. p = restarted
    BY <1>7, <1>8, <1>10, <2>2 DEF Watch
  <2>4. e = end
    BY <1>7, <1>24, <1>26, <2>2 DEF Watch
  <2> HIDE DEF p, e
  <2>5. q = restart
    BY <1>12, <2>3
  <2> HIDE DEF q
  <2>6. n = next
    BY <1>14, <2>5 DEF Wired
  <2>7. g = gone
    <3>1. dying = [restart EXCEPT !.watchdog.failed = TRUE]
      BY <1>13, <1>16, <1>18 DEF Watch
    <3>2. QED
      BY <1>20, <2>5, <3>1 DEF Wired
  <2> HIDE DEF n, g
  <2>8. QED
    BY <1>22, <1>28, <2>1, <2>2, <2>4, <2>5, <2>6, <2>7, SMTT(30)
<1> HIDE DEF again, since
<1>30. CASE "system" \notin Roles \/ w.failed
  <2>1. u = s /\ Plainly(s, s)
    BY <1>2, <1>29, <1>30 DEF Plainly, Changes
  <2>2. QED
    BY <1>30, <2>1 DEF PollDoes
<1>31. CASE u = cleared /\ ~w.failed /\ (time < since + Timeout \/ (again # Unset /\ time < again + Timeout))
  BY <1>1, <1>4, <1>7, <1>31 DEF PollDoes, again, since
<1>32. CASE u = lost
  BY <1>1, <1>25, <1>280, <1>32 DEF PollDoes
<1>33. CASE u = Step(restart, next, failed) /\ again = Unset /\ ~w.failed
  <2>1. DOMAIN next = WorkFields /\ DOMAIN failed = WorkFields
    BY <1>15, <1>23 DEF Plainly, Changes
  <2>2. Outcome(restart, u, next, failed)
    BY <1>13, <1>33, <2>1, StepIs DEF Plainly
  <2>3. ASSUME NEW v, Plainly(s, v), Changes(v, u, {"ok", "fault"}), u.fault \in Nat
        PROVE  Plainly(s, u) /\ u.watchdog = v.watchdog /\ u.losses = v.losses
    BY <2>3 DEF Plainly, Changes, WorkFields, StreamFields
  <2>4. CASE u = restart \/ Changes(next, u, {"fault"})
    <3>1. Plainly(s, u) /\ u.watchdog = retry
      <4>1. CASE u = restart
        BY <1>13, <4>1
      <4>2. CASE Changes(next, u, {"fault"})
        BY <1>15, <2>2, <2>3, <4>2 DEF Outcome, Changes
      <4>3. QED
        BY <2>4, <4>1, <4>2
    <3>2. QED
      BY <1>9, <1>33, <3>1 DEF PollDoes, again
  <2>5. CASE Changes(failed, u, {"ok", "fault"})
    <3>1. Plainly(s, u) /\ u.watchdog = dead /\ time \in u.losses
      BY <1>23, <2>2, <2>3, <2>5 DEF Outcome
    <3>2. QED
      BY <1>17, <3>1 DEF PollDoes
  <2>6. QED
    BY <2>2, <2>4, <2>5 DEF Outcome
<1>34. QED
  BY <1>1, <1>29, <1>30, <1>31, <1>32, <1>33, TrackAssumption

\* resume: the watchdog starts anew if the tap plays again.
LEMMA ResumedPlainly ==
    ASSUME NEW s, WorkOK(s), s.ok, time \in Nat, NEW u, u = Resumed(s)
    PROVE  /\ Conserves(s, u)
           /\ u.watchdog \in {s.watchdog, Watchdog(time)}
           /\ s.paused /\ u.ok => u.watchdog = Watchdog(time)
           /\ ~u.ok => u.paused = s.paused
<1>1. DOMAIN s = WorkFields /\ s.losses \subseteq Nat /\ s.fault \in Nat
  BY DEF WorkOK, StreamOK
<1>2. Plainly(s, s)
  BY <1>1 DEF Plainly, Changes
<1>3. PICK tap : tap = IF "system" \in Roles
                       THEN Step(s, [s EXCEPT !.devices = @ \cup {"system"}], s) ELSE s
  OBVIOUS
<1>4. Plainly(s, tap) /\ tap.watchdog = s.watchdog
  <2>1. CASE "system" \in Roles
    <3>1. Changes(s, tap, {"devices", "ok", "fault"}) /\ tap.fault \in Nat
      BY <1>1, <1>3, <2>1, DeviceStep
    <3>2. QED
      BY <1>1, <3>1 DEF Plainly, Changes, WorkFields, StreamFields
  <2>2. QED
    BY <1>2, <1>3, <2>1
<1>5. PICK reset : reset = Watch(tap, Watchdog(time))
  OBVIOUS
<1>6. Plainly(s, reset) /\ reset.watchdog = Watchdog(time)
  BY <1>4, <1>5, WatchIsPlain
<1>7. PICK set : set = IF tap.ok THEN reset ELSE tap
  OBVIOUS
<1>8. /\ Plainly(s, set)
      /\ \/ tap.ok /\ set.watchdog = Watchdog(time)
         \/ ~set.ok /\ set.watchdog = s.watchdog
  BY <1>4, <1>6, <1>7
<1>9. PICK on : on = Wired(set, set.devices \cup {"microphone"})
  OBVIOUS
<1>10. PICK off : off = Wired(set, {})
  OBVIOUS
<1>11. Plainly(s, on) /\ on.watchdog = set.watchdog /\ Plainly(s, off) /\ off.watchdog = set.watchdog
  BY <1>8, <1>9, <1>10, WiredIsPlain
<1>12. PICK mic : mic = Step(set, on, off)
  OBVIOUS
<1>13. Outcome(set, mic, on, off)
  BY <1>8, <1>11, <1>12, StepIs DEF Plainly, Changes
<1>14. /\ Plainly(s, mic) /\ mic.watchdog = set.watchdog
       /\ mic.ok => set.watchdog = Watchdog(time)
  <2>1. ASSUME NEW v, Plainly(s, v), Changes(v, mic, {"ok", "fault"}), mic.fault \in Nat
        PROVE  Plainly(s, mic) /\ mic.watchdog = v.watchdog
    BY <2>1 DEF Plainly, Changes, WorkFields, StreamFields
  <2>2. CASE mic = set /\ ~set.ok
    BY <1>8, <2>2
  <2>3. CASE set.ok /\ ~mic.ok /\ Changes(off, mic, {"ok", "fault"})
    BY <1>11, <1>13, <2>1, <2>3 DEF Outcome
  <2>4. CASE set.ok /\ Changes(on, mic, {"fault"})
    <3>1. Changes(on, mic, {"ok", "fault"})
      BY <2>4, SMTT(30) DEF Changes
    <3>2. QED
      BY <1>8, <1>11, <1>13, <2>1, <2>4, <3>1 DEF Outcome
  <2>5. QED
    BY <1>13, <2>2, <2>3, <2>4 DEF Outcome
<1>15. u = IF s.stopped THEN [s EXCEPT !.ok = FALSE]
           ELSE IF ~s.paused THEN s
           ELSE IF ~mic.ok THEN mic
           ELSE [mic EXCEPT !.paused = FALSE]
  <2>1. set = IF tap.ok THEN [tap EXCEPT !.watchdog = Reset(@, time)] ELSE tap
    BY <1>5, <1>7 DEF Watch, Reset
  <2>2. QED
    BY <1>3, <1>9, <1>10, <1>12, <2>1 DEF Resumed, Wired
<1>16. CASE s.stopped
  <2>1. Plainly(s, u) /\ u.watchdog = s.watchdog /\ ~u.ok
    BY <1>1, <1>15, <1>16 DEF Plainly, Changes, WorkFields, StreamFields
  <2>2. QED
    BY <2>1, PlainlyKeeps
<1>17. CASE ~s.stopped /\ ~s.paused
  BY <1>2, <1>15, <1>17, PlainlyKeeps
<1>18. CASE ~s.stopped /\ s.paused /\ ~mic.ok
  BY <1>8, <1>14, <1>15, <1>18, PlainlyKeeps
<1>19. CASE ~s.stopped /\ s.paused /\ mic.ok
  <2>1. u = [mic EXCEPT !.paused = FALSE]
    BY <1>15, <1>19
  <2>2. Changes(mic, u, {"paused"}) /\ u.watchdog = mic.watchdog /\ u.ok = mic.ok
    BY <1>14, <2>1 DEF Plainly, Changes, WorkFields, StreamFields
  <2>3. /\ Changes(s, u, Plain) /\ s.gaps \subseteq u.gaps /\ s.losses \subseteq u.losses
        /\ u.losses \subseteq Nat /\ u.fault \in Nat
    BY <1>14, <2>2 DEF Plainly, Changes, Plain, WorkFields, StreamFields
  <2>4. Conserves(s, u)
    BY <2>3, PlainKeeps DEF Plain
  <2>5. QED
    BY <1>14, <1>19, <2>2, <2>4
<1>20. QED
  BY <1>16, <1>17, <1>18, <1>19

------------------------
(* From the stream to a call's work, and back. *)

\* What the segments and the track of a role hold.
HeldBy(s, r) == Sounds(s.returned, r) \cup Recording(s.track[r])

LEMMA WorkIs ==
    ASSUME DOMAIN stream = StreamFields, StreamOK(stream), NEW fault \in Nat, NEW w, w = Work(fault)
    PROVE  /\ WorkOK(w) /\ w.ok /\ w.done = <<>> /\ \A f \in StreamFields : w[f] = stream[f]
           /\ \A r \in Roles : Audio(w, r) = HeldBy(stream, r)
<1>1. PICK extra : extra = [ok |-> TRUE, fault |-> fault, done |-> <<>>]
  OBVIOUS
<1>2. w = [f \in DOMAIN stream \cup DOMAIN extra |->
             IF f \in DOMAIN extra THEN extra[f] ELSE stream[f]]
  BY <1>1 DEF Work
<1>3. DOMAIN extra = {"ok", "fault", "done"} /\ extra.ok = TRUE /\ extra.fault = fault /\ extra.done = <<>>
  BY <1>1
<1>4. /\ DOMAIN w = WorkFields /\ \A f \in StreamFields : w[f] = stream[f]
      /\ w.ok = TRUE /\ w.fault = fault /\ w.done = <<>>
  BY <1>2, <1>3 DEF WorkFields, StreamFields
<1>5. w.track = stream.track /\ w.returned = stream.returned /\ w.losses = stream.losses
  BY <1>4 DEF StreamFields
<1>6. WorkOK(w)
  BY <1>4, <1>5 DEF WorkOK, StreamOK
<1>7. \A r \in Roles : Audio(w, r) = HeldBy(stream, r)
  BY <1>4, <1>5, SoundsOfNone DEF Audio, HeldBy, Recording
<1>8. QED
  BY <1>4, <1>6, <1>7

LEMMA KeptIs ==
    ASSUME DOMAIN stream = StreamFields, NEW u, WorkOK(u), NEW v, v = Kept(u)
    PROVE  /\ DOMAIN v = StreamFields /\ StreamOK(v)
           /\ \A f \in StreamFields \ {"returned"} : v[f] = u[f]
           /\ \A r \in Roles : HeldBy(v, r) = Audio(u, r)
<1>1. PICK list : list = u.returned \o u.done
  OBVIOUS
<1>2. v = [f \in StreamFields |-> IF f = "returned" THEN list ELSE u[f]]
  BY <1>1 DEF Kept
<1>3. /\ DOMAIN v = StreamFields /\ v.returned = list
      /\ \A f \in StreamFields \ {"returned"} : v[f] = u[f]
  BY <1>2 DEF StreamFields
<1>4. u.returned \in Seq(Segments) /\ u.done \in Seq(Segments)
  BY DEF WorkOK, StreamOK
<1>5. ASSUME NEW r \in Roles
      PROVE  list \in Seq(Segments) /\ Sounds(list, r) = Sounds(u.returned, r) \cup Sounds(u.done, r)
  BY <1>1, <1>4, SoundsJoin
<1>6. v.track = u.track /\ v.losses = u.losses
  BY <1>3 DEF StreamFields
<1>7. "microphone" \in Roles
  BY TrackAssumption
<1>8. StreamOK(v)
  BY <1>3, <1>5, <1>6, <1>7 DEF StreamOK, WorkOK
<1>9. \A r \in Roles : HeldBy(v, r) = Audio(u, r)
  BY <1>3, <1>5, <1>6 DEF HeldBy, Audio, Recording
<1>10. QED
  BY <1>3, <1>8, <1>9

------------------------
(* HolesAreReported. *)

WholeIn(s, r) == Accounted(HeldBy(s, r), s.track[r].expected, s.gaps, s.losses)

TracksOf(s) ==
    /\ DOMAIN s = StreamFields /\ StreamOK(s)
    /\ s.spoiled \/ \A r \in Roles : WholeIn(s, r)

TracksInv == TracksOf(stream) /\ time \in Nat

\* A call of the session: what its steps keep, the stream keeps.
LEMMA CallKeeps ==
    ASSUME TracksOf(stream), NEW fault \in Nat, NEW u, Conserves(Work(fault), u), NEW v, v = Kept(u)
    PROVE  /\ TracksOf(v) /\ v.last = stream.last /\ v.watchdog = u.watchdog /\ v.paused = u.paused
           /\ v.losses = u.losses /\ stream.losses \subseteq v.losses
<1>1. PICK w : w = Work(fault)
  OBVIOUS
<1>2. Conserves(w, u)
  BY <1>1
<1>3. DOMAIN stream = StreamFields /\ StreamOK(stream)
  BY DEF TracksOf
<1>4. /\ \A f \in StreamFields : w[f] = stream[f]
      /\ \A r \in Roles : Audio(w, r) = HeldBy(stream, r)
  BY <1>1, <1>3, WorkIs
<1>5. WorkOK(u)
  BY <1>2 DEF Conserves
<1>6. /\ DOMAIN v = StreamFields /\ StreamOK(v)
      /\ \A f \in StreamFields \ {"returned"} : v[f] = u[f]
      /\ \A r \in Roles : HeldBy(v, r) = Audio(u, r)
  BY <1>3, <1>5, KeptIs
<1>7. /\ v.last = u.last /\ v.watchdog = u.watchdog /\ v.paused = u.paused /\ v.losses = u.losses
      /\ v.gaps = u.gaps /\ v.spoiled = u.spoiled /\ v.track = u.track
  BY <1>6 DEF StreamFields
<1>8. /\ w.last = stream.last /\ w.losses = stream.losses /\ w.gaps = stream.gaps
      /\ w.spoiled = stream.spoiled /\ w.track = stream.track
  BY <1>4 DEF StreamFields
<1>9. stream.gaps \subseteq v.gaps /\ stream.losses \subseteq v.losses /\ v.last = stream.last
  BY <1>2, <1>7, <1>8 DEF Conserves
<1>10. ASSUME ~v.spoiled, NEW r \in Roles PROVE WholeIn(v, r)
  <2>1. ~u.spoiled /\ ~stream.spoiled
    BY <1>2, <1>7, <1>8, <1>10 DEF Conserves
  <2>2. HeldBy(v, r) = HeldBy(stream, r) /\ v.track[r].expected = stream.track[r].expected
    BY <1>2, <1>4, <1>6, <1>7, <1>8, <2>1 DEF Conserves
  <2>3. WholeIn(stream, r)
    BY <2>1 DEF TracksOf
  <2>4. QED
    BY <1>9, <2>2, <2>3, SameAudio DEF WholeIn
<1>11. QED
  BY <1>6, <1>7, <1>9, <1>10 DEF TracksOf

\* The session looks at the watchdog and the devices, and takes the signals.
Drained(fault, gone) == [[Presence(Poll(Work(fault)), gone) EXCEPT !.ok = TRUE] EXCEPT !.lossAt = Unset]

LEMMA DrainedKeeps ==
    ASSUME TracksOf(stream), time \in Nat, stream.watchdog \in Dog, stream.last \in Nat \cup {Unset},
           NEW fault \in Nat, NEW gone, NEW d, d = Drained(fault, gone)
    PROVE  /\ Conserves(Work(fault), d) /\ d.done = <<>> /\ d.ok /\ d.paused = stream.paused
           /\ PollDoes(stream.watchdog, stream.last, d.watchdog, d.losses)
<1>1. PICK w : w = Work(fault)
  OBVIOUS
<1>2. DOMAIN stream = StreamFields /\ StreamOK(stream)
  BY DEF TracksOf
<1>3. WorkOK(w) /\ w.ok /\ w.done = <<>> /\ \A f \in StreamFields : w[f] = stream[f]
  BY <1>1, <1>2, WorkIs
<1>4. w.watchdog = stream.watchdog /\ w.last = stream.last /\ w.paused = stream.paused
  BY <1>3 DEF StreamFields
<1>5. PICK p : p = Poll(w)
  OBVIOUS
<1>6. Plainly(w, p) /\ PollDoes(w.watchdog, w.last, p.watchdog, p.losses)
  BY <1>3, <1>4, <1>5, PollPlainly
<1>7. Conserves(w, p) /\ p.done = w.done /\ p.paused = w.paused /\ WorkOK(p)
  BY <1>3, <1>6, PlainlyKeeps DEF Conserves
<1>8. PICK q : q = Presence(p, gone)
  OBVIOUS
<1>9. Conserves(p, q) /\ Changes(p, q, {"lossAt", "losses", "app"})
  BY <1>7, <1>8, PresenceKeeps
<1>10. d = [[q EXCEPT !.ok = TRUE] EXCEPT !.lossAt = Unset]
  BY <1>1, <1>5, <1>8 DEF Drained
<1>11. Changes(q, d, {"ok", "lossAt"}) /\ d.ok
  BY <1>9, <1>10 DEF Changes, WorkFields, StreamFields
<1>12. /\ q.done = p.done /\ q.paused = p.paused /\ q.watchdog = p.watchdog
       /\ p.losses \subseteq q.losses /\ WorkOK(q)
  BY <1>9 DEF Changes, Conserves, WorkFields, StreamFields
<1>13. /\ d.done = q.done /\ d.paused = q.paused /\ d.watchdog = q.watchdog
       /\ d.losses = q.losses /\ d.gaps = q.gaps /\ d.fault = q.fault
  BY <1>11 DEF Changes, WorkFields, StreamFields
<1>14. Conserves(q, d)
  <2>1. Changes(q, d, Plain)
    BY <1>11 DEF Changes, Plain
  <2>2. q.losses \subseteq Nat /\ q.fault \in Nat
    BY <1>12 DEF WorkOK, StreamOK
  <2>3. QED
    BY <1>12, <1>13, <2>1, <2>2, PlainKeeps DEF Plain
<1>15. Conserves(w, d)
  BY <1>7, <1>9, <1>14, KeepsTransitive
<1>16. PollDoes(w.watchdog, w.last, d.watchdog, d.losses)
  BY <1>6, <1>12, <1>13 DEF PollDoes
<1>17. QED
  BY <1>1, <1>3, <1>4, <1>7, <1>11, <1>12, <1>13, <1>15, <1>16

\* What a call of the session leaves: work x that keeps what the stream had.
LEMMA TickIs ==
    ASSUME TracksInv, stream.watchdog \in Dog, stream.last \in Nat \cup {Unset}, Tick
    PROVE  \E fault, x :
             /\ fault \in Nat
             /\ Conserves(Work(fault), x) /\ stream' = Kept(x)
             /\ PollDoes(stream.watchdog, stream.last, x.watchdog, x.losses)
             /\ \/ session' = session
                \/ session' = [session EXCEPT !.phase = "sourceLost"] /\ x.paused
                \/ \E from : session' = [session EXCEPT !.from = from]
<1>1. PICK fault \in {0} \cup FaultAt, gone \in SUBSET {"microphone", "application"}, first \in Roles :
        LET seen     == [Presence(Poll(Work(fault)), gone) EXCEPT !.ok = TRUE]
            loss     == seen.lossAt
            drained  == [seen EXCEPT !.lossAt = Unset]
            lost     == Close(drained, "sourceLoss", first)
            boundary == session.from + Rolling
            rolled   == Close(drained, "rolling", first)
        IN  IF loss # Unset /\ loss > session.from
            THEN /\ stream' = Kept(lost)
                 /\ session' = IF Accepts(lost, loss, TRUE)
                               THEN [session EXCEPT !.phase = "sourceLost"] ELSE session
            ELSE IF loss = Unset /\ time >= boundary
            THEN /\ stream' = Kept(rolled)
                 /\ session' = IF Accepts(rolled, boundary, FALSE)
                               THEN [session EXCEPT !.from = boundary] ELSE session
            ELSE stream' = Kept(drained) /\ session' = session
  BY ZenonT(40) DEF Tick
<1>2. fault \in Nat
  BY TrackAssumption
<1>3. PICK d : d = Drained(fault, gone)
  OBVIOUS
<1>4. PICK lost : lost = Close(d, "sourceLoss", first)
  OBVIOUS
<1>5. PICK rolled : rolled = Close(d, "rolling", first)
  OBVIOUS
<1>6. \/ stream' = Kept(d) /\ session' = session
      \/ /\ stream' = Kept(lost)
         /\ \/ session' = session
            \/ session' = [session EXCEPT !.phase = "sourceLost"] /\ lost.ok
      \/ /\ stream' = Kept(rolled)
         /\ \/ session' = session
            \/ \E from : session' = [session EXCEPT !.from = from]
  BY <1>1, <1>3, <1>4, <1>5 DEF Drained, Accepts
<1>7. /\ Conserves(Work(fault), d) /\ d.done = <<>> /\ d.ok /\ d.paused = stream.paused
      /\ PollDoes(stream.watchdog, stream.last, d.watchdog, d.losses)
  BY <1>2, <1>3, DrainedKeeps DEF TracksInv
<1>8. WorkOK(d)
  BY <1>7 DEF Conserves
<1>9. Conserves(d, lost) /\ lost.watchdog = d.watchdog /\ (lost.ok => lost.paused)
  <2>1. PICK reason : reason = "sourceLoss"
    OBVIOUS
  <2>2. lost = Close(d, reason, first) /\ reason # "rolling" /\ (reason # "stop") = TRUE
    BY <1>4, <2>1
  <2>3. /\ Conserves(d, lost) /\ lost.watchdog = d.watchdog
        /\ lost.ok /\ reason # "rolling" => lost.paused = (reason # "stop")
    BY <1>7, <1>8, <2>2, CloseKeeps
  <2>4. QED
    BY <2>2, <2>3
<1>10. Conserves(d, rolled) /\ rolled.watchdog = d.watchdog
  BY <1>5, <1>7, <1>8, CloseKeeps
<1>11. ASSUME NEW x, Conserves(d, x), x.watchdog = d.watchdog
       PROVE  Conserves(Work(fault), x) /\ PollDoes(stream.watchdog, stream.last, x.watchdog, x.losses)
  BY <1>7, <1>11, KeepsTransitive DEF PollDoes, Conserves
<1>12. QED
  BY <1>2, <1>6, <1>7, <1>9, <1>10, <1>11

LEMMA EndIs ==
    ASSUME TracksInv, NEW reason, NEW phase, reason # "rolling", End(reason, phase)
    PROVE  \E fault, x :
             /\ fault \in Nat
             /\ Conserves(Work(fault), x) /\ stream' = Kept(x) /\ x.watchdog = stream.watchdog
             /\ \/ session' = session
                \/ session' = [session EXCEPT !.phase = phase] /\ x.paused = (reason # "stop")
<1>1. PICK fault \in {0} \cup FaultAt, first \in Roles :
        LET s == Close(Work(fault), reason, first) IN
        /\ stream' = Kept(s)
        /\ session' = IF Accepts(s, time, FALSE) THEN [session EXCEPT !.phase = phase] ELSE session
  BY DEF End
<1>2. fault \in Nat
  BY TrackAssumption
<1>3. PICK w : w = Work(fault)
  OBVIOUS
<1>4. PICK x : x = Close(w, reason, first)
  OBVIOUS
<1>5. /\ stream' = Kept(x)
      /\ \/ session' = session
         \/ session' = [session EXCEPT !.phase = phase] /\ x.ok
  BY <1>1, <1>3, <1>4 DEF Accepts
<1>6. DOMAIN stream = StreamFields /\ StreamOK(stream)
  BY DEF TracksInv, TracksOf
<1>7. WorkOK(w) /\ w.ok /\ w.done = <<>> /\ \A f \in StreamFields : w[f] = stream[f]
  BY <1>2, <1>3, <1>6, WorkIs
<1>8. Conserves(w, x) /\ x.watchdog = w.watchdog /\ (x.ok => x.paused = (reason # "stop"))
  BY <1>4, <1>7, CloseKeeps
<1>9. x.watchdog = stream.watchdog
  BY <1>7, <1>8 DEF StreamFields
<1>10. QED
  BY <1>2, <1>3, <1>5, <1>8, <1>9

\* resume leaves the tracks alone.
LEMMA ResumeIs ==
    ASSUME TracksInv, Resume
    PROVE  \E fault, x :
             /\ fault \in Nat
             /\ Conserves(Work(fault), x) /\ stream' = Kept(x)
             /\ x.watchdog \in {stream.watchdog, Watchdog(time)}
             /\ \/ /\ session' = [phase |-> "recording", from |-> time]
                   /\ stream.paused => x.watchdog = Watchdog(time)
                \/ session' = session /\ x.paused = stream.paused
<1>1. PICK fault \in {0} \cup FaultAt :
        LET s == Resumed(Work(fault)) IN
        /\ stream' = Kept(s)
        /\ session' = IF s.ok THEN [phase |-> "recording", from |-> time] ELSE session
  BY DEF Resume
<1>2. fault \in Nat
  BY TrackAssumption
<1>3. PICK w : w = Work(fault)
  OBVIOUS
<1>4. PICK x : x = Resumed(w)
  OBVIOUS
<1>5. DOMAIN stream = StreamFields /\ StreamOK(stream)
  BY DEF TracksInv, TracksOf
<1>6. WorkOK(w) /\ w.ok /\ \A f \in StreamFields : w[f] = stream[f]
  BY <1>2, <1>3, <1>5, WorkIs
<1>7. /\ Conserves(w, x) /\ x.watchdog \in {w.watchdog, Watchdog(time)}
      /\ w.paused /\ x.ok => x.watchdog = Watchdog(time)
      /\ ~x.ok => x.paused = w.paused
  BY <1>4, <1>6, ResumedPlainly DEF TracksInv
<1>8. w.watchdog = stream.watchdog /\ w.paused = stream.paused
  BY <1>6 DEF StreamFields
<1>9. /\ stream' = Kept(x)
      /\ session' = IF x.ok THEN [phase |-> "recording", from |-> time] ELSE session
  BY <1>1, <1>3, <1>4
<1>10. QED
  BY <1>2, <1>3, <1>7, <1>8, <1>9

\* A callback: the audio of its unit is held, or a loss is reported.
LEMMA CallbackIs ==
    ASSUME TracksInv, NEW r \in Roles, Callback(r)
    PROVE  /\ TracksOf(stream') /\ stream.losses \subseteq stream'.losses
           /\ stream'.watchdog = stream.watchdog /\ stream'.paused = stream.paused
           /\ \E to \in Nat : /\ time - 1 <= to /\ to <= time
                              /\ stream'.last = IF r = "system" THEN to ELSE stream.last
<1>1. PICK late \in {0, 1}, silent \in BOOLEAN,
           fault \in {"none", "format", "open", "header", "write"} :
        late < time /\ stream' = Push(stream, r, time - 1 - late, time - late, silent, fault)
  BY DEF Callback
<1>2. PICK from \in Nat : from = time - 1 - late /\ from + 1 = time - late /\ from + 1 <= time
  BY <1>1 DEF TracksInv
<1>3. PICK u : u = stream'
  OBVIOUS
<1>4. u = Push(stream, r, from, from + 1, silent, fault)
  BY <1>1, <1>2, <1>3
<1>5. /\ DOMAIN stream = StreamFields /\ TracksOK(stream.track) /\ stream.losses \subseteq Nat
      /\ time \in Nat /\ stream.returned \in Seq(Segments)
  BY DEF TracksInv, TracksOf, StreamOK
<1>6. /\ Recorded(stream, u, r) /\ u.last = IF r = "system" THEN from + 1 ELSE stream.last
      /\ \/ /\ Recording(u.track[r]) = Recording(stream.track[r])
            /\ u.track[r].expected = stream.track[r].expected
         \/ /\ u.track[r].expected = from + 1
            /\ stream.track[r].expected + Tolerance < from
                  => stream.track[r].expected .. from - 1 \subseteq u.gaps
            /\ \/ Recording(u.track[r]) = Recording(stream.track[r]) \cup {from}
               \/ Recording(u.track[r]) = Recording(stream.track[r]) /\ time \in u.losses
  BY <1>4, <1>5, Pushed, SMTT(30)
<1>7. /\ DOMAIN u = StreamFields /\ StreamOK(u) /\ u.spoiled = stream.spoiled
      /\ stream.gaps \subseteq u.gaps /\ stream.losses \subseteq u.losses
      /\ u.returned = stream.returned /\ \A q \in Roles \ {r} : u.track[q] = stream.track[q]
      /\ u.watchdog = stream.watchdog /\ u.paused = stream.paused /\ u.losses \subseteq Nat
  BY <1>5, <1>6 DEF Recorded, StreamOK
<1>8. ASSUME ~u.spoiled, NEW q \in Roles PROVE WholeIn(u, q)
  <2>1. WholeIn(stream, q)
    BY <1>7, <1>8 DEF TracksInv, TracksOf
  <2>2. CASE q # r
    <3>1. HeldBy(u, q) = HeldBy(stream, q) /\ u.track[q] = stream.track[q]
      BY <1>7, <2>2 DEF HeldBy
    <3>2. QED
      BY <1>7, <2>1, <3>1, SameAudio DEF WholeIn
  <2>3. CASE q = r
    <3> DEFINE held == HeldBy(stream, r)
               e == stream.track[r].expected
    <3>1. TrackOK(stream.track[r]) /\ e \in Nat
      BY <1>5 DEF TracksOK, TrackOK
    <3>2. held \in SUBSET Nat
      BY <1>5, <3>1, SoundsAreTimes, TrackIsTimes DEF HeldBy, Recording
    <3>3. Accounted(held, e, stream.gaps, stream.losses)
      BY <2>1, <2>3 DEF WholeIn
    <3> HIDE DEF held, e
    <3>4. CASE Recording(u.track[r]) = Recording(stream.track[r]) /\ u.track[r].expected = e
      <4>1. HeldBy(u, r) = held
        BY <1>7, <3>4 DEF HeldBy, held
      <4>2. QED
        BY <1>7, <2>3, <3>3, <3>4, <4>1, SameAudio DEF WholeIn
    <3>5. CASE /\ u.track[r].expected = from + 1
               /\ Recording(u.track[r]) = Recording(stream.track[r]) /\ time \in u.losses
      <4>1. HeldBy(u, r) = held
        BY <1>7, <3>5 DEF HeldBy, held
      <4>2. QED
        BY <1>2, <1>7, <2>3, <3>3, <3>5, <4>1, LostAudio DEF WholeIn
    <3>6. CASE /\ u.track[r].expected = from + 1
               /\ e + Tolerance < from => e .. from - 1 \subseteq u.gaps
               /\ Recording(u.track[r]) = Recording(stream.track[r]) \cup {from}
      <4>1. HeldBy(u, r) = held \cup {from}
        BY <1>7, <3>6 DEF HeldBy, held
      <4>2. Accounted(held \cup {from}, from + 1, u.gaps, u.losses)
        BY <1>2, <1>7, <3>1, <3>2, <3>3, <3>6, NewAudio DEF e
      <4>3. QED
        BY <2>3, <3>6, <4>1, <4>2 DEF WholeIn
    <3>7. QED
      BY <1>6, <3>4, <3>5, <3>6 DEF e
  <2>4. QED
    BY <2>2, <2>3
<1>9. TracksOf(u)
  BY <1>7, <1>8 DEF TracksOf
<1>10. from + 1 \in Nat /\ time - 1 <= from + 1
  BY <1>1, <1>2, <1>5
<1>11. QED
  BY <1>2, <1>3, <1>6, <1>7, <1>9, <1>10

LEMMA DeviceErrorIs ==
    ASSUME TracksInv, DeviceError
    PROVE  /\ TracksOf(stream') /\ stream.losses \subseteq stream'.losses
           /\ stream'.watchdog = stream.watchdog /\ stream'.paused = stream.paused
           /\ stream'.last = stream.last
<1>1. PICK u : u = stream'
  OBVIOUS
<1>2. u = SourceLost(stream, time) /\ time \in Nat /\ "microphone" \in Roles
  BY <1>1, TrackAssumption DEF DeviceError, TracksInv
<1>3. /\ DOMAIN stream = StreamFields /\ TracksOK(stream.track) /\ stream.losses \subseteq Nat
      /\ stream.returned \in Seq(Segments)
  BY DEF TracksInv, TracksOf, StreamOK
<1>4. Recorded(stream, u, "microphone") /\ u.track = stream.track /\ u.last = stream.last
  BY <1>2, <1>3, LossReported
<1>5. /\ DOMAIN u = StreamFields /\ StreamOK(u) /\ u.spoiled = stream.spoiled
      /\ stream.gaps \subseteq u.gaps /\ stream.losses \subseteq u.losses
      /\ u.returned = stream.returned /\ u.watchdog = stream.watchdog /\ u.paused = stream.paused
  BY <1>3, <1>4 DEF Recorded, StreamOK
<1>6. ASSUME ~u.spoiled, NEW q \in Roles PROVE WholeIn(u, q)
  <2>1. WholeIn(stream, q) /\ HeldBy(u, q) = HeldBy(stream, q)
    BY <1>4, <1>5, <1>6 DEF TracksInv, TracksOf, HeldBy
  <2>2. QED
    BY <1>4, <1>5, <2>1, SameAudio DEF WholeIn
<1>7. TracksOf(u)
  BY <1>5, <1>6 DEF TracksOf
<1>8. QED
  BY <1>1, <1>4, <1>5, <1>7

LEMMA TracksInit == MacInit => TracksInv
<1> SUFFICES ASSUME MacInit PROVE TracksInv
  OBVIOUS
<1> USE DEF MacInit
<1>1. DOMAIN stream = StreamFields /\ time \in Nat
  BY DEF StreamFields
<1>2. TrackOK(Track)
  BY DEF TrackOK, Track, TrackFields
<1>3. TracksOK(stream.track) /\ \A r \in Roles : stream.track[r] = Track
  BY <1>2 DEF TracksOK
<1>4. StreamOK(stream)
  BY <1>3 DEF StreamOK
<1>5. ASSUME NEW r \in Roles PROVE WholeIn(stream, r)
  <2>1. HeldBy(stream, r) = {}
    BY <1>3, SoundsOfNone DEF HeldBy, Recording, Drafted, Audios, Opened, Track
  <2>2. stream.track[r].expected = 0
    BY <1>3 DEF Track
  <2>3. Holes({}, 0) = {}
    BY DEF Holes
  <2>4. QED
    BY <2>1, <2>2, <2>3 DEF WholeIn, Accounted
<1>6. QED
  BY <1>1, <1>4, <1>5 DEF TracksInv, TracksOf

------------------------
(* StallIsReported. *)

\* The last sign of life of the tap.
Sign(w, last) == Greatest(w.started, IF last = Unset THEN 0 ELSE last)

\* The session has seen, or has still to see, the instant k before it passes.
Before(t, seen, k) == IF seen THEN t < k ELSE t <= k

\* What the watchdog still waits for: a first callback, or one after a restart.
Awaited(w, last, t, seen) ==
    \/ Before(t, seen, Sign(w, last) + Timeout)
    \/ /\ w.restarted # Unset /\ w.restarted <= Sign(w, last) + Timeout
       /\ Before(t, seen, w.restarted + Timeout)

WatchOf(w, last) ==
    /\ w \in Dog /\ w.started <= time /\ (w.restarted # Unset => w.restarted <= time)
    /\ last \in Nat \cup {Unset} /\ (last # Unset => last <= time)

WatchInv ==
    /\ time \in Nat /\ polled \in BOOLEAN /\ DOMAIN session = {"phase", "from"}
    /\ WatchOf(stream.watchdog, stream.last)
    /\ "system" \notin called /\ stream.last # Unset => stream.last < time
    /\ stream.watchdog.failed => \E l \in stream.losses : l >= stream.watchdog.started
    /\ session.phase \in {"paused", "sourceLost"} => stream.paused
    /\ session.phase = "recording" /\ "system" \in Roles /\ ~stream.watchdog.failed
          => Awaited(stream.watchdog, stream.last, time, polled)

MacInv == TracksInv /\ WatchInv

LEMMA WatchInit == MacInit => WatchInv
<1> SUFFICES ASSUME MacInit PROVE WatchInv
  OBVIOUS
<1>1. /\ stream.watchdog = Watchdog(0) /\ stream.last = Unset /\ time = 0 /\ polled = FALSE
      /\ session = [phase |-> "recording", from |-> 0]
  BY DEF MacInit
<1>2. Unset \notin Nat /\ Timeout \in Nat
  BY TrackAssumption
<1>3. WatchOf(Watchdog(0), Unset)
  BY <1>1 DEF WatchOf, Watchdog, Dog
<1>4. Awaited(Watchdog(0), Unset, 0, FALSE)
  BY <1>2 DEF Awaited, Before, Sign, Greatest, Watchdog
<1>5. ~Watchdog(0).failed
  BY DEF Watchdog
<1>6. QED
  BY <1>1, <1>3, <1>4, <1>5 DEF WatchInv

\* A poll that does not give up the tap has seen it in time, or restarted it.
LEMMA PollAwaits ==
    ASSUME NEW w, NEW last, WatchOf(w, last), time \in Nat, Awaited(w, last, time, FALSE),
           NEW v, NEW losses, PollDoes(w, last, v, losses), "system" \in Roles, ~v.failed
    PROVE  Awaited(v, last, time, TRUE)
<1> DEFINE m == Sign(w, last)
<1>1. /\ Unset \notin Nat /\ Timeout \in Nat /\ Timeout > 0
      /\ w.started \in Nat /\ w.restarted \in Nat \cup {Unset}
      /\ last \in Nat \cup {Unset} /\ v.started = w.started
  BY TrackAssumption DEF WatchOf, Dog, PollDoes
<1>2. m \in Nat /\ Sign(v, last) = m
  BY <1>1 DEF Sign, Greatest
<1>3. Since(w, last) \in Nat /\ Since(w, last) <= m
  BY <1>1 DEF Since, Sign, Greatest
<1>4. last # Unset => last <= m
  BY <1>1 DEF Sign, Greatest
<1>5. \/ time <= m + Timeout
      \/ w.restarted # Unset /\ w.restarted <= m + Timeout /\ time <= w.restarted + Timeout
  BY DEF Awaited, Before
<1> HIDE DEF m
<1>6. CASE v.restarted = Again(w, last) /\ time < Since(w, last) + Timeout
  <2>1. time < m + Timeout
    BY <1>1, <1>2, <1>3, <1>6
  <2>2. QED
    BY <1>2, <2>1 DEF Awaited, Before
<1>7. CASE /\ v.restarted = Again(w, last) /\ Again(w, last) # Unset
           /\ time < Again(w, last) + Timeout
  <2>1. v.restarted = w.restarted /\ v.restarted # Unset /\ v.restarted \in Nat
    BY <1>1, <1>7 DEF Again
  <2>2. v.restarted <= m + Timeout
    BY <1>1, <1>2, <1>5, <2>1 DEF WatchOf
  <2>3. time < v.restarted + Timeout
    BY <1>7
  <2>4. QED
    BY <1>2, <2>1, <2>2, <2>3 DEF Awaited, Before
<1>8. CASE v.restarted = time /\ Again(w, last) = Unset
  <2>1. time <= m + Timeout
    <3>1. CASE w.restarted = Unset
      BY <1>5, <3>1
    <3>2. CASE w.restarted # Unset
      <4>1. last # Unset /\ last >= w.restarted /\ w.restarted \in Nat /\ last \in Nat
        BY <1>1, <1>8, <3>2 DEF Again
      <4>2. QED
        BY <1>1, <1>2, <1>4, <1>5, <4>1
    <3>3. QED
      BY <3>1, <3>2
  <2>2. time < time + Timeout /\ time # Unset
    BY <1>1
  <2>3. QED
    BY <1>2, <1>8, <2>1, <2>2 DEF Awaited, Before
<1>9. QED
  BY <1>6, <1>7, <1>8 DEF PollDoes

\* A later sign of life keeps what the watchdog waits for.
LEMMA LaterSign ==
    ASSUME NEW w \in Dog, NEW last \in Nat \cup {Unset}, NEW to \in Nat, last # Unset => last <= to,
           time \in Nat, NEW seen \in BOOLEAN, Awaited(w, last, time, seen)
    PROVE  Awaited(w, to, time, seen)
<1>1. /\ Unset \notin Nat /\ Timeout \in Nat /\ w.started \in Nat /\ w.restarted \in Nat \cup {Unset}
  BY TrackAssumption DEF Dog
<1>2. Sign(w, last) \in Nat /\ Sign(w, to) \in Nat /\ Sign(w, last) <= Sign(w, to)
  BY <1>1 DEF Sign, Greatest
<1>3. \A k \in Nat, n \in Nat : k <= n /\ Before(time, seen, k + Timeout) => Before(time, seen, n + Timeout)
  BY <1>1 DEF Before
<1>4. w.restarted # Unset /\ w.restarted <= Sign(w, last) + Timeout => w.restarted <= Sign(w, to) + Timeout
  BY <1>1, <1>2
<1>5. QED
  BY <1>2, <1>3, <1>4 DEF Awaited

------------------------
(* Every step. *)

LEMMA TickStep == MacInv /\ Tick => MacInv'
<1> SUFFICES ASSUME MacInv, Tick PROVE MacInv'
  OBVIOUS
<1>1. /\ TracksInv /\ WatchInv /\ time' = time /\ called' = called /\ polled' = TRUE /\ polled = FALSE
      /\ session.phase = "recording"
  BY DEF MacInv, Tick, WatchInv
<1>2. /\ stream.watchdog \in Dog /\ stream.last \in Nat \cup {Unset} /\ time \in Nat
      /\ DOMAIN session = {"phase", "from"} /\ WatchOf(stream.watchdog, stream.last)
  BY <1>1 DEF WatchInv, WatchOf
<1>3. PICK fault, x :
             /\ fault \in Nat
             /\ Conserves(Work(fault), x) /\ stream' = Kept(x)
             /\ PollDoes(stream.watchdog, stream.last, x.watchdog, x.losses)
             /\ \/ session' = session
                \/ session' = [session EXCEPT !.phase = "sourceLost"] /\ x.paused
                \/ \E from : session' = [session EXCEPT !.from = from]
  BY <1>1, <1>2, TickIs
<1>4. PICK v : v = stream'
  OBVIOUS
<1>5. /\ TracksOf(v) /\ v.last = stream.last /\ v.watchdog = x.watchdog /\ v.paused = x.paused
      /\ v.losses = x.losses /\ stream.losses \subseteq v.losses
  BY <1>1, <1>3, <1>4, CallKeeps DEF TracksInv
<1>6. PollDoes(stream.watchdog, stream.last, v.watchdog, v.losses)
  BY <1>3, <1>5
<1>7. WatchOf(v.watchdog, v.last)
  <2>1. v.watchdog \in Dog /\ v.watchdog.started = stream.watchdog.started
          /\ v.watchdog.restarted \in {stream.watchdog.restarted, Unset, time}
    BY <1>6 DEF PollDoes
  <2>2. QED
    BY <1>2, <1>5, <2>1 DEF WatchOf
<1>8. v.watchdog.failed => \E l \in v.losses : l >= v.watchdog.started
  <2>0. stream.watchdog.failed => \E l \in stream.losses : l >= stream.watchdog.started
    BY <1>1 DEF WatchInv
  <2>1. CASE v.watchdog = stream.watchdog
    BY <1>5, <2>0, <2>1
  <2>2. CASE stream.watchdog.failed
    BY <1>5, <1>6, <2>0, <2>2 DEF PollDoes
  <2>3. CASE v.watchdog # stream.watchdog /\ ~stream.watchdog.failed
    BY <1>2, <1>6, <2>3 DEF PollDoes, WatchOf
  <2>4. QED
    BY <2>1, <2>2, <2>3
<1>9. "system" \in Roles /\ ~v.watchdog.failed => Awaited(v.watchdog, v.last, time, TRUE)
  <2> SUFFICES ASSUME "system" \in Roles, ~v.watchdog.failed PROVE Awaited(v.watchdog, v.last, time, TRUE)
    OBVIOUS
  <2>1. ~stream.watchdog.failed
    BY <1>6 DEF PollDoes
  <2>2. Awaited(stream.watchdog, stream.last, time, FALSE)
    BY <1>1, <2>1 DEF WatchInv
  <2>3. QED
    BY <1>2, <1>5, <1>6, <2>2, PollAwaits
<1>10. /\ DOMAIN session' = {"phase", "from"}
       /\ session'.phase \in {"paused", "sourceLost"} => v.paused
  BY <1>1, <1>2, <1>3, <1>5
<1>11. "system" \notin called /\ v.last # Unset => v.last < time
  BY <1>1, <1>5 DEF WatchInv
<1>12. WatchInv'
  BY <1>1, <1>2, <1>4, <1>7, <1>8, <1>9, <1>10, <1>11 DEF WatchInv, WatchOf
<1>13. TracksInv'
  BY <1>1, <1>2, <1>4, <1>5 DEF TracksInv
<1>14. QED
  BY <1>12, <1>13 DEF MacInv

LEMMA EndStep ==
    ASSUME MacInv, NEW reason, NEW phase, reason # "rolling", End(reason, phase),
           phase \in {"paused", "sourceLost"} => reason # "stop", phase # "recording"
    PROVE  MacInv'
<1>1. /\ TracksInv /\ WatchInv /\ time' = time /\ called' = called /\ polled' = polled
  BY DEF MacInv, End
<1>2. PICK fault, x :
             /\ fault \in Nat
             /\ Conserves(Work(fault), x) /\ stream' = Kept(x) /\ x.watchdog = stream.watchdog
             /\ \/ session' = session
                \/ session' = [session EXCEPT !.phase = phase] /\ x.paused = (reason # "stop")
  BY <1>1, EndIs
<1>3. PICK v : v = stream'
  OBVIOUS
<1>4. /\ TracksOf(v) /\ v.last = stream.last /\ v.watchdog = stream.watchdog /\ v.paused = x.paused
      /\ stream.losses \subseteq v.losses
  BY <1>1, <1>2, <1>3, CallKeeps DEF TracksInv
<1>5. session.phase = "recording" /\ DOMAIN session = {"phase", "from"}
  BY <1>1 DEF End, WatchInv
<1>6. /\ DOMAIN session' = {"phase", "from"}
      /\ session'.phase \in {"paused", "sourceLost"} => v.paused
  BY <1>2, <1>4, <1>5
<1>7. v.watchdog.failed => \E l \in v.losses : l >= v.watchdog.started
  <2>1. stream.watchdog.failed => \E l \in stream.losses : l >= stream.watchdog.started
    BY <1>1 DEF WatchInv
  <2>2. QED
    BY <1>4, <2>1
<1>8. "system" \in Roles /\ ~v.watchdog.failed => Awaited(v.watchdog, v.last, time, polled)
  BY <1>1, <1>4, <1>5 DEF WatchInv
<1>9. WatchInv'
  <2>1. WatchOf(v.watchdog, v.last)
    BY <1>1, <1>4 DEF WatchInv
  <2>2. "system" \notin called /\ v.last # Unset => v.last < time
    BY <1>1, <1>4 DEF WatchInv
  <2>3. QED
    BY <1>1, <1>3, <1>6, <1>7, <1>8, <2>1, <2>2 DEF WatchInv, WatchOf
<1>10. TracksInv'
  BY <1>1, <1>3, <1>4 DEF TracksInv
<1>11. QED
  BY <1>9, <1>10 DEF MacInv

LEMMA ResumeStep == MacInv /\ Resume => MacInv'
<1> SUFFICES ASSUME MacInv, Resume PROVE MacInv'
  OBVIOUS
<1>1. /\ TracksInv /\ WatchInv /\ time' = time /\ called' = called /\ polled' = polled
      /\ session.phase \in {"paused", "sourceLost"}
  BY DEF MacInv, Resume
<1>2. PICK fault, x :
             /\ fault \in Nat
             /\ Conserves(Work(fault), x) /\ stream' = Kept(x)
             /\ x.watchdog \in {stream.watchdog, Watchdog(time)}
             /\ \/ /\ session' = [phase |-> "recording", from |-> time]
                   /\ stream.paused => x.watchdog = Watchdog(time)
                \/ session' = session /\ x.paused = stream.paused
  BY <1>1, ResumeIs
<1>3. PICK v : v = stream'
  OBVIOUS
<1>4. /\ TracksOf(v) /\ v.last = stream.last /\ v.watchdog = x.watchdog /\ v.paused = x.paused
      /\ stream.losses \subseteq v.losses
  BY <1>1, <1>2, <1>3, CallKeeps DEF TracksInv
<1>5. stream.paused /\ time \in Nat /\ WatchOf(stream.watchdog, stream.last) /\ polled \in BOOLEAN
        /\ DOMAIN session = {"phase", "from"}
  BY <1>1 DEF WatchInv
<1>6. PICK w : w = Watchdog(time)
  OBVIOUS
<1>7. w \in Dog /\ w.started = time /\ w.restarted = Unset /\ w.failed = FALSE
  BY <1>5, <1>6 DEF Watchdog, Dog
<1>8. WatchOf(w, stream.last)
  BY <1>5, <1>7 DEF WatchOf
<1>9. Awaited(w, stream.last, time, polled)
  <2>1. Timeout \in Nat /\ Timeout > 0 /\ Unset \notin Nat
    BY TrackAssumption
  <2>2. Sign(w, stream.last) = time
    BY <1>5, <1>7 DEF Sign, Greatest, WatchOf
  <2>3. QED
    BY <1>5, <2>1, <2>2 DEF Awaited, Before
<1>10. WatchOf(v.watchdog, v.last)
  BY <1>2, <1>4, <1>5, <1>6, <1>8
<1>11. v.watchdog.failed => \E l \in v.losses : l >= v.watchdog.started
  <2>1. stream.watchdog.failed => \E l \in stream.losses : l >= stream.watchdog.started
    BY <1>1 DEF WatchInv
  <2>2. QED
    BY <1>2, <1>4, <1>6, <1>7, <2>1
<1>12. session'.phase = "recording" => Awaited(v.watchdog, v.last, time, polled)
  BY <1>1, <1>2, <1>4, <1>5, <1>6, <1>9
<1>13. /\ DOMAIN session' = {"phase", "from"}
       /\ session'.phase \in {"paused", "sourceLost"} => v.paused
  <2>1. CASE session' = [phase |-> "recording", from |-> time]
    BY <2>1
  <2>2. CASE session' = session /\ x.paused = stream.paused
    BY <1>4, <1>5, <2>2
  <2>3. QED
    BY <1>2, <2>1, <2>2
<1>14. "system" \notin called /\ v.last # Unset => v.last < time
  BY <1>1, <1>4 DEF WatchInv
<1>15. WatchInv'
  BY <1>1, <1>3, <1>5, <1>10, <1>11, <1>12, <1>13, <1>14 DEF WatchInv, WatchOf
<1>16. TracksInv'
  BY <1>1, <1>3, <1>4 DEF TracksInv
<1>17. QED
  BY <1>15, <1>16 DEF MacInv

LEMMA CallbackStep == ASSUME MacInv, NEW r \in Roles, Callback(r) PROVE MacInv'
<1>1. /\ TracksInv /\ WatchInv /\ time' = time /\ session' = session /\ polled' = polled
      /\ called' = called \cup {r} /\ r \notin called
  BY DEF MacInv, Callback
<1>2. PICK v : v = stream'
  OBVIOUS
<1>3. /\ TracksOf(v) /\ stream.losses \subseteq v.losses
      /\ v.watchdog = stream.watchdog /\ v.paused = stream.paused
      /\ \E to \in Nat : /\ time - 1 <= to /\ to <= time
                         /\ v.last = IF r = "system" THEN to ELSE stream.last
  BY <1>1, <1>2, CallbackIs
<1>4. PICK to \in Nat : /\ time - 1 <= to /\ to <= time
                       /\ v.last = IF r = "system" THEN to ELSE stream.last
  BY <1>3
<1>5. /\ time \in Nat /\ polled \in BOOLEAN /\ WatchOf(stream.watchdog, stream.last)
      /\ "system" \notin called /\ stream.last # Unset => stream.last < time
  BY <1>1 DEF WatchInv
<1>6. Unset \notin Nat
  BY TrackAssumption
<1>7. WatchOf(v.watchdog, v.last)
  BY <1>3, <1>4, <1>5, <1>6 DEF WatchOf
<1>8. "system" \notin called' /\ v.last # Unset => v.last < time
  BY <1>1, <1>4, <1>5
<1>9. stream.watchdog.failed => \E l \in stream.losses : l >= stream.watchdog.started
  BY <1>1 DEF WatchInv
<1>10. ASSUME Awaited(stream.watchdog, stream.last, time, polled)
       PROVE  Awaited(v.watchdog, v.last, time, polled)
  <2>1. CASE r = "system"
    <3>1. stream.last \in Nat \cup {Unset} /\ stream.watchdog \in Dog
      BY <1>5 DEF WatchOf
    <3>2. stream.last # Unset => stream.last <= to
      BY <1>1, <1>4, <1>5, <2>1, <3>1
    <3>3. Awaited(stream.watchdog, to, time, polled)
      BY <1>5, <1>10, <3>1, <3>2, LaterSign, ZenonT(40)
    <3>4. QED
      BY <1>3, <1>4, <2>1, <3>3
  <2>2. CASE r # "system"
    BY <1>3, <1>4, <1>10, <2>2
  <2>3. QED
    BY <2>1, <2>2
<1>11. session.phase = "recording" /\ "system" \in Roles /\ ~v.watchdog.failed
          => Awaited(v.watchdog, v.last, time, polled)
  BY <1>1, <1>3, <1>10 DEF WatchInv
<1>12. /\ DOMAIN session = {"phase", "from"}
       /\ session.phase \in {"paused", "sourceLost"} => v.paused
  BY <1>1, <1>3 DEF WatchInv
<1>13. WatchInv'
  BY <1>1, <1>2, <1>3, <1>5, <1>7, <1>8, <1>9, <1>11, <1>12 DEF WatchInv, WatchOf
<1>14. TracksInv'
  BY <1>1, <1>2, <1>3, <1>5 DEF TracksInv
<1>15. QED
  BY <1>13, <1>14 DEF MacInv

LEMMA DeviceErrorStep == MacInv /\ DeviceError => MacInv'
<1> SUFFICES ASSUME MacInv, DeviceError PROVE MacInv'
  OBVIOUS
<1>1. /\ TracksInv /\ WatchInv /\ time' = time /\ session' = session /\ polled' = polled
      /\ called' = called
  BY DEF MacInv, DeviceError
<1>2. PICK v : v = stream'
  OBVIOUS
<1>3. /\ TracksOf(v) /\ stream.losses \subseteq v.losses
      /\ v.watchdog = stream.watchdog /\ v.paused = stream.paused /\ v.last = stream.last
  BY <1>1, <1>2, DeviceErrorIs
<1>4. v.watchdog.failed => \E l \in v.losses : l >= v.watchdog.started
  BY <1>1, <1>3 DEF WatchInv
<1>5. session.phase = "recording" /\ "system" \in Roles /\ ~v.watchdog.failed
          => Awaited(v.watchdog, v.last, time, polled)
  BY <1>1, <1>3 DEF WatchInv
<1>6. WatchInv'
  BY <1>1, <1>2, <1>3, <1>4, <1>5 DEF WatchInv, WatchOf
<1>7. TracksInv'
  BY <1>1, <1>2, <1>3 DEF TracksInv
<1>8. QED
  BY <1>6, <1>7 DEF MacInv

LEMMA ElapseStep == MacInv /\ Elapse => MacInv'
<1> SUFFICES ASSUME MacInv, Elapse PROVE MacInv'
  OBVIOUS
<1>1. /\ TracksInv /\ WatchInv /\ time' = time + 1 /\ session' = session /\ polled' = FALSE
      /\ called' = {} /\ stream' = stream /\ (session.phase = "recording" => polled)
  BY DEF MacInv, Elapse
<1>2. PICK w, last : w = stream.watchdog /\ last = stream.last
  OBVIOUS
<1>3. time \in Nat /\ polled \in BOOLEAN /\ WatchOf(w, last)
  BY <1>1, <1>2 DEF WatchInv
<1>4. /\ w \in Dog /\ w.started <= time + 1 /\ (w.restarted # Unset => w.restarted <= time + 1)
      /\ last \in Nat \cup {Unset} /\ (last # Unset => last <= time + 1 /\ last < time + 1)
  BY <1>3, TrackAssumption DEF WatchOf, Dog
<1>5. ASSUME polled, Awaited(w, last, time, polled) PROVE Awaited(w, last, time + 1, FALSE)
  <2>1. Sign(w, last) \in Nat /\ Timeout \in Nat /\ w.restarted \in Nat \cup {Unset}
    BY <1>4, TrackAssumption DEF Sign, Greatest, Dog
  <2>2. \A k \in Nat : Before(time, polled, k) => Before(time + 1, FALSE, k)
    BY <1>3, <1>5 DEF Before
  <2>3. \A a \in Nat : Before(time, polled, a + Timeout) => Before(time + 1, FALSE, a + Timeout)
    <3> TAKE a \in Nat
    <3>1. a + Timeout \in Nat
      BY <2>1
    <3>2. QED
      BY <2>2, <3>1
  <2>4. CASE Before(time, polled, Sign(w, last) + Timeout)
    BY <2>1, <2>3, <2>4 DEF Awaited
  <2>5. CASE /\ w.restarted # Unset /\ w.restarted <= Sign(w, last) + Timeout
             /\ Before(time, polled, w.restarted + Timeout)
    <3>1. w.restarted \in Nat
      BY <2>1, <2>5
    <3>2. QED
      BY <2>3, <2>5, <3>1 DEF Awaited
  <2>6. QED
    BY <1>5, <2>4, <2>5 DEF Awaited
<1>6. session.phase = "recording" /\ "system" \in Roles /\ ~w.failed => Awaited(w, last, time + 1, FALSE)
  BY <1>1, <1>2, <1>5 DEF WatchInv
<1>7. /\ w.failed => \E l \in stream.losses : l >= w.started
      /\ session.phase \in {"paused", "sourceLost"} => stream.paused
      /\ DOMAIN session = {"phase", "from"}
  BY <1>1, <1>2 DEF WatchInv
<1>8. WatchInv'
  <2>1. /\ time' = time + 1 /\ session' = session /\ polled' = FALSE /\ called' = {}
        /\ stream' = stream /\ stream.watchdog = w /\ stream.last = last /\ time + 1 \in Nat
    BY <1>1, <1>2, <1>3
  <2>2. WatchOf(w, last)'
    BY <1>4, <2>1 DEF WatchOf
  <2>3. "system" \notin {} /\ last # Unset => last < time + 1
    BY <1>4
  <2>4. QED
    BY <1>6, <1>7, <2>1, <2>2, <2>3 DEF WatchInv
<1>9. TracksInv'
  BY <1>1, <1>3 DEF TracksInv, TracksOf, WholeIn, HeldBy, Recording, Drafted, Opened
<1>10. QED
  BY <1>8, <1>9 DEF MacInv

LEMMA MacSteps == MacInv /\ [MacNext]_macVars => MacInv'
<1> SUFFICES ASSUME MacInv, [MacNext]_macVars PROVE MacInv'
  OBVIOUS
<1>1. CASE Tick
  BY <1>1, TickStep
<1>2. CASE Pause
  BY <1>2, EndStep DEF Pause
<1>3. CASE Stop
  BY <1>3, EndStep DEF Stop
<1>4. CASE Resume
  BY <1>4, ResumeStep
<1>5. CASE DeviceError
  BY <1>5, DeviceErrorStep
<1>6. CASE Elapse
  BY <1>6, ElapseStep
<1>7. CASE \E r \in Roles : Callback(r)
  BY <1>7, CallbackStep
<1>8. CASE UNCHANGED macVars
  BY <1>8 DEF macVars, MacInv, TracksInv, TracksOf, WholeIn, HeldBy, Recording, Drafted, Opened,
     WatchInv, WatchOf
<1>9. QED
  BY <1>1, <1>2, <1>3, <1>4, <1>5, <1>6, <1>7, <1>8 DEF MacNext

\* The clocks, the tracks and the watchdog, after any calls of the session
\* (close_segment, resume, take_signals) and any callbacks of Core Audio.
THEOREM MacInvariant == MacSpec => []MacInv
<1>1. MacInit => MacInv
  BY TracksInit, WatchInit DEF MacInv
<1>2. QED
  BY <1>1, MacSteps, PTL DEF MacSpec

LEMMA HeldIs == ASSUME NEW r \in Roles PROVE Held(r) = HeldBy(stream, r)
<1> DEFINE t == stream.track[r]
           list == {stream.returned[i].audio : i \in {j \in DOMAIN stream.returned : stream.returned[j].role = r}}
           drafts == {t.closed[i].segment.audio : i \in DOMAIN t.closed}
           open == IF t.open = Unset THEN {} ELSE {t.open.audio}
<1>1. Held(r) = UNION (list \cup drafts \cup open)
  BY DEF Held
<1>2. Sounds(stream.returned, r) = UNION list
  BY DEF Sounds
<1>3. Drafted(t) = UNION drafts
  BY DEF Drafted, Audios
<1>4. Opened(t) = UNION open
  BY DEF Opened
<1> HIDE DEF list, drafts, open
<1>5. UNION (list \cup drafts \cup open) = (UNION list) \cup ((UNION drafts) \cup (UNION open))
  OBVIOUS
<1>6. QED
  BY <1>1, <1>2, <1>3, <1>4, <1>5 DEF HeldBy, Recording, t

\* Whatever a track is missing is in a reported gap or before a reported loss of
\* the source, unless finishing a file failed: TrackRecorder::write compares each
\* buffer with the expected clock, and a failure to store one is a source loss.
THEOREM HolesHaveReports == MacSpec => []HolesAreReported
<1>1. MacInv => HolesAreReported
  <2> SUFFICES ASSUME MacInv, NEW r \in Roles, NEW t \in Holes(Held(r), 0)
               PROVE  t \in stream.gaps \/ Excused(t)
    BY DEF HolesAreReported
  <2>1. CASE stream.spoiled
    BY <2>1 DEF Excused
  <2>2. CASE ~stream.spoiled
    <3>1. WholeIn(stream, r)
      BY <2>2 DEF MacInv, TracksInv, TracksOf
    <3>2. t \in Holes(HeldBy(stream, r), 0)
      BY HeldIs
    <3>3. QED
      BY <3>1, <3>2 DEF WholeIn, Accounted, Explained, Excused
  <2>3. QED
    BY <2>1, <2>2
<1>2. QED
  BY <1>1, MacInvariant, PTL

\* A process tap that stays silent for two timeouts has been reported as lost when
\* the session has taken its signals: ProcessTapWatchdog::poll restarts it once.
THEOREM StallsHaveReports == MacSpec => []StallIsReported
<1>1. MacInv => StallIsReported
  <2> SUFFICES ASSUME MacInv, session.phase = "recording", polled, "system" \in Roles,
                      time >= 2 * Timeout + Greatest(stream.watchdog.started,
                                                     IF stream.last = Unset THEN 0 ELSE stream.last)
               PROVE  \E l \in stream.losses : l >= stream.watchdog.started
    BY DEF StallIsReported
  <2> DEFINE m == Sign(stream.watchdog, stream.last)
  <2>1. WatchInv /\ time >= 2 * Timeout + m
    BY DEF MacInv, Sign
  <2>2. WatchOf(stream.watchdog, stream.last) /\ time \in Nat /\ polled \in BOOLEAN
    BY <2>1 DEF WatchInv
  <2>3. /\ m \in Nat /\ Timeout \in Nat /\ stream.watchdog.restarted \in Nat \cup {Unset}
    BY <2>2, TrackAssumption DEF WatchOf, Sign, Greatest, Dog
  <2>4. ~Awaited(stream.watchdog, stream.last, time, polled)
    <3> HIDE DEF m
    <3>1. ~(time < m + Timeout)
      BY <2>1, <2>2, <2>3
    <3>2. ASSUME stream.watchdog.restarted # Unset, stream.watchdog.restarted <= m + Timeout
          PROVE  ~(time < stream.watchdog.restarted + Timeout)
      BY <2>1, <2>2, <2>3, <3>2
    <3>3. QED
      BY <3>1, <3>2 DEF Awaited, Before, m
  <2>5. stream.watchdog.failed
    BY <2>1, <2>4 DEF WatchInv
  <2>6. QED
    BY <2>1, <2>5 DEF WatchInv
<1>2. QED
  BY <1>1, MacInvariant, PTL
=============================================================================
