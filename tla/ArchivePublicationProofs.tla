---------------------- MODULE ArchivePublicationProofs ----------------------
(* Proofs about ArchivePublication, for every set of devices, recordings and  *)
(* names, every bound and every set of keys that are taken.                   *)
EXTENDS ArchivePublication, TLAPS

------------------------
(* Types. *)

AnyName == Names \cup {None}

Entry == [generation : 0 .. MaxGeneration, key : Keys \cup {NoKey}, name : AnyName]

KeyOf(r) == {NoKey} \cup {key \in Keys : key[1] = r}

\* What a manifest may say of r.
EntryOf(r) == {NoEntry} \cup {e \in Entry : e.generation > 0 /\ e.key \in KeyOf(r)}

Manifest == {m \in [Recordings -> Entry] : \A r \in Recordings : m[r] \in EntryOf(r)}

Snapshot == [manifest : Manifest, notes : SUBSET Recordings, tombstones : SUBSET Recordings]

Ticket == {t \in [kind : {"name", "delete"}, recording : Recordings, base : Entry, name : AnyName] :
             t.base \in EntryOf(t.recording)}

PreparedPcs == {"reuse", "begin", "put", "guard", "commit"}

PublishPcs == {"fetch", "verify", "clear", "cleanup"} \cup PreparedPcs

EditPcs == {"apply", "drain", "push", "finish", "local"}

Operation == [pc : {"idle"} \cup PublishPcs \cup EditPcs, recording : Recordings \cup {None},
              head : Nat, entry : Entry, manifest : Manifest, reuse : BOOLEAN, tries : Nat]

RemoteType ==
    /\ commits \in Seq(Snapshot) /\ commits # <<>>
    /\ bucket \in SUBSET Keys /\ lost \in SUBSET Keys

JobType ==
    /\ generation \in [Recordings -> Generations]
    /\ attempts \in [Recordings -> [Generations -> Keys \cup {NoKey}]]
    /\ \A r \in Recordings, g \in Generations : attempts[r][g] \in KeyOf(r)
    /\ backend \in [Recordings -> {"remote", "local"}]
    /\ published \in [Recordings -> 0 .. MaxGeneration]
    /\ complete \in SUBSET Recordings

LocalType ==
    /\ manifest \in [Devices -> Manifest]
    /\ tombstones \in [Devices -> SUBSET Recordings]
    /\ outbox \in [Devices -> Seq(Ticket)]
    /\ op \in [Devices -> Operation]
    /\ pull \in [Devices -> Nat]
    /\ \A d \in Devices : pull[d] <= Len(commits)

TypeInv == RemoteType /\ JobType /\ LocalType

------------------------
(* The head. *)

\* A note has its entry, and nothing that was deleted has a note: a head that
\* says a deleted recording is there cannot be read.
TipIsSound ==
    /\ Tip.notes \cap Tip.tombstones = {}
    /\ \A r \in Tip.notes : Tip.manifest[r] # NoEntry

------------------------
(* The audio. *)

\* The delete of r's recording that a device has pushed and not yet finished.
Pushed(d, key) ==
    /\ op[d].pc \notin {"push", "local"}
    /\ outbox[d] # <<>>
    /\ Head(outbox[d]).kind = "delete" /\ Head(outbox[d]).base.key = key
    /\ Head(outbox[d]).recording \in Tip.tombstones

\* The archive itself knows of the object.
Kept(key) ==
    \/ Tip.manifest[key[1]].key = key
    \/ \E d \in Devices : Pushed(d, key)

Attempted(key) == \E g \in Generations : attempts[key[1]][g] = key

AudioIsKnown == \A key \in bucket : Kept(key) \/ Attempted(key)

\* What a recorded attempt is going to replace is not there.
AttemptReplacesNothing ==
    Readable(Tip) =>
        \A r \in Recordings :
            Attempt(r) # NoKey /\ Tip.manifest[r].key \notin {NoKey, Attempt(r)} =>
                Tip.manifest[r].key \notin bucket

JobsAreSound ==
    /\ \A r \in Recordings, g \in Generations : g > generation[r] => attempts[r][g] = NoKey
    /\ \A r \in complete : published[r] = generation[r]
    /\ bucket \cap Occupied = {}

------------------------
(* The running operations. *)

Audible(key) == key \in bucket \cup lost

Publishing(d) ==
    op[d].pc \in PublishPcs =>
        LET r == op[d].recording IN
        /\ r \in Recordings /\ Owner[r] = d
        /\ published[r] < generation[r]

\* What prepare_local made of the head it fetched.
PreparedFrom(d) ==
    op[d].pc \in PreparedPcs =>
        LET r == op[d].recording
            next == op[d].manifest
            former == Fetched(d).manifest
        IN
        /\ op[d].head \in 1 .. Len(commits) /\ Readable(Fetched(d))
        /\ r \notin Fetched(d).tombstones
        /\ former[r].generation < generation[r]
        /\ op[d].entry = next[r] /\ next[r].generation = generation[r] /\ next[r].key # NoKey
        /\ Known(d, r)
        /\ \A q \in Recordings : former[q] # NoEntry =>
             /\ next[q].generation >= former[q].generation
             /\ former[q].name \in {None, next[q].name}
             /\ q # r => next[q].key = former[q].key /\ next[q].generation = former[q].generation

\* The attempt that a publication goes by.
AttemptFits(d) ==
    op[d].pc \in PreparedPcs =>
        LET r == op[d].recording
            key == op[d].entry.key
        IN
        /\ op[d].pc = "reuse" => op[d].reuse
        /\ op[d].pc \in {"begin", "put"} => ~op[d].reuse
        /\ op[d].reuse => Attempt(r) = NoKey /\ key = Fetched(d).manifest[r].key
        /\ op[d].pc = "begin" =>
             \/ Attempt(r) = key
             \/ Attempt(r) = NoKey /\ Fetched(d).manifest[r].key = NoKey
        /\ op[d].pc \in {"put", "guard", "commit"} /\ ~op[d].reuse => Attempt(r) = key
        /\ Readable(Tip) => Tip.manifest[r].key \in {NoKey, Fetched(d).manifest[r].key}
        /\ op[d].pc \in {"guard", "commit"} => Audible(key) \/ r \in Tip.tombstones

\* The head has the publication, or had it until a delete.
InTheHead(d) ==
    op[d].pc \in {"verify", "clear"} =>
        LET r == op[d].recording
            key == op[d].entry.key
        IN
        /\ key \in KeyOf(r) \ {NoKey}
        /\ key \in bucket => Kept(key)
        /\ r \notin Tip.tombstones =>
             /\ Tip.manifest[r].key = key
             /\ Tip.manifest[r].generation = generation[r]
        /\ op[d].pc = "clear" =>
             /\ op[d].reuse \/ Attempt(r) = key
             /\ Audible(key) \/ r \in Tip.tombstones

Cleaning(d) == op[d].pc = "cleanup" => op[d].recording \in Tip.tombstones

Editing(d) ==
    /\ op[d].pc \in {"apply", "push", "finish", "local"} => outbox[d] # <<>>
    /\ op[d].pc = "apply" => op[d].recording \in Recordings /\ Known(d, op[d].recording)
    /\ op[d].pc = "push" =>
         /\ op[d].head \in 1 .. Len(commits) /\ Readable(Fetched(d))
         /\ ~Conflicts(Head(outbox[d]), Fetched(d))
    /\ op[d].pc = "finish" /\ Head(outbox[d]).kind = "delete" =>
         Head(outbox[d]).recording \in Tip.tombstones

OperationsAreSound ==
    \A d \in Devices :
        /\ Publishing(d) /\ PreparedFrom(d) /\ AttemptFits(d)
        /\ InTheHead(d) /\ Cleaning(d) /\ Editing(d)

ArchiveInv ==
    /\ TypeInv /\ TipIsSound
    /\ JobsAreSound /\ OperationsAreSound
    /\ AudioIsKnown /\ AttemptReplacesNothing
    /\ PublishedIsKept

------------------------
(* The model's operators. *)

LEMMA KeyIs ==
  ASSUME NEW r \in Recordings, NEW g \in Generations, NEW p \in {"primary", "fallback"}
  PROVE  <<r, g, p>> \in KeyOf(r) \ {NoKey}
<1>1. <<r, g, p>> \in Keys /\ <<r, g, p>>[1] = r
  BY DEF Keys
<1>2. <<r, g, p>> # NoKey
  BY DEF NoKey
<1>3. QED
  BY <1>1, <1>2 DEF KeyOf

LEMMA KeysAreKeys ==
  ASSUME NEW key \in Keys
  PROVE  key # NoKey /\ key[1] \in Recordings /\ key \in KeyOf(key[1])
<1>1. PICK r \in Recordings, g \in Generations, p \in {"primary", "fallback"} : key = <<r, g, p>>
  BY DEF Keys
<1>2. QED
  BY <1>1, KeyIs DEF KeyOf

LEMMA KeyOfOne ==
  ASSUME NEW r \in Recordings, NEW q \in Recordings, NEW key \in KeyOf(r), key \in KeyOf(q), key # NoKey
  PROVE  r = q /\ key \in Keys /\ key[1] = r
BY DEF KeyOf

LEMMA EmptyTypes ==
  /\ NoKey \notin Keys
  /\ NoEntry \in Entry /\ NoManifest \in Manifest /\ Idle \in Operation
  /\ \A r \in Recordings : NoEntry \in EntryOf(r) /\ NoKey \in KeyOf(r) /\ NoManifest[r] = NoEntry
<1>1. NoKey \notin Keys
  BY KeysAreKeys
<1>2. NoEntry \in Entry
  BY ArchiveAssumption DEF NoEntry, Entry, AnyName
<1>3. NoManifest \in Manifest
  BY <1>2 DEF NoManifest, Manifest, EntryOf
<1>4. Idle \in Operation
  BY <1>2, <1>3 DEF Idle, Operation
<1>5. QED
  BY <1>1, <1>2, <1>3, <1>4 DEF EntryOf, KeyOf, NoManifest

\* An entry by its fields.
LEMMA EntryIs ==
  ASSUME NEW r \in Recordings, NEW g \in 1 .. MaxGeneration, NEW key \in KeyOf(r), NEW name \in AnyName
  PROVE  /\ [generation |-> g, key |-> key, name |-> name] \in EntryOf(r) \cap Entry
         /\ [generation |-> g, key |-> key, name |-> name] # NoEntry
<1> DEFINE e == [generation |-> g, key |-> key, name |-> name]
<1>1. e \in Entry
  BY ArchiveAssumption DEF Entry, KeyOf
<1>2. e.generation > 0 /\ NoEntry.generation = 0
  BY ArchiveAssumption DEF NoEntry
<1>3. QED
  BY <1>1, <1>2 DEF EntryOf

LEMMA EntryFields ==
  ASSUME NEW r \in Recordings, NEW e \in EntryOf(r)
  PROVE  /\ e \in Entry /\ e.generation \in 0 .. MaxGeneration /\ e.key \in KeyOf(r) /\ e.name \in AnyName
         /\ e # NoEntry <=> e.generation > 0
         /\ e.key # NoKey => e # NoEntry
         /\ e = NoEntry => e.generation = 0 /\ e.key = NoKey /\ e.name = None
<1>1. e \in Entry
  BY EmptyTypes DEF EntryOf
<1>2. NoEntry.generation = 0 /\ NoEntry.key = NoKey /\ NoEntry.name = None
  BY DEF NoEntry
<1>3. e = NoEntry \/ (e.generation > 0 /\ e.key \in KeyOf(r))
  BY DEF EntryOf
<1>4. NoKey \in KeyOf(r)
  BY DEF KeyOf
<1>5. QED
  BY <1>1, <1>2, <1>3, <1>4, ArchiveAssumption DEF Entry

\* An entry whose name is changed.
LEMMA Renamed ==
  ASSUME NEW r \in Recordings, NEW e \in EntryOf(r), e # NoEntry, NEW name \in AnyName
  PROVE  /\ [e EXCEPT !.name = name] \in EntryOf(r) \cap Entry
         /\ [e EXCEPT !.name = name] # NoEntry
         /\ [e EXCEPT !.name = name].generation = e.generation
         /\ [e EXCEPT !.name = name].key = e.key
         /\ [e EXCEPT !.name = name].name = name
<1>1. e \in Entry /\ e.generation > 0 /\ e.key \in KeyOf(r) /\ e.generation \in 1 .. MaxGeneration
  BY EntryFields, ArchiveAssumption
<1>2. [e EXCEPT !.name = name] = [generation |-> e.generation, key |-> e.key, name |-> name]
  BY <1>1 DEF Entry
<1>3. QED
  BY <1>1, <1>2, EntryIs

LEMMA ManifestAt ==
  ASSUME NEW m \in Manifest, NEW r \in Recordings
  PROVE  m \in [Recordings -> Entry] /\ m[r] \in EntryOf(r)
BY DEF Manifest

LEMMA ManifestWith ==
  ASSUME NEW m \in Manifest, NEW r \in Recordings, NEW e \in EntryOf(r)
  PROVE  /\ [m EXCEPT ![r] = e] \in Manifest
         /\ [m EXCEPT ![r] = e][r] = e
         /\ \A q \in Recordings : q # r => [m EXCEPT ![r] = e][q] = m[q]
<1>1. e \in Entry
  BY EntryFields
<1>2. QED
  BY <1>1 DEF Manifest

LEMMA MergeIs ==
  ASSUME NEW remote \in Manifest, NEW local \in Manifest
  PROVE  /\ MergeManifests(remote, local) \in Manifest
         /\ \A r \in Recordings :
              LET e == MergeManifests(remote, local)[r] IN
              /\ remote[r] = NoEntry => e = local[r]
              /\ remote[r] # NoEntry => /\ e # NoEntry
                                        /\ e.generation = remote[r].generation
                                        /\ e.key = remote[r].key
                                        /\ remote[r].name \in {None, e.name}
<1> DEFINE M == MergeManifests(remote, local)
<1>1. \A r \in Recordings : M[r] = IF remote[r] = NoEntry THEN local[r]
           ELSE [remote[r] EXCEPT !.name = IF remote[r].name = None THEN local[r].name
                                            ELSE remote[r].name]
  BY DEF MergeManifests
<1>2. ASSUME NEW r \in Recordings
      PROVE  /\ M[r] \in EntryOf(r) /\ M[r] \in Entry
             /\ remote[r] = NoEntry => M[r] = local[r]
             /\ remote[r] # NoEntry => /\ M[r] # NoEntry
                                       /\ M[r].generation = remote[r].generation
                                       /\ M[r].key = remote[r].key
                                       /\ remote[r].name \in {None, M[r].name}
  <2>1. remote[r] \in EntryOf(r) /\ local[r] \in EntryOf(r)
    BY ManifestAt
  <2>2. CASE remote[r] = NoEntry
    BY <1>1, <2>1, <2>2, EntryFields
  <2>3. CASE remote[r] # NoEntry
    <3> DEFINE name == IF remote[r].name = None THEN local[r].name ELSE remote[r].name
    <3>1. name \in AnyName
      BY <2>1, EntryFields
    <3>2. M[r] = [remote[r] EXCEPT !.name = name]
      BY <1>1, <2>3
    <3>3. remote[r].name \in {None, name}
      OBVIOUS
    <3> HIDE DEF name, M
    <3>4. QED
      BY <2>1, <2>3, <3>1, <3>2, <3>3, Renamed
  <2>4. QED
    BY <2>2, <2>3
<1>3. M \in [Recordings -> Entry]
  BY <1>2 DEF MergeManifests
<1> HIDE DEF M
<1>4. M \in Manifest
  BY <1>2, <1>3 DEF Manifest
<1>5. QED
  BY <1>2, <1>4 DEF M

LEMMA TipIs ==
  ASSUME RemoteType
  PROVE  /\ Len(commits) \in Nat \ {0} /\ Tip \in Snapshot
         /\ Tip.manifest \in Manifest
         /\ Tip.notes \subseteq Recordings /\ Tip.tombstones \subseteq Recordings
<1>1. Len(commits) \in Nat \ {0}
  BY DEF RemoteType
<1>2. commits[Len(commits)] \in Snapshot
  BY <1>1 DEF RemoteType
<1>3. QED
  BY <1>1, <1>2 DEF Tip, Snapshot

LEMMA HeadIs ==
  ASSUME RemoteType, NEW i \in 1 .. Len(commits)
  PROVE  commits[i] \in Snapshot /\ commits[i].manifest \in Manifest
<1>1. commits[i] \in Snapshot
  BY DEF RemoteType
<1>2. QED
  BY <1>1 DEF Snapshot

LEMMA AttemptIs ==
  ASSUME JobType, NEW r \in Recordings
  PROVE  Attempt(r) \in KeyOf(r) /\ generation[r] \in 1 .. MaxGeneration /\ generation[r] \in Generations
BY DEF JobType, Attempt, Generations

LEMMA AudioKeyIs ==
  ASSUME JobType, NEW d \in Devices, NEW r \in Recordings, manifest[d] \in Manifest, NEW remote \in Manifest
  PROVE  /\ AudioKey(d, r, remote) \in KeyOf(r) \ {NoKey}
         /\ Attempt(r) # NoKey => AudioKey(d, r, remote) = Attempt(r)
         /\ Attempt(r) = NoKey /\ remote[r].key # NoKey => AudioKey(d, r, remote) = remote[r].key
<1>1. Attempt(r) \in KeyOf(r)
  BY AttemptIs
<1>2. remote[r].key \in KeyOf(r) /\ manifest[d][r].key \in KeyOf(r)
  BY ManifestAt, EntryFields
<1>3. <<r, generation[r], "primary">> \in KeyOf(r) \ {NoKey}
  BY AttemptIs, KeyIs
<1>4. QED
  BY <1>1, <1>2, <1>3 DEF AudioKey

\* The next manifest, entry by entry.
LEMMA PreparedIs ==
  ASSUME JobType, NEW d \in Devices, NEW r \in Recordings, manifest[d] \in Manifest, NEW remote \in Manifest
  PROVE  LET next == Prepared(d, r, remote) IN
         /\ next \in Manifest
         /\ next[r] # NoEntry /\ next[r].generation = generation[r]
         /\ next[r].key = AudioKey(d, r, remote)
         /\ \A q \in Recordings : remote[q] # NoEntry =>
              /\ q # r => next[q].generation = remote[q].generation /\ next[q].key = remote[q].key
              /\ next[q] # NoEntry
              /\ remote[q].name \in {None, next[q].name}
<1> DEFINE merged == MergeManifests(remote, manifest[d])
           e == [generation |-> generation[r], key |-> AudioKey(d, r, remote), name |-> merged[r].name]
<1>1. merged \in Manifest
  BY MergeIs
<1>2. Prepared(d, r, remote) = [merged EXCEPT ![r] = e]
  BY DEF Prepared
<1>3. merged[r].name \in AnyName
  BY <1>1, ManifestAt, EntryFields
<1>4. e \in EntryOf(r) /\ e # NoEntry
  BY <1>3, AttemptIs, AudioKeyIs, EntryIs
<1>5. e.generation = generation[r] /\ e.key = AudioKey(d, r, remote) /\ e.name = merged[r].name
  OBVIOUS
<1>6. \A q \in Recordings : remote[q] # NoEntry =>
        /\ merged[q] # NoEntry
        /\ merged[q].generation = remote[q].generation /\ merged[q].key = remote[q].key
        /\ remote[q].name \in {None, merged[q].name}
  BY MergeIs
<1> HIDE DEF e, merged
<1> DEFINE next == Prepared(d, r, remote)
<1> HIDE DEF next
<1>7. /\ next \in Manifest /\ next[r] = e
      /\ \A q \in Recordings : q # r => next[q] = merged[q]
  <2>1. next = [merged EXCEPT ![r] = e]
    BY <1>2 DEF next
  <2> DEFINE with == [merged EXCEPT ![r] = e]
  <2>2. /\ with \in Manifest /\ with[r] = e
        /\ \A q \in Recordings : q # r => with[q] = merged[q]
    BY <1>1, <1>4, ManifestWith
  <2>3. next = with
    BY <2>1
  <2> HIDE DEF with
  <2>4. QED
    BY <2>2, <2>3
<1>8. ASSUME NEW q \in Recordings, remote[q] # NoEntry
      PROVE  /\ q # r => next[q].generation = remote[q].generation /\ next[q].key = remote[q].key
             /\ next[q] # NoEntry
             /\ remote[q].name \in {None, next[q].name}
  <2>1. CASE q = r
    <3>1. next[q] = e /\ remote[q].name \in {None, merged[q].name}
      BY <1>6, <1>7, <1>8, <2>1
    <3>2. e # NoEntry /\ e.name = merged[q].name
      BY <1>4, <1>5, <2>1
    <3>3. QED
      BY <2>1, <3>1, <3>2
  <2>2. CASE q # r
    BY <1>6, <1>7, <1>8, <2>2
  <2>3. QED
    BY <2>1, <2>2
<1>9. QED
  BY <1>4, <1>5, <1>7, <1>8 DEF next

LEMMA EditedIs ==
  ASSUME NEW ticket \in Ticket, NEW remote \in Snapshot, ~Conflicts(ticket, remote)
  PROVE  LET edited == Edited(ticket, remote)
             r == ticket.recording
         IN
         /\ edited \in Snapshot
         /\ \A q \in Recordings : q # r => edited.manifest[q] = remote.manifest[q]
         /\ ticket.kind = "name" =>
              /\ remote.manifest[r] # NoEntry /\ edited.manifest[r] # NoEntry
              /\ edited.manifest[r].generation = remote.manifest[r].generation
              /\ edited.manifest[r].key = remote.manifest[r].key
              /\ edited.manifest[r].name = ticket.name
              /\ edited.notes = remote.notes /\ edited.tombstones = remote.tombstones
         /\ ticket.kind = "delete" =>
              /\ remote.manifest[r] \in {NoEntry, ticket.base} /\ edited.manifest[r] = NoEntry
              /\ edited.notes = remote.notes \ {r} /\ edited.tombstones = remote.tombstones \cup {r}
<1> DEFINE r == ticket.recording
<1>1. r \in Recordings /\ ticket.kind \in {"name", "delete"} /\ ticket.name \in AnyName
  BY DEF Ticket
<1>2. /\ remote.manifest \in Manifest /\ remote.manifest[r] \in EntryOf(r)
      /\ remote.notes \in SUBSET Recordings /\ remote.tombstones \in SUBSET Recordings
  BY <1>1, ManifestAt DEF Snapshot
<1>3. CASE ticket.kind = "name"
  <2>1. remote.manifest[r] # NoEntry
    BY <1>3 DEF Conflicts
  <2> DEFINE e == [remote.manifest[r] EXCEPT !.name = ticket.name]
  <2>2. /\ e \in EntryOf(r) /\ e # NoEntry /\ e.name = ticket.name
        /\ e.generation = remote.manifest[r].generation /\ e.key = remote.manifest[r].key
    BY <1>1, <1>2, <2>1, Renamed
  <2>3. Edited(ticket, remote) = [remote EXCEPT !.manifest = [remote.manifest EXCEPT ![r] = e]]
    BY <1>3 DEF Edited, Snapshot
  <2> HIDE DEF e
  <2>4. [remote.manifest EXCEPT ![r] = e] \in Manifest
    BY <1>1, <1>2, <2>2, ManifestWith
  <2>5. /\ Edited(ticket, remote) \in Snapshot
        /\ Edited(ticket, remote).manifest = [remote.manifest EXCEPT ![r] = e]
        /\ Edited(ticket, remote).notes = remote.notes
        /\ Edited(ticket, remote).tombstones = remote.tombstones
    BY <2>3, <2>4 DEF Snapshot
  <2>6. QED
    BY <1>1, <1>2, <1>3, <2>1, <2>2, <2>5, ManifestWith
<1>4. CASE ticket.kind = "delete"
  <2>1. remote.manifest[r] \in {NoEntry, ticket.base}
    BY <1>4 DEF Conflicts
  <2>2. Edited(ticket, remote) = [manifest |-> [remote.manifest EXCEPT ![r] = NoEntry],
                                  notes |-> remote.notes \ {r},
                                  tombstones |-> remote.tombstones \cup {r}]
    BY <1>4 DEF Edited
  <2>3. [remote.manifest EXCEPT ![r] = NoEntry] \in Manifest
    BY <1>1, <1>2, EmptyTypes, ManifestWith
  <2>4. Edited(ticket, remote) \in Snapshot
    BY <1>1, <1>2, <2>2, <2>3 DEF Snapshot
  <2>5. QED
    BY <1>1, <1>2, <1>4, <2>1, <2>2, <2>4, EmptyTypes, ManifestWith
<1>5. QED
  BY <1>1, <1>3, <1>4

------------------------
(* What a step may do without disturbing the operation of another device. *)

Grows ==
    /\ Len(commits) <= Len(commits')
    /\ \A i \in 1 .. Len(commits) : commits'[i] = commits[i]

\* The step leaves the publication of r alone.
Undisturbed(r) ==
    /\ generation'[r] = generation[r] /\ published'[r] = published[r] /\ attempts'[r] = attempts[r]
    /\ Readable(Tip') => Readable(Tip) /\ Tip'.manifest[r].key \in {NoKey, Tip.manifest[r].key}
    /\ r \notin Tip'.tombstones /\ Tip.manifest[r] # NoEntry =>
         /\ Tip'.manifest[r].key = Tip.manifest[r].key
         /\ Tip'.manifest[r].generation = Tip.manifest[r].generation
    /\ \A key \in KeyOf(r) : Audible(key) => Audible(key)' \/ r \in Tip'.tombstones
    /\ \A key \in KeyOf(r) : key \in bucket' => key \in bucket /\ (Kept(key) => Kept(key)')

\* The device's own state stays.
Still(e) ==
    /\ op'[e] = op[e] /\ outbox'[e] = outbox[e] /\ manifest'[e] = manifest[e]

OperationIsSound(d) ==
    /\ Publishing(d) /\ PreparedFrom(d) /\ AttemptFits(d)
    /\ InTheHead(d) /\ Cleaning(d) /\ Editing(d)

LEMMA Fields ==
  ASSUME TypeInv, NEW d \in Devices
  PROVE  /\ op[d] \in Operation
         /\ op[d].pc \in {"idle"} \cup PublishPcs \cup EditPcs
         /\ op[d].recording \in Recordings \cup {None} /\ op[d].head \in Nat
         /\ op[d].entry \in Entry /\ op[d].manifest \in Manifest /\ op[d].reuse \in BOOLEAN
         /\ op[d].tries \in Nat
         /\ outbox[d] \in Seq(Ticket) /\ manifest[d] \in Manifest
         /\ tombstones[d] \in SUBSET Recordings
<1>1. op[d] \in Operation
  BY DEF TypeInv, LocalType
<1>2. QED
  BY <1>1 DEF TypeInv, LocalType, Operation

LEMMA HeadTicket ==
  ASSUME TypeInv, NEW d \in Devices, outbox[d] # <<>>
  PROVE  /\ Head(outbox[d]) \in Ticket /\ Head(outbox[d]) \in Range(outbox[d])
         /\ Tail(outbox[d]) \in Seq(Ticket)
         /\ Head(outbox[d]).kind \in {"name", "delete"}
         /\ Head(outbox[d]).recording \in Recordings
         /\ Head(outbox[d]).base \in EntryOf(Head(outbox[d]).recording)
         /\ Head(outbox[d]).name \in AnyName
<1>1. outbox[d] \in Seq(Ticket)
  BY Fields
<1>2. Head(outbox[d]) \in Ticket /\ Tail(outbox[d]) \in Seq(Ticket)
  BY <1>1
<1>3. Head(outbox[d]) = outbox[d][1] /\ 1 \in DOMAIN outbox[d]
  BY <1>1
<1>4. Head(outbox[d]) \in Range(outbox[d])
  BY <1>3 DEF Range
<1>5. QED
  BY <1>2, <1>4 DEF Ticket

\* The head of the branch when nothing is committed.
LEMMA SameHead ==
  ASSUME UNCHANGED commits
  PROVE  /\ Tip' = Tip /\ Grows
         /\ \A d \in Devices : op'[d].head = op[d].head => Fetched(d)' = Fetched(d)
BY DEF Tip, Grows, Fetched

LEMMA PushedStays ==
  ASSUME NEW e \in Devices, Still(e), Tip.tombstones \subseteq Tip'.tombstones, NEW key, Pushed(e, key)
  PROVE  Pushed(e, key)'
BY DEF Still, Pushed, Tip

\* An operation goes on as before.
LEMMA OperationStays ==
  ASSUME TypeInv, TypeInv', NEW e \in Devices, OperationIsSound(e), Still(e), Grows,
         Tip.tombstones \subseteq Tip'.tombstones,
         \A r \in Recordings : op[e].pc \in PublishPcs /\ op[e].recording = r => Undisturbed(r)
  PROVE  OperationIsSound(e)'
<1> PICK r, key : r = op[e].recording /\ key = op[e].entry.key
  OBVIOUS
<1>1. op'[e] = op[e] /\ outbox'[e] = outbox[e] /\ manifest'[e] = manifest[e]
  BY DEF Still
<1>2. Publishing(e)'
  BY <1>1 DEF OperationIsSound, Publishing, Undisturbed
<1>3. op[e].head \in 1 .. Len(commits) =>
        /\ Fetched(e)' = Fetched(e) /\ op'[e].head \in 1 .. Len(commits')
  <2>1. Len(commits) \in Nat /\ Len(commits') \in Nat
    BY TipIs DEF TypeInv
  <2>2. QED
    BY <1>1, <2>1 DEF Grows, Fetched
<1>4. op[e].pc \in PreparedPcs => op[e].pc \in PublishPcs /\ r \in Recordings
  BY DEF PreparedPcs, PublishPcs, OperationIsSound, Publishing
<1>5. PreparedFrom(e)'
  BY <1>1, <1>3, <1>4 DEF OperationIsSound, PreparedFrom, Undisturbed, Readable, Known
<1>6. op[e].pc \in PreparedPcs \cup {"verify", "clear"} =>
        r \in Recordings /\ Undisturbed(r) /\ Attempt(r)' = Attempt(r)
  BY <1>4, SMTT(30) DEF OperationIsSound, Publishing, PublishPcs, PreparedPcs, Attempt, Undisturbed
<1>7. AttemptFits(e)'
  <2> SUFFICES ASSUME op[e].pc \in PreparedPcs PROVE AttemptFits(e)'
    BY <1>1 DEF AttemptFits
  <2>1. r \in Recordings /\ Undisturbed(r) /\ Attempt(r)' = Attempt(r)
    BY <1>6
  <2>2. AttemptFits(e) /\ Fetched(e)' = Fetched(e) /\ key \in KeyOf(r)
    BY <1>3, <2>1, Fields, ManifestAt, EntryFields, SMTT(30) DEF OperationIsSound, PreparedFrom
  <2>3. Readable(Tip') => Tip'.manifest[r].key \in {NoKey, Fetched(e).manifest[r].key}
    BY <2>1, <2>2 DEF Undisturbed, AttemptFits
  <2>4. op[e].pc \in {"guard", "commit"} => Audible(key)' \/ r \in Tip'.tombstones
    BY <2>1, <2>2 DEF Undisturbed, AttemptFits
  <2>5. Readable(Tip)' <=> Readable(Tip')
    BY DEF Readable
  <2>6. QED
    BY <1>1, <2>1, <2>2, <2>3, <2>4, <2>5 DEF AttemptFits
<1>8. InTheHead(e)'
  <2> SUFFICES ASSUME op[e].pc \in {"verify", "clear"} PROVE InTheHead(e)'
    BY <1>1 DEF InTheHead
  <2>1. r \in Recordings /\ Undisturbed(r) /\ Attempt(r)' = Attempt(r)
    BY <1>6
  <2>2. InTheHead(e) /\ key \in KeyOf(r) \ {NoKey}
    BY DEF OperationIsSound, InTheHead
  <2>3. key \in bucket' => Kept(key)'
    BY <2>1, <2>2 DEF Undisturbed, InTheHead
  <2>4. r \notin Tip'.tombstones =>
          /\ Tip'.manifest[r].key = key
          /\ Tip'.manifest[r].generation = generation'[r]
    <3>1. Tip.manifest[r].key # NoKey => Tip.manifest[r] # NoEntry
      BY <2>1, TipIs, ManifestAt, EntryFields DEF TypeInv
    <3>2. QED
      BY <2>1, <2>2, <3>1 DEF Undisturbed, InTheHead
  <2>5. op[e].pc = "clear" => Audible(key)' \/ r \in Tip'.tombstones
    BY <2>1, <2>2 DEF Undisturbed, InTheHead
  <2>6. QED
    BY <1>1, <2>1, <2>2, <2>3, <2>4, <2>5 DEF InTheHead
<1>9. Cleaning(e)'
  BY <1>1, SMTT(30) DEF OperationIsSound, Cleaning
<1>10. Editing(e)'
  BY <1>1, <1>3 DEF OperationIsSound, Editing, Known, Conflicts, Readable
<1>11. QED
  BY <1>2, <1>5, <1>7, <1>8, <1>9, <1>10 DEF OperationIsSound

\* Everybody else's operation goes on as before.
LEMMA OthersStay ==
  ASSUME TypeInv, TypeInv', OperationsAreSound, NEW d \in Devices, Grows,
         Tip.tombstones \subseteq Tip'.tombstones,
         \A e \in Devices : e # d => Still(e),
         \A r \in Recordings : Owner[r] # d => Undisturbed(r)
  PROVE  \A e \in Devices : e # d => OperationIsSound(e)'
<1> SUFFICES ASSUME NEW e \in Devices, e # d PROVE OperationIsSound(e)'
  OBVIOUS
<1>1. OperationIsSound(e) /\ Still(e)
  BY DEF OperationsAreSound, OperationIsSound
<1>2. \A r \in Recordings : op[e].pc \in PublishPcs /\ op[e].recording = r => Undisturbed(r)
  BY <1>1 DEF OperationIsSound, Publishing
<1>3. QED
  BY <1>1, <1>2, OperationStays

\* Where the head stays, what the archive knows of stays, but for what the
\* device itself was to delete.
LEMMA KeptStays ==
  ASSUME UNCHANGED commits, NEW d \in Devices, NEW key,
         \A e \in Devices : e # d => Still(e),
         Pushed(d, key) => Pushed(d, key)',
         Kept(key)
  PROVE  Kept(key)'
<1>1. Tip' = Tip
  BY SameHead
<1>2. CASE Tip.manifest[key[1]].key = key
  BY <1>1, <1>2 DEF Kept
<1>3. CASE \E e \in Devices : Pushed(e, key)
  BY <1>1, <1>3, PushedStays DEF Kept
<1>4. QED
  BY <1>2, <1>3 DEF Kept

\* A step of one device that leaves the branch, the bucket and the jobs alone.
Quiet(d) ==
    /\ UNCHANGED <<commits, bucket, lost, generation, attempts, backend, published, complete>>
    /\ \A e \in Devices : e # d => Still(e)
    /\ OperationIsSound(d)'
    /\ \A key : Pushed(d, key) => Pushed(d, key)'

LEMMA QuietStep ==
  ASSUME ArchiveInv, TypeInv', NEW d \in Devices, Quiet(d)
  PROVE  ArchiveInv'
<1>1. Tip' = Tip /\ Grows
  BY SameHead DEF Quiet
<1>2. \A key : Kept(key) => Kept(key)'
  BY KeptStays DEF Quiet
<1>3. \A r \in Recordings : Undisturbed(r)
  BY <1>1, <1>2 DEF Quiet, Undisturbed, Audible
<1>4. OperationsAreSound'
  <2>1. \A e \in Devices : e # d => OperationIsSound(e)'
    BY <1>1, <1>3, OthersStay DEF ArchiveInv, Quiet
  <2>2. QED
    BY <2>1 DEF Quiet, OperationsAreSound, OperationIsSound
<1>5. TipIsSound'
  BY <1>1 DEF ArchiveInv, TipIsSound
<1>6. JobsAreSound'
  BY DEF ArchiveInv, JobsAreSound, Quiet
<1>7. AudioIsKnown'
  BY <1>2 DEF ArchiveInv, AudioIsKnown, Attempted, Quiet
<1>8. AttemptReplacesNothing'
  BY <1>1 DEF ArchiveInv, AttemptReplacesNothing, Attempt, Quiet, Readable
<1>9. PublishedIsKept'
  BY <1>1 DEF ArchiveInv, PublishedIsKept, Quiet
<1>10. QED
  BY <1>4, <1>5, <1>6, <1>7, <1>8, <1>9 DEF ArchiveInv

------------------------
(* The initial state, and the device's operation. *)

LEMMA ArchiveInit == Init => ArchiveInv
<1> SUFFICES ASSUME Init PROVE ArchiveInv
  OBVIOUS
<1> USE DEF Init
<1>1. /\ Len(commits) = 1 /\ commits \in Seq(Snapshot)
      /\ Tip = [manifest |-> NoManifest, notes |-> {}, tombstones |-> {}]
  BY EmptyTypes DEF Tip, Snapshot
<1>2. RemoteType
  BY <1>1 DEF RemoteType
<1>3. JobType
  BY EmptyTypes, ArchiveAssumption DEF JobType, Generations
<1>4. LocalType
  BY <1>1, EmptyTypes DEF LocalType
<1>5. \A d \in Devices : op[d].pc = "idle"
  BY DEF Idle
<1>6. OperationsAreSound
  BY <1>5
     DEF OperationsAreSound, Publishing, PreparedFrom, AttemptFits, InTheHead, Cleaning,
              Editing, PublishPcs, PreparedPcs
<1>7. TipIsSound
  BY <1>1 DEF TipIsSound
<1>8. JobsAreSound
  BY ArchiveAssumption DEF JobsAreSound, Generations
<1>9. AudioIsKnown /\ AttemptReplacesNothing
  BY ArchiveAssumption DEF AudioIsKnown, AttemptReplacesNothing, Attempt, Generations
<1>10. PublishedIsKept
  BY DEF PublishedIsKept
<1>11. QED
  BY <1>2, <1>3, <1>4, <1>6, <1>7, <1>8, <1>9, <1>10 DEF ArchiveInv, TypeInv

\* The device's operation becomes x.
Becomes(d, x) == op' = [op EXCEPT ![d] = x]

LEMMA OpMoves ==
  ASSUME TypeInv, NEW d \in Devices, NEW x \in Operation, Becomes(d, x)
  PROVE  /\ op' \in [Devices -> Operation] /\ op'[d] = x
         /\ \A e \in Devices : e # d => op'[e] = op[e]
BY DEF Becomes, TypeInv, LocalType

LEMMA OpSteps ==
  ASSUME TypeInv, NEW d \in Devices, NEW pc \in {"idle"} \cup PublishPcs \cup EditPcs, Step(d, pc)
  PROVE  \E x \in Operation :
           /\ Becomes(d, x)
           /\ x.pc = pc /\ x.recording = op[d].recording /\ x.head = op[d].head
           /\ x.entry = op[d].entry /\ x.manifest = op[d].manifest /\ x.reuse = op[d].reuse
<1> DEFINE x == [op[d] EXCEPT !.pc = pc]
<1>1. op[d] \in Operation /\ op \in [Devices -> Operation]
  BY DEF TypeInv, LocalType
<1>2. /\ x \in Operation /\ x.pc = pc /\ x.recording = op[d].recording /\ x.head = op[d].head
      /\ x.entry = op[d].entry /\ x.manifest = op[d].manifest /\ x.reuse = op[d].reuse
  BY <1>1 DEF Operation
<1>3. Becomes(d, x)
  BY <1>1 DEF Step, Becomes, Operation
<1> HIDE DEF x
<1>4. QED
  BY <1>2, <1>3

LEMMA OpReleased ==
  ASSUME NEW d \in Devices, Release(d)
  PROVE  Becomes(d, Idle)
BY DEF Release, Becomes

LEMMA OpAcquired ==
  ASSUME TypeInv, NEW d \in Devices, NEW r \in Recordings \cup {None}, NEW pc \in PublishPcs \cup EditPcs,
         Acquire(d, r, pc)
  PROVE  op[d] = Idle /\ \E x \in Operation : Becomes(d, x) /\ x.pc = pc /\ x.recording = r
<1> DEFINE x == [Idle EXCEPT !.pc = pc, !.recording = r]
<1>1. x \in Operation /\ x.pc = pc /\ x.recording = r
  BY EmptyTypes DEF Operation
<1>2. Becomes(d, x) /\ op[d] = Idle
  BY DEF Acquire, Becomes
<1> HIDE DEF x
<1>3. QED
  BY <1>1, <1>2

LEMMA OpRetries ==
  ASSUME TypeInv, NEW d \in Devices, Retry(d)
  PROVE  \E x \in Operation :
           /\ Becomes(d, x)
           /\ x.pc = "idle" \/ (x.pc = "fetch" /\ x.recording = op[d].recording)
<1>1. CASE op[d].tries + 1 < MaxRetries
  <2> DEFINE x == [Idle EXCEPT !.pc = "fetch", !.recording = op[d].recording, !.tries = op[d].tries + 1]
  <2>1. Idle \in Operation /\ op[d].recording \in Recordings \cup {None} /\ op[d].tries + 1 \in Nat
    BY Fields, EmptyTypes
  <2>2. x \in Operation
    BY <2>1 DEF Operation, PublishPcs
  <2>3. x.pc = "fetch" /\ x.recording = op[d].recording
    BY <2>1 DEF Operation
  <2>4. Becomes(d, x)
    BY <1>1 DEF Retry, Becomes
  <2> HIDE DEF x
  <2>5. QED
    BY <2>2, <2>3, <2>4
<1>2. CASE ~(op[d].tries + 1 < MaxRetries)
  <2>1. Becomes(d, Idle)
    BY <1>2 DEF Retry, Release, Becomes
  <2>2. Idle.pc = "idle"
    BY DEF Idle
  <2>3. QED
    BY <2>1, <2>2, EmptyTypes
<1>3. QED
  BY <1>1, <1>2

\* An operation that holds nothing yet, or nothing any more.
LEMMA SoundAtFirst ==
  ASSUME NEW d \in Devices, op'[d].pc \in {"idle", "fetch", "drain"},
         op'[d].pc = "fetch" => LET r == op'[d].recording IN
             r \in Recordings /\ Owner[r] = d /\ published'[r] < generation'[r]
  PROVE  OperationIsSound(d)'
BY DEF OperationIsSound, Publishing, PreparedFrom, AttemptFits, InTheHead, Cleaning,
       Editing, PreparedPcs,
       PublishPcs

LEMMA PublicationIs ==
  ASSUME ArchiveInv, NEW d \in Devices, op[d].pc \in PublishPcs
  PROVE  /\ op[d].recording \in Recordings /\ Owner[op[d].recording] = d
         /\ published[op[d].recording] < generation[op[d].recording]
         /\ op[d].recording \notin complete
<1>1. Publishing(d)
  BY DEF ArchiveInv, OperationsAreSound
<1>2. \A r \in complete : published[r] = generation[r]
  BY DEF ArchiveInv, JobsAreSound
<1>3. QED
  BY <1>1, <1>2, AttemptIs DEF Publishing, ArchiveInv, TypeInv, JobType, Generations

\* A step that leaves the device's oldest ticket alone.
LEMMA HeadStays ==
  ASSUME UNCHANGED commits, NEW d \in Devices, op'[d].pc \notin {"push", "local"},
         outbox[d] # <<>> => outbox'[d] # <<>> /\ Head(outbox'[d]) = Head(outbox[d])
  PROVE  \A key : Pushed(d, key) => Pushed(d, key)'
BY SameHead DEF Pushed

\* A quiet step, from what it does to the device.
LEMMA DeviceStep ==
  ASSUME ArchiveInv, NEW d \in Devices, NEW x \in Operation, Becomes(d, x),
         UNCHANGED <<commits, bucket, lost, generation, attempts, backend, published, complete, pull>>,
         manifest' \in [Devices -> Manifest], outbox' \in [Devices -> Seq(Ticket)],
         tombstones' \in [Devices -> SUBSET Recordings],
         \A e \in Devices : e # d => manifest'[e] = manifest[e] /\ outbox'[e] = outbox[e],
         OperationIsSound(d)',
         \A key : Pushed(d, key) => Pushed(d, key)'
  PROVE  ArchiveInv'
<1>1. /\ op' \in [Devices -> Operation] /\ op'[d] = x
      /\ \A e \in Devices : e # d => op'[e] = op[e]
  BY OpMoves DEF ArchiveInv
<1>2. TypeInv'
  BY <1>1 DEF ArchiveInv, TypeInv, RemoteType, JobType, LocalType
<1>3. Quiet(d)
  BY <1>1 DEF Quiet, Still
<1>4. QED
  BY <1>2, <1>3, QuietStep

\* A quiet step of a publication.
LEMMA PublishQuiet ==
  ASSUME ArchiveInv, NEW d \in Devices, NEW x \in Operation, Becomes(d, x),
         UNCHANGED <<commits, bucket, lost, generation, attempts, backend, published, complete, pull>>,
         UNCHANGED <<outbox, tombstones>>,
         manifest' \in [Devices -> Manifest], \A e \in Devices : e # d => manifest'[e] = manifest[e],
         x.pc \notin {"push", "local"},
         OperationIsSound(d)'
  PROVE  ArchiveInv'
<1>1. op'[d] = x
  BY OpMoves DEF ArchiveInv
<1>2. \A key : Pushed(d, key) => Pushed(d, key)'
  BY <1>1, HeadStays
<1>3. outbox' \in [Devices -> Seq(Ticket)] /\ tombstones' \in [Devices -> SUBSET Recordings]
  BY DEF ArchiveInv, TypeInv, LocalType
<1>4. QED
  BY <1>2, <1>3, DeviceStep

------------------------
(* ArchiveAdapter::publish, up to the first effect. *)

LEMMA Unchanged ==
  ASSUME ArchiveInv
  PROVE  /\ TypeInv /\ manifest \in [Devices -> Manifest] /\ outbox \in [Devices -> Seq(Ticket)]
         /\ tombstones \in [Devices -> SUBSET Recordings]
BY DEF ArchiveInv, TypeInv, LocalType

LEMMA PublishSound ==
  ASSUME ArchiveInv, NEW r \in Recordings, Publish(r)
  PROVE  ArchiveInv'
<1> PICK d : d = Owner[r]
  OBVIOUS
<1>1. d \in Devices /\ Acquire(d, r, "fetch") /\ "fetch" \in PublishPcs \cup EditPcs
  BY ArchiveAssumption DEF Publish, PublishPcs
<1>2. PICK x \in Operation : Becomes(d, x) /\ x.pc = "fetch" /\ x.recording = r
  BY <1>1, OpAcquired, Unchanged
<1>3. UNCHANGED <<commits, bucket, lost, generation, attempts, backend, published, complete, pull,
                  outbox, tombstones, manifest>>
  BY DEF Publish, remoteState, localState, job
<1>4. op'[d] = x
  BY <1>1, <1>2, OpMoves, Unchanged
<1>5. OperationIsSound(d)'
  <2>1. published'[r] < generation'[r]
    BY <1>3 DEF Publish
  <2>2. QED
    BY <1>1, <1>2, <1>4, <2>1, SoundAtFirst
<1>6. QED
  BY <1>1, <1>2, <1>3, <1>5, PublishQuiet, Unchanged

\* The tail of a publication step that ends, or starts over.
LEMMA StartsOver ==
  ASSUME ArchiveInv, NEW d \in Devices, op[d].pc \in PublishPcs,
         Retry(d) \/ Release(d),
         UNCHANGED <<commits, bucket, lost, generation, attempts, backend, published, complete, pull>>,
         UNCHANGED <<outbox, tombstones, manifest>>
  PROVE  ArchiveInv'
<1>1. PICK x \in Operation : /\ Becomes(d, x)
                             /\ x.pc = "idle" \/ (x.pc = "fetch" /\ x.recording = op[d].recording)
  BY OpRetries, OpReleased, EmptyTypes, Unchanged DEF Idle
<1>2. op'[d] = x
  BY <1>1, OpMoves, Unchanged
<1>3. OperationIsSound(d)'
  BY <1>1, <1>2, PublicationIs, SoundAtFirst
<1>4. QED
  BY <1>1, <1>3, PublishQuiet, Unchanged

\* The first of several fields to change.
LEMMA OpVerifies ==
  ASSUME TypeInv, NEW d \in Devices, NEW e \in Entry,
         op' = [op EXCEPT ![d].pc = "verify", ![d].entry = e]
  PROVE  \E x \in Operation :
           Becomes(d, x) /\ x.pc = "verify" /\ x.recording = op[d].recording /\ x.entry = e
<1> DEFINE x == [op[d] EXCEPT !.pc = "verify", !.entry = e]
<1>1. op[d] \in Operation /\ op \in [Devices -> Operation]
  BY DEF TypeInv, LocalType
<1>2. x \in Operation /\ x.pc = "verify" /\ x.recording = op[d].recording /\ x.entry = e
  BY <1>1 DEF Operation, PublishPcs
<1>3. Becomes(d, x)
  BY <1>1 DEF Becomes, Operation
<1> HIDE DEF x
<1>4. QED
  BY <1>2, <1>3

LEMMA FetchSound ==
  ASSUME ArchiveInv, NEW d \in Devices, Fetch(d)
  PROVE  ArchiveInv'
<1> PICK r : r = op[d].recording
  OBVIOUS
<1>1. op[d].pc = "fetch" /\ op[d].pc \in PublishPcs /\ Readable(Tip)
  BY DEF Fetch, PublishPcs
<1>2. r \in Recordings /\ Owner[r] = d /\ published[r] < generation[r]
  BY <1>1, PublicationIs
<1>3. UNCHANGED <<commits, bucket, lost, generation, attempts, backend, published, complete, pull,
                  outbox, tombstones>>
  BY DEF Fetch, remoteState, job
<1>4. Tip' = Tip
  BY <1>3, SameHead
<1>5. Tip.manifest \in Manifest /\ Tip.manifest[r] \in EntryOf(r) /\ Tip.manifest[r] \in Entry
  BY <1>2, Unchanged, TipIs, ManifestAt DEF TypeInv
<1>6. CASE r \in Tip.tombstones /\ Step(d, "cleanup") /\ UNCHANGED manifest
  <2>1. PICK x \in Operation : Becomes(d, x) /\ x.pc = "cleanup" /\ x.recording = r
    BY <1>6, OpSteps, Unchanged DEF PublishPcs
  <2>2. op'[d] = x
    BY <2>1, OpMoves, Unchanged
  <2>3. OperationIsSound(d)'
    BY <1>2, <1>3, <1>4, <1>6, <2>1, <2>2
       DEF OperationIsSound, Publishing, PreparedFrom, AttemptFits, InTheHead, Cleaning, Editing,
           PreparedPcs
  <2>4. QED
    BY <1>3, <1>6, <2>1, <2>3, PublishQuiet, Unchanged
<1>7. CASE /\ r \notin Tip.tombstones /\ AlreadyPublished(r)
           /\ op' = [op EXCEPT ![d].pc = "verify", ![d].entry = Tip.manifest[r]]
           /\ UNCHANGED manifest
  <2> PICK e : e = Tip.manifest[r]
    OBVIOUS
  <2>1. PICK x \in Operation : Becomes(d, x) /\ x.pc = "verify" /\ x.recording = r /\ x.entry = e
    BY <1>5, <1>7, OpVerifies, Unchanged, ZenonT(40)
  <2>2. op'[d] = x
    BY <2>1, OpMoves, Unchanged
  <2>3. /\ e.key \in KeyOf(r) \ {NoKey} /\ e.key[1] = r /\ e.generation = generation[r]
        /\ Tip.manifest[e.key[1]].key = e.key
    BY <1>2, <1>5, <1>7, EntryFields, KeyOfOne DEF AlreadyPublished
  <2>4. Kept(e.key)'
    BY <1>4, <2>3 DEF Kept
  <2>5. InTheHead(d)'
    BY <1>3, <1>4, <2>1, <2>2, <2>3, <2>4 DEF InTheHead
  <2>6. OperationIsSound(d)'
    BY <1>2, <1>3, <2>1, <2>2, <2>5
       DEF OperationIsSound, Publishing, PreparedFrom, AttemptFits, Cleaning, Editing, PreparedPcs
  <2>7. QED
    BY <1>3, <1>7, <2>1, <2>6, PublishQuiet, Unchanged
<1>8. CASE LET next == Prepared(d, r, Tip.manifest)
               reuse == Attempt(r) = NoKey /\ Tip.manifest[r].key # NoKey
           IN
           /\ Tip.manifest[r].generation < generation[r] /\ ~Deleted(d, r, Tip)
           /\ manifest' = [manifest EXCEPT ![d] = next]
           /\ op' = [op EXCEPT ![d] =
                [@ EXCEPT !.pc = IF reuse THEN "reuse" ELSE "begin", !.head = Len(commits),
                          !.entry = next[r], !.manifest = next, !.reuse = reuse]]
  <2> DEFINE next == Prepared(d, r, Tip.manifest)
             reuse == Attempt(r) = NoKey /\ Tip.manifest[r].key # NoKey
             head == Len(commits)
             pc == IF reuse THEN "reuse" ELSE "begin"
  <2>0. op' = [op EXCEPT ![d] = [@ EXCEPT !.pc = pc, !.head = head, !.entry = next[r],
                                          !.manifest = next, !.reuse = reuse]]
    BY <1>8
  <2> HIDE DEF next, reuse, head, pc
  <2>1. JobType /\ manifest[d] \in Manifest /\ manifest \in [Devices -> Manifest]
    BY Unchanged DEF TypeInv, LocalType
  <2>2. /\ next \in Manifest /\ next[r].generation = generation[r]
        /\ next[r].key = AudioKey(d, r, Tip.manifest)
        /\ \A q \in Recordings : Tip.manifest[q] # NoEntry =>
              /\ q # r => next[q].generation = Tip.manifest[q].generation /\ next[q].key = Tip.manifest[q].key
              /\ Tip.manifest[q].name \in {None, next[q].name}
    BY <1>2, <1>5, <2>1, PreparedIs DEF next
  <2>3. /\ next[r].key \in KeyOf(r) \ {NoKey}
        /\ Attempt(r) # NoKey => next[r].key = Attempt(r)
        /\ Attempt(r) = NoKey /\ Tip.manifest[r].key # NoKey => next[r].key = Tip.manifest[r].key
    BY <1>2, <1>5, <2>1, <2>2, AudioKeyIs
  <2>4. /\ next[r] \in Entry /\ reuse \in BOOLEAN /\ head \in 1 .. Len(commits) /\ head \in Nat
        /\ pc \in {"reuse", "begin"}
    BY <1>2, <2>2, ManifestAt, TipIs, Unchanged DEF TypeInv, head, reuse, pc
  <2>5. PICK x \in Operation :
          /\ Becomes(d, x)
          /\ x.pc = pc /\ x.recording = r /\ x.head = head /\ x.entry = next[r]
          /\ x.manifest = next /\ x.reuse = reuse
    <3> DEFINE y == [op[d] EXCEPT !.pc = pc, !.head = head, !.entry = next[r], !.manifest = next,
                                  !.reuse = reuse]
    <3>1. op[d] \in Operation /\ op \in [Devices -> Operation]
      BY Unchanged DEF TypeInv, LocalType
    <3>2. /\ y \in Operation /\ y.pc = pc /\ y.recording = op[d].recording /\ y.head = head
          /\ y.entry = next[r] /\ y.manifest = next /\ y.reuse = reuse
      BY <2>2, <2>4, <3>1 DEF Operation, PublishPcs, PreparedPcs
    <3>3. Becomes(d, y)
      BY <2>0 DEF Becomes
    <3> HIDE DEF y
    <3>4. QED
      BY <3>2, <3>3
  <2>6. op'[d] = x /\ Fetched(d)' = Tip /\ head \in 1 .. Len(commits')
    <3>1. op'[d] = x
      BY <2>5, OpMoves, Unchanged
    <3>2. commits' = commits /\ Tip = commits[head]
      BY <1>3 DEF Tip, head
    <3>3. QED
      BY <2>4, <2>5, <3>1, <3>2 DEF Fetched
  <2>7. r \notin Tip.tombstones
    BY <1>8 DEF Deleted
  <2>8. \A q \in Recordings : Tip.manifest[q] # NoEntry =>
          /\ next[q].generation >= Tip.manifest[q].generation
          /\ Tip.manifest[q].name \in {None, next[q].name}
          /\ q # r => next[q].key = Tip.manifest[q].key /\ next[q].generation = Tip.manifest[q].generation
    <3> SUFFICES ASSUME NEW q \in Recordings, Tip.manifest[q] # NoEntry
                 PROVE  next[q].generation >= Tip.manifest[q].generation
      BY <2>2
    <3>1. Tip.manifest[q].generation \in 0 .. MaxGeneration /\ generation[r] \in 1 .. MaxGeneration
      BY <1>2, <1>5, <2>1, ManifestAt, EntryFields, AttemptIs
    <3>2. QED
      BY <1>8, <2>2, <3>1, ArchiveAssumption
  <2>9. PreparedFrom(d)'
    <3>1. op'[d].recording = r /\ op'[d].entry = next[r] /\ op'[d].manifest = next /\ op'[d].head = head
      BY <2>5, <2>6
    <3>2. Readable(Fetched(d))' /\ r \notin Fetched(d)'.tombstones /\ generation' = generation
          /\ Fetched(d)'.manifest[r].generation < generation[r]
      BY <1>1, <1>3, <1>8, <2>6, <2>7 DEF Readable
    <3>3. Known(d, r)'
      <4>1. manifest'[d] = next
        BY <1>8, <2>1 DEF next
      <4>2. generation[r] \in 1 .. MaxGeneration
        BY <1>2, <2>1, AttemptIs
      <4>3. QED
        BY <2>2, <4>1, <4>2, ArchiveAssumption DEF Known, NoEntry
    <3>4. QED
      BY <2>2, <2>3, <2>6, <2>8, <3>1, <3>2, <3>3 DEF PreparedFrom
  <2>10. Attempt(r)' = Attempt(r)
    BY <1>3 DEF Attempt
  <2>11. AttemptFits(d)'
    BY <1>3, <1>4, <2>3, <2>5, <2>6, <2>10 DEF AttemptFits, pc, reuse
  <2>12. OperationIsSound(d)'
    BY <1>2, <1>3, <2>5, <2>6, <2>9, <2>11
       DEF OperationIsSound, Publishing, InTheHead, Cleaning, Editing, pc
  <2>13. manifest' \in [Devices -> Manifest] /\ \A e \in Devices : e # d => manifest'[e] = manifest[e]
    BY <1>8, <2>1, <2>2 DEF next
  <2>14. QED
    BY <1>3, <2>5, <2>12, <2>13, PublishQuiet DEF pc
<1>9. QED
  BY <1>6, <1>7, <1>8 DEF Fetch

\* A publication that goes on from the head it fetched.
LEMMA PreparedGoesOn ==
  ASSUME ArchiveInv, NEW d \in Devices, op[d].pc \in PreparedPcs, UNCHANGED <<commits, generation>>,
         op'[d].recording = op[d].recording, op'[d].head = op[d].head, op'[d].entry = op[d].entry,
         op'[d].manifest = op[d].manifest, manifest'[d] = manifest[d]
  PROVE  PreparedFrom(d)'
<1>1. PreparedFrom(d)
  BY DEF ArchiveInv, OperationsAreSound
<1>2. Fetched(d)' = Fetched(d)
  BY SameHead
<1>3. QED
  BY <1>1, <1>2 DEF PreparedFrom, Readable, Known

LEMMA GuardSound ==
  ASSUME ArchiveInv, NEW d \in Devices, Guard(d)
  PROVE  ArchiveInv'
<1> PICK r : r = op[d].recording
  OBVIOUS
<1>1. op[d].pc = "guard" /\ op[d].pc \in PublishPcs /\ op[d].pc \in PreparedPcs
  BY DEF Guard, PublishPcs, PreparedPcs
<1>2. r \in Recordings /\ Owner[r] = d /\ published[r] < generation[r]
  BY <1>1, PublicationIs
<1>3. UNCHANGED <<commits, bucket, lost, generation, attempts, backend, published, complete, pull,
                  outbox, tombstones, manifest>>
  BY DEF Guard, remoteState, localState, job
<1>4. Tip' = Tip
  BY <1>3, SameHead
<1>5. CASE r \in Tip.tombstones /\ Step(d, "cleanup")
  <2>1. PICK x \in Operation : Becomes(d, x) /\ x.pc = "cleanup" /\ x.recording = r
    BY <1>5, OpSteps, Unchanged DEF PublishPcs
  <2>2. op'[d] = x
    BY <2>1, OpMoves, Unchanged
  <2>3. OperationIsSound(d)'
    BY <1>2, <1>3, <1>4, <1>5, <2>1, <2>2
       DEF OperationIsSound, Publishing, PreparedFrom, AttemptFits, InTheHead, Cleaning, Editing,
           PreparedPcs
  <2>4. QED
    BY <1>3, <1>5, <2>1, <2>3, PublishQuiet, Unchanged
<1>6. CASE Retry(d)
  BY <1>1, <1>3, <1>6, StartsOver
<1>7. CASE Step(d, "commit")
  <2>1. PICK x \in Operation :
          /\ Becomes(d, x)
          /\ x.pc = "commit" /\ x.recording = r /\ x.head = op[d].head
          /\ x.entry = op[d].entry /\ x.manifest = op[d].manifest /\ x.reuse = op[d].reuse
    BY <1>7, OpSteps, Unchanged DEF PublishPcs, PreparedPcs
  <2>2. op'[d] = x
    BY <2>1, OpMoves, Unchanged
  <2>3. PreparedFrom(d)'
    BY <1>1, <1>3, <2>1, <2>2, PreparedGoesOn
  <2>4. Fetched(d)' = Fetched(d) /\ Attempt(r)' = Attempt(r) /\ Audible(op[d].entry.key)' = Audible(op[d].entry.key)
    BY <1>3, <2>1, <2>2, SameHead DEF Attempt, Audible
  <2>5. AttemptFits(d)
    BY DEF ArchiveInv, OperationsAreSound
  <2>6. AttemptFits(d)'
    BY <1>1, <1>3, <1>4, <2>1, <2>2, <2>4, <2>5 DEF AttemptFits, Audible, Readable
  <2>7. OperationIsSound(d)'
    BY <1>2, <1>3, <2>1, <2>2, <2>3, <2>6
       DEF OperationIsSound, Publishing, InTheHead, Cleaning, Editing
  <2>8. QED
    BY <1>3, <2>1, <2>7, PublishQuiet, Unchanged
<1>8. QED
  BY <1>5, <1>6, <1>7 DEF Guard

------------------------
(* The user's edits. *)

\* A ticket joins the queue.
LEMMA Staged ==
  ASSUME ArchiveInv, NEW d \in Devices, NEW kind \in {"name", "delete"}, NEW r \in Recordings,
         NEW name \in AnyName, Stage(d, kind, r, name)
  PROVE  /\ outbox' \in [Devices -> Seq(Ticket)] /\ outbox'[d] # <<>>
         /\ outbox[d] # <<>> => Head(outbox'[d]) = Head(outbox[d])
         /\ \A e \in Devices : e # d => outbox'[e] = outbox[e]
<1> DEFINE ticket == [kind |-> kind, recording |-> r, base |-> Seen(d, r), name |-> name]
<1>1. manifest[d][r] \in EntryOf(r) /\ manifest[d][r] \in Entry
  BY Unchanged, Fields, ManifestAt
<1>2. ticket \in Ticket
  BY <1>1 DEF Ticket, Seen
<1>3. outbox' = [outbox EXCEPT ![d] = Append(outbox[d], ticket)]
  BY DEF Stage
<1> HIDE DEF ticket
<1>4. outbox \in [Devices -> Seq(Ticket)] /\ outbox[d] \in Seq(Ticket)
  BY Unchanged
<1>5. Append(outbox[d], ticket) \in Seq(Ticket) /\ Append(outbox[d], ticket) # <<>>
  BY <1>2, <1>4
<1>6. outbox[d] # <<>> => Head(Append(outbox[d], ticket)) = Head(outbox[d])
  BY <1>2, <1>4
<1>7. outbox'[d] = Append(outbox[d], ticket)
  BY <1>3, <1>4
<1>8. QED
  BY <1>3, <1>4, <1>5, <1>6, <1>7

LEMMA StageNameSound ==
  ASSUME ArchiveInv, NEW d \in Devices, NEW r \in Recordings, NEW name \in AnyName, StageName(d, r, name)
  PROVE  ArchiveInv'
<1>1. PICK x \in Operation : Becomes(d, x) /\ x.pc = "apply" /\ x.recording = r
  BY OpAcquired, Unchanged DEF StageName, EditPcs
<1>2. op'[d] = x
  BY <1>1, OpMoves, Unchanged
<1>3. UNCHANGED <<commits, bucket, lost, generation, attempts, backend, published, complete, pull,
                  tombstones, manifest>>
  BY DEF StageName, remoteState, job
<1>4. /\ outbox' \in [Devices -> Seq(Ticket)] /\ outbox'[d] # <<>>
      /\ outbox[d] # <<>> => Head(outbox'[d]) = Head(outbox[d])
      /\ \A e \in Devices : e # d => outbox'[e] = outbox[e]
  BY Staged DEF StageName
<1>5. OperationIsSound(d)'
  <2>1. Known(d, r)'
    BY <1>3 DEF StageName, Known
  <2>2. QED
    BY <1>1, <1>2, <1>4, <2>1
       DEF OperationIsSound, Publishing, PreparedFrom, AttemptFits, InTheHead, Cleaning, Editing,
           PreparedPcs, PublishPcs, Known
<1>6. \A key : Pushed(d, key) => Pushed(d, key)'
  BY <1>1, <1>2, <1>3, <1>4, HeadStays
<1>7. QED
  BY <1>1, <1>3, <1>4, <1>5, <1>6, DeviceStep, Unchanged

LEMMA StageDeleteSound ==
  ASSUME ArchiveInv, NEW d \in Devices, NEW r \in Recordings, StageDelete(d, r)
  PROVE  ArchiveInv'
<1>1. PICK x \in Operation : Becomes(d, x) /\ x.pc = "drain" /\ x.recording = r
  BY OpAcquired, Unchanged DEF StageDelete, EditPcs
<1>2. op'[d] = x
  BY <1>1, OpMoves, Unchanged
<1>3. UNCHANGED <<commits, bucket, lost, generation, attempts, backend, published, complete, pull,
                  tombstones, manifest>>
  BY DEF StageDelete, remoteState, job
<1>4. /\ outbox' \in [Devices -> Seq(Ticket)] /\ outbox'[d] # <<>>
      /\ outbox[d] # <<>> => Head(outbox'[d]) = Head(outbox[d])
      /\ \A e \in Devices : e # d => outbox'[e] = outbox[e]
  BY Staged DEF StageDelete, AnyName
<1>5. OperationIsSound(d)'
  BY <1>1, <1>2, SoundAtFirst
<1>6. \A key : Pushed(d, key) => Pushed(d, key)'
  BY <1>1, <1>2, <1>3, <1>4, HeadStays
<1>7. QED
  BY <1>1, <1>3, <1>4, <1>5, <1>6, DeviceStep, Unchanged

\* An operation of the edit queue that changes neither the queue nor the head.
LEMMA QueueQuiet ==
  ASSUME ArchiveInv, NEW d \in Devices, NEW x \in Operation, Becomes(d, x), x.pc \in {"idle", "drain"},
         UNCHANGED <<commits, bucket, lost, generation, attempts, backend, published, complete, pull>>,
         UNCHANGED <<outbox, tombstones>>,
         manifest' \in [Devices -> Manifest], \A e \in Devices : e # d => manifest'[e] = manifest[e]
  PROVE  ArchiveInv'
<1>1. op'[d] = x
  BY OpMoves, Unchanged
<1>2. OperationIsSound(d)'
  BY <1>1, SoundAtFirst
<1>3. QED
  BY <1>2, PublishQuiet

LEMMA ApplyNameSound ==
  ASSUME ArchiveInv, NEW d \in Devices, ApplyName(d)
  PROVE  ArchiveInv'
<1> PICK r : r = op[d].recording
  OBVIOUS
<1>1. op[d].pc = "apply" /\ outbox[d] # <<>> /\ r \in Recordings /\ Known(d, r)
  BY DEF ApplyName, ArchiveInv, OperationsAreSound, Editing
<1>2. PICK x \in Operation : Becomes(d, x) /\ x.pc = "drain"
  BY OpSteps, Unchanged DEF ApplyName, EditPcs
<1>3. UNCHANGED <<commits, bucket, lost, generation, attempts, backend, published, complete, pull,
                  tombstones, outbox>>
  BY DEF ApplyName, remoteState, job
<1>4. PICK name : name = Last(outbox[d]).name
  OBVIOUS
<1>5. name \in AnyName
  <2>1. outbox[d] \in Seq(Ticket) /\ Len(outbox[d]) \in 1 .. Len(outbox[d])
    BY <1>1, Unchanged
  <2>2. Last(outbox[d]) \in Ticket
    BY <2>1 DEF Last
  <2>3. QED
    BY <1>4, <2>2 DEF Ticket
<1> DEFINE e == [manifest[d][r] EXCEPT !.name = name]
<1>6. manifest' = [manifest EXCEPT ![d] = [manifest[d] EXCEPT ![r] = e]]
  BY <1>4 DEF ApplyName
<1>7. manifest[d] \in Manifest /\ manifest \in [Devices -> Manifest] /\ e \in EntryOf(r)
  BY <1>1, <1>5, Unchanged, ManifestAt, Renamed DEF Known
<1> HIDE DEF e
<1> DEFINE m == [manifest[d] EXCEPT ![r] = e]
<1>8. m \in Manifest
  BY <1>1, <1>7, ManifestWith
<1>9. manifest' = [manifest EXCEPT ![d] = m]
  BY <1>6
<1> HIDE DEF m
<1>10. QED
  BY <1>2, <1>3, <1>7, <1>8, <1>9, QueueQuiet

LEMMA ResumeEditsSound ==
  ASSUME ArchiveInv, NEW d \in Devices, ResumeEdits(d)
  PROVE  ArchiveInv'
<1>1. PICK x \in Operation : Becomes(d, x) /\ x.pc = "drain"
  <2>1. Acquire(d, None, "drain") /\ "drain" \in PublishPcs \cup EditPcs /\ None \in Recordings \cup {None}
    BY DEF ResumeEdits, EditPcs
  <2>2. TypeInv
    BY Unchanged
  <2>3. \E x \in Operation : Becomes(d, x) /\ x.pc = "drain" /\ x.recording = None
    BY <2>1, <2>2, OpAcquired
  <2>4. QED
    BY <2>3
<1>2. UNCHANGED <<commits, bucket, lost, generation, attempts, backend, published, complete, pull,
                  tombstones, outbox, manifest>>
  BY DEF ResumeEdits, remoteState, localState, job
<1>3. QED
  BY <1>1, <1>2, QueueQuiet, Unchanged

LEMMA ReleaseSound ==
  ASSUME ArchiveInv, NEW d \in Devices, Drained(d) \/ Abandon(d)
  PROVE  ArchiveInv'
<1>1. Becomes(d, Idle) /\ Idle.pc = "idle" /\ Idle \in Operation
  BY OpReleased, EmptyTypes DEF Drained, Abandon, Idle
<1>2. UNCHANGED <<commits, bucket, lost, generation, attempts, backend, published, complete, pull,
                  tombstones, outbox, manifest>>
  BY DEF Drained, Abandon, remoteState, localState, job
<1>3. QED
  BY <1>1, <1>2, QueueQuiet, Unchanged

LEMMA DownloadSound ==
  ASSUME ArchiveInv, NEW d \in Devices, Download(d)
  PROVE  ArchiveInv'
<1>1. /\ UNCHANGED <<commits, bucket, lost, generation, attempts, backend, published, complete,
                     tombstones, outbox, manifest, op>>
      /\ pull' = [pull EXCEPT ![d] = Len(commits)]
  BY DEF Download, remoteState, localState, job
<1>2. TypeInv'
  BY <1>1, TipIs, Unchanged DEF TypeInv, RemoteType, JobType, LocalType
<1>3. Quiet(d)
  <2>1. OperationIsSound(d) /\ TypeInv
    BY DEF ArchiveInv, OperationsAreSound, OperationIsSound
  <2>2. \A r \in Recordings : Undisturbed(r)
    BY <1>1 DEF Undisturbed, Audible, Kept, Pushed, Tip
  <2>3. Tip' = Tip /\ Grows /\ \A e \in Devices : Still(e)
    BY <1>1, SameHead DEF Still
  <2>4. OperationIsSound(d)'
    BY <1>2, <2>1, <2>2, <2>3, OperationStays
  <2>5. QED
    BY <1>1, <2>3, <2>4 DEF Quiet, Pushed
<1>4. QED
  BY <1>2, <1>3, QuietStep

LEMMA OverlaySound ==
  ASSUME ArchiveInv, NEW d \in Devices, Overlay(d)
  PROVE  ArchiveInv'
<1>1. /\ UNCHANGED <<commits, bucket, lost, generation, attempts, backend, published, complete, outbox, op>>
      /\ pull' = [pull EXCEPT ![d] = 0] /\ pull[d] # 0
  BY DEF Overlay, remoteState, job
<1>2. TypeInv /\ Len(commits) \in Nat /\ pull[d] \in 1 .. Len(commits)
  BY <1>1, TipIs, Unchanged DEF TypeInv, LocalType
<1> DEFINE tree == commits[pull[d]]
           mine == IF tree.tombstones = {} THEN tombstones[d] ELSE tree.tombstones
<1>3. tree.manifest \in Manifest /\ tree.tombstones \in SUBSET Recordings
  BY <1>2, HeadIs DEF TypeInv, Snapshot
<1>4. mine \in SUBSET Recordings
  BY <1>2, <1>3, Fields
<1>5. \/ /\ op[d] = Idle
         /\ manifest' = [manifest EXCEPT ![d] = tree.manifest]
         /\ tombstones' = [tombstones EXCEPT ![d] = mine]
      \/ UNCHANGED <<manifest, tombstones>>
  BY DEF Overlay
<1> HIDE DEF mine, tree
<1>6. /\ manifest' \in [Devices -> Manifest] /\ tombstones' \in [Devices -> SUBSET Recordings]
      /\ \A e \in Devices : e # d => manifest'[e] = manifest[e]
  BY <1>3, <1>4, <1>5, Unchanged
<1>7. TypeInv'
  BY <1>1, <1>2, <1>6 DEF TypeInv, RemoteType, JobType, LocalType
<1>8. OperationIsSound(d)'
  <2>1. CASE op[d] = Idle
    BY <1>1, <2>1, SoundAtFirst DEF Idle
  <2>2. CASE UNCHANGED <<manifest, tombstones>>
    <3>1. \A r \in Recordings : Undisturbed(r)
      BY <1>1 DEF Undisturbed, Audible, Kept, Pushed, Tip
    <3>2. Tip' = Tip /\ Grows /\ \A e \in Devices : Still(e)
      BY <1>1, <2>2, SameHead DEF Still
    <3>3. OperationIsSound(d)
      BY DEF ArchiveInv, OperationsAreSound, OperationIsSound
    <3>4. QED
      BY <1>2, <1>7, <3>1, <3>2, <3>3, OperationStays
  <2>3. QED
    BY <1>5, <2>1, <2>2
<1>9. Quiet(d)
  BY <1>1, <1>6, <1>8, SameHead DEF Quiet, Still, Pushed
<1>10. QED
  BY <1>7, <1>9, QuietStep

\* A delete that was pushed: the head has nothing left to delete.
LEMMA PushedIsDone ==
  ASSUME ArchiveInv, NEW d \in Devices, NEW key, Pushed(d, key), Readable(Tip)
  PROVE  ~Conflicts(Head(outbox[d]), Tip) /\ Edited(Head(outbox[d]), Tip) = Tip
<1> PICK ticket : ticket = Head(outbox[d])
  OBVIOUS
<1> PICK r : r = ticket.recording
  OBVIOUS
<1>1. ticket.kind = "delete" /\ r \in Tip.tombstones
  BY DEF Pushed
<1>2. Tip \in Snapshot /\ r \in Recordings
  BY <1>1, TipIs, Unchanged DEF TypeInv
<1>3. r \notin Tip.notes /\ Tip.manifest[r] = NoEntry
  BY <1>1, <1>2 DEF ArchiveInv, TipIsSound, Readable
<1>4. ~Conflicts(ticket, Tip)
  BY <1>1, <1>3 DEF Conflicts
<1>5. Edited(ticket, Tip) = Tip
  <2>1. PICK m, n, t : Tip = [manifest |-> m, notes |-> n, tombstones |-> t] /\ m \in [Recordings -> Entry]
    BY <1>2 DEF Snapshot, Manifest
  <2>2. Edited(ticket, Tip) = [manifest |-> [m EXCEPT ![r] = NoEntry], notes |-> n \ {r},
                               tombstones |-> t \cup {r}]
    BY <1>1, <2>1 DEF Edited
  <2>3. [m EXCEPT ![r] = NoEntry] = m /\ n \ {r} = n /\ t \cup {r} = t
    BY <1>1, <1>2, <1>3, <2>1
  <2>4. QED
    BY <2>1, <2>2, <2>3
<1>6. QED
  BY <1>4, <1>5

\* A ticket that no pushed delete is leaves the queue.
LEMMA TicketDropped ==
  ASSUME ArchiveInv, NEW d \in Devices, outbox[d] # <<>>, DropTicket(d),
         \A key : ~Pushed(d, key),
         UNCHANGED <<commits, bucket, lost, generation, attempts, backend, published, complete, pull>>,
         manifest' \in [Devices -> Manifest], tombstones' \in [Devices -> SUBSET Recordings],
         \A e \in Devices : e # d => manifest'[e] = manifest[e]
  PROVE  ArchiveInv'
<1> DEFINE x == [Idle EXCEPT !.pc = "drain"]
<1>1. x \in Operation /\ x.pc = "drain"
  BY EmptyTypes DEF Operation, EditPcs
<1>2. Becomes(d, x) /\ outbox' = [outbox EXCEPT ![d] = Tail(outbox[d])]
  BY DEF DropTicket, Becomes
<1> HIDE DEF x
<1>3. /\ outbox' \in [Devices -> Seq(Ticket)]
      /\ \A e \in Devices : e # d => outbox'[e] = outbox[e]
  BY <1>2, HeadTicket, Unchanged
<1>4. op'[d] = x
  BY <1>1, <1>2, OpMoves, Unchanged
<1>5. OperationIsSound(d)'
  BY <1>1, <1>4, SoundAtFirst
<1>6. QED
  BY <1>1, <1>2, <1>3, <1>5, DeviceStep

LEMMA PrepareEditSound ==
  ASSUME ArchiveInv, NEW d \in Devices, PrepareEdit(d)
  PROVE  ArchiveInv'
<1> PICK ticket : ticket = Head(outbox[d])
  OBVIOUS
<1>1. op[d].pc = "drain" /\ outbox[d] # <<>> /\ Readable(Tip)
  BY DEF PrepareEdit
<1>2. UNCHANGED <<commits, bucket, lost, generation, attempts, backend, published, complete, pull,
                  tombstones>>
  BY DEF PrepareEdit, remoteState, job
<1>3. ticket \in Ticket /\ Tip \in Snapshot
  BY <1>1, HeadTicket, TipIs, Unchanged DEF TypeInv
<1>4. CASE Conflicts(ticket, Tip) /\ DropTicket(d) /\ UNCHANGED manifest
  <2>1. \A key : ~Pushed(d, key)
    BY <1>1, <1>4, PushedIsDone
  <2>2. QED
    BY <1>1, <1>2, <1>4, <2>1, TicketDropped, Unchanged
<1>5. CASE /\ ~Conflicts(ticket, Tip)
           /\ manifest' = IF ticket.kind = "name" THEN [manifest EXCEPT ![d] = Edited(ticket, Tip).manifest]
                                                  ELSE manifest
           /\ op' = [op EXCEPT ![d].head = Len(commits),
                               ![d].pc = IF Edited(ticket, Tip) = Tip THEN "finish" ELSE "push"]
           /\ UNCHANGED outbox
  <2>1. PICK edited : edited = Edited(ticket, Tip) /\ edited \in Snapshot
    BY <1>3, <1>5, EditedIs
  <2> DEFINE pc == IF edited = Tip THEN "finish" ELSE "push"
             x == [op[d] EXCEPT !.head = Len(commits), !.pc = pc]
  <2>2. pc \in {"finish", "push"} /\ Len(commits) \in Nat /\ Len(commits) \in 1 .. Len(commits)
    BY TipIs, Unchanged DEF TypeInv
  <2> HIDE DEF pc
  <2>3. op[d] \in Operation /\ op \in [Devices -> Operation]
    BY Unchanged DEF TypeInv, LocalType
  <2>4. x \in Operation /\ x.pc = pc /\ x.head = Len(commits)
    BY <2>2, <2>3 DEF Operation, EditPcs
  <2>5. Becomes(d, x)
    BY <1>5, <2>1, <2>3 DEF Becomes, Operation, pc
  <2> HIDE DEF x
  <2>6. op'[d] = x /\ Tip' = Tip
    BY <1>2, <2>4, <2>5, OpMoves, SameHead, Unchanged
  <2>7. manifest' \in [Devices -> Manifest] /\ \A e \in Devices : e # d => manifest'[e] = manifest[e]
    BY <1>5, <2>1, Unchanged DEF Snapshot
  <2>8. Fetched(d)' = Tip
    BY <1>2, <2>4, <2>6 DEF Fetched, Tip
  <2>9. pc = "finish" /\ ticket.kind = "delete" => ticket.recording \in Tip.tombstones
    BY <1>3, <1>5, <2>1, EditedIs, SMTT(30) DEF pc
  <2>10. Editing(d)'
    BY <1>1, <1>2, <1>5, <2>2, <2>4, <2>6, <2>8, <2>9 DEF Editing, Readable, Conflicts
  <2>11. OperationIsSound(d)'
    BY <2>2, <2>4, <2>6, <2>10
       DEF OperationIsSound, Publishing, PreparedFrom, AttemptFits, InTheHead, Cleaning,
           PreparedPcs, PublishPcs
  <2>12. ASSUME NEW key, Pushed(d, key)
         PROVE  Pushed(d, key)'
    <3>1. edited = Tip
      BY <1>1, <2>1, <2>12, PushedIsDone
    <3>2. op'[d].pc = "finish"
      BY <2>4, <2>6, <3>1 DEF pc
    <3>3. QED
      BY <1>5, <2>6, <2>12, <3>2 DEF Pushed
  <2>13. QED
    BY <1>2, <1>5, <2>4, <2>5, <2>7, <2>11, <2>12, DeviceStep, Unchanged
<1>6. QED
  BY <1>4, <1>5 DEF PrepareEdit

LEMMA ApplyDeleteSound ==
  ASSUME ArchiveInv, NEW d \in Devices, ApplyDelete(d)
  PROVE  ArchiveInv'
<1> PICK r : r = Head(outbox[d]).recording
  OBVIOUS
<1>1. op[d].pc = "local" /\ outbox[d] # <<>> /\ r \in Recordings
  BY HeadTicket, Unchanged DEF ApplyDelete, ArchiveInv, OperationsAreSound, Editing
<1>2. UNCHANGED <<commits, bucket, lost, generation, attempts, backend, published, complete, pull>>
  BY DEF ApplyDelete, remoteState, job
<1>3. \A key : ~Pushed(d, key)
  BY <1>1 DEF Pushed
<1> DEFINE m == [manifest[d] EXCEPT ![r] = NoEntry]
           mine == tombstones[d] \cup {r}
<1>4. \/ /\ manifest' = [manifest EXCEPT ![d] = m] /\ tombstones' = [tombstones EXCEPT ![d] = mine]
      \/ UNCHANGED <<manifest, tombstones>>
  BY Unchanged DEF ApplyDelete
<1>5. m \in Manifest /\ mine \in SUBSET Recordings
  BY <1>1, Unchanged, EmptyTypes, ManifestWith
<1> HIDE DEF m, mine
<1>6. /\ manifest' \in [Devices -> Manifest] /\ tombstones' \in [Devices -> SUBSET Recordings]
      /\ \A e \in Devices : e # d => manifest'[e] = manifest[e]
  BY <1>4, <1>5, Unchanged
<1>7. QED
  BY <1>1, <1>2, <1>3, <1>6, TicketDropped DEF ApplyDelete

------------------------
(* The effects of a publication. *)

\* The key of an entry of r is a key of r, in the bucket or not.
LEMMA TipKeyIs ==
  ASSUME TypeInv, NEW r \in Recordings
  PROVE  /\ Tip.manifest[r] \in EntryOf(r) /\ Tip.manifest[r].key \in KeyOf(r)
         /\ Tip.manifest[r].generation \in 0 .. MaxGeneration
         /\ Tip.manifest[r].key # NoKey => Tip.manifest[r] # NoEntry
         /\ NoKey \notin bucket \cup lost
BY TipIs, ManifestAt, EntryFields, EmptyTypes DEF TypeInv, RemoteType

LEMMA AttemptRecorded ==
  ASSUME TypeInv, NEW r \in Recordings, NEW key \in KeyOf(r), RecordAttempt(r, key)
  PROVE  /\ attempts' \in [Recordings -> [Generations -> Keys \cup {NoKey}]]
         /\ \A q \in Recordings, g \in Generations : attempts'[q][g] \in KeyOf(q)
         /\ \A q \in Recordings : q # r => attempts'[q] = attempts[q]
         /\ attempts'[r][generation[r]] = key
         /\ \A g \in Generations : g # generation[r] => attempts'[r][g] = attempts[r][g]
<1>1. /\ attempts \in [Recordings -> [Generations -> Keys \cup {NoKey}]] /\ generation[r] \in Generations
      /\ \A q \in Recordings, g \in Generations : attempts[q][g] \in KeyOf(q)
  BY DEF TypeInv, JobType
<1> DEFINE a == [attempts[r] EXCEPT ![generation[r]] = key]
<1>2. attempts' = [attempts EXCEPT ![r] = a]
  BY DEF RecordAttempt
<1>3. key \in Keys \cup {NoKey}
  BY DEF KeyOf
<1>4. /\ a \in [Generations -> Keys \cup {NoKey}] /\ a[generation[r]] = key
      /\ \A g \in Generations : g # generation[r] => a[g] = attempts[r][g]
  BY <1>1, <1>3
<1> HIDE DEF a
<1>5. attempts'[r] = a /\ \A q \in Recordings : q # r => attempts'[q] = attempts[q]
  BY <1>1, <1>2
<1>6. attempts' \in [Recordings -> [Generations -> Keys \cup {NoKey}]]
  BY <1>1, <1>2, <1>4
<1>7. ASSUME NEW q \in Recordings, NEW g \in Generations
      PROVE  attempts'[q][g] \in KeyOf(q)
  BY <1>1, <1>4, <1>5
<1>8. QED
  BY <1>4, <1>5, <1>6, <1>7

\* A step that leaves the branch and every other recording's audio alone.
Elsewhere(d, r) ==
    /\ UNCHANGED <<commits, lost, generation, backend>>
    /\ \A e \in Devices : e # d => Still(e)
    /\ \A q \in Recordings : q # r =>
         /\ published'[q] = published[q] /\ attempts'[q] = attempts[q]
         /\ \A key \in KeyOf(q) : key \in bucket' <=> key \in bucket
    /\ \A key : key \in bucket' /\ Pushed(d, key) => Pushed(d, key)'
    /\ \A q \in complete' : published'[q] = generation[q]
    /\ \A g \in Generations : g > generation[r] => attempts'[r][g] = NoKey
    /\ bucket' \cap Occupied = {}

\* The recording's own audio after it.
OwnAudio(r) ==
    /\ \A key \in bucket' : key[1] = r => Kept(key)' \/ Attempted(key)'
    /\ Readable(Tip) /\ Attempt(r)' # NoKey /\ Tip.manifest[r].key \notin {NoKey, Attempt(r)'} =>
         Tip.manifest[r].key \notin bucket'
    /\ backend[r] = "remote" /\ published'[r] # 0 /\ r \notin Tip.tombstones =>
         /\ Tip.manifest[r].generation >= published'[r]
         /\ Tip.manifest[r].key \in bucket' \cup lost

LEMMA OwnStep ==
  ASSUME ArchiveInv, TypeInv', NEW d \in Devices, NEW r \in Recordings, Owner[r] = d,
         Elsewhere(d, r), OwnAudio(r), OperationIsSound(d)'
  PROVE  ArchiveInv'
<1>1. Tip' = Tip /\ Grows
  BY SameHead DEF Elsewhere
<1>2. TypeInv /\ \A q \in Recordings : Attempt(q) \in KeyOf(q)
  BY AttemptIs DEF ArchiveInv, TypeInv
<1>3. ASSUME NEW key, key \in bucket', Kept(key)
      PROVE  Kept(key)'
  BY <1>3, KeptStays DEF Elsewhere
<1>4. \A q \in Recordings : q # r => Undisturbed(q)
  BY <1>1, <1>3 DEF Elsewhere, Undisturbed, Audible
<1>5. OperationsAreSound'
  <2>1. \A e \in Devices : e # d => OperationIsSound(e)'
    BY <1>1, <1>4, OthersStay DEF ArchiveInv, Elsewhere
  <2>2. QED
    BY <2>1 DEF OperationsAreSound, OperationIsSound
<1>6. TipIsSound'
  BY <1>1 DEF ArchiveInv, TipIsSound
<1>7. JobsAreSound'
  BY DEF ArchiveInv, JobsAreSound, Elsewhere
<1>8. AudioIsKnown'
  <2> SUFFICES ASSUME NEW key \in bucket' PROVE Kept(key)' \/ Attempted(key)'
    BY DEF AudioIsKnown
  <2>1. key \in Keys /\ key[1] \in Recordings /\ key \in KeyOf(key[1])
    BY KeysAreKeys DEF TypeInv, RemoteType
  <2>2. CASE key[1] = r
    BY <2>2 DEF OwnAudio
  <2>3. CASE key[1] # r
    <3>1. key \in bucket /\ attempts'[key[1]] = attempts[key[1]]
      BY <2>1, <2>3 DEF Elsewhere
    <3>2. QED
      BY <1>3, <3>1 DEF ArchiveInv, AudioIsKnown, Attempted
  <2>4. QED
    BY <2>2, <2>3
<1>9. AttemptReplacesNothing'
  <2> SUFFICES ASSUME Readable(Tip), NEW q \in Recordings,
                      Attempt(q)' # NoKey, Tip.manifest[q].key \notin {NoKey, Attempt(q)'}
               PROVE  Tip.manifest[q].key \notin bucket'
    BY <1>1 DEF AttemptReplacesNothing, Readable
  <2>1. CASE q = r
    BY <2>1 DEF OwnAudio
  <2>2. CASE q # r
    <3>1. Attempt(q)' = Attempt(q) /\ Tip.manifest[q].key \in KeyOf(q)
      BY <1>2, <2>2, TipKeyIs DEF Elsewhere, Attempt
    <3>2. Tip.manifest[q].key \notin bucket
      BY <3>1 DEF ArchiveInv, AttemptReplacesNothing
    <3>3. QED
      BY <2>2, <3>1, <3>2 DEF Elsewhere
  <2>3. QED
    BY <2>1, <2>2
<1>10. PublishedIsKept'
  <2> SUFFICES ASSUME NEW q \in Recordings, backend'[q] = "remote", published'[q] # 0, q \notin Tip.tombstones
               PROVE  /\ Tip.manifest[q].generation >= published'[q]
                      /\ Tip.manifest[q].key \in bucket' \cup lost'
    BY <1>1 DEF PublishedIsKept
  <2>1. CASE q = r
    BY <2>1 DEF OwnAudio, Elsewhere
  <2>2. CASE q # r
    <3>1. Tip.manifest[q].key \in KeyOf(q)
      BY <1>2, TipKeyIs
    <3>2. QED
      BY <2>2, <3>1 DEF Elsewhere, ArchiveInv, PublishedIsKept
  <2>3. QED
    BY <2>1, <2>2
<1>11. QED
  BY <1>5, <1>6, <1>7, <1>8, <1>9, <1>10 DEF ArchiveInv

\* An object of r comes or goes.
LEMMA OnlyOwn ==
  ASSUME TypeInv, NEW r \in Recordings, NEW k \in KeyOf(r), NoKey \notin bucket',
         bucket' = bucket \/ bucket' = bucket \ {k} \/ bucket' = bucket \cup {k}
  PROVE  \A q \in Recordings : q # r => \A key \in KeyOf(q) : key \in bucket' <=> key \in bucket
<1> SUFFICES ASSUME NEW q \in Recordings, q # r, NEW key \in KeyOf(q)
             PROVE  key \in bucket' <=> key \in bucket
  OBVIOUS
<1>1. NoKey \notin bucket
  BY TipKeyIs
<1>2. key # k \/ key = NoKey
  BY KeyOfOne
<1>3. QED
  BY <1>1, <1>2

\* The current generation's attempt is kept, or its object is not there, or the
\* archive itself knows of it.
LEMMA StillKnown ==
  ASSUME ArchiveInv, NEW d \in Devices, NEW r \in Recordings, Elsewhere(d, r), bucket' \subseteq bucket,
         \A g \in Generations : g # generation[r] => attempts'[r][g] = attempts[r][g],
         attempts'[r][generation[r]] = Attempt(r) \/ (Attempt(r) \in bucket' => Kept(Attempt(r)))
  PROVE  \A key \in bucket' : key[1] = r => Kept(key)' \/ Attempted(key)'
<1> SUFFICES ASSUME NEW key \in bucket', key[1] = r
             PROVE  Kept(key)' \/ Attempted(key)'
  OBVIOUS
<1>1. Kept(key) => Kept(key)'
  BY KeptStays DEF Elsewhere
<1>2. CASE Attempted(key) /\ ~Kept(key)
  <2>1. PICK g \in Generations : attempts[r][g] = key
    BY <1>2 DEF Attempted
  <2>2. attempts'[r][g] = key
    BY <1>2, <2>1 DEF Attempt
  <2>3. QED
    BY <2>2 DEF Attempted
<1>3. QED
  BY <1>1, <1>2 DEF ArchiveInv, AudioIsKnown

LEMMA VerifyPublishedSound ==
  ASSUME ArchiveInv, NEW d \in Devices, VerifyPublished(d)
  PROVE  ArchiveInv'
<1> PICK r, key, tried : r = op[d].recording /\ key = op[d].entry.key /\ tried = Attempt(r)
  OBVIOUS
<1>1. op[d].pc = "verify" /\ op[d].pc \in PublishPcs /\ key \in bucket
  BY DEF VerifyPublished, PublishPcs, Held
<1>2. r \in Recordings /\ Owner[r] = d /\ TypeInv
  BY <1>1, PublicationIs, Unchanged
<1>3. InTheHead(d)
  BY DEF ArchiveInv, OperationsAreSound
<1>4. /\ UNCHANGED <<commits, lost, generation, manifest, tombstones, outbox, backend, complete, pull>>
      /\ RecordAttempt(r, NoKey)
      /\ published' = [published EXCEPT ![r] = generation[r]] /\ Becomes(d, Idle)
      /\ IF tried = key THEN bucket' = bucket ELSE bucket' = bucket \ {tried}
  BY OpReleased DEF VerifyPublished, localState, job, ForgetAttempt, DeleteObject
<1>5. /\ attempts' \in [Recordings -> [Generations -> Keys \cup {NoKey}]]
      /\ \A q \in Recordings, g \in Generations : attempts'[q][g] \in KeyOf(q)
      /\ \A q \in Recordings : q # r => attempts'[q] = attempts[q]
      /\ attempts'[r][generation[r]] = NoKey
      /\ \A g \in Generations : g # generation[r] => attempts'[r][g] = attempts[r][g]
  BY <1>2, <1>4, EmptyTypes, AttemptRecorded
<1>6. op' \in [Devices -> Operation] /\ op'[d] = Idle /\ \A e \in Devices : e # d => op'[e] = op[e]
  BY <1>2, <1>4, EmptyTypes, OpMoves
<1>7. tried \in KeyOf(r) /\ generation[r] \in 1 .. MaxGeneration
  BY <1>2, AttemptIs DEF TypeInv
<1>8. /\ published' \in [Recordings -> 0 .. MaxGeneration] /\ published'[r] = generation[r]
      /\ \A q \in Recordings : q # r => published'[q] = published[q]
  BY <1>2, <1>4, <1>7, ArchiveAssumption DEF TypeInv, JobType
<1>9. TypeInv'
  BY <1>2, <1>4, <1>5, <1>6, <1>8 DEF TypeInv, RemoteType, JobType, LocalType
<1>10. Elsewhere(d, r)
  <2>1. NoKey \notin bucket'
    BY <1>2, <1>4, TipKeyIs
  <2>2. \A q \in Recordings : q # r => \A k \in KeyOf(q) : k \in bucket' <=> k \in bucket
    BY <1>2, <1>4, <1>7, <2>1, OnlyOwn
  <2>3. \A k : Pushed(d, k) => Pushed(d, k)'
    BY <1>4, <1>6, HeadStays DEF Idle
  <2>4. \A g \in Generations : g > generation[r] => attempts'[r][g] = NoKey
    BY <1>2, <1>5, <1>7 DEF ArchiveInv, JobsAreSound
  <2>5. bucket' \cap Occupied = {}
    BY <1>4 DEF ArchiveInv, JobsAreSound
  <2>6. \A q \in complete' : published'[q] = generation[q]
    BY <1>4, <1>8 DEF ArchiveInv, JobsAreSound, TypeInv, JobType
  <2>7. \A e \in Devices : e # d => Still(e)
    BY <1>4, <1>6 DEF Still
  <2>8. QED
    BY <1>4, <1>5, <1>8, <2>2, <2>3, <2>4, <2>5, <2>6, <2>7 DEF Elsewhere
<1>11. OwnAudio(r)
  <2>1. \A k \in bucket' : k[1] = r => Kept(k)' \/ Attempted(k)'
    <3>1. bucket' \subseteq bucket /\ (tried \in bucket' => Kept(tried))
      BY <1>1, <1>3, <1>4 DEF InTheHead
    <3>2. QED
      BY <1>2, <1>5, <1>10, <3>1, StillKnown
  <2>2. Attempt(r)' = NoKey
    BY <1>4, <1>5 DEF Attempt
  <2>3. r \notin Tip.tombstones =>
          Tip.manifest[r].generation = generation[r] /\ Tip.manifest[r].key \in bucket'
    BY <1>1, <1>3, <1>4 DEF InTheHead
  <2>4. QED
    BY <1>7, <1>8, <2>1, <2>2, <2>3, ArchiveAssumption DEF OwnAudio
<1>12. OperationIsSound(d)'
  BY <1>6, SoundAtFirst DEF Idle
<1>13. QED
  BY <1>2, <1>9, <1>10, <1>11, <1>12, OwnStep

LEMMA ClearAttemptSound ==
  ASSUME ArchiveInv, NEW d \in Devices, ClearAttempt(d)
  PROVE  ArchiveInv'
<1> PICK r, key, tried : r = op[d].recording /\ key = op[d].entry.key /\ tried = Attempt(r)
  OBVIOUS
<1>1. op[d].pc = "clear" /\ op[d].pc \in PublishPcs
  BY DEF ClearAttempt, PublishPcs
<1>2. r \in Recordings /\ Owner[r] = d /\ TypeInv
  BY <1>1, PublicationIs, Unchanged
<1>3. InTheHead(d)
  BY DEF ArchiveInv, OperationsAreSound
<1>4. /\ UNCHANGED <<commits, bucket, lost, generation, manifest, tombstones, outbox, backend, complete, pull>>
      /\ IF op[d].reuse THEN UNCHANGED attempts ELSE RecordAttempt(r, NoKey)
      /\ published' = [published EXCEPT ![r] = generation[r]] /\ Becomes(d, Idle)
  BY OpReleased DEF ClearAttempt, remoteState, localState, job, ForgetAttempt
<1>5. /\ attempts' \in [Recordings -> [Generations -> Keys \cup {NoKey}]]
      /\ \A q \in Recordings, g \in Generations : attempts'[q][g] \in KeyOf(q)
      /\ \A q \in Recordings : q # r => attempts'[q] = attempts[q]
      /\ \A g \in Generations : g # generation[r] => attempts'[r][g] = attempts[r][g]
  BY <1>2, <1>4, EmptyTypes, AttemptRecorded DEF TypeInv, JobType
<1>6. attempts'[r][generation[r]] = IF op[d].reuse THEN tried ELSE NoKey
  BY <1>2, <1>4, EmptyTypes, AttemptRecorded DEF Attempt
<1>7. op' \in [Devices -> Operation] /\ op'[d] = Idle /\ \A e \in Devices : e # d => op'[e] = op[e]
  BY <1>2, <1>4, EmptyTypes, OpMoves
<1>8. tried \in KeyOf(r) /\ generation[r] \in 1 .. MaxGeneration
  BY <1>2, AttemptIs DEF TypeInv
<1>9. /\ published' \in [Recordings -> 0 .. MaxGeneration] /\ published'[r] = generation[r]
      /\ \A q \in Recordings : q # r => published'[q] = published[q]
  BY <1>2, <1>4, <1>8, ArchiveAssumption DEF TypeInv, JobType
<1>10. TypeInv'
  BY <1>2, <1>4, <1>5, <1>7, <1>9 DEF TypeInv, RemoteType, JobType, LocalType
<1>11. Elsewhere(d, r)
  <2>1. \A k : Pushed(d, k) => Pushed(d, k)'
    BY <1>4, <1>7, HeadStays DEF Idle
  <2>2. \A g \in Generations : g > generation[r] => attempts'[r][g] = NoKey
    BY <1>2, <1>5, <1>8 DEF ArchiveInv, JobsAreSound
  <2>3. bucket' \cap Occupied = {} /\ \A q \in complete' : published'[q] = generation[q]
    BY <1>4, <1>9 DEF ArchiveInv, JobsAreSound, TypeInv, JobType
  <2>4. \A e \in Devices : e # d => Still(e)
    BY <1>4, <1>7 DEF Still
  <2>5. QED
    BY <1>4, <1>5, <1>9, <2>1, <2>2, <2>3, <2>4 DEF Elsewhere
<1>12. OwnAudio(r)
  <2>1. \A k \in bucket' : k[1] = r => Kept(k)' \/ Attempted(k)'
    <3>1. bucket' \subseteq bucket /\ (op[d].reuse \/ (tried \in bucket' => Kept(tried)))
      BY <1>1, <1>3, <1>4 DEF InTheHead
    <3>2. QED
      BY <1>2, <1>5, <1>6, <1>11, <3>1, StillKnown
  <2>2. Attempt(r)' \in {NoKey, tried}
    BY <1>4, <1>6 DEF Attempt
  <2>3. Readable(Tip) /\ Attempt(r)' # NoKey /\ Tip.manifest[r].key \notin {NoKey, Attempt(r)'} =>
          Tip.manifest[r].key \notin bucket'
    BY <1>2, <1>4, <2>2 DEF ArchiveInv, AttemptReplacesNothing
  <2>4. r \notin Tip.tombstones =>
          Tip.manifest[r].generation = generation[r] /\ Tip.manifest[r].key \in bucket' \cup lost
    BY <1>1, <1>3, <1>4 DEF InTheHead, Audible
  <2>5. QED
    BY <1>8, <1>9, <2>1, <2>3, <2>4, ArchiveAssumption DEF OwnAudio
<1>13. OperationIsSound(d)'
  BY <1>7, SoundAtFirst DEF Idle
<1>14. QED
  BY <1>2, <1>10, <1>11, <1>12, <1>13, OwnStep

LEMMA CleanupTombstonedSound ==
  ASSUME ArchiveInv, NEW d \in Devices, CleanupTombstoned(d)
  PROVE  ArchiveInv'
<1> PICK r, tried : r = op[d].recording /\ tried = Attempt(r)
  OBVIOUS
<1>1. op[d].pc = "cleanup" /\ op[d].pc \in PublishPcs
  BY DEF CleanupTombstoned, PublishPcs
<1>2. r \in Recordings /\ Owner[r] = d /\ TypeInv
  BY <1>1, PublicationIs, Unchanged
<1>3. r \in Tip.tombstones
  BY <1>1 DEF ArchiveInv, OperationsAreSound, Cleaning
<1>4. PICK key \in KeyOf(r) : bucket' = bucket \ {key} /\ (tried # NoKey => key = tried)
  <2> DEFINE k == IF tried # NoKey THEN tried
                  ELSE IF manifest[d][r].generation = generation[r] THEN manifest[d][r].key ELSE NoKey
  <2>1. bucket' = bucket \ {k}
    BY DEF CleanupTombstoned, DeleteObject
  <2>2. tried \in KeyOf(r) /\ manifest[d][r].key \in KeyOf(r) /\ NoKey \in KeyOf(r)
    BY <1>2, AttemptIs, Fields, ManifestAt, EntryFields, EmptyTypes DEF TypeInv
  <2>3. k \in KeyOf(r) /\ (tried # NoKey => k = tried)
    BY <2>2
  <2> HIDE DEF k
  <2>4. QED
    BY <2>1, <2>3
<1>5. /\ UNCHANGED <<commits, lost, generation, manifest, tombstones, outbox, backend, published, complete, pull>>
      /\ RecordAttempt(r, NoKey) /\ Becomes(d, Idle)
  BY OpReleased DEF CleanupTombstoned, localState, job, ForgetAttempt
<1>6. /\ attempts' \in [Recordings -> [Generations -> Keys \cup {NoKey}]]
      /\ \A q \in Recordings, g \in Generations : attempts'[q][g] \in KeyOf(q)
      /\ \A q \in Recordings : q # r => attempts'[q] = attempts[q]
      /\ attempts'[r][generation[r]] = NoKey
      /\ \A g \in Generations : g # generation[r] => attempts'[r][g] = attempts[r][g]
  BY <1>2, <1>5, EmptyTypes, AttemptRecorded
<1>7. op' \in [Devices -> Operation] /\ op'[d] = Idle /\ \A e \in Devices : e # d => op'[e] = op[e]
  BY <1>2, <1>5, EmptyTypes, OpMoves
<1>8. generation[r] \in 1 .. MaxGeneration
  BY <1>2, AttemptIs DEF TypeInv
<1>9. TypeInv'
  BY <1>2, <1>4, <1>5, <1>6, <1>7 DEF TypeInv, RemoteType, JobType, LocalType
<1>10. Elsewhere(d, r)
  <2>1. NoKey \notin bucket'
    BY <1>2, <1>4, TipKeyIs
  <2>2. \A q \in Recordings : q # r => \A k \in KeyOf(q) : k \in bucket' <=> k \in bucket
    BY <1>2, <1>4, <2>1, OnlyOwn
  <2>3. \A k : Pushed(d, k) => Pushed(d, k)'
    BY <1>5, <1>7, HeadStays DEF Idle
  <2>4. \A g \in Generations : g > generation[r] => attempts'[r][g] = NoKey
    BY <1>2, <1>6, <1>8 DEF ArchiveInv, JobsAreSound
  <2>5. bucket' \cap Occupied = {} /\ \A q \in complete' : published'[q] = generation[q]
    BY <1>4, <1>5 DEF ArchiveInv, JobsAreSound
  <2>6. \A e \in Devices : e # d => Still(e)
    BY <1>5, <1>7 DEF Still
  <2>7. QED
    BY <1>5, <1>6, <2>2, <2>3, <2>4, <2>5, <2>6 DEF Elsewhere
<1>11. OwnAudio(r)
  <2>1. \A k \in bucket' : k[1] = r => Kept(k)' \/ Attempted(k)'
    <3>1. bucket' \subseteq bucket /\ tried \notin bucket'
      BY <1>2, <1>4, TipKeyIs
    <3>2. QED
      BY <1>2, <1>6, <1>10, <3>1, StillKnown
  <2>2. Attempt(r)' = NoKey
    BY <1>5, <1>6 DEF Attempt
  <2>3. QED
    BY <1>3, <2>1, <2>2 DEF OwnAudio
<1>12. OperationIsSound(d)'
  BY <1>7, SoundAtFirst DEF Idle
<1>13. QED
  BY <1>2, <1>9, <1>10, <1>11, <1>12, OwnStep

\* A publication that goes on records an attempt, or sees the object.
LEMMA GoesOn ==
  ASSUME ArchiveInv, NEW d \in Devices, op[d].pc \in PreparedPcs, NEW pc \in PreparedPcs, Step(d, pc),
         UNCHANGED <<commits, lost, generation, published, manifest, tombstones, outbox, backend, complete, pull>>,
         NEW r, r = op[d].recording, NEW key, key = op[d].entry.key,
         pc \in {"put", "guard"},
         pc = "put" => ~op[d].reuse,
         IF op[d].reuse THEN Attempt(r)' = NoKey ELSE Attempt(r)' = key,
         pc = "guard" => key \in bucket'
  PROVE  /\ op' \in [Devices -> Operation] /\ op'[d].pc = pc
         /\ \A e \in Devices : e # d => op'[e] = op[e]
         /\ OperationIsSound(d)'
<1>1. PICK x \in Operation :
        /\ Becomes(d, x)
        /\ x.pc = pc /\ x.recording = r /\ x.head = op[d].head
        /\ x.entry = op[d].entry /\ x.manifest = op[d].manifest /\ x.reuse = op[d].reuse
  <2>1. pc \in {"idle"} \cup PublishPcs \cup EditPcs
    BY DEF PublishPcs
  <2>2. QED
    BY <2>1, OpSteps, Unchanged
<1>2. op'[d] = x /\ op' \in [Devices -> Operation] /\ \A e \in Devices : e # d => op'[e] = op[e]
  BY <1>1, OpMoves, Unchanged
<1>3. op[d].pc \in PublishPcs
  BY DEF PublishPcs
<1>4. r \in Recordings /\ Owner[r] = d /\ published[r] < generation[r]
  BY <1>3, PublicationIs
<1>5. PreparedFrom(d)'
  BY <1>1, <1>2, PreparedGoesOn
<1>6. Fetched(d)' = Fetched(d) /\ Tip' = Tip
  BY <1>1, <1>2, SameHead
<1>7. AttemptFits(d)
  BY DEF ArchiveInv, OperationsAreSound
<1>8. AttemptFits(d)'
  BY <1>1, <1>2, <1>6, <1>7 DEF AttemptFits, Audible, Readable
<1>9. OperationIsSound(d)'
  BY <1>1, <1>2, <1>4, <1>5, <1>8
     DEF OperationIsSound, Publishing, InTheHead, Cleaning, Editing
<1>10. QED
  BY <1>1, <1>2, <1>9

LEMMA ReuseAudioSound ==
  ASSUME ArchiveInv, NEW d \in Devices, ReuseAudio(d)
  PROVE  ArchiveInv'
<1> PICK r, key, tried : r = op[d].recording /\ key = op[d].entry.key /\ tried = Attempt(r)
  OBVIOUS
<1>1. op[d].pc = "reuse" /\ op[d].pc \in PublishPcs /\ op[d].pc \in PreparedPcs
  BY DEF ReuseAudio, PublishPcs, PreparedPcs
<1>2. r \in Recordings /\ Owner[r] = d /\ TypeInv
  BY <1>1, PublicationIs, Unchanged
<1>3. AttemptFits(d) /\ op[d].reuse /\ tried = NoKey /\ key = Fetched(d).manifest[r].key
  BY <1>1 DEF ArchiveInv, OperationsAreSound, AttemptFits
<1>4. UNCHANGED <<commits, bucket, lost, generation, published, manifest, tombstones, outbox, backend,
                  complete, pull>>
  BY DEF ReuseAudio, remoteState, localState, job
<1>5. CASE Held(key) /\ Step(d, "guard") /\ UNCHANGED attempts
  <2>1. "guard" \in PreparedPcs /\ Attempt(r)' = NoKey /\ key \in bucket'
    BY <1>3, <1>4, <1>5 DEF PreparedPcs, Attempt, Held
  <2>2. OperationIsSound(d)'
    BY <1>1, <1>3, <1>4, <1>5, <2>1, GoesOn
  <2>3. PICK x \in Operation : Becomes(d, x) /\ x.pc = "guard"
    BY <1>2, <1>5, OpSteps DEF PublishPcs, PreparedPcs
  <2>4. QED
    BY <1>4, <1>5, <2>2, <2>3, PublishQuiet, Unchanged
<1>6. CASE ~Held(key) /\ RecordAttempt(r, <<r, generation[r], "primary">>) /\ Retry(d)
  <2> PICK k : k = <<r, generation[r], "primary">>
    OBVIOUS
  <2>1. k \in KeyOf(r) /\ generation[r] \in 1 .. MaxGeneration
    BY <1>2, AttemptIs, KeyIs DEF TypeInv
  <2>2. RecordAttempt(r, k)
    BY <1>6
  <2>3. /\ attempts' \in [Recordings -> [Generations -> Keys \cup {NoKey}]]
        /\ \A q \in Recordings, g \in Generations : attempts'[q][g] \in KeyOf(q)
        /\ \A q \in Recordings : q # r => attempts'[q] = attempts[q]
        /\ \A g \in Generations : g # generation[r] => attempts'[r][g] = attempts[r][g]
    BY <1>2, <2>1, <2>2, AttemptRecorded
  <2>4. PICK x \in Operation : /\ Becomes(d, x)
                               /\ x.pc = "idle" \/ (x.pc = "fetch" /\ x.recording = r)
    BY <1>2, <1>6, OpRetries
  <2>5. op' \in [Devices -> Operation] /\ op'[d] = x /\ \A e \in Devices : e # d => op'[e] = op[e]
    BY <1>2, <2>4, OpMoves
  <2>6. TypeInv'
    BY <1>2, <1>4, <2>3, <2>5 DEF TypeInv, RemoteType, JobType, LocalType
  <2>7. Elsewhere(d, r)
    <3>1. \A q : Pushed(d, q) => Pushed(d, q)'
      BY <1>4, <2>4, <2>5, HeadStays
    <3>2. \A g \in Generations : g > generation[r] => attempts'[r][g] = NoKey
      BY <1>2, <2>1, <2>3 DEF ArchiveInv, JobsAreSound
    <3>3. bucket' \cap Occupied = {} /\ \A q \in complete' : published'[q] = generation[q]
      BY <1>4 DEF ArchiveInv, JobsAreSound
    <3>4. \A e \in Devices : e # d => Still(e)
      BY <1>4, <2>5 DEF Still
    <3>5. QED
      BY <1>4, <2>3, <3>1, <3>2, <3>3, <3>4 DEF Elsewhere
  <2>8. OwnAudio(r)
    <3>1. \A q \in bucket' : q[1] = r => Kept(q)' \/ Attempted(q)'
      <4>1. bucket' \subseteq bucket /\ tried \notin bucket'
        BY <1>2, <1>3, <1>4, TipKeyIs
      <4>2. QED
        BY <1>2, <2>3, <2>7, <4>1, StillKnown
    <3>2. Readable(Tip) => Tip.manifest[r].key = NoKey \/ Tip.manifest[r].key \notin bucket'
      BY <1>1, <1>3, <1>4, <1>6 DEF AttemptFits, Held
    <3>3. QED
      BY <1>2, <1>4, <3>1, <3>2 DEF OwnAudio, ArchiveInv, PublishedIsKept
  <2>9. OperationIsSound(d)'
    BY <1>1, <1>4, <2>4, <2>5, PublicationIs, SoundAtFirst
  <2>10. QED
    BY <1>2, <2>6, <2>7, <2>8, <2>9, OwnStep
<1>7. QED
  BY <1>5, <1>6 DEF ReuseAudio

LEMMA BeginAttemptSound ==
  ASSUME ArchiveInv, NEW d \in Devices, BeginAttempt(d)
  PROVE  ArchiveInv'
<1> PICK r, key, tried : r = op[d].recording /\ key = op[d].entry.key /\ tried = Attempt(r)
  OBVIOUS
<1>1. op[d].pc = "begin" /\ op[d].pc \in PublishPcs /\ op[d].pc \in PreparedPcs
  BY DEF BeginAttempt, PublishPcs, PreparedPcs
<1>2. r \in Recordings /\ Owner[r] = d /\ TypeInv
  BY <1>1, PublicationIs, Unchanged
<1>3. /\ ~op[d].reuse
      /\ tried = key \/ (tried = NoKey /\ Fetched(d).manifest[r].key = NoKey)
      /\ Readable(Tip) => Tip.manifest[r].key \in {NoKey, Fetched(d).manifest[r].key}
  BY <1>1 DEF ArchiveInv, OperationsAreSound, AttemptFits
<1>4. /\ UNCHANGED <<commits, bucket, lost, generation, published, manifest, tombstones, outbox, backend,
                     complete, pull>>
      /\ RecordAttempt(r, key) /\ Step(d, "put") /\ "put" \in PreparedPcs
  BY DEF BeginAttempt, remoteState, localState, job, PreparedPcs
<1>5. key \in KeyOf(r) /\ generation[r] \in 1 .. MaxGeneration
  <2>1. PreparedFrom(d) /\ op[d].manifest \in Manifest
    BY <1>2, Fields DEF ArchiveInv, OperationsAreSound
  <2>2. QED
    BY <1>1, <1>2, <2>1, ManifestAt, EntryFields, AttemptIs DEF PreparedFrom, TypeInv
<1>6. /\ attempts' \in [Recordings -> [Generations -> Keys \cup {NoKey}]]
      /\ \A q \in Recordings, g \in Generations : attempts'[q][g] \in KeyOf(q)
      /\ \A q \in Recordings : q # r => attempts'[q] = attempts[q]
      /\ attempts'[r][generation[r]] = key
      /\ \A g \in Generations : g # generation[r] => attempts'[r][g] = attempts[r][g]
  BY <1>2, <1>4, <1>5, AttemptRecorded
<1>7. Attempt(r)' = key
  BY <1>4, <1>6 DEF Attempt
<1>8. /\ op' \in [Devices -> Operation] /\ op'[d].pc = "put"
      /\ \A e \in Devices : e # d => op'[e] = op[e]
      /\ OperationIsSound(d)'
  BY <1>1, <1>3, <1>4, <1>7, GoesOn
<1>9. TypeInv'
  BY <1>2, <1>4, <1>6, <1>8 DEF TypeInv, RemoteType, JobType, LocalType
<1>10. Elsewhere(d, r)
  <2>1. \A q : Pushed(d, q) => Pushed(d, q)'
    BY <1>4, <1>8, HeadStays
  <2>2. \A g \in Generations : g > generation[r] => attempts'[r][g] = NoKey
    BY <1>2, <1>5, <1>6 DEF ArchiveInv, JobsAreSound
  <2>3. bucket' \cap Occupied = {} /\ \A q \in complete' : published'[q] = generation[q]
    BY <1>4 DEF ArchiveInv, JobsAreSound
  <2>4. \A e \in Devices : e # d => Still(e)
    BY <1>4, <1>8 DEF Still
  <2>5. QED
    BY <1>4, <1>6, <2>1, <2>2, <2>3, <2>4 DEF Elsewhere
<1>11. OwnAudio(r)
  <2>1. \A q \in bucket' : q[1] = r => Kept(q)' \/ Attempted(q)'
    <3>1. bucket' \subseteq bucket /\ (key = tried \/ tried \notin bucket')
      BY <1>2, <1>3, <1>4, TipKeyIs
    <3>2. QED
      BY <1>2, <1>6, <1>10, <3>1, StillKnown
  <2>2. Readable(Tip) /\ Attempt(r)' # NoKey /\ Tip.manifest[r].key \notin {NoKey, Attempt(r)'} =>
          Tip.manifest[r].key \notin bucket'
    BY <1>2, <1>3, <1>4, <1>7 DEF ArchiveInv, AttemptReplacesNothing
  <2>3. QED
    BY <1>2, <1>4, <2>1, <2>2 DEF OwnAudio, ArchiveInv, PublishedIsKept
<1>12. QED
  BY <1>2, <1>8, <1>9, <1>10, <1>11, OwnStep

LEMMA PutSound ==
  ASSUME ArchiveInv, NEW d \in Devices, Put(d)
  PROVE  ArchiveInv'
<1> PICK r, key : r = op[d].recording /\ key = op[d].entry.key
  OBVIOUS
<1>1. op[d].pc = "put" /\ op[d].pc \in PublishPcs /\ op[d].pc \in PreparedPcs
  BY DEF Put, PublishPcs, PreparedPcs
<1>2. r \in Recordings /\ Owner[r] = d /\ TypeInv
  BY <1>1, PublicationIs, Unchanged
<1>3. ~op[d].reuse /\ Attempt(r) = key
  BY <1>1 DEF ArchiveInv, OperationsAreSound, AttemptFits
<1>4. UNCHANGED <<commits, lost, generation, tombstones, outbox, pull, backend, complete, published>>
  BY DEF Put, job
<1>5. /\ key \in KeyOf(r) \ {NoKey} /\ key \in Keys /\ key[1] = r /\ Known(d, r)
      /\ generation[r] \in Generations /\ generation[r] \in 1 .. MaxGeneration
  <2>1. PreparedFrom(d) /\ op[d].manifest \in Manifest
    BY <1>2, Fields DEF ArchiveInv, OperationsAreSound
  <2>2. key \in KeyOf(r) \ {NoKey} /\ Known(d, r)
    BY <1>1, <1>2, <2>1, ManifestAt, EntryFields DEF PreparedFrom
  <2>3. QED
    BY <1>2, <2>2, AttemptIs, KeyOfOne DEF TypeInv
<1>6. CASE key \notin Occupied /\ bucket' = bucket \cup {key} /\ Step(d, "guard") /\ UNCHANGED <<attempts, manifest>>
  <2>1. Attempt(r)' = key /\ "guard" \in PreparedPcs /\ key \in bucket'
    BY <1>3, <1>4, <1>6 DEF Attempt, PreparedPcs
  <2>2. /\ op' \in [Devices -> Operation] /\ op'[d].pc = "guard"
        /\ \A e \in Devices : e # d => op'[e] = op[e]
        /\ OperationIsSound(d)'
    BY <1>1, <1>3, <1>4, <1>6, <2>1, GoesOn
  <2>3. TypeInv'
    BY <1>2, <1>4, <1>5, <1>6, <2>2 DEF TypeInv, RemoteType, JobType, LocalType
  <2>4. Elsewhere(d, r)
    <3>1. NoKey \notin bucket'
      BY <1>2, <1>5, <1>6, TipKeyIs
    <3>2. \A q \in Recordings : q # r => \A k \in KeyOf(q) : k \in bucket' <=> k \in bucket
      BY <1>2, <1>5, <1>6, <3>1, OnlyOwn
    <3>3. \A k : Pushed(d, k) => Pushed(d, k)'
      BY <1>4, <2>2, HeadStays
    <3>4. \A g \in Generations : g > generation[r] => attempts'[r][g] = NoKey
      BY <1>2, <1>6 DEF ArchiveInv, JobsAreSound
    <3>5. bucket' \cap Occupied = {} /\ \A q \in complete' : published'[q] = generation[q]
      BY <1>4, <1>6 DEF ArchiveInv, JobsAreSound
    <3>6. \A e \in Devices : e # d => Still(e)
      BY <1>4, <1>6, <2>2 DEF Still
    <3>7. QED
      BY <1>4, <1>6, <3>2, <3>3, <3>4, <3>5, <3>6 DEF Elsewhere
  <2>5. OwnAudio(r)
    <3>1. ASSUME NEW k \in bucket', k[1] = r
          PROVE  Kept(k)' \/ Attempted(k)'
      <4>1. CASE k = key
        BY <1>5, <2>1, <1>4, <4>1 DEF Attempted, Attempt
      <4>2. CASE k # key
        <5>1. Kept(k) \/ Attempted(k)
          BY <1>6, <4>2 DEF ArchiveInv, AudioIsKnown
        <5>2. Kept(k) => Kept(k)'
          BY <2>4, KeptStays DEF Elsewhere
        <5>3. QED
          BY <1>6, <5>1, <5>2 DEF Attempted
      <4>3. QED
        BY <4>1, <4>2
    <3>2. Readable(Tip) /\ Tip.manifest[r].key \notin {NoKey, key} => Tip.manifest[r].key \notin bucket'
      BY <1>2, <1>3, <1>5, <1>6 DEF ArchiveInv, AttemptReplacesNothing
    <3>3. backend[r] = "remote" /\ published'[r] # 0 /\ r \notin Tip.tombstones =>
            /\ Tip.manifest[r].generation >= published'[r]
            /\ Tip.manifest[r].key \in bucket' \cup lost
      BY <1>2, <1>4, <1>6 DEF ArchiveInv, PublishedIsKept
    <3>4. QED
      BY <2>1, <3>1, <3>2, <3>3 DEF OwnAudio
  <2>6. QED
    BY <1>2, <2>2, <2>3, <2>4, <2>5, OwnStep
<1>7. CASE key \in Occupied /\ RecordAttempt(r, NoKey) /\ Collide(d, r) /\ Retry(d) /\ UNCHANGED bucket
  <2>1. /\ attempts' \in [Recordings -> [Generations -> Keys \cup {NoKey}]]
        /\ \A q \in Recordings, g \in Generations : attempts'[q][g] \in KeyOf(q)
        /\ \A q \in Recordings : q # r => attempts'[q] = attempts[q]
        /\ attempts'[r][generation[r]] = NoKey
        /\ \A g \in Generations : g # generation[r] => attempts'[r][g] = attempts[r][g]
    BY <1>2, <1>7, EmptyTypes, AttemptRecorded
  <2>2. PICK x \in Operation : /\ Becomes(d, x)
                               /\ x.pc = "idle" \/ (x.pc = "fetch" /\ x.recording = r)
    BY <1>2, <1>7, OpRetries
  <2>3. op' \in [Devices -> Operation] /\ op'[d] = x /\ \A e \in Devices : e # d => op'[e] = op[e]
    BY <1>2, <2>2, OpMoves
  <2>4. manifest' \in [Devices -> Manifest] /\ \A e \in Devices : e # d => manifest'[e] = manifest[e]
    <3> DEFINE fallback == <<r, generation[r], "fallback">>
               e == [manifest[d][r] EXCEPT !.key = fallback]
    <3>1. fallback \in KeyOf(r)
      BY <1>2, <1>5, KeyIs
    <3> HIDE DEF fallback
    <3>2. manifest[d] \in Manifest /\ manifest \in [Devices -> Manifest]
      BY Unchanged
    <3>3. /\ manifest[d][r] \in Entry /\ manifest[d][r].generation \in 1 .. MaxGeneration
          /\ manifest[d][r].name \in AnyName
      BY <1>2, <1>5, <3>2, ManifestAt, EntryFields, ArchiveAssumption DEF Known
    <3>4. e = [generation |-> manifest[d][r].generation, key |-> fallback, name |-> manifest[d][r].name]
      BY <3>3 DEF Entry
    <3>5. e \in EntryOf(r)
      BY <1>2, <3>1, <3>3, <3>4, EntryIs
    <3>6. manifest' = [manifest EXCEPT ![d] = [manifest[d] EXCEPT ![r] = e]]
      BY <1>7 DEF Collide, fallback
    <3> HIDE DEF e
    <3> DEFINE m == [manifest[d] EXCEPT ![r] = e]
    <3>7. m \in Manifest
      BY <1>2, <3>2, <3>5, ManifestWith
    <3>8. manifest' = [manifest EXCEPT ![d] = m]
      BY <3>6
    <3> HIDE DEF m
    <3>9. QED
      BY <3>2, <3>7, <3>8
  <2>5. TypeInv'
    BY <1>2, <1>4, <1>7, <2>1, <2>3, <2>4 DEF TypeInv, RemoteType, JobType, LocalType
  <2>6. Elsewhere(d, r)
    <3>1. \A k : Pushed(d, k) => Pushed(d, k)'
      BY <1>4, <2>2, <2>3, HeadStays
    <3>2. \A g \in Generations : g > generation[r] => attempts'[r][g] = NoKey
      BY <1>2, <1>5, <2>1 DEF ArchiveInv, JobsAreSound
    <3>3. bucket' \cap Occupied = {} /\ \A q \in complete' : published'[q] = generation[q]
      BY <1>4, <1>7 DEF ArchiveInv, JobsAreSound
    <3>4. \A e \in Devices : e # d => Still(e)
      BY <1>4, <2>3, <2>4 DEF Still
    <3>5. QED
      BY <1>4, <1>7, <2>1, <3>1, <3>2, <3>3, <3>4 DEF Elsewhere
  <2>7. OwnAudio(r)
    <3>1. \A q \in bucket' : q[1] = r => Kept(q)' \/ Attempted(q)'
      <4>1. bucket' \subseteq bucket /\ key \notin bucket'
        BY <1>7 DEF ArchiveInv, JobsAreSound
      <4>2. QED
        BY <1>2, <1>3, <2>1, <2>6, <4>1, StillKnown
    <3>2. Attempt(r)' = NoKey
      BY <1>4, <2>1 DEF Attempt
    <3>3. QED
      BY <1>2, <1>4, <1>7, <3>1, <3>2 DEF OwnAudio, ArchiveInv, PublishedIsKept
  <2>8. OperationIsSound(d)'
    BY <1>1, <1>4, <2>2, <2>3, PublicationIs, SoundAtFirst
  <2>9. QED
    BY <1>2, <2>5, <2>6, <2>7, <2>8, OwnStep
<1>8. QED
  BY <1>6, <1>7 DEF Put, ForgetAttempt

LEMMA PublishLocalOnlySound ==
  ASSUME ArchiveInv, NEW r \in Recordings, PublishLocalOnly(r)
  PROVE  ArchiveInv'
<1> PICK d : d = Owner[r]
  OBVIOUS
<1> DEFINE e == [generation |-> generation[r], key |-> NoKey, name |-> manifest[d][r].name]
           m == [manifest[d] EXCEPT ![r] = e]
<1>1. d \in Devices /\ op[d] = Idle /\ TypeInv /\ backend[r] = "local"
  BY ArchiveAssumption, Unchanged DEF PublishLocalOnly
<1>2. /\ UNCHANGED <<commits, bucket, lost, generation, attempts, tombstones, outbox, op, pull, backend, complete>>
      /\ published' = [published EXCEPT ![r] = generation[r]]
      /\ manifest' = [manifest EXCEPT ![d] = m]
  BY DEF PublishLocalOnly, remoteState, job
<1>3. generation[r] \in 1 .. MaxGeneration
  BY <1>1, AttemptIs DEF TypeInv
<1>4. m \in Manifest
  <2>1. manifest[d] \in Manifest /\ manifest[d][r].name \in AnyName
    BY <1>1, Fields, ManifestAt, EntryFields
  <2>2. e \in EntryOf(r)
    BY <1>3, <2>1, EmptyTypes, EntryIs
  <2> HIDE DEF e
  <2>3. QED
    BY <2>1, <2>2, ManifestWith
<1> HIDE DEF m
<1>5. manifest' \in [Devices -> Manifest] /\ \A q \in Devices : q # d => manifest'[q] = manifest[q]
  BY <1>2, <1>4, Unchanged
<1>6. /\ published' \in [Recordings -> 0 .. MaxGeneration] /\ published'[r] = generation[r]
      /\ \A q \in Recordings : q # r => published'[q] = published[q]
  BY <1>1, <1>2, <1>3, ArchiveAssumption DEF TypeInv, JobType
<1>7. TypeInv'
  BY <1>1, <1>2, <1>5, <1>6 DEF TypeInv, RemoteType, JobType, LocalType
<1>8. Elsewhere(d, r)
  <2>1. \A k : Pushed(d, k) => Pushed(d, k)'
    BY <1>2, SameHead DEF Pushed
  <2>2. \A g \in Generations : g > generation[r] => attempts'[r][g] = NoKey
    BY <1>2 DEF ArchiveInv, JobsAreSound
  <2>3. bucket' \cap Occupied = {} /\ \A q \in complete' : published'[q] = generation[q]
    BY <1>1, <1>2, <1>6 DEF ArchiveInv, JobsAreSound, TypeInv, JobType
  <2>4. \A q \in Devices : q # d => Still(q)
    BY <1>2, <1>5 DEF Still
  <2>5. QED
    BY <1>2, <1>6, <2>1, <2>2, <2>3, <2>4 DEF Elsewhere
<1>9. OwnAudio(r)
  <2>1. \A k \in bucket' : k[1] = r => Kept(k)' \/ Attempted(k)'
    BY <1>1, <1>2, <1>8, StillKnown DEF Attempt
  <2>2. Attempt(r)' = Attempt(r)
    BY <1>2 DEF Attempt
  <2>3. QED
    BY <1>1, <1>2, <2>1, <2>2 DEF OwnAudio, ArchiveInv, AttemptReplacesNothing
<1>10. OperationIsSound(d)'
  BY <1>1, <1>2, SoundAtFirst DEF Idle
<1>11. QED
  BY <1>1, <1>7, <1>8, <1>9, <1>10, OwnStep

------------------------
(* The job, and the bucket's console: no device is at work. *)

LEMMA EverybodyStays ==
  ASSUME ArchiveInv, TypeInv', UNCHANGED <<commits, outbox, manifest, op>>,
         \A r \in Recordings, d \in Devices : op[d].pc \in PublishPcs /\ op[d].recording = r => Undisturbed(r)
  PROVE  OperationsAreSound'
<1> SUFFICES ASSUME NEW d \in Devices PROVE OperationIsSound(d)'
  BY DEF OperationsAreSound, OperationIsSound
<1>1. Still(d) /\ Grows /\ Tip' = Tip
  BY SameHead DEF Still
<1>2. OperationIsSound(d) /\ TypeInv
  BY DEF ArchiveInv, OperationsAreSound, OperationIsSound
<1>3. QED
  BY <1>1, <1>2, OperationStays

LEMMA VerifyBackupSound ==
  ASSUME ArchiveInv, NEW r \in Recordings, VerifyBackup(r)
  PROVE  ArchiveInv'
<1>1. /\ UNCHANGED <<commits, bucket, lost, generation, attempts, manifest, tombstones, outbox, op, pull,
                     backend, published>>
      /\ complete' = complete \cup {r} /\ published[r] = generation[r]
  BY DEF VerifyBackup, remoteState
<1>2. TypeInv'
  BY <1>1 DEF ArchiveInv, TypeInv, RemoteType, JobType, LocalType
<1>3. Tip' = Tip /\ \A key : Kept(key) <=> Kept(key)'
  BY <1>1, SameHead DEF Kept, Pushed
<1>4. \A q \in Recordings : Undisturbed(q)
  BY <1>1, <1>3 DEF Undisturbed, Audible
<1>5. OperationsAreSound'
  BY <1>1, <1>2, <1>4, EverybodyStays
<1>6. TipIsSound' /\ JobsAreSound'
  BY <1>1, <1>3 DEF ArchiveInv, TipIsSound, JobsAreSound
<1>7. AudioIsKnown'
  BY <1>1, <1>3 DEF ArchiveInv, AudioIsKnown, Attempted
<1>8. AttemptReplacesNothing' /\ PublishedIsKept'
  BY <1>1, <1>3 DEF ArchiveInv, AttemptReplacesNothing, PublishedIsKept, Attempt, Readable
<1>9. QED
  BY <1>2, <1>5, <1>6, <1>7, <1>8 DEF ArchiveInv

LEMMA ReprocessSound ==
  ASSUME ArchiveInv, NEW r \in Recordings, Reprocess(r)
  PROVE  ArchiveInv'
<1>1. /\ UNCHANGED <<commits, bucket, lost, attempts, manifest, tombstones, outbox, op, pull>>
      /\ complete' = complete \ {r} /\ r \in complete /\ generation[r] < MaxGeneration
      /\ generation' = [generation EXCEPT ![r] = generation[r] + 1]
  BY DEF Reprocess, remoteState
<1>2. TypeInv /\ generation \in [Recordings -> Generations] /\ generation[r] \in 1 .. MaxGeneration
  BY AttemptIs DEF ArchiveInv, TypeInv, JobType
<1>3. /\ generation' \in [Recordings -> Generations] /\ generation'[r] = generation[r] + 1
      /\ \A q \in Recordings : q # r => generation'[q] = generation[q]
  BY <1>1, <1>2, ArchiveAssumption DEF Generations
<1>4. /\ backend' \in [Recordings -> {"remote", "local"}]
      /\ published' \in [Recordings -> 0 .. MaxGeneration]
      /\ \A q \in Recordings : q # r => backend'[q] = backend[q] /\ published'[q] = published[q]
      /\ (backend'[r] = backend[r] /\ published'[r] = published[r]) \/ published'[r] = 0
  <2>1. backend \in [Recordings -> {"remote", "local"}] /\ published \in [Recordings -> 0 .. MaxGeneration]
    BY <1>2 DEF TypeInv, JobType
  <2>2. CASE UNCHANGED <<backend, published>>
    BY <2>1, <2>2
  <2>3. CASE backend' = [backend EXCEPT ![r] = "remote"] /\ published' = [published EXCEPT ![r] = 0]
    BY <2>1, <2>3, ArchiveAssumption
  <2>4. QED
    BY <2>2, <2>3 DEF Reprocess
<1>5. TypeInv'
  BY <1>1, <1>2, <1>3, <1>4 DEF TypeInv, RemoteType, JobType, LocalType
<1>6. Tip' = Tip /\ \A key : Kept(key) <=> Kept(key)'
  BY <1>1, SameHead DEF Kept, Pushed
<1>7. \A q \in Recordings : q # r => Undisturbed(q)
  BY <1>1, <1>3, <1>4, <1>6 DEF Undisturbed, Audible
<1>8. \A d \in Devices : op[d].pc \in PublishPcs => op[d].recording # r
  BY <1>1, PublicationIs
<1>9. OperationsAreSound'
  BY <1>1, <1>5, <1>7, <1>8, EverybodyStays
<1>10. TipIsSound'
  BY <1>6 DEF ArchiveInv, TipIsSound
<1>11. JobsAreSound'
  <2>1. ASSUME NEW q \in Recordings, NEW g \in Generations, g > generation'[q]
        PROVE  attempts'[q][g] = NoKey
    <3>1. g > generation[q]
      BY <1>2, <1>3, <2>1, ArchiveAssumption DEF Generations
    <3>2. QED
      BY <1>1, <3>1 DEF ArchiveInv, JobsAreSound
  <2>2. \A q \in complete' : published'[q] = generation'[q]
    BY <1>1, <1>2, <1>3, <1>4 DEF ArchiveInv, JobsAreSound, TypeInv, JobType
  <2>3. QED
    BY <1>1, <2>1, <2>2 DEF ArchiveInv, JobsAreSound
<1>12. AudioIsKnown'
  BY <1>1, <1>6 DEF ArchiveInv, AudioIsKnown, Attempted
<1>13. AttemptReplacesNothing'
  <2>1. Attempt(r)' = NoKey
    <3>1. generation'[r] \in Generations /\ generation'[r] > generation[r]
      BY <1>2, <1>3, ArchiveAssumption
    <3>2. QED
      BY <1>1, <3>1 DEF ArchiveInv, JobsAreSound, Attempt
  <2>2. ASSUME NEW q \in Recordings, q # r
        PROVE  Attempt(q)' = Attempt(q)
    BY <1>1, <1>3, <2>2 DEF Attempt
  <2>3. QED
    BY <1>1, <1>6, <2>1, <2>2 DEF ArchiveInv, AttemptReplacesNothing, Readable
<1>14. PublishedIsKept'
  BY <1>1, <1>4, <1>6 DEF ArchiveInv, PublishedIsKept
<1>15. QED
  BY <1>5, <1>9, <1>10, <1>11, <1>12, <1>13, <1>14 DEF ArchiveInv

LEMMA LoseSound ==
  ASSUME ArchiveInv, NEW key \in bucket, Lose(key)
  PROVE  ArchiveInv'
<1>1. /\ UNCHANGED <<commits, generation, attempts, manifest, tombstones, outbox, op, pull,
                     backend, published, complete>>
      /\ bucket' = bucket \ {key} /\ lost' = lost \cup {key}
  BY DEF Lose, localState, job
<1>2. TypeInv'
  BY <1>1 DEF ArchiveInv, TypeInv, RemoteType, JobType, LocalType
<1>3. Tip' = Tip /\ \A k : Kept(k) <=> Kept(k)'
  BY <1>1, SameHead DEF Kept, Pushed
<1>4. \A q \in Recordings : Undisturbed(q)
  BY <1>1, <1>3 DEF Undisturbed, Audible
<1>5. OperationsAreSound'
  BY <1>1, <1>2, <1>4, EverybodyStays
<1>6. TipIsSound' /\ JobsAreSound'
  BY <1>1, <1>3 DEF ArchiveInv, TipIsSound, JobsAreSound
<1>7. AudioIsKnown'
  BY <1>1, <1>3 DEF ArchiveInv, AudioIsKnown, Attempted
<1>8. AttemptReplacesNothing'
  BY <1>1, <1>3 DEF ArchiveInv, AttemptReplacesNothing, Attempt, Readable
<1>9. PublishedIsKept'
  BY <1>1, <1>3 DEF ArchiveInv, PublishedIsKept
<1>10. QED
  BY <1>2, <1>5, <1>6, <1>7, <1>8, <1>9 DEF ArchiveInv

------------------------
(* What moves the head, and what a delete does after it. *)

LEMMA NewHead ==
  ASSUME TypeInv, NEW new \in Snapshot, commits' = Append(commits, new)
  PROVE  /\ commits' \in Seq(Snapshot) /\ commits' # <<>>
         /\ Len(commits') = Len(commits) + 1 /\ Tip' = new /\ Grows
<1>1. commits \in Seq(Snapshot) /\ Len(commits) \in Nat
  BY DEF TypeInv, RemoteType
<1>2. commits' \in Seq(Snapshot) /\ Len(commits') = Len(commits) + 1 /\ commits' # <<>>
  BY <1>1
<1>3. commits'[Len(commits')] = new
  BY <1>1, <1>2
<1>4. \A i \in 1 .. Len(commits) : commits'[i] = commits[i]
  BY <1>1
<1>5. QED
  BY <1>1, <1>2, <1>3, <1>4 DEF Tip, Grows

\* The head a publication pushes, entry by entry.
Pushing(d) == [Tip EXCEPT !.manifest = op[d].manifest, !.notes = @ \cup {op[d].recording}]

IsPublication(d, r, new) ==
    /\ new \in Snapshot /\ new.tombstones = Tip.tombstones /\ new.notes = Tip.notes \cup {r}
    /\ Readable(Tip) /\ r \in Recordings /\ r \notin Tip.tombstones
    /\ Tip.manifest[r].generation < generation[r]
    /\ new.manifest[r] = op[d].entry /\ new.manifest[r].generation = generation[r]
    /\ new.manifest[r].key \in KeyOf(r) \ {NoKey} /\ new.manifest[r] # NoEntry
    /\ \A q \in Recordings : Tip.manifest[q] # NoEntry =>
         /\ new.manifest[q] # NoEntry
         /\ new.manifest[q].generation >= Tip.manifest[q].generation
         /\ Tip.manifest[q].name \in {None, new.manifest[q].name}
         /\ q # r => /\ new.manifest[q].key = Tip.manifest[q].key
                     /\ new.manifest[q].generation = Tip.manifest[q].generation

LEMMA PublicationPushed ==
  ASSUME ArchiveInv, NEW d \in Devices, op[d].pc = "commit", op[d].head = Len(commits)
  PROVE  IsPublication(d, op[d].recording, Pushing(d))
<1> PICK r, new : r = op[d].recording /\ new = [Tip EXCEPT !.manifest = op[d].manifest, !.notes = @ \cup {r}]
  OBVIOUS
<1>1. op[d].pc \in PublishPcs /\ op[d].pc \in PreparedPcs
  BY DEF PublishPcs, PreparedPcs
<1>2. r \in Recordings /\ TypeInv /\ PreparedFrom(d)
  BY <1>1, PublicationIs, Unchanged DEF ArchiveInv, OperationsAreSound
<1>3. Tip \in Snapshot /\ op[d].manifest \in Manifest /\ Fetched(d) = Tip
  BY <1>2, TipIs, Fields DEF TypeInv, Fetched, Tip
<1>4. /\ new \in Snapshot /\ new.tombstones = Tip.tombstones /\ new.notes = Tip.notes \cup {r}
      /\ new.manifest = op[d].manifest
  BY <1>2, <1>3 DEF Snapshot
<1>5. new.manifest[r].key \in KeyOf(r) /\ generation[r] \in 1 .. MaxGeneration
  BY <1>2, <1>3, <1>4, ManifestAt, EntryFields, AttemptIs DEF TypeInv
<1>6. ASSUME NEW q \in Recordings, Tip.manifest[q] # NoEntry
      PROVE  /\ new.manifest[q].generation >= Tip.manifest[q].generation
             /\ new.manifest[q] # NoEntry
  <2>1. Tip.manifest[q].generation > 0 /\ Tip.manifest[q].generation \in 0 .. MaxGeneration
    BY <1>3, <1>6, ManifestAt, EntryFields DEF Snapshot
  <2>2. new.manifest[q].generation >= Tip.manifest[q].generation /\ new.manifest[q].generation \in 0 .. MaxGeneration
    BY <1>1, <1>2, <1>3, <1>4, <1>6, ManifestAt, EntryFields DEF PreparedFrom
  <2>3. QED
    BY <2>1, <2>2, ArchiveAssumption DEF NoEntry
<1>7. new.manifest[r] # NoEntry
  BY <1>1, <1>2, <1>4, <1>5, ArchiveAssumption DEF PreparedFrom, NoEntry
<1>8. QED
  <2>1. IsPublication(d, r, new)
    BY <1>1, <1>2, <1>3, <1>4, <1>5, <1>6, <1>7, ZenonT(40) DEF PreparedFrom, IsPublication
  <2>2. new = Pushing(d)
    BY DEF Pushing
  <2>3. QED
    BY <2>1, <2>2, SMTT(30)

LEMMA CommitPublicationSound ==
  ASSUME ArchiveInv, NEW d \in Devices, CommitPublication(d)
  PROVE  ArchiveInv'
<1> PICK r, key : r = op[d].recording /\ key = op[d].entry.key
  OBVIOUS
<1>1. op[d].pc = "commit" /\ op[d].pc \in PublishPcs /\ op[d].pc \in PreparedPcs
  BY DEF CommitPublication, PublishPcs, PreparedPcs
<1>2. r \in Recordings /\ Owner[r] = d /\ TypeInv /\ published[r] < generation[r]
  BY <1>1, PublicationIs, Unchanged
<1>3. UNCHANGED <<bucket, lost, generation, attempts, manifest, tombstones, outbox, backend, published,
                  complete, pull>>
  BY DEF CommitPublication, localState, job
<1>4. CASE Retry(d) /\ UNCHANGED commits
  BY <1>1, <1>3, <1>4, StartsOver
<1>5. CASE /\ op[d].head = Len(commits)
           /\ commits' = Append(commits, [Fetched(d) EXCEPT !.manifest = op[d].manifest,
                                                            !.notes = @ \cup {r}])
           /\ Step(d, "clear")
  <2> PICK new : new = Pushing(d)
    OBVIOUS
  <2>1. commits' = Append(commits, new) /\ Fetched(d) = Tip
    BY <1>5 DEF Fetched, Tip, Pushing
  <2>2. /\ new \in Snapshot /\ new.tombstones = Tip.tombstones /\ new.notes = Tip.notes \cup {r}
        /\ Readable(Tip) /\ r \notin Tip.tombstones
        /\ new.manifest[r] = op[d].entry /\ new.manifest[r].generation = generation[r]
        /\ new.manifest[r].key \in KeyOf(r) \ {NoKey} /\ new.manifest[r] # NoEntry
        /\ \A q \in Recordings : Tip.manifest[q] # NoEntry =>
             /\ new.manifest[q] # NoEntry
             /\ q # r => /\ new.manifest[q].key = Tip.manifest[q].key
                         /\ new.manifest[q].generation = Tip.manifest[q].generation
    <3>1. IsPublication(d, r, new)
      BY <1>1, <1>5, PublicationPushed
    <3>2. QED
      BY <3>1 DEF IsPublication
  <2>3. commits' \in Seq(Snapshot) /\ commits' # <<>> /\ Tip' = new /\ Grows
        /\ Len(commits') = Len(commits) + 1
    BY <1>2, <2>1, <2>2, NewHead
  <2>4. PICK x \in Operation :
          /\ Becomes(d, x)
          /\ x.pc = "clear" /\ x.recording = r /\ x.head = op[d].head
          /\ x.entry = op[d].entry /\ x.manifest = op[d].manifest /\ x.reuse = op[d].reuse
    BY <1>2, <1>5, OpSteps DEF PublishPcs
  <2>5. op' \in [Devices -> Operation] /\ op'[d] = x /\ \A e \in Devices : e # d => op'[e] = op[e]
    BY <1>2, <2>4, OpMoves
  <2>6. TypeInv'
    <3>1. \A e \in Devices : pull'[e] <= Len(commits')
      <4>1. \A e \in Devices : pull[e] \in Nat /\ pull[e] <= Len(commits)
        BY <1>2 DEF TypeInv, LocalType
      <4>2. Len(commits) \in Nat
        BY <1>2, TipIs DEF TypeInv
      <4>3. QED
        BY <1>3, <2>3, <4>1, <4>2
    <3>2. QED
      BY <1>2, <1>3, <2>3, <2>5, <3>1 DEF TypeInv, RemoteType, JobType, LocalType
  <2>7. AttemptFits(d)
    BY DEF ArchiveInv, OperationsAreSound
  \* what replaces r's former entry names the same object, or the former one is gone
  <2>8. Tip.manifest[r].key \in bucket => Tip.manifest[r].key = key
    <3>1. op[d].reuse => key = Tip.manifest[r].key
      BY <1>1, <2>1, <2>7 DEF AttemptFits
    <3>2. ~op[d].reuse => Attempt(r) = key
      BY <1>1, <2>7 DEF AttemptFits
    <3>3. key # NoKey /\ NoKey \notin bucket
      BY <1>2, <2>2, TipKeyIs
    <3>4. QED
      BY <1>2, <2>2, <3>1, <3>2, <3>3 DEF ArchiveInv, AttemptReplacesNothing
  <2>9. ASSUME NEW q \in Recordings, q # r
        PROVE  /\ Tip.manifest[q].key # NoKey => /\ new.manifest[q].key = Tip.manifest[q].key
                                                 /\ new.manifest[q].generation = Tip.manifest[q].generation
               /\ Readable(new) => new.manifest[q].key \in {NoKey, Tip.manifest[q].key}
    <3>1. Tip.manifest[q].key # NoKey => Tip.manifest[q] # NoEntry
      BY <1>2, TipKeyIs
    <3>2. CASE Tip.manifest[q] = NoEntry
      <4>1. q \notin Tip.notes
        BY <3>2 DEF ArchiveInv, TipIsSound
      <4>2. Readable(new) => new.manifest[q] = NoEntry
        BY <2>2, <2>9, <4>1 DEF Readable
      <4>3. QED
        BY <3>1, <3>2, <4>2 DEF NoEntry
    <3>3. CASE Tip.manifest[q] # NoEntry
      BY <2>2, <2>9, <3>3
    <3>4. QED
      BY <3>2, <3>3
  <2>10. \A e \in Devices : e # d => Still(e)
    BY <1>3, <2>5 DEF Still
  <2>11. ASSUME NEW e \in Devices, NEW k, Pushed(e, k)
         PROVE  Pushed(e, k)'
    BY <1>3, <2>2, <2>3, <2>4, <2>5, <2>11 DEF Pushed
  <2>12. ASSUME NEW k \in bucket, Kept(k)
         PROVE  Kept(k)'
    <3> PICK q \in Recordings : q = k[1]
      BY <1>2, KeysAreKeys DEF TypeInv, RemoteType
    <3>1. CASE Tip.manifest[q].key = k
      <4>1. k # NoKey
        BY <1>2, TipKeyIs
      <4>2. CASE q = r
        BY <2>2, <2>3, <2>8, <3>1, <4>2 DEF Kept
      <4>3. CASE q # r
        BY <2>3, <2>9, <3>1, <4>1, <4>3 DEF Kept
      <4>4. QED
        BY <4>2, <4>3
    <3>2. CASE \E e \in Devices : Pushed(e, k)
      BY <2>11, <3>2 DEF Kept
    <3>3. QED
      BY <2>12, <3>1, <3>2 DEF Kept
  <2>13. ASSUME NEW q \in Recordings, q # r
         PROVE  Undisturbed(q)
    <3>1. Tip.manifest[q] # NoEntry =>
            new.manifest[q].key = Tip.manifest[q].key /\ new.manifest[q].generation = Tip.manifest[q].generation
      BY <2>2, <2>13
    <3>2. Readable(new) => new.manifest[q].key \in {NoKey, Tip.manifest[q].key}
      BY <2>9, <2>13
    <3>3. QED
      BY <1>3, <2>2, <2>3, <2>12, <3>1, <3>2 DEF Undisturbed, Audible
  <2>14. OperationIsSound(d)'
    <3>1. key[1] = r /\ key \in KeyOf(r) \ {NoKey}
      BY <1>2, <2>2, KeyOfOne
    <3>2. Kept(key)'
      BY <2>2, <2>3, <3>1 DEF Kept
    <3>3. Attempt(r)' = Attempt(r) /\ Audible(key)' = Audible(key)
      BY <1>3, SMTT(30) DEF Attempt, Audible
    <3>4. InTheHead(d)'
      BY <1>1, <1>3, <2>2, <2>3, <2>4, <2>5, <2>7, <3>1, <3>2, <3>3
         DEF InTheHead, AttemptFits, Audible
    <3>5. QED
      BY <1>2, <1>3, <2>4, <2>5, <3>4
         DEF OperationIsSound, Publishing, PreparedFrom, AttemptFits, Cleaning, Editing, PreparedPcs
  <2>15. OperationsAreSound'
    <3>1. \A e \in Devices : e # d => OperationIsSound(e)'
      BY <1>2, <2>2, <2>3, <2>6, <2>10, <2>13, OthersStay DEF ArchiveInv
    <3>2. QED
      BY <2>14, <3>1 DEF OperationsAreSound, OperationIsSound
  <2>16. TipIsSound'
    BY <1>2, <2>2, <2>3, TipIs DEF ArchiveInv, TipIsSound, TypeInv
  <2>17. JobsAreSound'
    BY <1>3 DEF ArchiveInv, JobsAreSound
  <2>18. AudioIsKnown'
    BY <1>3, <2>12 DEF ArchiveInv, AudioIsKnown, Attempted
  <2>19. AttemptReplacesNothing'
    <3> SUFFICES ASSUME Readable(new), NEW q \in Recordings,
                        Attempt(q) # NoKey, new.manifest[q].key \notin {NoKey, Attempt(q)}
                 PROVE  new.manifest[q].key \notin bucket
      BY <1>3, <2>3 DEF AttemptReplacesNothing, Readable, Attempt
    <3>1. q # r
      BY <1>1, <2>2, <2>7 DEF AttemptFits
    <3>2. QED
      BY <2>2, <2>9, <3>1 DEF ArchiveInv, AttemptReplacesNothing
  <2>20. PublishedIsKept'
    <3> SUFFICES ASSUME NEW q \in Recordings, backend[q] = "remote", published[q] # 0, q \notin Tip.tombstones
                 PROVE  /\ new.manifest[q].generation >= published[q]
                        /\ new.manifest[q].key \in bucket \cup lost
      BY <1>3, <2>2, <2>3 DEF PublishedIsKept
    <3>1. CASE q = r
      <4>1. Audible(key)
        BY <1>1, <2>2, <2>7 DEF AttemptFits
      <4>2. generation[r] \in Nat /\ published[r] \in Nat
        BY <1>2, AttemptIs, ArchiveAssumption DEF TypeInv, JobType
      <4>3. QED
        BY <1>2, <2>2, <3>1, <4>1, <4>2 DEF Audible
    <3>2. CASE q # r
      <4>1. Tip.manifest[q].generation >= published[q] /\ Tip.manifest[q].key \in bucket \cup lost
        BY DEF ArchiveInv, PublishedIsKept
      <4>2. QED
        BY <1>2, <2>9, <3>2, <4>1, TipKeyIs
    <3>3. QED
      BY <3>1, <3>2
  <2>21. QED
    BY <2>6, <2>15, <2>16, <2>17, <2>18, <2>19, <2>20 DEF ArchiveInv
<1>6. QED
  BY <1>4, <1>5 DEF CommitPublication

LEMMA PushEditCommits ==
  ASSUME ArchiveInv, NEW d \in Devices, op[d].pc = "push", op[d].head = Len(commits),
         commits' = Append(commits, Edited(Head(outbox[d]), Fetched(d))), Step(d, "finish"),
         UNCHANGED <<bucket, lost, generation, attempts, manifest, tombstones, outbox, backend, published,
                     complete, pull>>
  PROVE  ArchiveInv'
<1> PICK ticket : ticket = Head(outbox[d])
  OBVIOUS
<1> PICK r : r = ticket.recording
  OBVIOUS
<1>1. TypeInv /\ Fetched(d) = Tip
  BY Unchanged DEF Fetched, Tip
<1>2. outbox[d] # <<>> /\ Readable(Tip) /\ ~Conflicts(ticket, Tip)
  BY <1>1 DEF ArchiveInv, OperationsAreSound, Editing
<1>3. ticket \in Ticket /\ r \in Recordings /\ Tip \in Snapshot /\ ticket.kind \in {"name", "delete"}
  BY <1>1, <1>2, HeadTicket, TipIs DEF TypeInv
<1> PICK new : new = Edited(ticket, Tip)
  BY SMTT(30)
<1>4. /\ new \in Snapshot
      /\ \A q \in Recordings : q # r => new.manifest[q] = Tip.manifest[q]
      /\ ticket.kind = "name" =>
           /\ Tip.manifest[r] # NoEntry /\ new.manifest[r] # NoEntry
           /\ new.manifest[r].generation = Tip.manifest[r].generation
           /\ new.manifest[r].key = Tip.manifest[r].key
           /\ new.notes = Tip.notes /\ new.tombstones = Tip.tombstones
      /\ ticket.kind = "delete" =>
           /\ Tip.manifest[r] \in {NoEntry, ticket.base} /\ new.manifest[r] = NoEntry
           /\ new.notes = Tip.notes \ {r} /\ new.tombstones = Tip.tombstones \cup {r}
  BY <1>2, <1>3, EditedIs, SMTT(30)
<1>5. /\ commits' \in Seq(Snapshot) /\ commits' # <<>> /\ Tip' = new /\ Grows
      /\ Len(commits') = Len(commits) + 1
  BY <1>1, <1>4, NewHead
<1>6. PICK x \in Operation : Becomes(d, x) /\ x.pc = "finish"
  BY <1>1, OpSteps DEF EditPcs
<1>7. op' \in [Devices -> Operation] /\ op'[d] = x /\ \A e \in Devices : e # d => op'[e] = op[e]
  BY <1>1, <1>6, OpMoves
<1>8. TypeInv'
  <2>1. \A e \in Devices : pull[e] \in Nat /\ pull[e] <= Len(commits)
    BY <1>1 DEF TypeInv, LocalType
  <2>2. Len(commits) \in Nat
    BY <1>1, TipIs DEF TypeInv
  <2>3. \A e \in Devices : pull'[e] <= Len(commits')
    BY <1>5, <2>1, <2>2, SMTT(30)
  <2>4. QED
    BY <1>1, <1>5, <1>7, <2>3 DEF TypeInv, RemoteType, JobType, LocalType
<1>9. Tip.tombstones \subseteq Tip'.tombstones
  BY <1>3, <1>4, <1>5, SMTT(30)
\* an entry keeps its audio, or goes with its delete
<1>10. ASSUME NEW q \in Recordings
       PROVE  /\ new.manifest[q].key \in {NoKey, Tip.manifest[q].key}
              /\ \/ /\ new.manifest[q].key = Tip.manifest[q].key
                    /\ new.manifest[q].generation = Tip.manifest[q].generation
                    /\ Tip.manifest[q] # NoEntry => new.manifest[q] # NoEntry
                 \/ ticket.kind = "delete" /\ q = r /\ q \in new.tombstones
  BY <1>3, <1>4 DEF NoEntry
<1>11. ASSUME NEW k \in bucket, Kept(k)
       PROVE  Kept(k)'
  <2> PICK q \in Recordings : q = k[1]
    BY <1>1, KeysAreKeys DEF TypeInv, RemoteType
  <2>1. CASE Tip.manifest[q].key = k /\ new.manifest[q].key = Tip.manifest[q].key
    BY <1>5, <2>1 DEF Kept
  <2>2. CASE Tip.manifest[q].key = k /\ ticket.kind = "delete" /\ q = r
    <3>1. Tip.manifest[q] # NoEntry
      BY <1>1, <2>2, TipKeyIs DEF NoEntry
    <3>2. ticket.base.key = k /\ r \in new.tombstones
      BY <1>4, <2>2, <3>1
    <3>3. Pushed(d, k)'
      BY <1>2, <1>5, <1>6, <1>7, <2>2, <3>2 DEF Pushed
    <3>4. QED
      BY <3>3 DEF Kept
  <2>3. CASE \E e \in Devices : Pushed(e, k)
    <3>1. PICK e \in Devices : Pushed(e, k)
      BY <2>3
    <3>2. e # d
      BY <3>1 DEF Pushed
    <3>3. Pushed(e, k)'
      BY <1>7, <1>9, <3>1, <3>2 DEF Pushed
    <3>4. QED
      BY <3>3 DEF Kept
  <2>4. QED
    BY <1>10, <1>11, <2>1, <2>2, <2>3 DEF Kept
<1>12. \A q \in Recordings : Undisturbed(q)
  BY <1>2, <1>5, <1>10, <1>11 DEF Undisturbed, Audible
<1>13. OperationIsSound(d)'
  <2>1. Editing(d)'
    BY <1>2, <1>3, <1>4, <1>5, <1>6, <1>7 DEF Editing
  <2>2. QED
    BY <1>6, <1>7, <2>1, SMTT(30)
       DEF OperationIsSound, Publishing, PreparedFrom, AttemptFits, InTheHead, Cleaning, PreparedPcs, PublishPcs
<1>14. OperationsAreSound'
  <2>1. \A e \in Devices : e # d => Still(e)
    BY <1>7 DEF Still
  <2>2. \A e \in Devices : e # d => OperationIsSound(e)'
    BY <1>1, <1>5, <1>8, <1>9, <1>12, <2>1, OthersStay, SMTT(30) DEF ArchiveInv
  <2>3. QED
    BY <1>13, <2>2 DEF OperationsAreSound, OperationIsSound
<1>15. TipIsSound'
  <2>1. Tip.notes \subseteq Recordings
    BY <1>3 DEF Snapshot
  <2>2. QED
    BY <1>3, <1>4, <1>5, <2>1 DEF ArchiveInv, TipIsSound
<1>16. JobsAreSound'
  BY DEF ArchiveInv, JobsAreSound
<1>17. AudioIsKnown'
  BY <1>11, SMTT(30) DEF ArchiveInv, AudioIsKnown, Attempted
<1>18. AttemptReplacesNothing'
  BY <1>2, <1>5, <1>10 DEF ArchiveInv, AttemptReplacesNothing, Attempt
<1>19. PublishedIsKept'
  <2> SUFFICES ASSUME NEW q \in Recordings, backend[q] = "remote", published[q] # 0, q \notin new.tombstones
               PROVE  /\ new.manifest[q].generation >= published[q]
                      /\ new.manifest[q].key \in bucket \cup lost
    BY <1>5 DEF PublishedIsKept
  <2>1. q \notin Tip.tombstones
    BY <1>5, <1>9
  <2>2. QED
    BY <1>10, <2>1 DEF ArchiveInv, PublishedIsKept
<1>20. QED
  BY <1>8, <1>14, <1>15, <1>16, <1>17, <1>18, <1>19 DEF ArchiveInv

LEMMA PushEditSound ==
  ASSUME ArchiveInv, NEW d \in Devices, PushEdit(d)
  PROVE  ArchiveInv'
<1>1. op[d].pc = "push" /\ outbox[d] # <<>>
  BY DEF PushEdit, ArchiveInv, OperationsAreSound, Editing
<1>2. UNCHANGED <<bucket, lost, generation, attempts, manifest, tombstones, backend, published, complete, pull>>
  BY DEF PushEdit, job
<1>3. CASE /\ op[d].head = Len(commits)
           /\ commits' = Append(commits, Edited(Head(outbox[d]), Fetched(d)))
           /\ Step(d, "finish") /\ UNCHANGED outbox
  BY <1>1, <1>2, <1>3, PushEditCommits
<1>4. CASE /\ op' = [op EXCEPT ![d].pc = "drain", ![d].tries = @ + 1]
           /\ UNCHANGED <<commits, outbox>>
  <2> PICK n : n = op[d].tries + 1
    OBVIOUS
  <2> DEFINE x == [op[d] EXCEPT !.pc = "drain", !.tries = n]
  <2>1. op[d] \in Operation /\ op \in [Devices -> Operation] /\ n \in Nat
    BY Unchanged, Fields DEF TypeInv, LocalType
  <2>2. x \in Operation /\ x.pc = "drain"
    BY <2>1 DEF Operation, EditPcs
  <2>3. Becomes(d, x)
    <3>1. [op EXCEPT ![d].pc = "drain"][d].tries = op[d].tries
      BY <2>1 DEF Operation
    <3>2. op' = [op EXCEPT ![d].pc = "drain", ![d].tries = n]
      BY <1>4, <3>1
    <3>3. QED
      BY <2>1, <3>2 DEF Becomes, Operation
  <2> HIDE DEF x
  <2>4. QED
    BY <1>2, <1>4, <2>2, <2>3, QueueQuiet, Unchanged
<1>5. CASE DropTicket(d) /\ UNCHANGED commits
  <2>1. \A key : ~Pushed(d, key)
    BY <1>1 DEF Pushed
  <2>2. QED
    BY <1>1, <1>2, <1>5, <2>1, TicketDropped, Unchanged
<1>6. QED
  BY <1>3, <1>4, <1>5 DEF PushEdit

LEMMA FinishEditSound ==
  ASSUME ArchiveInv, NEW d \in Devices, FinishEdit(d)
  PROVE  ArchiveInv'
<1> PICK ticket : ticket = Head(outbox[d])
  OBVIOUS
<1>1. op[d].pc = "finish" /\ outbox[d] # <<>> /\ TypeInv
  BY Unchanged DEF FinishEdit, ArchiveInv, OperationsAreSound, Editing
<1>2. UNCHANGED <<commits, lost, generation, attempts, manifest, tombstones, backend, published, complete, pull>>
  BY DEF FinishEdit, job
<1>3. CASE ticket.kind = "name" /\ DropTicket(d) /\ UNCHANGED bucket
  <2>1. \A key : ~Pushed(d, key)
    BY <1>3 DEF Pushed
  <2>2. QED
    BY <1>1, <1>2, <1>3, <2>1, TicketDropped, Unchanged
<1>4. CASE /\ ticket.kind = "delete" /\ bucket' = bucket \ {ticket.base.key}
           /\ Step(d, "local") /\ UNCHANGED outbox
  <2> PICK r, key : r = ticket.recording /\ key = ticket.base.key
    OBVIOUS
  <2>1. r \in Recordings /\ r \in Tip.tombstones /\ key \in KeyOf(r)
    BY <1>1, <1>4, HeadTicket, EntryFields DEF ArchiveInv, OperationsAreSound, Editing
  <2>2. PICK x \in Operation : Becomes(d, x) /\ x.pc = "local"
    BY <1>1, <1>4, OpSteps DEF EditPcs
  <2>3. op' \in [Devices -> Operation] /\ op'[d] = x /\ \A e \in Devices : e # d => op'[e] = op[e]
    BY <1>1, <2>2, OpMoves
  <2>4. TypeInv'
    BY <1>1, <1>2, <1>4, <2>3 DEF TypeInv, RemoteType, JobType, LocalType
  <2>5. Tip' = Tip /\ Grows /\ NoKey \notin bucket'
    <3>1. Tip' = Tip /\ Grows
      BY <1>2, SameHead
    <3>2. NoKey \notin bucket
      BY <1>1, <2>1, TipKeyIs
    <3>3. QED
      BY <1>4, <3>1, <3>2
  <2>6. \A e \in Devices : e # d => Still(e)
    BY <1>2, <1>4, <2>3 DEF Still
  <2>7. \A q \in Recordings : q # r => \A k \in KeyOf(q) : k \in bucket' <=> k \in bucket
    BY <1>1, <1>4, <2>1, <2>5, OnlyOwn
  <2>8. ASSUME NEW k \in bucket', Kept(k)
        PROVE  k \in bucket /\ Kept(k)'
    <3>1. ~Pushed(d, k)
      BY <1>4 DEF Pushed
    <3>2. QED
      BY <1>2, <1>4, <2>6, <2>8, <3>1, KeptStays
  <2>9. \A q \in Recordings : Undisturbed(q)
    BY <1>2, <1>4, <2>1, <2>5, <2>7, <2>8 DEF Undisturbed, Audible
  <2>10. OperationIsSound(d)'
    BY <1>1, <1>4, <2>2, <2>3
       DEF OperationIsSound, Publishing, PreparedFrom, AttemptFits, InTheHead, Cleaning, Editing,
           PreparedPcs, PublishPcs
  <2>11. OperationsAreSound'
    <3>1. \A e \in Devices : e # d => OperationIsSound(e)'
      BY <1>1, <2>4, <2>5, <2>6, <2>9, OthersStay DEF ArchiveInv
    <3>2. QED
      BY <2>10, <3>1 DEF OperationsAreSound, OperationIsSound
  <2>12. TipIsSound' /\ JobsAreSound'
    BY <1>2, <1>4, <2>5 DEF ArchiveInv, TipIsSound, JobsAreSound
  <2>13. AudioIsKnown'
    BY <1>2, <1>4, <2>8 DEF ArchiveInv, AudioIsKnown, Attempted
  <2>14. AttemptReplacesNothing'
    BY <1>2, <1>4, <2>5 DEF ArchiveInv, AttemptReplacesNothing, Attempt, Readable
  <2>15. PublishedIsKept'
    <3> SUFFICES ASSUME NEW q \in Recordings, backend[q] = "remote", published[q] # 0, q \notin Tip.tombstones
                 PROVE  /\ Tip.manifest[q].generation >= published[q]
                        /\ Tip.manifest[q].key \in bucket' \cup lost
      BY <1>2, <2>5 DEF PublishedIsKept
    <3>1. Tip.manifest[q].key \in KeyOf(q) /\ q # r
      BY <1>1, <2>1, TipKeyIs
    <3>2. QED
      BY <2>7, <3>1 DEF ArchiveInv, PublishedIsKept
  <2>16. QED
    BY <2>4, <2>11, <2>12, <2>13, <2>14, <2>15 DEF ArchiveInv
<1>5. QED
  BY <1>3, <1>4 DEF FinishEdit, DeleteObject

------------------------
(* The theorems. *)

LEMMA PublishSteps ==
  ASSUME ArchiveInv, NEW d \in Devices, PublishStep(d)
  PROVE  ArchiveInv'
BY FetchSound, VerifyPublishedSound, ReuseAudioSound, BeginAttemptSound, PutSound,
   GuardSound,
   CommitPublicationSound, ClearAttemptSound, CleanupTombstonedSound DEF PublishStep

LEMMA EditSteps ==
  ASSUME ArchiveInv, NEW d \in Devices, EditStep(d)
  PROVE  ArchiveInv'
<1>1. CASE \/ ApplyName(d) \/ ResumeEdits(d) \/ PrepareEdit(d) \/ Drained(d) \/ PushEdit(d)
           \/ FinishEdit(d) \/ ApplyDelete(d)
  BY <1>1, ApplyNameSound, ResumeEditsSound, PrepareEditSound, ReleaseSound, PushEditSound,
     FinishEditSound, ApplyDeleteSound
<1>2. CASE \E r \in Recordings : StageDelete(d, r)
  BY <1>2, StageDeleteSound
<1>3. CASE \E r \in Recordings, name \in Names \cup {None} : StageName(d, r, name)
  BY <1>3, StageNameSound DEF AnyName
<1>4. QED
  BY <1>1, <1>2, <1>3 DEF EditStep

LEMMA ArchiveStutters ==
  ASSUME ArchiveInv, UNCHANGED vars
  PROVE  ArchiveInv'
<1>1. UNCHANGED <<commits, bucket, lost, generation, attempts, manifest, tombstones, outbox, op, pull,
                  backend, published, complete>>
  BY DEF vars, job
<1>2. TypeInv'
  BY <1>1 DEF ArchiveInv, TypeInv, RemoteType, JobType, LocalType
<1>3. Tip' = Tip /\ \A key : Kept(key) <=> Kept(key)'
  BY <1>1, SameHead DEF Kept, Pushed
<1>4. \A q \in Recordings : Undisturbed(q)
  BY <1>1, <1>3 DEF Undisturbed, Audible
<1>5. OperationsAreSound'
  BY <1>1, <1>2, <1>4, EverybodyStays
<1>6. TipIsSound' /\ JobsAreSound'
  BY <1>1, <1>3 DEF ArchiveInv, TipIsSound, JobsAreSound
<1>7. AudioIsKnown'
  BY <1>1, <1>3 DEF ArchiveInv, AudioIsKnown, Attempted
<1>8. AttemptReplacesNothing' /\ PublishedIsKept'
  BY <1>1, <1>3 DEF ArchiveInv, AttemptReplacesNothing, PublishedIsKept, Attempt, Readable
<1>9. QED
  BY <1>2, <1>5, <1>6, <1>7, <1>8 DEF ArchiveInv

LEMMA ArchiveSteps == ArchiveInv /\ [Next]_vars => ArchiveInv'
<1> SUFFICES ASSUME ArchiveInv, [Next]_vars PROVE ArchiveInv'
  OBVIOUS
<1>1. CASE \E r \in Recordings : Publish(r) \/ PublishLocalOnly(r) \/ VerifyBackup(r) \/ Reprocess(r)
  BY <1>1, PublishSound, PublishLocalOnlySound, VerifyBackupSound, ReprocessSound
<1>2. CASE \E key \in bucket : Lose(key)
  BY <1>2, LoseSound
<1>3. CASE \E d \in Devices : PublishStep(d) \/ EditStep(d) \/ Download(d) \/ Overlay(d) \/ Abandon(d)
  BY <1>3, PublishSteps, EditSteps, DownloadSound, OverlaySound, ReleaseSound
<1>4. CASE UNCHANGED vars
  BY <1>4, ArchiveStutters
<1>5. QED
  BY <1>1, <1>2, <1>3, <1>4 DEF Next

\* Nothing that a device does, or fails to do, in whatever order with the others,
\* leaves the head, the bucket, the attempt records and the running operations at odds.
THEOREM ArchiveInvariant == Spec => []ArchiveInv
<1>1. ArchiveInv /\ [Next]_vars => ArchiveInv'
  BY ArchiveSteps
<1>2. QED
  BY ArchiveInit, <1>1, PTL DEF Spec

\* No upload is forgotten: every object in the bucket is named by the head, by an
\* attempt record (begin_attempt) or by a staged delete (processing/archive.rs).
THEOREM AudioIsAccounted == Spec => []AudioIsAccountedFor
<1>1. ArchiveInv => AudioIsAccountedFor
  <2> SUFFICES ASSUME ArchiveInv, NEW key \in bucket
               PROVE  \/ Tip.manifest[key[1]].key = key
                      \/ \E g \in Generations : attempts[key[1]][g] = key
                      \/ \E d \in Devices : \E t \in Range(outbox[d]) : t.kind = "delete" /\ t.base.key = key
    BY DEF AudioIsAccountedFor
  <2>1. Kept(key) \/ Attempted(key)
    BY DEF ArchiveInv, AudioIsKnown
  <2>2. CASE \E d \in Devices : Pushed(d, key)
    <3>1. PICK d \in Devices : Pushed(d, key)
      BY <2>2
    <3>2. Head(outbox[d]) \in Range(outbox[d])
      BY <3>1, HeadTicket, Unchanged DEF Pushed
    <3>3. QED
      BY <3>1, <3>2 DEF Pushed
  <2>3. QED
    BY <2>1, <2>2 DEF Kept, Attempted
<1>2. QED
  BY ArchiveInvariant, <1>1, PTL

\* A publication once reported stays in the head, with its audio, until the
\* recording is deleted.
THEOREM PublishedStays == Spec => []PublishedIsKept
<1>1. ArchiveInv => PublishedIsKept
  BY DEF ArchiveInv
<1>2. QED
  BY ArchiveInvariant, <1>1, PTL

LEMMA WhoCommits ==
  ASSUME Next, commits' # commits
  PROVE  \E d \in Devices : CommitPublication(d) \/ PushEdit(d)
<1>1. \A r \in Recordings : ~(Publish(r) \/ PublishLocalOnly(r) \/ VerifyBackup(r) \/ Reprocess(r))
  BY DEF Publish, PublishLocalOnly, VerifyBackup, Reprocess, remoteState
<1>2. \A key \in bucket : ~Lose(key)
  BY DEF Lose
<1>3. \A d \in Devices : ~(Download(d) \/ Overlay(d) \/ Abandon(d))
  BY DEF Download, Overlay, Abandon, remoteState
<1>4. ASSUME NEW d \in Devices, PublishStep(d)
      PROVE  CommitPublication(d)
  BY <1>4
     DEF PublishStep, Fetch, VerifyPublished, ReuseAudio, BeginAttempt, Put, Guard,
         ClearAttempt,
              CleanupTombstoned, remoteState
<1>5. ASSUME NEW d \in Devices, EditStep(d)
      PROVE  PushEdit(d)
  BY <1>5
     DEF EditStep, ApplyName, ResumeEdits, PrepareEdit, Drained, FinishEdit, ApplyDelete,
              StageDelete, StageName, remoteState
<1>6. QED
  BY <1>1, <1>2, <1>3, <1>4, <1>5 DEF Next

LEMMA PublicationTakesNothing ==
  ASSUME ArchiveInv, NEW d \in Devices, CommitPublication(d), commits' # commits
  PROVE  TakesNothing
<1> PICK r, new : r = op[d].recording /\ new = Pushing(d)
  OBVIOUS
<1>1. op[d].pc = "commit" /\ op[d].head = Len(commits)
  BY DEF CommitPublication
<1>2. commits' = Append(commits, new)
  BY <1>1 DEF CommitPublication, Pushing, Fetched, Tip
<1>3. IsPublication(d, r, new)
  BY <1>1, PublicationPushed, SMTT(30)
<1>4. commits'[Len(commits')] = new
  BY <1>2, <1>3, NewHead, Unchanged DEF IsPublication, Tip
<1>5. QED
  BY <1>3, <1>4 DEF TakesNothing, IsPublication

LEMMA EditTakesNothing ==
  ASSUME ArchiveInv, NEW d \in Devices, PushEdit(d), commits' # commits
  PROVE  TakesNothing
<1> PICK ticket : ticket = Head(outbox[d])
  OBVIOUS
<1> PICK r : r = ticket.recording
  OBVIOUS
<1> PICK new : new = Edited(ticket, Tip)
  OBVIOUS
<1>1. op[d].pc = "push" /\ op[d].head = Len(commits) /\ Fetched(d) = Tip /\ TypeInv
  BY Unchanged DEF PushEdit, Fetched, Tip
<1>2. outbox[d] # <<>> /\ ~Conflicts(ticket, Tip)
  BY <1>1 DEF ArchiveInv, OperationsAreSound, Editing
<1>3. ticket \in Ticket /\ r \in Recordings /\ Tip \in Snapshot /\ ticket.kind \in {"name", "delete"}
  BY <1>1, <1>2, HeadTicket, TipIs DEF TypeInv
<1>4. /\ new \in Snapshot
      /\ \A q \in Recordings : q # r => new.manifest[q] = Tip.manifest[q]
      /\ ticket.kind = "name" =>
           /\ new.manifest[r] # NoEntry /\ new.manifest[r].generation = Tip.manifest[r].generation
           /\ new.manifest[r].name = ticket.name /\ new.tombstones = Tip.tombstones
      /\ ticket.kind = "delete" =>
           /\ Tip.manifest[r] \in {NoEntry, ticket.base} /\ new.manifest[r] = NoEntry
           /\ new.tombstones = Tip.tombstones \cup {r}
  BY <1>2, <1>3, EditedIs, SMTT(30)
<1>5. commits'[Len(commits')] = new
  BY <1>1, <1>4, NewHead DEF PushEdit, Tip
<1>6. Tip.tombstones \subseteq new.tombstones
  BY <1>3, <1>4
<1>7. ASSUME NEW q \in Recordings, Tip.manifest[q] # NoEntry
      PROVE  IF new.manifest[q] = NoEntry THEN Saw(d, "delete", q, Tip.manifest[q])
             ELSE /\ new.manifest[q].generation >= Tip.manifest[q].generation
                  /\ new.manifest[q].name # Tip.manifest[q].name /\ Tip.manifest[q].name # None =>
                       Saw(d, "name", q, Tip.manifest[q])
  <2>1. Tip.manifest[q].generation >= Tip.manifest[q].generation
    BY <1>1, TipKeyIs, ArchiveAssumption
  <2>2. CASE q # r
    BY <1>4, <1>7, <2>1, <2>2, SMTT(30)
  <2>3. CASE q = r /\ ticket.kind = "name"
    <3>1. Tip.manifest[q].name \in {ticket.base.name, ticket.name}
      BY <1>2, <2>3 DEF Conflicts
    <3>2. QED
      BY <1>1, <1>4, <2>1, <2>3, <3>1, SMTT(30) DEF Saw
  <2>4. CASE q = r /\ ticket.kind = "delete"
    BY <1>1, <1>4, <1>7, <2>4 DEF Saw
  <2>5. QED
    BY <1>3, <2>2, <2>3, <2>4
<1>8. QED
  BY <1>5, <1>6, <1>7 DEF TakesNothing

\* A commit takes nothing from a concurrent one (publish_github_at_head and
\* prepare_native_edit, under the branch's compare-and-swap).
THEOREM CommitsKeep == Spec => CommitsTakeNothing
<1>1. ArchiveInv /\ [Next]_vars => [TakesNothing]_vars
  <2> SUFFICES ASSUME ArchiveInv, Next PROVE TakesNothing
    OBVIOUS
  <2>1. CASE commits' = commits
    BY <2>1 DEF TakesNothing
  <2>2. CASE commits' # commits
    BY <2>2, WhoCommits, PublicationTakesNothing, EditTakesNothing
  <2>3. QED
    BY <2>1, <2>2
<1>2. QED
  BY ArchiveInvariant, <1>1, PTL DEF Spec, CommitsTakeNothing
=============================================================================
