------------------------- MODULE ArchivePublication -------------------------
(***************************************************************************)
(* Devices that publish recordings to one archive (processing/archive.rs,   *)
(* r2.rs, sync.rs, the edit commands of lib.rs).                            *)
(*                                                                         *)
(* The archive's authority is a GitHub branch moved by compare-and-swap; the *)
(* audio is in a bucket nothing ties to it.  Each device keeps a local copy, *)
(* a record of every upload it attempted and an outbox of the user's edits.  *)
(* One operation runs on a device at a time (its operation and process       *)
(* locks); it may end at any step by an error, a dropped call or a crash,    *)
(* with whatever it has changed so far.                                      *)
(***************************************************************************)
EXTENDS Naturals, Sequences, SequencesExt, FiniteSets

CONSTANTS
    Devices,
    Recordings,
    Owner,          \* the device that recorded it, and publishes it
    MaxGeneration,  \* bound: reprocesses of a recording
    MaxRetries,     \* MAX_GITHUB_RETRIES
    MaxStarts,      \* bound: operations started, over all devices
    MaxLosses,      \* bound: objects that vanish
    Names,          \* what a user may call a recording's speaker
    None,           \* no recording, no name
    Occupied        \* bucket keys a foreign object holds

\* A recording is made on one device, at generation 1.
ASSUME ArchiveAssumption ==
    /\ Owner \in [Recordings -> Devices]
    /\ MaxGeneration \in Nat \ {0}

Generations == 1..MaxGeneration

Keys == Recordings \X Generations \X {"primary", "fallback"}

NoKey == <<>>

NoEntry == [generation |-> 0, key |-> NoKey, name |-> None]

NoManifest == [r \in Recordings |-> NoEntry]

Idle == [pc |-> "idle", recording |-> None, head |-> 0, entry |-> NoEntry,
         manifest |-> NoManifest, reuse |-> FALSE, tries |-> 0]

VARIABLES
    commits,     \* the branch: every head it ever had
    bucket,      \* the objects this archive's devices have put
    generation,  \* the ledger's generation of a recording
    attempts,    \* r2-attempts/<recording>-g<generation>.json of its owner
    manifest,    \* each device's manifest.json
    tombstones,  \* each device's deleted-recordings file
    outbox,      \* each device's pending edits, oldest first
    op,          \* the operation that holds the device's locks
    pull,        \* the head a device's pull downloaded, 0 for none
    backend,     \* a job's PublicationBackend
    published,   \* the generation whose publication was last reported to the job
    complete,    \* jobs whose current generation's backup was verified
    lost,        \* objects that vanished from the bucket behind the program's back
    starts

job == <<backend, complete>>
vars == <<commits, bucket, generation, attempts, manifest, tombstones, outbox, op,
          pull, job, published, lost, starts>>

Init ==
    /\ commits = <<[manifest |-> NoManifest, notes |-> {}, tombstones |-> {}]>>
    /\ bucket = {}
    /\ generation = [r \in Recordings |-> 1]
    /\ attempts = [r \in Recordings |-> [g \in Generations |-> NoKey]]
    /\ manifest = [d \in Devices |-> NoManifest]
    /\ tombstones = [d \in Devices |-> {}]
    /\ outbox = [d \in Devices |-> <<>>]
    /\ op = [d \in Devices |-> Idle]
    /\ pull = [d \in Devices |-> 0]
    /\ backend \in [Recordings -> {"remote", "local"}]
    /\ published = [r \in Recordings |-> 0]
    /\ complete = {}
    /\ lost = {}
    /\ starts = 0

-----------------------------------------------------------------------------
(* The head and the local copy.                                             *)

Tip == commits[Len(commits)]

\* fetch_github_head fails on an entry whose note the tree does not hold.
Readable(snapshot) == \A r \in Recordings : snapshot.manifest[r] # NoEntry => r \in snapshot.notes

\* The head an operation has fetched.
Fetched(d) == commits[op[d].head]

\* reconcile_remote_publication: the head already names this generation.
AlreadyPublished(r) == Tip.manifest[r].generation = generation[r] /\ Tip.manifest[r].key # NoKey

Known(d, r) == manifest[d][r] # NoEntry

PendingDeletes(d) == {t.recording : t \in {u \in Range(outbox[d]) : u.kind = "delete"}}

Deleted(d, r, remote) ==
    r \in remote.tombstones \cup tombstones[d] \cup PendingDeletes(d)

\* A mutant: the local copy wins.
MergeManifests_LocalWins(remote, local) ==
    [r \in Recordings |-> IF local[r] = NoEntry THEN remote[r] ELSE local[r]]

\* The remote's entries win; what the remote lacks comes from the local copy.
MergeManifests(remote, local) ==
    [r \in Recordings |->
        IF remote[r] = NoEntry THEN local[r]
        ELSE [remote[r] EXCEPT !.name = IF @ = None THEN local[r].name ELSE @]]

KeyGeneration(key) == key[2]

\* The upload the owner recorded for the current generation.
Attempt(r) == attempts[r][generation[r]]

RecordAttempt(r, key) == attempts' = [attempts EXCEPT ![r][generation[r]] = key]

ForgetAttempt(r) == RecordAttempt(r, NoKey)

\* delete_owned_object: gone, or already missing.
DeleteObject(key) == bucket' = bucket \ {key}

\* A HEAD finds the object with its owner's hash and size.
Held(key) == key \in bucket

\* Where prepare_local wants the audio.  The hash of a recording's audio does
\* not change with its generation.
AudioKey(d, r, remote) ==
    LET local == manifest[d][r]
        tried == remote[r] = NoEntry /\ local.generation = generation[r] /\ local.key # NoKey
    IN
    IF Attempt(r) # NoKey THEN Attempt(r)
    ELSE IF remote[r].key # NoKey THEN remote[r].key
    ELSE IF tried /\ KeyGeneration(local.key) = generation[r] THEN local.key
    ELSE <<r, generation[r], "primary">>

\* prepare_local's manifest.
Prepared(d, r, remote) ==
    LET merged == MergeManifests(remote, manifest[d])
    IN  [merged EXCEPT ![r] = [generation |-> generation[r], key |-> AudioKey(d, r, remote),
                               name |-> @.name]]

Step(d, pc) == op' = [op EXCEPT ![d].pc = pc]

Release(d) == op' = [op EXCEPT ![d] = Idle]

Retry(d) ==
    IF op[d].tries + 1 < MaxRetries
    THEN op' = [op EXCEPT ![d] = [Idle EXCEPT !.pc = "fetch", !.recording = op[d].recording,
                                              !.tries = op[d].tries + 1]]
    ELSE Release(d)

Acquire(d, r, pc) ==
    /\ op[d] = Idle /\ starts < MaxStarts
    /\ starts' = starts + 1
    /\ op' = [op EXCEPT ![d] = [Idle EXCEPT !.pc = pc, !.recording = r]]

remoteState == <<commits, bucket, lost>>
localState == <<manifest, tombstones, outbox, job>>
-----------------------------------------------------------------------------
(* ArchiveAdapter::publish                                                  *)

Publish(r) ==
    /\ backend[r] = "remote" /\ published[r] < generation[r]
    /\ Acquire(Owner[r], r, "fetch")
    /\ UNCHANGED <<remoteState, generation, attempts, localState, pull, published>>

\* A job without credentials publishes to the local archive only.
PublishLocalOnly(r) ==
    LET d == Owner[r] IN
    /\ backend[r] = "local" /\ published[r] < generation[r]
    /\ op[d] = Idle /\ starts < MaxStarts
    /\ r \notin tombstones[d] \cup PendingDeletes(d)
    /\ starts' = starts + 1
    /\ manifest' = [manifest EXCEPT ![d][r] =
         [generation |-> generation[r], key |-> NoKey, name |-> @.name]]
    /\ published' = [published EXCEPT ![r] = generation[r]]
    /\ UNCHANGED <<remoteState, generation, attempts, tombstones, outbox, op, pull, job>>

\* The head is tombstoned, or already names this generation, or the next
\* manifest is written locally and the upload follows.
Fetch(d) ==
    LET r == op[d].recording
        remote == Tip.manifest
        next == Prepared(d, r, remote)
        reuse == Attempt(r) = NoKey /\ remote[r].key # NoKey
    IN
    /\ op[d].pc = "fetch" /\ Readable(Tip)
    /\ \/ /\ r \in Tip.tombstones
          /\ Step(d, "cleanup")
          /\ UNCHANGED manifest
       \/ /\ r \notin Tip.tombstones /\ AlreadyPublished(r)
          /\ op' = [op EXCEPT ![d].pc = "verify", ![d].entry = remote[r]]
          /\ UNCHANGED manifest
       \/ /\ remote[r].generation < generation[r]
          /\ ~Deleted(d, r, Tip)
          /\ manifest' = [manifest EXCEPT ![d] = next]
          /\ op' = [op EXCEPT ![d] =
               [@ EXCEPT !.pc = IF reuse THEN "reuse" ELSE "begin", !.head = Len(commits),
                         !.entry = next[r], !.manifest = next, !.reuse = reuse]]
    /\ UNCHANGED <<remoteState, generation, attempts, tombstones, outbox, pull, job, published, starts>>

\* Its object is there too; then finish_reconciled_r2_attempt.
VerifyPublished(d) ==
    LET r == op[d].recording IN
    /\ op[d].pc = "verify" /\ Held(op[d].entry.key)
    /\ IF Attempt(r) = op[d].entry.key THEN UNCHANGED bucket ELSE DeleteObject(Attempt(r))
    /\ ForgetAttempt(r)
    /\ published' = [published EXCEPT ![r] = generation[r]]
    /\ Release(d)
    /\ UNCHANGED <<commits, lost, generation, localState, pull, starts>>

\* The object a former generation's entry names is still there, or a
\* replacement is recorded and the loop starts over.
ReuseAudio(d) ==
    LET r == op[d].recording IN
    /\ op[d].pc = "reuse"
    /\ \/ /\ Held(op[d].entry.key)
          /\ Step(d, "guard")
          /\ UNCHANGED attempts
       \/ /\ ~Held(op[d].entry.key)
          /\ RecordAttempt(r, <<r, generation[r], "primary">>)
          /\ Retry(d)
    /\ UNCHANGED <<remoteState, generation, localState, pull, published, starts>>

\* A mutant: nothing is recorded before the upload.
BeginAttempt_Unrecorded(d) ==
    /\ op[d].pc = "begin"
    /\ Step(d, "put")
    /\ UNCHANGED <<remoteState, generation, attempts, localState, pull, published, starts>>

BeginAttempt(d) ==
    /\ op[d].pc = "begin"
    /\ RecordAttempt(op[d].recording, op[d].entry.key)
    /\ Step(d, "put")
    /\ UNCHANGED <<remoteState, generation, localState, pull, published, starts>>

\* checkpoint_r2_collision: the local entry remembers another key to try.
Collide(d, r) ==
    manifest' = [manifest EXCEPT ![d][r].key = <<r, generation[r], "fallback">>]

\* put_file_verified: the object is created if the key is free, found equal,
\* or found to be somebody else's.
Put(d) ==
    LET r == op[d].recording
        key == op[d].entry.key
    IN
    /\ op[d].pc = "put"
    /\ \/ /\ key \notin Occupied
          /\ bucket' = bucket \cup {key}
          /\ Step(d, "guard")
          /\ UNCHANGED <<attempts, manifest>>
       \/ /\ key \in Occupied
          /\ ForgetAttempt(r)
          /\ Collide(d, r)
          /\ Retry(d)
          /\ UNCHANGED bucket
    /\ UNCHANGED <<commits, lost, generation, tombstones, outbox, pull, job, published, starts>>

\* The Git authority is read again after the upload.
Guard(d) ==
    /\ op[d].pc = "guard" /\ Readable(Tip)
    /\ \/ /\ op[d].recording \in Tip.tombstones
          /\ Step(d, "cleanup")
       \/ /\ op[d].recording \notin Tip.tombstones
          /\ op[d].head # Len(commits)
          /\ Retry(d)
       \/ /\ op[d].head = Len(commits)
          /\ op[d].recording \notin Tip.tombstones
          /\ Step(d, "commit")
    /\ UNCHANGED <<remoteState, generation, attempts, localState, pull, published, starts>>

\* publish_github_at_head: the pushed tree is the fetched one with the new
\* manifest and the published recording's note.
CommitPublication(d) ==
    /\ op[d].pc = "commit"
    /\ \/ /\ op[d].head = Len(commits)
          /\ commits' = Append(commits, [Fetched(d) EXCEPT !.manifest = op[d].manifest,
                                                           !.notes = @ \cup {op[d].recording}])
          /\ Step(d, "clear")
       \/ /\ op[d].head # Len(commits)
          /\ Retry(d)
          /\ UNCHANGED commits
    /\ UNCHANGED <<bucket, lost, generation, attempts, localState, pull, published, starts>>

ClearAttempt(d) ==
    LET r == op[d].recording IN
    /\ op[d].pc = "clear"
    /\ IF op[d].reuse THEN UNCHANGED attempts ELSE ForgetAttempt(r)
    /\ published' = [published EXCEPT ![r] = generation[r]]
    /\ Release(d)
    /\ UNCHANGED <<remoteState, generation, localState, pull, starts>>

\* cleanup_tombstoned_audio: this generation's attempt, or what the local
\* entry of this generation names if the key is its own.
CleanupTombstoned(d) ==
    LET r == op[d].recording
        local == manifest[d][r]
        key == IF Attempt(r) # NoKey THEN Attempt(r)
               ELSE IF local.generation = generation[r] THEN local.key ELSE NoKey
    IN
    /\ op[d].pc = "cleanup"
    /\ key # NoKey => KeyGeneration(key) = generation[r]
    /\ DeleteObject(key)
    /\ ForgetAttempt(r)
    /\ Release(d)
    /\ UNCHANGED <<commits, lost, generation, localState, pull, published, starts>>

\* verify_backup and verify_local_backup, which read the local manifest.
VerifyBackup(r) ==
    LET entry == manifest[Owner[r]][r] IN
    /\ op[Owner[r]] = Idle
    /\ published[r] = generation[r] /\ entry.generation = generation[r]
    /\ IF backend[r] = "local" THEN entry.key = NoKey ELSE Held(entry.key)
    /\ complete' = complete \cup {r}
    /\ UNCHANGED <<remoteState, generation, attempts, manifest, tombstones, outbox, op, pull,
                   backend, published, starts>>

-----------------------------------------------------------------------------
(* Native edits: a ticket is staged, applied locally (a delete only after    *)
(* its commit), and drained to GitHub in order.                              *)

\* What the user sees of an entry when he edits it (archive_entry_snapshot,
\* plan_local_recording_delete).
Seen(d, r) == manifest[d][r]

Stage(d, kind, r, name) ==
    outbox' = [outbox EXCEPT ![d] =
         Append(@, [kind |-> kind, recording |-> r, base |-> Seen(d, r), name |-> name])]

StageName(d, r, name) ==
    /\ Known(d, r) /\ name # manifest[d][r].name
    /\ Acquire(d, r, "apply")
    /\ Stage(d, "name", r, name)
    /\ UNCHANGED <<remoteState, generation, attempts, manifest, tombstones, pull, job, published>>

StageDelete(d, r) ==
    /\ Known(d, r)
    /\ Acquire(d, r, "drain")
    /\ Stage(d, "delete", r, None)
    /\ UNCHANGED <<remoteState, generation, attempts, manifest, tombstones, pull, job, published>>

ApplyName(d) ==
    /\ op[d].pc = "apply"
    /\ manifest' = [manifest EXCEPT ![d][op[d].recording].name = Last(outbox[d]).name]
    /\ Step(d, "drain")
    /\ UNCHANGED <<remoteState, generation, attempts, tombstones, outbox, pull, job, published, starts>>

\* resume_pending_native_edits
ResumeEdits(d) ==
    /\ outbox[d] # <<>>
    /\ Acquire(d, None, "drain")
    /\ UNCHANGED <<remoteState, generation, attempts, localState, pull, published>>

\* A mutant: a delete is not fenced to the entry the user saw.
Conflicts_UnfencedDelete(ticket, remote) ==
    LET entry == remote.manifest[ticket.recording] IN
    /\ ticket.kind = "name"
    /\ entry = NoEntry \/ entry.name \notin {ticket.base.name, ticket.name}

\* prepare_native_edit's conflicts.
Conflicts(ticket, remote) ==
    LET entry == remote.manifest[ticket.recording] IN
    \/ /\ ticket.kind = "name"
       /\ \/ entry = NoEntry
          \/ entry.name \notin {ticket.base.name, ticket.name}
    \/ /\ ticket.kind = "delete"
       /\ entry \notin {NoEntry, ticket.base}

Edited(ticket, remote) ==
    IF ticket.kind = "name"
    THEN [remote EXCEPT !.manifest[ticket.recording].name = ticket.name]
    ELSE [manifest |-> [remote.manifest EXCEPT ![ticket.recording] = NoEntry],
          notes |-> remote.notes \ {ticket.recording},
          tombstones |-> remote.tombstones \cup {ticket.recording}]

\* The ticket leaves the queue: done, or quarantined as .conflict.json.
DropTicket(d) ==
    /\ outbox' = [outbox EXCEPT ![d] = Tail(@)]
    /\ op' = [op EXCEPT ![d] = [Idle EXCEPT !.pc = "drain"]]

\* The next ticket over a fresh head; a speaker edit leaves its result as the
\* local manifest before anything is pushed.
PrepareEdit(d) ==
    LET ticket == Head(outbox[d])
        edited == Edited(ticket, Tip)
    IN
    /\ op[d].pc = "drain" /\ outbox[d] # <<>> /\ Readable(Tip)
    /\ \/ Conflicts(ticket, Tip) /\ DropTicket(d) /\ UNCHANGED manifest
       \/ /\ ~Conflicts(ticket, Tip)
          /\ manifest' = IF ticket.kind = "name" THEN [manifest EXCEPT ![d] = edited.manifest]
                                                 ELSE manifest
          /\ op' = [op EXCEPT ![d].head = Len(commits),
                              ![d].pc = IF edited = Tip THEN "finish" ELSE "push"]
          /\ UNCHANGED outbox
    /\ UNCHANGED <<remoteState, generation, attempts, tombstones, pull, job, published, starts>>

Drained(d) ==
    /\ op[d].pc = "drain" /\ outbox[d] = <<>>
    /\ Release(d)
    /\ UNCHANGED <<remoteState, generation, attempts, localState, pull, published, starts>>

PushEdit(d) ==
    /\ op[d].pc = "push"
    /\ \/ /\ op[d].head = Len(commits)
          /\ commits' = Append(commits, Edited(Head(outbox[d]), Fetched(d)))
          /\ Step(d, "finish")
          /\ UNCHANGED outbox
       \/ /\ op[d].head # Len(commits) /\ op[d].tries + 1 < MaxRetries
          /\ op' = [op EXCEPT ![d].pc = "drain", ![d].tries = @ + 1]
          /\ UNCHANGED <<commits, outbox>>
       \/ /\ op[d].head # Len(commits) /\ op[d].tries + 1 = MaxRetries
          /\ DropTicket(d)
          /\ UNCHANGED commits
    /\ UNCHANGED <<bucket, lost, generation, attempts, manifest, tombstones, pull, job, published, starts>>

\* finish_native_edit_r2: a delete now deletes the object its entry named.
FinishEdit(d) ==
    LET ticket == Head(outbox[d]) IN
    /\ op[d].pc = "finish"
    /\ \/ /\ ticket.kind = "name"
          /\ DropTicket(d)
          /\ UNCHANGED bucket
       \/ /\ ticket.kind = "delete"
          /\ DeleteObject(ticket.base.key)
          /\ Step(d, "local")
          /\ UNCHANGED outbox
    /\ UNCHANGED <<commits, lost, generation, attempts, manifest, tombstones, pull, job, published, starts>>

\* apply_native_edit_locally of a delete; a local entry that is not the one the
\* user saw is a conflict, and stays.
ApplyDelete(d) ==
    LET r == Head(outbox[d]).recording IN
    /\ op[d].pc = "local"
    /\ IF manifest[d][r] \in {NoEntry, Head(outbox[d]).base}
       THEN /\ manifest' = [manifest EXCEPT ![d][r] = NoEntry]
            /\ tombstones' = [tombstones EXCEPT ![d] = @ \cup {r}]
       ELSE UNCHANGED <<manifest, tombstones>>
    /\ DropTicket(d)
    /\ UNCHANGED <<remoteState, generation, attempts, pull, job, published, starts>>

-----------------------------------------------------------------------------
(* sync::pull downloads without the lock and overlays under it; a user       *)
(* reprocesses; an operation ends early.                                     *)

Download(d) ==
    /\ pull[d] = 0 /\ starts < MaxStarts
    /\ pull' = [pull EXCEPT ![d] = Len(commits)]
    /\ starts' = starts + 1
    /\ UNCHANGED <<remoteState, generation, attempts, localState, op, published>>

Overlay(d) ==
    LET tree == commits[pull[d]] IN
    /\ pull[d] # 0
    /\ IF op[d] = Idle   \* otherwise "archive is busy", and the download is lost
       THEN /\ manifest' = [manifest EXCEPT ![d] = tree.manifest]
            /\ tombstones' = [tombstones EXCEPT ![d] =
                 IF tree.tombstones = {} THEN @ ELSE tree.tombstones]
       ELSE UNCHANGED <<manifest, tombstones>>
    /\ pull' = [pull EXCEPT ![d] = 0]
    /\ UNCHANGED <<remoteState, generation, attempts, outbox, op, job, published, starts>>

\* begin_reprocess and begin_remote_backup, from a complete job.
Reprocess(r) ==
    /\ r \in complete /\ generation[r] < MaxGeneration
    /\ generation' = [generation EXCEPT ![r] = @ + 1]
    /\ \/ UNCHANGED <<backend, published>>
       \/ /\ backend[r] = "local"
          /\ backend' = [backend EXCEPT ![r] = "remote"]
          /\ published' = [published EXCEPT ![r] = 0]
    /\ complete' = complete \ {r}
    /\ UNCHANGED <<remoteState, attempts, manifest, tombstones, outbox, op, pull, starts>>

\* Somebody deletes an object in the bucket's console.
Lose(key) ==
    /\ key \in bucket /\ Cardinality(lost) < MaxLosses
    /\ bucket' = bucket \ {key}
    /\ lost' = lost \cup {key}
    /\ UNCHANGED <<commits, generation, attempts, localState, op, pull, published, starts>>

Abandon(d) ==
    /\ op[d] # Idle
    /\ Release(d)
    /\ UNCHANGED <<remoteState, generation, attempts, localState, pull, published, starts>>

PublishStep(d) ==
    \/ Fetch(d) \/ VerifyPublished(d) \/ ReuseAudio(d) \/ BeginAttempt(d) \/ Put(d)
    \/ Guard(d) \/ CommitPublication(d) \/ ClearAttempt(d) \/ CleanupTombstoned(d)

EditStep(d) ==
    \/ ApplyName(d) \/ ResumeEdits(d) \/ PrepareEdit(d) \/ Drained(d) \/ PushEdit(d)
    \/ FinishEdit(d) \/ ApplyDelete(d)
    \/ \E r \in Recordings :
          \/ StageDelete(d, r)
          \/ \E name \in Names \cup {None} : StageName(d, r, name)

Next ==
    \/ \E r \in Recordings : Publish(r) \/ PublishLocalOnly(r) \/ VerifyBackup(r) \/ Reprocess(r)
    \/ \E key \in bucket : Lose(key)
    \/ \E d \in Devices : PublishStep(d) \/ EditStep(d) \/ Download(d) \/ Overlay(d) \/ Abandon(d)

Spec == Init /\ [][Next]_vars

-----------------------------------------------------------------------------
(* Properties.                                                              *)

\* A publication once reported stays: until the user deletes the recording the
\* head names it at that generation or a later one, with its audio in the
\* bucket, whatever other devices publish, edit, delete or pull.
PublishedIsKept ==
    \A r \in Recordings :
        backend[r] = "remote" /\ published[r] # 0 /\ r \notin Tip.tombstones =>
        /\ Tip.manifest[r].generation >= published[r]
        /\ Tip.manifest[r].key \in bucket \cup lost

\* No upload is forgotten: whatever step an operation, a crash or a delete on
\* another device cuts short, an object is named by the head, by an attempt
\* record or by a delete that is still to be finished.
AudioIsAccountedFor ==
    \A key \in bucket :
        \/ Tip.manifest[key[1]].key = key
        \/ \E g \in Generations : attempts[key[1]][g] = key
        \/ \E d \in Devices : \E t \in Range(outbox[d]) : t.kind = "delete" /\ t.base.key = key

\* The edit that device d pushes is of this kind, and saw this entry of r.
Saw(d, kind, r, entry) ==
    LET ticket == Head(outbox[d]) IN
    /\ op[d].pc = "push" /\ ticket.kind = kind /\ ticket.recording = r
    /\ IF kind = "delete" THEN ticket.base = entry ELSE ticket.base.name = entry.name

TakesNothing ==
    LET new == commits'[Len(commits')] IN
    commits' # commits =>
        /\ Tip.tombstones \subseteq new.tombstones
        /\ \A r \in Recordings :
             LET before == Tip.manifest[r]
                 after == new.manifest[r]
             IN  before # NoEntry =>
                   IF after = NoEntry THEN \E d \in Devices : Saw(d, "delete", r, before)
                   ELSE /\ after.generation >= before.generation
                        /\ after.name # before.name /\ before.name # None =>
                             \E d \in Devices : Saw(d, "name", r, before)

\* A commit takes nothing from a concurrent one.  Names that were given are
\* only changed by an edit that saw them; tombstones stay; an entry goes only
\* by a delete that saw exactly it, and never to an older generation.
CommitsTakeNothing == [][TakesNothing]_vars

\* "concurrent devices either serialize successfully or surface a recoverable
\* conflict" (docs/capture/PLAN.md): no head is one that nobody can read again.
HeadIsReadable == Readable(Tip)

\* "The tombstone then prevents a stale publisher from resurrecting that
\* recording id" (processing/archive.rs, prepare_native_edit)
DeletedStaysDeleted == \A r \in Tip.tombstones : Tip.manifest[r] = NoEntry
=============================================================================
