----------------------------- MODULE ArchiveSync -----------------------------
(* The archive's credentials, as the secure store, the running app and a pull  *)
(* of the notes repository see them, and what a pull does to the local archive *)
(* beside the publisher: a tarball is fetched without the archive's lock and   *)
(* laid over the local files under it.  The app may be killed at any step.     *)
EXTENDS Naturals, Sequences

CONSTANTS
    Destinations,   \* repositories and buckets, each with its own tokens
    Entries,        \* recordings of the archive
    None,
    MaxCommands,    \* bound: credentials saved or deleted
    MaxKills

VARIABLES
    stored,         \* the record in the secure store
    gh, bucket,     \* SyncCtx: the handles in memory
    generation,     \* credential_generation
    state,          \* what the status shows
    syncing,        \* a pull is under way, others return at once
    pull,           \* [at, generation, repo, overlay, result]
    command,        \* [at, to]: the credentials that are being saved, None to delete
    lock,           \* who changes the archive
    local,          \* the entries of data/manifest.json, Torn if it was half written
    head,           \* the entries at each repository's head
    commands, kills

vars == <<stored, gh, bucket, generation, state, syncing, pull, command, lock,
          local, head, commands, kills>>
handles == <<gh, bucket, generation>>
archive == <<lock, local, head>>
bounds == <<commands, kills>>

\* A manifest that cannot be read.
Torn == {None}

NoPull == [at |-> "idle", generation |-> 0, repo |-> None, overlay |-> {}, result |-> "ok"]

NoCommand == [at |-> 0, to |-> None]

\* load_bound_credentials: a launch takes the tokens of the secure store.
Shown(tokens) == IF tokens = None THEN "no-tokens" ELSE "idle"

Init ==
    /\ stored \in Destinations \cup {None} /\ gh = stored /\ bucket = stored /\ state = Shown(stored)
    /\ generation = 1 /\ syncing = FALSE /\ pull = NoPull /\ command = NoCommand
    /\ lock = None /\ local = {} /\ head = [d \in Destinations |-> {}]
    /\ commands = 0 /\ kills = 0

-----------------------------------------------------------------------------
(* Saving and deleting the credentials, inside a transaction of the archive.   *)

Steps(to) ==
    IF to = None THEN <<"count", "github", "bucket", "show", "erase">>
    ELSE <<"store", "count", "github", "bucket", "show">>

\* The tokens were found to be good.
Ask(to) ==
    /\ command = NoCommand /\ commands < MaxCommands
    /\ commands' = commands + 1 /\ command' = [at |-> 1, to |-> to]
    /\ UNCHANGED <<stored, handles, state, syncing, pull, archive, kills>>

\* Waits for another transaction, but not for a pull.
BeginTransaction ==
    /\ command.at = 1 /\ lock \in {None, "pull"}
    /\ IF lock = None THEN lock' = "command" /\ command' = [command EXCEPT !.at = 2]
       ELSE UNCHANGED lock /\ command' = NoCommand
    /\ UNCHANGED <<stored, handles, state, syncing, pull, local, head, bounds>>

Does(step) == command.at > 1 /\ Steps(command.to)[command.at - 1] = step

Proceeds ==
    IF command.at - 1 = Len(Steps(command.to))
    THEN command' = NoCommand /\ lock' = None
    ELSE command' = [command EXCEPT !.at = @ + 1] /\ UNCHANGED lock

\* The secure store may refuse.
Store ==
    /\ Does("store") \/ Does("erase")
    /\ \/ stored' = command.to /\ Proceeds
       \/ UNCHANGED stored /\ command' = NoCommand /\ lock' = None
    /\ UNCHANGED <<handles, state, syncing, pull, local, head, bounds>>

\* install_credentials and revoke_credentials.
Install ==
    /\ \/ Does("count") /\ generation' = generation + 1 /\ UNCHANGED <<gh, bucket, state>>
       \/ Does("github") /\ gh' = command.to /\ UNCHANGED <<generation, bucket, state>>
       \/ Does("bucket") /\ bucket' = command.to /\ UNCHANGED <<generation, gh, state>>
       \/ Does("show") /\ state' = Shown(command.to) /\ UNCHANGED <<generation, gh, bucket>>
    /\ Proceeds
    /\ UNCHANGED <<stored, syncing, pull, local, head, bounds>>

-----------------------------------------------------------------------------
(* A pull.                                                                  *)

Pulls(at) == pull.at = at /\ UNCHANGED <<stored, handles, command, head, bounds>>

Ends(result) == pull' = [pull EXCEPT !.at = "ended", !.result = result]

\* At launch, and when the user asks for it; one while another is under way returns.
Refresh ==
    /\ Pulls("idle") /\ ~syncing
    /\ syncing' = TRUE /\ pull' = [NoPull EXCEPT !.at = "begun", !.generation = generation]
    /\ UNCHANGED <<state, lock, local>>

ReadDestination ==
    /\ Pulls("begun")
    /\ IF gh = None THEN Ends("no-tokens") ELSE pull' = [pull EXCEPT !.at = "bound", !.repo = gh]
    /\ UNCHANGED <<state, syncing, lock, local>>

ShowSyncing ==
    /\ Pulls("bound") /\ state' = "syncing" /\ pull' = [pull EXCEPT !.at = "fetching"]
    /\ UNCHANGED <<syncing, lock, local>>

Fetch ==
    /\ Pulls("fetching")
    /\ \/ pull' = [pull EXCEPT !.at = "fetched", !.overlay = head[pull.repo]]
       \/ \E result \in {"offline", "error", "unauthorized"} : Ends(result)
    /\ UNCHANGED <<state, syncing, lock, local>>

CheckGeneration ==
    /\ Pulls("fetched")
    /\ IF generation = pull.generation THEN pull' = [pull EXCEPT !.at = "checked"] ELSE Ends("no-tokens")
    /\ UNCHANGED <<state, syncing, lock, local>>

LockArchive ==
    /\ Pulls("checked")
    /\ IF lock = None THEN lock' = "pull" /\ pull' = [pull EXCEPT !.at = "extracting"]
       ELSE UNCHANGED lock /\ Ends("error")
    /\ UNCHANGED <<state, syncing, local>>

\* extract_overlay replaces the files one by one, until one of them fails.
Extract ==
    /\ Pulls("extracting") /\ lock' = None
    /\ \/ local' = pull.overlay /\ Ends("ok")
       \/ local' \in {local, pull.overlay, Torn} /\ Ends("error")
    /\ UNCHANGED <<state, syncing>>

Superseded_StillSyncing == UNCHANGED syncing /\ pull' = NoPull

\* Whoever changed the credentials has set the state.
Superseded == syncing' = FALSE /\ pull' = NoPull

EndPull ==
    /\ Pulls("ended")
    /\ IF generation # pull.generation THEN Superseded
       ELSE pull' = [pull EXCEPT !.at = "reporting"] /\ UNCHANGED syncing
    /\ UNCHANGED <<state, lock, local>>

Report ==
    /\ Pulls("reporting") /\ state' = pull.result /\ pull' = [pull EXCEPT !.at = "reported"]
    /\ UNCHANGED <<syncing, lock, local>>

Finish ==
    /\ Pulls("reported") /\ syncing' = FALSE /\ pull' = NoPull
    /\ UNCHANGED <<state, lock, local>>

PullStep ==
    \/ ReadDestination \/ ShowSyncing \/ Fetch \/ CheckGeneration \/ LockArchive
    \/ Extract \/ EndPull \/ Report \/ Finish

-----------------------------------------------------------------------------
(* The publisher, and the end of the process.                               *)

BeginPublication ==
    /\ lock = None /\ local # Torn /\ local # Entries /\ lock' = "publisher"
    /\ UNCHANGED <<stored, handles, state, syncing, pull, command, local, head, bounds>>

\* The local archive takes an entry first.
EndPublication ==
    /\ lock = "publisher" /\ lock' = None /\ \E e \in Entries \ local : local' = local \cup {e}
    /\ UNCHANGED <<stored, handles, state, syncing, pull, command, head, bounds>>

\* Later, or never, it is committed to the repository.
Commit ==
    /\ stored # None /\ lock = None /\ local # Torn
    /\ \E e \in local \ head[stored] : head' = [head EXCEPT ![stored] = @ \cup {e}]
    /\ UNCHANGED <<stored, handles, state, syncing, pull, command, lock, local, bounds>>

Kill ==
    /\ kills < MaxKills /\ kills' = kills + 1
    /\ gh' = stored /\ bucket' = stored /\ generation' = 1 /\ state' = Shown(stored)
    /\ syncing' = FALSE /\ pull' = NoPull /\ command' = NoCommand /\ lock' = None
    /\ local' \in IF pull.at = "extracting" THEN {local, pull.overlay, Torn} ELSE {local}
    /\ UNCHANGED <<stored, head, commands>>

Next ==
    \/ \E to \in Destinations \cup {None} : Ask(to)
    \/ BeginTransaction \/ Store \/ Install
    \/ Refresh \/ PullStep
    \/ BeginPublication \/ EndPublication \/ Commit \/ Kill

\* Every read of a response has a timeout; the tasks are scheduled by the runtime.
Spec == Init /\ [][Next]_vars /\ WF_vars(PullStep)

-----------------------------------------------------------------------------
(* Properties.                                                              *)

\* A pull ends, whatever is saved, deleted or published meanwhile, so that a later
\* refresh is not taken for a second one of the same pull.
PullEnds == syncing ~> ~syncing

\* docs/capture/PHASE-0-ADR.md:234: the tokens and their destinations are one record,
\* so that a crash cannot combine new keys with an old target.
HandlesMatchRecord ==
    command = NoCommand => gh = bucket /\ (gh # None => gh = stored)

\* Refuted by the code: what is laid over the archive comes from the repository
\* that it is bound to.  The generation is compared before the lock is taken.
OverlayIsBound == pull.at = "extracting" => pull.repo = stored

\* Refuted by the code: an entry of the local archive stays there.  A tarball holds
\* the manifest of the repository, which misses what was not committed when it was
\* fetched.
LocalEntryIsKept == [][local' = Torn \/ local = Torn \/ local \subseteq local']_local

\* Refuted by the code: the status only shows a pull while there is one.
StatusIsCurrent == state = "syncing" => syncing
=============================================================================
