------------------------------ MODULE MCMobile ------------------------------
(* The app on a phone: two recording sessions, one after the other; and, as    *)
(* parts of the same run that share no state with them, the pull of the        *)
(* archive and the cache of its audio.                                         *)
EXTENDS MobileCapture

CONSTANTS
    Destinations, Entries, AtFirst, MaxCommands,   \* AtFirst: what may be stored at first
    Audio, Requests, Cap, MaxServed,
    None, MaxKills

VARIABLES
    part,
    stored, gh, bucket, generation, state, syncing, pull, command, lock, local, head, commands, kills,
    kept, cached, partial, pin, fill, listed, promised, served, stops

syncVars == <<stored, gh, bucket, generation, state, syncing, pull, command, lock, local, head, commands, kills>>
cacheVars == <<kept, cached, partial, pin, fill, listed, promised, served, stops>>

SessionIds == {"s1", "s2"}

Sync == INSTANCE ArchiveSync

Cache == INSTANCE AudioCache WITH kills <- stops

\* What follows a second stop is not explored: the properties say nothing of it.
Attended == ~abandoned

-----------------------------------------------------------------------------
(* The parts; what a part is not about stays as it is at first.               *)

SyncAtRest ==
    /\ stored = None /\ gh = None /\ bucket = None /\ state = "no-tokens"
    /\ generation = 1 /\ syncing = FALSE /\ pull = Sync!NoPull /\ command = Sync!NoCommand
    /\ lock = None /\ local = {} /\ head = [d \in Destinations |-> {}]
    /\ commands = 0 /\ kills = 0

PhoneInit ==
    /\ Init
    /\ \/ part = "recording" /\ SyncAtRest /\ Cache!Init
       \/ part = "sync" /\ Sync!Init /\ stored \in AtFirst /\ Cache!Init
       \/ part = "cache" /\ SyncAtRest /\ Cache!Init

RecordingStep == part = "recording" /\ Next /\ UNCHANGED <<syncVars, cacheVars>>

SyncStep == part = "sync" /\ Sync!Next /\ UNCHANGED <<vars, cacheVars>>

CacheStep == part = "cache" /\ Cache!Next /\ UNCHANGED <<vars, syncVars>>

PhoneStep == (RecordingStep \/ SyncStep \/ CacheStep) /\ UNCHANGED part

\* The fairness of each part; it asks nothing of a part that is not about it.
PhoneSpec ==
    /\ PhoneInit
    /\ [][PhoneStep]_<<part, vars, syncVars, cacheVars>>
    /\ WF_vars(part = "recording" /\ Main) /\ WF_vars(part = "recording" /\ Status)
    /\ WF_vars(part = "recording" /\ Ingest)
    /\ \A s \in Sessions :
         /\ WF_vars(part = "recording" /\ Ends(s))
         /\ WF_vars(part = "recording" /\ snapshot.state = "STOPPED" /\ BeginFinalize(s))
    /\ WF_syncVars(part = "sync" /\ Sync!PullStep)

PullEnds == Sync!PullEnds

PinnedIsPlayable == Cache!PinnedIsPlayable
=============================================================================
