----------------------------- MODULE LedgerFile -----------------------------
(***************************************************************************)
(* How the store keeps one ledger on disk (load_locked, persist_locked and *)
(* mutate, processing/mod.rs): a new revision is written to a temporary    *)
(* file, synced, renamed over the destination, and the directory synced; a *)
(* load takes the highest valid revision among the destination and the     *)
(* temporaries, and renames a temporary that wins over the destination.    *)
(*                                                                         *)
(* The process may end or a system call fail between any two of the steps, *)
(* and the machine may lose power, which also undoes what was not synced.  *)
(* The writer mutex and the process lock make the store's own steps        *)
(* sequential.                                                             *)
(***************************************************************************)
EXTENDS Naturals, FiniteSetsExt

CONSTANTS
    MaxRevision,    \* the last revision a write may reach
    Faults          \* the combinations of faults a behaviour may see: "stop",
                    \* the process ends or a system call fails; "power"

\* A file as it reads now, and whether its content is on the disk for good.
NoFile == [revision |-> 0, whole |-> FALSE, synced |-> TRUE]

VARIABLES
    destination,   \* {id}.json as the directory names it now
    named,         \* {id}.json as the directory named it when last synced
    temporaries,   \* .{id}.*.tmp files earlier operations left behind
    current,       \* the temporary file of the running operation
    phase,         \* how far the running operation is
    reported,      \* the newest revision a caller was told
    faults         \* what goes wrong in this behaviour

vars == <<destination, named, temporaries, current, phase, reported, faults>>

Existing(files) == files \ {NoFile}

-----------------------------------------------------------------------------
(* load_locked                                                              *)

Candidates == Existing(temporaries \cup {destination})

Readable == {f \in Candidates : f.whole}

\* The highest revision wins; of equal ones the destination, whose path sorts
\* last.
Selected(f) ==
    /\ f \in Readable
    /\ \A g \in Readable : g.revision <= f.revision
    /\ f # destination =>
         ~(destination \in Readable /\ destination.revision = f.revision)

\* remove_file of the valid losers, each of which may fail silently
RemoveLosers ==
    \E kept \in SUBSET (Readable \cap temporaries) :
        temporaries' = (temporaries \ Readable) \cup kept

LoadNothing ==
    /\ phase = "idle" /\ Candidates = {}
    /\ phase' = "loaded"
    /\ UNCHANGED <<destination, named, temporaries, current, reported, faults>>

LoadDestination ==
    /\ phase = "idle" /\ Selected(destination)
    /\ RemoveLosers
    /\ phase' = "loaded"
    /\ UNCHANGED <<destination, named, current, reported, faults>>

\* replace_file(selected, destination)
Promote ==
    /\ phase = "idle"
    /\ \E f \in temporaries :
         /\ Selected(f) /\ f # destination
         /\ destination' = f
         /\ temporaries' = temporaries \ {f}
    /\ phase' = "promoted"
    /\ UNCHANGED <<named, current, reported, faults>>

\* sync_directory, then the losers
FinishPromotion ==
    /\ phase = "promoted"
    /\ named' = destination
    /\ RemoveLosers
    /\ phase' = "loaded"
    /\ UNCHANGED <<destination, current, reported, faults>>

\* Candidates, but none that reads: every operation returns invalid_ledger.
LoadFails == phase = "idle" /\ Candidates # {} /\ Readable = {}

-----------------------------------------------------------------------------
(* mutate: the operation wants no change and returns what it loaded, or      *)
(* persists the next revision (persist_locked).                             *)

ReturnLoaded ==
    /\ phase = "loaded"
    /\ reported' = destination.revision
    /\ phase' = "idle"
    /\ UNCHANGED <<destination, named, temporaries, current, faults>>

Create ==
    /\ phase = "loaded"
    /\ destination.revision < MaxRevision
    /\ current' = [revision |-> destination.revision + 1,
                   whole |-> FALSE, synced |-> FALSE]
    /\ phase' = "created"
    /\ UNCHANGED <<destination, named, temporaries, reported, faults>>

WriteAll ==
    /\ phase = "created"
    /\ current' = [current EXCEPT !.whole = TRUE]
    /\ phase' = "written"
    /\ UNCHANGED <<destination, named, temporaries, reported, faults>>

\* Mutant: the temporary file is renamed without having been synced.
SyncAll_Skipped ==
    /\ phase = "written"
    /\ phase' = "synced"
    /\ UNCHANGED <<destination, named, temporaries, current, reported, faults>>

SyncAll ==
    /\ phase = "written"
    /\ current' = [current EXCEPT !.synced = TRUE]
    /\ phase' = "synced"
    /\ UNCHANGED <<destination, named, temporaries, reported, faults>>

ReplaceFile ==
    /\ phase = "synced"
    /\ destination' = current
    /\ current' = NoFile
    /\ phase' = "renamed"
    /\ UNCHANGED <<named, temporaries, reported, faults>>

\* sync_directory, and the operation returns what it persisted
SyncDirectory ==
    /\ phase = "renamed"
    /\ named' = destination
    /\ reported' = destination.revision
    /\ phase' = "idle"
    /\ UNCHANGED <<destination, temporaries, current, faults>>

-----------------------------------------------------------------------------
(* Failures                                                                 *)

\* The process ends, or a call fails and the `?' returns storage_unavailable:
\* whatever the operation has written stays where it is.
Stop ==
    /\ "stop" \in faults
    /\ phase # "idle"
    /\ temporaries' = Existing(temporaries \cup {current})
    /\ current' = NoFile
    /\ phase' = "idle"
    /\ UNCHANGED <<destination, named, reported, faults>>

\* What f reads like after a power loss: content that was not synced may be torn.
Settled(f, torn) ==
    [f EXCEPT !.whole = f.whole /\ (f.synced \/ ~torn), !.synced = TRUE]

\* The directory is as it is, or as it was last synced: then the destination
\* is the former one and the file renamed over it is a temporary again.  A
\* temporary nobody synced a directory for may be gone.
LosePower ==
    /\ "power" \in faults
    /\ \E reverted \in BOOLEAN, torn \in SUBSET (temporaries \cup {current, destination}) :
         LET left == temporaries \cup {current}
                       \cup (IF reverted THEN {destination} ELSE {})
         IN /\ destination' = LET f == IF reverted THEN named ELSE destination
                              IN Settled(f, f \in torn)
            /\ \E survivors \in SUBSET Existing(left) :
                 temporaries' = {Settled(f, f \in torn) : f \in survivors}
    /\ named' = destination'
    /\ current' = NoFile
    /\ phase' = "idle"
    /\ UNCHANGED <<reported, faults>>

-----------------------------------------------------------------------------

Init ==
    /\ destination = NoFile
    /\ named = NoFile
    /\ temporaries = {}
    /\ current = NoFile
    /\ phase = "idle"
    /\ reported = 0
    /\ faults \in Faults

Next ==
    \/ LoadNothing \/ LoadDestination \/ Promote \/ FinishPromotion
    \/ ReturnLoaded
    \/ Create \/ WriteAll \/ SyncAll \/ ReplaceFile \/ SyncDirectory
    \/ Stop \/ LosePower

Spec == Init /\ [][Next]_vars

-----------------------------------------------------------------------------
(* Properties.                                                              *)

\* The revision a load would return now.
Value == Max({0} \cup {f.revision : f \in {g \in Candidates \cup {current} : g.whole}})

Register == INSTANCE LedgerRegister WITH value <- Value

\* The files implement the register: a write takes hold at once or not at all,
\* and no revision a caller was told is ever lost, wherever the process ends,
\* a call fails, or (alone) the power goes.
ImplementsRegister == Register!Spec

\* "Captures are automatically adopted on launch" (the comment on
\* list_ready_for_processing, ingest/inbox.rs): a stop in the middle of a write
\* never leaves files that no later operation gets past.
LedgerIsReadable == ~LoadFails

\* "Provider request/task IDs, transcript, summary, archive generation,
\* per-target proof, and cleanup state survive" (docs/capture/PHASE-0-ADR.md):
\* what a caller was told can still be loaded.
ReportedIsDurable == Value >= reported
=============================================================================
