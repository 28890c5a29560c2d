------------------------------ MODULE MCWorkers ------------------------------
(* The parts of the local workers that do not touch each other's state, checked *)
(* side by side: a behaviour is one part's, and the others are at rest in a      *)
(* state that none of their actions leaves.                                      *)
EXTENDS SnapshotSlots

CONSTANTS Request, Pipe, Limit, MaxChanges

\* Lengths and bounds are numbers; None is neither a file nor a verdict.
ASSUME CallAssumption ==
    /\ {Request, Pipe, Limit, MaxChanges} \subseteq Nat
    /\ None \notin [inode : Nat, right : BOOLEAN] /\ None \notin {"answered", "accepted"}

VARIABLES
    kind, call, cancel, due, input, child, stream, drain,
    worker, disk, handle, used, at, outcome, changes

callVars == <<kind, call, cancel, due, input, child, stream, drain>>
fileVars == <<worker, disk, handle, used, at, outcome, changes>>

Call == INSTANCE WorkerCall

Verified == INSTANCE VerifiedWorker

-----------------------------------------------------------------------------
(* The parts side by side.                                                    *)

\* Nobody gives the registry back.
SlotsAtRest ==
    /\ registry = App /\ marked = {} /\ runs = 0 /\ kills = 0 /\ losses = MaxPowerLosses
    /\ lease = [i \in Slots |-> None]
    /\ journal = [i \in Slots |-> NoJournal] /\ model = [i \in Slots |-> NoModel]
    /\ actor = [a \in Actors |-> Idle]

CallAtRest ==
    /\ kind = "supervised" /\ cancel = TRUE /\ due = TRUE
    /\ call = [pc |-> "returned", result |-> "cancelled"]
    /\ input = [sent |-> 0, held |-> 0, closed |-> TRUE]
    /\ child = [state |-> "none", reaped |-> FALSE, ok |-> FALSE, read |-> 0]
    /\ stream = [s \in Call!Streams |-> [wrote |-> 0, held |-> 0]]
    /\ drain = [s \in Call!Streams |-> [got |-> 0, state |-> "open"]]

FilesAtRest ==
    /\ worker = "summary" /\ outcome = "temporary" /\ at = 1 /\ changes = 0
    /\ disk = <<>> /\ handle = <<>> /\ used = <<>>

WorkersInit ==
    \/ Init /\ CallAtRest /\ FilesAtRest
    \/ SlotsAtRest /\ Call!Init /\ FilesAtRest
    \/ SlotsAtRest /\ CallAtRest /\ Verified!Init

SlotsStep == Next /\ UNCHANGED <<callVars, fileVars>>

CallStep == Call!Next /\ UNCHANGED <<vars, fileVars>>

FilesStep == Verified!Next /\ UNCHANGED <<vars, callVars>>

WorkersSpec ==
    /\ WorkersInit
    /\ [][SlotsStep \/ CallStep \/ FilesStep]_<<vars, callVars, fileVars>>
    /\ Fairness /\ Call!Fairness

AnswerIsWhole == Call!AnswerIsWhole

CallsEnd == Call!CallsEnd

AnswerIsFromVerifiedFiles == Verified!AnswerIsFromVerifiedFiles
=============================================================================
