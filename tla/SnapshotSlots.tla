---------------------------- MODULE SnapshotSlots ----------------------------
(* The private model copies of the MOSS workers (moss-worker/src/scratch.rs): *)
(* a few permanent slots, each with a lease lock, a journal and a model file, *)
(* under a registry lock.  A worker registers its copy before it writes it;   *)
(* the App and the next worker remove what a killed worker left.              *)
(*                                                                            *)
(* A process may be killed between any two system calls, which releases its   *)
(* locks, and the machine may lose power, which also undoes what was not      *)
(* synced: appended bytes, new names and removed names, each on its own.      *)
EXTENDS Naturals, FiniteSets

CONSTANTS
    Workers,       \* the worker processes
    App,           \* the supervisor, which only reclaims
    None,
    SlotCount,     \* SLOTS
    MaxRuns,       \* bound: snapshots a behaviour makes
    MaxKills,      \* bound: processes that are killed
    MaxPowerLosses \* bound

ASSUME SlotAssumption ==
    /\ SlotCount \in Nat \ {0}
    /\ None \notin Workers \cup {App} /\ App \notin Workers
    /\ {MaxRuns, MaxKills, MaxPowerLosses} \subseteq Nat

Slots == 1 .. SlotCount
Actors == Workers \cup {App}

\* How much of the journal is written, and of it how much is synced.
Empty   == 0
Partial == 1   \* part of "run-v1 <nonce>"
Header  == 2
Binding == 3   \* the header and part of "model <inode>"
Bound   == 4

VARIABLES
    registry,      \* the holder of registry.lock
    marked,        \* slots whose lease.lock carries its whole marker
    lease,         \* slot -> holder of its lease
    journal,       \* slot -> [name, text, synced, old]
    model,         \* slot -> [name, bytes, old]
    actor,         \* actor -> [pc, slot]
    runs, kills, losses

vars == <<registry, marked, lease, journal, model, actor, runs, kills, losses>>

\* A name in the directory: "new" is not synced yet.  The disk may still have an
\* earlier file under it, whose removal is not synced: old is what that may hold.
Named(file) == file.name # "absent"
NoJournal == [name |-> "absent", text |-> Empty, synced |-> Empty, old |-> {}]
NoModel   == [name |-> "absent", bytes |-> FALSE, old |-> {}]
Idle      == [pc |-> "idle", slot |-> None]

Init ==
    /\ registry = None /\ marked = {}
    /\ lease = [i \in Slots |-> None]
    /\ journal = [i \in Slots |-> NoJournal]
    /\ model = [i \in Slots |-> NoModel]
    /\ actor = [a \in Actors |-> Idle]
    /\ runs = 0 /\ kills = 0 /\ losses = 0

At(a, pc) == actor[a].pc = pc
Goto(a, pc, i) == actor' = [actor EXCEPT ![a] = [pc |-> pc, slot |-> i]]
Counters == UNCHANGED <<runs, kills, losses>>
Files == UNCHANGED <<journal, model>>
Locks == UNCHANGED <<registry, marked, lease>>

-----------------------------------------------------------------------------
(* The directory and the cleanup of one slot.                               *)

Synced(file) == [file EXCEPT !.name = IF Named(file) THEN "kept" ELSE "absent", !.old = {}]

SyncDirectory(i) ==
    /\ journal' = [journal EXCEPT ![i] = Synced(@)]
    /\ model' = [model EXCEPT ![i] = Synced(@)]

Recoverable_Bound(i) == Named(model[i]) => Named(journal[i]) /\ journal[i].text = Bound

\* Slot::cleanup refuses what it does not know: a model that its journal does not
\* register, and a journal whose binding is torn where the model is gone.
Recoverable(i) ==
    IF Named(model[i])
    THEN /\ Named(journal[i]) /\ journal[i].text >= Header
         /\ journal[i].text = Bound \/ ~model[i].bytes
    ELSE Named(journal[i]) => journal[i].text # Binding

\* Dropping the Slot releases its lease, dropping the Store the registry.
GiveUp(a) ==
    /\ lease' = [s \in Slots |-> IF lease[s] = a THEN None ELSE lease[s]]
    /\ registry' = IF registry = a THEN None ELSE registry
    /\ Goto(a, "idle", None) /\ UNCHANGED marked

\* A slot's cleanup looks once and then removes; a refusal fails its caller.
Inspect(a, here, next) ==
    /\ At(a, here) /\ Files /\ Counters
    /\ IF Recoverable(actor[a].slot) THEN Goto(a, next, actor[a].slot) /\ Locks ELSE GiveUp(a)

\* What the disk may have of a file, if the power goes.
Texts(i) == journal[i].synced .. journal[i].text
Contents(i) == {FALSE, model[i].bytes}

RemoveModel(i) ==
    /\ Named(model[i])
    /\ model' = [model EXCEPT ![i] = [NoModel EXCEPT !.old = model[i].old \cup Contents(i)]]
    /\ UNCHANGED journal

RemoveJournal(i) ==
    /\ ~Named(model[i]) /\ Named(journal[i])
    /\ journal' = [journal EXCEPT ![i] = [NoJournal EXCEPT !.old = journal[i].old \cup Texts(i)]]
    /\ UNCHANGED model

\* unlink_bound removes a name and then syncs the directory.  A name that is
\* absent already is passed over, whether its removal was synced or not.
Remove(a, here, unlinked, done) ==
    LET i == actor[a].slot IN
    /\ Locks /\ Counters
    /\ \/ At(a, here) /\ (RemoveModel(i) \/ RemoveJournal(i)) /\ Goto(a, unlinked, i)
       \/ At(a, here) /\ ~Named(model[i]) /\ ~Named(journal[i]) /\ Goto(a, done, i) /\ Files
       \/ At(a, unlinked) /\ SyncDirectory(i) /\ Goto(a, here, i)

Reclaiming(a) ==
    Inspect(a, "cleaning", "removing") \/ Remove(a, "removing", "removed", "cleaned")

Clearing(w) ==
    \/ Inspect(w, "clearing", "emptying") \/ Remove(w, "emptying", "emptied", "cleared")
    \/ Inspect(w, "dropping", "deleting") \/ Remove(w, "deleting", "deleted", "dropped")

-----------------------------------------------------------------------------
(* Store::open and the walk over the slots.                                 *)

\* A busy registry: reclaim_orphans has nothing to do, create fails.
OpenStore(a, next) ==
    /\ At(a, "idle") /\ registry = None
    /\ registry' = a
    /\ Goto(a, next, 1)
    /\ Files /\ UNCHANGED <<marked, lease>>

Reclaim(a) ==
    /\ OpenStore(a, "reclaiming") /\ Counters

Create(w) ==
    /\ w \in Workers /\ runs < MaxRuns
    /\ OpenStore(w, "choosing")
    /\ runs' = runs + 1 /\ UNCHANGED <<kills, losses>>

Leave(a, i) ==
    /\ lease' = [s \in Slots |-> IF lease[s] = a THEN None ELSE lease[s]]
    /\ UNCHANGED marked
    /\ IF i < SlotCount
       THEN Goto(a, IF At(a, "cleaned") THEN "reclaiming" ELSE actor[a].pc, i + 1) /\ UNCHANGED registry
       ELSE Goto(a, "idle", None) /\ registry' = None

Free(i) == lease[i] = None

\* reclaim_orphans: an absent slot or a busy lease is passed over, a slot whose
\* marker is not whole ends the walk.
ReclaimSlot(a) ==
    LET i == actor[a].slot IN
    /\ At(a, "reclaiming") /\ Files /\ Counters
    /\ IF ~Free(i) THEN Leave(a, i)
       ELSE IF i \notin marked THEN GiveUp(a)
       ELSE /\ lease' = [lease EXCEPT ![i] = a]
            /\ Goto(a, "cleaning", i) /\ UNCHANGED <<registry, marked>>

Reclaimed(a) == At(a, "cleaned") /\ Leave(a, actor[a].slot) /\ Files /\ Counters

\* SnapshotLease::create takes the first slot that is free.  The marker of a new
\* slot is completed under its lock, before anything else is in the slot.
ChooseSlot(w) ==
    LET i == actor[w].slot IN
    /\ At(w, "choosing") /\ Files /\ Counters
    /\ IF ~Free(i) THEN Leave(w, i)
       ELSE /\ lease' = [lease EXCEPT ![i] = w]
            /\ Goto(w, IF i \in marked THEN "clearing" ELSE "marking", i)
            /\ UNCHANGED <<registry, marked>>

Mark(w) ==
    LET i == actor[w].slot IN
    /\ At(w, "marking")
    /\ marked' = marked \cup {i} /\ Goto(w, "clearing", i)
    /\ Files /\ Counters /\ UNCHANGED <<registry, lease>>

-----------------------------------------------------------------------------
(* The run journal, the model and the use of the copy.                      *)

Do(w, here, next) == At(w, here) /\ Goto(w, next, actor[w].slot) /\ Locks /\ Counters

CreateJournal(w) ==
    /\ Do(w, "cleared", "header")
    /\ journal' = [journal EXCEPT ![actor[w].slot] =
          [name |-> "new", text |-> Empty, synced |-> Empty, old |-> @.old]]
    /\ UNCHANGED model

\* A record is appended in two parts, so that a kill may tear it.
WriteRecord(w, here, to, next) ==
    LET i == actor[w].slot IN
    /\ At(w, here) /\ Locks /\ Counters /\ UNCHANGED model
    /\ journal' = [journal EXCEPT ![i].text = @ + 1]
    /\ Goto(w, IF journal[i].text + 1 = to THEN next ELSE here, i)

SyncJournal_Skipped(w, here, next) == Do(w, here, next) /\ Files

SyncJournal(w, here, next) ==
    /\ Do(w, here, next)
    /\ journal' = [journal EXCEPT ![actor[w].slot].synced = journal[actor[w].slot].text]
    /\ UNCHANGED model

SyncNames(w, here, next) == Do(w, here, next) /\ SyncDirectory(actor[w].slot)

CreateModel(w) ==
    /\ Do(w, "registered", "binding")
    /\ model' = [model EXCEPT ![actor[w].slot] = [name |-> "new", bytes |-> FALSE, old |-> @.old]]
    /\ UNCHANGED journal

Created_Unleased(w) ==
    /\ At(w, "created")
    /\ registry' = None /\ Goto(w, "copying", actor[w].slot)
    /\ lease' = [lease EXCEPT ![actor[w].slot] = None]
    /\ Files /\ Counters /\ UNCHANGED marked

\* The Store is dropped on return; the Slot and its lease stay.
Created(w) ==
    /\ At(w, "created")
    /\ registry' = None /\ Goto(w, "copying", actor[w].slot)
    /\ Files /\ Counters /\ UNCHANGED <<marked, lease>>

\* A copy that fails, or is not the pinned model, is dropped as it is.
Copy(w) ==
    /\ \E next \in {"using", "dropping"} : Do(w, "copying", next)
    /\ model' = [model EXCEPT ![actor[w].slot].bytes = TRUE]
    /\ UNCHANGED journal

\* The native session and model end before the lease: also on an error.
Finish(w) == Do(w, "using", "dropping") /\ Files

Dropped(w) ==
    LET i == actor[w].slot IN
    /\ At(w, "dropped")
    /\ lease' = [lease EXCEPT ![i] = None] /\ Goto(w, "idle", None)
    /\ Files /\ Counters /\ UNCHANGED <<registry, marked>>

Snapshot(w) ==
    \/ CreateJournal(w)
    \/ WriteRecord(w, "header", Header, "syncHeader")
    \/ SyncJournal(w, "syncHeader", "syncName") \/ SyncNames(w, "syncName", "registered")
    \/ CreateModel(w)
    \/ WriteRecord(w, "binding", Bound, "syncBinding")
    \/ SyncJournal(w, "syncBinding", "syncModel") \/ SyncNames(w, "syncModel", "created")
    \/ Created(w) \/ Copy(w) \/ Finish(w) \/ Dropped(w)

-----------------------------------------------------------------------------
(* Faults.                                                                  *)

Unlocked(who) ==
    /\ registry' = IF registry \in who THEN None ELSE registry
    /\ lease' = [i \in Slots |-> IF lease[i] \in who THEN None ELSE lease[i]]
    /\ actor' = [a \in Actors |-> IF a \in who THEN Idle ELSE actor[a]]
    /\ UNCHANGED marked

\* The supervisor kills its worker, the parent guard exits, or a crash.
Kill(a) ==
    /\ actor[a].pc # "idle" /\ kills < MaxKills
    /\ kills' = kills + 1
    /\ Unlocked({a}) /\ Files /\ UNCHANGED <<runs, losses>>

Lost(file, none) == IF file.name = "kept" THEN {} ELSE {none}

\* What a power loss leaves of a slot's two files: under a name that is synced the
\* file, else it, an earlier one or none.
JournalsLeft(i) ==
    LET texts == journal[i].old \cup (IF Named(journal[i]) THEN Texts(i) ELSE {})
    IN  Lost(journal[i], NoJournal)
          \cup {[name |-> "kept", text |-> t, synced |-> t, old |-> {}] : t \in texts}

ModelsLeft(i) ==
    LET contents == model[i].old \cup (IF Named(model[i]) THEN Contents(i) ELSE {})
    IN  Lost(model[i], NoModel) \cup {[name |-> "kept", bytes |-> b, old |-> {}] : b \in contents}

PowerLoss ==
    /\ losses < MaxPowerLosses
    /\ losses' = losses + 1
    /\ Unlocked(Actors) /\ UNCHANGED <<runs, kills>>
    /\ \E left \in [Slots -> UNION {JournalsLeft(i) : i \in Slots}] :
          (\A i \in Slots : left[i] \in JournalsLeft(i)) /\ journal' = left
    /\ \E left \in [Slots -> UNION {ModelsLeft(i) : i \in Slots}] :
          (\A i \in Slots : left[i] \in ModelsLeft(i)) /\ model' = left

Next ==
    \/ \E a \in Actors : \/ Reclaim(a) \/ ReclaimSlot(a) \/ Reclaimed(a) \/ Kill(a)
                         \/ Reclaiming(a)
    \/ \E w \in Workers : \/ Create(w) \/ ChooseSlot(w) \/ Mark(w) \/ Snapshot(w) \/ Clearing(w)
    \/ PowerLoss

\* The App reclaims before every run and after every reap; a process that is
\* not killed goes on.
Fairness ==
    /\ \A a \in Actors : WF_vars(ReclaimSlot(a) \/ Reclaimed(a) \/ Reclaiming(a))
    /\ \A w \in Workers : WF_vars(ChooseSlot(w) \/ Mark(w) \/ Snapshot(w) \/ Clearing(w))
    /\ SF_vars(Reclaim(App))

Spec == Init /\ [][Next]_vars /\ Fairness

-----------------------------------------------------------------------------
(* Properties.                                                              *)

TypeOK ==
    /\ registry \in Actors \cup {None} /\ marked \subseteq Slots
    /\ lease \in [Slots -> Actors \cup {None}]
    /\ journal \in [Slots -> [name : {"absent", "new", "kept"}, text : Empty .. Bound,
                              synced : Empty .. Bound, old : SUBSET (Empty .. Bound)]]
    /\ model \in [Slots -> [name : {"absent", "new", "kept"}, bytes : BOOLEAN, old : SUBSET BOOLEAN]]

\* A copy that its journal does not register: every cleanup refuses it, for good.
Unregistered(i) ==
    /\ Named(model[i])
    /\ \/ ~Named(journal[i]) \/ journal[i].text < Header
       \/ model[i].bytes /\ journal[i].text # Bound

\* Refuted by the code.  A cleanup that was killed after
\* its first unlink leaves the model's removal unsynced; the next one finds the
\* model absent and unlinks the journal, and then the power goes: the model may be
\* back and the journal not.
NoCopyIsUnregistered == \A i \in Slots : ~Unregistered(i)

\* The removals of a slot's copy and of its journal are both not synced.
BothRemovalsPend(i) == model[i].old # {} /\ journal[i].name # "kept"

\* That is the only way: whatever is killed, a copy stays one that the next
\* cleanup takes, and so it does when the power goes at any other moment, while it
\* is registered, bound, written, used or removed.
CopiesAreRecoverable ==
    [][\A i \in Slots : Unregistered(i)' =>
          \/ Unregistered(i)
          \/ BothRemovalsPend(i) /\ PowerLoss]_vars

\* Refuted by the code.  So is every slot: a binding that was torn outlives its
\* model (a cleanup ended between its two unlinks, or the model's name was not
\* yet synced), and then no cleanup, and no run, gets past the slot.
SlotsAreRecoverable == \A i \in Slots : Recoverable(i)

\* A copy that a worker's native session reads is not removed under it.
LiveCopyIsKept ==
    \A w \in Workers : At(w, "using") =>
        LET i == actor[w].slot IN lease[i] = w /\ Named(model[i]) /\ model[i].bytes

\* A binding that was torn and has lost its model: no cleanup gets past it.
Torn(i) == ~Named(model[i]) /\ Named(journal[i]) /\ journal[i].text = Binding

\* The copy of a killed worker is removed by a later reclaim, unless a torn slot
\* or an unregistered copy ends the walk.
Orphaned(i) == Free(i) /\ Named(model[i])

OrphansAreReclaimed ==
    \A i \in Slots : Orphaned(i) ~> ~Orphaned(i) \/ \E s \in Slots : Torn(s) \/ Unregistered(s)

\* Refuted by the code.  A worker that starts while a slot is free gets one: a
\* reclaim that holds the registry just then makes it fail with snapshot_busy.
FreeSlotIsGiven ==
    (\E w \in Workers : At(w, "idle") /\ runs < MaxRuns) /\ (\A i \in Slots : Free(i)) => registry = None
=============================================================================
