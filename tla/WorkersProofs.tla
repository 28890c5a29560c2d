---------------------------- MODULE WorkersProofs ----------------------------
(* Proofs about the local workers and their models.  SnapshotSlots: a copy is  *)
(* never removed under the worker that reads it, and there is one way only to a*)
(* copy that no cleanup takes.  WorkerCall: an answer is whole.                *)
(* VerifiedWorker: it comes from the files that were verified.  LocalModels: a *)
(* pack that says installed is whole.  SpeechText: what the speech and summary *)
(* workers answer, and what the app makes of it, tells all that was said.      *)
EXTENDS MCWorkers, MCText, Sequences, FiniteSetTheorems, SequenceTheorems,
        WellFoundedInduction, TLAPS

Names == {"absent", "new", "kept"}
JournalFiles == [name : Names, text : Empty .. Bound, synced : Empty .. Bound, old : SUBSET (Empty .. Bound)]
CopyFiles == [name : Names, bytes : BOOLEAN, old : SUBSET BOOLEAN]

\* Where an actor holds no slot, and where it does.
WalkPcs == {"reclaiming", "choosing"}
RemovePcs == {"removing", "removed", "emptying", "emptied", "deleting", "deleted"}
CleanPcs == RemovePcs \cup {"cleaning", "cleaned", "clearing", "dropping"}
WritePcs == {"header", "syncHeader", "syncName", "registered", "binding", "syncBinding",
             "syncModel", "created", "copying", "using"}
HoldPcs == CleanPcs \cup WritePcs \cup {"marking", "cleared", "dropped"}

TypeInv ==
    /\ lease \in [Slots -> Actors \cup {None}]
    /\ journal \in [Slots -> JournalFiles]
    /\ model \in [Slots -> CopyFiles]
    /\ actor \in [Actors -> [pc : {"idle"} \cup WalkPcs \cup HoldPcs, slot : Slots \cup {None}]]

\* Whoever works on a slot holds its lease, so that nobody else does.
Leased ==
    \A a \in Actors :
        /\ actor[a].pc \in WalkPcs => actor[a].slot \in Slots
        /\ actor[a].pc \in HoldPcs => actor[a].slot \in Slots /\ lease[actor[a].slot] = a

\* A model that has, or may get back, its name is registered by a journal whose
\* name is on the disk, and one with bytes by a whole and synced binding, unless
\* the removals of the two both wait for their sync.
Registered(j, m) ==
    /\ j.synced <= j.text
    /\ j.name = "kept" => j.old = {}
    /\ Named(m) =>
         /\ m.old = {} /\ j.name = "kept" /\ j.synced >= Header
         /\ m.bytes => j.text = Bound /\ j.synced = Bound
    /\ m.old # {} /\ j.name = "kept" =>
         /\ j.synced >= Header
         /\ TRUE \in m.old => j.text = Bound /\ j.synced = Bound

\* A model that no cleanup takes.
Stuck(j, m) ==
    /\ m.name = "kept" /\ m.old = {} /\ j.synced <= j.text
    /\ j.name = "kept" => j.old = {}
    /\ ~Named(j) \/ j.text < Header \/ (m.bytes /\ j.text # Bound)

Sound(j, m) == Registered(j, m) \/ Stuck(j, m)

\* What is on the disk when a worker is at pc, of its slot.
Progress(pc, j, m) ==
    /\ pc \in RemovePcs \cup WritePcs \cup {"cleared"} => Registered(j, m)
    /\ pc \in {"cleared", "header", "syncHeader", "syncName", "registered"} => m.name = "absent"
    /\ pc = "cleared" => j.name = "absent"
    /\ pc \in {"header", "syncHeader", "syncName"} => j.name = "new"
    /\ pc = "header" => j.text < Header
    /\ pc = "syncHeader" => j.text = Header
    /\ pc \in {"syncName", "registered"} => j.text = Header /\ j.synced = Header
    /\ pc = "registered" => m.old = {}
    /\ pc \in WritePcs \ {"header", "syncHeader", "syncName"} => j.name = "kept"
    /\ pc \in {"binding", "syncBinding", "syncModel", "created", "copying", "using"} => Named(m)
    /\ pc = "binding" => j.text \in {Header, Binding}
    /\ pc \in {"binding", "syncBinding"} => ~m.bytes
    /\ pc = "syncBinding" => j.text = Bound
    /\ pc \in {"syncModel", "created", "copying", "using"} => j.text = Bound /\ j.synced = Bound
    /\ pc = "using" => m.bytes

Inv ==
    /\ TypeInv
    /\ Leased
    /\ \A a \in Actors : actor[a].pc \in HoldPcs =>
          Progress(actor[a].pc, journal[actor[a].slot], model[actor[a].slot])
    /\ \A i \in Slots : Sound(journal[i], model[i])

------------------------
(* The slots of the other actors. *)

\* What a step of the actor a may do: it changes the files of a slot it holds,
\* and no lease but its own; it leaves the other actors where they are.
OwnStep(a) ==
    /\ TypeInv'
    /\ \A b \in Actors \ {a} : actor'[b] = actor[b]
    /\ \A i \in Slots : lease[i] \notin {a, None} => lease'[i] = lease[i]
    /\ \A i \in Slots : lease[i] # a => journal'[i] = journal[i] /\ model'[i] = model[i]
    /\ actor'[a].pc \in WalkPcs => actor'[a].slot \in Slots
    /\ actor'[a].pc \in HoldPcs =>
         /\ actor'[a].slot \in Slots /\ lease'[actor'[a].slot] = a
         /\ Progress(actor'[a].pc, journal'[actor'[a].slot], model'[actor'[a].slot])
    /\ \A i \in Slots :
         \/ Registered(journal'[i], model'[i])
         \/ journal'[i] = journal[i] /\ model'[i] = model[i]

\* Then it preserves the invariant, for the others too.
LEMMA OwnStepInv ==
    ASSUME Inv, NEW a \in Actors, OwnStep(a)
    PROVE  Inv'
<1>1. None \notin Actors
  BY SlotAssumption DEF Actors
<1>2. ASSUME NEW b \in Actors, b # a, actor[b].pc \in HoldPcs
      PROVE  /\ lease'[actor[b].slot] = b
             /\ journal'[actor[b].slot] = journal[actor[b].slot]
             /\ model'[actor[b].slot] = model[actor[b].slot]
  BY <1>1, <1>2 DEF Inv, Leased, OwnStep
<1>3. Leased'
  BY <1>2 DEF Inv, Leased, OwnStep
<1>4. \A b \in Actors : actor'[b].pc \in HoldPcs =>
          Progress(actor'[b].pc, journal'[actor'[b].slot], model'[actor'[b].slot])
  BY <1>2 DEF Inv, OwnStep
<1>5. QED
  BY <1>3, <1>4 DEF Inv, OwnStep, Sound

------------------------
(* The steps of one actor. *)

\* The files of a slot that an actor holds, and the names it may sync.
LEMMA HeldSlot ==
    ASSUME Inv, NEW a \in Actors, actor[a].pc \in HoldPcs
    PROVE  /\ actor[a].slot \in Slots /\ lease[actor[a].slot] = a
           /\ Progress(actor[a].pc, journal[actor[a].slot], model[actor[a].slot])
           /\ Sound(journal[actor[a].slot], model[actor[a].slot])
  BY DEF Inv, Leased

\* What is registered, and what cannot be.
LEMMA RegisteredNone ==
    ASSUME NEW j, NEW m, ~Named(m), j.name # "kept", j.synced <= j.text
    PROVE  Registered(j, m)
  BY DEF Registered

LEMMA RegisteredCopy ==
    ASSUME NEW j, NEW m, Named(m), m.old = {}, j.name = "kept", j.old = {}, j.synced <= j.text,
           j.synced >= Header, m.bytes => j.text = Bound /\ j.synced = Bound
    PROVE  Registered(j, m)
  BY DEF Registered

LEMMA RegisteredIsTaken ==
    ASSUME NEW j \in JournalFiles, NEW m, Registered(j, m), Named(m)
    PROVE  Named(j) /\ ~(j.text < Header) /\ ~(m.bytes /\ j.text # Bound)
  <1>1. j.name = "kept" /\ j.synced >= Header /\ j.synced <= j.text
        /\ (m.bytes => j.text = Bound)
    BY DEF Registered
  <1>2. ~(j.text < Header)
    BY <1>1 DEF JournalFiles, Empty, Header, Bound
  <1>3. QED
    BY <1>1, <1>2 DEF Named

\* A registered slot is synced as the types and its registration allow.
LEMMA SyncedSlot ==
    ASSUME NEW j \in JournalFiles, NEW m \in CopyFiles, Registered(j, m)
    PROVE  /\ Synced(j) \in JournalFiles /\ Synced(m) \in CopyFiles
           /\ Synced(j).text = j.text /\ Synced(j).synced = j.synced /\ Synced(j).old = {}
           /\ Synced(m).bytes = m.bytes /\ Synced(m).old = {}
           /\ Synced(j).name = (IF Named(j) THEN "kept" ELSE "absent")
           /\ Synced(m).name = (IF Named(m) THEN "kept" ELSE "absent")
           /\ Registered(Synced(j), Synced(m))
  <1>1. /\ Synced(j) \in JournalFiles
        /\ Synced(j).text = j.text /\ Synced(j).synced = j.synced /\ Synced(j).old = {}
        /\ Synced(j).name = (IF Named(j) THEN "kept" ELSE "absent")
    BY DEF Synced, JournalFiles, Names
  <1>2. /\ Synced(m) \in CopyFiles
        /\ Synced(m).bytes = m.bytes /\ Synced(m).old = {}
        /\ Synced(m).name = (IF Named(m) THEN "kept" ELSE "absent")
    BY DEF Synced, CopyFiles, Names
  <1>3. Registered(Synced(j), Synced(m))
    BY <1>1, <1>2 DEF Registered, Named
  <1>4. QED
    BY <1>1, <1>2, <1>3

\* Nothing of a slot changes, and the actor holds none, or the same one, after it.
LEMMA LocksOnly ==
    ASSUME Inv, NEW a \in Actors, Files,
           lease' \in [Slots -> Actors \cup {None}],
           \A i \in Slots : lease[i] \notin {a, None} => lease'[i] = lease[i],
           NEW pc \in {"idle"} \cup WalkPcs \cup HoldPcs, NEW i \in Slots \cup {None}, Goto(a, pc, i),
           pc \in WalkPcs => i \in Slots,
           pc \in HoldPcs => i \in Slots /\ lease'[i] = a /\ Progress(pc, journal[i], model[i])
    PROVE  OwnStep(a)
  <1>1. actor' = [actor EXCEPT ![a] = [pc |-> pc, slot |-> i]]
    BY DEF Goto
  <1>2. actor'[a] = [pc |-> pc, slot |-> i] /\ \A b \in Actors \ {a} : actor'[b] = actor[b]
    BY <1>1 DEF Inv, TypeInv
  <1>3. TypeInv'
    BY <1>1 DEF Inv, TypeInv, Files
  <1>4. QED
    BY <1>2, <1>3 DEF OwnStep, Files, Inv

LEMMA GiveUpStep ==
    ASSUME Inv, NEW a \in Actors, Files, GiveUp(a)
    PROVE  OwnStep(a)
  <1>1. /\ lease' \in [Slots -> Actors \cup {None}]
        /\ \A i \in Slots : lease[i] \notin {a, None} => lease'[i] = lease[i]
    BY DEF GiveUp, Inv, TypeInv
  <1>2. Goto(a, "idle", None)
    BY DEF GiveUp
  <1>3. QED
    BY <1>1, <1>2, LocksOnly DEF WalkPcs, HoldPcs, CleanPcs, RemovePcs, WritePcs

LEMMA LeaveStep ==
    ASSUME Inv, NEW a \in Actors, Files, actor[a].pc \in WalkPcs \cup {"cleaned"},
           Leave(a, actor[a].slot)
    PROVE  OwnStep(a)
  <1>1. /\ lease' \in [Slots -> Actors \cup {None}]
        /\ \A i \in Slots : lease[i] \notin {a, None} => lease'[i] = lease[i]
    BY DEF Leave, Inv, TypeInv
  <1>2. actor[a].slot \in Slots
    BY DEF Inv, Leased, HoldPcs, CleanPcs, RemovePcs
  <1>3. CASE actor[a].slot < SlotCount
    <2>1. actor[a].slot + 1 \in Slots
      BY <1>2, <1>3, SlotAssumption DEF Slots
    <2>2. PICK pc \in WalkPcs : Goto(a, pc, actor[a].slot + 1)
      BY <1>3 DEF Leave, At, WalkPcs
    <2>3. pc \notin HoldPcs
      BY DEF WalkPcs, HoldPcs, CleanPcs, RemovePcs, WritePcs
    <2>4. QED
      BY <1>1, <2>1, <2>2, <2>3, LocksOnly
  <1>4. CASE ~(actor[a].slot < SlotCount)
    <2>1. Goto(a, "idle", None)
      BY <1>4 DEF Leave
    <2>2. QED
      BY <1>1, <2>1, LocksOnly DEF WalkPcs, HoldPcs, CleanPcs, RemovePcs, WritePcs
  <1>5. QED
    BY <1>3, <1>4

\* The files of the held slot become j and m, and the actor goes to pc.
LEMMA HeldStep ==
    ASSUME Inv, NEW a \in Actors, actor[a].pc \in HoldPcs, lease' = lease,
           NEW pc \in HoldPcs, Goto(a, pc, actor[a].slot),
           NEW j \in JournalFiles,
           NEW m \in CopyFiles,
           journal' = [journal EXCEPT ![actor[a].slot] = j],
           model' = [model EXCEPT ![actor[a].slot] = m],
           Registered(j, m), Progress(pc, j, m)
    PROVE  OwnStep(a)
  <1> DEFINE i == actor[a].slot
  <1>1. i \in Slots /\ lease[i] = a
    BY HeldSlot
  <1>2. /\ journal'[i] = j /\ model'[i] = m
        /\ \A s \in Slots \ {i} : journal'[s] = journal[s] /\ model'[s] = model[s]
    BY <1>1 DEF Inv, TypeInv
  <1>3. actor' = [actor EXCEPT ![a] = [pc |-> pc, slot |-> i]]
    BY DEF Goto
  <1>4. actor'[a] = [pc |-> pc, slot |-> i] /\ \A b \in Actors \ {a} : actor'[b] = actor[b]
    BY <1>3 DEF Inv, TypeInv
  <1>5. TypeInv'
    BY <1>1, <1>3 DEF Inv, TypeInv
  <1>6. \A s \in Slots : \/ Registered(journal'[s], model'[s])
                         \/ journal'[s] = journal[s] /\ model'[s] = model[s]
    BY <1>2
  <1>7. pc \notin WalkPcs
    BY DEF WalkPcs, HoldPcs, CleanPcs, RemovePcs, WritePcs
  <1> HIDE DEF i
  <1>8. QED
    BY <1>1, <1>2, <1>4, <1>5, <1>6, <1>7 DEF OwnStep, i

\* What a pc before and after the removals says of the files: nothing; and what one
\* at a removal does: that they are registered.
LEMMA CleanProgress ==
    ASSUME NEW pc \in CleanPcs \cup {"marking", "dropped"}, NEW j, NEW m
    PROVE  Progress(pc, j, m) <=> (pc \in RemovePcs => Registered(j, m))
  BY DEF Progress, CleanPcs, RemovePcs, WritePcs

LEMMA InspectStep ==
    ASSUME Inv, NEW a \in Actors, NEW here \in CleanPcs, NEW next \in RemovePcs, Inspect(a, here, next)
    PROVE  OwnStep(a)
  <1> DEFINE i == actor[a].slot
  <1>1. actor[a].pc \in HoldPcs /\ Files
    BY DEF Inspect, At, HoldPcs
  <1>2. CASE GiveUp(a)
    BY <1>1, <1>2, GiveUpStep
  <1>3. CASE Goto(a, next, i) /\ Locks /\ Recoverable(i)
    <2>1. next \in HoldPcs /\ next \notin WalkPcs /\ next \in CleanPcs
      BY DEF HoldPcs, WalkPcs, CleanPcs, RemovePcs
    <2>2. lease' = lease /\ lease \in [Slots -> Actors \cup {None}]
      BY <1>3 DEF Locks, Inv, TypeInv
    <2>3. i \in Slots /\ lease'[i] = a /\ Sound(journal[i], model[i])
      BY <1>1, <2>2, HeldSlot
    <2>4. Registered(journal[i], model[i])
      <3>1. journal[i] \in JournalFiles /\ model[i] \in CopyFiles
        BY <2>3 DEF Inv, TypeInv
      <3>2. QED
        BY <1>3, <2>3, <3>1
           DEF Sound, Stuck, Recoverable, Named, JournalFiles, CopyFiles, Names, Empty, Header, Bound
    <2>5. Progress(next, journal[i], model[i])
      BY <2>1, <2>4, CleanProgress
    <2>6. QED
      BY <1>1, <1>3, <2>1, <2>2, <2>3, <2>5, LocksOnly
  <1>4. QED
    BY <1>2, <1>3 DEF Inspect

LEMMA RemoveStep ==
    ASSUME Inv, NEW a \in Actors, NEW here \in RemovePcs, NEW unlinked \in RemovePcs,
           NEW done \in {"cleaned", "cleared", "dropped"}, Remove(a, here, unlinked, done)
    PROVE  OwnStep(a)
  <1> DEFINE i == actor[a].slot  j == journal[i]  m == model[i]
  <1>1. actor[a].pc \in RemovePcs /\ lease' = lease
    BY DEF Remove, At, Locks
  <1>2. RemovePcs \subseteq HoldPcs /\ RemovePcs \subseteq CleanPcs
    BY DEF HoldPcs, CleanPcs, RemovePcs
  <1>3. i \in Slots /\ Progress(actor[a].pc, j, m)
    BY <1>1, <1>2, HeldSlot
  <1>4. Registered(j, m)
    BY <1>1, <1>2, <1>3, CleanProgress
  <1>5. j \in JournalFiles /\ m \in CopyFiles
    BY <1>3 DEF Inv, TypeInv
  <1>6. \A pc \in RemovePcs : \A x, y : Registered(x, y) => Progress(pc, x, y)
    BY <1>2, CleanProgress
  <1>7. journal = [journal EXCEPT ![i] = j] /\ model = [model EXCEPT ![i] = m]
    BY <1>3 DEF Inv, TypeInv
  <1>8. CASE RemoveModel(i) /\ Goto(a, unlinked, i)
    <2> DEFINE n == [NoModel EXCEPT !.old = m.old \cup Contents(i)]
    <2>1. journal' = [journal EXCEPT ![i] = j] /\ model' = [model EXCEPT ![i] = n] /\ Named(m)
      BY <1>7, <1>8 DEF RemoveModel
    <2>2. n \in CopyFiles /\ n.old = m.old \cup {FALSE, m.bytes} /\ n.name = "absent"
      BY <1>5 DEF NoModel, Contents, CopyFiles, Names
    <2>3. m.old = {} /\ j.name = "kept" /\ j.synced >= Header /\ (m.bytes => j.text = Bound /\ j.synced = Bound)
      BY <1>4, <2>1 DEF Registered
    <2>4. TRUE \in n.old => m.bytes
      BY <2>2, <2>3, Zenon
    <2> HIDE DEF n
    <2>5. Registered(j, n)
      BY <1>4, <2>2, <2>3, <2>4 DEF Registered, Named
    <2>6. QED
      BY <1>1, <1>2, <1>5, <1>6, <1>8, <2>1, <2>2, <2>5, HeldStep
  <1>9. CASE RemoveJournal(i) /\ Goto(a, unlinked, i)
    <2> DEFINE n == [NoJournal EXCEPT !.old = j.old \cup Texts(i)]
    <2>1. model' = [model EXCEPT ![i] = m] /\ journal' = [journal EXCEPT ![i] = n] /\ ~Named(m)
      BY <1>7, <1>9 DEF RemoveJournal
    <2>2. n \in JournalFiles /\ n.name = "absent" /\ n.text = Empty /\ n.synced = Empty
      BY <1>5 DEF NoJournal, Texts, JournalFiles, Names, Empty, Bound
    <2> HIDE DEF n
    <2>3. Registered(n, m)
      BY <2>1, <2>2 DEF Registered, Empty
    <2>4. QED
      BY <1>1, <1>2, <1>5, <1>6, <1>9, <2>1, <2>2, <2>3, HeldStep
  <1>10. CASE ~Named(m) /\ ~Named(j) /\ Goto(a, done, i) /\ Files
    <2>1. m.name = "absent" /\ j.name = "absent"
      BY <1>10 DEF Named
    <2>2. done \in HoldPcs /\ Progress(done, j, m)
      BY <1>4, <2>1, SMTT(30) DEF HoldPcs, CleanPcs, RemovePcs, WritePcs, Progress
    <2>3. journal' = [journal EXCEPT ![i] = j] /\ model' = [model EXCEPT ![i] = m]
      BY <1>7, <1>10 DEF Files
    <2>4. QED
      BY <1>1, <1>2, <1>4, <1>5, <1>10, <2>2, <2>3, HeldStep
  <1>11. CASE SyncDirectory(i) /\ Goto(a, here, i)
    <2>1. journal' = [journal EXCEPT ![i] = Synced(j)] /\ model' = [model EXCEPT ![i] = Synced(m)]
      BY <1>11 DEF SyncDirectory
    <2>2. Synced(j) \in JournalFiles /\ Synced(m) \in CopyFiles /\ Registered(Synced(j), Synced(m))
      BY <1>4, <1>5, SyncedSlot, SMTT(30)
    <2>3. QED
      BY <1>1, <1>2, <1>6, <1>11, <2>1, <2>2, HeldStep
  <1>12. QED
    BY <1>8, <1>9, <1>10, <1>11 DEF Remove

------------------------
(* The steps of a worker that writes its copy. *)

\* A worker that is writing: the facts that each of its steps starts from.
LEMMA Writing ==
    ASSUME Inv, NEW w \in Workers, actor[w].pc \in HoldPcs
    PROVE  LET i == actor[w].slot IN
           /\ w \in Actors /\ i \in Slots
           /\ journal[i] \in JournalFiles
           /\ model[i] \in CopyFiles
           /\ Progress(actor[w].pc, journal[i], model[i])
           /\ actor[w].pc \in WritePcs \cup {"cleared"} => Registered(journal[i], model[i])
           /\ journal = [journal EXCEPT ![i] = journal[i]]
           /\ model = [model EXCEPT ![i] = model[i]]
  <1>1. w \in Actors
    BY DEF Actors
  <1>2. QED
    BY <1>1, HeldSlot DEF Inv, TypeInv, Progress

LEMMA CreateStep ==
    ASSUME Inv, NEW w \in Workers, CreateJournal(w) \/ CreateModel(w)
    PROVE  OwnStep(w)
  <1> DEFINE i == actor[w].slot  j == journal[i]  m == model[i]
  <1>1. actor[w].pc \in HoldPcs /\ lease' = lease
    BY DEF CreateJournal, CreateModel, Do, At, Locks, HoldPcs, WritePcs
  <1>2. CASE CreateJournal(w)
    <2> DEFINE n == [name |-> "new", text |-> Empty, synced |-> Empty, old |-> j.old]
    <2>1. journal' = [journal EXCEPT ![i] = n] /\ model' = [model EXCEPT ![i] = m] /\ Goto(w, "header", i)
      BY <1>1, <1>2, Writing DEF CreateJournal, Do
    <2>2. j \in JournalFiles /\ m \in CopyFiles /\ w \in Actors /\ actor[w].pc = "cleared" /\ Progress("cleared", j, m)
      BY <1>1, <1>2, Writing DEF CreateJournal, Do, At
    <2>3. n \in JournalFiles /\ n.name = "new" /\ n.text = Empty /\ n.synced = Empty
      BY <2>2 DEF JournalFiles, Names, Empty, Bound
    <2> HIDE DEF n
    <2>4. Registered(n, m)
      BY <2>2, <2>3 DEF Progress, Registered, Named, Empty
    <2>5. Progress("header", n, m) /\ "header" \in HoldPcs
      BY <2>2, <2>3, <2>4 DEF Progress, RemovePcs, WritePcs, HoldPcs, Empty, Header
    <2>6. QED
      BY <1>1, <2>1, <2>2, <2>3, <2>4, <2>5, HeldStep
  <1>3. CASE CreateModel(w)
    <2> DEFINE n == [name |-> "new", bytes |-> FALSE, old |-> m.old]
    <2>1. journal' = [journal EXCEPT ![i] = j] /\ model' = [model EXCEPT ![i] = n] /\ Goto(w, "binding", i)
      BY <1>1, <1>3, Writing DEF CreateModel, Do
    <2>2. /\ j \in JournalFiles /\ m \in CopyFiles /\ w \in Actors /\ actor[w].pc = "registered"
          /\ Progress("registered", j, m)
      BY <1>1, <1>3, Writing DEF CreateModel, Do, At
    <2>3. n \in CopyFiles /\ n.name = "new" /\ ~n.bytes /\ n.old = m.old
      BY <2>2 DEF CopyFiles, Names
    <2> HIDE DEF n
    <2>4. /\ Registered(j, m) /\ m.old = {} /\ j.name = "kept" /\ j.text = Header /\ j.synced = Header
      BY <2>2 DEF Progress, WritePcs
    <2>5. Registered(j, n)
      BY <2>3, <2>4 DEF Registered, Named, Header
    <2>6. Progress("binding", j, n) /\ "binding" \in HoldPcs
      BY <2>3, <2>4, <2>5 DEF Progress, RemovePcs, WritePcs, HoldPcs, Named, Header
    <2>7. QED
      BY <1>1, <2>1, <2>2, <2>3, <2>5, <2>6, HeldStep
  <1>4. QED
    BY <1>2, <1>3

LEMMA AppendStep ==
    ASSUME Inv, NEW w \in Workers,
           \/ WriteRecord(w, "header", Header, "syncHeader")
           \/ WriteRecord(w, "binding", Bound, "syncBinding")
    PROVE  OwnStep(w)
  <1> DEFINE i == actor[w].slot  j == journal[i]  m == model[i]  n == [j EXCEPT !.text = @ + 1]
  <1>1. actor[w].pc \in {"header", "binding"} /\ actor[w].pc \in HoldPcs /\ lease' = lease
    BY DEF WriteRecord, At, Locks, HoldPcs, WritePcs
  <1>2. /\ Progress(actor[w].pc, j, m) /\ Registered(j, m) /\ w \in Actors /\ i \in Slots
        /\ j \in JournalFiles /\ m \in CopyFiles
    BY <1>1, Writing DEF WritePcs
  <1>3. j.text < Bound
    BY <1>1, <1>2 DEF Progress, JournalFiles, Empty, Header, Binding, Bound
  <1>4. /\ n \in JournalFiles
        /\ n.text = j.text + 1 /\ n.synced = j.synced /\ n.name = j.name /\ n.old = j.old
    BY <1>2, <1>3 DEF JournalFiles, Empty, Bound
  <1>5. journal' = [journal EXCEPT ![i] = n] /\ model' = [model EXCEPT ![i] = m]
    BY <1>1, Writing DEF WriteRecord
  <1> HIDE DEF n
  <1>6. \/ actor[w].pc = "header" /\ ~Named(m) /\ n.name = "new"
        \/ actor[w].pc = "binding" /\ Named(m) /\ ~m.bytes /\ n.name = "kept"
    BY <1>1, <1>2, <1>4, SMTT(30) DEF Progress, WritePcs, Named
  <1>11. n.synced <= n.text
    BY <1>2, <1>4 DEF Registered, JournalFiles, Empty, Bound
  <1>12. Named(m) => m.old = {} /\ j.old = {} /\ j.synced >= Header
    BY <1>2 DEF Registered
  <1>10. Registered(n, m)
    BY <1>4, <1>6, <1>11, <1>12, RegisteredNone, RegisteredCopy, SMTT(30)
  <1>7. CASE WriteRecord(w, "header", Header, "syncHeader")
    <2>1. actor[w].pc = "header" /\ Goto(w, IF j.text + 1 = Header THEN "syncHeader" ELSE "header", i)
      BY <1>7, SMTT(30) DEF WriteRecord, At
    <2>5. j.text < Header /\ j.name = "new" /\ m.name = "absent"
      BY <1>2, <2>1 DEF Progress
    <2>6. (n.text = Header /\ j.text + 1 = Header) \/ (n.text < Header /\ j.text + 1 # Header)
      BY <1>2, <1>4, <2>5 DEF JournalFiles, Header, Empty, Bound
    <2>2. Progress(IF j.text + 1 = Header THEN "syncHeader" ELSE "header", n, m)
      BY <1>4, <1>10, <2>5, <2>6, SMTT(30) DEF Progress, RemovePcs, WritePcs
    <2>3. (IF j.text + 1 = Header THEN "syncHeader" ELSE "header") \in HoldPcs
      BY SMTT(30) DEF HoldPcs, WritePcs
    <2>4. QED
      BY <1>1, <1>2, <1>4, <1>5, <1>10, <2>1, <2>2, <2>3, HeldStep
  <1>8. CASE WriteRecord(w, "binding", Bound, "syncBinding")
    <2>1. actor[w].pc = "binding" /\ Goto(w, IF j.text + 1 = Bound THEN "syncBinding" ELSE "binding", i)
      BY <1>8, SMTT(30) DEF WriteRecord, At
    <2>2. Progress(IF j.text + 1 = Bound THEN "syncBinding" ELSE "binding", n, m)
      BY <1>2, <1>4, <1>10, <2>1 DEF Progress, RemovePcs, WritePcs, Header, Binding, Bound
    <2>3. (IF j.text + 1 = Bound THEN "syncBinding" ELSE "binding") \in HoldPcs
      BY DEF HoldPcs, WritePcs
    <2>4. QED
      BY <1>1, <1>2, <1>4, <1>5, <1>10, <2>1, <2>2, <2>3, HeldStep
  <1>9. QED
    BY <1>7, <1>8

\* sync_all of the journal, and the sync of the directory.
LEMMA SyncStep ==
    ASSUME Inv, NEW w \in Workers,
           \/ SyncJournal(w, "syncHeader", "syncName") \/ SyncJournal(w, "syncBinding", "syncModel")
           \/ SyncNames(w, "syncName", "registered") \/ SyncNames(w, "syncModel", "created")
    PROVE  OwnStep(w)
  <1> DEFINE i == actor[w].slot  j == journal[i]  m == model[i]  n == [j EXCEPT !.synced = j.text]
  <1>1. actor[w].pc \in HoldPcs /\ lease' = lease
    BY DEF SyncJournal, SyncNames, Do, At, Locks, HoldPcs, WritePcs
  <1>2. /\ Progress(actor[w].pc, j, m) /\ Registered(j, m) /\ w \in Actors /\ i \in Slots
        /\ j \in JournalFiles /\ m \in CopyFiles
    BY <1>1, Writing DEF SyncJournal, SyncNames, Do, At, WritePcs
  <1>3. /\ n \in JournalFiles
        /\ n.text = j.text /\ n.synced = j.text /\ n.name = j.name /\ n.old = j.old
    BY <1>2 DEF JournalFiles
  <1>4. {"syncName", "syncModel", "registered", "created"} \subseteq HoldPcs
    BY SMTT(30) DEF HoldPcs, WritePcs
  <1>5. ASSUME NEW here \in {"syncHeader", "syncBinding"}, NEW next,
               next = (IF here = "syncHeader" THEN "syncName" ELSE "syncModel"), SyncJournal(w, here, next)
        PROVE  OwnStep(w)
    <2>1. actor[w].pc = here /\ Goto(w, next, i)
      BY <1>5 DEF SyncJournal, Do, At
    <2>2. journal' = [journal EXCEPT ![i] = n] /\ model' = [model EXCEPT ![i] = m]
      <3>1. journal' = [journal EXCEPT ![i].synced = j.text] /\ model' = model
        BY <1>5 DEF SyncJournal
      <3>2. QED
        BY <1>1, <3>1, Writing
    <2> HIDE DEF n
    <2>3. Registered(n, m)
      <3>1. n.synced <= n.text
        BY <1>2, <1>3 DEF JournalFiles, Empty, Bound
      <3>2. CASE here = "syncHeader"
        <4>1. m.name = "absent" /\ j.name = "new"
          BY <1>2, <2>1, <3>2 DEF Progress
        <4>2. QED
          BY <1>3, <3>1, <4>1, RegisteredNone DEF Named
      <3>3. CASE here = "syncBinding"
        <4>1. Named(m) /\ j.name = "kept" /\ j.text = Bound
          BY <1>2, <2>1, <3>3 DEF Progress, WritePcs
        <4>2. m.old = {} /\ j.old = {}
          BY <1>2, <4>1 DEF Registered
        <4>3. n.synced >= Header
          BY <1>3, <4>1 DEF Header, Bound
        <4>4. QED
          BY <1>3, <3>1, <4>1, <4>2, <4>3, RegisteredCopy
      <3>4. QED
        BY <1>5, <3>2, <3>3
    <2>4. Progress(next, n, m)
      BY <1>2, <1>3, <1>5, <2>1, <2>3, SMTT(30) DEF Progress, RemovePcs, WritePcs, Header, Bound
    <2>5. QED
      BY <1>1, <1>2, <1>3, <1>4, <1>5, <2>1, <2>2, <2>3, <2>4, HeldStep
  <1>6. ASSUME NEW here \in {"syncName", "syncModel"}, NEW next,
               next = (IF here = "syncName" THEN "registered" ELSE "created"), SyncNames(w, here, next)
        PROVE  OwnStep(w)
    <2>1. actor[w].pc = here /\ Goto(w, next, i)
      BY <1>6 DEF SyncNames, Do, At
    <2>2. journal' = [journal EXCEPT ![i] = Synced(j)] /\ model' = [model EXCEPT ![i] = Synced(m)]
      BY <1>6 DEF SyncNames, SyncDirectory
    <2>3. Progress(next, Synced(j), Synced(m))
      BY <1>2, <1>6, <2>1, SyncedSlot DEF Progress, RemovePcs, WritePcs, Named
    <2>4. QED
      BY <1>1, <1>2, <1>4, <1>6, <2>1, <2>2, <2>3, SyncedSlot, HeldStep
  <1>7. QED
    BY <1>5, <1>6

\* The copy is written, used and given up.
LEMMA UseStep ==
    ASSUME Inv, NEW w \in Workers, Created(w) \/ Copy(w) \/ Finish(w) \/ Dropped(w)
    PROVE  OwnStep(w)
  <1> DEFINE i == actor[w].slot  j == journal[i]  m == model[i]  n == [m EXCEPT !.bytes = TRUE]
  <1>1. actor[w].pc \in HoldPcs
    BY DEF Created, Copy, Finish, Dropped, Do, At, HoldPcs, WritePcs
  <1>2. /\ Progress(actor[w].pc, j, m) /\ w \in Actors /\ i \in Slots
        /\ j \in JournalFiles /\ m \in CopyFiles /\ lease[i] = w
    BY <1>1, Writing, HeldSlot
  <1>10. actor[w].pc \in WritePcs => Registered(j, m)
    BY <1>1, Writing
  <1>3. journal = [journal EXCEPT ![i] = j] /\ model = [model EXCEPT ![i] = m]
    BY <1>1, Writing
  <1>4. {"copying", "using", "dropping"} \subseteq HoldPcs
    BY DEF HoldPcs, WritePcs, CleanPcs, RemovePcs
  <1>5. CASE Created(w)
    <2>1. Progress("copying", j, m) /\ Registered(j, m)
      BY <1>2, <1>5, <1>10, SMTT(30) DEF Created, At, Progress, RemovePcs, WritePcs
    <2>2. QED
      BY <1>1, <1>2, <1>3, <1>4, <1>5, <2>1, HeldStep DEF Created, Files
  <1>6. CASE Copy(w)
    <2>1. PICK next \in {"using", "dropping"} : Do(w, "copying", next)
      BY <1>6 DEF Copy
    <2>2. model' = [model EXCEPT ![i] = n] /\ journal' = [journal EXCEPT ![i] = j] /\ lease' = lease
      <3>1. model' = [model EXCEPT ![i].bytes = TRUE] /\ journal' = journal
        BY <1>6 DEF Copy
      <3>2. QED
        BY <1>2, <1>3, <2>1, <3>1 DEF Do, Locks
    <2>3. n \in CopyFiles /\ n.bytes /\ n.name = m.name /\ n.old = m.old
      BY <1>2 DEF CopyFiles
    <2> HIDE DEF n
    <2>4. actor[w].pc = "copying" /\ Goto(w, next, i)
      BY <2>1 DEF Do, At
    <2>5. /\ Registered(j, m) /\ Named(m) /\ j.name = "kept" /\ j.text = Bound /\ j.synced = Bound
      BY <1>2, <1>10, <2>4 DEF Progress, WritePcs
    <2>6. Registered(j, n)
      BY <2>3, <2>5 DEF Registered, Named, Header, Bound
    <2>7. Progress(next, j, n)
      BY <2>3, <2>5, <2>6 DEF Progress, RemovePcs, WritePcs, Named
    <2>8. QED
      BY <1>1, <1>2, <1>4, <2>2, <2>3, <2>4, <2>6, <2>7, HeldStep
  <1>7. CASE Finish(w)
    <2>1. Progress("dropping", j, m)
      BY CleanProgress DEF CleanPcs, RemovePcs
    <2>2. Registered(j, m)
      BY <1>7, <1>10 DEF Finish, Do, At, WritePcs
    <2>3. QED
      BY <1>1, <1>2, <1>3, <1>4, <1>7, <2>1, <2>2, HeldStep DEF Finish, Do, Locks, Files
  <1>8. CASE Dropped(w)
    <2>1. /\ lease' \in [Slots -> Actors \cup {None}]
          /\ \A s \in Slots : lease[s] \notin {w, None} => lease'[s] = lease[s]
      BY <1>2, <1>8 DEF Dropped, Inv, TypeInv
    <2>2. QED
      BY <1>2, <1>8, <2>1, LocksOnly DEF Dropped, WalkPcs, HoldPcs, CleanPcs, RemovePcs, WritePcs
  <1>9. QED
    BY <1>5, <1>6, <1>7, <1>8

------------------------
(* The walk over the slots, and the faults. *)

LEMMA OpenStep ==
    ASSUME Inv, NEW a \in Actors, Reclaim(a) \/ (a \in Workers /\ Create(a))
    PROVE  OwnStep(a)
  <1>1. PICK pc \in WalkPcs : OpenStore(a, pc)
    BY DEF Reclaim, Create, WalkPcs
  <1>2. Goto(a, pc, 1) /\ Files /\ lease' = lease
    BY <1>1 DEF OpenStore
  <1>3. 1 \in Slots /\ lease \in [Slots -> Actors \cup {None}]
    BY SlotAssumption DEF Slots, Inv, TypeInv
  <1>4. pc \notin HoldPcs
    BY DEF WalkPcs, HoldPcs, CleanPcs, RemovePcs, WritePcs
  <1>5. QED
    BY <1>2, <1>3, <1>4, LocksOnly

LEMMA WalkStep ==
    ASSUME Inv, NEW a \in Actors,
           ReclaimSlot(a) \/ Reclaimed(a) \/ (a \in Workers /\ ChooseSlot(a))
    PROVE  OwnStep(a)
  <1> DEFINE i == actor[a].slot
  <1>1. actor[a].pc \in WalkPcs \cup {"cleaned"} /\ Files
    BY DEF ReclaimSlot, Reclaimed, ChooseSlot, At, WalkPcs
  <1>2. i \in Slots
    BY <1>1 DEF Inv, Leased, HoldPcs, CleanPcs, RemovePcs
  <1>3. CASE Leave(a, i)
    BY <1>1, <1>3, LeaveStep
  <1>4. CASE GiveUp(a)
    BY <1>1, <1>4, GiveUpStep
  <1>5. CASE Free(i) /\ lease' = [lease EXCEPT ![i] = a]
             /\ \E pc \in {"cleaning", "clearing", "marking"} : Goto(a, pc, i)
    <2>1. PICK pc \in {"cleaning", "clearing", "marking"} : Goto(a, pc, i)
      BY <1>5
    <2>2. /\ lease' \in [Slots -> Actors \cup {None}] /\ lease'[i] = a
          /\ \A s \in Slots : lease[s] \notin {a, None} => lease'[s] = lease[s]
      BY <1>2, <1>5 DEF Inv, TypeInv, Free
    <2>3. pc \in HoldPcs /\ pc \notin WalkPcs /\ Progress(pc, journal[i], model[i])
      BY CleanProgress DEF WalkPcs, HoldPcs, CleanPcs, RemovePcs
    <2>4. QED
      BY <1>1, <1>2, <2>1, <2>2, <2>3, LocksOnly
  <1>6. QED
    BY <1>3, <1>4, <1>5 DEF ReclaimSlot, Reclaimed, ChooseSlot

LEMMA MarkStep ==
    ASSUME Inv, NEW w \in Workers, Mark(w)
    PROVE  OwnStep(w)
  <1>1. actor[w].pc \in HoldPcs /\ w \in Actors
    BY DEF Mark, At, HoldPcs, Actors
  <1>2. actor[w].slot \in Slots /\ lease[actor[w].slot] = w /\ lease \in [Slots -> Actors \cup {None}]
    BY <1>1, HeldSlot DEF Inv, TypeInv
  <1>3. Files /\ lease' = lease /\ Goto(w, "clearing", actor[w].slot)
    BY DEF Mark
  <1>4. "clearing" \in HoldPcs /\ "clearing" \notin WalkPcs
        /\ Progress("clearing", journal[actor[w].slot], model[actor[w].slot])
    BY CleanProgress DEF WalkPcs, HoldPcs, CleanPcs, RemovePcs
  <1>5. QED
    BY <1>1, <1>2, <1>3, <1>4, LocksOnly

\* A process that ends takes its locks with it and leaves the files.
LEMMA KillInv ==
    ASSUME Inv, NEW who \in SUBSET Actors, Unlocked(who), TypeInv',
           \A i \in Slots : Sound(journal'[i], model'[i]),
           \A i \in Slots : lease[i] \notin who => journal'[i] = journal[i] /\ model'[i] = model[i]
    PROVE  Inv'
  <1>1. \A a \in Actors : actor'[a] = IF a \in who THEN Idle ELSE actor[a]
    BY DEF Unlocked
  <1>2. \A i \in Slots : lease'[i] = IF lease[i] \in who THEN None ELSE lease[i]
    BY DEF Unlocked
  <1>3. \A a \in Actors : actor'[a].pc # "idle" => a \notin who /\ actor'[a] = actor[a]
    BY <1>1 DEF Idle
  <1>4. \A a \in Actors : actor'[a].pc \in WalkPcs \cup HoldPcs => a \notin who /\ actor'[a] = actor[a]
    BY <1>3 DEF WalkPcs, HoldPcs, CleanPcs, RemovePcs, WritePcs
  <1>5. QED
    BY <1>2, <1>4 DEF Inv, Leased

LEMMA KillStep ==
    ASSUME Inv, NEW a \in Actors, Kill(a)
    PROVE  Inv'
  <1>1. Unlocked({a}) /\ Files
    BY DEF Kill
  <1>2. TypeInv'
    BY <1>1 DEF Inv, TypeInv, Unlocked, Files, Idle
  <1>3. QED
    BY <1>1, <1>2, KillInv DEF Inv, Files

\* Of a slot, a power loss leaves files that are synced, and it takes the
\* registration of a model only where both removals were not.
LEMMA PowerLossSlot ==
    ASSUME Inv, NEW i \in Slots, NEW j \in JournalsLeft(i), NEW m \in ModelsLeft(i)
    PROVE  /\ j \in JournalFiles /\ m \in CopyFiles /\ Sound(j, m)
           /\ Registered(journal[i], model[i]) /\ ~BothRemovalsPend(i) => Registered(j, m)
  <1>1. journal[i] \in JournalFiles /\ model[i] \in CopyFiles /\ Sound(journal[i], model[i])
    BY DEF Inv, TypeInv
  <1>2. /\ j \in JournalFiles /\ j.old = {} /\ j.synced = j.text /\ j.name \in {"absent", "kept"}
        /\ journal[i].name = "kept" => /\ j.name = "kept"
                                       /\ j.text \in journal[i].old \/ journal[i].synced <= j.text
    BY <1>1 DEF JournalsLeft, Lost, Texts, NoJournal, Named, JournalFiles, Names, Empty, Bound
  <1>3. m = NoModel \/ \E b \in BOOLEAN : m = [name |-> "kept", bytes |-> b, old |-> {}]
    BY <1>1 DEF ModelsLeft, Lost, Contents, CopyFiles
  <1>4. m \in CopyFiles /\ m.old = {} /\ m.name \in {"absent", "kept"}
    <2>1. CASE m = NoModel
      BY <2>1 DEF NoModel, CopyFiles, Names
    <2>2. ASSUME NEW b \in BOOLEAN, m = [name |-> "kept", bytes |-> b, old |-> {}]
          PROVE  m \in CopyFiles /\ m.old = {} /\ m.name \in {"absent", "kept"}
      BY <2>2 DEF CopyFiles, Names
    <2>3. QED
      BY <1>3, <2>1, <2>2
  <1>5. Sound(j, m)
    BY <1>2, <1>4 DEF Sound, Registered, Stuck, Named, JournalFiles, Empty, Header, Bound
  <1>6. ASSUME Registered(journal[i], model[i]), ~BothRemovalsPend(i)
        PROVE  Registered(j, m)
    <2>1. CASE ~Named(m)
      BY <1>2, <1>4, <2>1 DEF Registered, JournalFiles, Empty, Bound
    <2>2. CASE Named(m) /\ Named(model[i])
      <3>1. journal[i].name = "kept" /\ journal[i].synced >= Header /\ journal[i].old = {} /\ model[i].old = {}
        BY <1>6, <2>2 DEF Registered
      <3>2. m.bytes => model[i].bytes
        <4>1. m # NoModel
          BY <2>2 DEF Named, NoModel
        <4>2. m \in {[name |-> "kept", bytes |-> b, old |-> {}] : b \in {FALSE, model[i].bytes}}
          BY <2>2, <3>1, <4>1 DEF ModelsLeft, Lost, Contents
        <4>3. m.bytes = FALSE \/ m.bytes = model[i].bytes
          BY <4>2
        <4>4. QED
          BY <4>3, Zenon
      <3>3. m.bytes => journal[i].synced = Bound
        BY <1>6, <2>2, <3>2 DEF Registered
      <3>4. j.name = "kept" /\ j.text >= journal[i].synced
        BY <1>2, <3>1
      <3>5. QED
        BY <1>1, <1>2, <1>4, <3>1, <3>3, <3>4 DEF Registered, JournalFiles, Empty, Header, Bound
    <2>3. CASE Named(m) /\ ~Named(model[i])
      <3>1. m.bytes \in model[i].old
        BY <2>3 DEF ModelsLeft, Lost, Named, NoModel
      <3>2. journal[i].name = "kept" /\ journal[i].synced >= Header /\ journal[i].old = {}
        BY <1>6, <3>1 DEF BothRemovalsPend, Registered
      <3>3. m.bytes => journal[i].synced = Bound
        <4>1. m.bytes => TRUE \in model[i].old
          BY <1>3, <3>1, Zenon DEF NoModel
        <4>2. QED
          BY <1>6, <3>1, <3>2, <4>1 DEF Registered
      <3>4. j.name = "kept" /\ j.text >= journal[i].synced
        BY <1>2, <3>2
      <3>5. QED
        BY <1>1, <1>2, <1>4, <3>2, <3>3, <3>4 DEF Registered, JournalFiles, Empty, Header, Bound
    <2>4. QED
      BY <2>1, <2>2, <2>3
  <1>7. QED
    BY <1>2, <1>4, <1>5, <1>6

LEMMA PowerLossStep ==
    ASSUME Inv, PowerLoss
    PROVE  /\ Inv'
           /\ \A i \in Slots : journal'[i] \in JournalsLeft(i) /\ model'[i] \in ModelsLeft(i)
  <1>1. /\ \A i \in Slots : journal'[i] \in JournalsLeft(i) /\ model'[i] \in ModelsLeft(i)
        /\ DOMAIN journal' = Slots /\ DOMAIN model' = Slots
        /\ journal' = [i \in Slots |-> journal'[i]] /\ model' = [i \in Slots |-> model'[i]]
    BY DEF PowerLoss
  <1>2. \A i \in Slots : journal'[i] \in JournalFiles /\ model'[i] \in CopyFiles /\ Sound(journal'[i], model'[i])
    BY <1>1, PowerLossSlot
  <1>3. Unlocked(Actors)
    BY DEF PowerLoss
  <1>4. journal' \in [Slots -> JournalFiles] /\ model' \in [Slots -> CopyFiles]
    BY <1>1, <1>2
  <1>5. TypeInv'
    BY <1>3, <1>4 DEF Inv, TypeInv, Unlocked, Idle
  <1>6. \A a \in Actors : actor'[a].pc = "idle"
    BY <1>3 DEF Unlocked, Idle
  <1>7. Inv'
    BY <1>2, <1>5, <1>6 DEF Inv, Leased, WalkPcs, HoldPcs, CleanPcs, RemovePcs, WritePcs
  <1>8. QED
    BY <1>1, <1>7

------------------------

LEMMA InitInv == Init => Inv
<1>1. NoJournal \in JournalFiles /\ NoModel \in CopyFiles /\ Registered(NoJournal, NoModel)
  BY DEF NoJournal, NoModel, JournalFiles, CopyFiles, Names, Registered, Named, Empty, Bound
<1>2. "idle" \notin WalkPcs \cup HoldPcs
  BY DEF WalkPcs, HoldPcs, CleanPcs, RemovePcs, WritePcs
<1>3. QED
  BY <1>1, <1>2 DEF Init, Inv, TypeInv, Leased, Sound, Idle

\* A step is one of an actor on its own slot, or a fault.
LEMMA NextSteps ==
    ASSUME Inv, Next
    PROVE  (\E a \in Actors : OwnStep(a)) \/ (\E a \in Actors : Kill(a)) \/ PowerLoss
<1>1. ASSUME NEW a \in Actors, Reclaim(a) \/ ReclaimSlot(a) \/ Reclaimed(a) PROVE OwnStep(a)
  BY <1>1, OpenStep, WalkStep
<1>2. ASSUME NEW a \in Actors, Reclaiming(a) PROVE OwnStep(a)
  <2>1. CASE Inspect(a, "cleaning", "removing")
    BY <2>1, InspectStep DEF CleanPcs, RemovePcs
  <2>2. CASE Remove(a, "removing", "removed", "cleaned")
    BY <2>2, RemoveStep DEF RemovePcs
  <2>3. QED
    BY <1>2, <2>1, <2>2 DEF Reclaiming
<1>3. ASSUME NEW w \in Workers, Create(w) \/ ChooseSlot(w) \/ Mark(w) \/ Snapshot(w)
      PROVE  w \in Actors /\ OwnStep(w)
  BY <1>3, OpenStep, WalkStep, MarkStep, CreateStep, AppendStep, SyncStep, UseStep DEF Snapshot, Actors
<1>4. ASSUME NEW w \in Workers, Clearing(w) PROVE w \in Actors /\ OwnStep(w)
  <2>1. w \in Actors
    BY DEF Actors
  <2>2. CASE Inspect(w, "clearing", "emptying") \/ Inspect(w, "dropping", "deleting")
    BY <2>1, <2>2, InspectStep DEF CleanPcs, RemovePcs
  <2>3. CASE Remove(w, "emptying", "emptied", "cleared")
    BY <2>1, <2>3, RemoveStep DEF RemovePcs
  <2>4. CASE Remove(w, "deleting", "deleted", "dropped")
    BY <2>1, <2>4, RemoveStep DEF RemovePcs
  <2>5. QED
    BY <1>4, <2>1, <2>2, <2>3, <2>4 DEF Clearing
<1>5. QED
  BY <1>1, <1>2, <1>3, <1>4 DEF Next

LEMMA StepInv == Inv /\ [Next]_vars => Inv'
<1> SUFFICES ASSUME Inv, [Next]_vars PROVE Inv'
  OBVIOUS
<1>1. CASE Next
  BY <1>1, NextSteps, OwnStepInv, KillStep, PowerLossStep
<1>2. CASE UNCHANGED vars
  BY <1>2 DEF vars, Inv, TypeInv, Leased
<1>3. QED
  BY <1>1, <1>2

\* scratch.rs, for every number of workers, slots, kills and power losses: a copy
\* that a worker's native session reads is whole and is not removed under it.
THEOREM LiveCopyStays == Spec => []LiveCopyIsKept
  <1>1. Inv => LiveCopyIsKept
    BY DEF Inv, Leased, LiveCopyIsKept, At, Progress, Actors, HoldPcs, WritePcs
  <1>2. QED
    BY InitInv, StepInv, <1>1, PTL DEF Spec

\* Slot::cleanup and create, likewise: a copy that the next cleanup takes becomes
\* one that no cleanup takes only where the power goes while its removal and its
\* journal's are both not synced.
THEOREM EveryCopyIsRecoverable == Spec => CopiesAreRecoverable
  <1>1. ASSUME Inv, [Next]_vars, NEW i \in Slots, Unregistered(i)',
               ~Unregistered(i)
        PROVE  BothRemovalsPend(i) /\ PowerLoss
    <2>1. /\ journal[i] \in JournalFiles /\ model[i] \in CopyFiles /\ Sound(journal[i], model[i])
      BY <1>1 DEF Inv, TypeInv
    <2>2. Inv'
      BY <1>1, StepInv
    <2>3. journal'[i] \in JournalFiles /\ model'[i] \in CopyFiles
      BY <2>2 DEF Inv, TypeInv
    <2>4. Registered(journal[i], model[i])
      BY <1>1, <2>1 DEF Sound, Stuck, Unregistered, Named
    <2>5. ~Registered(journal'[i], model'[i])
      BY <1>1, <2>3, RegisteredIsTaken DEF Unregistered
    <2>6. ~(journal'[i] = journal[i] /\ model'[i] = model[i])
      BY <2>4, <2>5
    <2>7. ~(\E a \in Actors : OwnStep(a))
      BY <2>5, <2>6 DEF OwnStep
    <2>8. ~(\E a \in Actors : Kill(a))
      BY <2>6 DEF Kill, Files
    <2>9. Next
      BY <1>1, <2>6 DEF vars
    <2>10. PowerLoss
      BY <1>1, <2>7, <2>8, <2>9, NextSteps
    <2>11. QED
      BY <1>1, <2>4, <2>5, <2>10, PowerLossStep, PowerLossSlot
  <1>2. ASSUME Inv, [Next]_vars
        PROVE  [\A i \in Slots : Unregistered(i)' =>
                   \/ Unregistered(i)
                   \/ BothRemovalsPend(i) /\ PowerLoss]_vars
    BY <1>1, <1>2
  <1>3. QED
    BY InitInv, StepInv, <1>2, PTL DEF Spec, CopiesAreRecoverable

------------------------
(* WorkerCall: a successful call. *)

CallPcs == {"idle", "writing", "waiting", "collecting", "supervising", "stopping", "returned", "gone"}

Results == {"none", "ok", "failed", "verification", "cancelled", "temporary", "dropped"}

CallTypes ==
    /\ kind \in {"oneShot", "supervised"}
    /\ call \in [pc : CallPcs, result : Results]
    /\ input \in [sent : Nat, held : Nat, closed : BOOLEAN]
    /\ child \in [state : {"none", "running", "dead"}, reaped : BOOLEAN, ok : BOOLEAN, read : Nat]
    /\ stream \in [{"out", "err"} -> [wrote : Nat, held : Nat]]
    /\ drain \in [{"out", "err"} -> [got : Nat, state : {"open", "over", "whole"}]]

\* What a stream's reader has got, what is still in the pipe, and no more.
Counted(s) ==
    /\ stream[s].wrote = drain[s].got + stream[s].held
    /\ drain[s].state # "over" => drain[s].got <= Limit
    /\ drain[s].state = "whole" => stream[s].held = 0 /\ child.state = "dead"

\* An exit status is known once the child is dead, and a good one is given only
\* by a child that has read its request.
CallInv ==
    /\ CallTypes
    /\ child.state = "none" => call.pc \in {"idle", "returned", "gone"}
    /\ call.pc = "idle" => child.state = "none"
    /\ child.reaped => child.state = "dead"
    /\ child.ok => child.state = "dead" /\ child.read = Request
    /\ call.pc = "collecting" => child.reaped
    /\ \A s \in {"out", "err"} : Counted(s)
    /\ call.result = "ok" =>
         child.reaped /\ child.ok /\ \A s \in {"out", "err"} : drain[s].state = "whole"

LEMMA CallInit == Call!Init => CallInv
  BY CallAssumption, SMTT(30)
     DEF Call!Init, Call!Streams, CallInv, CallTypes, CallPcs, Results, Counted

LEMMA CallStepInv == CallInv /\ [Call!Next]_Call!vars => CallInv'
<1> SUFFICES ASSUME CallInv, [Call!Next]_Call!vars PROVE CallInv'
  OBVIOUS
<1> USE CallAssumption
   DEF CallInv, CallTypes, CallPcs, Results, Counted, Call!At, Call!Goto, Call!Stop,
        Call!Return, Call!Running, Call!Supervised, Call!Over, Call!Streams
<1>1. CASE Call!Start
  BY <1>1 DEF Call!Start
<1>2. CASE Call!Write
  <2>1. UNCHANGED <<kind, child, stream, drain>>
    BY <1>2 DEF Call!Write
  <2>2. input' \in [sent : Nat, held : Nat, closed : BOOLEAN]
    <3>1. CASE input' = input
      BY <3>1
    <3>2. CASE input' = [input EXCEPT !.sent = @ + 1, !.held = @ + 1]
      <4>1. input.sent + 1 \in Nat /\ input.held + 1 \in Nat
        OBVIOUS
      <4>2. QED
        BY <3>2, <4>1
    <3>3. CASE input' = [input EXCEPT !.closed = TRUE]
      BY <3>3
    <3>4. QED
      BY <1>2, <3>1, <3>2, <3>3 DEF Call!Write
  <2>3. /\ call' \in [pc : CallPcs \ {"idle", "collecting"}, result : Results]
        /\ call'.result = "ok" => call.result = "ok"
    BY <1>2 DEF Call!Write
  <2>4. child.state # "none"
    BY <1>2 DEF Call!Write
  <2>5. QED
    BY <2>1, <2>2, <2>3, <2>4
<1>3. CASE Call!Reap
  BY <1>3, ZenonT(40) DEF Call!Reap
<1>4. CASE Call!DeadlinePasses \/ Call!PollCancel
  BY <1>4 DEF Call!DeadlinePasses, Call!PollCancel
<1>5. CASE Call!Kill
  BY <1>5 DEF Call!Kill
<1>6. CASE Call!Collect
  BY <1>6 DEF Call!Collect, Call!Finished, Call!Outcome
<1>7. CASE Call!Drop
  BY <1>7 DEF Call!Drop
<1>8. ASSUME NEW s \in Call!Streams, Call!Read(s) PROVE CallInv'
  BY <1>8 DEF Call!Read
<1>9. ASSUME NEW s \in Call!Streams, Call!ChildWrites(s) PROVE CallInv'
  BY <1>9 DEF Call!ChildWrites
<1>10. CASE Call!ChildReads
  BY <1>10 DEF Call!ChildReads
<1>11. ASSUME NEW ok \in BOOLEAN, Call!ChildExits(ok) PROVE CallInv'
  BY <1>11, ZenonT(40) DEF Call!ChildExits
<1>12. CASE Call!GuardExits
  BY <1>11, <1>12 DEF Call!GuardExits
<1>13. CASE Call!Cancel \/ Call!Expire \/ Call!AppDies
  BY <1>13, ZenonT(60) DEF Call!Cancel, Call!Expire, Call!AppDies
<1>14. CASE UNCHANGED Call!vars
  BY <1>14 DEF Call!vars
<1>15. QED
  BY <1>1, <1>2, <1>3, <1>4, <1>5, <1>6, <1>7, <1>8, <1>9, <1>10, <1>11, <1>12, <1>13, <1>14
  DEF Call!Next

\* execute of both launchers, for every size of request, pipe and limit: a call
\* that succeeds has all that its worker wrote before a good exit.
THEOREM AnswersAreWhole == Call!Spec => []AnswerIsWhole
  <1>1. CallInv => AnswerIsWhole
    BY DEF CallInv, CallTypes, Counted, AnswerIsWhole, Call!AnswerIsWhole, Call!Streams
  <1>2. QED
    BY CallInit, CallStepInv, <1>1, PTL DEF Call!Spec

------------------------
(* VerifiedWorker: the order of a worker's steps. *)

Reads == {"decode", "load"}

\* A file is opened, then hashed, then read once; what a library has read by its
\* path is verified afterwards; the answer comes last.
WellFormed(s) ==
    /\ Len(s) \in Nat \ {0}
    /\ \A i \in 1 .. Len(s) : s[i][1] = "answer" <=> i = Len(s)
    /\ \A i, j \in 1 .. Len(s) : s[i][1] = "open" /\ s[j] = <<"hash", s[i][2]>> => i < j
    /\ \A j \in 1 .. Len(s) : s[j][1] = "hash" =>
          \E i \in 1 .. Len(s) : i < j /\ s[i] = <<"open", s[j][2]>>
    /\ \A i \in 1 .. Len(s) : s[i][1] \in Reads => s[i][2] \in Verified!Files
    /\ \A i \in 1 .. Len(s) : s[i][1] \in Reads =>
          \E h \in 1 .. Len(s) : h < i /\ s[h] = <<"hash", s[i][2]>>
    /\ \A i, j \in 1 .. Len(s) :
          s[i][1] \in Reads /\ s[j][1] \in Reads /\ s[i][2] = s[j][2] => i = j
    /\ \A i \in 1 .. Len(s) : s[i][1] = "load" =>
          \E v \in 1 .. Len(s) : i < v /\ s[v] = <<"verify", s[i][2]>>

LEMMA SummaryIsWellFormed == WellFormed(Verified!SummaryScript)
<1> DEFINE S == Verified!SummaryScript
<1>1. Len(S) = 8
  BY DEF Verified!SummaryScript, Verified!Opened
<1>2. \A i \in 1 .. 8 : S[i] =
          <<<<"open", "model">>, <<"hash", "model">>, <<"verify", "model">>,
            <<"load", "model">>, <<"verify", "model">>, <<"infer", "model">>,
            <<"verify", "model">>, <<"answer", "model">>>>[i]
  BY SMTT(30) DEF Verified!SummaryScript, Verified!Opened
<1> HIDE DEF S
<1>3. WellFormed(S)
  BY <1>1, <1>2 DEF WellFormed, Verified!Files, Reads
<1>4. QED
  BY <1>3 DEF S

LEMMA WhisperIsWellFormed == WellFormed(Verified!WhisperScript)
<1> DEFINE S == Verified!WhisperScript
<1>1. Len(S) = 14
  BY DEF Verified!WhisperScript, Verified!Opened, Verified!WhisperTranscribes
<1>2. \A i \in 1 .. 14 : S[i] =
          <<<<"open", "model">>, <<"hash", "model">>, <<"verify", "model">>,
            <<"open", "audio">>, <<"hash", "audio">>, <<"verify", "audio">>,
            <<"decode", "audio">>, <<"verify", "audio">>, <<"verify", "model">>,
            <<"load", "model">>, <<"verify", "model">>, <<"infer", "model">>,
            <<"verify", "model">>, <<"answer", "audio">>>>[i]
  BY SMTT(30) DEF Verified!WhisperScript, Verified!Opened, Verified!WhisperTranscribes
<1> HIDE DEF S
<1>3. WellFormed(S)
  BY <1>1, <1>2, SMTT(40) DEF WellFormed, Verified!Files, Reads
<1>4. QED
  BY <1>3 DEF S

LEMMA QwenIsWellFormed == WellFormed(Verified!QwenScript)
<1> DEFINE S == Verified!QwenScript
<1>1. Len(S) = 31
  BY DEF Verified!QwenScript, Verified!QwenOpened, Verified!Opened,
         Verified!QwenTranscribes,
         Verified!QwenVerified
<1>2. /\ S[1] = <<"list", <<"config", "weights">>>>
      /\ S[2] = <<"open", "config">>
      /\ S[3] = <<"hash", "config">>
      /\ S[4] = <<"verify", "config">>
      /\ S[5] = <<"open", "weights">>
      /\ S[6] = <<"hash", "weights">>
      /\ S[7] = <<"verify", "weights">>
      /\ S[8] = <<"list", <<"aligner">>>>
  BY DEF Verified!QwenScript, Verified!QwenOpened, Verified!Opened,
         Verified!QwenTranscribes,
         Verified!QwenVerified
<1>3. /\ S[9] = <<"open", "aligner">>
      /\ S[10] = <<"hash", "aligner">>
      /\ S[11] = <<"verify", "aligner">>
      /\ S[12] = <<"open", "audio">>
      /\ S[13] = <<"hash", "audio">>
      /\ S[14] = <<"verify", "audio">>
      /\ S[15] = <<"decode", "audio">>
      /\ S[16] = <<"verify", "audio">>
  BY DEF Verified!QwenScript, Verified!QwenOpened, Verified!Opened,
         Verified!QwenTranscribes,
         Verified!QwenVerified
<1>4. /\ S[17] = <<"verify", "config">>
      /\ S[18] = <<"verify", "weights">>
      /\ S[19] = <<"verify", "aligner">>
      /\ S[20] = <<"load", "config">>
      /\ S[21] = <<"load", "weights">>
      /\ S[22] = <<"load", "aligner">>
      /\ S[23] = <<"verify", "config">>
      /\ S[24] = <<"verify", "weights">>
  BY DEF Verified!QwenScript, Verified!QwenOpened, Verified!Opened,
         Verified!QwenTranscribes,
         Verified!QwenVerified
<1>5. /\ S[25] = <<"verify", "aligner">>
      /\ S[26] = <<"infer", "aligner">>
      /\ S[27] = <<"verify", "audio">>
      /\ S[28] = <<"verify", "config">>
      /\ S[29] = <<"verify", "weights">>
      /\ S[30] = <<"verify", "aligner">>
      /\ S[31] = <<"answer", "audio">>
  BY DEF Verified!QwenScript, Verified!QwenOpened, Verified!Opened,
         Verified!QwenTranscribes,
         Verified!QwenVerified
<1> HIDE DEF S
<1>6. \A i \in 1 .. 31 : S[i][1] = "answer" <=> i = 31
  BY <1>2, <1>3, <1>4, <1>5, SMTT(30)
<1>7. \A i, j \in 1 .. 31 : S[i][1] = "open" /\ S[j] = <<"hash", S[i][2]>> => i < j
  BY <1>2, <1>3, <1>4, <1>5
<1>8. \A i \in 1 .. 31 : S[i][1] \in Reads => S[i][2] \in Verified!Files
  BY <1>2, <1>3, <1>4, <1>5 DEF Reads, Verified!Files
<1>9. \A i \in 1 .. 31 : S[i][1] \in Reads => \E h \in 1 .. 31 : h < i /\ S[h] = <<"hash", S[i][2]>>
  BY <1>2, <1>3, <1>4, <1>5, SMTT(30) DEF Reads
<1>10. \A i, j \in 1 .. 31 : S[i][1] \in Reads /\ S[j][1] \in Reads /\ S[i][2] = S[j][2] => i = j
  BY <1>2, <1>3, <1>4, <1>5, SMTT(30) DEF Reads
<1>11. \A i \in 1 .. 31 : S[i][1] = "load" => \E v \in 1 .. 31 : i < v /\ S[v] = <<"verify", S[i][2]>>
  BY <1>2, <1>3, <1>4, <1>5, SMTT(30)
<1>12. \A j \in 1 .. 31 : S[j][1] = "hash" => \E i \in 1 .. 31 : i < j /\ S[i] = <<"open", S[j][2]>>
  BY <1>2, <1>3, <1>4, <1>5
<1>13. WellFormed(S)
  <2>1. Len(S) \in Nat \ {0} /\ 1 .. Len(S) = 1 .. 31
    BY <1>1
  <2>2. QED
    BY <2>1, <1>1, <1>6, <1>7, <1>8, <1>9, <1>10, <1>11, <1>12, ZenonT(40) DEF WellFormed
<1>14. QED
  BY <1>13 DEF S

LEMMA ScriptsAreWellFormed == worker \in {"whisper", "qwen", "summary"} => WellFormed(Verified!Script(worker))
  BY SummaryIsWellFormed, WhisperIsWellFormed, QwenIsWellFormed DEF Verified!Script

LEMMA ScriptDomain ==
  ASSUME worker \in {"whisper", "qwen", "summary"}
  PROVE  DOMAIN Verified!Script(worker) = 1 .. Len(Verified!Script(worker))
<1>1. /\ DOMAIN Verified!SummaryScript = 1 .. 8 /\ Len(Verified!SummaryScript) = 8
  BY DEF Verified!SummaryScript, Verified!Opened
<1>2. /\ DOMAIN Verified!WhisperScript = 1 .. 14 /\ Len(Verified!WhisperScript) = 14
  BY DEF Verified!WhisperScript, Verified!WhisperTranscribes, Verified!Opened
<1>3. /\ DOMAIN Verified!QwenScript = 1 .. 31 /\ Len(Verified!QwenScript) = 31
  BY DEF Verified!QwenScript, Verified!QwenOpened, Verified!Opened,
         Verified!QwenTranscribes,
         Verified!QwenVerified
<1>4. QED
  BY <1>1, <1>2, <1>3 DEF Verified!Script

------------------------
(* VerifiedWorker: the files behind an answer. *)

FileRecord == [inode : Nat, right : BOOLEAN]

FileTypes ==
    /\ worker \in {"whisper", "qwen", "summary"}
    /\ disk \in [Verified!Files -> FileRecord \cup {None}]
    /\ handle \in [Verified!Files -> FileRecord \cup {None}]
    /\ used \in [Verified!Files -> FileRecord \cup {None}]
    /\ changes \in Nat
    /\ at \in 1 .. Len(Verified!Script(worker))

\* What a path leads to after a change was never open before.
Fresh ==
    \A f \in Verified!Files :
        /\ disk[f] # None => disk[f].inode <= changes
        /\ handle[f] # None => handle[f].inode <= changes

\* What the steps of s before n have made of the open files.
Checked(s, n, held) ==
    \A i \in 1 .. n - 1, f \in Verified!Files :
        /\ s[i] = <<"open", f>> => held[f] # None
        /\ s[i] = <<"hash", f>> => held[f].right

\* A library that read another file than the open one is found out: the path
\* leads to another file from then on, and the next verification sees it.
Read(s, n, held, read, there) ==
    \A i \in 1 .. n - 1, f \in Verified!Files :
        s[i][1] \in Reads /\ s[i][2] = f =>
        \/ read[f] = held[f]
        \/ /\ s[i][1] = "load" /\ there[f] # held[f]
           /\ \A v \in i .. n - 1 : s[v] # <<"verify", f>>

FilesInv ==
    /\ FileTypes
    /\ Fresh
    /\ Checked(Verified!Script(worker), at, handle)
    /\ Read(Verified!Script(worker), at, handle, used, disk)
    /\ outcome \in {"answered", "accepted"} => at = Len(Verified!Script(worker))

LEMMA FilesInit == Verified!Init => FilesInv
<1> SUFFICES ASSUME Verified!Init PROVE FilesInv
  OBVIOUS
<1>1. WellFormed(Verified!Script(worker))
  BY ScriptsAreWellFormed DEF Verified!Init
<1>2. QED
  BY <1>1, CallAssumption
  DEF Verified!Init, FilesInv, FileTypes, Fresh, Checked, Read, WellFormed, FileRecord

\* One step of the worker: it fails where it is, or it goes on.
LEMMA RunStep ==
  ASSUME FilesInv, Verified!Run
  PROVE  FilesInv'
<1> DEFINE S == Verified!Script(worker)
<1>1. S' = S /\ worker' = worker /\ disk' = disk /\ changes' = changes
  BY DEF Verified!Run
<1>2. WellFormed(S)
  BY ScriptsAreWellFormed DEF FilesInv, FileTypes
<1>3. /\ at \in 1 .. Len(S) /\ Checked(S, at, handle) /\ Read(S, at, handle, used, disk)
      /\ outcome \in {"answered", "accepted"} => at = Len(S)
  BY DEF FilesInv, FileTypes
<1> DEFINE Good ==
      /\ handle' \in [Verified!Files -> FileRecord \cup {None}]
      /\ used' \in [Verified!Files -> FileRecord \cup {None}]
      /\ at' \in 1 .. Len(S)
      /\ \A f \in Verified!Files : handle'[f] # None => handle'[f].inode <= changes
      /\ Checked(S, at', handle')
      /\ Read(S, at', handle', used', disk)
      /\ outcome' \in {"answered", "accepted"} => at' = Len(S)
<1>4. Good => FilesInv'
  BY <1>1 DEF FilesInv, FileTypes, Fresh
<1>5. /\ disk \in [Verified!Files -> FileRecord \cup {None}]
      /\ handle \in [Verified!Files -> FileRecord \cup {None}]
      /\ used \in [Verified!Files -> FileRecord \cup {None}]
      /\ \A f \in Verified!Files : disk[f] # None => disk[f].inode <= changes
      /\ \A f \in Verified!Files : handle[f] # None => handle[f].inode <= changes
  BY DEF FilesInv, FileTypes, Fresh
<1>6. \A verb, file : Verified!Does(verb, file) <=> outcome = None /\ S[at][1] = verb /\ S[at][2] = file
  BY DEF Verified!Does
<1> HIDE DEF S
<1>7. S[at][1] # "answer" => at + 1 \in 1 .. Len(S)
  BY <1>2, <1>3 DEF WellFormed
<1>8. \A i \in 1 .. at : i <= at - 1 \/ i = at
  BY <1>3
<1>9. ASSUME UNCHANGED <<handle, used>>, at' = at, outcome' \notin {"answered", "accepted"} PROVE Good
  BY <1>3, <1>5, <1>9 DEF Checked, Read
<1>10. ASSUME UNCHANGED <<handle, used>>, at' = at + 1, outcome' = None,
              S[at][1] \in {"list", "hash", "verify", "infer"},
              \A f \in Verified!Files : S[at] = <<"hash", f>> => handle[f].right,
              \A f \in Verified!Files : S[at] = <<"verify", f>> => disk[f] = handle[f]
       PROVE  Good
  <2>1. at' \in 1 .. Len(S) /\ outcome' \notin {"answered", "accepted"}
    BY <1>7, <1>10, CallAssumption
  <2>2. Checked(S, at', handle')
    BY <1>3, <1>10 DEF Checked
  <2>3. Read(S, at', handle', used', disk)
    BY <1>3, <1>10 DEF Read, Reads
  <2>4. QED
    BY <1>5, <1>10, <2>1, <2>2, <2>3
<1>11. ASSUME Verified!ListSet PROVE Good
  <2>1. /\ UNCHANGED <<handle, used>> /\ S[at][1] = "list"
        /\ \/ at' = at + 1 /\ outcome' = None
           \/ at' = at /\ outcome' = "model_unavailable"
    BY <1>6, <1>11 DEF Verified!ListSet, Verified!Goes, Verified!Fails
  <2>2. QED
    BY <1>9, <1>10, <2>1
<1>12. ASSUME NEW file \in Verified!Files, Verified!Hash(file) \/ Verified!Verify(file) \/ Verified!Infer(file)
       PROVE  Good
  BY <1>6, <1>9, <1>10, <1>12
  DEF Verified!Hash, Verified!Verify, Verified!Infer, Verified!Goes, Verified!Fails
<1>13. ASSUME NEW file \in Verified!Files, Verified!Open(file) PROVE Good
  <2>1. CASE disk[file] = None
    BY <1>6, <1>9, <1>13, <2>1 DEF Verified!Open, Verified!Fails, Verified!Unavailable
  <2>2. CASE disk[file] # None
    <3>1. /\ at' = at + 1 /\ outcome' = None /\ S[at][1] = "open" /\ S[at][2] = file
          /\ handle' = [handle EXCEPT ![file] = disk[file]] /\ used' = used
      BY <1>6, <1>13, <2>2 DEF Verified!Open, Verified!Goes
    <3>2. at' \in 1 .. Len(S) /\ outcome' \notin {"answered", "accepted"}
      BY <1>7, <3>1, CallAssumption
    <3>3. \A j \in 1 .. at : S[j] # <<"hash", file>>
      BY <1>2, <1>3, <3>1 DEF WellFormed
    <3>4. ASSUME NEW i \in 1 .. at, S[i][1] \in Reads, S[i][2] = file PROVE FALSE
      <4>1. i \in 1 .. Len(S) /\ i <= at
        BY <1>3, <3>4
      <4>2. PICK h \in 1 .. Len(S) : h < i /\ S[h] = <<"hash", file>>
        BY <1>2, <3>4, <4>1 DEF WellFormed
      <4>3. h \in 1 .. at
        BY <1>3, <4>1, <4>2
      <4>4. QED
        BY <3>3, <4>2, <4>3
    <3>5. Checked(S, at', handle')
      <4> SUFFICES ASSUME NEW i \in 1 .. at, NEW f \in Verified!Files
                   PROVE  /\ S[i] = <<"open", f>> => handle'[f] # None
                          /\ S[i] = <<"hash", f>> => handle'[f].right
        BY <1>3, <3>1 DEF Checked
      <4>1. CASE f = file
        BY <1>5, <2>2, <3>1, <3>3, <4>1
      <4>2. CASE f # file
        BY <1>3, <1>5, <1>8, <3>1, <4>2 DEF Checked
      <4>3. QED
        BY <4>1, <4>2
    <3>6. Read(S, at', handle', used', disk)
      BY <1>3, <1>5, <3>1, <3>4 DEF Read, Reads
    <3>7. QED
      BY <1>5, <3>1, <3>2, <3>5, <3>6
  <2>3. QED
    BY <2>1, <2>2
<1>14. ASSUME Verified!Decode PROVE Good
  <2>1. /\ S[at][1] = "decode" /\ S[at][2] = "audio" /\ handle' = handle
        /\ used' = [used EXCEPT !["audio"] = handle["audio"]]
        /\ \/ at' = at + 1 /\ outcome' = None
           \/ at' = at /\ outcome' \notin {"answered", "accepted"}
    BY <1>6, <1>14 DEF Verified!Decode, Verified!Goes, Verified!Fails
  <2>2. at' \in 1 .. Len(S) /\ outcome' \notin {"answered", "accepted"}
    BY <1>3, <1>7, <2>1, CallAssumption
  <2>3. Checked(S, at', handle')
    BY <1>3, <2>1 DEF Checked
  <2>4. \A i \in 1 .. at - 1 : S[i][1] \in Reads => S[i][2] # "audio"
    BY <1>2, <1>3, <2>1 DEF WellFormed, Reads
  <2>5. "audio" \in Verified!Files /\ used'["audio"] = handle'["audio"]
    BY <1>5, <2>1 DEF Verified!Files
  <2>6. Read(S, at', handle', used', disk)
    <3> SUFFICES ASSUME NEW i \in 1 .. at, NEW f \in Verified!Files, S[i][1] \in Reads, S[i][2] = f,
                        i <= at' - 1
                 PROVE  \/ used'[f] = handle'[f]
                        \/ /\ S[i][1] = "load" /\ disk[f] # handle'[f]
                           /\ \A v \in i .. at' - 1 : S[v] # <<"verify", f>>
      BY <1>3, <2>1 DEF Read
    <3>1. CASE f = "audio"
      BY <2>5, <3>1
    <3>2. CASE f # "audio"
      BY <1>3, <1>5, <1>8, <2>1, <3>2 DEF Read, Reads
    <3>3. QED
      BY <3>1, <3>2
  <2>7. used' \in [Verified!Files -> FileRecord \cup {None}]
    BY <1>5, <2>1, <2>5
  <2>8. QED
    BY <1>5, <2>1, <2>2, <2>3, <2>6, <2>7
<1>15. ASSUME NEW file \in Verified!Files, Verified!Load(file) PROVE Good
  <2>1. CASE /\ at' = at /\ outcome' \notin {"answered", "accepted"} /\ UNCHANGED <<handle, used>>
    BY <1>9, <2>1
  <2>2. CASE /\ at' = at + 1 /\ outcome' = None /\ disk[file] # None
             /\ used' = [used EXCEPT ![file] = disk[file]] /\ handle' = handle
    <3>1. S[at][1] = "load" /\ S[at][2] = file
      BY <1>6, <1>15 DEF Verified!Load
    <3>2. at' \in 1 .. Len(S) /\ outcome' \notin {"answered", "accepted"}
      BY <1>7, <2>2, <3>1, CallAssumption
    <3>3. Checked(S, at', handle')
      BY <1>3, <2>2, <3>1 DEF Checked
    <3>4. \A i \in 1 .. at - 1 : S[i][1] \in Reads => S[i][2] # file
      BY <1>2, <1>3, <3>1 DEF WellFormed, Reads
    <3>5. Read(S, at', handle', used', disk)
      <4>0. at' - 1 = at
        BY <1>3, <2>2
      <4> SUFFICES ASSUME NEW i \in 1 .. at, NEW f \in Verified!Files, S[i][1] \in Reads, S[i][2] = f
                   PROVE  \/ used'[f] = handle'[f]
                          \/ /\ S[i][1] = "load" /\ disk[f] # handle'[f]
                             /\ \A v \in i .. at : S[v] # <<"verify", f>>
        BY <4>0, Zenon DEF Read
      <4>1. CASE f = file
        BY <1>5, <1>8, <2>2, <3>1, <3>4, <4>1
      <4>2. CASE f # file
        <5>1. i \in 1 .. at - 1 /\ used'[f] = used[f]
          BY <1>3, <1>5, <1>8, <2>2, <3>1, <4>2
        <5>2. \/ used[f] = handle[f]
              \/ /\ S[i][1] = "load" /\ disk[f] # handle[f]
                 /\ \A v \in i .. at - 1 : S[v] # <<"verify", f>>
          BY <1>3, <5>1 DEF Read
        <5>3. \A v \in i .. at : v \in i .. at - 1 \/ S[v][1] = "load"
          BY <1>3, <3>1
        <5>4. QED
          BY <2>2, <5>1, <5>2, <5>3
      <4>3. QED
        BY <4>1, <4>2
    <3>6. QED
      BY <1>5, <2>2, <3>2, <3>3, <3>5
  <2>3. QED
    BY <1>15, <2>1, <2>2 DEF Verified!Load, Verified!Goes, Verified!Fails
<1>16. ASSUME NEW file \in Verified!Files, Verified!Answer(file) PROVE Good
  BY <1>3, <1>5, <1>6, <1>2, <1>16, SMTT(40), ZenonT(60) DEF Verified!Answer, WellFormed, Checked, Read
<1>20. QED
  BY <1>4, <1>11, <1>12, <1>13, <1>14, <1>15, <1>16 DEF Verified!Run

\* Whatever is put in a file's place was open nowhere.
LEMMA ReplaceStep ==
  ASSUME FilesInv, Verified!Replace
  PROVE  FilesInv'
<1>1. PICK file \in Verified!Files, new \in {None} \cup [inode : {changes + 1}, right : BOOLEAN] :
         disk' = [disk EXCEPT ![file] = new]
  BY DEF Verified!Replace
<1>2. /\ changes' = changes + 1 /\ changes \in Nat
      /\ UNCHANGED <<worker, handle, used, at, outcome>>
  BY DEF Verified!Replace, FilesInv, FileTypes
<1>3. new \in FileRecord \cup {None} /\ (new # None => new.inode = changes + 1)
  BY <1>2 DEF FileRecord
<1>4. disk' \in [Verified!Files -> FileRecord \cup {None}]
  BY <1>1, <1>3 DEF FilesInv, FileTypes
<1>5. Fresh'
  BY <1>1, <1>2, <1>3 DEF FilesInv, FileTypes, Fresh, FileRecord
<1> DEFINE S == Verified!Script(worker)
<1>6. S' = S /\ WellFormed(S) /\ at \in 1 .. Len(S)
  BY <1>2, ScriptsAreWellFormed DEF FilesInv, FileTypes
<1>7. Checked(S, at, handle) /\ Read(S, at, handle, used, disk)
  BY DEF FilesInv
<1>8. /\ handle \in [Verified!Files -> FileRecord \cup {None}]
      /\ disk \in [Verified!Files -> FileRecord \cup {None}]
      /\ \A f \in Verified!Files : handle[f] # None => handle[f].inode <= changes
  BY DEF FilesInv, FileTypes, Fresh
<1> HIDE DEF S
<1>9. Read(S, at, handle, used, disk')
  <2> SUFFICES ASSUME NEW i \in 1 .. at - 1, NEW f \in Verified!Files, S[i][1] \in Reads, S[i][2] = f,
                      used[f] # handle[f]
               PROVE  /\ S[i][1] = "load" /\ disk'[f] # handle[f]
                      /\ \A v \in i .. at - 1 : S[v] # <<"verify", f>>
    BY DEF Read
  <2>1. /\ S[i][1] = "load" /\ disk[f] # handle[f]
        /\ \A v \in i .. at - 1 : S[v] # <<"verify", f>>
    BY <1>7 DEF Read
  <2>2. i \in 1 .. Len(S)
    BY <1>6 DEF WellFormed
  <2>3. PICK h \in 1 .. Len(S) : h < i /\ S[h] = <<"hash", f>>
    BY <1>6, <2>2 DEF WellFormed
  <2>4. PICK o \in 1 .. Len(S) : o < h /\ S[o] = <<"open", f>>
    <3>1. S[h][1] = "hash" /\ S[h][2] = f
      BY <2>3
    <3>2. \E o \in 1 .. Len(S) : o < h /\ S[o] = <<"open", S[h][2]>>
      BY <1>6, <2>3, <3>1 DEF WellFormed
    <3>3. QED
      BY <3>1, <3>2
  <2>5. o \in 1 .. at - 1
    BY <1>6, <2>3, <2>4 DEF WellFormed
  <2>6. handle[f] # None /\ handle[f].inode <= changes
    BY <1>7, <1>8, <2>4, <2>5 DEF Checked
  <2>7. disk'[f] # handle[f]
    BY <1>1, <1>2, <1>3, <1>8, <2>1, <2>6 DEF FileRecord
  <2>8. QED
    BY <2>1, <2>7
<1>10. QED
  BY <1>2, <1>4, <1>5, <1>6, <1>7, <1>9 DEF FilesInv, FileTypes, S

LEMMA FilesStepInv == FilesInv /\ [Verified!Next]_Verified!vars => FilesInv'
<1>1. ASSUME FilesInv, Verified!Receive PROVE FilesInv'
  <2>1. outcome' \in {"answered", "accepted"} => outcome = "answered"
    BY <1>1 DEF Verified!Receive, Verified!Classified
  <2>2. UNCHANGED <<worker, disk, handle, used, at, changes>>
    BY <1>1 DEF Verified!Receive
  <2>3. /\ Verified!Script(worker)' = Verified!Script(worker)
        /\ FileTypes' /\ Fresh'
    BY <1>1, <2>2 DEF FilesInv, FileTypes, Fresh
  <2>4. /\ Checked(Verified!Script(worker), at, handle)'
        /\ Read(Verified!Script(worker), at, handle, used, disk)'
    BY <1>1, <2>2 DEF FilesInv, Checked, Read
  <2>5. QED
    BY <1>1, <2>1, <2>2, <2>3, <2>4 DEF FilesInv
<1>2. ASSUME FilesInv, UNCHANGED Verified!vars PROVE FilesInv'
  BY <1>2 DEF Verified!vars, FilesInv, FileTypes, Fresh
<1>3. QED
  BY <1>1, <1>2, RunStep, ReplaceStep DEF Verified!Next

\* run_once of the three workers and the app that receives the answer, for any
\* number of files replaced at any time: what was decoded or loaded for an
\* accepted answer is what the request names.
THEOREM AcceptedIsVerified == Verified!Spec => []AnswerIsFromVerifiedFiles
  <1>1. FilesInv => AnswerIsFromVerifiedFiles
    <2> DEFINE S == Verified!Script(worker)
    <2> SUFFICES ASSUME FilesInv, outcome = "accepted",
                        NEW i \in DOMAIN S, S[i][1] \in Reads
                 PROVE  used[S[i][2]].right
      BY DEF AnswerIsFromVerifiedFiles, Verified!AnswerIsFromVerifiedFiles, Reads
    <2> DEFINE f == S[i][2]
    <2>1. /\ WellFormed(S) /\ at = Len(S)
          /\ Checked(S, at, handle) /\ Read(S, at, handle, used, disk)
      BY ScriptsAreWellFormed DEF FilesInv, FileTypes
    <2>9. DOMAIN S = 1 .. Len(S)
      BY ScriptDomain DEF FilesInv, FileTypes
    <2> HIDE DEF S
    <2>2. i \in 1 .. Len(S) /\ f \in Verified!Files
      BY <2>1, <2>9 DEF WellFormed
    <2>3. i \in 1 .. at - 1
      BY <2>1, <2>2 DEF WellFormed, Reads
    <2>4. PICK h \in 1 .. Len(S) : h < i /\ S[h] = <<"hash", f>>
      BY <2>1, <2>2 DEF WellFormed
    <2>5. h \in 1 .. at - 1
      BY <2>1, <2>2, <2>4 DEF WellFormed
    <2>6. handle[f].right
      BY <2>1, <2>2, <2>4, <2>5 DEF Checked
    <2>7. used[f] = handle[f]
      <3> SUFFICES ASSUME used[f] # handle[f] PROVE FALSE
        OBVIOUS
      <3>1. /\ S[i][1] = "load"
            /\ \A v \in i .. at - 1 : S[v] # <<"verify", f>>
        BY <2>1, <2>2, <2>3 DEF Read
      <3>2. PICK v \in 1 .. Len(S) : i < v /\ S[v] = <<"verify", f>>
        BY <2>1, <2>2, <3>1 DEF WellFormed
      <3>3. v \in i .. at - 1
        BY <2>1, <2>2, <3>2 DEF WellFormed
      <3>4. QED
        BY <3>1, <3>2, <3>3
    <2>8. QED
      BY <2>6, <2>7
  <1>2. QED
    BY FilesInit, FilesStepInv, <1>1, PTL DEF Verified!Spec

------------------------
(* LocalModels: what the workers' models are when a pack says installed. *)

CONSTANTS ModelFiles, Plain, Moss, Pipeline, Exact, FilesOf, Unshared, Found, MaxRequests, MaxFaults

VARIABLES content, partial, cache, status, job, busy, requests, faults

Models == INSTANCE LocalModels WITH Files <- ModelFiles

JobKinds == {"install", "remove", "removeShared", "inspect", "proof"}

\* Where an install is at a file of its list.
Loads == {"file", "request", "stream", "publish", "unlink"}

\* A slot's operation; what is left to scan or to load is a list of files.
JobOK(j) ==
    /\ DOMAIN j = {"pack", "kind", "pc", "todo", "ok", "cancel"}
    /\ j.pc = "scan" => j.todo \in Seq(ModelFiles)
    /\ j.pc \in Loads => j.todo \in Seq(ModelFiles) \ {<<>>}

\* The reader serves plain packs and only reads; any other slot serves its pack.
RoleOK(s, j) ==
    /\ s \in Models!Packs => j.pack = s
    /\ s = Models!Reader => j.pack \in Plain /\ j.kind \in {"inspect", "proof"} /\ j.pc = "scan"

\* What a scan that is still good has passed is the catalog's.
ScannedIsGood(s, j, c) ==
    j.pc = "scan" /\ j.ok =>
        \A i \in DOMAIN FilesOf[s] :
            c[FilesOf[s][i]] = "good" \/ \E k \in DOMAIN j.todo : j.todo[k] = FilesOf[s][i]

\* What is about to be published is whole.
StagedIsGood(j, staged) == j.pc = "publish" => staged[Head(j.todo)] = "full"

SlotOK(s, j, c, staged) ==
    /\ JobOK(j)
    /\ j # Models!Idle => RoleOK(s, j)
    /\ s \in Models!Packs => ScannedIsGood(s, j, c) /\ StagedIsGood(j, staged)

\* A verdict is kept only as long as the file is.
DiskOK(c, known, staged) ==
    /\ c \in [ModelFiles -> {"none", "good", "bad"}]
    /\ DOMAIN known = ModelFiles /\ DOMAIN staged = ModelFiles
    /\ \A f \in ModelFiles : known[f] = "good" => c[f] = "good"

StatusOK(st) ==
    /\ DOMAIN st = Models!Packs
    /\ \A p \in Models!Packs : DOMAIN st[p] = {"installing", "installed", "error"}

\* One operation has the lease, and no other slot but the reader is in use.
LeaseOK(js, b) ==
    \A s \in Models!Packs : js[s] # Models!Idle => b = TRUE /\ \A r \in Models!Packs : js[r] # Models!Idle => r = s

ModelsInv ==
    /\ Models!WellFormed
    /\ DOMAIN job = Models!Slots
    /\ \A s \in Models!Slots : SlotOK(s, job[s], content, partial)
    /\ DiskOK(content, cache, partial)
    /\ StatusOK(status)
    /\ LeaseOK(job, busy)

\* What an operation that says installed has found.
EndsWhole(s) ==
    job[s] # Models!Idle /\ job'[s] = Models!Idle /\ status'[s].installed
        /\ (s = Pipeline \/ job[s].kind = "install")
    => \A i \in DOMAIN FilesOf[s] : content'[FilesOf[s][i]] = "good"

\* Whoever changes a file has the lease, and publishes the catalog's.
DiskStep(s) ==
    /\ DiskOK(content', cache', partial')
    /\ UNCHANGED <<content, partial>> \/ s \in Models!Packs
    /\ \A f \in ModelFiles : content'[f] \in {content[f], "none", "good"}

\* What a step of the slot s does: it leaves the other slots where they are, and
\* only the one with the lease changes a file.
SlotStep(s) ==
    /\ DOMAIN job' = Models!Slots
    /\ \A r \in Models!Slots \ {s} : job'[r] = job[r]
    /\ SlotOK(s, job'[s], content', partial')
    /\ DiskStep(s)
    /\ StatusOK(status')
    /\ UNCHANGED <<content, partial>> \/ job[s] # Models!Idle
    /\ \/ busy' = busy /\ (s \in Models!Packs /\ job'[s] # Models!Idle => job[s] # Models!Idle)
       \/ s \in Models!Packs /\ busy' = FALSE /\ job[s] # Models!Idle /\ job'[s] = Models!Idle
       \/ s \in Models!Packs /\ busy' = TRUE /\ ~busy
    /\ s \in Models!Packs => EndsWhole(s)

LEMMA CatalogIs ==
    ASSUME ModelsInv
    PROVE  /\ Moss \in Plain /\ Pipeline \notin Plain
           /\ FilesOf \in [Plain \cup {Pipeline} -> Seq(ModelFiles) \ {<<>>}]
           /\ "reader" \notin Plain \cup {Pipeline}
BY DEF ModelsInv, Models!WellFormed

LEMMA SlotStepInv ==
    ASSUME ModelsInv, NEW s \in Models!Slots, SlotStep(s)
    PROVE  ModelsInv'
<1>0. Models!Packs \subseteq Models!Slots
  BY DEF Models!Slots
<1>1. ASSUME NEW r \in Models!Slots PROVE SlotOK(r, job'[r], content', partial')
  <2>1. CASE r = s
    BY <2>1 DEF SlotStep
  <2>2. CASE r # s
    <3>1. job'[r] = job[r] /\ SlotOK(r, job[r], content, partial)
      BY <2>2, <1>1 DEF SlotStep, ModelsInv
    <3>2. UNCHANGED <<content, partial>> \/ (s \in Models!Packs /\ job[s] # Models!Idle)
      BY DEF SlotStep, DiskStep
    <3>3. CASE UNCHANGED <<content, partial>>
      BY <3>1, <3>3
    <3>4. CASE s \in Models!Packs /\ job[s] # Models!Idle
      <4>1. r \in Models!Packs => job[r] = Models!Idle
        BY <3>4, <2>2 DEF ModelsInv, LeaseOK
      <4>2. r \in Models!Packs => ScannedIsGood(r, job[r], content') /\ StagedIsGood(job[r], partial')
        BY <4>1 DEF ScannedIsGood, StagedIsGood, Models!Idle
      <4>3. QED
        BY <3>1, <4>2 DEF SlotOK
    <3>5. QED
      BY <3>2, <3>3, <3>4
  <2>3. QED
    BY <2>1, <2>2
<1>2. LeaseOK(job', busy')
  BY <1>0 DEF SlotStep, ModelsInv, LeaseOK
<1>3. QED
  BY <1>1, <1>2 DEF SlotStep, DiskStep, ModelsInv

\* Every error ends the slot, and says not installed where it says anything.
LEMMA FailStep ==
    ASSUME ModelsInv, NEW s \in Models!Slots, job[s] # Models!Idle, NEW e, Models!Fail(s, e),
           DiskStep(s)
    PROVE  SlotStep(s)
<1>1. job[s].pack \in Models!Packs /\ (s \in Models!Packs => job[s].pack = s) /\ (s = Models!Reader <=> s \notin Models!Packs)
  BY CatalogIs DEF ModelsInv, SlotOK, RoleOK, Models!Slots, Models!Packs, Models!Reader
<1>2. job' = [job EXCEPT ![s] = Models!Idle] /\ busy' = IF s = Models!Reader THEN busy ELSE FALSE
  BY DEF Models!Fail, Models!End
<1>3. StatusOK(status') /\ (s \in Models!Packs => EndsWhole(s))
  BY <1>1 DEF Models!Fail, Models!End, ModelsInv, StatusOK, EndsWhole
<1>4. SlotOK(s, job'[s], content', partial')
  BY <1>2 DEF ModelsInv, SlotOK, JobOK, Models!Idle, Loads, ScannedIsGood, StagedIsGood
<1>5. QED
  BY <1>1, <1>2, <1>3, <1>4 DEF SlotStep, ModelsInv

\* A step inside an operation that touches no other slot, no lease and no status.
LEMMA InnerStep ==
    ASSUME ModelsInv, NEW s \in Models!Slots, job[s] # Models!Idle, NEW j,
           job' = [job EXCEPT ![s] = j], j # Models!Idle, SlotOK(s, j, content', partial'),
           UNCHANGED <<status, busy>>, DiskStep(s)
    PROVE  SlotStep(s)
BY DEF SlotStep, ModelsInv, EndsWhole

\* A step that only moves an install on, within a file.
LEMMA MoveStep ==
    ASSUME ModelsInv, NEW s \in Models!Packs, job[s].pc \in Loads, NEW pc \in Loads, Models!Goto(s, pc),
           pc = "publish" => partial'[Models!File(s)] = "full",
           UNCHANGED <<status, busy>>, DiskStep(s)
    PROVE  SlotStep(s)
<1>1. PICK j : job' = [job EXCEPT ![s] = j] /\ j = [job[s] EXCEPT !.pc = pc]
  BY DEF Models!Goto
<1>2. s \in Models!Slots /\ SlotOK(s, job[s], content, partial) /\ s # Models!Reader
  BY CatalogIs DEF Models!Slots, ModelsInv, Models!Packs, Models!Reader
<1>3. job[s] # Models!Idle
  BY DEF Models!Idle, Loads
<1>4. j.pc = pc /\ j.pack = job[s].pack /\ j.todo = job[s].todo /\ JobOK(j) /\ j # Models!Idle
  BY <1>1, <1>2 DEF SlotOK, JobOK, Models!Idle, Loads
<1>5. RoleOK(s, j) /\ ScannedIsGood(s, j, content') /\ StagedIsGood(j, partial')
  BY <1>2, <1>3, <1>4 DEF SlotOK, RoleOK, ScannedIsGood, StagedIsGood, Loads, Models!File
<1>6. QED
  BY <1>1, <1>2, <1>3, <1>4, <1>5, InnerStep DEF SlotOK

\* A step that is done with a file.
LEMMA AdvanceStep ==
    ASSUME ModelsInv, NEW s \in Models!Packs, job[s] # Models!Idle, NEW pc, Models!Advance(s, pc),
           pc = "remove" \/ (pc = "file" /\ job[s].pc \in Loads /\ Len(job[s].todo) > 1),
           UNCHANGED <<status, busy>>, DiskStep(s)
    PROVE  SlotStep(s)
<1>1. PICK j : job' = [job EXCEPT ![s] = j] /\ j = [job[s] EXCEPT !.pc = pc, !.todo = Tail(@)]
  BY DEF Models!Advance
<1>2. s \in Models!Slots /\ SlotOK(s, job[s], content, partial) /\ s # Models!Reader
  BY CatalogIs DEF Models!Slots, ModelsInv, Models!Packs, Models!Reader
<1>3. /\ DOMAIN j = {"pack", "kind", "pc", "todo", "ok", "cancel"}
      /\ j.pc = pc /\ j.pack = job[s].pack /\ j.todo = Tail(job[s].todo)
  BY <1>1, <1>2 DEF SlotOK, JobOK
<1>4. pc = "file" => Tail(job[s].todo) \in Seq(ModelFiles) \ {<<>>}
  <2> SUFFICES ASSUME pc = "file" PROVE Tail(job[s].todo) \in Seq(ModelFiles) \ {<<>>}
    OBVIOUS
  <2>1. job[s].todo \in Seq(ModelFiles) \ {<<>>} /\ Len(job[s].todo) > 1
    BY <1>2 DEF SlotOK, JobOK
  <2>2. Tail(job[s].todo) \in Seq(ModelFiles) /\ Len(Tail(job[s].todo)) = Len(job[s].todo) - 1
    BY <2>1
  <2>3. Tail(job[s].todo) # <<>>
    <3>1. PICK n \in Nat : n > 1 /\ Len(Tail(job[s].todo)) = n - 1
      BY <2>1, <2>2
    <3>2. ASSUME NEW u, Len(u) = n - 1 PROVE u # <<>>
      BY <3>1, <3>2
    <3>3. QED
      BY <3>1, <3>2, Zenon
  <2>4. QED
    BY <2>2, <2>3
<1>5. JobOK(j) /\ j # Models!Idle
  BY <1>3, <1>4, SMTT(30) DEF JobOK, Models!Idle, Loads
<1>6. RoleOK(s, j) /\ ScannedIsGood(s, j, content') /\ StagedIsGood(j, partial')
  BY <1>2, <1>3 DEF SlotOK, RoleOK, ScannedIsGood, StagedIsGood
<1>7. QED
  BY <1>1, <1>2, <1>5, <1>6, InnerStep DEF SlotOK

LEMMA VerifyStep ==
    ASSUME ModelsInv, NEW s \in Models!Packs, job[s] # Models!Idle,
           job' = [job EXCEPT ![s].pc = "scan", ![s].todo = FilesOf[s]],
           UNCHANGED <<status, busy>>, DiskStep(s)
    PROVE  SlotStep(s)
<1>1. s \in Models!Slots /\ SlotOK(s, job[s], content, partial) /\ DOMAIN job = Models!Slots
  BY DEF Models!Slots, ModelsInv
<1> DEFINE j == [job[s] EXCEPT !.pc = "scan", !.todo = FilesOf[s]]
<1>2. job' = [job EXCEPT ![s] = j]
  BY <1>1
<1>3. j = [job[s] EXCEPT !.pc = "scan", !.todo = FilesOf[s]]
  OBVIOUS
<1>4. j.pc = "scan" /\ j.pack = job[s].pack /\ j.todo = FilesOf[s]
  BY <1>1 DEF SlotOK, JobOK
<1>5. s # Models!Reader /\ FilesOf[s] \in Seq(ModelFiles)
  BY CatalogIs DEF Models!Packs, Models!Reader
<1> HIDE DEF j
<1>6. JobOK(j)
  BY <1>1, <1>3, <1>5 DEF SlotOK, JobOK, Loads
<1>7. j # Models!Idle /\ RoleOK(s, j) /\ ScannedIsGood(s, j, content') /\ StagedIsGood(j, partial')
  BY <1>1, <1>4, <1>5 DEF Models!Idle, SlotOK, RoleOK, ScannedIsGood, StagedIsGood
<1>8. SlotOK(s, j, content', partial')
  BY <1>6, <1>7 DEF SlotOK
<1>9. QED
  BY <1>1, <1>2, <1>7, <1>8, InnerStep

LEMMA FinishedStep ==
    ASSUME ModelsInv, NEW s \in Models!Packs, job[s].pc \in Loads, Models!Finished(s),
           UNCHANGED <<status, busy>>, DiskStep(s)
    PROVE  SlotStep(s)
<1>1. job[s].pack = s
  BY DEF ModelsInv, SlotOK, RoleOK, Models!Slots, Models!Idle, Loads
<1>2. job[s] # Models!Idle
  BY DEF Models!Idle, Loads
<1>3. QED
  BY <1>1, <1>2, AdvanceStep, VerifyStep DEF Models!Finished

LEMMA WriteKeepsDisk ==
    ASSUME ModelsInv, NEW s \in Models!Packs, NEW f, NEW bytes \in {"none", "good"}, Models!Write(f, bytes),
           DOMAIN partial' = ModelFiles
    PROVE  DiskStep(s)
BY DEF ModelsInv, DiskOK, DiskStep, Models!Write

LEMMA LearnedKeepsDisk ==
    ASSUME ModelsInv, NEW s \in Models!Slots, NEW f, Models!Learned(s, f), UNCHANGED content,
           partial' = partial \/ (s \in Models!Packs /\ DOMAIN partial' = ModelFiles)
    PROVE  DiskStep(s)
BY DEF ModelsInv, DiskOK, DiskStep, Models!Learned, Models!Verdict

LEMMA VerdictIsRight ==
    ASSUME ModelsInv, NEW s \in Models!Slots, NEW f \in ModelFiles, Models!Verdict(s, f)
    PROVE  content[f] = "good"
BY DEF ModelsInv, DiskOK, Models!Verdict

LEMMA Acting ==
    ASSUME ModelsInv, NEW s \in Models!Slots, job[s].pc # "idle" \/ job[s].cancel
    PROVE  /\ job[s] # Models!Idle /\ (s \notin Models!Packs <=> s = Models!Reader)
           /\ s \in Models!Packs => job[s].pack = s
           /\ job[s].pc # "scan" => s \in Models!Packs
           /\ s = Models!Reader => job[s].pack \in Plain /\ job[s].kind \in {"inspect", "proof"}
BY CatalogIs
   DEF Models!Idle, ModelsInv, SlotOK, RoleOK, Models!Slots, Models!Packs, Models!Reader

LEMMA DiskStays ==
    ASSUME ModelsInv, NEW s \in Models!Slots, UNCHANGED <<content, cache>>,
           partial' = partial \/ (s \in Models!Packs /\ DOMAIN partial' = ModelFiles)
    PROVE  DiskStep(s)
BY DEF ModelsInv, DiskOK, DiskStep

LEMMA FreshJob ==
    ASSUME NEW p, NEW op, NEW pc, NEW todo
    PROVE  LET j == [Models!Idle EXCEPT !.pack = p, !.kind = op, !.pc = pc, !.todo = todo]
           IN  /\ DOMAIN j = {"pack", "kind", "pc", "todo", "ok", "cancel"}
               /\ j.pack = p /\ j.kind = op /\ j.pc = pc /\ j.todo = todo
BY DEF Models!Idle

LEMMA ScannedJob ==
    ASSUME NEW j, JobOK(j), NEW b
    PROVE  LET n == [j EXCEPT !.todo = Tail(@), !.ok = b]
           IN  /\ DOMAIN n = {"pack", "kind", "pc", "todo", "ok", "cancel"}
               /\ n.pack = j.pack /\ n.kind = j.kind /\ n.pc = j.pc /\ n.todo = Tail(j.todo)
               /\ n.ok = b
BY DEF JobOK

LEMMA CanceledJob ==
    ASSUME NEW j, JobOK(j)
    PROVE  LET n == [j EXCEPT !.cancel = TRUE]
           IN  /\ JobOK(n) /\ n.pc = j.pc /\ n.pack = j.pack /\ n.todo = j.todo /\ n.ok = j.ok
               /\ n.kind = j.kind /\ n.cancel = TRUE
<1>1. PICK b : b = TRUE
  OBVIOUS
<1>2. LET n == [j EXCEPT !.cancel = b]
      IN  /\ JobOK(n) /\ n.pc = j.pc /\ n.pack = j.pack /\ n.todo = j.todo /\ n.ok = j.ok
          /\ n.kind = j.kind /\ n.cancel = b
  BY DEF JobOK
<1>3. QED
  BY <1>1, <1>2

LEMMA BeginStep ==
    ASSUME ModelsInv, NEW p \in Models!Packs, NEW op \in JobKinds, Models!Begin(p, op)
    PROVE  SlotStep(Models!Slot(p, op))
<1> DEFINE s == Models!Slot(p, op)
<1> DEFINE j == [Models!Idle EXCEPT !.pack = p, !.kind = op, !.pc = Models!First(p, op),
                 !.todo = IF Models!First(p, op) = "remove" THEN Models!Removed(p, op) ELSE FilesOf[p]]
<1>1. /\ s \in Models!Slots /\ s \in {p, Models!Reader} /\ Models!Reader \notin Models!Packs
      /\ s = Models!Reader <=> ~Models!Interruptible(p) /\ op \in {"inspect", "proof"}
  BY CatalogIs DEF Models!Slot, Models!Slots, Models!Packs, Models!Reader
<1>2. /\ job[s] = Models!Idle /\ Models!Acquired(s) /\ job' = [job EXCEPT ![s] = j]
      /\ status' = [status EXCEPT ![p] = Models!Begun(p, op)]
      /\ UNCHANGED <<content, cache, partial>>
  BY DEF Models!Begin
<1>3. FilesOf[p] \in Seq(ModelFiles) \ {<<>>} /\ (p \notin Plain => p = Pipeline)
  BY CatalogIs DEF Models!Packs
<1>a. /\ DOMAIN j = {"pack", "kind", "pc", "todo", "ok", "cancel"}
      /\ j.pack = p /\ j.kind = op /\ j.pc = Models!First(p, op)
      /\ j.todo = IF Models!First(p, op) = "remove" THEN Models!Removed(p, op) ELSE FilesOf[p]
  BY FreshJob
<1> HIDE DEF j
<1>4. j # Models!Idle /\ j.pc # "publish" /\ (j.pc # "remove" => j.todo = FilesOf[p])
  BY <1>a DEF Models!Idle, Models!First
<1>5. SlotOK(s, j, content', partial')
  <2>1. JobOK(j)
    BY <1>3, <1>4, <1>a DEF JobOK, Loads
  <2>2. RoleOK(s, j)
    BY <1>1, <1>3, <1>a DEF RoleOK, Models!First, Models!Interruptible
  <2>3. s \in Models!Packs => ScannedIsGood(s, j, content') /\ StagedIsGood(j, partial')
    BY <1>1, <1>4, <1>a DEF ScannedIsGood, StagedIsGood
  <2>4. QED
    BY <2>1, <2>2, <2>3 DEF SlotOK
<1>6. StatusOK(status')
  <2>1. DOMAIN Models!Begun(p, op) = {"installing", "installed", "error"}
    <3>1. PICK b : b = (op = "install")
      OBVIOUS
    <3>2. DOMAIN [Models!Default EXCEPT !.installing = b] = {"installing", "installed", "error"}
      BY DEF Models!Default
    <3>3. DOMAIN status[p] = {"installing", "installed", "error"}
      BY DEF ModelsInv, StatusOK
    <3>4. QED
      BY <3>1, <3>2, <3>3 DEF Models!Begun
  <2>2. QED
    BY <1>2, <2>1 DEF ModelsInv, StatusOK
<1>7. \/ busy' = busy /\ s = Models!Reader
      \/ s \in Models!Packs /\ busy' = TRUE /\ ~busy
  BY <1>1, <1>2 DEF Models!Acquired
<1>8. DiskStep(s)
  BY <1>1, <1>2, DiskStays
<1> HIDE DEF s
<1>9. SlotStep(s)
  <2>1. DOMAIN job' = Models!Slots /\ job'[s] = j /\ \A r \in Models!Slots \ {s} : job'[r] = job[r]
    BY <1>1, <1>2 DEF ModelsInv
  <2>2. /\ UNCHANGED <<content, partial>>
        /\ \/ busy' = busy /\ (s \in Models!Packs /\ job'[s] # Models!Idle => job[s] # Models!Idle)
           \/ s \in Models!Packs /\ busy' = FALSE /\ job[s] # Models!Idle /\ job'[s] = Models!Idle
           \/ s \in Models!Packs /\ busy' = TRUE /\ ~busy
        /\ s \in Models!Packs => EndsWhole(s)
    BY <1>1, <1>2, <1>7 DEF EndsWhole
  <2>3. QED
    BY <2>1, <2>2, <1>5, <1>6, <1>8 DEF SlotStep
<1>10. QED
  BY <1>9 DEF s

LEMMA CancelStep ==
    ASSUME ModelsInv, NEW p \in Models!Packs, Models!Cancel(p) \/ Models!DropRequest(p)
    PROVE  SlotStep(p)
<1>1. p \in Models!Slots /\ DOMAIN job = Models!Slots /\ p # Models!Reader
  BY CatalogIs DEF Models!Slots, Models!Packs, Models!Reader, ModelsInv
<1>2. SlotOK(p, job[p], content, partial) /\ UNCHANGED <<content, partial>> /\ DiskStep(p)
  BY <1>1, DiskStays DEF ModelsInv, Models!Cancel, Models!DropRequest
<1>3. CASE Models!DropRequest(p) /\ Models!Fail(p, "canceled")
  <2>1. UNCHANGED content /\ job[p] # Models!Idle
    BY <1>3 DEF Models!DropRequest
  <2>2. QED
    BY <1>1, <1>2, <1>3, <2>1, FailStep
<1>4. CASE job' = [job EXCEPT ![p].cancel = TRUE] /\ UNCHANGED <<status, busy, content>>
           /\ job[p] # Models!Idle
  <2> DEFINE j == [job[p] EXCEPT !.cancel = TRUE]
  <2>1. job' = [job EXCEPT ![p] = j]
    BY <1>1, <1>4
  <2>2. JobOK(j) /\ j.pc = job[p].pc /\ j.pack = job[p].pack /\ j.todo = job[p].todo
        /\ j.ok = job[p].ok /\ j.kind = job[p].kind /\ j.cancel = TRUE
    BY <1>2, CanceledJob DEF SlotOK
  <2> HIDE DEF j
  <2>3. j # Models!Idle
    BY <2>2 DEF Models!Idle
  <2>4. SlotOK(p, j, content', partial')
    BY <1>2, <1>4, <2>2 DEF SlotOK, RoleOK, ScannedIsGood, StagedIsGood
  <2>5. QED
    BY <1>1, <1>2, <1>4, <2>1, <2>3, <2>4, InnerStep
<1>5. QED
  BY <1>3, <1>4 DEF Models!Cancel, Models!DropRequest, Models!Idle

LEMMA ScanFileStep ==
    ASSUME ModelsInv, NEW s \in Models!Slots, Models!ScanFile(s)
    PROVE  SlotStep(s)
<1> DEFINE f == Models!File(s)
<1> DEFINE j == [job[s] EXCEPT !.todo = Tail(@), !.ok = @ /\ Models!Verdict(s, f) /\ Models!ExactPaths(s, f)]
<1>1. /\ job[s].pc = "scan" /\ job[s].todo # <<>>
      /\ job' = [job EXCEPT ![s] = j] /\ Models!Learned(s, f)
      /\ UNCHANGED <<content, partial, status, busy>>
  BY DEF Models!ScanFile, ModelsInv, Models!At
<1>2. job[s] # Models!Idle /\ SlotOK(s, job[s], content, partial)
  BY <1>1, Acting DEF ModelsInv
<1>3. job[s].todo \in Seq(ModelFiles) /\ f \in ModelFiles
  BY <1>1, <1>2 DEF SlotOK, JobOK, Models!File
<1>4. /\ JobOK(j) /\ j.pc = "scan" /\ j.pack = job[s].pack /\ j.kind = job[s].kind
      /\ j.todo = Tail(job[s].todo) /\ (j.ok => job[s].ok /\ Models!Verdict(s, f))
  <2>1. /\ DOMAIN j = {"pack", "kind", "pc", "todo", "ok", "cancel"}
        /\ j.pack = job[s].pack /\ j.kind = job[s].kind /\ j.pc = job[s].pc
        /\ j.todo = Tail(job[s].todo)
        /\ j.ok = (job[s].ok /\ Models!Verdict(s, f) /\ Models!ExactPaths(s, f))
    BY <1>2, ScannedJob DEF SlotOK
  <2> HIDE DEF j, f
  <2>2. Tail(job[s].todo) \in Seq(ModelFiles)
    BY <1>1, <1>3
  <2>3. QED
    BY <1>1, <2>1, <2>2 DEF JobOK, Loads
<1> HIDE DEF j
<1>5. Models!Verdict(s, f) => content[f] = "good"
  BY <1>3, VerdictIsRight
<1>6. ASSUME s \in Models!Packs PROVE ScannedIsGood(s, j, content')
  <2> SUFFICES ASSUME j.ok, NEW i \in DOMAIN FilesOf[s], content[FilesOf[s][i]] # "good"
               PROVE  \E k \in DOMAIN j.todo : j.todo[k] = FilesOf[s][i]
    BY <1>1 DEF ScannedIsGood
  <2>1. PICK k \in DOMAIN job[s].todo : job[s].todo[k] = FilesOf[s][i]
    BY <1>1, <1>2, <1>4, <1>6 DEF SlotOK, ScannedIsGood
  <2>2. k # 1
    BY <1>4, <1>5, <2>1 DEF Models!File
  <2>3. k - 1 \in DOMAIN Tail(job[s].todo) /\ Tail(job[s].todo)[k - 1] = job[s].todo[k]
    <3>1. Len(job[s].todo) \in Nat \ {0} /\ k \in 1 .. Len(job[s].todo)
      BY <1>1, <1>3, <2>1
    <3>2. QED
      BY <1>1, <1>3, <2>2, <3>1, SMTT(30)
  <2>4. QED
    BY <1>4, <2>1, <2>3
<1> HIDE DEF j
<1>7. j # Models!Idle /\ (j # Models!Idle => RoleOK(s, j))
  BY <1>2, <1>4 DEF Models!Idle, SlotOK, RoleOK
<1>8. SlotOK(s, j, content', partial')
  BY <1>4, <1>6, <1>7 DEF SlotOK, StagedIsGood
<1>9. QED
  BY <1>1, <1>2, <1>7, <1>8, InnerStep, LearnedKeepsDisk

LEMMA EndScanStep ==
    ASSUME ModelsInv, NEW s \in Models!Slots, Models!EndScan(s)
    PROVE  SlotStep(s)
<1>1. /\ job[s].pc = "scan" /\ job[s].todo = <<>> /\ UNCHANGED <<content, cache, partial>>
      /\ DiskStep(s)
  BY DiskStays DEF Models!EndScan, Models!At
<1>2. /\ job[s] # Models!Idle /\ SlotOK(s, job[s], content, partial) /\ job[s].pack \in Models!Packs
      /\ s \notin Models!Packs <=> s = Models!Reader
      /\ s \in Models!Packs => job[s].pack = s
      /\ s = Models!Reader => job[s].pack # Pipeline /\ job[s].kind \in {"inspect", "proof"}
  BY <1>1, Acting, CatalogIs DEF ModelsInv, Models!Packs
<1>3. job[s].ok /\ s \in Models!Packs => \A i \in DOMAIN FilesOf[s] : content[FilesOf[s][i]] = "good"
  BY <1>1, <1>2 DEF SlotOK, ScannedIsGood
<1>4. CASE \E e : Models!Fail(s, e)
  BY <1>1, <1>2, <1>4, FailStep
<1>5. CASE \E result :
             /\ Models!End(s, result) /\ DOMAIN result = {"installing", "installed", "error"}
             /\ s \in Models!Packs /\ (s = Pipeline \/ job[s].kind = "install") /\ result.installed
                => job[s].ok
  <2>1. PICK result :
             /\ Models!End(s, result) /\ DOMAIN result = {"installing", "installed", "error"}
             /\ s \in Models!Packs /\ (s = Pipeline \/ job[s].kind = "install") /\ result.installed
                => job[s].ok
    BY <1>5
  <2>2. /\ job' = [job EXCEPT ![s] = Models!Idle] /\ busy' = IF s = Models!Reader THEN busy ELSE FALSE
        /\ status' = [status EXCEPT ![job[s].pack] = result]
    BY <2>1 DEF Models!End
  <2>3. StatusOK(status') /\ (s \in Models!Packs => status'[s] = result)
    <3>1. DOMAIN result = {"installing", "installed", "error"}
      BY <2>1
    <3>2. QED
      BY <1>2, <2>2, <3>1 DEF ModelsInv, StatusOK
  <2>4. s \in Models!Packs => EndsWhole(s)
    BY <1>1, <1>3, <2>1, <2>3 DEF EndsWhole
  <2>5. SlotOK(s, job'[s], content', partial')
    BY <2>2 DEF ModelsInv, SlotOK, JobOK, Models!Idle, Loads, ScannedIsGood, StagedIsGood
  <2>6. QED
    BY <1>1, <1>2, <2>2, <2>3, <2>4, <2>5 DEF SlotStep, ModelsInv
<1>6. QED
  <2> DEFINE p == job[s].pack
  <2>0. PICK ok : ok = job[s].ok
    OBVIOUS
  <2>1. CASE job[s].kind = "install" \/ (p = Pipeline /\ job[s].kind = "proof")
    <3>1. CASE job[s].ok /\ Models!End(s, [Models!Default EXCEPT !.installed = TRUE])
      <4>1. DOMAIN [Models!Default EXCEPT !.installed = TRUE] = {"installing", "installed", "error"}
        BY DEF Models!Default
      <4>2. QED
        BY <1>5, <3>1, <4>1
    <3>2. CASE \E e : Models!Fail(s, e)
      BY <1>4, <3>2
    <3>3. QED
      BY <2>1, <3>1, <3>2 DEF Models!EndScan
  <2>2. CASE job[s].kind = "proof" /\ p # Pipeline /\ Models!End(s, status[p])
    <3>1. DOMAIN status[p] = {"installing", "installed", "error"}
      BY <1>2 DEF ModelsInv, StatusOK
    <3>2. QED
      BY <1>2, <1>5, <2>2, <3>1
  <2>3. CASE Models!End(s, [Models!Default EXCEPT !.installed = ok])
    <3>1. /\ DOMAIN [Models!Default EXCEPT !.installed = ok] = {"installing", "installed", "error"}
          /\ [Models!Default EXCEPT !.installed = ok].installed = ok
      BY DEF Models!Default
    <3>2. QED
      BY <1>5, <2>0, <2>3, <3>1
  <2>4. CASE \E e : Models!End(s, [status[p] EXCEPT !.installed = ok, !.error = e])
    <3>1. PICK e : Models!End(s, [status[p] EXCEPT !.installed = ok, !.error = e])
      BY <2>4
    <3>2. DOMAIN status[p] = {"installing", "installed", "error"}
      BY <1>2 DEF ModelsInv, StatusOK
    <3>3. LET r == [status[p] EXCEPT !.installed = ok, !.error = e]
          IN  DOMAIN r = {"installing", "installed", "error"} /\ r.installed = ok
      BY <3>2
    <3>4. QED
      BY <1>5, <2>0, <3>1, <3>3
  <2>5. QED
    BY <2>0, <2>1, <2>2, <2>3, <2>4 DEF Models!EndScan

LEMMA RemovalStep ==
    ASSUME ModelsInv, NEW s \in Models!Slots, Models!RemoveFile(s) \/ Models!EndRemove(s)
    PROVE  SlotStep(s)
<1>1. job[s].pc = "remove" /\ job[s] # Models!Idle /\ s \in Models!Packs /\ job[s].pack = s
  BY Acting DEF Models!RemoveFile, Models!EndRemove, Models!At
<1>2. CASE Models!RemoveFile(s)
  <2>1. /\ Models!Write(Models!File(s), "none") /\ Models!Advance(s, "remove") /\ UNCHANGED <<status, busy>>
        /\ DOMAIN partial' = ModelFiles
    BY <1>2 DEF Models!RemoveFile, ModelsInv, DiskOK
  <2>2. QED
    BY <1>1, <2>1, WriteKeepsDisk, AdvanceStep
<1>3. CASE Models!EndRemove(s) /\ s = Pipeline
  BY <1>1, <1>3, DiskStays, VerifyStep DEF Models!EndRemove
<1>4. CASE Models!EndRemove(s) /\ Models!End(s, Models!Default) /\ s # Pipeline
  <2>1. /\ job' = [job EXCEPT ![s] = Models!Idle] /\ busy' = IF s = Models!Reader THEN busy ELSE FALSE
        /\ status' = [status EXCEPT ![s] = Models!Default] /\ UNCHANGED <<content, cache, partial>>
    BY <1>1, <1>4 DEF Models!End, Models!EndRemove
  <2>2. DOMAIN Models!Default = {"installing", "installed", "error"} /\ ~Models!Default.installed
    BY DEF Models!Default
  <2>3. StatusOK(status') /\ EndsWhole(s)
    BY <1>1, <2>1, <2>2 DEF ModelsInv, StatusOK, EndsWhole
  <2>4. SlotOK(s, job'[s], content', partial')
    BY <2>1 DEF ModelsInv, SlotOK, JobOK, Models!Idle, Loads, ScannedIsGood, StagedIsGood
  <2>5. s # Models!Reader
    BY <1>1, CatalogIs DEF Models!Packs, Models!Reader
  <2>6. QED
    BY <1>1, <2>1, <2>3, <2>4, <2>5, DiskStays DEF SlotStep, ModelsInv
<1>5. QED
  BY <1>1, <1>2, <1>3, <1>4 DEF Models!EndRemove

LEMMA CheckStep ==
    ASSUME ModelsInv, NEW s \in Models!Slots, Models!CheckShared(s) \/ Models!CheckOwn(s) \/ Models!CheckPartial(s)
    PROVE  SlotStep(s)
<1>1. job[s].pc = "file" /\ job[s].pc \in Loads /\ job[s] # Models!Idle /\ s \in Models!Packs /\ job[s].pack = s
  BY Acting DEF Models!CheckShared, Models!CheckOwn, Models!CheckPartial, Models!At, Loads
<1>2. CASE Models!CheckShared(s)
  <2>0. UNCHANGED content /\ Models!Learned(s, Models!File(s)) /\ DOMAIN partial' = ModelFiles
    BY <1>2 DEF Models!CheckShared, ModelsInv, DiskOK
  <2>1. DiskStep(s)
    BY <1>1, <2>0, LearnedKeepsDisk
  <2>2. CASE Models!Finished(s) /\ UNCHANGED <<status, busy>>
    BY <1>1, <2>1, <2>2, FinishedStep
  <2>3. CASE Models!Fail(s, "destination_conflict")
    BY <1>1, <2>1, <2>3, FailStep
  <2>4. QED
    BY <1>2, <2>2, <2>3 DEF Models!CheckShared
<1>3. CASE Models!CheckOwn(s)
  <2>1. UNCHANGED <<status, busy, partial>> /\ DOMAIN partial = ModelFiles
    BY <1>3 DEF Models!CheckOwn, ModelsInv, DiskOK
  <2>2. CASE Models!Finished(s) /\ UNCHANGED <<content, cache>>
    BY <1>1, <2>1, <2>2, DiskStays, FinishedStep
  <2>3. CASE Models!Write(Models!File(s), "none") /\ UNCHANGED job
    <3>1. DiskStep(s)
      BY <1>1, <2>1, <2>3, WriteKeepsDisk
    <3>2. SlotOK(s, job[s], content', partial') /\ DOMAIN job = Models!Slots
      BY <1>1, <2>1 DEF ModelsInv, SlotOK, ScannedIsGood
    <3>3. QED
      BY <1>1, <2>1, <2>3, <3>1, <3>2 DEF SlotStep, ModelsInv, EndsWhole
  <2>4. QED
    BY <1>3, <2>2, <2>3 DEF Models!CheckOwn
<1>4. CASE Models!CheckPartial(s)
  <2>0. UNCHANGED <<content, cache>> /\ DOMAIN partial' = ModelFiles
    BY <1>4 DEF Models!CheckPartial, ModelsInv, DiskOK, Models!Fail
  <2>1. DiskStep(s)
    BY <1>1, <2>0, DiskStays
  <2>2. CASE Models!Fail(s, "verification_failed")
    BY <1>1, <2>1, <2>2, FailStep
  <2>3. CASE UNCHANGED <<status, busy, partial>>
             /\ (Models!Goto(s, "request") \/ (Models!Goto(s, "publish") /\ partial[Models!File(s)] = "full"))
    BY <1>1, <2>1, <2>3, MoveStep DEF Loads
  <2>4. QED
    BY <1>4, <2>2, <2>3 DEF Models!CheckPartial, Models!DigestMatches
<1>5. QED
  BY <1>2, <1>3, <1>4

LEMMA DownloadStep ==
    ASSUME ModelsInv, NEW s \in Models!Slots, Models!Network(s) \/ Models!Interrupt(s)
    PROVE  SlotStep(s)
<1>1. job[s].pc \in {"request", "stream"} /\ UNCHANGED <<content, cache>>
  BY DEF Models!Network, Models!OpenOutput, Models!Chunk, Models!NetworkFails,
         Models!Interrupt, Models!At
<1>2. /\ job[s] # Models!Idle /\ s \in Models!Packs /\ job[s].pc \in Loads
      /\ DOMAIN partial = ModelFiles /\ Models!File(s) \in ModelFiles
  <2>1. job[s] # Models!Idle /\ s \in Models!Packs /\ job[s].pc \in Loads
    BY <1>1, Acting DEF Loads
  <2>2. job[s].todo \in Seq(ModelFiles) \ {<<>>} /\ DOMAIN partial = ModelFiles
    BY <2>1 DEF ModelsInv, SlotOK, JobOK, DiskOK
  <2>3. QED
    BY <2>1, <2>2 DEF Models!File
<1>a. DOMAIN partial' = ModelFiles
  BY <1>2
     DEF Models!Network, Models!OpenOutput, Models!Chunk, Models!NetworkFails,
         Models!Interrupt
<1>b. DiskStep(s)
  BY <1>1, <1>2, <1>a, DiskStays
<1>3. CASE \E e : Models!Fail(s, e)
  BY <1>1, <1>2, <1>b, <1>3, FailStep
<1>4. CASE UNCHANGED <<status, busy>> /\ \E pc \in {"stream", "publish"} :
             Models!Goto(s, pc) /\ (pc = "publish" => partial'[Models!File(s)] = "full")
  BY <1>2, <1>b, <1>4, MoveStep DEF Loads
<1>5. CASE Models!OpenOutput(s)
  BY <1>3, <1>4, <1>5 DEF Models!OpenOutput
<1>6. CASE \E right \in BOOLEAN : Models!Chunk(s, right)
  <2>1. PICK right \in BOOLEAN : Models!Chunk(s, right)
    BY <1>6
  <2> DEFINE bytes == Models!Grown(partial[Models!File(s)], right)
  <2>2. CASE \E e : Models!Fail(s, e)
    BY <1>3, <2>2
  <2>3. CASE /\ partial' = [partial EXCEPT ![Models!File(s)] = bytes] /\ UNCHANGED <<status, busy>>
             /\ Models!Goto(s, IF Models!Complete(bytes) THEN "publish" ELSE "stream")
             /\ ~(Models!Complete(bytes) /\ ~Models!DigestMatches(bytes))
    <3>1. partial'[Models!File(s)] = bytes
      BY <1>2, <2>3
    <3> HIDE DEF bytes
    <3>2. QED
      BY <1>4, <2>3, <3>1 DEF Models!DigestMatches
  <2>4. QED
    BY <2>1, <2>2, <2>3 DEF Models!Chunk
<1>7. CASE Models!NetworkFails(s) \/ Models!Interrupt(s)
  BY <1>3, <1>7 DEF Models!NetworkFails, Models!Interrupt
<1>8. QED
  BY <1>5, <1>6, <1>7 DEF Models!Network

LEMMA PublishStep ==
    ASSUME ModelsInv, NEW s \in Models!Slots, Models!Publish(s) \/ Models!Unlink(s)
    PROVE  SlotStep(s)
<1>1. job[s].pc \in {"publish", "unlink"} /\ job[s].pc \in Loads /\ job[s] # Models!Idle /\ s \in Models!Packs
  BY Acting DEF Models!Publish, Models!Unlink, Models!At, Loads
<1>2. DOMAIN partial' = ModelFiles
  BY DEF ModelsInv, DiskOK, Models!Publish, Models!Unlink
<1>3. CASE (\E e : Models!Fail(s, e)) /\ UNCHANGED <<content, cache>>
  BY <1>1, <1>2, <1>3, DiskStays, FailStep
<1>4. CASE Models!Publish(s) /\ content[Models!File(s)] = "none"
  <2>1. Models!Published(Models!File(s)) = "good"
    BY <1>1, <1>4
       DEF ModelsInv, SlotOK, StagedIsGood, Models!Published, Models!File, Models!Publish,
           Models!At
  <2>2. Models!Write(Models!File(s), "good") /\ UNCHANGED <<status, busy>>
    BY <1>4, <2>1 DEF Models!Publish
  <2>3. DiskStep(s)
    BY <1>1, <1>2, <2>2, WriteKeepsDisk
  <2>4. CASE Models!Goto(s, "unlink")
    BY <1>1, <2>2, <2>3, <2>4, MoveStep DEF Loads
  <2>5. CASE Models!Finished(s)
    BY <1>1, <2>2, <2>3, <2>5, FinishedStep
  <2>6. QED
    BY <1>4, <2>4, <2>5 DEF Models!Publish
<1>5. CASE Models!Unlink(s) /\ Models!Finished(s) /\ Models!Learned(s, Models!File(s)) /\ UNCHANGED <<status, busy>>
  <2>1. DiskStep(s)
    BY <1>1, <1>2, <1>5, LearnedKeepsDisk DEF Models!Unlink
  <2>2. QED
    BY <1>1, <1>5, <2>1, FinishedStep
<1>6. QED
  BY <1>3, <1>4, <1>5 DEF Models!Publish, Models!Unlink

LEMMA StopCanceledStep ==
    ASSUME ModelsInv, NEW s \in Models!Slots, Models!StopCanceled(s)
    PROVE  SlotStep(s)
BY Acting, DiskStays, FailStep DEF Models!StopCanceled

LEMMA PacksStep ==
    ASSUME ModelsInv, Models!Next, ~Models!Kill
    PROVE  \E s \in Models!Slots : SlotStep(s)
<1>1. CASE \E p \in Models!Packs : \/ Models!Inspect(p) \/ Models!Prove(p) \/ Models!Install(p) \/ Models!Remove(p)
                            \/ Models!Cancel(p) \/ Models!DropRequest(p)
  <2>1. PICK p \in Models!Packs : \/ Models!Inspect(p) \/ Models!Prove(p) \/ Models!Install(p) \/ Models!Remove(p)
                            \/ Models!Cancel(p) \/ Models!DropRequest(p)
    BY <1>1
  <2>2. CASE Models!Cancel(p) \/ Models!DropRequest(p)
    BY <2>2, CancelStep DEF Models!Slots
  <2>3. CASE \E op \in JobKinds : Models!Begin(p, op)
    BY <2>3, BeginStep DEF Models!Slots, Models!Slot
  <2>4. QED
    BY <2>1, <2>2, <2>3
       DEF Models!Inspect, Models!Prove, Models!Install, Models!Remove, JobKinds
<1>2. CASE \E s \in Models!Slots : Models!Step(s) \/ Models!Network(s)
  <2>1. PICK s \in Models!Slots : Models!Step(s) \/ Models!Network(s)
    BY <1>2
  <2>2. SlotStep(s)
    BY <2>1, ScanFileStep, EndScanStep, RemovalStep, CheckStep, DownloadStep, PublishStep,
       StopCanceledStep DEF Models!Step
  <2>3. QED
    BY <2>2
<1>3. QED
  BY <1>1, <1>2 DEF Models!Next

LEMMA PacksKilled ==
    ASSUME ModelsInv, Models!Kill
    PROVE  /\ ModelsInv'
           /\ \A p \in Models!Packs : ~status'[p].installed
           /\ UNCHANGED content
<1>1. /\ content' = content /\ partial' = partial /\ cache' = [f \in ModelFiles |-> "unknown"]
      /\ status' = [p \in Models!Packs |-> Models!Default] /\ job' = [s \in Models!Slots |-> Models!Idle]
  BY DEF Models!Kill
<1>2. DOMAIN job' = Models!Slots /\ \A s \in Models!Slots : job'[s] = Models!Idle
  BY <1>1
<1>3. \A s \in Models!Slots : SlotOK(s, job'[s], content', partial')
  BY <1>2 DEF SlotOK, JobOK, Models!Idle, Loads, ScannedIsGood, StagedIsGood
<1>4. DiskOK(content', cache', partial')
  BY <1>1 DEF ModelsInv, DiskOK
<1>5. StatusOK(status') /\ \A p \in Models!Packs : ~status'[p].installed
  BY <1>1 DEF StatusOK, Models!Default
<1>6. LeaseOK(job', busy')
  BY <1>2 DEF LeaseOK, Models!Slots
<1>7. QED
  BY <1>1, <1>2, <1>3, <1>4, <1>5, <1>6 DEF ModelsInv

LEMMA ModelsInit == Models!WellFormed /\ Models!Init => ModelsInv
<1> SUFFICES ASSUME Models!WellFormed, Models!Init PROVE ModelsInv
  OBVIOUS
<1>1. /\ content \in Found /\ cache = [f \in ModelFiles |-> "unknown"]
      /\ partial = [f \in ModelFiles |-> "none"]
      /\ status = [p \in Models!Packs |-> Models!Default] /\ job = [s \in Models!Slots |-> Models!Idle]
  BY DEF Models!Init
<1>2. DOMAIN job = Models!Slots /\ \A s \in Models!Slots : job[s] = Models!Idle
  BY <1>1
<1>3. \A s \in Models!Slots : SlotOK(s, job[s], content, partial)
  BY <1>2 DEF SlotOK, JobOK, Models!Idle, Loads, ScannedIsGood, StagedIsGood
<1>4. DiskOK(content, cache, partial)
  BY <1>1 DEF DiskOK, Models!WellFormed
<1>5. StatusOK(status)
  BY <1>1 DEF StatusOK, Models!Default
<1>6. LeaseOK(job, busy)
  BY <1>2 DEF LeaseOK, Models!Slots
<1>7. QED
  BY <1>2, <1>3, <1>4, <1>5, <1>6 DEF ModelsInv

LEMMA ModelsNext == ModelsInv /\ [Models!Next]_Models!vars => ModelsInv'
<1> SUFFICES ASSUME ModelsInv, [Models!Next]_Models!vars PROVE ModelsInv'
  OBVIOUS
<1>1. CASE Models!Next /\ ~Models!Kill
  BY <1>1, PacksStep, SlotStepInv
<1>2. CASE Models!Kill
  BY <1>2, PacksKilled
<1>3. CASE UNCHANGED Models!vars
  BY <1>3 DEF Models!vars, ModelsInv
<1>4. QED
  BY <1>1, <1>2, <1>3

LEMMA InstallingEnds ==
    ASSUME ModelsInv, [Models!Next]_Models!vars, NEW p \in Models!Packs, job[p] # Models!Idle, job'[p] = Models!Idle,
           status'[p].installed, p = Pipeline \/ job[p].kind = "install"
    PROVE  \A i \in DOMAIN FilesOf[p] : content'[FilesOf[p][i]] = "good"
<1>1. CASE Models!Next /\ ~Models!Kill
  <2>1. PICK s \in Models!Slots : SlotStep(s)
    BY <1>1, PacksStep
  <2>2. s = p
    BY <2>1 DEF SlotStep, Models!Slots
  <2>3. QED
    BY <2>1, <2>2 DEF SlotStep, EndsWhole
<1>2. CASE Models!Kill
  BY <1>2, PacksKilled
<1>3. CASE UNCHANGED Models!vars
  BY <1>3 DEF Models!vars
<1>4. QED
  BY <1>1, <1>2, <1>3

\* Every operation keeps the invariant of the packs: a verdict that is kept is
\* the file's, one operation at a time has the lease, and a scan that is still
\* good has passed only files that are the catalog's (Work::execute, install).
THEOREM ModelsInvariant == Models!WellFormed => (Models!Spec => []ModelsInv)
BY ModelsInit, ModelsNext, PTL DEF Models!Spec

\* An operation that says installed leaves every file of its pack the catalog's.
THEOREM InstalledStaysWhole == Models!WellFormed => (Models!Spec => Models!InstalledIsWhole)
<1>1. ModelsInv /\ [Models!Next]_Models!vars =>
        [/\ \A p \in Models!Packs : Models!Succeeds(p, {"install"}) =>
              \A i \in DOMAIN FilesOf[p] : content'[FilesOf[p][i]] = "good"
         /\ Models!Succeeds(Pipeline, {"inspect", "proof", "remove", "removeShared"}) =>
              \A i \in DOMAIN FilesOf[Pipeline] : content'[FilesOf[Pipeline][i]] = "good"]_Models!vars
  <2> SUFFICES ASSUME ModelsInv, [Models!Next]_Models!vars
      PROVE  /\ \A p \in Models!Packs : Models!Succeeds(p, {"install"}) =>
              \A i \in DOMAIN FilesOf[p] : content'[FilesOf[p][i]] = "good"
             /\ Models!Succeeds(Pipeline, {"inspect", "proof", "remove", "removeShared"}) =>
              \A i \in DOMAIN FilesOf[Pipeline] : content'[FilesOf[Pipeline][i]] = "good"
    OBVIOUS
  <2>1. \A p : job[p].kind \in JobKinds => job[p] # Models!Idle
    BY DEF Models!Idle, JobKinds
  <2>2. Pipeline \in Models!Packs
    BY DEF Models!Packs
  <2>3. QED
    BY <2>1, <2>2, InstallingEnds DEF Models!Succeeds, JobKinds
<1>2. QED
  BY <1>1, ModelsInvariant, PTL DEF Models!Spec, Models!InstalledIsWhole

\* What appears at a destination is the catalog's, whatever was staged before.
THEOREM OnlyWholeIsPublished == Models!WellFormed => (Models!Spec => Models!OnlyVerifiedIsPublished)
<1>1. ModelsInv /\ [Models!Next]_Models!vars => [\A f \in ModelFiles : content'[f] \in {content[f], "none", "good"}]_Models!vars
  <2> SUFFICES ASSUME ModelsInv, Models!Next
      PROVE  \A f \in ModelFiles : content'[f] \in {content[f], "none", "good"}
    OBVIOUS
  <2>1. CASE Models!Kill
    BY <2>1, PacksKilled
  <2>2. CASE ~Models!Kill
    BY <2>2, PacksStep DEF SlotStep, DiskStep
  <2>3. QED
    BY <2>1, <2>2
<1>2. QED
  BY <1>1, ModelsInvariant, PTL DEF Models!Spec, Models!OnlyVerifiedIsPublished

------------------------
(* SpeechText: transcripts that tell all that was said, and summaries of all *)
(* that was told.  First numbers, loops and sequences of sequences.            *)

\* A set of numbers that is not empty has a least one.
LEMMA Smallest ==
    ASSUME NEW T, T \subseteq Nat, T # {}
    PROVE  \E x \in T : \A y \in T : x <= y
<1>1. IsWellFoundedOn(OpToRel(<, Nat), Nat)
  BY NatLessThanWellFounded
<1>2. PICK t \in T : \A u \in T : ~(<<u, t>> \in OpToRel(<, Nat))
  BY <1>1, WFMin
<1>3. \A u \in T : ~(u < t)
  BY <1>2 DEF OpToRel
<1>4. \A u \in T : u \in Nat /\ t \in Nat
  OBVIOUS
<1>5. QED
  BY <1>3, <1>4

\* A set of numbers closed under the successor holds them all.
LEMMA Counting ==
    ASSUME NEW T, 0 \in T, \A n \in Nat : n \in T => n + 1 \in T
    PROVE  Nat \subseteq T
<1> SUFFICES ASSUME Nat \ T # {} PROVE FALSE
  OBVIOUS
<1>1. PICK x \in Nat \ T : \A y \in Nat \ T : x <= y
  BY Smallest
<1>2. x # 0 /\ x - 1 \in Nat /\ (x - 1) + 1 = x
  BY <1>1
<1>3. x - 1 \in T
  BY <1>1, <1>2
<1>4. QED
  BY <1>1, <1>2, <1>3

\* A set of numbers under some bound has a greatest one.
LEMMA GreatestOf ==
    ASSUME NEW T, T \subseteq Nat, T # {}, NEW b \in Nat, \A x \in T : x <= b
    PROVE  Text!Max(T) \in T /\ \A y \in T : y <= Text!Max(T)
<1> DEFINE Bounds == {n \in Nat : \A x \in T : x <= n}
<1>1. Bounds \subseteq Nat /\ Bounds # {}
  OBVIOUS
<1>2. PICK n \in Bounds : \A k \in Bounds : n <= k
  <2> HIDE DEF Bounds
  <2>1. QED
    BY <1>1, Smallest
<1>3. n \in T
  <2> SUFFICES ASSUME n \notin T PROVE FALSE
    OBVIOUS
  <2>1. PICK x \in T : TRUE
    OBVIOUS
  <2>2. n \in Nat /\ x \in Nat /\ x <= n /\ n # 0
    BY <1>2, <2>1
  <2>3. n - 1 \in Nat /\ \A y \in T : y <= n - 1
    BY <1>2, <2>2
  <2>4. n - 1 \in Bounds
    BY <2>3
  <2>5. n <= n - 1
    BY <1>2, <2>4
  <2>6. QED
    BY <2>2, <2>5
<1>4. \E m \in T : \A y \in T : m >= y
  BY <1>2, <1>3
<1>5. Text!Max(T) \in T /\ \A y \in T : Text!Max(T) >= y
  BY <1>4 DEF Text!Max
<1>6. QED
  BY <1>5

\* The chosen least element is one of the set, and least.
LEMMA LeastOf ==
    ASSUME NEW T, T \subseteq Nat, T # {}
    PROVE  Text!Min(T) \in T /\ \A y \in T : Text!Min(T) <= y
BY Smallest DEF Text!Min

\* The states of a loop of m steps that begins with a.
IsRun(f, D, a, m, S) ==
    f \in [0 .. m -> D] /\ f[0] = a /\ \A n \in 1 .. m : f[n] = S[n][f[n - 1]]

\* They exist, for a body that keeps a set.
LEMMA LoopExists ==
    ASSUME NEW D, NEW a, NEW m, NEW S, a \in D, m \in Nat, S \in [1 .. m -> [D -> D]]
    PROVE  \E f : IsRun(f, D, a, m, S)
<1> DEFINE Run(k) == \E f \in [0 .. k -> D] : f[0] = a /\ \A n \in 1 .. k : f[n] = S[n][f[n - 1]]
           T == {k \in Nat : k <= m => Run(k)}
<1>1. 0 \in T
  <2> DEFINE f == [n \in 0 .. 0 |-> a]
  <2>1. f \in [0 .. 0 -> D] /\ f[0] = a /\ 1 .. 0 = {}
    OBVIOUS
  <2>2. QED
    BY <2>1
<1>2. ASSUME NEW k \in Nat, k \in T PROVE k + 1 \in T
  <2> SUFFICES ASSUME k + 1 <= m PROVE Run(k + 1)
    OBVIOUS
  <2>0. Run(k)
    BY <1>2
  <2>1. PICK f \in [0 .. k -> D] : f[0] = a /\ \A n \in 1 .. k : f[n] = S[n][f[n - 1]]
    BY <2>0
  <2> DEFINE g == [n \in 0 .. k + 1 |-> IF n <= k THEN f[n] ELSE S[k + 1][f[k]]]
  <2>2. f[k] \in D /\ k + 1 \in 1 .. m
    BY <2>1
  <2>3. S[k + 1][f[k]] \in D
    BY <2>2
  <2>4. g \in [0 .. k + 1 -> D]
    BY <2>1, <2>3
  <2>5. g[0] = a
    BY <2>1
  <2>6. ASSUME NEW n \in 1 .. k + 1 PROVE g[n] = S[n][g[n - 1]]
    <3>1. CASE n <= k
      BY <2>1, <3>1
    <3>2. CASE n = k + 1
      BY <2>1, <3>2
    <3>3. QED
      BY <3>1, <3>2
  <2>7. QED
    BY <2>4, <2>5, <2>6
<1>3. Nat \subseteq T
  <2> HIDE DEF T
  <2>1. QED
    BY <1>1, <1>2, Counting
<1>4. m \in T
  BY <1>3
<1>5. QED
  BY <1>4 DEF IsRun

\* FlattenSeq joins the sequences one by one.
LEMMA FlattenIs ==
    ASSUME NEW X, NEW seqs \in Seq(Seq(X))
    PROVE  \E f \in [0 .. Len(seqs) -> Seq(X)] :
              /\ f[0] = <<>> /\ Text!FlattenSeq(seqs) = f[Len(seqs)]
              /\ \A n \in 1 .. Len(seqs) : f[n] = f[n - 1] \o seqs[n]
<1> DEFINE m == Len(seqs)
           D == Seq(X)
           S == [n \in 1 .. m |-> [x \in D |-> x \o seqs[n]]]
           Is(f) == f = [i \in 1 .. m |-> IF i = 1 THEN seqs[i] ELSE f[i - 1] \o seqs[i]]
           flatten == CHOOSE f : Is(f)
<1>0. m \in Nat /\ \A n \in 1 .. m : seqs[n] \in D
  OBVIOUS
<1>1. S \in [1 .. m -> [D -> D]] /\ <<>> \in D
  BY <1>0
<1>2. PICK f : IsRun(f, D, <<>>, m, S)
  <2> HIDE DEF S, D, m
  <2>1. QED
    BY <1>0, <1>1, LoopExists
<1>b. f \in [0 .. m -> D] /\ f[0] = <<>>
  BY <1>2 DEF IsRun
<1>3. \A n \in 1 .. m : f[n - 1] \in D /\ f[n] = f[n - 1] \o seqs[n]
  <2>1. \A n \in 1 .. m : n - 1 \in 0 .. m
    BY <1>0
  <2>2. \A n \in 1 .. m, x \in D : S[n][x] = x \o seqs[n]
    OBVIOUS
  <2> HIDE DEF S, D, m
  <2>3. QED
    BY <1>2, <1>b, <2>1, <2>2 DEF IsRun
<1>a. m # 0 => f[1] = seqs[1]
  <2> SUFFICES ASSUME m # 0 PROVE f[1] = seqs[1]
    OBVIOUS
  <2>1. 1 \in 1 .. m /\ seqs[1] \in Seq(X)
    BY <1>0
  <2>2. f[0] = <<>>
    BY <1>b
  <2>3. f[1] = f[1 - 1] \o seqs[1]
    BY <1>3, <2>1
  <2>4. f[1 - 1] = f[0]
    OBVIOUS
  <2>5. <<>> \o seqs[1] = seqs[1]
    BY <2>1
  <2>6. QED
    BY <2>2, <2>3, <2>4, <2>5
<1>4. CASE m = 0
  <2>1. seqs = <<>> /\ Text!FlattenSeq(seqs) = seqs
    BY <1>4 DEF Text!FlattenSeq
  <2>2. QED
    BY <1>b, <1>3, <1>4, <2>1
<1>5. CASE m # 0
  <2> DEFINE g == [i \in 1 .. m |-> f[i]]
             h == [i \in 1 .. m |-> IF i = 1 THEN seqs[i] ELSE g[i - 1] \o seqs[i]]
  <2>1. ASSUME NEW i \in 1 .. m PROVE g[i] = h[i]
    <3>1. CASE i = 1
      BY <1>a, <1>5, <3>1
    <3>2. CASE i # 1
      <4>1. i - 1 \in 1 .. m
        BY <1>0, <3>2
      <4>2. QED
        BY <1>3, <3>2, <4>1
    <3>3. QED
      BY <3>1, <3>2
  <2>2. g = h
    BY <2>1
  <2>3. Is(g)
    BY <2>2
  <2>4. Is(flatten)
    BY <2>3
  <2>5. \A i \in 1 .. m : flatten[i] = (IF i = 1 THEN seqs[i] ELSE flatten[i - 1] \o seqs[i])
    <3> DEFINE k == [i \in 1 .. m |-> IF i = 1 THEN seqs[i] ELSE flatten[i - 1] \o seqs[i]]
    <3>1. flatten = k
      BY <2>4
    <3> HIDE DEF flatten, m
    <3>2. \A i \in 1 .. m : k[i] = (IF i = 1 THEN seqs[i] ELSE flatten[i - 1] \o seqs[i])
      OBVIOUS
    <3> HIDE DEF k
    <3>3. QED
      BY <3>1, <3>2, SMTT(30)
  <2>6. Text!FlattenSeq(seqs) = flatten[m]
    BY <1>5 DEF Text!FlattenSeq
  <2> DEFINE T == {n \in Nat : n \in 1 .. m => flatten[n] = f[n]}
  <2> HIDE DEF flatten, m
  <2>7. 0 \in T
    BY <1>0
  <2>8. ASSUME NEW n \in Nat, n \in T PROVE n + 1 \in T
    <3> SUFFICES ASSUME n + 1 \in 1 .. m PROVE flatten[n + 1] = f[n + 1]
      OBVIOUS
    <3>1. CASE n = 0
      <4>1. flatten[1] = seqs[1]
        BY <2>5, <3>1
      <4>2. QED
        BY <1>a, <1>5, <3>1, <4>1
    <3>2. CASE n # 0
      <4>1. n \in 1 .. m /\ n + 1 # 1 /\ (n + 1) - 1 = n
        BY <1>0, <3>2
      <4>2. flatten[n] = f[n]
        BY <2>8, <4>1
      <4>3. flatten[n + 1] = flatten[n] \o seqs[n + 1]
        BY <2>5, <4>1
      <4>4. f[n + 1] = f[n] \o seqs[n + 1]
        BY <1>3, <4>1
      <4>5. QED
        BY <4>2, <4>3, <4>4
    <3>3. QED
      BY <3>1, <3>2
  <2>9. Nat \subseteq T
    <3> HIDE DEF T
    <3>1. QED
      BY <2>7, <2>8, Counting
  <2>10. m \in T /\ m \in 1 .. m
    BY <1>0, <1>5, <2>9
  <2>11. QED
    BY <1>b, <1>3, <2>6, <2>10 DEF m
<1>6. QED
  BY <1>4, <1>5

\* The joined sequence has the same elements' type, and nothing joins to nothing.
LEMMA FlattenTypes ==
    ASSUME NEW X, NEW seqs \in Seq(Seq(X))
    PROVE  Text!FlattenSeq(seqs) \in Seq(X) /\ (seqs = <<>> => Text!FlattenSeq(seqs) = <<>>)
<1>1. PICK f \in [0 .. Len(seqs) -> Seq(X)] :
        /\ f[0] = <<>> /\ Text!FlattenSeq(seqs) = f[Len(seqs)]
        /\ \A n \in 1 .. Len(seqs) : f[n] = f[n - 1] \o seqs[n]
  BY FlattenIs
<1>2. Len(seqs) \in 0 .. Len(seqs) /\ (seqs = <<>> => Len(seqs) = 0)
  OBVIOUS
<1>3. QED
  BY <1>1, <1>2

\* A sequence more is joined at the end.
LEMMA FlattenAppend ==
    ASSUME NEW X, NEW seqs \in Seq(Seq(X)), NEW s \in Seq(X)
    PROVE  Text!FlattenSeq(Append(seqs, s)) = Text!FlattenSeq(seqs) \o s
<1> DEFINE m == Len(seqs)
           more == Append(seqs, s)
<1>1. /\ m \in Nat /\ more \in Seq(Seq(X)) /\ Len(more) = m + 1
      /\ more[m + 1] = s /\ \A n \in 1 .. m : more[n] = seqs[n]
  OBVIOUS
<1>2. PICK f \in [0 .. m -> Seq(X)] :
        /\ f[0] = <<>> /\ Text!FlattenSeq(seqs) = f[m]
        /\ \A n \in 1 .. m : f[n] = f[n - 1] \o seqs[n]
  BY FlattenIs
<1>3. PICK g \in [0 .. m + 1 -> Seq(X)] :
        /\ g[0] = <<>> /\ Text!FlattenSeq(more) = g[m + 1]
        /\ \A n \in 1 .. m + 1 : g[n] = g[n - 1] \o more[n]
  <2> HIDE DEF more, m
  <2>1. PICK g \in [0 .. Len(more) -> Seq(X)] :
        /\ g[0] = <<>> /\ Text!FlattenSeq(more) = g[Len(more)]
        /\ \A n \in 1 .. Len(more) : g[n] = g[n - 1] \o more[n]
    BY <1>1, FlattenIs, ZenonT(40)
  <2>2. QED
    BY <1>1, <2>1
<1> DEFINE T == {n \in Nat : n <= m => g[n] = f[n]}
<1> HIDE DEF more, m
<1>4. 0 \in T
  BY <1>2, <1>3
<1>5. ASSUME NEW n \in Nat, n \in T PROVE n + 1 \in T
  <2> SUFFICES ASSUME n + 1 <= m PROVE g[n + 1] = f[n + 1]
    OBVIOUS
  <2>1. n + 1 \in 1 .. m /\ n + 1 \in 1 .. m + 1 /\ (n + 1) - 1 = n
    BY <1>1
  <2>2. g[n] = f[n] /\ more[n + 1] = seqs[n + 1]
    BY <1>1, <1>5, <2>1
  <2>3. g[n + 1] = g[n] \o more[n + 1] /\ f[n + 1] = f[n] \o seqs[n + 1]
    BY <1>2, <1>3, <2>1
  <2>4. QED
    BY <2>2, <2>3
<1>6. Nat \subseteq T
  <2> HIDE DEF T
  <2>1. QED
    BY <1>4, <1>5, Counting
<1>7. g[m] = f[m]
  BY <1>1, <1>6
<1>8. m + 1 \in 1 .. m + 1 /\ (m + 1) - 1 = m
  BY <1>1
<1>9. g[m + 1] = g[m] \o s
  BY <1>1, <1>3, <1>8
<1>10. QED
  BY <1>2, <1>3, <1>7, <1>9 DEF more

\* Every element of "all" comes from a part, the elements of earlier parts first.
Parts(all, seqs) ==
    \A i \in 1 .. Len(all) : \E w \in 1 .. Len(seqs) : \E k \in 1 .. Len(seqs[w]) : all[i] = seqs[w][k]

InTurn(x, y, seqs) ==
    \E w, u \in 1 .. Len(seqs) : \E k \in 1 .. Len(seqs[w]), l \in 1 .. Len(seqs[u]) :
        x = seqs[w][k] /\ y = seqs[u][l] /\ (w < u \/ (w = u /\ k < l))

PartsInOrder(all, seqs) ==
    \A i, j \in 1 .. Len(all) : i < j => InTurn(all[i], all[j], seqs)

\* One part more keeps that.
LEMMA PartsAppend ==
    ASSUME NEW X, NEW seqs \in Seq(Seq(X)), NEW all \in Seq(X), NEW s \in Seq(X),
           Parts(all, seqs), PartsInOrder(all, seqs)
    PROVE  Parts(all \o s, Append(seqs, s)) /\ PartsInOrder(all \o s, Append(seqs, s))
<1> DEFINE more == Append(seqs, s)
           new == all \o s
           m == Len(seqs)
           n == Len(all)
<1>1. /\ m \in Nat /\ Len(more) = m + 1 /\ more[m + 1] = s
      /\ \A w \in 1 .. m : more[w] = seqs[w] /\ Len(seqs[w]) \in Nat
  OBVIOUS
<1>2. /\ n \in Nat /\ Len(s) \in Nat /\ Len(new) = n + Len(s)
      /\ \A i \in 1 .. n : new[i] = all[i]
      /\ \A i \in 1 .. Len(new) : i \notin 1 .. n => i - n \in 1 .. Len(s) /\ new[i] = s[i - n]
  OBVIOUS
<1> HIDE DEF more, new, m, n
<1>3. \A w \in 1 .. m : w \in 1 .. m + 1 /\ w < m + 1
  BY <1>1
<1>4. m + 1 \in 1 .. m + 1
  BY <1>1
<1>5. \A i \in 1 .. n : \E w \in 1 .. m : \E k \in 1 .. Len(seqs[w]) : all[i] = seqs[w][k]
  BY DEF Parts, m, n
<1>6. \A i, j \in 1 .. n : i < j =>
        \E w, u \in 1 .. m : \E k \in 1 .. Len(seqs[w]), l \in 1 .. Len(seqs[u]) :
            all[i] = seqs[w][k] /\ all[j] = seqs[u][l] /\ (w < u \/ (w = u /\ k < l))
  BY DEF PartsInOrder, InTurn, m, n
<1>7. Parts(new, more)
  <2> SUFFICES ASSUME NEW i \in 1 .. Len(new)
               PROVE  \E w \in 1 .. m + 1 : \E k \in 1 .. Len(more[w]) : new[i] = more[w][k]
    BY <1>1 DEF Parts
  <2>1. CASE i \in 1 .. n
    <3>1. PICK w \in 1 .. m : \E k \in 1 .. Len(seqs[w]) : all[i] = seqs[w][k]
      BY <1>5, <2>1
    <3>2. more[w] = seqs[w] /\ w \in 1 .. m + 1 /\ new[i] = all[i]
      BY <1>1, <1>2, <1>3, <2>1
    <3>3. QED
      BY <3>1, <3>2
  <2>2. CASE i \notin 1 .. n
    <3>1. i - n \in 1 .. Len(more[m + 1]) /\ new[i] = more[m + 1][i - n]
      BY <1>1, <1>2, <2>2
    <3>2. QED
      BY <1>4, <3>1
  <2>3. QED
    BY <2>1, <2>2
<1>8. ASSUME NEW i \in 1 .. Len(new), NEW j \in 1 .. Len(new), i < j
      PROVE  InTurn(new[i], new[j], more)
  <2> SUFFICES \E w, u \in 1 .. m + 1 : \E k \in 1 .. Len(more[w]), l \in 1 .. Len(more[u]) :
                new[i] = more[w][k] /\ new[j] = more[u][l] /\ (w < u \/ (w = u /\ k < l))
    BY <1>1 DEF InTurn
  <2>0. i \in Nat /\ j \in Nat
    BY <1>2
  <2>1. CASE j \in 1 .. n
    <3>1. i \in 1 .. n
      BY <1>2, <1>8, <2>0, <2>1
    <3>2. PICK w \in 1 .. m, u \in 1 .. m : \E k \in 1 .. Len(seqs[w]), l \in 1 .. Len(seqs[u]) :
            all[i] = seqs[w][k] /\ all[j] = seqs[u][l] /\ (w < u \/ (w = u /\ k < l))
      BY <1>6, <1>8, <2>1, <3>1
    <3>3. more[w] = seqs[w] /\ more[u] = seqs[u] /\ w \in 1 .. m + 1 /\ u \in 1 .. m + 1
      BY <1>1, <1>3
    <3>4. new[i] = all[i] /\ new[j] = all[j]
      BY <1>2, <2>1, <3>1
    <3>5. QED
      BY <3>2, <3>3, <3>4
  <2>2. CASE i \in 1 .. n /\ j \notin 1 .. n
    <3>1. j - n \in 1 .. Len(more[m + 1]) /\ new[j] = more[m + 1][j - n]
      BY <1>1, <1>2, <2>2
    <3>2. PICK w \in 1 .. m : \E k \in 1 .. Len(seqs[w]) : all[i] = seqs[w][k]
      BY <1>5, <2>2
    <3>3. more[w] = seqs[w] /\ w \in 1 .. m + 1 /\ w < m + 1 /\ new[i] = all[i]
      BY <1>1, <1>2, <1>3, <2>2
    <3>4. QED
      BY <1>4, <3>1, <3>2, <3>3
  <2>3. CASE i \notin 1 .. n /\ j \notin 1 .. n
    <3>1. /\ i - n \in 1 .. Len(more[m + 1]) /\ new[i] = more[m + 1][i - n]
          /\ j - n \in 1 .. Len(more[m + 1]) /\ new[j] = more[m + 1][j - n]
      BY <1>1, <1>2, <2>3
    <3>2. i - n < j - n
      BY <1>2, <1>8, <2>0
    <3>3. QED
      BY <1>4, <3>1, <3>2
  <2>4. i \notin 1 .. n => j \notin 1 .. n
    BY <1>2, <1>8, <2>0
  <2>5. QED
    BY <2>1, <2>2, <2>3, <2>4
<1>9. PartsInOrder(new, more)
  BY <1>8 DEF PartsInOrder
<1>10. QED
  BY <1>7, <1>9 DEF new, more

\* FlattenSeq keeps the order of the parts.
LEMMA FlattenOrder ==
    ASSUME NEW X, NEW seqs \in Seq(Seq(X))
    PROVE  Parts(Text!FlattenSeq(seqs), seqs) /\ PartsInOrder(Text!FlattenSeq(seqs), seqs)
<1> DEFINE P(s) == Parts(Text!FlattenSeq(s), s) /\ PartsInOrder(Text!FlattenSeq(s), s)
           T == {n \in Nat : \A s \in Seq(Seq(X)) : Len(s) = n => P(s)}
<1>1. 0 \in T
  <2> SUFFICES ASSUME NEW s \in Seq(Seq(X)), Len(s) = 0 PROVE P(s)
    OBVIOUS
  <2>1. s = <<>>
    OBVIOUS
  <2>2. Text!FlattenSeq(s) = <<>>
    BY <2>1, FlattenTypes
  <2>3. QED
    BY <2>2 DEF Parts, PartsInOrder
<1>2. ASSUME NEW n \in Nat, n \in T PROVE n + 1 \in T
  <2> SUFFICES ASSUME NEW s \in Seq(Seq(X)), Len(s) = n + 1 PROVE P(s)
    OBVIOUS
  <2> DEFINE front == SubSeq(s, 1, n)
             last == s[n + 1]
  <2>1. front \in Seq(Seq(X)) /\ Len(front) = n /\ last \in Seq(X) /\ s = Append(front, last)
    <3>1. front \in Seq(Seq(X)) /\ Len(front) = n /\ last \in Seq(X)
      OBVIOUS
    <3>2. Append(front, last) \in Seq(Seq(X)) /\ Len(Append(front, last)) = n + 1
      BY <3>1
    <3>3. \A i \in 1 .. n + 1 : Append(front, last)[i] = s[i]
      BY <3>1
    <3> HIDE DEF front, last
    <3>4. QED
      BY <3>1, <3>2, <3>3, SeqEqual
  <2>2. P(front)
    <3> HIDE DEF front, P
    <3>1. QED
      BY <1>2, <2>1
  <2>3. Text!FlattenSeq(front) \in Seq(X)
    BY <2>1, FlattenTypes
  <2>4. Text!FlattenSeq(s) = Text!FlattenSeq(front) \o last
    BY <2>1, FlattenAppend
  <2> HIDE DEF front, last
  <2>5. /\ Parts(Text!FlattenSeq(front) \o last, Append(front, last))
        /\ PartsInOrder(Text!FlattenSeq(front) \o last, Append(front, last))
    BY <2>1, <2>2, <2>3, PartsAppend
  <2>6. QED
    BY <2>1, <2>4, <2>5
<1>3. Nat \subseteq T
  <2> HIDE DEF T
  <2>1. QED
    BY <1>1, <1>2, Counting
<1>4. Len(seqs) \in T
  BY <1>3
<1>5. QED
  BY <1>4

\* It is empty only if all the parts are.
LEMMA FlattenNonEmpty ==
    ASSUME NEW X, NEW seqs \in Seq(Seq(X)), seqs # <<>>, seqs[Len(seqs)] # <<>>
    PROVE  Text!FlattenSeq(seqs) # <<>>
<1>1. PICK f \in [0 .. Len(seqs) -> Seq(X)] :
        /\ f[0] = <<>> /\ Text!FlattenSeq(seqs) = f[Len(seqs)]
        /\ \A n \in 1 .. Len(seqs) : f[n] = f[n - 1] \o seqs[n]
  BY FlattenIs
<1> DEFINE m == Len(seqs)
<1>2. m \in 1 .. m /\ m - 1 \in 0 .. m /\ seqs[m] \in Seq(X) /\ Len(seqs[m]) # 0
  OBVIOUS
<1>3. f[m - 1] \in Seq(X) /\ Text!FlattenSeq(seqs) = f[m - 1] \o seqs[m]
  BY <1>1, <1>2
<1> HIDE DEF m
<1>4. Len(f[m - 1] \o seqs[m]) = Len(f[m - 1]) + Len(seqs[m]) /\ Len(f[m - 1]) \in Nat /\ Len(seqs[m]) \in Nat
  BY <1>2, <1>3
<1>5. Len(f[m - 1] \o seqs[m]) # 0
  <2>1. \A x, y \in Nat : y # 0 => x + y # 0
    OBVIOUS
  <2>2. QED
    BY <1>2, <1>4, <2>1
<1>6. f[m - 1] \o seqs[m] # <<>>
  <2>1. \A x : Len(x) # 0 => x # <<>>
    OBVIOUS
  <2>2. QED
    BY <1>5, <2>1, Zenon
<1>7. QED
  BY <1>3, <1>6

\* A sequence is its front and its last element.
LEMMA FrontAndLast ==
    ASSUME NEW Y, NEW s \in Seq(Y), NEW n \in Nat, Len(s) = n + 1
    PROVE  /\ SubSeq(s, 1, n) \in Seq(Y) /\ Len(SubSeq(s, 1, n)) = n /\ s[n + 1] \in Y
           /\ s = Append(SubSeq(s, 1, n), s[n + 1])
<1> DEFINE front == SubSeq(s, 1, n)
           last == s[n + 1]
<1>1. front \in Seq(Y) /\ Len(front) = n /\ last \in Y
  OBVIOUS
<1>2. Append(front, last) \in Seq(Y) /\ Len(Append(front, last)) = n + 1
  BY <1>1
<1>3. \A i \in 1 .. n + 1 : Append(front, last)[i] = s[i]
  BY <1>1
<1>4. s = Append(front, last)
  <2> HIDE DEF front, last
  <2>1. QED
    BY <1>1, <1>2, <1>3, SeqEqual
<1>5. QED
  BY <1>1, <1>4

------------------------
(* Summaries: the chunks of a text, and what they are reduced to. *)

TextPieces == [line : Nat, from : Nat, to : Nat]
TextLines == [size : Nat \ {0}, width : Nat \ {0}]
Chunking == [out : Seq(Seq(TextPieces)), current : Seq(TextPieces), bytes : Nat]

\* The pieces of the line i.
IsLine(pieces, line, i) ==
    /\ pieces \in Seq(TextPieces) /\ pieces # <<>>
    /\ pieces[1].from = 0 /\ pieces[Len(pieces)].to = line.size
    /\ \A k \in 1 .. Len(pieces) : pieces[k].line = i /\ pieces[k].from < pieces[k].to
    /\ \A k \in 2 .. Len(pieces) : pieces[k].from = pieces[k - 1].to

\* A part of a product is no greater than one of more parts.
LEMMA MoreParts == ASSUME NEW a \in Nat, NEW b \in Nat, NEW s \in Nat, a <= b PROVE a * s <= b * s
<1>1. (b - a) * s >= 0 /\ b - a \in Nat
  <2>1. b - a \in Nat
    OBVIOUS
  <2>2. \A x, y \in Nat : x * y >= 0
    OBVIOUS
  <2>3. QED
    BY <2>1, <2>2
<1>2. b * s = a * s + (b - a) * s
  BY <1>1
<1>3. QED
  BY <1>1, <1>2

\* A long line is cut into pieces that follow each other.
LEMMA PiecesAre ==
    ASSUME Text!WellFormed, NEW line \in TextLines, line.width <= ChunkBytes, NEW i \in Nat
    PROVE  IsLine(Text!Pieces(line, i), line, i)
<1> DEFINE w == line.width
           size == line.size
           step == ChunkBytes - (ChunkBytes % w)
           count == (size + step - 1) \div step
           pieces == Text!Pieces(line, i)
           from(k) == (k - 1) * step
           to(k) == Text!Least(k * step, size)
<1>1. ChunkBytes \in Nat /\ w \in Nat \ {0} /\ w <= ChunkBytes /\ size \in Nat \ {0}
  BY DEF Text!WellFormed, TextLines
<1>2. step \in Nat /\ step > 0
  <2>1. \A c, v \in Nat : v > 0 => (c % v) \in 0 .. v - 1
    OBVIOUS
  <2>2. (ChunkBytes % w) \in 0 .. w - 1
    BY <1>1, <2>1
  <2>3. QED
    BY <1>1, <2>2
<1> HIDE DEF step
<1>3. count \in Nat /\ count > 0 /\ (count - 1) * step < size /\ size <= count * step
  <2>1. size + step - 1 \in Nat
    BY <1>1, <1>2
  <2>2. /\ count \in Nat /\ count * step <= size + step - 1
        /\ size + step - 1 < (count + 1) * step
    <3>1. \A x, y \in Nat : y > 0 => /\ x \div y \in Nat /\ (x \div y) * y <= x
                                     /\ x < (x \div y + 1) * y
      OBVIOUS
    <3>2. QED
      BY <1>2, <2>1, <3>1
  <2> HIDE DEF count
  <2>3. (count + 1) * step = count * step + step /\ (count - 1) * step = count * step - step
    BY <1>2, <2>2
  <2>4. size <= count * step /\ (count - 1) * step < size
    BY <1>1, <1>2, <2>2, <2>3
  <2>5. count # 0
    <3>1. 0 * step = 0
      BY <1>2
    <3>2. CASE count = 0
      BY <1>1, <2>4, <3>1, <3>2
    <3>3. QED
      BY <3>2
  <2>6. QED
    BY <2>2, <2>4, <2>5
<1>4. pieces = [k \in 1 .. count |-> [line |-> i, from |-> from(k), to |-> to(k)]]
  BY DEF Text!Pieces, step
<1> HIDE DEF count, pieces
<1>5. \A k \in 1 .. count : /\ from(k) \in Nat /\ to(k) \in Nat /\ from(k) < to(k) /\ to(k) <= size
                            /\ k < count => to(k) = k * step
  <2> SUFFICES ASSUME NEW k \in 1 .. count
               PROVE  /\ from(k) \in Nat /\ to(k) \in Nat /\ from(k) < to(k) /\ to(k) <= size
                      /\ k < count => to(k) = k * step
    OBVIOUS
  <2>1. k \in Nat /\ k - 1 \in Nat /\ count - 1 \in Nat /\ k - 1 <= count - 1 /\ k - 1 < k
    BY <1>3
  <2>2. (k - 1) * step <= (count - 1) * step
    BY <1>2, <2>1, MoreParts
  <2>3. /\ (k - 1) * step \in Nat /\ k * step \in Nat /\ (count - 1) * step \in Nat
        /\ k * step = (k - 1) * step + step
    <3>1. \A x, y \in Nat : x * y \in Nat
      OBVIOUS
    <3>2. QED
      BY <1>2, <2>1, <3>1
  <2>4. from(k) \in Nat /\ from(k) < k * step /\ from(k) < size
    BY <1>1, <1>2, <1>3, <2>2, <2>3
  <2>5. k < count => k * step < size
    <3> SUFFICES ASSUME k < count PROVE k * step < size
      OBVIOUS
    <3>1. k <= count - 1
      BY <1>3, <2>1
    <3>2. k * step <= (count - 1) * step
      BY <1>2, <2>1, <3>1, MoreParts
    <3>3. QED
      BY <1>1, <1>3, <2>3, <3>2
  <2> DEFINE x == k * step
             y == (k - 1) * step
  <2>6. x \in Nat /\ y \in Nat /\ y < x /\ y < size /\ (k < count => x < size)
    BY <2>3, <2>4, <2>5
  <2> HIDE DEF x, y
  <2>7. /\ Text!Least(x, size) \in Nat /\ y < Text!Least(x, size) /\ Text!Least(x, size) <= size
        /\ k < count => Text!Least(x, size) = x
    BY <1>1, <2>6 DEF Text!Least
  <2>8. QED
    BY <2>6, <2>7 DEF x, y
<1>6. to(count) = size
  BY <1>1, <1>2, <1>3 DEF Text!Least
<1>7. \A k \in 2 .. count : k - 1 \in 1 .. count /\ k - 1 < count /\ from(k) = (k - 1) * step
  BY <1>3
<1>8. 1 \in 1 .. count /\ count \in 1 .. count /\ from(1) = 0
  BY <1>2, <1>3
<1> HIDE DEF from, to
<1>9. \A k \in 1 .. count : pieces[k] = [line |-> i, from |-> from(k), to |-> to(k)]
  BY <1>4
<1>10. pieces \in Seq(TextPieces) /\ Len(pieces) = count
  <2>1. ASSUME NEW k \in 1 .. count PROVE pieces[k] \in TextPieces
    <3>1. from(k) \in Nat /\ to(k) \in Nat /\ pieces[k] = [line |-> i, from |-> from(k), to |-> to(k)]
      BY <1>5, <1>9
    <3>2. QED
      BY <3>1 DEF TextPieces
  <2>2. pieces \in [1 .. count -> TextPieces]
    BY <1>4, <2>1
  <2>3. QED
    BY <1>3, <2>2
<1>11. pieces # <<>>
  BY <1>3, <1>10
<1>12. ASSUME NEW k \in 1 .. count
       PROVE  pieces[k].line = i /\ pieces[k].from = from(k) /\ pieces[k].to = to(k) /\ from(k) < to(k)
  <2>1. pieces[k] = [line |-> i, from |-> from(k), to |-> to(k)]
    BY <1>9
  <2>2. from(k) < to(k)
    BY <1>5
  <2>3. QED
    BY <2>1, <2>2
<1>13. \A k \in 2 .. count : pieces[k].from = pieces[k - 1].to
  <2> SUFFICES ASSUME NEW k \in 2 .. count PROVE pieces[k].from = pieces[k - 1].to
    OBVIOUS
  <2>1. k - 1 \in 1 .. count /\ k - 1 < count /\ from(k) = (k - 1) * step /\ k \in 1 .. count
    BY <1>3, <1>7
  <2>2. to(k - 1) = (k - 1) * step
    BY <1>5, <2>1
  <2>3. QED
    BY <1>12, <2>1, <2>2
<1>14. IsLine(pieces, line, i)
  BY <1>6, <1>8, <1>10, <1>11, <1>12, <1>13 DEF IsLine
<1>15. QED
  BY <1>14 DEF pieces

\* What is added is of the same kind.
LEMMA AddedTypes ==
    ASSUME Text!WellFormed, NEW a \in Chunking, NEW line \in TextLines, line.width <= ChunkBytes,
           NEW i \in Nat
    PROVE  Text!Added(a, line, i) \in Chunking
<1>1. /\ a.out \in Seq(Seq(TextPieces)) /\ a.current \in Seq(TextPieces) /\ a.bytes \in Nat
      /\ a = [out |-> a.out, current |-> a.current, bytes |-> a.bytes]
  BY DEF Chunking
<1>2. line.size \in Nat /\ ChunkBytes \in Nat
  BY DEF TextLines, Text!WellFormed
<1>3. Text!Closed(a) \in Chunking
  <2>1. Append(a.out, a.current) \in Seq(Seq(TextPieces)) /\ <<>> \in Seq(TextPieces)
    BY <1>1
  <2>2. QED
    BY <2>1 DEF Chunking, Text!Closed, Text!Full
<1>4. CASE line.size > ChunkBytes
  <2> DEFINE pieces == Text!Pieces(line, i)
  <2>1. pieces \in Seq(TextPieces)
    BY PiecesAre DEF IsLine
  <2> HIDE DEF pieces
  <2>2. Text!Alone(pieces) \in Seq(Seq(TextPieces))
    <3>1. \A k \in 1 .. Len(pieces) : <<pieces[k]>> \in Seq(TextPieces)
      BY <2>1
    <3>2. DOMAIN pieces = 1 .. Len(pieces) /\ Len(pieces) \in Nat
      BY <2>1
    <3>3. QED
      BY <3>1, <3>2 DEF Text!Alone
  <2>3. Text!Closed(a).out \o Text!Alone(pieces) \in Seq(Seq(TextPieces))
    BY <1>3, <2>2 DEF Chunking
  <2>4. Text!Added(a, line, i) = [out |-> Text!Closed(a).out \o Text!Alone(pieces), current |-> <<>>, bytes |-> 0]
    BY <1>4 DEF Text!Added, Text!Full, pieces
  <2>5. QED
    BY <2>3, <2>4 DEF Chunking
<1>5. CASE ~(line.size > ChunkBytes)
  <2> DEFINE open == IF a.bytes + line.size > ChunkBytes THEN Text!Closed(a) ELSE a
             piece == [line |-> i, from |-> 0, to |-> line.size]
  <2>1. open \in Chunking /\ piece \in TextPieces
    BY <1>1, <1>2, <1>3 DEF TextPieces
  <2>2. Text!Added(a, line, i) = Text!Joined(open, line, i)
    BY <1>5 DEF Text!Added
  <2> HIDE DEF open
  <2>3. Text!Joined(open, line, i) = [out |-> open.out, bytes |-> open.bytes + line.size,
                                      current |-> Append(open.current, piece)]
    BY DEF Text!Joined
  <2>4. /\ open.out \in Seq(Seq(TextPieces)) /\ Append(open.current, piece) \in Seq(TextPieces)
        /\ open.bytes + line.size \in Nat
    BY <1>2, <2>1 DEF Chunking
  <2>5. QED
    BY <2>2, <2>3, <2>4 DEF Chunking
<1>6. QED
  BY <1>4, <1>5

\* A sequence is its front and its last element.
LEMMA FrontOf ==
    ASSUME NEW X, NEW u \in Seq(X), NEW n \in Nat, Len(u) = n + 1
    PROVE  /\ SubSeq(u, 1, n) \in Seq(X) /\ Len(SubSeq(u, 1, n)) = n /\ u[n + 1] \in X
           /\ u = Append(SubSeq(u, 1, n), u[n + 1])
           /\ \A k \in 1 .. n : SubSeq(u, 1, n)[k] = u[k]
<1>1. SubSeq(u, 1, n) \in Seq(X) /\ Len(SubSeq(u, 1, n)) = n /\ u[n + 1] \in X
  OBVIOUS
<1>2. \A k \in 1 .. n : SubSeq(u, 1, n)[k] = u[k]
  OBVIOUS
<1> DEFINE v == Append(SubSeq(u, 1, n), u[n + 1])
<1>3. v \in Seq(X) /\ Len(v) = n + 1 /\ v[n + 1] = u[n + 1] /\ \A k \in 1 .. n : v[k] = u[k]
  BY <1>1, <1>2
<1>4. v = u
  <2> HIDE DEF v
  <2>1. \A k \in 1 .. n + 1 : v[k] = u[k]
    BY <1>3
  <2>2. QED
    BY <1>3, <2>1, SeqEqual
<1>5. QED
  BY <1>1, <1>2, <1>4

\* The lines are added one by one.
LEMMA ChunkLoop ==
    ASSUME Text!WellFormed, NEW lines \in Seq(TextLines), \A i \in DOMAIN lines : lines[i].width <= ChunkBytes
    PROVE  \E f \in [0 .. Len(lines) -> Chunking] :
              /\ Text!ChunkText(lines) = Text!Closed(f[Len(lines)]).out
              /\ f[0] = Text!Full(<<>>)
              /\ \A n \in 1 .. Len(lines) : f[n] = Text!Added(f[n - 1], lines[n], n)
<1> DEFINE m == Len(lines)
           D == Chunking
           a == Text!Full(<<>>)
           S == [n \in 1 .. m |-> [x \in D |-> Text!Added(x, lines[n], n)]]
           Is(f) == f = [n \in 0 .. m |-> IF n = 0 THEN a ELSE Text!Added(f[n - 1], lines[n], n)]
           after == CHOOSE f : Is(f)
<1>m. m \in Nat
  OBVIOUS
<1>a. a \in D
  BY DEF Text!Full, Chunking
<1>0. \A n \in 1 .. m, x \in D : Text!Added(x, lines[n], n) \in D
  <2> SUFFICES ASSUME NEW n \in 1 .. m, NEW x \in D PROVE Text!Added(x, lines[n], n) \in D
    OBVIOUS
  <2>1. n \in Nat /\ lines[n] \in TextLines /\ lines[n].width <= ChunkBytes
    OBVIOUS
  <2>2. QED
    BY <2>1, AddedTypes
<1>1. S \in [1 .. m -> [D -> D]]
  <2> HIDE DEF D, m
  <2>1. QED
    BY <1>0
<1>2. PICK f : IsRun(f, D, a, m, S)
  <2> HIDE DEF S, m, a, D
  <2>1. QED
    BY <1>1, <1>m, <1>a, LoopExists
<1>b. f \in [0 .. m -> D] /\ f[0] = a
  BY <1>2 DEF IsRun
<1>3. \A n \in 1 .. m : f[n - 1] \in D /\ f[n] = Text!Added(f[n - 1], lines[n], n)
  <2> HIDE DEF m, a, D
  <2>1. \A n \in 1 .. m : n - 1 \in 0 .. m
    BY <1>m
  <2>2. \A n \in 1 .. m, x \in D : S[n][x] = Text!Added(x, lines[n], n)
    OBVIOUS
  <2> HIDE DEF S
  <2>3. QED
    BY <1>2, <1>b, <2>1, <2>2 DEF IsRun
<1>4. Is(f)
  <2> DEFINE h == [n \in 0 .. m |-> IF n = 0 THEN a ELSE Text!Added(f[n - 1], lines[n], n)]
  <2> HIDE DEF S, m, a, D
  <2>1. \A n \in 0 .. m : n # 0 => n \in 1 .. m
    BY <1>m
  <2>2. ASSUME NEW n \in 0 .. m PROVE f[n] = h[n]
    BY <1>b, <1>3, <2>1
  <2>3. f = [n \in 0 .. m |-> f[n]] /\ h = [n \in 0 .. m |-> h[n]]
    BY <1>b
  <2> HIDE DEF h
  <2>4. f = h
    BY <2>2, <2>3
  <2>5. QED
    BY <2>4 DEF h
<1>5. Is(after)
  BY <1>4
<1>6. Text!ChunkText(lines) = Text!Closed(after[m]).out
  BY DEF Text!ChunkText
<1> DEFINE g == [n \in 0 .. m |-> IF n = 0 THEN a ELSE Text!Added(after[n - 1], lines[n], n)]
<1>7. after = g
  BY <1>5
<1> HIDE DEF after, a, m, S
<1>8. /\ g \in [0 .. m -> {g[n] : n \in 0 .. m}] /\ g[0] = a
      /\ \A n \in 1 .. m : g[n] = Text!Added(after[n - 1], lines[n], n)
  <2>1. 0 \in 0 .. m /\ \A n \in 1 .. m : n \in 0 .. m /\ n # 0
    BY <1>m
  <2>2. QED
    BY <2>1
<1> HIDE DEF g
<1>9. after[0] = a /\ \A n \in 1 .. m : after[n] = Text!Added(after[n - 1], lines[n], n)
  BY <1>7, <1>8
<1> DEFINE T == {n \in Nat : n <= m => after[n] \in D}
<1>10. \A n \in 0 .. m : after[n] \in D
  <2> HIDE DEF D
  <2>1. 0 \in T
    BY <1>9, <1>a
  <2>2. ASSUME NEW n \in Nat, n \in T PROVE n + 1 \in T
    <3> SUFFICES ASSUME n + 1 <= m PROVE after[n + 1] \in D
      OBVIOUS
    <3>1. after[n] \in D /\ n + 1 \in 1 .. m /\ (n + 1) - 1 = n
      BY <1>m, <2>2
    <3>2. after[n + 1] = Text!Added(after[n], lines[(n + 1)], (n + 1))
      BY <1>9, <3>1
    <3>3. QED
      BY <1>0, <3>1, <3>2
  <2>3. Nat \subseteq T
    <3> HIDE DEF T
    <3>1. QED
      BY <2>1, <2>2, Counting
  <2>4. QED
    BY <1>m, <2>3
<1>11. after \in [0 .. m -> D]
  BY <1>7, <1>8, <1>10
<1> HIDE DEF D
<1>12. QED
  BY <1>6, <1>9, <1>11 DEF a, m, D

\* Sequences that are joined may be joined in two parts.
LEMMA FlattenJoin ==
    ASSUME NEW X, NEW s \in Seq(Seq(X)), NEW t \in Seq(Seq(X))
    PROVE  Text!FlattenSeq(s \o t) = Text!FlattenSeq(s) \o Text!FlattenSeq(t)
<1> DEFINE P(u) == Text!FlattenSeq(s \o u) = Text!FlattenSeq(s) \o Text!FlattenSeq(u)
           T == {n \in Nat : \A u \in Seq(Seq(X)) : Len(u) = n => P(u)}
<1>0. \A u \in Seq(Seq(X)) : Text!FlattenSeq(u) \in Seq(X) /\ (u = <<>> => Text!FlattenSeq(u) = <<>>)
  BY FlattenTypes
<1>1. 0 \in T
  <2> SUFFICES ASSUME NEW u \in Seq(Seq(X)), Len(u) = 0 PROVE P(u)
    OBVIOUS
  <2>1. u = <<>>
    OBVIOUS
  <2>2. s \o u = s /\ Text!FlattenSeq(u) = <<>> /\ Text!FlattenSeq(s) \in Seq(X)
    <3>1. s \o <<>> = s
      BY ConcatEmptySeq
    <3>2. QED
      BY <1>0, <2>1, <3>1
  <2>3. Text!FlattenSeq(s) \o <<>> = Text!FlattenSeq(s)
    BY <2>2, ConcatEmptySeq
  <2>4. QED
    BY <2>2, <2>3
<1>2. ASSUME NEW n \in Nat, n \in T PROVE n + 1 \in T
  <2> SUFFICES ASSUME NEW u \in Seq(Seq(X)), Len(u) = n + 1 PROVE P(u)
    OBVIOUS
  <2> DEFINE front == SubSeq(u, 1, n)
             last == u[n + 1]
  <2>1. front \in Seq(Seq(X)) /\ Len(front) = n /\ last \in Seq(X) /\ u = Append(front, last)
    BY FrontAndLast
  <2> HIDE DEF front, last
  <2>2. P(front)
    BY <1>2, <2>1
  <2>3. s \o u = Append(s \o front, last) /\ s \o front \in Seq(Seq(X))
    <3>1. Append(front, last) = front \o <<last>> /\ <<last>> \in Seq(Seq(X))
      BY <2>1
    <3>2. s \o (front \o <<last>>) = (s \o front) \o <<last>>
      BY <2>1, <3>1, ConcatAssociative, SMTT(60)
    <3>3. (s \o front) \o <<last>> = Append(s \o front, last)
      BY <2>1
    <3>4. s \o front \in Seq(Seq(X))
      BY <2>1
    <3>5. QED
      BY <2>1, <3>1, <3>2, <3>3, <3>4, ZenonT(30)
  <2>4. Text!FlattenSeq(s \o u) = Text!FlattenSeq(s \o front) \o last
    BY <2>1, <2>3, FlattenAppend
  <2>5. Text!FlattenSeq(u) = Text!FlattenSeq(front) \o last
    BY <2>1, FlattenAppend
  <2>6. Text!FlattenSeq(s) \in Seq(X) /\ Text!FlattenSeq(front) \in Seq(X)
    BY <1>0, <2>1
  <2>7. (Text!FlattenSeq(s) \o Text!FlattenSeq(front)) \o last = Text!FlattenSeq(s) \o (Text!FlattenSeq(front) \o last)
    <3>1. ASSUME NEW x \in Seq(X), NEW y \in Seq(X), NEW z \in Seq(X) PROVE (x \o y) \o z = x \o (y \o z)
      BY SMTT(60)
    <3>2. QED
      BY <2>1, <2>6, <3>1, ZenonT(40)
  <2>8. QED
    BY <2>2, <2>4, <2>5, <2>7
<1>3. Nat \subseteq T
  <2> HIDE DEF T
  <2>1. QED
    BY <1>1, <1>2, Counting
<1>4. Len(t) \in T
  BY <1>3
<1>5. QED
  BY <1>4

\* Pieces that are each alone, joined, are the pieces.
LEMMA AloneJoined ==
    ASSUME NEW X, NEW s \in Seq(X)
    PROVE  Text!Alone(s) \in Seq(Seq(X)) /\ Text!FlattenSeq(Text!Alone(s)) = s
<1> DEFINE P(u) == Text!Alone(u) \in Seq(Seq(X)) /\ Text!FlattenSeq(Text!Alone(u)) = u
           T == {n \in Nat : \A u \in Seq(X) : Len(u) = n => P(u)}
<1>1. 0 \in T
  <2> SUFFICES ASSUME NEW u \in Seq(X), Len(u) = 0 PROVE P(u)
    OBVIOUS
  <2>1. u = <<>> /\ Text!Alone(u) = <<>> /\ <<>> \in Seq(Seq(X))
    <3>1. u = <<>> /\ DOMAIN u = {}
      OBVIOUS
    <3>2. QED
      BY <3>1 DEF Text!Alone
  <2>2. QED
    BY <2>1, FlattenTypes
<1>2. ASSUME NEW n \in Nat, n \in T PROVE n + 1 \in T
  <2> SUFFICES ASSUME NEW u \in Seq(X), Len(u) = n + 1 PROVE P(u)
    OBVIOUS
  <2> DEFINE front == SubSeq(u, 1, n)
             last == u[n + 1]
  <2>1. /\ front \in Seq(X) /\ Len(front) = n /\ last \in X /\ u = Append(front, last) /\ u[n + 1] = last
        /\ \A k \in 1 .. n : front[k] = u[k]
    BY FrontOf
  <2> HIDE DEF front, last
  <2>2. P(front)
    BY <1>2, <2>1
  <2>3. Text!Alone(u) = Append(Text!Alone(front), <<last>>)
    <3>1. DOMAIN u = 1 .. n + 1 /\ DOMAIN front = 1 .. n
      BY <2>1
    <3>2. /\ Text!Alone(u) = [k \in 1 .. n + 1 |-> <<u[k]>>]
          /\ Text!Alone(front) = [k \in 1 .. n |-> <<front[k]>>]
      BY <3>1 DEF Text!Alone
    <3>3. /\ Text!Alone(u) \in Seq(Seq(X)) /\ Len(Text!Alone(u)) = n + 1
          /\ Len(Text!Alone(front)) = n
      <4>1. \A k \in 1 .. n + 1 : <<u[k]>> \in Seq(X)
        OBVIOUS
      <4>2. QED
        BY <2>2, <3>2, <4>1
    <3>4. /\ Append(Text!Alone(front), <<last>>) \in Seq(Seq(X))
          /\ Len(Append(Text!Alone(front), <<last>>)) = n + 1
      BY <2>1, <2>2, <3>3, SMTT(30)
    <3>5. \A k \in 1 .. n + 1 : Append(Text!Alone(front), <<last>>)[k] = Text!Alone(u)[k]
      <4> SUFFICES ASSUME NEW k \in 1 .. n + 1
                   PROVE  Append(Text!Alone(front), <<last>>)[k] = Text!Alone(u)[k]
        OBVIOUS
      <4>1. CASE k = n + 1
        BY <2>1, <2>2, <3>2, <3>3, <4>1
      <4>2. CASE k \in 1 .. n
        BY <2>1, <2>2, <3>2, <3>3, <4>2
      <4>3. k = n + 1 \/ k \in 1 .. n
        OBVIOUS
      <4>4. QED
        BY <4>1, <4>2, <4>3
    <3>6. QED
      BY <3>3, <3>4, <3>5, SeqEqual
  <2>4. <<last>> \in Seq(X) /\ Text!FlattenSeq(Text!Alone(u)) = Text!FlattenSeq(Text!Alone(front)) \o <<last>>
    <3>1. <<last>> \in Seq(X)
      BY <2>1
    <3>2. QED
      BY <2>2, <2>3, <3>1, FlattenAppend
  <2>5. Text!Alone(u) \in Seq(Seq(X)) /\ front \o <<last>> = u
    BY <2>1, <2>2, <2>3, <2>4
  <2>6. QED
    BY <2>2, <2>4, <2>5
<1>3. Nat \subseteq T
  <2> HIDE DEF T
  <2>1. QED
    BY <1>1, <1>2, Counting
<1>4. Len(s) \in T
  BY <1>3
<1>5. QED
  BY <1>4

\* The pieces are the first n lines.
Reaches(pieces, lines, n) ==
    /\ n = 0 => pieces = <<>>
    /\ n > 0 => /\ pieces # <<>> /\ pieces[1].line = 1 /\ pieces[1].from = 0
                /\ pieces[Len(pieces)].line = n /\ pieces[Len(pieces)].to = lines[n].size
    /\ \A k \in 1 .. Len(pieces) : pieces[k].from < pieces[k].to /\ pieces[k].line \in 1 .. n
    /\ \A k \in 2 .. Len(pieces) :
          \/ pieces[k].line = pieces[k - 1].line /\ pieces[k].from = pieces[k - 1].to
          \/ /\ pieces[k].line = pieces[k - 1].line + 1 /\ pieces[k].from = 0
             /\ pieces[k - 1].to = lines[pieces[k - 1].line].size

\* One line more makes them one more.
LEMMA ReachesMore ==
    ASSUME NEW lines, NEW pieces \in Seq(TextPieces), NEW n \in Nat, Reaches(pieces, lines, n),
           NEW more, IsLine(more, lines[n + 1], n + 1)
    PROVE  Reaches(pieces \o more, lines, n + 1)
<1> DEFINE all == pieces \o more
           p == Len(pieces)
           q == Len(more)
<1>1. /\ more \in Seq(TextPieces) /\ p \in Nat /\ q \in Nat /\ q > 0 /\ more # <<>>
  <2>1. more \in Seq(TextPieces) /\ more # <<>>
    BY DEF IsLine
  <2>2. QED
    BY <2>1, EmptySeq
<1>2. /\ all \in Seq(TextPieces) /\ Len(all) = p + q
      /\ \A k \in 1 .. p : all[k] = pieces[k]
      /\ \A k \in p + 1 .. p + q : all[k] = more[k - p] /\ k - p \in 1 .. q
  BY <1>1
<1> HIDE DEF all, p, q
<1>3. /\ more[1].from = 0 /\ more[q].to = lines[n + 1].size
      /\ \A k \in 1 .. q : more[k].line = n + 1 /\ more[k].from < more[k].to
      /\ \A k \in 2 .. q : more[k].from = more[k - 1].to
  BY DEF IsLine, q
<1>4. /\ n > 0 => /\ pieces # <<>> /\ pieces[1].line = 1 /\ pieces[1].from = 0
                  /\ pieces[p].line = n /\ pieces[p].to = lines[n].size
      /\ n = 0 => pieces = <<>>
      /\ \A k \in 1 .. p : pieces[k].from < pieces[k].to /\ pieces[k].line \in 1 .. n
  BY DEF Reaches, p
<1>5. (n > 0 => p > 0) /\ (n = 0 => p = 0)
  BY <1>4, EmptySeq DEF p
<1>6. all # <<>> /\ all[p + q] = more[q] /\ 1 \in 1 .. q /\ q \in 1 .. q
  <2>1. p + q \in p + 1 .. p + q /\ (p + q) - p = q /\ p + q # 0
    BY <1>1
  <2>2. QED
    BY <1>1, <1>2, <2>1
<1>7. all[p + q].line = n + 1 /\ all[p + q].to = lines[n + 1].size
  BY <1>3, <1>6
<1>8. all[1].line = 1 /\ all[1].from = 0
  <2>1. CASE n = 0
    <3>1. p = 0 /\ all[1] = more[1]
      <4>1. p = 0 /\ 1 \in p + 1 .. p + q /\ 1 - p = 1
        BY <1>1, <1>5, <2>1
      <4>2. QED
        BY <1>2, <4>1
    <3>2. QED
      BY <1>3, <1>6, <2>1, <3>1
  <2>2. CASE n > 0
    <3>1. 1 \in 1 .. p
      BY <1>1, <1>5, <2>2
    <3>2. QED
      BY <1>2, <1>4, <2>2, <3>1
  <2>3. QED
    BY <2>1, <2>2
<1>9. ASSUME NEW k \in 1 .. p + q PROVE all[k].from < all[k].to /\ all[k].line \in 1 .. n + 1
  <2>1. CASE k \in 1 .. p
    BY <1>2, <1>4, <2>1
  <2>2. CASE k \in p + 1 .. p + q
    BY <1>2, <1>3, <2>2
  <2>3. k \in 1 .. p \/ k \in p + 1 .. p + q
    BY <1>1
  <2>4. QED
    BY <2>1, <2>2, <2>3
<1>10. ASSUME NEW k \in 2 .. p + q
       PROVE  \/ all[k].line = all[k - 1].line /\ all[k].from = all[k - 1].to
              \/ /\ all[k].line = all[k - 1].line + 1 /\ all[k].from = 0
                 /\ all[k - 1].to = lines[all[k - 1].line].size
  <2>1. CASE k \in 2 .. p
    <3>1. k \in 1 .. p /\ k - 1 \in 1 .. p
      BY <1>1, <2>1
    <3>2. \/ pieces[k].line = pieces[k - 1].line /\ pieces[k].from = pieces[k - 1].to
          \/ /\ pieces[k].line = pieces[k - 1].line + 1 /\ pieces[k].from = 0
             /\ pieces[k - 1].to = lines[pieces[k - 1].line].size
      BY <2>1 DEF Reaches, p
    <3>3. QED
      BY <1>2, <3>1, <3>2
  <2>2. CASE k = p + 1
    <3>1. p > 0 /\ n > 0 /\ k - 1 = p /\ p \in 1 .. p /\ k \in p + 1 .. p + q /\ k - p = 1
      BY <1>1, <1>5, <2>2
    <3>2. all[k] = more[1] /\ all[k - 1] = pieces[p]
      BY <1>2, <3>1
    <3>3. QED
      BY <1>3, <1>4, <1>6, <3>1, <3>2
  <2>3. CASE k \in p + 2 .. p + q
    <3>1. k \in p + 1 .. p + q /\ k - 1 \in p + 1 .. p + q /\ k - p \in 2 .. q /\ (k - 1) - p = (k - p) - 1
          /\ k - p \in 1 .. q /\ (k - p) - 1 \in 1 .. q
      BY <1>1, <2>3
    <3>2. all[k] = more[k - p] /\ all[k - 1] = more[(k - p) - 1]
      BY <1>2, <3>1
    <3>3. QED
      BY <1>3, <3>1, <3>2
  <2>4. k \in 2 .. p \/ k = p + 1 \/ k \in p + 2 .. p + q
    BY <1>1
  <2>5. QED
    BY <2>1, <2>2, <2>3, <2>4
<1>11. Reaches(all, lines, n + 1)
  <2>1. n + 1 > 0 /\ n + 1 # 0
    OBVIOUS
  <2>2. QED
    BY <1>2, <1>6, <1>7, <1>8, <1>9, <1>10, <2>1 DEF Reaches
<1>12. QED
  BY <1>11 DEF all

\* All pieces so far, in full chunks or not.
TextSoFar(a) == Text!FlattenSeq(a.out) \o a.current

\* A chunk that is closed keeps its pieces.
LEMMA ClosedKeeps ==
    ASSUME NEW a \in Chunking
    PROVE  /\ Text!Closed(a) \in Chunking /\ Text!Closed(a).current = <<>>
           /\ Text!FlattenSeq(Text!Closed(a).out) = TextSoFar(a) /\ TextSoFar(Text!Closed(a)) = TextSoFar(a)
           /\ TextSoFar(a) \in Seq(TextPieces)
<1>1. /\ a.out \in Seq(Seq(TextPieces)) /\ a.current \in Seq(TextPieces) /\ a.bytes \in Nat
  BY DEF Chunking
<1>2. Text!FlattenSeq(a.out) \in Seq(TextPieces)
  BY <1>1, FlattenTypes
<1>3. TextSoFar(a) \in Seq(TextPieces)
  BY <1>1, <1>2 DEF TextSoFar
<1>4. CASE a.current = <<>>
  <2>1. Text!FlattenSeq(a.out) \o <<>> = Text!FlattenSeq(a.out)
    BY <1>2, ConcatEmptySeq
  <2>2. QED
    BY <1>3, <1>4, <2>1 DEF TextSoFar, Text!Closed
<1>5. CASE a.current # <<>>
  <2> DEFINE c == Append(a.out, a.current)
  <2>1. Text!Closed(a) = [out |-> c, current |-> <<>>, bytes |-> 0]
    BY <1>5 DEF Text!Closed, Text!Full
  <2>2. c \in Seq(Seq(TextPieces)) /\ <<>> \in Seq(TextPieces)
    BY <1>1
  <2>3. Text!FlattenSeq(c) = TextSoFar(a)
    BY <1>1, FlattenAppend DEF TextSoFar
  <2> HIDE DEF c
  <2>4. Text!Closed(a) \in Chunking /\ Text!Closed(a).current = <<>> /\ Text!Closed(a).out = c
    BY <2>1, <2>2 DEF Chunking
  <2>5. Text!FlattenSeq(c) \o <<>> = Text!FlattenSeq(c)
    BY <1>3, <2>3, ConcatEmptySeq
  <2>6. TextSoFar(Text!Closed(a)) = Text!FlattenSeq(c)
    BY <2>4, <2>5 DEF TextSoFar
  <2>7. QED
    BY <1>3, <2>3, <2>4, <2>6
<1>6. QED
  BY <1>4, <1>5

\* A line that is added follows what there is.
LEMMA AddedReaches ==
    ASSUME Text!WellFormed, NEW a \in Chunking, NEW lines \in Seq(TextLines), NEW n \in Nat,
           n + 1 \in 1 .. Len(lines), lines[n + 1].width <= ChunkBytes,
           Reaches(TextSoFar(a), lines, n)
    PROVE  Reaches(TextSoFar(Text!Added(a, lines[n + 1], n + 1)), lines, n + 1)
<1> DEFINE line == lines[n + 1]
           i == n + 1
           b == Text!Closed(a)
<1>1. line \in TextLines /\ line.size \in Nat \ {0} /\ ChunkBytes \in Nat
  <2>1. line \in TextLines
    BY ElementOfSeq
  <2>2. QED
    BY <2>1 DEF TextLines, Text!WellFormed
<1>2. /\ b \in Chunking /\ b.current = <<>> /\ Text!FlattenSeq(b.out) = TextSoFar(a)
      /\ TextSoFar(b) = TextSoFar(a) /\ TextSoFar(a) \in Seq(TextPieces)
  BY ClosedKeeps
<1> HIDE DEF b
<1>3. CASE line.size > ChunkBytes
  <2> DEFINE pieces == Text!Pieces(line, i)
             alone == Text!Alone(pieces)
             all == Text!FlattenSeq(b.out) \o pieces
  <2>1. IsLine(pieces, line, i) /\ pieces \in Seq(TextPieces)
    BY <1>1, PiecesAre, SMTT(30) DEF IsLine
  <2> HIDE DEF pieces
  <2>2. alone \in Seq(Seq(TextPieces)) /\ Text!FlattenSeq(alone) = pieces
    BY <2>1, AloneJoined
  <2>3. Text!Added(a, line, i) = [out |-> b.out \o alone, current |-> <<>>, bytes |-> 0]
    BY <1>3 DEF Text!Added, Text!Full, b, pieces
  <2> HIDE DEF alone
  <2>4. b.out \in Seq(Seq(TextPieces))
    BY <1>2 DEF Chunking
  <2>5. Text!FlattenSeq(b.out \o alone) = all
    BY <2>2, <2>4, FlattenJoin
  <2>6. all \in Seq(TextPieces)
    BY <1>2, <2>1
  <2> HIDE DEF all
  <2>7. all \o <<>> = all
    BY <2>6, ConcatEmptySeq
  <2>8. TextSoFar(Text!Added(a, line, i)) = all
    <3>1. Text!Added(a, line, i).out = b.out \o alone /\ Text!Added(a, line, i).current = <<>>
      BY <2>3, SMTT(30)
    <3>2. TextSoFar(Text!Added(a, line, i)) = Text!FlattenSeq(b.out \o alone) \o <<>>
      BY <3>1 DEF TextSoFar
    <3>3. QED
      BY <2>5, <2>7, <3>2
  <2>9. Reaches(TextSoFar(a) \o pieces, lines, n + 1)
    BY <1>2, <2>1, ReachesMore
  <2>10. QED
    BY <1>2, <2>8, <2>9 DEF all
<1>4. CASE ~(line.size > ChunkBytes)
  <2> DEFINE open == IF a.bytes + line.size > ChunkBytes THEN b ELSE a
             piece == [line |-> i, from |-> 0, to |-> line.size]
  <2>1. open \in Chunking /\ TextSoFar(open) = TextSoFar(a)
    BY <1>2
  <2>2. Text!Added(a, line, i) = Text!Joined(open, line, i)
    BY <1>4 DEF Text!Added, b
  <2> HIDE DEF open
  <2>3. Text!Joined(open, line, i) = [out |-> open.out, bytes |-> open.bytes + line.size,
                                      current |-> Append(open.current, piece)]
    BY DEF Text!Joined
  <2>4. piece \in TextPieces /\ <<piece>> \in Seq(TextPieces)
    BY <1>1 DEF TextPieces
  <2>5. IsLine(<<piece>>, line, i)
    <3>1. Len(<<piece>>) = 1 /\ <<piece>>[1] = piece /\ <<piece>> # <<>> /\ 2 .. 1 = {}
      OBVIOUS
    <3>2. piece.from = 0 /\ piece.to = line.size /\ piece.line = i /\ piece.from < piece.to
      BY <1>1
    <3> HIDE DEF piece
    <3>3. QED
      BY <2>4, <3>1, <3>2 DEF IsLine
  <2>6. open.out \in Seq(Seq(TextPieces)) /\ open.current \in Seq(TextPieces)
    BY <2>1 DEF Chunking
  <2> HIDE DEF piece
  <2>7. TextSoFar(Text!Added(a, line, i)) = TextSoFar(a) \o <<piece>>
    <3> DEFINE all == Text!FlattenSeq(open.out)
    <3>1. all \in Seq(TextPieces)
      BY <2>6, FlattenTypes
    <3>2. Append(open.current, piece) = open.current \o <<piece>>
      BY <2>4, <2>6, AppendIsConcat
    <3>3. TextSoFar(Text!Added(a, line, i)) = all \o Append(open.current, piece)
      <4>1. /\ Text!Added(a, line, i).out = open.out
            /\ Text!Added(a, line, i).current = Append(open.current, piece)
        BY <2>2, <2>3
      <4>2. QED
        BY <4>1 DEF TextSoFar
    <3>4. TextSoFar(open) = all \o open.current
      BY DEF TextSoFar
    <3> HIDE DEF all
    <3>5. (all \o open.current) \o <<piece>> = all \o (open.current \o <<piece>>)
      <4>1. \A x, y, z \in Seq(TextPieces) : (x \o y) \o z = x \o (y \o z)
        BY ConcatAssociative, SMTT(30)
      <4>2. QED
        BY <2>4, <2>6, <3>1, <4>1
    <3>6. QED
      BY <2>1, <3>2, <3>3, <3>4, <3>5
  <2>8. Reaches(TextSoFar(a) \o <<piece>>, lines, n + 1)
    BY <1>2, <2>5, ReachesMore
  <2>9. QED
    BY <2>7, <2>8
<1>5. QED
  BY <1>3, <1>4

\* The chunks of a text are the whole text.
LEMMA ChunkTextReaches ==
    ASSUME Text!WellFormed, NEW lines \in Seq(TextLines), \A i \in DOMAIN lines : lines[i].width <= ChunkBytes
    PROVE  /\ Text!ChunkText(lines) \in Seq(Seq(TextPieces))
           /\ Reaches(Text!FlattenSeq(Text!ChunkText(lines)), lines, Len(lines))
<1> DEFINE m == Len(lines)
<1>m. m \in Nat
  OBVIOUS
<1>1. PICK f \in [0 .. m -> Chunking] :
        /\ Text!ChunkText(lines) = Text!Closed(f[m]).out
        /\ f[0] = Text!Full(<<>>)
        /\ \A n \in 1 .. m : f[n] = Text!Added(f[n - 1], lines[n], n)
  BY ChunkLoop
<1> DEFINE T == {n \in Nat : n <= m => Reaches(TextSoFar(f[n]), lines, n)}
<1>2. 0 \in T
  <2>1. f[0].out = <<>> /\ f[0].current = <<>>
    BY <1>1 DEF Text!Full
  <2>2. Text!FlattenSeq(<<>>) = <<>> /\ <<>> \o <<>> = <<>>
    <3>1. <<>> \in Seq(Seq(TextPieces))
      OBVIOUS
    <3>2. Text!FlattenSeq(<<>>) = <<>>
      BY <3>1, FlattenTypes
    <3>3. QED
      BY <3>2, ConcatEmptySeq
  <2>3. TextSoFar(f[0]) = <<>>
    BY <2>1, <2>2 DEF TextSoFar
  <2>4. Len(<<>>) = 0 /\ 1 .. 0 = {} /\ 2 .. 0 = {}
    OBVIOUS
  <2>5. Reaches(<<>>, lines, 0)
    BY <2>4 DEF Reaches
  <2>6. QED
    BY <2>3, <2>5
<1>3. ASSUME NEW n \in Nat, n \in T PROVE n + 1 \in T
  <2> SUFFICES ASSUME n + 1 <= m PROVE Reaches(TextSoFar(f[n + 1]), lines, n + 1)
    OBVIOUS
  <2>1. n \in 0 .. m /\ n + 1 \in 1 .. m /\ (n + 1) - 1 = n
    BY <1>m
  <2>2. f[n] \in Chunking /\ Reaches(TextSoFar(f[n]), lines, n)
    BY <1>1, <1>3, <2>1
  <2>3. f[n + 1] = Text!Added(f[n], lines[n + 1], n + 1)
    BY <1>1, <2>1
  <2>4. n + 1 \in 1 .. Len(lines) /\ lines[n + 1].width <= ChunkBytes
    BY <2>1
  <2>5. Reaches(TextSoFar(Text!Added(f[n], lines[n + 1], n + 1)), lines, n + 1)
    BY <2>2, <2>4, AddedReaches
  <2>6. QED
    BY <2>3, <2>5
<1>4. Nat \subseteq T
  <2> HIDE DEF T
  <2>1. QED
    BY <1>2, <1>3, Counting
<1>5. f[m] \in Chunking /\ Reaches(TextSoFar(f[m]), lines, m)
  <2>1. m \in T /\ m \in 0 .. m
    BY <1>m, <1>4
  <2>2. QED
    BY <1>1, <2>1
<1>6. Text!Closed(f[m]) \in Chunking /\ Text!FlattenSeq(Text!Closed(f[m]).out) = TextSoFar(f[m])
  BY <1>5, ClosedKeeps
<1>7. QED
  BY <1>1, <1>5, <1>6 DEF Chunking

\* The lines that a chunk and the text so far hold, where a chunk takes two.
Halved(a, size, n) ==
    /\ 2 * Len(a.out) + Len(a.current) <= n
    /\ \/ Len(a.current) = 0 /\ a.bytes = 0
       \/ Len(a.current) = 1 /\ a.bytes = size
       \/ Len(a.current) > 1

\* A line more leaves it so.
LEMMA AddedHalves ==
    ASSUME Text!WellFormed, NEW a \in Chunking, NEW line \in TextLines, NEW i \in Nat, NEW n \in Nat,
           2 * line.size <= ChunkBytes, Halved(a, line.size, n)
    PROVE  Halved(Text!Added(a, line, i), line.size, n + 1)
<1> DEFINE size == line.size
           piece == [line |-> i, from |-> 0, to |-> size]
<1>1. /\ a.out \in Seq(Seq(TextPieces)) /\ a.current \in Seq(TextPieces) /\ a.bytes \in Nat
      /\ size \in Nat \ {0} /\ ChunkBytes \in Nat /\ ~(size > ChunkBytes) /\ piece \in TextPieces
  <2>1. ChunkBytes \in Nat
    BY DEF Text!WellFormed
  <2>2. size \in Nat \ {0}
    BY DEF TextLines
  <2>3. ~(size > ChunkBytes)
    BY <2>1, <2>2
  <2>4. piece \in TextPieces
    BY <2>2 DEF TextPieces
  <2>5. QED
    BY <2>1, <2>2, <2>3, <2>4 DEF Chunking
<1>2. /\ Len(a.out) \in Nat /\ Len(a.current) \in Nat /\ 2 * Len(a.out) + Len(a.current) <= n
      /\ \/ Len(a.current) = 0 /\ a.bytes = 0
         \/ Len(a.current) = 1 /\ a.bytes = size
         \/ Len(a.current) > 1
  <2>1. Len(a.out) \in Nat /\ Len(a.current) \in Nat
    BY <1>1
  <2>2. QED
    BY <2>1 DEF Halved
<1> DEFINE full == Len(a.out)
           open == Len(a.current)
<1> HIDE DEF full, open
<1>o. /\ full \in Nat /\ open \in Nat /\ 2 * full + open <= n
      /\ (open = 0 /\ a.bytes = 0) \/ (open = 1 /\ a.bytes = size) \/ open > 1
  BY <1>2 DEF full, open
<1>3. CASE a.bytes + size > ChunkBytes
  <2> DEFINE c == Append(a.out, a.current)
             d == Append(<<>>, piece)
  <2>1. Len(a.current) > 1 /\ a.current # <<>>
    <3>1. open > 1
      BY <1>1, <1>o, <1>3
    <3>2. QED
      BY <1>1, <3>1 DEF open
  <2>2. Text!Added(a, line, i) = [out |-> c, bytes |-> 0 + size, current |-> d]
    BY <1>1, <1>3, <2>1 DEF Text!Added, Text!Closed, Text!Full, Text!Joined
  <2>3. Len(c) = Len(a.out) + 1 /\ Len(d) = 1
    BY <1>1
  <2> HIDE DEF c, d, piece
  <2>4. /\ Text!Added(a, line, i).out = c /\ Text!Added(a, line, i).current = d
        /\ Text!Added(a, line, i).bytes = size
    BY <1>1, <2>2
  <2>5. 2 * Len(c) + Len(d) <= n + 1
    <3>1. \A x, y \in Nat : 2 * x + y <= n /\ y > 1 => 2 * (x + 1) + 1 <= n + 1
      OBVIOUS
    <3>2. open > 1
      BY <2>1 DEF open
    <3>3. 2 * (full + 1) + 1 <= n + 1
      BY <1>o, <3>1, <3>2
    <3>4. QED
      BY <2>3, <3>3 DEF full
  <2>6. QED
    BY <2>3, <2>4, <2>5 DEF Halved
<1>4. CASE ~(a.bytes + size > ChunkBytes)
  <2> DEFINE d == Append(a.current, piece)
  <2>1. Text!Added(a, line, i) = [out |-> a.out, bytes |-> a.bytes + size, current |-> d]
    BY <1>1, <1>4 DEF Text!Added, Text!Joined
  <2>2. Len(d) = Len(a.current) + 1
    BY <1>1
  <2> HIDE DEF d, piece
  <2>3. /\ Text!Added(a, line, i).out = a.out /\ Text!Added(a, line, i).current = d
        /\ Text!Added(a, line, i).bytes = a.bytes + size
    BY <2>1
  <2>4. 2 * Len(a.out) + Len(d) <= n + 1
    <3>1. 2 * full + (open + 1) <= n + 1
      BY <1>o
    <3>2. QED
      BY <2>2, <3>1 DEF full, open
  <2>5. (Len(d) = 1 /\ a.bytes + size = size) \/ Len(d) > 1
    <3>1. (open + 1 = 1 /\ a.bytes + size = size) \/ open + 1 > 1
      BY <1>1, <1>o
    <3>2. QED
      BY <2>2, <3>1 DEF open
  <2>6. QED
    BY <2>3, <2>4, <2>5 DEF Halved
<1>5. QED
  BY <1>3, <1>4

\* Of equal lines that fit in a chunk by twos, half as many chunks are left.
LEMMA ChunkTextHalves ==
    ASSUME Text!WellFormed, NEW lines \in Seq(TextLines), \A i \in DOMAIN lines : lines[i].width <= ChunkBytes,
           NEW size \in Nat, 2 * size <= ChunkBytes, \A i \in DOMAIN lines : lines[i].size = size
    PROVE  2 * Len(Text!ChunkText(lines)) <= Len(lines) + 1
<1> DEFINE m == Len(lines)
<1>m. m \in Nat
  OBVIOUS
<1>1. PICK f \in [0 .. m -> Chunking] :
        /\ Text!ChunkText(lines) = Text!Closed(f[m]).out
        /\ f[0] = Text!Full(<<>>)
        /\ \A n \in 1 .. m : f[n] = Text!Added(f[n - 1], lines[n], n)
  BY ChunkLoop
<1> DEFINE T == {n \in Nat : n <= m => Halved(f[n], size, n)}
<1>2. 0 \in T
  <2>1. f[0].out = <<>> /\ f[0].current = <<>> /\ f[0].bytes = 0
    BY <1>1 DEF Text!Full
  <2>2. Len(<<>>) = 0
    OBVIOUS
  <2>3. Halved(f[0], size, 0)
    BY <2>1, <2>2 DEF Halved
  <2>4. QED
    BY <2>3
<1>3. ASSUME NEW n \in Nat, n \in T PROVE n + 1 \in T
  <2> SUFFICES ASSUME n + 1 <= m PROVE Halved(f[n + 1], size, n + 1)
    OBVIOUS
  <2>1. n \in 0 .. m /\ n + 1 \in 1 .. m /\ (n + 1) - 1 = n
    BY <1>m
  <2>2. f[n] \in Chunking /\ Halved(f[n], size, n)
    BY <1>1, <1>3, <2>1, SMTT(30)
  <2>3. f[n + 1] = Text!Added(f[n], lines[n + 1], n + 1)
    BY <1>1, <2>1
  <2>4. lines[n + 1] \in TextLines /\ lines[n + 1].size = size
    BY <2>1
  <2>5. Halved(Text!Added(f[n], lines[n + 1], n + 1), lines[n + 1].size, n + 1)
    BY <2>2, <2>4, AddedHalves
  <2>6. QED
    BY <2>3, <2>4, <2>5
<1>4. Nat \subseteq T
  <2> HIDE DEF T
  <2>1. QED
    BY <1>2, <1>3, Counting
<1>5. f[m] \in Chunking /\ Halved(f[m], size, m)
  <2>1. m \in T /\ m \in 0 .. m
    BY <1>m, <1>4
  <2>2. QED
    BY <1>1, <2>1
<1> DEFINE a == f[m]
<1>6. /\ a.out \in Seq(Seq(TextPieces)) /\ a.current \in Seq(TextPieces)
      /\ 2 * Len(a.out) + Len(a.current) <= m
  BY <1>5 DEF Chunking, Halved
<1> DEFINE full == Len(a.out)
           open == Len(a.current)
<1>o. full \in Nat /\ open \in Nat /\ 2 * full + open <= m
  <2>1. full \in Nat /\ open \in Nat
    BY <1>6
  <2>2. QED
    BY <1>6, <2>1
<1> HIDE DEF a, m, full, open
<1>7. CASE a.current = <<>>
  <2>1. Text!Closed(a).out = a.out
    BY <1>7 DEF Text!Closed
  <2>2. QED
    <3>1. 2 * full <= m + 1
      BY <1>o, <1>m
    <3>2. Text!ChunkText(lines) = a.out
      BY <1>1, <2>1 DEF a
    <3>3. QED
      BY <3>1, <3>2 DEF m, full
<1>8. CASE a.current # <<>>
  <2>1. Text!Closed(a).out = Append(a.out, a.current)
    BY <1>8 DEF Text!Closed, Text!Full
  <2>2. Len(a.current) \in Nat /\ Len(a.current) # 0 /\ Len(Append(a.out, a.current)) = Len(a.out) + 1
    BY <1>6, <1>8
  <2>3. 2 * Len(Append(a.out, a.current)) <= m + 1
    <3>1. open # 0
      BY <2>2 DEF open
    <3>2. 2 * (full + 1) <= m + 1
      BY <1>o, <1>m, <3>1
    <3>3. QED
      BY <2>2, <3>2 DEF full
  <2>4. Text!ChunkText(lines) = Append(a.out, a.current)
    BY <1>1, <2>1 DEF a
  <2>5. QED
    BY <2>3, <2>4 DEF m
<1>9. QED
  BY <1>7, <1>8

\* Two sequences, joined.
LEMMA JoinIs ==
    ASSUME NEW Y, NEW a \in Seq(Y), NEW b \in Seq(Y)
    PROVE  /\ a \o b \in Seq(Y) /\ Len(a \o b) = Len(a) + Len(b)
           /\ \A k \in 1 .. Len(a) : (a \o b)[k] = a[k]
           /\ \A k \in Len(a) + 1 .. Len(a) + Len(b) : (a \o b)[k] = b[k - Len(a)]
OBVIOUS

\* If what parts join to is of a kind, so are they.
LEMMA PartsTyped ==
    ASSUME NEW X, NEW Y, NEW s \in Seq(Seq(X)), Text!FlattenSeq(s) \in Seq(Y)
    PROVE  s \in Seq(Seq(Y))
<1> DEFINE T == {n \in Nat : \A u \in Seq(Seq(X)) : Len(u) = n /\ Text!FlattenSeq(u) \in Seq(Y) => u \in Seq(Seq(Y))}
<1>1. 0 \in T
  <2> SUFFICES ASSUME NEW u \in Seq(Seq(X)), Len(u) = 0 PROVE u \in Seq(Seq(Y))
    OBVIOUS
  <2>1. u = <<>>
    OBVIOUS
  <2>2. QED
    BY <2>1
<1>2. ASSUME NEW n \in Nat, n \in T PROVE n + 1 \in T
  <2> SUFFICES ASSUME NEW u \in Seq(Seq(X)), Len(u) = n + 1, Text!FlattenSeq(u) \in Seq(Y) PROVE u \in Seq(Seq(Y))
    OBVIOUS
  <2> DEFINE front == SubSeq(u, 1, n)
             last == u[n + 1]
  <2>1. front \in Seq(Seq(X)) /\ Len(front) = n /\ last \in Seq(X) /\ u = Append(front, last)
    BY FrontAndLast
  <2> HIDE DEF front, last
  <2> DEFINE all == Text!FlattenSeq(front)
  <2>2. Text!FlattenSeq(u) = all \o last /\ all \in Seq(X)
    BY <2>1, FlattenAppend, FlattenTypes
  <2> HIDE DEF all
  <2>3. all \in Seq(Y) /\ last \in Seq(Y)
    <3>1. all \o last \in Seq(Y)
      BY <2>2
    <3>2. \A k \in 1 .. Len(all) : all[k] \in Y
      <4>1. \A k \in 1 .. Len(all) : k \in 1 .. Len(all \o last) /\ all[k] = (all \o last)[k]
        BY <2>1, <2>2
      <4>2. QED
        BY <3>1, <4>1, ElementOfSeq
    <3>3. \A k \in 1 .. Len(last) : last[k] \in Y
      <4>1. \A k \in 1 .. Len(last) : /\ Len(all) + k \in 1 .. Len(all \o last)
                                      /\ last[k] = (all \o last)[Len(all) + k]
        BY <2>1, <2>2, SMTT(30)
      <4>2. QED
        BY <3>1, <4>1, ElementOfSeq
    <3>4. QED
      BY <2>1, <2>2, <3>2, <3>3, SeqDef
  <2>4. front \in Seq(Seq(Y))
    BY <1>2, <2>1, <2>3 DEF all
  <2>5. QED
    BY <2>1, <2>3, <2>4
<1>3. Nat \subseteq T
  <2> HIDE DEF T
  <2>1. QED
    BY <1>1, <1>2, Counting
<1>4. Len(s) \in T
  BY <1>3
<1>5. QED
  BY <1>4

\* The pieces of documents, and what they stand for.
DocumentPieces(chunks) == {p \in TextPieces : p.line \in 1 .. Len(chunks)}
StandsFor(pieces, chunks) == [p \in DOMAIN pieces |-> Text!Source(pieces[p], chunks)]

\* They stand for text, piece by piece.
LEMMA SourcesAre ==
    ASSUME NEW X, NEW chunks \in Seq(Seq(X)), NEW s \in Seq(DocumentPieces(chunks))
    PROVE  /\ StandsFor(s, chunks) \in Seq(Seq(X)) /\ Len(StandsFor(s, chunks)) = Len(s)
           /\ \A k \in 1 .. Len(s) : StandsFor(s, chunks)[k] = Text!Source(s[k], chunks)
<1>1. DOMAIN s = 1 .. Len(s) /\ Len(s) \in Nat
  OBVIOUS
<1>2. StandsFor(s, chunks) = [k \in 1 .. Len(s) |-> Text!Source(s[k], chunks)]
  BY <1>1 DEF StandsFor
<1>3. \A k \in 1 .. Len(s) : Text!Source(s[k], chunks) \in Seq(X)
  <2>1. \A k \in 1 .. Len(s) : s[k].line \in 1 .. Len(chunks)
    BY DEF DocumentPieces
  <2>2. \A k \in 1 .. Len(s) : chunks[s[k].line] \in Seq(X)
    BY <2>1
  <2>3. QED
    BY <2>2 DEF Text!Source
<1> DEFINE f == [k \in 1 .. Len(s) |-> Text!Source(s[k], chunks)]
<1>4. f \in [1 .. Len(s) -> Seq(X)]
  BY <1>3
<1>5. \A k \in 1 .. Len(s) : f[k] = Text!Source(s[k], chunks)
  OBVIOUS
<1> HIDE DEF f
<1>6. f \in Seq(Seq(X)) /\ Len(f) = Len(s)
  <2> DEFINE n == Len(s)
  <2> HIDE DEF n
  <2>1. n \in Nat /\ f \in [1 .. n -> Seq(X)]
    BY <1>1, <1>4 DEF n
  <2>2. f \in Seq(Seq(X)) /\ Len(f) = n
    BY <2>1
  <2>3. QED
    BY <2>2 DEF n
<1>7. StandsFor(s, chunks) = f
  BY <1>2 DEF f
<1>8. QED
  BY <1>5, <1>6, <1>7

\* Of joined pieces they are joined.
LEMMA SourcesJoin ==
    ASSUME NEW X, NEW chunks \in Seq(Seq(X)), NEW s \in Seq(DocumentPieces(chunks)),
           NEW t \in Seq(DocumentPieces(chunks))
    PROVE  StandsFor(s \o t, chunks) = StandsFor(s, chunks) \o StandsFor(t, chunks)
<1> DEFINE all == s \o t
           x == StandsFor(all, chunks)
           a == StandsFor(s, chunks)
           b == StandsFor(t, chunks)
           m == Len(s)
           l == Len(t)
<1>1. /\ all \in Seq(DocumentPieces(chunks)) /\ Len(all) = m + l /\ m \in Nat /\ l \in Nat
      /\ \A k \in 1 .. m : all[k] = s[k]
      /\ \A k \in m + 1 .. m + l : all[k] = t[k - m] /\ k - m \in 1 .. l
  OBVIOUS
<1>2. /\ x \in Seq(Seq(X)) /\ Len(x) = Len(all)
      /\ \A k \in 1 .. Len(all) : x[k] = Text!Source(all[k], chunks)
  <2> HIDE DEF all
  <2>1. QED
    BY <1>1, SourcesAre
<1>3. /\ a \in Seq(Seq(X)) /\ Len(a) = m
      /\ \A k \in 1 .. m : a[k] = Text!Source(s[k], chunks)
  BY SourcesAre
<1>4. /\ b \in Seq(Seq(X)) /\ Len(b) = l
      /\ \A k \in 1 .. l : b[k] = Text!Source(t[k], chunks)
  BY SourcesAre
<1> HIDE DEF all, x, a, b, m, l
<1>5. /\ a \o b \in Seq(Seq(X)) /\ Len(a \o b) = m + l
      /\ \A k \in 1 .. m : (a \o b)[k] = a[k]
      /\ \A k \in m + 1 .. m + l : (a \o b)[k] = b[k - m]
  <2>1. /\ a \o b \in Seq(Seq(X)) /\ Len(a \o b) = Len(a) + Len(b)
        /\ \A k \in 1 .. Len(a) : (a \o b)[k] = a[k]
        /\ \A k \in Len(a) + 1 .. Len(a) + Len(b) : (a \o b)[k] = b[k - Len(a)]
    BY <1>3, <1>4, JoinIs, ZenonT(40)
  <2>2. QED
    BY <1>3, <1>4, <2>1
<1>6. ASSUME NEW k \in 1 .. m + l PROVE x[k] = (a \o b)[k]
  <2>1. x[k] = Text!Source(all[k], chunks)
    BY <1>1, <1>2
  <2>2. CASE k \in 1 .. m
    BY <1>1, <1>3, <1>5, <2>1, <2>2
  <2>3. CASE k \in m + 1 .. m + l
    BY <1>1, <1>4, <1>5, <2>1, <2>3
  <2>4. k \in 1 .. m \/ k \in m + 1 .. m + l
    BY <1>1
  <2>5. QED
    BY <2>2, <2>3, <2>4
<1>7. x = a \o b
  BY <1>1, <1>2, <1>5, <1>6, SeqEqual
<1>8. QED
  BY <1>7 DEF all, x, a, b

\* What chunks of pieces stand for, chunk by chunk.
LEMMA SourcesFlatten ==
    ASSUME NEW X, NEW chunks \in Seq(Seq(X)), NEW s \in Seq(Seq(DocumentPieces(chunks)))
    PROVE  LET each == [k \in DOMAIN s |-> Text!FlattenSeq(StandsFor(s[k], chunks))]
           IN /\ each \in Seq(Seq(X)) /\ Len(each) = Len(s)
              /\ Text!FlattenSeq(each) = Text!FlattenSeq(StandsFor(Text!FlattenSeq(s), chunks))
<1> DEFINE Each(u) == [k \in DOMAIN u |-> Text!FlattenSeq(StandsFor(u[k], chunks))]
           P(u) == /\ Each(u) \in Seq(Seq(X)) /\ Len(Each(u)) = Len(u)
                   /\ Text!FlattenSeq(Each(u)) = Text!FlattenSeq(StandsFor(Text!FlattenSeq(u), chunks))
           D == DocumentPieces(chunks)
           T == {n \in Nat : \A u \in Seq(Seq(D)) : Len(u) = n => P(u)}
<1>0. \A t \in Seq(D) : StandsFor(t, chunks) \in Seq(Seq(X)) /\ Text!FlattenSeq(StandsFor(t, chunks)) \in Seq(X)
  <2> SUFFICES ASSUME NEW t \in Seq(D)
               PROVE  StandsFor(t, chunks) \in Seq(Seq(X)) /\ Text!FlattenSeq(StandsFor(t, chunks)) \in Seq(X)
    OBVIOUS
  <2>1. StandsFor(t, chunks) \in Seq(Seq(X))
    BY SourcesAre
  <2>2. QED
    BY <2>1, FlattenTypes
<1>1. 0 \in T
  <2> SUFFICES ASSUME NEW u \in Seq(Seq(D)), Len(u) = 0 PROVE P(u)
    OBVIOUS
  <2>1. u = <<>> /\ DOMAIN u = {}
    OBVIOUS
  <2>2. Each(u) = <<>> /\ Text!FlattenSeq(u) = <<>>
    <3>1. Each(u) = <<>>
      BY <2>1
    <3>2. QED
      BY <2>1, <3>1, FlattenTypes
  <2>3. <<>> \in Seq(Seq(X)) /\ Len(<<>>) = 0
    OBVIOUS
  <2>4. StandsFor(<<>>, chunks) = <<>>
    <3>1. DOMAIN <<>> = {}
      OBVIOUS
    <3>2. QED
      BY <3>1 DEF StandsFor
  <2>5. QED
    BY <2>1, <2>2, <2>3, <2>4
<1>2. ASSUME NEW n \in Nat, n \in T PROVE n + 1 \in T
  <2> SUFFICES ASSUME NEW u \in Seq(Seq(D)), Len(u) = n + 1 PROVE P(u)
    OBVIOUS
  <2> DEFINE front == SubSeq(u, 1, n)
             last == u[n + 1]
             more == Text!FlattenSeq(StandsFor(last, chunks))
  <2>1. /\ front \in Seq(Seq(D)) /\ Len(front) = n /\ last \in Seq(D) /\ u = Append(front, last)
        /\ \A k \in 1 .. n : front[k] = u[k]
    BY FrontOf
  <2> HIDE DEF front
  <2>2. P(front)
    BY <1>2, <2>1
  <2>3. more \in Seq(X) /\ StandsFor(last, chunks) \in Seq(Seq(X))
    BY <1>0, <2>1
  <2>4. Each(u) \in Seq(Seq(X)) /\ Len(Each(u)) = n + 1 /\ Each(u) = Append(Each(front), more)
    <3>1. DOMAIN u = 1 .. n + 1 /\ DOMAIN front = 1 .. n /\ \A k \in 1 .. n + 1 : u[k] \in Seq(D)
      BY <2>1
    <3>2. Each(u) \in Seq(Seq(X)) /\ Len(Each(u)) = n + 1
      <4>1. \A k \in 1 .. n + 1 : Text!FlattenSeq(StandsFor(u[k], chunks)) \in Seq(X)
        BY <1>0, <3>1
      <4>2. Each(u) \in [1 .. n + 1 -> Seq(X)]
        BY <3>1, <4>1
      <4> HIDE DEF Each
      <4>3. QED
        BY <4>2
    <3>3. Append(Each(front), more) \in Seq(Seq(X)) /\ Len(Append(Each(front), more)) = n + 1
      BY <2>1, <2>2, <2>3
    <3>4. ASSUME NEW k \in 1 .. n + 1 PROVE Append(Each(front), more)[k] = Each(u)[k]
      <4>1. Each(u)[k] = Text!FlattenSeq(StandsFor(u[k], chunks))
        BY <3>1
      <4>2. CASE k \in 1 .. n
        <5>1. Each(front)[k] = Text!FlattenSeq(StandsFor(u[k], chunks))
          BY <2>1, <3>1, <4>2
        <5> HIDE DEF Each, more
        <5>2. Append(Each(front), more)[k] = Each(front)[k]
          BY <2>1, <2>2, <2>3, <4>2
        <5>3. QED
          BY <4>1, <5>1, <5>2
      <4>3. CASE k = n + 1
        <5> HIDE DEF Each
        <5>1. Append(Each(front), more)[n + 1] = more
          BY <2>1, <2>2, <2>3, SMTT(30)
        <5>2. QED
          BY <4>1, <4>3, <5>1
      <4>4. k \in 1 .. n \/ k = n + 1
        OBVIOUS
      <4>5. QED
        BY <4>2, <4>3, <4>4
    <3> HIDE DEF Each, more
    <3>5. Each(u) = Append(Each(front), more)
      BY <3>2, <3>3, <3>4, SeqEqual
    <3>6. QED
      BY <3>2, <3>5
  <2> HIDE DEF Each
  <2>5. Text!FlattenSeq(Each(u)) = Text!FlattenSeq(Each(front)) \o more
    <3> HIDE DEF more
    <3>1. QED
      BY <2>2, <2>3, <2>4, FlattenAppend
  <2>6. Text!FlattenSeq(u) = Text!FlattenSeq(front) \o last /\ Text!FlattenSeq(front) \in Seq(D)
    BY <2>1, FlattenAppend, FlattenTypes
  <2>7. StandsFor(Text!FlattenSeq(u), chunks) = StandsFor(Text!FlattenSeq(front), chunks) \o StandsFor(last, chunks)
    BY <2>1, <2>6, SourcesJoin
  <2>8. StandsFor(Text!FlattenSeq(front), chunks) \in Seq(Seq(X))
    BY <1>0, <2>6
  <2>9. Text!FlattenSeq(StandsFor(Text!FlattenSeq(u), chunks)) = Text!FlattenSeq(StandsFor(Text!FlattenSeq(front), chunks)) \o more
    BY <2>3, <2>7, <2>8, FlattenJoin
  <2>10. QED
    BY <2>1, <2>2, <2>4, <2>5, <2>9
<1>3. Nat \subseteq T
  <2> HIDE DEF T
  <2>1. QED
    BY <1>1, <1>2, Counting
<1>4. P(s)
  BY <1>3
<1>5. QED
  BY <1>4

\* A beginning of a sequence and the next element.
LEMMA PrefixMore ==
    ASSUME NEW X, NEW s \in Seq(X), NEW n \in Nat, n + 1 <= Len(s)
    PROVE  /\ SubSeq(s, 1, n) \in Seq(X) /\ Len(SubSeq(s, 1, n)) = n /\ s[n + 1] \in X
           /\ SubSeq(s, 1, n + 1) = Append(SubSeq(s, 1, n), s[n + 1])
<1> DEFINE u == SubSeq(s, 1, n + 1)
           v == SubSeq(s, 1, n)
<1>1. /\ u \in Seq(X) /\ Len(u) = n + 1 /\ v \in Seq(X) /\ Len(v) = n /\ s[n + 1] \in X
      /\ \A k \in 1 .. n + 1 : u[k] = s[k]
      /\ \A k \in 1 .. n : v[k] = s[k]
  OBVIOUS
<1> HIDE DEF u, v
<1> DEFINE w == Append(v, s[n + 1])
<1>2. w \in Seq(X) /\ Len(w) = n + 1 /\ w[n + 1] = s[n + 1] /\ \A k \in 1 .. n : w[k] = v[k]
  BY <1>1
<1> HIDE DEF w
<1>3. \A k \in 1 .. n + 1 : u[k] = w[k]
  <2> SUFFICES ASSUME NEW k \in 1 .. n + 1 PROVE u[k] = w[k]
    OBVIOUS
  <2>1. CASE k \in 1 .. n
    BY <1>1, <1>2, <2>1
  <2>2. CASE k = n + 1
    BY <1>1, <1>2, <2>2
  <2>3. k \in 1 .. n \/ k = n + 1
    OBVIOUS
  <2>4. QED
    BY <2>1, <2>2, <2>3
<1>4. u = w
  BY <1>1, <1>2, <1>3, SeqEqual
<1>5. QED
  BY <1>1, <1>4 DEF u, v, w

\* A piece more stands for its chunk, if it begins a document, and for nothing more otherwise.
LEMMA SourceMore ==
    ASSUME NEW X, NEW chunks \in Seq(Seq(X)), NEW s \in Seq(DocumentPieces(chunks)),
           NEW x \in DocumentPieces(chunks)
    PROVE  /\ Text!FlattenSeq(StandsFor(s, chunks)) \in Seq(X) /\ Text!Source(x, chunks) \in Seq(X)
           /\ Text!FlattenSeq(StandsFor(Append(s, x), chunks))
                = Text!FlattenSeq(StandsFor(s, chunks)) \o Text!Source(x, chunks)
<1>1. StandsFor(s, chunks) \in Seq(Seq(X)) /\ Text!FlattenSeq(StandsFor(s, chunks)) \in Seq(X)
  <2>1. StandsFor(s, chunks) \in Seq(Seq(X))
    BY SourcesAre
  <2>2. QED
    BY <2>1, FlattenTypes
<1>2. <<x>> \in Seq(DocumentPieces(chunks)) /\ Append(s, x) = s \o <<x>>
  <2>1. <<x>> \in Seq(DocumentPieces(chunks))
    OBVIOUS
  <2>2. QED
    BY <2>1, AppendIsConcat
<1> DEFINE one == StandsFor(<<x>>, chunks)
<1>3. one \in Seq(Seq(X)) /\ Len(one) = 1 /\ one[1] = Text!Source(x, chunks)
  <2>1. Len(<<x>>) = 1 /\ <<x>>[1] = x /\ 1 \in 1 .. 1
    OBVIOUS
  <2>2. QED
    BY <1>2, <2>1, SourcesAre
<1>4. StandsFor(Append(s, x), chunks) = StandsFor(s, chunks) \o one
  BY <1>2, SourcesJoin
<1> HIDE DEF one
<1>5. one = Append(<<>>, Text!Source(x, chunks)) /\ Text!Source(x, chunks) \in Seq(X)
  <2>1. one[1] \in Seq(X)
    BY <1>3
  <2>2. one = <<one[1]>>
    BY <1>3
  <2>3. QED
    BY <1>3, <2>1, <2>2
<1>6. Text!FlattenSeq(one) = Text!Source(x, chunks)
  <2>1. <<>> \in Seq(Seq(X)) /\ Text!FlattenSeq(<<>>) = <<>>
    <3>1. <<>> \in Seq(Seq(X))
      OBVIOUS
    <3>2. QED
      BY <3>1, FlattenTypes
  <2>2. Text!FlattenSeq(one) = <<>> \o Text!Source(x, chunks)
    BY <1>5, <2>1, FlattenAppend
  <2>3. QED
    BY <1>5, <2>2, ConcatEmptySeq
<1>7. Text!FlattenSeq(StandsFor(s, chunks) \o one) = Text!FlattenSeq(StandsFor(s, chunks)) \o Text!FlattenSeq(one)
  BY <1>1, <1>3, FlattenJoin
<1>8. QED
  BY <1>1, <1>4, <1>5, <1>6, <1>7

\* The pieces of all documents stand for all chunks, each one once.
LEMMA StandsForAll ==
    ASSUME NEW X, NEW chunks \in Seq(Seq(X)), chunks # <<>>, NEW s \in Seq(DocumentPieces(chunks)),
           NEW lines, Reaches(s, lines, Len(chunks))
    PROVE  Text!FlattenSeq(StandsFor(s, chunks)) = Text!FlattenSeq(chunks)
<1> DEFINE N == Len(chunks)
           m == Len(s)
           Upto(j) == Text!FlattenSeq(StandsFor(SubSeq(s, 1, j), chunks)) = Text!FlattenSeq(SubSeq(chunks, 1, s[j].line))
           T == {j \in Nat : j + 1 <= m => Upto(j + 1)}
           D == DocumentPieces(chunks)
<1>1. N \in Nat /\ N > 0 /\ m \in Nat
  <2>1. N \in Nat /\ N # 0 /\ m \in Nat
    BY EmptySeq
  <2>2. QED
    BY <2>1
<1>2. /\ s # <<>> /\ s[1].line = 1 /\ s[1].from = 0 /\ s[m].line = N
      /\ \A k \in 1 .. m : s[k].from < s[k].to /\ s[k].line \in 1 .. N
      /\ \A k \in 2 .. m : \/ s[k].line = s[k - 1].line /\ s[k].from = s[k - 1].to
                           \/ s[k].line = s[k - 1].line + 1 /\ s[k].from = 0
  BY <1>1 DEF Reaches
<1>3. m > 0 /\ \A k \in 1 .. m : s[k] \in D /\ s[k].from \in Nat /\ s[k].to \in Nat
  <2>1. m # 0
    BY <1>2, EmptySeq
  <2>2. \A k \in 1 .. m : s[k] \in D
    BY ElementOfSeq
  <2>3. \A x \in D : x.from \in Nat /\ x.to \in Nat
    BY DEF DocumentPieces, TextPieces
  <2>4. QED
    BY <1>1, <2>1, <2>2, <2>3
<1> HIDE DEF D, m, N
<1>4. ASSUME NEW j \in Nat, j + 1 <= m
      PROVE  /\ SubSeq(s, 1, j) \in Seq(D) /\ SubSeq(s, 1, j + 1) = Append(SubSeq(s, 1, j), s[j + 1])
             /\ Text!FlattenSeq(StandsFor(SubSeq(s, 1, j), chunks)) \in Seq(X)
             /\ Text!FlattenSeq(StandsFor(SubSeq(s, 1, j + 1), chunks))
                  = Text!FlattenSeq(StandsFor(SubSeq(s, 1, j), chunks)) \o Text!Source(s[j + 1], chunks)
  <2>1. /\ SubSeq(s, 1, j) \in Seq(D) /\ SubSeq(s, 1, j + 1) = Append(SubSeq(s, 1, j), s[j + 1])
    BY <1>4, PrefixMore DEF D, m
  <2>2. s[j + 1] \in D
    BY <1>3, <1>4
  <2>3. QED
    BY <2>1, <2>2, SourceMore DEF D
<1>5. ASSUME NEW l \in Nat, l + 1 <= N
      PROVE  Text!FlattenSeq(SubSeq(chunks, 1, l + 1)) = Text!FlattenSeq(SubSeq(chunks, 1, l)) \o chunks[l + 1]
  <2>1. /\ SubSeq(chunks, 1, l) \in Seq(Seq(X)) /\ chunks[l + 1] \in Seq(X)
        /\ SubSeq(chunks, 1, l + 1) = Append(SubSeq(chunks, 1, l), chunks[l + 1])
    BY <1>5, PrefixMore DEF N
  <2>2. QED
    BY <2>1, FlattenAppend
<1>6. /\ Text!FlattenSeq(StandsFor(SubSeq(s, 1, 0), chunks)) = <<>>
      /\ Text!FlattenSeq(SubSeq(chunks, 1, 0)) = <<>>
  <2>1. SubSeq(s, 1, 0) = <<>> /\ SubSeq(chunks, 1, 0) = <<>>
    BY SubSeqEmpty
  <2>2. StandsFor(<<>>, chunks) = <<>>
    <3>1. DOMAIN <<>> = {}
      OBVIOUS
    <3>2. QED
      BY <3>1 DEF StandsFor
  <2>3. <<>> \in Seq(Seq(X))
    OBVIOUS
  <2>4. Text!FlattenSeq(<<>>) = <<>>
    BY <2>3, FlattenTypes
  <2>5. QED
    BY <2>1, <2>2, <2>4
<1>7. 0 \in T
  <2> SUFFICES Upto(1)
    BY <1>3
  <2>1. Text!Source(s[1], chunks) = chunks[1]
    BY <1>2 DEF Text!Source
  <2>2. Text!FlattenSeq(StandsFor(SubSeq(s, 1, 0 + 1), chunks))
          = Text!FlattenSeq(StandsFor(SubSeq(s, 1, 0), chunks)) \o Text!Source(s[0 + 1], chunks)
    BY <1>1, <1>3, <1>4, SMTT(30)
  <2>3. Text!FlattenSeq(SubSeq(chunks, 1, 0 + 1)) = Text!FlattenSeq(SubSeq(chunks, 1, 0)) \o chunks[0 + 1]
    <3>1. 0 \in Nat /\ 0 + 1 <= N
      BY <1>1
    <3>2. QED
      BY <1>5, <3>1, Zenon
  <2>4. 0 + 1 = 1
    OBVIOUS
  <2>5. QED
    BY <1>2, <1>6, <2>1, <2>2, <2>3, <2>4
<1>8. ASSUME NEW j \in Nat, j \in T PROVE j + 1 \in T
  <2> SUFFICES ASSUME (j + 1) + 1 <= m PROVE Upto((j + 1) + 1)
    OBVIOUS
  <2> DEFINE k == j + 1
             before == Text!FlattenSeq(StandsFor(SubSeq(s, 1, k), chunks))
             l == s[k].line
  <2>1. k \in Nat /\ k \in 1 .. m /\ k + 1 \in 2 .. m /\ k + 1 \in 1 .. m /\ (k + 1) - 1 = k /\ k + 1 <= m
    BY <1>1
  <2>2. Upto(k)
    BY <1>1, <1>8
  <2> HIDE DEF k
  <2>3. /\ before \in Seq(X)
        /\ Text!FlattenSeq(StandsFor(SubSeq(s, 1, k + 1), chunks)) = before \o Text!Source(s[k + 1], chunks)
    BY <1>4, <2>1
  <2>4. /\ l \in 1 .. N /\ s[k].from < s[k].to /\ s[k].from \in Nat /\ s[k].to \in Nat
        /\ \/ s[k + 1].line = l /\ s[k + 1].from = s[k].to
           \/ s[k + 1].line = l + 1 /\ s[k + 1].from = 0
        /\ s[k + 1].line \in 1 .. N
    <3>1. /\ \/ s[k + 1].line = s[(k + 1) - 1].line /\ s[k + 1].from = s[(k + 1) - 1].to
             \/ s[k + 1].line = s[(k + 1) - 1].line + 1 /\ s[k + 1].from = 0
      BY <1>2, <2>1
    <3>2. QED
      BY <1>2, <1>3, <2>1, <3>1
  <2>5. CASE s[k + 1].line = l /\ s[k + 1].from = s[k].to
    <3>1. s[k + 1].from # 0
      BY <2>4, <2>5, SMTT(30)
    <3>2. Text!Source(s[k + 1], chunks) = <<>>
      BY <3>1 DEF Text!Source
    <3> HIDE DEF before
    <3>3. before \o <<>> = before
      BY <2>3, ConcatEmptySeq
    <3>4. QED
      BY <2>2, <2>3, <2>5, <3>2, <3>3 DEF k, before
  <2>6. CASE s[k + 1].line = l + 1 /\ s[k + 1].from = 0
    <3>1. Text!Source(s[k + 1], chunks) = chunks[l + 1]
      BY <2>6 DEF Text!Source
    <3>2. l \in Nat /\ l + 1 <= N
      BY <1>1, <2>4, <2>6, SMTT(30)
    <3>3. Text!FlattenSeq(SubSeq(chunks, 1, l + 1)) = Text!FlattenSeq(SubSeq(chunks, 1, l)) \o chunks[l + 1]
      BY <1>5, <3>2
    <3>4. before = Text!FlattenSeq(SubSeq(chunks, 1, l))
      BY <2>2
    <3> HIDE DEF before, l
    <3>5. Text!FlattenSeq(StandsFor(SubSeq(s, 1, k + 1), chunks)) = Text!FlattenSeq(SubSeq(chunks, 1, s[k + 1].line))
      BY <2>3, <2>6, <3>1, <3>3, <3>4
    <3>6. QED
      BY <3>5 DEF k
  <2>7. QED
    BY <2>4, <2>5, <2>6
<1>9. Nat \subseteq T
  <2> HIDE DEF T
  <2>1. QED
    BY <1>7, <1>8, Counting
<1>10. Upto(m)
  <2>1. m - 1 \in Nat /\ (m - 1) + 1 = m
    BY <1>1, <1>3
  <2>2. m - 1 \in T
    BY <1>9, <2>1
  <2>3. QED
    BY <1>1, <2>1, <2>2
<1>11. SubSeq(s, 1, m) = s /\ SubSeq(chunks, 1, N) = chunks
  BY SubSeqFull DEF D, m, N
<1>12. QED
  BY <1>2, <1>10, <1>11

\* Reduced chunks are the same text, and half as many if a prompt takes two documents.
LEMMA ReducedIs ==
    ASSUME Text!WellFormed, NEW chunks \in Seq(Seq(TextPieces)), chunks # <<>>, NEW size \in Nat \ {0}
    PROVE  /\ Text!Reduced(chunks, size) \in Seq(Seq(TextPieces)) /\ Text!Reduced(chunks, size) # <<>>
           /\ Text!FlattenSeq(Text!Reduced(chunks, size)) = Text!FlattenSeq(chunks)
           /\ Len(chunks) = 1 => Text!Reduced(chunks, size) = chunks
           /\ 2 * size <= ChunkBytes /\ Len(chunks) # 1
                => 2 * Len(Text!Reduced(chunks, size)) <= Len(chunks) + 1
<1>1. CASE Len(chunks) = 1
  <2>1. Text!Reduced(chunks, size) = chunks
    BY <1>1 DEF Text!Reduced
  <2>2. QED
    BY <1>1, <2>1
<1>2. CASE Len(chunks) # 1
  <2> DEFINE N == Len(chunks)
             docs == [k \in DOMAIN chunks |-> [size |-> size, width |-> 1]]
             partials == Text!ChunkText(docs)
             each == [k \in DOMAIN partials |-> Text!FlattenSeq(StandsFor(partials[k], chunks))]
             pieces == Text!FlattenSeq(partials)
  <2>1. Text!Reduced(chunks, size) = each
    <3>1. Text!Reduced(chunks, size)
            = [k \in DOMAIN partials |-> Text!FlattenSeq(StandsFor(partials[k], chunks))]
      BY <1>2 DEF Text!Reduced, StandsFor
    <3> HIDE DEF partials
    <3>2. \A s : Text!FlattenSeq(s) = Text!FlattenSeq(s)
      OBVIOUS
    <3>3. each = [k \in DOMAIN partials |-> Text!FlattenSeq(StandsFor(partials[k], chunks))]
      BY <3>2
    <3>4. QED
      BY <3>1, <3>3
  <2>2. DOMAIN chunks = 1 .. N /\ N \in Nat /\ N > 0
    <3>1. DOMAIN chunks = 1 .. N /\ N \in Nat /\ N # 0
      BY EmptySeq
    <3>2. QED
      BY <3>1
  <2>3. /\ docs \in Seq(TextLines) /\ Len(docs) = N /\ DOMAIN docs = 1 .. N
        /\ \A k \in 1 .. N : docs[k].size = size /\ docs[k].width = 1
    <3>1. [size |-> size, width |-> 1] \in TextLines
      BY DEF TextLines
    <3>2. docs \in [1 .. N -> TextLines]
      BY <2>2, <3>1
    <3>3. \A k \in 1 .. N : docs[k] = [size |-> size, width |-> 1]
      BY <2>2
    <3> HIDE DEF docs, N
    <3>4. docs \in Seq(TextLines) /\ Len(docs) = N /\ DOMAIN docs = 1 .. N
      BY <2>2, <3>2
    <3>5. QED
      BY <3>3, <3>4
  <2> HIDE DEF docs
  <2>4. \A k \in DOMAIN docs : docs[k].width <= ChunkBytes
    <3>1. ChunkBytes \in Nat \ {0}
      BY DEF Text!WellFormed
    <3>2. 1 <= ChunkBytes
      BY <3>1
    <3>3. QED
      BY <2>3, <3>2
  <2>5. partials \in Seq(Seq(TextPieces)) /\ Reaches(pieces, docs, N)
    BY <2>3, <2>4, ChunkTextReaches
  <2> HIDE DEF N
  <2>6. 2 * size <= ChunkBytes => 2 * Len(partials) <= N + 1
    <3> SUFFICES ASSUME 2 * size <= ChunkBytes PROVE 2 * Len(partials) <= N + 1
      OBVIOUS
    <3>1. size \in Nat /\ \A k \in DOMAIN docs : docs[k].size = size
      BY <2>3
    <3>2. 2 * Len(Text!ChunkText(docs)) <= Len(docs) + 1
      BY <2>3, <2>4, <3>1, ChunkTextHalves
    <3>3. QED
      BY <2>3, <3>2
  <2> HIDE DEF partials
  <2>7. pieces \in Seq(TextPieces)
    BY <2>5, FlattenTypes
  <2>8. pieces \in Seq(DocumentPieces(chunks)) /\ pieces # <<>>
    <3>1. \A k \in 1 .. Len(pieces) : pieces[k].line \in 1 .. N
      BY <2>5 DEF Reaches
    <3>2. \A k \in 1 .. Len(pieces) : pieces[k] \in TextPieces
      BY <2>7, ElementOfSeq
    <3> HIDE DEF pieces
    <3>3. \A k \in 1 .. Len(pieces) : pieces[k] \in DocumentPieces(chunks)
      BY <3>1, <3>2 DEF DocumentPieces, N
    <3>4. pieces \in Seq(DocumentPieces(chunks))
      BY <2>7, <3>3, SeqDef
    <3>5. pieces # <<>>
      BY <2>2, <2>5 DEF Reaches
    <3>6. QED
      BY <3>4, <3>5
  <2>9. partials \in Seq(Seq(DocumentPieces(chunks)))
    BY <2>5, <2>8, PartsTyped
  <2>10. /\ each \in Seq(Seq(TextPieces)) /\ Len(each) = Len(partials)
         /\ Text!FlattenSeq(each) = Text!FlattenSeq(StandsFor(pieces, chunks))
    BY <2>9, SourcesFlatten
  <2>11. Text!FlattenSeq(StandsFor(pieces, chunks)) = Text!FlattenSeq(chunks)
    <3> HIDE DEF pieces
    <3>1. QED
      BY <2>5, <2>8, StandsForAll DEF N
  <2>12. partials # <<>>
    <3> SUFFICES ASSUME partials = <<>> PROVE FALSE
      OBVIOUS
    <3>1. pieces = <<>>
      BY <2>5, FlattenTypes
    <3>2. QED
      BY <2>8, <3>1
  <2>13. each # <<>>
    <3>1. Len(partials) # 0
      BY <2>5, <2>12, EmptySeq
    <3> HIDE DEF each
    <3>2. QED
      BY <2>10, <3>1, EmptySeq
  <2> HIDE DEF each
  <2>14. QED
    BY <1>2, <2>1, <2>6, <2>10, <2>11, <2>13 DEF N
<1>3. QED
  BY <1>1, <1>2

\* Chunks of one text.
TextChunks(text) == {chunks \in Seq(Seq(TextPieces)) : chunks # <<>> /\ Text!FlattenSeq(chunks) = text}

\* The rounds f of reductions of the chunks.
ReducesTo(f, text, chunks, size, rounds) ==
    /\ f \in [0 .. rounds -> TextChunks(text)]
    /\ Text!Summarized(chunks, size) = (IF Len(f[rounds]) = 1 THEN [result |-> "ok", of |-> f[rounds][1]] ELSE Text!Failed("input_too_large"))
    /\ f[0] = chunks
    /\ \A n \in 1 .. rounds : f[n] = Text!Reduced(f[n - 1], size)

\* Chunks are reduced round by round.
LEMMA ReducedLoop ==
    ASSUME Text!WellFormed, NEW text, NEW chunks \in TextChunks(text), NEW size \in Nat \ {0}
    PROVE  \E f : ReducesTo(f, text, chunks, size, MaxRounds - 1)
<1> DEFINE m == MaxRounds - 1
           D == TextChunks(text)
           a == chunks
           S == [n \in 1 .. m |-> [x \in D |-> Text!Reduced(x, size)]]
           Is(f) == f = [n \in 0 .. m |-> IF n = 0 THEN a ELSE Text!Reduced(f[n - 1], size)]
           after == CHOOSE f : Is(f)
<1>m. m \in Nat
  <2>1. MaxRounds \in Nat \ {0}
    BY DEF Text!WellFormed
  <2>2. QED
    BY <2>1
<1>a. a \in D
  OBVIOUS
<1>0. \A n \in 1 .. m, x \in D : Text!Reduced(x, size) \in D
  <2> SUFFICES ASSUME NEW x \in D PROVE Text!Reduced(x, size) \in D
    OBVIOUS
  <2>1. x \in Seq(Seq(TextPieces)) /\ x # <<>> /\ Text!FlattenSeq(x) = text
    BY DEF TextChunks
  <2>2. QED
    BY <2>1, ReducedIs DEF TextChunks
<1>1. S \in [1 .. m -> [D -> D]]
  <2> HIDE DEF D, m
  <2>1. QED
    BY <1>0
<1>2. PICK f : IsRun(f, D, a, m, S)
  <2> HIDE DEF S, m, a, D
  <2>1. QED
    BY <1>1, <1>m, <1>a, LoopExists
<1>b. f \in [0 .. m -> D] /\ f[0] = a
  BY <1>2 DEF IsRun
<1>3. \A n \in 1 .. m : f[n - 1] \in D /\ f[n] = Text!Reduced(f[n - 1], size)
  <2> HIDE DEF m, a, D
  <2>1. \A n \in 1 .. m : n - 1 \in 0 .. m
    BY <1>m
  <2>2. \A n \in 1 .. m, x \in D : S[n][x] = Text!Reduced(x, size)
    OBVIOUS
  <2> HIDE DEF S
  <2>3. QED
    BY <1>2, <1>b, <2>1, <2>2 DEF IsRun
<1>4. Is(f)
  <2> DEFINE h == [n \in 0 .. m |-> IF n = 0 THEN a ELSE Text!Reduced(f[n - 1], size)]
  <2> HIDE DEF S, m, a, D
  <2>1. \A n \in 0 .. m : n # 0 => n \in 1 .. m
    BY <1>m
  <2>2. ASSUME NEW n \in 0 .. m PROVE f[n] = h[n]
    BY <1>b, <1>3, <2>1
  <2>3. f = [n \in 0 .. m |-> f[n]] /\ h = [n \in 0 .. m |-> h[n]]
    BY <1>b
  <2> HIDE DEF h
  <2>4. f = h
    BY <2>2, <2>3
  <2>5. QED
    BY <2>4 DEF h
<1>5. Is(after)
  BY <1>4
<1>6. Text!Summarized(chunks, size) = (IF Len(after[m]) = 1 THEN [result |-> "ok", of |-> after[m][1]] ELSE Text!Failed("input_too_large"))
  BY DEF Text!Summarized
<1> DEFINE g == [n \in 0 .. m |-> IF n = 0 THEN a ELSE Text!Reduced(after[n - 1], size)]
<1>7. after = g
  BY <1>5
<1> HIDE DEF after, a, m, S
<1>8. /\ g \in [0 .. m -> {g[n] : n \in 0 .. m}] /\ g[0] = a
      /\ \A n \in 1 .. m : g[n] = Text!Reduced(after[n - 1], size)
  <2>1. 0 \in 0 .. m /\ \A n \in 1 .. m : n \in 0 .. m /\ n # 0
    BY <1>m
  <2>2. QED
    BY <2>1
<1> HIDE DEF g
<1>9. after[0] = a /\ \A n \in 1 .. m : after[n] = Text!Reduced(after[n - 1], size)
  BY <1>7, <1>8
<1> DEFINE T == {n \in Nat : n <= m => after[n] \in D}
<1>10. \A n \in 0 .. m : after[n] \in D
  <2> HIDE DEF D
  <2>1. 0 \in T
    BY <1>9, <1>a
  <2>2. ASSUME NEW n \in Nat, n \in T PROVE n + 1 \in T
    <3> SUFFICES ASSUME n + 1 <= m PROVE after[n + 1] \in D
      OBVIOUS
    <3>1. after[n] \in D /\ n + 1 \in 1 .. m /\ (n + 1) - 1 = n
      BY <1>m, <2>2
    <3>2. after[n + 1] = Text!Reduced(after[n], size)
      BY <1>9, <3>1
    <3>3. QED
      BY <1>0, <3>1, <3>2
  <2>3. Nat \subseteq T
    <3> HIDE DEF T
    <3>1. QED
      BY <2>1, <2>2, Counting
  <2>4. QED
    BY <1>m, <2>3
<1>11. after \in [0 .. m -> D]
  BY <1>7, <1>8, <1>10
<1> HIDE DEF D
<1>12. QED
  <2>1. ReducesTo(after, text, chunks, size, m)
    BY <1>6, <1>9, <1>11 DEF a, D, ReducesTo
  <2>2. QED
    BY <2>1 DEF m

\* The chunks that the rounds reduce to one, round by round.
LEMMA ReducibleLoop ==
    ASSUME Text!WellFormed
    PROVE  \E f \in [0 .. MaxRounds - 1 -> Nat] :
              /\ Text!Reducible = f[MaxRounds - 1]
              /\ f[0] = 1
              /\ \A n \in 1 .. MaxRounds - 1 : f[n] = 2 * f[n - 1]
<1> DEFINE m == MaxRounds - 1
           D == Nat
           a == 1
           S == [n \in 1 .. m |-> [x \in D |-> 2 * x]]
           Is(f) == f = [n \in 0 .. m |-> IF n = 0 THEN a ELSE 2 * f[n - 1]]
           after == CHOOSE f : Is(f)
<1>m. m \in Nat
  <2>1. MaxRounds \in Nat \ {0}
    BY DEF Text!WellFormed
  <2>2. QED
    BY <2>1
<1>a. a \in D
  OBVIOUS
<1>0. \A n \in 1 .. m, x \in D : 2 * x \in D
  OBVIOUS
<1>1. S \in [1 .. m -> [D -> D]]
  <2> HIDE DEF D, m
  <2>1. QED
    BY <1>0
<1>2. PICK f : IsRun(f, D, a, m, S)
  <2> HIDE DEF S, m, a, D
  <2>1. QED
    BY <1>1, <1>m, <1>a, LoopExists
<1>b. f \in [0 .. m -> D] /\ f[0] = a
  BY <1>2 DEF IsRun
<1>3. \A n \in 1 .. m : f[n - 1] \in D /\ f[n] = 2 * f[n - 1]
  <2> HIDE DEF m, a, D
  <2>1. \A n \in 1 .. m : n - 1 \in 0 .. m
    BY <1>m
  <2>2. \A n \in 1 .. m, x \in D : S[n][x] = 2 * x
    OBVIOUS
  <2> HIDE DEF S
  <2>3. QED
    BY <1>2, <1>b, <2>1, <2>2 DEF IsRun
<1>4. Is(f)
  <2> DEFINE h == [n \in 0 .. m |-> IF n = 0 THEN a ELSE 2 * f[n - 1]]
  <2> HIDE DEF S, m, a, D
  <2>1. \A n \in 0 .. m : n # 0 => n \in 1 .. m
    BY <1>m
  <2>2. ASSUME NEW n \in 0 .. m PROVE f[n] = h[n]
    BY <1>b, <1>3, <2>1
  <2>3. f = [n \in 0 .. m |-> f[n]] /\ h = [n \in 0 .. m |-> h[n]]
    BY <1>b
  <2> HIDE DEF h
  <2>4. f = h
    BY <2>2, <2>3
  <2>5. QED
    BY <2>4 DEF h
<1>5. Is(after)
  BY <1>4
<1>6. Text!Reducible = after[m]
  BY DEF Text!Reducible
<1> DEFINE g == [n \in 0 .. m |-> IF n = 0 THEN a ELSE 2 * after[n - 1]]
<1>7. after = g
  BY <1>5
<1> HIDE DEF after, a, m, S
<1>8. /\ g \in [0 .. m -> {g[n] : n \in 0 .. m}] /\ g[0] = a
      /\ \A n \in 1 .. m : g[n] = 2 * after[n - 1]
  <2>1. 0 \in 0 .. m /\ \A n \in 1 .. m : n \in 0 .. m /\ n # 0
    BY <1>m
  <2>2. QED
    BY <2>1
<1> HIDE DEF g
<1>9. after[0] = a /\ \A n \in 1 .. m : after[n] = 2 * after[n - 1]
  BY <1>7, <1>8
<1> DEFINE T == {n \in Nat : n <= m => after[n] \in D}
<1>10. \A n \in 0 .. m : after[n] \in D
  <2> HIDE DEF D
  <2>1. 0 \in T
    BY <1>9, <1>a
  <2>2. ASSUME NEW n \in Nat, n \in T PROVE n + 1 \in T
    <3> SUFFICES ASSUME n + 1 <= m PROVE after[n + 1] \in D
      OBVIOUS
    <3>1. after[n] \in D /\ n + 1 \in 1 .. m /\ (n + 1) - 1 = n
      BY <1>m, <2>2
    <3>2. after[n + 1] = 2 * after[n]
      BY <1>9, <3>1
    <3>3. QED
      BY <1>0, <3>1, <3>2
  <2>3. Nat \subseteq T
    <3> HIDE DEF T
    <3>1. QED
      BY <2>1, <2>2, Counting
  <2>4. QED
    BY <1>m, <2>3
<1>11. after \in [0 .. m -> D]
  BY <1>7, <1>8, <1>10
<1> HIDE DEF D
<1>12. QED
  BY <1>6, <1>9, <1>11 DEF a, m, D

\* A summary is of the whole text, and fails only if a prompt does not take two documents.
LEMMA SummarizedIs ==
    ASSUME Text!WellFormed, NEW lines \in Transcripts, \A i \in DOMAIN lines : lines[i].width <= ChunkBytes,
           NEW size \in Documents
    PROVE  LET summary == Text!Summarized(Text!ChunkText(lines), size) IN
           /\ summary.result \in {"ok", "input_too_large"}
           /\ summary.result = "ok" => Text!Covers(summary.of, lines)
           /\ summary.result = "input_too_large" => 2 * size > ChunkBytes
<1> DEFINE chunks == Text!ChunkText(lines)
           text == Text!FlattenSeq(chunks)
           M == MaxRounds - 1
           summary == Text!Summarized(chunks, size)
<1>1. /\ lines \in Seq(TextLines) /\ lines # <<>> /\ Len(chunks) <= Text!Reducible
      /\ size \in Nat \ {0} /\ M \in Nat /\ ChunkBytes \in Nat
  <2>1. lines \in Seq(TextLines) /\ lines # <<>> /\ Len(chunks) <= Text!Reducible
    BY DEF Text!WellFormed, TextLines
  <2>2. size \in Nat \ {0}
    BY DEF Text!WellFormed
  <2>3. MaxRounds \in Nat \ {0} /\ ChunkBytes \in Nat \ {0}
    BY DEF Text!WellFormed
  <2>4. QED
    BY <2>1, <2>2, <2>3
<1>2. chunks \in Seq(Seq(TextPieces)) /\ Reaches(text, lines, Len(lines))
  BY <1>1, ChunkTextReaches
<1> HIDE DEF chunks
<1>3. text \in Seq(TextPieces) /\ text # <<>>
  <2>1. text \in Seq(TextPieces)
    BY <1>2, FlattenTypes
  <2>2. Len(lines) \in Nat /\ Len(lines) # 0
    BY <1>1, EmptySeq
  <2>3. Len(lines) > 0
    BY <2>2
  <2> HIDE DEF text
  <2>4. QED
    BY <1>2, <2>1, <2>3 DEF Reaches
<1>4. chunks \in TextChunks(text)
  <2>1. chunks # <<>>
    <3> SUFFICES ASSUME chunks = <<>> PROVE FALSE
      OBVIOUS
    <3>1. text = <<>>
      BY <1>2, FlattenTypes
    <3>2. QED
      BY <1>3, <3>1
  <2>2. QED
    BY <1>2, <2>1 DEF TextChunks
<1> HIDE DEF text
<1>c. PICK f : ReducesTo(f, text, chunks, size, M)
  BY <1>1, <1>4, ReducedLoop
<1>5. /\ f \in [0 .. M -> TextChunks(text)]
      /\ summary = (IF Len(f[M]) = 1 THEN [result |-> "ok", of |-> f[M][1]] ELSE Text!Failed("input_too_large"))
      /\ f[0] = chunks
      /\ \A n \in 1 .. M : f[n] = Text!Reduced(f[n - 1], size)
  BY <1>c DEF ReducesTo
<1>6. PICK g \in [0 .. M -> Nat] :
        Text!Reducible = g[M] /\ g[0] = 1 /\ \A n \in 1 .. M : g[n] = 2 * g[n - 1]
  BY ReducibleLoop
<1> HIDE DEF summary, M
<1>7. \A n \in 0 .. M : /\ f[n] \in Seq(Seq(TextPieces)) /\ f[n] # <<>> /\ Text!FlattenSeq(f[n]) = text
                        /\ Len(f[n]) \in Nat /\ g[n] \in Nat
  <2> SUFFICES ASSUME NEW n \in 0 .. M
               PROVE  /\ f[n] \in Seq(Seq(TextPieces)) /\ f[n] # <<>> /\ Text!FlattenSeq(f[n]) = text
                      /\ Len(f[n]) \in Nat /\ g[n] \in Nat
    OBVIOUS
  <2>1. f[n] \in TextChunks(text)
    BY <1>5
  <2>2. f[n] \in Seq(Seq(TextPieces)) /\ f[n] # <<>> /\ Text!FlattenSeq(f[n]) = text
    BY <2>1 DEF TextChunks
  <2>3. Len(f[n]) \in Nat
    BY <2>2
  <2>4. g[n] \in Nat
    OBVIOUS
  <2>5. QED
    BY <2>2, <2>3, <2>4
<1>8. CASE Len(f[M]) = 1
  <2>1. f[M] \in Seq(Seq(TextPieces)) /\ Text!FlattenSeq(f[M]) = text
    BY <1>1, <1>7
  <2> DEFINE one == f[M][1]
  <2>2. one \in Seq(TextPieces) /\ f[M] = Append(<<>>, one)
    BY <1>8, <2>1
  <2>3. text = <<>> \o one
    <3>1. <<>> \in Seq(Seq(TextPieces)) /\ Text!FlattenSeq(<<>>) = <<>>
      <4>1. <<>> \in Seq(Seq(TextPieces))
        OBVIOUS
      <4>2. QED
        BY <4>1, FlattenTypes
    <3> HIDE DEF one
    <3>2. QED
      BY <2>1, <2>2, <3>1, FlattenAppend
  <2>4. text = one
    BY <2>2, <2>3, ConcatEmptySeq
  <2>5. summary.result = "ok" /\ summary.of = text
    BY <1>5, <1>8, <2>4
  <2>6. Text!Covers(text, lines)
    <3>1. Len(lines) > 0 /\ 1 .. Len(text) = DOMAIN text /\ Len(text) \in Nat
      <4>1. Len(lines) \in Nat /\ Len(lines) # 0
        BY <1>1, EmptySeq
      <4>2. QED
        BY <1>3, <4>1
    <3>2. QED
      BY <1>2, <3>1 DEF Reaches, Text!Covers, Text!Last
  <2>7. QED
    BY <2>5, <2>6 DEF summary, chunks
<1>9. CASE Len(f[M]) # 1
  <2>1. summary.result = "input_too_large"
    BY <1>5, <1>9 DEF Text!Failed
  <2>2. 2 * size > ChunkBytes
    <3> SUFFICES ASSUME 2 * size <= ChunkBytes PROVE FALSE
      BY <1>1
    <3> DEFINE T == {n \in Nat : n <= M => Len(f[n]) <= g[M - n]}
    <3>1. 0 \in T
      BY <1>1, <1>5, <1>6
    <3>2. ASSUME NEW n \in Nat, n \in T PROVE n + 1 \in T
      <4> SUFFICES ASSUME n + 1 <= M PROVE Len(f[n + 1]) <= g[M - (n + 1)]
        OBVIOUS
      <4> DEFINE k == Len(f[n])
                 l == Len(f[n + 1])
                 h == g[M - (n + 1)]
      <4>1. /\ n \in 0 .. M /\ n + 1 \in 0 .. M /\ n + 1 \in 1 .. M /\ (n + 1) - 1 = n
            /\ M - (n + 1) \in 0 .. M /\ M - n \in 1 .. M /\ (M - n) - 1 = M - (n + 1)
        BY <1>1
      <4>2. g[M - n] = 2 * g[(M - n) - 1]
        BY <1>6, <4>1
      <4>3. k \in Nat /\ l \in Nat /\ h \in Nat /\ k <= 2 * h /\ k # 0
        <5>1. k \in Nat /\ l \in Nat /\ h \in Nat
          BY <1>7, <4>1
        <5>2. k # 0
          BY <1>7, <4>1, EmptySeq
        <5>3. k <= g[M - n]
          BY <3>2, <4>1
        <5>4. QED
          BY <4>1, <4>2, <5>1, <5>2, <5>3
      <4>4. f[n + 1] = Text!Reduced(f[n], size)
        BY <1>5, <4>1
      <4>5. k = 1 => f[n + 1] = f[n]
        <5>1. f[n] \in Seq(Seq(TextPieces)) /\ f[n] # <<>>
          BY <1>7, <4>1
        <5>2. QED
          BY <1>1, <4>4, <5>1, ReducedIs
      <4>6. k # 1 => 2 * l <= k + 1
        <5>1. f[n] \in Seq(Seq(TextPieces)) /\ f[n] # <<>>
          BY <1>7, <4>1
        <5>2. QED
          BY <1>1, <4>4, <5>1, ReducedIs
      <4>7. k = 1 => l = 1
        BY <4>5
      <4> HIDE DEF k, l, h
      <4>8. l <= h
        BY <4>3, <4>6, <4>7
      <4>9. QED
        BY <4>8 DEF l, h
    <3>3. Nat \subseteq T
      <4> HIDE DEF T
      <4>1. QED
        BY <3>1, <3>2, Counting
    <3>4. Len(f[M]) <= 1
      <4>1. M \in T
        BY <1>1, <3>3
      <4>2. QED
        BY <1>1, <1>6, <4>1
    <3>5. Len(f[M]) \in Nat /\ Len(f[M]) # 0
      <4>1. M \in 0 .. M
        BY <1>1
      <4>2. QED
        BY <1>7, <4>1, EmptySeq
    <3>6. \A x \in Nat : x # 0 /\ x <= 1 => x = 1
      OBVIOUS
    <3>7. QED
      BY <1>9, <3>4, <3>5, <3>6, Zenon
  <2>3. QED
    BY <2>1, <2>2 DEF summary, chunks
<1>10. QED
  BY <1>8, <1>9

------------------------
(* Transcripts: the places that were said, and the segments they are told by. *)

\* The places of a test are found one by one.
LEMMA WhereLoop ==
    ASSUME NEW test \in Seq(BOOLEAN)
    PROVE  \E f \in [0 .. Len(test) -> Seq(Nat)] :
              /\ Text!Where(test) = f[Len(test)]
              /\ f[0] = <<>>
              /\ \A n \in 1 .. Len(test) : f[n] = IF test[n] THEN Append(f[n - 1], n) ELSE f[n - 1]
<1> DEFINE m == Len(test)
           D == Seq(Nat)
           a == <<>>
           S == [n \in 1 .. m |-> [x \in D |-> IF test[n] THEN Append(x, n) ELSE x]]
           Is(f) == f = [n \in 0 .. m |-> IF n = 0 THEN a ELSE IF test[n] THEN Append(f[n - 1], n) ELSE f[n - 1]]
           after == CHOOSE f : Is(f)
<1>m. m \in Nat
  OBVIOUS
<1>a. a \in D
  OBVIOUS
<1>0. \A n \in 1 .. m, x \in D : (IF test[n] THEN Append(x, n) ELSE x) \in D
  <2> SUFFICES ASSUME NEW n \in 1 .. m, NEW x \in D PROVE Append(x, n) \in D
    OBVIOUS
  <2>1. n \in Nat
    OBVIOUS
  <2>2. QED
    BY <2>1
<1>1. S \in [1 .. m -> [D -> D]]
  <2> HIDE DEF D, m
  <2>1. QED
    BY <1>0
<1>2. PICK f : IsRun(f, D, a, m, S)
  <2> HIDE DEF S, m, a, D
  <2>1. QED
    BY <1>1, <1>m, <1>a, LoopExists
<1>b. f \in [0 .. m -> D] /\ f[0] = a
  BY <1>2 DEF IsRun
<1>3. \A n \in 1 .. m : f[n - 1] \in D /\ f[n] = IF test[n] THEN Append(f[n - 1], n) ELSE f[n - 1]
  <2> HIDE DEF m, a, D
  <2>1. \A n \in 1 .. m : n - 1 \in 0 .. m
    BY <1>m
  <2>2. \A n \in 1 .. m, x \in D : S[n][x] = IF test[n] THEN Append(x, n) ELSE x
    OBVIOUS
  <2> HIDE DEF S
  <2>3. QED
    BY <1>2, <1>b, <2>1, <2>2 DEF IsRun
<1>4. Is(f)
  <2> DEFINE h == [n \in 0 .. m |-> IF n = 0 THEN a ELSE IF test[n] THEN Append(f[n - 1], n) ELSE f[n - 1]]
  <2> HIDE DEF S, m, a, D
  <2>1. \A n \in 0 .. m : n # 0 => n \in 1 .. m
    BY <1>m
  <2>2. ASSUME NEW n \in 0 .. m PROVE f[n] = h[n]
    BY <1>b, <1>3, <2>1
  <2>3. f = [n \in 0 .. m |-> f[n]] /\ h = [n \in 0 .. m |-> h[n]]
    BY <1>b
  <2> HIDE DEF h
  <2>4. f = h
    BY <2>2, <2>3, SMTT(30)
  <2>5. QED
    BY <2>4 DEF h
<1>5. Is(after)
  BY <1>4
<1>6. Text!Where(test) = after[m]
  BY SMTT(30) DEF Text!Where
<1> DEFINE g == [n \in 0 .. m |-> IF n = 0 THEN a ELSE IF test[n] THEN Append(after[n - 1], n) ELSE after[n - 1]]
<1>7. after = g
  BY <1>5
<1> HIDE DEF after, a, m, S
<1>8. /\ g \in [0 .. m -> {g[n] : n \in 0 .. m}] /\ g[0] = a
      /\ \A n \in 1 .. m : g[n] = IF test[n] THEN Append(after[n - 1], n) ELSE after[n - 1]
  <2>1. 0 \in 0 .. m /\ \A n \in 1 .. m : n \in 0 .. m /\ n # 0
    BY <1>m
  <2>2. QED
    BY <2>1
<1> HIDE DEF g
<1>9. after[0] = a /\ \A n \in 1 .. m : after[n] = IF test[n] THEN Append(after[n - 1], n) ELSE after[n - 1]
  BY <1>7, <1>8
<1> DEFINE T == {n \in Nat : n <= m => after[n] \in D}
<1>10. \A n \in 0 .. m : after[n] \in D
  <2> HIDE DEF D
  <2>1. 0 \in T
    BY <1>9, <1>a
  <2>2. ASSUME NEW n \in Nat, n \in T PROVE n + 1 \in T
    <3> SUFFICES ASSUME n + 1 <= m PROVE after[n + 1] \in D
      OBVIOUS
    <3>1. after[n] \in D /\ n + 1 \in 1 .. m /\ (n + 1) - 1 = n
      BY <1>m, <2>2
    <3>2. after[n + 1] = IF test[(n + 1)] THEN Append(after[n], (n + 1)) ELSE after[n]
      BY <1>9, <3>1
    <3>3. QED
      BY <1>0, <3>1, <3>2
  <2>3. Nat \subseteq T
    <3> HIDE DEF T
    <3>1. QED
      BY <2>1, <2>2, Counting
  <2>4. QED
    BY <1>m, <2>3
<1>11. after \in [0 .. m -> D]
  BY <1>7, <1>8, <1>10
<1> HIDE DEF D
<1>12. QED
  BY <1>6, <1>9, <1>11 DEF a, m, D

\* Places in order.
Increasing(s) == \A k, l \in 1 .. Len(s) : k < l => s[k] < s[l]

\* The places up to n where a test holds.
PlacesOf(w, test, n) ==
    /\ w \in Seq(Nat) /\ Increasing(w)
    /\ \A k \in 1 .. Len(w) : w[k] \in 1 .. n /\ test[w[k]]
    /\ \A i \in 1 .. n : test[i] => \E k \in 1 .. Len(w) : w[k] = i

\* A place more.
LEMMA PlaceMore ==
    ASSUME NEW w, NEW test, NEW n \in Nat, PlacesOf(w, test, n), test[n + 1]
    PROVE  PlacesOf(Append(w, n + 1), test, n + 1)
<1> DEFINE m == Len(w)
           v == Append(w, n + 1)
<1>1. /\ w \in Seq(Nat) /\ m \in Nat /\ v \in Seq(Nat) /\ Len(v) = m + 1
      /\ v[m + 1] = n + 1 /\ \A k \in 1 .. m : v[k] = w[k] /\ w[k] \in Nat
  <2>1. w \in Seq(Nat)
    BY DEF PlacesOf
  <2>2. QED
    BY <2>1
<1>2. /\ \A k, l \in 1 .. m : k < l => w[k] < w[l]
      /\ \A k \in 1 .. m : w[k] \in 1 .. n /\ test[w[k]]
      /\ \A i \in 1 .. n : test[i] => \E k \in 1 .. m : w[k] = i
  BY DEF PlacesOf, Increasing
<1> HIDE DEF v, m
<1>3. Increasing(v)
  <2> SUFFICES ASSUME NEW k \in 1 .. m + 1, NEW l \in 1 .. m + 1, k < l PROVE v[k] < v[l]
    BY <1>1 DEF Increasing
  <2>1. k \in 1 .. m
    BY <1>1
  <2>2. CASE l \in 1 .. m
    BY <1>1, <1>2, <2>1, <2>2
  <2>3. CASE l = m + 1
    BY <1>1, <1>2, <2>1, <2>3
  <2>4. l \in 1 .. m \/ l = m + 1
    BY <1>1
  <2>5. QED
    BY <2>2, <2>3, <2>4
<1>4. ASSUME NEW k \in 1 .. m + 1 PROVE v[k] \in 1 .. n + 1 /\ test[v[k]]
  <2>1. CASE k \in 1 .. m
    BY <1>1, <1>2, <2>1, SMTT(30)
  <2>2. CASE k = m + 1
    BY <1>1, <2>2
  <2>3. k \in 1 .. m \/ k = m + 1
    BY <1>1
  <2>4. QED
    BY <2>1, <2>2, <2>3
<1>5. ASSUME NEW i \in 1 .. n + 1, test[i] PROVE \E k \in 1 .. m + 1 : v[k] = i
  <2>1. CASE i \in 1 .. n
    <3>1. PICK k \in 1 .. m : w[k] = i
      BY <1>2, <1>5, <2>1
    <3>2. k \in 1 .. m + 1 /\ v[k] = i
      BY <1>1, <3>1
    <3>3. QED
      BY <3>2
  <2>2. CASE i = n + 1
    <3>1. m + 1 \in 1 .. m + 1
      BY <1>1
    <3>2. QED
      BY <1>1, <2>2, <3>1
  <2>3. i \in 1 .. n \/ i = n + 1
    OBVIOUS
  <2>4. QED
    BY <2>1, <2>2, <2>3
<1>6. PlacesOf(v, test, n + 1)
  BY <1>1, <1>3, <1>4, <1>5 DEF PlacesOf
<1>7. QED
  BY <1>6 DEF v

\* They are all found, in order.
LEMMA WhereIs ==
    ASSUME NEW test \in Seq(BOOLEAN)
    PROVE  PlacesOf(Text!Where(test), test, Len(test))
<1> DEFINE m == Len(test)
<1>1. m \in Nat
  OBVIOUS
<1>2. PICK f \in [0 .. m -> Seq(Nat)] :
        /\ Text!Where(test) = f[m] /\ f[0] = <<>>
        /\ \A n \in 1 .. m : f[n] = IF test[n] THEN Append(f[n - 1], n) ELSE f[n - 1]
  BY WhereLoop
<1> HIDE DEF m
<1> DEFINE T == {n \in Nat : n <= m => PlacesOf(f[n], test, n)}
<1>3. 0 \in T
  <2>1. <<>> \in Seq(Nat) /\ Len(<<>>) = 0 /\ 1 .. 0 = {}
    OBVIOUS
  <2>2. PlacesOf(<<>>, test, 0)
    BY <2>1 DEF PlacesOf, Increasing
  <2>3. QED
    BY <1>2, <2>2
<1>4. ASSUME NEW n \in Nat, n \in T PROVE n + 1 \in T
  <2> SUFFICES ASSUME n + 1 <= m PROVE PlacesOf(f[n + 1], test, n + 1)
    OBVIOUS
  <2>1. n \in 0 .. m /\ n + 1 \in 1 .. m /\ (n + 1) - 1 = n
    BY <1>1
  <2>2. PlacesOf(f[n], test, n)
    BY <1>4, <2>1
  <2>3. f[n + 1] = IF test[n + 1] THEN Append(f[n], n + 1) ELSE f[n]
    BY <1>2, <2>1
  <2>4. CASE test[n + 1]
    <3>1. PlacesOf(Append(f[n], n + 1), test, n + 1)
      BY <2>2, <2>4, PlaceMore
    <3>2. QED
      BY <2>3, <2>4, <3>1
  <2>5. CASE ~test[n + 1]
    <3>1. f[n + 1] = f[n]
      BY <2>3, <2>5
    <3>2. \A i \in 1 .. n + 1 : test[i] => i \in 1 .. n
      BY <2>5
    <3>3. \A i \in 1 .. n : i \in 1 .. n + 1
      OBVIOUS
    <3>4. QED
      BY <2>2, <3>1, <3>2, <3>3 DEF PlacesOf
  <2>6. QED
    BY <2>4, <2>5
<1>5. Nat \subseteq T
  <2> HIDE DEF T
  <2>1. QED
    BY <1>3, <1>4, Counting
<1>6. PlacesOf(f[m], test, m)
  BY <1>1, <1>5
<1>7. QED
  BY <1>2, <1>6 DEF m

\* The segments of a transcript.
TextSegments == [start : Nat, end : Nat, who : Nat, of : Seq(Nat)]

\* They tell places.
LEMMA SegmentsTell ==
    ASSUME NEW out \in Seq(TextSegments)
    PROVE  \A j \in 1 .. Len(out) : out[j].of \in Seq(Nat)
<1>1. \A j \in 1 .. Len(out) : out[j] \in TextSegments
  BY ElementOfSeq
<1>2. \A x \in TextSegments : x.of \in Seq(Nat)
  BY DEF TextSegments
<1>3. QED
  BY <1>1, <1>2

\* What segments tell, place by place.
LEMMA TellsIs ==
    ASSUME NEW X, NEW out \in Seq(X), \A j \in 1 .. Len(out) : out[j].of \in Seq(Nat), NEW said
    PROVE  Text!Tells(out, said) <=>
              /\ \A j \in 1 .. Len(out) : \A k \in 1 .. Len(out[j].of) : out[j].of[k] \in said
              /\ \A x \in said : \E j \in 1 .. Len(out) : \E k \in 1 .. Len(out[j].of) : out[j].of[k] = x
              /\ \A i, j \in 1 .. Len(out) : \A k \in 1 .. Len(out[i].of), l \in 1 .. Len(out[j].of) :
                    i < j \/ (i = j /\ k < l) => out[i].of[k] < out[j].of[l]
<1>1. DOMAIN out = 1 .. Len(out) /\ \A j \in 1 .. Len(out) : DOMAIN out[j].of = 1 .. Len(out[j].of)
  OBVIOUS
<1>2. UNION {Text!ToSet(out[i].of) : i \in DOMAIN out}
        = UNION {{out[i].of[k] : k \in 1 .. Len(out[i].of)} : i \in 1 .. Len(out)}
  BY <1>1 DEF Text!ToSet
<1> DEFINE all == UNION {{out[i].of[k] : k \in 1 .. Len(out[i].of)} : i \in 1 .. Len(out)}
<1>3. \A x : x \in all <=> \E j \in 1 .. Len(out) : \E k \in 1 .. Len(out[j].of) : out[j].of[k] = x
  <2> DEFINE ToldBy(i) == {out[i].of[k] : k \in 1 .. Len(out[i].of)}
  <2>1. \A i \in 1 .. Len(out) : \A x : x \in ToldBy(i) <=> \E k \in 1 .. Len(out[i].of) : out[i].of[k] = x
    OBVIOUS
  <2>2. all = UNION {ToldBy(i) : i \in 1 .. Len(out)}
    OBVIOUS
  <2> HIDE DEF all, ToldBy
  <2>3. \A x : x \in all <=> \E i \in 1 .. Len(out) : x \in ToldBy(i)
    BY <2>2
  <2>4. QED
    BY <2>1, <2>3
<1> HIDE DEF all
<1>4. said = all <=> /\ \A j \in 1 .. Len(out) : \A k \in 1 .. Len(out[j].of) : out[j].of[k] \in said
                     /\ \A x \in said : \E j \in 1 .. Len(out) : \E k \in 1 .. Len(out[j].of) : out[j].of[k] = x
  BY <1>3, ZenonT(40)
<1>5. /\ UNION {Text!ToSet(out[i].of) : i \in DOMAIN out} = all
      /\ DOMAIN out = 1 .. Len(out)
  BY <1>1, <1>2 DEF all
<1>6. (\A i, j \in DOMAIN out : \A k \in DOMAIN out[i].of, l \in DOMAIN out[j].of :
          i < j \/ (i = j /\ k < l) => out[i].of[k] < out[j].of[l])
      <=> \A i, j \in 1 .. Len(out) : \A k \in 1 .. Len(out[i].of), l \in 1 .. Len(out[j].of) :
              i < j \/ (i = j /\ k < l) => out[i].of[k] < out[j].of[l]
  BY <1>1
<1>7. QED
  BY <1>4, <1>5, <1>6 DEF Text!Tells

\* A segment more tells later places.
LEMMA TellsAppend ==
    ASSUME NEW out \in Seq(TextSegments), NEW said, Text!Tells(out, said), NEW s \in TextSegments,
           Increasing(s.of), \A x \in said, k \in 1 .. Len(s.of) : x < s.of[k]
    PROVE  Text!Tells(Append(out, s), said \cup {s.of[k] : k \in 1 .. Len(s.of)})
<1>0. s.of \in Seq(Nat) /\ \A j \in 1 .. Len(out) : out[j].of \in Seq(Nat)
  BY SegmentsTell DEF TextSegments
<1> DEFINE n == Len(out)
           more == Append(out, s)
           new == {s.of[k] : k \in 1 .. Len(s.of)}
<1>1. /\ n \in Nat /\ more \in Seq(TextSegments) /\ Len(more) = n + 1 /\ more[n + 1] = s
      /\ \A j \in 1 .. n : more[j] = out[j]
  OBVIOUS
<1> HIDE DEF more, n
<1>2. /\ \A j \in 1 .. n : \A k \in 1 .. Len(out[j].of) : out[j].of[k] \in said
      /\ \A x \in said : \E j \in 1 .. n : \E k \in 1 .. Len(out[j].of) : out[j].of[k] = x
      /\ \A i, j \in 1 .. n : \A k \in 1 .. Len(out[i].of), l \in 1 .. Len(out[j].of) :
            i < j \/ (i = j /\ k < l) => out[i].of[k] < out[j].of[l]
  BY <1>0, TellsIs DEF n
<1>3. \A j \in 1 .. n + 1 : j \in 1 .. n \/ j = n + 1
  BY <1>1
<1>4. \A j \in 1 .. n + 1 : more[j].of \in Seq(Nat)
  <2> SUFFICES ASSUME NEW j \in 1 .. n + 1 PROVE more[j].of \in Seq(Nat)
    OBVIOUS
  <2>1. CASE j \in 1 .. n
    BY <1>0, <1>1, <2>1 DEF n
  <2>2. CASE j = n + 1
    BY <1>0, <1>1, <2>2
  <2>3. QED
    BY <1>3, <2>1, <2>2
<1>5. ASSUME NEW j \in 1 .. n + 1, NEW k \in 1 .. Len(more[j].of) PROVE more[j].of[k] \in said \cup new
  <2>1. CASE j \in 1 .. n
    BY <1>1, <1>2, <2>1
  <2>2. CASE j = n + 1
    BY <1>1, <2>2
  <2>3. QED
    BY <1>3, <2>1, <2>2
<1>6. ASSUME NEW x \in said \cup new
      PROVE  \E j \in 1 .. n + 1 : \E k \in 1 .. Len(more[j].of) : more[j].of[k] = x
  <2>1. CASE x \in said
    <3>1. PICK j \in 1 .. n : \E k \in 1 .. Len(out[j].of) : out[j].of[k] = x
      BY <1>2, <2>1
    <3>2. j \in 1 .. n + 1 /\ more[j] = out[j]
      BY <1>1
    <3>3. QED
      BY <3>1, <3>2
  <2>2. CASE x \in new
    <3>1. n + 1 \in 1 .. n + 1
      BY <1>1
    <3>2. QED
      BY <1>1, <2>2, <3>1
  <2>3. QED
    BY <2>1, <2>2
<1>7. ASSUME NEW i \in 1 .. n + 1, NEW j \in 1 .. n + 1, NEW k \in 1 .. Len(more[i].of),
             NEW l \in 1 .. Len(more[j].of), i < j \/ (i = j /\ k < l)
      PROVE  more[i].of[k] < more[j].of[l]
  <2>1. CASE i \in 1 .. n /\ j \in 1 .. n
    BY <1>1, <1>2, <1>7, <2>1
  <2>2. CASE i \in 1 .. n /\ j = n + 1
    <3>1. more[i].of[k] \in said
      BY <1>1, <1>2, <2>2
    <3>2. more[j].of = s.of
      BY <1>1, <2>2
    <3>3. QED
      BY <3>1, <3>2
  <2>3. CASE i = n + 1
    <3>1. j = n + 1 /\ k < l
      BY <1>1, <1>7, <2>3
    <3>2. more[i].of = s.of /\ more[j].of = s.of
      BY <1>1, <2>3, <3>1
    <3>3. QED
      BY <3>1, <3>2 DEF Increasing
  <2>4. QED
    BY <1>3, <2>1, <2>2, <2>3
<1>8. Text!Tells(more, said \cup new)
  <2> HIDE DEF new
  <2>1. /\ \A j \in 1 .. Len(more) : more[j].of \in Seq(Nat)
        /\ \A j \in 1 .. Len(more) : \A k \in 1 .. Len(more[j].of) : more[j].of[k] \in said \cup new
        /\ \A x \in said \cup new :
              \E j \in 1 .. Len(more) : \E k \in 1 .. Len(more[j].of) : more[j].of[k] = x
        /\ \A i, j \in 1 .. Len(more) : \A k \in 1 .. Len(more[i].of), l \in 1 .. Len(more[j].of) :
              i < j \/ (i = j /\ k < l) => more[i].of[k] < more[j].of[l]
    BY <1>1, <1>4, <1>5, <1>6, <1>7
  <2>2. QED
    BY <1>1, <2>1, TellsIs
<1>9. QED
  BY <1>8 DEF more, new

\* The last segment tells a place more.
LEMMA TellsExtend ==
    ASSUME NEW out \in Seq(TextSegments), NEW said, Text!Tells(out, said), NEW n \in Nat, Len(out) = n, n > 0,
           NEW more \in Seq(TextSegments), Len(more) = n, NEW p \in Nat, \A x \in said : x < p,
           \A j \in 1 .. n : more[j].of = IF j = n THEN Append(out[n].of, p) ELSE out[j].of
    PROVE  Text!Tells(more, said \cup {p})
<1>0. \A j \in 1 .. n : out[j].of \in Seq(Nat)
  BY SegmentsTell
<1> DEFINE m == Len(out[n].of)
           last == more[n].of
<1>1. n \in 1 .. n /\ out[n].of \in Seq(Nat) /\ \A j \in 1 .. n : j # n => more[j].of = out[j].of
  BY <1>0
<1>2. /\ m \in Nat /\ last \in Seq(Nat) /\ Len(last) = m + 1 /\ last[m + 1] = p
      /\ \A k \in 1 .. m : last[k] = out[n].of[k]
  <2>1. last = Append(out[n].of, p)
    BY <1>1
  <2>2. QED
    BY <1>1, <2>1
<1> HIDE DEF m, last
<1>3. /\ \A j \in 1 .. n : \A k \in 1 .. Len(out[j].of) : out[j].of[k] \in said
      /\ \A x \in said : \E j \in 1 .. n : \E k \in 1 .. Len(out[j].of) : out[j].of[k] = x
      /\ \A i, j \in 1 .. n : \A k \in 1 .. Len(out[i].of), l \in 1 .. Len(out[j].of) :
            i < j \/ (i = j /\ k < l) => out[i].of[k] < out[j].of[l]
  <2>1. /\ \A j \in 1 .. Len(out) : \A k \in 1 .. Len(out[j].of) : out[j].of[k] \in said
        /\ \A x \in said : \E j \in 1 .. Len(out) : \E k \in 1 .. Len(out[j].of) : out[j].of[k] = x
        /\ \A i, j \in 1 .. Len(out) : \A k \in 1 .. Len(out[i].of), l \in 1 .. Len(out[j].of) :
              i < j \/ (i = j /\ k < l) => out[i].of[k] < out[j].of[l]
    BY SegmentsTell, TellsIs
  <2>2. QED
    BY <2>1
<1>4. \A j \in 1 .. n : more[j].of \in Seq(Nat)
  BY <1>0, <1>1, <1>2 DEF last
<1>5. \A k \in 1 .. m + 1 : k \in 1 .. m \/ k = m + 1
  BY <1>2
<1>6. ASSUME NEW j \in 1 .. n, NEW k \in 1 .. Len(more[j].of)
      PROVE  \/ k \in 1 .. Len(out[j].of) /\ more[j].of[k] = out[j].of[k]
             \/ j = n /\ k = m + 1 /\ more[j].of[k] = p
  <2>1. CASE j # n
    BY <1>1, <2>1
  <2>2. CASE j = n
    BY <1>2, <1>5, <2>2 DEF last, m
  <2>3. QED
    BY <2>1, <2>2
<1>7. ASSUME NEW j \in 1 .. n, NEW k \in 1 .. Len(more[j].of) PROVE more[j].of[k] \in said \cup {p}
  BY <1>3, <1>6
<1>8. ASSUME NEW x \in said \cup {p}
      PROVE  \E j \in 1 .. n : \E k \in 1 .. Len(more[j].of) : more[j].of[k] = x
  <2>1. CASE x \in said
    <3>0. PICK j \in 1 .. n : \E k \in 1 .. Len(out[j].of) : out[j].of[k] = x
      BY <1>3, <2>1
    <3>1. PICK k \in 1 .. Len(out[j].of) : out[j].of[k] = x
      BY <3>0
    <3>2. CASE j # n
      BY <1>1, <3>1, <3>2
    <3>3. CASE j = n
      <4>1. k \in 1 .. m + 1 /\ k \in 1 .. m
        BY <1>2, <3>3 DEF m
      <4>2. last[k] = x
        BY <1>2, <3>1, <3>3, <4>1
      <4>3. QED
        BY <1>2, <3>3, <4>1, <4>2 DEF last
    <3>4. QED
      BY <3>2, <3>3
  <2>2. CASE x = p
    <3>1. m + 1 \in 1 .. Len(more[n].of) /\ more[n].of[m + 1] = x
      BY <1>2, <2>2 DEF last
    <3>2. QED
      BY <1>1, <3>1
  <2>3. QED
    BY <2>1, <2>2
<1>9. ASSUME NEW i \in 1 .. n, NEW j \in 1 .. n, NEW k \in 1 .. Len(more[i].of),
             NEW l \in 1 .. Len(more[j].of), i < j \/ (i = j /\ k < l)
      PROVE  more[i].of[k] < more[j].of[l]
  <2>1. CASE i = n /\ k = m + 1
    <3>1. j = n
      BY <1>9, <2>1
    <3>2. l \in 1 .. m + 1 /\ k < l
      BY <1>2, <1>9, <2>1, <3>1 DEF last
    <3>3. QED
      BY <1>2, <2>1, <3>2
  <2>2. CASE k \in 1 .. Len(out[i].of) /\ more[i].of[k] = out[i].of[k]
    <3>1. more[i].of[k] \in said
      BY <1>3, <2>2
    <3>2. CASE j = n /\ l = m + 1 /\ more[j].of[l] = p
      BY <3>1, <3>2
    <3>3. CASE l \in 1 .. Len(out[j].of) /\ more[j].of[l] = out[j].of[l]
      BY <1>3, <1>9, <2>2, <3>3
    <3>4. QED
      BY <1>6, <3>2, <3>3
  <2>3. QED
    BY <1>6, <2>1, <2>2
<1>10. QED
  BY <1>4, <1>7, <1>8, <1>9, TellsIs, ZenonT(40)

\* Nothing tells nothing.
LEMMA TellsNothing == Text!Tells(<<>>, {})
<1>1. DOMAIN <<>> = {}
  OBVIOUS
<1>2. QED
  BY <1>1 DEF Text!Tells

\* What whisper says, and the adaptation of it.
RawSegments == [start : Nat, end : Nat, said : BOOLEAN]
Taking == [result : {"ok", "segment_timestamp_reversed", "segment_overlap"}, out : Seq(TextSegments),
           lead : Seq(Nat)]

\* The last segment takes a place more.
LastTakes(more, out, n, i) == more = [out EXCEPT ![n].of = Append(@, i)]

\* It is of the same kind then.
LEMMA LastExtended ==
    ASSUME NEW out \in Seq(TextSegments), NEW n \in Nat, Len(out) = n, n > 0, NEW i \in Nat,
           NEW more, LastTakes(more, out, n, i)
    PROVE  /\ more \in Seq(TextSegments) /\ Len(more) = n
           /\ \A j \in 1 .. n : more[j].of = IF j = n THEN Append(out[n].of, i) ELSE out[j].of
<1> DEFINE last == out[n]
           new == [last EXCEPT !.of = Append(@, i)]
<1>1. n \in 1 .. n /\ last \in TextSegments /\ DOMAIN out = 1 .. n
  OBVIOUS
<1>2. last.of \in Seq(Nat) /\ new = [last EXCEPT !.of = Append(last.of, i)]
  BY <1>1 DEF TextSegments
<1>3. new \in TextSegments /\ new.of = Append(last.of, i)
  <2>1. Append(last.of, i) \in Seq(Nat)
    BY <1>2
  <2>2. QED
    BY <1>1, <1>2, <2>1 DEF TextSegments
<1>4. more = [out EXCEPT ![n] = new]
  BY DEF LastTakes
<1> HIDE DEF new
<1>5. more \in Seq(TextSegments) /\ Len(more) = n /\ \A j \in 1 .. n : more[j] = IF j = n THEN new ELSE out[j]
  BY <1>1, <1>3, <1>4
<1>6. \A j \in 1 .. n : more[j].of = IF j = n THEN Append(out[n].of, i) ELSE out[j].of
  BY <1>3, <1>5 DEF last
<1>7. QED
  BY <1>5, <1>6

\* What is taken is of the same kind.
LEMMA TakeTypes ==
    ASSUME Declared \in Nat, NEW a \in Taking, NEW i \in Nat, NEW s \in RawSegments
    PROVE  Text!Take(a, i, s) \in Taking
<1> DEFINE end == Text!Least(s.end, Declared)
<1>1. s.start \in Nat /\ end \in Nat
  BY DEF Text!Least, RawSegments
<1>2. a.out \in Seq(TextSegments) /\ a.lead \in Seq(Nat) /\ Append(a.lead, i) \in Seq(Nat)
  <2>1. a.out \in Seq(TextSegments) /\ a.lead \in Seq(Nat)
    BY DEF Taking
  <2>2. QED
    BY <2>1
<1> HIDE DEF end
<1>3. Text!WithoutDuration(a, i, s, end) \in Taking
  <2>1. CASE a.out = <<>>
    BY <1>2, <2>1 DEF Text!WithoutDuration, Taking
  <2>2. CASE a.out # <<>>
    <3> DEFINE n == Len(a.out)
               more == [a.out EXCEPT ![n].of = Append(@, i)]
    <3>1. n \in Nat /\ n # 0
      BY <1>2, <2>2, EmptySeq
    <3>2. more \in Seq(TextSegments)
      <4>0. LastTakes(more, a.out, n, i)
        BY DEF LastTakes
      <4>1. n \in Nat /\ n > 0
        BY <3>1
      <4>2. Len(a.out) = n
        OBVIOUS
      <4> HIDE DEF n, more
      <4>3. QED
        BY <1>2, <4>0, <4>1, <4>2, LastExtended
    <3>3. Text!WithoutDuration(a, i, s, end) = [a EXCEPT !.out = more]
      BY <2>2 DEF Text!WithoutDuration, Taking
    <3> HIDE DEF more
    <3>4. QED
      BY <3>2, <3>3 DEF Taking
  <2>3. QED
    BY <2>1, <2>2
<1>4. Text!WithDuration(a, i, s, end) \in Taking
  <2> DEFINE new == [start |-> s.start, end |-> end, of |-> Append(a.lead, i), who |-> 0]
  <2>1. new \in TextSegments
    BY <1>1, <1>2 DEF TextSegments
  <2>2. Text!WithDuration(a, i, s, end) = [a EXCEPT !.out = Append(a.out, new), !.lead = <<>>]
    BY DEF Text!WithDuration, Taking
  <2> HIDE DEF new
  <2>3. Append(a.out, new) \in Seq(TextSegments) /\ <<>> \in Seq(Nat)
    BY <1>2, <2>1
  <2>4. QED
    BY <2>2, <2>3 DEF Taking
<1>5. /\ [a EXCEPT !.result = "segment_timestamp_reversed"] \in Taking
      /\ [a EXCEPT !.result = "segment_overlap"] \in Taking
  BY DEF Taking
<1>6. QED
  BY <1>3, <1>4, <1>5 DEF Text!Take, end

\* The segments of whisper are taken one by one.
LEMMA TakeLoop ==
    ASSUME Declared \in Nat, NEW raw \in Seq(RawSegments)
    PROVE  \E f \in [0 .. Len(raw) -> Taking] :
              /\ Text!Adapted(raw) = (IF f[Len(raw)].result = "ok" /\ ~Text!IsValid(f[Len(raw)].out, Declared) THEN Text!Failed("invalid_response") ELSE f[Len(raw)])
              /\ f[0] = [result |-> "ok", out |-> <<>>, lead |-> <<>>]
              /\ \A n \in 1 .. Len(raw) : f[n] = Text!Take(f[n - 1], n, raw[n])
<1> DEFINE m == Len(raw)
           D == Taking
           a == [result |-> "ok", out |-> <<>>, lead |-> <<>>]
           S == [n \in 1 .. m |-> [x \in D |-> Text!Take(x, n, raw[n])]]
           Is(f) == f = [n \in 0 .. m |-> IF n = 0 THEN a ELSE Text!Take(f[n - 1], n, raw[n])]
           after == CHOOSE f : Is(f)
<1>m. m \in Nat
  OBVIOUS
<1>a. a \in D
  BY DEF Taking
<1>0. \A n \in 1 .. m, x \in D : Text!Take(x, n, raw[n]) \in D
  <2> SUFFICES ASSUME NEW n \in 1 .. m, NEW x \in D PROVE Text!Take(x, n, raw[n]) \in D
    OBVIOUS
  <2>1. n \in Nat /\ raw[n] \in RawSegments
    OBVIOUS
  <2>2. QED
    BY <2>1, TakeTypes
<1>1. S \in [1 .. m -> [D -> D]]
  <2> HIDE DEF D, m
  <2>1. QED
    BY <1>0
<1>2. PICK f : IsRun(f, D, a, m, S)
  <2> HIDE DEF S, m, a, D
  <2>1. QED
    BY <1>1, <1>m, <1>a, LoopExists
<1>b. f \in [0 .. m -> D] /\ f[0] = a
  BY <1>2 DEF IsRun
<1>3. \A n \in 1 .. m : f[n - 1] \in D /\ f[n] = Text!Take(f[n - 1], n, raw[n])
  <2> HIDE DEF m, a, D
  <2>1. \A n \in 1 .. m : n - 1 \in 0 .. m
    BY <1>m
  <2>2. \A n \in 1 .. m, x \in D : S[n][x] = Text!Take(x, n, raw[n])
    OBVIOUS
  <2> HIDE DEF S
  <2>3. QED
    BY <1>2, <1>b, <2>1, <2>2 DEF IsRun
<1>4. Is(f)
  <2> DEFINE h == [n \in 0 .. m |-> IF n = 0 THEN a ELSE Text!Take(f[n - 1], n, raw[n])]
  <2> HIDE DEF S, m, a, D
  <2>1. \A n \in 0 .. m : n # 0 => n \in 1 .. m
    BY <1>m
  <2>2. ASSUME NEW n \in 0 .. m PROVE f[n] = h[n]
    BY <1>b, <1>3, <2>1
  <2>3. f = [n \in 0 .. m |-> f[n]] /\ h = [n \in 0 .. m |-> h[n]]
    BY <1>b
  <2> HIDE DEF h
  <2>4. f = h
    BY <2>2, <2>3
  <2>5. QED
    BY <2>4 DEF h
<1>5. Is(after)
  BY <1>4
<1>6. Text!Adapted(raw) = (IF after[m].result = "ok" /\ ~Text!IsValid(after[m].out, Declared) THEN Text!Failed("invalid_response") ELSE after[m])
  BY DEF Text!Adapted
<1> DEFINE g == [n \in 0 .. m |-> IF n = 0 THEN a ELSE Text!Take(after[n - 1], n, raw[n])]
<1>7. after = g
  BY <1>5
<1> HIDE DEF after, a, m, S
<1>8. /\ g \in [0 .. m -> {g[n] : n \in 0 .. m}] /\ g[0] = a
      /\ \A n \in 1 .. m : g[n] = Text!Take(after[n - 1], n, raw[n])
  <2>1. 0 \in 0 .. m /\ \A n \in 1 .. m : n \in 0 .. m /\ n # 0
    BY <1>m
  <2>2. QED
    BY <2>1
<1> HIDE DEF g
<1>9. after[0] = a /\ \A n \in 1 .. m : after[n] = Text!Take(after[n - 1], n, raw[n])
  BY <1>7, <1>8
<1> DEFINE T == {n \in Nat : n <= m => after[n] \in D}
<1>10. \A n \in 0 .. m : after[n] \in D
  <2> HIDE DEF D
  <2>1. 0 \in T
    BY <1>9, <1>a
  <2>2. ASSUME NEW n \in Nat, n \in T PROVE n + 1 \in T
    <3> SUFFICES ASSUME n + 1 <= m PROVE after[n + 1] \in D
      OBVIOUS
    <3>1. after[n] \in D /\ n + 1 \in 1 .. m /\ (n + 1) - 1 = n
      BY <1>m, <2>2
    <3>2. after[n + 1] = Text!Take(after[n], (n + 1), raw[(n + 1)])
      BY <1>9, <3>1
    <3>3. QED
      BY <1>0, <3>1, <3>2
  <2>3. Nat \subseteq T
    <3> HIDE DEF T
    <3>1. QED
      BY <2>1, <2>2, Counting
  <2>4. QED
    BY <1>m, <2>3
<1>11. after \in [0 .. m -> D]
  BY <1>7, <1>8, <1>10
<1> HIDE DEF D
<1>12. QED
  BY <1>6, <1>9, <1>11 DEF a, m, D

\* A greater place at the end keeps the order.
LEMMA IncreasingMore ==
    ASSUME NEW s \in Seq(Nat), Increasing(s), NEW i \in Nat, \A k \in 1 .. Len(s) : s[k] < i
    PROVE  /\ Append(s, i) \in Seq(Nat) /\ Increasing(Append(s, i))
           /\ {Append(s, i)[k] : k \in 1 .. Len(Append(s, i))} = {s[k] : k \in 1 .. Len(s)} \cup {i}
<1> DEFINE m == Len(s)
           v == Append(s, i)
<1>1. /\ m \in Nat /\ v \in Seq(Nat) /\ Len(v) = m + 1
      /\ v[m + 1] = i /\ \A k \in 1 .. m : v[k] = s[k]
  OBVIOUS
<1> HIDE DEF v, m
<1>2. \A k \in 1 .. m + 1 : k \in 1 .. m \/ k = m + 1
  BY <1>1
<1>3. Increasing(v)
  <2> SUFFICES ASSUME NEW k \in 1 .. m + 1, NEW l \in 1 .. m + 1, k < l PROVE v[k] < v[l]
    BY <1>1 DEF Increasing
  <2>1. k \in 1 .. m
    BY <1>1
  <2>2. CASE l \in 1 .. m
    BY <1>1, <2>1, <2>2 DEF Increasing, m
  <2>3. CASE l = m + 1
    BY <1>1, <2>1, <2>3 DEF m
  <2>4. QED
    BY <1>2, <2>2, <2>3
<1>4. {v[k] : k \in 1 .. m + 1} = {s[k] : k \in 1 .. m} \cup {i}
  <2>1. m + 1 \in 1 .. m + 1 /\ \A k \in 1 .. m : k \in 1 .. m + 1
    BY <1>1
  <2>2. QED
    BY <1>1, <1>2, <2>1
<1>5. QED
  BY <1>1, <1>3, <1>4 DEF v, m

\* What was said among the first n segments, and that it is told or waits for a segment.
Said(raw, n) == {i \in 1 .. n : raw[i].said /\ raw[i].start < Declared}

IsTaken(a, raw, n) ==
    a.result = "ok" =>
        IF a.out = <<>> THEN Increasing(a.lead) /\ Said(raw, n) = {a.lead[k] : k \in 1 .. Len(a.lead)}
        ELSE a.lead = <<>> /\ Text!Tells(a.out, Said(raw, n))

\* A segment more.
LEMMA TakeMore ==
    ASSUME Declared \in Nat, NEW raw \in Seq(RawSegments), NEW n \in Nat,
           n + 1 \in 1 .. Len(raw), NEW a \in Taking, IsTaken(a, raw, n)
    PROVE  IsTaken(Text!Take(a, n + 1, raw[n + 1]), raw, n + 1)
<1> DEFINE i == n + 1
           s == raw[i]
           end == Text!Least(s.end, Declared)
           told == Said(raw, n)
<1>0. s \in RawSegments /\ i \in Nat
  BY ElementOfSeq
<1>1. s.start \in Nat /\ end \in Nat
  BY <1>0 DEF Text!Least, RawSegments
<1>2. a.out \in Seq(TextSegments) /\ a.lead \in Seq(Nat) /\ \A j \in 1 .. Len(a.out) : a.out[j].of \in Seq(Nat)
  <2>1. a.out \in Seq(TextSegments) /\ a.lead \in Seq(Nat)
    BY DEF Taking
  <2>2. QED
    BY <2>1, SegmentsTell
<1>3. /\ \A x \in told : x \in Nat /\ x < i
      /\ Said(raw, i) = IF s.said /\ s.start < Declared THEN told \cup {i} ELSE told
  <2>1. \A x : x \in 1 .. i <=> x \in 1 .. n \/ x = i
    OBVIOUS
  <2>2. \A x : x \in 1 .. n => x \in Nat /\ x < i
    OBVIOUS
  <2> HIDE DEF i
  <2>3. QED
    BY <2>1, <2>2 DEF Said
<1> HIDE DEF i, s, end
<1> DEFINE b == Text!Take(a, i, s)
<1> SUFFICES ASSUME b.result = "ok"
             PROVE  IF b.out = <<>> THEN Increasing(b.lead) /\ Said(raw, i) = {b.lead[k] : k \in 1 .. Len(b.lead)}
                    ELSE b.lead = <<>> /\ Text!Tells(b.out, Said(raw, i))
  BY DEF IsTaken, i, s
<1>4. CASE a.result # "ok" \/ ~s.said \/ s.start >= Declared
  <2>1. b = a
    BY <1>4 DEF Text!Take
  <2>2. a.result = "ok" /\ ~(s.said /\ s.start < Declared)
    BY <1>1, <1>4, <2>1
  <2>3. Said(raw, i) = told
    BY <1>3, <2>2
  <2>4. QED
    BY <2>1, <2>2, <2>3 DEF IsTaken
<1>5. CASE ~(a.result # "ok" \/ ~s.said \/ s.start >= Declared)
  <2>1. a.result = "ok" /\ s.said /\ s.start < Declared
    BY <1>1, <1>5
  <2>2. Said(raw, i) = told \cup {i}
    BY <1>3, <2>1
  <2>3. IF a.out = <<>> THEN Increasing(a.lead) /\ told = {a.lead[k] : k \in 1 .. Len(a.lead)}
        ELSE a.lead = <<>> /\ Text!Tells(a.out, told)
    BY <2>1 DEF IsTaken
  <2> HIDE DEF told
  <2>4. a.out = <<>> => \A k \in 1 .. Len(a.lead) : a.lead[k] < i
    BY <1>3, <2>3
  <2>5. CASE s.start = end
    <3>1. b = Text!WithoutDuration(a, i, s, end)
      BY <1>5, <2>5 DEF Text!Take, end
    <3>2. CASE a.out = <<>>
      <4>1. b.out = <<>> /\ b.lead = Append(a.lead, i)
        BY <3>1, <3>2 DEF Text!WithoutDuration, Taking
      <4>2. /\ Increasing(Append(a.lead, i))
            /\ {Append(a.lead, i)[k] : k \in 1 .. Len(Append(a.lead, i))}
                 = {a.lead[k] : k \in 1 .. Len(a.lead)} \cup {i}
        BY <1>0, <1>2, <2>3, <2>4, <3>2, IncreasingMore DEF i
      <4> HIDE DEF b
      <4>3. QED
        BY <2>2, <2>3, <3>2, <4>1, <4>2
    <3>3. CASE a.out # <<>>
      <4> DEFINE m == Len(a.out)
                 more == [a.out EXCEPT ![m].of = Append(@, i)]
      <4>1. m \in Nat /\ m > 0
        <5>1. m \in Nat /\ m # 0
          BY <1>2, <3>3, EmptySeq
        <5>2. QED
          BY <5>1
      <4>2. b = [a EXCEPT !.out = more]
        BY <3>1, <3>3 DEF Text!WithoutDuration, Taking
      <4>3. Len(a.out) = m /\ i \in Nat /\ LastTakes(more, a.out, m, i)
        BY <1>0 DEF i, LastTakes
      <4> HIDE DEF m, more
      <4>4. /\ more \in Seq(TextSegments) /\ Len(more) = m
            /\ \A j \in 1 .. m : more[j].of = IF j = m THEN Append(a.out[m].of, i) ELSE a.out[j].of
        BY <1>2, <4>1, <4>3, LastExtended
      <4>5. Text!Tells(more, told \cup {i})
        <5>1. \A x \in told : x < i
          BY <1>3 DEF told
        <5>2. Text!Tells(a.out, told)
          BY <2>3, <3>3
        <5>3. QED
          BY <1>2, <4>1, <4>3, <4>4, <5>1, <5>2, TellsExtend
      <4>6. b.out = more /\ b.lead = <<>>
        BY <2>3, <3>3, <4>2 DEF Taking
      <4>7. more # <<>>
        <5>1. Len(more) # 0
          BY <4>1, <4>4
        <5>2. QED
          BY <4>4, <5>1, EmptySeq
      <4> HIDE DEF b
      <4>8. QED
        BY <2>2, <4>5, <4>6, <4>7
    <3>4. QED
      BY <3>2, <3>3
  <2>6. CASE s.start # end
    <3>1. b = Text!WithDuration(a, i, s, end)
      <4>1. b.result \notin {"segment_timestamp_reversed", "segment_overlap"}
        OBVIOUS
      <4>2. /\ [a EXCEPT !.result = "segment_timestamp_reversed"].result = "segment_timestamp_reversed"
            /\ [a EXCEPT !.result = "segment_overlap"].result = "segment_overlap"
        BY DEF Taking
      <4>3. QED
        BY <1>5, <2>6, <4>1, <4>2 DEF Text!Take, end
    <3> DEFINE of == Append(a.lead, i)
               new == [start |-> s.start, end |-> end, of |-> of, who |-> 0]
    <3>2. b.out = Append(a.out, new) /\ b.lead = <<>>
      BY <3>1 DEF Text!WithDuration, Taking
    <3>3. /\ of \in Seq(Nat) /\ Increasing(of)
          /\ {of[k] : k \in 1 .. Len(of)} = {a.lead[k] : k \in 1 .. Len(a.lead)} \cup {i}
      <4>1. Increasing(a.lead) /\ \A k \in 1 .. Len(a.lead) : a.lead[k] < i
        <5>1. CASE a.out = <<>>
          BY <2>3, <2>4, <5>1
        <5>2. CASE a.out # <<>>
          <6>1. a.lead = <<>> /\ Len(<<>>) = 0 /\ 1 .. 0 = {}
            BY <2>3, <5>2
          <6>2. QED
            BY <6>1 DEF Increasing
        <5>3. QED
          BY <5>1, <5>2
      <4>2. i \in Nat
        BY <1>0 DEF i
      <4>3. QED
        BY <1>2, <4>1, <4>2, IncreasingMore
    <3> HIDE DEF of
    <3>4. new \in TextSegments /\ new.of = of /\ Increasing(new.of)
      <4>1. s.start \in Nat /\ end \in Nat
        BY <1>1 DEF end
      <4>2. QED
        BY <3>3, <4>1 DEF TextSegments
    <3> HIDE DEF new
    <3>5. Text!Tells(b.out, told \cup {i})
      <4>1. CASE a.out = <<>>
        <5>1. Text!Tells(a.out, {})
          BY <4>1, TellsNothing
        <5>2. Text!Tells(Append(a.out, new), {} \cup {new.of[k] : k \in 1 .. Len(new.of)})
          BY <1>2, <3>4, <5>1, TellsAppend
        <5>3. {} \cup {new.of[k] : k \in 1 .. Len(new.of)} = told \cup {i}
          BY <2>3, <3>3, <3>4, <4>1, ZenonT(40)
        <5>4. QED
          BY <3>2, <5>2, <5>3
      <4>2. CASE a.out # <<>>
        <5>1. Text!Tells(a.out, told) /\ a.lead = <<>>
          BY <2>3, <4>2
        <5>2. {of[k] : k \in 1 .. Len(of)} = {i}
          <6>1. Len(<<>>) = 0 /\ 1 .. 0 = {}
            OBVIOUS
          <6>2. {a.lead[k] : k \in 1 .. Len(a.lead)} = {}
            BY <5>1, <6>1
          <6>3. QED
            BY <3>3, <6>2
        <5>3. \A x \in told, k \in 1 .. Len(new.of) : x < new.of[k]
          <6>1. \A k \in 1 .. Len(of) : of[k] = i
            BY <5>2
          <6>2. QED
            BY <1>3, <3>4, <6>1 DEF told
        <5>4. Text!Tells(Append(a.out, new), told \cup {new.of[k] : k \in 1 .. Len(new.of)})
          BY <1>2, <3>4, <5>1, <5>3, TellsAppend
        <5>5. QED
          BY <3>2, <3>4, <5>2, <5>4
      <4>3. QED
        BY <4>1, <4>2
    <3>6. b.out # <<>>
      <4>1. Append(a.out, new) # <<>>
        <5>1. \A x \in Seq(TextSegments), y \in TextSegments : Append(x, y) # <<>>
          OBVIOUS
        <5>2. QED
          BY <1>2, <3>4, <5>1
      <4>2. QED
        BY <3>2, <4>1
    <3> HIDE DEF b
    <3>7. QED
      BY <2>2, <3>2, <3>5, <3>6
  <2>7. QED
    BY <2>5, <2>6
<1>6. QED
  BY <1>4, <1>5

\* An adaptation that does not fail tells what was said.
LEMMA AdaptedTells ==
    ASSUME Declared \in Nat, NEW raw \in Seq(RawSegments), Text!Adapted(raw).result = "ok"
    PROVE  /\ Text!Adapted(raw).out \in Seq(TextSegments)
           /\ Text!Tells(Text!Adapted(raw).out, Said(raw, Len(raw)))
<1> DEFINE m == Len(raw)
<1>m. m \in Nat
  OBVIOUS
<1>1. PICK f \in [0 .. m -> Taking] :
        /\ Text!Adapted(raw) = (IF f[m].result = "ok" /\ ~Text!IsValid(f[m].out, Declared)
                                THEN Text!Failed("invalid_response") ELSE f[m])
        /\ f[0] = [result |-> "ok", out |-> <<>>, lead |-> <<>>]
        /\ \A n \in 1 .. m : f[n] = Text!Take(f[n - 1], n, raw[n])
  BY TakeLoop
<1> DEFINE T == {n \in Nat : n <= m => IsTaken(f[n], raw, n)}
<1>2. 0 \in T
  <2>1. f[0].out = <<>> /\ f[0].lead = <<>>
    BY <1>1
  <2>2. Len(<<>>) = 0 /\ 1 .. 0 = {}
    OBVIOUS
  <2>3. IsTaken(f[0], raw, 0)
    BY <2>1, <2>2 DEF IsTaken, Increasing, Said
  <2>4. QED
    BY <2>3
<1>3. ASSUME NEW n \in Nat, n \in T PROVE n + 1 \in T
  <2> SUFFICES ASSUME n + 1 <= m PROVE IsTaken(f[n + 1], raw, n + 1)
    OBVIOUS
  <2>1. n \in 0 .. m /\ n + 1 \in 1 .. m /\ (n + 1) - 1 = n
    BY <1>m
  <2>2. f[n] \in Taking /\ IsTaken(f[n], raw, n)
    BY <1>1, <1>3, <2>1
  <2>3. f[n + 1] = Text!Take(f[n], n + 1, raw[n + 1])
    BY <1>1, <2>1
  <2>4. n + 1 \in 1 .. Len(raw)
    BY <2>1
  <2>5. IsTaken(Text!Take(f[n], n + 1, raw[n + 1]), raw, n + 1)
    BY <2>2, <2>4, TakeMore
  <2>6. QED
    BY <2>3, <2>5
<1>4. Nat \subseteq T
  <2> HIDE DEF T
  <2>1. QED
    BY <1>2, <1>3, Counting
<1>5. f[m] \in Taking /\ IsTaken(f[m], raw, m)
  BY <1>m, <1>4
<1> HIDE DEF m
<1>6. Text!Adapted(raw) = f[m] /\ f[m].result = "ok" /\ Text!IsValid(f[m].out, Declared)
  <2>1. Text!Failed("invalid_response").result # "ok"
    BY DEF Text!Failed
  <2>2. QED
    BY <1>1, <2>1
<1>7. f[m].out # <<>>
  BY <1>6 DEF Text!IsValid
<1>8. QED
  BY <1>5, <1>6, <1>7 DEF IsTaken, Taking, m

\* Segments tell the same whoever says them.
LEMMA MergedTells ==
    ASSUME NEW segments \in Seq(TextSegments), NEW track, NEW said, Text!Tells(segments, said)
    PROVE  Text!Tells(Text!MergeDiarization(segments, track), said)
<1> DEFINE merged == Text!MergeDiarization(segments, track)
<1>1. /\ DOMAIN merged = DOMAIN segments
      /\ \A i \in DOMAIN segments : merged[i].of = segments[i].of
  <2>1. \A i \in DOMAIN segments : segments[i] \in TextSegments
    OBVIOUS
  <2>2. \A s \in TextSegments : \A who : [s EXCEPT !.who = who].of = s.of
    BY DEF TextSegments
  <2>3. QED
    BY <2>1, <2>2 DEF Text!MergeDiarization
<1> HIDE DEF merged
<1>2. {Text!ToSet(merged[i].of) : i \in DOMAIN merged} = {Text!ToSet(segments[i].of) : i \in DOMAIN segments}
  BY <1>1
<1>3. Text!Tells(merged, said)
  BY <1>1, <1>2 DEF Text!Tells
<1>4. QED
  BY <1>3 DEF merged

------------------------
(* The words of Qwen: as many after they are given speakers as before. *)

\* Words, and the intervals of a diarization.
QwenWords == [start : Nat, end : Nat, lexical : BOOLEAN, range : Nat, who : Nat]
TextIntervals == [start : Nat, end : Nat, who : Nat, sure : BOOLEAN]

\* A run around a place begins up to it and ends from it on.
LEMMA AroundIs ==
    ASSUME NEW test \in Seq(BOOLEAN), NEW p \in 1 .. Len(test), test[p]
    PROVE  Text!Around(p, test)[1] \in 1 .. p /\ Text!Around(p, test)[2] \in p .. Len(test)
<1> DEFINE m == Len(test)
           A == {a \in 1 .. p : \A q \in a .. p : test[q]}
           B == {b \in p .. m : \A q \in p .. b : test[q]}
<1>1. m \in Nat /\ p \in Nat /\ p >= 1 /\ p <= m
  OBVIOUS
<1>2. \A q \in p .. p : test[q]
  BY <1>1
<1> HIDE DEF m
<1>3. p \in A /\ p \in B
  BY <1>1, <1>2
<1>4. Text!Min(A) \in A
  <2>1. A \subseteq 1 .. p
    OBVIOUS
  <2> HIDE DEF A, B
  <2>2. A \subseteq Nat /\ A # {}
    BY <1>3, <2>1
  <2>3. QED
    BY <2>2, LeastOf
<1>5. Text!Max(B) \in B
  <2>1. B \subseteq p .. m
    OBVIOUS
  <2> HIDE DEF A, B
  <2>2. B \subseteq Nat /\ B # {} /\ \A x \in B : x <= m
    BY <1>1, <1>3, <2>1
  <2>3. QED
    BY <1>1, <2>2, GreatestOf
<1>6. Text!Around(p, test) = <<Text!Min(A), Text!Max(B)>>
  BY DEF Text!Around, m
<1>7. QED
  BY <1>4, <1>5, <1>6 DEF m

\* A part of a time is a time.
LEMMA SharesOf ==
    ASSUME NEW span \in Nat, NEW k \in Nat, NEW count \in Nat \ {0}
    PROVE  (span * k) \div count \in Nat /\ (span * (k + 1) + count - 1) \div count \in Nat
<1>1. span * k \in Nat /\ span * (k + 1) \in Nat
  OBVIOUS
<1>2. \A x \in Nat : x \div count \in Nat
  OBVIOUS
<1>3. \A x \in Nat : x + count - 1 \in Nat
  BY SMTT(30)
<1>4. QED
  BY <1>1, <1>2, <1>3

\* A word that is spread is a word.
LEMMA SpreadTypes ==
    ASSUME NEW words \in Seq(QwenWords), NEW lexical \in Seq(Nat),
           \A k \in 1 .. Len(lexical) : lexical[k] \in 1 .. Len(words), NEW p \in 1 .. Len(lexical)
    PROVE  Text!Spread(words, lexical, p) \in QwenWords
<1> DEFINE m == Len(lexical)
           instants == [q \in DOMAIN lexical |-> Text!Instant(words[lexical[q]])]
           run == Text!Around(p, instants)
           from == words[lexical[run[1] - 1]].end
           span == words[lexical[run[2] + 1]].start - from
           count == run[2] - run[1] + 1
           k == p - run[1]
           word == words[lexical[p]]
<1>1. m \in Nat /\ p \in Nat /\ DOMAIN lexical = 1 .. m
  OBVIOUS
<1>2. \A q \in 1 .. m : words[lexical[q]] \in QwenWords
  OBVIOUS
<1>3. word \in QwenWords
  BY <1>2
<1>4. CASE ~instants[p] \/ run[1] = 1 \/ run[2] = m \/ span <= 0
  <2>1. Text!Spread(words, lexical, p) = word
    BY <1>4 DEF Text!Spread
  <2>2. QED
    BY <1>3, <2>1, SMTT(30)
<1>5. CASE ~(~instants[p] \/ run[1] = 1 \/ run[2] = m \/ span <= 0)
  <2>1. instants \in Seq(BOOLEAN) /\ Len(instants) = m /\ instants[p]
    <3>1. \A q \in 1 .. m : Text!Instant(words[lexical[q]]) \in BOOLEAN
      BY DEF Text!Instant
    <3>2. instants \in [1 .. m -> BOOLEAN]
      BY <1>1, <3>1
    <3>3. instants[p]
      BY <1>5
    <3> HIDE DEF instants, m
    <3>4. \A f \in [1 .. m -> BOOLEAN] : f \in Seq(BOOLEAN) /\ Len(f) = m
      BY <1>1
    <3>5. QED
      BY <3>2, <3>3, <3>4
  <2> HIDE DEF instants
  <2>2. run[1] \in 1 .. p /\ run[2] \in p .. m
    BY <2>1, AroundIs
  <2> HIDE DEF run
  <2>3. run[1] - 1 \in 1 .. m /\ run[2] + 1 \in 1 .. m /\ count \in Nat \ {0} /\ k \in Nat
    <3>1. run[1] # 1 /\ run[2] # m
      BY <1>5
    <3>2. \A a \in 1 .. p, b \in p .. m :
            a # 1 /\ b # m => a - 1 \in 1 .. m /\ b + 1 \in 1 .. m /\ b - a + 1 \in Nat \ {0} /\ p - a \in Nat
      <4>1. p <= m
        OBVIOUS
      <4> HIDE DEF m
      <4>2. QED
        BY <1>1, <4>1
    <3>3. QED
      BY <2>2, <3>1, <3>2
  <2>4. from \in Nat /\ span \in Nat
    <3>1. words[lexical[run[1] - 1]] \in QwenWords /\ words[lexical[run[2] + 1]] \in QwenWords
      BY <1>2, <2>3
    <3>2. \A x \in QwenWords : x.start \in Nat /\ x.end \in Nat
      BY DEF QwenWords
    <3>3. from \in Nat /\ words[lexical[run[2] + 1]].start \in Nat
      BY <3>1, <3>2
    <3>4. ~(span <= 0)
      BY <1>5
    <3>5. \A x, y \in Nat : ~(x - y <= 0) => x - y \in Nat
      OBVIOUS
    <3>6. QED
      BY <3>3, <3>4, <3>5
  <2>5. Text!Spread(words, lexical, p) =
          [word EXCEPT !.start = from + (span * k) \div count,
                       !.end = from + (span * (k + 1) + count - 1) \div count]
    BY <1>5 DEF Text!Spread, instants, run
  <2> HIDE DEF from, span, count, k, word
  <2>6. (span * k) \div count \in Nat /\ (span * (k + 1) + count - 1) \div count \in Nat
    BY <2>3, <2>4, SharesOf
  <2>7. from + (span * k) \div count \in Nat /\ from + (span * (k + 1) + count - 1) \div count \in Nat
    BY <2>4, <2>6, SMTT(30)
  <2>8. \A w \in QwenWords : \A x, y \in Nat : [w EXCEPT !.start = x, !.end = y] \in QwenWords
    BY DEF QwenWords
  <2> DEFINE x == from + (span * k) \div count
             y == from + (span * (k + 1) + count - 1) \div count
  <2>a. x \in Nat /\ y \in Nat /\ Text!Spread(words, lexical, p) = [word EXCEPT !.start = x, !.end = y]
    BY <2>5, <2>7
  <2> HIDE DEF x, y
  <2>9. QED
    BY <1>3, <2>8, <2>a, ZenonT(40)
<1>6. QED
  BY <1>4, <1>5

\* The lexical words are places of words, and every one has its place among them.
LEMMA LexicalIs ==
    ASSUME NEW words \in Seq(QwenWords)
    PROVE  /\ Text!Lexical(words) \in Seq(Nat)
           /\ \A k \in 1 .. Len(Text!Lexical(words)) : Text!Lexical(words)[k] \in 1 .. Len(words)
           /\ \A i \in 1 .. Len(words) :
                 words[i].lexical => Text!Place(Text!Lexical(words), i) \in 1 .. Len(Text!Lexical(words))
<1> DEFINE test == [i \in DOMAIN words |-> words[i].lexical]
           m == Len(words)
           lexical == Text!Lexical(words)
<1>1. DOMAIN words = 1 .. m /\ m \in Nat
  OBVIOUS
<1>2. test \in Seq(BOOLEAN) /\ Len(test) = m /\ \A i \in 1 .. m : test[i] = words[i].lexical
  <2>1. \A i \in 1 .. m : words[i].lexical \in BOOLEAN
    <3>1. \A i \in 1 .. m : words[i] \in QwenWords
      OBVIOUS
    <3>2. \A w \in QwenWords : w.lexical \in BOOLEAN
      BY DEF QwenWords
    <3>3. QED
      BY <3>1, <3>2
  <2>2. QED
    BY <1>1, <2>1
<1>3. PlacesOf(lexical, test, m)
  BY <1>2, WhereIs DEF Text!Lexical
<1> HIDE DEF test, lexical, m
<1>4. lexical \in Seq(Nat) /\ \A k \in 1 .. Len(lexical) : lexical[k] \in 1 .. m
  BY <1>3 DEF PlacesOf
<1>5. ASSUME NEW i \in 1 .. m, words[i].lexical PROVE Text!Place(lexical, i) \in 1 .. Len(lexical)
  <2>1. \E k \in 1 .. Len(lexical) : lexical[k] = i
    BY <1>2, <1>3, <1>5 DEF PlacesOf
  <2>2. DOMAIN lexical = 1 .. Len(lexical)
    BY <1>4
  <2>3. \E k \in DOMAIN lexical : lexical[k] = i
    BY <2>1, <2>2
  <2>4. Text!Place(lexical, i) \in DOMAIN lexical
    BY <2>3 DEF Text!Place
  <2>5. QED
    BY <2>2, <2>4
<1>6. QED
  BY <1>4, <1>5 DEF lexical, m

\* Interpolated words are as many words.
LEMMA InterpolatedTypes ==
    ASSUME NEW words \in Seq(QwenWords)
    PROVE  Text!Interpolated(words) \in Seq(QwenWords) /\ Len(Text!Interpolated(words)) = Len(words)
<1> DEFINE m == Len(words)
           lexical == Text!Lexical(words)
           One(i) == IF words[i].lexical THEN Text!Spread(words, lexical, Text!Place(lexical, i)) ELSE words[i]
<1>1. DOMAIN words = 1 .. m /\ m \in Nat
  OBVIOUS
<1>2. ASSUME NEW i \in 1 .. m PROVE One(i) \in QwenWords
  <2>1. CASE words[i].lexical
    <3>1. /\ lexical \in Seq(Nat) /\ \A k \in 1 .. Len(lexical) : lexical[k] \in 1 .. Len(words)
          /\ Text!Place(lexical, i) \in 1 .. Len(lexical)
      BY <2>1, LexicalIs
    <3> HIDE DEF lexical
    <3>2. Text!Spread(words, lexical, Text!Place(lexical, i)) \in QwenWords
      BY <3>1, SpreadTypes
    <3>3. QED
      BY <2>1, <3>2
  <2>2. CASE ~words[i].lexical
    BY <2>2
  <2>3. QED
    BY <2>1, <2>2
<1>3. Text!Interpolated(words) = [i \in 1 .. m |-> One(i)]
  BY <1>1 DEF Text!Interpolated
<1> HIDE DEF One, m
<1>4. QED
  BY <1>1, <1>2, <1>3 DEF m

\* Who is heard longest is one of the speakers, or nobody.
LEMMA LongestIs ==
    ASSUME NEW span, NEW track \in Seq(TextIntervals)
    PROVE  Text!TheOne(Text!Longest(Text!Heard(span, track))) \in Nat
<1> DEFINE heard == Text!Heard(span, track)
<1>1. DOMAIN heard \subseteq Nat
  <2>1. DOMAIN heard = {interval.who : interval \in Text!ToSet(track)}
    BY DEF Text!Heard
  <2>2. \A interval \in Text!ToSet(track) : interval \in TextIntervals
    <3>1. \A k \in DOMAIN track : track[k] \in TextIntervals
      OBVIOUS
    <3>2. QED
      BY <3>1 DEF Text!ToSet
  <2>3. \A interval \in TextIntervals : interval.who \in Nat
    BY DEF TextIntervals
  <2>4. QED
    BY <2>1, <2>2, <2>3
<1> HIDE DEF heard
<1>2. Text!Longest(heard) \subseteq Nat
  BY <1>1 DEF Text!Longest
<1>3. \A S : S \subseteq Nat => Text!TheOne(S) \in Nat
  BY DEF Text!TheOne
<1>4. QED
  BY <1>2, <1>3 DEF heard

\* A word that is given a speaker is a word.
LEMMA DirectTypes ==
    ASSUME NEW word \in QwenWords, NEW track \in Seq(TextIntervals)
    PROVE  Text!Direct(word, track) \in QwenWords
<1> DEFINE inside == {k \in Text!Sure(track) : track[k].start < word.start /\ word.start < track[k].end}
           one == CHOOSE k \in inside : TRUE
           who == Text!TheOne(Text!Longest(Text!Heard(word, track)))
<1>1. \A w \in QwenWords : \A x, y \in Nat : /\ [w EXCEPT !.who = x] \in QwenWords
                                             /\ [w EXCEPT !.who = x, !.end = y] \in QwenWords
  BY DEF QwenWords
<1>2. who \in Nat
  BY LongestIs
<1>3. inside # {} => track[one].who \in Nat /\ Text!Least(word.start + 1, track[one].end) \in Nat
  <2> SUFFICES ASSUME inside # {} PROVE track[one].who \in Nat /\ Text!Least(word.start + 1, track[one].end) \in Nat
    OBVIOUS
  <2>1. one \in inside
    OBVIOUS
  <2>2. one \in DOMAIN track
    BY <2>1 DEF Text!Sure
  <2> HIDE DEF one
  <2>3. track[one] \in TextIntervals
    BY <2>2
  <2>4. track[one].who \in Nat /\ track[one].end \in Nat
    BY <2>3 DEF TextIntervals
  <2>5. word.start + 1 \in Nat
    BY DEF QwenWords
  <2>6. QED
    BY <2>4, <2>5 DEF Text!Least
<1>4. \/ Text!Direct(word, track) \in {word, [word EXCEPT !.who = who]}
      \/ inside # {} /\ Text!Direct(word, track) =
            [word EXCEPT !.who = track[one].who, !.end = Text!Least(word.start + 1, track[one].end)]
  BY DEF Text!Direct
<1> HIDE DEF inside, one, who
<1>5. QED
  BY <1>1, <1>2, <1>3, <1>4, ZenonT(40)

\* The words are given their speakers one by one.
LEMMA AssignedLoop ==
    ASSUME NEW words \in Seq(QwenWords), NEW track \in Seq(TextIntervals)
    PROVE  \E f \in [0 .. Len(words) -> Seq(QwenWords)] :
              /\ Text!Assigned(words, track) = f[Len(words)]
              /\ f[0] = <<>>
              /\ \A n \in 1 .. Len(words) : f[n] = Append(f[n - 1], Text!Direct(words[n], track))
<1> DEFINE m == Len(words)
           D == Seq(QwenWords)
           a == <<>>
           S == [n \in 1 .. m |-> [x \in D |-> Append(x, Text!Direct(words[n], track))]]
           Is(f) == f = [n \in 0 .. m |-> IF n = 0 THEN a ELSE Append(f[n - 1], Text!Direct(words[n], track))]
           after == CHOOSE f : Is(f)
<1>m. m \in Nat
  OBVIOUS
<1>a. a \in D
  OBVIOUS
<1>0. \A n \in 1 .. m, x \in D : Append(x, Text!Direct(words[n], track)) \in D
  <2> SUFFICES ASSUME NEW n \in 1 .. m, NEW x \in D PROVE Append(x, Text!Direct(words[n], track)) \in D
    OBVIOUS
  <2>1. words[n] \in QwenWords
    OBVIOUS
  <2>2. Text!Direct(words[n], track) \in QwenWords
    BY <2>1, DirectTypes
  <2>3. QED
    BY <2>2
<1>1. S \in [1 .. m -> [D -> D]]
  <2> HIDE DEF D, m
  <2>1. QED
    BY <1>0
<1>2. PICK f : IsRun(f, D, a, m, S)
  <2> HIDE DEF S, m, a, D
  <2>1. QED
    BY <1>1, <1>m, <1>a, LoopExists
<1>b. f \in [0 .. m -> D] /\ f[0] = a
  BY <1>2 DEF IsRun
<1>3. \A n \in 1 .. m : f[n - 1] \in D /\ f[n] = Append(f[n - 1], Text!Direct(words[n], track))
  <2> HIDE DEF m, a, D
  <2>1. \A n \in 1 .. m : n - 1 \in 0 .. m
    BY <1>m
  <2>2. \A n \in 1 .. m, x \in D : S[n][x] = Append(x, Text!Direct(words[n], track))
    OBVIOUS
  <2> HIDE DEF S
  <2>3. QED
    BY <1>2, <1>b, <2>1, <2>2 DEF IsRun
<1>4. Is(f)
  <2> DEFINE h == [n \in 0 .. m |-> IF n = 0 THEN a ELSE Append(f[n - 1], Text!Direct(words[n], track))]
  <2> HIDE DEF S, m, a, D
  <2>1. \A n \in 0 .. m : n # 0 => n \in 1 .. m
    BY <1>m
  <2>2. ASSUME NEW n \in 0 .. m PROVE f[n] = h[n]
    BY <1>b, <1>3, <2>1
  <2>3. f = [n \in 0 .. m |-> f[n]] /\ h = [n \in 0 .. m |-> h[n]]
    BY <1>b
  <2> HIDE DEF h
  <2>4. f = h
    BY <2>2, <2>3, SMTT(30)
  <2>5. QED
    BY <2>4 DEF h
<1>5. Is(after)
  BY <1>4
<1>6. Text!Assigned(words, track) = after[m]
  BY SMTT(30) DEF Text!Assigned
<1> DEFINE g == [n \in 0 .. m |-> IF n = 0 THEN a ELSE Append(after[n - 1], Text!Direct(words[n], track))]
<1>7. after = g
  BY <1>5
<1> HIDE DEF after, a, m, S
<1>8. /\ g \in [0 .. m -> {g[n] : n \in 0 .. m}] /\ g[0] = a
      /\ \A n \in 1 .. m : g[n] = Append(after[n - 1], Text!Direct(words[n], track))
  <2>1. 0 \in 0 .. m /\ \A n \in 1 .. m : n \in 0 .. m /\ n # 0
    BY <1>m
  <2>2. QED
    BY <2>1
<1> HIDE DEF g
<1>9. after[0] = a /\ \A n \in 1 .. m : after[n] = Append(after[n - 1], Text!Direct(words[n], track))
  BY <1>7, <1>8
<1> DEFINE T == {n \in Nat : n <= m => after[n] \in D}
<1>10. \A n \in 0 .. m : after[n] \in D
  <2> HIDE DEF D
  <2>1. 0 \in T
    BY <1>9, <1>a
  <2>2. ASSUME NEW n \in Nat, n \in T PROVE n + 1 \in T
    <3> SUFFICES ASSUME n + 1 <= m PROVE after[n + 1] \in D
      OBVIOUS
    <3>1. after[n] \in D /\ n + 1 \in 1 .. m /\ (n + 1) - 1 = n
      BY <1>m, <2>2
    <3>2. after[n + 1] = Append(after[n], Text!Direct(words[(n + 1)], track))
      BY <1>9, <3>1
    <3>3. QED
      BY <1>0, <3>1, <3>2
  <2>3. Nat \subseteq T
    <3> HIDE DEF T
    <3>1. QED
      BY <2>1, <2>2, Counting
  <2>4. QED
    BY <1>m, <2>3
<1>11. after \in [0 .. m -> D]
  BY <1>7, <1>8, <1>10
<1> HIDE DEF D
<1>12. QED
  BY <1>6, <1>9, <1>11 DEF a, m, D

\* There are as many.
LEMMA AssignedTypes ==
    ASSUME NEW words \in Seq(QwenWords), NEW track \in Seq(TextIntervals)
    PROVE  Text!Assigned(words, track) \in Seq(QwenWords) /\ Len(Text!Assigned(words, track)) = Len(words)
<1> DEFINE m == Len(words)
<1>1. m \in Nat
  OBVIOUS
<1>2. PICK f \in [0 .. m -> Seq(QwenWords)] :
        /\ Text!Assigned(words, track) = f[m] /\ f[0] = <<>>
        /\ \A n \in 1 .. m : f[n] = Append(f[n - 1], Text!Direct(words[n], track))
  BY AssignedLoop
<1> HIDE DEF m
<1> DEFINE T == {n \in Nat : n <= m => Len(f[n]) = n}
<1>3. 0 \in T
  BY <1>2
<1>4. ASSUME NEW n \in Nat, n \in T PROVE n + 1 \in T
  <2> SUFFICES ASSUME n + 1 <= m PROVE Len(f[n + 1]) = n + 1
    OBVIOUS
  <2>1. n \in 0 .. m /\ n + 1 \in 1 .. m /\ (n + 1) - 1 = n
    BY <1>1
  <2>2. f[n] \in Seq(QwenWords) /\ Len(f[n]) = n
    <3>1. f[n] \in Seq(QwenWords)
      BY <1>2, <2>1
    <3>2. n <= m
      BY <2>1
    <3>3. Len(f[n]) = n
      BY <1>4, <3>2
    <3>4. QED
      BY <3>1, <3>3
  <2>3. f[n + 1] = Append(f[n], Text!Direct(words[n + 1], track))
    BY <1>2, <2>1
  <2>4. QED
    BY <2>2, <2>3
<1>5. Nat \subseteq T
  <2> HIDE DEF T
  <2>1. QED
    BY <1>3, <1>4, Counting
<1>6. f[m] \in Seq(QwenWords) /\ Len(f[m]) = m
  BY <1>1, <1>5
<1>7. QED
  BY <1>2, <1>6 DEF m

\* A bridge is a speaker, or nobody.
LEMMA BridgeTypes ==
    ASSUME NEW start, NEW end, NEW track \in Seq(TextIntervals)
    PROVE  Text!Bridge(start, end, track) \in Nat
<1> DEFINE before == {k \in Text!Sure(track) : track[k].end <= start}
           after == {k \in Text!Sure(track) : track[k].start >= end}
           b == track[Text!Max(before)]
           a == track[Text!Min(after)]
<1>1. CASE Text!Bridge(start, end, track) = 0
  BY <1>1
<1>2. CASE Text!Bridge(start, end, track) # 0
  <2>1. before # {} /\ Text!Bridge(start, end, track) = b.who
    BY <1>2 DEF Text!Bridge
  <2>2. before \subseteq 1 .. Len(track)
    BY DEF Text!Sure
  <2> HIDE DEF before
  <2>3. Text!Max(before) \in before
    <3>1. before \subseteq Nat /\ Len(track) \in Nat /\ \A x \in before : x <= Len(track)
      BY <2>2
    <3>2. QED
      BY <2>1, <3>1, GreatestOf
  <2>4. b \in TextIntervals
    <3>1. \A x \in 1 .. Len(track) : track[x] \in TextIntervals
      OBVIOUS
    <3>2. QED
      BY <2>2, <2>3, <3>1
  <2>5. b.who \in Nat
    BY <2>4 DEF TextIntervals
  <2>6. QED
    BY <2>1, <2>5, SMTT(30)
<1>3. QED
  BY <1>1, <1>2

\* Bridged words are as many words.
LEMMA BridgedTypes ==
    ASSUME NEW words \in Seq(QwenWords), NEW track \in Seq(TextIntervals)
    PROVE  Text!Bridged(words, track) \in Seq(QwenWords) /\ Len(Text!Bridged(words, track)) = Len(words)
<1> DEFINE m == Len(words)
           lexical == Text!Lexical(words)
           One(i) == IF words[i].lexical THEN Text!Filled(words, lexical, Text!Place(lexical, i), track)
                     ELSE words[i]
<1>1. DOMAIN words = 1 .. m /\ m \in Nat
  OBVIOUS
<1>0. \A w \in QwenWords : \A x \in Nat : [w EXCEPT !.who = x] \in QwenWords
  BY DEF QwenWords
<1>2. ASSUME NEW i \in 1 .. m PROVE One(i) \in QwenWords
  <2>1. CASE words[i].lexical
    <3> DEFINE p == Text!Place(lexical, i)
    <3>1. /\ lexical \in Seq(Nat) /\ \A k \in 1 .. Len(lexical) : lexical[k] \in 1 .. Len(words)
          /\ p \in 1 .. Len(lexical)
      BY <2>1, LexicalIs
    <3> HIDE DEF lexical, p
    <3> DEFINE word == words[lexical[p]]
    <3>2. word \in QwenWords
      BY <3>1, SMTT(30)
    <3>3. \/ Text!Filled(words, lexical, p, track) = word
          \/ \E s, e : Text!Filled(words, lexical, p, track) = [word EXCEPT !.who = Text!Bridge(s, e, track)]
      BY DEF Text!Filled
    <3> HIDE DEF word
    <3>4. Text!Filled(words, lexical, p, track) \in QwenWords
      BY <1>0, <3>2, <3>3, BridgeTypes
    <3>5. QED
      BY <2>1, <3>4 DEF p
  <2>2. CASE ~words[i].lexical
    BY <2>2
  <2>3. QED
    BY <2>1, <2>2
<1>3. Text!Bridged(words, track) = [i \in 1 .. m |-> One(i)]
  BY <1>1 DEF Text!Bridged
<1> HIDE DEF One, m
<1>4. QED
  BY <1>1, <1>2, <1>3 DEF m

\* The speaker before a place is carried from word to word.
LEMMA PrecedingLoop ==
    ASSUME NEW words \in Seq(QwenWords), NEW i \in 1 .. Len(words)
    PROVE  \E f \in [0 .. i -> Nat] :
              /\ Text!Preceding(words, i) = f[i]
              /\ f[0] = 0
              /\ \A n \in 1 .. i : f[n] = IF words[n].lexical THEN words[n].who ELSE f[n - 1]
<1> DEFINE m == i
           D == Nat
           a == 0
           S == [n \in 1 .. m |-> [x \in D |-> IF words[n].lexical THEN words[n].who ELSE x]]
           Is(f) == f = [n \in 0 .. m |-> IF n = 0 THEN a ELSE IF words[n].lexical THEN words[n].who ELSE f[n - 1]]
           after == CHOOSE f : Is(f)
<1>m. m \in Nat
  OBVIOUS
<1>a. a \in D
  OBVIOUS
<1>0. \A n \in 1 .. m, x \in D : (IF words[n].lexical THEN words[n].who ELSE x) \in D
  <2> SUFFICES ASSUME NEW n \in 1 .. m, NEW x \in D PROVE words[n].who \in D
    OBVIOUS
  <2>1. words[n] \in QwenWords
    OBVIOUS
  <2>2. QED
    BY <2>1 DEF QwenWords
<1>1. S \in [1 .. m -> [D -> D]]
  <2> HIDE DEF D, m
  <2>1. QED
    BY <1>0
<1>2. PICK f : IsRun(f, D, a, m, S)
  <2> HIDE DEF S, m, a, D
  <2>1. QED
    BY <1>1, <1>m, <1>a, LoopExists
<1>b. f \in [0 .. m -> D] /\ f[0] = a
  BY <1>2 DEF IsRun
<1>3. \A n \in 1 .. m : f[n - 1] \in D /\ f[n] = IF words[n].lexical THEN words[n].who ELSE f[n - 1]
  <2> HIDE DEF m, a, D
  <2>1. \A n \in 1 .. m : n - 1 \in 0 .. m
    BY <1>m
  <2>2. \A n \in 1 .. m, x \in D : S[n][x] = IF words[n].lexical THEN words[n].who ELSE x
    OBVIOUS
  <2> HIDE DEF S
  <2>3. QED
    BY <1>2, <1>b, <2>1, <2>2, ZenonT(40) DEF IsRun
<1>4. Is(f)
  <2> DEFINE h == [n \in 0 .. m |-> IF n = 0 THEN a ELSE IF words[n].lexical THEN words[n].who ELSE f[n - 1]]
  <2> HIDE DEF S, m, a, D
  <2>1. \A n \in 0 .. m : n # 0 => n \in 1 .. m
    BY <1>m
  <2>2. ASSUME NEW n \in 0 .. m PROVE f[n] = h[n]
    BY <1>b, <1>3, <2>1
  <2>3. f = [n \in 0 .. m |-> f[n]] /\ h = [n \in 0 .. m |-> h[n]]
    BY <1>b
  <2> HIDE DEF h
  <2>4. f = h
    BY <2>2, <2>3
  <2>5. QED
    BY <2>4 DEF h
<1>5. Is(after)
  BY <1>4
<1>6. Text!Preceding(words, i) = after[m]
  BY DEF Text!Preceding
<1> DEFINE g == [n \in 0 .. m |-> IF n = 0 THEN a ELSE IF words[n].lexical THEN words[n].who ELSE after[n - 1]]
<1>7. after = g
  BY <1>5
<1> HIDE DEF after, a, m, S
<1>8. /\ g \in [0 .. m -> {g[n] : n \in 0 .. m}] /\ g[0] = a
      /\ \A n \in 1 .. m : g[n] = IF words[n].lexical THEN words[n].who ELSE after[n - 1]
  <2>1. 0 \in 0 .. m /\ \A n \in 1 .. m : n \in 0 .. m /\ n # 0
    BY <1>m
  <2>2. QED
    BY <2>1
<1> HIDE DEF g
<1>9. after[0] = a /\ \A n \in 1 .. m : after[n] = IF words[n].lexical THEN words[n].who ELSE after[n - 1]
  BY <1>7, <1>8
<1> DEFINE T == {n \in Nat : n <= m => after[n] \in D}
<1>10. \A n \in 0 .. m : after[n] \in D
  <2> HIDE DEF D
  <2>1. 0 \in T
    BY <1>9, <1>a
  <2>2. ASSUME NEW n \in Nat, n \in T PROVE n + 1 \in T
    <3> SUFFICES ASSUME n + 1 <= m PROVE after[n + 1] \in D
      OBVIOUS
    <3>1. after[n] \in D /\ n + 1 \in 1 .. m /\ (n + 1) - 1 = n
      BY <1>m, <2>2
    <3>2. after[n + 1] = IF words[(n + 1)].lexical THEN words[(n + 1)].who ELSE after[n]
      BY <1>9, <3>1
    <3>3. QED
      BY <1>0, <3>1, <3>2
  <2>3. Nat \subseteq T
    <3> HIDE DEF T
    <3>1. QED
      BY <2>1, <2>2, Counting
  <2>4. QED
    BY <1>m, <2>3
<1>11. after \in [0 .. m -> D]
  BY <1>7, <1>8, <1>10
<1> HIDE DEF D
<1>12. QED
  BY <1>6, <1>9, <1>11 DEF a, m, D

\* Words that are merged with the speakers are as many words.
LEMMA MergedWords ==
    ASSUME NEW words \in Seq(QwenWords), NEW track \in Seq(TextIntervals)
    PROVE  /\ Text!MergeAlignedWords(words, track) \in Seq(QwenWords)
           /\ Len(Text!MergeAlignedWords(words, track)) = Len(words)
<1> DEFINE a == Text!Interpolated(words)
           b == Text!Assigned(a, track)
           c == Text!Bridged(b, track)
<1>1. a \in Seq(QwenWords) /\ Len(a) = Len(words)
  BY InterpolatedTypes
<1> HIDE DEF a
<1>2. b \in Seq(QwenWords) /\ Len(b) = Len(words)
  BY <1>1, AssignedTypes
<1> HIDE DEF b
<1>3. c \in Seq(QwenWords) /\ Len(c) = Len(words)
  BY <1>2, BridgedTypes
<1>4. Text!MergeAlignedWords(words, track) = Text!Punctuated(c)
  BY DEF Text!MergeAlignedWords, a, b
<1> HIDE DEF c
<1> DEFINE m == Len(words)
           One(i) == [c[i] EXCEPT !.who = Text!Preceding(c, i)]
<1>5. DOMAIN c = 1 .. m /\ m \in Nat
  BY <1>3
<1>6. ASSUME NEW i \in 1 .. m PROVE One(i) \in QwenWords
  <2>1. i \in 1 .. Len(c) /\ c[i] \in QwenWords
    BY <1>3
  <2>2. Text!Preceding(c, i) \in Nat
    <3>1. PICK f \in [0 .. i -> Nat] : Text!Preceding(c, i) = f[i]
      BY <1>3, <2>1, PrecedingLoop
    <3>2. i \in 0 .. i
      BY <2>1
    <3>3. QED
      BY <3>1, <3>2
  <2>3. \A w \in QwenWords : \A x \in Nat : [w EXCEPT !.who = x] \in QwenWords
    BY DEF QwenWords
  <2>4. QED
    BY <2>1, <2>2, <2>3
<1>7. Text!Punctuated(c) = [i \in 1 .. m |-> One(i)]
  BY <1>5 DEF Text!Punctuated
<1> HIDE DEF One, m
<1>8. QED
  BY <1>4, <1>5, <1>6, <1>7 DEF m

\* The last segment is prolonged by a word.
LastGrows(more, out, n, i, word) == more = [out EXCEPT ![n].end = Text!Most(@, word.end), ![n].of = Append(@, i)]

\* The segments are as they were, the last with the word i more.
TellsMore(more, out, n, i) ==
    /\ more \in Seq(TextSegments) /\ Len(more) = n
    /\ \A j \in 1 .. n : more[j].of = IF j = n THEN Append(out[n].of, i) ELSE out[j].of

\* It is of the same kind then.
LEMMA LastGrown ==
    ASSUME NEW out \in Seq(TextSegments), NEW n \in Nat, Len(out) = n, n > 0, NEW i \in Nat,
           NEW word \in QwenWords, NEW more, LastGrows(more, out, n, i, word)
    PROVE  TellsMore(more, out, n, i)
<1> DEFINE last == out[n]
           end == Text!Most(last.end, word.end)
           of == Append(last.of, i)
           new == [last EXCEPT !.end = end, !.of = of]
<1>1. n \in 1 .. n /\ last \in TextSegments /\ DOMAIN out = 1 .. n
  OBVIOUS
<1>2. end \in Nat /\ of \in Seq(Nat)
  <2>1. last.of \in Seq(Nat) /\ last.end \in Nat
    BY <1>1 DEF TextSegments
  <2>2. word.end \in Nat
    BY DEF QwenWords
  <2>3. QED
    BY <2>1, <2>2 DEF Text!Most
<1>3. more = [out EXCEPT ![n] = new]
  BY <1>1 DEF LastGrows, TextSegments
<1> HIDE DEF end, of
<1>4. new \in TextSegments /\ new.of = of
  BY <1>1, <1>2 DEF TextSegments
<1> HIDE DEF new
<1>5. more \in Seq(TextSegments) /\ Len(more) = n /\ \A j \in 1 .. n : more[j] = IF j = n THEN new ELSE out[j]
  BY <1>1, <1>3, <1>4
<1>6. \A j \in 1 .. n : more[j].of = IF j = n THEN Append(out[n].of, i) ELSE out[j].of
  BY <1>4, <1>5 DEF last, of
<1>7. QED
  BY <1>5, <1>6 DEF TellsMore

\* The segment that a word begins.
OfOneWord(i, word) == [start |-> word.start, end |-> word.end, who |-> word.who, of |-> <<i>>]

\* It tells that word alone.
LEMMA FirstWord ==
    ASSUME NEW i \in Nat, NEW word \in QwenWords
    PROVE  /\ OfOneWord(i, word) \in TextSegments /\ Increasing(OfOneWord(i, word).of)
           /\ Len(OfOneWord(i, word).of) = 1 /\ OfOneWord(i, word).of[1] = i
           /\ {OfOneWord(i, word).of[k] : k \in 1 .. Len(OfOneWord(i, word).of)} = {i}
<1> DEFINE of == <<i>>
<1>1. of \in Seq(Nat) /\ Len(of) = 1 /\ of[1] = i
  OBVIOUS
<1>2. word.start \in Nat /\ word.end \in Nat /\ word.who \in Nat
  BY DEF QwenWords
<1>3. OfOneWord(i, word).of = of
  BY DEF OfOneWord
<1>4. OfOneWord(i, word) = [start |-> word.start, end |-> word.end, who |-> word.who, of |-> of]
  BY DEF OfOneWord
<1> HIDE DEF of
<1>5. OfOneWord(i, word) \in TextSegments
  BY <1>1, <1>2, <1>4 DEF TextSegments
<1>6. 1 .. 1 = {1}
  OBVIOUS
<1>7. Increasing(of) /\ {of[k] : k \in 1 .. Len(of)} = {i}
  BY <1>1, <1>6 DEF Increasing
<1>8. QED
  BY <1>1, <1>3, <1>5, <1>7

\* A word more, in the segment that is the last or in one that it begins.
LEMMA GroupMore ==
    ASSUME NEW out \in Seq(TextSegments), NEW i \in Nat, NEW word \in QwenWords
    PROVE  /\ Text!Group(out, i, word) \in Seq(TextSegments)
           /\ \A said : Text!Tells(out, said) /\ (\A x \in said : x < i)
                           => Text!Tells(Text!Group(out, i, word), said \cup {i})
<1> DEFINE n == Len(out)
<1>1. n \in Nat
  OBVIOUS
<1>2. CASE n > 0 /\ out[n].who = word.who
  <2> DEFINE more == [out EXCEPT ![n].end = Text!Most(@, word.end), ![n].of = Append(@, i)]
  <2>1. Text!Group(out, i, word) = more
    BY <1>2 DEF Text!Group
  <2>2. LastGrows(more, out, n, i, word) /\ Len(out) = n /\ n > 0
    BY <1>2 DEF LastGrows
  <2> HIDE DEF more, n
  <2>3. /\ more \in Seq(TextSegments) /\ Len(more) = n
        /\ \A j \in 1 .. n : more[j].of = IF j = n THEN Append(out[n].of, i) ELSE out[j].of
    <3>1. TellsMore(more, out, n, i)
      BY <1>1, <2>2, LastGrown
    <3>2. QED
      BY <3>1 DEF TellsMore
  <2>4. ASSUME NEW said, Text!Tells(out, said), \A x \in said : x < i PROVE Text!Tells(more, said \cup {i})
    BY <1>1, <2>2, <2>3, <2>4, TellsExtend
  <2>5. QED
    BY <2>1, <2>3, <2>4
<1>3. CASE ~(n > 0 /\ out[n].who = word.who)
  <2> DEFINE new == OfOneWord(i, word)
  <2>1. Text!Group(out, i, word) = Append(out, new)
    BY <1>3 DEF Text!Group, OfOneWord
  <2>2. /\ new \in TextSegments /\ Increasing(new.of)
        /\ {new.of[k] : k \in 1 .. Len(new.of)} = {i}
    BY FirstWord
  <2> HIDE DEF new
  <2>3. Append(out, new) \in Seq(TextSegments)
    BY <2>2
  <2>4. ASSUME NEW said, Text!Tells(out, said), \A x \in said : x < i
        PROVE  Text!Tells(Append(out, new), said \cup {i})
    <3>1. \A x \in said, k \in 1 .. Len(new.of) : x < new.of[k]
      <4>1. \A k \in 1 .. Len(new.of) : new.of[k] = i
        BY <2>2
      <4>2. QED
        BY <2>4, <4>1
    <3>2. Text!Tells(Append(out, new), said \cup {new.of[k] : k \in 1 .. Len(new.of)})
      BY <2>2, <2>4, <3>1, TellsAppend
    <3>3. QED
      BY <2>2, <3>2
  <2>5. QED
    BY <2>1, <2>3, <2>4
<1>4. QED
  BY <1>2, <1>3

\* The words of a range are grouped one by one.
LEMMA GroupedLoop ==
    ASSUME NEW words \in Seq(QwenWords), NEW indices \in Seq(Nat),
           \A k \in 1 .. Len(indices) : indices[k] \in 1 .. Len(words)
    PROVE  \E f \in [0 .. Len(indices) -> Seq(TextSegments)] :
              /\ Text!Grouped(words, indices) = f[Len(indices)]
              /\ f[0] = <<>>
              /\ \A n \in 1 .. Len(indices) : f[n] = Text!Group(f[n - 1], indices[n], words[indices[n]])
<1> DEFINE m == Len(indices)
           D == Seq(TextSegments)
           a == <<>>
           S == [n \in 1 .. m |-> [x \in D |-> Text!Group(x, indices[n], words[indices[n]])]]
           Is(f) == f = [n \in 0 .. m |-> IF n = 0 THEN a ELSE Text!Group(f[n - 1], indices[n], words[indices[n]])]
           after == CHOOSE f : Is(f)
<1>m. m \in Nat
  OBVIOUS
<1>a. a \in D
  OBVIOUS
<1>0. \A n \in 1 .. m, x \in D : Text!Group(x, indices[n], words[indices[n]]) \in D
  <2> SUFFICES ASSUME NEW n \in 1 .. m, NEW x \in D
               PROVE  Text!Group(x, indices[n], words[indices[n]]) \in D
    OBVIOUS
  <2>1. indices[n] \in Nat /\ words[indices[n]] \in QwenWords
    OBVIOUS
  <2>2. QED
    BY <2>1, GroupMore
<1>1. S \in [1 .. m -> [D -> D]]
  <2> HIDE DEF D, m
  <2>1. QED
    BY <1>0
<1>2. PICK f : IsRun(f, D, a, m, S)
  <2> HIDE DEF S, m, a, D
  <2>1. QED
    BY <1>1, <1>m, <1>a, LoopExists
<1>b. f \in [0 .. m -> D] /\ f[0] = a
  BY <1>2 DEF IsRun
<1>3. \A n \in 1 .. m : f[n - 1] \in D /\ f[n] = Text!Group(f[n - 1], indices[n], words[indices[n]])
  <2> HIDE DEF m, a, D
  <2>1. \A n \in 1 .. m : n - 1 \in 0 .. m
    BY <1>m
  <2>2. \A n \in 1 .. m, x \in D : S[n][x] = Text!Group(x, indices[n], words[indices[n]])
    OBVIOUS
  <2> HIDE DEF S
  <2>3. QED
    BY <1>2, <1>b, <2>1, <2>2 DEF IsRun
<1>4. Is(f)
  <2> DEFINE h == [n \in 0 .. m |-> IF n = 0 THEN a ELSE Text!Group(f[n - 1], indices[n], words[indices[n]])]
  <2> HIDE DEF S, m, a, D
  <2>1. \A n \in 0 .. m : n # 0 => n \in 1 .. m
    BY <1>m
  <2>2. ASSUME NEW n \in 0 .. m PROVE f[n] = h[n]
    BY <1>b, <1>3, <2>1
  <2>3. f = [n \in 0 .. m |-> f[n]] /\ h = [n \in 0 .. m |-> h[n]]
    BY <1>b
  <2> HIDE DEF h
  <2>4. f = h
    BY <2>2, <2>3
  <2>5. QED
    BY <2>4 DEF h
<1>5. Is(after)
  BY <1>4
<1>6. Text!Grouped(words, indices) = after[m]
  BY DEF Text!Grouped
<1> DEFINE g == [n \in 0 .. m |-> IF n = 0 THEN a ELSE Text!Group(after[n - 1], indices[n], words[indices[n]])]
<1>7. after = g
  BY <1>5
<1> HIDE DEF after, a, m, S
<1>8. /\ g \in [0 .. m -> {g[n] : n \in 0 .. m}] /\ g[0] = a
      /\ \A n \in 1 .. m : g[n] = Text!Group(after[n - 1], indices[n], words[indices[n]])
  <2>1. 0 \in 0 .. m /\ \A n \in 1 .. m : n \in 0 .. m /\ n # 0
    BY <1>m
  <2>2. QED
    BY <2>1
<1> HIDE DEF g
<1>9. after[0] = a /\ \A n \in 1 .. m : after[n] = Text!Group(after[n - 1], indices[n], words[indices[n]])
  BY <1>7, <1>8
<1> DEFINE T == {n \in Nat : n <= m => after[n] \in D}
<1>10. \A n \in 0 .. m : after[n] \in D
  <2> HIDE DEF D
  <2>1. 0 \in T
    BY <1>9, <1>a
  <2>2. ASSUME NEW n \in Nat, n \in T PROVE n + 1 \in T
    <3> SUFFICES ASSUME n + 1 <= m PROVE after[n + 1] \in D
      OBVIOUS
    <3>1. after[n] \in D /\ n + 1 \in 1 .. m /\ (n + 1) - 1 = n
      BY <1>m, <2>2
    <3>2. after[n + 1] = Text!Group(after[n], indices[(n + 1)], words[indices[(n + 1)]])
      BY <1>9, <3>1
    <3>3. QED
      BY <1>0, <3>1, <3>2
  <2>3. Nat \subseteq T
    <3> HIDE DEF T
    <3>1. QED
      BY <2>1, <2>2, Counting
  <2>4. QED
    BY <1>m, <2>3
<1>11. after \in [0 .. m -> D]
  BY <1>7, <1>8, <1>10
<1> HIDE DEF D
<1>12. QED
  BY <1>6, <1>9, <1>11 DEF a, m, D

\* Grouped words are told in their order.
LEMMA GroupedTells ==
    ASSUME NEW words \in Seq(QwenWords), NEW indices \in Seq(Nat), Increasing(indices),
           \A k \in 1 .. Len(indices) : indices[k] \in 1 .. Len(words)
    PROVE  /\ Text!Grouped(words, indices) \in Seq(TextSegments)
           /\ Text!Tells(Text!Grouped(words, indices), {indices[k] : k \in 1 .. Len(indices)})
<1> DEFINE m == Len(indices)
           To(n) == {indices[k] : k \in 1 .. n}
<1>1. m \in Nat /\ \A k \in 1 .. m : indices[k] \in Nat /\ words[indices[k]] \in QwenWords
  OBVIOUS
<1>2. PICK f \in [0 .. m -> Seq(TextSegments)] :
        /\ Text!Grouped(words, indices) = f[m] /\ f[0] = <<>>
        /\ \A n \in 1 .. m : f[n] = Text!Group(f[n - 1], indices[n], words[indices[n]])
  BY GroupedLoop
<1>3. \A k, l \in 1 .. m : k < l => indices[k] < indices[l]
  BY DEF Increasing
<1> HIDE DEF m
<1> DEFINE T == {n \in Nat : n <= m => Text!Tells(f[n], To(n))}
<1>4. 0 \in T
  <2>1. To(0) = {}
    OBVIOUS
  <2> HIDE DEF To
  <2>2. QED
    BY <1>2, <2>1, TellsNothing
<1>5. ASSUME NEW n \in Nat, n \in T PROVE n + 1 \in T
  <2> SUFFICES ASSUME n + 1 <= m PROVE Text!Tells(f[n + 1], To(n + 1))
    OBVIOUS
  <2> DEFINE i == indices[n + 1]
             word == words[i]
  <2>1. n \in 0 .. m /\ n + 1 \in 1 .. m /\ (n + 1) - 1 = n /\ n <= m
    BY <1>1
  <2>2. f[n] \in Seq(TextSegments) /\ i \in Nat /\ word \in QwenWords
    BY <1>1, <1>2, <2>1
  <2>3. f[n + 1] = Text!Group(f[n], i, word)
    BY <1>2, <2>1
  <2>4. Text!Tells(f[n], To(n))
    BY <1>5, <2>1
  <2>5. \A x \in To(n) : x < i
    <3>1. \A k \in 1 .. n : k \in 1 .. m /\ k < n + 1
      BY <1>1, <2>1
    <3>2. QED
      BY <1>3, <2>1, <3>1
  <2>6. To(n + 1) = To(n) \cup {i}
    <3>1. \A k : k \in 1 .. n + 1 <=> k \in 1 .. n \/ k = n + 1
      OBVIOUS
    <3>2. QED
      BY <3>1
  <2> HIDE DEF i, word, To
  <2>7. Text!Tells(Text!Group(f[n], i, word), To(n) \cup {i})
    BY <2>2, <2>4, <2>5, GroupMore
  <2>8. QED
    BY <2>3, <2>6, <2>7
<1>6. Nat \subseteq T
  <2> HIDE DEF T
  <2>1. QED
    BY <1>4, <1>5, Counting
<1>7. f[m] \in Seq(TextSegments) /\ Text!Tells(f[m], To(m))
  <2>1. m \in T /\ m <= m /\ m \in 0 .. m
    <3> HIDE DEF T
    <3>1. QED
      BY <1>1, <1>6
  <2> HIDE DEF To
  <2>2. QED
    BY <1>2, <2>1
<1>8. QED
  BY <1>2, <1>7 DEF m

\* Intervals that each begin after the one before are in order.
LEMMA ChainsInOrder ==
    ASSUME NEW m \in Nat, NEW a \in [1 .. m -> Nat], NEW b \in [1 .. m -> Nat],
           \A i \in 1 .. m : a[i] <= b[i], \A i \in 1 .. m : i > 1 => b[i - 1] <= a[i]
    PROVE  \A i, j \in 1 .. m : i < j => b[i] <= a[j]
<1> DEFINE T == {n \in Nat : \A i, j \in 1 .. m : j <= n /\ i < j => b[i] <= a[j]}
<1>1. 0 \in T
  OBVIOUS
<1>2. ASSUME NEW n \in Nat, n \in T PROVE n + 1 \in T
  <2> SUFFICES ASSUME NEW i \in 1 .. m, NEW j \in 1 .. m, j <= n + 1, i < j PROVE b[i] <= a[j]
    OBVIOUS
  <2>1. CASE j <= n
    BY <1>2, <2>1
  <2>2. CASE j = n + 1
    <3>1. j > 1 /\ j - 1 \in 1 .. m /\ j - 1 <= n /\ i <= j - 1 /\ i \in 1 .. m
      BY <2>2
    <3>2. b[j - 1] <= a[j]
      BY <3>1
    <3>3. CASE i = j - 1
      BY <3>2, <3>3
    <3>4. CASE i < j - 1
      <4>1. b[i] <= a[j - 1]
        BY <1>2, <3>1, <3>4
      <4>2. a[j - 1] <= b[j - 1]
        BY <3>1
      <4>3. b[i] \in Nat /\ a[j - 1] \in Nat /\ b[j - 1] \in Nat /\ a[j] \in Nat
        BY <3>1
      <4>4. QED
        BY <3>2, <4>1, <4>2, <4>3
    <3>5. QED
      BY <3>1, <3>3, <3>4
  <2>3. QED
    BY <2>1, <2>2
<1>3. Nat \subseteq T
  <2> HIDE DEF T
  <2>1. QED
    BY <1>1, <1>2, Counting
<1>4. m \in T
  <2> HIDE DEF T
  <2>1. QED
    BY <1>3
<1>5. QED
  BY <1>4

\* Segments of a span, in order.
IsInside(part, span) ==
    /\ part \in Seq(TextSegments) /\ part # <<>>
    /\ \A i \in 1 .. Len(part) :
          /\ part[i].start \in Nat /\ part[i].end \in Nat
          /\ span[1] <= part[i].start /\ part[i].start < part[i].end /\ part[i].end <= span[2]
    /\ \A i, j \in 1 .. Len(part) : i < j => part[i].end <= part[j].start

\* A canonical part is.
LEMMA CanonicalInside ==
    ASSUME NEW part \in Seq(TextSegments), NEW span \in Nat \X Nat, Text!IsCanonical(part, span)
    PROVE  IsInside(part, span)
<1> DEFINE m == Len(part)
           a == [i \in 1 .. m |-> part[i].start]
           b == [i \in 1 .. m |-> part[i].end]
<1>1. m \in Nat /\ DOMAIN part = 1 .. m /\ part # <<>> /\ span[1] \in Nat /\ span[2] \in Nat
  BY DEF Text!IsCanonical
<1>2. \A i \in 1 .. m : part[i].start \in Nat /\ part[i].end \in Nat
  <2>1. \A i \in 1 .. m : part[i] \in TextSegments
    OBVIOUS
  <2>2. \A s \in TextSegments : s.start \in Nat /\ s.end \in Nat
    BY DEF TextSegments
  <2>3. QED
    BY <2>1, <2>2
<1>3. \A i \in 1 .. m : /\ part[i].start < part[i].end /\ part[i].end <= span[2]
                        /\ i > 1 => part[i].start >= part[i - 1].end
  BY <1>1 DEF Text!IsCanonical
<1>4. span[1] <= part[1].start
  BY DEF Text!IsCanonical
<1>5. 1 \in 1 .. m
  <2>1. m # 0
    BY <1>1, EmptySeq
  <2>2. QED
    BY <1>1, <2>1
<1> HIDE DEF m
<1>6. \A i, j \in 1 .. m : i < j => part[i].end <= part[j].start
  <2>1. a \in [1 .. m -> Nat] /\ b \in [1 .. m -> Nat]
    BY <1>2
  <2>2. \A i \in 1 .. m : a[i] = part[i].start /\ b[i] = part[i].end
    OBVIOUS
  <2> HIDE DEF a, b
  <2>3. \A i \in 1 .. m : a[i] <= b[i]
    BY <1>2, <1>3, <2>2, SMTT(30)
  <2>4. ASSUME NEW i \in 1 .. m, i > 1 PROVE b[i - 1] <= a[i]
    <3>1. i - 1 \in 1 .. m
      BY <1>1, <2>4
    <3>2. part[i].start >= part[i - 1].end
      BY <1>3, <2>4
    <3>3. part[i].start \in Nat /\ part[i - 1].end \in Nat
      BY <1>2, <3>1
    <3>4. QED
      BY <2>2, <3>1, <3>2, <3>3
  <2>5. \A i, j \in 1 .. m : i < j => b[i] <= a[j]
    BY <1>1, <2>1, <2>3, <2>4, ChainsInOrder
  <2>6. QED
    BY <2>2, <2>5
<1>7. ASSUME NEW i \in 1 .. m PROVE span[1] <= part[i].start
  <2>1. CASE i = 1
    BY <1>4, <2>1
  <2>2. CASE i # 1
    <3>1. part[1].end <= part[i].start
      BY <1>1, <1>5, <1>6, <2>2
    <3>2. part[1].start < part[1].end
      BY <1>3, <1>5
    <3>3. part[1].start \in Nat /\ part[1].end \in Nat /\ part[i].start \in Nat
      BY <1>2, <1>5
    <3>4. QED
      BY <1>1, <1>4, <3>1, <3>2, <3>3
  <2>3. QED
    BY <2>1, <2>2
<1>8. QED
  BY <1>1, <1>2, <1>3, <1>6, <1>7 DEF IsInside, m

\* A part that stays whole is, and tells its words.
LEMMA UnresolvedIs ==
    ASSUME NEW span \in Nat \X Nat, span[1] < span[2], NEW indices \in Seq(Nat), Increasing(indices)
    PROVE  /\ IsInside(Text!Unresolved(span, indices), span)
           /\ Text!Tells(Text!Unresolved(span, indices), {indices[k] : k \in 1 .. Len(indices)})
<1> DEFINE new == [start |-> span[1], end |-> span[2], who |-> 0, of |-> indices]
           part == <<new>>
<1>1. new \in TextSegments /\ new.of = indices /\ new.start = span[1] /\ new.end = span[2]
  BY DEF TextSegments
<1>2. Text!Unresolved(span, indices) = part
  BY DEF Text!Unresolved
<1> HIDE DEF new
<1>3. part \in Seq(TextSegments) /\ Len(part) = 1 /\ part[1] = new /\ part = Append(<<>>, new) /\ part # <<>>
  BY <1>1
<1> HIDE DEF part
<1>4. 1 .. 1 = {1}
  OBVIOUS
<1>5. span[1] \in Nat /\ span[2] \in Nat
  OBVIOUS
<1>6. IsInside(part, span)
  BY <1>1, <1>3, <1>4, <1>5 DEF IsInside
<1>7. Text!Tells(part, {} \cup {new.of[k] : k \in 1 .. Len(new.of)})
  <2>1. <<>> \in Seq(TextSegments)
    OBVIOUS
  <2>2. Increasing(new.of) /\ \A x \in {}, k \in 1 .. Len(new.of) : x < new.of[k]
    BY <1>1
  <2>3. QED
    BY <1>1, <1>3, <2>1, <2>2, TellsNothing, TellsAppend, ZenonT(40)
<1>8. QED
  BY <1>1, <1>2, <1>6, <1>7

\* So is a part whose words are grouped.
LEMMA CanonicalIs ==
    ASSUME NEW words \in Seq(QwenWords), NEW span \in Nat \X Nat, span[1] < span[2], NEW indices \in Seq(Nat),
           Increasing(indices), \A k \in 1 .. Len(indices) : indices[k] \in 1 .. Len(words), NEW drifts
    PROVE  /\ IsInside(Text!Canonical(words, span, indices, drifts), span)
           /\ Text!Tells(Text!Canonical(words, span, indices, drifts), {indices[k] : k \in 1 .. Len(indices)})
<1> DEFINE grouped == Text!Grouped(words, indices)
<1>1. CASE Text!Canonical(words, span, indices, drifts) = Text!Unresolved(span, indices)
  BY <1>1, UnresolvedIs
<1>2. CASE Text!Canonical(words, span, indices, drifts) # Text!Unresolved(span, indices)
  <2>1. Text!Canonical(words, span, indices, drifts) = grouped /\ Text!IsCanonical(grouped, span)
    BY <1>2 DEF Text!Canonical
  <2>2. grouped \in Seq(TextSegments) /\ Text!Tells(grouped, {indices[k] : k \in 1 .. Len(indices)})
    BY GroupedTells
  <2> HIDE DEF grouped
  <2>3. IsInside(grouped, span)
    BY <2>1, <2>2, CanonicalInside
  <2>4. QED
    BY <2>1, <2>2, <2>3
<1>3. QED
  BY <1>1, <1>2

\* What is in a part is in the parts that are joined.
LEMMA FlattenHolds ==
    ASSUME NEW X, NEW seqs \in Seq(Seq(X))
    PROVE  \A w \in 1 .. Len(seqs) : \A k \in 1 .. Len(seqs[w]) :
              \E i \in 1 .. Len(Text!FlattenSeq(seqs)) : Text!FlattenSeq(seqs)[i] = seqs[w][k]
<1> DEFINE m == Len(seqs)
           Held(all, n) == \A w \in 1 .. n : \A k \in 1 .. Len(seqs[w]) : \E i \in 1 .. Len(all) : all[i] = seqs[w][k]
<1>1. m \in Nat /\ \A n \in 1 .. m : seqs[n] \in Seq(X)
  OBVIOUS
<1>2. PICK f \in [0 .. m -> Seq(X)] :
        /\ f[0] = <<>> /\ Text!FlattenSeq(seqs) = f[m]
        /\ \A n \in 1 .. m : f[n] = f[n - 1] \o seqs[n]
  BY FlattenIs
<1> HIDE DEF m
<1> DEFINE T == {n \in Nat : n <= m => Held(f[n], n)}
<1>3. 0 \in T
  OBVIOUS
<1>4. ASSUME NEW n \in Nat, n \in T PROVE n + 1 \in T
  <2> SUFFICES ASSUME n + 1 <= m PROVE Held(f[n + 1], n + 1)
    OBVIOUS
  <2> DEFINE all == f[n]
             s == seqs[n + 1]
             more == f[n + 1]
  <2>1. n \in 0 .. m /\ n + 1 \in 1 .. m /\ (n + 1) - 1 = n /\ n <= m
    BY <1>1
  <2>2. all \in Seq(X) /\ s \in Seq(X) /\ more = all \o s
    BY <1>1, <1>2, <2>1
  <2>3. Held(all, n)
    BY <1>4, <2>1
  <2> HIDE DEF all
  <2>4. /\ Len(all) \in Nat /\ Len(s) \in Nat /\ Len(more) = Len(all) + Len(s)
        /\ \A i \in 1 .. Len(all) : more[i] = all[i]
        /\ \A i \in 1 .. Len(s) : more[Len(all) + i] = s[i]
    BY <2>2, SMTT(30)
  <2> HIDE DEF more
  <2>5. ASSUME NEW w \in 1 .. n + 1, NEW k \in 1 .. Len(seqs[w])
        PROVE  \E i \in 1 .. Len(more) : more[i] = seqs[w][k]
    <3>1. CASE w \in 1 .. n
      <4>1. PICK i \in 1 .. Len(all) : all[i] = seqs[w][k]
        BY <2>3, <3>1
      <4>2. i \in 1 .. Len(more)
        BY <2>4
      <4>3. QED
        BY <2>4, <4>1, <4>2
    <3>2. CASE w = n + 1
      <4>1. k \in 1 .. Len(s) /\ s[k] = seqs[w][k]
        BY <3>2
      <4> HIDE DEF s
      <4>2. Len(all) + k \in 1 .. Len(more)
        BY <2>4, <4>1
      <4>3. QED
        BY <2>4, <4>1, <4>2
    <3>3. QED
      BY <3>1, <3>2
  <2>6. QED
    BY <2>5 DEF more
<1>5. Nat \subseteq T
  <2> HIDE DEF T
  <2>1. QED
    BY <1>3, <1>4, Counting
<1>6. m \in T /\ m <= m
  <2> HIDE DEF T
  <2>1. QED
    BY <1>1, <1>5
<1>7. Held(f[m], m)
  BY <1>6, SMTT(30)
<1> HIDE DEF Held
<1>8. Held(Text!FlattenSeq(seqs), m)
  BY <1>2, <1>7
<1>9. QED
  BY <1>8 DEF Held, m

\* An answer has words of every range, range by range.
IsAnswer(words) ==
    /\ words \in Seq(QwenWords)
    /\ {words[i].range : i \in 1 .. Len(words)} = DOMAIN QwenSpans
    /\ \A i, j \in 1 .. Len(words) : i < j => words[i].range <= words[j].range

\* Every answer that the worker may give is one.
LEMMA AnswersAre ==
    ASSUME Declared \in Nat, QwenSpans \in Seq(Nat \X Nat), MaxWords \in Nat, NEW words \in Text!Answers
    PROVE  IsAnswer(words)
<1> DEFINE times == {t \in (DOMAIN QwenSpans) \X (0 .. Declared) \X (0 .. Declared) :
                        QwenSpans[t[1]][1] <= t[2] /\ t[2] <= t[3] /\ t[3] <= QwenSpans[t[1]][2]}
           Given(l) == {[start |-> t[2], end |-> t[3], lexical |-> l, range |-> t[1], who |-> 0] : t \in times}
           Long == [1 .. MaxWords -> Given(TRUE)]
           Short == UNION {[1 .. n -> Given(TRUE) \cup Given(FALSE)] : n \in Len(QwenSpans) .. MaxWords - 1}
<1>1. /\ words \in Long \cup Short
      /\ {words[i].range : i \in DOMAIN words} = DOMAIN QwenSpans
      /\ \A i \in 2 .. Len(words) : words[i - 1].range <= words[i].range
  BY DEF Text!Answers
<1>2. \A l \in BOOLEAN : Given(l) \subseteq QwenWords
  <2>1. \A t \in times : t[1] \in Nat /\ t[2] \in Nat /\ t[3] \in Nat
    <3>1. \A c \in DOMAIN QwenSpans : c \in Nat
      OBVIOUS
    <3>2. \A x \in 0 .. Declared : x \in Nat
      OBVIOUS
    <3>3. QED
      BY <3>1, <3>2
  <2> HIDE DEF times
  <2>2. QED
    BY <2>1 DEF QwenWords
<1> HIDE DEF times, Given
<1>3. \E n \in Nat : words \in [1 .. n -> QwenWords]
  <2>1. CASE words \in Long
    BY <1>2, <2>1
  <2>2. CASE words \in Short
    <3>1. PICK n \in Len(QwenSpans) .. MaxWords - 1 : words \in [1 .. n -> Given(TRUE) \cup Given(FALSE)]
      BY <2>2
    <3>2. n \in Nat
      BY <3>1
    <3>3. Given(TRUE) \cup Given(FALSE) \subseteq QwenWords
      BY <1>2
    <3>4. words \in [1 .. n -> QwenWords]
      BY <3>1, <3>3
    <3>5. QED
      BY <3>2, <3>4
  <2>3. QED
    BY <1>1, <2>1, <2>2
<1> DEFINE m == Len(words)
<1>4. words \in Seq(QwenWords) /\ m \in Nat /\ DOMAIN words = 1 .. m
  <2>1. words \in Seq(QwenWords)
    BY <1>3
  <2>2. QED
    BY <2>1
<1> HIDE DEF m
<1> DEFINE r == [i \in 1 .. m |-> words[i].range]
<1>5. r \in [1 .. m -> Nat] /\ \A i \in 1 .. m : r[i] = words[i].range
  <2>1. \A i \in 1 .. m : words[i] \in QwenWords
    BY <1>4
  <2>2. \A w \in QwenWords : w.range \in Nat
    BY DEF QwenWords
  <2>3. \A i \in 1 .. m : words[i].range \in Nat
    BY <2>1, <2>2
  <2>4. QED
    BY <2>3
<1> HIDE DEF r
<1>6. \A i \in 1 .. m : i > 1 => r[i - 1] <= r[i]
  <2> SUFFICES ASSUME NEW i \in 1 .. m, i > 1 PROVE r[i - 1] <= r[i]
    OBVIOUS
  <2>1. i \in 2 .. m /\ i - 1 \in 1 .. m
    BY <1>4
  <2>2. words[i - 1].range <= words[i].range
    BY <1>1, <2>1 DEF m
  <2>3. QED
    BY <1>5, <2>1, <2>2
<1>7. \A i \in 1 .. m : r[i] <= r[i]
  BY <1>5, SMTT(30)
<1>8. \A i, j \in 1 .. m : i < j => r[i] <= r[j]
  BY <1>4, <1>5, <1>6, <1>7, ChainsInOrder
<1>9. QED
  BY <1>1, <1>4, <1>5, <1>8 DEF IsAnswer, m

\* The words of a range are found in their order.
LEMMA WordsOfIs ==
    ASSUME NEW words \in Seq(QwenWords), NEW c
    PROVE  /\ Text!WordsOf(words, c) \in Seq(Nat) /\ Increasing(Text!WordsOf(words, c))
           /\ {Text!WordsOf(words, c)[k] : k \in 1 .. Len(Text!WordsOf(words, c))}
                = {i \in 1 .. Len(words) : words[i].range = c}
           /\ \A k \in 1 .. Len(Text!WordsOf(words, c)) : Text!WordsOf(words, c)[k] \in 1 .. Len(words)
<1> DEFINE test == [i \in DOMAIN words |-> words[i].range = c]
           m == Len(words)
           w == Text!WordsOf(words, c)
<1>1. DOMAIN words = 1 .. m /\ m \in Nat
  OBVIOUS
<1>2. test \in Seq(BOOLEAN) /\ Len(test) = m /\ \A i \in 1 .. m : test[i] <=> words[i].range = c
  <2>1. \A i \in 1 .. m : (words[i].range = c) \in BOOLEAN
    OBVIOUS
  <2>2. test \in [1 .. m -> BOOLEAN] /\ \A i \in 1 .. m : test[i] <=> words[i].range = c
    BY <1>1, <2>1
  <2> HIDE DEF test, m
  <2>3. QED
    BY <1>1, <2>2
<1>3. PlacesOf(w, test, m)
  BY <1>2, WhereIs DEF Text!WordsOf
<1> HIDE DEF test, w, m
<1>4. /\ w \in Seq(Nat) /\ Increasing(w)
      /\ \A k \in 1 .. Len(w) : w[k] \in 1 .. m /\ words[w[k]].range = c
      /\ \A i \in 1 .. m : words[i].range = c => \E k \in 1 .. Len(w) : w[k] = i
  BY <1>2, <1>3 DEF PlacesOf
<1>5. {w[k] : k \in 1 .. Len(w)} = {i \in 1 .. m : words[i].range = c}
  BY <1>4, ZenonT(40)
<1>6. QED
  BY <1>4, <1>5 DEF w, m

\* The transcript of an answer.
QwenParts(words, merged, track, drifting) ==
    [c \in DOMAIN QwenSpans |->
        IF track = <<>> THEN Text!Unresolved(QwenSpans[c], Text!WordsOf(words, c))
        ELSE Text!Canonical(merged, QwenSpans[c], Text!WordsOf(words, c), c \in drifting)]

\* The words of a range.
InRange(words, c) == {i \in 1 .. Len(words) : words[i].range = c}

\* Each part tells the words of its range.
LEMMA QwenPartsAre ==
    ASSUME Text!WellFormed, NEW words, IsAnswer(words), NEW merged \in Seq(QwenWords), Len(merged) = Len(words),
           NEW track, NEW drifting, NEW parts, parts = QwenParts(words, merged, track, drifting)
    PROVE  /\ parts \in Seq(Seq(TextSegments)) /\ Len(parts) = Len(QwenSpans) /\ parts # <<>>
           /\ \A c \in 1 .. Len(parts) :
                 /\ IsInside(parts[c], QwenSpans[c])
                 /\ Text!Tells(parts[c], InRange(words, c))
<1> DEFINE m == Len(QwenSpans)
<1>1. QwenSpans \in Seq(Nat \X Nat) /\ QwenSpans # <<>>
  BY DEF Text!WellFormed
<1>2. DOMAIN QwenSpans = 1 .. m /\ m \in Nat /\ m # 0
  BY <1>1, EmptySeq
<1>3. \A c \in 1 .. m : QwenSpans[c] \in Nat \X Nat /\ QwenSpans[c][1] < QwenSpans[c][2]
  <2>1. \A c \in 1 .. m : QwenSpans[c][1] < QwenSpans[c][2]
    BY <1>2 DEF Text!WellFormed
  <2>2. QED
    BY <1>1, <2>1
<1>4. words \in Seq(QwenWords)
  BY DEF IsAnswer
<1> HIDE DEF m
<1>5. ASSUME NEW c \in 1 .. m
      PROVE  /\ IsInside(parts[c], QwenSpans[c])
             /\ Text!Tells(parts[c], InRange(words, c))
  <2> DEFINE w == Text!WordsOf(words, c)
             of == InRange(words, c)
             span == QwenSpans[c]
  <2>1. w \in Seq(Nat) /\ Increasing(w) /\ {w[k] : k \in 1 .. Len(w)} = of
        /\ \A k \in 1 .. Len(w) : w[k] \in 1 .. Len(merged)
    BY <1>4, WordsOfIs DEF InRange
  <2>2. span \in Nat \X Nat /\ span[1] < span[2]
    BY <1>3
  <2>3. parts[c] = IF track = <<>> THEN Text!Unresolved(span, w) ELSE Text!Canonical(merged, span, w, c \in drifting)
    BY <1>2 DEF QwenParts
  <2> HIDE DEF w, of, span
  <2>4. CASE track = <<>>
    <3>1. /\ IsInside(Text!Unresolved(span, w), span)
          /\ Text!Tells(Text!Unresolved(span, w), {w[k] : k \in 1 .. Len(w)})
      BY <2>1, <2>2, UnresolvedIs
    <3>2. IsInside(parts[c], span) /\ Text!Tells(parts[c], of)
      BY <2>1, <2>3, <2>4, <3>1
    <3>3. QED
      BY <3>2 DEF of, span
  <2>5. CASE track # <<>>
    <3> DEFINE drifts == c \in drifting
    <3> HIDE DEF drifts
    <3>1. /\ IsInside(Text!Canonical(merged, span, w, drifts), span)
          /\ Text!Tells(Text!Canonical(merged, span, w, drifts), {w[k] : k \in 1 .. Len(w)})
      BY <2>1, <2>2, CanonicalIs
    <3>2. IsInside(parts[c], span) /\ Text!Tells(parts[c], of)
      BY <2>1, <2>3, <2>5, <3>1 DEF drifts
    <3>3. QED
      BY <3>2 DEF of, span
  <2>6. QED
    BY <2>4, <2>5
<1>6. parts \in Seq(Seq(TextSegments)) /\ Len(parts) = m /\ parts # <<>>
  <2>1. \A c \in 1 .. m : parts[c] \in Seq(TextSegments)
    BY <1>5 DEF IsInside
  <2>2. parts \in [1 .. m -> Seq(TextSegments)]
    BY <1>2, <2>1 DEF QwenParts
  <2>3. \A f \in [1 .. m -> Seq(TextSegments)] : f \in Seq(Seq(TextSegments)) /\ Len(f) = m
    BY <1>2
  <2>4. parts \in Seq(Seq(TextSegments)) /\ Len(parts) = m
    BY <2>2, <2>3
  <2>5. QED
    BY <1>2, <2>4, EmptySeq
<1>7. QED
  BY <1>5, <1>6 DEF m

\* The parts in a row are valid.
LEMMA QwenValid ==
    ASSUME Text!WellFormed, NEW parts \in Seq(Seq(TextSegments)), parts # <<>>, Len(parts) = Len(QwenSpans),
           \A c \in 1 .. Len(parts) : IsInside(parts[c], QwenSpans[c]),
           NEW all \in Seq(TextSegments), all # <<>>, Parts(all, parts), PartsInOrder(all, parts)
    PROVE  Text!IsValid(all, Declared)
<1> DEFINE m == Len(parts)
           n == Len(all)
<1>1. /\ QwenSpans \in Seq(Nat \X Nat) /\ DOMAIN QwenSpans = 1 .. m /\ m \in Nat /\ Declared \in Nat
      /\ DOMAIN all = 1 .. n /\ n \in Nat
  <2>1. QwenSpans \in Seq(Nat \X Nat)
    BY DEF Text!WellFormed
  <2>2. Declared \in Nat
    BY DEF Text!WellFormed
  <2>3. QED
    BY <2>1, <2>2
<1>2. \A c \in 1 .. m : /\ QwenSpans[c][1] < QwenSpans[c][2] /\ QwenSpans[c][2] <= Declared
                        /\ c > 1 => QwenSpans[c - 1][2] <= QwenSpans[c][1]
  BY <1>1 DEF Text!WellFormed
<1>3. \A c \in 1 .. m : QwenSpans[c][1] \in Nat /\ QwenSpans[c][2] \in Nat
  <2>1. \A c \in 1 .. m : QwenSpans[c] \in Nat \X Nat
    BY <1>1
  <2>2. QED
    BY <2>1
<1>4. \A c \in 1 .. m : IsInside(parts[c], QwenSpans[c])
  OBVIOUS
<1>5. \A i \in 1 .. n : \E w \in 1 .. m : \E k \in 1 .. Len(parts[w]) : all[i] = parts[w][k]
  BY DEF Parts
<1>6. \A i, j \in 1 .. n : i < j => InTurn(all[i], all[j], parts)
  BY DEF PartsInOrder
<1> HIDE DEF m, n
<1>7. \A w, u \in 1 .. m : w < u => QwenSpans[w][2] <= QwenSpans[u][1]
  <2> DEFINE a == [c \in 1 .. m |-> QwenSpans[c][1]]
             b == [c \in 1 .. m |-> QwenSpans[c][2]]
  <2>1. a \in [1 .. m -> Nat] /\ b \in [1 .. m -> Nat]
    BY <1>3
  <2>2. \A c \in 1 .. m : a[c] = QwenSpans[c][1] /\ b[c] = QwenSpans[c][2]
    OBVIOUS
  <2> HIDE DEF a, b
  <2>3. \A c \in 1 .. m : a[c] <= b[c]
    <3>1. \A x, y \in Nat : x < y => x <= y
      OBVIOUS
    <3>2. \A c \in 1 .. m : QwenSpans[c][1] <= QwenSpans[c][2]
      BY <1>2, <1>3, <3>1
    <3>3. QED
      BY <2>2, <3>2
  <2>4. ASSUME NEW c \in 1 .. m, c > 1 PROVE b[c - 1] <= a[c]
    <3>1. c - 1 \in 1 .. m
      BY <1>1, <2>4
    <3>2. QED
      BY <1>2, <2>2, <2>4, <3>1
  <2>5. \A i, j \in 1 .. m : i < j => b[i] <= a[j]
    BY <1>1, <2>1, <2>3, <2>4, ChainsInOrder
  <2>6. QED
    BY <2>2, <2>5
<1>8. ASSUME NEW i \in 1 .. n PROVE all[i].start < all[i].end /\ all[i].end <= Declared
  <2>1. PICK w \in 1 .. m : \E k \in 1 .. Len(parts[w]) : all[i] = parts[w][k]
    BY <1>5
  <2>2. PICK k \in 1 .. Len(parts[w]) : all[i] = parts[w][k]
    BY <2>1
  <2>3. /\ all[i].start < all[i].end /\ all[i].end <= QwenSpans[w][2]
        /\ all[i].end \in Nat
    BY <1>4, <2>2 DEF IsInside
  <2>4. QwenSpans[w][2] <= Declared /\ QwenSpans[w][2] \in Nat
    BY <1>2, <1>3
  <2>5. QED
    BY <1>1, <2>3, <2>4, SMTT(30)
<1>9. ASSUME NEW i \in 1 .. n, i > 1 PROVE all[i].start >= all[i - 1].end
  <2> DEFINE x == all[i - 1]
             y == all[i]
  <2>1. InTurn(x, y, parts)
    <3>1. i - 1 \in 1 .. n /\ i - 1 < i
      BY <1>1, <1>9
    <3>2. QED
      BY <1>6, <3>1
  <2> HIDE DEF x, y
  <2>2. PICK w, u \in 1 .. m : \E k \in 1 .. Len(parts[w]), l \in 1 .. Len(parts[u]) :
          x = parts[w][k] /\ y = parts[u][l] /\ (w < u \/ (w = u /\ k < l))
    BY <2>1 DEF InTurn, m
  <2>3. PICK k \in 1 .. Len(parts[w]), l \in 1 .. Len(parts[u]) :
          x = parts[w][k] /\ y = parts[u][l] /\ (w < u \/ (w = u /\ k < l))
    BY <2>2
  <2>4. /\ x.end \in Nat /\ x.end <= QwenSpans[w][2]
        /\ y.start \in Nat /\ QwenSpans[u][1] <= y.start
    <3>1. IsInside(parts[w], QwenSpans[w]) /\ IsInside(parts[u], QwenSpans[u])
      BY <1>4
    <3>2. x.end \in Nat /\ x.end <= QwenSpans[w][2]
      BY <2>3, <3>1 DEF IsInside
    <3>3. y.start \in Nat /\ QwenSpans[u][1] <= y.start
      BY <2>3, <3>1 DEF IsInside
    <3>4. QED
      BY <3>2, <3>3
  <2>5. CASE w < u
    <3>1. QwenSpans[w][2] <= QwenSpans[u][1] /\ QwenSpans[w][2] \in Nat /\ QwenSpans[u][1] \in Nat
      BY <1>3, <1>7, <2>5
    <3>2. x.end <= y.start
      BY <2>4, <3>1, SMTT(30)
    <3>3. QED
      BY <2>4, <3>2 DEF x, y
  <2>6. CASE w = u /\ k < l
    <3>1. x.end <= y.start
      BY <1>4, <2>3, <2>6 DEF IsInside
    <3>2. QED
      BY <2>4, <3>1 DEF x, y
  <2>7. QED
    BY <2>3, <2>5, <2>6
<1>10. QED
  BY <1>1, <1>8, <1>9 DEF Text!IsValid

\* They tell all the words.
LEMMA QwenTells ==
    ASSUME NEW words, IsAnswer(words), NEW parts \in Seq(Seq(TextSegments)), DOMAIN QwenSpans = 1 .. Len(parts),
           \A c \in 1 .. Len(parts) : Text!Tells(parts[c], InRange(words, c)),
           NEW all \in Seq(TextSegments), Parts(all, parts), PartsInOrder(all, parts),
           \A w \in 1 .. Len(parts) : \A k \in 1 .. Len(parts[w]) :
              \E i \in 1 .. Len(all) : all[i] = parts[w][k]
    PROVE  Text!Tells(all, 1 .. Len(words))
<1> DEFINE m == Len(parts)
           n == Len(all)
           last == Len(words)
           Of(c) == {i \in 1 .. last : words[i].range = c}
<1>1. /\ m \in Nat /\ n \in Nat /\ last \in Nat
      /\ \A i \in 1 .. last : words[i].range \in Nat /\ words[i].range \in 1 .. m
      /\ \A i, j \in 1 .. last : i < j => words[i].range <= words[j].range
  <2>1. last \in Nat
    BY DEF IsAnswer
  <2>2. \A i \in 1 .. last : words[i].range \in 1 .. m
    BY DEF IsAnswer
  <2>3. \A i, j \in 1 .. last : i < j => words[i].range <= words[j].range
    BY DEF IsAnswer
  <2>4. QED
    BY <2>1, <2>2, <2>3
<1>2. ASSUME NEW c \in 1 .. m
      PROVE  /\ \A j \in 1 .. Len(parts[c]) : \A k \in 1 .. Len(parts[c][j].of) : parts[c][j].of[k] \in Of(c)
             /\ \A x \in Of(c) : \E j \in 1 .. Len(parts[c]) : \E k \in 1 .. Len(parts[c][j].of) : parts[c][j].of[k] = x
             /\ \A i, j \in 1 .. Len(parts[c]) : \A k \in 1 .. Len(parts[c][i].of), l \in 1 .. Len(parts[c][j].of) :
                   i < j \/ (i = j /\ k < l) => parts[c][i].of[k] < parts[c][j].of[l]
  <2> DEFINE part == parts[c]
  <2>1. part \in Seq(TextSegments) /\ Text!Tells(part, Of(c))
    <3>1. part \in Seq(TextSegments)
      OBVIOUS
    <3>2. Text!Tells(parts[c], Of(c))
      BY DEF InRange
    <3>3. QED
      BY <3>1, <3>2
  <2> HIDE DEF part, Of
  <2>2. \A j \in 1 .. Len(part) : part[j].of \in Seq(Nat)
    BY <2>1, SegmentsTell
  <2>3. /\ \A j \in 1 .. Len(part) : \A k \in 1 .. Len(part[j].of) : part[j].of[k] \in Of(c)
        /\ \A x \in Of(c) : \E j \in 1 .. Len(part) : \E k \in 1 .. Len(part[j].of) : part[j].of[k] = x
        /\ \A i, j \in 1 .. Len(part) : \A k \in 1 .. Len(part[i].of), l \in 1 .. Len(part[j].of) :
              i < j \/ (i = j /\ k < l) => part[i].of[k] < part[j].of[l]
    BY <2>1, <2>2, TellsIs
  <2>4. QED
    BY <2>3 DEF part
<1>3. \A i \in 1 .. n : \E w \in 1 .. m : \E k \in 1 .. Len(parts[w]) : all[i] = parts[w][k]
  BY DEF Parts
<1>4. \A i, j \in 1 .. n : i < j => InTurn(all[i], all[j], parts)
  BY DEF PartsInOrder
<1>5. \A w \in 1 .. m : \A k \in 1 .. Len(parts[w]) : \E i \in 1 .. n : all[i] = parts[w][k]
  OBVIOUS
<1>6. \A j \in 1 .. n : all[j].of \in Seq(Nat)
  BY SegmentsTell
<1>7. \A w, u \in 1 .. m : \A x \in Of(w), y \in Of(u) : w < u => x < y
  <2> SUFFICES ASSUME NEW w \in 1 .. m, NEW u \in 1 .. m, NEW x \in Of(w), NEW y \in Of(u), w < u PROVE x < y
    OBVIOUS
  <2>1. x \in 1 .. last /\ y \in 1 .. last /\ words[x].range = w /\ words[y].range = u
    OBVIOUS
  <2> HIDE DEF last, m
  <2>2. y < x => u <= w
    BY <1>1, <2>1
  <2>3. y = x => u = w
    BY <2>1
  <2>4. QED
    BY <1>1, <2>1, <2>2, <2>3
<1> HIDE DEF m, n
<1>8. ASSUME NEW j \in 1 .. n, NEW k \in 1 .. Len(all[j].of) PROVE all[j].of[k] \in 1 .. last
  <2>1. PICK w \in 1 .. m : \E a \in 1 .. Len(parts[w]) : all[j] = parts[w][a]
    BY <1>3
  <2>2. PICK a \in 1 .. Len(parts[w]) : all[j] = parts[w][a]
    BY <2>1
  <2>3. all[j].of[k] \in Of(w)
    BY <1>2, <2>2
  <2>4. QED
    BY <2>3
<1>9. ASSUME NEW x \in 1 .. last PROVE \E j \in 1 .. n : \E k \in 1 .. Len(all[j].of) : all[j].of[k] = x
  <2> DEFINE c == words[x].range
  <2>1. c \in 1 .. m /\ x \in Of(c)
    BY <1>1
  <2> HIDE DEF c, Of
  <2>2. PICK a \in 1 .. Len(parts[c]) : \E k \in 1 .. Len(parts[c][a].of) : parts[c][a].of[k] = x
    BY <1>2, <2>1
  <2>3. PICK j \in 1 .. n : all[j] = parts[c][a]
    BY <1>5, <2>1
  <2>4. QED
    BY <2>2, <2>3, SMTT(30)
<1>10. ASSUME NEW i \in 1 .. n, NEW j \in 1 .. n, NEW k \in 1 .. Len(all[i].of), NEW l \in 1 .. Len(all[j].of),
              i < j \/ (i = j /\ k < l)
       PROVE  all[i].of[k] < all[j].of[l]
  <2> HIDE DEF Of
  <2>1. CASE i < j
    <3>1. InTurn(all[i], all[j], parts)
      BY <1>4, <2>1
    <3>2. PICK w, u \in 1 .. m : \E a \in 1 .. Len(parts[w]), b \in 1 .. Len(parts[u]) :
            all[i] = parts[w][a] /\ all[j] = parts[u][b] /\ (w < u \/ (w = u /\ a < b))
      BY <3>1 DEF InTurn, m
    <3>3. PICK a \in 1 .. Len(parts[w]), b \in 1 .. Len(parts[u]) :
            all[i] = parts[w][a] /\ all[j] = parts[u][b] /\ (w < u \/ (w = u /\ a < b))
      BY <3>2
    <3>4. CASE w < u
      <4>1. all[i].of[k] \in Of(w) /\ all[j].of[l] \in Of(u)
        BY <1>2, <3>3
      <4>2. QED
        BY <1>7, <3>4, <4>1, SMTT(30)
    <3>5. CASE w = u /\ a < b
      BY <1>2, <3>3, <3>5, ZenonT(40)
    <3>6. QED
      BY <3>3, <3>4, <3>5
  <2>2. CASE i = j /\ k < l
    <3>1. PICK w \in 1 .. m : \E a \in 1 .. Len(parts[w]) : all[j] = parts[w][a]
      BY <1>3
    <3>2. PICK a \in 1 .. Len(parts[w]) : all[j] = parts[w][a]
      BY <3>1
    <3>3. QED
      BY <1>2, <2>2, <3>2, ZenonT(40)
  <2>3. QED
    BY <1>10, <2>1, <2>2
<1> HIDE DEF Of, last
<1>11. Text!Tells(all, 1 .. last)
  BY <1>6, <1>8, <1>9, <1>10, TellsIs DEF n
<1>12. QED
  BY <1>11 DEF last

\* No answer is refused, and every word of it is told.
LEMMA QwenIs ==
    ASSUME Text!WellFormed, NEW words \in Text!Answers, NEW track \in SpeechTracks, NEW drifting
    PROVE  LET told == Text!QwenTranscript(words, track, drifting) IN
           told.result = "ok" /\ Text!Tells(told.segments, DOMAIN words)
<1> DEFINE merged == Text!MergeAlignedWords(words, track)
           parts == QwenParts(words, merged, track, drifting)
           all == Text!FlattenSeq(parts)
<1>1. /\ Declared \in Nat /\ QwenSpans \in Seq(Nat \X Nat) /\ MaxWords \in Nat
      /\ track \in Seq(TextIntervals)
  <2>1. Declared \in Nat
    BY DEF Text!WellFormed
  <2>2. QwenSpans \in Seq(Nat \X Nat)
    BY DEF Text!WellFormed
  <2>3. MaxWords \in Nat
    BY DEF Text!WellFormed
  <2>4. track \in Seq(TextIntervals)
    BY DEF Text!WellFormed, TextIntervals
  <2>5. QED
    BY <2>1, <2>2, <2>3, <2>4
<1>2. IsAnswer(words)
  BY <1>1, AnswersAre
<1>3. words \in Seq(QwenWords) /\ DOMAIN words = 1 .. Len(words)
  <2>1. words \in Seq(QwenWords)
    BY <1>2 DEF IsAnswer
  <2>2. QED
    BY <2>1
<1>4. merged \in Seq(QwenWords) /\ Len(merged) = Len(words)
  BY <1>1, <1>3, MergedWords
<1>5. Text!QwenTranscript(words, track, drifting) =
        IF Text!IsValid(all, Declared) THEN [result |-> "ok", segments |-> all, words |-> merged]
        ELSE Text!Failed("verification")
  BY DEF Text!QwenTranscript, QwenParts
<1> HIDE DEF merged
<1>a. parts = QwenParts(words, merged, track, drifting)
  OBVIOUS
<1> HIDE DEF parts
<1>6. /\ parts \in Seq(Seq(TextSegments)) /\ Len(parts) = Len(QwenSpans) /\ parts # <<>>
      /\ \A c \in 1 .. Len(parts) :
            /\ IsInside(parts[c], QwenSpans[c])
            /\ Text!Tells(parts[c], InRange(words, c))
  BY <1>2, <1>4, <1>a, QwenPartsAre
<1>7. all \in Seq(TextSegments) /\ Parts(all, parts) /\ PartsInOrder(all, parts)
  BY <1>6, FlattenTypes, FlattenOrder
<1>8. \A w \in 1 .. Len(parts) : \A k \in 1 .. Len(parts[w]) : \E i \in 1 .. Len(all) : all[i] = parts[w][k]
  BY <1>6, FlattenHolds
<1>9. all # <<>>
  <2>1. Len(parts) \in 1 .. Len(parts)
    <3>1. Len(parts) \in Nat /\ Len(parts) # 0
      BY <1>6, EmptySeq
    <3>2. QED
      BY <3>1
  <2>2. parts[Len(parts)] # <<>>
    BY <1>6, <2>1 DEF IsInside
  <2>3. QED
    BY <1>6, <2>2, FlattenNonEmpty
<1> HIDE DEF all
<1>10. Text!IsValid(all, Declared)
  BY <1>6, <1>7, <1>9, QwenValid
<1>11. Text!Tells(all, 1 .. Len(words))
  <2>1. DOMAIN QwenSpans = 1 .. Len(parts)
    BY <1>1, <1>6
  <2>2. QED
    BY <1>2, <1>6, <1>7, <1>8, <2>1, QwenTells
<1>12. QED
  BY <1>3, <1>5, <1>10, <1>11

------------------------
(* The ranges of a recording.  First what a division leaves. *)

LEMMA Within ==
    ASSUME NEW a \in Nat, NEW b \in Nat \ {0}
    PROVE  a \div b \in Nat /\ \A k \in Nat : k * b <= a <=> k <= a \div b
<1> DEFINE q == a \div b
<1>1. q \in Nat /\ q * b <= a /\ a < q * b + b
  OBVIOUS
<1> HIDE DEF q
<1>2. ASSUME NEW k \in Nat PROVE k * b <= a <=> k <= q
  <2>1. k <= q => k * b <= q * b
    BY <1>1, MoreParts
  <2>2. k >= q + 1 => (q + 1) * b <= k * b
    BY <1>1, MoreParts
  <2>3. (q + 1) * b = q * b + b /\ k * b \in Nat /\ q * b \in Nat
    BY <1>1
  <2>4. QED
    BY <1>1, <2>1, <2>2, <2>3
<1>3. QED
  BY <1>1, <1>2 DEF q

\* The samples that are due by the frame n, and what the resampler has then.
SamplesBy(n, rate) == IF n = 0 THEN 0 ELSE ((n - 1) * TargetRate) \div rate + 1

SoFar(n, rate) == [samples |-> SamplesBy(n, rate), ok |-> TRUE]

\* A frame adds those between it and the one before, and no other.
LEMMA PushIs ==
    ASSUME Text!WellFormed, NEW rate \in Nat \ {0}, NEW c \in Nat
    PROVE  Text!Push(SoFar(c, rate), c, rate) = SoFar(c + 1, rate)
<1> DEFINE R == TargetRate
           s == SamplesBy(c, rate)
           q == (c * R) \div rate
           dues == {k \in s .. s + R : k * rate <= c * R}
<1>0. R \in Nat \ {0}
  BY DEF Text!WellFormed
<1> HIDE DEF R
<1>1. c * R \in Nat /\ q \in Nat /\ \A k \in Nat : k * rate <= c * R <=> k <= q
  <2>1. c * R \in Nat
    BY <1>0
  <2>2. QED
    BY <2>1, Within
<1>2. s \in Nat /\ s <= q + 1 /\ q <= s + R /\ \A k \in Nat : k >= s => (c = 0 \/ k * rate > (c - 1) * R)
  <2>1. CASE c = 0
    <3>1. s = 0 /\ c * R = 0 /\ 1 * rate > 0
      BY <1>0, <2>1 DEF SamplesBy
    <3>2. q = 0
      BY <1>1, <3>1
    <3>3. QED
      BY <1>0, <2>1, <3>1, <3>2
  <2>2. CASE c # 0
    <3> DEFINE b == (c - 1) * R
               p == b \div rate
    <3>1. c - 1 \in Nat /\ b \in Nat /\ c * R = b + R
      BY <1>0, <2>2
    <3> HIDE DEF b
    <3>2. p \in Nat /\ \A k \in Nat : k * rate <= b <=> k <= p
      BY <3>1, Within
    <3>3. s = p + 1
      BY <2>2 DEF SamplesBy, b, R
    <3> HIDE DEF p, s, q
    <3>4. s <= q + 1
      BY <1>0, <1>1, <3>1, <3>2, <3>3
    <3>5. \A k \in Nat : k >= s => k * rate > b
      BY <3>1, <3>2, <3>3
    <3>6. q <= s + R
      <4>1. s * rate > b /\ R * rate >= R /\ (s + R) * rate = s * rate + R * rate
        BY <1>0, <3>2, <3>3, <3>5
      <4>2. (s + R) * rate > c * R
        BY <1>0, <3>1, <3>2, <3>3, <4>1
      <4>3. QED
        BY <1>0, <1>1, <3>2, <3>3, <4>2
    <3>7. s \in Nat
      BY <3>2, <3>3
    <3>8. QED
      BY <3>4, <3>5, <3>6, <3>7, Zenon DEF b
  <2>3. QED
    BY <2>1, <2>2
<1> HIDE DEF s, q
<1>3. dues = s .. q
  <2>1. \A k : k \in s .. q <=> k \in s .. s + R /\ k <= q
    BY <1>0, <1>1, <1>2
  <2>2. \A k \in s .. s + R : k * rate <= c * R <=> k <= q
    <3>1. \A k \in s .. s + R : k \in Nat
      BY <1>0, <1>2
    <3>2. QED
      BY <1>1, <3>1
  <2>3. QED
    BY <2>1, <2>2, Zenon
<1>4. Text!Cardinality(dues) = q - s + 1
  <2>1. Cardinality(s .. q) = q - s + 1
    BY <1>1, <1>2, FS_Interval
  <2>2. QED
    BY <1>3, <2>1 DEF Text!Cardinality, Cardinality
<1>5. ASSUME NEW k \in dues PROVE (k * rate) \div R \in {c - 1, c}
  <2> DEFINE m == k * rate
             v == m \div R
  <2>1. k \in Nat /\ k >= s /\ m <= c * R /\ m \in Nat
    BY <1>2, <1>5
  <2> HIDE DEF m, dues
  <2>2. v \in Nat /\ \A j \in Nat : j * R <= m <=> j <= v
    BY <1>0, <2>1, Within
  <2>3. v <= c
    <3>1. (c + 1) * R = c * R + R
      BY <1>0
    <3>2. ~((c + 1) * R <= m)
      BY <1>0, <1>1, <2>1, <3>1
    <3>3. QED
      BY <2>2, <3>2
  <2>4. c = 0 \/ c - 1 <= v
    <3>1. c = 0 \/ m > (c - 1) * R
      BY <1>2, <2>1 DEF m
    <3>2. c # 0 => c - 1 \in Nat /\ (c - 1) * R \in Nat
      BY <1>0
    <3>3. QED
      BY <2>1, <2>2, <3>1, <3>2
  <2>5. QED
    BY <2>2, <2>3, <2>4 DEF m
<1>6. Text!Push(SoFar(c, rate), c, rate) = [samples |-> s + Text!Cardinality(dues), ok |-> TRUE]
  BY <1>5 DEF Text!Push, SoFar, s, R
<1> HIDE DEF dues
<1>7. SoFar(c + 1, rate) = [samples |-> q + 1, ok |-> TRUE]
  <2>1. c + 1 # 0 /\ (c + 1) - 1 = c
    OBVIOUS
  <2>2. QED
    BY <2>1 DEF SoFar, SamplesBy, q, R
<1>8. s + Text!Cardinality(dues) = q + 1
  BY <1>1, <1>2, <1>4
<1>9. QED
  BY <1>6, <1>7, <1>8

\* All of a recording, at its time.
LEMMA ResampledIs ==
    ASSUME Text!WellFormed, NEW frames \in Nat \ {0}, NEW rate \in Nat \ {0}
    PROVE  Text!Resampled(frames, rate) = SoFar(frames, rate)
<1> DEFINE Next1(x, n) == Text!Push(x, n - 1, rate)
           first == [samples |-> 0, ok |-> TRUE]
           Is(f) == f = [n \in 0 .. frames |-> IF n = 0 THEN first ELSE Next1(f[n - 1], n)]
           g == [n \in 0 .. frames |-> SoFar(n, rate)]
           after == CHOOSE f : Is(f)
<1>1. SoFar(0, rate) = first
  BY DEF SoFar, SamplesBy
<1>2. \A n \in 1 .. frames : SoFar(n, rate) = Next1(SoFar(n - 1, rate), n)
  <2> SUFFICES ASSUME NEW n \in 1 .. frames PROVE SoFar(n, rate) = Next1(SoFar(n - 1, rate), n)
    OBVIOUS
  <2>1. n - 1 \in Nat /\ (n - 1) + 1 = n
    OBVIOUS
  <2>2. QED
    BY <2>1, PushIs
<1>3. Text!Resampled(frames, rate) = after[frames]
  BY DEF Text!Resampled
<1> HIDE DEF Next1, first
<1>4. Is(g)
  <2> DEFINE h == [n \in 0 .. frames |-> IF n = 0 THEN first ELSE Next1(g[n - 1], n)]
  <2>1. ASSUME NEW n \in 0 .. frames PROVE g[n] = h[n]
    <3>1. n # 0 => n \in 1 .. frames /\ n - 1 \in 0 .. frames
      OBVIOUS
    <3>2. QED
      BY <1>1, <1>2, <3>1
  <2>2. g = h
    BY <2>1
  <2>3. QED
    BY <2>2
<1>5. Is(after)
  <2> HIDE DEF g
  <2>1. QED
    BY <1>4
<1> HIDE DEF after
<1>6. after[0] = first /\ \A n \in 1 .. frames : after[n] = Next1(after[n - 1], n)
  <2> DEFINE h == [n \in 0 .. frames |-> IF n = 0 THEN first ELSE Next1(after[n - 1], n)]
  <2>1. after = h
    BY <1>5
  <2>2. h[0] = first /\ \A n \in 1 .. frames : h[n] = Next1(after[n - 1], n)
    OBVIOUS
  <2> HIDE DEF h
  <2>3. QED
    BY <2>1, <2>2
<1> DEFINE T == {n \in Nat : n <= frames => after[n] = SoFar(n, rate)}
<1>7. 0 \in T
  BY <1>1, <1>6
<1>8. ASSUME NEW n \in Nat, n \in T PROVE n + 1 \in T
  <2> SUFFICES ASSUME n + 1 <= frames PROVE after[n + 1] = SoFar(n + 1, rate)
    OBVIOUS
  <2>1. n + 1 \in 1 .. frames /\ (n + 1) - 1 = n /\ after[n] = SoFar(n, rate)
    BY <1>8
  <2>2. QED
    BY <1>2, <1>6, <2>1
<1>9. Nat \subseteq T
  <2> HIDE DEF T
  <2>1. QED
    BY <1>7, <1>8, Counting
<1>10. QED
  BY <1>3, <1>9

\* What is decoded is never refused for its samples, and has those of its time.
LEMMA DecodedIs ==
    ASSUME Text!WellFormed, NEW audio \in Audios
    PROVE  /\ Text!Decoded(audio).result \in {"duration_mismatch", "decode_limit", "ok"}
           /\ Text!Decoded(audio).result = "ok" =>
                Text!Decoded(audio).samples = ((audio.frames - 1) * TargetRate) \div audio.rate + 1
<1>1. audio.frames \in Nat \ {0} /\ audio.rate \in Nat \ {0}
  BY DEF Text!WellFormed
<1>2. /\ Text!Resampled(audio.frames, audio.rate).ok
      /\ Text!Resampled(audio.frames, audio.rate).samples = ((audio.frames - 1) * TargetRate) \div audio.rate + 1
  BY <1>1, ResampledIs DEF SoFar, SamplesBy
<1>3. QED
  BY <1>2 DEF Text!Decoded, Text!Failed

\* The boundaries so far: none is too close to the one before, or to the end.
Marks(total) ==
    {x \in Seq(Nat) :
        /\ Len(x) > 0 /\ x[1] = 0
        /\ \A i \in 1 .. Len(x) - 1 : x[i] + MinChunk <= x[i + 1]
        /\ Len(x) = 1 \/ x[Len(x)] + MinChunk <= total}

\* A silence adds one that is not.
LEMMA ScanKeeps ==
    ASSUME Text!WellFormed, NEW total \in Nat, NEW level, NEW n \in Nat \ {0}, NEW x \in Marks(total)
    PROVE  Text!Scan(x, level, n, total) \in Marks(total)
<1> DEFINE run == <<Text!SilentFrom(level, n), n>>
           spot == Text!Middle(run, total)
           more == Append(x, spot)
           m == Len(x)
<1>0. MinChunk \in Nat \ {0} /\ Frame \in Nat \ {0}
  BY DEF Text!WellFormed
<1>1. /\ x \in Seq(Nat) /\ m \in Nat /\ m > 0 /\ x[1] = 0 /\ x[m] \in Nat
      /\ \A i \in 1 .. m - 1 : x[i] + MinChunk <= x[i + 1]
  BY DEF Marks
<1> SUFFICES ASSUME level[n - 1] = 0, x[m] + MinChunk <= spot, spot + MinChunk <= total, spot \in Int
             PROVE  more \in Marks(total)
  <2>1. level[n - 1] = 0 => spot \in Int
    <3> SUFFICES ASSUME level[n - 1] = 0 PROVE spot \in Int
      OBVIOUS
    <3> DEFINE A == {a \in 0 .. n - 1 : \A j \in a .. n - 1 : level[j] = 0}
    <3>1. n - 1 \in A /\ A \subseteq Nat
      OBVIOUS
    <3> HIDE DEF A
    <3>2. Text!Min(A) \in Nat
      BY <3>1, LeastOf
    <3>3. Text!SilentFrom(level, n) \in Nat
      BY <3>2 DEF Text!SilentFrom, A
    <3> DEFINE a == Text!SilentFrom(level, n)
    <3> HIDE DEF a
    <3>4. a * Frame \in Nat /\ n * Frame \in Nat
      BY <1>0, <3>3 DEF a
    <3>5. Text!Least(n * Frame, total) \in Nat
      BY <3>4 DEF Text!Least
    <3>6. spot = a * Frame + (Text!Least(n * Frame, total) - a * Frame) \div 2
      BY DEF Text!Middle, a
    <3> HIDE DEF spot
    <3>7. QED
      BY <3>4, <3>5, <3>6
  <2>2. \/ Text!Scan(x, level, n, total) = x
        \/ /\ Text!Scan(x, level, n, total) = more /\ level[n - 1] = 0
           /\ spot - x[m] >= MinChunk /\ total - spot >= MinChunk
    BY DEF Text!Scan, Text!PushBoundary, Text!Last
  <2> HIDE DEF spot
  <2>3. level[n - 1] = 0 /\ spot - x[m] >= MinChunk /\ total - spot >= MinChunk
           => spot \in Int /\ x[m] + MinChunk <= spot /\ spot + MinChunk <= total
    BY <1>0, <1>1, <2>1
  <2> HIDE DEF more
  <2>4. QED
    BY <2>2, <2>3
<1> HIDE DEF spot
<1>2. spot \in Nat
  BY <1>0, <1>1
<1>3. /\ more \in Seq(Nat) /\ Len(more) = m + 1 /\ more[m + 1] = spot
      /\ \A i \in 1 .. m : more[i] = x[i]
  BY <1>1, <1>2
<1> HIDE DEF more, m
<1>4. more[1] = 0 /\ more[m] = x[m]
  BY <1>1, <1>3
<1>5. ASSUME NEW i \in 1 .. m PROVE more[i] + MinChunk <= more[i + 1]
  <2>1. CASE i = m
    BY <1>3, <1>4, <2>1
  <2>2. CASE i # m
    <3>1. i \in 1 .. m - 1 /\ i + 1 \in 1 .. m /\ i \in 1 .. m
      BY <1>1, <2>2
    <3>2. QED
      BY <1>1, <1>3, <3>1
  <2>3. QED
    BY <2>1, <2>2
<1>6. QED
  BY <1>1, <1>3, <1>4, <1>5, SMTT(30) DEF Marks

LEMMA FramesAre ==
    ASSUME Text!WellFormed, NEW total \in Nat \ {0}
    PROVE  Text!Frames(total) \in Nat /\ Text!Frames(total) - 1 \in Nat
<1>1. Frame \in Nat \ {0}
  BY DEF Text!WellFormed
<1>2. total + Frame - 1 \in Nat /\ 1 * Frame <= total + Frame - 1
  BY <1>1
<1>3. Text!Frames(total) \in Nat /\ Text!Frames(total) >= 1
  BY <1>1, <1>2, Within DEF Text!Frames
<1>4. QED
  BY <1>3

\* The pieces between the boundaries are as long as the recording allows.
Shortest(total) == Text!Least(MinChunk, total)

LEMMA BoundariesAre ==
    ASSUME Text!WellFormed, NEW total \in Nat \ {0}, NEW level
    PROVE  \E bs \in Seq(Nat) :
              /\ bs = Text!Boundaries(level, total)
              /\ Len(bs) > 1 /\ bs[1] = 0 /\ bs[Len(bs)] = total
              /\ \A i \in 1 .. Len(bs) - 1 : bs[i] + Shortest(total) <= bs[i + 1]
<1> DEFINE m == Text!Frames(total) - 1
           D == Marks(total)
           a == <<0>>
           S == [n \in 1 .. m |-> [x \in D |-> Text!Scan(x, level, n, total)]]
           Is(f) == f = [n \in 0 .. m |-> IF n = 0 THEN a ELSE Text!Scan(f[n - 1], level, n, total)]
           after == CHOOSE f : Is(f)
<1>m. m \in Nat
  BY FramesAre
<1>a. a \in D
  BY DEF Marks
<1>0. \A n \in 1 .. m, x \in D : Text!Scan(x, level, n, total) \in D
  <2>1. \A n \in 1 .. m : n \in Nat \ {0}
    BY <1>m
  <2> HIDE DEF m
  <2>2. QED
    BY <2>1, ScanKeeps
<1>1. S \in [1 .. m -> [D -> D]]
  <2> HIDE DEF D, m
  <2>1. QED
    BY <1>0
<1>2. PICK f : IsRun(f, D, a, m, S)
  <2> HIDE DEF S, m, a, D
  <2>1. QED
    BY <1>1, <1>m, <1>a, LoopExists
<1>b. f \in [0 .. m -> D] /\ f[0] = a
  BY <1>2 DEF IsRun
<1>3. \A n \in 1 .. m : f[n - 1] \in D /\ f[n] = Text!Scan(f[n - 1], level, n, total)
  <2> HIDE DEF m, a, D
  <2>1. \A n \in 1 .. m : n - 1 \in 0 .. m
    BY <1>m
  <2>2. \A n \in 1 .. m, x \in D : S[n][x] = Text!Scan(x, level, n, total)
    OBVIOUS
  <2> HIDE DEF S
  <2>3. QED
    BY <1>2, <1>b, <2>1, <2>2 DEF IsRun
<1>4. Is(f)
  <2> DEFINE h == [n \in 0 .. m |-> IF n = 0 THEN a ELSE Text!Scan(f[n - 1], level, n, total)]
  <2> HIDE DEF S, m, a, D
  <2>1. \A n \in 0 .. m : n # 0 => n \in 1 .. m
    BY <1>m
  <2>2. ASSUME NEW n \in 0 .. m PROVE f[n] = h[n]
    BY <1>b, <1>3, <2>1
  <2>3. f = [n \in 0 .. m |-> f[n]] /\ h = [n \in 0 .. m |-> h[n]]
    BY <1>b
  <2> HIDE DEF h
  <2>4. f = h
    BY <2>2, <2>3
  <2>5. QED
    BY <2>4 DEF h
<1>5. Is(after)
  BY <1>4
<1>6. Text!Boundaries(level, total) = Append(after[m], total)
  BY DEF Text!Boundaries
<1> DEFINE g == [n \in 0 .. m |-> IF n = 0 THEN a ELSE Text!Scan(after[n - 1], level, n, total)]
<1>7. after = g
  BY <1>5
<1> HIDE DEF after, a, m, S
<1>8. /\ g \in [0 .. m -> {g[n] : n \in 0 .. m}] /\ g[0] = a
      /\ \A n \in 1 .. m : g[n] = Text!Scan(after[n - 1], level, n, total)
  <2>1. 0 \in 0 .. m /\ \A n \in 1 .. m : n \in 0 .. m /\ n # 0
    BY <1>m
  <2>2. QED
    BY <2>1
<1> HIDE DEF g
<1>9. after[0] = a /\ \A n \in 1 .. m : after[n] = Text!Scan(after[n - 1], level, n, total)
  BY <1>7, <1>8
<1> DEFINE T == {n \in Nat : n <= m => after[n] \in D}
<1>10. \A n \in 0 .. m : after[n] \in D
  <2> HIDE DEF D
  <2>1. 0 \in T
    BY <1>9, <1>a
  <2>2. ASSUME NEW n \in Nat, n \in T PROVE n + 1 \in T
    <3> SUFFICES ASSUME n + 1 <= m PROVE after[n + 1] \in D
      OBVIOUS
    <3>1. after[n] \in D /\ n + 1 \in 1 .. m /\ (n + 1) - 1 = n
      BY <1>m, <2>2
    <3>2. after[n + 1] = Text!Scan(after[n], level, (n + 1), total)
      BY <1>9, <3>1
    <3>3. QED
      BY <1>0, <3>1, <3>2
  <2>3. Nat \subseteq T
    <3> HIDE DEF T
    <3>1. QED
      BY <2>1, <2>2, Counting
  <2>4. QED
    BY <1>m, <2>3
<1> DEFINE x == after[m]
<1>11. x \in Marks(total) /\ Text!Boundaries(level, total) = Append(x, total)
  BY <1>6, <1>10, <1>m
<1> HIDE DEF x
<1> DEFINE bs == Append(x, total)
           k == Len(x)
<1>12. MinChunk \in Nat \ {0} /\ Shortest(total) \in Nat /\ Shortest(total) <= MinChunk /\ Shortest(total) <= total
  <2>1. MinChunk \in Nat \ {0}
    BY DEF Text!WellFormed
  <2>2. QED
    BY <2>1 DEF Shortest, Text!Least
<1>13. /\ x \in Seq(Nat) /\ k \in Nat /\ k > 0 /\ x[1] = 0
       /\ \A i \in 1 .. k - 1 : x[i] \in Nat /\ x[i + 1] \in Nat /\ x[i] + MinChunk <= x[i + 1]
       /\ k = 1 \/ x[k] + MinChunk <= total
  BY <1>11 DEF Marks
<1>14. /\ bs \in Seq(Nat) /\ Len(bs) = k + 1 /\ bs[k + 1] = total
       /\ \A i \in 1 .. k : bs[i] = x[i]
  BY <1>13
<1> HIDE DEF bs, k
<1>15. bs[1] = 0 /\ bs[k] = x[k]
  BY <1>13, <1>14
<1>16. ASSUME NEW i \in 1 .. k PROVE bs[i] + Shortest(total) <= bs[i + 1]
  <2>1. CASE i = k
    BY <1>12, <1>13, <1>14, <1>15, <2>1, SMTT(30)
  <2>2. CASE i # k
    <3>1. i \in 1 .. k - 1 /\ i + 1 \in 1 .. k /\ i \in 1 .. k
      BY <1>13, <2>2
    <3>2. bs[i] = x[i] /\ bs[i + 1] = x[i + 1] /\ x[i] + MinChunk <= x[i + 1] /\ x[i] \in Nat /\ x[i + 1] \in Nat
      BY <1>13, <1>14, <3>1
    <3>3. QED
      BY <1>12, <3>2
  <2>3. QED
    BY <2>1, <2>2
<1>17. bs = Text!Boundaries(level, total)
  BY <1>11 DEF bs
<1>18. Len(bs) > 1 /\ bs[Len(bs)] = total /\ Len(bs) - 1 = k
  BY <1>13, <1>14
<1>19. QED
  BY <1>14, <1>15, <1>16, <1>17, <1>18

\* A piece that is too long is cut where both parts are long enough, and the first
\* is not too long.
LEMMA QuietIs ==
    ASSUME Text!WellFormed, NEW level, NEW start \in Nat, NEW end \in Nat, start + MaxChunk < end
    PROVE  Text!QuietSplitPoint(level, start, end) \in
              start + MinChunk .. Text!Least(start + MaxChunk, end - MinChunk)
<1> DEFINE target == start + MaxChunk
           low == start + MinChunk
           high == end - MinChunk
           upper == Text!Least(target, high)
           lower == Text!Most(upper - Search, low)
           tried == {p \in lower .. upper - Window : (p - lower) % Frame = 0}
           quietest == {p \in tried : \A q \in tried : Text!Loud(level, p) <= Text!Loud(level, q)}
           spot == IF lower >= upper \/ upper - lower < Window THEN target ELSE Text!Min(quietest) + Window \div 2
<1>0. /\ MinChunk \in Nat /\ MaxChunk \in Nat /\ 2 * MinChunk <= MaxChunk /\ Search \in Nat /\ Window \in Nat
      /\ Frame \in Nat \ {0}
  BY DEF Text!WellFormed
<1>1. /\ target \in Nat /\ low \in Nat /\ high \in Nat /\ upper \in Nat /\ lower \in Nat
      /\ low <= upper /\ low <= high /\ low <= target /\ upper <= target /\ upper <= high /\ low <= lower
      /\ target <= upper \/ high <= upper
  BY <1>0 DEF Text!Least, Text!Most
<1>2. Text!QuietSplitPoint(level, start, end) = Text!Clamp(spot, low, high)
  BY DEF Text!QuietSplitPoint
<1> HIDE DEF target, low, high, upper, lower
<1>3. ASSUME ~(lower >= upper \/ upper - lower < Window) PROVE Text!Min(quietest) \in tried
  <2>1. lower \in tried
    <3>1. lower \in lower .. upper - Window /\ lower - lower = 0
      BY <1>0, <1>1, <1>3
    <3>2. 0 % Frame = 0
      BY <1>0
    <3>3. QED
      BY <3>1, <3>2
  <2>2. tried \subseteq Nat
    BY <1>1
  <2>3. \A p \in tried : Text!Loud(level, p) \in Nat
    <3> SUFFICES ASSUME NEW p \in Nat PROVE Text!Loud(level, p) \in Nat
      BY <2>2
    <3> DEFINE loud == {i \in p .. p + Window - 1 : level[i \div Frame] > 0}
    <3>1. loud \subseteq p .. p + Window - 1 /\ IsFiniteSet(p .. p + Window - 1)
      BY <1>0, FS_Interval
    <3> HIDE DEF loud
    <3>2. Cardinality(loud) \in Nat
      BY <3>1, FS_Subset, FS_CardinalityType
    <3>3. Text!Cardinality(loud) = Cardinality(loud)
      BY DEF Text!Cardinality, Cardinality
    <3>4. QED
      BY <3>2, <3>3 DEF Text!Loud, loud
  <2> HIDE DEF tried
  <2> DEFINE T == {Text!Loud(level, p) : p \in tried}
  <2>4. PICK least \in T : \A y \in T : least <= y
    <3>1. T \subseteq Nat /\ T # {}
      BY <2>1, <2>3
    <3> HIDE DEF T
    <3>2. QED
      BY <3>1, Smallest
  <2>5. quietest # {} /\ quietest \subseteq Nat
    <3>1. PICK p \in tried : least = Text!Loud(level, p)
      BY <2>4
    <3>2. \A q \in tried : Text!Loud(level, p) <= Text!Loud(level, q)
      BY <2>4, <3>1
    <3>3. QED
      BY <2>2, <3>2
  <2>6. Text!Min(quietest) \in quietest
    <3> HIDE DEF quietest
    <3>1. QED
      BY <2>5, LeastOf
  <2>7. QED
    BY <2>6
<1>4. spot \in Nat /\ spot <= target /\ (spot <= upper \/ high <= upper)
  <2>1. CASE lower >= upper \/ upper - lower < Window
    BY <1>1, <2>1
  <2>2. CASE ~(lower >= upper \/ upper - lower < Window)
    <3> DEFINE p == Text!Min(quietest)
    <3>1. p \in Nat /\ p + Window <= upper
      BY <1>0, <1>1, <1>3, <2>2
    <3>2. spot = p + Window \div 2
      BY <2>2
    <3> HIDE DEF p, spot
    <3>3. spot \in Nat /\ spot <= p + Window
      BY <1>0, <3>1, <3>2
    <3>4. QED
      BY <1>0, <1>1, <3>1, <3>3
  <2>3. QED
    BY <2>1, <2>2
<1> HIDE DEF spot
<1>5. Text!Clamp(spot, low, high) \in low .. upper
  BY <1>1, <1>4 DEF Text!Clamp, Text!Least, Text!Most
<1>6. QED
  BY <1>2, <1>5 DEF low, upper, target, high

\* Ranges of a length that may be recognized, that follow each other from a to b.
Chain(rs, a, b, least) ==
    /\ rs \in Seq(Nat \X Nat)
    /\ a + Len(rs) * least <= b
    /\ Len(rs) = 0 => a = b
    /\ Len(rs) > 0 => rs[1][1] = a /\ rs[Len(rs)][2] = b
    /\ \A i \in 1 .. Len(rs) : a <= rs[i][1] /\ rs[i][2] <= b /\ rs[i][2] - rs[i][1] \in least .. MaxChunk
    /\ \A i \in 1 .. Len(rs) - 1 : rs[i + 1][1] = rs[i][2]

\* One that begins where another ends prolongs it.
LEMMA ChainsJoin ==
    ASSUME NEW r, NEW s, NEW a \in Nat, NEW b \in Nat, NEW c \in Nat, NEW least \in Nat,
           Chain(r, a, b, least), Chain(s, b, c, least)
    PROVE  Chain(r \o s, a, c, least)
<1> DEFINE n == Len(r)
           m == Len(s)
           t == r \o s
<1>1. r \in Seq(Nat \X Nat) /\ s \in Seq(Nat \X Nat) /\ n \in Nat /\ m \in Nat
  BY DEF Chain
<1>2. /\ t \in Seq(Nat \X Nat) /\ Len(t) = n + m
      /\ \A i \in 1 .. n : t[i] = r[i]
      /\ \A i \in 1 .. m : t[n + i] = s[i]
  BY <1>1
<1>3. \A i \in 1 .. n + m : i \in 1 .. n \/ (i - n \in 1 .. m /\ n + (i - n) = i)
  BY <1>1
<1>4. a + n * least <= b /\ (n = 0 => a = b) /\ (n > 0 => r[1][1] = a /\ r[n][2] = b)
  BY DEF Chain
<1>a. /\ \A i \in 1 .. n : a <= r[i][1] /\ r[i][2] <= b /\ r[i][2] - r[i][1] \in least .. MaxChunk
      /\ \A i \in 1 .. n - 1 : r[i + 1][1] = r[i][2]
  BY DEF Chain
<1>5. b + m * least <= c /\ (m = 0 => b = c) /\ (m > 0 => s[1][1] = b /\ s[m][2] = c)
  BY DEF Chain
<1>b. /\ \A i \in 1 .. m : b <= s[i][1] /\ s[i][2] <= c /\ s[i][2] - s[i][1] \in least .. MaxChunk
      /\ \A i \in 1 .. m - 1 : s[i + 1][1] = s[i][2]
  BY DEF Chain
<1>6. /\ \A i \in 1 .. n : r[i][1] \in Nat /\ r[i][2] \in Nat
      /\ \A i \in 1 .. m : s[i][1] \in Nat /\ s[i][2] \in Nat
  BY <1>1, SMTT(30)
<1> HIDE DEF n, m, t
<1>7. n * least \in Nat /\ m * least \in Nat /\ (n + m) * least = n * least + m * least
  BY <1>1
<1>8. a <= b /\ b <= c /\ a + (n + m) * least <= c
  BY <1>4, <1>5, <1>7
<1>9. /\ n + m = 0 => a = c
      /\ n + m > 0 => t[1][1] = a /\ t[n + m][2] = c
  <2>1. CASE n = 0
    BY <1>1, <1>2, <1>4, <1>5, <2>1, SMTT(30)
  <2>2. CASE m = 0 /\ n # 0
    BY <1>1, <1>2, <1>4, <1>5, <2>2, SMTT(30)
  <2>3. CASE m # 0 /\ n # 0
    <3>1. 1 \in 1 .. n /\ m \in 1 .. m
      BY <1>1, <2>3
    <3>2. t[1] = r[1] /\ t[n + m] = s[m]
      BY <1>2, <3>1
    <3>3. r[1][1] = a /\ s[m][2] = c /\ n + m > 0
      BY <1>1, <1>4, <1>5, <2>3
    <3>4. QED
      BY <3>2, <3>3
  <2>4. QED
    BY <2>1, <2>2, <2>3
<1>10. ASSUME NEW i \in 1 .. n + m
       PROVE  a <= t[i][1] /\ t[i][2] <= c /\ t[i][2] - t[i][1] \in least .. MaxChunk
  <2>1. CASE i \in 1 .. n
    <3>1. t[i] = r[i]
      BY <1>2, <2>1
    <3>2. a <= t[i][1] /\ t[i][2] \in Nat /\ t[i][2] <= b /\ t[i][2] - t[i][1] \in least .. MaxChunk
      BY <1>6, <1>a, <2>1, <3>1
    <3>3. QED
      BY <1>8, <3>2
  <2>2. CASE i - n \in 1 .. m /\ n + (i - n) = i
    <3>1. t[i] = s[i - n]
      BY <1>2, <2>2
    <3>2. b <= t[i][1] /\ t[i][1] \in Nat /\ t[i][2] <= c /\ t[i][2] - t[i][1] \in least .. MaxChunk
      BY <1>6, <1>b, <2>2, <3>1
    <3>3. QED
      BY <1>8, <3>2
  <2>3. QED
    BY <1>3, <2>1, <2>2
<1>11. ASSUME NEW i \in 1 .. n + m - 1 PROVE t[i + 1][1] = t[i][2]
  <2>1. CASE i < n
    <3>1. i \in 1 .. n - 1 /\ i \in 1 .. n /\ i + 1 \in 1 .. n
      BY <1>1, <2>1
    <3>2. QED
      BY <1>2, <1>a, <3>1
  <2>2. CASE i = n
    <3>1. n \in 1 .. n /\ 1 \in 1 .. m
      BY <1>1, <2>2
    <3>2. t[n] = r[n] /\ t[n + 1] = s[1]
      BY <1>2, <3>1
    <3>3. r[n][2] = b /\ s[1][1] = b
      BY <1>1, <1>4, <1>5, <3>1
    <3>4. QED
      BY <2>2, <3>2, <3>3
  <2>3. CASE i > n
    <3> DEFINE j == i - n
    <3>1. j \in 1 .. m - 1 /\ j \in 1 .. m /\ j + 1 \in 1 .. m /\ i = n + j /\ i + 1 = n + (j + 1)
      BY <1>1, <2>3
    <3> HIDE DEF j
    <3>2. t[i] = s[j] /\ t[i + 1] = s[j + 1]
      BY <1>2, <3>1
    <3>3. QED
      BY <1>b, <3>1, <3>2
  <2>4. QED
    BY <1>1, <2>1, <2>2, <2>3
<1>12. QED
  <2>1. /\ Len(t) = 0 => a = c
        /\ Len(t) > 0 => t[1][1] = a /\ t[Len(t)][2] = c
    BY <1>2, <1>9
  <2>0. Len(t) = n + m
    BY <1>2
  <2>2. \A i \in 1 .. Len(t) : a <= t[i][1] /\ t[i][2] <= c /\ t[i][2] - t[i][1] \in least .. MaxChunk
    BY <1>10, <2>0
  <2> DEFINE last == n + m - 1
  <2>b. \A i \in 1 .. last : t[i + 1][1] = t[i][2]
    BY <1>11
  <2>c. Len(t) - 1 = last
    BY <1>1, <2>0
  <2> HIDE DEF last
  <2>a. \A i \in 1 .. Len(t) - 1 : t[i + 1][1] = t[i][2]
    BY <2>b, <2>c
  <2>3. t \in Seq(Nat \X Nat) /\ a + Len(t) * least <= c
    BY <1>2, <1>8
  <2>4. Chain(t, a, c, least)
    BY <2>1, <2>2, <2>3, <2>a, Zenon DEF Chain
  <2>5. QED
    BY <2>4 DEF t

LEMMA ChainOfNone == ASSUME NEW a \in Nat, NEW least \in Nat PROVE Chain(<<>>, a, a, least)
BY DEF Chain

LEMMA ChainOfOne ==
    ASSUME NEW a \in Nat, NEW b \in Nat, NEW least \in Nat, b - a \in least .. MaxChunk
    PROVE  Chain(<<<<a, b>>>>, a, b, least)
<1> DEFINE rs == <<<<a, b>>>>
<1>1. rs \in Seq(Nat \X Nat) /\ Len(rs) = 1 /\ rs[1][1] = a /\ rs[1][2] = b
  OBVIOUS
<1> HIDE DEF rs
<1>2. 1 .. 1 = {1} /\ 1 .. 0 = {} /\ 1 - 1 = 0 /\ 1 * least = least
  OBVIOUS
<1>3. Chain(rs, a, b, least)
  BY <1>1, <1>2 DEF Chain
<1>4. QED
  BY <1>3 DEF rs

\* A piece between a and b, cut up to some place.
Cuts(a, b, least) ==
    {c \in [start : Nat, ranges : Seq(Nat \X Nat)] : Chain(c.ranges, a, c.start, least) /\ c.start + least <= b}

\* It is cut on while it is too long.
LEMMA SplitIs ==
    ASSUME Text!WellFormed, NEW level, NEW a \in Nat, NEW b \in Nat, NEW least \in Nat, least <= MinChunk,
           NEW c \in Cuts(a, b, least)
    PROVE  /\ Text!Split(c, level, b) \in Cuts(a, b, least)
           /\ c.start + MaxChunk >= b => Text!Split(c, level, b) = c
           /\ c.start + MaxChunk < b => Text!Split(c, level, b).start > c.start
<1>0. MinChunk \in Nat \ {0} /\ MaxChunk \in Nat
  BY DEF Text!WellFormed
<1>1. c.start \in Nat /\ c.ranges \in Seq(Nat \X Nat) /\ Chain(c.ranges, a, c.start, least)
  BY DEF Cuts
<1>2. CASE c.start + MaxChunk >= b
  <2>1. Text!Split(c, level, b) = c
    BY <1>0, <1>1, <1>2 DEF Text!Split
  <2>2. QED
    BY <1>0, <1>1, <1>2, <2>1
<1>3. CASE c.start + MaxChunk < b
  <2> DEFINE spot == Text!QuietSplitPoint(level, c.start, b)
             more == Append(c.ranges, <<c.start, spot>>)
             one == <<<<c.start, spot>>>>
  <2>1. spot \in c.start + MinChunk .. Text!Least(c.start + MaxChunk, b - MinChunk)
    BY <1>1, <1>3, QuietIs
  <2>a. Text!Split(c, level, b) = IF b - c.start <= MaxChunk \/ spot <= c.start \/ spot >= b THEN c
                                  ELSE [start |-> spot, ranges |-> more]
    BY DEF Text!Split
  <2> HIDE DEF spot
  <2>2. spot \in Nat /\ spot > c.start /\ spot < b /\ spot + MinChunk <= b /\ spot - c.start \in least .. MaxChunk
    BY <1>0, <1>1, <1>3, <2>1, SMTT(30) DEF Text!Least
  <2>3. Text!Split(c, level, b) = [start |-> spot, ranges |-> more]
    BY <1>0, <1>1, <1>3, <2>2, <2>a, SMTT(30)
  <2>4. more = c.ranges \o one
    <3>1. <<c.start, spot>> \in Nat \X Nat
      BY <1>1, <2>2
    <3>2. QED
      BY <1>1, <3>1, AppendIsConcat
  <2> HIDE DEF more, one
  <2>5. Chain(one, c.start, spot, least)
    BY <1>0, <1>1, <2>2, ChainOfOne DEF one
  <2>6. Chain(more, a, spot, least)
    BY <1>1, <2>2, <2>4, <2>5, ChainsJoin
  <2>7. more \in Seq(Nat \X Nat) /\ spot + least <= b
    BY <1>0, <2>2, <2>6 DEF Chain
  <2>8. [start |-> spot, ranges |-> more] \in Cuts(a, b, least)
    BY <2>2, <2>6, <2>7 DEF Cuts
  <2>9. QED
    BY <1>0, <1>1, <1>3, <2>2, <2>3, <2>8
<1>4. QED
  BY <1>0, <1>1, <1>2, <1>3

\* Every step goes on, so that no piece is left that is too long.
LEMMA CutIs ==
    ASSUME Text!WellFormed, NEW level, NEW start \in Nat, NEW end \in Nat, NEW least \in Nat \ {0},
           least <= MinChunk, start + least <= end
    PROVE  Chain(Text!Cut(level, start, end), start, end, least)
<1> DEFINE m == (end - start)
           D == Cuts(start, end, least)
           a == [start |-> start, ranges |-> <<>>]
           S == [n \in 1 .. m |-> [x \in D |-> Text!Split(x, level, end)]]
           Is(f) == f = [n \in 0 .. m |-> IF n = 0 THEN a ELSE Text!Split(f[n - 1], level, end)]
           after == CHOOSE f : Is(f)
<1>m. m \in Nat
  OBVIOUS
<1>a. a \in D
  <2>1. Chain(<<>>, start, start, least)
    BY ChainOfNone
  <2>2. QED
    BY <2>1 DEF Cuts
<1>0. \A n \in 1 .. m, x \in D : Text!Split(x, level, end) \in D
  BY SplitIs
<1>1. S \in [1 .. m -> [D -> D]]
  <2> HIDE DEF D, m
  <2>1. QED
    BY <1>0
<1>2. PICK f : IsRun(f, D, a, m, S)
  <2> HIDE DEF S, m, a, D
  <2>1. QED
    BY <1>1, <1>m, <1>a, LoopExists
<1>b. f \in [0 .. m -> D] /\ f[0] = a
  BY <1>2 DEF IsRun
<1>3. \A n \in 1 .. m : f[n - 1] \in D /\ f[n] = Text!Split(f[n - 1], level, end)
  <2> HIDE DEF m, a, D
  <2>1. \A n \in 1 .. m : n - 1 \in 0 .. m
    BY <1>m
  <2>2. \A n \in 1 .. m, x \in D : S[n][x] = Text!Split(x, level, end)
    OBVIOUS
  <2> HIDE DEF S
  <2>3. QED
    BY <1>2, <1>b, <2>1, <2>2 DEF IsRun
<1>4. Is(f)
  <2> DEFINE h == [n \in 0 .. m |-> IF n = 0 THEN a ELSE Text!Split(f[n - 1], level, end)]
  <2> HIDE DEF S, m, a, D
  <2>1. \A n \in 0 .. m : n # 0 => n \in 1 .. m
    BY <1>m
  <2>2. ASSUME NEW n \in 0 .. m PROVE f[n] = h[n]
    BY <1>b, <1>3, <2>1
  <2>3. f = [n \in 0 .. m |-> f[n]] /\ h = [n \in 0 .. m |-> h[n]]
    BY <1>b
  <2> HIDE DEF h
  <2>4. f = h
    BY <2>2, <2>3
  <2>5. QED
    BY <2>4 DEF h
<1>5. Is(after)
  BY <1>4
<1>6. Text!Cut(level, start, end) = IF end - after[m].start <= MaxChunk THEN Append(after[m].ranges, <<after[m].start, end>>) ELSE <<>>
  BY DEF Text!Cut
<1> DEFINE g == [n \in 0 .. m |-> IF n = 0 THEN a ELSE Text!Split(after[n - 1], level, end)]
<1>7. after = g
  BY <1>5
<1> HIDE DEF after, a, m, S
<1>8. /\ g \in [0 .. m -> {g[n] : n \in 0 .. m}] /\ g[0] = a
      /\ \A n \in 1 .. m : g[n] = Text!Split(after[n - 1], level, end)
  <2>1. 0 \in 0 .. m /\ \A n \in 1 .. m : n \in 0 .. m /\ n # 0
    BY <1>m
  <2>2. QED
    BY <2>1
<1> HIDE DEF g
<1>9. after[0] = a /\ \A n \in 1 .. m : after[n] = Text!Split(after[n - 1], level, end)
  BY <1>7, <1>8
<1> DEFINE T == {n \in Nat : n <= m => after[n] \in D}
<1>10. \A n \in 0 .. m : after[n] \in D
  <2> HIDE DEF D
  <2>1. 0 \in T
    BY <1>9, <1>a
  <2>2. ASSUME NEW n \in Nat, n \in T PROVE n + 1 \in T
    <3> SUFFICES ASSUME n + 1 <= m PROVE after[n + 1] \in D
      OBVIOUS
    <3>1. after[n] \in D /\ n + 1 \in 1 .. m /\ (n + 1) - 1 = n
      BY <1>m, <2>2
    <3>2. after[n + 1] = Text!Split(after[n], level, end)
      BY <1>9, <3>1
    <3>3. QED
      BY <1>0, <3>1, <3>2
  <2>3. Nat \subseteq T
    <3> HIDE DEF T
    <3>1. QED
      BY <2>1, <2>2, Counting
  <2>4. QED
    BY <1>m, <2>3
<1>c. m \in Nat /\ MaxChunk \in Nat
  <2>1. MaxChunk \in Nat
    BY DEF Text!WellFormed
  <2>2. QED
    BY <1>m, <2>1
<1>11. \A n \in 0 .. m : after[n] \in Cuts(start, end, least) /\ after[n].start \in Nat
  BY <1>10 DEF Cuts
<1> DEFINE U == {n \in Nat : n <= m => after[n].start >= start + n \/ after[n].start + MaxChunk >= end}
<1>12. 0 \in U
  BY <1>9 DEF a
<1>13. ASSUME NEW n \in Nat, n \in U PROVE n + 1 \in U
  <2> SUFFICES ASSUME n + 1 <= m PROVE after[n + 1].start >= start + (n + 1) \/ after[n + 1].start + MaxChunk >= end
    OBVIOUS
  <2>1. n \in 0 .. m /\ n + 1 \in 0 .. m /\ n + 1 \in 1 .. m /\ (n + 1) - 1 = n
    BY <1>c
  <2>2. after[n + 1] = Text!Split(after[n], level, end)
    BY <1>9, <2>1
  <2>3. after[n].start >= start + n \/ after[n].start + MaxChunk >= end
    BY <1>13, <2>1
  <2>4. /\ after[n].start + MaxChunk >= end => after[n + 1] = after[n]
        /\ after[n].start + MaxChunk < end => after[n + 1].start > after[n].start
    BY <1>11, <2>1, <2>2, SplitIs
  <2>5. after[n].start \in Nat /\ after[n + 1].start \in Nat
    BY <1>11, <2>1
  <2>6. QED
    BY <1>c, <2>3, <2>4, <2>5
<1>14. Nat \subseteq U
  <2> HIDE DEF U
  <2>1. QED
    BY <1>12, <1>13, Counting
<1> DEFINE spot == after[m].start
           rs == after[m].ranges
<1>15. /\ spot \in Nat /\ spot + least <= end /\ Chain(rs, start, spot, least) /\ rs \in Seq(Nat \X Nat)
  BY <1>c, <1>11 DEF Cuts
<1>16. spot >= start + m \/ spot + MaxChunk >= end
  BY <1>c, <1>14
<1>17. Text!Cut(level, start, end) = IF end - spot <= MaxChunk THEN Append(rs, <<spot, end>>) ELSE <<>>
  BY <1>6
<1> HIDE DEF spot, rs
<1>18. end - spot \in least .. MaxChunk
  BY <1>c, <1>15, <1>16 DEF m
<1>19. Text!Cut(level, start, end) = rs \o <<<<spot, end>>>>
  <2>1. <<spot, end>> \in Nat \X Nat /\ end - spot <= MaxChunk
    BY <1>c, <1>15, <1>18
  <2>2. QED
    BY <1>15, <1>17, <2>1, AppendIsConcat
<1>20. Chain(<<<<spot, end>>>>, spot, end, least)
  BY <1>c, <1>15, <1>18, ChainOfOne
<1>21. QED
  BY <1>15, <1>19, <1>20, ChainsJoin

\* The pieces of a recording are one chain, from its first sample to its last.
LEMMA RangesAre ==
    ASSUME Text!WellFormed, NEW total \in Nat \ {0}, NEW level
    PROVE  Chain(Text!Ranges(level, total), 0, total, Shortest(total))
<1>1. PICK bs \in Seq(Nat) :
         /\ bs = Text!Boundaries(level, total)
         /\ Len(bs) > 1 /\ bs[1] = 0 /\ bs[Len(bs)] = total
         /\ \A i \in 1 .. Len(bs) - 1 : bs[i] + Shortest(total) <= bs[i + 1]
  BY BoundariesAre
<1> DEFINE n == Len(bs) - 1
           least == Shortest(total)
           cut(i) == Text!Cut(level, bs[i], bs[i + 1])
           part(k) == [i \in 1 .. k |-> cut(i)]
           whole(k) == Text!FlattenSeq(part(k))
<1>2. n \in Nat /\ n + 1 = Len(bs) /\ \A i \in 1 .. n : bs[i] \in Nat /\ bs[i + 1] \in Nat
  BY <1>1
<1>3. least \in Nat \ {0} /\ least <= MinChunk
  <2>1. MinChunk \in Nat \ {0}
    BY DEF Text!WellFormed
  <2>2. QED
    BY <2>1 DEF Shortest, Text!Least
<1>4. Text!Ranges(level, total) = whole(n)
  BY <1>1 DEF Text!Ranges
<1> HIDE DEF n, least
<1>5. \A i \in 1 .. n : Chain(cut(i), bs[i], bs[i + 1], least)
  BY <1>1, <1>2, <1>3, CutIs DEF n, least
<1>6. \A i \in 1 .. n : cut(i) \in Seq(Nat \X Nat)
  BY <1>5 DEF Chain
<1> HIDE DEF cut
<1>7. \A k \in Nat : k <= n => part(k) \in Seq(Seq(Nat \X Nat)) /\ Len(part(k)) = k
  BY <1>2, <1>6
<1> DEFINE T == {k \in Nat : k <= n => Chain(whole(k), 0, bs[k + 1], least)}
<1>8. 0 \in T
  <2>1. part(0) \in Seq(Seq(Nat \X Nat)) /\ part(0) = <<>>
    BY <1>2, <1>7
  <2>2. whole(0) = <<>>
    BY <2>1, FlattenTypes
  <2>3. Chain(<<>>, 0, 0, least)
    BY <1>3, ChainOfNone
  <2>4. bs[0 + 1] = 0
    BY <1>1
  <2>5. QED
    BY <2>2, <2>3, <2>4
<1>9. ASSUME NEW k \in Nat, k \in T PROVE k + 1 \in T
  <2> SUFFICES ASSUME k + 1 <= n PROVE Chain(whole(k + 1), 0, bs[(k + 1) + 1], least)
    OBVIOUS
  <2>1. k + 1 \in 1 .. n /\ k <= n
    BY <1>2
  <2>2. part(k) \in Seq(Seq(Nat \X Nat)) /\ Len(part(k)) = k /\ cut(k + 1) \in Seq(Nat \X Nat)
    BY <1>6, <1>7, <2>1
  <2>3. part(k + 1) = Append(part(k), cut(k + 1))
    BY <2>1, <2>2
  <2> HIDE DEF part
  <2>4. whole(k + 1) = whole(k) \o cut(k + 1)
    BY <2>2, <2>3, FlattenAppend
  <2>5. Chain(whole(k), 0, bs[k + 1], least) /\ Chain(cut(k + 1), bs[k + 1], bs[(k + 1) + 1], least)
    BY <1>5, <1>9, <2>1
  <2>6. bs[k + 1] \in Nat /\ bs[(k + 1) + 1] \in Nat
    BY <1>2, <2>1
  <2> HIDE DEF whole
  <2>7. QED
    BY <1>3, <2>4, <2>5, <2>6, ChainsJoin
<1>10. Nat \subseteq T
  <2> HIDE DEF T
  <2>1. QED
    BY <1>8, <1>9, Counting
<1> HIDE DEF whole
<1>11. Chain(whole(n), 0, bs[n + 1], least)
  BY <1>2, <1>10
<1>12. QED
  BY <1>1, <1>2, <1>4, <1>11 DEF least

\* A range that may be recognized has time.
LEMMA TicksGrow ==
    ASSUME Text!WellFormed, NEW x \in Nat, NEW y \in Nat, x <= y
    PROVE  /\ Text!Ticks(x) \in Nat /\ Text!Ticks(y) \in Nat /\ Text!Ticks(x) <= Text!Ticks(y)
           /\ x + MinChunk <= y => Text!Ticks(x) < Text!Ticks(y)
<1> DEFINE u == Text!Ticks(x)
           v == Text!Ticks(y)
           a == x * Second
           b == y * Second
<1>1. TargetRate \in Nat \ {0} /\ Second \in Nat /\ MinChunk \in Nat /\ TargetRate <= MinChunk * Second
  <2>1. TargetRate \in Nat \ {0} /\ Second \in Nat /\ MinChunk \in Nat
    BY DEF Text!WellFormed
  <2>2. TargetRate <= MinChunk * Second
    BY DEF Text!WellFormed
  <2>3. QED
    BY <2>1, <2>2
<1>2. a \in Nat /\ b \in Nat /\ a <= b
  BY <1>1, MoreParts
<1>3. x + MinChunk <= y => a + MinChunk * Second <= b
  <2>1. x + MinChunk <= y => (x + MinChunk) * Second <= b
    BY <1>1, MoreParts
  <2>2. (x + MinChunk) * Second = a + MinChunk * Second
    BY <1>1
  <2>3. QED
    BY <2>1, <2>2
<1>4. u = a \div TargetRate /\ v = b \div TargetRate
  BY DEF Text!Ticks
<1> HIDE DEF u, v, a, b
<1>5. /\ u \in Nat /\ \A k \in Nat : k * TargetRate <= a <=> k <= u
      /\ v \in Nat /\ \A k \in Nat : k * TargetRate <= b <=> k <= v
  BY <1>1, <1>2, <1>4, Within
<1>6. u * TargetRate <= a /\ u * TargetRate \in Nat /\ (u + 1) * TargetRate = u * TargetRate + TargetRate
  BY <1>1, <1>5
<1>7. u <= v
  BY <1>2, <1>5, <1>6
<1>8. x + MinChunk <= y => u + 1 <= v
  <2>1. x + MinChunk <= y => (u + 1) * TargetRate <= b
    <3> DEFINE s == MinChunk * Second
    <3>1. s \in Nat /\ TargetRate <= s /\ (x + MinChunk <= y => a + s <= b)
      BY <1>1, <1>3
    <3> HIDE DEF s
    <3>2. QED
      BY <1>1, <1>2, <1>6, <3>1
  <2>2. QED
    BY <1>5, <2>1
<1>9. QED
  BY <1>5, <1>7, <1>8 DEF u, v

\* What is recognized in the ranges is in order, inside the recording, and nowhere
\* empty, unless a last range may be beyond the declared time.
LEMMA RecognizedIsValid ==
    ASSUME Text!WellFormed, NEW total \in Nat \ {0}, NEW declared \in Nat \ {0}, NEW rounding \in Nat,
           NEW rs, Chain(rs, 0, total, Shortest(total)), Text!Ticks(total) > 0,
           total >= MinChunk => Text!Ticks(total - MinChunk) < declared
    PROVE  Text!IsValid([i \in DOMAIN rs |-> Text!Recognized(rs[i], declared, rounding)], declared)
<1> DEFINE n == Len(rs)
           from(i) == Text!Ticks(rs[i][1])
           to(i) == Text!Ticks(rs[i][2])
           long(i) == Text!Ticks(rs[i][2] - rs[i][1])
           end(i) == Text!Least(to(i), declared)
           seg(i) == [start |-> Text!Least(from(i), end(i)),
                      end |-> Text!Least(from(i) + long(i) + rounding, end(i))]
           segs == [i \in 1 .. n |-> seg(i)]
<1>1. rs \in Seq(Nat \X Nat) /\ n \in Nat /\ DOMAIN rs = 1 .. n /\ \A i \in 1 .. n : rs[i][1] \in Nat /\ rs[i][2] \in Nat
  BY DEF Chain
<1>2. n > 0
  BY <1>1 DEF Chain
<1>3. \A i \in 1 .. n - 1 : rs[i + 1][1] = rs[i][2]
  BY DEF Chain
<1>4. MinChunk \in Nat \ {0}
  BY DEF Text!WellFormed
<1>5. ASSUME NEW i \in 1 .. n
      PROVE  /\ from(i) \in Nat /\ to(i) \in Nat /\ long(i) \in Nat
             /\ from(i) < to(i) /\ long(i) > 0 /\ from(i) < declared
  <2> DEFINE s == rs[i][1]
             e == rs[i][2]
  <2>1. s \in Nat /\ e \in Nat
    BY <1>1
  <2>2. e <= total /\ e - s >= Shortest(total)
    BY DEF Chain
  <2> HIDE DEF s, e
  <2>3. CASE total >= MinChunk
    <3>1. s + MinChunk <= e /\ s <= e /\ s <= total - MinChunk /\ total - MinChunk \in Nat /\ e - s \in Nat
      BY <1>4, <2>1, <2>2, <2>3 DEF Shortest, Text!Least
    <3>2. Text!Ticks(s) \in Nat /\ Text!Ticks(e) \in Nat /\ Text!Ticks(s) < Text!Ticks(e)
      BY <2>1, <3>1, TicksGrow
    <3>3. Text!Ticks(0) \in Nat /\ Text!Ticks(e - s) \in Nat /\ Text!Ticks(0) < Text!Ticks(e - s)
      <4>1. 0 <= e - s /\ 0 + MinChunk <= e - s
        BY <1>4, <2>1, <3>1
      <4>2. QED
        BY <3>1, <4>1, TicksGrow
    <3>4. Text!Ticks(total - MinChunk) \in Nat /\ Text!Ticks(s) <= Text!Ticks(total - MinChunk)
      BY <2>1, <3>1, TicksGrow
    <3>5. QED
      BY <2>3, <3>2, <3>3, <3>4 DEF s, e
  <2>4. CASE total < MinChunk
    <3>1. s = 0 /\ e = total /\ e - s = total
      BY <1>4, <2>1, <2>2, <2>4 DEF Shortest, Text!Least
    <3>2. Text!Ticks(0) = 0
      <4>1. Second \in Nat /\ TargetRate \in Nat \ {0}
        BY DEF Text!WellFormed
      <4>2. QED
        BY <4>1 DEF Text!Ticks
    <3>3. Text!Ticks(total) \in Nat
      BY TicksGrow
    <3>4. QED
      BY <3>1, <3>2, <3>3 DEF s, e
  <2>5. QED
    BY <1>4, <2>3, <2>4
<1>6. [i \in DOMAIN rs |-> Text!Recognized(rs[i], declared, rounding)] = segs
  BY <1>1 DEF Text!Recognized
<1> HIDE DEF n, from, to, long
<1>7. \A i \in 1 .. n : /\ seg(i).start \in Nat /\ seg(i).end \in Nat
                        /\ seg(i).start < seg(i).end /\ seg(i).end <= end(i) /\ end(i) <= declared
  BY <1>5 DEF Text!Least
<1>8. ASSUME NEW i \in 1 .. n - 1 PROVE seg(i + 1).start >= end(i)
  <2>1. i \in 1 .. n /\ i + 1 \in 1 .. n
    BY <1>1, SMTT(30)
  <2>2. from(i + 1) = to(i)
    BY <1>3 DEF from, to
  <2>3. QED
    BY <1>5, <2>1, <2>2 DEF Text!Least
<1> HIDE DEF seg, end
<1>9. \A i \in 1 .. n : i > 1 => seg(i).start >= seg(i - 1).end
  <2> SUFFICES ASSUME NEW i \in 1 .. n, i > 1 PROVE seg(i).start >= seg(i - 1).end
    OBVIOUS
  <2>1. i - 1 \in 1 .. n - 1 /\ i - 1 \in 1 .. n /\ (i - 1) + 1 = i
    BY <1>1
  <2>2. seg(i).start >= end(i - 1) /\ seg(i - 1).end <= end(i - 1)
    BY <1>7, <1>8, <2>1
  <2>3. seg(i).start \in Nat /\ seg(i - 1).end \in Nat /\ end(i - 1) \in Nat
    BY <1>5, <1>7, <2>1 DEF end, Text!Least
  <2>4. QED
    BY <2>2, <2>3
<1>10. \A i \in 1 .. n : seg(i).end <= declared
  <2> SUFFICES ASSUME NEW i \in 1 .. n PROVE seg(i).end <= declared
    OBVIOUS
  <2>1. seg(i).end \in Nat /\ end(i) \in Nat
    BY <1>5, <1>7 DEF end, Text!Least
  <2>2. QED
    BY <1>7, <2>1
<1>11. /\ DOMAIN segs = 1 .. n /\ segs # <<>>
       /\ \A i \in 1 .. n : segs[i] = seg(i) /\ (i > 1 => segs[i - 1] = seg(i - 1))
  <2>1. DOMAIN segs = 1 .. n /\ \A i \in 1 .. n : segs[i] = seg(i)
    OBVIOUS
  <2>2. \A i \in 1 .. n : i > 1 => i - 1 \in 1 .. n
    BY <1>1
  <2>3. 1 \in 1 .. n
    BY <1>1, <1>2
  <2>4. segs # <<>>
    BY <2>3
  <2> HIDE DEF segs
  <2>5. \A i \in 1 .. n : i > 1 => segs[i - 1] = seg(i - 1)
    BY <2>1, <2>2
  <2>6. QED
    BY <2>1, <2>4, <2>5
<1> HIDE DEF segs
<1>12. Text!IsValid(segs, declared)
  BY <1>7, <1>9, <1>10, <1>11 DEF Text!IsValid
<1>13. QED
  BY <1>6, <1>12

\* What may be answered for the samples of a recording.
Covered(answer, declared, samples) ==
    /\ answer.result # "decode_failed"
    /\ answer.result = "inference_limit" => samples >= (MaxRanges + 1) * MinChunk
    /\ answer.result = "invalid_response" =>
          Text!Ticks(samples) = 0 \/ Text!Ticks(samples - MinChunk) >= declared
    /\ answer.result = "ok" =>
          /\ Text!Last(answer.ranges)[2] = samples
          /\ \A i \in DOMAIN answer.ranges :
                answer.ranges[i][2] - answer.ranges[i][1] \in Text!Least(MinChunk, samples) .. MaxChunk

LEMMA RecognizeCovers ==
    ASSUME Text!WellFormed, NEW audio, audio.declared \in Nat \ {0}, NEW total \in Nat \ {0}, NEW level,
           NEW rounding \in Nat
    PROVE  Covered(Text!Recognize(audio, total, level, rounding), audio.declared, total)
<1> DEFINE rs == Text!Ranges(level, total)
           n == Len(rs)
           segs == [i \in DOMAIN rs |-> Text!Recognized(rs[i], audio.declared, rounding)]
           answer == Text!Recognize(audio, total, level, rounding)
<1>1. Chain(rs, 0, total, Shortest(total))
  BY RangesAre
<1>2. answer = IF rs = <<>> \/ Len(rs) > MaxRanges \/ rs[1][1] # 0 \/ Text!Last(rs)[2] # total
                    \/ \E i \in 2 .. Len(rs) : rs[i][1] # rs[i - 1][2]
               THEN [result |-> "inference_limit"]
               ELSE IF ~Text!IsValid(segs, audio.declared) THEN [result |-> "invalid_response"]
               ELSE [result |-> "ok", ranges |-> rs]
  BY DEF Text!Recognize, Text!Failed
<1> HIDE DEF rs, answer
<1>3. MinChunk \in Nat \ {0} /\ MaxRanges \in Nat \ {0}
  BY DEF Text!WellFormed
<1> HIDE DEF n
<1>4. rs \in Seq(Nat \X Nat) /\ n \in Nat /\ n = Len(rs) /\ n > 0 /\ DOMAIN rs = 1 .. n /\ n * Shortest(total) <= total
  BY <1>1, <1>3 DEF Chain, Shortest, Text!Least, n
<1>5. rs # <<>> /\ rs[1][1] = 0 /\ Text!Last(rs)[2] = total
  BY <1>1, <1>4 DEF Chain, Text!Last
<1>6. \A i \in 2 .. n : rs[i][1] = rs[i - 1][2]
  <2>1. \A i \in 2 .. n : i - 1 \in 1 .. n - 1 /\ (i - 1) + 1 = i
    BY <1>4
  <2>2. \A i \in 1 .. n - 1 : rs[i + 1][1] = rs[i][2]
    BY <1>1 DEF Chain, n
  <2>3. QED
    BY <2>1, <2>2
<1>7. \A i \in DOMAIN rs : rs[i][2] - rs[i][1] \in Text!Least(MinChunk, total) .. MaxChunk
  BY <1>1, <1>4 DEF Chain, Shortest
<1>8. n > MaxRanges => total >= (MaxRanges + 1) * MinChunk
  <2> SUFFICES ASSUME n > MaxRanges PROVE total >= (MaxRanges + 1) * MinChunk
    OBVIOUS
  <2> DEFINE p == MaxRanges + 1
  <2>p. p \in Nat /\ 2 <= p /\ p <= n /\ 2 <= n
    BY <1>3, <1>4
  <2> HIDE DEF p
  <2>1. CASE total >= MinChunk
    <3>1. p * MinChunk <= n * MinChunk
      BY <1>3, <1>4, <2>p, MoreParts
    <3>a. Shortest(total) = MinChunk
      BY <1>3, <2>1 DEF Shortest, Text!Least
    <3>2. p * MinChunk \in Nat /\ n * MinChunk \in Nat
      BY <1>3, <1>4, <2>p
    <3>3. p * MinChunk <= total
      BY <1>4, <3>1, <3>2, <3>a
    <3>4. QED
      BY <3>2, <3>3 DEF p
  <2>2. CASE total < MinChunk
    <3>1. 2 * total <= n * total
      BY <1>4, <2>p, MoreParts
    <3>a. Shortest(total) = total
      BY <1>3, <2>2 DEF Shortest, Text!Least
    <3>2. n * total \in Nat
      BY <1>4
    <3>3. QED
      BY <1>4, <3>1, <3>2, <3>a
  <2>3. QED
    BY <1>3, <2>1, <2>2
<1>9. Text!Ticks(total) \in Nat
  BY TicksGrow
<1>10. \/ Text!Ticks(total) = 0 \/ Text!Ticks(total - MinChunk) >= audio.declared
       \/ Text!IsValid(segs, audio.declared)
  <2>1. total >= MinChunk => total - MinChunk \in Nat /\ Text!Ticks(total - MinChunk) \in Nat
    <3>1. total >= MinChunk => total - MinChunk \in Nat
      BY <1>3
    <3>2. QED
      BY <3>1, TicksGrow
  <2> SUFFICES ASSUME Text!Ticks(total) > 0, total >= MinChunk => Text!Ticks(total - MinChunk) < audio.declared
               PROVE  Text!IsValid(segs, audio.declared)
    BY <1>3, <1>9, <2>1
  <2>2. QED
    BY <1>1, RecognizedIsValid
<1> HIDE DEF segs
<1>11. \/ answer = [result |-> "inference_limit"] /\ n > MaxRanges
       \/ answer = [result |-> "invalid_response"] /\ ~Text!IsValid(segs, audio.declared)
       \/ answer = [result |-> "ok", ranges |-> rs]
  BY <1>2, <1>5, <1>6 DEF n
<1>12. Covered(answer, audio.declared, total)
  BY <1>5, <1>7, <1>8, <1>10, <1>11 DEF Covered
<1>13. QED
  BY <1>12 DEF answer

------------------------
(* The invariant of the texts. *)

\* What is asked for is asked of a request that may be.
Given ==
    made = Unmade =>
        /\ given.work = "ranges" => given.audio \in Audios
        /\ given.work \in {"whisper", "qwen"} => given.track \in SpeechTracks
        /\ given.work = "summary" => given.size \in Documents

TextInv == Given /\ Text!ChunksCoverAudio /\ Text!TranscriptIsWhole /\ Text!SummaryCoversTranscript

\* A request at first.
LEMMA TextInitial == ASSUME Text!Init PROVE TextInv
<1>1. made = Unmade
  BY DEF Text!Init
<1>2. Given
  BY DEF Text!Init, Given
<1>3. QED
  BY <1>1, <1>2 DEF TextInv, Text!TranscriptIsWhole, Text!SummaryCoversTranscript, Text!ChunksCoverAudio

\* The ranges of a recording cover it.
LEMMA RangesKeepText == ASSUME Text!WellFormed, TextInv, Text!RecognizeRanges PROVE TextInv'
<1> DEFINE audio == given.audio
           decoded == Text!Decoded(audio)
           samples == ((audio.frames - 1) * TargetRate) \div audio.rate + 1
<1>1. made = Unmade /\ given.work = "ranges" /\ given' = given
  BY DEF Text!RecognizeRanges, Text!Yields
<1>2. audio \in Audios
  BY <1>1 DEF TextInv, Given
<1>3. audio.frames \in Nat \ {0} /\ audio.rate \in Nat \ {0} /\ audio.declared \in Nat \ {0}
  BY <1>2 DEF Text!WellFormed
<1>4. samples \in Nat \ {0}
  <2>1. TargetRate \in Nat
    BY DEF Text!WellFormed
  <2>2. (audio.frames - 1) * TargetRate \in Nat
    BY <1>3, <2>1
  <2> HIDE DEF audio
  <2>3. QED
    BY <1>3, <2>2, Within
<1>5. /\ decoded.result \in {"duration_mismatch", "decode_limit", "ok"}
      /\ decoded.result = "ok" => decoded.samples = samples
  BY <1>2, DecodedIs
<1>6. \/ made' = decoded /\ decoded.result # "ok"
      \/ /\ decoded.result = "ok"
         /\ \E level : \E rounding \in 0 .. 1 : made' = Text!Recognize(audio, decoded.samples, level, rounding)
  BY DEF Text!RecognizeRanges, Text!Yields
<1> HIDE DEF decoded, audio, samples
<1>7. Covered(made', audio.declared, samples)
  <2>1. CASE decoded.result # "ok"
    BY <1>5, <1>6, <2>1 DEF Covered
  <2>2. CASE decoded.result = "ok"
    <3>1. PICK level : \E rounding \in 0 .. 1 : made' = Text!Recognize(audio, samples, level, rounding)
      BY <1>5, <1>6, <2>2
    <3>2. PICK rounding \in 0 .. 1 : made' = Text!Recognize(audio, samples, level, rounding)
      BY <3>1
    <3>3. rounding \in Nat
      OBVIOUS
    <3>4. QED
      BY <1>3, <1>4, <3>2, <3>3, RecognizeCovers
  <2>3. QED
    BY <2>1, <2>2
<1>8. Text!ChunksCoverAudio'
  BY <1>1, <1>7 DEF Text!ChunksCoverAudio, Covered, audio, samples
<1>9. given'.work = "ranges" /\ given'.audio \in Audios
  BY <1>1, <1>2 DEF audio
<1>10. QED
  BY <1>8, <1>9 DEF TextInv, Given, Text!TranscriptIsWhole, Text!SummaryCoversTranscript

\* What whisper recognized is told by the segments that are made of it.
LEMMA WhisperKeepsText == ASSUME Text!WellFormed, TextInv, Text!Whisper PROVE TextInv'
<1>1. made = Unmade /\ given.work = "whisper"
  BY DEF Text!Whisper
<1>2. given.track \in SpeechTracks
  BY <1>1 DEF TextInv, Given
<1> DEFINE Is(raw) ==
             /\ given' = [work |-> "whisper", track |-> given.track, raw |-> raw]
             /\ \/ made' = Text!Failed(Text!Adapted(raw).result) /\ Text!Adapted(raw).result # "ok"
                \/ made' = Text!Failed("verification")
                \/ /\ made' = [result |-> "ok",
                                  segments |-> Text!MergeDiarization(Text!Adapted(raw).out, given.track)]
                   /\ Text!Adapted(raw).result = "ok"
<1>3. PICK n \in 0 .. 3 : \E raw \in [1 .. n -> Spoken] : Is(raw)
  BY DEF Text!Whisper, Text!Yields
<1>4. PICK raw \in [1 .. n -> Spoken] : Is(raw)
  BY <1>3
<1> DEFINE adapted == Text!Adapted(raw)
           merged == Text!MergeDiarization(adapted.out, given.track)
<1>5. given' = [work |-> "whisper", track |-> given.track, raw |-> raw]
  BY <1>4
<1>6. \/ made' = Text!Failed(adapted.result) /\ adapted.result # "ok"
      \/ made' = Text!Failed("verification")
      \/ made' = [result |-> "ok", segments |-> merged] /\ adapted.result = "ok"
  BY <1>4
<1>7. raw \in Seq(RawSegments) /\ DOMAIN raw = 1 .. Len(raw)
  <2>1. Spoken \subseteq RawSegments
    BY DEF Text!WellFormed, RawSegments
  <2>2. n \in Nat
    OBVIOUS
  <2>3. \A f \in [1 .. n -> Spoken] : f \in Seq(RawSegments) /\ DOMAIN f = 1 .. Len(f)
    BY <2>1, <2>2
  <2>4. QED
    BY <2>3
<1> HIDE DEF adapted, merged
<1>8. /\ given'.work = "whisper" /\ given'.track \in SpeechTracks /\ given'.raw = raw
  BY <1>2, <1>5
<1>9. made'.result = "ok" => Text!Tells(made'.segments, Said(raw, Len(raw)))
  <2> SUFFICES ASSUME made'.result = "ok" PROVE Text!Tells(made'.segments, Said(raw, Len(raw)))
    OBVIOUS
  <2>1. made'.segments = merged /\ adapted.result = "ok"
    BY <1>6 DEF Text!Failed
  <2>2. Declared \in Nat
    BY DEF Text!WellFormed
  <2>3. adapted.out \in Seq(TextSegments) /\ Text!Tells(adapted.out, Said(raw, Len(raw)))
    BY <1>7, <2>1, <2>2, AdaptedTells DEF adapted
  <2>4. Text!Tells(merged, Said(raw, Len(raw)))
    BY <2>3, MergedTells DEF merged
  <2>5. QED
    BY <2>1, <2>4
<1>10. Said(raw, Len(raw)) = {i \in DOMAIN raw : raw[i].said /\ raw[i].start < Declared}
  BY <1>7 DEF Said
<1>11. QED
  BY <1>8, <1>9, <1>10 DEF TextInv, Given, Text!TranscriptIsWhole, Text!SummaryCoversTranscript, Text!ChunksCoverAudio

\* So are the words of Qwen, and none of them makes the transcript be refused.
LEMMA QwenKeepsText == ASSUME Text!WellFormed, TextInv, Text!Qwen PROVE TextInv'
<1>1. made = Unmade /\ given.work = "qwen"
  BY DEF Text!Qwen
<1>2. given.track \in SpeechTracks
  BY <1>1 DEF TextInv, Given
<1>3. PICK words \in Text!Answers, drifting \in SUBSET {1} :
          Text!Yields([work |-> "qwen", track |-> given.track, words |-> words],
                      Text!QwenTranscript(words, given.track, drifting))
  BY DEF Text!Qwen
<1>4. /\ given' = [work |-> "qwen", track |-> given.track, words |-> words]
      /\ made' = Text!QwenTranscript(words, given.track, drifting)
  BY <1>3 DEF Text!Yields
<1>5. given'.work = "qwen" /\ given'.track \in SpeechTracks /\ given'.words = words
  BY <1>2, <1>4
<1>6. made'.result = "ok" /\ Text!Tells(made'.segments, DOMAIN words)
  BY <1>2, <1>4, QwenIs
<1>7. QED
  BY <1>5, <1>6 DEF TextInv, Given, Text!TranscriptIsWhole, Text!SummaryCoversTranscript, Text!ChunksCoverAudio

\* A summary is made of all lines.
LEMMA SummarizeKeepsText == ASSUME Text!WellFormed, TextInv, Text!Summarize PROVE TextInv'
<1>1. made = Unmade /\ given.work = "summary"
  BY DEF Text!Summarize
<1>2. given.size \in Documents
  BY <1>1 DEF TextInv, Given
<1> DEFINE Summary(lines) == IF \E i \in DOMAIN lines : lines[i].width > ChunkBytes THEN Text!Failed("invalid_input")
                          ELSE Text!Summarized(Text!ChunkText(lines), given.size)
<1>3. PICK lines \in Transcripts :
          \/ Text!Yields([work |-> "summary", size |-> given.size, lines |-> lines], Summary(lines))
          \/ Text!Yields(given, Text!Failed("invalid_output"))
  BY DEF Text!Summarize
<1> HIDE DEF Summary
<1>4. CASE Text!Yields(given, Text!Failed("invalid_output"))
  <2>1. given' = given /\ made' = Text!Failed("invalid_output")
    BY <1>4 DEF Text!Yields
  <2>2. given'.work = "summary" /\ given'.size \in Documents /\ made'.result = "invalid_output"
    BY <1>1, <1>2, <2>1 DEF Text!Failed
  <2>3. QED
    BY <2>2 DEF TextInv, Given, Text!TranscriptIsWhole, Text!SummaryCoversTranscript, Text!ChunksCoverAudio
<1>5. CASE Text!Yields([work |-> "summary", size |-> given.size, lines |-> lines], Summary(lines))
  <2>1. given' = [work |-> "summary", size |-> given.size, lines |-> lines] /\ made' = Summary(lines)
    BY <1>5 DEF Text!Yields
  <2>2. given'.work = "summary" /\ given'.size = given.size /\ given'.lines = lines
    BY <2>1
  <2>3. /\ made'.result = "ok" => Text!Covers(made'.of, lines)
        /\ made'.result = "input_too_large" => 2 * given.size > ChunkBytes
    <3>1. CASE \E i \in DOMAIN lines : lines[i].width > ChunkBytes
      <4>1. made'.result = "invalid_input"
        BY <2>1, <3>1 DEF Text!Failed, Summary
      <4>2. QED
        BY <4>1
    <3>2. CASE ~\E i \in DOMAIN lines : lines[i].width > ChunkBytes
      <4>1. \A i \in DOMAIN lines : lines[i].width <= ChunkBytes
        <5>1. ChunkBytes \in Nat
          BY DEF Text!WellFormed
        <5>2. \A i \in DOMAIN lines : lines[i].width \in Nat
          <6>1. lines \in Seq(TextLines)
            BY DEF Text!WellFormed, TextLines
          <6>2. \A x \in TextLines : x.width \in Nat
            BY DEF TextLines
          <6>3. \A i \in DOMAIN lines : lines[i] \in TextLines
            BY <6>1
          <6>4. QED
            BY <6>2, <6>3
        <5>3. QED
          BY <3>2, <5>1, <5>2
      <4>2. made' = Text!Summarized(Text!ChunkText(lines), given.size)
        BY <2>1, <3>2 DEF Summary
      <4>3. QED
        BY <1>2, <4>1, <4>2, SummarizedIs
    <3>3. QED
      BY <3>1, <3>2
  <2>4. QED
    BY <1>2, <2>2, <2>3 DEF TextInv, Given, Text!TranscriptIsWhole, Text!SummaryCoversTranscript, Text!ChunksCoverAudio
<1>6. QED
  BY <1>3, <1>4, <1>5

\* Nothing else changes a text.
LEMMA TextStutters == ASSUME TextInv, UNCHANGED Text!vars PROVE TextInv'
<1>1. given' = given /\ made' = made
  BY DEF Text!vars
<1>2. QED
  BY <1>1 DEF TextInv, Given, Text!TranscriptIsWhole, Text!SummaryCoversTranscript, Text!ChunksCoverAudio

\* In every request that may be, this holds always.
THEOREM TextInvariant ==
    ASSUME Text!WellFormed
    PROVE  Text!Spec => []TextInv
<1>1. Text!Init => TextInv
  BY TextInitial
<1>2. TextInv /\ [Text!Next]_(Text!vars) => TextInv'
  BY RangesKeepText, WhisperKeepsText, QwenKeepsText, SummarizeKeepsText, TextStutters DEF Text!Next
<1>3. QED
  BY <1>1, <1>2, PTL DEF Text!Spec

\* The samples of a recording keep its time, and every one is in a range that can
\* be recognized; it is only refused for its duration, or if its pauses are too many.
THEOREM ChunksCoverAudioAlways ==
    ASSUME Text!WellFormed
    PROVE  Text!Spec => []ChunksCoverAudio
<1>1. TextInv => ChunksCoverAudio
  BY DEF TextInv, ChunksCoverAudio
<1>2. QED
  BY <1>1, TextInvariant, PTL

\* A valid answer is never refused, and every place that was said is told once, in order.
THEOREM TranscriptIsWholeAlways ==
    ASSUME Text!WellFormed
    PROVE  Text!Spec => []TranscriptIsWhole
<1>1. TextInv => TranscriptIsWhole
  BY DEF TextInv, TranscriptIsWhole
<1>2. QED
  BY <1>1, TextInvariant, PTL

\* A summary is of the whole transcript, and the rounds are enough for it.
THEOREM SummaryCoversTranscriptAlways ==
    ASSUME Text!WellFormed
    PROVE  Text!Spec => []SummaryCoversTranscript
<1>1. TextInv => SummaryCoversTranscript
  BY DEF TextInv, SummaryCoversTranscript
<1>2. QED
  BY <1>1, TextInvariant, PTL

=============================================================================
