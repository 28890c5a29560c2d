---------------------------- MODULE MossRunProofs ----------------------------
(* Proofs about MossRun, for any number of runs, processes, windows and       *)
(* answers: one effect at a time, no lost wake-up, no worker after a cancel,  *)
(* no entry left in the registry; the ledger's evidence is what the files     *)
(* say, no answer is wasted, and every change of the ledger is the store's.   *)
EXTENDS MossRun, LedgerOperationsProofs

Answers == Bodies \cup {NoOne}

Results == Bodies \cup {"none", "ok", "failed", "rejected", "cancelled", "conflict"}

\* The states of a run; those in between have a lease.
RunStates ==
    {"free", "begin", "recover", "loop", "prepare", "stage", "claim", "pending", "preserve",
     "unlink", "infer", "attest", "write", "complete", "finalize", "fail", "summarize", "plan",
     "publish", "verify", "cleanup", "await", "drop", "unregister", "release"}

TaskStates == {"none", "starting", "running", "released", "counted", "finished"}

Effects == {"none", "prepare", "infer", "map", "summarize", "publish", "verify"}

RunType == run \in [Runs -> [at : RunStates, cancel : BOOLEAN, body : Answers]]

TaskType ==
    task \in [Runs -> [at : TaskStates, effect : Effects, step : 0 .. 2 * NumWindows + 1,
                       result : Results]]

RegistryType ==
    /\ process \in [Runs -> Processes]
    /\ registry \in [Processes -> Runs \cup {NoOne}]
    /\ canceller \in [at : {"idle", "signal", "wait", "armed", "asleep", "returned"},
                      process : Processes \cup {NoOne}, run : Runs \cup {NoOne},
                      woken : BOOLEAN]

EvidenceType ==
    /\ moss \in [prepared : 0 .. NumWindows, completed : Seq(Bodies), pending : Answers,
                 claim : [owner : Runs \cup {NoOne, "gone"}, kind : Nat]]
    /\ files \in [windows : 0 .. NumWindows, plan : BOOLEAN,
                  preserved : SUBSET ((1 .. Anchors) \X Bodies),
                  responses : [1 .. Anchors -> Answers]]
    /\ archived \in BOOLEAN

\* The lease is one process's, and one run's or its task's.
OneLease == \A q, r \in Runs : HoldsLease(q) /\ HoldsLease(r) => q = r

\* A registry names runs of its own process; so does a canceller that waits.
RegistryNames ==
    /\ \A p \in Processes : registry[p] # NoOne => process[registry[p]] = p
    /\ canceller.run # NoOne => process[canceller.run] = canceller.process
    /\ canceller.at \in {"wait", "armed", "asleep"} => canceller.run # NoOne
    /\ canceller.at = "signal" => canceller.process \in Processes

\* A run asks a model only for a response that has no file.
NoFileYet == NextEffect <= Anchors /\ files.responses[NextEffect] = NoOne

\* What a run knows of the evidence while it works on one response.
StageKnows(r) ==
    /\ run[r].at \in {"claim", "pending"} => run[r].body = moss.pending
    /\ run[r].at \in {"preserve", "unlink"} => moss.pending = NoOne
    /\ run[r].at = "unlink" =>
         /\ NextEffect <= Anchors
         /\ <<NextEffect, files.responses[NextEffect]>> \in files.preserved
    /\ run[r].at = "infer" /\ NextEffect # Finalize => NoFileYet
    /\ run[r].at = "await" /\ task[r].effect = "infer" => NoFileYet
    /\ run[r].at = "attest" => NoFileYet /\ run[r].body \in Bodies
    /\ run[r].at \in {"write", "complete"} =>
         NextEffect <= Anchors /\ moss.pending = run[r].body /\ run[r].body \in Bodies

\* How far the preparation of a task has brought the files.
PrepareKnows(r) ==
    TaskOwns(r) /\ task[r].effect = "prepare" =>
       /\ task[r].step <= 2 * NumWindows => task[r].step <= 2 * files.windows
       /\ task[r].step > 2 * NumWindows => files.plan
       /\ task[r].at = "starting" => task[r].step = 0

\* The evidence of the whole generation.
Settled ==
    /\ EvidenceMatchesFiles
    /\ Len(moss.completed) <= Anchors
    /\ moss.pending # NoOne => NextEffect <= Anchors

EvidenceInv == Settled /\ \A r \in Runs : StageKnows(r) /\ PrepareKnows(r)

GoodLedger == ledger \in Ledger /\ Valid(ledger) /\ Ordered(ledger)

MossInv ==
    /\ RunType /\ TaskType /\ RegistryType /\ EvidenceType /\ GoodLedger
    /\ OneLease /\ RegistryNames /\ EvidenceInv

------------------------
(* The store's operations a run, a selection, a retry or a cancel calls. *)

Planned(l) == l.local_moss \in {"ready", "finalized"}

\* All but complete_moss_preparation, which answers for the files itself.
Calls(l, m) ==
    \/ m = l
    \/ m \in BeginMossPreparation(l)
    \/ m \in FailMossPreparation(l) \cup RetryMossPreparation(l)
               \cup MarkMossEffectFailed(l) \cup RetryLocalMoss(l)
    \/ m \in FinalizeMossTranscript(l)
    \/ m \in RecoverMossLocalSummary(l)
    \/ m \in CheckpointSummary(l)
    \/ m \in AbortSummaryBeforeDispatch(l) \cup ResolveSummaryForRetry(l)
    \/ m \in PlanPublication(l)
    \/ \E t \in Targets :
         \/ m \in StartPublicationTarget(l, l.generation, t)
         \/ m \in CheckpointPublicationTarget(l, l.generation, t)
         \/ m \in FailPublicationTarget(l, l.generation, t, FALSE)
    \/ m \in MarkPublicationConflict(l)
    \/ m \in CheckpointCanonicalBackup(l, l.generation)
    \/ m \in RetryPublication(l)
    \/ m \in CheckpointCleanup(l, l.generation)
    \/ m \in Cancel(l)
    \/ m \in Resume(l)

LEMMA CallsAreSound ==
  ASSUME NEW l \in Ledger, Valid(l), Ordered(l), NEW m, Calls(l, m)
  PROVE  Sound(l, m)
<1>1. l.generation \in Nat
  BY LedgerAssumption DEF Ledger
<1>2. CASE m = l
  BY <1>2, SameIsSound
<1>3. CASE m \in BeginMossPreparation(l)
  BY <1>3, BeginMossPreparationSound
<1>4. CASE m \in FailMossPreparation(l) \cup RetryMossPreparation(l)
                   \cup MarkMossEffectFailed(l) \cup RetryLocalMoss(l)
  BY <1>4, MossMovesSound
<1>5. CASE m \in FinalizeMossTranscript(l)
  BY <1>5, FinalizeMossTranscriptSound
<1>6. CASE m \in RecoverMossLocalSummary(l)
  BY <1>6, RecoverMossLocalSummarySound
<1>7. CASE m \in CheckpointSummary(l)
  BY <1>7, CheckpointSummarySound
<1>8. CASE m \in AbortSummaryBeforeDispatch(l) \cup ResolveSummaryForRetry(l)
  BY <1>8, SummaryMovesSound
<1>9. CASE m \in PlanPublication(l)
  BY <1>9, PlanPublicationSound
<1>10. CASE \E t \in Targets :
              \/ m \in StartPublicationTarget(l, l.generation, t)
              \/ m \in CheckpointPublicationTarget(l, l.generation, t)
              \/ m \in FailPublicationTarget(l, l.generation, t, FALSE)
  BY <1>1, <1>10, StartPublicationTargetSound, CheckpointPublicationTargetSound,
     FailPublicationTargetSound
<1>11. CASE m \in MarkPublicationConflict(l)
  BY <1>11, MarkPublicationConflictSound
<1>12. CASE m \in CheckpointCanonicalBackup(l, l.generation)
  BY <1>1, <1>12, CheckpointCanonicalBackupSound
<1>13. CASE m \in RetryPublication(l)
  BY <1>13, RetryPublicationSound
<1>14. CASE m \in CheckpointCleanup(l, l.generation)
  BY <1>1, <1>14, CheckpointCleanupSound
<1>15. CASE m \in Cancel(l)
  BY <1>15, CancelMovesSound
<1>16. CASE m \in Resume(l)
  BY <1>16, ResumeSound
<1> QED
  BY <1>2, <1>3, <1>4, <1>5, <1>6, <1>7, <1>8, <1>9, <1>10, <1>11, <1>12, <1>13, <1>14,
     <1>15, <1>16 DEF Calls

LEMMA ResumePublishingPlansNothing ==
  ASSUME NEW l \in Ledger, NEW m \in ResumePublishing(l)
  PROVE  m.local_moss = l.local_moss
<1>1. CASE m = l
  BY <1>1
<1>2. CASE \E t \in FirstUnverified(l) :
             m \in Mutate([l EXCEPT !.targets[t] = "Ambiguous",
                                    !.state = "PublishAmbiguous"])
  <2>1. PICK t \in FirstUnverified(l) :
          m \in Mutate([l EXCEPT !.targets[t] = "Ambiguous",
                                 !.state = "PublishAmbiguous"])
    BY <1>2
  <2> QED
    BY <2>1 DEF Mutate, When, Ledger
<1> QED
  BY <1>1, <1>2 DEF ResumePublishing

\* None of them makes a plan of the windows.
LEMMA CallsPlanNothing ==
  ASSUME NEW l \in Ledger, NEW m, Calls(l, m), Planned(m)
  PROVE  Planned(l)
<1> USE DEF When, Mutate, Transition, Ledger, Planned
<1>1. CASE m \in BeginMossPreparation(l)
  <2> DEFINE n == [MossSelected(l) EXCEPT !.local_moss = "preparing"]
  <2>1. n.local_moss = "preparing" /\ "local_moss" \in DOMAIN n
    BY DEF MossSelected
  <2> HIDE DEF n
  <2>2. m = [n EXCEPT !.state = "PreparingLocalMoss"]
    BY <1>1 DEF BeginMossPreparation, n
  <2> QED
    BY <2>1, <2>2
<1>2. CASE m \in FailMossPreparation(l) \cup RetryMossPreparation(l)
                   \cup MarkMossEffectFailed(l) \cup RetryLocalMoss(l)
  BY <1>2 DEF FailMossPreparation, RetryMossPreparation, MarkMossEffectFailed,
              RetryLocalMoss
<1>3. CASE m \in FinalizeMossTranscript(l)
  BY <1>3 DEF FinalizeMossTranscript, MossActive
<1>4. CASE m \in RecoverMossLocalSummary(l)
  BY <1>4 DEF RecoverMossLocalSummary
<1>5. CASE m \in CheckpointSummary(l)
  BY <1>5 DEF CheckpointSummary
<1>6. CASE m \in AbortSummaryBeforeDispatch(l) \cup ResolveSummaryForRetry(l)
  BY <1>6 DEF AbortSummaryBeforeDispatch, ResolveSummaryForRetry
<1>7. CASE m \in PlanPublication(l)
  BY <1>7 DEF PlanPublication, NextGeneration
<1>8. CASE \E t \in Targets :
             \/ m \in StartPublicationTarget(l, l.generation, t)
             \/ m \in CheckpointPublicationTarget(l, l.generation, t)
             \/ m \in FailPublicationTarget(l, l.generation, t, FALSE)
  BY <1>8, ZenonT(40) DEF StartPublicationTarget, CheckpointPublicationTarget, FailPublicationTarget
<1>9. CASE m \in MarkPublicationConflict(l)
  BY <1>9 DEF MarkPublicationConflict
<1>10. CASE m \in CheckpointCanonicalBackup(l, l.generation)
  BY <1>10 DEF CheckpointCanonicalBackup
<1>11. CASE m \in RetryPublication(l)
  <2>1. PICK t \in FirstUnverified(l) :
          m \in Transition(l, [l EXCEPT !.targets[t] = "Pending"], "Publishing")
    BY <1>11 DEF RetryPublication
  <2> QED
    BY <2>1
<1>12. CASE m \in CheckpointCleanup(l, l.generation)
  <2> DEFINE k == ScheduleRetention(l)
             n == [k EXCEPT !.temporary_tos_deleted = TRUE]
  <2>1. k \in Ledger /\ k.local_moss = l.local_moss
    BY ScheduleRetentionIsLedger DEF ScheduleRetention
  <2> HIDE DEF k
  <2>2. n.local_moss = k.local_moss /\ n \in Ledger
    BY <2>1
  <2> HIDE DEF n
  <2>3. m = k \/ m = [n EXCEPT !.state = "Complete"]
    BY <1>12 DEF CheckpointCleanup, k, n
  <2> QED
    BY <2>1, <2>2, <2>3
<1>13. CASE m \in Cancel(l)
  BY <1>13 DEF Cancel
<1>14. CASE m \in Resume(l)
  <2>1. CASE m \in ResumePublishing(l)
    BY <2>1, ResumePublishingPlansNothing
  <2>2. CASE m \notin ResumePublishing(l)
    BY <1>14, <2>2, ZenonT(40) DEF Resume
  <2> QED
    BY <2>1, <2>2
<1> QED
  BY <1>1, <1>2, <1>3, <1>4, <1>5, <1>6, <1>7, <1>8, <1>9, <1>10, <1>11, <1>12, <1>13,
     <1>14 DEF Calls

------------------------
(* What a step does to the run and the task it is of. *)

RunOf(r, at, cancel, body) ==
    /\ run' \in [Runs -> [at : RunStates, cancel : BOOLEAN, body : Answers]]
    /\ run'[r].at = at /\ run'[r].cancel = cancel /\ run'[r].body = body
    /\ \A q \in Runs \ {r} : run'[q] = run[q]

TaskOf(r, at, effect, step, result) ==
    /\ task' \in [Runs -> [at : TaskStates, effect : Effects,
                           step : 0 .. 2 * NumWindows + 1, result : Results]]
    /\ task'[r].at = at /\ task'[r].effect = effect
    /\ task'[r].step = step /\ task'[r].result = result
    /\ \A q \in Runs \ {r} : task'[q] = task[q]

LEMMA GoRuns ==
  ASSUME RunType, NEW r \in Runs, NEW at \in RunStates, Go(r, at)
  PROVE  RunOf(r, at, run[r].cancel,
               IF at \in {"write", "complete"} THEN run[r].body ELSE NoOne)
BY DEF RunType, RunOf, Go, Answers

LEMMA CarryRuns ==
  ASSUME RunType, NEW r \in Runs, NEW at \in RunStates, NEW body \in Answers,
         run' = [run EXCEPT ![r].at = at, ![r].body = body]
  PROVE  RunOf(r, at, run[r].cancel, body)
BY DEF RunType, RunOf

LEMMA SpawnTasks ==
  ASSUME TaskType, NEW r \in Runs, NEW effect \in Effects, Spawn(r, effect)
  PROVE  TaskOf(r, "starting", effect, 0, "none")
<1> DEFINE new == [NoTask EXCEPT !.at = "starting", !.effect = effect]
           tasks == [at : TaskStates, effect : Effects, step : 0 .. 2 * NumWindows + 1,
                     result : Results]
<1>1. /\ NoTask \in tasks
      /\ NoTask.step = 0 /\ NoTask.result = "none"
  BY MossAssumption DEF NoTask, TaskStates, Effects, Results
<1>2. /\ new \in tasks
      /\ new.at = "starting" /\ new.effect = effect
      /\ new.step = 0 /\ new.result = "none"
  BY <1>1 DEF TaskStates
<1>3. task' = [task EXCEPT ![r] = new]
  BY DEF Spawn
<1> HIDE DEF new
<1> QED
  BY <1>2, <1>3 DEF TaskType, TaskOf

LEMMA JoinedTasks ==
  ASSUME TaskType, NEW r \in Runs, task' = [task EXCEPT ![r] = NoTask]
  PROVE  TaskOf(r, "none", "none", 0, "none")
BY MossAssumption DEF TaskType, TaskOf, NoTask, TaskStates, Effects, Results

LEMMA AnswerTasks ==
  ASSUME TaskType, NEW r \in Runs, NEW result \in Results, Answer(r, result)
  PROVE  TaskOf(r, "released", task[r].effect, task[r].step, result)
BY DEF TaskType, TaskOf, Answer, TaskStates

LEMMA MoveTasks ==
  ASSUME TaskType, NEW r \in Runs, NEW at \in TaskStates,
         task' = [task EXCEPT ![r].at = at]
  PROVE  TaskOf(r, at, task[r].effect, task[r].step, task[r].result)
BY DEF TaskType, TaskOf

LEMMA AdvanceTasks ==
  ASSUME TaskType, NEW r \in Runs, NEW step \in 0 .. 2 * NumWindows + 1,
         task' = [task EXCEPT ![r].step = step]
  PROVE  TaskOf(r, task[r].at, task[r].effect, step, task[r].result)
BY DEF TaskType, TaskOf

LEMMA SameTasks ==
  ASSUME TaskType, NEW r \in Runs, UNCHANGED task
  PROVE  TaskOf(r, task[r].at, task[r].effect, task[r].step, task[r].result)
BY DEF TaskType, TaskOf

LEMMA SameRuns ==
  ASSUME RunType, NEW r \in Runs, UNCHANGED run
  PROVE  RunOf(r, run[r].at, run[r].cancel, run[r].body)
BY DEF RunType, RunOf

\* Only r's run and task may have changed.
OnlyOf(r) ==
    /\ RunType' /\ TaskType'
    /\ \A q \in Runs \ {r} : run'[q] = run[q] /\ task'[q] = task[q]

LEMMA BothAreOfOne ==
  ASSUME NEW r \in Runs,
         NEW at, NEW cancel, NEW body, RunOf(r, at, cancel, body),
         NEW tat, NEW effect, NEW step, NEW result, TaskOf(r, tat, effect, step, result)
  PROVE  OnlyOf(r)
BY DEF RunOf, TaskOf, OnlyOf, RunType, TaskType

\* While r has the lease nobody else has work to lose.
LEMMA OthersRest ==
  ASSUME RunType, OneLease, NEW r \in Runs, HoldsLease(r), NEW q \in Runs \ {r}
  PROVE  run[q].at \in {"free", "begin"} /\ ~TaskOwns(q)
BY DEF OneLease, HoldsLease

\* A step of whoever has the lease: what is left to show is about r alone.
LEMMA HolderKeeps ==
  ASSUME MossInv, NEW r \in Runs, HoldsLease(r), OnlyOf(r),
         registry' \in {registry, Removed(r)}, UNCHANGED <<process, canceller>>,
         EvidenceType', GoodLedger', Settled', StageKnows(r)', PrepareKnows(r)'
  PROVE  MossInv'
<1> USE DEF MossInv
<1>1. RunType' /\ TaskType' /\ EvidenceType' /\ GoodLedger'
  BY DEF OnlyOf
<1>2. RegistryType'
  BY DEF RegistryType, Removed
<1>3. OneLease'
  BY OthersRest DEF OneLease, HoldsLease, TaskOwns, OnlyOf
<1>4. RegistryNames'
  BY DEF RegistryNames, RegistryType, Removed
<1>5. ASSUME NEW q \in Runs \ {r}
      PROVE  StageKnows(q)' /\ PrepareKnows(q)'
  <2>1. run'[q].at \in {"free", "begin"} /\ task'[q].at \notin {"starting", "running"}
    BY OthersRest DEF OnlyOf, TaskOwns
  <2> QED
    BY <2>1 DEF StageKnows, PrepareKnows, TaskOwns
<1> QED
  BY <1>1, <1>2, <1>3, <1>4, <1>5 DEF EvidenceInv

------------------------
(* Steps that leave the evidence alone. *)

Claimants == [owner : Runs \cup {NoOne, "gone"}, kind : Nat]

\* Of the checkpoint only the claim may have changed.
ClaimOnly == moss' = moss \/ \E claim \in Claimants : moss' = [moss EXCEPT !.claim = claim]

LEMMA ClaimOnlyKeeps ==
  ASSUME EvidenceType, ClaimOnly
  PROVE  /\ moss' \in [prepared : 0 .. NumWindows, completed : Seq(Bodies),
                       pending : Answers, claim : Claimants]
         /\ moss'.prepared = moss.prepared
         /\ moss'.completed = moss.completed
         /\ moss'.pending = moss.pending
BY DEF EvidenceType, ClaimOnly, Claimants

LEMMA CallsKeepGood ==
  ASSUME GoodLedger, Calls(ledger, ledger')
  PROVE  GoodLedger' /\ (Planned(ledger') => Planned(ledger))
BY CallsAreSound, CallsPlanNothing DEF GoodLedger, Sound

LEMMA EvidenceStays ==
  ASSUME EvidenceType, GoodLedger, Settled,
         Calls(ledger, ledger'), ClaimOnly, UNCHANGED files, archived' \in BOOLEAN
  PROVE  /\ EvidenceType' /\ GoodLedger' /\ Settled'
         /\ moss'.pending = moss.pending /\ NextEffect' = NextEffect
<1>1. GoodLedger' /\ (Planned(ledger') => Planned(ledger))
  BY CallsKeepGood
<1>2. /\ moss'.prepared = moss.prepared
      /\ moss'.completed = moss.completed
      /\ moss'.pending = moss.pending
      /\ NextEffect' = NextEffect
  BY ClaimOnlyKeeps DEF NextEffect
<1>3. EvidenceType'
  BY ClaimOnlyKeeps DEF EvidenceType, Claimants
<1>4. Settled'
  BY <1>1, <1>2 DEF Settled, EvidenceMatchesFiles, Planned
<1> QED
  BY <1>1, <1>2, <1>3, <1>4

\* The states of a run that is about one response.
Working ==
    {"claim", "pending", "preserve", "unlink", "infer", "attest", "write", "complete"}

\* What q works on, if anything, is what it worked on before, or starts now.
Rests(q) ==
    /\ run'[q].at \in Working => run'[q].at = run[q].at /\ run'[q].body = run[q].body
    /\ run'[q].at = "await" =>
         \/ task'[q].effect # "infer"
         \/ run[q].at = "await" /\ task'[q].effect = task[q].effect
    /\ TaskOwns(q)' =>
         \/ task'[q].at = "starting" /\ task'[q].step = 0
         \/ /\ TaskOwns(q)
            /\ task'[q].effect = task[q].effect /\ task'[q].step = task[q].step
            /\ task'[q].at \in {task[q].at, "running"}

LEMMA RestKeeps ==
  ASSUME EvidenceType, EvidenceInv, NEW q \in Runs, Rests(q),
         NextEffect' = NextEffect, moss'.pending = moss.pending, UNCHANGED files
  PROVE  StageKnows(q)' /\ PrepareKnows(q)'
<1>1. StageKnows(q) /\ PrepareKnows(q)
  BY DEF EvidenceInv
<1>2. StageKnows(q)'
  BY <1>1 DEF StageKnows, Rests, Working, NoFileYet
<1>3. 0 <= 2 * files.windows /\ ~ (0 > 2 * NumWindows)
  BY MossAssumption DEF EvidenceType
<1>4. PrepareKnows(q)'
  BY <1>1, <1>3 DEF PrepareKnows, Rests, TaskOwns
<1> QED
  BY <1>2, <1>4

LEMMA AllRestKeeps ==
  ASSUME EvidenceType, GoodLedger, EvidenceInv,
         Calls(ledger, ledger'), ClaimOnly, UNCHANGED files, archived' \in BOOLEAN,
         \A q \in Runs : Rests(q)
  PROVE  EvidenceType' /\ GoodLedger' /\ EvidenceInv'
BY EvidenceStays, RestKeeps DEF EvidenceInv

PlainStep(r) ==
    /\ HoldsLease(r) /\ OnlyOf(r) /\ Rests(r)
    /\ registry' \in {registry, Removed(r)} /\ UNCHANGED <<process, canceller>>
    /\ Calls(ledger, ledger') /\ ClaimOnly /\ UNCHANGED files /\ archived' \in BOOLEAN

LEMMA PlainKeeps ==
  ASSUME MossInv, NEW r \in Runs, PlainStep(r)
  PROVE  MossInv'
<1>1. /\ EvidenceType' /\ GoodLedger' /\ Settled'
      /\ moss'.pending = moss.pending /\ NextEffect' = NextEffect
  BY EvidenceStays DEF MossInv, EvidenceInv, PlainStep
<1>2. StageKnows(r)' /\ PrepareKnows(r)'
  BY <1>1, RestKeeps DEF MossInv, PlainStep
<1> QED
  BY <1>1, <1>2, HolderKeeps DEF PlainStep

\* A run goes on, and may have taken the answer of its task.
LEMMA GoIsPlain ==
  ASSUME MossInv, NEW r \in Runs, HoldsLease(r),
         NEW at \in RunStates \ (Working \cup {"await"}), Go(r, at),
         task' = task \/ task' = [task EXCEPT ![r] = NoTask],
         registry' \in {registry, Removed(r)},
         Calls(ledger, ledger'), ClaimOnly, UNCHANGED <<files, archived, process, canceller>>
  PROVE  PlainStep(r)
<1> USE DEF MossInv
<1>1. run'[r].at = at /\ OnlyOf(r)
  <2>1. RunOf(r, at, run[r].cancel,
              IF at \in {"write", "complete"} THEN run[r].body ELSE NoOne)
    BY GoRuns
  <2>2. CASE task' = task
    BY <2>1, <2>2, SameTasks, BothAreOfOne DEF RunOf
  <2>3. CASE task' = [task EXCEPT ![r] = NoTask]
    BY <2>1, <2>3, JoinedTasks, BothAreOfOne DEF RunOf
  <2> QED
    BY <2>2, <2>3
<1>2. task'[r] = task[r] \/ ~TaskOwns(r)'
  BY DEF TaskType, NoTask, TaskOwns
<1> QED
  BY <1>1, <1>2 DEF PlainStep, Rests, TaskOwns, EvidenceType

\* A run starts its next effect.
LEMMA SpawnIsPlain ==
  ASSUME MossInv, NEW r \in Runs, HoldsLease(r),
         NEW effect \in Effects \ {"infer"}, Spawn(r, effect), Go(r, "await"),
         Calls(ledger, ledger'), ClaimOnly,
         UNCHANGED <<files, archived, process, registry, canceller>>
  PROVE  PlainStep(r)
<1> USE DEF MossInv
<1>1. RunOf(r, "await", run[r].cancel, NoOne)
  BY GoRuns DEF RunStates
<1>2. TaskOf(r, "starting", effect, 0, "none")
  BY SpawnTasks
<1>3. OnlyOf(r)
  BY <1>1, <1>2, BothAreOfOne
<1> QED
  BY <1>1, <1>2, <1>3 DEF PlainStep, Rests, RunOf, TaskOf, EvidenceType, Working

LEMMA NoClaimIsOne == NoClaim \in Claimants
BY DEF NoClaim, Claimants

LEMMA SummaryStepsArePlain ==
  ASSUME MossInv, NEW r \in Runs,
         Recover(r) \/ Loop(r) \/ Plan(r) \/ Cleanup(r) \/ JoinSummary(r) \/ JoinVerify(r)
  PROVE  PlainStep(r)
<1>1. HoldsLease(r) /\ ClaimOnly /\ UNCHANGED <<files, archived, process, canceller>>
  BY DEF Recover, Loop, Plan, Cleanup, JoinSummary, JoinVerify, Joined, HoldsLease,
         ClaimOnly
<1>2. /\ registry' = registry
      /\ task' = task \/ task' = [task EXCEPT ![r] = NoTask]
  BY DEF Recover, Loop, Plan, Cleanup, JoinSummary, JoinVerify
<1>3. /\ Calls(ledger, ledger')
      /\ \E at \in RunStates \ (Working \cup {"await"}) : Go(r, at)
  <2> USE DEF Calls, Store, Return, RunStates, Working
  <2>1. CASE Recover(r)
    BY <2>1 DEF Recover
  <2>2. CASE Loop(r)
    BY <2>2 DEF Loop, Effect
  <2>3. CASE Plan(r)
    BY <2>3 DEF Plan
  <2>4. CASE Cleanup(r)
    BY <2>4 DEF Cleanup
  <2>5. CASE JoinSummary(r)
    BY <2>5 DEF JoinSummary
  <2>6. CASE JoinVerify(r)
    BY <2>6 DEF JoinVerify
  <2> QED
    BY <2>1, <2>2, <2>3, <2>4, <2>5, <2>6
<1> QED
  BY <1>1, <1>2, <1>3, GoIsPlain

LEMMA StageEndsArePlain ==
  ASSUME MossInv, NEW r \in Runs,
         \/ JoinPreparation(r) \/ JoinMapping(r) \/ FinalizeTranscript(r) \/ FailStage(r)
         \/ JoinPublish(r) \/ Unregister(r) \/ ReleaseScope(r)
  PROVE  PlainStep(r)
<1> USE DEF JoinPreparation, JoinMapping, FinalizeTranscript, FailStage, JoinPublish,
            Unregister, ReleaseScope
<1>1. HoldsLease(r) /\ UNCHANGED <<files, archived, process, canceller>>
  BY DEF Joined, HoldsLease, durable
<1>2. /\ registry' \in {registry, Removed(r)}
      /\ task' = task \/ task' = [task EXCEPT ![r] = NoTask]
  OBVIOUS
<1>3. ClaimOnly
  BY NoClaimIsOne DEF ClaimOnly, durable
<1>4. /\ Calls(ledger, ledger')
      /\ \E at \in RunStates \ (Working \cup {"await"}) : Go(r, at)
  <2>1. CASE JoinPublish(r)
    BY <2>1 DEF Calls, Store, Return, FirstUnverified, RunStates, Working
  <2>2. CASE JoinPreparation(r)
    BY <2>2 DEF Calls, Return, RunStates, Working
  <2>3. CASE JoinMapping(r)
    BY <2>3 DEF Calls, RunStates, Working, durable
  <2>4. CASE FinalizeTranscript(r)
    BY <2>4 DEF Calls, RunStates, Working
  <2>5. CASE FailStage(r)
    BY <2>5 DEF Calls, Return, RunStates, Working
  <2>6. CASE Unregister(r) \/ ReleaseScope(r)
    BY <2>6 DEF Calls, RunStates, Working, durable
  <2> QED
    BY <2>1, <2>2, <2>3, <2>4, <2>5, <2>6
<1> QED
  BY <1>1, <1>2, <1>3, <1>4, GoIsPlain

LEMMA DropScopeIsPlain ==
  ASSUME MossInv, NEW r \in Runs, DropScope(r)
  PROVE  PlainStep(r)
<1> USE DEF MossInv, DropScope
<1>1. OnlyOf(r) /\ run'[r].at = "unregister"
  <2>1. RunOf(r, "unregister", TRUE, run[r].body)
    BY ZenonT(40) DEF RunType, RunOf, RunStates
  <2> QED
    BY <2>1, SameTasks, BothAreOfOne DEF RunOf
<1> QED
  BY <1>1
     DEF PlainStep, Rests, HoldsLease, TaskOwns, EvidenceType, Working, ClaimOnly, Calls,
              durable

\* ClaimPreparation, StartSummary, StartPublish and StartVerify, or what they
\* do when there is nothing to start.
LEMMA StartsArePlain ==
  ASSUME MossInv, NEW r \in Runs,
         ClaimPreparation(r) \/ StartSummary(r) \/ StartPublish(r) \/ StartVerify(r)
  PROVE  PlainStep(r)
<1>1. CASE ClaimPreparation(r)
  <2>1. HoldsLease(r) /\ Calls(ledger, ledger')
    BY <1>1 DEF ClaimPreparation, HoldsLease, Calls
  <2>2. CASE Spawn(r, "prepare") /\ Go(r, "await")
    <3>1. [owner |-> r, kind |-> 0] \in Claimants
      BY DEF Claimants
    <3>2. ClaimOnly
      BY <1>1, <3>1 DEF ClaimPreparation, ClaimOnly
    <3> QED
      BY <1>1, <2>1, <2>2, <3>2, SpawnIsPlain DEF ClaimPreparation, Effects
  <2>3. CASE UNCHANGED <<moss, task>> /\ (Go(r, "loop") \/ Go(r, "drop"))
    BY <1>1, <2>1, <2>3, GoIsPlain DEF ClaimPreparation, ClaimOnly, RunStates, Working
  <2> QED
    BY <1>1, <2>2, <2>3 DEF ClaimPreparation, Return
<1>2. CASE StartPublish(r)
  <2>1. PICK t \in Targets :
          LET started == StartPublicationTarget(ledger, ledger.generation, t)
          IN  /\ Store(r, started, "await")
              /\ IF started = {} THEN UNCHANGED task ELSE Spawn(r, "publish")
    BY <1>2, LedgerAssumption DEF StartPublish, FirstUnverified, Targets
  <2>2. HoldsLease(r) /\ ClaimOnly /\ Calls(ledger, ledger')
    BY <1>2, <2>1 DEF StartPublish, HoldsLease, ClaimOnly, Calls, Store
  <2>3. CASE Spawn(r, "publish") /\ Go(r, "await")
    BY <1>2, <2>2, <2>3, SpawnIsPlain DEF StartPublish, Effects
  <2>4. CASE UNCHANGED task /\ Go(r, "drop")
    BY <1>2, <2>2, <2>4, GoIsPlain DEF StartPublish, RunStates, Working
  <2> QED
    BY <2>1, <2>3, <2>4 DEF Store, Return
<1>3. CASE StartSummary(r) \/ StartVerify(r)
  BY <1>3, SpawnIsPlain
     DEF StartSummary, StartVerify, HoldsLease, ClaimOnly, Calls, Effects, durable
<1> QED
  BY <1>1, <1>2, <1>3

------------------------
(* The steps of one response. *)

\* A step of r that works on a response, its task being idle or gone on.
ResponseStep(r, at, body) ==
    /\ HoldsLease(r)
    /\ RunOf(r, at, run[r].cancel, body) /\ OnlyOf(r)
    /\ UNCHANGED <<ledger, archived, process, registry, canceller>>
    /\ files'.windows = files.windows /\ files'.plan = files.plan
    /\ task'[r] = task[r] \/ ~TaskOwns(r)' \/ task'[r].effect # "prepare"

LEMMA ResponseKeeps ==
  ASSUME MossInv, NEW r \in Runs, NEW at, NEW body, ResponseStep(r, at, body),
         EvidenceType', Settled', StageKnows(r)'
  PROVE  MossInv'
<1>1. PrepareKnows(r)'
  BY DEF MossInv, EvidenceInv, PrepareKnows, TaskOwns, ResponseStep
<1>2. GoodLedger'
  BY DEF MossInv, GoodLedger, ResponseStep
<1> QED
  BY <1>1, <1>2, HolderKeeps DEF ResponseStep

\* Most of them end in Go and leave the task.
LEMMA GoIsResponseStep ==
  ASSUME MossInv, NEW r \in Runs, HoldsLease(r), NEW at \in RunStates, Go(r, at),
         UNCHANGED <<ledger, archived, process, registry, canceller, task>>,
         files'.windows = files.windows, files'.plan = files.plan
  PROVE  ResponseStep(r, at, IF at \in {"write", "complete"} THEN run[r].body ELSE NoOne)
BY GoRuns, SameTasks, BothAreOfOne DEF ResponseStep, MossInv

LEMMA LoadStageKeeps ==
  ASSUME MossInv, NEW r \in Runs, LoadStage(r)
  PROVE  MossInv'
<1> USE DEF MossInv, LoadStage, durable
<1> DEFINE at == IF Stopped(r) THEN "loop" ELSE "claim"
           body == IF Stopped(r) THEN NoOne ELSE moss.pending
<1>1. at \in RunStates /\ body \in Answers
  BY DEF EvidenceType, Answers, RunStates
<1>2. run' = [run EXCEPT ![r].at = at, ![r].body = body]
  OBVIOUS
<1>3. at \in {"loop", "claim"} /\ (at = "claim" => body = moss.pending)
  OBVIOUS
<1> HIDE DEF at, body
<1>4. ResponseStep(r, at, body)
  BY <1>1, <1>2, CarryRuns, SameTasks, BothAreOfOne DEF ResponseStep, HoldsLease
<1>5. EvidenceType' /\ Settled' /\ moss' = moss
  BY EvidenceStays DEF Calls, ClaimOnly, EvidenceInv, EvidenceType
<1>6. StageKnows(r)'
  BY <1>3, <1>4, <1>5 DEF StageKnows, ResponseStep, RunOf
<1> QED
  BY <1>4, <1>5, <1>6, ResponseKeeps

LEMMA ClaimEffectKeeps ==
  ASSUME MossInv, NEW r \in Runs, ClaimEffect(r)
  PROVE  MossInv'
<1> USE DEF MossInv, ClaimEffect
<1>1. CASE UNCHANGED moss /\ Return(r)
  <2>1. PlainStep(r)
    BY <1>1, GoIsPlain
       DEF Return, Calls, ClaimOnly, HoldsLease, RunStates, Working
  <2> QED
    BY <2>1, PlainKeeps
<1>2. CASE /\ moss' = [moss EXCEPT !.claim = [owner |-> r, kind |-> NextEffect]]
           /\ run' = [run EXCEPT ![r].at = "pending"]
  <2>1. [owner |-> r, kind |-> NextEffect] \in Claimants
    BY DEF Claimants, NextEffect, EvidenceType
  <2>2. ClaimOnly
    BY <1>2, <2>1 DEF ClaimOnly
  <2>3. /\ EvidenceType' /\ Settled'
        /\ moss'.pending = moss.pending /\ NextEffect' = NextEffect
    BY <2>2, EvidenceStays DEF Calls, EvidenceInv, EvidenceType
  <2>4. ResponseStep(r, "pending", run[r].body)
    <3>1. RunOf(r, "pending", run[r].cancel, run[r].body)
      BY <1>2 DEF RunOf, RunType, RunStates
    <3> QED
      BY <3>1, SameTasks, BothAreOfOne DEF ResponseStep, HoldsLease
  <2>5. StageKnows(r)'
    BY <2>3, <2>4 DEF StageKnows, ResponseStep, RunOf, EvidenceInv
  <2> QED
    BY <2>3, <2>4, <2>5, ResponseKeeps
<1> QED
  BY <1>1, <1>2

\* A completed response is the one its file holds.
LEMMA CompleteSettles ==
  ASSUME EvidenceType, Settled, NEW body \in Bodies, Complete(body),
         NextEffect <= Anchors, files.responses[NextEffect] = body,
         UNCHANGED <<ledger, files, archived>>
  PROVE  EvidenceType' /\ Settled'
<1>1. /\ moss.completed \in Seq(Bodies)
      /\ moss'.completed = Append(moss.completed, body)
      /\ moss'.pending = NoOne
      /\ moss'.prepared = moss.prepared
      /\ moss'.claim = NoClaim
  BY DEF EvidenceType, Complete
<1>2. /\ moss'.completed \in Seq(Bodies)
      /\ Len(moss'.completed) = Len(moss.completed) + 1
      /\ Len(moss.completed) \in Nat
      /\ \A k \in 1 .. Len(moss.completed) : moss'.completed[k] = moss.completed[k]
      /\ moss'.completed[Len(moss.completed) + 1] = body
  BY <1>1
<1>3. EvidenceType'
  BY <1>1, <1>2, NoClaimIsOne DEF EvidenceType, Complete, Answers, Claimants
<1>4. \A k \in 1 .. Len(moss'.completed) : files'.responses[k] = moss'.completed[k]
  BY <1>2 DEF Settled, EvidenceMatchesFiles, NextEffect
<1>5. Settled'
  BY <1>1, <1>2, <1>4 DEF Settled, EvidenceMatchesFiles, NextEffect
<1> QED
  BY <1>3, <1>5

LEMMA TakePendingKeeps ==
  ASSUME MossInv, NEW r \in Runs, TakePending(r)
  PROVE  MossInv'
<1> USE DEF MossInv, EvidenceInv
<1>1. /\ HoldsLease(r) /\ run[r].body = moss.pending
      /\ UNCHANGED <<ledger, files, archived, process, registry, task, canceller>>
  BY DEF TakePending, HoldsLease, StageKnows
<1>2. CASE moss.pending = NoOne /\ Go(r, "preserve") /\ UNCHANGED moss
  <2>1. EvidenceType' /\ Settled'
    BY <1>1, <1>2, EvidenceStays DEF Calls, ClaimOnly, EvidenceType
  <2>2. ResponseStep(r, "preserve", NoOne)
    BY <1>1, <1>2, GoIsResponseStep DEF RunStates
  <2>3. StageKnows(r)'
    BY <1>2, <2>2 DEF StageKnows, ResponseStep, RunOf
  <2> QED
    BY <2>1, <2>2, <2>3, ResponseKeeps
<1>3. CASE /\ moss.pending # NoOne
           /\ files.responses[NextEffect] # NoOne /\ CanComplete(r, moss.pending)
           /\ Complete(moss.pending) /\ Go(r, "loop")
  <2>1. moss.pending \in Bodies /\ NextEffect <= Anchors
    BY <1>3 DEF EvidenceType, Answers, Settled
  <2>2. EvidenceType' /\ Settled'
    BY <1>1, <1>3, <2>1, CompleteSettles DEF CanComplete
  <2>3. ResponseStep(r, "loop", NoOne)
    BY <1>1, <1>3, GoIsResponseStep DEF RunStates
  <2>4. StageKnows(r)'
    BY <2>3 DEF StageKnows, ResponseStep, RunOf
  <2> QED
    BY <2>2, <2>3, <2>4, ResponseKeeps
<1>4. CASE moss' = [moss EXCEPT !.pending = NoOne] /\ Go(r, "preserve")
  <2>1. /\ moss'.pending = NoOne /\ moss'.completed = moss.completed
        /\ moss'.prepared = moss.prepared
    BY <1>4 DEF EvidenceType
  <2>2. EvidenceType'
    BY <1>1, <1>4 DEF EvidenceType, Answers
  <2>3. Settled'
    BY <1>1, <2>1 DEF Settled, EvidenceMatchesFiles
  <2>4. ResponseStep(r, "preserve", NoOne)
    BY <1>1, <1>4, GoIsResponseStep DEF RunStates
  <2>5. StageKnows(r)'
    BY <2>1, <2>4 DEF StageKnows, ResponseStep, RunOf
  <2> QED
    BY <2>2, <2>3, <2>4, <2>5, ResponseKeeps
<1>5. CASE Go(r, "fail") /\ UNCHANGED moss
  BY <1>1, <1>5, GoIsPlain, PlainKeeps DEF Calls, ClaimOnly, RunStates, Working
<1> QED
  BY <1>1, <1>2, <1>3, <1>4, <1>5 DEF TakePending

LEMMA PreserveKeeps ==
  ASSUME MossInv, NEW r \in Runs, Preserve(r)
  PROVE  MossInv'
<1> USE DEF MossInv, EvidenceInv, Preserve
<1>1. /\ HoldsLease(r) /\ moss.pending = NoOne /\ StageKnows(r)
      /\ UNCHANGED <<ledger, moss, archived, process, registry, task, canceller>>
  BY DEF HoldsLease, StageKnows
<1>2. NextEffect' = NextEffect /\ NextEffect \in 1 .. Finalize
  BY <1>1, MossAssumption
     DEF NextEffect, Finalize, Anchors, Settled, EvidenceType
<1>3. CASE /\ Unreceipted = Finalize \/ files.responses[Unreceipted] = NoOne
           /\ Go(r, "infer") /\ UNCHANGED files
  <2>1. EvidenceType' /\ Settled'
    BY <1>1, <1>3, EvidenceStays DEF Calls, ClaimOnly, EvidenceType
  <2>2. ResponseStep(r, "infer", NoOne)
    BY <1>1, <1>3, GoIsResponseStep DEF RunStates
  <2>3. StageKnows(r)'
    BY <1>2, <1>3, <2>2, MossAssumption
       DEF StageKnows, ResponseStep, RunOf, NoFileYet, Unreceipted, Finalize, Anchors
  <2> QED
    BY <2>1, <2>2, <2>3, ResponseKeeps
<1>4. CASE /\ Unreceipted # Finalize /\ files.responses[Unreceipted] # NoOne
           /\ files' = [files EXCEPT !.preserved =
                          @ \cup {<<Unreceipted, files.responses[Unreceipted]>>}]
           /\ Go(r, "unlink")
  <2>1. NextEffect \in 1 .. Anchors /\ files.responses[NextEffect] \in Bodies
    BY <1>2, <1>4, MossAssumption
       DEF Unreceipted, Finalize, Anchors, EvidenceType, Answers
  <2>2. /\ files'.preserved =
             files.preserved \cup {<<NextEffect, files.responses[NextEffect]>>}
        /\ files'.responses = files.responses
        /\ files'.windows = files.windows /\ files'.plan = files.plan
    BY <1>4 DEF EvidenceType, Unreceipted
  <2>3. EvidenceType'
    BY <1>1, <1>4, <2>1 DEF EvidenceType, Unreceipted
  <2>4. Settled'
    BY <1>1, <1>2, <2>2 DEF Settled, EvidenceMatchesFiles
  <2>5. ResponseStep(r, "unlink", NoOne)
    BY <1>1, <1>4, <2>2, GoIsResponseStep DEF RunStates
  <2>6. StageKnows(r)'
    BY <1>1, <1>2, <2>1, <2>2, <2>5 DEF StageKnows, ResponseStep, RunOf
  <2> QED
    BY <2>3, <2>4, <2>5, <2>6, ResponseKeeps
<1>5. CASE /\ files' = [files EXCEPT !.responses[Unreceipted] = NoOne]
           /\ Unreceipted # Finalize /\ Go(r, "infer")
  <2>1. NextEffect \in 1 .. Anchors
    BY <1>2, <1>5, MossAssumption DEF Unreceipted, Finalize, Anchors
  <2>2. /\ files'.responses = [files.responses EXCEPT ![NextEffect] = NoOne]
        /\ files'.windows = files.windows /\ files'.plan = files.plan
    BY <1>5 DEF EvidenceType, Unreceipted
  <2>3. EvidenceType'
    BY <1>1, <1>5, <2>1 DEF EvidenceType, Unreceipted, Answers
  <2>4. \A k \in 1 .. Len(moss.completed) : files'.responses[k] = files.responses[k]
    BY <2>1, <2>2 DEF NextEffect, EvidenceType
  <2>5. Settled'
    BY <1>1, <1>2, <2>2, <2>4 DEF Settled, EvidenceMatchesFiles
  <2>6. ResponseStep(r, "infer", NoOne)
    BY <1>1, <1>5, <2>2, GoIsResponseStep DEF RunStates
  <2>7. NoFileYet'
    <3>1. files'.responses[NextEffect] = NoOne
      BY <2>1, <2>2 DEF EvidenceType
    <3>2. NextEffect <= Anchors
      BY <2>1, MossAssumption DEF Anchors
    <3> QED
      BY <1>2, <3>1, <3>2 DEF NoFileYet
  <2>8. StageKnows(r)'
    BY <2>6, <2>7 DEF StageKnows, ResponseStep, RunOf
  <2> QED
    BY <2>3, <2>5, <2>6, <2>8, ResponseKeeps
<1> QED
  BY <1>3, <1>4, <1>5

LEMMA StartInferenceKeeps ==
  ASSUME MossInv, NEW r \in Runs, StartInference(r)
  PROVE  MossInv'
<1> USE DEF MossInv, EvidenceInv, StartInference, durable
<1>1. HoldsLease(r) /\ StageKnows(r)
  BY DEF HoldsLease
<1>2. CASE NextEffect = Finalize
  <2>1. Spawn(r, "map")
    BY <1>2
  <2>2. PlainStep(r)
    BY <1>1, <2>1, SpawnIsPlain DEF Effects, Calls, ClaimOnly
  <2> QED
    BY <2>2, PlainKeeps
<1>3. CASE NextEffect # Finalize
  <2>1. EvidenceType' /\ Settled' /\ NextEffect' = NextEffect
    BY EvidenceStays DEF Calls, ClaimOnly, EvidenceType
  <2>2. TaskOf(r, "starting", "infer", 0, "none")
    BY <1>3, SpawnTasks DEF Effects
  <2>3. ResponseStep(r, "await", NoOne)
    <3>1. RunOf(r, "await", run[r].cancel, NoOne)
      BY GoRuns DEF RunStates
    <3> QED
      BY <1>1, <2>2, <3>1, BothAreOfOne DEF ResponseStep, TaskOf
  <2>4. StageKnows(r)'
    BY <1>1, <1>3, <2>1, <2>3 DEF StageKnows, ResponseStep, RunOf, NoFileYet
  <2> QED
    BY <2>1, <2>3, <2>4, ResponseKeeps
<1> QED
  BY <1>2, <1>3

LEMMA JoinInferenceKeeps ==
  ASSUME MossInv, NEW r \in Runs, JoinInference(r)
  PROVE  MossInv'
<1> USE DEF MossInv, EvidenceInv, JoinInference, durable
<1>1. HoldsLease(r) /\ NoFileYet
  BY DEF HoldsLease, Joined, StageKnows
<1>2. CASE Go(r, "fail") \/ Go(r, "loop")
  <2>1. PlainStep(r)
    BY <1>1, <1>2, GoIsPlain DEF RunStates, Working, Calls, ClaimOnly
  <2> QED
    BY <2>1, PlainKeeps
<1>3. CASE /\ task[r].result \in Bodies
           /\ run' = [run EXCEPT ![r].at = "attest", ![r].body = task[r].result]
  <2>1. EvidenceType' /\ Settled' /\ NextEffect' = NextEffect
    BY EvidenceStays DEF Calls, ClaimOnly, EvidenceType
  <2>2. TaskOf(r, "none", "none", 0, "none")
    BY JoinedTasks
  <2>3. ResponseStep(r, "attest", task[r].result)
    <3>1. RunOf(r, "attest", run[r].cancel, task[r].result)
      BY <1>3, CarryRuns DEF RunStates, Answers
    <3> QED
      BY <1>1, <2>2, <3>1, BothAreOfOne DEF ResponseStep, TaskOf
  <2>4. StageKnows(r)'
    BY <1>1, <1>3, <2>1, <2>3 DEF StageKnows, ResponseStep, RunOf, NoFileYet
  <2> QED
    BY <2>1, <2>3, <2>4, ResponseKeeps
<1> QED
  BY <1>2, <1>3

LEMMA AttestKeeps ==
  ASSUME MossInv, NEW r \in Runs, Attest(r)
  PROVE  MossInv'
<1> USE DEF MossInv, EvidenceInv, Attest
<1>1. HoldsLease(r) /\ NoFileYet /\ run[r].body \in Bodies
  BY DEF HoldsLease, StageKnows
<1>2. CASE Go(r, "fail") /\ UNCHANGED moss
  BY <1>1, <1>2, GoIsPlain, PlainKeeps DEF Calls, ClaimOnly, RunStates, Working
<1>3. CASE moss' = [moss EXCEPT !.pending = run[r].body] /\ Go(r, "write")
  <2>1. /\ moss'.pending = run[r].body /\ moss'.completed = moss.completed
        /\ moss'.prepared = moss.prepared
    BY <1>3 DEF EvidenceType
  <2>2. EvidenceType'
    BY <1>1, <1>3 DEF EvidenceType, Answers
  <2>3. Settled'
    BY <1>1, <2>1 DEF Settled, EvidenceMatchesFiles, NoFileYet, NextEffect
  <2>4. ResponseStep(r, "write", run[r].body)
    BY <1>1, <1>3, GoIsResponseStep DEF RunStates
  <2>5. StageKnows(r)'
    BY <1>1, <2>1, <2>4 DEF StageKnows, ResponseStep, RunOf, NoFileYet, NextEffect
  <2> QED
    BY <2>2, <2>3, <2>4, <2>5, ResponseKeeps
<1> QED
  BY <1>2, <1>3

LEMMA WriteKeeps ==
  ASSUME MossInv, NEW r \in Runs, Write(r)
  PROVE  MossInv'
<1> USE DEF MossInv, EvidenceInv, Write
<1>1. /\ HoldsLease(r)
      /\ NextEffect <= Anchors /\ moss.pending = run[r].body /\ run[r].body \in Bodies
  BY DEF HoldsLease, StageKnows
<1>2. CASE Go(r, "fail") /\ UNCHANGED files
  BY <1>1, <1>2, GoIsPlain, PlainKeeps
     DEF Calls, ClaimOnly, RunStates, Working, EvidenceType
<1>3. CASE /\ files' = [files EXCEPT !.responses[NextEffect] = run[r].body]
           /\ Go(r, "complete")
  <2>1. NextEffect \in 1 .. Anchors /\ NextEffect' = NextEffect
    BY <1>1, MossAssumption DEF NextEffect, Anchors, EvidenceType
  <2>2. /\ files'.responses = [files.responses EXCEPT ![NextEffect] = run[r].body]
        /\ files'.windows = files.windows /\ files'.plan = files.plan
    BY <1>3 DEF EvidenceType
  <2>3. EvidenceType'
    BY <1>1, <1>3, <2>1 DEF EvidenceType, Answers
  <2>4. \A k \in 1 .. Len(moss.completed) : files'.responses[k] = files.responses[k]
    BY <2>1, <2>2 DEF NextEffect, EvidenceType
  <2>5. files'.responses[NextEffect] = moss.pending
    BY <1>1, <2>1, <2>2 DEF EvidenceType
  <2>6. Settled'
    BY <1>1, <2>1, <2>2, <2>4, <2>5 DEF Settled, EvidenceMatchesFiles
  <2>7. ResponseStep(r, "complete", run[r].body)
    BY <1>1, <1>3, <2>2, GoIsResponseStep DEF RunStates
  <2>8. StageKnows(r)'
    BY <1>1, <2>1, <2>7 DEF StageKnows, ResponseStep, RunOf
  <2> QED
    BY <2>3, <2>6, <2>7, <2>8, ResponseKeeps
<1> QED
  BY <1>2, <1>3

LEMMA CompleteEffectKeeps ==
  ASSUME MossInv, NEW r \in Runs, CompleteEffect(r)
  PROVE  MossInv'
<1> USE DEF MossInv, EvidenceInv, CompleteEffect
<1>1. HoldsLease(r) /\ NextEffect <= Anchors /\ run[r].body \in Bodies
  BY DEF HoldsLease, StageKnows
<1>2. CASE Go(r, "fail") /\ UNCHANGED moss
  BY <1>1, <1>2, GoIsPlain, PlainKeeps
     DEF Calls, ClaimOnly, RunStates, Working, EvidenceType
<1>3. CASE /\ CanComplete(r, run[r].body) /\ Complete(run[r].body)
           /\ Go(r, "loop")
  <2>1. EvidenceType' /\ Settled'
    BY <1>1, <1>3, CompleteSettles DEF CanComplete
  <2>2. ResponseStep(r, "loop", NoOne)
    BY <1>1, <1>3, GoIsResponseStep DEF RunStates
  <2>3. StageKnows(r)'
    BY <2>2 DEF StageKnows, ResponseStep, RunOf
  <2> QED
    BY <2>1, <2>2, <2>3, ResponseKeeps
<1> QED
  BY <1>2, <1>3

\* Every step of a run.
LEMMA RunStepKeeps ==
  ASSUME MossInv, NEW r \in Runs, RunStep(r)
  PROVE  MossInv'
BY PlainKeeps, SummaryStepsArePlain, StageEndsArePlain, DropScopeIsPlain, StartsArePlain,
   LoadStageKeeps, ClaimEffectKeeps, TakePendingKeeps, PreserveKeeps, StartInferenceKeeps,
   JoinInferenceKeeps, AttestKeeps, WriteKeeps, CompleteEffectKeeps DEF RunStep

------------------------
(* The steps of a task. *)

\* The task of r starts, answers or is joined by nobody; its run stays.
LEMMA TaskMoveIsPlain ==
  ASSUME MossInv, NEW r \in Runs, TaskOwns(r),
         NEW at \in {"running", "released"}, NEW result,
         TaskOf(r, at, task[r].effect, task[r].step, result),
         UNCHANGED <<ledger, moss, files, process, registry, run, canceller>>,
         archived' \in BOOLEAN
  PROVE  PlainStep(r)
<1>1. OnlyOf(r)
  BY SameRuns, BothAreOfOne DEF MossInv
<1> QED
  BY <1>1 DEF PlainStep, Rests, HoldsLease, TaskOwns, TaskOf, Calls, ClaimOnly

LEMMA StartsAndAnswersArePlain ==
  ASSUME MossInv, NEW r \in Runs,
         StartTask(r) \/ EndWorker(r) \/ Archive(r) \/ ArchiveConflict(r)
  PROVE  PlainStep(r)
<1> USE DEF MossInv
<1>1. /\ TaskOwns(r) /\ archived' \in BOOLEAN
      /\ UNCHANGED <<ledger, moss, files, process, registry, run, canceller>>
  BY DEF StartTask, EndWorker, Archive, ArchiveConflict, TaskOwns, EvidenceType, durable
<1>2. CASE task' = [task EXCEPT ![r].at = "running"]
  BY <1>1, <1>2, MoveTasks, TaskMoveIsPlain DEF TaskStates
<1>3. CASE \E result \in Results : Answer(r, result)
  BY <1>1, <1>3, AnswerTasks, TaskMoveIsPlain
<1> QED
  BY <1>2, <1>3 DEF StartTask, EndWorker, Archive, ArchiveConflict, Results

\* The files of a preparation do not touch the responses.
LEMMA PreparingKeepsStage ==
  ASSUME MossInv, NEW r \in Runs,
         NEW at, NEW step, NEW result, TaskOf(r, at, task[r].effect, step, result),
         UNCHANGED run,
         moss'.pending = moss.pending, moss'.completed = moss.completed,
         files'.responses = files.responses, files'.preserved = files.preserved
  PROVE  StageKnows(r)' /\ OnlyOf(r)
<1>1. OnlyOf(r)
  BY SameRuns, BothAreOfOne DEF MossInv
<1>2. StageKnows(r)
  BY DEF MossInv, EvidenceInv
<1> QED
  BY <1>1, <1>2 DEF StageKnows, TaskOf, NoFileYet, NextEffect

\* One file or checkpoint further, each after what it rests on.
LEMMA PrepareKeeps ==
  ASSUME MossInv, NEW r \in Runs, Prepare(r)
  PROVE  MossInv'
<1> DEFINE step == task[r].step
           window == step \div 2
           advance == task' = [task EXCEPT ![r].step = step + 1]
<1> USE DEF MossInv, EvidenceInv
<1>1. /\ TaskOwns(r) /\ HoldsLease(r) /\ PrepareKnows(r)
      /\ task[r].at = "running" /\ task[r].effect = "prepare"
      /\ UNCHANGED <<process, registry, run, canceller>>
  BY DEF Prepare, TaskOwns, HoldsLease
<1>2. /\ step \in 0 .. 2 * NumWindows + 1 /\ NumWindows \in Nat \ {0}
      /\ files.windows \in 0 .. NumWindows /\ moss.prepared \in 0 .. NumWindows
      /\ moss.prepared <= files.windows
  BY MossAssumption DEF TaskType, EvidenceType, Settled, EvidenceMatchesFiles
<1>3. CASE Answer(r, "failed") /\ UNCHANGED durable
  <2>1. PlainStep(r)
    BY <1>1, <1>3, AnswerTasks, TaskMoveIsPlain DEF Results, durable, EvidenceType
  <2> QED
    BY <2>1, PlainKeeps
<1>4. CASE /\ window < NumWindows /\ step % 2 = 0
           /\ files' = [files EXCEPT !.windows = IF window < @ THEN @ ELSE window + 1]
           /\ advance /\ UNCHANGED <<ledger, moss, archived>>
  <2>1. step = 2 * window /\ window \in Nat
    BY <1>2, <1>4
  <2>2. step + 1 \in 0 .. 2 * NumWindows + 1 /\ step + 1 <= 2 * NumWindows
    BY <1>2, <1>4, <2>1
  <2>3. /\ files'.windows \in 0 .. NumWindows
        /\ files'.windows >= files.windows /\ files'.windows >= window + 1
        /\ files'.responses = files.responses /\ files'.preserved = files.preserved
        /\ files'.plan = files.plan
    BY <1>2, <1>4, <2>1, SMTT(30) DEF EvidenceType
  <2>4. TaskOf(r, "running", "prepare", step + 1, task[r].result)
    BY <1>1, <1>4, <2>2, AdvanceTasks
  <2>5. EvidenceType'
    BY <1>4, <2>3 DEF EvidenceType
  <2>6. Settled'
    BY <1>2, <1>4, <2>3 DEF Settled, EvidenceMatchesFiles, NextEffect
  <2>7. StageKnows(r)' /\ OnlyOf(r)
    BY <1>1, <1>4, <2>3, <2>4, PreparingKeepsStage
  <2>8. PrepareKnows(r)'
    BY <1>2, <2>1, <2>2, <2>3, <2>4 DEF PrepareKnows, TaskOf
  <2> QED
    BY <1>1, <1>4, <2>5, <2>6, <2>7, <2>8, HolderKeeps DEF GoodLedger
<1>5. CASE /\ window < NumWindows /\ step % 2 = 1
           /\ moss' = [moss EXCEPT !.prepared = IF window < @ THEN @ ELSE window + 1]
           /\ advance /\ UNCHANGED <<ledger, files, archived>>
  <2>1. step = 2 * window + 1 /\ window \in Nat
    BY <1>2, <1>5
  <2>2. step + 1 \in 0 .. 2 * NumWindows + 1 /\ window + 1 <= files.windows
    BY <1>1, <1>2, <1>5, <2>1 DEF PrepareKnows
  <2>3. /\ moss'.prepared \in 0 .. NumWindows /\ moss'.prepared <= files.windows
        /\ moss'.completed = moss.completed /\ moss'.pending = moss.pending
    <3>1. /\ moss'.prepared \in {moss.prepared, window + 1}
          /\ moss'.completed = moss.completed /\ moss'.pending = moss.pending
      BY <1>5 DEF EvidenceType
    <3>2. window + 1 \in 0 .. NumWindows
      BY <1>2, <1>5, <2>1
    <3> QED
      BY <1>2, <2>2, <3>1, <3>2
  <2>4. TaskOf(r, "running", "prepare", step + 1, task[r].result)
    BY <1>1, <1>5, <2>2, AdvanceTasks
  <2>5. EvidenceType'
    BY <1>5, <2>3 DEF EvidenceType
  <2>6. Settled'
    BY <1>5, <2>3 DEF Settled, EvidenceMatchesFiles, NextEffect
  <2>7. StageKnows(r)' /\ OnlyOf(r)
    BY <1>1, <1>5, <2>3, <2>4, PreparingKeepsStage
  <2>8. PrepareKnows(r)'
    BY <1>2, <1>5, <2>1, <2>2, <2>4 DEF PrepareKnows, TaskOf
  <2> QED
    BY <1>1, <1>5, <2>5, <2>6, <2>7, <2>8, HolderKeeps DEF GoodLedger
<1>6. CASE /\ step = 2 * NumWindows
           /\ files' = [files EXCEPT !.plan = TRUE]
           /\ advance /\ UNCHANGED <<ledger, moss, archived>>
  <2>1. /\ files'.plan /\ files'.windows = files.windows
        /\ files'.responses = files.responses /\ files'.preserved = files.preserved
    BY <1>6 DEF EvidenceType
  <2>2. TaskOf(r, "running", "prepare", step + 1, task[r].result)
    <3>1. step + 1 \in 0 .. 2 * NumWindows + 1
      BY <1>2, <1>6
    <3> QED
      BY <1>1, <1>6, <3>1, AdvanceTasks
  <2>3. EvidenceType'
    BY <1>6 DEF EvidenceType
  <2>4. Settled'
    BY <1>2, <1>6, <2>1 DEF Settled, EvidenceMatchesFiles, NextEffect
  <2>5. StageKnows(r)' /\ OnlyOf(r)
    BY <1>1, <1>6, <2>1, <2>2, PreparingKeepsStage
  <2>6. PrepareKnows(r)'
    BY <1>2, <1>6, <2>1, <2>2 DEF PrepareKnows, TaskOf
  <2> QED
    BY <1>1, <1>6, <2>3, <2>4, <2>5, <2>6, HolderKeeps DEF GoodLedger
<1>7. CASE /\ step = 2 * NumWindows + 1
           /\ ledger' \in CompleteMossPreparation(ledger)
           /\ moss' = [moss EXCEPT !.claim = NoClaim]
           /\ Answer(r, "ok") /\ UNCHANGED <<files, archived>>
  <2>1. files.plan
    BY <1>1, <1>2, <1>7 DEF PrepareKnows
  <2>2. GoodLedger'
    BY <1>7, CompleteMossPreparationSound DEF GoodLedger, Sound
  <2>3. ClaimOnly
    BY <1>7, NoClaimIsOne DEF ClaimOnly
  <2>4. /\ moss'.prepared = moss.prepared /\ moss'.completed = moss.completed
        /\ moss'.pending = moss.pending
    BY <2>3, ClaimOnlyKeeps
  <2>5. EvidenceType'
    BY <1>7, <2>3, ClaimOnlyKeeps DEF EvidenceType, Claimants
  <2>6. Settled'
    BY <1>7, <2>1, <2>4 DEF Settled, EvidenceMatchesFiles, NextEffect
  <2>7. TaskOf(r, "released", "prepare", step, "ok")
    BY <1>1, <1>7, AnswerTasks DEF Results
  <2>8. StageKnows(r)' /\ OnlyOf(r)
    BY <1>1, <1>7, <2>4, <2>7, PreparingKeepsStage
  <2>9. PrepareKnows(r)'
    BY <2>7 DEF PrepareKnows, TaskOf, TaskOwns
  <2> QED
    BY <1>1, <1>7, <2>2, <2>5, <2>6, <2>8, <2>9, HolderKeeps
<1> QED
  BY <1>3, <1>4, <1>5, <1>6, <1>7 DEF Prepare

------------------------
(* The steps nobody needs the lease for. *)

\* Nobody new gets the lease.
LEMMA LeaseStaysOne ==
  ASSUME OneLease, \A q \in Runs : HoldsLease(q)' => HoldsLease(q)
  PROVE  OneLease'
BY DEF OneLease

LEMMA CountDownKeeps ==
  ASSUME MossInv, NEW r \in Runs, CountDown(r)
  PROVE  MossInv'
<1> USE DEF MossInv, CountDown, durable
<1>1. TaskOf(r, "counted", task[r].effect, task[r].step, task[r].result)
  BY MoveTasks DEF TaskStates
<1>2. \A q \in Runs : Rests(q) /\ (HoldsLease(q)' => HoldsLease(q))
  BY <1>1 DEF Rests, TaskOf, TaskOwns, HoldsLease
<1>3. RegistryType' /\ RegistryNames'
  BY DEF RegistryType, RegistryNames
<1>4. RunType' /\ TaskType'
  BY <1>1 DEF TaskOf, TaskType, RunType
<1>5. EvidenceType' /\ GoodLedger' /\ EvidenceInv'
  BY <1>2, AllRestKeeps DEF Calls, ClaimOnly, EvidenceType
<1> QED
  BY <1>2, <1>3, <1>4, <1>5, LeaseStaysOne

LEMMA EndTaskKeeps ==
  ASSUME MossInv, NEW r \in Runs, EndTask(r)
  PROVE  MossInv'
<1> USE DEF MossInv, EndTask, durable
<1>1. \E effect, step, result : TaskOf(r, "finished", effect, step, result)
                                  \/ TaskOf(r, "none", effect, step, result)
  <2>1. CASE run[r].at = "await"
    <3>1. task' = [task EXCEPT ![r].at = "finished"]
      BY <2>1 DEF TaskType
    <3> QED
      BY <3>1, MoveTasks DEF TaskStates
  <2>2. CASE run[r].at # "await"
    BY <2>2, JoinedTasks
  <2> QED
    BY <2>1, <2>2
<1>2. run[r].at = "await" => task'[r].effect = task[r].effect
  BY DEF TaskType
<1>3. \A q \in Runs : Rests(q) /\ (HoldsLease(q)' => HoldsLease(q))
  BY <1>1, <1>2 DEF Rests, TaskOf, TaskOwns, HoldsLease
<1>4. RegistryType' /\ RegistryNames'
  BY DEF RegistryType, RegistryNames, Removed
<1>5. RunType' /\ TaskType'
  BY <1>1 DEF TaskOf, TaskType, RunType
<1>6. EvidenceType' /\ GoodLedger' /\ EvidenceInv'
  BY <1>3, AllRestKeeps DEF Calls, ClaimOnly, EvidenceType
<1> QED
  BY <1>3, <1>4, <1>5, <1>6, LeaseStaysOne

LEMMA DropCallerKeeps ==
  ASSUME MossInv, NEW r \in Runs, DropCaller(r)
  PROVE  MossInv'
<1> USE DEF MossInv, DropCaller, durable
<1>1. RunOf(r, "drop", run[r].cancel, NoOne)
  BY GoRuns DEF Return, RunStates
<1>2. TaskType' /\ OnlyOf(r)
  <2>1. CASE task' = [task EXCEPT ![r] = NoTask]
    BY <1>1, <2>1, JoinedTasks, BothAreOfOne DEF OnlyOf
  <2>2. CASE task' = task
    BY <1>1, <2>2, SameTasks, BothAreOfOne DEF OnlyOf
  <2> QED
    BY <2>1, <2>2 DEF TaskType
<1>3. task'[r] = task[r] \/ ~TaskOwns(r)'
  BY DEF TaskType, NoTask, TaskOwns
<1>4. PlainStep(r)
  BY <1>1, <1>2, <1>3
     DEF PlainStep, Rests, RunOf, HoldsLease, TaskOwns, Calls, ClaimOnly, EvidenceType,
         Working
<1> QED
  BY <1>4, PlainKeeps

\* Whom a dead session's claim names makes no difference to the evidence.
LEMMA ForgetIsClaimOnly ==
  ASSUME EvidenceType, NEW sessions, Forget(sessions)
  PROVE  ClaimOnly
<1>1. CASE moss' = moss
  BY <1>1 DEF ClaimOnly
<1>2. CASE moss' = [moss EXCEPT !.claim.owner = "gone"]
  <2> DEFINE claim == [moss.claim EXCEPT !.owner = "gone"]
  <2>1. claim \in Claimants
    BY DEF EvidenceType, Claimants
  <2>2. moss' = [moss EXCEPT !.claim = claim]
    BY <1>2
  <2> QED
    BY <2>1, <2>2 DEF ClaimOnly
<1> QED
  BY <1>1, <1>2 DEF Forget

LEMMA IdleIsARun ==
  /\ Idle \in [at : RunStates, cancel : BOOLEAN, body : Answers]
  /\ Idle.at = "free"
BY DEF Idle, RunStates, Answers

LEMMA LoadKeeps ==
  ASSUME MossInv, NEW r \in Runs, Load(r)
  PROVE  MossInv'
<1> USE DEF MossInv, Load
<1>1. RunType' /\ run'[r].at = "begin" /\ \A q \in Runs \ {r} : run'[q] = run[q]
  <2> DEFINE new == [Idle EXCEPT !.at = "begin"]
  <2>1. new \in [at : RunStates, cancel : BOOLEAN, body : Answers] /\ new.at = "begin"
    BY IdleIsARun DEF RunStates
  <2>2. run' = [run EXCEPT ![r] = new]
    OBVIOUS
  <2> HIDE DEF new
  <2> QED
    BY <2>1, <2>2 DEF RunType
<1>2. \A q \in Runs : Rests(q) /\ (HoldsLease(q)' => HoldsLease(q))
  BY <1>1 DEF Rests, TaskOwns, HoldsLease, Working
<1>3. TaskType' /\ RegistryType' /\ RegistryNames'
  BY DEF TaskType, RegistryType, RegistryNames
<1>4. EvidenceType' /\ GoodLedger' /\ EvidenceInv'
  BY <1>2, ForgetIsClaimOnly, AllRestKeeps DEF Calls, EvidenceType
<1> QED
  BY <1>1, <1>2, <1>3, <1>4, LeaseStaysOne

LEMMA BeginKeeps ==
  ASSUME MossInv, NEW r \in Runs, Begin(r)
  PROVE  MossInv'
<1> USE DEF MossInv, Begin, durable
<1>1. TaskType' /\ ClaimOnly /\ Calls(ledger, ledger') /\ archived' \in BOOLEAN
  BY DEF TaskType, ClaimOnly, Calls, EvidenceType
<1>2. CASE run' = [run EXCEPT ![r] = Idle] /\ UNCHANGED registry
  <2>1. RunType' /\ run'[r].at = "free" /\ \A q \in Runs \ {r} : run'[q] = run[q]
    BY <1>2, IdleIsARun DEF RunType
  <2>2. \A q \in Runs : Rests(q) /\ (HoldsLease(q)' => HoldsLease(q))
    BY <2>1 DEF Rests, TaskOwns, HoldsLease, Working
  <2>3. RegistryType' /\ RegistryNames'
    BY <1>2 DEF RegistryType, RegistryNames
  <2>4. EvidenceType' /\ GoodLedger' /\ EvidenceInv'
    BY <1>1, <2>2, AllRestKeeps
  <2> QED
    BY <1>1, <2>1, <2>2, <2>3, <2>4, LeaseStaysOne
<1>3. CASE /\ LeaseFree /\ Go(r, "recover")
           /\ registry' = [registry EXCEPT ![process[r]] = r]
  <2>1. RunOf(r, "recover", run[r].cancel, NoOne)
    BY <1>3, GoRuns DEF RunStates
  <2>2. \A q \in Runs : Rests(q)
    BY <2>1 DEF Rests, RunOf, TaskOwns, Working
  <2>3. OneLease'
    BY <1>3, <2>1 DEF OneLease, LeaseFree, HoldsLease, TaskOwns, RunOf
  <2>4. RunType' /\ RegistryType' /\ RegistryNames'
    BY <1>3, <2>1 DEF RunType, RunOf, RegistryType, RegistryNames
  <2>5. EvidenceType' /\ GoodLedger' /\ EvidenceInv'
    BY <1>1, <2>2, AllRestKeeps
  <2> QED
    BY <1>1, <2>3, <2>4, <2>5
<1> QED
  BY <1>2, <1>3

LEMMA CrashKeeps ==
  ASSUME MossInv, NEW p \in Processes, Crash(p)
  PROVE  MossInv'
<1> DEFINE dead == {r \in Runs : process[r] = p}
<1> USE DEF MossInv, Crash
<1>1. \A q \in Runs : /\ run'[q] = IF q \in dead THEN Idle ELSE run[q]
                      /\ task'[q] = IF q \in dead THEN NoTask ELSE task[q]
  OBVIOUS
<1>2. RunType'
  BY IdleIsARun DEF RunType
<1>3. TaskType'
  <2>1. NoTask \in [at : TaskStates, effect : Effects, step : 0 .. 2 * NumWindows + 1,
                    result : Results]
    BY MossAssumption DEF NoTask, TaskStates, Effects, Results
  <2> QED
    BY <2>1 DEF TaskType
<1>4. \A q \in Runs : Rests(q) /\ (HoldsLease(q)' => HoldsLease(q))
  BY <1>1, IdleIsARun DEF Rests, TaskOwns, HoldsLease, Working, NoTask
<1>5. RegistryType'
  BY DEF RegistryType, NoCancel
<1>6. RegistryNames'
  BY MossAssumption DEF RegistryNames, RegistryType, NoCancel
<1>7. EvidenceType' /\ GoodLedger' /\ EvidenceInv'
  BY <1>4, ForgetIsClaimOnly, AllRestKeeps, SMTT(30) DEF Calls, EvidenceType
<1> QED
  BY <1>2, <1>3, <1>4, <1>5, <1>6, <1>7, LeaseStaysOne

\* The steps of a cancel and those of the user's calls between two runs.
LEMMA CallerKeeps ==
  ASSUME MossInv,
         \/ SelectFullMoss \/ Retry \/ CancelStep \/ UNCHANGED vars
         \/ \E p \in Processes : CancelStore(p)
  PROVE  MossInv'
<1> USE DEF MossInv
<1>1. Calls(ledger, ledger')
  BY DEF SelectFullMoss, Retry, CancelStep, CancelStore, Signal, Arm, CheckTasks, Wake,
         Calls, vars, durable
<1>2. ClaimOnly
  BY NoClaimIsOne
     DEF SelectFullMoss, Retry, CancelStep, CancelStore, Signal, Arm, CheckTasks, Wake,
         ClaimOnly, vars, durable
<1>3. UNCHANGED <<files, archived, process, registry, task>>
  BY DEF SelectFullMoss, Retry, CancelStep, CancelStore, Signal, Arm, CheckTasks, Wake,
         vars, durable
<1>4. /\ RunType'
      /\ \A q \in Runs : run'[q].at = run[q].at /\ run'[q].body = run[q].body
  <2>1. CASE UNCHANGED run
    BY <2>1 DEF RunType
  <2>2. CASE \E r \in Runs : run' = [run EXCEPT ![r].cancel = TRUE]
    <3>1. PICK r \in Runs : run' = [run EXCEPT ![r].cancel = TRUE]
      BY <2>2
    <3>2. RunOf(r, run[r].at, TRUE, run[r].body)
      BY <3>1 DEF RunType, RunOf
    <3> QED
      BY <3>2 DEF RunOf, RunType
  <2>3. CASE Signal
    <3>1. UNCHANGED run \/ \E r \in Runs : run' = [run EXCEPT ![r].cancel = TRUE]
      BY <2>3 DEF Signal, RegistryType, RegistryNames
    <3> QED
      BY <2>1, <2>2, <3>1
  <2> QED
    BY <2>1, <2>3
       DEF SelectFullMoss, Retry, CancelStep, CancelStore, Arm, CheckTasks, Wake, vars
<1>5. \A q \in Runs : Rests(q) /\ (HoldsLease(q)' => HoldsLease(q))
  BY <1>3, <1>4 DEF Rests, TaskOwns, HoldsLease
<1>6. RegistryType'
  <2>1. CASE \E p \in Processes : CancelStore(p)
    <3> DEFINE cancellers ==
                 [at : {"idle", "signal", "wait", "armed", "asleep", "returned"},
                  process : Processes \cup {NoOne}, run : Runs \cup {NoOne},
                  woken : BOOLEAN]
    <3>1. NoCancel \in cancellers
      BY DEF NoCancel
    <3>2. \A p \in Processes :
             [NoCancel EXCEPT !.at = "signal", !.process = p] \in cancellers
      BY <3>1
    <3> QED
      BY <2>1, <3>2 DEF CancelStore, RegistryType
  <2>2. CASE Signal
    <3>1. canceller.process \in Processes
      BY <2>2 DEF Signal, RegistryNames
    <3> QED
      BY <2>2, <3>1, ZenonT(40) DEF Signal, Wait, RegistryType
  <2>3. CASE Arm \/ CheckTasks \/ Wake
    BY <2>3, ZenonT(40) DEF Arm, CheckTasks, Wake, Wait, RegistryType
  <2>4. CASE UNCHANGED <<process, registry, canceller>>
    BY <2>4 DEF RegistryType
  <2> QED
    BY <2>1, <2>2, <2>3, <2>4 DEF SelectFullMoss, Retry, CancelStep, vars
<1>7. RegistryNames'
  <2>1. CASE \E p \in Processes : CancelStore(p)
    BY <2>1 DEF CancelStore, RegistryNames, NoCancel
  <2>2. CASE CancelStep
    BY <2>2, ZenonT(40)
       DEF CancelStep, Signal, Arm, CheckTasks, Wake, Wait, RegistryType, RegistryNames
  <2>3. CASE UNCHANGED <<process, registry, canceller>>
    BY <2>3 DEF RegistryNames
  <2> QED
    BY <2>1, <2>2, <2>3 DEF SelectFullMoss, Retry, vars
<1>8. TaskType' /\ archived' \in BOOLEAN
  BY <1>3 DEF TaskType, EvidenceType
<1>9. EvidenceType' /\ GoodLedger' /\ EvidenceInv'
  BY <1>1, <1>2, <1>3, <1>5, <1>8, AllRestKeeps
<1> QED
  BY <1>4, <1>5, <1>6, <1>7, <1>8, <1>9, LeaseStaysOne

------------------------
(* The invariant, and what it says. *)

LEMMA InitIsGood == Init => GoodLedger
<1> SUFFICES ASSUME Init PROVE GoodLedger
  OBVIOUS
<1>1. NoPublication \in [Targets -> TargetStates]
  BY DEF NoPublication, TargetStates
<1>2. Enqueued \in Ledger
  BY <1>1, LedgerAssumption DEF Enqueued, Ledger, States
<1>3. Valid(Enqueued) /\ Ordered(Enqueued)
  BY DEF Enqueued, Valid, BackendConsistent, StateFitsBackend, EvidenceFitsState,
         PublicationConsistent, CleanupConsistent, IsRemote, IsLocalWorker, HasPublication,
         KeepsArchiveHistory, Summarized, Published, ReworkStates, PublishStates,
         CanceledStates, DiscardStates, Ordered, OrderedAt, BeforeAcceptance
<1> QED
  BY <1>2, <1>3 DEF Init, GoodLedger

LEMMA InitHolds == Init => MossInv
<1> SUFFICES ASSUME Init PROVE MossInv
  OBVIOUS
<1> USE DEF Init
<1>1. RunType /\ (\A r \in Runs : run[r].at = "free")
  BY IdleIsARun DEF RunType
<1>2. TaskType /\ (\A r \in Runs : task[r].at = "none")
  <2>1. /\ NoTask \in [at : TaskStates, effect : Effects, step : 0 .. 2 * NumWindows + 1,
                       result : Results]
        /\ NoTask.at = "none"
    BY MossAssumption DEF NoTask, TaskStates, Effects, Results
  <2> QED
    BY <2>1 DEF TaskType
<1>3. RegistryType /\ RegistryNames
  BY DEF RegistryType, RegistryNames, NoCancel
<1>4. EvidenceType
  <2>1. moss \in [prepared : 0 .. NumWindows, completed : Seq(Bodies),
                  pending : Answers, claim : Claimants]
    BY MossAssumption, NoClaimIsOne DEF Answers
  <2>2. PICK body \in Bodies :
          files = [windows |-> 0, plan |-> FALSE, preserved |-> {},
                   responses |-> [k \in 1 .. Anchors |-> IF k = 1 THEN body ELSE NoOne]]
    OBVIOUS
  <2>3. [k \in 1 .. Anchors |-> IF k = 1 THEN body ELSE NoOne] \in [1 .. Anchors -> Answers]
    BY DEF Answers
  <2>4. files \in [windows : 0 .. NumWindows, plan : BOOLEAN,
                   preserved : SUBSET ((1 .. Anchors) \X Bodies),
                   responses : [1 .. Anchors -> Answers]]
    BY <2>2, <2>3, MossAssumption
  <2> QED
    BY <2>1, <2>4 DEF EvidenceType, Claimants
<1>5. OneLease
  BY <1>1, <1>2 DEF OneLease, HoldsLease, TaskOwns
<1>6. Settled
  <2>1. /\ moss.prepared = 0 /\ files.windows = 0 /\ moss.pending = NoOne
        /\ moss.completed = <<>> /\ ledger.local_moss = "none"
    BY DEF Enqueued
  <2>2. Len(moss.completed) = 0 /\ 0 <= Anchors
    BY <2>1, MossAssumption DEF Anchors
  <2> QED
    BY <2>1, <2>2 DEF Settled, EvidenceMatchesFiles
<1>7. \A r \in Runs : StageKnows(r) /\ PrepareKnows(r)
  BY <1>1, <1>2 DEF StageKnows, PrepareKnows, TaskOwns
<1> QED
  BY <1>1, <1>2, <1>3, <1>4, <1>5, <1>6, <1>7, InitIsGood DEF MossInv, EvidenceInv

LEMMA TaskStepKeeps ==
  ASSUME MossInv, NEW r \in Runs, TaskStep(r)
  PROVE  MossInv'
BY StartsAndAnswersArePlain, PlainKeeps, PrepareKeeps, CountDownKeeps, EndTaskKeeps
   DEF TaskStep

LEMMA NextKeeps == MossInv /\ [Next]_vars => MossInv'
BY CallerKeeps, LoadKeeps, BeginKeeps, RunStepKeeps, TaskStepKeeps, DropCallerKeeps,
   CrashKeeps DEF Next

THEOREM MossInvariant == Spec => []MossInv
BY InitHolds, NextKeeps, PTL DEF Spec

\* One effect of a recording at a time, whatever processes, dropped callers and
\* cancels there are.
THEOREM EffectsExclude == Spec => []OneEffect
<1>1. MossInv => OneEffect
  BY DEF MossInv, OneLease, OneEffect, HoldsLease
<1> QED
  BY <1>1, MossInvariant, PTL

\* What the ledger has recorded is on disk, after any crash and for any plan.
THEOREM EvidenceIsOnDisk == Spec => []EvidenceMatchesFiles
<1>1. MossInv => EvidenceMatchesFiles
  BY DEF MossInv, EvidenceInv, Settled
<1> QED
  BY <1>1, MossInvariant, PTL

------------------------
(* The wake-up of a cancel that waits. *)

\* What a run does to the tasks that count: it starts one, or takes the answer
\* of one that has counted down.
LEMMA RunStepTasks ==
  ASSUME TaskType, NEW r \in Runs, RunStep(r) \/ DropCaller(r)
  PROVE  /\ UNCHANGED canceller
         /\ \/ UNCHANGED task
            \/ task' = [task EXCEPT ![r] = NoTask] /\ task[r].at = "finished"
            \/ \E effect : Spawn(r, effect)
<1>1. CASE \/ Recover(r) \/ Loop(r) \/ LoadStage(r) \/ ClaimEffect(r) \/ TakePending(r)
           \/ Preserve(r) \/ Plan(r) \/ Cleanup(r) \/ Attest(r) \/ Write(r)
           \/ CompleteEffect(r) \/ FinalizeTranscript(r) \/ FailStage(r) \/ DropScope(r)
           \/ Unregister(r) \/ ReleaseScope(r)
  BY <1>1
     DEF Recover, Loop, LoadStage, ClaimEffect, TakePending, Preserve, Plan, Cleanup,
         Attest, Write, CompleteEffect, FinalizeTranscript, FailStage, DropScope,
         Unregister, ReleaseScope
<1>2. CASE \/ JoinPreparation(r) \/ JoinInference(r) \/ JoinMapping(r) \/ JoinSummary(r)
           \/ JoinPublish(r) \/ JoinVerify(r)
  BY <1>2
     DEF JoinPreparation, JoinInference, JoinMapping, JoinSummary, JoinPublish,
         JoinVerify, Joined
<1>3. CASE \/ ClaimPreparation(r) \/ StartInference(r) \/ StartSummary(r)
           \/ StartPublish(r) \/ StartVerify(r)
  BY <1>3
     DEF ClaimPreparation, StartInference, StartSummary, StartPublish, StartVerify
<1>4. CASE DropCaller(r)
  <2>1. UNCHANGED canceller
    BY <1>4 DEF DropCaller
  <2>2. CASE task[r].at = "finished"
    BY <1>4, <2>1, <2>2 DEF DropCaller
  <2>3. CASE task[r].at # "finished"
    <3>1. task' = [task EXCEPT ![r] = task[r]]
      BY <1>4, <2>3 DEF DropCaller
    <3> QED
      BY <2>1, <3>1 DEF TaskType
  <2> QED
    BY <2>2, <2>3
<1> QED
  BY <1>1, <1>2, <1>3, <1>4 DEF RunStep

LEMMA TaskCountStays ==
  ASSUME MossInv, NoLostWakeUp,
         UNCHANGED canceller, \A q \in Runs : Tasks(q) # 0 => Tasks(q)' # 0
  PROVE  NoLostWakeUp'
BY DEF NoLostWakeUp, MossInv, RegistryType, RegistryNames

LEMMA NextWakes ==
  ASSUME MossInv, NoLostWakeUp, [Next]_vars
  PROVE  NoLostWakeUp'
<1>1. ASSUME NEW r \in Runs, RunStep(r) \/ DropCaller(r)
      PROVE  NoLostWakeUp'
  <2>1. UNCHANGED canceller /\ \A q \in Runs : Tasks(q) # 0 => Tasks(q)' # 0
    <3>1. CASE UNCHANGED task
      BY <1>1, <3>1, RunStepTasks DEF MossInv, Tasks
    <3>2. CASE task' = [task EXCEPT ![r] = NoTask] /\ task[r].at = "finished"
      BY <1>1, <3>2, RunStepTasks DEF MossInv, TaskType, Tasks
    <3>3. CASE \E effect : Spawn(r, effect)
      <4>1. task'[r].at = "starting" /\ \A q \in Runs \ {r} : task'[q] = task[q]
        BY <3>3 DEF Spawn, NoTask, MossInv, TaskType
      <4> QED
        BY <1>1, <4>1, RunStepTasks DEF MossInv, Tasks
    <3> QED
      BY <1>1, <3>1, <3>2, <3>3, RunStepTasks DEF MossInv
  <2> QED
    BY <2>1, TaskCountStays
<1>2. ASSUME NEW r \in Runs, Load(r) \/ Begin(r)
      PROVE  NoLostWakeUp'
  BY <1>2, TaskCountStays DEF Load, Begin, Tasks
<1>3. ASSUME NEW r \in Runs, TaskStep(r)
      PROVE  NoLostWakeUp'
  <2>1. CASE CountDown(r)
    <3>1. \A q \in Runs \ {r} : task'[q] = task[q]
      BY <2>1 DEF CountDown, MossInv, TaskType
    <3> QED
      BY <2>1, <3>1
         DEF CountDown, NoLostWakeUp, Tasks, MossInv, RegistryType, RegistryNames
  <2>2. CASE EndTask(r)
    <3>1. \A q \in Runs \ {r} : task'[q] = task[q]
      BY <2>2 DEF EndTask, MossInv, TaskType
    <3> QED
      BY <2>2, <3>1, TaskCountStays DEF EndTask, Tasks
  <2>3. CASE StartTask(r) \/ EndWorker(r) \/ Archive(r) \/ ArchiveConflict(r) \/ Prepare(r)
    <3>1. UNCHANGED canceller
      BY <2>3 DEF StartTask, EndWorker, Archive, ArchiveConflict, Prepare
    <3>2. \/ task' = [task EXCEPT ![r].at = "running"]
          \/ \E result : Answer(r, result)
          \/ task[r].at = "running" /\ \E step : task' = [task EXCEPT ![r].step = step]
      BY <2>3 DEF StartTask, EndWorker, Archive, ArchiveConflict, Prepare
    <3>3. /\ task'[r].at \in {"running", "released"}
          /\ \A q \in Runs \ {r} : task'[q] = task[q]
      BY <3>2 DEF Answer, MossInv, TaskType
    <3> QED
      BY <3>1, <3>3, TaskCountStays DEF Tasks
  <2> QED
    BY <1>3, <2>1, <2>2, <2>3 DEF TaskStep
<1>4. ASSUME NEW p \in Processes, Crash(p)
      PROVE  NoLostWakeUp'
  <2>1. CASE canceller.process = p
    BY <1>4, <2>1 DEF Crash, NoCancel, NoLostWakeUp
  <2>2. CASE canceller.process # p
    BY <1>4, <2>2
       DEF Crash, NoLostWakeUp, Tasks, MossInv, RegistryType, RegistryNames
  <2> QED
    BY <2>1, <2>2
<1>5. ASSUME NEW p \in Processes, CancelStore(p)
      PROVE  NoLostWakeUp'
  BY <1>5 DEF CancelStore, NoCancel, NoLostWakeUp
<1>6. CASE CancelStep
  BY <1>6
     DEF CancelStep, Signal, Arm, CheckTasks, Wake, Wait, NoLostWakeUp, Tasks, MossInv,
         RegistryType
<1>7. CASE SelectFullMoss \/ Retry \/ UNCHANGED vars
  BY <1>7, TaskCountStays DEF SelectFullMoss, Retry, vars, Tasks
<1> QED
  BY <1>1, <1>2, <1>3, <1>4, <1>5, <1>6, <1>7 DEF Next

\* wait_idle never misses the wake-up of a task that counts down.
THEOREM WakeUpsArrive == Spec => []NoLostWakeUp
<1>1. Init => NoLostWakeUp
  BY DEF Init, NoCancel, NoLostWakeUp
<1>2. MossInv /\ NoLostWakeUp /\ [Next]_vars => NoLostWakeUp'
  BY NextWakes
<1> QED
  BY <1>1, <1>2, MossInvariant, PTL DEF Spec

------------------------
(* No answer is wasted. *)

\* What AnswersAreKept asks of a step.
KeepsAnswers ==
    /\ \A k \in 1..Anchors :
         files.responses[k] # NoOne /\ files'.responses[k] # files.responses[k] =>
           /\ <<k, files.responses[k]>> \in files.preserved
           /\ k > Len(moss.completed)
           /\ moss.pending = NoOne
    /\ moss.pending # NoOne /\ files.responses[NextEffect] = moss.pending
         /\ moss'.pending # moss.pending
         => moss'.completed = Append(moss.completed, moss.pending)

\* Neither a response's file nor the intent is touched.
TouchesNoAnswer ==
    files'.responses = files.responses /\ moss'.pending = moss.pending

LEMMA UntouchedIsKept == TouchesNoAnswer => KeepsAnswers
BY DEF TouchesNoAnswer, KeepsAnswers

LEMMA ForgetTouchesNoAnswer ==
  ASSUME EvidenceType, NEW sessions, Forget(sessions)
  PROVE  moss'.pending = moss.pending
BY DEF EvidenceType, Forget

LEMMA TakePendingKeepsAnswers ==
  ASSUME MossInv, NEW r \in Runs, TakePending(r)
  PROVE  KeepsAnswers
<1> DEFINE body == run[r].body
           present == files.responses[NextEffect] # NoOne
<1>1. UNCHANGED files /\ body = moss.pending
  BY DEF TakePending, MossInv, EvidenceInv, StageKnows
<1>2. CASE moss' = moss
  BY <1>1, <1>2 DEF KeepsAnswers
<1>3. CASE Complete(body)
  <2>1. moss'.completed = Append(moss.completed, body)
    BY <1>3 DEF Complete, MossInv, EvidenceType
  <2> QED
    BY <1>1, <2>1 DEF KeepsAnswers
<1>4. CASE body # NoOne /\ ~present
  BY <1>1, <1>4 DEF KeepsAnswers
<1> QED
  BY <1>2, <1>3, <1>4 DEF TakePending

LEMMA PreserveKeepsAnswers ==
  ASSUME MossInv, NEW r \in Runs, Preserve(r)
  PROVE  KeepsAnswers
<1>1. UNCHANGED moss
  BY DEF Preserve
<1>2. CASE files'.responses = files.responses
  BY <1>1, <1>2 DEF KeepsAnswers
<1>3. CASE run[r].at = "unlink" /\ files' = [files EXCEPT !.responses[Unreceipted] = NoOne]
  <2>1. /\ NextEffect <= Anchors
        /\ <<NextEffect, files.responses[NextEffect]>> \in files.preserved
        /\ moss.pending = NoOne
    BY <1>3 DEF MossInv, EvidenceInv, StageKnows
  <2>2. NextEffect > Len(moss.completed)
    BY DEF NextEffect, MossInv, EvidenceType
  <2>3. \A k \in 1..Anchors : k # NextEffect => files'.responses[k] = files.responses[k]
    BY <1>3 DEF Unreceipted, MossInv, EvidenceType
  <2> QED
    BY <1>1, <2>1, <2>2, <2>3 DEF KeepsAnswers
<1>4. CASE \E p : files' = [files EXCEPT !.preserved = p]
  BY <1>2, <1>4 DEF MossInv, EvidenceType
<1> QED
  BY <1>2, <1>3, <1>4 DEF Preserve

LEMMA AttestKeepsAnswers ==
  ASSUME MossInv, NEW r \in Runs, Attest(r)
  PROVE  KeepsAnswers
<1>1. files.responses[NextEffect] = NoOne /\ UNCHANGED files
  BY DEF Attest, MossInv, EvidenceInv, StageKnows, NoFileYet
<1> QED
  BY <1>1 DEF KeepsAnswers

LEMMA WriteKeepsAnswers ==
  ASSUME MossInv, NEW r \in Runs, Write(r)
  PROVE  KeepsAnswers
<1>1. UNCHANGED moss
  BY DEF Write
<1>2. CASE UNCHANGED files
  BY <1>1, <1>2 DEF KeepsAnswers
<1>3. CASE /\ files.responses[NextEffect] \in {NoOne, run[r].body}
           /\ files' = [files EXCEPT !.responses[NextEffect] = run[r].body]
  <2>1. \A k \in 1..Anchors :
          files'.responses[k] = files.responses[k] \/ files.responses[k] = NoOne
    BY <1>3 DEF MossInv, EvidenceType
  <2> QED
    BY <1>1, <2>1 DEF KeepsAnswers
<1> QED
  BY <1>2, <1>3 DEF Write

LEMMA CompleteEffectKeepsAnswers ==
  ASSUME MossInv, NEW r \in Runs, CompleteEffect(r)
  PROVE  KeepsAnswers
<1>1. UNCHANGED files /\ moss.pending = run[r].body
  BY DEF CompleteEffect, MossInv, EvidenceInv, StageKnows
<1>2. CASE UNCHANGED moss
  BY <1>1, <1>2 DEF KeepsAnswers
<1>3. CASE Complete(run[r].body)
  <2>1. moss'.completed = Append(moss.completed, run[r].body)
    BY <1>3 DEF Complete, MossInv, EvidenceType
  <2> QED
    BY <1>1, <2>1 DEF KeepsAnswers
<1> QED
  BY <1>2, <1>3 DEF CompleteEffect

LEMMA RunStepKeepsAnswers ==
  ASSUME MossInv, NEW r \in Runs, RunStep(r)
  PROVE  KeepsAnswers
<1>1. ASSUME UNCHANGED files, \/ UNCHANGED moss
                              \/ \E claim : moss' = [moss EXCEPT !.claim = claim]
      PROVE  KeepsAnswers
  BY <1>1, UntouchedIsKept DEF MossInv, EvidenceType, TouchesNoAnswer
<1>2. CASE \/ ClaimPreparation(r) \/ ClaimEffect(r) \/ JoinPreparation(r)
           \/ FinalizeTranscript(r) \/ FailStage(r)
  BY <1>1, <1>2
     DEF ClaimPreparation, ClaimEffect, JoinPreparation, FinalizeTranscript, FailStage
<1>3. CASE \/ Recover(r) \/ Loop(r) \/ LoadStage(r) \/ StartInference(r)
           \/ StartSummary(r) \/ Plan(r) \/ StartPublish(r) \/ StartVerify(r)
           \/ Cleanup(r) \/ JoinInference(r) \/ JoinMapping(r) \/ JoinSummary(r)
           \/ JoinPublish(r) \/ JoinVerify(r) \/ DropScope(r) \/ Unregister(r)
           \/ ReleaseScope(r)
  BY <1>1, <1>3
     DEF Recover, Loop, LoadStage, StartInference, StartSummary, Plan, StartPublish,
         StartVerify, Cleanup, JoinInference, JoinMapping, JoinSummary, JoinPublish,
         JoinVerify, DropScope, Unregister, ReleaseScope, durable
<1> QED
  BY <1>2, <1>3, TakePendingKeepsAnswers, PreserveKeepsAnswers, AttestKeepsAnswers,
     WriteKeepsAnswers, CompleteEffectKeepsAnswers
     DEF RunStep

LEMMA PrepareKeepsAnswers ==
  ASSUME MossInv, NEW r \in Runs, Prepare(r)
  PROVE  KeepsAnswers
<1>1. \/ UNCHANGED files
      \/ \E n : files' = [files EXCEPT !.windows = n]
      \/ files' = [files EXCEPT !.plan = TRUE]
  BY DEF Prepare, durable
<1>2. \/ UNCHANGED moss
      \/ \E n : moss' = [moss EXCEPT !.prepared = n]
      \/ moss' = [moss EXCEPT !.claim = NoClaim]
  BY DEF Prepare, durable
<1>3. files'.responses = files.responses
  BY <1>1 DEF MossInv, EvidenceType
<1>4. moss'.pending = moss.pending
  BY <1>2 DEF MossInv, EvidenceType
<1> QED
  BY <1>3, <1>4, UntouchedIsKept DEF TouchesNoAnswer

LEMMA NextKeepsAnswers ==
  ASSUME MossInv, [Next]_vars
  PROVE  KeepsAnswers
<1>1. ASSUME UNCHANGED files, UNCHANGED moss
      PROVE  KeepsAnswers
  BY <1>1, UntouchedIsKept DEF TouchesNoAnswer
<1>2. ASSUME NEW r \in Runs, Load(r)
      PROVE  KeepsAnswers
  BY <1>2, ForgetTouchesNoAnswer, UntouchedIsKept DEF Load, MossInv, TouchesNoAnswer
<1>3. ASSUME NEW r \in Runs, Begin(r) \/ DropCaller(r)
      PROVE  KeepsAnswers
  BY <1>1, <1>3 DEF Begin, DropCaller, durable
<1>4. ASSUME NEW r \in Runs, TaskStep(r)
      PROVE  KeepsAnswers
  <2>1. CASE \/ StartTask(r) \/ EndWorker(r) \/ Archive(r) \/ ArchiveConflict(r)
             \/ CountDown(r) \/ EndTask(r)
    BY <1>1, <2>1
       DEF StartTask, EndWorker, Archive, ArchiveConflict, CountDown, EndTask, durable
  <2> QED
    BY <1>4, <2>1, PrepareKeepsAnswers DEF TaskStep
<1>5. ASSUME NEW p \in Processes, Crash(p)
      PROVE  KeepsAnswers
  BY <1>5, ForgetTouchesNoAnswer, UntouchedIsKept DEF Crash, MossInv, TouchesNoAnswer
<1>6. CASE Retry
  <2>1. UNCHANGED moss \/ moss' = [moss EXCEPT !.claim = NoClaim]
    BY <1>6 DEF Retry
  <2> QED
    BY <1>6, <2>1, UntouchedIsKept DEF Retry, MossInv, EvidenceType, TouchesNoAnswer
<1>7. CASE \/ SelectFullMoss \/ CancelStep \/ (\E p \in Processes : CancelStore(p))
           \/ UNCHANGED vars
  BY <1>1, <1>7
     DEF SelectFullMoss, CancelStep, Signal, Arm, CheckTasks, Wake, CancelStore, vars,
         durable
<1> QED
  BY <1>2, <1>3, <1>4, <1>5, <1>6, <1>7, RunStepKeepsAnswers DEF Next

\* A body leaves its file only when a copy is kept, and never once it is
\* attested; an intent whose body is on disk completes exactly that body.
THEOREM NoAnswerIsWasted == Spec => AnswersAreKept
<1>1. MossInv /\ [Next]_vars => [KeepsAnswers]_vars
  BY NextKeepsAnswers
<1>2. AnswersAreKept <=> [][KeepsAnswers]_vars
  BY DEF AnswersAreKept, KeepsAnswers
<1> QED
  BY <1>1, <1>2, MossInvariant, PTL DEF Spec

------------------------
(* The runs implement the store: whatever they, their tasks, the cancels and *)
(* the crashes do, they change the ledger by the operations of                *)
(* ProcessingLedger.                                                          *)

LEMMA RunStepCalls ==
  ASSUME MossInv, NEW r \in Runs, RunStep(r)
  PROVE  Calls(ledger, ledger')
<1>1. CASE \/ LoadStage(r) \/ ClaimEffect(r) \/ TakePending(r) \/ Preserve(r)
           \/ StartInference(r) \/ JoinInference(r) \/ Attest(r) \/ Write(r)
           \/ CompleteEffect(r)
  BY <1>1
     DEF LoadStage, ClaimEffect, TakePending, Preserve, StartInference, JoinInference,
         Attest, Write, CompleteEffect, durable, Calls
<1> QED
  BY <1>1, SummaryStepsArePlain, StageEndsArePlain, DropScopeIsPlain, StartsArePlain
     DEF RunStep, PlainStep

LEMMA NextCalls ==
  ASSUME MossInv, [Next]_vars
  PROVE  Calls(ledger, ledger') \/ ledger' \in CompleteMossPreparation(ledger)
<1>1. ASSUME NEW r \in Runs, Load(r) \/ Begin(r) \/ DropCaller(r) \/ TaskStep(r)
      PROVE  ledger' = ledger \/ ledger' \in CompleteMossPreparation(ledger)
  BY <1>1, SMTT(30)
     DEF Load, Begin, DropCaller, TaskStep, StartTask, EndWorker, Archive,
         ArchiveConflict, Prepare, CountDown, EndTask, durable
<1>2. CASE \/ SelectFullMoss \/ Retry \/ CancelStep \/ UNCHANGED vars
           \/ (\E p \in Processes : CancelStore(p) \/ Crash(p))
  BY <1>2, ZenonT(40)
     DEF SelectFullMoss, Retry, CancelStep, CancelStore, Crash, Signal, Arm, CheckTasks,
         Wake, vars, durable, Calls
<1> QED
  BY <1>1, <1>2, RunStepCalls DEF Next, Calls

\* LedgerStore is an instance of ProcessingLedger with the runs' own ledger and
\* constants: its operations are the ones the runs call.
LEMMA SameStore ==
  ASSUME NEW l, NEW g, NEW t, NEW ambiguous
  PROVE
    /\ LedgerStore!BeginMossPreparation(l) = BeginMossPreparation(l)
    /\ LedgerStore!CompleteMossPreparation(l) = CompleteMossPreparation(l)
    /\ LedgerStore!FailMossPreparation(l) = FailMossPreparation(l)
    /\ LedgerStore!RetryMossPreparation(l) = RetryMossPreparation(l)
    /\ LedgerStore!FinalizeMossTranscript(l) = FinalizeMossTranscript(l)
    /\ LedgerStore!MarkMossEffectFailed(l) = MarkMossEffectFailed(l)
    /\ LedgerStore!RetryLocalMoss(l) = RetryLocalMoss(l)
    /\ LedgerStore!RecoverMossLocalSummary(l) = RecoverMossLocalSummary(l)
    /\ LedgerStore!CheckpointSummary(l) = CheckpointSummary(l)
    /\ LedgerStore!AbortSummaryBeforeDispatch(l) = AbortSummaryBeforeDispatch(l)
    /\ LedgerStore!ResolveSummaryForRetry(l) = ResolveSummaryForRetry(l)
    /\ LedgerStore!PlanPublication(l) = PlanPublication(l)
    /\ LedgerStore!StartPublicationTarget(l, g, t) = StartPublicationTarget(l, g, t)
    /\ LedgerStore!CheckpointPublicationTarget(l, g, t)
         = CheckpointPublicationTarget(l, g, t)
    /\ LedgerStore!FailPublicationTarget(l, g, t, ambiguous)
         = FailPublicationTarget(l, g, t, ambiguous)
    /\ LedgerStore!MarkPublicationConflict(l) = MarkPublicationConflict(l)
    /\ LedgerStore!CheckpointCanonicalBackup(l, g) = CheckpointCanonicalBackup(l, g)
    /\ LedgerStore!RetryPublication(l) = RetryPublication(l)
    /\ LedgerStore!CheckpointCleanup(l, g) = CheckpointCleanup(l, g)
    /\ LedgerStore!Cancel(l) = Cancel(l)
    /\ LedgerStore!Resume(l) = Resume(l)
BY DEF When, MayOweRemoteTask,
       SelectableStates, Transition, CanTransition, Successors, States, ReworkStates,
       PublishStates, CanceledStates, DiscardStates, Mutate, Valid, BackendConsistent,
       IsRemote, IsLocalWorker, MossConsistent, StateFitsBackend, EvidenceFitsState,
       Summarized, Published, HasPublication, PublicationConsistent, Targets,
       CleanupConsistent, KeepsArchiveHistory, AllVerified, CheckpointSummary,
       AbortSummaryBeforeDispatch, ResolveSummaryForRetry, PlanPublication,
       GenerationLeft, NextGeneration, NoPublication, StartPublicationTarget,
       CurrentTarget, CheckpointPublicationTarget, FailPublicationTarget,
       MarkPublicationConflict, CheckpointCanonicalBackup, RequiredVerified,
       RetryPublication, FirstUnverified, CheckpointCleanup, ScheduleRetention, Cancel,
       Resume, ResumePublishing, InDoubt, BeginMossPreparation, CompleteMossPreparation,
       FailMossPreparation, RetryMossPreparation, FinalizeMossTranscript,
       MarkMossEffectFailed, RetryLocalMoss, RecoverMossLocalSummary, MossSelected,
       MossActive,
       LedgerStore!When, LedgerStore!MayOweRemoteTask, LedgerStore!SelectableStates,
       LedgerStore!Transition, LedgerStore!CanTransition, LedgerStore!Successors,
       LedgerStore!States, LedgerStore!ReworkStates, LedgerStore!PublishStates,
       LedgerStore!CanceledStates, LedgerStore!DiscardStates, LedgerStore!Mutate,
       LedgerStore!Valid, LedgerStore!BackendConsistent, LedgerStore!IsRemote,
       LedgerStore!IsLocalWorker, LedgerStore!MossConsistent,
       LedgerStore!StateFitsBackend, LedgerStore!EvidenceFitsState,
       LedgerStore!Summarized, LedgerStore!Published, LedgerStore!HasPublication,
       LedgerStore!PublicationConsistent, LedgerStore!Targets,
       LedgerStore!CleanupConsistent, LedgerStore!KeepsArchiveHistory,
       LedgerStore!AllVerified, LedgerStore!CheckpointSummary,
       LedgerStore!AbortSummaryBeforeDispatch, LedgerStore!ResolveSummaryForRetry,
       LedgerStore!PlanPublication, LedgerStore!GenerationLeft,
       LedgerStore!NextGeneration, LedgerStore!NoPublication,
       LedgerStore!StartPublicationTarget, LedgerStore!CurrentTarget,
       LedgerStore!CheckpointPublicationTarget, LedgerStore!FailPublicationTarget,
       LedgerStore!MarkPublicationConflict, LedgerStore!CheckpointCanonicalBackup,
       LedgerStore!RequiredVerified, LedgerStore!RetryPublication,
       LedgerStore!FirstUnverified, LedgerStore!CheckpointCleanup,
       LedgerStore!ScheduleRetention, LedgerStore!Cancel, LedgerStore!Resume,
       LedgerStore!ResumePublishing, LedgerStore!InDoubt,
       LedgerStore!BeginMossPreparation, LedgerStore!CompleteMossPreparation,
       LedgerStore!FailMossPreparation, LedgerStore!RetryMossPreparation,
       LedgerStore!FinalizeMossTranscript, LedgerStore!MarkMossEffectFailed,
       LedgerStore!RetryLocalMoss, LedgerStore!RecoverMossLocalSummary,
       LedgerStore!MossSelected, LedgerStore!MossActive

\* A receipt the store accepts names the generation that exists.
LEMMA NamedGeneration ==
  ASSUME NEW l \in Ledger, HasPublication(l)
  PROVE  l.generation \in 1..MaxGeneration
BY LedgerAssumption DEF Ledger, HasPublication

LEMMA CallsAreStored ==
  ASSUME NEW g, g = ledger.generation, GoodLedger, Calls(ledger, ledger')
  PROVE  ledger' = ledger \/ LedgerStore!Next
<1> USE DEF LedgerStore!Next
<1>1. CASE \/ ledger' \in BeginMossPreparation(ledger)
           \/ ledger' \in FailMossPreparation(ledger) \cup RetryMossPreparation(ledger)
                            \cup MarkMossEffectFailed(ledger) \cup RetryLocalMoss(ledger)
           \/ ledger' \in FinalizeMossTranscript(ledger)
           \/ ledger' \in RecoverMossLocalSummary(ledger)
  BY <1>1, SameStore DEF LedgerStore!MossStep
<1>2. CASE \/ ledger' \in CheckpointSummary(ledger)
           \/ ledger' \in AbortSummaryBeforeDispatch(ledger)
                            \cup ResolveSummaryForRetry(ledger)
  BY <1>2, SameStore DEF LedgerStore!SummaryStep
<1>3. CASE \/ ledger' \in PlanPublication(ledger)
           \/ ledger' \in MarkPublicationConflict(ledger)
           \/ ledger' \in RetryPublication(ledger)
  BY <1>3, SameStore DEF LedgerStore!PublicationStep
<1>4. ASSUME NEW t \in Targets,
             \/ ledger' \in StartPublicationTarget(ledger, g, t)
             \/ ledger' \in CheckpointPublicationTarget(ledger, g, t)
             \/ ledger' \in FailPublicationTarget(ledger, g, t, FALSE)
      PROVE  LedgerStore!Next
  <2>1. g \in 1..MaxGeneration
    BY <1>4, NamedGeneration
       DEF GoodLedger, StartPublicationTarget, CheckpointPublicationTarget,
           FailPublicationTarget, CurrentTarget, When
  <2>2. t \in LedgerStore!Targets
    BY DEF Targets, LedgerStore!Targets
  <2> QED
    BY <1>4, <2>1, <2>2, SameStore DEF LedgerStore!PublicationStep
<1>5. CASE ledger' \in CheckpointCanonicalBackup(ledger, g)
  <2>1. g \in 1..MaxGeneration
    BY <1>5, NamedGeneration DEF GoodLedger, CheckpointCanonicalBackup, When
  <2> QED
    BY <1>5, <2>1, SameStore DEF LedgerStore!PublicationStep
<1>6. CASE ledger' \in CheckpointCleanup(ledger, g)
  <2>1. PICK h \in 1..MaxGeneration : ledger' \in CheckpointCleanup(ledger, h)
    <3>1. CASE ledger.state = "Complete" /\ ledger.temporary_tos_deleted
      BY <1>6, <3>1, LedgerAssumption DEF CheckpointCleanup
    <3>2. CASE ~(ledger.state = "Complete" /\ ledger.temporary_tos_deleted)
      <4>1. g \in 1..MaxGeneration
        BY <1>6, <3>2, NamedGeneration DEF GoodLedger, CheckpointCleanup, When
      <4> QED
        BY <1>6, <4>1
    <3> QED
      BY <3>1, <3>2
  <2> QED
    BY <2>1, SameStore DEF LedgerStore!CleanupStep
<1>7. CASE ledger' \in Cancel(ledger) \/ ledger' \in Resume(ledger)
  BY <1>7, SameStore DEF LedgerStore!CleanupStep
<1> QED
  BY <1>1, <1>2, <1>3, <1>4, <1>5, <1>6, <1>7 DEF Calls

LEMMA NextStores == MossInv /\ [Next]_vars => [LedgerStore!Next]_ledger
<1>1. ASSUME ledger' \in CompleteMossPreparation(ledger)
      PROVE  LedgerStore!Next
  BY <1>1, SameStore DEF LedgerStore!Next, LedgerStore!MossStep
<1> QED
  BY <1>1, NextCalls, CallsAreStored DEF MossInv

LEMMA InitStores == Init => LedgerStore!Init
BY DEF Init, LedgerStore!Init, Enqueued, LedgerStore!Enqueued, NoPublication,
       LedgerStore!NoPublication, Targets, LedgerStore!Targets

\* However many runs and processes work on a recording, they drive its ledger
\* through the store: every theorem about ProcessingLedger holds of them.
THEOREM RunsAreAStore == Spec => ImplementsStore
BY InitStores, NextStores, MossInvariant, PTL DEF Spec, ImplementsStore, LedgerStore!Spec

------------------------
(* A run that ended leaves the registry, whichever drop came last. *)

\* Why: the run's own drop removes the entry unless a task of it still counts,
\* and then the task finds the run closing.  An answer waits for nobody but the
\* run that awaits it, and a run has an entry only once it has begun.
Forgotten(r) ==
    /\ task[r].at = "finished" => run[r].at = "await"
    /\ run[r].at = "begin" => task[r].at = "none"
    /\ run[r].at \in {"begin", "release", "free"} /\ task[r].at = "none" =>
         registry[process[r]] # r

\* Nothing but r's run and task changed.
LEMMA OthersStayForgotten ==
  ASSUME NEW r \in Runs, NEW q \in Runs \ {r}, Forgotten(q),
         run'[q] = run[q], task'[q] = task[q], UNCHANGED <<process, registry>>
  PROVE  Forgotten(q)'
BY DEF Forgotten

\* An entry is removed.
LEMMA RemovalForgets ==
  ASSUME RegistryType, NEW r \in Runs, registry' \in {registry, Removed(r)},
         NEW q \in Runs, UNCHANGED process,
         registry[process[q]] # q
  PROVE  registry'[process'[q]] # q
BY MossAssumption DEF RegistryType, Removed

LEMMA RunKeepsGoing ==
  ASSUME MossInv, NEW r \in Runs, Forgotten(r), RunStep(r),
         ~Unregister(r), ~ReleaseScope(r)
  PROVE  /\ UNCHANGED <<process, registry>> /\ OnlyOf(r)
         /\ run'[r].at \notin {"begin", "release", "free"}
         /\ task'[r].at # "finished"
<1> USE DEF MossInv
<1>1. ASSUME UNCHANGED task, run[r].at # "await"
      PROVE  task'[r].at # "finished"
  BY <1>1 DEF Forgotten
<1>2. ASSUME \/ task' = [task EXCEPT ![r] = NoTask]
             \/ \E effect : Spawn(r, effect)
      PROVE  task'[r].at # "finished"
  <2>1. CASE task' = [task EXCEPT ![r] = NoTask]
    BY <2>1 DEF TaskType, NoTask
  <2>2. CASE \E effect : Spawn(r, effect)
    <3>1. PICK effect : Spawn(r, effect)
      BY <2>2
    <3>2. [NoTask EXCEPT !.at = "starting", !.effect = effect].at = "starting"
      BY DEF NoTask
    <3> QED
      BY <3>1, <3>2 DEF TaskType, Spawn
  <2> QED
    BY <1>2, <2>1, <2>2
<1>3. CASE \/ Recover(r) \/ Loop(r) \/ Plan(r) \/ Cleanup(r) \/ JoinSummary(r)
           \/ JoinVerify(r)
  <2>1. task'[r].at # "finished" /\ UNCHANGED registry
    BY <1>1, <1>2, <1>3
       DEF Recover, Loop, Plan, Cleanup, JoinSummary, JoinVerify, Joined
  <2>2. \E at \in RunStates \ {"begin", "release", "free"} : Go(r, at)
    BY <1>3
       DEF Recover, Loop, Plan, Cleanup, JoinSummary, JoinVerify, Store, Return, Effect,
           RunStates
  <2>3. run'[r].at \notin {"begin", "release", "free"}
    BY <2>2 DEF Go, RunType
  <2> QED
    BY <1>3, <2>1, <2>3, SummaryStepsArePlain DEF PlainStep
<1>4. CASE \/ JoinPreparation(r) \/ JoinMapping(r) \/ FinalizeTranscript(r)
           \/ FailStage(r) \/ JoinPublish(r)
  <2>1. task'[r].at # "finished" /\ UNCHANGED registry
    BY <1>1, <1>2, <1>4
       DEF JoinPreparation, JoinMapping, FinalizeTranscript, FailStage, JoinPublish
  <2>2. \E at \in {"loop", "drop", "fail", "finalize"} : Go(r, at)
    BY <1>4
       DEF JoinPreparation, JoinMapping, FinalizeTranscript, FailStage, JoinPublish,
           Store, Return
  <2>3. run'[r].at \notin {"begin", "release", "free"}
    BY <2>2 DEF Go, RunType
  <2> QED
    BY <1>4, <2>1, <2>3, StageEndsArePlain DEF PlainStep
<1>5. CASE \/ ClaimPreparation(r) \/ StartSummary(r) \/ StartPublish(r)
           \/ StartVerify(r)
  <2>1. task'[r].at # "finished" /\ UNCHANGED registry
    BY <1>1, <1>2, <1>5
       DEF ClaimPreparation, StartSummary, StartPublish, StartVerify
  <2>2. \E at \in {"loop", "drop", "await"} : Go(r, at)
    BY <1>5
       DEF ClaimPreparation, StartSummary, StartPublish, StartVerify, Store, Return
  <2>3. run'[r].at \notin {"begin", "release", "free"}
    BY <2>2 DEF Go, RunType
  <2> QED
    BY <1>5, <2>1, <2>3, StartsArePlain DEF PlainStep
<1>6. CASE DropScope(r)
  BY <1>1, <1>6, DropScopeIsPlain DEF DropScope, RunType, PlainStep
<1>7. CASE \/ LoadStage(r) \/ ClaimEffect(r) \/ TakePending(r) \/ Preserve(r)
           \/ Attest(r) \/ Write(r) \/ CompleteEffect(r)
  <2>1. UNCHANGED <<process, registry, task>> /\ run[r].at # "await"
    BY <1>7
       DEF LoadStage, ClaimEffect, TakePending, Preserve, Attest, Write, CompleteEffect
  <2>2. \/ \E at \in {"loop", "drop", "fail", "preserve", "infer", "unlink", "write",
                      "complete"} : Go(r, at)
        \/ run' = [run EXCEPT ![r].at = "pending"]
        \/ \E at \in {"loop", "claim"}, body \in Answers :
             run' = [run EXCEPT ![r].at = at, ![r].body = body]
    BY <1>7
       DEF LoadStage, ClaimEffect, TakePending, Preserve, Attest, Write, CompleteEffect,
           Return, EvidenceType, Answers
  <2>3. OnlyOf(r) /\ run'[r].at \notin {"begin", "release", "free"}
    <3>1. CASE \E at \in {"loop", "drop", "fail", "preserve", "infer", "unlink", "write",
                          "complete"} : Go(r, at)
      <4>1. PICK at \in RunStates \ {"begin", "release", "free"} : Go(r, at)
        BY <3>1 DEF RunStates
      <4> QED
        BY <2>1, <4>1, GoRuns, SameTasks, BothAreOfOne DEF RunOf
    <3>2. CASE run' = [run EXCEPT ![r].at = "pending"]
      <4>1. RunOf(r, "pending", run[r].cancel, run[r].body)
        BY <3>2 DEF RunType, RunOf, RunStates
      <4> QED
        BY <2>1, <4>1, SameTasks, BothAreOfOne DEF RunOf
    <3>3. CASE \E at \in {"loop", "claim"}, body \in Answers :
                 run' = [run EXCEPT ![r].at = at, ![r].body = body]
      <4>1. PICK at \in {"loop", "claim"}, body \in Answers :
              run' = [run EXCEPT ![r].at = at, ![r].body = body]
        BY <3>3
      <4>2. RunOf(r, at, run[r].cancel, body)
        BY <4>1, CarryRuns DEF RunStates
      <4> QED
        BY <2>1, <4>1, <4>2, SameTasks, BothAreOfOne DEF RunOf
    <3> QED
      BY <2>2, <3>1, <3>2, <3>3
  <2> QED
    BY <1>1, <2>1, <2>3
<1>8. CASE StartInference(r) \/ JoinInference(r)
  <2>1. task'[r].at # "finished" /\ UNCHANGED <<process, registry>>
    BY <1>2, <1>8 DEF StartInference, JoinInference
  <2>2. \/ \E at \in {"loop", "await", "fail"} : Go(r, at)
        \/ \E body \in Answers :
             run' = [run EXCEPT ![r].at = "attest", ![r].body = body]
    BY <1>8 DEF StartInference, JoinInference, Answers
  <2>3. run'[r].at \notin {"begin", "release", "free"}
    BY <2>2 DEF Go, RunType
  <2>4. \E at, cancel, body : RunOf(r, at, cancel, body)
    <3>1. CASE \E at \in {"loop", "await", "fail"} : Go(r, at)
      <4>1. PICK at \in RunStates : Go(r, at)
        BY <3>1 DEF RunStates
      <4> QED
        BY <4>1, GoRuns
    <3>2. CASE \E body \in Answers :
                 run' = [run EXCEPT ![r].at = "attest", ![r].body = body]
      <4>1. PICK body \in Answers :
              run' = [run EXCEPT ![r].at = "attest", ![r].body = body]
        BY <3>2
      <4>2. RunOf(r, "attest", run[r].cancel, body)
        BY <4>1, CarryRuns DEF RunStates
      <4> QED
        BY <4>2
    <3> QED
      BY <2>2, <3>1, <3>2
  <2>5. \E at, effect, step, result : TaskOf(r, at, effect, step, result)
    BY <1>8, SpawnTasks, JoinedTasks DEF StartInference, JoinInference, Effects
  <2> QED
    BY <2>1, <2>3, <2>4, <2>5, BothAreOfOne
<1> QED
  BY <1>3, <1>4, <1>5, <1>6, <1>7, <1>8 DEF RunStep

LEMMA RunStepForgets ==
  ASSUME MossInv, \A q \in Runs : Forgotten(q), NEW r \in Runs, RunStep(r)
  PROVE  \A q \in Runs : Forgotten(q)'
<1> USE DEF MossInv
<1>1. CASE ~Unregister(r) /\ ~ReleaseScope(r)
  BY <1>1, RunKeepsGoing, OthersStayForgotten DEF OnlyOf, Forgotten
<1>2. CASE Unregister(r)
  <2>1. /\ task[r].at # "finished" /\ UNCHANGED <<process, task>>
        /\ run'[r].at = "release" /\ (\A q \in Runs \ {r} : run'[q] = run[q])
    BY <1>2 DEF Unregister, Forgotten, Go, RunType, durable
  <2>2. registry' \in {registry, Removed(r)}
    BY <1>2 DEF Unregister
  <2>3. \A q \in Runs \ {r} : Forgotten(q)'
    BY <2>1, <2>2, RemovalForgets DEF Forgotten
  <2>4. task[r].at = "none" => registry'[process'[r]] # r
    <3>1. Tasks(r) = 0 => registry' = Removed(r)
      BY <1>2 DEF Unregister
    <3>2. task[r].at = "none" => Tasks(r) = 0
      BY DEF Tasks
    <3>3. Removed(r)[process[r]] # r
      BY MossAssumption DEF Removed, RegistryType
    <3> QED
      BY <2>1, <3>1, <3>2, <3>3
  <2> QED
    BY <2>1, <2>3, <2>4 DEF Forgotten
<1>3. CASE ReleaseScope(r)
  <2>1. /\ task[r].at # "finished" /\ UNCHANGED <<process, task, registry>>
        /\ run[r].at = "release" /\ run'[r].at = "free"
        /\ \A q \in Runs \ {r} : run'[q] = run[q]
    BY <1>3 DEF ReleaseScope, Forgotten, Go, RunType, durable
  <2> QED
    BY <2>1 DEF Forgotten
<1> QED
  BY <1>1, <1>2, <1>3

LEMMA TaskStepForgets ==
  ASSUME MossInv, \A q \in Runs : Forgotten(q), NEW r \in Runs, TaskStep(r)
  PROVE  \A q \in Runs : Forgotten(q)'
<1> USE DEF MossInv
<1>1. CASE EndTask(r)
  <2>1. UNCHANGED <<process, run>> /\ \A q \in Runs \ {r} : task'[q] = task[q]
    BY <1>1 DEF EndTask, TaskType, durable
  <2>2. registry' \in {registry, Removed(r)}
    BY <1>1 DEF EndTask
  <2>3. \A q \in Runs \ {r} : Forgotten(q)'
    BY <2>1, <2>2, RemovalForgets DEF Forgotten
  <2>4. task'[r].at = "finished" => run[r].at = "await"
    BY <1>1 DEF EndTask, TaskType, NoTask
  <2>5. run[r].at # "begin"
    BY <1>1 DEF EndTask, Forgotten
  <2>6. run[r].at \in {"release", "free"} => registry'[process'[r]] # r
    <3>1. Closing(r) => registry' = Removed(r)
      BY <1>1 DEF EndTask
    <3>2. Removed(r)[process[r]] # r
      BY MossAssumption DEF Removed, RegistryType
    <3> QED
      BY <2>1, <3>1, <3>2 DEF Closing
  <2> QED
    BY <2>1, <2>3, <2>4, <2>5, <2>6 DEF Forgotten
<1>2. CASE ~EndTask(r)
  <2>1. UNCHANGED <<process, registry, run>>
    BY <1>2
       DEF TaskStep, StartTask, EndWorker, Archive, ArchiveConflict, Prepare, CountDown
  <2>2. /\ task[r].at \notin {"none", "finished"}
        /\ \/ task' = [task EXCEPT ![r].at = "running"]
           \/ task' = [task EXCEPT ![r].at = "counted"]
           \/ \E result : Answer(r, result)
           \/ \E step : task' = [task EXCEPT ![r].step = step]
    BY <1>2
       DEF TaskStep, StartTask, EndWorker, Archive, ArchiveConflict, Prepare, CountDown
  <2>3. /\ task'[r].at \notin {"none", "finished"}
        /\ \A q \in Runs \ {r} : task'[q] = task[q]
    BY <2>2 DEF Answer, TaskType
  <2>4. run[r].at # "begin"
    BY <2>2 DEF Forgotten
  <2> QED
    BY <2>1, <2>3, <2>4, OthersStayForgotten DEF Forgotten
<1> QED
  BY <1>1, <1>2

LEMMA BeginForgets ==
  ASSUME MossInv, \A q \in Runs : Forgotten(q), NEW r \in Runs, Load(r) \/ Begin(r)
  PROVE  \A q \in Runs : Forgotten(q)'
<1> USE DEF MossInv
<1>1. UNCHANGED <<process, task>>
  BY DEF Load, Begin, durable
<1>2. /\ Idle.at = "free"
      /\ [Idle EXCEPT !.at = "begin"].at = "begin"
  BY DEF Idle
<1>3. CASE Load(r)
  <2>1. run' = [run EXCEPT ![r] = [Idle EXCEPT !.at = "begin"]]
    BY <1>3 DEF Load
  <2>2. /\ run[r].at = "free" /\ task[r].at = "none" /\ UNCHANGED registry
        /\ run'[r].at = "begin" /\ \A q \in Runs \ {r} : run'[q] = run[q]
    BY <1>2, <1>3, <2>1 DEF Load, RunType
  <2> QED
    BY <1>1, <2>2 DEF Forgotten
<1>4. CASE Begin(r)
  <2>1. CASE run' = [run EXCEPT ![r] = Idle] /\ UNCHANGED registry
    <3>1. /\ run[r].at = "begin" /\ run'[r].at = "free"
          /\ \A q \in Runs \ {r} : run'[q] = run[q]
      BY <1>2, <1>4, <2>1 DEF Begin, RunType
    <3> QED
      BY <1>1, <2>1, <3>1 DEF Forgotten
  <2>2. CASE Go(r, "recover") /\ registry' = [registry EXCEPT ![process[r]] = r]
    <3>1. /\ run[r].at = "begin" /\ run'[r].at = "recover"
          /\ \A q \in Runs \ {r} : run'[q] = run[q]
      BY <1>4, <2>2 DEF Begin, Go, RunType
    <3>2. \A q \in Runs \ {r} : registry[process[q]] # q => registry'[process[q]] # q
      BY <2>2 DEF RegistryType
    <3> QED
      BY <1>1, <3>1, <3>2 DEF Forgotten
  <2> QED
    BY <1>4, <2>1, <2>2 DEF Begin
<1> QED
  BY <1>3, <1>4

LEMMA NextForgets ==
  ASSUME MossInv, \A q \in Runs : Forgotten(q), [Next]_vars
  PROVE  \A q \in Runs : Forgotten(q)'
<1> USE DEF MossInv
<1>1. ASSUME NEW r \in Runs, DropCaller(r)
      PROVE  \A q \in Runs : Forgotten(q)'
  <2>1. /\ run'[r].at = "drop" /\ task'[r].at # "finished"
        /\ UNCHANGED <<process, registry>>
        /\ \A q \in Runs \ {r} : run'[q] = run[q] /\ task'[q] = task[q]
    BY <1>1 DEF DropCaller, Return, Go, RunType, TaskType, NoTask
  <2> QED
    BY <2>1 DEF Forgotten
<1>2. ASSUME NEW p \in Processes, Crash(p)
      PROVE  \A q \in Runs : Forgotten(q)'
  <2>1. ASSUME NEW q \in Runs, process[q] = p
        PROVE  Forgotten(q)'
    <3>1. run'[q].at = "free" /\ task'[q].at = "none"
      BY <1>2, <2>1 DEF Crash, Idle, NoTask
    <3>2. registry'[process'[q]] = NoOne
      BY <1>2, <2>1 DEF Crash, RegistryType
    <3> QED
      BY <3>1, <3>2, MossAssumption DEF Forgotten
  <2>2. ASSUME NEW q \in Runs, process[q] # p
        PROVE  Forgotten(q)'
    <3>1. run'[q] = run[q] /\ task'[q] = task[q] /\ UNCHANGED process
      BY <1>2, <2>2 DEF Crash
    <3>2. registry'[process[q]] = registry[process[q]]
      BY <1>2, <2>2 DEF Crash, RegistryType
    <3> QED
      BY <3>1, <3>2 DEF Forgotten
  <2> QED
    BY <2>1, <2>2
<1>3. CASE Signal
  <2>1. /\ UNCHANGED <<process, registry, task>>
        /\ UNCHANGED run \/ \E r \in Runs : run' = [run EXCEPT ![r].cancel = TRUE]
    BY <1>3 DEF Signal, RegistryType, RegistryNames, durable
  <2>2. \A q \in Runs : run'[q].at = run[q].at
    BY <2>1 DEF RunType
  <2> QED
    BY <2>1, <2>2 DEF Forgotten
<1>4. CASE \/ SelectFullMoss \/ Retry \/ Arm \/ CheckTasks \/ Wake \/ UNCHANGED vars
           \/ (\E p \in Processes : CancelStore(p))
  <2>1. UNCHANGED <<process, registry, run, task>>
    BY <1>4 DEF SelectFullMoss, Retry, Arm, CheckTasks, Wake, CancelStore, vars
  <2> QED
    BY <2>1 DEF Forgotten
<1> QED
  BY <1>1, <1>2, <1>3, <1>4, RunStepForgets, TaskStepForgets, BeginForgets
     DEF Next, CancelStep

LEMMA RunsLeave == Spec => [](\A r \in Runs : Forgotten(r))
<1>1. Init => \A r \in Runs : Forgotten(r)
  BY MossAssumption DEF Init, Forgotten, Idle, NoTask
<1>2. MossInv /\ (\A r \in Runs : Forgotten(r)) /\ [Next]_vars
        => (\A r \in Runs : Forgotten(r))'
  BY NextForgets
<1> QED
  BY <1>1, <1>2, MossInvariant, PTL DEF Spec

\* A run that ended is never left in the registry, whichever of the run's and
\* its task's drops came last.
THEOREM EndedRunsLeave == Spec => []EndedRunIsForgotten
<1>1. (\A r \in Runs : Forgotten(r)) => EndedRunIsForgotten
  BY DEF Forgotten, EndedRunIsForgotten
<1> QED
  BY <1>1, RunsLeave, PTL

------------------------
(* No worker outlives a cancel. *)

\* The states from which a run comes to a worker without a look at the ledger.
Way == {"pending", "preserve", "unlink", "infer", "summarize"}

OnTheWay(r) ==
    \/ run[r].at \in Way
    \/ TaskOwns(r) /\ task[r].effect \in {"infer", "summarize"}

WorkerRuns(r) == task[r].at = "running" /\ task[r].effect \in {"infer", "summarize"}

\* A run at work is the one its process's registry names, so that a signal
\* reaches it.
Registered(r) ==
    run[r].at \notin {"free", "begin", "unregister", "release"} \/ TaskOwns(r) =>
        registry[process[r]] = r

\* After the signal whoever could still start a worker has its cancel flag set,
\* and a worker that runs is the one the canceller waits for.
Silenced(r) ==
    process[r] = canceller.process =>
       /\ canceller.at \in {"wait", "armed", "asleep", "returned"} /\ OnTheWay(r) =>
            Cancelled(r)
       /\ canceller.at \in {"wait", "armed", "asleep"} /\ WorkerRuns(r) =>
            r = canceller.run
       /\ canceller.at = "returned" => ~WorkerRuns(r)

CancelInv ==
    /\ \A r \in Runs : Registered(r) /\ Silenced(r)
    /\ canceller.at # "idle" => IsTerminal(ledger.state)

\* Under a terminal ledger nobody sets out for a worker, and no worker starts
\* past the cancel flag.
SilentStep(r) ==
    /\ OnTheWay(r)' => OnTheWay(r) /\ (Cancelled(r) => Cancelled(r)')
    /\ WorkerRuns(r)' => WorkerRuns(r) \/ (OnTheWay(r) /\ ~Cancelled(r))

\* No operation a run calls revives a job that ended.
LEMMA TerminalStays ==
  ASSUME NEW l \in Ledger, NEW m,
         Calls(l, m) \/ m \in CompleteMossPreparation(l), IsTerminal(l.state)
  PROVE  m.state = l.state
<1> USE DEF When, Mutate, Transition, IsTerminal, CanceledStates
<1>1. CASE \/ m \in BeginMossPreparation(l) \cup CompleteMossPreparation(l)
           \/ m \in FailMossPreparation(l) \cup RetryMossPreparation(l)
                      \cup MarkMossEffectFailed(l) \cup RetryLocalMoss(l)
           \/ m \in FinalizeMossTranscript(l)
           \/ m \in RecoverMossLocalSummary(l)
  BY <1>1
     DEF BeginMossPreparation, CompleteMossPreparation, FailMossPreparation,
         RetryMossPreparation, MarkMossEffectFailed, RetryLocalMoss,
         FinalizeMossTranscript, RecoverMossLocalSummary, MossActive
<1>2. CASE \/ m \in CheckpointSummary(l)
           \/ m \in AbortSummaryBeforeDispatch(l) \cup ResolveSummaryForRetry(l)
           \/ m \in PlanPublication(l)
           \/ m \in CheckpointCanonicalBackup(l, l.generation)
  BY <1>2
     DEF CheckpointSummary, AbortSummaryBeforeDispatch, ResolveSummaryForRetry,
         PlanPublication, CheckpointCanonicalBackup
<1>3. CASE \E t \in Targets :
             \/ m \in StartPublicationTarget(l, l.generation, t)
             \/ m \in CheckpointPublicationTarget(l, l.generation, t)
             \/ m \in FailPublicationTarget(l, l.generation, t, FALSE)
  BY <1>3 DEF StartPublicationTarget, CheckpointPublicationTarget, FailPublicationTarget
<1>4. CASE m \in MarkPublicationConflict(l)
  <2>1. ~CanTransition(l.state, "PublishConflict")
    BY DEF CanTransition, Successors, States, PublishStates, ReworkStates, DiscardStates
  <2> QED
    BY <1>4, <2>1 DEF MarkPublicationConflict
<1>5. CASE m \in RetryPublication(l)
  BY <1>5 DEF RetryPublication, PublishStates
<1>6. CASE m \in CheckpointCleanup(l, l.generation)
  BY <1>6 DEF CheckpointCleanup, ScheduleRetention, Ledger
<1>7. CASE m \in Cancel(l)
  <2>1. l.state = "Discarded" => \A s : ~CanTransition(l.state, s)
    BY DEF CanTransition, Successors, States, PublishStates, ReworkStates, DiscardStates
  <2> QED
    BY <1>7, <2>1 DEF Cancel
<1>8. CASE m \in Resume(l)
  BY <1>8 DEF Resume
<1> QED
  BY <1>1, <1>2, <1>3, <1>4, <1>5, <1>6, <1>7, <1>8 DEF Calls

LEMMA RunStepIsSilent ==
  ASSUME MossInv, NEW r \in Runs, RunStep(r), IsTerminal(ledger.state)
  PROVE  SilentStep(r)
<1> USE DEF MossInv
<1>1. ASSUME task' = task \/ task' = [task EXCEPT ![r] = NoTask]
      PROVE  TaskOwns(r)' => TaskOwns(r) /\ task'[r] = task[r]
  BY <1>1 DEF TaskType, NoTask, TaskOwns
<1>2. ASSUME NEW effect, Spawn(r, effect)
      PROVE  task'[r].at = "starting" /\ task'[r].effect = effect
  <2>1. /\ [NoTask EXCEPT !.at = "starting", !.effect = effect].at = "starting"
        /\ [NoTask EXCEPT !.at = "starting", !.effect = effect].effect = effect
    BY DEF NoTask
  <2> QED
    BY <1>2, <2>1 DEF TaskType, Spawn
<1>3. CASE \/ Recover(r) \/ Loop(r) \/ Plan(r) \/ Cleanup(r) \/ JoinSummary(r)
           \/ JoinVerify(r) \/ JoinPreparation(r) \/ JoinMapping(r)
           \/ FinalizeTranscript(r) \/ FailStage(r) \/ JoinPublish(r)
  <2>1. task' = task \/ task' = [task EXCEPT ![r] = NoTask]
    BY <1>3
       DEF Recover, Loop, Plan, Cleanup, JoinSummary, JoinVerify, JoinPreparation,
           JoinMapping, FinalizeTranscript, FailStage, JoinPublish
  <2>2. \E at \in {"loop", "drop", "fail", "finalize"} : Go(r, at)
    <3>1. CASE Loop(r)
      <4>1. ledger' \in Resume(ledger) => Effect(ledger') = "drop"
        BY TerminalStays DEF Calls, GoodLedger, Effect, IsTerminal, CanceledStates
      <4> QED
        BY <3>1, <4>1 DEF Loop, Return
    <3> QED
      BY <1>3, <3>1
         DEF Recover, Plan, Cleanup, JoinSummary, JoinVerify, JoinPreparation,
             JoinMapping, FinalizeTranscript, FailStage, JoinPublish, Store, Return
  <2>3. run'[r].at \notin Way
    BY <2>2 DEF Go, RunType, Way
  <2>4. Cancelled(r) => Cancelled(r)'
    BY <2>2 DEF Go, RunType, Cancelled
  <2> QED
    BY <1>1, <2>1, <2>3, <2>4 DEF SilentStep, OnTheWay, WorkerRuns, TaskOwns, Cancelled
<1>4. CASE \/ LoadStage(r) \/ ClaimEffect(r) \/ Attest(r) \/ Write(r)
           \/ CompleteEffect(r) \/ DropScope(r) \/ Unregister(r) \/ ReleaseScope(r)
  <2>1. UNCHANGED task
    BY <1>4
       DEF LoadStage, ClaimEffect, Attest, Write, CompleteEffect, DropScope, Unregister,
           ReleaseScope
  <2>2. \/ \E at \in {"loop", "drop", "fail", "write", "complete", "release", "free"} :
             Go(r, at)
        \/ run' = [run EXCEPT ![r].at = "unregister", ![r].cancel = TRUE]
        \/ \E body : run' = [run EXCEPT ![r].at = "loop", ![r].body = body]
    BY <1>4
       DEF LoadStage, ClaimEffect, Attest, Write, CompleteEffect, DropScope, Unregister,
           ReleaseScope, Return, Stopped, MossActive, IsTerminal, CanceledStates
  <2>3. run'[r].at \notin Way /\ (Cancelled(r) => Cancelled(r)')
    BY <2>2 DEF Go, RunType, Way, Cancelled
  <2> QED
    BY <1>1, <2>1, <2>3 DEF SilentStep, OnTheWay, WorkerRuns, TaskOwns, Cancelled
<1>5. CASE TakePending(r) \/ Preserve(r) \/ StartInference(r) \/ StartSummary(r)
  <2>1. OnTheWay(r)
    BY <1>5 DEF TakePending, Preserve, StartInference, StartSummary, OnTheWay, Way
  <2>2. \E at \in {"loop", "preserve", "fail", "infer", "unlink", "await"} : Go(r, at)
    BY <1>5 DEF TakePending, Preserve, StartInference, StartSummary
  <2>3. Cancelled(r) => Cancelled(r)'
    BY <2>2 DEF Go, RunType, Cancelled
  <2>4. WorkerRuns(r)' => WorkerRuns(r)
    <3>1. UNCHANGED task \/ \E effect : Spawn(r, effect)
      BY <1>5 DEF TakePending, Preserve, StartInference, StartSummary
    <3> QED
      BY <1>2, <3>1 DEF WorkerRuns
  <2> QED
    BY <2>1, <2>3, <2>4 DEF SilentStep, OnTheWay, WorkerRuns, TaskOwns, Cancelled
<1>6. CASE ClaimPreparation(r) \/ StartPublish(r) \/ StartVerify(r)
  <2>1. UNCHANGED task \/ \E effect \in {"publish", "verify"} : Spawn(r, effect)
    BY <1>6 DEF ClaimPreparation, StartPublish, StartVerify, Stopped
  <2>2. \E at \in {"loop", "drop", "await"} : Go(r, at)
    BY <1>6 DEF ClaimPreparation, StartPublish, StartVerify, Store, Return
  <2>3. run'[r].at \notin Way /\ (Cancelled(r) => Cancelled(r)')
    BY <2>2 DEF Go, RunType, Way, Cancelled
  <2>4. CASE UNCHANGED task
    BY <1>1, <2>3, <2>4 DEF SilentStep, OnTheWay, WorkerRuns, TaskOwns, Cancelled
  <2>5. CASE \E effect \in {"publish", "verify"} : Spawn(r, effect)
    BY <1>2, <2>3, <2>5 DEF SilentStep, OnTheWay, WorkerRuns, TaskOwns, Cancelled
  <2> QED
    BY <2>1, <2>4, <2>5
<1>7. CASE JoinInference(r)
  <2>1. task' = [task EXCEPT ![r] = NoTask]
    BY <1>7 DEF JoinInference
  <2>2. \/ \E at \in {"loop", "fail"} : Go(r, at)
        \/ \E body : run' = [run EXCEPT ![r].at = "attest", ![r].body = body]
    BY <1>7 DEF JoinInference
  <2>3. run'[r].at \notin Way /\ (Cancelled(r) => Cancelled(r)')
    BY <2>2 DEF Go, RunType, Way, Cancelled
  <2> QED
    BY <1>1, <2>1, <2>3 DEF SilentStep, OnTheWay, WorkerRuns, TaskOwns, Cancelled
<1> QED
  BY <1>3, <1>4, <1>5, <1>6, <1>7 DEF RunStep

LEMMA OtherStepsAreSilent ==
  ASSUME MossInv, NEW r \in Runs, Forgotten(r),
         TaskStep(r) \/ DropCaller(r) \/ Load(r) \/ Begin(r)
  PROVE  SilentStep(r)
<1> USE DEF MossInv
<1>1. CASE TaskStep(r)
  <2>1. UNCHANGED run
    BY <1>1
       DEF TaskStep, StartTask, EndWorker, Archive, ArchiveConflict, Prepare, CountDown,
           EndTask
  <2>2. CASE StartTask(r) /\ task' = [task EXCEPT ![r].at = "running"]
    <3>1. /\ task[r].at = "starting"
          /\ task[r].effect \in {"infer", "summarize"} => ~Cancelled(r)
      BY <2>2 DEF StartTask, Answer, TaskType
    <3>2. task'[r].effect = task[r].effect
      BY <2>2 DEF TaskType
    <3> QED
      BY <2>1, <3>1, <3>2 DEF SilentStep, OnTheWay, WorkerRuns, TaskOwns, Cancelled
  <2>3. CASE \/ \E result : Answer(r, result)
             \/ task' = [task EXCEPT ![r].at = "counted"]
             \/ EndTask(r)
    <3>1. task'[r].at \notin {"starting", "running"}
      BY <2>3 DEF Answer, EndTask, TaskType, NoTask
    <3> QED
      BY <2>1, <3>1 DEF SilentStep, OnTheWay, WorkerRuns, TaskOwns, Cancelled
  <2>4. CASE \E step : task' = [task EXCEPT ![r].step = step]
    <3>1. task'[r].at = task[r].at /\ task'[r].effect = task[r].effect
      BY <2>4 DEF TaskType
    <3> QED
      BY <2>1, <3>1 DEF SilentStep, OnTheWay, WorkerRuns, TaskOwns, Cancelled
  <2> QED
    BY <1>1, <2>2, <2>3, <2>4
       DEF TaskStep, StartTask, EndWorker, Archive, ArchiveConflict, Prepare, CountDown
<1>2. CASE DropCaller(r)
  <2>1. /\ run'[r].at = "drop" /\ run'[r].cancel = run[r].cancel
        /\ task'[r].at = "none" \/ task'[r] = task[r]
    BY <1>2 DEF DropCaller, Return, Go, RunType, TaskType, NoTask
  <2> QED
    BY <2>1 DEF SilentStep, OnTheWay, WorkerRuns, TaskOwns, Way, Cancelled
<1>3. CASE Load(r)
  <2>1. [Idle EXCEPT !.at = "begin"].at = "begin"
    BY DEF Idle
  <2>2. run'[r].at = "begin" /\ task'[r].at = "none"
    BY <1>3, <2>1 DEF Load, RunType
  <2> QED
    BY <2>2 DEF SilentStep, OnTheWay, WorkerRuns, TaskOwns, Way
<1>4. CASE Begin(r)
  <2>1. task'[r].at = "none" /\ run'[r].at \in {"free", "recover"}
    BY <1>4 DEF Begin, Forgotten, Go, Idle, RunType
  <2> QED
    BY <2>1 DEF SilentStep, OnTheWay, WorkerRuns, TaskOwns, Way
<1> QED
  BY <1>1, <1>2, <1>3, <1>4

\* A step of r's run or task.
StepOf(r) == RunStep(r) \/ TaskStep(r) \/ DropCaller(r) \/ Load(r) \/ Begin(r)

LEMMA StepIsOfOne ==
  ASSUME MossInv, NEW r \in Runs, Forgotten(r), StepOf(r)
  PROVE  /\ \A q \in Runs \ {r} : run'[q] = run[q] /\ task'[q] = task[q]
         /\ UNCHANGED process
         /\ canceller'.at = canceller.at
         /\ canceller'.run = canceller.run
         /\ canceller'.process = canceller.process
<1> USE DEF MossInv
<1>1. CASE RunStep(r)
  <2>1. CASE Unregister(r) \/ ReleaseScope(r)
    BY <2>1, StageEndsArePlain DEF PlainStep, OnlyOf
  <2>2. CASE ~Unregister(r) /\ ~ReleaseScope(r)
    BY <1>1, <2>2, RunKeepsGoing, RunStepTasks DEF OnlyOf
  <2> QED
    BY <2>1, <2>2
<1>2. CASE TaskStep(r)
  <2>1. UNCHANGED <<process, run>>
    BY <1>2
       DEF TaskStep, StartTask, EndWorker, Archive, ArchiveConflict, Prepare, CountDown,
           EndTask
  <2>2. UNCHANGED canceller \/ canceller' = [canceller EXCEPT !.woken = TRUE]
    BY <1>2
       DEF TaskStep, StartTask, EndWorker, Archive, ArchiveConflict, Prepare, CountDown,
           EndTask
  <2>3. \/ task' = [task EXCEPT ![r].at = "running"]
        \/ task' = [task EXCEPT ![r].at = "counted"]
        \/ \E result : Answer(r, result)
        \/ \E step : task' = [task EXCEPT ![r].step = step]
        \/ \E t : task' = [task EXCEPT ![r] = t]
    BY <1>2
       DEF TaskStep, StartTask, EndWorker, Archive, ArchiveConflict, Prepare, CountDown,
           EndTask
  <2>4. \A q \in Runs \ {r} : task'[q] = task[q]
    BY <2>3 DEF Answer, TaskType
  <2> QED
    BY <2>1, <2>2, <2>4 DEF RegistryType
<1>3. CASE DropCaller(r) \/ Load(r) \/ Begin(r)
  BY <1>3 DEF DropCaller, Return, Go, Load, Begin, RunType, TaskType
<1> QED
  BY <1>1, <1>2, <1>3 DEF StepOf

\* The entry of a run at work is not taken from it.
LEMMA StepKeepsEntries ==
  ASSUME MossInv, NEW r \in Runs, Forgotten(r), StepOf(r), ~Begin(r)
  PROVE  registry' = registry \/ registry' = Removed(r)
BY RunKeepsGoing
   DEF MossInv, StepOf, Unregister, ReleaseScope, TaskStep, StartTask, EndWorker, Archive,
       ArchiveConflict, Prepare, CountDown, EndTask, DropCaller, Load, durable

LEMMA StepRegisters ==
  ASSUME MossInv, NEW r \in Runs, \A q \in Runs : Forgotten(q) /\ Registered(q), StepOf(r)
  PROVE  \A q \in Runs : Registered(q)'
<1> USE DEF MossInv
<1>1. /\ \A q \in Runs \ {r} : run'[q] = run[q] /\ task'[q] = task[q]
      /\ UNCHANGED process
  BY StepIsOfOne
<1>2. CASE Begin(r)
  <2>1. CASE run' = [run EXCEPT ![r] = Idle] /\ UNCHANGED registry
    <3>1. run'[r].at = "free" /\ task'[r].at = "none"
      BY <1>2, <2>1 DEF Begin, Forgotten, Idle, RunType
    <3> QED
      BY <1>1, <2>1, <3>1 DEF Registered, TaskOwns
  <2>2. CASE /\ ~ (registry[process[r]] # NoOne \/ ~LeaseFree)
             /\ registry' = [registry EXCEPT ![process[r]] = r]
    <3>1. registry'[process[r]] = r
      BY <2>2 DEF RegistryType
    <3>2. \A q \in Runs \ {r} :
             run[q].at \in {"free", "begin"} /\ ~TaskOwns(q)
      BY <2>2 DEF LeaseFree, HoldsLease
    <3> QED
      BY <1>1, <3>1, <3>2 DEF Registered, TaskOwns
  <2> QED
    BY <1>2, <2>1, <2>2 DEF Begin
<1>3. CASE ~Begin(r)
  <2>1. registry' = registry \/ registry' = Removed(r)
    BY <1>3, StepKeepsEntries
  <2>2. ASSUME NEW q \in Runs \ {r}
        PROVE  Registered(q)'
    <3>1. registry[process[q]] = q => registry'[process[q]] = q
      BY <2>1 DEF Removed, RegistryType
    <3> QED
      BY <1>1, <3>1 DEF Registered, TaskOwns
  <2>3. CASE RunStep(r) /\ ~Unregister(r) /\ ~ReleaseScope(r)
    <3>1. run[r].at \notin {"free", "begin", "unregister", "release"}
      BY <2>3
         DEF RunStep, Recover, Loop, ClaimPreparation, LoadStage, ClaimEffect, TakePending,
             Preserve, StartInference, StartSummary, Plan, StartPublish, StartVerify,
             Cleanup, JoinPreparation, JoinInference, Attest, Write, CompleteEffect,
             JoinMapping, FinalizeTranscript, FailStage, JoinSummary, JoinPublish,
             JoinVerify, Joined, DropScope
    <3>2. UNCHANGED registry
      BY <2>3, RunKeepsGoing
    <3> QED
      BY <1>1, <2>2, <3>1, <3>2 DEF Registered
  <2>4. CASE Unregister(r)
    <3>1. run'[r].at = "release" /\ UNCHANGED task
      BY <2>4 DEF Unregister, Go, RunType, durable
    <3>2. TaskOwns(r) => UNCHANGED registry
      BY <2>4 DEF Unregister, Tasks, TaskOwns
    <3> QED
      BY <1>1, <2>2, <3>1, <3>2 DEF Registered, TaskOwns
  <2>5. CASE ReleaseScope(r)
    <3>1. run'[r].at = "free" /\ UNCHANGED <<registry, task>>
      BY <2>5 DEF ReleaseScope, Go, RunType, durable
    <3> QED
      BY <1>1, <2>2, <3>1 DEF Registered, TaskOwns
  <2>6. CASE TaskStep(r)
    <3>1. UNCHANGED run
      BY <2>6
         DEF TaskStep, StartTask, EndWorker, Archive, ArchiveConflict, Prepare, CountDown,
             EndTask
    <3>2. CASE EndTask(r)
      <4>1. ~TaskOwns(r)'
        BY <3>2 DEF EndTask, TaskOwns, TaskType, NoTask
      <4>2. ~Closing(r) => UNCHANGED registry
        BY <3>2 DEF EndTask
      <4> QED
        BY <1>1, <2>2, <3>1, <4>1, <4>2 DEF Registered, Closing
    <3>3. CASE ~EndTask(r)
      <4>1. UNCHANGED registry
        BY <2>6, <3>3
           DEF TaskStep, StartTask, EndWorker, Archive, ArchiveConflict, Prepare, CountDown
      <4>2. TaskOwns(r)' => TaskOwns(r)
        <5>1. \/ task[r].at \in {"starting", "running"}
              \/ task' = [task EXCEPT ![r].at = "counted"]
          BY <2>6, <3>3
             DEF TaskStep, StartTask, EndWorker, Archive, ArchiveConflict, Prepare,
                 CountDown
        <5> QED
          BY <5>1 DEF TaskOwns, TaskType
      <4> QED
        BY <1>1, <2>2, <3>1, <4>1, <4>2 DEF Registered
    <3> QED
      BY <3>2, <3>3
  <2>7. CASE DropCaller(r)
    <3>1. run[r].at = "await" /\ UNCHANGED registry
      BY <2>7 DEF DropCaller
    <3> QED
      BY <1>1, <2>2, <3>1 DEF Registered
  <2>8. CASE Load(r)
    <3>1. [Idle EXCEPT !.at = "begin"].at = "begin"
      BY DEF Idle
    <3>2. run'[r].at = "begin" /\ task'[r].at = "none"
      BY <2>8, <3>1 DEF Load, RunType
    <3> QED
      BY <2>2, <3>2 DEF Registered, TaskOwns
  <2> QED
    BY <1>3, <2>2, <2>3, <2>4, <2>5, <2>6, <2>7, <2>8 DEF StepOf
<1> QED
  BY <1>2, <1>3

LEMMA WorkersAreOnTheWay ==
  ASSUME NEW r, WorkerRuns(r)
  PROVE  OnTheWay(r) /\ Tasks(r) # 0
BY DEF WorkerRuns, OnTheWay, TaskOwns, Tasks

LEMMA StepStaysSilent ==
  ASSUME MossInv, NEW r \in Runs, \A q \in Runs : Forgotten(q), CancelInv, StepOf(r)
  PROVE  \A q \in Runs : Silenced(q)'
<1>1. /\ \A q \in Runs \ {r} : run'[q] = run[q] /\ task'[q] = task[q]
      /\ UNCHANGED process
      /\ canceller'.at = canceller.at
      /\ canceller'.run = canceller.run
      /\ canceller'.process = canceller.process
  BY StepIsOfOne
<1>2. ASSUME NEW q \in Runs \ {r}
      PROVE  Silenced(q)'
  BY <1>1 DEF CancelInv, Silenced, OnTheWay, WorkerRuns, TaskOwns, Cancelled
<1>3. Silenced(r)'
  <2>1. CASE canceller.at \in {"wait", "armed", "asleep", "returned"}
    <3>1. IsTerminal(ledger.state)
      BY <2>1 DEF CancelInv
    <3>2. SilentStep(r)
      BY <3>1, RunStepIsSilent, OtherStepsAreSilent DEF StepOf
    <3>3. Silenced(r)
      BY DEF CancelInv
    <3> QED
      BY <1>1, <2>1, <3>2, <3>3, WorkersAreOnTheWay
         DEF Silenced, SilentStep, OnTheWay, WorkerRuns, TaskOwns, Cancelled
  <2>2. CASE canceller.at \notin {"wait", "armed", "asleep", "returned"}
    BY <1>1, <2>2 DEF Silenced
  <2> QED
    BY <2>1, <2>2
<1> QED
  BY <1>2, <1>3

LEMMA CancelStoreSilences ==
  ASSUME MossInv, CancelInv, NEW p \in Processes, CancelStore(p)
  PROVE  CancelInv'
<1> USE DEF MossInv
<1>1. UNCHANGED <<process, registry, run, task>> /\ canceller'.at = "signal"
  BY DEF CancelStore, NoCancel
<1>2. IsTerminal(ledger'.state)
  <2>1. /\ ledger.transcription_backend = "MossLocal"
        /\ ledger' \in Cancel(ledger)
    BY DEF CancelStore
  <2>2. /\ ledger'.transcription_backend = "MossLocal"
        /\ ledger'.state \in CanceledStates \cup {"CancelingUpload"}
    BY <2>1
       DEF Cancel, When, Mutate, Transition, GoodLedger, Ledger, CanceledStates
  <2>3. Valid(ledger')
    BY CallsKeepGood, <2>1 DEF Calls, GoodLedger
  <2>4. ledger'.state # "CancelingUpload"
    BY <2>2, <2>3 DEF Valid, StateFitsBackend, IsRemote
  <2> QED
    BY <2>2, <2>4 DEF IsTerminal
<1> QED
  BY <1>1, <1>2
     DEF CancelInv, Registered, Silenced, TaskOwns, OnTheWay, WorkerRuns

LEMMA SignalSilences ==
  ASSUME MossInv, CancelInv, Signal
  PROVE  CancelInv'
<1> USE DEF MossInv
<1> DEFINE x == registry[canceller.process]
<1>1. /\ UNCHANGED <<ledger, process, registry, task>> /\ canceller.at = "signal"
      /\ canceller.process \in Processes
  BY DEF Signal, RegistryNames, durable
<1>2. \A q \in Runs : OnTheWay(q) /\ process[q] = canceller.process => x = q
  BY DEF CancelInv, Registered, OnTheWay, Way
<1>3. \A q \in Runs : /\ run'[q].at = run[q].at
                      /\ q # x => run'[q] = run[q]
                      /\ q = x => run'[q].cancel = TRUE
                      /\ x = NoOne => run'[q] = run[q]
  BY <1>1, MossAssumption DEF Signal, RunType, RegistryType
<1>4. \A q \in Runs : /\ OnTheWay(q)' <=> OnTheWay(q)
                      /\ WorkerRuns(q)' <=> WorkerRuns(q)
  BY <1>1, <1>3 DEF OnTheWay, WorkerRuns, TaskOwns
<1>5. \A q \in Runs : Registered(q)'
  BY <1>1, <1>3 DEF CancelInv, Registered, TaskOwns
<1>6. /\ canceller'.process = canceller.process
      /\ \/ canceller'.at = "returned" /\ x = NoOne
         \/ canceller'.at = "wait" /\ canceller'.run = x
  BY <1>1 DEF Signal, Wait, RegistryType
<1>7. \A q \in Runs : Silenced(q)'
  <2>1. ASSUME NEW q \in Runs, process[q] = canceller.process
        PROVE  /\ OnTheWay(q)' => x = q /\ Cancelled(q)'
               /\ WorkerRuns(q)' => x = q
    BY <1>2, <1>3, <1>4, <2>1, WorkersAreOnTheWay DEF Cancelled
  <2> QED
    BY <1>1, <1>6, <2>1, MossAssumption DEF Silenced
<1> QED
  BY <1>1, <1>5, <1>7 DEF CancelInv

LEMMA CancelStepSilences ==
  ASSUME MossInv, CancelInv, CancelStep
  PROVE  CancelInv'
<1> USE DEF MossInv
<1>1. CASE Arm \/ CheckTasks \/ Wake
  <2>1. UNCHANGED <<ledger, process, registry, run, task>>
    BY <1>1 DEF Arm, CheckTasks, Wake, durable
  <2>2. /\ canceller.at \in {"wait", "armed", "asleep"}
        /\ canceller'.process = canceller.process
        /\ \/ /\ canceller'.at \in {"wait", "armed", "asleep"}
              /\ canceller'.run = canceller.run
           \/ canceller'.at = "returned" /\ Tasks(canceller.run) = 0
    BY <1>1 DEF Arm, CheckTasks, Wake, Wait, RegistryType
  <2>3. ASSUME NEW q \in Runs
        PROVE  Registered(q)' /\ Silenced(q)'
    <3>1. Registered(q) /\ Silenced(q)
      BY DEF CancelInv
    <3>2. Registered(q)'
      BY <2>1, <3>1 DEF Registered, TaskOwns
    <3>3. Silenced(q)'
      BY <2>1, <2>2, <3>1, WorkersAreOnTheWay
         DEF Silenced, OnTheWay, WorkerRuns, TaskOwns, Cancelled
    <3> QED
      BY <3>2, <3>3
  <2> QED
    BY <2>1, <2>2, <2>3 DEF CancelInv
<1> QED
  BY <1>1, SignalSilences DEF CancelStep

LEMMA CrashSilences ==
  ASSUME MossInv, CancelInv, NEW p \in Processes, Crash(p)
  PROVE  CancelInv'
<1> USE DEF MossInv
<1>1. UNCHANGED <<ledger, process>>
  BY DEF Crash
<1>2. \/ canceller.process = p /\ canceller' = NoCancel
      \/ canceller.process # p /\ UNCHANGED canceller
  BY DEF Crash
<1>3. ASSUME NEW q \in Runs
      PROVE  Registered(q)' /\ Silenced(q)'
  <2>1. Registered(q) /\ Silenced(q)
    BY DEF CancelInv
  <2>2. CASE process[q] = p
    <3>1. run'[q].at = "free" /\ task'[q].at = "none"
      BY <2>2 DEF Crash, Idle, NoTask
    <3>2. canceller'.process # p \/ canceller'.at = "idle"
      BY <1>2 DEF NoCancel
    <3> QED
      BY <1>1, <2>2, <3>1, <3>2
         DEF Registered, Silenced, OnTheWay, WorkerRuns, TaskOwns, Way
  <2>3. CASE process[q] # p
    <3>1. run'[q] = run[q] /\ task'[q] = task[q]
      BY <2>3 DEF Crash
    <3>2. registry'[process[q]] = registry[process[q]]
      BY <2>3 DEF Crash, RegistryType
    <3>3. Registered(q)'
      BY <1>1, <2>1, <3>1, <3>2 DEF Registered, TaskOwns
    <3>4. CASE UNCHANGED canceller
      BY <1>1, <2>1, <3>1, <3>3, <3>4
         DEF Silenced, OnTheWay, WorkerRuns, TaskOwns, Cancelled
    <3>5. CASE canceller' = NoCancel
      BY <3>3, <3>5 DEF Silenced, NoCancel
    <3> QED
      BY <1>2, <3>4, <3>5
  <2> QED
    BY <2>2, <2>3
<1> QED
  BY <1>1, <1>2, <1>3 DEF CancelInv, NoCancel

LEMMA NextSilences ==
  ASSUME MossInv, \A q \in Runs : Forgotten(q), CancelInv, [Next]_vars
  PROVE  CancelInv'
<1> USE DEF MossInv
<1>1. IsTerminal(ledger.state) => ledger'.state = ledger.state
  BY NextCalls, TerminalStays DEF GoodLedger
<1>2. ASSUME NEW r \in Runs, StepOf(r)
      PROVE  CancelInv'
  <2>1. canceller'.at = canceller.at
    BY <1>2, StepIsOfOne
  <2>2. \A q \in Runs : Registered(q)'
    BY <1>2, StepRegisters DEF CancelInv
  <2>3. \A q \in Runs : Silenced(q)'
    BY <1>2, StepStaysSilent
  <2> QED
    BY <1>1, <2>1, <2>2, <2>3 DEF CancelInv
<1>3. CASE SelectFullMoss \/ Retry \/ UNCHANGED vars
  <2>1. UNCHANGED <<process, registry, run, task, canceller>>
    BY <1>3 DEF SelectFullMoss, Retry, vars
  <2> QED
    BY <1>1, <2>1
       DEF CancelInv, Registered, Silenced, OnTheWay, WorkerRuns, TaskOwns, Cancelled
<1> QED
  BY <1>2, <1>3, CancelStoreSilences, CancelStepSilences, CrashSilences DEF Next, StepOf

\* After cancel_and_cleanup has returned no worker of its process runs: the
\* signal reaches whoever has the lease, and nobody who comes later finds work.
THEOREM CancelEndsWorkers == Spec => []CanceledIsQuiet
<1>1. Init => CancelInv
  BY DEF Init, CancelInv, Registered, Silenced, TaskOwns, Idle, NoTask, NoCancel
<1>2. MossInv /\ (\A r \in Runs : Forgotten(r)) /\ CancelInv /\ [Next]_vars => CancelInv'
  BY NextSilences
<1>3. CancelInv => CanceledIsQuiet
  BY DEF CancelInv, Silenced, WorkerRuns, CanceledIsQuiet
<1> QED
  BY <1>1, <1>2, <1>3, MossInvariant, RunsLeave, PTL DEF Spec
=============================================================================
