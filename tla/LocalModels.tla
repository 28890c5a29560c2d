----------------------------- MODULE LocalModels -----------------------------
(* The local model packs.  The plain packs and the MOSS pipeline, which is     *)
(* composed of files that plain packs also own, install, remove, inspect and   *)
(* prove their files under one busy lease; the status and the proof of most    *)
(* plain packs read without it.  A download resumes what is staged beside its  *)
(* destination.  Requests may be canceled, the pipeline's and MOSS's dropped,  *)
(* the network may fail or stall, and the process may be killed at any step.   *)
EXTENDS Naturals, Sequences

CONSTANTS
    Files,
    Plain,         \* the plain packs
    Moss,          \* the plain pack whose operations all take the lease
    Pipeline,      \* the pipeline's pack
    Exact,         \* packs whose directory may hold nothing but their files
    FilesOf,       \* the catalog: the files of each pack, in order
    Unshared,      \* the pipeline's files that are its own to remove
    Found,         \* what earlier versions may have left at the destinations
    MaxRequests,   \* bound: operations begun
    MaxFaults      \* bound: kills, cancels, drops and network failures

\* The catalog as the program is built with.
WellFormed ==
    /\ Moss \in Plain /\ Pipeline \notin Plain
    /\ FilesOf \in [Plain \cup {Pipeline} -> Seq(Files) \ {<<>>}]
    /\ Unshared \subseteq Files
    /\ Found \subseteq [Files -> {"none", "good", "bad"}]
    /\ "reader" \notin Plain \cup {Pipeline}   \* the name of no pack

ASSUME CatalogAssumption == WellFormed

VARIABLES
    content,       \* what is at each file's destination
    partial,       \* what is staged beside it
    cache,         \* the pipeline's verdict on the file now at the destination
    status,        \* OperationStatus of each pack
    job,           \* the operation of each pack, and one that reads without the lease
    busy,          \* the lease is taken
    requests, faults

vars == <<content, partial, cache, status, job, busy, requests, faults>>

Packs == Plain \cup {Pipeline}
Reader == "reader"
Slots == Packs \cup {Reader}

Idle == [pack |-> Reader, kind |-> "none", pc |-> "idle", todo |-> <<>>,
         ok |-> TRUE, cancel |-> FALSE]
Default == [installing |-> FALSE, installed |-> FALSE, error |-> "none"]

Init ==
    /\ content \in Found
    /\ partial = [f \in Files |-> "none"]
    /\ cache = [f \in Files |-> "unknown"]
    /\ status = [p \in Packs |-> Default]
    /\ job = [s \in Slots |-> Idle]
    /\ busy = FALSE
    /\ requests = 0 /\ faults = 0

-----------------------------------------------------------------------------
Interruptible(p) == p \in {Moss, Pipeline}
Faulty == faults < MaxFaults /\ faults' = faults + 1
At(s, pc) == job[s].pc = pc
File(s) == Head(job[s].todo)
Canceled(s) == Interruptible(job[s].pack) /\ job[s].cancel

Goto(s, pc) == job' = [job EXCEPT ![s].pc = pc]
Advance(s, pc) == job' = [job EXCEPT ![s].pc = pc, ![s].todo = Tail(@)]

\* A file that changes no longer has the stamp of its cached verdict.
Write(f, bytes) ==
    /\ content' = [content EXCEPT ![f] = bytes]
    /\ cache' = [cache EXCEPT ![f] = "unknown"]

\* What every exit of an operation does: its slot and its lease are dropped.
End(s, result) ==
    /\ job' = [job EXCEPT ![s] = Idle]
    /\ busy' = IF s = Reader THEN busy ELSE FALSE
    /\ status' = [status EXCEPT ![job[s].pack] = result]

\* An operation that ends with an error.
Fail(s, error) ==
    End(s, IF job[s].pack = Pipeline \/ job[s].kind = "install"
           THEN [installing |-> FALSE, installed |-> FALSE, error |-> error]
           ELSE status[job[s].pack])

-----------------------------------------------------------------------------
(* The requests.                                                              *)

\* inspect and proof of a plain pack other than MOSS read without the lease.
Slot(p, kind) == IF Interruptible(p) \/ kind \notin {"inspect", "proof"} THEN p ELSE Reader

First(p, kind) == CASE kind = "install" -> "file"
                    [] kind \in {"remove", "removeShared"} -> "remove"
                    [] OTHER -> "scan"

Removed(p, kind) == IF p # Pipeline \/ kind = "removeShared" THEN FilesOf[p]
                    ELSE SelectSeq(FilesOf[p], LAMBDA f : f \in Unshared)

\* acquire_busy, and what an operation writes before its first await.
Acquired_Unleased(s) == IF s \in {Reader, Pipeline} THEN UNCHANGED busy ELSE ~busy /\ busy' = TRUE
Acquired(s) == IF s = Reader THEN UNCHANGED busy ELSE ~busy /\ busy' = TRUE

Begun(p, kind) ==
    IF p = Pipeline THEN [Default EXCEPT !.installing = kind = "install"]
    ELSE IF kind = "install"
         THEN [installing |-> TRUE, error |-> "none",
               installed |-> p # Moss /\ status[p].installed]
         ELSE status[p]

Begin(p, kind) ==
    LET s == Slot(p, kind) IN
    /\ requests < MaxRequests /\ requests' = requests + 1
    /\ job[s] = Idle
    /\ Acquired(s)
    /\ job' = [job EXCEPT ![s] = [Idle EXCEPT !.pack = p, !.kind = kind, !.pc = First(p, kind),
                 !.todo = IF First(p, kind) = "remove" THEN Removed(p, kind) ELSE FilesOf[p]]]
    /\ status' = [status EXCEPT ![p] = Begun(p, kind)]
    /\ UNCHANGED <<content, partial, cache, faults>>

\* The status of a pack that is being installed is only read.
Inspect(p) == ~status[p].installing /\ Begin(p, "inspect")
Prove(p) == Begin(p, "proof")
Install(p) == Begin(p, "install")
Remove(p) == Begin(p, "remove") \/ (p = Pipeline /\ Begin(p, "removeShared"))

\* cancel_install
Cancel(p) ==
    /\ job[p].kind = "install" /\ ~job[p].cancel /\ Faulty
    /\ job' = [job EXCEPT ![p].cancel = TRUE]
    /\ UNCHANGED <<content, partial, cache, status, busy, requests>>

\* The request's future is dropped: the pipeline's own task only hears of it,
\* MOSS's operation ends at once.
DropRequest(p) ==
    /\ job[p] # Idle /\ Faulty
    /\ \/ /\ p = Pipeline /\ ~job[p].cancel
          /\ job' = [job EXCEPT ![p].cancel = TRUE]
          /\ UNCHANGED <<status, busy>>
       \/ /\ p = Moss /\ job[p].kind = "install" /\ job[p].pc \in {"request", "stream"}
          /\ Fail(p, "canceled")
    /\ UNCHANGED <<content, partial, cache, requests>>

-----------------------------------------------------------------------------
(* Inspection, proof, and the verification that ends an install.              *)

\* The verdict on a file: the pipeline trusts its cache unless it must not.
Verdict(s, f) ==
    IF job[s].pack = Pipeline /\ job[s].kind # "proof" /\ cache[f] # "unknown"
    THEN cache[f] = "good" ELSE content[f] = "good"

Learned(s, f) ==
    cache' = IF job[s].pack # Pipeline THEN cache
             ELSE [cache EXCEPT ![f] = IF content[f] = "none" THEN "unknown"
                                       ELSE IF Verdict(s, f) THEN "good" ELSE "bad"]

\* A partial is a path the catalog does not name.
ExactPaths(s, f) == job[s].pack \in Exact => partial[f] = "none"

ScanFile(s) ==
    /\ At(s, "scan") /\ job[s].todo # <<>> /\ ~Canceled(s)
    /\ LET f == File(s) IN
       /\ job' = [job EXCEPT ![s].todo = Tail(@),
                    ![s].ok = @ /\ Verdict(s, f) /\ ExactPaths(s, f)]
       /\ Learned(s, f)
    /\ UNCHANGED <<content, partial, status, busy, requests, faults>>

EndScan(s) ==
    LET ok == job[s].ok  kind == job[s].kind  p == job[s].pack IN
    /\ At(s, "scan") /\ job[s].todo = <<>> /\ ~Canceled(s)
    /\ \/ /\ kind = "install" \/ (p = Pipeline /\ kind = "proof")
          /\ IF ok THEN End(s, [Default EXCEPT !.installed = TRUE])
             ELSE Fail(s, IF kind = "proof" THEN "not_installed" ELSE "verification_failed")
       \/ kind = "proof" /\ p # Pipeline /\ End(s, status[p])
       \/ kind \in {"remove", "removeShared"} /\ End(s, [Default EXCEPT !.installed = ok])
       \/ kind = "inspect" /\ End(s, [status[p] EXCEPT !.installed = ok,
                                         !.error = IF ok THEN "none" ELSE @])
    /\ UNCHANGED <<content, partial, cache, requests, faults>>

-----------------------------------------------------------------------------
(* Removal: each file with what is staged for it.                             *)

RemoveFile(s) ==
    /\ At(s, "remove") /\ job[s].todo # <<>> /\ ~Canceled(s)
    /\ Write(File(s), "none")
    /\ partial' = [partial EXCEPT ![File(s)] = "none"]
    /\ Advance(s, "remove")
    /\ UNCHANGED <<status, busy, requests, faults>>

EndRemove(s) ==
    /\ At(s, "remove") /\ job[s].todo = <<>> /\ ~Canceled(s)
    /\ IF job[s].pack = Pipeline
       THEN /\ job' = [job EXCEPT ![s].pc = "scan", ![s].todo = FilesOf[Pipeline]]
            /\ UNCHANGED <<status, busy>>
       ELSE End(s, Default)
    /\ UNCHANGED <<content, partial, cache, requests, faults>>

-----------------------------------------------------------------------------
(* Installation.                                                              *)

\* Where an install goes after one of its files.
Finished(s) ==
    IF Len(job[s].todo) > 1 THEN Advance(s, "file")
    ELSE job' = [job EXCEPT ![s].pc = "scan", ![s].todo = FilesOf[job[s].pack]]

\* The pipeline keeps a shared file that is the catalog's and stops at one that
\* is not; a plain pack removes its own.
CheckShared(s) ==
    LET f == File(s) IN
    /\ At(s, "file") /\ ~job[s].cancel /\ content[f] # "none" /\ job[s].pack = Pipeline
    /\ Learned(s, f)
    /\ IF Verdict(s, f)
       THEN partial' = [partial EXCEPT ![f] = "none"] /\ Finished(s) /\ UNCHANGED <<status, busy>>
       ELSE Fail(s, "destination_conflict") /\ UNCHANGED partial
    /\ UNCHANGED <<content, requests, faults>>

CheckOwn(s) ==
    LET f == File(s) IN
    /\ At(s, "file") /\ ~job[s].cancel /\ content[f] # "none" /\ job[s].pack # Pipeline
    /\ IF content[f] = "good" THEN Finished(s) /\ UNCHANGED <<content, cache>>
       ELSE Write(f, "none") /\ UNCHANGED job
    /\ UNCHANGED <<partial, status, busy, requests, faults>>

Complete(bytes) == bytes \in {"full", "wrong"}
DigestMatches_SizeOnly(bytes) == Complete(bytes)
DigestMatches(bytes) == bytes = "full"

\* partial_digest: what is staged is hashed before it is resumed or published.
CheckPartial(s) ==
    LET f == File(s) IN
    /\ At(s, "file") /\ ~job[s].cancel /\ content[f] = "none"
    /\ IF Complete(partial[f]) /\ ~DigestMatches(partial[f])
       THEN partial' = [partial EXCEPT ![f] = "none"] /\ Fail(s, "verification_failed")
       ELSE /\ Goto(s, IF Complete(partial[f]) THEN "publish" ELSE "request")
            /\ UNCHANGED <<partial, status, busy>>
    /\ UNCHANGED <<content, cache, requests, faults>>

\* The response is opened for the file: a new file, or one that holds the bytes
\* asked for.  Only the pipeline takes an empty file for a new one.
OpenOutput(s) ==
    LET f == File(s) IN
    /\ At(s, "request")
    /\ IF partial[f] = "empty" /\ job[s].pack # Pipeline
       THEN Fail(s, "install_failed") /\ UNCHANGED partial
       ELSE /\ Goto(s, "stream") /\ UNCHANGED <<status, busy>>
            /\ partial' = [partial EXCEPT ![f] = IF @ = "none" THEN "empty" ELSE @]
    /\ UNCHANGED <<content, cache, requests, faults>>

\* A file is two chunks here, either of which may hold other bytes.
Grown(bytes, right) ==
    CASE bytes = "empty" -> IF right THEN "part" ELSE "wrongpart"
      [] bytes = "part" /\ right -> "full"
      [] OTHER -> "wrong"

\* The digest of the resumed prefix and of the chunks is the file's digest.
Chunk(s, right) ==
    LET f == File(s)  bytes == Grown(partial[f], right) IN
    /\ At(s, "stream")
    /\ IF right THEN UNCHANGED faults ELSE Faulty
    /\ IF job[s].cancel THEN Fail(s, "canceled") /\ UNCHANGED partial
       ELSE IF Complete(bytes) /\ ~DigestMatches(bytes)
       THEN Fail(s, "verification_failed") /\ partial' = [partial EXCEPT ![f] = "none"]
       ELSE /\ partial' = [partial EXCEPT ![f] = bytes]
            /\ Goto(s, IF Complete(bytes) THEN "publish" ELSE "stream")
            /\ UNCHANGED <<status, busy>>
    /\ UNCHANGED <<content, cache, requests>>

\* A rejected response, or a body that ends early, costs what was staged; a
\* connection that breaks does not.
NetworkFails(s) ==
    /\ job[s].pc \in {"request", "stream"} /\ Faulty
    /\ \/ /\ Fail(s, IF At(s, "request") THEN "download_rejected" ELSE "verification_failed")
          /\ partial' = [partial EXCEPT ![File(s)] = "none"]
       \/ Fail(s, "download_failed") /\ UNCHANGED partial
    /\ UNCHANGED <<content, cache, requests>>

\* await_download: a stalled network is given up after a minute, and at once when
\* the operation is canceled.  The other packs wait for ever.
Interrupt_Untimed(s) ==
    /\ job[s].pc \in {"request", "stream"} /\ Interruptible(s) /\ job[s].cancel
    /\ Fail(s, "canceled")
    /\ UNCHANGED <<content, partial, cache, requests, faults>>
Interrupt(s) ==
    /\ job[s].pc \in {"request", "stream"} /\ Interruptible(s)
    /\ Fail(s, IF job[s].cancel THEN "canceled" ELSE "download_failed")
    /\ UNCHANGED <<content, partial, cache, requests, faults>>

\* The plain packs rename; the pipeline links, which overwrites nothing, and
\* removes the other name in a later call.
Published(f) == IF partial[f] = "full" THEN "good" ELSE "bad"

Publish(s) ==
    LET f == File(s) IN
    /\ At(s, "publish") /\ ~job[s].cancel
    /\ IF content[f] # "none"
       THEN Fail(s, "destination_conflict") /\ UNCHANGED <<content, partial, cache>>
       ELSE /\ Write(f, Published(f)) /\ UNCHANGED <<status, busy>>
            /\ IF job[s].pack = Pipeline
               THEN Goto(s, "unlink") /\ UNCHANGED partial
               ELSE Finished(s) /\ partial' = [partial EXCEPT ![f] = "none"]
    /\ UNCHANGED <<requests, faults>>

Unlink(s) ==
    LET f == File(s) IN
    /\ At(s, "unlink")
    /\ partial' = [partial EXCEPT ![f] = "none"]
    /\ IF job[s].cancel THEN Fail(s, "canceled") /\ UNCHANGED cache
       ELSE Finished(s) /\ Learned(s, f) /\ UNCHANGED <<status, busy>>
    /\ UNCHANGED <<content, requests, faults>>

\* check_cancel, wherever an operation calls it outside a download.
StopCanceled(s) ==
    /\ job[s].cancel
    /\ \/ job[s].pc \in {"file", "publish"}
       \/ job[s].pc \in {"scan", "remove"} /\ Canceled(s)
    /\ Fail(s, "canceled")
    /\ UNCHANGED <<content, partial, cache, requests, faults>>

-----------------------------------------------------------------------------
\* What is on disk survives; the manager is opened again.
Kill ==
    /\ Faulty /\ \E s \in Slots : job[s] # Idle
    /\ cache' = [f \in Files |-> "unknown"]
    /\ status' = [p \in Packs |-> Default]
    /\ job' = [s \in Slots |-> Idle]
    /\ busy' = FALSE
    /\ UNCHANGED <<content, partial, requests>>

Network(s) == OpenOutput(s) \/ (\E right \in BOOLEAN : Chunk(s, right)) \/ NetworkFails(s)

Step(s) ==
    \/ ScanFile(s) \/ EndScan(s) \/ RemoveFile(s) \/ EndRemove(s)
    \/ CheckShared(s) \/ CheckOwn(s) \/ CheckPartial(s) \/ Publish(s) \/ Unlink(s)
    \/ Interrupt(s) \/ StopCanceled(s)

Next ==
    \/ \E p \in Packs : \/ Inspect(p) \/ Prove(p) \/ Install(p) \/ Remove(p)
                        \/ Cancel(p) \/ DropRequest(p)
    \/ \E s \in Slots : Step(s) \/ Network(s)
    \/ Kill

\* The program's own steps are taken; the network may stall for ever.
Spec == Init /\ [][Next]_vars /\ \A s \in Slots : WF_vars(Step(s))

-----------------------------------------------------------------------------
(* Properties.                                                                *)

\* An operation of the pack ends well: its error is none and its slot is dropped.
Succeeds(p, kinds) ==
    job[p].kind \in kinds /\ job'[p] = Idle /\ status'[p].installed

\* When an install of any pack, or an inspection or a proof of the pipeline,
\* says installed, every file of the pack is the catalog's at that moment,
\* whatever the other packs that own the file do (Work::execute, install).
InstalledIsWhole ==
    [][/\ \A p \in Packs : Succeeds(p, {"install"}) =>
            \A i \in DOMAIN FilesOf[p] : content'[FilesOf[p][i]] = "good"
       /\ Succeeds(Pipeline, {"inspect", "proof", "remove", "removeShared"}) =>
            \A i \in DOMAIN FilesOf[Pipeline] : content'[FilesOf[Pipeline][i]] = "good"]_vars

\* No operation leaves at a destination bytes that are not the catalog's: not a
\* part of a download, nor one resumed over a damaged prefix (partial_digest).
OnlyVerifiedIsPublished ==
    [][\A f \in Files : content'[f] \in {content[f], "none", "good"}]_vars

\* Whatever the network does, an operation of the pipeline ends and gives the
\* lease back, so that the other packs can be installed (await_download).
PipelineEnds == (job[Pipeline] # Idle) ~> (job[Pipeline] = Idle)

\* An interrupted install can be resumed: only a damaged disk makes one fail
\* with model_install_failed (docs/local-models/PLAN.md).
InstallIsResumable == \A p \in Packs : status[p].error # "install_failed"
=============================================================================
