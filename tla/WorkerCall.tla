------------------------------ MODULE WorkerCall ------------------------------
(* One call of a local worker process: the request goes in through a pipe, the *)
(* answer and the diagnostics come back through two more, and the launcher      *)
(* waits for the exit.  Two launchers do this: "oneShot"                        *)
(* (processing/local_worker.rs, execute_worker), whose steps follow each other  *)
(* and whose drains are tasks of their own, and "supervised"                    *)
(* (processing/moss_worker.rs, execute), one select loop over all of them.      *)
(*                                                                              *)
(* The worker may hang or crash anywhere, write more than the launcher takes,   *)
(* or answer without having read the request; the app may die.                  *)
EXTENDS Naturals

CONSTANTS
    Request,  \* parts of the request
    Pipe,     \* parts that a pipe holds
    Limit     \* parts that a launcher takes from one stream

Streams == {"out", "err"}

VARIABLES
    kind,     \* which launcher this is
    call,     \* [pc, result]
    cancel,   \* the caller's flag, which only the supervised launcher has
    due,      \* the deadline has passed
    input,    \* the request's pipe: parts sent, held, and whether it is closed
    child,    \* the process: state, reaped, ok (its exit status), read
    stream,   \* stream -> parts the child wrote and parts still in the pipe
    drain     \* stream -> the launcher's reader: parts it got and its state

vars == <<kind, call, cancel, due, input, child, stream, drain>>

Init ==
    /\ kind \in {"oneShot", "supervised"}
    /\ call = [pc |-> "idle", result |-> "none"]
    /\ cancel = FALSE /\ due = FALSE
    /\ input = [sent |-> 0, held |-> 0, closed |-> FALSE]
    /\ child = [state |-> "none", reaped |-> FALSE, ok |-> FALSE, read |-> 0]
    /\ stream = [s \in Streams |-> [wrote |-> 0, held |-> 0]]
    /\ drain = [s \in Streams |-> [got |-> 0, state |-> "open"]]

Running == child.state = "running"
At(pc) == call.pc = pc
Goto(pc) == call' = [call EXCEPT !.pc = pc]
Stop(result) == call' = [pc |-> "stopping", result |-> result]
Return(result) == call' = [pc |-> "returned", result |-> result]
Supervised == At("supervising")
Over == At("returned") \/ At("gone")

-----------------------------------------------------------------------------
(* The launchers.                                                            *)

\* The supervised launcher looks at the flag before it spawns.
Start ==
    /\ At("idle")
    /\ IF kind = "supervised" /\ cancel
       THEN Return("cancelled") /\ UNCHANGED child
       ELSE /\ Goto(IF kind = "oneShot" THEN "writing" ELSE "supervising")
            /\ child' = [child EXCEPT !.state = "running"]
    /\ UNCHANGED <<kind, cancel, due, input, stream, drain>>

\* A write to a worker that is gone fails, and either launcher then kills it.
Write ==
    /\ At("writing") \/ Supervised
    /\ ~input.closed
    /\ UNCHANGED <<kind, cancel, due, child, stream, drain>>
    /\ \/ ~Running /\ Stop("temporary") /\ UNCHANGED input
       \/ /\ Running /\ input.sent < Request /\ input.held < Pipe
          /\ input' = [input EXCEPT !.sent = @ + 1, !.held = @ + 1] /\ UNCHANGED call
       \/ /\ input.sent = Request
          /\ input' = [input EXCEPT !.closed = TRUE]
          /\ IF At("writing") THEN Goto("waiting") ELSE UNCHANGED call

\* A reader takes at most one part more than the limit and then closes.  The
\* spawned tasks go on whatever the call does; the supervised ones only in the
\* loop, which an overflow ends at once.
Read(s) ==
    /\ drain[s].state = "open"
    /\ (kind = "oneShot" /\ child.state # "none" /\ ~At("gone")) \/ Supervised
    /\ \/ /\ stream[s].held > 0
          /\ stream' = [stream EXCEPT ![s].held = @ - 1]
          /\ drain' = [drain EXCEPT ![s] = [got |-> @.got + 1,
                           state |-> IF @.got = Limit THEN "over" ELSE "open"]]
          /\ IF Supervised /\ drain[s].got = Limit THEN Stop("verification") ELSE UNCHANGED call
       \/ /\ stream[s].held = 0 /\ child.state = "dead"
          /\ drain' = [drain EXCEPT ![s].state = "whole"]
          /\ UNCHANGED <<stream, call>>
    /\ UNCHANGED <<kind, cancel, due, input, child>>

Reap ==
    /\ child.state = "dead" /\ ~child.reaped
    /\ child' = [child EXCEPT !.reaped = TRUE]
    /\ \/ At("waiting") /\ Goto("collecting")
       \/ Supervised /\ UNCHANGED call
       \/ At("stopping") /\ Goto("returned")
    /\ UNCHANGED <<kind, cancel, due, input, stream, drain>>

DeadlinePasses_OnceWritten ==
    /\ due /\ (At("waiting") \/ (Supervised /\ input.closed))
    /\ Stop("temporary")
    /\ UNCHANGED <<kind, cancel, due, input, child, stream, drain>>

\* Only the wait of a one-shot call is timed; the loop's deadline is absolute.
DeadlinePasses ==
    /\ due /\ (At("waiting") \/ Supervised)
    /\ Stop("temporary")
    /\ UNCHANGED <<kind, cancel, due, input, child, stream, drain>>

PollCancel ==
    /\ cancel /\ Supervised
    /\ Stop("cancelled")
    /\ UNCHANGED <<kind, cancel, due, input, child, stream, drain>>

\* start_kill, then wait; kill() of a child that has been reaped does nothing.
Kill ==
    /\ At("stopping")
    /\ IF child.reaped THEN Goto("returned") /\ UNCHANGED child
       ELSE Running /\ child' = [child EXCEPT !.state = "dead"] /\ UNCHANGED call
    /\ UNCHANGED <<kind, cancel, due, input, stream, drain>>

Outcome ==
    IF \E s \in Streams : drain[s].state = "over" THEN "verification"
    ELSE IF kind = "supervised" /\ cancel THEN "cancelled"
    ELSE IF child.ok THEN "ok" ELSE "failed"

Finished_AtExit == At("collecting") \/ (Supervised /\ input.closed /\ child.reaped)

\* Both drains must have ended: a one-shot call awaits the tasks, the loop ends
\* when the request is written, both streams are whole and the exit is known.
Finished ==
    /\ \A s \in Streams : drain[s].state # "open"
    /\ At("collecting") \/ (Supervised /\ input.closed /\ child.reaped)

Collect ==
    /\ Finished /\ Return(Outcome)
    /\ UNCHANGED <<kind, cancel, due, input, child, stream, drain>>

\* Dropping the call kills the worker; a thread or the runtime reaps it.
Drop ==
    /\ ~At("idle") /\ ~Over
    /\ Return("dropped")
    /\ child' = [child EXCEPT !.state = "dead"]
    /\ UNCHANGED <<kind, cancel, due, input, stream, drain>>

-----------------------------------------------------------------------------
(* The worker, the caller and the clock.                                     *)

ChildReads ==
    /\ Running /\ input.held > 0
    /\ input' = [input EXCEPT !.held = @ - 1]
    /\ child' = [child EXCEPT !.read = @ + 1]
    /\ UNCHANGED <<kind, call, cancel, due, stream, drain>>

\* A full pipe blocks the worker, a closed one fails its write.
ChildWrites(s) ==
    /\ Running /\ stream[s].held < Pipe /\ stream[s].wrote <= Limit + 1
    /\ drain[s].state = "open" /\ ~At("gone")
    /\ stream' = [stream EXCEPT ![s] = [wrote |-> @.wrote + 1, held |-> @.held + 1]]
    /\ UNCHANGED <<kind, call, cancel, due, input, child, drain>>

ChildExits(ok) ==
    /\ Running
    /\ ok => child.read = Request /\ input.closed
    /\ child' = [child EXCEPT !.state = "dead", !.ok = ok]
    /\ UNCHANGED <<kind, call, cancel, due, input, stream, drain>>

\* parent_guard.rs: only the supervised launcher gives its worker the parent.
GuardExits ==
    /\ At("gone") /\ kind = "supervised"
    /\ ChildExits(FALSE)

Cancel ==
    /\ ~cancel /\ cancel' = TRUE
    /\ UNCHANGED <<kind, call, due, input, child, stream, drain>>

Expire ==
    /\ ~due /\ due' = TRUE
    /\ UNCHANGED <<kind, call, cancel, input, child, stream, drain>>

\* Nothing runs on drop; what the pipes hold is lost and the request ends.
AppDies ==
    /\ ~Over /\ Goto("gone")
    /\ input' = [input EXCEPT !.closed = TRUE]
    /\ UNCHANGED <<kind, cancel, due, child, stream, drain>>

Next ==
    \/ Start \/ Write \/ Reap \/ DeadlinePasses \/ PollCancel \/ Kill \/ Collect \/ Drop
    \/ \E s \in Streams : Read(s) \/ ChildWrites(s)
    \/ ChildReads \/ \E ok \in BOOLEAN : ChildExits(ok)
    \/ GuardExits \/ Cancel \/ Expire \/ AppDies

\* The launcher's tasks are scheduled and the deadline comes.  Of the worker
\* nothing is assumed: it may hang for ever.
Fairness ==
    /\ WF_vars(Start) /\ WF_vars(Write) /\ WF_vars(Reap) /\ WF_vars(Kill) /\ WF_vars(Collect)
    /\ \A s \in Streams : WF_vars(Read(s))
    /\ WF_vars(DeadlinePasses) /\ WF_vars(PollCancel) /\ WF_vars(Expire) /\ WF_vars(GuardExits)

Spec == Init /\ [][Next]_vars /\ Fairness

-----------------------------------------------------------------------------
(* Properties.                                                               *)

TypeOK ==
    /\ kind \in {"oneShot", "supervised"} /\ {cancel, due} \subseteq BOOLEAN
    /\ input.sent \in 0 .. Request /\ input.held \in 0 .. Pipe
    /\ \A s \in Streams : stream[s].held \in 0 .. Pipe /\ drain[s].got \in 0 .. Limit + 1

\* A successful call returns all that its worker wrote before it exited, though
\* the exit and the two streams are seen in any order, and no more than allowed.
AnswerIsWhole ==
    call.result = "ok" =>
        /\ child.reaped /\ child.ok /\ child.read = Request
        /\ \A s \in Streams : drain[s].got = stream[s].wrote /\ drain[s].got <= Limit

\* A call ends whatever its worker does, and leaves none running: a supervised
\* call at any time, a one-shot call once the worker has taken its request.  The
\* death of the app ends a call too ("gone"): then a supervised worker's guard ends
\* it, and of a one-shot worker, which has none, nothing is promised.
Ended == Over /\ ~Running

CallsEnd ==
    /\ kind = "supervised" /\ ~At("idle") ~> Ended
    /\ kind = "oneShot" /\ At("waiting") ~> Ended \/ At("gone")

\* Refuted by the code.  A one-shot call ends too: its write is not timed, so a
\* worker that hangs before it has taken a request larger than the pipe holds it.
OneShotEnds == At("writing") ~> ~At("writing")
=============================================================================
