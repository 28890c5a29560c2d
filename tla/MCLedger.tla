------------------------------ MODULE MCLedger ------------------------------
(* Two targets, so that one waits for the other; the second is at-most-once  *)
(* and both are required.  Generations run out after the third.              *)
(*                                                                           *)
(* Beside the operations on a ledger, the files that keep it and the texts   *)
(* that are put in it: a behaviour is of one of these parts.                 *)
EXTENDS ProcessingLedger, MossTranscript, MCText

CONSTANTS MaxRevision, Faults

VARIABLES
    part,
    destination, named, temporaries, current, phase, reported, faults

fileVars == <<destination, named, temporaries, current, phase, reported, faults>>

MCAtMostOnce == {2}

MCRequired == {1, 2}

Files == INSTANCE LedgerFile

-----------------------------------------------------------------------------
(* Small recordings for MossTranscript.                                       *)

Turn(s, e, w) == [start |-> s, end |-> e, who |-> w]

MCTurns == {Turn(i[1], i[2], w) : i \in {<<0, 1>>, <<0, 3>>, <<1, 3>>, <<2, 4>>}, w \in 0 .. 2} \cup {Turn(2, 5, 1)}

MCTracks == {<<Turn(0, 2, 1), Turn(1, 2, 2)>>, <<Turn(0, 1, 2), Turn(0, 3, 1), Turn(2, 3, 2)>>}

MCDrifts == {-1, 2}

-----------------------------------------------------------------------------
(* The parts; what a part is not about stays as it is at first.               *)

FilesAtRest ==
    /\ destination = Files!NoFile /\ named = Files!NoFile /\ current = Files!NoFile
    /\ temporaries = {} /\ phase = "idle" /\ reported = 0 /\ faults = {}

MossAtRest ==
    /\ stage = "answering" /\ failure = "none" /\ anchors = <<>>
    /\ plan = [frames |-> 5, windows |-> <<>>, timing |-> "v2", mapping |-> "graph", duration |-> 2]
    /\ answer = <<>> /\ replies = <<>> /\ transcript = <<>>

TextAtRest == given = [work |-> "none"] /\ made = Unmade

StoreInit ==
    \/ part = "operations" /\ Init /\ FilesAtRest /\ MossAtRest /\ TextAtRest
    \/ /\ ledger = Enqueued
       /\ \/ part = "files" /\ Files!Init /\ MossAtRest /\ TextAtRest
          \/ part = "moss" /\ FilesAtRest /\ MossInit /\ TextAtRest
          \/ part = "text" /\ FilesAtRest /\ MossAtRest /\ Text!Init

OperationsStep == part = "operations" /\ Next /\ UNCHANGED <<fileVars, mossVars, textVars>>

\* The behaviours of the other parts end: at a bound, or with a result.
FilesStep ==
    /\ part = "files" /\ (Files!Next \/ UNCHANGED fileVars)
    /\ UNCHANGED <<ledger, mossVars, textVars>>

WindowsStep ==
    /\ part = "moss" /\ (MossNext \/ UNCHANGED mossVars)
    /\ UNCHANGED <<ledger, fileVars, textVars>>

SpeechStep ==
    /\ part = "text" /\ (Text!Next \/ UNCHANGED textVars)
    /\ UNCHANGED <<ledger, fileVars, mossVars>>

StoreStep == (OperationsStep \/ FilesStep \/ WindowsStep \/ SpeechStep) /\ UNCHANGED part

StoreSpec == StoreInit /\ [][StoreStep]_<<part, ledger, fileVars, mossVars, textVars>>

ImplementsRegister == Files!ImplementsRegister
=============================================================================
