---------------------------- MODULE VerifiedWorker ----------------------------
(* One run of a local worker (whisper-worker, qwen-worker, summary-worker) and *)
(* the files it is asked to use. A worker checks every file against the size   *)
(* and the digest of the request while it holds it open, but the inference     *)
(* libraries open a model again, by its path. Beside it the model manager and  *)
(* the inbox remove files and put others in their places at any time.          *)
EXTENDS Naturals, Sequences

CONSTANTS
    None,
    MaxChanges  \* bound: files that are removed or replaced

VARIABLES
    worker,   \* which of the workers runs
    disk,     \* the file at each path, None if there is none; right: as requested
    handle,   \* the files that the worker holds open
    used,     \* what the decoder and the libraries have read
    at,       \* the next step of the worker's script
    outcome,  \* None, the worker's failure, or "answered"; then what the app makes of it
    changes

vars == <<worker, disk, handle, used, at, outcome, changes>>

Files == {"model", "config", "weights", "aligner", "audio"}

-----------------------------------------------------------------------------
(* What a worker does, step by step: <<verb, file>>.                        *)

Opened(file) == <<<<"open", file>>, <<"hash", file>>, <<"verify", file>>>>

\* Each set of files: exactly these names, then each of them.
QwenOpened ==
    <<<<"list", <<"config", "weights">>>>>> \o Opened("config") \o Opened("weights")
    \o <<<<"list", <<"aligner">>>>>> \o Opened("aligner")

QwenVerified(files) == [i \in DOMAIN files |-> <<"verify", files[i]>>]

WhisperTranscribes == <<<<"load", "model">>, <<"verify", "model">>, <<"infer", "model">>>>

WhisperScript ==
    Opened("model") \o Opened("audio") \o <<<<"decode", "audio">>, <<"verify", "audio">>, <<"verify", "model">>>>
    \o WhisperTranscribes \o <<<<"verify", "model">>, <<"answer", "audio">>>>

QwenTranscribes(asr, aligner) ==
    [i \in DOMAIN (asr \o aligner) |-> <<"load", (asr \o aligner)[i]>>]
    \o QwenVerified(asr \o aligner) \o <<<<"infer", "aligner">>>>

QwenScript ==
    LET asr == <<"config", "weights">> aligner == <<"aligner">> IN
    QwenOpened \o Opened("audio") \o <<<<"decode", "audio">>>>
    \o QwenVerified(<<"audio">> \o asr \o aligner) \o QwenTranscribes(asr, aligner)
    \o QwenVerified(<<"audio">> \o asr \o aligner) \o <<<<"answer", "audio">>>>

\* The transcript comes with the request.
SummaryScript ==
    Opened("model") \o <<<<"load", "model">>, <<"verify", "model">>, <<"infer", "model">>,
                         <<"verify", "model">>, <<"answer", "model">>>>

Script(kind) ==
    CASE kind = "whisper" -> WhisperScript [] kind = "qwen" -> QwenScript [] kind = "summary" -> SummaryScript

\* A disabled worker, or one whose executable is not there, is unavailable.
Init ==
    /\ worker \in {"whisper", "qwen", "summary"}
    /\ disk = [f \in Files |-> [inode |-> 0, right |-> TRUE]]
    /\ handle = [f \in Files |-> None] /\ used = [f \in Files |-> None]
    /\ at = 1 /\ outcome \in {None, "unavailable"} /\ changes = 0

Does(verb, file) == outcome = None /\ Script(worker)[at][1] = verb /\ Script(worker)[at][2] = file

Goes == at' = at + 1 /\ outcome' = None

Fails(code) == outcome' = code /\ UNCHANGED at

-----------------------------------------------------------------------------
(* The steps.                                                               *)

Unavailable(file) == IF file = "audio" THEN "audio_unavailable" ELSE "model_unavailable"

\* The directory of a set holds the names of the request and no other.
ListSet ==
    \E files \in {<<"config", "weights">>, <<"aligner">>}, foreign \in BOOLEAN :
        /\ Does("list", files)
        /\ IF foreign \/ \E i \in DOMAIN files : disk[files[i]] = None THEN Fails("model_unavailable") ELSE Goes
        /\ UNCHANGED <<handle, used>>

Open(file) ==
    /\ Does("open", file)
    /\ IF disk[file] = None THEN Fails(Unavailable(file)) /\ UNCHANGED handle
       ELSE Goes /\ handle' = [handle EXCEPT ![file] = disk[file]]
    /\ UNCHANGED used

\* The size and the digest of the file that is open.
Hash(file) ==
    /\ Does("hash", file)
    /\ IF handle[file].right THEN Goes ELSE Fails("identity_mismatch")
    /\ UNCHANGED <<handle, used>>

Verify_HandleOnly(file) ==
    /\ Does("verify", file)
    /\ IF handle[file] # None THEN Goes ELSE Fails("identity_changed")
    /\ UNCHANGED <<handle, used>>

\* verify_unchanged: the file at the path is still the one that is open.
Verify(file) ==
    /\ Does("verify", file)
    /\ IF disk[file] = handle[file] THEN Goes ELSE Fails("identity_changed")
    /\ UNCHANGED <<handle, used>>

\* The audio is decoded from the open file.
Decode ==
    /\ Does("decode", "audio")
    /\ used' = [used EXCEPT !["audio"] = handle["audio"]]
    /\ Goes \/ \E code \in {"decode_failed", "duration_mismatch", "decode_limit"} : Fails(code)
    /\ UNCHANGED handle

\* A library reads whatever its path leads to, if it can make sense of it.
Load(file) ==
    /\ Does("load", file)
    /\ \/ disk[file] # None /\ Goes /\ used' = [used EXCEPT ![file] = disk[file]]
       \/ Fails(IF worker = "summary" THEN "model_failed" ELSE "model_load_failed") /\ UNCHANGED used
    /\ UNCHANGED handle

\* One failure that may be tried again, and one of what the model says.
Infer(file) ==
    /\ Does("infer", file)
    /\ Goes \/ \E code \in {"inference_failed", "invalid_response"} : Fails(code)
    /\ UNCHANGED <<handle, used>>

\* encode_response checks the answer against the request once more.
Answer(file) ==
    /\ Does("answer", file)
    /\ UNCHANGED at /\ outcome' \in {"answered", "invalid_output", "output_failed"}
    /\ UNCHANGED <<handle, used>>

Run ==
    /\ \/ ListSet \/ Decode
       \/ \E file \in Files : Open(file) \/ Hash(file) \/ Verify(file) \/ Load(file) \/ Infer(file) \/ Answer(file)
    /\ UNCHANGED <<worker, disk, changes>>

\* The manager or the inbox removes a file, or puts another one in its place.
Replace ==
    /\ outcome = None /\ changes < MaxChanges /\ changes' = changes + 1
    /\ \E file \in Files, new \in {None} \cup [inode : {changes + 1}, right : BOOLEAN] :
          disk' = [disk EXCEPT ![file] = new]
    /\ UNCHANGED <<worker, handle, used, at, outcome>>

\* classify_worker_failure: what the app makes of a worker's failure.
Classified(code) ==
    IF code = "model_unavailable" THEN "unavailable"
    ELSE IF code \in {"identity_mismatch", "identity_changed", "invalid_output", "invalid_response", "model_load_failed"}
    THEN "verification"
    ELSE "temporary"

\* The app reads the answer, and checks it against its request itself.
Receive ==
    /\ outcome \notin {None, "accepted", "unavailable", "verification", "temporary"}
    /\ outcome' \in IF outcome = "answered" THEN {"accepted", "verification"} ELSE {Classified(outcome)}
    /\ UNCHANGED <<worker, disk, handle, used, at, changes>>

Next == Run \/ Replace \/ Receive

Spec == Init /\ [][Next]_vars

-----------------------------------------------------------------------------
(* Properties.                                                              *)

\* Whatever is put in the place of a file while a worker runs, an answer is only
\* accepted if everything that was read for it is what the request names.
AnswerIsFromVerifiedFiles ==
    outcome = "accepted" =>
        \A i \in DOMAIN Script(worker) :
            Script(worker)[i][1] \in {"decode", "load"} => used[Script(worker)[i][2]].right
=============================================================================
