------------------------------ MODULE MCInbox -------------------------------
(* Two recordings; one content is a file, the other is captured here.         *)
EXTENDS RecordingInbox, TLC

Symmetry == Permutations(Recordings)
=============================================================================
