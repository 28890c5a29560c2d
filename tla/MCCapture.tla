------------------------------ MODULE MCCapture -----------------------------
(* A meeting with two tracks, segments of two clock units.                    *)
EXTENDS CaptureSession

MeetingTracks == <<"microphone", "system">>
=============================================================================
