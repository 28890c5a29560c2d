-------------------------------- MODULE MCMac --------------------------------
(* A meeting on macOS, for a few units of its clock.                          *)
EXTENDS MacTracks
=============================================================================
