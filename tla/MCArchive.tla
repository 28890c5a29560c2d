----------------------------- MODULE MCArchive ------------------------------
(* Two devices with one recording each; the first upload of one of them       *)
(* finds its key taken.                                                       *)
EXTENDS ArchivePublication, TLC

CONSTANTS a, b, x, y

MCOwner == (x :> a) @@ (y :> b)

MCOccupied == {<<y, 1, "primary">>}
=============================================================================
