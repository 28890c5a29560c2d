--------------------------- MODULE LedgerRegister ---------------------------
(***************************************************************************)
(* What the file under a ledger promises (load_locked and persist_locked,  *)
(* processing/mod.rs): a register of one revision.  A write takes hold at  *)
(* once or not at all; once a caller has been told a revision, no failure  *)
(* takes the register back before it.                                      *)
(***************************************************************************)
EXTENDS Naturals

CONSTANT MaxRevision      \* the last revision a write may reach

VARIABLES
    value,    \* the revision a load would return (0: no ledger yet)
    reported  \* the newest revision a caller was told

Init == value = 0 /\ reported = 0

Advance ==
    /\ value < MaxRevision
    /\ value' = value + 1
    /\ UNCHANGED reported

Report == reported' = value /\ UNCHANGED value

\* A failure may undo what nobody was told.
Lose ==
    /\ value' \in reported..value
    /\ UNCHANGED reported

Next == Advance \/ Report \/ Lose

Spec == Init /\ [][Next]_<<value, reported>>
=============================================================================
