------------------------------- MODULE MCMoss -------------------------------
(* One window, its anchors and their mapping; the models may answer a retry  *)
(* differently.  Two runs that share a process or do not.                    *)
EXTENDS MossRun, TLC

MCAtMostOnce == {}

MCRequired == {1}

MossSymmetry ==
    Permutations(Runs) \cup Permutations(Processes) \cup Permutations(Bodies)
=============================================================================
