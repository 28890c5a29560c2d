------------------------------ MODULE MCEngine ------------------------------
EXTENDS ProcessingEngine, TLC

WorkerSymmetry == Permutations(Workers)

MCAtMostOnce == {}

MCRequired == {1}

MCNoBackends == {}

MCWhisper == {"WhisperLocal"}
=============================================================================
