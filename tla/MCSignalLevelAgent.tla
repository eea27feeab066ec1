------------------------ MODULE MCSignalLevelAgent ------------------------
(***************************************************************************)
(* Two application goroutines and three monitors on two stations.          *)
(***************************************************************************)
EXTENDS SignalLevelAgent, TLC

Symmetry ==
    Permutations(Caller) \cup Permutations(Agent)

=============================================================================
