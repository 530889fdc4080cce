------------------------- MODULE MCSimulationRecorder -------------------------
(* Three requests are enough for a block number, a trace on it and one     *)
(* more request that overlaps either; requests are interchangeable.        *)
EXTENDS SimulationRecorder, TLC

CallSymmetry == Permutations(Calls)

=============================================================================
