------------------------- MODULE MCSpatialConsensus -------------------------
EXTENDS ConsensusHistory, TLC
Symmetry == Permutations(Node \ Listener)
=============================================================================
