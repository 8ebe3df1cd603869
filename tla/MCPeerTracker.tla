---------------------------- MODULE MCPeerTracker ----------------------------
EXTENDS PeerTracker, TLC

Symmetry == Permutations(Readers) \cup Permutations(Authors)
=============================================================================
