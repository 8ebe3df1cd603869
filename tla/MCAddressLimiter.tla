--------------------------- MODULE MCAddressLimiter ---------------------------
EXTENDS AddressLimiter, TLC

Symmetry == Permutations(Handlers) \cup Permutations(Peers)
=============================================================================
