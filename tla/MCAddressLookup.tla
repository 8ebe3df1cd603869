--------------------------- MODULE MCAddressLookup ---------------------------
EXTENDS AddressLookup, TLC

Symmetry == Permutations(Peers) \cup Permutations(Lookups)
=============================================================================
