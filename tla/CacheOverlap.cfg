\* Two saves overlap: the cache no longer parses.
SPECIFICATION Spec
CONSTANTS
    p1 = p1
    p2 = p2
    Peers <- TwoPeers
    Size <- TwoSizes
    Savers = {s1, s2}
    TTL = 1
    MaxClock = 2
INVARIANTS SavesCompose
