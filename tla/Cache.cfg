\* Two peers, two concurrent saves, a TTL that passes before the clock ends.
SPECIFICATION Spec
CONSTANTS
    p1 = p1
    p2 = p2
    Peers <- TwoPeers
    Size <- TwoSizes
    Savers = {s1, s2}
    TTL = 1
    MaxClock = 2
SYMMETRY Symmetry
INVARIANTS TypeOK LastSeenTruthful NeverWiped LoneSaveRepairs
PROPERTIES DialsRecentPeers
