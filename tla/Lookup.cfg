\* Two peers, two lookup goroutines: a scan may start one for a target whose
\* earlier lookup still runs.
SPECIFICATION LookupFairSpec
CONSTANTS
    Peers = {a, b}
    Lookups = {l1, l2}
    RetryInterval = 2
    NoPeer = NoPeer
INVARIANTS LookupInv
PROPERTIES LookupsEnd LookedUpAgain
