\* Two handlers serve two peers; a handler may be one tick late at the lock.
\* The bounds on time and requests end the run.
SPECIFICATION Spec
CONSTANTS
    Handlers = {h1, h2}
    Peers = {p1, p2}
    Window = 3
    Budget = 2
    MaxLag = 1
    MaxTime = 6
    MaxRequests = 7
    None = None
SYMMETRY Symmetry
INVARIANTS IInv SlidingBound WarnedOncePerWindow
CHECK_DEADLOCK FALSE
