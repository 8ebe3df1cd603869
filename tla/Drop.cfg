\* Three workers drop four messages over two and a half intervals; then the bounds end the run.
SPECIFICATION Spec
CONSTANTS
    Workers = {w1, w2, w3}
    dropLogInterval = 2
    MaxTime = 5
    MaxDrops = 4
SYMMETRY Symmetry
INVARIANTS IInv RateBounded
PROPERTIES MarkersSpaced
CHECK_DEADLOCK FALSE
