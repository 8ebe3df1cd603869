\* Three readers share two remote authors; six messages end the run.
SPECIFICATION Spec
CONSTANTS
    Readers = {r1, r2, r3}
    Authors = {a1, a2}
    Self = self
    malformedThreshold = 2
    MaxMessages = 6
SYMMETRY Symmetry
INVARIANTS IInv OverrunBounded
CHECK_DEADLOCK FALSE
