\* Two Subscribe calls on one topic race in the lazy join.
SPECIFICATION Spec
CONSTANTS
    Topics = {t1}
    Subscribers = {s1, s2}
    Publishers = {}
    Closers = {k1}
    Messages = {m1}
    Skipped = {}
    ChanCap = 1
    BufCap = 1
    None = None
INVARIANTS ClosedOnlyByClose
