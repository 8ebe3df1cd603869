\* Two Subscribe calls and one Publish on one topic, one Close.
SPECIFICATION Spec
CONSTANTS
    Topics = {t1}
    Subscribers = {s1, s2}
    Publishers = {p1}
    Closers = {k1}
    Messages = {m1, m2}
    Skipped = {m2}
    ChanCap = 1
    BufCap = 1
    None = None
SYMMETRY Symmetry
INVARIANTS IInv NoChannelPanic TeardownAfterReaders TopicsMatchPubsub OpenUntilShutdown
PROPERTIES NoAddWhileWaiting ImplementsStream
