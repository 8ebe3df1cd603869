\* Two Close calls, one subscription, two messages; readers run only where a
\* property assumes it.
SPECIFICATION FairSpec
CONSTANTS
    Topics = {t1}
    Subscribers = {s1}
    Publishers = {}
    Closers = {k1, k2}
    Messages = {m1, m2}
    Skipped = {}
    ChanCap = 1
    BufCap = 1
    None = None
PROPERTIES CloseReleasesHost CloseEndsStreams DeliveredIsTaken
