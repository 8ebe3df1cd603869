\* Two topics joined and signalled while both goroutines run.
SPECIFICATION FairSpec
CONSTANTS
    Topics = {t1, t2}
    Modes = {"server", "off"}
    Searches = {s1}
INVARIANTS IInv
PROPERTIES JoinedIsSearched SubscribedIsAdvertised SearchesEnd
