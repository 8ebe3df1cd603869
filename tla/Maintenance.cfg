\* Every family of Configs; two pools that share a peer.  A client that failed or
\* was closed may stop.
SPECIFICATION FairSpec
CONSTANTS
    p1 = p1
    p2 = p2
    Self = Self
    NoPeer = NoPeer
    DefaultPeers <- OneDefault
    AutoScaled <- SmallHost
    DefaultMaxConns = 2
    Configs <- SomeConfigs
    Pools <- TwoPools
    Peers <- TwoPeers
    MaxDials = 1
INVARIANTS IInv FailureReleases TrustFromConfig StaticLinksTrusted
PROPERTIES KeepsReconnecting
CHECK_DEADLOCK FALSE
