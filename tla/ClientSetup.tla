------------------------------ MODULE ClientSetup ------------------------------
(***************************************************************************)
(* NewClient of client.go, step by step with every error path, composed    *)
(* with the maintenance of the peer pools that it starts: dials are under  *)
(* way while construction goes on, and may be when it fails.  Afterwards   *)
(* the publisher allowlist judges the messages that pubsub validates.      *)
(*                                                                         *)
(* A call into libp2p, the DHT or pubsub may fail.  connmgr.NewConnManager *)
(* refuses a negative grace period; the manager it returns runs until it   *)
(* is closed.  libp2p.New takes over the connection manager and the        *)
(* resource manager it is given, whether it fails or not.                  *)
(***************************************************************************)
EXTENDS Configuration

CONSTANTS
    Configs,    \* the Configs that NewClient is called with
    Pools, Peers, MaxDials

ASSUME PeersDistinct == NoPeer \notin Peers /\ Self \notin Peers /\ DefaultPeers \subseteq Peers
ASSUME LimitsTyped == AutoScaled \in [counts -> Nat] /\ DefaultMaxConns \in Nat
ASSUME ConfigsTyped ==
    \A c \in Configs :
        /\ c.named \in BOOLEAN /\ c.keyed \in BOOLEAN /\ c.announced \in BOOLEAN
        /\ c.mdns \in BOOLEAN /\ c.grace \in BOOLEAN /\ c.cached \subseteq Peers
        /\ c.allow \subseteq Peers \cup {Self, NoPeer}
        /\ \A e \in c.static \cup c.boot : e.last \in Peers \cup {NoPeer} /\ e.dns \in BOOLEAN
        /\ c.limits.count \in [counts -> Int] /\ c.maxConns \in Nat
ASSUME PoolsKnown == Pools = {"bootstrap", "static"} /\ MaxDials \in Nat \ {0}

VARIABLES
    config, stage,    \* the argument of NewClient, and where it stands
    held,             \* what it has acquired and not released
    static,           \* parsed StaticPeers
    bootstrap,        \* selected bootstrap peers
    allowed,          \* the publisher allowlist
    limits,           \* the resource manager's limits
    direct,           \* pubsub's direct peers
    delivered,        \* history: authors of delivered messages
    ignored,          \* history: authors of ignored messages
    cachedDials,      \* peers of the cache file being dialled
    ctxDone, reachable, connected, members, pc, todo, dials

Maintenance == INSTANCE PeerMaintenance

derived  == <<static, bootstrap, allowed, limits, direct>>
verdicts == <<delivered, ignored>>
pools    == <<reachable, connected, members, pc, todo, dials, cachedDials>>
setup    == <<config, stage, held, derived, verdicts>>
vars     == <<setup, ctxDone, pools>>

Init ==
    /\ config \in Configs /\ stage = "arguments" /\ held = {}
    /\ static = {} /\ bootstrap = {} /\ allowed = {} /\ direct = {} /\ limits = AutoScaled
    /\ delivered = {} /\ ignored = {} /\ cachedDials = {}
    /\ Maintenance!Init

Stages ==
    {"arguments", "static", "allowlist", "hostOptions", "bootstrap", "host", "dht",
     "dialBootstrap", "dialStatic", "dialCached", "pubsubOptions", "pubsub", "loops",
     "running", "closed", "failed"}

Goto(from, to) == stage = from /\ stage' = to

\* An error return: NewClient, or libp2p.New, closes some of what is held or was
\* acquired in this step, and NewClient cancels the context.  The host has no
\* connections before it is created, and none after it is closed.
Fails(from, acquired, closed) ==
    /\ Goto(from, "failed")
    /\ held' = (held \cup acquired) \ (closed \cup {"context"})
    /\ ctxDone' = TRUE /\ connected' = {}
    /\ UNCHANGED <<config, derived, verdicts, reachable, members, pc, todo, dials, cachedDials>>

-----------------------------------------------------------------------------
(* Up to the host.                                                         *)

CheckArguments ==
    /\ \/ ~config.named /\ Goto("arguments", "failed") /\ UNCHANGED <<held, ctxDone>>
       \/ config.named /\ ~config.keyed
          /\ Goto("arguments", "failed") /\ ctxDone' = TRUE /\ UNCHANGED held
       \/ config.named /\ config.keyed
          /\ Goto("arguments", "static") /\ held' = {"context"} /\ UNCHANGED ctxDone
    /\ UNCHANGED <<config, derived, verdicts, pools>>

ParseStatic(answer) ==
    /\ Goto("static", "allowlist")
    /\ static' = parsePeerMultiaddrs(config.static, answer)
    /\ UNCHANGED <<config, held, bootstrap, allowed, limits, direct, verdicts, ctxDone, pools>>

\* A private key has a peer ID, so only an entry of the list can be at fault.
resolveAllowlist ==
    \/ AllowlistRejected(config) /\ Fails("allowlist", {}, {})
    \/ /\ ~AllowlistRejected(config)
       /\ Goto("allowlist", "hostOptions")
       /\ allowed' = newPeerAllowlist(config)
       /\ UNCHANGED <<config, held, static, bootstrap, limits, direct, verdicts, ctxDone, pools>>

\* The connection manager, then the announce addresses, and the resource manager
\* when its limits are accepted.  The gater between the first two is built from
\* constants, without a datastore, and cannot fail.
\* Mutant: the resource manager before the addresses, when its goroutine runs.
BuiltFirst == {"connmgr"} \cup (IF isZero(config.limits) THEN {} ELSE {"limits"})
BuiltBefore == {"connmgr"}

LimitsRejected ==
    ~isZero(config.limits) /\ ~buildResourceManager(config.limits, HighWater(config))

OptionsRejected == ~config.announced \/ LimitsRejected

buildHostOptions ==
    \/ ~config.grace /\ Fails("hostOptions", {}, {})
    \/ config.grace /\ ~config.announced /\ Fails("hostOptions", BuiltBefore, {})
    \/ config.grace /\ config.announced /\ LimitsRejected
       /\ Fails("hostOptions", {"connmgr"}, {})
    \/ /\ config.grace /\ ~OptionsRejected
       /\ Goto("hostOptions", "bootstrap")
       /\ held' = held \cup {"connmgr"} \cup (IF isZero(config.limits) THEN {} ELSE {"limits"})
       /\ limits' = IF isZero(config.limits) THEN limits ELSE Effective(config.limits)
       /\ UNCHANGED <<config, static, bootstrap, allowed, direct, verdicts, ctxDone, pools>>

SelectBootstrap(answer) ==
    /\ Goto("bootstrap", "host")
    /\ bootstrap' = selectBootstrapPeers(config, answer)
    /\ UNCHANGED <<config, held, static, allowed, limits, direct, verdicts, ctxDone, pools>>

createHost ==
    \/ Fails("host", {}, {"connmgr", "limits"})
    \/ /\ Goto("host", "dht")
       /\ held' = (held \ {"connmgr", "limits"}) \cup {"host"}
       /\ UNCHANGED <<config, derived, verdicts, ctxDone, pools>>

-----------------------------------------------------------------------------
(* DHT, dials and pubsub.                                                  *)

\* dht.New may fail, and so may Bootstrap, which leaves the new DHT behind.
initDHT ==
    \/ config.dht # "off" /\ Fails("dht", {}, {"host"})
    \/ config.dht # "off" /\ Fails("dht", {"dht"}, {"host"})
    \/ /\ Goto("dht", "dialBootstrap")
       /\ held' = IF config.dht = "off" THEN held ELSE held \cup {"dht"}
       /\ UNCHANGED <<config, derived, verdicts, ctxDone, pools>>

DialPool(k, from, to, peers) ==
    /\ Goto(from, to)
    /\ Maintenance!connectToManagedPeers(k, peers)
    /\ UNCHANGED <<config, held, derived, verdicts, cachedDials>>

\* One dial, in a goroutine of its own, of every peer that is in the cache file
\* and not connected yet.
loadAndConnectCachedPeers ==
    /\ Goto("dialCached", "pubsubOptions")
    /\ cachedDials' = config.cached \ connected
    /\ UNCHANGED <<config, held, derived, verdicts, ctxDone, reachable, connected,
                   members, pc, todo, dials>>

buildPubSubOptions(answer) ==
    \/ ErrIncompletePeerScoreConfig(config) /\ Fails("pubsubOptions", {}, {"host"})
    \/ /\ ~ErrIncompletePeerScoreConfig(config)
       /\ Goto("pubsubOptions", "pubsub")
       /\ direct' = IF ScoringOn(config) THEN directPeers(config, static, answer) ELSE {}
       /\ UNCHANGED <<config, held, static, bootstrap, allowed, limits, verdicts, ctxDone, pools>>

\* NewGossipSub, then mDNS if it is enabled.
NewGossipSub ==
    \/ Fails("pubsub", {}, {"host"})
    \/ /\ Goto("pubsub", "loops")
       /\ held' = IF config.mdns THEN held \cup {"mdns"} ELSE held
       /\ UNCHANGED <<config, derived, verdicts, ctxDone, pools>>

StartLoop(k) ==
    /\ stage = "loops"
    /\ Maintenance!maintainPeerSet(k)
    /\ UNCHANGED <<setup, cachedDials>>

Returns ==
    /\ \A k \in Pools : pc[k] # "off"
    /\ Goto("loops", "running")
    /\ UNCHANGED <<config, held, derived, verdicts, ctxDone, pools>>

NewClient ==
    \/ CheckArguments \/ resolveAllowlist \/ buildHostOptions \/ createHost \/ initDHT
    \/ DialPool("bootstrap", "dialBootstrap", "dialStatic", bootstrap)
    \/ DialPool("static", "dialStatic", "dialCached", static)
    \/ loadAndConnectCachedPeers \/ NewGossipSub \/ Returns
    \/ \E k \in Pools : StartLoop(k)
    \/ \E answer \in SUBSET Peers :
          ParseStatic(answer) \/ SelectBootstrap(answer) \/ buildPubSubOptions(answer)

-----------------------------------------------------------------------------
(* The running client.                                                     *)

\* allowlistValidator, registered if the allowlist is enabled: a message from
\* author, whoever has handed it on.
Validate(author) ==
    /\ stage = "running" /\ allowed # {}
    /\ IF allows(allowed, author)
       THEN delivered' = delivered \cup {author} /\ UNCHANGED ignored
       ELSE ignored' = ignored \cup {author} /\ UNCHANGED delivered
    /\ UNCHANGED <<config, stage, held, derived, ctxDone, pools>>

\* Everything Close releases; how it does so is the subject of Subscriptions.
Close ==
    /\ Goto("running", "closed")
    /\ held' = {}
    /\ Maintenance!Close
    /\ UNCHANGED <<config, derived, verdicts, cachedDials>>

Loop(k) == Maintenance!LoopStep(k) /\ UNCHANGED <<setup, cachedDials>>
DialEnds(k, p) == Maintenance!DialEnds(k, p) /\ UNCHANGED <<setup, cachedDials>>

\* host.Connect on a cached peer returns, as it does for a pool.
CachedDialEnds(p) ==
    /\ p \in cachedDials /\ cachedDials' = cachedDials \ {p}
    /\ connected' = IF p \in reachable /\ ~ctxDone THEN connected \cup {p} ELSE connected
    /\ UNCHANGED <<setup, ctxDone, reachable, members, pc, todo, dials>>

Network(p) ==
    /\ Maintenance!ReachabilityChanges(p) \/ Maintenance!ConnectionChanges(p)
    /\ "host" \in held
    /\ UNCHANGED <<setup, cachedDials>>

Next ==
    \/ NewClient \/ Close
    \/ \E author \in Peers \cup {Self} : Validate(author)
    \/ \E k \in Pools : Loop(k) \/ \E p \in Peers : DialEnds(k, p)
    \/ \E p \in Peers : Network(p) \/ CachedDialEnds(p)

Spec == Init /\ [][Next]_vars

\* The maintenance goroutines run, timers fire and their dials return.
FairSpec ==
    /\ Spec
    /\ \A k \in Pools : WF_vars(Loop(k))
    /\ \A k \in Pools, p \in Peers : WF_vars(DialEnds(k, p))

-----------------------------------------------------------------------------
\* Every variable has its type; what NewClient works out is there as soon as it
\* has it, and nothing of the client runs before the end of construction.
TypeOK ==
    /\ Maintenance!TypeOK
    /\ config \in Configs
    /\ stage \in Stages
    /\ held \subseteq {"context", "connmgr", "limits", "host", "dht", "mdns"}
    /\ static \subseteq Peers /\ bootstrap \subseteq Peers /\ direct \subseteq Peers
    /\ cachedDials \subseteq Peers
    /\ allowed \subseteq Peers \cup {Self}
    /\ limits \in [counts -> Nat]
    /\ delivered \cup ignored \subseteq Peers \cup {Self}
    /\ \A k \in Pools : pc[k] # "off" => stage \in {"loops", "running", "closed"}

\* A NewClient that returns an error leaves no resource manager, host or context
\* behind, no goroutine that maintains a pool, and the dials still under way, of
\* a pool or of the cache, can no longer give it a connection.  What it may leave
\* is the DHT, which no error path closes, and the connection manager if
\* buildHostOptions refuses the Config after it has built one.
FailureReleases ==
    stage = "failed" =>
        /\ held \subseteq {"connmgr", "dht"} /\ connected = {}
        /\ "connmgr" \in held => config.grace /\ OptionsRejected
        /\ "dht" \in held => config.dht # "off"
        /\ config.named => ctxDone
        /\ \A k \in Pools : pc[k] = "off"

\* With an allowlist, the authors whose messages get through are those whose IDs
\* the configuration spells out, never one that a DNS answer or the relay in an
\* address has brought in, and each of those gets through; a static peer that an
\* address names is both dialled and trusted.
TrustFromConfig ==
    config.allow # {} =>
        LET named  == {e.last : e \in config.static} \ {NoPeer}
            dialled == {e.last : e \in {x \in config.static : ~x.dns}} \ {NoPeer}
            trusted == {Self} \cup config.allow \cup named
        IN  /\ delivered \subseteq trusted /\ ignored \cap trusted = {}
            /\ stage = "running" => dialled \subseteq members["static"] \cap allowed

\* "a graylisted score can never eclipse a static or bootstrap link": with
\* scoring on, every static peer that the client keeps dialling is a direct
\* peer, and no default bootstrap peer is one unless it is configured.
StaticLinksTrusted ==
    ScoringOn(config) /\ stage \in {"pubsub", "loops", "running", "closed"} =>
        /\ members["static"] \subseteq direct
        /\ config.boot = {} => direct = members["static"]

\* "setting one field never changes the others", and no limit that is set is
\* capped silently by the total in force or below the high water mark.
LimitsInForce ==
    "host" \in held =>
        /\ \A f \in counts :
              limits[f] = IF config.limits.count[f] = 0 THEN AutoScaled[f]
                          ELSE config.limits.count[f]
        /\ \A part \in DOMAIN TotalOf :
              config.limits.count[part] # 0 => limits[part] <= limits[TotalOf[part]]
        /\ config.limits.count["Conns"] # 0 => limits["Conns"] >= HighWater(config)

\* What NewClient may hold at each stage.
MayHold(s) ==
    CASE s \in {"arguments", "closed"} -> {}
      [] s \in {"static", "allowlist", "hostOptions"} -> {"context"}
      [] s \in {"bootstrap", "host"} -> {"context", "connmgr", "limits"}
      [] s = "dht" -> {"context", "host"}
      [] s \in {"dialBootstrap", "dialStatic", "dialCached", "pubsubOptions", "pubsub"} ->
            {"context", "host", "dht"}
      [] s \in {"loops", "running"} -> {"context", "host", "dht", "mdns"}
      [] s = "failed" -> {"connmgr", "dht"}

\* NewClient acquires in this order, with a context that lives until it fails or
\* the client closes; a dial is under way only after the host exists.
SetupOrder ==
    /\ held \subseteq MayHold(stage)
    /\ "dht" \in held => config.dht # "off"
    /\ stage = "failed" /\ "connmgr" \in held => config.grace /\ OptionsRejected
    /\ ctxDone => stage \in {"failed", "closed"}
    /\ stage = "failed" => connected = {} /\ (config.named => ctxDone)
    /\ stage = "arguments" \/ (stage = "failed" /\ ~ctxDone) =>
          /\ connected = {} /\ cachedDials = {}
          /\ \A k \in Pools, p \in Peers : dials[k][p] = 0

\* From buildHostOptions on the limits are those of the Config, and valid.
LimitsValid ==
    /\ stage \in {"arguments", "static", "allowlist", "hostOptions"} => limits = AutoScaled
    /\ stage \in {"bootstrap", "host"} \/ "host" \in held =>
          /\ limits = Effective(config.limits)
          /\ isZero(config.limits) \/ buildResourceManager(config.limits, HighWater(config))

\* Types, the order of construction, and the limits that the host runs under.
IInv == TypeOK /\ SetupOrder /\ LimitsValid /\ LimitsInForce

\* The promise of PeerMaintenance, kept by the client that NewClient builds.
KeepsReconnecting == Maintenance!KeepsReconnecting
=============================================================================
