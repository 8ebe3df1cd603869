----------------------------- MODULE Configuration -----------------------------
(***************************************************************************)
(* What NewClient computes from a Config before and while it builds the    *)
(* client: the publisher allowlist (allowlist.go), the managed peer pools, *)
(* the connection marks (client.go), the resource limits                   *)
(* (resource_limits.go) and the pubsub options (scoring.go).               *)
(*                                                                         *)
(* A multiaddr entry of a peer list is the peer its first and the peer its *)
(* last /p2p/ component name (they differ in a relayed address), NoPeer if *)
(* there is none, and whether it is a /dnsaddr/ address.  What the         *)
(* resolver answers is a set of peers and may differ from call to call.    *)
(***************************************************************************)
EXTENDS Integers, FiniteSets

CONSTANTS
    Self,            \* the peer ID of Config.PrivateKey
    NoPeer,          \* an entry that names no peer, or does not parse
    DefaultPeers,    \* the public IPFS bootstrap peers
    AutoScaled,      \* go-libp2p's limits for this host
    DefaultMaxConns  \* connManagerSettings' high water mark

-----------------------------------------------------------------------------
(* Peer lists.                                                             *)

\* peer.SplitAddr takes the last /p2p/ component: a relayed address names its
\* target.  Mutant: the first one, as ValueForProtocol would.
FirstComponent(e) == e.first
SplitAddr(e) == e.last

parsePeerMultiaddrs(list, answer) ==
    UNION { IF ~e.dns THEN {e.last} \ {NoPeer}
            ELSE IF e.last = NoPeer THEN answer ELSE answer \cap {e.last} : e \in list }

selectBootstrapPeers(c, answer) ==
    IF c.boot # {} THEN parsePeerMultiaddrs(c.boot, answer)
    ELSE IF c.noDefaults THEN {} ELSE DefaultPeers

-----------------------------------------------------------------------------
(* The publisher allowlist: empty if it is disabled.                       *)

StaticPublisherIDs(c) == {SplitAddr(e) : e \in c.static} \ {NoPeer}

AllowlistRejected(c) == NoPeer \in c.allow

newPeerAllowlist(c) ==
    IF c.allow = {} THEN {} ELSE c.allow \cup {Self} \cup StaticPublisherIDs(c)

allows(allowed, id) == allowed = {} \/ id \in allowed

-----------------------------------------------------------------------------
(* Connections and resource limits.                                        *)

HighWater(c) == IF c.maxConns = 0 THEN DefaultMaxConns ELSE c.maxConns

counts == {"Conns", "ConnsInbound", "ConnsOutbound", "Streams", "StreamsInbound",
           "StreamsOutbound", "FD", "PeerConns", "PeerConnsInbound", "PeerStreamsInbound"}

isZero(l) == (\A f \in counts : l.count[f] = 0) /\ l.v4 = {} /\ l.v6 = {}

validateSubnetLimits(subnets, maxPrefix) ==
    \A s \in subnets : s.prefix \in 0..maxPrefix /\ s.conns > 0

validate(l, maxConns) ==
    /\ \A f \in counts : l.count[f] >= 0
    /\ l.count["Conns"] > 0 => l.count["Conns"] >= maxConns
    /\ validateSubnetLimits(l.v4, 32) /\ validateSubnetLimits(l.v6, 128)

\* overrides.Build(defaults.AutoScale()): zero keeps the default.
Effective(l) == [f \in counts |-> IF l.count[f] = 0 THEN AutoScaled[f] ELSE l.count[f]]

TotalOf == [ConnsInbound |-> "Conns", ConnsOutbound |-> "Conns", StreamsInbound |-> "Streams",
            StreamsOutbound |-> "Streams", PeerConnsInbound |-> "PeerConns"]

\* Mutant: a part is compared with a total that is set, not with the one in force.
SetTotalOnly(l, part) == l.count[TotalOf[part]] > 0 => l.count[part] <= l.count[TotalOf[part]]
WithinTotal(l, part) == Effective(l)[part] <= Effective(l)[TotalOf[part]]

checkDirectionalLimits(l) == \A part \in DOMAIN TotalOf : l.count[part] > 0 => WithinTotal(l, part)

buildResourceManager(l, maxConns) == validate(l, maxConns) /\ checkDirectionalLimits(l)

-----------------------------------------------------------------------------
(* Peer scoring.  c.scoring holds what the Config sets: EnablePeerScoring, *)
(* PeerScoreParams, PeerScoreThresholds.                                   *)

ScoringOn(c) == c.scoring # {}
ErrIncompletePeerScoreConfig(c) == c.scoring \in {{"params"}, {"thresholds"}}

\* Mutant: StaticPeers are parsed again, with another answer of the resolver.
StaticParsedAgain(c, static, answer) == parsePeerMultiaddrs(c.static, answer)
StaticAsDialled(c, static, answer) == static

directPeers(c, static, answer) ==
    StaticAsDialled(c, static, answer) \cup parsePeerMultiaddrs(c.boot, answer)
=============================================================================
