----------------------------- MODULE MCClientSetup -----------------------------
(***************************************************************************)
(* Instances of ClientSetup for TLC.  Each family of Configs varies what   *)
(* one part of NewClient reads; Base is the rest.                          *)
(***************************************************************************)
EXTENDS ClientSetup

CONSTANTS p1, p2

TwoPeers == {p1, p2}
TwoPools == {"bootstrap", "static"}

\* Peer list entries: an address of p, of p behind a relay, /dnsaddr/ names
\* without and with a peer ID, and an address that names no peer.
Named(p)     == [first |-> p, last |-> p, dns |-> FALSE]
Relayed(r, p) == [first |-> r, last |-> p, dns |-> FALSE]
Domain       == [first |-> NoPeer, last |-> NoPeer, dns |-> TRUE]
DomainOf(p)  == [first |-> p, last |-> p, dns |-> TRUE]
Unnamed      == [first |-> NoPeer, last |-> NoPeer, dns |-> FALSE]

\* go-libp2p's limits: a total of 2, of which 1 may be inbound.
SmallHost ==
    [f \in counts |-> IF f \in {"ConnsInbound", "StreamsInbound", "PeerConnsInbound"}
                      THEN 1 ELSE 2]

NoLimits == [count |-> [f \in counts |-> 0], v4 |-> {}, v6 |-> {}]

Base ==
    [named |-> TRUE, keyed |-> TRUE, grace |-> TRUE, announced |-> TRUE, allow |-> {},
     static |-> {}, cached |-> {}, boot |-> {}, noDefaults |-> TRUE, limits |-> NoLimits,
     maxConns |-> 1, dht |-> "off", mdns |-> FALSE, scoring |-> {}]

\* Construction that fails, and both pools with a peer in common.
Constructed ==
    {[Base EXCEPT !.named = FALSE], [Base EXCEPT !.keyed = FALSE],
     [Base EXCEPT !.grace = FALSE],
     [Base EXCEPT !.announced = FALSE, !.limits.count["FD"] = 1],
     [Base EXCEPT !.cached = {p1, p2}, !.static = {Named(p1)}],
     [Base EXCEPT !.static = {Named(p1)}, !.boot = {Named(p1), Named(p2)},
                  !.dht = "server", !.mdns = TRUE, !.limits.count["FD"] = 1]}

Trusting ==
    {[Base EXCEPT !.allow = {NoPeer, p1}], [Base EXCEPT !.allow = {Self}]}
    \cup {[Base EXCEPT !.allow = {p1}, !.static = s] :
             s \in {{Named(p2)}, {Relayed(p2, p1)}, {DomainOf(p2)}, {Unnamed, Domain}}}

Limited ==
    {[Base EXCEPT !.maxConns = m, !.limits.count[TotalOf[part]] = t, !.limits.count[part] = n] :
        m \in {0, 1}, part \in {"ConnsOutbound", "PeerConnsInbound"}, t \in {0, 1, 3}, n \in {-1, 0, 1, 3}}
    \cup {[Base EXCEPT !.limits.v4 = {[prefix |-> l, conns |-> n]}] : l \in {32, 33}, n \in 0..1}
    \cup {[Base EXCEPT !.limits.v6 = {[prefix |-> l, conns |-> 1]}] : l \in {-1, 128}}

Scored ==
    {[Base EXCEPT !.scoring = o] : o \in {{"params"}, {"thresholds"}, {"params", "thresholds"}}}
    \cup {[Base EXCEPT !.scoring = {"enable"}, !.static = {Domain}, !.boot = {Named(p2)}],
          [Base EXCEPT !.scoring = {"enable"}, !.noDefaults = FALSE]}

SomeConfigs == Constructed \cup Trusting \cup Limited \cup Scored
OneDefault == {p2}
=============================================================================
