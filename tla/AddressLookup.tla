---------------------------- MODULE AddressLookup ----------------------------
(***************************************************************************)
(* Address discovery without a DHT: attemptDirectConnectionsToTopicPeers   *)
(* scans the topic peers and starts requestPeerAddresses goroutines, which *)
(* ask the connected peers one after another, and tryConnectToTopicPeer    *)
(* dials what was learned.  libp2p's connections change by themselves.     *)
(* One exchange with a connected peer is module AddressExchange; Lookup in *)
(* the names below tells this module's definitions from that one's.        *)
(* Time is counted in scans (one per 15 s).                                *)
(***************************************************************************)
EXTENDS Naturals, FiniteSets, Functions

CONSTANTS
    Peers,           \* remote peers
    Lookups,         \* bound: requestPeerAddresses goroutines at one time
    RetryInterval,   \* peerAddressRetryInterval, in scans
    NoPeer

ASSUME RetryPositive == RetryInterval \in Nat \ {0}
ASSUME NoPeerIsNoPeer == NoPeer \notin Peers

VARIABLES
    ctxDone,      \* client.ctx is cancelled
    connected,    \* peers with an open connection
    topicPeers,   \* peerTracker.topicPeers
    age,          \* requested: peer -> scans since the attempt, capped
    inFlight,     \* client.addrLookupsInFlight
    pc,           \* where each lookup goroutine stands
    target,       \* the peer it looks for
    todo,         \* connected peers it has not asked yet
    dialing       \* targets with a tryConnectToTopicPeer goroutine

scanner == <<topicPeers, age>>
lookup  == <<inFlight, pc, target, todo>>
lookupVars == <<ctxDone, connected, scanner, lookup, dialing>>

Steps == {"free", "begin", "loop", "exchange", "end"}

LookupInit ==
    /\ ctxDone = FALSE
    /\ connected \in SUBSET Peers
    /\ topicPeers = {} /\ age = <<>> /\ inFlight = {}
    /\ pc = [l \in Lookups |-> "free"]
    /\ target = [l \in Lookups |-> NoPeer]
    /\ todo = [l \in Lookups |-> {}]
    /\ dialing = {}

Goto(l, from, to) == pc[l] = from /\ pc' = [pc EXCEPT ![l] = to]

-----------------------------------------------------------------------------
(* The environment: connections, received messages, the end of the client. *)

ConnectionChange(p) ==
    /\ connected' \in {connected \cup {p}, connected \ {p}} \ {connected}
    /\ UNCHANGED <<ctxDone, scanner, lookup, dialing>>

\* recordMessageFrom, called by a subscription's reader.
HearFrom(p) ==
    /\ p \notin topicPeers
    /\ topicPeers' = topicPeers \cup {p}
    /\ UNCHANGED <<ctxDone, connected, age, lookup, dialing>>

Close ==
    /\ ~ctxDone /\ ctxDone' = TRUE
    /\ UNCHANGED <<connected, scanner, lookup, dialing>>

-----------------------------------------------------------------------------
(* The scan.                                                               *)

\* Mutant: an attempt is never forgotten.
NeverAgain(p) == p \notin DOMAIN age
shouldRequestPeerAddresses(p) == p \notin DOMAIN age \/ age[p] >= RetryInterval

Due == {p \in topicPeers \ connected : shouldRequestPeerAddresses(p)}

\* One goroutine per due peer; the attempt is recorded when it is started,
\* and pruneRequested keeps the entries of topicPeers.
Scan(g) ==
    /\ ~ctxDone
    /\ IsInjective(g) /\ \A p \in Due : pc[g[p]] = "free"
    /\ pc' = [l \in Lookups |-> IF l \in Range(g) THEN "begin" ELSE pc[l]]
    /\ target' = [l \in Lookups |-> IF l \in Range(g) THEN CHOOSE p \in Due : g[p] = l
                                    ELSE target[l]]
    /\ age' = [p \in (DOMAIN age \cup Due) \cap topicPeers |->
                 IF p \in Due THEN 1
                 ELSE IF age[p] < RetryInterval THEN age[p] + 1 ELSE age[p]]
    /\ UNCHANGED <<ctxDone, connected, topicPeers, inFlight, todo, dialing>>

-----------------------------------------------------------------------------
(* One lookup goroutine.                                                   *)

Wins(l) == target[l] \notin inFlight

Finish(l) == target' = [target EXCEPT ![l] = NoPeer]

beginAddrLookup(l) ==
    /\ \/ /\ Wins(l)
          /\ Goto(l, "begin", "loop")
          /\ inFlight' = inFlight \cup {target[l]}
          /\ todo' = [todo EXCEPT ![l] = connected]
          /\ UNCHANGED target
       \/ /\ ~Wins(l)
          /\ Goto(l, "begin", "free")
          /\ Finish(l)
          /\ UNCHANGED <<inFlight, todo>>
    /\ UNCHANGED <<ctxDone, connected, scanner, dialing>>

\* NewStream to the next connected peer; it may fail.
Ask(l, p) ==
    /\ p \in todo[l] /\ ~ctxDone
    /\ Goto(l, "loop", "exchange") \/ Goto(l, "loop", "loop")
    /\ todo' = [todo EXCEPT ![l] = @ \ {p}]
    /\ UNCHANGED <<ctxDone, connected, scanner, inFlight, target, dialing>>

\* Mutant: a cancelled context leaves the goroutine waiting in the loop.
LoopEndsIfAsked(l) == todo[l] = {}
LoopEnds(l) == todo[l] = {} \/ ctxDone

NobodyKnew(l) ==
    /\ LoopEnds(l)
    /\ Goto(l, "loop", "end")
    /\ UNCHANGED <<ctxDone, connected, scanner, inFlight, target, todo, dialing>>

\* exchangePeerAddressRequest: an error (the stream's deadline included) or
\* an empty list, or addresses, which are stored and dialed.
ExchangeFails(l) ==
    /\ Goto(l, "exchange", "loop")
    /\ UNCHANGED <<ctxDone, connected, scanner, inFlight, target, todo, dialing>>

ExchangeSucceeds(l) ==
    /\ Goto(l, "exchange", "end")
    /\ dialing' = dialing \cup {target[l]}
    /\ UNCHANGED <<ctxDone, connected, scanner, inFlight, target, todo>>

\* Mutant: the success path returns without the deferred call.
KeepMark(l) == UNCHANGED inFlight
ClearMark(l) == inFlight' = inFlight \ {target[l]}

endAddrLookup(l) ==
    /\ Goto(l, "end", "free")
    /\ ClearMark(l)
    /\ Finish(l)
    /\ todo' = [todo EXCEPT ![l] = {}]
    /\ UNCHANGED <<ctxDone, connected, scanner, dialing>>

\* host.Connect, unless the peer is connected by now; it may fail.
tryConnectToTopicPeer(p) ==
    /\ p \in dialing
    /\ dialing' = dialing \ {p}
    /\ connected' \in {connected, connected \cup {p}}
    /\ UNCHANGED <<ctxDone, scanner, lookup>>

LookupStep(l) ==
    \/ beginAddrLookup(l) \/ \E p \in Peers : Ask(l, p)
    \/ NobodyKnew(l) \/ ExchangeFails(l) \/ ExchangeSucceeds(l) \/ endAddrLookup(l)

Scans == \E g \in [Due -> Lookups] : Scan(g)

LookupNext ==
    \/ \E p \in Peers : ConnectionChange(p) \/ HearFrom(p)
    \/ Close
    \/ Scans
    \/ \E l \in Lookups : LookupStep(l)
    \/ \E p \in Peers : tryConnectToTopicPeer(p)

LookupSpec == LookupInit /\ [][LookupNext]_lookupVars

\* The ticker fires, goroutines run, and the deadline ends every exchange.
LookupFairSpec ==
    /\ LookupSpec /\ WF_lookupVars(Scans)
    /\ \A l \in Lookups : WF_lookupVars(LookupStep(l))
    /\ \A p \in Peers : WF_lookupVars(tryConnectToTopicPeer(p))

-----------------------------------------------------------------------------
\* Types of the maps and of the goroutines' locals.
LookupTypeOK ==
    /\ ctxDone \in BOOLEAN
    /\ connected \subseteq Peers
    /\ topicPeers \subseteq Peers /\ inFlight \subseteq Peers /\ dialing \subseteq Peers
    /\ DOMAIN age \subseteq Peers /\ \A p \in DOMAIN age : age[p] \in 1..RetryInterval
    /\ pc \in [Lookups -> Steps]
    /\ target \in [Lookups -> Peers \cup {NoPeer}]
    /\ \A l \in Lookups : target[l] = NoPeer <=> pc[l] = "free"
    /\ todo \in [Lookups -> SUBSET Peers]

Running(l) == pc[l] \in {"loop", "exchange", "end"}

\* "At most one lookup per target runs at a time", however long a lookup
\* takes and however often the scan starts another one for the same peer.
OneLookupPerTarget ==
    \A l, m \in Lookups :
        Running(l) /\ Running(m) /\ target[l] = target[m] => l = m

\* A target is marked as being looked up exactly while a goroutine looks it
\* up: no path out of requestPeerAddresses leaves the mark behind.
MarksMatchLookups == inFlight = {target[l] : l \in {m \in Lookups : Running(m)}}

\* Types, and marks that follow the goroutines: together with the exclusion
\* they are inductive.
LookupInv == LookupTypeOK /\ MarksMatchLookups /\ OneLookupPerTarget

\* Every lookup ends, although a peer that is asked may never answer and the
\* client may close in the middle.
LookupsEnd == \A p \in Peers : p \in inFlight ~> p \notin inFlight

\* "A lookup that failed is retried instead of being written off for good":
\* a topic peer is looked up again and again as long as it is not connected.
LookedUpAgain ==
    \A p \in Peers :
        <>[](p \in topicPeers \ connected /\ ~ctxDone) => []<>(p \in inFlight)
=============================================================================
