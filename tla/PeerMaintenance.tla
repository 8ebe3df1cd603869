--------------------------- MODULE PeerMaintenance ---------------------------
(***************************************************************************)
(* maintainPeerSet in client.go: for the bootstrap pool and the static     *)
(* pool one goroutine each, which redials the peers that are not connected *)
(* every 5 seconds at first and every 30 seconds for ever after.           *)
(*                                                                         *)
(* Connections, and whether a peer can be reached, belong to the network.  *)
(* Timers are untimed.  Every dial is a goroutine of its own in            *)
(* host.Connect, which returns in the end.                                 *)
(***************************************************************************)
EXTENDS Naturals, FiniteSets

CONSTANTS
    Pools,      \* the pools, "bootstrap" and "static"
    Peers,      \* all peers that a pool may list
    MaxDials    \* bound on the dials of one peer under way for one pool

VARIABLES
    ctxDone,    \* the client's context is cancelled
    reachable,  \* peers that accept a connection
    connected,  \* peers with a connection
    members,    \* the peers of each pool
    pc,         \* where each pool's goroutine stands, "off" before it starts
    todo,       \* peers its pass over the pool has still to look at
    dials       \* goroutines in host.Connect, per pool and peer

network == <<ctxDone, reachable, connected>>
vars == <<network, members, pc, todo, dials>>

Init ==
    /\ ctxDone = FALSE /\ reachable \in SUBSET Peers /\ connected = {}
    /\ members = [k \in Pools |-> {}]
    /\ pc = [k \in Pools |-> "off"]
    /\ todo = [k \in Pools |-> {}]
    /\ dials = [k \in Pools |-> [p \in Peers |-> 0]]

Goto(k, from, to) == pc[k] = from /\ pc' = [pc EXCEPT ![k] = to]

-----------------------------------------------------------------------------
(* What NewClient calls, once for each pool and in this order.             *)

\* connectToManagedPeers: one dial of every peer, each in its own goroutine.
connectToManagedPeers(k, P) ==
    /\ pc[k] = "off" /\ members[k] = {}
    /\ members' = [members EXCEPT ![k] = P]
    /\ dials' = [dials EXCEPT ![k] = [p \in Peers |-> IF p \in P THEN 1 ELSE 0]]
    /\ UNCHANGED <<network, pc, todo>>

\* go maintainPeerSet, which returns at once if the pool is empty.
maintainPeerSet(k) ==
    /\ Goto(k, "off", IF members[k] = {} THEN "exited" ELSE "fast")
    /\ UNCHANGED <<network, members, todo, dials>>

-----------------------------------------------------------------------------
(* The network and the rest of the client.                                 *)

ReachabilityChanges(p) ==
    /\ reachable' = IF p \in reachable THEN reachable \ {p} ELSE reachable \cup {p}
    /\ UNCHANGED <<ctxDone, connected, members, pc, todo, dials>>

\* The remote closes the connection, or opens one.
ConnectionChanges(p) ==
    /\ \/ connected' = connected \ {p} /\ p \in connected
       \/ connected' = connected \cup {p} /\ p \in reachable \ connected
    /\ ~ctxDone
    /\ UNCHANGED <<ctxDone, reachable, members, pc, todo, dials>>

\* The context is cancelled and the host closes its connections.
Close ==
    /\ ~ctxDone /\ ctxDone' = TRUE /\ connected' = {}
    /\ UNCHANGED <<reachable, members, pc, todo, dials>>

\* host.Connect returns: with a connection if the peer can be reached.
DialEnds(k, p) ==
    /\ dials[k][p] > 0
    /\ dials' = [dials EXCEPT ![k][p] = @ - 1]
    /\ connected' = IF p \in reachable /\ ~ctxDone THEN connected \cup {p} ELSE connected
    /\ UNCHANGED <<ctxDone, reachable, members, pc, todo>>

-----------------------------------------------------------------------------
(* The fast phase.                                                         *)

StartPass(k, from, to) ==
    /\ Goto(k, from, to)
    /\ todo' = [todo EXCEPT ![k] = members[k]]
    /\ UNCHANGED <<network, members, dials>>

FastTick(k) == StartPass(k, "fast", "check")

\* allConnected: one peer at a time, ended by the first that is not connected.
Check(k, p) ==
    /\ p \in todo[k]
    /\ \/ /\ p \in connected
          /\ Goto(k, "check", "check")
          /\ todo' = [todo EXCEPT ![k] = @ \ {p}]
       \/ /\ p \notin connected
          /\ Goto(k, "check", "dialFast")
          /\ todo' = [todo EXCEPT ![k] = members[k]]
    /\ UNCHANGED <<network, members, dials>>

\* Mutant: a pool that has converged once needs no maintenance.
Retires == "exited"
AfterFast == "steady"

AllConnected(k) ==
    /\ todo[k] = {}
    /\ Goto(k, "check", AfterFast)
    /\ UNCHANGED <<network, members, todo, dials>>

\* Two minutes are over.
FastPhaseEnds(k) ==
    /\ Goto(k, "fast", AfterFast)
    /\ UNCHANGED <<network, members, todo, dials>>

-----------------------------------------------------------------------------
(* reconnectDisconnected and the steady phase.                             *)

SteadyTick(k) == StartPass(k, "steady", "dialSteady")

Redial(k, p) ==
    /\ pc[k] \in {"dialFast", "dialSteady"} /\ p \in todo[k]
    /\ \/ p \in connected /\ UNCHANGED dials
       \/ p \notin connected /\ dials[k][p] < MaxDials
          /\ dials' = [dials EXCEPT ![k][p] = @ + 1]
    /\ todo' = [todo EXCEPT ![k] = @ \ {p}]
    /\ UNCHANGED <<network, members, pc>>

PassEnds(k) ==
    /\ todo[k] = {}
    /\ Goto(k, "dialFast", "fast") \/ Goto(k, "dialSteady", "steady")
    /\ UNCHANGED <<network, members, todo, dials>>

LoopEnds(k) ==
    /\ ctxDone
    /\ Goto(k, "fast", "exited") \/ Goto(k, "steady", "exited")
    /\ UNCHANGED <<network, members, todo, dials>>

LoopStep(k) ==
    \/ FastTick(k) \/ AllConnected(k) \/ FastPhaseEnds(k)
    \/ SteadyTick(k) \/ PassEnds(k) \/ LoopEnds(k)
    \/ \E p \in Peers : Check(k, p) \/ Redial(k, p)

Next ==
    \/ \E k \in Pools, P \in SUBSET Peers : connectToManagedPeers(k, P)
    \/ \E k \in Pools : maintainPeerSet(k)
    \/ Close
    \/ \E p \in Peers : ReachabilityChanges(p) \/ ConnectionChanges(p)
    \/ \E k \in Pools : LoopStep(k) \/ \E p \in Peers : DialEnds(k, p)

Spec == Init /\ [][Next]_vars

\* The goroutines run, timers fire and dials return.
FairSpec ==
    /\ Spec
    /\ \A k \in Pools : WF_vars(LoopStep(k))
    /\ \A k \in Pools, p \in Peers : WF_vars(DialEnds(k, p))

-----------------------------------------------------------------------------
PassPCs == {"check", "dialFast", "dialSteady"}

\* Every variable has its type; a pool dials its own peers only, and has peers
\* left to look at only during a pass.
TypeOK ==
    /\ ctxDone \in BOOLEAN /\ reachable \subseteq Peers /\ connected \subseteq Peers
    /\ members \in [Pools -> SUBSET Peers] /\ todo \in [Pools -> SUBSET Peers]
    /\ pc \in [Pools -> {"off", "fast", "steady", "exited"} \cup PassPCs]
    /\ dials \in [Pools -> [Peers -> 0..MaxDials]]
    /\ \A k \in Pools :
          /\ todo[k] \subseteq members[k]
          /\ todo[k] # {} => pc[k] \in PassPCs
          /\ \A p \in Peers \ members[k] : dials[k][p] = 0

\* A peer of a pool under maintenance that can be reached from some time on is
\* connected again and again, whenever the connection is lost and whatever the
\* phase ("ensures reconnection after simultaneous restarts", NewClient).
KeepsReconnecting ==
    \A k \in Pools, p \in Peers :
        <>[](p \in members[k] /\ pc[k] # "off" /\ p \in reachable /\ ~ctxDone)
            => []<>(p \in connected)
=============================================================================
