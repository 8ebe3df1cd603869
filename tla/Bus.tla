--------------------------------- MODULE Bus ---------------------------------
(***************************************************************************)
(* Topic discovery (module Discovery) and the calls of Subscribe, Publish  *)
(* and Close (module Subscriptions) in one client, where they share        *)
(* client.ctx, client.topics and the channel client.discoverNow.           *)
(*                                                                         *)
(* Each module alone assumes of the other that it may act at any moment:   *)
(* Join, Signal and Close of Discovery stand for the calls, TakeToken of   *)
(* Subscriptions stands for discoverPeers.  Here both are the real ones.   *)
(***************************************************************************)
EXTENDS Discovery

CONSTANTS Subscribers, Publishers, Closers, Messages, Skipped, ChanCap, BufCap, None

\* The variables of Subscriptions that Discovery does not have; its pc is
\* callPC, since pc is where the goroutines of Discovery stand.
VARIABLES
    closed, subs, readers, joined, dead, cancelled, callPC, topicOf, buf, cur, msgChan,
    chanClosed, taken, sent, watchers, caller, worker, waiter, timedOut, hostClosed

Client == INSTANCE Subscriptions WITH pc <- callPC

own ==
    <<closed, subs, readers, joined, dead, cancelled, callPC, topicOf, buf, cur, msgChan,
      chanClosed, taken, sent, watchers, caller, worker, waiter, timedOut, hostClosed>>
shared == <<ctxDone, topics, discoverNow>>
loops == <<mode, dhtPeers, pc, copied, history, search>>
busVars == <<own, shared, loops, signalled>>

\* The topics of the subscriptions that have signalled: TriggerDiscovery puts
\* the token and registers the watcher.
Signalled == {topicOf[s] : s \in watchers}

BusInit == Init /\ Client!Init

\* The goroutines of the calls run, those of discovery do not.
CallStep == Client!ClientNext /\ signalled' = Signalled' /\ UNCHANGED loops

\* The goroutines of discovery and the network run.
DiscoveryStep ==
    /\ \/ LoopStep \/ WaiterStep \/ RoutingTableChanges
       \/ \E s \in Searches : processPeerDiscovery(s)
    /\ UNCHANGED own

BusNext == CallStep \/ DiscoveryStep

BusSpec == BusInit /\ [][BusNext]_busVars

-----------------------------------------------------------------------------
\* What Discovery rests on in the calls: the topic of a call under way is set
\* once; a reader has stored or found its topic in client.topics before it
\* subscribes and signals; and a Close sets client.closed before it cancels
\* the context.
CallsInOrder ==
    /\ callPC = [p \in Client!Calls |-> callPC[p]] /\ topicOf = [p \in Client!Calls |-> topicOf[p]]
    /\ caller = [k \in Closers |-> caller[k]]
    /\ \A p \in Client!Calls : callPC[p] # "idle" => topicOf[p] \in Topics
    /\ \A s \in Subscribers :
          callPC[s] \in {"subscribe", "record", "trigger"} => topicOf[s] \in topics
    /\ watchers \subseteq {s \in Subscribers : callPC[s] # "idle"}
    /\ signalled = Signalled
    /\ \A k \in Closers : caller[k] # "idle" => closed
    /\ ctxDone => closed

\* Until Close is called every subscription's topic is advertised, or in the
\* pass under way, or sure to be in the next one, whatever the calls and the
\* loop do to client.topics and client.discoverNow in between.
SubscriptionsReached ==
    mode # "off" /\ ~closed =>
        \A s \in watchers :
            \/ topicOf[s] \in attempted
            \/ discoverNow \/ pc[Loop] = "copy"
            \/ pc[Loop] = "advertise" /\ topicOf[s] \in copied[Loop]
=============================================================================
