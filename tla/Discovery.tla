------------------------------ MODULE Discovery ------------------------------
(***************************************************************************)
(* Topic discovery through the DHT in client.go: the one-slot discoverNow  *)
(* channel that Subscribe signals, the discoverPeers loop that takes the   *)
(* signal, the goroutines of processPeerDiscovery that dial the peers it   *)
(* finds, and the one-shot waitForDHTAndAdvertise.                         *)
(*                                                                         *)
(* Timers are untimed: a tick or timeout may come at any moment.  The DHT  *)
(* is external: Advertise succeeds if the routing table has a peer,        *)
(* FindPeers may fail, and its channel may yield peers, close or go        *)
(* silent.                                                                 *)
(***************************************************************************)
EXTENDS FiniteSets

CONSTANTS
    Topics,        \* topic names
    Modes,         \* values of Config.DHTMode: "server", "client", "off"
    Searches       \* bound: goroutines of processPeerDiscovery at a time

ASSUME ModesKnown == Modes \subseteq {"server", "client", "off"}

VARIABLES
    mode,          \* Config.DHTMode
    ctxDone,       \* the client's context is cancelled
    topics,        \* the keys of client.topics
    signalled,     \* topics whose Subscribe has signalled
    discoverNow,   \* the channel holds its one token
    dhtPeers,      \* the routing table lists a peer
    pc,            \* where the two goroutines stand
    copied,        \* a goroutine's topicsCopy, less the topics it is done with
    attempted,     \* history: topics for which Advertise was called
    advertised,    \* history: topics for which it succeeded
    searched,      \* history: topics for which FindPeers was called
    search         \* where each goroutine of processPeerDiscovery stands

calls == <<topics, signalled>>
history == <<attempted, advertised, searched>>
client == <<mode, ctxDone, calls, discoverNow, dhtPeers, pc, copied, history>>
vars == <<client, search>>

\* discoverPeers and waitForDHTAndAdvertise.
Loop == "discoverPeers"
Waiter == "waitForDHT"
Goroutines == {Loop, Waiter}

Goto(g, from, to) == pc[g] = from /\ pc' = [pc EXCEPT ![g] = to]

Init ==
    /\ mode \in Modes
    /\ ctxDone = FALSE /\ discoverNow = FALSE /\ dhtPeers \in BOOLEAN
    /\ topics = {} /\ signalled = {}
    /\ pc = IF mode = "off" THEN [g \in Goroutines |-> "exited"]
            ELSE [g \in Goroutines |-> IF g = Loop THEN "sleep" ELSE "select"]
    /\ copied = [g \in Goroutines |-> {}]
    /\ attempted = {} /\ advertised = {} /\ searched = {}
    /\ search = [s \in Searches |-> "free"]

-----------------------------------------------------------------------------
(* The rest of the client.                                                 *)

\* Subscribe and Publish alike store a topic they have joined.
Join(t) ==
    /\ topics' = topics \cup {t}
    /\ UNCHANGED <<mode, ctxDone, signalled, discoverNow, dhtPeers, pc, copied, history, search>>

\* Mutant: discoverNow has no buffer, so the token needs a waiting receiver.
Unbuffered == discoverNow' = (discoverNow \/ pc[Loop] = "select")
PutToken == discoverNow' = TRUE

\* Only Subscribe signals, after the join: each call that gets so far, at any
\* moment.
Signal(t) ==
    /\ t \in topics
    /\ signalled' = signalled \cup {t}
    /\ PutToken
    /\ UNCHANGED <<mode, ctxDone, topics, dhtPeers, pc, copied, history, search>>

Close ==
    /\ ~ctxDone /\ ctxDone' = TRUE
    /\ UNCHANGED <<mode, calls, discoverNow, dhtPeers, pc, copied, history, search>>

RoutingTableChanges ==
    /\ dhtPeers' = ~dhtPeers
    /\ UNCHANGED <<mode, ctxDone, calls, discoverNow, pc, copied, history, search>>

-----------------------------------------------------------------------------
(* The goroutines.                                                         *)

\* topicsCopy, taken under mu.RLock at the start of advertiseTopics and of
\* findAndConnectPeers.
CopyTopics(g, from, to) ==
    /\ Goto(g, from, to)
    /\ copied' = [copied EXCEPT ![g] = topics]
    /\ UNCHANGED <<mode, ctxDone, calls, discoverNow, dhtPeers, history, search>>

Advertise(g, t) ==
    /\ pc[g] = "advertise" /\ t \in copied[g]
    /\ copied' = [copied EXCEPT ![g] = @ \ {t}]
    /\ attempted' = attempted \cup {t}
    /\ \/ dhtPeers /\ ~ctxDone /\ advertised' = advertised \cup {t}
       \/ (~dhtPeers \/ ctxDone) /\ UNCHANGED advertised
    /\ UNCHANGED <<mode, ctxDone, calls, discoverNow, dhtPeers, pc, searched, search>>

\* Mutant: an error of FindPeers ends the search of the other topics.
StopsAtError(t) == copied' = [copied EXCEPT ![Loop] = {}]
NextTopic(t) == copied' = [copied EXCEPT ![Loop] = @ \ {t}]

\* An error, or a goroutine that reads the channel of this search.
FindPeers(t) ==
    /\ pc[Loop] = "find" /\ t \in copied[Loop]
    /\ searched' = searched \cup {t}
    /\ NextTopic(t)
    /\ \/ UNCHANGED search
       \/ \E s \in Searches : search[s] = "free" /\ search' = [search EXCEPT ![s] = "select"]
    /\ UNCHANGED <<mode, ctxDone, calls, discoverNow, dhtPeers, pc, attempted, advertised>>

\* discoverPeers after its first second; the sleep does not look at ctx.
Wakes == CopyTopics(Loop, "sleep", "find")

TakeToken ==
    /\ discoverNow
    /\ Goto(Loop, "select", "copy")
    /\ discoverNow' = FALSE
    /\ UNCHANGED <<mode, ctxDone, calls, dhtPeers, copied, history, search>>

\* Mutant: the signal starts a search but no advertisement.
SearchesOnly == "find"
AfterToken == "advertise"

StartAdvertising == CopyTopics(Loop, "copy", AfterToken)

FindsAfterAdvertising ==
    /\ copied[Loop] = {}
    /\ CopyTopics(Loop, "advertise", "find")

FindEnds ==
    /\ copied[Loop] = {}
    /\ Goto(Loop, "find", "select")
    /\ UNCHANGED <<mode, ctxDone, calls, discoverNow, dhtPeers, copied, history, search>>

SearchTick == CopyTopics(Loop, "select", "find")

\* waitForDHTAndAdvertise: the first tick that finds the routing table in use.
DHTReady == dhtPeers /\ CopyTopics(Waiter, "select", "advertise")

\* Its timeout, or the end of its advertisements.
WaiterEnds ==
    /\ \/ Goto(Waiter, "select", "exited")
       \/ copied[Waiter] = {} /\ Goto(Waiter, "advertise", "exited")
    /\ UNCHANGED <<mode, ctxDone, calls, discoverNow, dhtPeers, copied, history, search>>

LoopEnds ==
    /\ ctxDone /\ Goto(Loop, "select", "exited")
    /\ UNCHANGED <<mode, ctxDone, calls, discoverNow, dhtPeers, copied, history, search>>

-----------------------------------------------------------------------------
(* processPeerDiscovery.                                                   *)

SearchGoto(s, from, to) ==
    search[s] = from /\ search' = [search EXCEPT ![s] = to] /\ UNCHANGED client

\* Its 10 seconds are over, at any moment, or the client closes.
\* Mutant: the select looks at the client's context only.
ClientContext == ctxDone
DiscCtxDone == TRUE

TimesOut(s) == DiscCtxDone /\ SearchGoto(s, "select", "free")
ChannelClosed(s) == SearchGoto(s, "select", "free")

\* A peer other than the node itself, with addresses: host.Connect is called in
\* this goroutine and with the client's context.  The rest are skipped.
connectToDiscoveredPeer(s) == SearchGoto(s, "select", "connect")
ConnectReturns(s) == SearchGoto(s, "connect", "select")

processPeerDiscovery(s) ==
    \/ TimesOut(s) \/ ChannelClosed(s)
    \/ connectToDiscoveredPeer(s) \/ ConnectReturns(s)

-----------------------------------------------------------------------------
LoopStep ==
    \/ Wakes \/ StartAdvertising \/ FindsAfterAdvertising \/ FindEnds \/ SearchTick
    \/ TakeToken \/ LoopEnds
    \/ \E t \in Topics : Advertise(Loop, t) \/ FindPeers(t)

WaiterStep == DHTReady \/ WaiterEnds \/ \E t \in Topics : Advertise(Waiter, t)

Next ==
    \/ \E t \in Topics : Join(t) \/ Signal(t)
    \/ Close \/ RoutingTableChanges
    \/ LoopStep \/ WaiterStep
    \/ \E s \in Searches : processPeerDiscovery(s)

Spec == Init /\ [][Next]_vars

\* Goroutines run and the ticker ticks; a select that finds a case ready again
\* and again takes it in the end; the 10 seconds pass and host.Connect
\* returns.  Subscribe need not get from the join to its signal.
FairSpec ==
    /\ Spec
    /\ WF_vars(LoopStep) /\ WF_vars(WaiterStep)
    /\ SF_vars(TakeToken) /\ SF_vars(SearchTick)
    /\ \A s \in Searches : WF_vars(ConnectReturns(s)) /\ SF_vars(TimesOut(s))

-----------------------------------------------------------------------------
\* Every variable has its type; only a goroutine inside a pass over the topics
\* holds a copy of them.
TypeOK ==
    /\ mode \in Modes /\ ctxDone \in BOOLEAN
    /\ topics \subseteq Topics /\ signalled \subseteq topics
    /\ discoverNow \in BOOLEAN /\ dhtPeers \in BOOLEAN
    /\ pc \in [Goroutines -> {"sleep", "select", "copy", "advertise", "find", "exited"}]
    /\ pc[Waiter] \in {"select", "advertise", "exited"}
    /\ copied \in [Goroutines -> SUBSET topics]
    /\ \A g \in Goroutines : copied[g] # {} => pc[g] \in {"advertise", "find"}
    /\ attempted \subseteq topics /\ advertised \subseteq attempted /\ searched \subseteq topics
    /\ search \in [Searches -> {"free", "select", "connect"}]

\* Signals that fall together in the one-slot channel are not lost: a topic
\* whose Subscribe has signalled is advertised, is in the pass under way, or
\* the token or the pass about to start will reach it.
NoSignalLost ==
    mode # "off" /\ pc[Loop] # "exited" =>
        \A t \in signalled :
            \/ t \in attempted
            \/ discoverNow \/ pc[Loop] = "copy"
            \/ pc[Loop] = "advertise" /\ t \in copied[Loop]

\* discoverPeers, once started, runs until the client's context is cancelled.
LoopRuns == mode # "off" /\ pc[Loop] = "exited" => ctxDone

\* The types, the promise to reach every signalled topic and the life of the
\* loop that keeps it, which together are inductive.
IInv == TypeOK /\ NoSignalLost /\ LoopRuns

\* Every topic joined, by Publish too, is searched for until the client closes.
JoinedIsSearched ==
    mode # "off" => \A t \in Topics : t \in topics ~> t \in searched \/ ctxDone

\* README: the DHT "advertises topics on the distributed hash table": with a
\* routing table that is in use all the time, a topic whose Subscribe has
\* signalled gets advertised, however its signal and the passes fall together.
SubscribedIsAdvertised ==
    mode # "off" /\ []dhtPeers =>
        \A t \in Topics : t \in signalled ~> t \in advertised \/ ctxDone

\* No goroutine of a search stays: however many peers the channel yields, and
\* although it may never close, each ends some time after its 10 seconds, which
\* the dial under way may outlast.
SearchesEnd == \A s \in Searches : search[s] # "free" ~> search[s] = "free"
=============================================================================
