------------------------------- MODULE BusProofs -------------------------------
(***************************************************************************)
(* No signal of a Subscribe is lost in the one-slot channel, first for     *)
(* topic discovery alone, among calls that may do anything at any moment,  *)
(* and then for the whole of Bus, where the calls are Subscribe, Publish   *)
(* and Close: Bus implements both of its parts, so that what is proved of  *)
(* either holds of it.                                                     *)
(***************************************************************************)
EXTENDS Bus, TLAPS

-----------------------------------------------------------------------------
(* Topic discovery alone.                                                  *)

\* A client that NewClient has just returned has no topics and no signals.
LEMMA InitEstablishes == Init => IInv
  BY DEF Init, IInv, TypeOK, NoSignalLost, LoopRuns, Goroutines, Loop, Waiter

\* Subscribe joins and signals, Close, and changes of the routing table.
LEMMA ClientStep ==
    ASSUME IInv,
           \/ \E t \in Topics : Join(t) \/ Signal(t)
           \/ Close \/ RoutingTableChanges
    PROVE  IInv'
<1>1. ASSUME NEW t \in Topics, Join(t)
      PROVE  IInv'
  BY <1>1 DEF Join, IInv, TypeOK, NoSignalLost, LoopRuns, history
<1>2. ASSUME NEW t \in Topics, Signal(t)
      PROVE  IInv'
  BY <1>2 DEF Signal, PutToken, IInv, TypeOK, NoSignalLost, LoopRuns, history
<1>3. CASE Close \/ RoutingTableChanges
  BY <1>3 DEF Close, RoutingTableChanges, IInv, TypeOK, NoSignalLost, LoopRuns, calls, history
<1>4. QED
  BY <1>1, <1>2, <1>3

\* The signal leaves the channel for a pass that copies every topic, and a
\* topic leaves the pass by being advertised.
LEMMA LoopKeeps ==
    ASSUME IInv, LoopStep
    PROVE  IInv'
<1> USE DEF IInv, Loop, Waiter, Goroutines
<1>1. CASE Wakes \/ SearchTick \/ StartAdvertising \/ FindsAfterAdvertising
  BY <1>1 DEF Wakes, SearchTick, StartAdvertising, AfterToken, FindsAfterAdvertising,
              CopyTopics, Goto, TypeOK, NoSignalLost, LoopRuns, calls, history
<1>2. CASE FindEnds \/ TakeToken \/ LoopEnds
  BY <1>2 DEF FindEnds, TakeToken, LoopEnds, Goto, TypeOK, NoSignalLost, LoopRuns, calls, history
<1>3. ASSUME NEW t \in Topics, Advertise(Loop, t)
      PROVE  IInv'
  BY <1>3 DEF Advertise, TypeOK, NoSignalLost, LoopRuns, calls
<1>4. ASSUME NEW t \in Topics, FindPeers(t)
      PROVE  IInv'
  BY <1>4 DEF FindPeers, NextTopic, TypeOK, NoSignalLost, LoopRuns, calls
<1>5. QED
  BY <1>1, <1>2, <1>3, <1>4 DEF LoopStep

\* waitForDHTAndAdvertise takes nothing away from the loop.
LEMMA WaiterKeeps ==
    ASSUME IInv, WaiterStep
    PROVE  IInv'
<1> USE DEF IInv, Loop, Waiter, Goroutines
<1>1. CASE DHTReady
  BY <1>1 DEF DHTReady, CopyTopics, Goto, TypeOK, NoSignalLost, LoopRuns, calls, history
<1>2. CASE WaiterEnds
  BY <1>2 DEF WaiterEnds, Goto, TypeOK, NoSignalLost, LoopRuns, calls, history
<1>3. ASSUME NEW t \in Topics, Advertise(Waiter, t)
      PROVE  IInv'
  BY <1>3 DEF Advertise, TypeOK, NoSignalLost, LoopRuns, calls
<1>4. QED
  BY <1>1, <1>2, <1>3 DEF WaiterStep

\* The goroutines that dial the peers found have no part in the signals.
LEMMA SearchKeeps ==
    ASSUME IInv, NEW s \in Searches, processPeerDiscovery(s)
    PROVE  IInv'
  BY DEF processPeerDiscovery, TimesOut, ChannelClosed, connectToDiscoveredPeer,
         ConnectReturns, SearchGoto, IInv, TypeOK, NoSignalLost, LoopRuns, client, calls, history

\* Every step of Discovery keeps all three.
LEMMA InvariantStep == IInv /\ [Next]_vars => IInv'
<1>1. IInv /\ UNCHANGED vars => IInv'
  BY DEF IInv, TypeOK, NoSignalLost, LoopRuns, vars, client, calls, history
<1>2. QED
  BY <1>1, ClientStep, LoopKeeps, WaiterKeeps, SearchKeeps DEF Next

\* The types, the promise to reach every signalled topic, and the life of the
\* loop, in every reachable state.
THEOREM Invariance == Spec => []IInv
<1>1. QED
  BY InitEstablishes, InvariantStep, PTL DEF Spec

\* A topic that Subscribe has signalled is advertised, in the pass under way,
\* or sure to be in the next one, as long as discoverPeers runs.
THEOREM SignalsReachLoop == Spec => []NoSignalLost
<1>1. IInv => NoSignalLost
  BY DEF IInv
<1>2. QED
  BY <1>1, Invariance, PTL

-----------------------------------------------------------------------------
(* The calls in the composition.                                           *)

\* Everything of CallsInOrder that a call's step may disturb, for one call.
CallInOrder(p) ==
    /\ callPC[p] # "idle" => topicOf[p] \in Topics
    /\ p \in Subscribers /\ callPC[p] \in {"subscribe", "record", "trigger"}
          => topicOf[p] \in topics
    /\ p \in watchers => callPC[p] # "idle"

\* A step of one call: where it goes, and nothing of the other calls.
Moves(p) ==
    /\ \E pos : callPC' = [callPC EXCEPT ![p] = pos]
    /\ \E t : topicOf' = [topicOf EXCEPT ![p] = t]
    /\ topics \subseteq topics' /\ watchers \subseteq watchers' /\ watchers' \subseteq watchers \cup {p}
    /\ UNCHANGED <<closed, ctxDone, caller>>

LEMMA CallKeeps ==
    ASSUME CallsInOrder, NEW p \in Client!Calls, Moves(p), CallInOrder(p)',
           p \in watchers' => p \in Subscribers, signalled' = Signalled'
    PROVE  CallsInOrder'
  BY DEF CallsInOrder, CallInOrder, Moves, Signalled, Client!Calls

\* What Discovery makes of a step of a call.
SeenByDiscovery ==
    \/ \E t \in Topics : Join(t) \/ Signal(t)
    \/ Close \/ UNCHANGED vars

\* A step that neither joins nor signals is none of Discovery's business.
LEMMA Unseen ==
    ASSUME CallsInOrder, signalled' = Signalled', UNCHANGED <<loops, shared, watchers>>,
           \A s \in watchers : topicOf'[s] = topicOf[s]
    PROVE  SeenByDiscovery
<1>1. Signalled' = Signalled
  BY DEF Signalled
<1>2. QED
  BY <1>1 DEF SeenByDiscovery, CallsInOrder, loops, shared, vars, client, calls

\* A call begins: its topic is set while no watcher is registered for it.
LEMMA CallBegins ==
    ASSUME CallsInOrder, signalled' = Signalled', UNCHANGED loops,
           NEW p \in Client!Calls, NEW t \in Topics,
           (p \in Subscribers /\ Client!Subscribe(p, t)) \/ Client!Publish(p, t)
    PROVE  CallsInOrder' /\ SeenByDiscovery
<1>1. /\ callPC[p] = "idle" /\ topicOf' = [topicOf EXCEPT ![p] = t]
      /\ \E to \in {"refused", "lookup"} : callPC' = [callPC EXCEPT ![p] = to]
      /\ UNCHANGED <<closed, shared, watchers, caller>>
  BY DEF Client!Subscribe, Client!Publish, Client!Goto, Client!clientVars, Client!signals,
         Client!closeVars, shared
<1>2. p \notin watchers
  BY <1>1 DEF CallsInOrder
<1>3. callPC'[p] \in {"refused", "lookup"} /\ topicOf'[p] = t
  BY <1>1 DEF CallsInOrder
<1>4. Moves(p) /\ CallInOrder(p)'
  BY <1>1, <1>2, <1>3 DEF Moves, CallInOrder, shared
<1>5. CallsInOrder'
  BY <1>1, <1>2, <1>4, CallKeeps
<1>6. \A s \in watchers : topicOf'[s] = topicOf[s]
  BY <1>1, <1>2 DEF CallsInOrder
<1>7. SeenByDiscovery
  BY <1>1, <1>6, Unseen
<1>8. QED
  BY <1>5, <1>7

\* The lazy join: the store is Discovery's Join.
LEMMA JoinMaps ==
    ASSUME CallsInOrder, signalled' = Signalled', UNCHANGED loops,
           NEW p \in Client!Calls, Client!JoinStep(p)
    PROVE  CallsInOrder' /\ SeenByDiscovery
<1>1. /\ callPC[p] \in {"lookup", "join", "store"} /\ topicOf' = topicOf
      /\ UNCHANGED <<closed, ctxDone, discoverNow, watchers, caller>>
  BY DEF Client!JoinStep, Client!Lookup, Client!JoinTopic, Client!StoreTopic, Client!Goto,
         Client!clientVars, Client!signals, Client!closeVars
<1>2. topicOf[p] \in Topics
  BY <1>1 DEF CallsInOrder
<1>3. PICK to \in {"join", "store", "subscribe", "publish", "closing", "failed"} :
          /\ callPC' = [callPC EXCEPT ![p] = to]
          /\ to = "subscribe" => topicOf[p] \in topics'
  BY DEF Client!JoinStep, Client!Lookup, Client!JoinTopic, Client!StoreTopic, Client!Goto,
         Client!AfterJoin, Client!JoinFailed, Client!clientVars
<1>4. topics' = topics \/ topics' = topics \cup {topicOf[p]}
  BY DEF Client!JoinStep, Client!Lookup, Client!JoinTopic, Client!StoreTopic,
         Client!clientVars
<1>5. callPC'[p] = to
  BY <1>3 DEF CallsInOrder
<1>6. Moves(p)
  BY <1>1, <1>3, <1>4 DEF Moves, CallsInOrder
<1>7. CallInOrder(p)'
  BY <1>1, <1>2, <1>3, <1>5 DEF CallInOrder
<1>8. CallsInOrder'
  BY <1>1, <1>6, <1>7, CallKeeps DEF CallsInOrder
<1>9. SeenByDiscovery
  <2>1. CASE topics' = topics
    BY <1>1, <2>1, Unseen DEF shared
  <2>2. CASE topics' = topics \cup {topicOf[p]}
    <3>1. signalled' = signalled
      BY <1>1 DEF CallsInOrder, Signalled
    <3>2. Join(topicOf[p])
      BY <1>1, <2>2, <3>1 DEF Join, loops
    <3>3. QED
      BY <1>2, <3>2 DEF SeenByDiscovery
  <2>3. QED
    BY <1>4, <2>1, <2>2
<1>10. QED
  BY <1>8, <1>9

\* The signal of a reader that has subscribed.
LEMMA TriggerMaps ==
    ASSUME CallsInOrder, signalled' = Signalled', UNCHANGED loops,
           NEW s \in Subscribers, Client!TriggerDiscovery(s)
    PROVE  CallsInOrder' /\ SeenByDiscovery
<1> s \in Client!Calls
  BY DEF Client!Calls
<1>1. /\ callPC[s] = "trigger" /\ callPC' = [callPC EXCEPT ![s] = "next"]
      /\ discoverNow' = TRUE /\ watchers' = watchers \cup {s}
      /\ UNCHANGED <<closed, ctxDone, topics, topicOf, caller>>
  BY DEF Client!TriggerDiscovery, Client!Goto, Client!closeVars
<1>2. topicOf[s] \in Topics /\ topicOf[s] \in topics
  BY <1>1 DEF CallsInOrder
<1>3. callPC'[s] = "next"
  BY <1>1 DEF CallsInOrder
<1>4. Moves(s)
  BY <1>1 DEF Moves, CallsInOrder
<1>5. CallInOrder(s)'
  BY <1>1, <1>2, <1>3 DEF CallInOrder
<1>6. CallsInOrder'
  BY <1>4, <1>5, CallKeeps
<1>7. signalled' = signalled \cup {topicOf[s]}
  BY <1>1 DEF CallsInOrder, Signalled
<1>8. Signal(topicOf[s])
  BY <1>1, <1>2, <1>7 DEF Signal, PutToken, loops
<1>9. QED
  BY <1>2, <1>6, <1>8 DEF SeenByDiscovery

\* The other steps of the readers and of Publish concern neither client.topics
\* nor the signal.
LEMMA RestMaps ==
    ASSUME CallsInOrder, signalled' = Signalled', UNCHANGED loops, NEW p \in Client!Calls,
           \/ Client!SubscribeTopic(p) \/ Client!RecordSub(p) \/ Client!NextMessage(p)
           \/ Client!Handle(p) \/ Client!Send(p) \/ Client!CloseChannel(p)
           \/ Client!ReaderDone(p) \/ Client!PublishMessage(p)
    PROVE  CallsInOrder' /\ SeenByDiscovery
<1>1. UNCHANGED <<closed, ctxDone, topics, discoverNow, watchers, topicOf, caller>>
  BY DEF Client!SubscribeTopic, Client!RecordSub, Client!NextMessage, Client!Handle,
         Client!Send, Client!CloseChannel, Client!ReaderDone, Client!PublishMessage,
         Client!clientVars, Client!signals, Client!closeVars
<1>2. PICK to \in {"record", "trigger", "next", "handle", "send", "closing", "leaving", "exited",
                   "published", "failed"} :
          /\ callPC[p] # "idle" /\ callPC' = [callPC EXCEPT ![p] = to]
          /\ to \in {"record", "trigger"} => callPC[p] \in {"subscribe", "record"}
  BY DEF Client!SubscribeTopic, Client!RecordSub, Client!NextMessage, Client!Handle,
         Client!Send, Client!CloseChannel, Client!ReaderDone, Client!PublishMessage,
         Client!Goto, Client!AfterSkip
<1>3. callPC'[p] = to
  BY <1>2 DEF CallsInOrder
<1>4. Moves(p)
  BY <1>1, <1>2 DEF Moves, CallsInOrder
<1>5. CallInOrder(p)'
  BY <1>1, <1>2, <1>3 DEF CallInOrder, CallsInOrder
<1>6. CallsInOrder'
  BY <1>1, <1>4, <1>5, CallKeeps DEF CallsInOrder
<1>7. SeenByDiscovery
  BY <1>1, Unseen DEF shared
<1>8. QED
  BY <1>6, <1>7

\* Consumers and pubsub's deliveries.
LEMMA DeliveryMaps ==
    ASSUME CallsInOrder, signalled' = Signalled', UNCHANGED loops,
           \/ \E s \in Subscribers : Client!Consume(s)
           \/ \E t \in Topics, m \in Messages : Client!Deliver(t, m)
    PROVE  CallsInOrder' /\ SeenByDiscovery
<1>1. UNCHANGED <<closed, shared, watchers, topicOf, callPC, caller>>
  BY DEF Client!Consume, Client!Deliver, Client!clientVars, Client!signals,
         Client!closeVars, shared
<1>2. QED
  BY <1>1, Unseen DEF CallsInOrder, Signalled, shared

\* Close: cancelling the context is Discovery's Close.
LEMMA CloseMaps ==
    ASSUME CallsInOrder, ctxDone \in BOOLEAN, signalled' = Signalled', UNCHANGED loops,
           NEW k \in Closers,
           Client!CloseBegin(k) \/ Client!CloseStep(k) \/ Client!ReadersTimeout(k)
    PROVE  CallsInOrder' /\ SeenByDiscovery
<1>1. UNCHANGED <<topics, discoverNow, watchers, topicOf, callPC>>
  BY DEF Client!CloseBegin, Client!CloseStep, Client!ReadersTimeout, Client!CloseCancel,
         Client!CancelSubs, Client!WaitReturns, Client!ReadersDone, Client!CloseTopics,
         Client!CloseHost, Client!CloseReturns, Client!clientVars, Client!signals,
         Client!readerVars
<1>2. \/ /\ closed' = TRUE /\ ctxDone' = ctxDone
         /\ caller' = [caller EXCEPT ![k] = "cancel"]
      \/ /\ closed' = closed /\ caller[k] # "idle" /\ ctxDone' \in {ctxDone, TRUE}
         /\ \E to : caller' = [caller EXCEPT ![k] = to]
      \/ UNCHANGED <<closed, ctxDone, caller>>
  <2>1. CASE Client!CloseBegin(k)
    BY <2>1 DEF Client!CloseBegin, Client!Step
  <2>2. CASE Client!CloseCancel(k)
    BY <2>2 DEF Client!CloseCancel, Client!CancelContext, Client!Step
  <2>3. CASE Client!CloseReturns(k)
    BY <2>3 DEF Client!CloseReturns, Client!Step, Client!clientVars
  <2>4. CASE ~(Client!CloseBegin(k) \/ Client!CloseCancel(k) \/ Client!CloseReturns(k))
    BY <2>4
    DEF Client!CloseStep, Client!ReadersTimeout, Client!CancelSubs, Client!WaitReturns,
        Client!ReadersDone, Client!CloseTopics, Client!CloseHost, Client!clientVars
  <2>5. QED
    BY <2>1, <2>2, <2>3, <2>4
<1>3. CallsInOrder'
  <2>1. /\ caller' = [j \in Closers |-> caller'[j]]
        /\ \A j \in Closers : caller'[j] # "idle" => closed'
        /\ ctxDone' => closed'
    <3>1. CASE closed' = TRUE /\ caller' = [caller EXCEPT ![k] = "cancel"]
      BY <3>1 DEF CallsInOrder
    <3>2. CASE closed' = closed /\ caller[k] # "idle"
               /\ \E to : caller' = [caller EXCEPT ![k] = to]
      <4>1. closed /\ closed'
        BY <3>2 DEF CallsInOrder
      <4>2. QED
        BY <3>2, <4>1 DEF CallsInOrder
    <3>3. CASE UNCHANGED <<closed, ctxDone, caller>>
      BY <3>3 DEF CallsInOrder
    <3>4. QED
      BY <1>2, <3>1, <3>2, <3>3
  <2>2. Signalled' = Signalled
    BY <1>1 DEF Signalled
  <2>3. QED
    BY <1>1, <2>1, <2>2 DEF CallsInOrder
<1>4. SeenByDiscovery
  <2>1. CASE ctxDone' = ctxDone
    BY <1>1, <2>1, Unseen DEF shared
  <2>2. CASE ~ctxDone /\ ctxDone' = TRUE
    <3>1. signalled' = signalled
      BY <1>1 DEF CallsInOrder, Signalled
    <3>2. Close
      BY <1>1, <2>2, <3>1 DEF Close, loops, calls
    <3>3. QED
      BY <3>2 DEF SeenByDiscovery
  <2>3. QED
    BY <1>2, <2>1, <2>2
<1>5. QED
  BY <1>3, <1>4

\* A step of the calls is a step of Discovery's environment, or none.
LEMMA CallStepMaps ==
    ASSUME CallsInOrder, IInv, CallStep
    PROVE  CallsInOrder' /\ SeenByDiscovery
<1> signalled' = Signalled' /\ UNCHANGED loops /\ ctxDone \in BOOLEAN
  BY DEF CallStep, IInv, TypeOK
<1>1. ASSUME NEW s \in Subscribers, Client!ReaderStep(s)
      PROVE  CallsInOrder' /\ SeenByDiscovery
  <2>1. s \in Client!Calls
    BY DEF Client!Calls
  <2>2. CASE Client!JoinStep(s)
    BY <2>1, <2>2, JoinMaps
  <2>3. CASE Client!TriggerDiscovery(s)
    BY <2>3, TriggerMaps
  <2>4. CASE ~(Client!JoinStep(s) \/ Client!TriggerDiscovery(s))
    BY <1>1, <2>1, <2>4, RestMaps DEF Client!ReaderStep
  <2>5. QED
    BY <2>2, <2>3, <2>4
<1>2. ASSUME NEW p \in Publishers, Client!JoinStep(p) \/ Client!PublishMessage(p)
      PROVE  CallsInOrder' /\ SeenByDiscovery
  BY <1>2, JoinMaps, RestMaps DEF Client!Calls
<1>3. ASSUME NEW p \in Client!Calls, NEW t \in Topics,
             (p \in Subscribers /\ Client!Subscribe(p, t)) \/ Client!Publish(p, t)
      PROVE  CallsInOrder' /\ SeenByDiscovery
  BY <1>3, CallBegins
<1>4. QED
  BY <1>1, <1>2, <1>3, DeliveryMaps, CloseMaps DEF CallStep, Client!ClientNext, Client!Calls

\* A step of discovery is TakeToken to the calls, or none.
LEMMA DiscoveryStepMaps ==
    ASSUME CallsInOrder, DiscoveryStep
    PROVE  /\ CallsInOrder' /\ Next
           /\ Client!TakeToken \/ UNCHANGED <<own, shared>>
<1>1. UNCHANGED <<ctxDone, calls>> /\ (TakeToken \/ UNCHANGED discoverNow)
  <2>1. ASSUME LoopStep PROVE UNCHANGED <<ctxDone, calls>> /\ (TakeToken \/ UNCHANGED discoverNow)
    BY <2>1 DEF LoopStep, Wakes, StartAdvertising, FindsAfterAdvertising, FindEnds, SearchTick,
                CopyTopics, TakeToken, LoopEnds, Advertise, FindPeers
  <2>2. ASSUME WaiterStep PROVE UNCHANGED <<ctxDone, calls, discoverNow>>
    BY <2>2 DEF WaiterStep, DHTReady, WaiterEnds, Advertise, CopyTopics
  <2>3. ASSUME NEW s \in Searches, processPeerDiscovery(s)
        PROVE  UNCHANGED <<ctxDone, calls, discoverNow>>
    BY <2>3 DEF processPeerDiscovery, TimesOut, ChannelClosed, connectToDiscoveredPeer,
                ConnectReturns, SearchGoto, client
  <2>4. ASSUME RoutingTableChanges PROVE UNCHANGED <<ctxDone, calls, discoverNow>>
    BY <2>4 DEF RoutingTableChanges
  <2>5. QED
    BY <2>1, <2>2, <2>3, <2>4 DEF DiscoveryStep
<1>2. CallsInOrder'
  BY <1>1 DEF DiscoveryStep, own, calls, CallsInOrder, Signalled
<1>3. Next
  BY DEF DiscoveryStep, Next
<1>4. Client!TakeToken \/ UNCHANGED <<own, shared>>
  BY <1>1 DEF DiscoveryStep, own, shared, calls, TakeToken, Client!TakeToken,
              Client!pubsubVars, Client!readerVars, Client!inbox, Client!channel,
              Client!closeVars
<1>5. QED
  BY <1>2, <1>3, <1>4

-----------------------------------------------------------------------------
(* Bus implements both of its parts.                                       *)

\* A client that NewClient has just returned has no calls under way.
LEMMA InitInOrder == BusInit => CallsInOrder
<1> SUFFICES ASSUME BusInit PROVE CallsInOrder
  OBVIOUS
<1>1. Signalled = {}
  BY DEF BusInit, Client!Init, Signalled
<1>2. QED
  BY <1>1 DEF BusInit, Init, Client!Init, CallsInOrder, Client!Calls

\* The calls keep their order, which Discovery's environment relies on, and
\* every step of the composition is one of Discovery.
LEMMA BusStep ==
    ASSUME CallsInOrder, IInv, [BusNext]_busVars
    PROVE  CallsInOrder' /\ [Next]_vars
<1>1. CASE UNCHANGED busVars
  BY <1>1 DEF busVars, own, shared, loops, vars, client, calls, CallsInOrder, Signalled
<1>2. CASE CallStep
  BY <1>2, CallStepMaps DEF SeenByDiscovery, Next
<1>3. CASE DiscoveryStep
  BY <1>3, DiscoveryStepMaps
<1>4. QED
  BY <1>1, <1>2, <1>3 DEF BusNext

\* The loop and its goroutines, in a client whose topics and signals are those
\* of Subscribe, Publish and Close, behave as Discovery says: its environment
\* is wide enough.
THEOREM ImplementsDiscovery == BusSpec => Spec
<1>1. BusInit => Init
  BY DEF BusInit
<1>2. IInv /\ [Next]_vars => IInv'
  BY InvariantStep
<1>3. QED
  BY <1>1, <1>2, InitInOrder, InitEstablishes, BusStep, PTL DEF BusSpec, Spec

\* In every reachable state of the whole client the calls are in order.
THEOREM OrderInvariant == BusSpec => []CallsInOrder
<1>1. BusSpec => []IInv
  BY ImplementsDiscovery, Invariance, PTL
<1>2. QED
  BY <1>1, InitInOrder, BusStep, PTL DEF BusSpec

\* The calls, with discoverPeers as the receiver of their signals, behave as
\* Subscriptions says: what is proved of Subscribe, Publish and Close holds in
\* the client with its discovery.
THEOREM ImplementsSubscriptions == BusSpec => Client!Spec
<1>1. BusInit => Client!Init
  BY DEF BusInit
<1>2. CallsInOrder /\ [BusNext]_busVars => [Client!Next]_(Client!vars)
  <2> SUFFICES ASSUME CallsInOrder, [BusNext]_busVars
               PROVE  Client!Next \/ UNCHANGED Client!vars
    OBVIOUS
  <2>1. CASE UNCHANGED <<own, shared>>
    BY <2>1 DEF own, shared, Client!vars, Client!clientVars, Client!signals,
                Client!pubsubVars, Client!readerVars, Client!inbox, Client!channel,
                Client!closeVars
  <2>2. CASE CallStep
    BY <2>2 DEF CallStep, Client!Next
  <2>3. CASE DiscoveryStep
    BY <2>1, <2>3, DiscoveryStepMaps DEF Client!Next
  <2>4. QED
    BY <2>1, <2>2, <2>3 DEF BusNext, busVars
<1>3. QED
  BY <1>1, <1>2, OrderInvariant, PTL DEF BusSpec, Client!Spec

\* As long as Close has not been called, no topic of a subscription is
\* forgotten by the DHT's advertisements, however the signals of several
\* Subscribe calls, the joins of Publish and the passes of the loop interleave.
THEOREM NoSubscriptionForgotten == BusSpec => []SubscriptionsReached
<1>1. ASSUME CallsInOrder, IInv
      PROVE  SubscriptionsReached
  <2>1. mode # "off" /\ ~closed => pc[Loop] # "exited"
    BY <1>1 DEF CallsInOrder, IInv, LoopRuns
  <2>2. \A s \in watchers : topicOf[s] \in signalled
    BY <1>1 DEF CallsInOrder, Signalled
  <2>3. QED
    BY <1>1, <2>1, <2>2 DEF IInv, NoSignalLost, SubscriptionsReached
<1>2. CallsInOrder /\ IInv => SubscriptionsReached
  BY <1>1
<1>3. QED
  BY <1>2, OrderInvariant, ImplementsDiscovery, Invariance, PTL
=============================================================================
