-------------------------- MODULE SubscriptionsProofs --------------------------
(***************************************************************************)
(* Proofs about Subscriptions, for any number of calls, topics and         *)
(* messages and any buffer capacities: type correctness, the WaitGroup and *)
(* channel discipline of the readers, the order of the teardown, which     *)
(* channels stay open, the topic map, and the refinement of MessageStream. *)
(***************************************************************************)
EXTENDS SubscriptionsCorrect, FiniteSetTheorems, SequenceTheorems, TLAPS

USE DEF vars, signals, clientVars, pubsubVars, inbox, channel, readerVars, closeVars

-----------------------------------------------------------------------------
(* Type correctness.                                                       *)

\* Moving one call to a program counter of its kind keeps the types of pc
\* and topicOf.
LEMMA MoveCall ==
    ASSUME CallTypeOK, NEW p \in Calls, NEW from, NEW to,
           Goto(p, from, to), from # "idle", topicOf' = topicOf,
           p \in Subscribers => to \in ReaderPC,
           p \in Publishers => to \in PublishPC
    PROVE  CallTypeOK'
BY DEF CallTypeOK, Goto, Calls

\* A WaitGroup that counts the readers is not at zero while one is active.
LEMMA ReadersActive ==
    ASSUME WaitGroupCounts
    PROVE  /\ IsFiniteSet(Active)
           /\ readers = 0 <=> Active = {}
<1>1. IsFiniteSet(Active)
  BY FS_Subset, SubscribersFinite DEF Active
<1>2. QED
  BY <1>1, FS_EmptySet DEF WaitGroupCounts

\* The steps of Subscribe and of its reader goroutine keep every type; that
\* readers.Done keeps the counter natural rests on WaitGroupCounts.
LEMMA ReaderTypes ==
    ASSUME TypeOK, WaitGroupCounts, NEW s \in Subscribers, ReaderStep(s)
    PROVE  TypeOK'
<1> s \in Calls /\ s \notin Publishers
  BY CallsDisjoint DEF Calls
<1>1. CASE Lookup(s)
  <2>1. CallTypeOK'
    <3>1. Goto(s, "lookup", "subscribe") \/ Goto(s, "lookup", "join")
      BY <1>1 DEF Lookup, AfterJoin
    <3>2. "subscribe" \in ReaderPC /\ "join" \in ReaderPC
      BY DEF ReaderPC, Admitted, Attached, Joining
    <3>3. topicOf' = topicOf
      BY <1>1 DEF Lookup
    <3>4. QED  BY <3>1, <3>2, <3>3, MoveCall DEF TypeOK
  <2>2. InboxTypeOK'
    BY <1>1, SkippedAreMessages, NoneIsNothing
    DEF TypeOK, CallTypeOK, InboxTypeOK, Lookup, AfterJoin, Goto, Calls
  <2>3. ClientTypeOK' /\ PubsubTypeOK' /\ ChannelTypeOK' /\ CloseTypeOK'
    BY <1>1, SkippedAreMessages, NoneIsNothing
    DEF TypeOK, CallTypeOK, InboxTypeOK, ClientTypeOK, PubsubTypeOK, ChannelTypeOK,
        CloseTypeOK, Lookup, Goto, Calls
  <2>4. QED  BY <2>1, <2>2, <2>3 DEF TypeOK
<1>2. CASE JoinTopic(s)
  <2>1. CallTypeOK'
    <3>1. Goto(s, "join", "store") \/ Goto(s, "join", "closing")
      BY <1>2 DEF JoinTopic, JoinFailed
    <3>2. "store" \in ReaderPC /\ "closing" \in ReaderPC
      BY DEF ReaderPC, Admitted, Attached, Joining
    <3>3. topicOf' = topicOf
      BY <1>2 DEF JoinTopic
    <3>4. QED  BY <3>1, <3>2, <3>3, MoveCall DEF TypeOK
  <2>2. InboxTypeOK'
    BY <1>2, SkippedAreMessages, NoneIsNothing
    DEF TypeOK, CallTypeOK, InboxTypeOK, JoinTopic, JoinFailed, Goto, Calls
  <2>3. ClientTypeOK' /\ PubsubTypeOK' /\ ChannelTypeOK' /\ CloseTypeOK'
    BY <1>2, SkippedAreMessages, NoneIsNothing
    DEF TypeOK, CallTypeOK, InboxTypeOK, ClientTypeOK, PubsubTypeOK, ChannelTypeOK,
        CloseTypeOK, JoinTopic, Goto, Calls
  <2>4. QED  BY <2>1, <2>2, <2>3 DEF TypeOK
<1>3. CASE StoreTopic(s)
  <2>1. CallTypeOK'
    <3>1. Goto(s, "store", "subscribe")
      BY <1>3 DEF StoreTopic, AfterJoin
    <3>2. "subscribe" \in ReaderPC
      BY DEF ReaderPC, Admitted, Attached, Joining
    <3>3. topicOf' = topicOf
      BY <1>3 DEF StoreTopic
    <3>4. QED  BY <3>1, <3>2, <3>3, MoveCall DEF TypeOK
  <2>2. InboxTypeOK'
    BY <1>3, SkippedAreMessages, NoneIsNothing
    DEF TypeOK, CallTypeOK, InboxTypeOK, StoreTopic, AfterJoin, Goto, Calls
  <2>3. ClientTypeOK' /\ PubsubTypeOK' /\ ChannelTypeOK' /\ CloseTypeOK'
    BY <1>3, SkippedAreMessages, NoneIsNothing
    DEF TypeOK, CallTypeOK, InboxTypeOK, ClientTypeOK, PubsubTypeOK, ChannelTypeOK,
        CloseTypeOK, StoreTopic, Goto, Calls
  <2>4. QED  BY <2>1, <2>2, <2>3 DEF TypeOK
<1>4. CASE SubscribeTopic(s)
  <2>1. CallTypeOK'
    <3>1. Goto(s, "subscribe", "record") \/ Goto(s, "subscribe", "closing")
      BY <1>4 DEF SubscribeTopic
    <3>2. "record" \in ReaderPC /\ "closing" \in ReaderPC
      BY DEF ReaderPC, Admitted, Attached, Joining
    <3>3. topicOf' = topicOf
      BY <1>4 DEF SubscribeTopic
    <3>4. QED  BY <3>1, <3>2, <3>3, MoveCall DEF TypeOK
  <2>2. InboxTypeOK'
    BY <1>4, SkippedAreMessages, NoneIsNothing
    DEF TypeOK, CallTypeOK, InboxTypeOK, SubscribeTopic, Goto, Calls
  <2>3. ClientTypeOK' /\ PubsubTypeOK' /\ ChannelTypeOK' /\ CloseTypeOK'
    BY <1>4, SkippedAreMessages, NoneIsNothing
    DEF TypeOK, CallTypeOK, InboxTypeOK, ClientTypeOK, PubsubTypeOK, ChannelTypeOK,
        CloseTypeOK, SubscribeTopic, Goto, Calls
  <2>4. QED  BY <2>1, <2>2, <2>3 DEF TypeOK
<1>5. CASE RecordSub(s)
  <2>1. CallTypeOK'
    <3>1. Goto(s, "record", "trigger")
      BY <1>5 DEF RecordSub
    <3>2. "trigger" \in ReaderPC
      BY DEF ReaderPC, Admitted, Attached, Joining
    <3>3. topicOf' = topicOf
      BY <1>5 DEF RecordSub
    <3>4. QED  BY <3>1, <3>2, <3>3, MoveCall DEF TypeOK
  <2>2. InboxTypeOK'
    BY <1>5, SkippedAreMessages, NoneIsNothing
    DEF TypeOK, CallTypeOK, InboxTypeOK, RecordSub, Goto, Calls
  <2>3. ClientTypeOK' /\ PubsubTypeOK' /\ ChannelTypeOK' /\ CloseTypeOK'
    BY <1>5, SkippedAreMessages, NoneIsNothing
    DEF TypeOK, CallTypeOK, InboxTypeOK, ClientTypeOK, PubsubTypeOK, ChannelTypeOK,
        CloseTypeOK, RecordSub, Goto, Calls
  <2>4. QED  BY <2>1, <2>2, <2>3 DEF TypeOK
<1>6. CASE TriggerDiscovery(s)
  <2>1. CallTypeOK'
    <3>1. Goto(s, "trigger", "next")
      BY <1>6 DEF TriggerDiscovery
    <3>2. "next" \in ReaderPC
      BY DEF ReaderPC, Admitted, Attached, Joining
    <3>3. topicOf' = topicOf
      BY <1>6 DEF TriggerDiscovery
    <3>4. QED  BY <3>1, <3>2, <3>3, MoveCall DEF TypeOK
  <2>2. InboxTypeOK'
    BY <1>6, SkippedAreMessages, NoneIsNothing
    DEF TypeOK, CallTypeOK, InboxTypeOK, TriggerDiscovery, Goto, Calls
  <2>3. ClientTypeOK' /\ PubsubTypeOK' /\ ChannelTypeOK' /\ CloseTypeOK'
    BY <1>6, SkippedAreMessages, NoneIsNothing
    DEF TypeOK, CallTypeOK, InboxTypeOK, ClientTypeOK, PubsubTypeOK, ChannelTypeOK,
        CloseTypeOK, TriggerDiscovery, Goto, Calls
  <2>4. QED  BY <2>1, <2>2, <2>3 DEF TypeOK
<1>7. CASE NextMessage(s)
  <2>1. CallTypeOK'
    <3>1. Goto(s, "next", "handle") \/ Goto(s, "next", "closing")
      BY <1>7 DEF NextMessage, MayLeave
    <3>2. "handle" \in ReaderPC /\ "closing" \in ReaderPC
      BY DEF ReaderPC, Admitted, Attached, Joining
    <3>3. topicOf' = topicOf
      BY <1>7 DEF NextMessage
    <3>4. QED  BY <3>1, <3>2, <3>3, MoveCall DEF TypeOK
  <2>2. InboxTypeOK'
    <3>1. CASE UNCHANGED inbox
      BY <1>7, <3>1 DEF TypeOK, CallTypeOK, InboxTypeOK, NextMessage, MayLeave, Goto, Calls
    <3>2. CASE ~UNCHANGED inbox
      <4>1. /\ buf[s] # <<>>
            /\ cur' = [cur EXCEPT ![s] = Head(buf[s])]
            /\ buf' = [buf EXCEPT ![s] = Tail(buf[s])]
            /\ pc' = [pc EXCEPT ![s] = "handle"]
        BY <1>7, <3>2 DEF NextMessage, Goto
      <4>2. buf[s] \in Seq(Messages)
        BY DEF TypeOK, InboxTypeOK
      <4>3. Head(buf[s]) \in Messages /\ Tail(buf[s]) \in Seq(Messages)
        BY <4>1, <4>2
      <4>4. Head(buf[s]) # None
        BY <4>3, NoneIsNothing
      <4>5. QED
        BY <4>1, <4>3, <4>4 DEF TypeOK, CallTypeOK, InboxTypeOK, Calls
    <3>3. QED  BY <3>1, <3>2
  <2>3. ClientTypeOK' /\ PubsubTypeOK' /\ ChannelTypeOK' /\ CloseTypeOK'
    BY <1>7, SkippedAreMessages, NoneIsNothing
    DEF TypeOK, CallTypeOK, InboxTypeOK, ClientTypeOK, PubsubTypeOK, ChannelTypeOK,
        CloseTypeOK, NextMessage, Goto, Calls
  <2>4. QED  BY <2>1, <2>2, <2>3 DEF TypeOK
<1>8. CASE Handle(s)
  <2>1. CallTypeOK'
    <3>1. Goto(s, "handle", "next") \/ Goto(s, "handle", "send")
      BY <1>8 DEF Handle, AfterSkip
    <3>2. "next" \in ReaderPC /\ "send" \in ReaderPC
      BY DEF ReaderPC, Admitted, Attached, Joining
    <3>3. topicOf' = topicOf
      BY <1>8 DEF Handle
    <3>4. QED  BY <3>1, <3>2, <3>3, MoveCall DEF TypeOK
  <2>2. InboxTypeOK'
    BY <1>8, SkippedAreMessages, NoneIsNothing
    DEF TypeOK, CallTypeOK, InboxTypeOK, Handle, AfterSkip, Goto, Calls
  <2>3. ClientTypeOK' /\ PubsubTypeOK' /\ ChannelTypeOK' /\ CloseTypeOK'
    BY <1>8, SkippedAreMessages, NoneIsNothing
    DEF TypeOK, CallTypeOK, InboxTypeOK, ClientTypeOK, PubsubTypeOK, ChannelTypeOK,
        CloseTypeOK, Handle, Goto, Calls
  <2>4. QED  BY <2>1, <2>2, <2>3 DEF TypeOK
<1>9. CASE Send(s)
  <2>1. CallTypeOK'
    <3>1. Goto(s, "send", "next") \/ Goto(s, "send", "closing")
      BY <1>9 DEF Send
    <3>2. "next" \in ReaderPC /\ "closing" \in ReaderPC
      BY DEF ReaderPC, Admitted, Attached, Joining
    <3>3. topicOf' = topicOf
      BY <1>9 DEF Send
    <3>4. QED  BY <3>1, <3>2, <3>3, MoveCall DEF TypeOK
  <2>2. InboxTypeOK'
    BY <1>9, SkippedAreMessages, NoneIsNothing
    DEF TypeOK, CallTypeOK, InboxTypeOK, Send, Goto, Calls
  <2>3. ClientTypeOK' /\ PubsubTypeOK' /\ ChannelTypeOK' /\ CloseTypeOK'
    <3>1. cur[s] \in Messages
      BY <1>9 DEF TypeOK, InboxTypeOK, Send, Goto
    <3>2. msgChan[s] \in Seq(Messages)
      BY DEF TypeOK, ChannelTypeOK
    <3>3. Append(msgChan[s], cur[s]) \in Seq(Messages)
      BY <3>1, <3>2
    <3>4. QED
      BY <1>9, <3>3
      DEF TypeOK, ClientTypeOK, PubsubTypeOK, ChannelTypeOK, CloseTypeOK, Send
  <2>4. QED  BY <2>1, <2>2, <2>3 DEF TypeOK
<1>10. CASE CloseChannel(s)
  <2>1. CallTypeOK'
    <3>1. Goto(s, "closing", "leaving")
      BY <1>10 DEF CloseChannel
    <3>2. "leaving" \in ReaderPC
      BY DEF ReaderPC, Admitted, Attached, Joining
    <3>3. topicOf' = topicOf
      BY <1>10 DEF CloseChannel
    <3>4. QED  BY <3>1, <3>2, <3>3, MoveCall DEF TypeOK
  <2>2. InboxTypeOK'
    BY <1>10, SkippedAreMessages, NoneIsNothing
    DEF TypeOK, CallTypeOK, InboxTypeOK, CloseChannel, Goto, Calls
  <2>3. ClientTypeOK' /\ PubsubTypeOK' /\ ChannelTypeOK' /\ CloseTypeOK'
    BY <1>10, SkippedAreMessages, NoneIsNothing
    DEF TypeOK, CallTypeOK, InboxTypeOK, ClientTypeOK, PubsubTypeOK, ChannelTypeOK,
        CloseTypeOK, CloseChannel, Goto, Calls
  <2>4. QED  BY <2>1, <2>2, <2>3 DEF TypeOK
<1>11. CASE ReaderDone(s)
  <2>1. CallTypeOK'
    <3>1. Goto(s, "leaving", "exited")
      BY <1>11 DEF ReaderDone, Done
    <3>2. "exited" \in ReaderPC
      BY DEF ReaderPC, Admitted, Attached, Joining
    <3>3. topicOf' = topicOf
      BY <1>11 DEF ReaderDone
    <3>4. QED  BY <3>1, <3>2, <3>3, MoveCall DEF TypeOK
  <2>2. InboxTypeOK'
    BY <1>11, SkippedAreMessages, NoneIsNothing
    DEF TypeOK, CallTypeOK, InboxTypeOK, ReaderDone, Done, Goto, Calls
  <2>3. readers' \in Nat
    <3>1. s \in Active
      BY <1>11 DEF ReaderDone, Goto, Active, Admitted
    <3>2. readers # 0
      BY <3>1, ReadersActive DEF TypeOK
    <3>3. QED  BY <1>11, <3>2 DEF ReaderDone, Done, TypeOK, ClientTypeOK
  <2>4. ClientTypeOK' /\ PubsubTypeOK' /\ ChannelTypeOK' /\ CloseTypeOK'
    BY <1>11, <2>3
    DEF TypeOK, ClientTypeOK, PubsubTypeOK, ChannelTypeOK, CloseTypeOK, ReaderDone
  <2>5. QED  BY <2>1, <2>2, <2>4 DEF TypeOK
<1>12. QED
  BY <1>1, <1>2, <1>3, <1>4, <1>5, <1>6, <1>7, <1>8, <1>9, <1>10, <1>11 DEF ReaderStep, JoinStep

\* Subscribe itself, and the consumer's receive from the channel.
LEMMA SubscribeTypes ==
    ASSUME TypeOK, NEW s \in Subscribers,
           Consume(s) \/ \E t \in Topics : Subscribe(s, t)
    PROVE  TypeOK'
<1> s \in Calls /\ s \notin Publishers
  BY CallsDisjoint DEF Calls
<1>1. ASSUME NEW t \in Topics, Subscribe(s, t)
      PROVE  TypeOK'
  <2>1. Goto(s, "idle", "refused") \/ Goto(s, "idle", "lookup")
    BY <1>1 DEF Subscribe
  <2>2. "refused" \in ReaderPC /\ "lookup" \in ReaderPC
    BY DEF ReaderPC, Admitted, Joining
  <2>3. topicOf' = [topicOf EXCEPT ![s] = t]
    BY <1>1 DEF Subscribe
  <2>4. CallTypeOK'
    BY <2>1, <2>2, <2>3 DEF TypeOK, CallTypeOK, Goto, Calls
  <2>5. InboxTypeOK'
    BY <1>1, <2>1 DEF TypeOK, CallTypeOK, InboxTypeOK, Subscribe, Goto, Calls
  <2>6. ClientTypeOK' /\ PubsubTypeOK' /\ ChannelTypeOK' /\ CloseTypeOK'
    BY <1>1
    DEF TypeOK, ClientTypeOK, PubsubTypeOK, ChannelTypeOK, CloseTypeOK, Subscribe
  <2>7. QED  BY <2>4, <2>5, <2>6 DEF TypeOK
<1>2. CASE Consume(s)
  <2>1. msgChan[s] \in Seq(Messages) /\ msgChan[s] # <<>> /\ taken[s] \in Seq(Messages)
    BY <1>2 DEF TypeOK, ChannelTypeOK, Consume
  <2>2. /\ Tail(msgChan[s]) \in Seq(Messages)
        /\ Append(taken[s], Head(msgChan[s])) \in Seq(Messages)
    BY <2>1
  <2>3. ChannelTypeOK'
    BY <1>2, <2>2 DEF TypeOK, ChannelTypeOK, Consume
  <2>4. CallTypeOK' /\ InboxTypeOK'
    BY <1>2 DEF TypeOK, CallTypeOK, InboxTypeOK, Consume
  <2>5. ClientTypeOK' /\ PubsubTypeOK' /\ CloseTypeOK'
    BY <1>2 DEF TypeOK, ClientTypeOK, PubsubTypeOK, CloseTypeOK, Consume
  <2>6. QED  BY <2>3, <2>4, <2>5 DEF TypeOK
<1>3. QED  BY <1>1, <1>2

\* Publish and its share of the lazy join.
LEMMA PublishTypes ==
    ASSUME TypeOK, NEW p \in Publishers,
           JoinStep(p) \/ PublishMessage(p) \/ \E t \in Topics : Publish(p, t)
    PROVE  TypeOK'
<1> p \in Calls /\ p \notin Subscribers
  BY CallsDisjoint DEF Calls
<1> DEFINE Untouched == UNCHANGED <<closed, ctxDone, subs, readers, signals, dead,
                                    cancelled, sent, inbox, channel, closeVars>>
<1>1. ASSUME NEW t \in Topics, Publish(p, t)
      PROVE  CallTypeOK' /\ Untouched /\ UNCHANGED <<topics, joined>>
  BY <1>1 DEF TypeOK, CallTypeOK, Publish, Goto, Calls, PublishPC, Joining
<1>2. ASSUME JoinStep(p) \/ PublishMessage(p)
      PROVE  CallTypeOK'
  <2>1. topicOf' = topicOf
    BY <1>2 DEF JoinStep, Lookup, JoinTopic, StoreTopic, PublishMessage
  <2>2. \E from \in {"lookup", "join", "store", "publish"},
           to \in {"join", "store", "publish", "published", "failed"} :
             Goto(p, from, to)
    BY <1>2
    DEF JoinStep, Lookup, JoinTopic, StoreTopic, PublishMessage, AfterJoin, JoinFailed
  <2>3. {"join", "store", "publish", "published", "failed"}
           \subseteq PublishPC
    BY DEF PublishPC, Joining
  <2>4. QED  BY <2>1, <2>2, <2>3, MoveCall DEF TypeOK
<1>3. ASSUME JoinStep(p) \/ PublishMessage(p)
      PROVE  Untouched /\ topics' \subseteq Topics /\ joined' \subseteq Topics
  <2>1. topicOf[p] \in Topics
    BY <1>3
    DEF TypeOK, CallTypeOK, JoinStep, Lookup, JoinTopic, StoreTopic, PublishMessage, Goto
  <2>2. QED
    BY <1>3, <2>1
    DEF TypeOK, ClientTypeOK, PubsubTypeOK, JoinStep, Lookup, JoinTopic, StoreTopic,
        PublishMessage
<1>4. ASSUME CallTypeOK', Untouched, topics' \subseteq Topics, joined' \subseteq Topics,
             \A s \in Subscribers : pc'[s] = pc[s]
      PROVE  TypeOK'
  BY <1>4
  DEF TypeOK, ClientTypeOK, PubsubTypeOK, InboxTypeOK, ChannelTypeOK, CloseTypeOK
<1>5. \A s \in Subscribers : pc'[s] = pc[s]
  BY DEF TypeOK, CallTypeOK, JoinStep, Lookup, JoinTopic, StoreTopic, PublishMessage,
         Publish, Goto, Calls
<1>6. QED
  BY <1>1, <1>2, <1>3, <1>4, <1>5 DEF TypeOK, ClientTypeOK, PubsubTypeOK

\* A message that pubsub delivers goes into buffers only.
LEMMA DeliverTypes ==
    ASSUME TypeOK, NEW t \in Topics, NEW m \in Messages, Deliver(t, m)
    PROVE  TypeOK'
<1>1. InboxTypeOK'
  <2>1. ASSUME NEW s \in Subscribers
        PROVE  buf'[s] \in Seq(Messages)
    <3>1. buf[s] \in Seq(Messages) /\ Append(buf[s], m) \in Seq(Messages)
      BY DEF TypeOK, InboxTypeOK
    <3>2. QED  BY <3>1 DEF Deliver
  <2>2. QED
    BY <2>1 DEF TypeOK, InboxTypeOK, Deliver
<1>2. QED
  BY <1>1
  DEF TypeOK, ClientTypeOK, PubsubTypeOK, CallTypeOK, ChannelTypeOK, CloseTypeOK, Deliver

\* The steps of Close, of its worker and of its waiting goroutine.
LEMMA CloseTypes ==
    ASSUME TypeOK, NEW k \in Closers,
           CloseBegin(k) \/ CloseStep(k) \/ ReadersTimeout(k)
    PROVE  TypeOK'
<1>1. UNCHANGED <<topics, subs, readers, signals, sent, readerVars>>
  BY DEF CloseBegin, CloseStep, ReadersTimeout, CloseCancel, CancelSubs, WaitReturns,
         ReadersDone, CloseTopics, CloseHost, CloseReturns
<1>2. CloseTypeOK'
  BY DEF TypeOK, CloseTypeOK, Step, CloseBegin, CloseStep, ReadersTimeout, CloseCancel,
         CancelSubs, WaitReturns, ReadersDone, CloseTopics, CloseHost, CloseReturns
<1>3. closed' \in BOOLEAN /\ ctxDone' \in BOOLEAN
  BY DEF TypeOK, ClientTypeOK, CloseBegin, CloseStep, ReadersTimeout, CloseCancel,
         CancelContext, CancelSubs, WaitReturns, ReadersDone, CloseTopics, CloseHost,
         CloseReturns
<1>4. PubsubTypeOK'
  BY DEF TypeOK, ClientTypeOK, PubsubTypeOK, CloseBegin, CloseStep, ReadersTimeout,
         CloseCancel, CancelSubs, WaitReturns, ReadersDone, CloseTopics, CloseHost,
         CloseReturns
<1>5. QED
  BY <1>1, <1>2, <1>3, <1>4
  DEF TypeOK, ClientTypeOK, CallTypeOK, InboxTypeOK, ChannelTypeOK

\* Every step of the program keeps every type.
LEMMA TypeStep ==
    ASSUME TypeOK, WaitGroupCounts, [Next]_vars
    PROVE  TypeOK'
<1>1. CASE UNCHANGED vars
  BY <1>1
  DEF TypeOK, ClientTypeOK, PubsubTypeOK, CallTypeOK, InboxTypeOK, ChannelTypeOK,
      CloseTypeOK
<1>2. CASE ClientNext
  BY <1>2, ReaderTypes, SubscribeTypes, PublishTypes, DeliverTypes, CloseTypes DEF ClientNext
<1>3. CASE TakeToken
  BY <1>3
  DEF TakeToken, TypeOK, ClientTypeOK, PubsubTypeOK, CallTypeOK, InboxTypeOK, ChannelTypeOK,
      CloseTypeOK
<1>4. QED  BY <1>1, <1>2, <1>3 DEF Next, Terminated

-----------------------------------------------------------------------------
(* The WaitGroup.                                                          *)

\* A step of a reader that does not leave keeps it active, and leaves the
\* counter, the closed flag and the other calls alone.
LEMMA ReaderStays ==
    ASSUME TypeOK, NEW s \in Subscribers, ReaderStep(s), ~ReaderDone(s)
    PROVE  Active' = Active /\ UNCHANGED <<readers, closed, ctxDone, closeVars>>
<1>1. UNCHANGED <<readers, closed, ctxDone, closeVars>>
  BY DEF ReaderStep, JoinStep, Lookup, JoinTopic, StoreTopic, SubscribeTopic, RecordSub,
         TriggerDiscovery, NextMessage, Handle, Send, CloseChannel
<1>2. PICK from \in Admitted, to \in Admitted : Goto(s, from, to)
  BY DEF ReaderStep, JoinStep, Lookup, JoinTopic, StoreTopic, SubscribeTopic, RecordSub,
         TriggerDiscovery, NextMessage, Handle, Send, CloseChannel, AfterJoin, JoinFailed,
         AfterSkip, Admitted, Joining, Attached
<1>3. Active' = Active
  BY <1>2 DEF Active, Goto, TypeOK, CallTypeOK, Calls
<1>4. QED  BY <1>1, <1>3

\* Steps of Publish, Deliver and Consume touch no reader.
LEMMA OthersStay ==
    ASSUME TypeOK,
           \/ \E s \in Subscribers : Consume(s)
           \/ \E p \in Publishers :
                 JoinStep(p) \/ PublishMessage(p) \/ \E t \in Topics : Publish(p, t)
           \/ \E t \in Topics, m \in Messages : Deliver(t, m)
    PROVE  /\ \A s \in Subscribers : pc'[s] = pc[s]
           /\ UNCHANGED <<readers, closed, ctxDone, chanClosed, closeVars>>
BY CallsDisjoint
DEF TypeOK, CallTypeOK, Calls, Consume, JoinStep, Lookup, JoinTopic, StoreTopic,
    PublishMessage, Publish, Deliver, Goto

\* The steps of Close touch no reader and never reset the closed flag.
LEMMA CloseStays ==
    ASSUME NEW k \in Closers, CloseBegin(k) \/ CloseStep(k) \/ ReadersTimeout(k)
    PROVE  UNCHANGED <<readers, readerVars>>
BY DEF CloseBegin, CloseStep, ReadersTimeout, CloseCancel, CancelSubs, WaitReturns,
       ReadersDone, CloseTopics, CloseHost, CloseReturns

\* The counter moves with the set of active readers.
LEMMA WaitGroupStep ==
    ASSUME TypeOK, WaitGroupCounts, [Next]_vars
    PROVE  WaitGroupCounts'
<1>1. IsFiniteSet(Active)
  BY ReadersActive
<1>2. ASSUME NEW s \in Subscribers, NEW t \in Topics, Subscribe(s, t)
      PROVE  WaitGroupCounts'
  <2>1. s \notin Active /\ s \in Calls
    BY <1>2 DEF Active, Subscribe, Goto, Admitted, Joining, Attached, Calls
  <2>2. CASE Goto(s, "idle", "refused") /\ UNCHANGED readers
    <3>1. Active' = Active
      BY <2>1, <2>2 DEF Active, Goto, TypeOK, CallTypeOK, Calls, Admitted, Joining, Attached
    <3>2. QED  BY <2>2, <3>1 DEF WaitGroupCounts
  <2>3. CASE Goto(s, "idle", "lookup") /\ readers' = readers + 1
    <3>1. Active' = Active \cup {s}
      BY <2>1, <2>3 DEF Active, Goto, TypeOK, CallTypeOK, Calls, Admitted, Joining
    <3>2. Cardinality(Active') = Cardinality(Active) + 1
      BY <1>1, <2>1, <3>1, FS_AddElement
    <3>3. QED  BY <2>3, <3>2 DEF WaitGroupCounts
  <2>4. QED  BY <1>2, <2>2, <2>3 DEF Subscribe
<1>3. ASSUME NEW s \in Subscribers, ReaderDone(s)
      PROVE  WaitGroupCounts'
  <2>1. s \in Active
    BY <1>3 DEF Active, ReaderDone, Goto, Admitted
  <2>2. Active' = Active \ {s}
    BY <1>3
    DEF Active, ReaderDone, Goto, TypeOK, CallTypeOK, Calls, Admitted, Joining, Attached
  <2>3. Cardinality(Active') = Cardinality(Active) - 1
    BY <1>1, <2>1, <2>2, FS_RemoveElement
  <2>4. QED  BY <1>3, <2>3 DEF WaitGroupCounts, ReaderDone, Done
<1>4. ASSUME NEW s \in Subscribers, ReaderStep(s), ~ReaderDone(s)
      PROVE  WaitGroupCounts'
  BY <1>4, ReaderStays DEF WaitGroupCounts
<1>5. CASE (\A s \in Subscribers : pc'[s] = pc[s]) /\ UNCHANGED readers
  BY <1>5 DEF WaitGroupCounts, Active
<1>6. QED
  BY <1>2, <1>3, <1>4, <1>5, OthersStay, CloseStays DEF Next, ClientNext, TakeToken, Terminated

-----------------------------------------------------------------------------
(* Channels and the order of the teardown.                                 *)

\* A channel is closed by its own reader's deferred close, or by the
\* Subscribe that was refused, and by nothing else.
LEMMA ChannelStep ==
    ASSUME TypeOK, ChannelsFollowReaders, [Next]_vars
    PROVE  ChannelsFollowReaders'
<1>1. ASSUME NEW s \in Subscribers, NEW t \in Topics, Subscribe(s, t)
      PROVE  ChannelsFollowReaders'
  BY <1>1 DEF ChannelsFollowReaders, Subscribe, Goto, TypeOK, CallTypeOK, Calls
<1>2. ASSUME NEW s \in Subscribers, CloseChannel(s) \/ ReaderDone(s)
      PROVE  ChannelsFollowReaders'
  BY <1>2
  DEF ChannelsFollowReaders, CloseChannel, ReaderDone, Goto, TypeOK, CallTypeOK, Calls
<1>3. ASSUME NEW s \in Subscribers, ReaderStep(s), ~CloseChannel(s), ~ReaderDone(s)
      PROVE  ChannelsFollowReaders'
  <2>1. PICK from \in Admitted \ {"leaving"}, to \in Admitted \ {"leaving"} : Goto(s, from, to)
    BY <1>3
    DEF ReaderStep, JoinStep, Lookup, JoinTopic, StoreTopic, SubscribeTopic, RecordSub,
        TriggerDiscovery, NextMessage, Handle, Send, AfterJoin, JoinFailed, AfterSkip,
        Admitted, Joining, Attached
  <2>2. chanClosed' = chanClosed
    BY <1>3
    DEF ReaderStep, JoinStep, Lookup, JoinTopic, StoreTopic, SubscribeTopic, RecordSub,
        TriggerDiscovery, NextMessage, Handle, Send
  <2>3. {"refused", "leaving", "exited"} \cap (Admitted \ {"leaving"}) = {}
    BY DEF Admitted, Joining, Attached
  <2>4. QED
    BY <2>1, <2>2, <2>3 DEF ChannelsFollowReaders, Goto, TypeOK, CallTypeOK, Calls
<1>4. CASE (\A s \in Subscribers : pc'[s] = pc[s]) /\ UNCHANGED chanClosed
  BY <1>4 DEF ChannelsFollowReaders
<1>5. QED
  BY <1>1, <1>2, <1>3, <1>4, OthersStay, CloseStays DEF Next, ClientNext, TakeToken, Terminated

\* Once the client is closed, no step adds a reader; with no reader left the
\* counter stays at zero.
LEMMA ClosedAddsNoReader ==
    ASSUME TypeOK, WaitGroupCounts, closed, [Next]_vars
    PROVE  closed' /\ readers' <= readers /\ (readers = 0 => readers' = 0)
<1> readers \in Nat
  BY DEF TypeOK, ClientTypeOK
<1>1. ASSUME NEW s \in Subscribers, NEW t \in Topics, Subscribe(s, t)
      PROVE  UNCHANGED <<closed, readers>>
  BY <1>1 DEF Subscribe, Admits
<1>2. ASSUME NEW s \in Subscribers, ReaderDone(s)
      PROVE  closed' /\ readers' = readers - 1 /\ readers # 0
  <2>1. s \in Active
    BY <1>2 DEF Active, ReaderDone, Goto, Admitted
  <2>2. QED  BY <1>2, <2>1, ReadersActive DEF ReaderDone, Done
<1>3. ASSUME NEW s \in Subscribers, ReaderStep(s), ~ReaderDone(s)
      PROVE  UNCHANGED <<closed, readers>>
  BY <1>3, ReaderStays
<1>4. ASSUME NEW k \in Closers, CloseBegin(k) \/ CloseStep(k) \/ ReadersTimeout(k)
      PROVE  closed' /\ readers' = readers
  BY <1>4, CloseStays
  DEF CloseBegin, CloseStep, ReadersTimeout, CloseCancel, CancelSubs, WaitReturns,
      ReadersDone, CloseTopics, CloseHost, CloseReturns
<1>5. CASE UNCHANGED <<closed, readers>>
  BY <1>5
<1>6. QED
  <2>1. ASSUME NEW s \in Subscribers, ReaderStep(s) PROVE closed' /\ readers' <= readers
                                                     /\ (readers = 0 => readers' = 0)
    <3>1. CASE ReaderDone(s)
      <4>1. closed' /\ readers' = readers - 1 /\ readers # 0
        BY <1>2, <3>1
      <4>2. QED  BY <4>1
    <3>2. CASE ~ReaderDone(s)
      <4>1. UNCHANGED <<closed, readers>>
        BY <1>3, <2>1, <3>2
      <4>2. QED  BY <4>1
    <3>3. QED  BY <3>1, <3>2
  <2>2. CASE \/ \E s \in Subscribers : Consume(s)
             \/ \E p \in Publishers :
                   JoinStep(p) \/ PublishMessage(p) \/ \E t \in Topics : Publish(p, t)
             \/ \E t \in Topics, m \in Messages : Deliver(t, m)
    BY <1>5, <2>2, OthersStay
  <2>3. QED
    BY <1>1, <1>4, <1>5, <2>1, <2>2 DEF Next, ClientNext, TakeToken, Terminated

\* A Close sets the flag before it cancels the context, cancels before it
\* waits, and passes the wait only with no reader left or by its timeout.
LEMMA CloseOrderStep ==
    ASSUME TypeOK, WaitGroupCounts, CloseOrder, [Next]_vars
    PROVE  CloseOrder'
<1>1. ASSUME NEW k \in Closers, CloseBegin(k) \/ CloseStep(k) \/ ReadersTimeout(k)
      PROVE  CloseOrder'
  <2>1. readers' = readers
    BY <1>1, CloseStays
  <2>2. CASE CloseBegin(k)
    BY <2>1, <2>2 DEF CloseOrder, CloseBegin, Step, TypeOK, CloseTypeOK
  <2>3. CASE CloseCancel(k)
    BY <2>1, <2>3 DEF CloseOrder, CloseCancel, CancelContext, Step, TypeOK, CloseTypeOK
  <2>4. CASE CancelSubs(k)
    BY <2>1, <2>4 DEF CloseOrder, CancelSubs, Step, TypeOK, CloseTypeOK
  <2>5. CASE WaitReturns(k)
    BY <2>1, <2>5 DEF CloseOrder, WaitReturns, Step, TypeOK, CloseTypeOK
  <2>6. CASE ReadersDone(k)
    BY <2>1, <2>6 DEF CloseOrder, ReadersDone, Step, TypeOK, CloseTypeOK
  <2>7. CASE ReadersTimeout(k)
    BY <2>1, <2>7 DEF CloseOrder, ReadersTimeout, Step, TypeOK, CloseTypeOK
  <2>8. CASE CloseTopics(k)
    BY <2>1, <2>8 DEF CloseOrder, CloseTopics, Step, TypeOK, CloseTypeOK
  <2>9. CASE CloseHost(k)
    BY <2>1, <2>9 DEF CloseOrder, CloseHost, Step, TypeOK, CloseTypeOK
  <2>10. CASE CloseReturns(k)
    BY <2>1, <2>10 DEF CloseOrder, CloseReturns, Step, TypeOK, CloseTypeOK
  <2>11. QED
    BY <1>1, <2>2, <2>3, <2>4, <2>5, <2>6, <2>7, <2>8, <2>9, <2>10 DEF CloseStep
<1>2. CASE UNCHANGED <<ctxDone, closeVars>> /\ (closed => closed')
  <2>1. closed /\ readers = 0 => readers' = 0
    BY ClosedAddsNoReader
  <2>2. QED  BY <1>2, <2>1 DEF CloseOrder
<1>3. ASSUME NEW s \in Subscribers,
             ReaderStep(s) \/ \E t \in Topics : Subscribe(s, t)
      PROVE  UNCHANGED <<closed, ctxDone, closeVars>>
  <2>1. ASSUME ReaderDone(s) PROVE UNCHANGED <<closed, ctxDone, closeVars>>
    BY <2>1 DEF ReaderDone
  <2>2. QED  BY <1>3, <2>1, ReaderStays DEF Subscribe
<1>4. QED
  BY <1>1, <1>2, <1>3, OthersStay DEF Next, ClientNext, TakeToken, Terminated

-----------------------------------------------------------------------------
(* The inductive invariant and what follows from it.                       *)

\* A client that NewClient has just returned satisfies the invariant.
LEMMA InitIInv == Init => IInv
<1> SUFFICES ASSUME Init PROVE IInv
  OBVIOUS
<1>1. TypeOK
  <2>1. "idle" \in ReaderPC /\ "idle" \in PublishPC
    BY DEF ReaderPC, PublishPC
  <2>2. CallTypeOK
    BY <2>1 DEF Init, CallTypeOK, Calls
  <2>3. InboxTypeOK /\ ChannelTypeOK
    BY DEF Init, InboxTypeOK, ChannelTypeOK, Calls
  <2>4. ClientTypeOK /\ PubsubTypeOK
    BY DEF Init, ClientTypeOK, PubsubTypeOK
  <2>5. CloseTypeOK
    BY DEF Init, CloseTypeOK
  <2>6. QED  BY <2>2, <2>3, <2>4, <2>5 DEF TypeOK
<1>2. Active = {}
  BY DEF Init, Active, Admitted, Joining, Attached, Calls
<1>3. WaitGroupCounts
  BY <1>2, FS_EmptySet DEF Init, WaitGroupCounts
<1>4. ChannelsFollowReaders /\ CloseOrder
  BY DEF Init, ChannelsFollowReaders, CloseOrder, Calls
<1>5. QED  BY <1>1, <1>3, <1>4 DEF IInv

\* The invariant of Subscribe, its readers, Publish and Close: types, the
\* WaitGroup's count, who closes a channel, and the order of a teardown.
THEOREM Invariance == Spec => []IInv
<1>1. IInv /\ [Next]_vars => IInv'
  BY TypeStep, WaitGroupStep, ChannelStep, CloseOrderStep DEF IInv
<1>2. QED  BY InitIInv, <1>1, PTL DEF Spec

\* Type correctness, the WaitGroup's counter (never negative) included.
THEOREM TypeCorrect == Spec => []TypeOK
<1>1. IInv => TypeOK
  BY DEF IInv
<1>2. QED  BY <1>1, Invariance, PTL

\* client.readers counts the reader goroutines that have not called Done.
THEOREM WaitGroupCorrect == Spec => []WaitGroupCounts
<1>1. IInv => WaitGroupCounts
  BY DEF IInv
<1>2. QED  BY <1>1, Invariance, PTL

\* No reader sends on, or closes, a channel that is closed: the panic that
\* the comment on Subscribe calls impossible.
THEOREM NoPanic == Spec => []NoChannelPanic
<1>1. IInv => NoChannelPanic
  BY DEF IInv, ChannelsFollowReaders, NoChannelPanic, Admitted, Joining, Attached
<1>2. QED  BY <1>1, Invariance, PTL

\* A Close whose wait did not time out closes topics, services and host only
\* when every reader has left, for any number of concurrent Closes.
THEOREM CleanTeardown == Spec => []TeardownAfterReaders
<1>1. ASSUME IInv PROVE TeardownAfterReaders
  <2>1. ASSUME NEW k \in Closers, k \notin timedOut,
               worker[k] \in {"closeTopics", "closeHost", "done"}
        PROVE  closed /\ Active = {}
    <3>1. waiter[k] = "done" /\ readers = 0 /\ closed
      BY <1>1, <2>1 DEF IInv, CloseOrder
    <3>2. QED  BY <1>1, <3>1, ReadersActive DEF IInv
  <2>2. QED  BY <2>1 DEF TeardownAfterReaders
<1>2. QED  BY <1>1, Invariance, PTL

\* No Subscribe adds to the WaitGroup while a Close is waiting on it.
THEOREM WaitGroupNotReused == Spec => NoAddWhileWaiting
<1>1. ASSUME IInv, [Next]_vars,  \E k \in Closers : waiter[k] = "waiting"
      PROVE  readers' <= readers
  <2>1. closed
    BY <1>1 DEF IInv, CloseOrder
  <2>2. QED  BY <1>1, <2>1, ClosedAddsNoReader DEF IInv
<1>2. IInv /\ [Next]_vars
        => [(\E k \in Closers : waiter[k] = "waiting") => readers' <= readers]_vars
  BY <1>1
<1>3. QED  BY <1>2, Invariance, PTL DEF Spec, NoAddWhileWaiting

-----------------------------------------------------------------------------
(* Channels stay open until the shutdown.                                  *)

Looping == {"next", "handle", "send"}

\* Nothing of s has reached its consumer, nor does it watch for peers.
Quiet(s) == s \notin watchers /\ taken[s] = <<>> /\ msgChan[s] = <<>>

\* Before the context is cancelled no Close is past its first step, hence no
\* subscription is cancelled, and a reader outside its loop has not entered it.
QuietUntilShutdown ==
    ~ctxDone => /\ cancelled = {}
                /\ \A k \in Closers : worker[k] = "none"
                /\ \A s \in Subscribers : pc[s] \notin Looping => Quiet(s)

LEMMA InitQuiet == Init => QuietUntilShutdown
  BY DEF Init, QuietUntilShutdown, Quiet

\* A reader in its loop stays there while the context lives.
LEMMA ReaderQuiet ==
    ASSUME TypeOK, QuietUntilShutdown, NEW s \in Subscribers, ReaderStep(s)
    PROVE  QuietUntilShutdown'
<1> SUFFICES ASSUME ~ctxDone
             PROVE  QuietUntilShutdown'
  BY ReaderStays DEF ReaderDone, QuietUntilShutdown
<1> s \in Calls
  BY DEF Calls
<1>1. /\ UNCHANGED <<ctxDone, cancelled, worker, taken>>
      /\ \A q \in Subscribers \ {s} : pc'[q] = pc[q] /\ msgChan'[q] = msgChan[q]
      /\ watchers' \subseteq watchers \cup {s}
  <2>1. UNCHANGED <<ctxDone, cancelled, worker, taken>> /\ watchers' \subseteq watchers \cup {s}
    BY DEF ReaderStep, JoinStep, Lookup,
           JoinTopic, StoreTopic, SubscribeTopic, RecordSub, TriggerDiscovery, NextMessage,
           Handle, Send, CloseChannel, ReaderDone
  <2>2. \A q \in Subscribers \ {s} : pc'[q] = pc[q]
    BY DEF TypeOK, CallTypeOK, Calls, Goto, ReaderStep, JoinStep, Lookup,
           JoinTopic, StoreTopic, SubscribeTopic, RecordSub, TriggerDiscovery, NextMessage,
           Handle, Send, CloseChannel, ReaderDone
  <2>3. \A q \in Subscribers \ {s} : msgChan'[q] = msgChan[q]
    BY DEF TypeOK, ChannelTypeOK, ReaderStep, JoinStep, Lookup,
           JoinTopic, StoreTopic, SubscribeTopic, RecordSub, TriggerDiscovery, NextMessage,
           Handle, Send, CloseChannel, ReaderDone
  <2>4. QED
    BY <2>1, <2>2, <2>3
<1>2. pc'[s] \notin Looping => Quiet(s)'
  <2>1. CASE NextMessage(s) \/ Handle(s) \/ Send(s)
    BY <2>1 DEF QuietUntilShutdown, NextMessage, MayLeave, Handle, AfterSkip, Send, Goto,
                TypeOK, CallTypeOK, Looping
  <2>2. CASE TriggerDiscovery(s)
    BY <2>2 DEF TriggerDiscovery, Goto, TypeOK, CallTypeOK, Looping
  <2>3. CASE \/ JoinStep(s) \/ SubscribeTopic(s) \/ RecordSub(s)
             \/ CloseChannel(s) \/ ReaderDone(s)
    <3>1. pc[s] \notin Looping /\ UNCHANGED <<watchers, taken, msgChan>>
      BY <2>3 DEF JoinStep, Lookup, JoinTopic, StoreTopic, SubscribeTopic, RecordSub,
                  CloseChannel, ReaderDone, Goto, Looping
    <3>2. QED
      BY <3>1 DEF QuietUntilShutdown, Quiet
  <2>4. QED
    BY <2>1, <2>2, <2>3 DEF ReaderStep
<1>3. QED
  BY <1>1, <1>2 DEF QuietUntilShutdown, Quiet

LEMMA QuietStep ==
    ASSUME TypeOK, QuietUntilShutdown, [Next]_vars
    PROVE  QuietUntilShutdown'
<1>1. ASSUME NEW s \in Subscribers, NEW t \in Topics, Subscribe(s, t)
      PROVE  QuietUntilShutdown'
  BY <1>1 DEF QuietUntilShutdown, Quiet, Looping, Subscribe, Goto, TypeOK, CallTypeOK, Calls
<1>2. ASSUME NEW s \in Subscribers, Consume(s)
      PROVE  QuietUntilShutdown'
  BY <1>2 DEF QuietUntilShutdown, Quiet, Consume, TypeOK, ChannelTypeOK
<1>3. ASSUME NEW p \in Publishers,
             JoinStep(p) \/ PublishMessage(p) \/ \E t \in Topics : Publish(p, t)
      PROVE  QuietUntilShutdown'
  <2>1. /\ \A s \in Subscribers : pc'[s] = pc[s]
        /\ UNCHANGED <<ctxDone, cancelled, watchers, channel, closeVars>>
    BY <1>3, OthersStay
    DEF JoinStep, Lookup, JoinTopic, StoreTopic, PublishMessage, Publish
  <2>2. QED
    BY <2>1 DEF QuietUntilShutdown, Quiet
<1>4. ASSUME NEW t \in Topics, NEW m \in Messages, Deliver(t, m)
      PROVE  QuietUntilShutdown'
  BY <1>4 DEF QuietUntilShutdown, Quiet, Deliver
<1>5. ASSUME NEW k \in Closers, CloseBegin(k) \/ CloseStep(k) \/ ReadersTimeout(k)
      PROVE  QuietUntilShutdown'
  BY <1>5
  DEF QuietUntilShutdown, Quiet, TypeOK, CloseTypeOK, Step, CloseBegin, CloseStep,
      ReadersTimeout, CloseCancel, CancelContext, CancelSubs, WaitReturns, ReadersDone,
      CloseTopics, CloseHost, CloseReturns
<1>6. CASE TakeToken \/ UNCHANGED vars
  BY <1>6 DEF TakeToken, QuietUntilShutdown, Quiet
<1>7. QED
  BY <1>1, <1>2, <1>3, <1>4, <1>5, <1>6, ReaderQuiet DEF Next, ClientNext, Terminated

\* Until the shutdown only a reader that never got its subscription closes a
\* channel: it has watched no peers and forwarded no message.
THEOREM OpenCorrect == Spec => []OpenUntilShutdown
<1>1. IInv /\ QuietUntilShutdown => OpenUntilShutdown
  BY DEF QuietUntilShutdown, Quiet, OpenUntilShutdown, Looping
<1>2. IInv /\ QuietUntilShutdown /\ [Next]_vars => QuietUntilShutdown'
  BY QuietStep DEF IInv
<1>3. QED  BY <1>1, <1>2, InitQuiet, Invariance, PTL DEF Spec

-----------------------------------------------------------------------------
(* client.topics and pubsub's topics.                                      *)

Storing(t) == {p \in Calls : pc[p] = "store" /\ topicOf[p] = t}

\* TopicsMatchPubsub with its one goroutine named.
OneJoiner ==
    /\ topics \subseteq joined \cup dead
    /\ \A t \in joined \ (topics \cup dead) : \E p \in Calls : Storing(t) = {p}
    /\ \A p \in Calls : pc[p] = "store" => topicOf[p] \in dead \cup (joined \ topics)

LEMMA JoinKeepsOneJoiner ==
    ASSUME TypeOK, OneJoiner, NEW p \in Calls, JoinStep(p)
    PROVE  OneJoiner'
<1>1. CASE Lookup(p)
  <2>1. \A t \in Topics : Storing(t)' = Storing(t)
    BY <1>1 DEF Lookup, AfterJoin, Goto, Storing, TypeOK, CallTypeOK
  <2>2. QED
    BY <1>1, <2>1
    DEF Lookup, AfterJoin, Goto, OneJoiner, TypeOK, CallTypeOK, PubsubTypeOK
<1>2. CASE JoinTopic(p)
  <2> DEFINE t == topicOf[p]
  <2>1. t \in Topics /\ UNCHANGED <<topics, dead, topicOf>>
    BY <1>2 DEF JoinTopic, Goto, TypeOK, CallTypeOK
  <2>2. CASE Goto(p, "join", JoinFailed(p)) /\ UNCHANGED joined
    <3>1. \A u \in Topics : Storing(u)' = Storing(u)
      BY <2>1, <2>2 DEF JoinFailed, Goto, Storing, TypeOK, CallTypeOK
    <3>2. QED
      BY <2>1, <2>2, <3>1
      DEF JoinFailed, Goto, OneJoiner, TypeOK, CallTypeOK, PubsubTypeOK
  <2>3. CASE t \notin joined /\ Goto(p, "join", "store") /\ joined' = joined \cup {t}
    <3>1. \A u \in Topics : Storing(u)' = IF u = t THEN Storing(u) \cup {p} ELSE Storing(u)
      BY <2>1, <2>3 DEF Goto, Storing, TypeOK, CallTypeOK
    <3>2. t \notin dead => t \notin topics /\ Storing(t) = {}
      BY <2>3 DEF OneJoiner, Storing
    <3>3. \A u \in joined' \ (topics' \cup dead') : \E q \in Calls : Storing(u)' = {q}
      BY <2>1, <2>3, <3>1, <3>2 DEF OneJoiner, TypeOK, PubsubTypeOK
    <3>4. \A q \in Calls : pc'[q] = "store" => topicOf'[q] \in dead' \cup (joined' \ topics')
      BY <2>1, <2>3, <3>2 DEF OneJoiner, Goto, TypeOK, CallTypeOK
    <3>5. QED
      BY <2>1, <2>3, <3>3, <3>4 DEF OneJoiner
  <2>4. QED
    BY <1>2, <2>2, <2>3 DEF JoinTopic
<1>3. CASE StoreTopic(p)
  <2> DEFINE t == topicOf[p]
  <2>1. /\ t \in Topics /\ UNCHANGED <<joined, dead, topicOf>> /\ topics' = topics \cup {t}
        /\ pc[p] = "store" /\ t \in dead \cup (joined \ topics)
    BY <1>3 DEF StoreTopic, Goto, TypeOK, CallTypeOK, OneJoiner
  <2>2. \A u \in Topics \ {t} : Storing(u)' = Storing(u)
    BY <1>3, <2>1 DEF StoreTopic, AfterJoin, Goto, Storing, TypeOK, CallTypeOK
  <2>3. t \notin dead => Storing(t) = {p}
    BY <2>1 DEF OneJoiner, Storing
  <2>4. \A q \in Calls \ {p} : pc[q] = "store" /\ topicOf[q] = t => t \in dead
    BY <2>3 DEF Storing
  <2>5. \A q \in Calls : pc'[q] = "store" => q # p /\ pc[q] = "store"
    BY <1>3 DEF StoreTopic, AfterJoin, Goto, TypeOK, CallTypeOK
  <2>6. \A q \in Calls : pc'[q] = "store" => topicOf'[q] \in dead' \cup (joined' \ topics')
    BY <2>1, <2>4, <2>5 DEF OneJoiner
  <2>7. QED
    BY <2>1, <2>2, <2>6 DEF OneJoiner, TypeOK, PubsubTypeOK
<1>4. QED
  BY <1>1, <1>2, <1>3 DEF JoinStep

LEMMA OneJoinerStep ==
    ASSUME TypeOK, OneJoiner, [Next]_vars
    PROVE  OneJoiner'
<1> DEFINE Kept == /\ UNCHANGED <<topics, joined, dead>>
                   /\ \A q \in Calls : pc'[q] = "store" <=> pc[q] = "store"
                   /\ \A q \in Calls : pc[q] = "store" => topicOf'[q] = topicOf[q]
<1>1. CASE Kept
  <2>1. \A t : Storing(t)' = Storing(t)
    BY <1>1 DEF Storing
  <2>2. QED
    BY <1>1, <2>1 DEF OneJoiner
<1>2. ASSUME NEW p \in Calls, NEW t \in Topics, Subscribe(p, t) \/ Publish(p, t)
      PROVE  Kept
  BY <1>2 DEF Subscribe, Publish, Goto, TypeOK, CallTypeOK
<1>3. ASSUME NEW s \in Subscribers, ReaderStep(s), ~JoinStep(s)
      PROVE  Kept
  BY <1>3
  DEF ReaderStep, SubscribeTopic, RecordSub, TriggerDiscovery, NextMessage, Handle, AfterSkip,
      Send, CloseChannel, ReaderDone, Goto, TypeOK, CallTypeOK
<1>4. ASSUME NEW p \in Publishers, PublishMessage(p)
      PROVE  Kept
  BY <1>4 DEF PublishMessage, Goto, TypeOK, CallTypeOK
<1>5. ASSUME \/ \E s \in Subscribers : Consume(s)
             \/ \E t \in Topics, m \in Messages : Deliver(t, m)
             \/ UNCHANGED vars
      PROVE  Kept
  BY <1>5 DEF Consume, Deliver
<1>6. ASSUME NEW k \in Closers, CloseTopics(k)
      PROVE  OneJoiner'
  <2>1. UNCHANGED <<pc, topicOf, topics>>
    BY <1>6 DEF CloseTopics
  <2>2. PICK T \in SUBSET topics : dead' = dead \cup T /\ joined' = joined \ T
    BY <1>6 DEF CloseTopics
  <2>3. \A t : Storing(t)' = Storing(t)
    BY <2>1 DEF Storing
  <2>4. QED
    BY <2>1, <2>2, <2>3 DEF OneJoiner
<1>7. ASSUME NEW k \in Closers, CloseBegin(k) \/ CloseStep(k) \/ ReadersTimeout(k),
             ~CloseTopics(k)
      PROVE  Kept
  BY <1>7
  DEF CloseBegin, CloseStep, ReadersTimeout, CloseCancel, CancelSubs, WaitReturns, ReadersDone,
      CloseHost, CloseReturns
<1>8. QED
  BY <1>1, <1>2, <1>3, <1>4, <1>5, <1>6, <1>7, JoinKeepsOneJoiner
  DEF Next, ClientNext, TakeToken, Terminated, Calls

\* client.topics never names a handle that pubsub did not give out, and a
\* topic joined but not yet stored belongs to the one goroutine that stores it.
THEOREM TopicsCorrect == Spec => []TopicsMatchPubsub
<1>1. OneJoiner => TopicsMatchPubsub
  <2>1. ASSUME OneJoiner, NEW t \in joined \ (topics \cup dead)
        PROVE  Cardinality({p \in Calls : pc[p] = "store" /\ topicOf[p] = t}) = 1
    <3>1. PICK p \in Calls : Storing(t) = {p}
      BY <2>1 DEF OneJoiner
    <3>2. QED
      BY <3>1, FS_Singleton DEF Storing
  <2>2. QED
    BY <2>1 DEF OneJoiner, TopicsMatchPubsub
<1>2. Init => OneJoiner
  BY DEF Init, OneJoiner
<1>3. IInv /\ OneJoiner /\ [Next]_vars => OneJoiner'
  BY OneJoinerStep DEF IInv
<1>4. QED  BY <1>1, <1>2, <1>3, Invariance, PTL DEF Spec

-----------------------------------------------------------------------------
(* The refinement of MessageStream.                                        *)

\* Facts about sequences that the reader's steps come down to: taking one out
\* of the middle, moving one from the third part to the second, and from the
\* second to the first.
DropsMiddle(a, m, b) ==
    LET q == (a \o <<m>>) \o b
        i == Len(a) + 1
    IN  /\ i \in DOMAIN q /\ q[i] = m
        /\ SubSeq(q, 1, i - 1) \o SubSeq(q, i + 1, Len(q)) = (a \o <<>>) \o b

LEMMA DropMiddle ==
    ASSUME NEW M, NEW a \in Seq(M), NEW m \in M, NEW b \in Seq(M)
    PROVE  DropsMiddle(a, m, b)
<1> DEFINE q == (a \o <<m>>) \o b
<1> DEFINE i == Len(a) + 1
<1>1. /\ q \in Seq(M) /\ Len(q) = Len(a) + 1 + Len(b) /\ Len(a) \in Nat /\ Len(b) \in Nat
      /\ \A j \in 1..Len(q) : q[j] = IF j <= Len(a) THEN a[j]
                                      ELSE IF j = Len(a) + 1 THEN m ELSE b[j - (Len(a) + 1)]
  OBVIOUS
<1> HIDE DEF q
<1>2. SubSeq(q, 1, i - 1) = a
  BY <1>1
<1>3. SubSeq(q, i + 1, Len(q)) = b
  BY <1>1
<1>4. a \o <<>> = a
  OBVIOUS
<1>5. i \in 1..Len(q) /\ q[i] = m
  BY <1>1
<1>6. DOMAIN q = 1..Len(q)
  BY <1>1
<1>7. QED
  BY <1>2, <1>3, <1>4, <1>5, <1>6 DEF q, DropsMiddle

LEMMA TakeInHand ==
    ASSUME NEW M, NEW a \in Seq(M), NEW b \in Seq(M), b # <<>>
    PROVE  (a \o <<>>) \o b = (a \o <<Head(b)>>) \o Tail(b)
  OBVIOUS

LEMMA PutInChannel ==
    ASSUME NEW M, NEW a \in Seq(M), NEW m \in M, NEW b \in Seq(M)
    PROVE  (a \o <<m>>) \o b = (Append(a, m) \o <<>>) \o b
  OBVIOUS

LEMMA TakeFirst ==
    ASSUME NEW M, NEW a \in Seq(M), NEW b \in Seq(M), a # <<>>
    PROVE  a \o b # <<>> /\ Head(a \o b) = Head(a) /\ Tail(a \o b) = Tail(a) \o b
  OBVIOUS

LEMMA AcceptLast ==
    ASSUME NEW M, NEW a \in Seq(M), NEW b \in Seq(M), NEW m \in M
    PROVE  a \o Append(b, m) = Append(a \o b, m)
  OBVIOUS

LEMMA KeepFirst ==
    ASSUME NEW M, NEW a \in Seq(M), NEW h \in Seq(M), NEW b \in Seq(M)
    PROVE  /\ Len(a) \in 0..Len((a \o h) \o b)
           /\ SubSeq((a \o h) \o b, 1, Len(a)) = a
<1>1. (a \o h) \o b \in Seq(M) /\ Len((a \o h) \o b) = Len(a) + Len(h) + Len(b)
  OBVIOUS
<1>2. \A i \in 1..Len(a) : ((a \o h) \o b)[i] = a[i]
  OBVIOUS
<1>3. QED
  BY <1>1, <1>2

\* A message to skip gets no further than the reader's hands, and pubsub has
\* buffered nothing for a reader that has not subscribed.
Detached == {"idle", "lookup", "join", "store", "subscribe"}

Sifted ==
    \A s \in Subscribers :
        /\ msgChan[s] \in Seq(Messages \ Skipped)
        /\ pc[s] = "send" => cur[s] \notin Skipped
        /\ pc[s] \in Detached => buf[s] = <<>>

\* What a step of one subscription leaves alone.
LocalTo(s) ==
    \A q \in Subscribers \ {s} :
        /\ pc'[q] = pc[q] /\ cur'[q] = cur[q] /\ buf'[q] = buf[q]
        /\ msgChan'[q] = msgChan[q] /\ taken'[q] = taken[q]
        /\ q \in chanClosed' <=> q \in chanClosed

LEMMA SubscriptionLocal ==
    ASSUME TypeOK, NEW s \in Subscribers,
           ReaderStep(s) \/ Consume(s) \/ \E t \in Topics : Subscribe(s, t)
    PROVE  LocalTo(s)
<1> s \in Calls
  BY DEF Calls
<1>1. \A q \in Subscribers \ {s} : pc'[q] = pc[q]
  BY DEF TypeOK, CallTypeOK, Calls, Goto, ReaderStep, JoinStep, Lookup, JoinTopic, StoreTopic,
         SubscribeTopic, RecordSub, TriggerDiscovery, NextMessage, Handle, Send, CloseChannel,
         ReaderDone, Subscribe, Consume
<1>2. \A q \in Subscribers \ {s} : cur'[q] = cur[q] /\ buf'[q] = buf[q]
  BY DEF TypeOK, InboxTypeOK, ReaderStep, JoinStep, Lookup, JoinTopic, StoreTopic,
         SubscribeTopic, RecordSub, TriggerDiscovery, NextMessage, Handle, Send, CloseChannel,
         ReaderDone, Subscribe, Consume
<1>3. \A q \in Subscribers \ {s} : msgChan'[q] = msgChan[q] /\ taken'[q] = taken[q]
  BY DEF TypeOK, ChannelTypeOK, ReaderStep, JoinStep, Lookup, JoinTopic, StoreTopic,
         SubscribeTopic, RecordSub, TriggerDiscovery, NextMessage, Handle, Send, CloseChannel,
         ReaderDone, Subscribe, Consume
<1>4. chanClosed' \in {chanClosed, chanClosed \cup {s}}
  BY DEF ReaderStep, JoinStep, Lookup, JoinTopic, StoreTopic, SubscribeTopic, RecordSub,
         TriggerDiscovery, NextMessage, Handle, Send, CloseChannel, ReaderDone, Subscribe,
         Consume
<1>5. QED
  BY <1>1, <1>2, <1>3, <1>4 DEF LocalTo

LEMMA SiftedStep ==
    ASSUME TypeOK, TypeOK', Sifted, [Next]_vars
    PROVE  Sifted'
<1> DEFINE Own(s) == /\ msgChan[s] \in Seq(Messages \ Skipped)
                     /\ pc[s] = "send" => cur[s] \notin Skipped
                     /\ pc[s] \in Detached => buf[s] = <<>>
<1>1. ASSUME NEW s \in Subscribers, LocalTo(s), Own(s)'
      PROVE  Sifted'
  BY <1>1 DEF LocalTo, Sifted
<1>2. ASSUME NEW s \in Subscribers, NEW t \in Topics, Subscribe(s, t)
      PROVE  Own(s)'
  BY <1>2 DEF Subscribe, Goto, Sifted, Detached, Calls, TypeOK, CallTypeOK
<1>3. ASSUME NEW s \in Subscribers, Consume(s)
      PROVE  Own(s)'
  BY <1>3 DEF Consume, Sifted, TypeOK, ChannelTypeOK
<1>4. ASSUME NEW s \in Subscribers, ReaderStep(s)
      PROVE  Own(s)'
  <2> s \in Calls
    BY DEF Calls
  <2>1. CASE JoinStep(s) \/ SubscribeTopic(s)
    BY <2>1 DEF JoinStep, Lookup, JoinTopic, StoreTopic, AfterJoin, JoinFailed, SubscribeTopic,
                Goto, Sifted, Detached, TypeOK, CallTypeOK
  <2>2. CASE RecordSub(s) \/ TriggerDiscovery(s) \/ NextMessage(s)
    BY <2>2 DEF RecordSub, TriggerDiscovery, NextMessage, Goto, Sifted, Detached, TypeOK,
                CallTypeOK
  <2>3. CASE Handle(s) \/ CloseChannel(s) \/ ReaderDone(s)
    BY <2>3 DEF Handle, AfterSkip, CloseChannel, ReaderDone, Goto, Sifted, Detached, TypeOK,
                CallTypeOK
  <2>4. CASE Send(s)
    <3>1. cur[s] \in Messages \ Skipped
      BY <2>4 DEF Send, Goto, Sifted, TypeOK, InboxTypeOK
    <3>2. msgChan'[s] = msgChan[s] \/ msgChan'[s] = Append(msgChan[s], cur[s])
      BY <2>4 DEF Send, TypeOK, ChannelTypeOK
    <3>3. msgChan'[s] \in Seq(Messages \ Skipped)
      BY <3>1, <3>2 DEF Sifted
    <3>4. pc'[s] \in {"next", "closing"}
      BY <2>4 DEF Send, Goto, TypeOK, CallTypeOK
    <3>5. QED
      BY <3>3, <3>4 DEF Detached
  <2>5. QED
    BY <1>4, <2>1, <2>2, <2>3, <2>4 DEF ReaderStep
<1>5. ASSUME NEW t \in Topics, NEW m \in Messages, Deliver(t, m)
      PROVE  Sifted'
  <2>1. Detached \cap Attached = {}
    BY DEF Detached, Attached
  <2>2. QED
    BY <1>5, <2>1 DEF Deliver, Sifted
<1>6. ASSUME \/ TakeToken \/ UNCHANGED vars
             \/ \E p \in Publishers :
                   JoinStep(p) \/ PublishMessage(p) \/ \E t \in Topics : Publish(p, t)
             \/ \E k \in Closers : CloseBegin(k) \/ CloseStep(k) \/ ReadersTimeout(k)
      PROVE  Sifted'
  <2>1. /\ \A s \in Subscribers : pc'[s] = pc[s]
        /\ UNCHANGED <<inbox, channel>>
    BY <1>6, OthersStay, CloseStays
    DEF JoinStep, Lookup, JoinTopic, StoreTopic, PublishMessage, Publish, TakeToken
  <2>2. QED
    BY <2>1 DEF Sifted
<1>7. QED
  BY <1>1, <1>2, <1>3, <1>4, <1>5, <1>6, SubscriptionLocal DEF Next, ClientNext, Terminated

\* The step of one subscription moves no other stream.
LEMMA LocalStream ==
    ASSUME NEW s \in Subscribers, LocalTo(s)
    PROVE  \A q \in Subscribers \ {s} : Phase(q)' = Phase(q) /\ Pending(q)' = Pending(q)
  BY DEF LocalTo, Phase, Pending, Held

\* Where nothing moves, the step is a stutter.
LEMMA StreamStutters ==
    ASSUME \A s \in Subscribers : Phase(s)' = Phase(s) /\ Pending(s)' = Pending(s),
           UNCHANGED <<taken, closed>>
    PROVE  UNCHANGED Stream!vars
  BY DEF Stream!vars

Sound == IInv /\ QuietUntilShutdown /\ Sifted

\* The phase of an admitted reader's stream.
LEMMA OpenPhase ==
    ASSUME ChannelsFollowReaders, NEW s \in Subscribers, pc[s] \in Admitted \ {"leaving"}
    PROVE  Phase(s) = "open"
  BY DEF ChannelsFollowReaders, Phase, Admitted, Joining, Attached

\* Until it takes its first message a reader moves nothing.
LEMMA SetupStutters ==
    ASSUME Sound, IInv', NEW s \in Subscribers,
           JoinStep(s) \/ SubscribeTopic(s) \/ RecordSub(s) \/ TriggerDiscovery(s)
    PROVE  UNCHANGED Stream!vars
<1> s \in Calls
  BY DEF Calls
<1>1. LocalTo(s) /\ UNCHANGED <<taken, closed, msgChan, buf, cur>>
  BY SubscriptionLocal
  DEF ReaderStep, JoinStep, Lookup, JoinTopic, StoreTopic, SubscribeTopic, RecordSub,
      TriggerDiscovery, Sound, IInv
<1>2. PICK from \in Joining \cup {"subscribe", "record", "trigger"},
           to \in Joining \cup {"subscribe", "record", "trigger", "next", "closing"} :
             /\ Goto(s, from, to)
             /\ from \in {"record", "trigger"} <=> to \in {"trigger", "next"}
  BY DEF JoinStep, Lookup, JoinTopic, StoreTopic, AfterJoin, JoinFailed, SubscribeTopic,
         RecordSub, TriggerDiscovery, Goto, Joining
<1>3. pc[s] = from /\ pc'[s] = to
  BY <1>2 DEF Goto, Sound, IInv, TypeOK, CallTypeOK
<1>4. Phase(s)' = Phase(s)
  <2>1. pc[s] \in Admitted \ {"leaving"} /\ pc'[s] \in Admitted \ {"leaving"}
    BY <1>2, <1>3 DEF Admitted, Joining, Attached
  <2>2. Phase(s) = "open"
    BY <2>1, OpenPhase DEF Sound, IInv
  <2>3. s \notin chanClosed' /\ pc'[s] # "idle"
    BY <2>1 DEF IInv, ChannelsFollowReaders, Admitted, Joining, Attached
  <2>4. Phase(s)' = "open"
    BY <2>3 DEF Phase
  <2>5. QED
    BY <2>2, <2>4
<1>5. Pending(s)' = Pending(s)
  <2>1. cur[s] = None /\ cur'[s] = None /\ msgChan[s] \in Seq(Messages)
    BY <1>1, <1>2, <1>3 DEF Sound, IInv, TypeOK, InboxTypeOK, ChannelTypeOK, Joining
  <2>2. CASE from \in {"record", "trigger"}
    BY <1>1, <1>2, <1>3, <2>1, <2>2 DEF Pending, Held, Attached
  <2>3. CASE from \notin {"record", "trigger"}
    <3>1. buf[s] = <<>> /\ pc[s] \notin Attached
      BY <1>2, <1>3, <2>3 DEF Sound, Sifted, Detached, Joining, Attached
    <3>2. Pending(s) = msgChan[s]
      BY <3>1 DEF Pending
    <3>3. Pending(s)' = msgChan[s] \/ Pending(s)' = (msgChan[s] \o <<>>) \o <<>>
      BY <1>1, <2>1, <3>1 DEF Pending, Held
    <3>4. QED
      BY <2>1, <3>2, <3>3
  <2>4. QED
    BY <2>2, <2>3
<1>6. QED
  BY <1>1, <1>4, <1>5, LocalStream, StreamStutters

\* A reader that leaves its loop, which it does in a shutdown only, gives up
\* what it has not put in the channel.
LEMMA LeaveAbandons ==
    ASSUME Sound, IInv', NEW s \in Subscribers, LocalTo(s), pc[s] \in Attached,
           pc'[s] = "closing", ctxDone \/ s \in cancelled,
           UNCHANGED <<taken, closed, msgChan, chanClosed>>
    PROVE  Stream!Next
<1>1. closed
  BY DEF Sound, IInv, CloseOrder, QuietUntilShutdown
<1>2. Phase(s) = "open" /\ Phase(s)' = "open"
  <2>1. s \notin chanClosed /\ pc[s] # "idle"
    BY DEF Sound, IInv, ChannelsFollowReaders, Attached
  <2>2. QED
    BY <2>1 DEF Phase
<1>3. Pending(s)' = SubSeq(Pending(s), 1, Len(msgChan[s])) /\ Len(msgChan[s]) \in 0..Len(Pending(s))
  <2> DEFINE a == msgChan[s]
  <2> DEFINE h == Held(s)
  <2> DEFINE b == buf[s]
  <2>1. a \in Seq(Messages) /\ h \in Seq(Messages) /\ b \in Seq(Messages)
    BY DEF Sound, IInv, TypeOK, InboxTypeOK, ChannelTypeOK, Held
  <2>2. Pending(s) = (a \o h) \o b /\ Pending(s)' = a
    BY DEF Pending, Attached
  <2> HIDE DEF a, h, b
  <2>3. Len(a) \in 0..Len((a \o h) \o b) /\ SubSeq((a \o h) \o b, 1, Len(a)) = a
    BY <2>1, KeepFirst
  <2>4. QED
    BY <2>2, <2>3 DEF a
<1>4. Stream!Abandon(s, Len(msgChan[s]))
  BY <1>1, <1>2, <1>3, LocalStream DEF Stream!Abandon
<1>5. QED
  BY <1>3, <1>4 DEF Stream!Next

\* The loop itself: taking a message in hand and putting it in the channel
\* leave the stream as it is, a message to skip is taken out of it.
LEMMA LoopMaps ==
    ASSUME Sound, IInv', NEW s \in Subscribers, NextMessage(s) \/ Handle(s) \/ Send(s)
    PROVE  Stream!Next \/ UNCHANGED Stream!vars
<1> s \in Calls
  BY DEF Calls
<1>1. LocalTo(s) /\ UNCHANGED <<taken, closed, chanClosed>>
  BY SubscriptionLocal DEF ReaderStep, NextMessage, Handle, Send, Sound, IInv
<1>2. /\ pc[s] \in {"next", "handle", "send"}
      /\ pc'[s] \in {"next", "handle", "send"} \/ (pc'[s] = "closing" /\ UNCHANGED msgChan
                                                  /\ (ctxDone \/ s \in cancelled))
  BY DEF NextMessage, MayLeave, Handle, AfterSkip, Send, Goto, Sound, IInv, TypeOK, CallTypeOK
<1>3. CASE pc'[s] = "closing"
  BY <1>1, <1>2, <1>3, LeaveAbandons DEF Attached
<1>4. CASE pc'[s] \in {"next", "handle", "send"}
  <2>1. Phase(s) = "open" /\ Phase(s)' = "open"
    BY <1>1, <1>2, <1>4 DEF Sound, IInv, ChannelsFollowReaders, Phase
  <2>2. /\ Pending(s) = (msgChan[s] \o Held(s)) \o buf[s]
        /\ Pending(s)' = (msgChan'[s] \o Held(s)') \o buf'[s]
    BY <1>2, <1>4 DEF Pending, Attached
  <2>3. /\ msgChan[s] \in Seq(Messages) /\ buf[s] \in Seq(Messages)
        /\ pc[s] \in {"handle", "send"} => cur[s] \in Messages /\ Held(s) = <<cur[s]>>
        /\ pc[s] = "next" => Held(s) = <<>>
        /\ pc'[s] \in {"handle", "send"} => Held(s)' = <<cur'[s]>>
        /\ pc'[s] = "next" => Held(s)' = <<>>
    BY DEF Sound, IInv, TypeOK, InboxTypeOK, ChannelTypeOK, Held
  <2>4. CASE NextMessage(s)
    <3>1. /\ buf[s] # <<>> /\ pc[s] = "next" /\ pc'[s] = "handle" /\ msgChan' = msgChan
          /\ cur'[s] = Head(buf[s]) /\ buf'[s] = Tail(buf[s])
      BY <1>4, <2>4 DEF NextMessage, Goto, Sound, IInv, TypeOK, CallTypeOK, InboxTypeOK
    <3>2. Pending(s)' = Pending(s)
      BY <2>2, <2>3, <3>1, TakeInHand
    <3>3. QED
      BY <1>1, <2>1, <3>2, LocalStream, StreamStutters
  <2>5. CASE Send(s)
    <3>1. /\ pc[s] = "send" /\ pc'[s] = "next" /\ buf' = buf
          /\ msgChan'[s] = Append(msgChan[s], cur[s])
      BY <1>4, <2>5 DEF Send, Goto, Sound, IInv, TypeOK, CallTypeOK, ChannelTypeOK
    <3> DEFINE a == msgChan[s]
    <3> DEFINE m == cur[s]
    <3> DEFINE b == buf[s]
    <3>2. /\ a \in Seq(Messages) /\ m \in Messages /\ b \in Seq(Messages)
          /\ Pending(s) = (a \o <<m>>) \o b /\ Pending(s)' = (Append(a, m) \o <<>>) \o b
      BY <2>2, <2>3, <3>1
    <3> HIDE DEF a, m, b
    <3>3. Pending(s)' = Pending(s)
      BY <3>2, PutInChannel
    <3>4. QED
      BY <1>1, <2>1, <3>3, LocalStream, StreamStutters
  <2>6. CASE Handle(s) /\ cur[s] \notin Skipped
    <3>1. pc[s] = "handle" /\ pc'[s] = "send" /\ UNCHANGED <<buf, msgChan, cur>>
      BY <2>6 DEF Handle, Goto, Sound, IInv, TypeOK, CallTypeOK
    <3>2. Pending(s)' = Pending(s)
      BY <2>2, <2>3, <3>1
    <3>3. QED
      BY <1>1, <2>1, <3>2, LocalStream, StreamStutters
  <2>7. CASE Handle(s) /\ cur[s] \in Skipped
    <3>1. pc[s] = "handle" /\ pc'[s] = "next" /\ UNCHANGED <<buf, msgChan>>
      BY <2>7 DEF Handle, AfterSkip, Goto, Sound, IInv, TypeOK, CallTypeOK
    <3> DEFINE a == msgChan[s]
    <3> DEFINE m == cur[s]
    <3> DEFINE b == buf[s]
    <3> DEFINE q == Pending(s)
    <3> DEFINE i == Len(a) + 1
    <3>2. /\ a \in Seq(Messages) /\ m \in Messages /\ b \in Seq(Messages) /\ m \in Skipped
          /\ q = (a \o <<m>>) \o b /\ Pending(s)' = (a \o <<>>) \o b
      BY <2>2, <2>3, <2>7, <3>1
    <3> HIDE DEF a, m, b
    <3>3. DropsMiddle(a, m, b)
      BY <3>2, DropMiddle
    <3>4. /\ i \in DOMAIN q /\ q[i] = m
          /\ SubSeq(q, 1, i - 1) \o SubSeq(q, i + 1, Len(q)) = (a \o <<>>) \o b
      BY <3>2, <3>3 DEF DropsMiddle
    <3> HIDE DEF q, i
    <3>5. Stream!Skip(s, i)
      BY <1>1, <2>1, <3>2, <3>4, LocalStream DEF Stream!Skip, q
    <3>6. QED
      BY <3>4, <3>5 DEF Stream!Next, q
  <2>8. QED
    BY <2>4, <2>5, <2>6, <2>7
<1>5. QED
  BY <1>2, <1>3, <1>4

\* The deferred close ends the stream; the Done after it does not concern it.
LEMMA LeaveMaps ==
    ASSUME Sound, NEW s \in Subscribers, CloseChannel(s) \/ ReaderDone(s)
    PROVE  Stream!Next \/ UNCHANGED Stream!vars
<1> s \in Calls
  BY DEF Calls
<1>1. LocalTo(s) /\ UNCHANGED <<taken, closed, msgChan>>
  BY SubscriptionLocal DEF ReaderStep, CloseChannel, ReaderDone, Sound, IInv
<1>2. pc[s] \in {"closing", "leaving"} /\ pc'[s] \in {"leaving", "exited"}
  BY DEF CloseChannel, ReaderDone, Goto, Sound, IInv, TypeOK, CallTypeOK
<1>3. Pending(s) = msgChan[s] /\ Pending(s)' = msgChan[s]
  BY <1>1, <1>2 DEF Pending, Attached
<1>4. CASE CloseChannel(s)
  <2>1. Phase(s) = "open" /\ Phase(s)' = "closed"
    BY <1>2, <1>4 DEF CloseChannel, Goto, Sound, IInv, ChannelsFollowReaders, Phase
  <2>2. closed \/ Pending(s) \o taken[s] = <<>>
    <3>1. CASE ctxDone
      BY <3>1 DEF Sound, IInv, CloseOrder
    <3>2. CASE ~ctxDone
      <4>1. Quiet(s)
        BY <1>4, <3>2 DEF CloseChannel, Goto, Sound, QuietUntilShutdown, Looping
      <4>2. QED
        BY <1>3, <4>1 DEF Quiet
    <3>3. QED
      BY <3>1, <3>2
  <2>3. Stream!End(s)
    BY <1>1, <1>3, <2>1, <2>2, LocalStream DEF Stream!End, Stream!Move
  <2>4. QED
    BY <2>3 DEF Stream!Next
<1>5. CASE ReaderDone(s)
  <2>1. Phase(s)' = Phase(s)
    BY <1>2, <1>5 DEF ReaderDone, Goto, Phase
  <2>2. QED
    BY <1>1, <1>3, <2>1, LocalStream, StreamStutters
<1>6. QED
  BY <1>4, <1>5

\* Subscribe opens a stream, or refuses one in a shutdown.
LEMMA SubscribeMaps ==
    ASSUME Sound, NEW s \in Subscribers, NEW t \in Topics, Subscribe(s, t)
    PROVE  Stream!Next
<1> s \in Calls
  BY DEF Calls
<1>1. LocalTo(s) /\ UNCHANGED <<taken, closed, msgChan>>
  BY SubscriptionLocal DEF Subscribe, Sound, IInv
<1>2. pc[s] = "idle" /\ pc'[s] \in {"refused", "lookup"}
  BY DEF Subscribe, Goto, Sound, IInv, TypeOK, CallTypeOK
<1>3. Pending(s) = msgChan[s] /\ Pending(s)' = msgChan[s]
  BY <1>1, <1>2 DEF Pending, Attached
<1>4. Phase(s) = "none" /\ s \notin chanClosed
  BY <1>2 DEF Phase, Sound, IInv, ChannelsFollowReaders
<1>5. CASE closed
  <2>1. Phase(s)' = "closed"
    BY <1>2, <1>5 DEF Subscribe, Admits, Phase
  <2>2. Stream!Refuse(s)
    BY <1>1, <1>3, <1>4, <1>5, <2>1, LocalStream DEF Stream!Refuse, Stream!Move
  <2>3. QED
    BY <2>2 DEF Stream!Next
<1>6. CASE ~closed
  <2>1. Phase(s)' = "open"
    BY <1>2, <1>4, <1>6 DEF Subscribe, Admits, Phase
  <2>2. Stream!Open(s)
    BY <1>1, <1>3, <1>4, <2>1, LocalStream DEF Stream!Open, Stream!Move
  <2>3. QED
    BY <2>2 DEF Stream!Next
<1>7. QED
  BY <1>5, <1>6

\* A consumer takes the first message of its stream, never one to skip.
LEMMA ConsumeMaps ==
    ASSUME Sound, NEW s \in Subscribers, Consume(s)
    PROVE  Stream!Next
<1>1. LocalTo(s) /\ UNCHANGED <<pc, cur, buf, closed, chanClosed>>
  BY SubscriptionLocal DEF Consume, Sound, IInv
<1> DEFINE a == msgChan[s]
<1> DEFINE h == Held(s)
<1> DEFINE b == buf[s]
<1>2. /\ a \in Seq(Messages) /\ h \in Seq(Messages) /\ b \in Seq(Messages)
      /\ a # <<>> /\ msgChan'[s] = Tail(a)
  BY DEF Consume, Sound, IInv, TypeOK, InboxTypeOK, ChannelTypeOK, Held
<1>3. taken' = [taken EXCEPT ![s] = Append(@, Head(a))]
  BY DEF Consume
<1>4. Head(a) \notin Skipped
  BY <1>2 DEF Sound, Sifted
<1>5. /\ Pending(s) = IF pc[s] \in Attached THEN (a \o h) \o b ELSE a
      /\ Pending(s)' = IF pc[s] \in Attached THEN (Tail(a) \o h) \o b ELSE Tail(a)
  BY <1>1, <1>2 DEF Pending, Held
<1>6. Pending(s) # <<>> /\ Head(Pending(s)) = Head(a) /\ Pending(s)' = Tail(Pending(s))
  <2> HIDE DEF a, h, b
  <2>1. a \o h \in Seq(Messages) /\ a \o h # <<>>
        /\ Head(a \o h) = Head(a) /\ Tail(a \o h) = Tail(a) \o h
    BY <1>2, TakeFirst
  <2> DEFINE ah == a \o h
  <2> HIDE DEF ah
  <2>2. ah \in Seq(Messages) /\ ah # <<>>
    BY <2>1 DEF ah
  <2>3. ah \o b # <<>> /\ Head(ah \o b) = Head(ah) /\ Tail(ah \o b) = Tail(ah) \o b
    BY <1>2, <2>2, TakeFirst
  <2>4. (a \o h) \o b # <<>> /\ Head((a \o h) \o b) = Head(a)
        /\ Tail((a \o h) \o b) = (Tail(a) \o h) \o b
    BY <2>1, <2>3 DEF ah
  <2>5. QED
    BY <1>2, <1>5, <2>4
<1>7. Phase(s)' = Phase(s)
  BY <1>1 DEF Phase
<1>8. Stream!Take(s)
  BY <1>1, <1>3, <1>4, <1>6, <1>7, LocalStream DEF Stream!Take
<1>9. QED
  BY <1>8 DEF Stream!Next

\* pubsub's delivery appends one message to the streams with room for it.
LEMMA DeliverMaps ==
    ASSUME Sound, NEW t \in Topics, NEW m \in Messages, Deliver(t, m)
    PROVE  Stream!Next
<1> DEFINE S == {s \in Subscribers : /\ pc[s] \in Attached /\ topicOf[s] = t
                                     /\ s \notin cancelled /\ Len(buf[s]) < BufCap}
<1>1. /\ buf' = [s \in Subscribers |-> IF s \in S THEN Append(buf[s], m) ELSE buf[s]]
      /\ UNCHANGED <<pc, cur, msgChan, chanClosed, taken, closed>>
  BY DEF Deliver
<1>2. \A s \in Subscribers : Phase(s)' = Phase(s)
  BY <1>1 DEF Phase
<1>3. \A s \in S : Phase(s) = "open"
  BY DEF Sound, IInv, ChannelsFollowReaders, Phase, Attached
<1>4. ASSUME NEW s \in S
      PROVE  Pending(s)' = Append(Pending(s), m)
  <2> DEFINE a == msgChan[s]
  <2> DEFINE h == Held(s)
  <2> DEFINE b == buf[s]
  <2>1. /\ a \in Seq(Messages) /\ h \in Seq(Messages) /\ b \in Seq(Messages)
    BY DEF Sound, IInv, TypeOK, InboxTypeOK, ChannelTypeOK, Held
  <2>2. Pending(s) = (a \o h) \o b /\ Pending(s)' = (a \o h) \o Append(b, m)
    BY <1>1 DEF Pending, Held
  <2> HIDE DEF a, h, b
  <2> DEFINE ah == a \o h
  <2>3. ah \in Seq(Messages)
    BY <2>1
  <2> HIDE DEF ah
  <2>4. ah \o Append(b, m) = Append(ah \o b, m)
    BY <2>1, <2>3, AcceptLast
  <2>5. QED
    BY <2>2, <2>4 DEF ah
<1>5. ASSUME NEW s \in Subscribers \ S
      PROVE  Pending(s)' = Pending(s)
  BY <1>1 DEF Pending, Held
<1>6. Stream!Accept(S, m)
  BY <1>1, <1>2, <1>3, <1>4, <1>5 DEF Stream!Accept
<1>7. S \in SUBSET Subscribers
  OBVIOUS
<1>8. QED
  BY <1>6, <1>7 DEF Stream!Next

\* Close announces the shutdown and touches no stream; Publish moves none.
LEMMA OthersMap ==
    ASSUME Sound,
           \/ TakeToken \/ UNCHANGED vars
           \/ \E p \in Publishers :
                 JoinStep(p) \/ PublishMessage(p) \/ \E t \in Topics : Publish(p, t)
           \/ \E k \in Closers : CloseBegin(k) \/ CloseStep(k) \/ ReadersTimeout(k)
    PROVE  Stream!Next \/ UNCHANGED Stream!vars
<1>1. /\ \A s \in Subscribers : pc'[s] = pc[s]
      /\ UNCHANGED <<inbox, channel>>
  BY OthersStay, CloseStays
  DEF JoinStep, Lookup, JoinTopic, StoreTopic, PublishMessage, Publish, TakeToken, Sound, IInv
<1>2. closed' = closed \/ closed' = TRUE
  BY OthersStay
  DEF Sound, IInv, TakeToken, CloseBegin, CloseStep, ReadersTimeout, CloseCancel, CancelSubs,
      WaitReturns, ReadersDone, CloseTopics, CloseHost, CloseReturns
<1>3. \A s \in Subscribers : Phase(s)' = Phase(s) /\ Pending(s)' = Pending(s)
  BY <1>1 DEF Phase, Pending, Held
<1>4. CASE closed' = closed
  BY <1>1, <1>3, <1>4, StreamStutters
<1>5. CASE closed' = TRUE
  BY <1>1, <1>3, <1>5 DEF Stream!Shutdown, Stream!Next
<1>6. QED
  BY <1>2, <1>4, <1>5

\* For any number of concurrent calls and whatever the capacities, what a
\* consumer receives is what pubsub delivered to its subscription, in order and
\* less the skipped messages; only a shutdown may cost it the tail.
THEOREM Refinement == Spec => ImplementsStream
<1>1. Init => Stream!Init
  BY DEF Init, Stream!Init, Phase, Pending, Attached, Calls
<1>2. Sound /\ IInv' /\ [Next]_vars => [Stream!Next]_(Stream!vars)
  <2> SUFFICES ASSUME Sound, IInv', [Next]_vars
               PROVE  Stream!Next \/ UNCHANGED Stream!vars
    OBVIOUS
  <2>1. ASSUME NEW s \in Subscribers, ReaderStep(s)
        PROVE  Stream!Next \/ UNCHANGED Stream!vars
    BY <2>1, SetupStutters, LoopMaps, LeaveMaps DEF ReaderStep
  <2>2. QED
    BY <2>1, SubscribeMaps, ConsumeMaps, DeliverMaps, OthersMap
    DEF Next, ClientNext, Terminated
<1>3. Init => IInv /\ QuietUntilShutdown /\ Sifted
  BY InitIInv, InitQuiet DEF Init, Sifted, Calls
<1>4. IInv /\ IInv' /\ QuietUntilShutdown /\ Sifted /\ [Next]_vars
        => QuietUntilShutdown' /\ Sifted'
  BY QuietStep, SiftedStep DEF IInv
<1>5. IInv /\ QuietUntilShutdown /\ Sifted => Sound
  BY DEF Sound
<1>6. QED
  BY <1>1, <1>2, <1>3, <1>4, <1>5, Invariance, PTL
  DEF Spec, ImplementsStream, Stream!Spec
=============================================================================
