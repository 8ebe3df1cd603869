------------------------- MODULE SubscriptionsCorrect -------------------------
(***************************************************************************)
(* Correctness properties of module Subscriptions.                         *)
(***************************************************************************)
EXTENDS Subscriptions

ClientTypeOK ==
    /\ closed \in BOOLEAN /\ ctxDone \in BOOLEAN /\ discoverNow \in BOOLEAN
    /\ topics \subseteq Topics
    /\ subs \in [Topics -> Subscribers \cup {None}]
    /\ readers \in Nat
    /\ watchers \subseteq Subscribers

PubsubTypeOK ==
    /\ joined \subseteq Topics /\ dead \subseteq Topics
    /\ cancelled \subseteq Subscribers
    /\ sent \subseteq Messages

CallTypeOK ==
    /\ pc \in [Calls -> ReaderPC \cup PublishPC]
    /\ \A s \in Subscribers : pc[s] \in ReaderPC
    /\ \A p \in Publishers : pc[p] \in PublishPC
    /\ topicOf \in [Calls -> Topics \cup {None}]
    /\ \A p \in Calls : pc[p] # "idle" => topicOf[p] \in Topics

InboxTypeOK ==
    /\ buf \in [Subscribers -> Seq(Messages)]
    /\ cur \in [Subscribers -> Messages \cup {None}]
    /\ \A s \in Subscribers : cur[s] = None <=> pc[s] \notin {"handle", "send"}

ChannelTypeOK ==
    /\ msgChan \in [Subscribers -> Seq(Messages)]
    /\ taken \in [Subscribers -> Seq(Messages)]
    /\ chanClosed \subseteq Subscribers

CloseTypeOK ==
    /\ caller \in [Closers -> {"idle", "cancel", "wait", "clean", "forced"}]
    /\ worker \in [Closers -> {"none", "cancelSubs", "await", "closeTopics",
                               "closeHost", "done"}]
    /\ waiter \in [Closers -> {"none", "waiting", "done"}]
    /\ timedOut \subseteq Closers
    /\ hostClosed \in BOOLEAN

\* Every variable has its type: no call of Subscribe, Publish or Close is
\* outside the steps of its function, a call under way has its topic, and a
\* reader holds a message exactly between sub.Next and the channel send.
TypeOK ==
    /\ ClientTypeOK /\ PubsubTypeOK /\ CallTypeOK
    /\ InboxTypeOK /\ ChannelTypeOK /\ CloseTypeOK

\* The WaitGroup counts exactly the readers between the admission in
\* Subscribe and the deferred readers.Done.
WaitGroupCounts == readers = Cardinality(Active)

\* A reader about to send or to close finds its channel open: the reader is
\* the only code that closes it, and it has stopped sending ("a
\* send-on-closed-channel panic is impossible", Subscribe).
NoChannelPanic ==
    \A s \in Subscribers :
        pc[s] \in Admitted \ {"leaving"} => s \notin chanClosed

\* readers.Add never runs while some Close is in readers.Wait: no Subscribe
\* adds a reader to a draining WaitGroup (the comment on client.closed).
NoAddWhileWaiting ==
    [][ (\E k \in Closers : waiter[k] = "waiting") => readers' <= readers ]_vars

\* A Close that did not time out closes topics and host only after every
\* reader it admitted has closed its channel and left, and none can follow.
TeardownAfterReaders ==
    \A k \in Closers :
        worker[k] \in {"closeTopics", "closeHost", "done"} /\ k \notin timedOut
            => closed /\ Active = {}

\* What the two properties above and NoChannelPanic rest on: a channel is
\* closed exactly when its reader is past the deferred close, the steps of
\* each Close follow one another, and a finished wait means no readers.
ChannelsFollowReaders ==
    \A s \in Subscribers : s \in chanClosed <=> pc[s] \in {"refused", "leaving", "exited"}

CloseOrder ==
    /\ ctxDone => closed
    /\ \A k \in Closers :
          /\ caller[k] # "idle" => closed
          /\ worker[k] # "none" => caller[k] # "idle"
          /\ waiter[k] # "none" => worker[k] # "none"
          /\ waiter[k] = "done" => readers = 0
          /\ worker[k] \in {"closeTopics", "closeHost", "done"} /\ k \notin timedOut
                => waiter[k] = "done"

IInv == TypeOK /\ WaitGroupCounts /\ ChannelsFollowReaders /\ CloseOrder

\* client.topics names only handles that pubsub gave out and that are not
\* lost: each is still joined or was closed by Close, and until Close closes
\* it a topic joined but not stored has exactly one goroutine between Join
\* and the store.
TopicsMatchPubsub ==
    /\ topics \subseteq joined \cup dead
    /\ \A t \in joined \ (topics \cup dead) :
          Cardinality({p \in Calls : pc[p] = "store" /\ topicOf[p] = t}) = 1
    /\ \A p \in Calls : pc[p] = "store" => topicOf[p] \in dead \cup (joined \ topics)

\* Until Close cancels the context, a subscription whose reader failed to join or to
\* subscribe received nothing, and every other channel stays open.
OpenUntilShutdown ==
    \A s \in Subscribers :
        pc[s] \in {"closing", "leaving", "exited"} /\ ~ctxDone
            => s \notin watchers /\ taken[s] \o msgChan[s] = <<>>

\* The comment on Subscribe: "The returned channel is closed when the client
\* is closed (or, if the client is already closed, immediately)".
ClosedOnlyByClose == chanClosed # {} => closed

-----------------------------------------------------------------------------
(* The code implements MessageStream.                                      *)

Held(s) == IF cur[s] = None THEN <<>> ELSE <<cur[s]>>

\* What a stream has accepted and not yet handed over: the Go channel, then
\* the message in the reader's hands, then pubsub's buffer.  A reader past
\* its loop will hand over only the channel.
Pending(s) ==
    IF pc[s] \in Attached THEN msgChan[s] \o Held(s) \o buf[s] ELSE msgChan[s]

Phase(s) ==
    CASE pc[s] = "idle" -> "none"
      [] s \in chanClosed -> "closed"
      [] OTHER -> "open"

Stream == INSTANCE MessageStream WITH
    Streams  <- Subscribers,
    Items    <- Messages,
    Unwanted <- Skipped,
    phase    <- [s \in Subscribers |-> Phase(s)],
    pending  <- [s \in Subscribers |-> Pending(s)],
    received <- taken,
    ending   <- closed

\* Subscribe, the receive loop and Close implement MessageStream: what a
\* consumer receives is what pubsub delivered to its subscription, in order,
\* less the skipped messages, with nothing lost or repeated before shutdown.
ImplementsStream == Stream!Spec

-----------------------------------------------------------------------------
(* Liveness.  Readers and consumers that run are assumed where needed.     *)

\* Close returns and the host's sockets are released even when a reader is
\* stuck in a user logger (the comment in Close on closeReadersWait).
CloseReleasesHost ==
    \A k \in Closers :
        caller[k] = "cancel" ~> caller[k] \in {"clean", "forced"} /\ hostClosed

\* "The returned channel is closed when the client is closed": after Close
\* every channel that Subscribe returned gets closed, and its reader leaves.
CloseEndsStreams ==
    ReaderFairness =>
        \A s \in Subscribers :
            closed /\ pc[s] # "idle" ~> s \in chanClosed /\ pc[s] \notin Admitted

Holds(q, m) == \E i \in DOMAIN q : q[i] = m

\* A message that pubsub put in a subscription's buffer reaches the consumer
\* unless the client shuts down.
DeliveredIsTaken ==
    ReaderFairness =>
        \A s \in Subscribers, m \in Messages \ Skipped :
            Holds(buf[s], m) ~> Holds(taken[s], m) \/ ctxDone
=============================================================================
