---------------------------- MODULE Subscriptions ----------------------------
(***************************************************************************)
(* The life of a subscription in client.go: Subscribe and the reader       *)
(* goroutine it starts, the receive loop, Publish's lazy join, and Close.  *)
(*                                                                         *)
(* Every critical section of c.mu is one action, and so is every call into *)
(* pubsub; between two of them any other goroutine may run.  The pubsub    *)
(* library is external: Join, Deliver and CloseTopics say what the code    *)
(* relies on.  Timers are untimed: a timeout may fire at any moment.       *)
(***************************************************************************)
EXTENDS Naturals, Sequences, FiniteSets

CONSTANTS
    Topics,        \* topic names
    Subscribers,   \* one element per call of Subscribe
    Publishers,    \* one element per call of Publish
    Closers,       \* one element per call of Close
    Messages,      \* messages pubsub may deliver, each at most once
    Skipped,       \* those the receive loop does not forward
    ChanCap,       \* capacity of a subscription's Go channel (100 in the code)
    BufCap,        \* messages pubsub buffers for one subscription
    None           \* no topic, no message, no subscription

ASSUME SubscribersFinite == IsFiniteSet(Subscribers)
ASSUME CallsDisjoint == Subscribers \cap Publishers = {}
ASSUME SkippedAreMessages == Skipped \subseteq Messages
ASSUME CapsPositive == ChanCap \in Nat \ {0} /\ BufCap \in Nat \ {0}
ASSUME NoneIsNothing == None \notin Topics \cup Messages \cup Subscribers

VARIABLES
    closed,        \* client.closed
    ctxDone,       \* client.ctx is cancelled
    topics,        \* the keys of client.topics
    subs,          \* client.subs
    readers,       \* the counter of client.readers, a sync.WaitGroup
    discoverNow,   \* client.discoverNow holds its one token
    joined,        \* topics that pubsub holds a handle for
    dead,          \* topics whose handle has been closed
    cancelled,     \* subscriptions that have been cancelled
    pc,            \* where each call of Subscribe or Publish stands
    topicOf,       \* the argument of the call
    buf,           \* pubsub's buffer of a subscription
    cur,           \* the message a reader is handling
    msgChan,       \* contents of a subscription's Go channel
    chanClosed,    \* subscriptions whose channel is closed
    taken,         \* history: what the consumer has received
    sent,          \* messages that pubsub has already delivered
    watchers,      \* subscriptions with a registered notify bundle
    caller,        \* the caller's side of each Close
    worker,        \* the teardown goroutine of each Close
    waiter,        \* the goroutine in readers.Wait of each Close
    timedOut,      \* history: the workers that gave up waiting
    hostClosed     \* mDNS, DHT and host are closed

signals    == <<discoverNow, watchers>>
clientVars == <<closed, ctxDone, topics, subs, readers, signals>>
pubsubVars == <<joined, dead, cancelled, sent>>
inbox      == <<buf, cur>>
channel    == <<msgChan, chanClosed, taken>>
readerVars == <<pc, topicOf, inbox, channel>>
closeVars  == <<caller, worker, waiter, timedOut, hostClosed>>
vars == <<clientVars, pubsubVars, readerVars, closeVars>>

Calls == Subscribers \cup Publishers

\* The program counters of a reader goroutine, those in which it counts in
\* the WaitGroup, and those in which pubsub delivers to its subscription.
Joining   == {"lookup", "join", "store"}
Attached  == {"record", "trigger", "next", "handle", "send"}
Admitted  == Joining \cup Attached \cup {"subscribe", "closing", "leaving"}
ReaderPC  == Admitted \cup {"idle", "refused", "exited"}
PublishPC == Joining \cup {"idle", "publish", "published", "failed"}

Active == {s \in Subscribers : pc[s] \in Admitted}

Goto(p, from, to) == pc[p] = from /\ pc' = [pc EXCEPT ![p] = to]

Init ==
    /\ closed = FALSE /\ ctxDone = FALSE
    /\ topics = {} /\ subs = [t \in Topics |-> None]
    /\ readers = 0 /\ discoverNow = FALSE
    /\ joined = {} /\ dead = {} /\ cancelled = {} /\ sent = {}
    /\ pc = [p \in Calls |-> "idle"]
    /\ topicOf = [p \in Calls |-> None]
    /\ buf = [s \in Subscribers |-> <<>>]
    /\ cur = [s \in Subscribers |-> None]
    /\ msgChan = [s \in Subscribers |-> <<>>]
    /\ chanClosed = {} /\ watchers = {}
    /\ taken = [s \in Subscribers |-> <<>>]
    /\ caller = [k \in Closers |-> "idle"]
    /\ worker = [k \in Closers |-> "none"]
    /\ waiter = [k \in Closers |-> "none"]
    /\ timedOut = {} /\ hostClosed = FALSE

-----------------------------------------------------------------------------
(* Subscribe: one critical section decides between refusal and admission.  *)

\* Mutant: Subscribe does not look at client.closed.
AdmitsAlways == TRUE
Admits == ~closed

Subscribe(s, t) ==
    /\ topicOf' = [topicOf EXCEPT ![s] = t]
    /\ \/ /\ ~Admits
          /\ Goto(s, "idle", "refused")
          /\ chanClosed' = chanClosed \cup {s}
          /\ UNCHANGED readers
       \/ /\ Admits
          /\ Goto(s, "idle", "lookup")
          /\ readers' = readers + 1
          /\ UNCHANGED chanClosed
    /\ UNCHANGED <<closed, ctxDone, topics, subs, signals, pubsubVars, inbox, msgChan,
                   taken, closeVars>>

(* The lazy join, in the reader of a Subscribe and in Publish alike.       *)

AfterJoin(p) == IF p \in Subscribers THEN "subscribe" ELSE "publish"
\* Mutant: the error of Join is ignored.
JoinErrorIgnored(p) == IF p \in Subscribers THEN "store" ELSE "failed"
JoinFailed(p) == IF p \in Subscribers THEN "closing" ELSE "failed"

Lookup(p) ==
    /\ Goto(p, "lookup", IF topicOf[p] \in topics THEN AfterJoin(p) ELSE "join")
    /\ UNCHANGED <<clientVars, pubsubVars, topicOf, inbox, channel, closeVars>>

\* pubsub.Join succeeds for one caller per topic; it fails when pubsub has
\* the topic already, and may fail once the client context is cancelled.
JoinTopic(p) ==
    /\ \/ /\ topicOf[p] \notin joined
          /\ Goto(p, "join", "store")
          /\ joined' = joined \cup {topicOf[p]}
       \/ /\ topicOf[p] \in joined \/ ctxDone
          /\ Goto(p, "join", JoinFailed(p))
          /\ UNCHANGED joined
    /\ UNCHANGED <<clientVars, dead, cancelled, sent, topicOf, inbox, channel, closeVars>>

StoreTopic(p) ==
    /\ Goto(p, "store", AfterJoin(p))
    /\ topics' = topics \cup {topicOf[p]}
    /\ UNCHANGED <<closed, ctxDone, subs, readers, signals, pubsubVars, topicOf, inbox,
                   channel, closeVars>>

-----------------------------------------------------------------------------
(* The rest of the reader goroutine.                                       *)

\* t.Subscribe() fails on a closed topic, and may fail after cancellation.
SubscribeTopic(s) ==
    /\ \/ topicOf[s] \notin dead /\ Goto(s, "subscribe", "record")
       \/ topicOf[s] \in dead \cup (IF ctxDone THEN Topics ELSE {})
          /\ Goto(s, "subscribe", "closing")
    /\ UNCHANGED <<clientVars, pubsubVars, topicOf, inbox, channel, closeVars>>

RecordSub(s) ==
    /\ Goto(s, "record", "trigger")
    /\ subs' = [subs EXCEPT ![topicOf[s]] = s]
    /\ UNCHANGED <<closed, ctxDone, topics, readers, signals, pubsubVars, topicOf, inbox,
                   channel, closeVars>>

\* A send that does not block on a channel of capacity one, then Notify.
TriggerDiscovery(s) ==
    /\ Goto(s, "trigger", "next")
    /\ discoverNow' = TRUE
    /\ watchers' = watchers \cup {s}
    /\ UNCHANGED <<closed, ctxDone, topics, subs, readers, pubsubVars, topicOf, inbox,
                   channel, closeVars>>

\* Mutant: any error of Next ends the reader, not only the terminal ones.
LeavesOnAnyError(s) == TRUE
MayLeave(s) == ctxDone \/ s \in cancelled

\* sub.Next: a buffered message, or the end of the context or subscription.
\* With both ready the select takes either.
NextMessage(s) ==
    /\ \/ /\ buf[s] # <<>>
          /\ Goto(s, "next", "handle")
          /\ cur' = [cur EXCEPT ![s] = Head(buf[s])]
          /\ buf' = [buf EXCEPT ![s] = Tail(buf[s])]
       \/ /\ MayLeave(s)
          /\ Goto(s, "next", "closing")
          /\ UNCHANGED inbox
    /\ UNCHANGED <<clientVars, pubsubVars, topicOf, channel, closeVars>>

\* Mutant: "return" where the loop says "continue".
SkipReturns == "closing"
AfterSkip == "next"

\* Own messages, messages of skipped authors and malformed ones go no further.
Handle(s) ==
    /\ \/ /\ cur[s] \in Skipped
          /\ Goto(s, "handle", AfterSkip)
          /\ cur' = [cur EXCEPT ![s] = None]
       \/ /\ cur[s] \notin Skipped
          /\ Goto(s, "handle", "send")
          /\ UNCHANGED cur
    /\ UNCHANGED <<clientVars, pubsubVars, topicOf, buf, channel, closeVars>>

Send(s) ==
    /\ \/ /\ Len(msgChan[s]) < ChanCap
          /\ Goto(s, "send", "next")
          /\ msgChan' = [msgChan EXCEPT ![s] = Append(@, cur[s])]
       \/ /\ ctxDone
          /\ Goto(s, "send", "closing")
          /\ UNCHANGED msgChan
    /\ cur' = [cur EXCEPT ![s] = None]
    /\ UNCHANGED <<clientVars, pubsubVars, topicOf, buf, chanClosed, taken, closeVars>>

\* The deferred calls: close(msgChan) first, then readers.Done().
CloseChannel(s) ==
    /\ Goto(s, "closing", "leaving")
    /\ chanClosed' = chanClosed \cup {s}
    /\ UNCHANGED <<clientVars, pubsubVars, topicOf, inbox, msgChan, taken, closeVars>>

\* Mutant: Done is called on the error path and deferred as well.
DoneTwice == readers' = readers - 2
Done == readers' = readers - 1

ReaderDone(s) ==
    /\ Goto(s, "leaving", "exited")
    /\ Done
    /\ UNCHANGED <<closed, ctxDone, topics, subs, signals, pubsubVars, topicOf, inbox,
                   channel, closeVars>>

\* The program that called Subscribe receives from the channel.
Consume(s) ==
    /\ msgChan[s] # <<>>
    /\ taken' = [taken EXCEPT ![s] = Append(@, Head(msgChan[s]))]
    /\ msgChan' = [msgChan EXCEPT ![s] = Tail(@)]
    /\ UNCHANGED <<clientVars, pubsubVars, pc, topicOf, inbox, chanClosed, closeVars>>

-----------------------------------------------------------------------------
(* Publish: the lazy join above, then one call into pubsub.                *)

Publish(p, t) ==
    /\ Goto(p, "idle", "lookup")
    /\ topicOf' = [topicOf EXCEPT ![p] = t]
    /\ UNCHANGED <<clientVars, pubsubVars, inbox, channel, closeVars>>

PublishMessage(p) ==
    /\ \/ topicOf[p] \notin dead /\ Goto(p, "publish", "published")
       \/ topicOf[p] \in dead \cup (IF ctxDone THEN Topics ELSE {})
          /\ Goto(p, "publish", "failed")
    /\ UNCHANGED <<clientVars, pubsubVars, topicOf, inbox, channel, closeVars>>

\* pubsub hands one message of topic t to every subscription of t that has
\* room for it; a full subscription loses it.
Deliver(t, m) ==
    /\ m \notin sent /\ t \in joined /\ ~hostClosed
    /\ sent' = sent \cup {m}
    /\ buf' = [s \in Subscribers |->
                 IF /\ pc[s] \in Attached /\ topicOf[s] = t
                    /\ s \notin cancelled /\ Len(buf[s]) < BufCap
                 THEN Append(buf[s], m) ELSE buf[s]]
    /\ UNCHANGED <<clientVars, joined, dead, cancelled, pc, topicOf, cur, channel, closeVars>>

-----------------------------------------------------------------------------
(* Close, called any number of times: the caller, its worker and the       *)
(* goroutine that waits for the readers.                                   *)

Step(v, k, from, to) == v[k] = from /\ v' = [v EXCEPT ![k] = to]

CloseBegin(k) ==
    /\ Step(caller, k, "idle", "cancel")
    /\ closed' = TRUE
    /\ UNCHANGED <<ctxDone, topics, subs, readers, signals, pubsubVars, readerVars, worker,
                   waiter, timedOut, hostClosed>>

\* Mutant: Close relies on sub.Cancel alone.
KeepContext == UNCHANGED ctxDone
CancelContext == ctxDone' = TRUE

CloseCancel(k) ==
    /\ Step(caller, k, "cancel", "wait")
    /\ Step(worker, k, "none", "cancelSubs")
    /\ CancelContext
    /\ UNCHANGED <<closed, topics, subs, readers, signals, pubsubVars, readerVars, waiter,
                   timedOut, hostClosed>>

\* sub.Cancel on every subscription of c.subs; with the context cancelled
\* each of them may or may not take effect.
CancelSubs(k) ==
    /\ Step(worker, k, "cancelSubs", "await")
    /\ Step(waiter, k, "none", "waiting")
    /\ \E S \in SUBSET {s \in Subscribers : \E t \in Topics : subs[t] = s} :
          cancelled' = cancelled \cup S
    /\ UNCHANGED <<clientVars, joined, dead, sent, readerVars, caller, timedOut, hostClosed>>

WaitReturns(k) ==
    /\ Step(waiter, k, "waiting", "done")
    /\ readers = 0
    /\ UNCHANGED <<clientVars, pubsubVars, readerVars, caller, worker, timedOut, hostClosed>>

\* The worker goes on when the readers are done or after closeReadersWait.
ReadersDone(k) ==
    /\ waiter[k] = "done"
    /\ Step(worker, k, "await", "closeTopics")
    /\ UNCHANGED <<clientVars, pubsubVars, readerVars, caller, waiter, timedOut, hostClosed>>

\* Mutant: the worker waits for the readers without a bound.
WaitForever(k) == FALSE /\ UNCHANGED vars
ReadersTimeout(k) ==
    /\ Step(worker, k, "await", "closeTopics")
    /\ timedOut' = timedOut \cup {k}
    /\ UNCHANGED <<clientVars, pubsubVars, readerVars, caller, waiter, hostClosed>>

\* Mutant: Close closes the consumers' channels itself.
CloseTopicsAndChannels(k) ==
    /\ Step(worker, k, "closeTopics", "closeHost")
    /\ chanClosed' = chanClosed \cup Active
    /\ UNCHANGED <<clientVars, pubsubVars, pc, topicOf, inbox, msgChan, taken, caller,
                   waiter, timedOut, hostClosed>>

\* topic.Close errors are ignored: with the context cancelled, any of them
\* may fail.
CloseTopics(k) ==
    /\ Step(worker, k, "closeTopics", "closeHost")
    /\ \E T \in SUBSET topics :
          /\ dead' = dead \cup T
          /\ joined' = joined \ T
    /\ UNCHANGED <<clientVars, cancelled, sent, readerVars, caller, waiter, timedOut,
                   hostClosed>>

CloseHost(k) ==
    /\ Step(worker, k, "closeHost", "done")
    /\ hostClosed' = TRUE
    /\ UNCHANGED <<clientVars, pubsubVars, readerVars, caller, waiter, timedOut>>

\* The caller returns when the worker is done or after closeTimeout.
CloseReturns(k) ==
    /\ \/ worker[k] = "done" /\ Step(caller, k, "wait", "clean")
       \/ Step(caller, k, "wait", "forced")
    /\ UNCHANGED <<clientVars, pubsubVars, readerVars, worker, waiter, timedOut, hostClosed>>

-----------------------------------------------------------------------------
JoinStep(p) == Lookup(p) \/ JoinTopic(p) \/ StoreTopic(p)

ReaderStep(s) ==
    \/ JoinStep(s) \/ SubscribeTopic(s) \/ RecordSub(s) \/ TriggerDiscovery(s)
    \/ NextMessage(s) \/ Handle(s) \/ Send(s) \/ CloseChannel(s) \/ ReaderDone(s)

CloseStep(k) ==
    \/ CloseCancel(k) \/ CancelSubs(k) \/ WaitReturns(k) \/ ReadersDone(k)
    \/ CloseTopics(k) \/ CloseHost(k) \/ CloseReturns(k)

Finished ==
    /\ \A p \in Calls : pc[p] \in {"refused", "exited", "published", "failed"}
    /\ \A s \in Subscribers : msgChan[s] = <<>>
    /\ \A k \in Closers :
          /\ caller[k] \in {"clean", "forced"}
          /\ worker[k] = "done" /\ waiter[k] = "done"

\* Every goroutine has returned: not a deadlock.
Terminated == Finished /\ UNCHANGED vars

ClientNext ==
    \/ \E s \in Subscribers :
          \/ \E t \in Topics : Subscribe(s, t)
          \/ ReaderStep(s)
          \/ Consume(s)
    \/ \E p \in Publishers :
          \/ \E t \in Topics : Publish(p, t)
          \/ JoinStep(p)
          \/ PublishMessage(p)
    \/ \E t \in Topics, m \in Messages : Deliver(t, m)
    \/ \E k \in Closers : CloseBegin(k) \/ CloseStep(k) \/ ReadersTimeout(k)

\* discoverPeers receives the signal, at any moment; module Bus puts the loop
\* of module Discovery in the place of this action.
TakeToken ==
    /\ discoverNow /\ discoverNow' = FALSE
    /\ UNCHANGED <<closed, ctxDone, topics, subs, readers, watchers, pubsubVars, readerVars,
                   closeVars>>

Next == ClientNext \/ TakeToken \/ Terminated

Spec == Init /\ [][Next]_vars

\* The timers of Close fire and its goroutines run.
CloseFairness ==
    \A k \in Closers : WF_vars(CloseStep(k)) /\ WF_vars(ReadersTimeout(k))

\* Close makes progress; a reader may stop anywhere, as in a user logger that
\* blocks.
FairSpec == Spec /\ CloseFairness

\* Readers run, and consumers keep receiving: what some properties assume.
ReaderFairness ==
    \A s \in Subscribers : WF_vars(ReaderStep(s)) /\ WF_vars(Consume(s))
=============================================================================
