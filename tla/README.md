# A TLA+ model of go-p2p-message-bus

`src/` is a Go package that wraps libp2p and gossipsub into a topic-based
message bus: `NewClient`, `Subscribe`, `Publish`, `GetPeers`, `Close`.  This
directory holds TLA+ modules of the package's own concurrent logic, TLC
configurations that check them on small instances, and TLAPS proofs of the
properties that matter most.  Line numbers below are lines of the Go source.
`PROJECT.json` maps every definition to the lines it translates.

1. Inventory of the system
2. Modules: how state and actions correspond to the code
3. Runs: what is checked, bounds, fairness
4. Disagreements between the code and its documentation
5. Proofs
6. What is not modelled
7. Plan

## 1. Inventory

libp2p (host, connections, streams), go-libp2p-pubsub, the Kademlia DHT and
mDNS are outside the repository.  They are modelled from how `client.go` uses
them and their part of a module is nondeterministic wherever the code may not
rely on an order.

| Component | Code | State | Operations | Hard behaviour | What makes it correct |
|---|---|---|---|---|---|
| Subscriptions, publishing, shutdown | `client.go` 677-819, 850-922, 1299-1353 | `closed`, `ctx`, `topics`, `subs`, `readers` (WaitGroup), `discoverNow`, one channel and one goroutine per subscription | `Subscribe`, reader goroutine, `receiveMessages`, `Publish`, `Close` | lazy join in three critical sections; send against close; `Add` against `Wait`; two timeouts in `Close`; `Close` called twice | no send on or close of a closed channel; WaitGroup discipline; teardown after the readers; messages in order without gaps; `Close` returns; every channel ends |
| Drop reporter | `allowlist.go` 174-252 | two atomics: `dropped`, `lastLog` | `recordDrop`, called by all validation workers | five unlocked steps, clock read before the CompareAndSwap | no count lost; one line per interval |
| Peer tracker, `GetPeers` | `types.go` 112-229, `client.go` 822-842, 1285-1345 | `names`, `topicPeers`, `lastSeen`, `malformed`, `skipMalformed` | the methods, one lock hold each | check and count in separate lock holds, several readers | one warning; bounded overrun; listed peers have names |
| Inbound address limiter | `types.go` 77-134, `client.go` 1537-1556 | `windows` | `allow` | clock is read before the lock is taken | budget, one warning per window, bounded map |
| Outbound address lookup | `client.go` 1164-1283, 1407-1486 | `requested`, `addrLookupsInFlight` | scan every 15 s, one goroutine per lookup, dial | slow lookups overlap later scans; error paths must clear the mark | one lookup per target; every lookup ends; lookups are repeated |
| Peer-address exchange | `client.go` 1489-1658 | one stream, two ends | request, serve | half-close framing and one-read framing, deadlines, resets, fragmented reads | a success is the whole answer for the right peer; nobody is pinned; both framings interoperate |
| Peer cache | `client.go` 670-686, 748-777, 1355-1403, 1670-1789 | a JSON file | `savePeerCache`, load, evict | one goroutine per connection writes the file, truncate then write, stale topic lists, failed writes, crash | `LastSeen` is true; an empty save keeps the file; a save on its own repairs a broken one; only recent peers are dialled |
| DHT topic discovery | `client.go` 742, 953-1064 | `discoverNow`, copies of `topics`, one channel per search | `discoverPeers`, `waitForDHTAndAdvertise`, `processPeerDiscovery` | one-slot signal channel; waiter's timeout; inline dials that outlast a search | no signal lost; every topic is searched for; searches end |
| Managed peer pools | `client.go` 658-668, 1087-1159 | phase, pool, dials | `connectToManagedPeers`, `maintainPeerSet` | fast phase ends for good | a peer that can be reached is connected again and again |
| Client construction | `client.go` 143-606, 1758-1788 | context, connection manager, resource manager, host, DHT, mDNS, dials of cached peers | `NewClient` | a dozen error paths, some with dials under way | a failure leaves no host, resource manager, context or dial that can succeed |
| Publisher allowlist | `allowlist.go` 17-172, `scoring.go` 118-149 | the allowed set | resolution, validator | DNS answers, relayed addresses | trust comes from the configuration's text alone |
| Peer lists, bootstrap selection | `client.go` 279-311, 595-645 | none | pure functions | an entry is resolved more than once | dialled static peers are trusted and direct |
| Resource limits | `resource_limits.go` | the limits in force | validation | auto-scaled totals | no limit that is set is capped silently |
| Pubsub options, peer scoring | `scoring.go` | options of pubsub | pure functions | a second resolution | static links are exempt from scoring |
| Connection tagging | `client.go` 748-777 | connection-manager tags | `ConnectedF`, `DisconnectedF` | tag 500 ms after the callback | left out, section 6 |
| Default values, mDNS notifee, `Connect`, keys, `cmd/example` | | none | one call each | | left out, section 6 |

Interactions.  The reader goroutine of a subscription is where most components
meet: it joins the topic (shared with `Publish`), fills `discoverNow` (read by
the discovery loop), registers the notify bundle (which starts the cache
savers), and runs each message through the tracker.  The lookup scan reads
`topicPeers` of the tracker; a lookup's exchange is served by another client
through its limiter.  `Close` cancels the context that ends all loops but
waits only for the readers.  `NewClient` connects the rest: the peers it parses
once are what the pools dial, and, with peer scoring, what pubsub gets as direct
peers; the allowlist reads the same entries as text.

The list of hazards, each at its line and with the properties that would catch
it going wrong, is `hazards` in `PROJECT.json`.

## 2. Modules

A module's header says which functions it models.  Conventions in all of them:

- one action per critical section of a lock, per atomic operation or per call
  into an external library; between two of them any goroutine may run;
- a Go goroutine is a program counter `pc[...]`; names of its values are the
  steps of the function;
- timers are untimed (may fire at any moment) except where a property is about
  time (`DropReporter`, `AddressLimiter`, `AddressLookup`, `PeerCache`);
- variables marked *history* record what happened for the sake of a property;
  no guard reads them (`arrived`, `opened`, `recorded` bound a run);
- an operator with the comment "Mutant" is not part of the model.  It is what a
  plausible bug would make of the definition after it, and for each property
  there is one under which TLC finds the property violated.

**Subscriptions** (core).  `Subscribers`, `Publishers`, `Closers` are calls,
so that a client with any number of calls is an instance.

| TLA+ | Go |
|---|---|
| `closed`, `ctxDone`, `topics`, `subs`, `readers`, `discoverNow` | the fields of `client`; `readers` is the WaitGroup counter |
| `joined`, `dead`, `cancelled`, `sent`, `buf` | pubsub: handles it holds, closed handles, cancelled subscriptions, its buffer per subscription |
| `pc`, `topicOf`, `cur`, `msgChan`, `chanClosed` | the goroutine of a call, its argument, its current message, its channel |
| `Subscribe` | the section under `c.mu` that refuses or does `readers.Add(1)` |
| `Lookup`, `JoinTopic`, `StoreTopic` | the lazy join, in `Subscribe`'s goroutine and in `Publish` |
| `SubscribeTopic`, `RecordSub`, `TriggerDiscovery` | `t.Subscribe()`, the store into `c.subs`, the non-blocking send and `Notify` |
| `NextMessage`, `Handle`, `Send` | `receiveMessages`, with `Skipped` for own, malformed and filtered messages |
| `CloseChannel`, `ReaderDone` | the two deferred calls, in the order they run |
| `CloseBegin` ... `CloseReturns` | `Close`, its worker goroutine, its waiting goroutine and both timeouts |
| `Deliver`, `Consume` | pubsub handing out a message; the user of the package receiving |
| `TakeToken` | `discoverPeers` taking the signal, at any moment; the loop itself is in `Discovery` |

**MessageStream** is the abstract specification: what the comment of
`Subscribe` promises, without pubsub, goroutines or locks.  A stream accepts
messages, hands them over in order, leaves out the unwanted ones and no other
(`Skip`), may be cut short only by shutdown, and is closed once.
`SubscriptionsCorrect` gives the refinement mapping: a stream's pending messages
are the channel, then the message in the reader's hands, then pubsub's buffer; a
reader past its loop hands over the channel only.  Unwanted are the messages that
the loop skips; such a message is pending until the reader drops it.

**SubscriptionsCorrect** states the properties, **SubscriptionsProofs** proves
them.  The proofs about another component `X` are in `XProofs`, those about
`Discovery` and its composition with the calls in `BusProofs`, and those about
`AddressLookup` and `AddressExchange` together in `AddressProofs`.

**DropReporter**: `recordDrop`, one action per atomic operation.

**PeerTracker**: the readers' path through the tracker, one action per method
(`shouldSkipMalformed`, `RecordMalformed`, `updateName`, `recordMessageFrom`)
and `GetPeers` as a snapshot followed by one `getName` per peer.

**AddressLimiter**: `Open` reads the clock, `Allow` is the whole of `allow`
under the lock: pruning, counting and both results.  The history variables number
a peer's windows (`opening`) and keep every request that was allowed (`granted`),
so that a property can speak about any stretch of time.

**AddressLookup**: `Scan` is one tick of the topic-peer loop (all due targets,
the retry map and its pruning); `beginAddrLookup`, `Ask`, `ExchangeFails`,
`ExchangeSucceeds`, `NobodyKnew`, `endAddrLookup` are the lookup goroutine;
`tryConnectToTopicPeer` the dial.  Time is counted in scans.  The exchange that
a lookup waits for is `AddressExchange`; the initial predicate, the next-state
relation and the invariant here are named for lookups (`LookupInit`, `LookupNext`,
`LookupInv`), so that one module can speak of both.

**AddressExchange**: both ends of one stream.  Bytes are counted in units and
a prefix of an ID may decode as another peer's ID or as none.  An address book
(`book`) and an answer are sets of addresses, some of which are relay circuits;
`directPeerAddresses` may return any of the sets that its filter and its cap
allow, since the order of the peerstore is libp2p's.  A read (`Reads`) takes what
has arrived, up to the room in the buffer, and on a rough stream any part of
that.  A foreign end sends what it likes or stops, over either framing
(`protocol`); a legacy requester is this code's requester without the
half-close, and stands for a client that speaks 1.0.0 only.  This code's requester
offers both framings and falls back to 1.0.0 when the other end, which is then
other code, knows no better (`Framings`).  The responder's write may fail after a
part of the answer (`PartWritten`), as its reads may.

**PeerCache**: the file is its entries and its length, which is what decides
whether a shorter write over a longer file leaves it parseable; the length of a
list of entries is a constant, `Size`, since a timestamp's text varies in length.  `OpenFile` and
`WriteFile` are the two steps of `os.WriteFile`, and each may fail: the file stays
as it was if it cannot be opened, and a write may stop after any number of bytes
(`PartWritten`).  A part of a text, alone or over another text, is taken not to
parse.  `Stop` ends the process anywhere; `Start` loads, evicts and dials, or
dials nobody if the file cannot be read.

**Discovery**: `discoverPeers` (`Loop`) and `waitForDHTAndAdvertise`
(`Waiter`).  `Advertise` succeeds exactly if the routing table has a peer and
the context lives, which is what the provider needs.  `Searches` are slots for
the goroutines of `processPeerDiscovery`: each is in its `select` or inside
`host.Connect`, which it calls itself.  The calls are its environment: `Join`
stores a topic at any moment, `Signal` puts a token for a stored topic any number
of times, since every subscription signals once, or never, if pubsub refuses the
subscription.

**Bus** composes `Discovery` and `Subscriptions`, which share `client.ctx`,
`client.topics` and `client.discoverNow`.  In each of them the other is an
environment that acts at any moment (`Join`, `Signal`, `Close` here; `TakeToken`
there); in `Bus` a step is a step of the calls (`CallStep`) or of the goroutines
of discovery (`DiscoveryStep`), and `signalled` is no longer a guess but the
topics of the subscriptions past `TriggerDiscovery`.  `BusProofs` proves that the
composition implements both modules, so that what is proved or checked of
either module without fairness holds of the client they make up.

**PeerMaintenance**: `connectToManagedPeers` and `maintainPeerSet` for both
pools; every dial is a goroutine of its own.

**Configuration**: what the other functions of `NewClient` compute from a
`Config`, as operators named after them.  An entry of a peer list is what the
code reads from it: the first and the last peer ID it names, and whether it must
be resolved.  A resolver's answer is an argument, so that two resolutions of one
entry may differ.

**ClientSetup** composes them: `NewClient` is a program counter (`stage`) with one
action per call that may fail, acquire something or start a goroutine.

| TLA+ | Go |
|---|---|
| `held` | what would leak: the context until it is cancelled, the connection manager (`connmgr`) and the resource manager (`limits`) until a host owns them, the host, the DHT, the mDNS service |
| `static`, `bootstrap`, `allowed`, `limits`, `direct` | `staticPeers`, `bootstrapPeers`, the allowlist, the limits of the resource manager, pubsub's direct peers |
| `CheckArguments`, `ParseStatic`, `resolveAllowlist` | up to the host options, in the order of the code |
| `buildHostOptions` | its three error returns: `NewConnManager` (negative grace period), an announce address, the limits; the gater is built from constants and cannot fail |
| `createHost`, `initDHT` | `libp2p.New`, which takes over both managers whether it succeeds or not; `dht.New` and `Bootstrap`, two errors that leave different things behind |
| `DialPool` | `connectToManagedPeers` of `PeerMaintenance` |
| `loadAndConnectCachedPeers`, `cachedDials`, `CachedDialEnds` | one dial per cached peer that is not connected (`config.cached`, what the load of `PeerCache` returns), and its end |
| `StartLoop`, `Returns` | the `go` statements at the end; `Loop`, `DialEnds` and `Network` are the steps of `PeerMaintenance`, which from `DialPool` on interleave with construction |
| `Validate` | `allowlistValidator`, registered if the allowlist is enabled |

It takes `PeerMaintenance` in as an `INSTANCE` and implements it
(`ClientSetupProofs`): a construction that fails is its `Close`.

MC modules (`MC*.tla`) define symmetry sets and constant values and nothing
else; `MCClientSetup` defines the configurations that the run starts from.

## 3. Runs

Runs without liveness use `Spec` (no fairness), the others a fair
specification.  Deadlock is checked in every run but four: in `Drop`, `Tracker`
and `Limiter` a bound on time or on messages ends the run, and in `Maintenance` a
client whose construction failed, or that was closed, stops.  The other modules
either run for ever or have an action `Terminated` that is enabled only when
every goroutine has returned, so a set of goroutines waiting for each other is
reported.

Where a module's type invariant is a conjunct of an invariant that is inductive,
the run checks that conjunction under the name `IInv` (`LookupInv`).

| Run | Instance | Properties | Shows |
|---|---|---|---|
| `SubSafety` | 2 Subscribe, 1 Publish, 1 Close, 1 topic, 2 messages of which one is skipped | `IInv`, `NoChannelPanic`, `TeardownAfterReaders`, `TopicsMatchPubsub`, `OpenUntilShutdown`, `NoAddWhileWaiting`, `ImplementsStream` | the disciplines of the WaitGroup, the channels, the topic map and the teardown, in every interleaving; skipped messages never reach a consumer |
| `SubLive` | 1 Subscribe, 2 Close, 2 messages; readers without fairness | `CloseReleasesHost`, `CloseEndsStreams`, `DeliveredIsTaken` | every Close returns even if the reader is stuck; with readers that run, channels end and messages arrive, in order |
| `SubJoinRace` | 2 Subscribe on one topic | `ClosedOnlyByClose` (violated) | section 4, item 1 |
| `Drop` | 3 workers, 4 drops, interval 2, 5 ticks | `IInv` (with `NoCountLost`), `RateBounded`, `MarkersSpaced` | no drop is lost; claims for a line are an interval apart |
| `Tracker` | 3 readers, 2 authors, threshold 2, 6 messages | `IInv` (with `WarnedOnce`, `ListedPeersHaveNames`), `OverrunBounded` | one warning per author; what is still handled past the threshold is what other readers held already |
| `Limiter` | 2 handlers, 2 peers, window 3, budget 2, lag 1, 6 ticks, 7 requests | `IInv` (with `MapBounded`), `SlidingBound`, `WarnedOncePerWindow` | with clock readings out of order, a stretch of time sees two budgets at most, a window one warning, and the map only live windows |
| `Lookup` | 2 peers, 2 lookups, retry after 2 scans | `LookupInv` (with `MarksMatchLookups`, `OneLookupPerTarget`), `LookupsEnd`, `LookedUpAgain` | one lookup per target, none left marked; lookups end and are repeated |
| `Exchange` | both framings with the fallback, foreign ends, calm and rough streams, writes that fail half-way, every address book out of 3 direct addresses and a relay circuit | `IInv` (the read limits, and that nothing in flight is lost), `AnswersTarget`, `CleanEndIsWhole`, `BothEnd`, `Answered` | a success is the right peer's direct addresses, all or as many as may be shared; no end is pinned; old and new requesters are answered |
| `Cache` | 2 peers with entries of different size, 2 savers whose opens and writes may fail, TTL 1, 2 ticks | `TypeOK`, `LastSeenTruthful`, `NeverWiped`, `LoneSaveRepairs`, `DialsRecentPeers` | `LastSeen` never claims too much; a save that runs alone and without an error leaves a file that parses, whatever it found |
| `CacheOverlap` | the same | `SavesCompose` (violated) | section 4, item 2 |
| `Discovery` | 2 topics, 1 search at a time, DHT on and off | `IInv` (with `NoSignalLost`, `LoopRuns`), `JoinedIsSearched`, `SubscribedIsAdvertised`, `SearchesEnd` | signals that fall together in the one-slot channel are not lost; every topic is searched for; no goroutine of a search stays |
| `Maintenance` | `NewClient` over some 70 configurations in four families, 2 peers, any DNS answer; 2 pools that share a peer | `IInv` (`SetupOrder`: what may be held at each stage; `LimitsValid` and `LimitsInForce`), `FailureReleases`, `TrustFromConfig`, `StaticLinksTrusted`, `KeepsReconnecting` | no error path leaves a host, a resource manager, a live context or a dial that can succeed (a DHT or a connection manager it may, section 4, items 8 and 14); publishers and direct peers come from the configuration; a peer lost after the fast phase is still redialled |

### Why the bounds are enough

- *Calls.*  Two Subscribe calls on one topic are what the join race and the
  shared WaitGroup need; subscriptions to different topics share less.  Two
  Closes are what overlapping teardown needs.  That a second subscription
  overwrites the first in `client.subs` needs no second call in `SubLive`:
  `CancelSubs` may miss any subscription.  The proofs of section 5 remove the
  bound for the properties they cover.
- *Capacities.*  `ChanCap` and `BufCap` are 1: with two messages the
  channel is full, the reader waits in its send and pubsub's buffer overflows.
- *Time.*  `Drop` has room for three log intervals; `Limiter` for two
  windows and the start of a third; `Cache` for a peer to be seen, go
  away and expire.  In `Lookup` the retry interval passes while a lookup still
  runs, so a second goroutine for the same target meets the first.
- *Budget.*  `Limiter` has a budget of 2: with a budget of 1 the requests of one
  window cannot be apart in time, and a bound on too long a stretch would pass.
- *Lag.*  A handler reads the clock and may be descheduled before it takes the
  lock, so a window may start at a reading that is `MaxLag` old and end at a
  call whose reading is.  `SlidingBound` is therefore about a stretch that is
  shorter than a window by twice the lag; about a whole window two budgets would
  not do, since three windows may have a grant in it.  The window is a minute in
  the code and the lag is a mutex away; no code bounds the lag.
- *Dials.*  `MaxDials` bounds the dials of one peer under way; libp2p merges
  concurrent dials to a peer, so more of them add no behaviour.
- *Searches.*  Searches share nothing but the slot, so one slot shows what each
  of them does; `FindPeers` may find it taken, as it may fail.  Modes "client"
  and "server" do not differ in this code (section 4), so the run has one of them.
- *Configurations.*  Each family varies what one part of `NewClient` reads and
  takes the rest from `Base`: the parts share the context, the host and the
  parsed lists, which every family has.  Entries name a peer directly, through a
  relay, by /dnsaddr/ with and without an ID, or not at all; limits lie below, at
  and above the total in force, set and auto-scaled, and are negative or zero.
- *Exchange.*  A request is 2 units of at most 3, an answer has at most 2 of
  up to 3 direct addresses: every cap can be met and passed by one, a proper
  prefix of an ID exists, and one relay circuit is there to be left out.

### Fairness and why the code justifies it

- Go schedules every runnable goroutine, so the steps of a goroutine of this
  package are weakly fair (`ReaderStep`, `CloseStep`, `LookupStep`, `ReqStep`,
  `RespStep`, `LoopStep`).  Timers and tickers fire (`ReadersTimeout`, the
  timeout in `CloseReturns`, `Scans`, the deadlines within `ReqStep` and
  `RespStep`, `FastPhaseEnds`).
- `FairSpec` of `Subscriptions` gives the readers no fairness at all: `Close`
  must return although a reader never does.  The two properties that need
  readers to run and consumers to receive have `ReaderFairness` as a
  hypothesis.  Nothing is assumed of pubsub, of new calls or of `Close` being
  called.
- `Discovery` has strong fairness of `TakeToken`, `SearchTick` and `TimesOut`.
  They are cases of a `select`, which chooses uniformly among the ready cases, so
  a case that is ready again and again is chosen.  Nothing is assumed of the
  channel of a search: it may never close and never fall silent.
- `NewClient` has no fairness: it is the caller's goroutine, and a DNS lookup in
  it cannot be cancelled.
- A foreign end of a stream, the network and the routing table have no
  fairness; `KeepsReconnecting`, `LookedUpAgain` and `SubscribedIsAdvertised`
  state what they need of the network as `<>[]` or `[]` in the property itself.
- Dials return (`DialEnds`, `ConnectReturns`, `tryConnectToTopicPeer`): `host.Connect` gets the
  client's context, which has no deadline, but libp2p bounds every dial itself.

## 4. Disagreements between the code and its documentation

Two are runs in which TLC finds a behaviour of the code that a comment rules
out.

1. `SubJoinRace` - two `Subscribe` calls on a new topic race in the lookup and
   join (717-728): the second `Join` fails, and that subscription's channel is
   closed while the client is open.  The comment of `Subscribe` says that the
   channel is closed when the client is closed.  `OpenUntilShutdown` and
   `TopicsMatchPubsub` say what holds nevertheless: the loser received nothing,
   the other channels stay open, and the topic map is intact.
2. `CacheOverlap` - overlapping `savePeerCache` goroutines can leave a cache file
   that does not parse, so the next start has no cached peers: `SavesCompose` counts
   only saves that return without an error.  A crash between truncation and write
   breaks the file as well, and so does a write that fails after the truncation,
   on a full disk say, whose error is only logged (1741-1743).  `LoneSaveRepairs`
   says what holds nevertheless: the next save that opens the file alone, and ends
   without an error or an overlap, leaves a file that parses.

Others were met while modelling.  The modules follow the code; no run is spent
on them.

3. `recordDrop` reads the clock before the CompareAndSwap and logs after it, so a
   worker that is descheduled in between can log its line right before the next
   interval's, although the comment (`allowlist.go` 174-175) promises one line per
   interval.  The markers are an interval apart (`MarkersSpaced`).
4. `pruneRequested` (1217-1218) says that the retry map is bounded by the current
   topic peers, but `peerTracker.topicPeers`, which it is pruned against, only grows.
5. `savePeerCache` (1373-1382) loads the old file "to preserve LastSeen for peers
   not currently connected" into a map that nothing reads: `Stamp` has no effect
   but the clock reading.
6. With `DHTMode: "client"`, documented as "doesn't advertise" (`config.go` 183),
   the discovery goroutines run and advertise as in server mode.
7. An advertisement that fails while the routing table is empty is only logged
   (978-993); the ticker repeats the search but not the advertisement, and
   `waitForDHTAndAdvertise` gives up after 10 s.  `SubscribedIsAdvertised`
   therefore assumes a routing table that is always in use.
8. No error path of `NewClient` closes the DHT: neither `setupDHT` after
   `Bootstrap` fails (569-573) nor `NewClient` after pubsub fails (209-221), though
   both close the host under it.  `FailureReleases` has it as an exception.
9. The comment of `directPeers` (`scoring.go` 227-229) says that the publisher
   allowlist used the parsed static peers; `newPeerAllowlist` reads their text
   only.  With /dnsaddr/ entries a direct peer may therefore be one whose messages
   the node drops, which the comment means to exclude.
10. `BootstrapPeers` are resolved twice, for dialling (288-300) and for the direct
   peers (`scoring.go` 236), so a dialled bootstrap peer need not be a direct peer.
   `buildPubSubOptions` says that a graylisted score "can never eclipse a static or
   bootstrap link" (198-199); `StaticLinksTrusted` states it for static links.
11. `ResourceLimits` (`resource_limits.go` 20-24) promises that an inbound limit
   above its auto-scaled total makes `NewClient` fail.  `PeerStreamsInbound` is not
   among the pairs that `checkDirectionalLimits` compares, so it is accepted above
   the total of a peer's streams.
12. With `MaxConnections` below 25 and no `MinConnections`, the low water mark (25)
   is above the high one (462-475).
13. A topic peer may be without the tag that `config.go` says protects "high-value
   peers (topic mesh peers)" from pruning: `ConnectedF` looks once, 500 ms after the
   connection, nothing tags a peer that was connected before `Subscribe`, and
   `DisconnectedF` untags when one of several connections closes (748-777).
14. The comment in `buildHostOptions` (448-449) says why no error return may follow
   the construction of the resource manager: it starts a goroutine.  So does the
   connection manager, which is built first (407): the returns for an announce
   address (436-438) and for the limits (452-455) leave it running, and nothing can
   close it any more.  `FailureReleases` has it as its other exception; it says that
   no other failure leaves it, and that the resource manager is never left.

## 5. Proofs

Checked by TLAPS (`tlapm`), for every value of the constants that satisfies the
module's assumptions.

**SubscriptionsProofs.**  Assumptions: finitely many `Subscribe` calls
(`SubscribersFinite`, for the cardinality in `WaitGroupCounts`), Subscribe and
Publish calls are different calls, `None` is nothing else, skipped messages are messages.
No bound on calls, topics, messages or capacities.

The properties are not inductive by themselves.  The inductive invariant is

    IInv == TypeOK /\ WaitGroupCounts /\ ChannelsFollowReaders /\ CloseOrder

and each conjunct is there for a reason:

- `WaitGroupCounts` (the counter is the number of admitted readers) makes
  `readers - 1` a natural number in `ReaderDone`, and turns "`Wait` returned"
  into "no reader is active";
- `ChannelsFollowReaders` (a channel is closed exactly when its reader is past
  its deferred close, or the call was refused) gives `NoChannelPanic`;
- `CloseOrder` links the three goroutines of a Close: the flag is set before
  the context is cancelled, that before the wait begins, and a wait that has
  returned found the counter at zero - and it stays there, because a closed
  client admits no reader (`ClosedAddsNoReader`).  It gives
  `TeardownAfterReaders` and `NoAddWhileWaiting`.

The proof has one lemma per group of actions and conjunct (`ReaderTypes`,
`CloseTypes`, `WaitGroupStep`, `ChannelStep`, `CloseOrderStep`, ...), then
`Invariance`, then the corollaries `TypeCorrect`, `WaitGroupCorrect`, `NoPanic`,
`CleanTeardown` and `WaitGroupNotReused`.

Three more theorems add an inductive invariant each:

- `OpenCorrect`: before the context is cancelled no Close has done anything, so a
  reader that is outside its loop has never been in it, and nothing has reached
  its consumer (`QuietUntilShutdown`);
- `TopicsCorrect`: a topic that is joined but not stored belongs to one goroutine,
  which will store it (`OneJoiner`), however many find it missing;
- `Refinement`, `Spec => ImplementsStream`: a skipped message gets no further than
  the reader's hands, and a reader that has not subscribed has nothing buffered
  (`Sifted`).  There is a lemma per group of actions that says which step of
  MessageStream it is: `LoopMaps` (a handled message is a `Skip` or a stutter),
  `LeaveMaps` (`Abandon`, `End`), `SubscribeMaps` (`Open`, `Refuse`), `ConsumeMaps`
  (`Take`), `DeliverMaps` (`Accept`), `OthersMap`; `LocalStream` says that
  the step of one subscription moves no other stream.

**DropReporterProofs.**  Assumptions: the interval is positive and the bounds
are natural numbers.  `IInv == TypeOK /\ NoCountLost /\ ReadingsPast /\ ClaimsSpaced`.
`ReadingsPast` says that a worker about to compare holds a reading an interval
past the marker it loaded; so a CompareAndSwap that finds that marker unchanged moves
it on by an interval (`WinnerAdvances`), which is `MarkersSpaced`, and
`ClaimsSpaced`, from which `RateBounded` follows.

**BusProofs.**  First `Discovery` alone, with no assumption but the one on the
modes' names.  `IInv == TypeOK /\ NoSignalLost /\ LoopRuns` is inductive:
`StartAdvertising` copies `topics`, which contains every signalled topic, a topic
leaves a copy only by being advertised, and the loop that takes the signals ends
only with the context.  Theorems `Invariance` and `SignalsReachLoop`.

Then the composition, under the assumptions of both modules.  Neither module's
environment is what the other does at first sight: `Signal` needs a topic that is
stored, which the signalling goroutine did several steps earlier.  The invariant
that connects them is `CallsInOrder`, and each conjunct of it is needed by one
mapping of a step:

- a call under way keeps its topic, and a reader that is about to subscribe or to
  signal has its topic in `client.topics`: so `TriggerDiscovery` is a `Signal`,
  whatever other calls joined in between;
- only calls under way have watchers, so `Subscribe` and `Publish`, which set
  `topicOf`, change no signalled topic;
- a Close has set `client.closed` before it cancels the context: so `CloseCancel`,
  also the second one, is a `Close` or a stutter, and an open client has a live
  context.

`OrderInvariant` is its invariance, by one lemma per group of actions
(`JoinMaps`, `RestMaps`, `DeliveryMaps`, `CloseMaps`), which also say which
step of `Discovery` each step of a call is.  `ImplementsDiscovery`, `BusSpec =>
Spec`, and `ImplementsSubscriptions`, `BusSpec => Client!Spec`, follow.
`NoSubscriptionForgotten` is what the two modules show only together: until
Close is called, the topic of every subscription that has signalled is
advertised, in the pass under way, or sure to be in the next
(`SubscriptionsReached`).  It combines `NoSignalLost` with `CallsInOrder`, and
needs `LoopRuns`: while the client is open there is a loop to take the token.

**ClientSetupProofs.**  Assumptions: the two pools, a positive `MaxDials`, and
configurations of the right types whose entries name peers or nothing; any
number of configurations, peers and entries, and any DNS answer.
`IInv == TypeOK /\ SetupOrder /\ LimitsValid /\ LimitsInForce`, of which the first
three are inductive.

- `SetupOrder` says what may be held at each stage, which is what makes the
  list of handles that each error path closes long enough: `FailsKeeps` needs
  only that everything held at that stage but the DHT and the context is
  closed, and that a connection manager comes from a Config that
  `buildHostOptions` refuses.  Its last conjunct, no dial before the host exists, keeps a client
  without a name, whose context nobody cancels, from connecting.
- `LimitsValid` carries the verdict of `buildResourceManager` to the host;
  `AcceptedLimits` derives `LimitsInForce` from it: a set part is below the total
  in force because `checkDirectionalLimits` compares with `Effective`.
- `LoopTypes` and `LoopFrame` say what the steps of `PeerMaintenance` preserve.
- `Settled` says what has been worked out of the Config from which stage on, and
  that it stays as it is: the parsed static peers, the allowlist, the static pool,
  the direct peers, and the verdicts given so far.

Theorems: `Invariance`; `FailureReleasesAll`; `TrustCorrect` and `LinksCorrect`, from
`Settled`; and `Refinement`, `Spec => Maintenance!Spec`, step by step with `IInv` for the one fact that is not visible
in the actions: the context is still live when NewClient fails, so that a
failure is a `Close` and not a second one.

**PeerTrackerProofs.**  Assumptions: finitely many readers, a positive threshold,
and this host is not one of the remote authors.  The inductive invariant is
`IInv` and `OverrunBounded` with two more facts: `Named`, a reader that has
decoded a message has stored its author's name, and `NoneLateYet`, nothing counts
as late before the author is skipped.  The reader whose message reaches the
threshold is past the check itself and leaves with that step (`OthersPastCheck`),
so at most the other readers are left, and each of them adds one to the count or
to the late messages as it leaves (`DoneCounted`); a skipped author's
messages no longer pass the check.  Theorems `Invariance` and `Overrun`.

**AddressLimiterProofs.**  Assumptions: positive window and budget, natural bounds.
`Typed` is `IInv`, the bound on the lag, and that the peers in the map
have had a window; it is inductive and gives `Invariance`.  `Refusals` ties the two
history counts to the window's counter (`WarnedOnce`).  `Sliding` rests on `Spread`:

- `GrantsPlaced` places every grant in time by its window: a grant of the current
  window is not later than the window's end and a lag, one of an earlier window
  not later than the current window's start and two lags;
- `GrantsDistinct`: no two grants are the same of their window, so that a window
  has at most `Budget` of them (an injection into `1..Budget`, `OneWindow`);
- `GrantsApart`: grants two windows apart are further apart in time than the
  stretch is long, so that a stretch meets two windows at most (`TwoWindows`).

**AddressProofs.**  The stream (`AddressExchange`), for any finite book, any
relay circuits, any kinds of ends, and sizes of which the assumption `Sizes` says
that a request fits its limit with at least two units and the largest shared
answer fits the response limit.
`IInv == TypeOK /\ RequestWhole /\ ResponseWhole` is inductive:

- `RequestWhole` and `ResponseWhole` count: what is in flight and what has been
  read never exceed what was written, so a reader that has read as many units as
  were written has read them all;
- a client that answers has decoded `Target`: a request of this code's requester
  that is shorter than an ID is caught by `LongEnough`, a longer one cannot be;
- once the responder has closed its side the answer is complete, and a requester
  that parses has read to that end.

`SharedAddresses` says what `directPeerAddresses` returns, `ReadFits` what a read
takes; then one lemma per end (`RequesterKeeps`, `ResponderKeeps`,
`ForeignKeeps`).  Theorems `Invariance`, `AnswerCorrect` and `CleanEndCorrect`.

The goroutines (`AddressLookup`).  Assumptions: a positive retry interval, and
`NoPeer` is no peer.
`LookupInv == LookupTypeOK /\ MarksMatchLookups /\ OneLookupPerTarget` is inductive: the winner of `beginAddrLookup` tests and marks in one step, so nobody
else runs for its target; and the goroutine that clears a mark was alone with it,
because of the exclusion.  A scan starts only goroutines that hold nothing
(`ScanEffect`).  Theorem `LookupInvariance`.

**PeerCacheProofs.**  Assumptions: the TTL is an integer, the clock has a bound, and
a file's length is a natural number.  The inductive invariant is the four run
invariants with three more facts: `Past`, no connection lies in the future;
`Stamped`, the entries that a saver holds bear its own time, and their peers were
connected then or later, because `HasConns` is read after the clock; `Alone`, since the last
truncation that found no writer and until another save opens the file, there is one
writer at most and the file it writes to is empty.  `WrittenTyped` says that whatever
a write leaves, whole, partial or over a tail, is a file.  Theorems
`TypeCorrect`, `SeenCorrect`, `KeptCorrect`, `RepairCorrect`; and `DialsCorrect`, the
action property `DialsRecentPeers`, from `LastSeenTruthful` in the state before.

*Only model-checked*: the liveness properties, since fairness and `ENABLED` are out
of the prover's reach.  Every invariant and every action property that a passing
run checks is proved as well, and so are the refinements of `MessageStream` and
`PeerMaintenance`.  `KeepsReconnecting`, `CloseReleasesHost` and the other liveness
properties are therefore known for the instances of section 3 only.

*Only proved*: `Bus`.  Its state space is the product of two modules that each
fill a run, so the composition has no run of its own; the parts have, and the
theorems carry over.

## 6. What is not modelled, and why

- libp2p, pubsub, DHT and mDNS themselves: outside the repository.  `ClientSetup`
  assumes of libp2p that a connection manager runs from its construction until it
  is closed, and that `libp2p.New` closes both managers when it fails.  How the
  connection manager and the resource manager enforce the limits that they are
  given is theirs, too.
- Connection tags (748-777): state of libp2p's connection manager that nothing in
  the package reads, so that no step of the package depends on it.  The delay and
  the save of the same callback are in `PeerCache`; section 4 has what the code of
  the tags does.
- Wording and volume of logs, except the drop line and the two warnings that
  have properties; `shouldLogConnectionError`; `sanitizePeerName`; the text of
  multiaddrs and keys: pure conversions without state.
- The numbers of `DefaultPeerScoreParams` and thresholds, the options that are
  passed through (ports, NAT, protocol version, peer exchange, inspection
  callback) and the private-address gater's list: values for libp2p and pubsub.
- `Connect`, the mDNS notifee and `cmd/example`: one call each, no state.
- `testMode` of `selectBootstrapPeers`: a test binary, not the program.

## 7. Plan

The model covers the components that have state of their own, and every safety
property that is checked is proved.  What is left:

- composition of `AddressLookup` with `AddressExchange` and `AddressLimiter` of
  another client (a lookup here is a request there), so that `LookedUpAgain`
  could be stated across two clients, with the limiter between them;
- further abstract specifications: an exact rate counter for `DropReporter`, an
  atomic file for `PeerCache` with one saver.

## Running the checks

    tlc -workers 2 -config SubSafety.cfg MCSubscriptions.tla
    tlapm SubscriptionsProofs.tla

A run's module and cfg are listed under `runs` in `PROJECT.json`.
