-------------------------- MODULE ClientSetupProofs --------------------------
(***************************************************************************)
(* What NewClient leaves behind, and what it promises of the client it     *)
(* returns, for every set of configurations, peers and DNS answers.        *)
(***************************************************************************)
EXTENDS ClientSetup, TLAPS

-----------------------------------------------------------------------------
(* The pure functions of the configuration.                                *)

\* Whatever the resolver answers, a list yields peers.
LEMMA ParsedArePeers ==
    ASSUME NEW list, \A e \in list : e.last \in Peers \cup {NoPeer},
           NEW answer \in SUBSET Peers
    PROVE  parsePeerMultiaddrs(list, answer) \subseteq Peers
  BY DEF parsePeerMultiaddrs

LEMMA SelectedArePeers ==
    ASSUME NEW c \in Configs, NEW answer \in SUBSET Peers
    PROVE  selectBootstrapPeers(c, answer) \subseteq Peers
  BY ParsedArePeers, PeersDistinct, ConfigsTyped DEF selectBootstrapPeers

\* The limits in force are natural numbers if the overrides are valid.
LEMMA EffectiveType ==
    ASSUME NEW c \in Configs,
           isZero(c.limits) \/ buildResourceManager(c.limits, HighWater(c))
    PROVE  /\ Effective(c.limits) \in [counts -> Nat]
           /\ isZero(c.limits) => Effective(c.limits) = AutoScaled
<1>1. c.limits.count \in [counts -> Int] /\ AutoScaled \in [counts -> Nat]
  BY ConfigsTyped, LimitsTyped
<1>2. \A f \in counts : c.limits.count[f] >= 0
  BY <1>1 DEF isZero, buildResourceManager, validate
<1>3. Effective(c.limits) \in [counts -> Nat]
  BY <1>1, <1>2 DEF Effective
<1>4. QED
  BY <1>1, <1>3 DEF Effective, isZero

\* A set limit that buildResourceManager accepts is neither above its total in
\* force nor below the high water mark.
LEMMA AcceptedLimits ==
    ASSUME NEW c \in Configs,
           isZero(c.limits) \/ buildResourceManager(c.limits, HighWater(c))
    PROVE  /\ \A part \in DOMAIN TotalOf :
                 c.limits.count[part] # 0
                   => Effective(c.limits)[part] <= Effective(c.limits)[TotalOf[part]]
           /\ c.limits.count["Conns"] # 0 => Effective(c.limits)["Conns"] >= HighWater(c)
<1>1. c.limits.count \in [counts -> Int] /\ DOMAIN TotalOf \subseteq counts /\ "Conns" \in counts
  BY ConfigsTyped DEF TotalOf, counts
<1>2. CASE isZero(c.limits)
  BY <1>1, <1>2 DEF isZero
<1>3. CASE buildResourceManager(c.limits, HighWater(c))
  <2>1. /\ \A f \in counts : c.limits.count[f] >= 0
        /\ c.limits.count["Conns"] > 0 => c.limits.count["Conns"] >= HighWater(c)
        /\ \A part \in DOMAIN TotalOf : c.limits.count[part] > 0 => WithinTotal(c.limits, part)
    BY <1>3 DEF buildResourceManager, validate, checkDirectionalLimits
  <2>2. c.limits.count["Conns"] # 0 => Effective(c.limits)["Conns"] >= HighWater(c)
    BY <1>1, <2>1 DEF Effective
  <2>3. \A part \in DOMAIN TotalOf :
           c.limits.count[part] # 0
             => Effective(c.limits)[part] <= Effective(c.limits)[TotalOf[part]]
    BY <1>1, <2>1 DEF WithinTotal
  <2>4. QED
    BY <2>2, <2>3
<1>4. QED
  BY <1>2, <1>3

-----------------------------------------------------------------------------
(* Types and the order of construction.                                    *)

Order == TypeOK /\ SetupOrder /\ LimitsValid

LEMMA InitEstablishes == Init => Order
<1> SUFFICES ASSUME Init
             PROVE  Order
  OBVIOUS
<1>1. Maintenance!TypeOK
  <2>1. 0 \in 0 .. MaxDials
    BY PoolsKnown
  <2>2. dials \in [Pools -> [Peers -> 0 .. MaxDials]]
    BY <2>1 DEF Init, Maintenance!Init
  <2>3. QED
    BY <2>2 DEF Init, Maintenance!Init, Maintenance!TypeOK
<1>2. TypeOK
  BY <1>1, LimitsTyped DEF Init, TypeOK, Stages, Maintenance!Init
<1>3. SetupOrder /\ LimitsValid
  BY DEF Init, SetupOrder, LimitsValid, MayHold, Maintenance!Init
<1>4. QED
  BY <1>2, <1>3 DEF Order

\* Every error return, from wherever it is taken.
LEMMA FailsKeeps ==
    ASSUME Order,
           NEW from \in Stages \ {"arguments", "loops", "running", "closed", "failed"},
           NEW acquired \in SUBSET {"connmgr", "dht"}, NEW closed,
           MayHold(from) \ closed \subseteq {"context", "dht"},
           "connmgr" \in acquired => config.grace /\ OptionsRejected,
           "dht" \in acquired => config.dht # "off",
           Fails(from, acquired, closed)
    PROVE  Order'
<1>1. TypeOK'
  BY DEF Fails, Goto, Order, TypeOK, Stages, derived, verdicts, Maintenance!TypeOK,
         Maintenance!PassPCs
<1>2. SetupOrder'
  <2>1. /\ stage' = "failed" /\ stage = from /\ ctxDone' /\ connected' = {}
        /\ held' = (held \cup acquired) \ (closed \cup {"context"}) /\ config' = config
    BY DEF Fails, Goto
  <2>2. held \subseteq MayHold(from) /\ ("dht" \in held => config.dht # "off")
    BY <2>1 DEF Order, SetupOrder
  <2>3. OptionsRejected' = OptionsRejected
    BY <2>1 DEF OptionsRejected, LimitsRejected
  <2>4. held' \subseteq {"connmgr", "dht"} /\ ("dht" \in held' => config.dht # "off")
    BY <2>1, <2>2
  <2>5. "connmgr" \in held' => config.grace /\ OptionsRejected
    BY <2>1, <2>2
  <2> QED
    BY <2>1, <2>3, <2>4, <2>5 DEF SetupOrder, MayHold
<1>3. "host" \notin held'
  BY DEF Fails, Goto, Order, SetupOrder
<1>4. LimitsValid'
  BY <1>3 DEF LimitsValid, Fails, Goto
<1>5. QED
  BY <1>1, <1>2, <1>4 DEF Order

-----------------------------------------------------------------------------
(* NewClient up to the host.                                               *)

LEMMA ArgumentsKeep ==
    ASSUME Order, CheckArguments
    PROVE  Order'
<1>1. TypeOK'
  BY DEF CheckArguments, Goto, Order, TypeOK, Stages, derived, verdicts, pools,
         Maintenance!TypeOK, Maintenance!PassPCs
<1>2. SetupOrder'
  BY DEF CheckArguments, Goto, Order, TypeOK, SetupOrder, MayHold, pools
<1>3. LimitsValid'
  BY DEF CheckArguments, Goto, Order, SetupOrder, MayHold, LimitsValid, derived
<1>4. QED
  BY <1>1, <1>2, <1>3 DEF Order

LEMMA ParseStaticKeeps ==
    ASSUME Order, NEW answer \in SUBSET Peers, ParseStatic(answer)
    PROVE  Order'
<1>1. static' \subseteq Peers
  BY ParsedArePeers, ConfigsTyped DEF ParseStatic, Order, TypeOK
<1>2. TypeOK'
  BY <1>1 DEF ParseStatic, Goto, Order, TypeOK, Stages, verdicts, pools,
              Maintenance!TypeOK, Maintenance!PassPCs
<1>3. SetupOrder'
  BY DEF ParseStatic, Goto, Order, SetupOrder, MayHold, pools
<1>4. LimitsValid'
  BY DEF ParseStatic, Goto, Order, SetupOrder, MayHold, LimitsValid
<1>5. QED
  BY <1>2, <1>3, <1>4 DEF Order

LEMMA AllowlistKeeps ==
    ASSUME Order, resolveAllowlist
    PROVE  Order'
<1>1. CASE Fails("allowlist", {}, {})
  BY <1>1, FailsKeeps DEF Stages, MayHold
<1>2. CASE /\ ~AllowlistRejected(config)
           /\ Goto("allowlist", "hostOptions")
           /\ allowed' = newPeerAllowlist(config)
           /\ UNCHANGED <<config, held, static, bootstrap, limits, direct, verdicts, ctxDone, pools>>
  <2>1. StaticPublisherIDs(config) \subseteq Peers
    BY ConfigsTyped DEF StaticPublisherIDs, SplitAddr, Order, TypeOK
  <2>2. allowed' \subseteq Peers \cup {Self}
    BY <1>2, <2>1, ConfigsTyped DEF newPeerAllowlist, AllowlistRejected, Order, TypeOK
  <2>3. TypeOK'
    BY <1>2, <2>2 DEF Goto, Order, TypeOK, Stages, verdicts, pools, Maintenance!TypeOK,
                      Maintenance!PassPCs
  <2>4. SetupOrder'
    BY <1>2 DEF Goto, Order, SetupOrder, MayHold, pools
  <2>5. LimitsValid'
    BY <1>2 DEF Goto, Order, SetupOrder, MayHold, LimitsValid
  <2>6. QED
    BY <2>3, <2>4, <2>5 DEF Order
<1>3. QED
  BY <1>1, <1>2 DEF resolveAllowlist

LEMMA HostOptionsKeep ==
    ASSUME Order, buildHostOptions
    PROVE  Order'
<1>1. CASE ~config.grace /\ Fails("hostOptions", {}, {})
  BY <1>1, FailsKeeps DEF Stages, MayHold
<1>2. CASE /\ config.grace /\ OptionsRejected
           /\ Fails("hostOptions", {"connmgr"}, {})
  BY <1>2, FailsKeeps DEF Stages, MayHold
<1>3. CASE /\ config.grace /\ ~OptionsRejected
           /\ Goto("hostOptions", "bootstrap")
           /\ held' = held \cup {"connmgr"} \cup (IF isZero(config.limits) THEN {} ELSE {"limits"})
           /\ limits' = IF isZero(config.limits) THEN limits ELSE Effective(config.limits)
           /\ UNCHANGED <<config, static, bootstrap, allowed, direct, verdicts, ctxDone, pools>>
  <2>1. isZero(config.limits) \/ buildResourceManager(config.limits, HighWater(config))
    BY <1>3 DEF OptionsRejected, LimitsRejected
  <2>2. config \in Configs
    BY DEF Order, TypeOK
  <2>3. limits' \in [counts -> Nat] /\ limits' = Effective(config.limits)
    BY <1>3, <2>1, <2>2, EffectiveType DEF Goto, Order, LimitsValid
  <2>4. TypeOK'
    BY <1>3, <2>3 DEF Goto, Order, TypeOK, Stages, verdicts, pools, Maintenance!TypeOK,
                      Maintenance!PassPCs
  <2>5. SetupOrder'
    BY <1>3 DEF Goto, Order, SetupOrder, MayHold, pools
  <2>6. LimitsValid'
    BY <1>3, <2>1, <2>3 DEF Goto, LimitsValid
  <2>7. QED
    BY <2>4, <2>5, <2>6 DEF Order
<1>4. QED
  BY <1>1, <1>2, <1>3 DEF buildHostOptions, OptionsRejected, BuiltBefore

LEMMA SelectBootstrapKeeps ==
    ASSUME Order, NEW answer \in SUBSET Peers, SelectBootstrap(answer)
    PROVE  Order'
<1>1. bootstrap' \subseteq Peers
  BY SelectedArePeers DEF SelectBootstrap, Order, TypeOK
<1>2. TypeOK'
  BY <1>1 DEF SelectBootstrap, Goto, Order, TypeOK, Stages, verdicts, pools,
              Maintenance!TypeOK, Maintenance!PassPCs
<1>3. SetupOrder'
  BY DEF SelectBootstrap, Goto, Order, SetupOrder, MayHold, pools
<1>4. LimitsValid'
  BY DEF SelectBootstrap, Goto, Order, LimitsValid
<1>5. QED
  BY <1>2, <1>3, <1>4 DEF Order

LEMMA CreateHostKeeps ==
    ASSUME Order, createHost
    PROVE  Order'
<1>1. CASE Fails("host", {}, {"connmgr", "limits"})
  BY <1>1, FailsKeeps DEF Stages, MayHold
<1>2. CASE /\ Goto("host", "dht")
           /\ held' = (held \ {"connmgr", "limits"}) \cup {"host"}
           /\ UNCHANGED <<config, derived, verdicts, ctxDone, pools>>
  <2>1. TypeOK'
    BY <1>2 DEF Goto, Order, TypeOK, Stages, derived, verdicts, pools, Maintenance!TypeOK,
                Maintenance!PassPCs
  <2>2. SetupOrder'
    BY <1>2 DEF Goto, Order, SetupOrder, MayHold, pools
  <2>3. LimitsValid'
    BY <1>2 DEF Goto, Order, LimitsValid, derived
  <2>4. QED
    BY <2>1, <2>2, <2>3 DEF Order
<1>3. QED
  BY <1>1, <1>2 DEF createHost

-----------------------------------------------------------------------------
(* DHT, dials and pubsub.                                                  *)

\* Once the host exists, a step that only goes on, and may acquire what the
\* next stage may hold, keeps the order of construction.
LEMMA ProgressKeeps ==
    ASSUME Order,
           NEW from \in {"dht", "pubsubOptions", "pubsub", "loops"},
           NEW to \in {"dialBootstrap", "pubsub", "loops", "running"},
           Goto(from, to), MayHold(from) \subseteq MayHold(to),
           from = "loops" => to = "running",
           NEW acquired \in SUBSET MayHold(to), held' = held \cup acquired,
           "host" \in acquired => "host" \in held,
           "dht" \in acquired => config.dht # "off",
           direct' \subseteq Peers,
           UNCHANGED <<config, static, bootstrap, allowed, limits, verdicts, ctxDone, pools>>
    PROVE  Order'
<1>1. TypeOK'
  BY DEF MayHold, Goto, Order, TypeOK, Stages, verdicts, pools, Maintenance!TypeOK,
         Maintenance!PassPCs
<1>2. held' \subseteq MayHold(to)
  BY DEF Goto, Order, SetupOrder
<1>3. SetupOrder'
  BY <1>2 DEF Goto, Order, SetupOrder, pools
<1>4. LimitsValid'
  BY DEF Goto, Order, LimitsValid
<1>5. QED
  BY <1>1, <1>3, <1>4 DEF Order

LEMMA InitDHTKeeps ==
    ASSUME Order, initDHT
    PROVE  Order'
<1>1. CASE /\ config.dht # "off"
           /\ Fails("dht", {}, {"host"}) \/ Fails("dht", {"dht"}, {"host"})
  BY <1>1, FailsKeeps DEF Stages, MayHold
<1>2. CASE /\ Goto("dht", "dialBootstrap")
           /\ held' = IF config.dht = "off" THEN held ELSE held \cup {"dht"}
           /\ UNCHANGED <<config, derived, verdicts, ctxDone, pools>>
  <2>1. held' = held \cup (IF config.dht = "off" THEN {} ELSE {"dht"})
    BY <1>2
  <2>2. direct' \subseteq Peers
    BY <1>2 DEF derived, Order, TypeOK
  <2>3. QED
    BY <1>2, <2>1, <2>2, ProgressKeeps DEF MayHold, derived
<1>3. QED
  BY <1>1, <1>2 DEF initDHT

LEMMA PubSubOptionsKeep ==
    ASSUME Order, NEW answer \in SUBSET Peers, buildPubSubOptions(answer)
    PROVE  Order'
<1>1. CASE Fails("pubsubOptions", {}, {"host"})
  BY <1>1, FailsKeeps DEF Stages, MayHold
<1>2. CASE /\ Goto("pubsubOptions", "pubsub")
           /\ direct' = IF ScoringOn(config) THEN directPeers(config, static, answer) ELSE {}
           /\ UNCHANGED <<config, held, static, bootstrap, allowed, limits, verdicts, ctxDone, pools>>
  <2>1. directPeers(config, static, answer) \subseteq Peers
    BY ParsedArePeers, ConfigsTyped DEF directPeers, StaticAsDialled, Order, TypeOK
  <2>2. direct' \subseteq Peers
    BY <1>2, <2>1
  <2>3. held' = held \cup {}
    BY <1>2
  <2>4. QED
    BY <1>2, <2>2, <2>3, ProgressKeeps DEF MayHold
<1>3. QED
  BY <1>1, <1>2 DEF buildPubSubOptions

LEMMA GossipSubKeeps ==
    ASSUME Order, NewGossipSub
    PROVE  Order'
<1>1. CASE Fails("pubsub", {}, {"host"})
  BY <1>1, FailsKeeps DEF Stages, MayHold
<1>2. CASE /\ Goto("pubsub", "loops")
           /\ held' = IF config.mdns THEN held \cup {"mdns"} ELSE held
           /\ UNCHANGED <<config, derived, verdicts, ctxDone, pools>>
  <2>1. held' = held \cup (IF config.mdns THEN {"mdns"} ELSE {})
    BY <1>2
  <2>2. direct' \subseteq Peers
    BY <1>2 DEF derived, Order, TypeOK
  <2>3. QED
    BY <1>2, <2>1, <2>2, ProgressKeeps DEF MayHold, derived
<1>3. QED
  BY <1>1, <1>2 DEF NewGossipSub

LEMMA ReturnsKeeps ==
    ASSUME Order, Returns
    PROVE  Order'
<1>1. held' = held \cup {} /\ direct' \subseteq Peers
  BY DEF Returns, derived, Order, TypeOK
<1>2. QED
  BY <1>1, ProgressKeeps DEF Returns, MayHold, derived

LEMMA DialPoolKeeps ==
    ASSUME Order, NEW k \in Pools, NEW P \in SUBSET Peers,
           NEW from \in {"dialBootstrap", "dialStatic"}, NEW to \in {"dialStatic", "dialCached"},
           DialPool(k, from, to, P)
    PROVE  Order'
<1>1. Maintenance!TypeOK'
  <2>1. 0 \in 0 .. MaxDials /\ 1 \in 0 .. MaxDials
    BY PoolsKnown
  <2>2. dials' \in [Pools -> [Peers -> 0 .. MaxDials]]
    BY <2>1 DEF DialPool, Maintenance!connectToManagedPeers, Order, TypeOK, Maintenance!TypeOK
  <2>3. \A j \in Pools : \A p \in Peers \ members'[j] : dials'[j][p] = 0
    BY DEF DialPool, Maintenance!connectToManagedPeers, Order, TypeOK, Maintenance!TypeOK
  <2>4. QED
    BY <2>2, <2>3 DEF DialPool, Maintenance!connectToManagedPeers, Maintenance!network, Order,
                      TypeOK, Maintenance!TypeOK
<1>2. TypeOK'
  BY <1>1 DEF DialPool, Maintenance!connectToManagedPeers, Goto, Order, TypeOK, Stages,
              derived, verdicts
<1>3. SetupOrder'
  BY DEF DialPool, Maintenance!connectToManagedPeers, Maintenance!network, Goto, Order,
         SetupOrder, MayHold
<1>4. LimitsValid'
  BY DEF DialPool, Goto, Order, LimitsValid, derived
<1>5. QED
  BY <1>2, <1>3, <1>4 DEF Order

\* The cache file lists peers.
LEMMA DialCachedKeeps ==
    ASSUME Order, loadAndConnectCachedPeers
    PROVE  Order'
<1>1. cachedDials' \subseteq Peers
  BY ConfigsTyped DEF loadAndConnectCachedPeers, Order, TypeOK
<1>2. TypeOK'
  BY <1>1 DEF loadAndConnectCachedPeers, Goto, Order, TypeOK, Stages, derived, verdicts,
              Maintenance!TypeOK, Maintenance!PassPCs
<1>3. SetupOrder'
  BY DEF loadAndConnectCachedPeers, Goto, Order, SetupOrder, MayHold
<1>4. LimitsValid'
  BY DEF loadAndConnectCachedPeers, Goto, Order, LimitsValid, derived
<1>5. QED
  BY <1>2, <1>3, <1>4 DEF Order

LEMMA StartLoopKeeps ==
    ASSUME Order, NEW k \in Pools, StartLoop(k)
    PROVE  Order'
<1>1. Maintenance!TypeOK'
  BY DEF StartLoop, Maintenance!maintainPeerSet, Maintenance!Goto, Maintenance!network,
         Order, TypeOK, Maintenance!TypeOK, Maintenance!PassPCs
<1>2. TypeOK'
  BY <1>1 DEF StartLoop, setup, derived, verdicts, Order, TypeOK
<1>3. SetupOrder' /\ LimitsValid'
  BY DEF StartLoop, Maintenance!maintainPeerSet, Maintenance!network, setup, derived, Order,
         SetupOrder, LimitsValid
<1>4. QED
  BY <1>2, <1>3 DEF Order

LEMMA NewClientKeeps ==
    ASSUME Order, NewClient
    PROVE  Order'
<1>1. bootstrap \in SUBSET Peers /\ static \in SUBSET Peers
  BY DEF Order, TypeOK
<1>2. CASE \/ DialPool("bootstrap", "dialBootstrap", "dialStatic", bootstrap)
           \/ DialPool("static", "dialStatic", "dialCached", static)
  BY <1>1, <1>2, DialPoolKeeps, PoolsKnown
<1>3. QED
  BY <1>2, ArgumentsKeep, AllowlistKeeps, HostOptionsKeep, CreateHostKeeps, InitDHTKeeps,
     GossipSubKeeps, ReturnsKeeps, StartLoopKeeps, ParseStaticKeeps, SelectBootstrapKeeps,
     PubSubOptionsKeep, DialCachedKeeps
     DEF NewClient

-----------------------------------------------------------------------------
(* The running client.                                                     *)

\* A verdict on an author is of a peer.
LEMMA ValidateKeeps ==
    ASSUME Order, NEW author \in Peers \cup {Self}, Validate(author)
    PROVE  Order'
<1>1. delivered' \cup ignored' \subseteq Peers \cup {Self}
  BY DEF Validate, Order, TypeOK
<1>2. TypeOK'
  BY <1>1 DEF Validate, Order, TypeOK, derived, pools, Maintenance!TypeOK, Maintenance!PassPCs
<1>3. SetupOrder' /\ LimitsValid'
  BY DEF Validate, Order, SetupOrder, LimitsValid, derived, pools
<1>4. QED
  BY <1>2, <1>3 DEF Order

LEMMA CloseKeeps ==
    ASSUME Order, Close
    PROVE  Order'
<1>1. TypeOK'
  BY DEF Close, Maintenance!Close, Goto, Order, TypeOK, Stages, derived, verdicts,
         Maintenance!TypeOK, Maintenance!PassPCs
<1>2. SetupOrder' /\ LimitsValid'
  BY DEF Close, Maintenance!Close, Goto, Order, SetupOrder, LimitsValid, MayHold, derived
<1>3. QED
  BY <1>1, <1>2 DEF Order

\* A pass looks at peers of its pool only, and dials them only.
LEMMA LoopTypes ==
    ASSUME Maintenance!TypeOK, NEW k \in Pools, Maintenance!LoopStep(k)
    PROVE  Maintenance!TypeOK'
<1> USE DEF Maintenance!TypeOK, Maintenance!PassPCs, Maintenance!network, Maintenance!Goto
<1>1. CASE Maintenance!FastTick(k) \/ Maintenance!SteadyTick(k)
  <2>1. PICK to \in {"check", "dialSteady"} : pc' = [pc EXCEPT ![k] = to]
    BY <1>1 DEF Maintenance!FastTick, Maintenance!SteadyTick, Maintenance!StartPass
  <2>2. /\ todo' = [todo EXCEPT ![k] = members[k]]
        /\ UNCHANGED <<ctxDone, reachable, connected, members, dials>>
    BY <1>1 DEF Maintenance!FastTick, Maintenance!SteadyTick, Maintenance!StartPass
  <2>3. \A j \in Pools : todo'[j] \subseteq members[j] /\ (todo'[j] # {} => pc'[j] \in Maintenance!PassPCs)
    BY <2>1, <2>2 DEF Maintenance!PassPCs
  <2>4. QED
    BY <2>1, <2>2, <2>3 DEF Maintenance!PassPCs
<1>2. CASE Maintenance!AllConnected(k) \/ Maintenance!FastPhaseEnds(k)
  BY <1>2 DEF Maintenance!AllConnected, Maintenance!FastPhaseEnds, Maintenance!AfterFast
<1>3. CASE Maintenance!PassEnds(k) \/ Maintenance!LoopEnds(k)
  BY <1>3 DEF Maintenance!PassEnds, Maintenance!LoopEnds
<1>4. ASSUME NEW p \in Peers, Maintenance!Check(k, p)
      PROVE  Maintenance!TypeOK'
  <2>1. CASE p \in connected
    <3>1. /\ pc[k] = "check" /\ pc' = [pc EXCEPT ![k] = "check"]
          /\ todo' = [todo EXCEPT ![k] = @ \ {p}]
          /\ UNCHANGED <<ctxDone, reachable, connected, members, dials>>
      BY <1>4, <2>1 DEF Maintenance!Check
    <3>2. \A j \in Pools : todo'[j] \subseteq todo[j] /\ pc'[j] = pc[j]
      BY <3>1
    <3>3. QED
      BY <3>1, <3>2
  <2>2. CASE p \notin connected
    <3>1. /\ pc' = [pc EXCEPT ![k] = "dialFast"] /\ todo' = [todo EXCEPT ![k] = members[k]]
          /\ UNCHANGED <<ctxDone, reachable, connected, members, dials>>
      BY <1>4, <2>2 DEF Maintenance!Check
    <3>2. \A j \in Pools : todo'[j] \subseteq members[j] /\ (todo'[j] # {} => pc'[j] \in Maintenance!PassPCs)
      BY <3>1 DEF Maintenance!PassPCs
    <3>3. QED
      BY <3>1, <3>2 DEF Maintenance!PassPCs
  <2>3. QED
    BY <2>1, <2>2
<1>5. ASSUME NEW p \in Peers, Maintenance!Redial(k, p)
      PROVE  Maintenance!TypeOK'
  <2>1. dials' \in [Pools -> [Peers -> 0 .. MaxDials]]
    BY <1>5, PoolsKnown DEF Maintenance!Redial
  <2>2. \A j \in Pools : \A q \in Peers \ members[j] : dials'[j][q] = 0
    BY <1>5, PoolsKnown DEF Maintenance!Redial
  <2>3. QED
    BY <1>5, <2>1, <2>2 DEF Maintenance!Redial
<1>6. QED
  BY <1>1, <1>2, <1>3, <1>4, <1>5 DEF Maintenance!LoopStep

\* The goroutine of a pool does not touch connections and the context, is never
\* "off" again, and starts no dial while it is.
LEMMA LoopFrame ==
    ASSUME Maintenance!TypeOK, NEW k \in Pools, Maintenance!LoopStep(k)
    PROVE  /\ UNCHANGED <<ctxDone, connected>>
           /\ pc[k] # "off"
           /\ \A j \in Pools : pc[j] = "off" => pc'[j] = "off"
<1> USE DEF Maintenance!TypeOK, Maintenance!PassPCs, Maintenance!network, Maintenance!Goto
<1>1. CASE Maintenance!FastTick(k) \/ Maintenance!SteadyTick(k)
  BY <1>1 DEF Maintenance!FastTick, Maintenance!SteadyTick, Maintenance!StartPass
<1>2. CASE Maintenance!AllConnected(k) \/ Maintenance!FastPhaseEnds(k)
  BY <1>2 DEF Maintenance!AllConnected, Maintenance!FastPhaseEnds, Maintenance!AfterFast
<1>3. CASE Maintenance!PassEnds(k) \/ Maintenance!LoopEnds(k)
  BY <1>3 DEF Maintenance!PassEnds, Maintenance!LoopEnds
<1>4. CASE \E p \in Peers : Maintenance!Check(k, p) \/ Maintenance!Redial(k, p)
  BY <1>4 DEF Maintenance!Check, Maintenance!Redial
<1>5. QED
  BY <1>1, <1>2, <1>3, <1>4 DEF Maintenance!LoopStep

\* Whether the options are refused depends on the Config alone.
LEMMA SetupFrame ==
    ASSUME UNCHANGED setup
    PROVE  UNCHANGED <<config, stage, held, OptionsRejected>>
  BY DEF setup, OptionsRejected, LimitsRejected

LEMMA LoopKeeps ==
    ASSUME Order, NEW k \in Pools, Loop(k)
    PROVE  Order'
<1>1. /\ Maintenance!TypeOK' /\ UNCHANGED <<ctxDone, connected>> /\ pc[k] # "off"
      /\ \A j \in Pools : pc[j] = "off" => pc'[j] = "off"
  BY LoopTypes, LoopFrame DEF Loop, Order, TypeOK
<1>2. stage \in {"loops", "running", "closed"} /\ UNCHANGED <<setup, cachedDials>>
  BY <1>1 DEF Loop, Order, TypeOK
<1>3. TypeOK'
  BY <1>1, <1>2 DEF setup, derived, verdicts, Order, TypeOK
<1>4. SetupOrder'
  BY <1>1, <1>2, SetupFrame DEF Order, SetupOrder
<1>5. LimitsValid'
  BY <1>2 DEF setup, derived, Order, LimitsValid
<1>6. QED
  BY <1>3, <1>4, <1>5 DEF Order

\* A dial that returns after the context is cancelled brings no connection.
LEMMA DialEndsKeeps ==
    ASSUME Order, NEW k \in Pools, NEW p \in Peers, DialEnds(k, p)
    PROVE  Order'
<1> USE DEF DialEnds, Maintenance!DialEnds
<1>1. /\ dials[k][p] \in 1 .. MaxDials /\ dials \in [Pools -> [Peers -> 0 .. MaxDials]]
      /\ MaxDials \in Nat /\ UNCHANGED setup
  BY PoolsKnown DEF Order, TypeOK, Maintenance!TypeOK
<1>2. /\ dials' \in [Pools -> [Peers -> 0 .. MaxDials]]
      /\ \A j \in Pools, q \in Peers : dials[j][q] = 0 => dials'[j][q] = 0
  BY <1>1
<1>3. Maintenance!TypeOK'
  BY <1>2 DEF Order, TypeOK, Maintenance!TypeOK, Maintenance!PassPCs
<1>4. TypeOK'
  BY <1>1, <1>3 DEF setup, derived, verdicts, Order, TypeOK
<1>5. ~(stage = "arguments" \/ (stage = "failed" /\ ~ctxDone))
  BY <1>1 DEF Order, SetupOrder
<1>6. SetupOrder'
  BY <1>1, <1>5, SetupFrame DEF Order, SetupOrder
<1>7. LimitsValid'
  BY <1>1 DEF setup, derived, Order, LimitsValid
<1>8. QED
  BY <1>4, <1>6, <1>7 DEF Order

LEMMA CachedDialEndsKeeps ==
    ASSUME Order, NEW p \in Peers, CachedDialEnds(p)
    PROVE  Order'
<1> USE DEF CachedDialEnds
<1>1. ~(stage = "arguments" \/ (stage = "failed" /\ ~ctxDone))
  BY DEF Order, SetupOrder
<1>2. TypeOK'
  BY DEF setup, derived, verdicts, Order, TypeOK, Maintenance!TypeOK, Maintenance!PassPCs
<1>3. SetupOrder'
  BY <1>1 DEF setup, derived, Order, SetupOrder, OptionsRejected, LimitsRejected
<1>4. LimitsValid'
  BY DEF setup, derived, Order, LimitsValid
<1>5. QED
  BY <1>2, <1>3, <1>4 DEF Order

LEMMA NetworkKeeps ==
    ASSUME Order, NEW p \in Peers, Network(p)
    PROVE  Order'
<1> USE DEF Network, Maintenance!ReachabilityChanges, Maintenance!ConnectionChanges
<1>1. Maintenance!TypeOK'
  BY DEF Order, TypeOK, Maintenance!TypeOK, Maintenance!PassPCs
<1>2. TypeOK'
  BY <1>1 DEF setup, derived, verdicts, Order, TypeOK
<1>3. stage \notin {"arguments", "failed"}
  BY DEF Order, SetupOrder, MayHold
<1>4. SetupOrder'
  BY <1>3 DEF setup, Order, SetupOrder
<1>5. LimitsValid'
  BY DEF setup, derived, Order, LimitsValid
<1>6. QED
  BY <1>2, <1>4, <1>5 DEF Order

-----------------------------------------------------------------------------
(* The theorems.                                                           *)

LEMMA NextKeeps == Order /\ [Next]_vars => Order'
<1> SUFFICES ASSUME Order, [Next]_vars
             PROVE  Order'
  OBVIOUS
<1>1. CASE UNCHANGED vars
  <2>1. TypeOK' /\ LimitsValid'
    BY <1>1 DEF vars, setup, derived, verdicts, pools, Order, TypeOK, LimitsValid,
                Maintenance!TypeOK, Maintenance!PassPCs
  <2>2. SetupOrder'
    BY <1>1, SetupFrame DEF vars, pools, Order, SetupOrder
  <2>3. QED
    BY <2>1, <2>2 DEF Order
<1>2. CASE Next
  BY <1>2, NewClientKeeps, CloseKeeps, ValidateKeeps, LoopKeeps, DialEndsKeeps, NetworkKeeps,
     CachedDialEndsKeeps
     DEF Next
<1>3. QED
  BY <1>1, <1>2

\* IInv: types, the order in which NewClient acquires what the client consists
\* of, and the limits that libp2p's host runs under, for every Config.
THEOREM Invariance == Spec => []IInv
<1>1. Order => IInv
  <2> SUFFICES ASSUME Order, "host" \in held
               PROVE  LimitsInForce
    BY DEF Order, IInv, LimitsInForce
  <2>1. config \in Configs
    BY DEF Order, TypeOK
  <2>2. /\ limits = Effective(config.limits)
        /\ isZero(config.limits) \/ buildResourceManager(config.limits, HighWater(config))
    BY DEF Order, LimitsValid
  <2>3. \A f \in counts :
           limits[f] = IF config.limits.count[f] = 0 THEN AutoScaled[f]
                       ELSE config.limits.count[f]
    BY <2>2 DEF Effective
  <2>4. QED
    BY <2>1, <2>2, <2>3, AcceptedLimits DEF LimitsInForce
<1>2. QED
  BY <1>1, InitEstablishes, NextKeeps, PTL DEF Spec

\* A NewClient that returns an error leaves no resource manager, host or
\* context behind, no connection and no goroutine that maintains a pool: the DHT
\* at most, or the connection manager of a Config that buildHostOptions refuses.
THEOREM FailureReleasesAll == Spec => []FailureReleases
<1>1. Order => FailureReleases
  BY DEF Order, TypeOK, SetupOrder, MayHold, FailureReleases
<1>2. QED
  BY <1>1, InitEstablishes, NextKeeps, PTL DEF Spec

-----------------------------------------------------------------------------
(* Whom the client trusts and dials.                                       *)

Dialled(c) == {e.last : e \in {x \in c.static : ~x.dns}} \ {NoPeer}

Scored == {"pubsub", "loops", "running", "closed"}
Linked == Scored \cup {"dialCached", "pubsubOptions"}
Judged == Linked \cup {"hostOptions", "bootstrap", "host", "dht", "dialBootstrap", "dialStatic"}
Parsed == Judged \cup {"allowlist"}

\* What NewClient has worked out of the Config, from the stage on at which it is
\* there: the static peers, the allowlist, the static pool, the direct peers.
Settled ==
    /\ stage \in Parsed => Dialled(config) \subseteq static
    /\ stage \in Judged => allowed = newPeerAllowlist(config)
    /\ stage \in Linked => members["static"] = static
    /\ stage \in Scored /\ ScoringOn(config) =>
          static \subseteq direct /\ (config.boot = {} => direct = static)
    /\ config.allow # {} =>
          /\ delivered \subseteq newPeerAllowlist(config)
          /\ ignored \cap newPeerAllowlist(config) = {}

\* A list without entries yields no peer, and an address the peer it names.
LEMMA ParsedAsNamed ==
    ASSUME NEW c, NEW answer
    PROVE  /\ Dialled(c) \subseteq parsePeerMultiaddrs(c.static, answer)
           /\ c.boot = {} => parsePeerMultiaddrs(c.boot, answer) = {}
  BY DEF Dialled, parsePeerMultiaddrs

\* A step that works nothing out, and gets no further than what is there.
LEMMA NothingSettled ==
    ASSUME Settled, UNCHANGED <<config, static, allowed, direct, verdicts>>,
           \A S \in {Parsed, Judged, Scored} : stage' \in S => stage \in S,
           stage' \in Linked => stage \in Linked /\ members' = members
    PROVE  Settled'
  BY DEF Settled, verdicts

LEMMA FailsSettled ==
    ASSUME Settled, NEW from, NEW acquired, NEW closed, Fails(from, acquired, closed)
    PROVE  Settled'
<1>1. stage' = "failed" /\ UNCHANGED <<config, derived, verdicts>>
  BY DEF Fails, Goto
<1>2. "failed" \notin Parsed \cup Judged \cup Linked \cup Scored
  BY DEF Parsed, Judged, Linked, Scored
<1>3. QED
  BY <1>1, <1>2, NothingSettled DEF derived

LEMMA NewClientSettles ==
    ASSUME Order, Settled, NewClient
    PROVE  Settled'
<1> USE DEF Parsed, Judged, Linked, Scored, Goto, verdicts
<1>1. CASE CheckArguments \/ \E answer \in SUBSET Peers : SelectBootstrap(answer)
  BY <1>1, NothingSettled DEF CheckArguments, SelectBootstrap, derived, pools
<1>2. ASSUME NEW answer \in SUBSET Peers, ParseStatic(answer)
      PROVE  Settled'
  <2>1. stage' = "allowlist" /\ UNCHANGED <<config, allowed, verdicts>>
        /\ static' = parsePeerMultiaddrs(config.static, answer)
    BY <1>2 DEF ParseStatic
  <2>2. Dialled(config) \subseteq static'
    BY <2>1, ParsedAsNamed
  <2>3. QED
    BY <2>1, <2>2 DEF Settled
<1>3. CASE resolveAllowlist
  <2>1. CASE Fails("allowlist", {}, {})
    BY <2>1, FailsSettled
  <2>2. CASE ~Fails("allowlist", {}, {})
    BY <1>3, <2>2 DEF resolveAllowlist, Settled
  <2>3. QED
    BY <2>1, <2>2
<1>4. CASE buildHostOptions \/ createHost \/ initDHT \/ NewGossipSub
  <2>1. CASE \E from, acquired, closed : Fails(from, acquired, closed)
    BY <2>1, FailsSettled
  <2>2. CASE ~\E from, acquired, closed : Fails(from, acquired, closed)
    <3>1. UNCHANGED <<config, static, allowed, direct, verdicts, pools>>
      BY <1>4, <2>2 DEF buildHostOptions, createHost, initDHT, NewGossipSub, derived
    <3>2. \/ stage = "hostOptions" /\ stage' = "bootstrap"
          \/ stage = "host" /\ stage' = "dht"
          \/ stage = "dht" /\ stage' = "dialBootstrap"
          \/ stage = "pubsub" /\ stage' = "loops"
      BY <1>4, <2>2 DEF buildHostOptions, createHost, initDHT, NewGossipSub
    <3>3. QED
      BY <3>1, <3>2, NothingSettled DEF pools
  <2>3. QED
    BY <2>1, <2>2
<1>5. CASE DialPool("bootstrap", "dialBootstrap", "dialStatic", bootstrap)
  BY <1>5, NothingSettled DEF DialPool, derived
<1>6. CASE DialPool("static", "dialStatic", "dialCached", static)
  <2>1. members'["static"] = static
    BY <1>6, PoolsKnown DEF DialPool, Maintenance!connectToManagedPeers, Order, TypeOK,
                            Maintenance!TypeOK
  <2>2. QED
    BY <1>6, <2>1 DEF DialPool, derived, Settled
<1>7. ASSUME NEW answer \in SUBSET Peers, buildPubSubOptions(answer)
      PROVE  Settled'
  <2>1. CASE Fails("pubsubOptions", {}, {"host"})
    BY <2>1, FailsSettled
  <2>2. CASE ~Fails("pubsubOptions", {}, {"host"})
    <3>1. /\ stage = "pubsubOptions" /\ stage' = "pubsub"
          /\ direct' = IF ScoringOn(config) THEN directPeers(config, static, answer) ELSE {}
          /\ UNCHANGED <<config, static, allowed, members, verdicts>>
      BY <1>7, <2>2 DEF buildPubSubOptions, pools
    <3>2. ScoringOn(config) => static \subseteq direct' /\ (config.boot = {} => direct' = static)
      BY <3>1, ParsedAsNamed DEF directPeers, StaticAsDialled
    <3>3. QED
      BY <3>1, <3>2 DEF Settled
  <2>3. QED
    BY <2>1, <2>2
<1>8. CASE Returns \/ loadAndConnectCachedPeers
  BY <1>8, NothingSettled DEF Returns, loadAndConnectCachedPeers, derived, pools
<1>9. ASSUME NEW k \in Pools, StartLoop(k)
      PROVE  Settled'
  BY <1>9, NothingSettled DEF StartLoop, Maintenance!maintainPeerSet, setup, derived
<1>10. QED
  BY <1>1, <1>2, <1>3, <1>4, <1>5, <1>6, <1>7, <1>8, <1>9 DEF NewClient

\* A verdict is that of the allowlist which the Config spells out.
LEMMA ValidateSettled ==
    ASSUME Settled, NEW author \in Peers \cup {Self}, Validate(author)
    PROVE  Settled'
<1>1. stage = "running" /\ UNCHANGED <<config, stage, static, allowed, direct, members>>
  BY DEF Validate, derived, pools
<1>2. allowed = newPeerAllowlist(config) /\ allowed # {}
  BY DEF Validate, Settled, Judged, Linked, Scored
<1>3. config.allow # {} =>
         /\ delivered' \subseteq newPeerAllowlist(config)
         /\ ignored' \cap newPeerAllowlist(config) = {}
  BY <1>2 DEF Validate, allows, Settled
<1>4. QED
  BY <1>1, <1>3 DEF Settled

LEMMA NextSettles == Order /\ Settled /\ [Next]_vars => Settled'
<1> SUFFICES ASSUME Order, Settled, [Next]_vars
             PROVE  Settled'
  OBVIOUS
<1>1. CASE UNCHANGED vars
  BY <1>1, NothingSettled DEF vars, setup, derived, pools
<1>2. CASE Close
  BY <1>2, NothingSettled
     DEF Close, Maintenance!Close, Goto, derived, Parsed, Judged, Linked, Scored
<1>3. ASSUME NEW k \in Pools, Loop(k) \/ \E p \in Peers : DialEnds(k, p)
      PROVE  Settled'
  <2>1. UNCHANGED setup /\ members' = members
    BY <1>3
       DEF Loop, DialEnds, Maintenance!DialEnds, Maintenance!LoopStep, Maintenance!FastTick,
           Maintenance!SteadyTick, Maintenance!StartPass, Maintenance!AllConnected,
           Maintenance!FastPhaseEnds, Maintenance!PassEnds, Maintenance!LoopEnds,
           Maintenance!Check, Maintenance!Redial
  <2>2. QED
    BY <2>1, NothingSettled DEF setup, derived
<1>4. ASSUME NEW p \in Peers, Network(p)
      PROVE  Settled'
  BY <1>4, NothingSettled
     DEF Network, Maintenance!ReachabilityChanges, Maintenance!ConnectionChanges, setup, derived
<1>5. ASSUME NEW p \in Peers, CachedDialEnds(p)
      PROVE  Settled'
  BY <1>5, NothingSettled DEF CachedDialEnds, setup, derived
<1>6. QED
  BY <1>1, <1>2, <1>3, <1>4, <1>5, NewClientSettles, ValidateSettled DEF Next

LEMMA InitSettled == Init => Settled
  BY DEF Init, Settled, Parsed, Judged, Linked, Scored

\* The allowlist lets through the authors that the Config names and no other,
\* and a static peer that an address names is both dialled and trusted.
THEOREM TrustCorrect == Spec => []TrustFromConfig
<1>1. Settled => TrustFromConfig
  <2> SUFFICES ASSUME Settled, config.allow # {}
               PROVE  LET named   == {e.last : e \in config.static} \ {NoPeer}
                          trusted == {Self} \cup config.allow \cup named
                      IN  /\ delivered \subseteq trusted /\ ignored \cap trusted = {}
                          /\ stage = "running" =>
                                Dialled(config) \subseteq members["static"] \cap allowed
    BY DEF TrustFromConfig, Dialled
  <2>1. newPeerAllowlist(config)
          = {Self} \cup config.allow \cup ({e.last : e \in config.static} \ {NoPeer})
    BY DEF newPeerAllowlist, StaticPublisherIDs, SplitAddr
  <2>2. Dialled(config) \subseteq newPeerAllowlist(config)
    BY <2>1 DEF Dialled
  <2>3. QED
    BY <2>1, <2>2 DEF Settled, Parsed, Judged, Linked, Scored
<1>2. QED
  BY <1>1, InitEstablishes, NextKeeps, InitSettled, NextSettles, PTL DEF Spec

\* With scoring on, pubsub's direct peers include the static pool, and are that
\* pool if the Config lists no bootstrap peers.
THEOREM LinksCorrect == Spec => []StaticLinksTrusted
<1>1. Settled => StaticLinksTrusted
  BY DEF Settled, StaticLinksTrusted, Linked, Scored
<1>2. QED
  BY <1>1, InitEstablishes, NextKeeps, InitSettled, NextSettles, PTL DEF Spec

-----------------------------------------------------------------------------
(* NewClient is an environment that PeerMaintenance allows for.            *)

\* An error return, like Close, cancels the context while it is still live.
LEMMA FailsIsClose ==
    ASSUME Order, NEW from \in Stages \ {"closed", "failed"}, NEW acquired, NEW closed,
           Fails(from, acquired, closed)
    PROVE  Maintenance!Close
  BY DEF Fails, Goto, Order, TypeOK, Maintenance!TypeOK, SetupOrder, Maintenance!Close

LEMMA NewClientMaps ==
    ASSUME Order, NewClient
    PROVE  Maintenance!Next \/ UNCHANGED Maintenance!vars
<1> USE DEF pools, Maintenance!vars, Maintenance!network
<1>1. CASE CheckArguments
  <2>1. stage = "arguments" /\ connected = {} /\ ~ctxDone
    BY <1>1 DEF CheckArguments, Goto, Order, SetupOrder, TypeOK, Maintenance!TypeOK
  <2>2. QED
    BY <1>1, <2>1 DEF CheckArguments, Maintenance!Next, Maintenance!Close
<1>2. CASE resolveAllowlist \/ buildHostOptions \/ createHost \/ initDHT \/ NewGossipSub
  <2>1. \/ \E from \in Stages \ {"closed", "failed"} :
              \E acquired, closed : Fails(from, acquired, closed)
        \/ UNCHANGED Maintenance!vars
    BY <1>2 DEF resolveAllowlist, buildHostOptions, createHost, initDHT, NewGossipSub, Stages
  <2>2. QED
    BY <2>1, FailsIsClose DEF Maintenance!Next
<1>3. CASE \E answer \in SUBSET Peers :
              ParseStatic(answer) \/ SelectBootstrap(answer) \/ buildPubSubOptions(answer)
  <2>1. Maintenance!Close \/ UNCHANGED Maintenance!vars
    BY <1>3, FailsIsClose DEF ParseStatic, SelectBootstrap, buildPubSubOptions, Stages
  <2>2. QED
    BY <2>1 DEF Maintenance!Next
<1>4. CASE \/ DialPool("bootstrap", "dialBootstrap", "dialStatic", bootstrap)
           \/ DialPool("static", "dialStatic", "dialCached", static)
  <2>1. bootstrap \in SUBSET Peers /\ static \in SUBSET Peers
    BY DEF Order, TypeOK
  <2>2. QED
    BY <1>4, <2>1, PoolsKnown DEF DialPool, Maintenance!Next
<1>5. CASE \E k \in Pools : StartLoop(k)
  BY <1>5 DEF StartLoop, Maintenance!Next
<1>6. CASE Returns \/ loadAndConnectCachedPeers
  BY <1>6 DEF Returns, loadAndConnectCachedPeers
<1>7. QED
  BY <1>1, <1>2, <1>3, <1>4, <1>5, <1>6 DEF NewClient

\* Whatever NewClient does, and wherever it fails, the pools behave as
\* PeerMaintenance says: a failed construction is its Close.
THEOREM Refinement == Spec => Maintenance!Spec
<1>1. Init => Maintenance!Init
  BY DEF Init
<1>2. Order /\ [Next]_vars => [Maintenance!Next]_(Maintenance!vars)
  <2> SUFFICES ASSUME Order, [Next]_vars
               PROVE  Maintenance!Next \/ UNCHANGED Maintenance!vars
    OBVIOUS
  <2>1. CASE UNCHANGED vars
    BY <2>1 DEF vars, pools, Maintenance!vars, Maintenance!network
  <2>2. CASE Close \/ \E k \in Pools : Loop(k) \/ \E p \in Peers : DialEnds(k, p)
    BY <2>2 DEF Close, Loop, DialEnds, Maintenance!Next
  <2>3. CASE \E p \in Peers : Network(p)
    BY <2>3 DEF Network, Maintenance!Next
  <2>4. CASE \E author \in Peers \cup {Self} : Validate(author)
    BY <2>4 DEF Validate, pools, Maintenance!vars, Maintenance!network
  <2>5. ASSUME NEW p \in Peers, CachedDialEnds(p)
        PROVE  Maintenance!ConnectionChanges(p) \/ UNCHANGED Maintenance!vars
    BY <2>5 DEF CachedDialEnds, Maintenance!ConnectionChanges, Maintenance!vars,
                Maintenance!network
  <2>6. QED
    BY <2>1, <2>2, <2>3, <2>4, <2>5, NewClientMaps DEF Next, Maintenance!Next
<1>3. QED
  BY <1>1, <1>2, InitEstablishes, NextKeeps, PTL DEF Spec, Maintenance!Spec
=============================================================================
