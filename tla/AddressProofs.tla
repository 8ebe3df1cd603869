----------------------------- MODULE AddressProofs -----------------------------
(***************************************************************************)
(* How a client learns the addresses of a peer it cannot dial, proved in   *)
(* two parts.  A peer-address stream (module AddressExchange) never yields *)
(* a wrong or a partial answer, for any address book, any sizes of request *)
(* and response, any framing and whatever the other end sends.  And of the *)
(* goroutines that open such streams (module AddressLookup)                *)
(* one at a time asks for a peer, for any number of peers and goroutines   *)
(* and any retry interval.                                                 *)
(***************************************************************************)
EXTENDS AddressExchange, AddressLookup, FiniteSetTheorems, TLAPS

-----------------------------------------------------------------------------
(* The stream.                                                             *)

\* What directPeerAddresses returns: direct addresses only, no more than may be
\* shared, and none withheld unless that many are returned.
LEMMA SharedAddresses ==
    ASSUME NEW B \in SUBSET Addresses, NEW S \in directPeerAddresses(B)
    PROVE  /\ S \subseteq B \ Relayed /\ IsFiniteSet(S)
           /\ Cardinality(S) \in Nat /\ Cardinality(S) <= MaxShared
           /\ S = B \ Relayed \/ Cardinality(S) = MaxShared
<1> DEFINE D == B \ Relayed
<1>1. S \subseteq D /\ Cardinality(S) = Smaller(Cardinality(D), MaxShared)
  BY DEF directPeerAddresses
<1>2. IsFiniteSet(D)
  BY AddressesKnown, FS_Subset
<1>3. IsFiniteSet(S) /\ (Cardinality(S) = Cardinality(D) => S = D)
  BY <1>1, <1>2, FS_Subset
<1>4. Cardinality(S) \in Nat /\ Cardinality(D) \in Nat
  BY <1>2, <1>3, FS_CardinalityType
<1>5. MaxShared \in Nat
  BY Sizes
<1>6. CASE Cardinality(D) <= MaxShared
  BY <1>1, <1>3, <1>4, <1>5, <1>6 DEF Smaller
<1>7. CASE ~ Cardinality(D) <= MaxShared
  BY <1>1, <1>3, <1>4, <1>5, <1>7 DEF Smaller
<1>8. QED
  BY <1>6, <1>7

\* A read takes no more than is in flight and no more than it has room for.
LEMMA ReadFits ==
    ASSUME NEW n \in Nat, NEW room \in Nat, NEW k \in Reads(n, room)
    PROVE  k \in 1..n /\ k <= room
  BY DEF Reads, Smaller

\* A stream that has just been opened.
LEMMA InitEstablishes == Init => IInv
<1> SUFFICES ASSUME Init PROVE IInv
  OBVIOUS
<1>1. Cardinality(answer) <= MaxShared
  <2>1. Cardinality({}) = 0
    BY FS_EmptySet
  <2>2. QED
    BY <2>1, Sizes DEF Init
<1>2. TypeOK
  <2>1. request \in 0..(MaxReq + 2) /\ raw \in 0..(MaxReq + 1)
    BY Sizes DEF Init
  <2>2. response \in 0..(MaxResp + 2) /\ got \in 0..(MaxResp + 1)
    BY Sizes DEF Init
  <2>3. QED
    BY <1>1, <2>1, <2>2 DEF Init, TypeOK
<1>3. RequestWhole
  BY Sizes DEF Init, RequestWhole
<1>4. ResponseWhole
  BY Sizes DEF Init, ResponseWhole
<1>5. QED
  BY <1>2, <1>3, <1>4 DEF IInv

\* The requester writes one whole ID, and what it parses is a whole answer: the
\* stream ends cleanly only after CloseStream, and no answer of a client is
\* over the limit.
LEMMA RequesterKeeps ==
    ASSUME IInv, ReqStep
    PROVE  IInv'
<1> USE Sizes DEF IInv, TypeOK, RequestWhole, ResponseWhole, ReqGoto, ends, inbound,
                  decoded, outbound
<1>0. requester # "foreign"
  BY DEF ReqStep
<1>1. CASE ReqDeadline
  BY <1>1 DEF ReqDeadline
<1>2. CASE ReqWrite
  BY <1>0, <1>2 DEF ReqWrite
<1>3. CASE ReqCloseWrite
  BY <1>3 DEF ReqCloseWrite, HalfClosed
<1>4. CASE ReqRead
  <2>1. PICK n \in Reads(response, ReadLimit - got) :
            got' = got + n /\ response' = response - n
    BY <1>4 DEF ReqRead
  <2>2. n \in 1..response /\ n <= MaxResp + 1 - got
    <3>1. response \in Nat /\ MaxResp + 1 - got \in Nat /\ ReadLimit = MaxResp + 1
      BY DEF ReadLimit
    <3>2. QED
      BY <2>1, <3>1, ReadFits
  <2>3. QED
    BY <1>4, <2>1, <2>2 DEF ReqRead
<1>5. CASE ReqReadEnds
  <2>1. responder = "client" => respPC = "closed" /\ response = 0
    <3>1. CASE response = 0 /\ respEOF
      BY <3>1
    <3>2. CASE got > MaxResp /\ responder = "client"
      <4>1. respPC \in {"close", "closed"} /\ answer \in directPeerAddresses(book)
        BY <3>2
      <4>2. Cardinality(answer) \in Nat /\ Cardinality(answer) <= MaxShared
        BY <4>1, SharedAddresses
      <4>3. QED
        BY <3>2, <4>1, <4>2 DEF Encoded
    <3>3. QED
      BY <1>5, <3>1, <3>2 DEF ReqReadEnds
  <2>2. QED
    BY <1>5, <2>1 DEF ReqReadEnds
<1>6. CASE ReqParse
  BY <1>6 DEF ReqParse
<1>7. CASE ReqFails
  BY <1>7 DEF ReqFails
<1>8. QED
  BY <1>1, <1>2, <1>3, <1>4, <1>5, <1>6, <1>7 DEF ReqStep

\* The responder accumulates what it reads, decodes a whole ID and writes one
\* answer.
LEMMA ResponderKeeps ==
    ASSUME IInv, RespStep
    PROVE  IInv'
<1> USE Sizes DEF IInv, TypeOK, RequestWhole, ResponseWhole, RespGoto, ends, inbound,
                  decoded, outbound
<1>0. respPC # "idle" /\ respPC # "rejected" => responder = "client"
  BY KindsKnown
<1>1. CASE Accept
  BY <1>1, KindsKnown DEF Accept
<1>2. CASE ReadAll
  <2>1. ASSUME NEW n \in Reads(request, MaxReq + 1 - raw),
               raw' = raw + n, request' = request - n, UNCHANGED respPC
        PROVE  IInv'
    <3>1. n \in 1..request /\ n <= MaxReq + 1 - raw
      <4>1. request \in Nat /\ MaxReq + 1 - raw \in Nat
        OBVIOUS
      <4>2. QED
        BY <4>1, ReadFits
    <3>2. QED
      BY <1>2, <2>1, <3>1 DEF ReadAll
  <2>2. CASE respPC' = "decode" /\ UNCHANGED <<raw, request>>
    BY <1>0, <1>2, <2>2 DEF ReadAll
  <2>3. QED
    BY <1>2, <2>1, <2>2 DEF ReadAll
<1>3. CASE readLegacyPeerIDRequest
  <2>1. ASSUME NEW n \in Reads(request, MaxReq + 1), raw' = raw + n, request' = request - n
        PROVE  IInv'
    <3>1. n \in 1..request /\ n <= MaxReq + 1
      <4>1. request \in Nat /\ MaxReq + 1 \in Nat
        OBVIOUS
      <4>2. QED
        BY <4>1, ReadFits
    <3>2. /\ RespGoto("read", "decode")
          /\ UNCHANGED <<ends, reqPC, reqEOF, asked, answer, outbound, got, rst>>
      BY <1>3 DEF readLegacyPeerIDRequest, AfterOneRead
    <3>3. request' \in Nat /\ raw' \in Nat /\ request' + raw' = request + raw
      BY <2>1, <3>1
    <3>4. TypeOK'
      <4>1. request' \in 0..(MaxReq + 2) /\ raw' \in 0..(MaxReq + 1)
        <5>1. raw = 0
          BY <1>3 DEF readLegacyPeerIDRequest
        <5>2. QED
          BY <2>1, <3>1, <3>3, <5>1
      <4>2. QED
        BY <3>2, <4>1
    <3>5. RequestWhole'
      BY <3>2, <3>3
    <3>6. ResponseWhole'
      BY <1>0, <3>2
    <3>7. QED
      BY <3>4, <3>5, <3>6
  <2>2. CASE UNCHANGED <<raw, request>>
    BY <1>0, <1>3, <2>2 DEF readLegacyPeerIDRequest, AfterOneRead
  <2>3. QED
    BY <1>3, <2>1, <2>2 DEF readLegacyPeerIDRequest
<1>4. CASE readPeerIDRequest
  BY <1>0, <1>4 DEF readPeerIDRequest, LongEnough
<1>5. CASE Reply
  <2>1. responder = "client" /\ got + response = 0 /\ got = 0
    BY <1>0, <1>5 DEF Reply
  <2>2. /\ answer' \subseteq book \ Relayed
        /\ Cardinality(answer') \in Nat /\ Cardinality(answer') <= MaxShared
    BY <1>5, SharedAddresses DEF Reply
  <2>3. response' \in Nat /\ response' <= MaxResp /\ response' = Encoded(answer')
    BY <1>5, <2>2 DEF Reply, Encoded
  <2>4. TypeOK' /\ RequestWhole'
    BY <1>5, <2>1, <2>2, <2>3 DEF Reply
  <2>5. ResponseWhole'
    BY <1>5, <2>1, <2>3 DEF Reply
  <2>6. QED
    BY <2>4, <2>5
<1>6. CASE CloseStream
  BY <1>0, <1>6 DEF CloseStream
<1>7. CASE RespFails
  <2>1. CASE UNCHANGED response
    BY <1>7, <2>1 DEF RespFails, ResetOnFailure
  <2>2. CASE respPC = "reply" /\ PartWritten
    <3>1. response' \in Nat /\ response' <= MaxShared
      <4>1. PICK S \in directPeerAddresses(book) : response' \in 0..(Encoded(S) - 1)
        BY <2>2 DEF PartWritten
      <4>2. Cardinality(S) \in Nat /\ Cardinality(S) <= MaxShared
        BY <4>1, SharedAddresses
      <4>3. QED
        BY <4>1, <4>2 DEF Encoded
    <3>2. responder = "client" /\ got = 0 /\ answer = {}
      BY <1>7, <2>2 DEF RespFails
    <3>3. TypeOK' /\ RequestWhole'
      BY <1>7, <2>2, <3>1 DEF RespFails, ResetOnFailure
    <3>4. ResponseWhole'
      <4>1. respPC' = "rejected" /\ UNCHANGED <<respEOF, reqPC, responder, answer, got>>
        BY <1>7, <2>2 DEF RespFails, ResetOnFailure
      <4>2. ~respEOF /\ reqPC \notin {"parse", "ok"}
        BY <2>2, <3>2
      <4>3. \A n \in Nat : n <= MaxShared => got + n <= MaxShared /\ got + n <= MaxResp + 2
        BY <3>2
      <4>4. got + response' <= MaxShared /\ got + response' <= MaxResp + 2
        BY <3>1, <4>3
      <4>5. QED
        BY <3>2, <4>1, <4>2, <4>4
    <3>5. QED
      BY <3>3, <3>4
  <2>3. QED
    BY <1>7, <2>1, <2>2 DEF RespFails
<1>8. QED
  BY <1>1, <1>2, <1>3, <1>4, <1>5, <1>6, <1>7 DEF RespStep

\* Other code at either end can fill the stream only up to the bound.
LEMMA ForeignKeeps ==
    ASSUME IInv, ForeignRequest \/ ForeignResponse
    PROVE  IInv'
<1> USE Sizes DEF IInv, TypeOK, RequestWhole, ResponseWhole, ends, inbound, decoded, outbound
<1>1. CASE ForeignRequest
  <2>1. TypeOK'
    <3>1. request' \in 0..(MaxReq + 2)
      BY <1>1 DEF ForeignRequest
    <3>2. QED
      BY <1>1, <3>1 DEF ForeignRequest
  <2>2. RequestWhole'
    BY <1>1 DEF ForeignRequest
  <2>3. ResponseWhole'
    BY <1>1 DEF ForeignRequest
  <2>4. QED
    BY <2>1, <2>2, <2>3
<1>2. CASE ForeignResponse
  <2>1. TypeOK'
    <3>1. response' \in 0..(MaxResp + 2)
      BY <1>2 DEF ForeignResponse
    <3>2. QED
      BY <1>2, <3>1 DEF ForeignResponse
  <2>2. RequestWhole'
    BY <1>2 DEF ForeignResponse
  <2>3. ResponseWhole'
    BY <1>2 DEF ForeignResponse
  <2>4. QED
    BY <2>1, <2>2, <2>3
<1>3. QED
  BY <1>1, <1>2

\* The types, the limits of both reads, and the wholeness of request and
\* response, for every pair of ends.
THEOREM Invariance == Spec => []IInv
<1>1. IInv /\ UNCHANGED vars => IInv'
  BY DEF IInv, TypeOK, RequestWhole, ResponseWhole, vars, ends, inbound, decoded, outbound
<1>2. IInv /\ [Next]_vars => IInv'
  BY <1>1, RequesterKeeps, ResponderKeeps, ForeignKeeps DEF Next, Terminated
<1>3. QED
  BY InitEstablishes, <1>2, PTL DEF Spec

\* exchangePeerAddressRequest never returns the addresses of another peer, a
\* relay circuit or part of an answer.
THEOREM AnswerCorrect == Spec => []AnswersTarget
<1>1. ASSUME IInv, reqPC = "ok", responder = "client"
      PROVE  /\ asked = Target
             /\ got = Encoded(answer)
             /\ answer \subseteq book \ Relayed
             /\ answer = book \ Relayed \/ Cardinality(answer) = MaxShared
  <2>1. respPC = "closed" /\ response = 0
    BY <1>1 DEF IInv, ResponseWhole
  <2>2. asked = Target /\ answer \in directPeerAddresses(book) /\ got + response = Encoded(answer)
    BY <1>1, <2>1 DEF IInv, ResponseWhole
  <2>3. got = Encoded(answer)
    BY <1>1, <2>1, <2>2 DEF IInv, TypeOK
  <2>4. QED
    BY <1>1, <2>2, <2>3, SharedAddresses DEF IInv, TypeOK
<1>2. IInv => AnswersTarget
  BY <1>1 DEF AnswersTarget
<1>3. QED
  BY <1>2, Invariance, PTL

\* A clean end of the stream means the whole answer, however it was
\* fragmented and whenever either end gave up.
THEOREM CleanEndCorrect == Spec => []CleanEndIsWhole
<1>1. IInv => CleanEndIsWhole
  BY DEF IInv, TypeOK, ResponseWhole, CleanEndIsWhole
<1>2. QED
  BY <1>1, Invariance, PTL

-----------------------------------------------------------------------------
(* The goroutines: what they hold, and the marks, peer by peer.            *)

LookedUp(p) == \E l \in Lookups : Running(l) /\ target[l] = p

LEMMA MarksPointwise == MarksMatchLookups <=> \A p : p \in inFlight <=> LookedUp(p)
BY DEF MarksMatchLookups, LookedUp

\* What the goroutines hold is all that marks and exclusion depend on.
Undisturbed ==
    /\ inFlight' = inFlight
    /\ \A l \in Lookups :
          /\ Running(l)' <=> Running(l)
          /\ Running(l) => target'[l] = target[l]

LEMMA UndisturbedKeeps ==
    ASSUME MarksMatchLookups, OneLookupPerTarget, Undisturbed
    PROVE  MarksMatchLookups' /\ OneLookupPerTarget'
<1>1. OneLookupPerTarget'
  BY DEF OneLookupPerTarget, Undisturbed
<1>2. \A p : LookedUp(p)' <=> LookedUp(p)
  BY DEF LookedUp, Undisturbed
<1>3. \A p : p \in inFlight' <=> LookedUp(p)'
  BY <1>2, MarksPointwise DEF Undisturbed
<1>4. MarksMatchLookups'
  BY <1>3 DEF MarksMatchLookups, LookedUp
<1> QED
  BY <1>1, <1>4

-----------------------------------------------------------------------------
(* The scan starts goroutines that hold nothing yet.                       *)

LEMMA StartedAreDue ==
    ASSUME NEW g \in [Due -> Lookups], NEW l \in Range(g)
    PROVE  (CHOOSE p \in Due : g[p] = l) \in Due
BY DEF Range

LEMMA ScanEffect ==
    ASSUME LookupTypeOK, NEW g \in [Due -> Lookups], Scan(g)
    PROVE  /\ \A l \in Range(g) : pc[l] = "free" /\ pc'[l] = "begin" /\ target'[l] \in Peers
           /\ \A l \in Lookups \ Range(g) : pc'[l] = pc[l] /\ target'[l] = target[l]
           /\ Range(g) \subseteq Lookups
<1>1. Range(g) \subseteq Lookups
  BY DEF Range
<1>2. \A l \in Range(g) : pc[l] = "free"
  BY DEF Range, Scan
<1>3. Due \subseteq Peers
  BY DEF Due, LookupTypeOK
<1>4. \A l \in Range(g) : pc'[l] = "begin" /\ target'[l] = CHOOSE p \in Due : g[p] = l
  BY <1>1 DEF Scan
<1>5. \A l \in Lookups \ Range(g) : pc'[l] = pc[l] /\ target'[l] = target[l]
  BY DEF Scan
<1> QED
  BY <1>1, <1>2, <1>3, <1>4, <1>5, StartedAreDue

LEMMA ScanTyped ==
    ASSUME LookupTypeOK, NEW g \in [Due -> Lookups], Scan(g)
    PROVE  LookupTypeOK'
<1>1. pc' = [l \in Lookups |-> pc'[l]] /\ target' = [l \in Lookups |-> target'[l]]
  BY DEF Scan
<1>2. \A l \in Lookups : pc'[l] \in Steps /\ target'[l] \in Peers \cup {NoPeer}
  BY ScanEffect DEF LookupTypeOK, Steps
<1>3. pc' \in [Lookups -> Steps] /\ target' \in [Lookups -> Peers \cup {NoPeer}]
  BY <1>1, <1>2
<1>4. \A l \in Lookups : target'[l] = NoPeer <=> pc'[l] = "free"
  BY ScanEffect, NoPeerIsNoPeer DEF LookupTypeOK
<1>5. DOMAIN age' \subseteq Peers
  BY DEF Scan, LookupTypeOK
<1>6. \A p \in DOMAIN age' : age'[p] \in 1..RetryInterval
  <2> SUFFICES ASSUME NEW p \in DOMAIN age'
               PROVE  age'[p] \in 1..RetryInterval
    OBVIOUS
  <2>1. CASE p \in Due
    BY <2>1, RetryPositive DEF Scan
  <2>2. CASE p \notin Due
    <3>1. p \in DOMAIN age /\ age[p] \in 1..RetryInterval
      BY <2>2 DEF Scan, LookupTypeOK
    <3>2. age'[p] = IF age[p] < RetryInterval THEN age[p] + 1 ELSE age[p]
      BY <2>2 DEF Scan
    <3> QED
      BY <3>1, <3>2, RetryPositive
  <2> QED
    BY <2>1, <2>2
<1> QED
  BY <1>3, <1>4, <1>5, <1>6 DEF LookupTypeOK, Scan

LEMMA ScanUndisturbed ==
    ASSUME LookupTypeOK, NEW g \in [Due -> Lookups], Scan(g)
    PROVE  Undisturbed
<1>1. inFlight' = inFlight
  BY DEF Scan
<1> QED
  BY <1>1, ScanEffect DEF Undisturbed, Running

-----------------------------------------------------------------------------
(* The goroutines.                                                         *)

LEMMA LookupInitially == LookupInit => LookupInv
<1> SUFFICES ASSUME LookupInit
             PROVE  LookupInv
  OBVIOUS
<1>1. DOMAIN age = {}
  BY DEF LookupInit
<1>2. LookupTypeOK
  BY <1>1 DEF LookupInit, LookupTypeOK, Steps
<1>3. \A l \in Lookups : ~Running(l)
  BY DEF LookupInit, Running
<1> QED
  BY <1>2, <1>3 DEF LookupInit, LookupInv, MarksMatchLookups, OneLookupPerTarget

LEMMA LookupTyped ==
    ASSUME LookupTypeOK, [LookupNext]_lookupVars
    PROVE  LookupTypeOK'
<1>1. ASSUME NEW p \in Peers,
             ConnectionChange(p) \/ HearFrom(p) \/ tryConnectToTopicPeer(p)
      PROVE  LookupTypeOK'
  BY <1>1 DEF LookupTypeOK, ConnectionChange, HearFrom, tryConnectToTopicPeer, scanner,
     lookup
<1>2. CASE Close
  BY <1>2 DEF LookupTypeOK, Close, scanner, lookup
<1>3. CASE Scans
  BY <1>3, ScanTyped DEF Scans
<1>4. ASSUME NEW l \in Lookups, beginAddrLookup(l)
      PROVE  LookupTypeOK'
  <2>1. target[l] \in Peers
    BY <1>4 DEF LookupTypeOK, beginAddrLookup, Goto
  <2>2. inFlight' \subseteq Peers /\ todo' \in [Lookups -> SUBSET Peers]
    BY <1>4, <2>1 DEF LookupTypeOK, beginAddrLookup
  <2>3. CASE Wins(l)
    <3>1. pc' = [pc EXCEPT ![l] = "loop"] /\ target' = target /\ pc[l] = "begin"
      BY <1>4, <2>3 DEF beginAddrLookup, Goto
    <3> QED
      BY <1>4, <2>2, <3>1 DEF LookupTypeOK, Steps, beginAddrLookup, scanner
  <2>4. CASE ~Wins(l)
    <3>1. pc' = [pc EXCEPT ![l] = "free"] /\ target' = [target EXCEPT ![l] = NoPeer]
      BY <1>4, <2>4 DEF beginAddrLookup, Goto, Finish
    <3> QED
      BY <1>4, <2>2, <3>1 DEF LookupTypeOK, Steps, beginAddrLookup, scanner
  <2> QED
    BY <2>3, <2>4
<1>5. ASSUME NEW l \in Lookups, NEW p \in Peers, Ask(l, p)
      PROVE  LookupTypeOK'
  <2>1. todo' \in [Lookups -> SUBSET Peers]
    BY <1>5 DEF LookupTypeOK, Ask
  <2>2. pc' \in [Lookups -> Steps] /\ \A m \in Lookups : pc'[m] = "free" <=> pc[m] = "free"
    BY <1>5 DEF LookupTypeOK, Ask, Goto, Steps
  <2> QED
    BY <1>5, <2>1, <2>2 DEF LookupTypeOK, Ask, scanner
<1>6. ASSUME NEW l \in Lookups,
             NobodyKnew(l) \/ ExchangeFails(l) \/ ExchangeSucceeds(l)
      PROVE  LookupTypeOK'
  <2>1. pc' \in [Lookups -> Steps] /\ \A m \in Lookups : pc'[m] = "free" <=> pc[m] = "free"
    BY <1>6 DEF LookupTypeOK, NobodyKnew, ExchangeFails, ExchangeSucceeds, Goto, Steps
  <2>2. dialing' \subseteq Peers
    <3>1. CASE ExchangeSucceeds(l)
      <4>1. target[l] \in Peers
        BY <3>1 DEF LookupTypeOK, ExchangeSucceeds, Goto
      <4> QED
        BY <3>1, <4>1 DEF LookupTypeOK, ExchangeSucceeds
    <3> QED
      BY <1>6, <3>1 DEF LookupTypeOK, NobodyKnew, ExchangeFails
  <2> QED
    BY <1>6, <2>1, <2>2 DEF LookupTypeOK, NobodyKnew, ExchangeFails, ExchangeSucceeds,
       scanner
<1>7. ASSUME NEW l \in Lookups, endAddrLookup(l)
      PROVE  LookupTypeOK'
  BY <1>7 DEF LookupTypeOK, Steps, endAddrLookup, Goto, ClearMark, Finish, scanner
<1>8. CASE UNCHANGED lookupVars
  BY <1>8 DEF LookupTypeOK, lookupVars, scanner, lookup
<1> QED
  BY <1>1, <1>2, <1>3, <1>4, <1>5, <1>6, <1>7, <1>8 DEF LookupNext, LookupStep

\* The test and the mark are one step under the lock: the winner is alone.
LEMMA BeginStep ==
    ASSUME LookupInv, NEW l \in Lookups, beginAddrLookup(l)
    PROVE  MarksMatchLookups' /\ OneLookupPerTarget'
<1>1. /\ LookupTypeOK /\ MarksMatchLookups /\ OneLookupPerTarget
      /\ pc[l] = "begin" /\ ~Running(l)
  BY DEF LookupInv, beginAddrLookup, Goto, Running
<1>2. CASE Wins(l)
  <2>1. /\ Running(l)' /\ target' = target
        /\ \A m \in Lookups \ {l} : Running(m)' <=> Running(m)
        /\ inFlight' = inFlight \cup {target[l]}
    BY <1>1, <1>2 DEF beginAddrLookup, Goto, LookupTypeOK, Running
  <2>2. \A m \in Lookups \ {l} : Running(m) => target[m] # target[l]
    BY <1>1, <1>2, MarksPointwise DEF Wins, LookedUp
  <2>3. OneLookupPerTarget'
    BY <1>1, <2>1, <2>2 DEF OneLookupPerTarget
  <2>4. \A p : p \in inFlight' <=> p \in inFlight \/ p = target[l]
    BY <2>1
  <2>5. \A p : LookedUp(p)' <=> LookedUp(p) \/ p = target[l]
    BY <1>1, <2>1 DEF LookedUp
  <2>6. \A p : p \in inFlight' <=> LookedUp(p)'
    BY <1>1, <2>4, <2>5, MarksPointwise
  <2>7. MarksMatchLookups'
    BY <2>6 DEF MarksMatchLookups, LookedUp
  <2> QED
    BY <2>3, <2>7
<1>3. CASE ~Wins(l)
  <2>1. Undisturbed
    BY <1>1, <1>3 DEF beginAddrLookup, Goto, Finish, LookupTypeOK, Undisturbed, Running
  <2> QED
    BY <1>1, <2>1, UndisturbedKeeps
<1> QED
  BY <1>2, <1>3

\* The mark that goes is the goroutine's own: nobody else runs for its target.
LEMMA EndStep ==
    ASSUME LookupInv, NEW l \in Lookups, endAddrLookup(l)
    PROVE  MarksMatchLookups' /\ OneLookupPerTarget'
<1>1. LookupTypeOK /\ MarksMatchLookups /\ OneLookupPerTarget /\ Running(l)
  BY DEF LookupInv, endAddrLookup, Goto, Running
<1>2. /\ ~Running(l)'
      /\ \A m \in Lookups \ {l} :
            (Running(m)' <=> Running(m)) /\ target'[m] = target[m]
      /\ inFlight' = inFlight \ {target[l]}
  BY <1>1 DEF endAddrLookup, ClearMark, Finish, Goto, LookupTypeOK, Running
<1>3. OneLookupPerTarget'
  BY <1>1, <1>2 DEF OneLookupPerTarget
<1>4. \A m \in Lookups \ {l} : Running(m) => target[m] # target[l]
  BY <1>1 DEF OneLookupPerTarget
<1>5. \A p : LookedUp(p)' <=> LookedUp(p) /\ p # target[l]
  BY <1>1, <1>2, <1>4 DEF LookedUp
<1>6. \A p : p \in inFlight' <=> LookedUp(p)'
  BY <1>1, <1>2, <1>5, MarksPointwise
<1>7. MarksMatchLookups'
  BY <1>6 DEF MarksMatchLookups, LookedUp
<1> QED
  BY <1>3, <1>7

LEMMA LookupInvStep == LookupInv /\ [LookupNext]_lookupVars => LookupInv'
<1> SUFFICES ASSUME LookupInv, [LookupNext]_lookupVars
             PROVE  MarksMatchLookups' /\ OneLookupPerTarget'
  BY LookupTyped DEF LookupInv
<1>1. LookupTypeOK /\ MarksMatchLookups /\ OneLookupPerTarget
  BY DEF LookupInv
<1>2. ASSUME NEW l \in Lookups, beginAddrLookup(l) \/ endAddrLookup(l)
      PROVE  MarksMatchLookups' /\ OneLookupPerTarget'
  BY <1>2, BeginStep, EndStep
<1>3. ASSUME NEW l \in Lookups,
             \/ \E p \in Peers : Ask(l, p)
             \/ NobodyKnew(l) \/ ExchangeFails(l) \/ ExchangeSucceeds(l)
      PROVE  Undisturbed
  BY <1>1, <1>3 DEF LookupTypeOK, Ask, NobodyKnew, ExchangeFails, ExchangeSucceeds, Goto,
     Undisturbed, Running
<1>4. CASE Scans
  BY <1>1, <1>4, ScanUndisturbed, UndisturbedKeeps DEF Scans
<1>5. CASE UNCHANGED <<inFlight, pc, target>>
  <2>1. Undisturbed
    BY <1>5 DEF Undisturbed, Running
  <2> QED
    BY <1>1, <2>1, UndisturbedKeeps
<1>6. ASSUME NEW p \in Peers,
             ConnectionChange(p) \/ HearFrom(p) \/ tryConnectToTopicPeer(p)
      PROVE  UNCHANGED <<inFlight, pc, target>>
  BY <1>6 DEF ConnectionChange, HearFrom, tryConnectToTopicPeer, lookup
<1>7. Close \/ UNCHANGED lookupVars => UNCHANGED <<inFlight, pc, target>>
  BY DEF Close, lookupVars, lookup
<1> QED
  BY <1>1, <1>2, <1>3, <1>4, <1>5, <1>6, <1>7, UndisturbedKeeps
  DEF LookupNext, LookupStep

\* However often the scan starts goroutines for a peer and however long they
\* take, one at a time asks for it, and inFlight names exactly the peers that
\* are being asked for (beginAddrLookup, endAddrLookup).
THEOREM LookupInvariance == LookupSpec => []LookupInv
BY LookupInitially, LookupInvStep, PTL DEF LookupSpec
=============================================================================
