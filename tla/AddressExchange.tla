--------------------------- MODULE AddressExchange ---------------------------
(***************************************************************************)
(* One peer-address stream of client.go, both ends: the requester in       *)
(* exchangePeerAddressRequest and the responder in                         *)
(* handlePeerAddressRequest, over the 1.1.0 framing (half-close) or the    *)
(* 1.0.0 framing (one read).                                               *)
(*                                                                         *)
(* Bytes are counted in units: a request is the encoded peer ID of Target  *)
(* and its units are only counted, since the one thing that can go wrong   *)
(* with a shorter read is that a prefix decodes as another, short ID.      *)
(* Deadlines are untimed, and no deadline expires and no read returns part *)
(* of a write on a calm stream.  A foreign end runs other code and may     *)
(* stop.                                                                   *)
(***************************************************************************)
EXTENDS Naturals, FiniteSets

CONSTANTS
    Requesters,   \* kinds of requester: "client", "legacy", "foreign"
    Responders,   \* kinds of responder: "client", "foreign"
    Addresses,    \* what the responder's peerstore may hold for Target
    Relayed,      \* those of them that are relay circuits
    IdLen,        \* units of an encoded peer ID
    MaxReq,       \* maxPeerIDRequestBytes
    MaxResp,      \* maxPeerAddressResponseBytes
    MaxShared     \* maxSharedPeerAddresses

ASSUME KindsKnown ==
    Requesters \subseteq {"client", "legacy", "foreign"} /\ Responders \subseteq {"client", "foreign"}
ASSUME AddressesKnown == IsFiniteSet(Addresses) /\ Relayed \subseteq Addresses
ASSUME Sizes ==
    /\ IdLen \in 2..MaxReq /\ MaxReq \in Nat
    /\ MaxShared \in Nat \ {0} /\ MaxResp \in Nat /\ MaxShared < MaxResp

VARIABLES
    requester, responder,  \* the kinds of this stream's ends
    protocol,    \* the framing negotiated
    book,        \* the responder's peerstore: addresses of Target
    calm,        \* the network neither delays nor fragments
    reqPC,       \* where the requester stands
    respPC,      \* where the responder stands
    request,     \* units of the request in flight
    reqEOF,      \* the requester has closed its side
    raw,         \* units of the request the responder has read
    asked,       \* the peer the responder decoded
    answer,      \* the addresses it encoded
    response,    \* units of the response in flight
    respEOF,     \* the responder has closed its side
    got,         \* units of the response the requester has read
    rst          \* the stream has been reset

ends     == <<requester, responder, protocol, book, calm>>
inbound  == <<request, reqEOF>>
decoded  == <<raw, asked, answer>>
outbound == <<response, respEOF>>
vars == <<ends, reqPC, respPC, inbound, decoded, outbound, got, rst>>

Target == "target"
Other  == "other"    \* the peer that a prefix of Target's ID decodes as
Nobody == "nobody"

\* A client offers 1.1.0 first, which every client knows, and falls back to 1.0.0
\* for an older responder; a legacy requester knows 1.0.0 only.
Framings(req, resp) ==
    {f \in {"1.0.0", "1.1.0"} :
        (req = "client" /\ resp = "client" => f = "1.1.0") /\ (req = "legacy" => f = "1.0.0")}

Init ==
    /\ requester \in Requesters /\ responder \in Responders
    /\ protocol \in Framings(requester, responder)
    /\ book \in SUBSET Addresses /\ calm \in BOOLEAN
    /\ reqPC = "deadline" /\ respPC = "idle"
    /\ request = 0 /\ reqEOF = FALSE /\ raw = 0
    /\ asked = Nobody /\ answer = {}
    /\ response = 0 /\ respEOF = FALSE /\ got = 0 /\ rst = FALSE

Smaller(a, b) == IF a <= b THEN a ELSE b

\* What one read with room for so many units may return of the n in flight.
Reads(n, room) == IF calm THEN {Smaller(n, room)} \ {0} ELSE 1..Smaller(n, room)

ReqGoto(from, to) == reqPC = from /\ reqPC' = to
RespGoto(from, to) == respPC = from /\ respPC' = to

-----------------------------------------------------------------------------
(* The requester.                                                          *)

ReqDeadline ==
    /\ ReqGoto("deadline", "write")
    /\ UNCHANGED <<ends, respPC, inbound, decoded, outbound, got, rst>>

ReqWrite ==
    /\ ReqGoto("write", IF requester = "legacy" THEN "read" ELSE "closeWrite")
    /\ request' = IdLen
    /\ UNCHANGED <<ends, respPC, reqEOF, decoded, outbound, got, rst>>

\* Mutant: the requester does not half-close.
StaysOpen == reqEOF
HalfClosed == TRUE

ReqCloseWrite ==
    /\ ReqGoto("closeWrite", "read")
    /\ reqEOF' = HalfClosed
    /\ UNCHANGED <<ends, respPC, request, decoded, outbound, got, rst>>

\* Mutant: the response is read without a limit.
Unlimited == got + response
ReadLimit == MaxResp + 1

\* io.ReadAll over io.LimitReader: one read of the loop.
ReqRead ==
    /\ ReqGoto("read", "read")
    /\ \E n \in Reads(response, ReadLimit - got) :
          got' = got + n /\ response' = response - n
    /\ UNCHANGED <<ends, respPC, inbound, decoded, respEOF, rst>>

\* The reader stops at the end of the stream or at its limit.
ReqReadEnds ==
    /\ ReqGoto("read", "parse")
    /\ \/ response = 0 /\ respEOF /\ ~rst
       \/ got > MaxResp
    /\ UNCHANGED <<ends, respPC, inbound, decoded, outbound, got, rst>>

\* "[]" takes a unit, and so does every address.
Encoded(addrs) == 1 + Cardinality(addrs)
Whole == responder = "client" => respPC = "closed" /\ got = Encoded(answer)

\* A response over the limit or cut short is an error; the end of success is
\* stream.Close.
ReqParse ==
    /\ got <= MaxResp /\ Whole
    /\ ReqGoto("parse", "ok")
    /\ UNCHANGED <<ends, respPC, inbound, decoded, outbound, got, rst>>

\* Mutant: no deadline: only a reset ends the exchange.
NoDeadline == rst
MayFail == rst \/ ~calm

\* Any error: exchangePeerAddressRequest resets the stream.
ReqFails ==
    /\ \/ reqPC \in {"deadline", "write", "closeWrite", "read"} /\ MayFail
       \/ reqPC = "parse" /\ (got > MaxResp \/ ~Whole \/ responder = "foreign")
    /\ reqPC' = "failed" /\ rst' = TRUE
    /\ UNCHANGED <<ends, respPC, inbound, decoded, outbound, got>>

ReqStep ==
    /\ requester # "foreign"
    /\ ReqDeadline \/ ReqWrite \/ ReqCloseWrite \/ ReqRead \/ ReqReadEnds \/ ReqParse \/ ReqFails

\* Other code at the requester's end writes what it likes, or stops.
ForeignRequest ==
    /\ requester = "foreign" /\ reqPC = "deadline"
    /\ \/ /\ request + raw <= MaxReq + 1 /\ ~reqEOF
          /\ request' = request + 1
          /\ UNCHANGED <<reqEOF, rst, reqPC>>
       \/ reqEOF' = TRUE /\ UNCHANGED <<request, rst, reqPC>>
       \/ rst' = TRUE /\ reqPC' = "failed" /\ UNCHANGED inbound
    /\ UNCHANGED <<ends, respPC, decoded, outbound, got>>

-----------------------------------------------------------------------------
(* The responder.                                                          *)

\* peerAddrLimiter admits the stream (module AddressLimiter) or rejects it.
Accept ==
    /\ responder = "client"
    /\ \/ RespGoto("idle", "read") /\ UNCHANGED rst
       \/ RespGoto("idle", "rejected") /\ rst' = TRUE
    /\ UNCHANGED <<ends, reqPC, inbound, decoded, outbound, got>>

\* 1.1.0: read to the end or to the limit.
ReadAll ==
    /\ protocol = "1.1.0" /\ respPC = "read"
    /\ \/ /\ \E n \in Reads(request, MaxReq + 1 - raw) :
                raw' = raw + n /\ request' = request - n
          /\ UNCHANGED respPC
       \/ /\ \/ request = 0 /\ reqEOF /\ ~rst
             \/ raw > MaxReq
          /\ respPC' = "decode"
          /\ UNCHANGED <<raw, request>>
    /\ UNCHANGED <<ends, reqPC, reqEOF, asked, answer, outbound, got, rst>>

\* Mutant: the one read of 1.0.0 goes on until the end of the stream.
UntilEOF == IF reqEOF THEN "decode" ELSE "read"
AfterOneRead == "decode"

\* 1.0.0: a single read, which may also meet the end of the stream.
readLegacyPeerIDRequest ==
    /\ protocol = "1.0.0"
    /\ RespGoto("read", AfterOneRead)
    /\ \/ \E n \in Reads(request, MaxReq + 1) :
             raw' = raw + n /\ request' = request - n
       \/ request = 0 /\ reqEOF /\ ~rst /\ UNCHANGED <<raw, request>>
    /\ UNCHANGED <<ends, reqPC, reqEOF, asked, answer, outbound, got, rst>>

\* Mutant: a decoded ID is not checked for its length.
AnyLength(p) == p # Nobody
LongEnough(p) == p = Target

\* peer.Decode: the whole ID, or a prefix that happens to be an ID.
Decodes == IF raw = IdLen THEN {Target} ELSE IF raw \in 1..(IdLen - 1) THEN {Other, Nobody}
           ELSE {Nobody}

readPeerIDRequest ==
    /\ respPC = "decode" /\ raw <= MaxReq
    /\ \E p \in Decodes : LongEnough(p) /\ asked' = p
    /\ respPC' = "reply"
    /\ UNCHANGED <<ends, reqPC, inbound, raw, answer, outbound, got, rst>>

\* The direct addresses, as many as may be shared: which ones is up to the
\* order in which the peerstore lists them.
directPeerAddresses(addrs) ==
    LET direct == addrs \ Relayed
    IN  {S \in SUBSET direct : Cardinality(S) = Smaller(Cardinality(direct), MaxShared)}

\* Only Target's ID is long enough to get here.
Reply ==
    /\ RespGoto("reply", "close")
    /\ answer' \in directPeerAddresses(book)
    /\ response' = Encoded(answer')
    /\ UNCHANGED <<ends, reqPC, inbound, raw, asked, respEOF, got, rst>>

CloseStream ==
    /\ RespGoto("close", "closed")
    /\ respEOF' = TRUE
    /\ UNCHANGED <<ends, reqPC, inbound, decoded, response, got, rst>>

\* Mutant: a failed request ends with Close, not with Reset.
CloseOnFailure == rst' = rst /\ respEOF' = TRUE
ResetOnFailure == rst' = TRUE /\ UNCHANGED respEOF

\* A write that fails may have sent a part of the answer, or nothing.
PartWritten == \E S \in directPeerAddresses(book) : response' \in 0..(Encoded(S) - 1)

\* Any error of servePeerAddressRequest.
RespFails ==
    /\ responder = "client"
    /\ \/ respPC = "read" /\ MayFail /\ UNCHANGED response
       \/ respPC = "decode" /\ (raw > MaxReq \/ \E p \in Decodes : ~LongEnough(p))
          /\ UNCHANGED response
       \/ respPC = "reply" /\ MayFail /\ PartWritten
    /\ respPC' = "rejected"
    /\ ResetOnFailure
    /\ UNCHANGED <<ends, reqPC, inbound, decoded, got>>

RespStep ==
    \/ Accept \/ ReadAll \/ readLegacyPeerIDRequest \/ readPeerIDRequest
    \/ Reply \/ CloseStream \/ RespFails

\* Other code at the responder's end sends what it likes, or stops.
ForeignResponse ==
    /\ responder = "foreign" /\ respPC = "idle"
    /\ \/ /\ got + response <= MaxResp + 1 /\ ~respEOF
          /\ response' = response + 1
          /\ UNCHANGED <<respEOF, rst, respPC>>
       \/ respEOF' = TRUE /\ UNCHANGED <<response, rst, respPC>>
       \/ rst' = TRUE /\ respPC' = "rejected" /\ UNCHANGED outbound
    /\ UNCHANGED <<ends, reqPC, inbound, decoded, got>>

-----------------------------------------------------------------------------
Ended ==
    /\ requester # "foreign" => reqPC \in {"ok", "failed"}
    /\ responder # "foreign" => respPC \in {"closed", "rejected"}
Terminated == Ended /\ UNCHANGED vars

Next == ReqStep \/ RespStep \/ ForeignRequest \/ ForeignResponse \/ Terminated

Spec == Init /\ [][Next]_vars

\* Ends that run this code are scheduled, and their deadlines expire; a
\* foreign end owes nothing.
FairSpec == Spec /\ WF_vars(ReqStep) /\ WF_vars(RespStep)

-----------------------------------------------------------------------------
\* Every variable has its type; both ends read no more than one unit past
\* their limits, whatever the other end sends.
TypeOK ==
    /\ requester \in Requesters /\ responder \in Responders
    /\ protocol \in Framings(requester, responder)
    /\ book \subseteq Addresses /\ calm \in BOOLEAN
    /\ reqPC \in {"deadline", "write", "closeWrite", "read", "parse", "ok", "failed"}
    /\ respPC \in {"idle", "read", "decode", "reply", "close", "closed", "rejected"}
    /\ request \in 0..(MaxReq + 2) /\ reqEOF \in BOOLEAN /\ raw \in 0..(MaxReq + 1)
    /\ asked \in {Target, Other, Nobody}
    /\ answer \subseteq book /\ Cardinality(answer) <= MaxShared
    /\ response \in 0..(MaxResp + 2) /\ respEOF \in BOOLEAN /\ got \in 0..(MaxResp + 1)
    /\ rst \in BOOLEAN

\* What TypeOK and the two properties below rest on: no unit of a request or
\* of a response is lost or made up, a client that answers has decoded Target
\* and writes one whole answer before it closes its side, or less than one and
\* resets, and a requester has read the whole of it before it parses.
RequestWhole ==
    /\ request + raw <= MaxReq + 2
    /\ requester # "foreign" =>
          /\ request + raw <= IdLen
          /\ reqPC \in {"deadline", "write"} => request + raw = 0
    /\ respPC = "idle" \/ (respPC = "read" /\ protocol = "1.0.0") => raw = 0

ResponseWhole ==
    /\ got + response <= MaxResp + 2
    /\ responder = "foreign" => respPC \in {"idle", "rejected"}
    /\ responder = "client" =>
          /\ respEOF => respPC = "closed"
          /\ respPC \in {"reply", "close", "closed"} => asked = Target
          /\ IF respPC \in {"close", "closed"}
             THEN answer \in directPeerAddresses(book) /\ got + response = Encoded(answer)
             ELSE answer = {} /\ got + response <= MaxShared
                  /\ (respPC # "rejected" => got + response = 0)
          /\ reqPC \in {"parse", "ok"} => respPC = "closed" /\ response = 0

IInv == TypeOK /\ RequestWhole /\ ResponseWhole

\* A requester that succeeds against this responder has Target's direct
\* addresses: of no other peer, no relay circuit, and all of them unless there
\* are more than may be shared.
AnswersTarget ==
    reqPC = "ok" /\ responder = "client" =>
        /\ asked = Target
        /\ got = Encoded(answer)
        /\ answer \subseteq book \ Relayed
        /\ answer = book \ Relayed \/ Cardinality(answer) = MaxShared

\* A clean end of the stream means the whole answer ("Reset on failure so the
\* requester sees an error rather than a clean EOF").
CleanEndIsWhole ==
    reqPC = "parse" /\ responder = "client" => got = Encoded(answer) /\ respPC = "closed"

\* Neither end is pinned by the other: the requester by a responder that never
\* answers, the responder by a stream that stays silent.
BothEnd ==
    /\ requester # "foreign" /\ ~calm ~> reqPC \in {"ok", "failed"}
    /\ respPC = "read" /\ ~calm ~> respPC \in {"closed", "rejected"}

\* On a calm stream a client and a legacy requester alike are answered by a
\* client, unless the limiter rejects the stream before it is read.
Answered ==
    calm /\ requester # "foreign" /\ responder = "client"
        ~> reqPC = "ok" \/ (respPC = "rejected" /\ raw = 0)
=============================================================================
