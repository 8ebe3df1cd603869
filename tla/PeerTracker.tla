----------------------------- MODULE PeerTracker -----------------------------
(***************************************************************************)
(* peerTracker of types.go as the receive loops of client.go use it: the   *)
(* reader of every subscription runs its messages through the malformed    *)
(* check, the decoder and the tracker, and GetPeers reads what they wrote. *)
(* Each tracker method holds the tracker's lock, so it is one action; the  *)
(* readers interleave between them.                                        *)
(***************************************************************************)
EXTENDS Integers, FiniteSets

CONSTANTS
    Readers,              \* reader goroutines, one per subscription
    Authors,              \* the remote authors of messages
    Self,                 \* this host, whose own messages pubsub returns too
    malformedThreshold,
    MaxMessages           \* bound: messages that arrive in all

ASSUME ReadersFinite == IsFiniteSet(Readers)
ASSUME SelfIsNotRemote == Self \notin Authors
ASSUME ThresholdPositive == malformedThreshold \in Nat \ {0} /\ MaxMessages \in Nat

VARIABLES
    names,          \* the authors with an entry in peerTracker.names
    topicPeers,     \* peerTracker.topicPeers (and the keys of lastSeen)
    malformed,      \* peerTracker.malformed
    skipMalformed,  \* peerTracker.skipMalformed
    pc,             \* where each reader stands with its message
    author,         \* the author of that message
    valid,          \* whether it decodes
    warned,         \* history: WARN lines logged about an author
    late,           \* history: messages forwarded although their author was skipped
    arrived,        \* history: messages pulled from pubsub
    listed          \* what the running GetPeers has snapshotted, or {}

tracker == <<names, topicPeers, malformed, skipMalformed>>
history == <<warned, late, arrived>>
vars == <<tracker, pc, author, valid, history, listed>>

Steps == {"next", "check", "decode", "record", "send"}

Init ==
    /\ names = {} /\ topicPeers = {} /\ listed = {}
    /\ malformed = [a \in Authors |-> 0]
    /\ skipMalformed = {}
    /\ pc = [r \in Readers |-> "next"]
    /\ author = [r \in Readers |-> Self]
    /\ valid = [r \in Readers |-> TRUE]
    /\ warned = [a \in Authors |-> 0]
    /\ late = [a \in Authors |-> 0]
    /\ arrived = 0

Goto(r, from, to) == pc[r] = from /\ pc' = [pc EXCEPT ![r] = to]

IsOwn(a) == a = Self

\* sub.Next, and the test for the host's own messages.
Receive(r, a, ok) ==
    /\ arrived < MaxMessages
    /\ Goto(r, "next", IF IsOwn(a) THEN "next" ELSE "check")
    /\ author' = [author EXCEPT ![r] = a]
    /\ valid' = [valid EXCEPT ![r] = ok]
    /\ arrived' = arrived + 1
    /\ UNCHANGED <<tracker, warned, late, listed>>

\* Mutant: the skip list is not consulted.
NeverSkips(a) == FALSE
Skips(a) == a \in skipMalformed

shouldSkipMalformed(r) ==
    /\ Goto(r, "check", IF Skips(author[r]) THEN "next" ELSE "decode")
    /\ UNCHANGED <<tracker, author, valid, history, listed>>

\* Mutant: the test forgets that the author is skipped already.
SkipsAgain(a) == malformed[a] + 1 >= malformedThreshold
JustSkipped(a) == malformed[a] + 1 >= malformedThreshold /\ a \notin skipMalformed

\* json.Unmarshal fails: handleMalformedMessage and recordMalformed.
RecordMalformed(r) ==
    LET a == author[r] IN
    /\ ~valid[r] /\ Goto(r, "decode", "next")
    /\ malformed' = [malformed EXCEPT ![a] = @ + 1]
    /\ IF JustSkipped(a)
       THEN /\ skipMalformed' = skipMalformed \cup {a}
            /\ warned' = [warned EXCEPT ![a] = @ + 1]
       ELSE UNCHANGED <<skipMalformed, warned>>
    /\ UNCHANGED <<names, topicPeers, author, valid, late, arrived, listed>>

updateName(r) ==
    /\ valid[r] /\ Goto(r, "decode", "record")
    /\ names' = names \cup {author[r]}
    /\ UNCHANGED <<topicPeers, malformed, skipMalformed, author, valid, history, listed>>

recordMessageFrom(r) ==
    /\ Goto(r, "record", "send")
    /\ topicPeers' = topicPeers \cup {author[r]}
    /\ UNCHANGED <<names, malformed, skipMalformed, author, valid, history, listed>>

\* The message goes to the subscription's channel.
Forward(r) ==
    /\ Goto(r, "send", "next")
    /\ late' = [late EXCEPT ![author[r]] = IF author[r] \in skipMalformed THEN @ + 1 ELSE @]
    /\ UNCHANGED <<tracker, author, valid, warned, arrived, listed>>

\* GetPeers: getAllTopicPeers under one lock, then getName peer by peer.
GetPeers ==
    /\ listed = {} /\ topicPeers # {}
    /\ listed' = topicPeers
    /\ UNCHANGED <<tracker, pc, author, valid, history>>

getName(a) ==
    /\ a \in listed
    /\ listed' = listed \ {a}
    /\ UNCHANGED <<tracker, pc, author, valid, history>>

ReaderStep(r) ==
    \/ shouldSkipMalformed(r) \/ RecordMalformed(r)
    \/ updateName(r) \/ recordMessageFrom(r) \/ Forward(r)

Next ==
    \/ \E r \in Readers :
          \/ \E a \in Authors \cup {Self}, ok \in BOOLEAN : Receive(r, a, ok)
          \/ ReaderStep(r)
    \/ GetPeers
    \/ \E a \in Authors : getName(a)

Spec == Init /\ [][Next]_vars

-----------------------------------------------------------------------------
\* Types of the tracker's maps and of the readers' locals.
TypeOK ==
    /\ names \subseteq Authors /\ topicPeers \subseteq Authors
    /\ listed \subseteq Authors /\ skipMalformed \subseteq Authors
    /\ malformed \in [Authors -> Nat]
    /\ pc \in [Readers -> Steps]
    /\ author \in [Readers -> Authors \cup {Self}]
    /\ \A r \in Readers : pc[r] # "next" => author[r] \in Authors
    /\ valid \in [Readers -> BOOLEAN]
    /\ warned \in [Authors -> Nat] /\ late \in [Authors -> Nat]
    /\ arrived \in Nat

\* "A single WARN is logged on transition to skipped state": an author has
\* been warned about once if it is skipped, and never otherwise, although
\* several readers count its messages at once.
WarnedOnce ==
    \A a \in Authors : warned[a] = IF a \in skipMalformed THEN 1 ELSE 0

\* GetPeers never reports a topic peer as "unknown": the name is stored
\* before the peer is listed.
ListedPeersHaveNames == topicPeers \cup listed \subseteq names

\* Types, one warning per transition to the skipped state, and names for all.
IInv == TypeOK /\ WarnedOnce /\ ListedPeersHaveNames

\* The readers that hold a message of author a past the check.
PastCheck(a) == {r \in Readers : author[r] = a /\ pc[r] \in {"decode", "record", "send"}}

\* "The number of malformed messages tolerated from a peer before it is
\* skipped": the author is skipped exactly from the threshold on, and all that
\* is still counted or forwarded after that is what the other readers already
\* held past the check.
OverrunBounded ==
    \A a \in Authors :
        /\ malformed[a] >= malformedThreshold <=> a \in skipMalformed
        /\ a \in skipMalformed =>
              (malformed[a] - malformedThreshold) + late[a] + Cardinality(PastCheck(a))
                  <= Cardinality(Readers) - 1
=============================================================================
