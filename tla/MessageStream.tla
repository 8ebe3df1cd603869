---------------------------- MODULE MessageStream ----------------------------
(***************************************************************************)
(* What the doc comment of Subscribe promises a consumer, without pubsub,  *)
(* goroutines or locks: each stream hands over, in order and without       *)
(* duplicates or gaps, the messages it accepted, except those that it is   *)
(* to leave out; it is closed once, and a stream that has accepted a       *)
(* message ends only when the client shuts down.  Shutdown may cost a      *)
(* stream the tail it had not handed over.                                 *)
(***************************************************************************)
EXTENDS Naturals, Sequences

CONSTANTS
    Streams,
    Items,
    Unwanted    \* items that no consumer is to receive

VARIABLES
    phase,      \* "none", "open" or "closed", per stream
    pending,    \* accepted by the stream, not yet received
    received,   \* received by the consumer
    ending      \* the client is shutting down

vars == <<phase, pending, received, ending>>

Init ==
    /\ phase = [s \in Streams |-> "none"]
    /\ pending = [s \in Streams |-> <<>>]
    /\ received = [s \in Streams |-> <<>>]
    /\ ending = FALSE

Move(s, from, to) == phase[s] = from /\ phase' = [phase EXCEPT ![s] = to]

Open(s) == Move(s, "none", "open") /\ UNCHANGED <<pending, received, ending>>

Refuse(s) ==
    /\ ending
    /\ Move(s, "none", "closed") /\ UNCHANGED <<pending, received, ending>>

\* One message reaches some of the open streams.
Accept(S, m) ==
    /\ \A s \in S : phase[s] = "open"
    /\ pending' = [s \in Streams |->
                     IF s \in S THEN Append(pending[s], m) ELSE pending[s]]
    /\ UNCHANGED <<phase, received, ending>>

\* Only an unwanted item is left out.
Skip(s, i) ==
    /\ pending[s][i] \in Unwanted
    /\ pending' = [pending EXCEPT ![s] = SubSeq(@, 1, i - 1) \o SubSeq(@, i + 1, Len(@))]
    /\ UNCHANGED <<phase, received, ending>>

Take(s) ==
    /\ pending[s] # <<>> /\ Head(pending[s]) \notin Unwanted
    /\ received' = [received EXCEPT ![s] = Append(@, Head(pending[s]))]
    /\ pending' = [pending EXCEPT ![s] = Tail(@)]
    /\ UNCHANGED <<phase, ending>>

Shutdown == ending' = TRUE /\ UNCHANGED <<phase, pending, received>>

\* The stream keeps n of its pending messages and will accept no more.
Abandon(s, n) ==
    /\ ending /\ phase[s] = "open"
    /\ pending' = [pending EXCEPT ![s] = SubSeq(@, 1, n)]
    /\ UNCHANGED <<phase, received, ending>>

End(s) ==
    /\ ending \/ pending[s] \o received[s] = <<>>
    /\ Move(s, "open", "closed") /\ UNCHANGED <<pending, received, ending>>

Next ==
    \/ Shutdown
    \/ \E S \in SUBSET Streams, m \in Items : Accept(S, m)
    \/ \E s \in Streams :
          \/ Open(s) \/ Refuse(s) \/ Take(s) \/ End(s)
          \/ \E i \in DOMAIN pending[s] : Skip(s, i)
          \/ \E n \in 0..Len(pending[s]) : Abandon(s, n)

Spec == Init /\ [][Next]_vars
=============================================================================
