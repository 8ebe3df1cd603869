----------------------------- MODULE DropReporter -----------------------------
(***************************************************************************)
(* dropReporter.recordDrop of allowlist.go: pubsub's validation workers    *)
(* count dropped messages and race for the one log line per                *)
(* dropLogInterval.  Every atomic operation, the clock reading and the log *)
(* call are actions of their own; a worker may be descheduled between any  *)
(* two of them for any time.                                               *)
(***************************************************************************)
EXTENDS Naturals, Integers

CONSTANTS
    Workers,           \* pubsub's validation workers
    dropLogInterval,   \* in ticks of the clock
    MaxTime,           \* bound: the last tick
    MaxDrops           \* bound: messages dropped in all

ASSUME IntervalPositive == dropLogInterval \in Nat \ {0}
ASSUME BoundsAreNat == MaxTime \in Nat /\ MaxDrops \in Nat

VARIABLES
    now,        \* ticks since the reporter's start
    dropped,    \* dropReporter.dropped
    lastLog,    \* dropReporter.lastLog, 0 for "never"
    pc,         \* where each worker stands in recordDrop
    elapsed,    \* its local variables
    last,
    recorded,   \* history: calls of recordDrop
    claims,     \* history: successful CompareAndSwaps
    claimed     \* history: drops taken out of the counter by Swap

locals  == <<elapsed, last>>
history == <<recorded, claims, claimed>>
vars == <<now, dropped, lastLog, pc, locals, history>>

Steps == {"idle", "clock", "load", "cas", "swap", "log"}

Init ==
    /\ now = 0 /\ dropped = 0 /\ lastLog = 0
    /\ pc = [w \in Workers |-> "idle"]
    /\ elapsed = [w \in Workers |-> 0]
    /\ last = [w \in Workers |-> 0]
    /\ recorded = 0 /\ claims = 0 /\ claimed = 0

Goto(w, from, to) == pc[w] = from /\ pc' = [pc EXCEPT ![w] = to]

Tick ==
    /\ now < MaxTime
    /\ now' = now + 1
    /\ UNCHANGED <<dropped, lastLog, pc, locals, history>>

Add(w) ==
    /\ recorded < MaxDrops
    /\ Goto(w, "idle", "clock")
    /\ dropped' = dropped + 1
    /\ recorded' = recorded + 1
    /\ UNCHANGED <<now, lastLog, locals, claims, claimed>>

\* Mutant: the reading is not offset, so that the first tick stores the sentinel.
ElapsedUnshifted == now
Elapsed == now + 1

ReadClock(w) ==
    /\ Goto(w, "clock", "load")
    /\ elapsed' = [elapsed EXCEPT ![w] = Elapsed]
    /\ UNCHANGED <<now, dropped, lastLog, last, history>>

TooEarly(e, l) == l # 0 /\ e - l < dropLogInterval

Load(w) ==
    /\ Goto(w, "load", IF TooEarly(elapsed[w], lastLog) THEN "idle" ELSE "cas")
    /\ last' = [last EXCEPT ![w] = lastLog]
    /\ UNCHANGED <<now, dropped, lastLog, elapsed, history>>

\* Mutant: lastLog is stored without comparing it with what was loaded.
BlindStore(w) == TRUE
Wins(w) == lastLog = last[w]

CompareAndSwap(w) ==
    /\ IF Wins(w)
       THEN /\ Goto(w, "cas", "swap")
            /\ lastLog' = elapsed[w]
            /\ claims' = claims + 1
       ELSE /\ Goto(w, "cas", "idle")
            /\ UNCHANGED <<lastLog, claims>>
    /\ UNCHANGED <<now, dropped, locals, recorded, claimed>>

\* Mutant: the counter is read and not reset with it.
LoadOnly == UNCHANGED dropped
Reset == dropped' = 0

Swap(w) ==
    /\ Goto(w, "swap", "log")
    /\ claimed' = claimed + dropped
    /\ Reset
    /\ UNCHANGED <<now, lastLog, locals, recorded, claims>>

\* log.Infof: one line with the count that Swap returned.
Log(w) ==
    /\ Goto(w, "log", "idle")
    /\ UNCHANGED <<now, dropped, lastLog, locals, history>>

recordDrop(w) ==
    Add(w) \/ ReadClock(w) \/ Load(w) \/ CompareAndSwap(w) \/ Swap(w) \/ Log(w)

Next == Tick \/ \E w \in Workers : recordDrop(w)

Spec == Init /\ [][Next]_vars

-----------------------------------------------------------------------------
\* Types of the counters, markers and locals.
TypeOK ==
    /\ now \in 0..MaxTime
    /\ dropped \in Nat /\ lastLog \in 0..(MaxTime + 1)
    /\ pc \in [Workers -> Steps]
    /\ elapsed \in [Workers -> 0..(MaxTime + 1)]
    /\ last \in [Workers -> 0..(MaxTime + 1)]
    /\ recorded \in 0..MaxDrops
    /\ claims \in Nat /\ claimed \in Nat

\* "A caller that loses the race below never loses a count": every recorded
\* drop is still in the counter or was taken by exactly one Swap.
NoCountLost == recorded = dropped + claimed

\* "Exactly one wins per interval": the marker moves only forward, and by at
\* least the interval once a line has been claimed.
MarkersSpaced ==
    [][ lastLog' # lastLog =>
          lastLog' > 0 /\ (lastLog = 0 \/ lastLog' - lastLog >= dropLogInterval) ]_vars

\* However many messages are dropped, the claims for a line number at most
\* one more than the whole intervals since the start.
RateBounded == claims > 0 => (claims - 1) * dropLogInterval <= now

\* What the claims rest on: no clock reading is ahead of the clock, a worker
\* about to compare has an old enough marker in hand, and the marker has moved
\* an interval for every claim but the first.
ReadingsPast ==
    \A w \in Workers :
        /\ elapsed[w] <= now + 1
        /\ pc[w] \in {"load", "cas"} => elapsed[w] > 0
        /\ pc[w] = "cas" => ~TooEarly(elapsed[w], last[w])

ClaimsSpaced ==
    /\ lastLog <= now + 1
    /\ claims = 0 => lastLog = 0
    /\ claims > 0 => lastLog > 0 /\ (claims - 1) * dropLogInterval <= lastLog - 1

IInv == TypeOK /\ NoCountLost /\ ReadingsPast /\ ClaimsSpaced
=============================================================================
