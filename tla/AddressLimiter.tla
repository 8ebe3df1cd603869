---------------------------- MODULE AddressLimiter ----------------------------
(***************************************************************************)
(* The budget of inbound peer-address requests: handlePeerAddressRequest   *)
(* of client.go reads the clock, then calls peerAddressLimiter.allow of    *)
(* types.go, which takes the limiter's lock.  Handlers run concurrently,   *)
(* one per stream, so the lock may be taken in another order than the      *)
(* clock was read.                                                         *)
(***************************************************************************)
EXTENDS Integers, FiniteSets

CONSTANTS
    Handlers,      \* handler goroutines, each serving stream after stream
    Peers,         \* remote peers
    Window,        \* peerAddressRequestWindow, in ticks
    Budget,        \* peerAddressRequestsPerWindow
    MaxLag,        \* ticks a handler may spend between clock and lock
    MaxTime,       \* bound: the last tick
    MaxRequests,   \* bound: streams opened in all
    None           \* no request

ASSUME WindowPositive == Window \in Nat \ {0}
ASSUME BudgetIsNat == Budget \in Nat \ {0}
ASSUME NoneIsNoRequest == None \notin [peer : Peers, stamp : Nat]
ASSUME BoundsAreNat == MaxTime \in Nat /\ MaxRequests \in Nat /\ MaxLag \in Nat

VARIABLES
    now,        \* the clock
    windows,    \* peerAddressLimiter.windows: peer -> [start, count]
    request,    \* what a handler holds before it calls allow: the peer and
                \* its reading of the clock, or None
    opened,     \* history: streams opened
    lastStamp,  \* history: the reading of the last call of allow
    opening,    \* history: windows a peer has had
    granted,    \* history: requests allowed
    refused,    \* history: requests rejected in the peer's current window
    warned      \* history: firstRejection results in the peer's current window

history == <<opened, lastStamp, opening, granted, refused, warned>>
vars == <<now, windows, request, history>>

Init ==
    /\ now = 0 /\ windows = <<>>
    /\ request = [h \in Handlers |-> None]
    /\ opened = 0 /\ lastStamp = 0
    /\ opening = [p \in Peers |-> 0] /\ granted = {}
    /\ refused = [p \in Peers |-> 0]
    /\ warned = [p \in Peers |-> 0]

Tick ==
    /\ now < MaxTime
    /\ \A h \in Handlers : request[h] # None => now - request[h].stamp < MaxLag
    /\ now' = now + 1
    /\ UNCHANGED <<windows, request, history>>

\* A stream arrives; its handler evaluates time.Now().
Open(h, p) ==
    /\ request[h] = None
    /\ request' = [request EXCEPT ![h] = [peer |-> p, stamp |-> now]]
    /\ opened < MaxRequests /\ opened' = opened + 1
    /\ UNCHANGED <<now, windows, lastStamp, opening, granted, refused, warned>>

\* Mutant: a window expires one tick late.
ExpiredLate(w, t) == t - w.start > Window
Expired(w, t) == t - w.start >= Window

Live(t) == {p \in DOMAIN windows : ~Expired(windows[p], t)}

\* Mutants: the budget is off by one; every rejection is reported as the first.
FreshWindow(t) == [start |-> t, count |-> 1]
OverBudgetLate(n) == n > Budget + 1
OverBudget(n) == n > Budget
WarnsAlways(n) == n > Budget
FirstRejection(n) == n = Budget + 1

\* The n-th request of p that a window, p's k-th, allows.
Grant(p, k, n) == [peer |-> p, window |-> k, nth |-> n, at |-> now]

\* allow: prune the expired windows, count the request, compare with the
\* budget.  The handler warns on the first rejection and resets the stream.
Allow(h, p, t) ==
    LET fresh == p \notin Live(t)
        w == IF fresh THEN FreshWindow(t)
                      ELSE [windows[p] EXCEPT !.count = @ + 1]
    IN
    /\ request[h] = [peer |-> p, stamp |-> t]
    /\ request' = [request EXCEPT ![h] = None]
    /\ windows' = [q \in Live(t) \cup {p} |-> IF q = p THEN w ELSE windows[q]]
    /\ lastStamp' = t
    /\ opening' = [opening EXCEPT ![p] = @ + (IF fresh THEN 1 ELSE 0)]
    /\ granted' = IF OverBudget(w.count) THEN granted
                  ELSE granted \cup {Grant(p, opening'[p], w.count)}
    /\ refused' = [refused EXCEPT ![p] =
                     (IF fresh THEN 0 ELSE @) + (IF OverBudget(w.count) THEN 1 ELSE 0)]
    /\ warned' = [warned EXCEPT ![p] =
                     (IF fresh THEN 0 ELSE @) + (IF FirstRejection(w.count) THEN 1 ELSE 0)]
    /\ UNCHANGED <<now, opened>>

Next ==
    \/ Tick
    \/ \E h \in Handlers, p \in Peers :
          Open(h, p) \/ \E t \in 0..now : Allow(h, p, t)

Spec == Init /\ [][Next]_vars

-----------------------------------------------------------------------------
Grants == [peer : Peers, window : Nat \ {0}, nth : 1..Budget, at : 0..now]

\* Types of the limiter's map and the handlers' locals.
TypeOK ==
    /\ now \in 0..MaxTime /\ opened \in 0..MaxRequests /\ lastStamp \in 0..now
    /\ DOMAIN windows \subseteq Peers
    /\ \A p \in DOMAIN windows : windows[p] \in [start : 0..now, count : Nat \ {0}]
    /\ request \in [Handlers -> {None} \cup [peer : Peers, stamp : 0..now]]
    /\ opening \in [Peers -> Nat] /\ granted \subseteq Grants
    /\ refused \in [Peers -> Nat] /\ warned \in [Peers -> Nat]

\* "The per-peer budget of inbound peer-address requests" is per fixed window,
\* whose start is a reading of the clock that may be late at the lock:
\* whenever requests arrive and however readings and lock acquisitions
\* interleave, no stretch of a window less twice that lag sees more than two
\* budgets served.
Stretch(t) == t..(t + Window - 2 * MaxLag)

SlidingBound ==
    \A p \in Peers, t \in 0..MaxTime :
        Cardinality({g \in granted : g.peer = p /\ g.at \in Stretch(t)}) <= 2 * Budget

\* "firstRejection is true only for the first request over budget in the
\* current window, so the caller can log it once": a window with a rejected
\* request has exactly one warning.
WarnedOncePerWindow ==
    \A p \in Peers : warned[p] = IF refused[p] > 0 THEN 1 ELSE 0

\* "Expired windows are pruned on every call; the map is bounded by the set
\* of peers that made a request within the last window."
MapBounded == \A p \in DOMAIN windows : lastStamp - windows[p].start < Window

\* Types - a handler's clock reading is never ahead of the clock - and the
\* bounded map.
IInv == TypeOK /\ MapBounded
=============================================================================
