------------------------- MODULE AddressLimiterProofs -------------------------
(***************************************************************************)
(* The limiter keeps its promises for any number of handlers and peers,    *)
(* any window, budget and lag.                                             *)
(***************************************************************************)
EXTENDS AddressLimiter, FiniteSetTheorems, TLAPS

-----------------------------------------------------------------------------
(* The map.                                                                *)

\* A handler's reading of the clock is at most MaxLag old.
LagBounded == \A h \in Handlers : request[h] # None => now - request[h].stamp <= MaxLag

\* A window in the map is one that was counted.
Counted == \A p \in DOMAIN windows : opening[p] > 0

Typed == TypeOK /\ MapBounded /\ LagBounded /\ Counted

\* What a call of allow does, put without its local names.
Effect(p, t) ==
    /\ DOMAIN windows' = Live(t) \cup {p}
    /\ \A q \in Live(t) \ {p} : windows'[q] = windows[q]
    /\ now - t <= MaxLag
    /\ \/ /\ p \notin Live(t)
          /\ windows'[p] = [start |-> t, count |-> 1]
          /\ opening' = [opening EXCEPT ![p] = @ + 1]
       \/ /\ p \in Live(t)
          /\ windows'[p] = [windows[p] EXCEPT !.count = @ + 1]
          /\ opening' = opening
    /\ \/ windows'[p].count > Budget /\ granted' = granted
       \/ /\ windows'[p].count <= Budget
          /\ granted' = granted \cup {Grant(p, opening'[p], windows'[p].count)}
    /\ UNCHANGED <<now, opened>>

LEMMA AllowCases ==
    ASSUME Typed, NEW h \in Handlers, NEW p \in Peers, NEW t \in 0..now, Allow(h, p, t)
    PROVE  Effect(p, t)
<1> DEFINE fresh == p \notin Live(t)
<1> DEFINE w == IF fresh THEN FreshWindow(t) ELSE [windows[p] EXCEPT !.count = @ + 1]
<1>1. windows' = [q \in Live(t) \cup {p} |-> IF q = p THEN w ELSE windows[q]]
  BY DEF Allow
<1>2. windows'[p] = w
  BY <1>1
<1>3. now - t <= MaxLag
  BY NoneIsNoRequest DEF Allow, Typed, TypeOK, LagBounded
<1>4. opening' = [opening EXCEPT ![p] = @ + (IF fresh THEN 1 ELSE 0)]
  BY DEF Allow
<1>5. fresh \/ opening' = opening
  BY <1>4 DEF Typed, TypeOK
<1>6. granted' = IF OverBudget(w.count) THEN granted
                 ELSE granted \cup {Grant(p, opening'[p], w.count)}
  BY DEF Allow
<1>7. w.count \in Nat
  BY DEF FreshWindow, Live, Typed, TypeOK
<1>8. UNCHANGED <<now, opened>>
  BY DEF Allow
<1>9. /\ DOMAIN windows' = Live(t) \cup {p}
      /\ \A q \in Live(t) \ {p} : windows'[q] = windows[q]
  BY <1>1
<1>10. \/ fresh /\ w = [start |-> t, count |-> 1] /\ opening' = [opening EXCEPT ![p] = @ + 1]
       \/ ~fresh /\ w = [windows[p] EXCEPT !.count = @ + 1] /\ opening' = opening
  BY <1>4, <1>5 DEF FreshWindow
<1>11. \/ w.count > Budget /\ granted' = granted
       \/ w.count <= Budget /\ granted' = granted \cup {Grant(p, opening'[p], w.count)}
  BY <1>6, <1>7, BudgetIsNat DEF OverBudget
<1> QED
  BY <1>2, <1>3, <1>8, <1>9, <1>10, <1>11 DEF Effect

LEMMA InitTyped == Init => Typed
<1> SUFFICES ASSUME Init
             PROVE  Typed
  OBVIOUS
<1>1. 0 \in 0..MaxTime /\ 0 \in 0..MaxRequests /\ DOMAIN windows = {}
  BY BoundsAreNat DEF Init
<1>2. QED
  BY <1>1 DEF Init, Typed, TypeOK, MapBounded, LagBounded, Counted

LEMMA TickTyped ==
    ASSUME Typed, Tick
    PROVE  Typed'
<1>1. now' = now + 1 /\ now' \in 0..MaxTime /\ UNCHANGED <<windows, request, history>>
  BY BoundsAreNat DEF Tick, Typed, TypeOK
<1>2. granted \subseteq Grants'
  BY <1>1 DEF Typed, TypeOK, Grants
<1>3. \A h \in Handlers : request[h] \in {None} \cup [peer : Peers, stamp : 0..now']
  BY <1>1 DEF Typed, TypeOK
<1>4. TypeOK'
  BY <1>1, <1>2, <1>3 DEF Typed, TypeOK, history
<1>5. LagBounded'
  <2>1. ASSUME NEW h \in Handlers, request[h] # None
        PROVE  now' - request'[h].stamp <= MaxLag
    <3>1. request[h].stamp \in 0..now /\ now - request[h].stamp < MaxLag /\ now \in Int
      BY <2>1 DEF Tick, Typed, TypeOK
    <3>2. QED
      BY <1>1, <3>1, BoundsAreNat
  <2>2. request' = request
    BY <1>1
  <2>3. QED
    BY <2>1, <2>2 DEF LagBounded
<1>6. QED
  BY <1>1, <1>4, <1>5 DEF Typed, MapBounded, Counted, history

LEMMA OpenTyped ==
    ASSUME Typed, NEW h \in Handlers, NEW p \in Peers, Open(h, p)
    PROVE  Typed'
<1>1. request' \in [Handlers -> {None} \cup [peer : Peers, stamp : 0..now]]
  BY DEF Open, Typed, TypeOK
<1>2. opened' \in 0..MaxRequests
  BY BoundsAreNat DEF Open, Typed, TypeOK
<1>3. TypeOK'
  BY <1>1, <1>2 DEF Open, Typed, TypeOK, Grants
<1>4. LagBounded'
  BY BoundsAreNat DEF Open, Typed, TypeOK, LagBounded
<1>5. QED
  BY <1>3, <1>4 DEF Open, Typed, MapBounded, Counted

\* A call of allow leaves windows that are not expired at its reading.
LEMMA AllowTyped ==
    ASSUME Typed, NEW h \in Handlers, NEW p \in Peers, NEW t \in 0..now, Allow(h, p, t)
    PROVE  Typed'
<1> USE DEF Effect
<1>0. Effect(p, t)
  BY AllowCases
<1>1. DOMAIN windows' = Live(t) \cup {p} /\ UNCHANGED <<now, opened>> /\ lastStamp' = t
  BY <1>0 DEF Allow
<1>2. ASSUME NEW q \in DOMAIN windows'
      PROVE  /\ windows'[q] \in [start : 0..now, count : Nat \ {0}]
             /\ t - windows'[q].start < Window
  <2>1. CASE q \in Live(t)
    <3>1. windows[q] \in [start : 0..now, count : Nat \ {0}] /\ t - windows[q].start < Window
      BY <2>1, WindowPositive DEF Typed, TypeOK, Live, Expired
    <3>2. CASE q = p
      <4>1. windows'[q] = [windows[q] EXCEPT !.count = @ + 1]
        BY <2>1, <3>2, <1>0
      <4>2. QED
        BY <3>1, <4>1
    <3>3. CASE q # p
      <4>1. windows'[q] = windows[q]
        BY <2>1, <3>3, <1>0
      <4>2. QED
        BY <3>1, <4>1
    <3>4. QED
      BY <3>2, <3>3
  <2>2. CASE q \notin Live(t)
    <3>1. windows'[q] = [start |-> t, count |-> 1]
      BY <1>1, <2>2, <1>0
    <3>2. QED
      BY <3>1, WindowPositive DEF Typed, TypeOK
  <2>3. QED
    BY <2>1, <2>2
<1>3. opening' \in [Peers -> Nat] /\ opening'[p] > 0 /\ \A q \in Peers : opening'[q] >= opening[q]
  <2>1. opening \in [Peers -> Nat] /\ (p \in Live(t) => opening[p] > 0)
    BY DEF Typed, TypeOK, Counted, Live
  <2>2. CASE p \in Live(t) /\ opening' = opening
    BY <2>1, <2>2
  <2>3. CASE opening' = [opening EXCEPT ![p] = @ + 1]
    BY <2>1, <2>3
  <2>4. QED
    BY <2>2, <2>3, <1>0
<1>4. granted' \subseteq Grants'
  <2>1. windows'[p].count \in Nat \ {0} /\ opening'[p] \in Nat \ {0}
    BY <1>1, <1>2, <1>3
  <2>2. windows'[p].count <= Budget => Grant(p, opening'[p], windows'[p].count) \in Grants
    BY <2>1, BudgetIsNat DEF Grant, Grants, Typed, TypeOK
  <2>3. Grants' = Grants
    BY <1>1 DEF Grants
  <2>4. granted \subseteq Grants
    BY DEF Typed, TypeOK
  <2>5. \/ granted' = granted
        \/ /\ windows'[p].count <= Budget
           /\ granted' = granted \cup {Grant(p, opening'[p], windows'[p].count)}
    BY <1>0
  <2>6. QED
    BY <2>2, <2>3, <2>4, <2>5
<1>5. request' \in [Handlers -> {None} \cup [peer : Peers, stamp : 0..now]]
      /\ \A g \in Handlers : request'[g] # None => request'[g] = request[g]
  BY DEF Allow, Typed, TypeOK
<1>6. refused' \in [Peers -> Nat] /\ warned' \in [Peers -> Nat]
  BY DEF Allow, Typed, TypeOK
<1>7. TypeOK'
  BY <1>1, <1>2, <1>3, <1>4, <1>5, <1>6 DEF Typed, TypeOK, Live
<1>8. MapBounded'
  BY <1>1, <1>2 DEF MapBounded
<1>9. LagBounded'
  BY <1>1, <1>5 DEF Typed, LagBounded
<1>10. Counted'
  <2>1. \A q \in DOMAIN windows' : q = p \/ q \in DOMAIN windows
    BY <1>1 DEF Live
  <2>2. QED
    BY <1>3, <2>1 DEF Typed, TypeOK, Counted
<1>11. QED
  BY <1>7, <1>8, <1>9, <1>10 DEF Typed

LEMMA NextTyped == Typed /\ [Next]_vars => Typed'
<1> SUFFICES ASSUME Typed, [Next]_vars
             PROVE  Typed'
  OBVIOUS
<1>1. CASE UNCHANGED vars
  BY <1>1 DEF vars, history, Typed, TypeOK, Grants, MapBounded, LagBounded, Counted
<1>2. CASE Next
  BY <1>2, TickTyped, OpenTyped, AllowTyped DEF Next
<1>3. QED
  BY <1>1, <1>2

\* Types, and a map that holds no window older than Window when allow returns.
THEOREM Invariance == Spec => []IInv
<1>1. Typed => IInv
  BY DEF Typed, IInv
<1>2. QED
  BY <1>1, InitTyped, NextTyped, PTL DEF Spec

-----------------------------------------------------------------------------
(* One warning per window.                                                 *)

\* What a peer has been refused in its window, and what it has been told.
Refusals ==
    \A p \in Peers :
        /\ warned[p] = IF refused[p] > 0 THEN 1 ELSE 0
        /\ p \in DOMAIN windows =>
              refused[p] = IF windows[p].count > Budget THEN windows[p].count - Budget ELSE 0

LEMMA AllowRefuses ==
    ASSUME Typed, Refusals, NEW h \in Handlers, NEW p \in Peers, NEW t \in 0..now, Allow(h, p, t)
    PROVE  Refusals'
<1> DEFINE fresh == p \notin Live(t)
<1> DEFINE w == IF fresh THEN FreshWindow(t) ELSE [windows[p] EXCEPT !.count = @ + 1]
<1>1. /\ refused' = [refused EXCEPT ![p] =
                       (IF fresh THEN 0 ELSE @) + (IF OverBudget(w.count) THEN 1 ELSE 0)]
      /\ warned' = [warned EXCEPT ![p] =
                       (IF fresh THEN 0 ELSE @) + (IF FirstRejection(w.count) THEN 1 ELSE 0)]
      /\ windows' = [q \in Live(t) \cup {p} |-> IF q = p THEN w ELSE windows[q]]
  BY DEF Allow
<1>2. refused \in [Peers -> Nat] /\ warned \in [Peers -> Nat] /\ Live(t) \subseteq DOMAIN windows
  BY DEF Typed, TypeOK, Live
<1>3. ASSUME NEW q \in Peers, q # p
      PROVE  /\ warned'[q] = warned[q] /\ refused'[q] = refused[q]
             /\ q \in DOMAIN windows' => q \in DOMAIN windows /\ windows'[q] = windows[q]
  BY <1>1, <1>2, <1>3
<1>4. ASSUME fresh
      PROVE  /\ warned'[p] = IF refused'[p] > 0 THEN 1 ELSE 0
             /\ refused'[p] = IF windows'[p].count > Budget THEN windows'[p].count - Budget ELSE 0
  <2>1. w.count = 1 /\ windows'[p] = w
    BY <1>1, <1>4 DEF FreshWindow
  <2>2. refused'[p] = 0 /\ warned'[p] = 0
    BY <1>1, <1>2, <1>4, <2>1, BudgetIsNat DEF OverBudget, FirstRejection
  <2>3. QED
    BY <2>1, <2>2, BudgetIsNat
<1>5. ASSUME ~fresh
      PROVE  /\ warned'[p] = IF refused'[p] > 0 THEN 1 ELSE 0
             /\ refused'[p] = IF windows'[p].count > Budget THEN windows'[p].count - Budget ELSE 0
  <2>1. windows[p].count \in Nat \ {0} /\ w.count = windows[p].count + 1 /\ windows'[p] = w
    BY <1>1, <1>2, <1>5 DEF Typed, TypeOK
  <2>2. /\ refused'[p] = refused[p] + (IF w.count > Budget THEN 1 ELSE 0)
        /\ warned'[p] = warned[p] + (IF w.count = Budget + 1 THEN 1 ELSE 0)
    BY <1>1, <1>2, <1>5 DEF OverBudget, FirstRejection
  <2>3. /\ warned[p] = IF refused[p] > 0 THEN 1 ELSE 0
        /\ refused[p] = IF windows[p].count > Budget THEN windows[p].count - Budget ELSE 0
    BY <1>2, <1>5 DEF Refusals
  <2>4. /\ warned'[p] = IF refused'[p] > 0 THEN 1 ELSE 0
        /\ refused'[p] = IF w.count > Budget THEN w.count - Budget ELSE 0
    BY <1>2, <2>1, <2>2, <2>3, BudgetIsNat
  <2>5. QED
    BY <2>1, <2>4
<1>6. \A q \in Peers \ {p} :
         /\ warned'[q] = IF refused'[q] > 0 THEN 1 ELSE 0
         /\ q \in DOMAIN windows' =>
               refused'[q] = IF windows'[q].count > Budget THEN windows'[q].count - Budget ELSE 0
  BY <1>3 DEF Refusals
<1>7. QED
  BY <1>4, <1>5, <1>6 DEF Refusals

\* The caller of allow warns about a peer exactly once in a window in which it
\* refuses a request of it.
THEOREM WarnedOnce == Spec => []WarnedOncePerWindow
<1>1. Init => Refusals
  BY DEF Init, Refusals
<1>2. Typed /\ Refusals /\ [Next]_vars => Refusals'
  <2> SUFFICES ASSUME Typed, Refusals, [Next]_vars
               PROVE  Refusals'
    OBVIOUS
  <2>1. CASE UNCHANGED <<windows, refused, warned>>
    BY <2>1 DEF Refusals
  <2>2. CASE \E h \in Handlers, p \in Peers, t \in 0..now : Allow(h, p, t)
    BY <2>2, AllowRefuses
  <2>3. QED
    BY <2>1, <2>2 DEF Next, Tick, Open, vars, history
<1>3. Refusals => WarnedOncePerWindow
  BY DEF Refusals, WarnedOncePerWindow
<1>4. QED
  BY <1>1, <1>2, <1>3, InitTyped, NextTyped, PTL DEF Spec

-----------------------------------------------------------------------------
(* The bound on a stretch of time.  Three facts about grants make it up:   *)
(* when, in terms of its window's start, a grant can have been; that no    *)
(* two grants are the same of their window; and that grants two windows    *)
(* apart are further apart in time than the stretch is long.               *)

\* g is of the current window of its peer, or of an earlier one; that one may
\* have left the map.  A window ends when a reading is a Window past its start,
\* and the next one starts at a reading that may be MaxLag older.
Placed(g) ==
    LET p == g.peer
        current == g.window = opening[p]
    IN  /\ g.window <= opening[p]
        /\ p \in DOMAIN windows =>
              /\ current => /\ g.nth <= windows[p].count
                            /\ g.at <= windows[p].start + Window - 1 + MaxLag
              /\ ~current => g.at <= windows[p].start - 1 + 2 * MaxLag
        /\ p \notin DOMAIN windows =>
              /\ current => g.at <= now - 1 + MaxLag
              /\ ~current => g.at <= now - Window - 1 + 2 * MaxLag
        /\ g.window + 2 <= opening[p] => g.at <= now - Window - 1 + 2 * MaxLag

Same(g, k) == g.peer = k.peer /\ g.window = k.window /\ g.nth = k.nth

GrantsPlaced   == \A g \in granted : Placed(g)
GrantsDistinct == \A g, k \in granted : Same(g, k) => g = k
GrantsApart ==
    \A g, k \in granted :
        g.peer = k.peer /\ g.window + 2 <= k.window => k.at - g.at > Window - 2 * MaxLag

Spread == Typed /\ GrantsPlaced /\ GrantsDistinct /\ GrantsApart

LEMMA InitSpread == Init => Spread
  BY InitTyped DEF Init, Spread, GrantsPlaced, GrantsDistinct, GrantsApart

\* Time may pass, and streams arrive.
LEMMA OthersKeepSpread ==
    ASSUME Spread, now' \in Nat, now <= now', UNCHANGED <<windows, opening, granted>>, Typed'
    PROVE  Spread'
<1>1. ASSUME NEW g \in granted
      PROVE  Placed(g)'
  <2>1. /\ Placed(g) /\ g.at \in Nat /\ g.window \in Nat /\ opening[g.peer] \in Nat /\ now \in Nat
        /\ MaxLag \in Nat /\ Window \in Nat
    BY <1>1, WindowPositive, BoundsAreNat DEF Spread, GrantsPlaced, Typed, TypeOK, Grants
  <2>2. QED
    BY <2>1 DEF Placed
<1>2. QED
  BY <1>1 DEF Spread, GrantsPlaced, GrantsDistinct, GrantsApart

\* The grants so far keep their place when allow prunes and opens windows.
LEMMA AllowKeepsPlaced ==
    ASSUME Spread, NEW h \in Handlers, NEW p \in Peers, NEW t \in 0..now, Allow(h, p, t),
           NEW g \in granted
    PROVE  /\ Placed(g)'
           /\ g.peer = p => g.window < opening'[p] \/ g.nth < windows'[p].count
<1> DEFINE q == g.peer
<1>0. Typed /\ q \in Peers /\ MaxLag \in Nat /\ Window \in Nat \ {0} /\ now \in Nat /\ t \in Nat
      /\ opening[q] \in Nat /\ g.window \in Nat /\ g.at \in 0..now /\ g.nth \in Nat /\ t <= now
  BY WindowPositive, BoundsAreNat DEF Spread, Typed, TypeOK, Grants
<1>1. Effect(p, t)
  BY <1>0, AllowCases
<1> USE DEF Effect
<1>2. Placed(g) /\ now' = now /\ DOMAIN windows' = Live(t) \cup {p} /\ now - t <= MaxLag
  BY <1>0, <1>1 DEF Spread, GrantsPlaced
<1>3. q \in DOMAIN windows =>
         /\ windows[q].start \in Nat /\ windows[q].count \in Nat
         /\ q \in Live(t) <=> t - windows[q].start < Window
  BY WindowPositive DEF Spread, Typed, TypeOK, Live, Expired
<1>4. CASE q \in Live(t)
  <2>1. q \in DOMAIN windows /\ q \in DOMAIN windows' /\ opening'[q] = opening[q]
    BY <1>0, <1>2, <1>4, <1>1 DEF Live, Typed, TypeOK
  <2>2. /\ windows'[q].start = windows[q].start
        /\ windows'[q].count = windows[q].count + (IF q = p THEN 1 ELSE 0)
    BY <1>0, <1>3, <1>4, <2>1, <1>1 DEF Typed, TypeOK
  <2>3. QED
    BY <1>0, <1>2, <1>3, <2>1, <2>2 DEF Placed
<1>5. CASE q \notin Live(t) /\ q # p
  <2>1. q \notin DOMAIN windows' /\ opening'[q] = opening[q]
    BY <1>0, <1>2, <1>5, <1>1 DEF Typed, TypeOK
  <2>2. QED
    BY <1>0, <1>2, <1>3, <1>5, <2>1 DEF Placed
<1>6. CASE q \notin Live(t) /\ q = p
  <2>1. /\ q \in DOMAIN windows' /\ opening'[q] = opening[q] + 1
        /\ windows'[q].start = t /\ windows'[q].count = 1
    BY <1>0, <1>2, <1>6, <1>1 DEF Typed, TypeOK
  <2>2. QED
    BY <1>0, <1>2, <1>3, <1>6, <2>1 DEF Placed
<1>7. QED
  BY <1>4, <1>5, <1>6

\* The grant that allow adds is of a window that began a Window after the last
\* but one, and is the last of its window.
LEMMA NewGrantPlaced ==
    ASSUME Spread, NEW h \in Handlers, NEW p \in Peers, NEW t \in 0..now, Allow(h, p, t),
           NEW k, k = Grant(p, opening'[p], windows'[p].count), k.nth <= Budget
    PROVE  Placed(k)'
<1>1. Effect(p, t) /\ Typed
  BY AllowCases DEF Spread
<1>2. /\ MaxLag \in Nat /\ Window \in Nat \ {0} /\ now \in Nat /\ t \in Nat /\ now - t <= MaxLag
      /\ opening'[p] \in Nat /\ now' = now /\ p \in DOMAIN windows' /\ windows'[p].count \in Nat
  BY <1>1, AllowTyped, WindowPositive, BoundsAreNat DEF Effect, Typed, TypeOK
<1>3. windows'[p].start \in Nat /\ t - windows'[p].start < Window
  <2>1. CASE p \in Live(t)
    BY <1>1, <1>2, <2>1 DEF Effect, Typed, TypeOK, Live, Expired
  <2>2. CASE p \notin Live(t)
    BY <1>1, <1>2, <2>2 DEF Effect
  <2>3. QED
    BY <2>1, <2>2
<1>4. QED
  BY <1>2, <1>3 DEF Grant, Placed

LEMMA AllowKeepsSpread ==
    ASSUME Spread, NEW h \in Handlers, NEW p \in Peers, NEW t \in 0..now, Allow(h, p, t)
    PROVE  Spread'
<1> DEFINE k == Grant(p, opening'[p], windows'[p].count)
<1>1. Effect(p, t) /\ Typed /\ Typed'
  BY AllowCases, AllowTyped DEF Spread
<1>2. \A g \in granted :
         Placed(g)' /\ (g.peer = p => g.window < opening'[p] \/ g.nth < windows'[p].count)
  BY AllowKeepsPlaced
<1>3. CASE granted' = granted
  BY <1>1, <1>2, <1>3 DEF Spread, GrantsPlaced, GrantsDistinct, GrantsApart
<1>4. CASE granted' = granted \cup {k} /\ windows'[p].count <= Budget
  <2>1. /\ k.peer = p /\ k.window = opening'[p] /\ k.nth = windows'[p].count /\ k.at = now
        /\ now' = now /\ now \in Nat /\ windows'[p].count \in Nat /\ opening'[p] \in Nat
    BY <1>1 DEF Effect, Grant, Typed, TypeOK
  <2>2. GrantsPlaced'
    BY <1>2, <1>4, <2>1, NewGrantPlaced DEF GrantsPlaced
  <2>3. \A g \in granted : g.window \in Nat /\ g.nth \in Nat /\ g.at \in Nat
    BY <1>1 DEF Typed, TypeOK, Grants
  <2>4. GrantsDistinct'
    <3>1. \A g \in granted : ~Same(g, k) /\ ~Same(k, g)
      BY <1>2, <2>1, <2>3 DEF Same
    <3>2. QED
      BY <1>4, <3>1 DEF Spread, GrantsDistinct
  <2>5. GrantsApart'
    <3>1. ASSUME NEW g \in granted, g.peer = p
          PROVE  /\ g.window + 2 <= k.window => k.at - g.at > Window - 2 * MaxLag
                 /\ ~(k.window + 2 <= g.window)
      <4>1. /\ g.window <= opening'[p]
            /\ g.window + 2 <= opening'[p] => g.at <= now - Window - 1 + 2 * MaxLag
        BY <1>2, <2>1, <3>1 DEF Placed
      <4>2. QED
        BY <2>1, <2>3, <4>1, WindowPositive, BoundsAreNat
    <3>2. ~(k.window + 2 <= k.window)
      BY <2>1
    <3>3. QED
      BY <1>4, <2>1, <3>1, <3>2 DEF Spread, GrantsApart
  <2>6. QED
    BY <1>1, <2>2, <2>4, <2>5 DEF Spread
<1>5. QED
  BY <1>1, <1>3, <1>4 DEF Effect

LEMMA NextSpread == Spread /\ [Next]_vars => Spread'
<1> SUFFICES ASSUME Spread, [Next]_vars
             PROVE  Spread'
  OBVIOUS
<1>1. Typed' /\ now \in Nat
  BY NextTyped DEF Spread, Typed, TypeOK
<1>2. CASE \E h \in Handlers, p \in Peers, t \in 0..now : Allow(h, p, t)
  BY <1>2, AllowKeepsSpread
<1>3. CASE Tick \/ (\E h \in Handlers, p \in Peers : Open(h, p)) \/ UNCHANGED vars
  <2>1. UNCHANGED <<windows, opening, granted>> /\ (now' = now + 1 \/ now' = now)
    BY <1>3 DEF Tick, Open, vars, history
  <2>2. QED
    BY <1>1, <2>1, OthersKeepSpread
<1>4. QED
  BY <1>2, <1>3 DEF Next

\* Grants of one peer in one stretch are of two windows at most.
LEMMA TwoWindows ==
    ASSUME Spread, NEW p \in Peers, NEW t \in 0..MaxTime,
           NEW g \in {x \in granted : x.peer = p /\ x.at \in Stretch(t)},
           NEW k \in {x \in granted : x.peer = p /\ x.at \in Stretch(t)}
    PROVE  k.window < g.window + 2
<1>1. g.at \in Nat /\ k.at \in Nat /\ g.window \in Nat /\ k.window \in Nat
  BY DEF Spread, Typed, TypeOK, Grants
<1>2. k.at - g.at <= Window - 2 * MaxLag
  BY <1>1, WindowPositive, BoundsAreNat DEF Stretch
<1>3. g.window + 2 <= k.window => k.at - g.at > Window - 2 * MaxLag
  BY DEF Spread, GrantsApart
<1>4. QED
  BY <1>1, <1>2, <1>3, WindowPositive, BoundsAreNat

\* A window serves its budget at most.
OfWindow(p, w) == {g \in granted : g.peer = p /\ g.window = w}

LEMMA OneWindow ==
    ASSUME Spread, NEW p \in Peers, NEW w
    PROVE  IsFiniteSet(OfWindow(p, w)) /\ Cardinality(OfWindow(p, w)) <= Budget
<1> DEFINE S == OfWindow(p, w)
<1> DEFINE f == [g \in S |-> g.nth]
<1>1. f \in Injection(S, 1..Budget)
  <2>1. f \in [S -> 1..Budget]
    BY DEF OfWindow, Spread, Typed, TypeOK, Grants
  <2>2. \A g, k \in S : f[g] = f[k] => g = k
    BY DEF OfWindow, Spread, GrantsDistinct, Same
  <2> QED
    BY <2>1, <2>2 DEF Injection, IsInjective
<1>2. IsFiniteSet(1..Budget) /\ Cardinality(1..Budget) = Budget
  BY FS_Interval, BudgetIsNat
<1> QED
  BY <1>1, <1>2, FS_Injection

LEMMA SpreadBounds == Spread => SlidingBound
<1> SUFFICES ASSUME Spread, NEW p \in Peers, NEW t \in 0..MaxTime
             PROVE  Cardinality({g \in granted : g.peer = p /\ g.at \in Stretch(t)}) <= 2 * Budget
  BY DEF SlidingBound
<1> DEFINE S == {g \in granted : g.peer = p /\ g.at \in Stretch(t)}
<1>1. \A g \in S : g \in granted /\ g.peer = p /\ g.window \in Nat
  BY DEF Spread, Typed, TypeOK, Grants
<1>2. \A g, k \in S : k.window < g.window + 2
  BY TwoWindows
<1>3. CASE S = {}
  BY <1>3, FS_EmptySet, BudgetIsNat
<1>4. CASE S # {}
  <2>1. PICK w \in Int : \A g \in S : g.window = w \/ g.window = w + 1
    <3>1. PICK k \in S : TRUE
      BY <1>4
    <3>2. CASE \E g \in S : g.window < k.window
      <4>1. PICK g \in S : g.window < k.window
        BY <3>2
      <4>2. \A x \in S : x.window = g.window \/ x.window = g.window + 1
        BY <1>1, <1>2, <4>1
      <4> QED
        BY <1>1, <4>2
    <3>3. CASE \A g \in S : ~(g.window < k.window)
      <4>1. \A x \in S : x.window = k.window \/ x.window = k.window + 1
        BY <1>1, <1>2, <3>3
      <4> QED
        BY <1>1, <4>1
    <3> QED
      BY <3>2, <3>3
  <2> DEFINE A == OfWindow(p, w)
  <2> DEFINE B == OfWindow(p, w + 1)
  <2>2. /\ IsFiniteSet(A) /\ Cardinality(A) \in Nat /\ Cardinality(A) <= Budget
        /\ IsFiniteSet(B) /\ Cardinality(B) \in Nat /\ Cardinality(B) <= Budget
    BY OneWindow, FS_CardinalityType
  <2>3. /\ IsFiniteSet(A \cup B)
        /\ Cardinality(A \cup B) = Cardinality(A) + Cardinality(B) - Cardinality(A \cap B)
    BY <2>2, FS_Union
  <2>4. Cardinality(A \cap B) \in Nat
    BY <2>2, FS_Intersection, FS_CardinalityType
  <2>5. S \in SUBSET (A \cup B)
    BY <1>1, <2>1 DEF OfWindow
  <2>6. IsFiniteSet(S) /\ Cardinality(S) <= Cardinality(A \cup B)
    BY <2>3, <2>5, FS_Subset
  <2>7. Cardinality(S) \in Nat
    BY <2>6, FS_CardinalityType
  <2> QED
    BY <2>2, <2>3, <2>4, <2>6, <2>7, BudgetIsNat
<1> QED
  BY <1>3, <1>4

\* No stretch of a window less twice the lag serves a peer more than two
\* budgets, whenever its requests arrive and whichever handler gets the lock.
THEOREM Sliding == Spec => []SlidingBound
<1>1. Spread => SlidingBound
  BY SpreadBounds
<1>2. QED
  BY <1>1, InitSpread, NextSpread, PTL DEF Spec
=============================================================================
