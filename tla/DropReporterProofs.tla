-------------------------- MODULE DropReporterProofs --------------------------
(***************************************************************************)
(* Proofs about DropReporter, for any number of workers, any interval and  *)
(* any bounds.                                                             *)
(*                                                                         *)
(* The inductive invariant adds to TypeOK and NoCountLost what a worker    *)
(* carries from its clock reading to its CompareAndSwap (ReadingsPast) and *)
(* how far the marker has come (ClaimsSpaced).                             *)
(***************************************************************************)
EXTENDS DropReporter, TLAPS

USE IntervalPositive, BoundsAreNat

\* A new reporter satisfies the invariant.
LEMMA InitEstablishes == Init => IInv
  BY DEF Init, IInv, TypeOK, NoCountLost, ReadingsPast, ClaimsSpaced, Steps

\* One more claim moves the product on by one interval, as the marker moves.
LEMMA OneMoreInterval ==
    ASSUME NEW c \in Nat, NEW d \in Nat, NEW old \in Nat, NEW new \in Nat,
           (c - 1) * d <= old - 1, new - old >= d
    PROVE  ((c + 1) - 1) * d <= new - 1
<1> DEFINE x == (c - 1) * d
<1>1. x \in Int /\ ((c + 1) - 1) * d = x + d
  OBVIOUS
<1>2. x <= old - 1
  OBVIOUS
<1> HIDE DEF x
<1>3. x + d <= new - 1
  BY <1>1, <1>2
<1>4. QED  BY <1>1, <1>3

\* Every step of a worker, and of the clock, keeps the variables typed.
LEMMA TypePreserved ==
    ASSUME IInv, [Next]_vars
    PROVE  TypeOK'
<1>1. CASE Tick
  BY <1>1 DEF Tick, IInv, TypeOK, locals, history
<1>2. ASSUME NEW w \in Workers, recordDrop(w)
      PROVE  TypeOK'
  <2>1. CASE Add(w)
    BY <2>1 DEF Add, Goto, Steps, IInv, TypeOK, locals
  <2>2. CASE ReadClock(w)
    BY <2>2 DEF ReadClock, Goto, Steps, Elapsed, IInv, TypeOK, history
  <2>3. CASE Load(w)
    BY <2>3 DEF Load, Goto, Steps, IInv, TypeOK, history
  <2>4. CASE CompareAndSwap(w)
    BY <2>4 DEF CompareAndSwap, Goto, Steps, IInv, TypeOK, locals
  <2>5. CASE Swap(w)
    BY <2>5 DEF Swap, Reset, Goto, Steps, IInv, TypeOK, locals
  <2>6. CASE Log(w)
    BY <2>6 DEF Log, Goto, Steps, IInv, TypeOK, locals, history
  <2>7. QED
    BY <1>2, <2>1, <2>2, <2>3, <2>4, <2>5, <2>6 DEF recordDrop
<1>3. CASE UNCHANGED vars
  BY <1>3 DEF IInv, TypeOK, vars, locals, history
<1>4. QED
  BY <1>1, <1>2, <1>3 DEF Next

\* Add and Swap are the only actions that touch the counter, and each
\* balances it with its history variable.
LEMMA CountPreserved ==
    ASSUME IInv, [Next]_vars
    PROVE  NoCountLost'
<1>1. ASSUME NEW w \in Workers, Add(w) \/ Swap(w)
      PROVE  NoCountLost'
  BY <1>1 DEF Add, Swap, Reset, IInv, TypeOK, NoCountLost
<1>2. CASE UNCHANGED <<dropped, recorded, claimed>>
  BY <1>2 DEF IInv, NoCountLost
<1>3. QED
  BY <1>1, <1>2
  DEF Next, Tick, recordDrop, ReadClock, Load, CompareAndSwap, Log, vars, history

\* Readings stay behind the clock, and Load lets only an old marker through.
LEMMA ReadingsPreserved ==
    ASSUME IInv, [Next]_vars
    PROVE  ReadingsPast'
<1>1. CASE Tick
  BY <1>1 DEF Tick, IInv, TypeOK, ReadingsPast, TooEarly, locals
<1>2. ASSUME NEW w \in Workers, recordDrop(w)
      PROVE  ReadingsPast'
  <2>1. CASE ReadClock(w)
    BY <2>1 DEF ReadClock, Goto, Elapsed, IInv, TypeOK, ReadingsPast, TooEarly
  <2>2. CASE Load(w)
    BY <2>2 DEF Load, Goto, IInv, TypeOK, ReadingsPast, TooEarly
  <2>3. CASE Add(w) \/ CompareAndSwap(w) \/ Swap(w) \/ Log(w)
    <3>1. PICK to \in {"idle", "clock", "swap", "log"} : pc' = [pc EXCEPT ![w] = to]
      BY <2>3 DEF Add, CompareAndSwap, Swap, Log, Goto
    <3>2. UNCHANGED <<now, elapsed, last>>
      BY <2>3 DEF Add, CompareAndSwap, Swap, Log, locals
    <3>3. QED
      BY <3>1, <3>2 DEF IInv, TypeOK, ReadingsPast, TooEarly
  <2>4. QED
    BY <1>2, <2>1, <2>2, <2>3 DEF recordDrop
<1>3. CASE UNCHANGED vars
  BY <1>3 DEF IInv, ReadingsPast, TooEarly, vars, locals
<1>4. QED
  BY <1>1, <1>2, <1>3 DEF Next

\* A CompareAndSwap that wins finds the marker it compared with, and stores a
\* reading an interval later.
LEMMA WinnerAdvances ==
    ASSUME IInv, NEW w \in Workers, CompareAndSwap(w), Wins(w)
    PROVE  /\ lastLog' = elapsed[w] /\ claims' = claims + 1 /\ now' = now
           /\ 0 < lastLog' /\ lastLog' <= now + 1
           /\ lastLog = 0 \/ lastLog' - lastLog >= dropLogInterval
<1>1. pc[w] = "cas" /\ lastLog' = elapsed[w] /\ claims' = claims + 1 /\ now' = now
  BY DEF CompareAndSwap, Goto
<1>2. elapsed[w] \in Nat /\ lastLog \in Nat
  BY DEF IInv, TypeOK
<1>3. elapsed[w] <= now + 1 /\ elapsed[w] > 0 /\ ~TooEarly(elapsed[w], lastLog)
  BY <1>1 DEF IInv, ReadingsPast, Wins
<1>4. QED
  BY <1>1, <1>2, <1>3 DEF TooEarly

\* Only a winning CompareAndSwap makes a claim, and it moves the marker on.
LEMMA ClaimsPreserved ==
    ASSUME IInv, [Next]_vars
    PROVE  ClaimsSpaced'
<1>0. now \in Nat /\ lastLog \in Nat /\ claims \in Nat
  BY DEF IInv, TypeOK
<1>1. ASSUME NEW w \in Workers, CompareAndSwap(w), Wins(w)
      PROVE  ClaimsSpaced'
  <2>1. claims' = claims + 1 /\ now' = now /\ lastLog' = elapsed[w] /\ elapsed[w] \in Nat
    BY <1>1, WinnerAdvances DEF IInv, TypeOK
  <2>2. 0 < elapsed[w] /\ elapsed[w] <= now + 1
    BY <1>1, <2>1, WinnerAdvances
  <2>3. (claims' - 1) * dropLogInterval <= elapsed[w] - 1
    <3>1. CASE claims = 0
      <4>1. (claims' - 1) * dropLogInterval = 0
        BY <2>1, <3>1
      <4>2. QED  BY <2>1, <2>2, <4>1
    <3>2. CASE claims # 0
      <4>1. (claims - 1) * dropLogInterval <= lastLog - 1 /\ lastLog # 0
        BY <1>0, <3>2 DEF IInv, ClaimsSpaced
      <4>2. elapsed[w] - lastLog >= dropLogInterval
        BY <1>1, <2>1, <4>1, WinnerAdvances
      <4>3. ((claims + 1) - 1) * dropLogInterval <= elapsed[w] - 1
        BY <1>0, <2>1, <4>1, <4>2, OneMoreInterval
      <4>4. QED  BY <2>1, <4>3
    <3>3. QED  BY <3>1, <3>2
  <2>4. claims' # 0
    BY <1>0, <2>1
  <2>5. QED
    BY <2>1, <2>2, <2>3, <2>4 DEF ClaimsSpaced
<1>2. CASE UNCHANGED <<lastLog, claims>> /\ (now' = now \/ now' = now + 1)
  <2>1. lastLog <= now + 1
    BY DEF IInv, ClaimsSpaced
  <2>2. lastLog <= now' + 1
    BY <1>0, <1>2, <2>1
  <2>3. QED
    BY <1>2, <2>2 DEF IInv, ClaimsSpaced
<1>3. QED
  BY <1>1, <1>2
  DEF Next, Tick, recordDrop, Add, ReadClock, Load, CompareAndSwap, Swap, Log, vars, history

\* Every reachable state of recordDrop's workers satisfies the invariant.
THEOREM Invariance == Spec => []IInv
<1>1. IInv /\ [Next]_vars => IInv'
  BY TypePreserved, CountPreserved, ReadingsPreserved, ClaimsPreserved DEF IInv
<1>2. QED
  BY InitEstablishes, <1>1, PTL DEF Spec

\* recordDrop keeps its variables typed.
THEOREM TypeCorrect == Spec => []TypeOK
  BY Invariance, PTL DEF IInv

\* No drop is lost between Add and Swap, however the workers interleave.
THEOREM CountCorrect == Spec => []NoCountLost
  BY Invariance, PTL DEF IInv

\* The claims for a line never exceed one per interval and one.
THEOREM RateCorrect == Spec => []RateBounded
<1>1. IInv => RateBounded
  <2> SUFFICES ASSUME IInv, claims > 0
               PROVE  (claims - 1) * dropLogInterval <= now
    BY DEF RateBounded
  <2>1. now \in Nat /\ lastLog \in Nat /\ claims \in Nat
    BY DEF IInv, TypeOK
  <2>2. (claims - 1) * dropLogInterval <= lastLog - 1 /\ lastLog <= now + 1
    BY DEF IInv, ClaimsSpaced
  <2>3. (claims - 1) * dropLogInterval \in Int
    BY <2>1
  <2>4. QED  BY <2>1, <2>2, <2>3
<1>2. QED
  BY Invariance, <1>1, PTL

\* The marker moves only forward, by at least the interval after the first.
THEOREM SpacingCorrect == Spec => MarkersSpaced
<1> DEFINE Spaced ==
        lastLog' # lastLog =>
            lastLog' > 0 /\ (lastLog = 0 \/ lastLog' - lastLog >= dropLogInterval)
<1>1. IInv /\ [Next]_vars => [Spaced]_vars
  <2> SUFFICES ASSUME IInv, [Next]_vars, lastLog' # lastLog
               PROVE  Spaced
    OBVIOUS
  <2>1. PICK w \in Workers : CompareAndSwap(w) /\ Wins(w)
    BY DEF Next, Tick, recordDrop, Add, ReadClock, Load, CompareAndSwap, Swap, Log, vars
  <2>2. QED
    BY <2>1, WinnerAdvances
<1>2. QED
  BY Invariance, <1>1, PTL DEF Spec, MarkersSpaced
=============================================================================
