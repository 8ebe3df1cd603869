-------------------------- MODULE PeerTrackerProofs --------------------------
(***************************************************************************)
(* The tracker's promises for any number of readers and authors and any    *)
(* malformed threshold.                                                    *)
(***************************************************************************)
EXTENDS PeerTracker, FiniteSetTheorems, TLAPS

-----------------------------------------------------------------------------
\* A reader that decoded a message has stored its author's name.
Named == \A r \in Readers : pc[r] \in {"record", "send"} => author[r] \in names

\* Nothing counts as late before the author is skipped.
NoneLateYet == \A a \in Authors : a \notin skipMalformed => late[a] = 0

Inductive == IInv /\ Named /\ NoneLateYet /\ OverrunBounded

Unmoved(a) == PastCheck(a)' = PastCheck(a)

-----------------------------------------------------------------------------
(* The readers past the check.                                             *)

LEMMA PastCheckCounted ==
    ASSUME NEW a \in Authors
    PROVE  /\ IsFiniteSet(PastCheck(a)) /\ Cardinality(PastCheck(a)) \in Nat
           /\ Cardinality(Readers) \in Nat
<1>1. PastCheck(a) \in SUBSET Readers
  BY DEF PastCheck
<1>2. IsFiniteSet(PastCheck(a))
  BY <1>1, ReadersFinite, FS_Subset
<1> QED
  BY <1>2, ReadersFinite, FS_CardinalityType

\* A reader that is done with its message leaves the set, and only that one.
LEMMA DoneLeaves ==
    ASSUME TypeOK, NEW r \in Readers, author' = author,
           \/ Goto(r, "decode", "next")
           \/ Goto(r, "send", "next")
    PROVE  /\ r \in PastCheck(author[r])
           /\ PastCheck(author[r])' = PastCheck(author[r]) \ {r}
           /\ \A a \in Authors \ {author[r]} : Unmoved(a)
BY DEF TypeOK, Goto, PastCheck, Unmoved

LEMMA DoneCounted ==
    ASSUME TypeOK, NEW r \in Readers, author' = author,
           \/ Goto(r, "decode", "next")
           \/ Goto(r, "send", "next")
    PROVE  Cardinality(PastCheck(author[r])') = Cardinality(PastCheck(author[r])) - 1
<1> DEFINE a == author[r]
<1>1. a \in Authors
  BY DEF TypeOK, Goto
<1>2. r \in PastCheck(a) /\ PastCheck(a)' = PastCheck(a) \ {r}
  BY DoneLeaves
<1>3. IsFiniteSet(PastCheck(a))
  BY <1>1, PastCheckCounted
<1> QED
  BY <1>2, <1>3, FS_RemoveElement

\* When the counting reader leaves, at least that one is not past the check.
LEMMA OthersPastCheck ==
    ASSUME TypeOK, NEW r \in Readers, author' = author, Goto(r, "decode", "next")
    PROVE  Cardinality(PastCheck(author[r])') <= Cardinality(Readers) - 1
<1> DEFINE a == author[r]
<1>1. a \in Authors
  BY DEF TypeOK, Goto
<1>2. Cardinality(PastCheck(a)') = Cardinality(PastCheck(a)) - 1
  BY DoneCounted
<1>3. PastCheck(a) \in SUBSET Readers
  BY DEF PastCheck
<1>4. Cardinality(PastCheck(a)) <= Cardinality(Readers)
  BY <1>3, ReadersFinite, FS_Subset
<1> QED
  BY <1>1, <1>2, <1>4, PastCheckCounted

-----------------------------------------------------------------------------
(* Types, warnings and names.                                              *)

LEMMA InitInductive == Init => Inductive
<1> SUFFICES ASSUME Init
             PROVE  Inductive
  OBVIOUS
<1>1. IInv
  BY SelfIsNotRemote DEF Init, IInv, TypeOK, Steps, WarnedOnce, ListedPeersHaveNames
<1>2. Named /\ NoneLateYet
  BY DEF Init, Named, NoneLateYet
<1>3. OverrunBounded
  BY ThresholdPositive DEF Init, OverrunBounded
<1> QED
  BY <1>1, <1>2, <1>3 DEF Inductive

LEMMA TypedStep ==
    ASSUME TypeOK, [Next]_vars
    PROVE  TypeOK'
<1>1. ASSUME NEW r \in Readers, NEW a \in Authors \cup {Self}, NEW ok \in BOOLEAN,
             Receive(r, a, ok)
      PROVE  TypeOK'
  BY <1>1 DEF TypeOK, Receive, Goto, IsOwn, Steps, tracker
<1>2. ASSUME NEW r \in Readers, shouldSkipMalformed(r)
      PROVE  TypeOK'
  BY <1>2 DEF TypeOK, shouldSkipMalformed, Goto, Steps, tracker, history
<1>3. ASSUME NEW r \in Readers, RecordMalformed(r)
      PROVE  TypeOK'
  <2>1. author[r] \in Authors
    BY <1>3 DEF TypeOK, RecordMalformed, Goto
  <2>2. malformed' \in [Authors -> Nat] /\ warned' \in [Authors -> Nat]
    BY <1>3, <2>1 DEF TypeOK, RecordMalformed
  <2>3. skipMalformed' \subseteq Authors
    BY <1>3, <2>1 DEF TypeOK, RecordMalformed
  <2> QED
    BY <1>3, <2>2, <2>3 DEF TypeOK, RecordMalformed, Goto, Steps
<1>4. ASSUME NEW r \in Readers, updateName(r)
      PROVE  TypeOK'
  BY <1>4 DEF TypeOK, updateName, Goto, Steps, history
<1>5. ASSUME NEW r \in Readers, recordMessageFrom(r)
      PROVE  TypeOK'
  BY <1>5 DEF TypeOK, recordMessageFrom, Goto, Steps, history
<1>6. ASSUME NEW r \in Readers, Forward(r)
      PROVE  TypeOK'
  BY <1>6 DEF TypeOK, Forward, Goto, Steps, tracker
<1>7. ASSUME GetPeers \/ \E a \in Authors : getName(a)
      PROVE  TypeOK'
  BY <1>7 DEF TypeOK, GetPeers, getName, tracker, history
<1>8. CASE UNCHANGED vars
  BY <1>8 DEF TypeOK, vars, tracker, history
<1> QED
  BY <1>1, <1>2, <1>3, <1>4, <1>5, <1>6, <1>7, <1>8 DEF Next, ReaderStep

LEMMA WarnedStep ==
    ASSUME TypeOK, WarnedOnce, [Next]_vars
    PROVE  WarnedOnce'
<1>1. ASSUME NEW r \in Readers, RecordMalformed(r)
      PROVE  WarnedOnce'
  <2>1. author[r] \in Authors
    BY <1>1 DEF TypeOK, RecordMalformed, Goto
  <2>2. CASE JustSkipped(author[r])
    BY <1>1, <2>1, <2>2 DEF TypeOK, WarnedOnce, RecordMalformed, JustSkipped
  <2>3. CASE ~JustSkipped(author[r])
    BY <1>1, <2>3 DEF WarnedOnce, RecordMalformed
  <2> QED
    BY <2>2, <2>3
<1>2. CASE UNCHANGED <<skipMalformed, warned>>
  BY <1>2 DEF WarnedOnce
<1> QED
  BY <1>1, <1>2 DEF Next, ReaderStep, Receive, shouldSkipMalformed, updateName,
     recordMessageFrom, Forward, GetPeers, getName, vars, tracker, history

\* The name goes in before the peer is listed, and names only grow.
LEMMA NamesStep ==
    ASSUME TypeOK, Named, ListedPeersHaveNames, [Next]_vars
    PROVE  Named' /\ ListedPeersHaveNames'
<1>1. ASSUME NEW r \in Readers, NEW a \in Authors \cup {Self}, NEW ok \in BOOLEAN,
             Receive(r, a, ok)
      PROVE  Named' /\ ListedPeersHaveNames'
  BY <1>1 DEF TypeOK, Named, ListedPeersHaveNames, Receive, Goto, IsOwn, tracker
<1>2. ASSUME NEW r \in Readers, shouldSkipMalformed(r) \/ RecordMalformed(r) \/ Forward(r)
      PROVE  Named' /\ ListedPeersHaveNames'
  BY <1>2 DEF TypeOK, Named, ListedPeersHaveNames, shouldSkipMalformed, RecordMalformed,
     Forward, Goto, tracker, history
<1>3. ASSUME NEW r \in Readers, updateName(r)
      PROVE  Named' /\ ListedPeersHaveNames'
  BY <1>3 DEF TypeOK, Named, ListedPeersHaveNames, updateName, Goto
<1>4. ASSUME NEW r \in Readers, recordMessageFrom(r)
      PROVE  Named' /\ ListedPeersHaveNames'
  BY <1>4 DEF TypeOK, Named, ListedPeersHaveNames, recordMessageFrom, Goto
<1>5. ASSUME GetPeers \/ \E a \in Authors : getName(a)
      PROVE  Named' /\ ListedPeersHaveNames'
  BY <1>5 DEF Named, ListedPeersHaveNames, GetPeers, getName, tracker
<1>6. CASE UNCHANGED vars
  BY <1>6 DEF Named, ListedPeersHaveNames, vars, tracker
<1> QED
  BY <1>1, <1>2, <1>3, <1>4, <1>5, <1>6 DEF Next, ReaderStep

LEMMA NoneLateStep ==
    ASSUME TypeOK, NoneLateYet, [Next]_vars
    PROVE  NoneLateYet'
<1>1. ASSUME NEW r \in Readers, Forward(r)
      PROVE  NoneLateYet'
  BY <1>1 DEF TypeOK, NoneLateYet, Forward, tracker
<1>2. ASSUME NEW r \in Readers, RecordMalformed(r)
      PROVE  NoneLateYet'
  BY <1>2 DEF NoneLateYet, RecordMalformed
<1>3. CASE UNCHANGED <<skipMalformed, late>>
  BY <1>3 DEF NoneLateYet
<1> QED
  BY <1>1, <1>2, <1>3 DEF Next, ReaderStep, Receive, shouldSkipMalformed, updateName,
     recordMessageFrom, GetPeers, getName, vars, tracker, history

-----------------------------------------------------------------------------
(* The overrun.                                                            *)

\* What the bound on author a says.
Bounded(a) ==
    /\ malformed[a] >= malformedThreshold <=> a \in skipMalformed
    /\ a \in skipMalformed =>
          (malformed[a] - malformedThreshold) + late[a] + Cardinality(PastCheck(a))
              <= Cardinality(Readers) - 1

\* An author whom a step does not touch keeps its bound.
LEMMA UntouchedBounded ==
    ASSUME NEW a \in Authors, Bounded(a), Unmoved(a),
           malformed'[a] = malformed[a], late'[a] = late[a],
           a \in skipMalformed' <=> a \in skipMalformed
    PROVE  Bounded(a)'
BY DEF Bounded, Unmoved

LEMMA CountingBounded ==
    ASSUME Inductive, TypeOK', NEW r \in Readers, RecordMalformed(r), NEW a \in Authors
    PROVE  Bounded(a)'
<1> DEFINE b == author[r]
<1>1. TypeOK /\ Bounded(a)
  BY DEF Inductive, IInv, OverrunBounded, Bounded
<1>2. b \in Authors /\ author' = author /\ Goto(r, "decode", "next")
  BY <1>1 DEF TypeOK, RecordMalformed, Goto
<1>3. CASE a # b
  <2>1. Unmoved(a)
    BY <1>1, <1>2, <1>3, DoneLeaves
  <2>2. malformed'[a] = malformed[a] /\ late'[a] = late[a]
    BY <1>1, <1>2, <1>3 DEF RecordMalformed, TypeOK
  <2>3. a \in skipMalformed' <=> a \in skipMalformed
    BY <1>3 DEF RecordMalformed
  <2> QED
    BY <1>1, <2>1, <2>2, <2>3, UntouchedBounded
<1>4. CASE a = b
  <2>1. /\ malformed'[a] = malformed[a] + 1 /\ malformed[a] \in Nat
        /\ late' = late /\ late[a] \in Nat
    BY <1>1, <1>4 DEF RecordMalformed, TypeOK
  <2>2. /\ Cardinality(PastCheck(a)) \in Nat /\ Cardinality(Readers) \in Nat
        /\ Cardinality(PastCheck(a)') = Cardinality(PastCheck(a)) - 1
    BY <1>1, <1>2, <1>4, PastCheckCounted, DoneCounted
  <2>3. CASE a \in skipMalformed
    <3>1. skipMalformed' = skipMalformed
      BY <1>4, <2>3 DEF RecordMalformed, JustSkipped
    <3> QED
      BY <1>1, <2>1, <2>2, <2>3, <3>1, ThresholdPositive DEF Bounded
  <2>4. CASE a \notin skipMalformed /\ JustSkipped(a)
    <3>1. a \in skipMalformed'
      BY <1>4, <2>4 DEF RecordMalformed
    <3>2. malformed'[a] = malformedThreshold
      BY <1>1, <2>1, <2>4, ThresholdPositive DEF Bounded, JustSkipped
    <3>3. late'[a] = 0
      BY <2>1, <2>4 DEF Inductive, NoneLateYet
    <3>4. Cardinality(PastCheck(a)') <= Cardinality(Readers) - 1
      BY <1>1, <1>2, <1>4, OthersPastCheck
    <3> QED
      BY <2>2, <3>1, <3>2, <3>3, <3>4, ThresholdPositive DEF Bounded
  <2>5. CASE a \notin skipMalformed /\ ~JustSkipped(a)
    <3>1. a \notin skipMalformed'
      BY <1>4, <2>5 DEF RecordMalformed
    <3> QED
      BY <2>1, <2>5, <3>1, ThresholdPositive DEF Bounded, JustSkipped
  <2> QED
    BY <2>3, <2>4, <2>5
<1> QED
  BY <1>3, <1>4

LEMMA ForwardingBounded ==
    ASSUME Inductive, NEW r \in Readers, Forward(r), NEW a \in Authors
    PROVE  Bounded(a)'
<1> DEFINE b == author[r]
<1>1. TypeOK /\ Bounded(a)
  BY DEF Inductive, IInv, OverrunBounded, Bounded
<1>2. b \in Authors /\ author' = author /\ Goto(r, "send", "next")
  BY <1>1 DEF TypeOK, Forward, Goto
<1>3. malformed' = malformed /\ skipMalformed' = skipMalformed
  BY DEF Forward, tracker
<1>4. CASE a # b
  <2>1. Unmoved(a)
    BY <1>1, <1>2, <1>4, DoneLeaves
  <2>2. late'[a] = late[a]
    BY <1>1, <1>2, <1>4 DEF Forward, TypeOK
  <2> QED
    BY <1>1, <1>3, <2>1, <2>2, UntouchedBounded
<1>5. CASE a = b
  <2>1. /\ late[a] \in Nat /\ malformed[a] \in Nat
        /\ late'[a] = IF a \in skipMalformed THEN late[a] + 1 ELSE late[a]
    BY <1>1, <1>5 DEF Forward, TypeOK
  <2>2. /\ Cardinality(PastCheck(a)) \in Nat /\ Cardinality(Readers) \in Nat
        /\ Cardinality(PastCheck(a)') = Cardinality(PastCheck(a)) - 1
    BY <1>1, <1>2, <1>5, PastCheckCounted, DoneCounted
  <2> QED
    BY <1>1, <1>3, <2>1, <2>2, ThresholdPositive DEF Bounded
<1> QED
  BY <1>4, <1>5

\* Only the check lets a reader in, and not with a message of a skipped author.
LEMMA CheckingBounded ==
    ASSUME Inductive, NEW r \in Readers, shouldSkipMalformed(r), NEW a \in Authors
    PROVE  Bounded(a)'
<1>1. TypeOK /\ Bounded(a)
  BY DEF Inductive, IInv, OverrunBounded, Bounded
<1>2. UNCHANGED <<malformed, skipMalformed, late, author>>
  BY DEF shouldSkipMalformed, tracker, history
<1>3. CASE a \in skipMalformed
  <2>1. Unmoved(a)
    BY <1>1, <1>3 DEF TypeOK, Unmoved, PastCheck, shouldSkipMalformed, Goto, Skips
  <2> QED
    BY <1>1, <1>2, <2>1, UntouchedBounded
<1>4. CASE a \notin skipMalformed
  BY <1>1, <1>2, <1>4 DEF Bounded
<1> QED
  BY <1>3, <1>4

LEMMA OverrunStep ==
    ASSUME Inductive, TypeOK', [Next]_vars
    PROVE  OverrunBounded'
<1> SUFFICES ASSUME NEW a \in Authors
             PROVE  Bounded(a)'
  BY DEF OverrunBounded, Bounded
<1>1. TypeOK /\ Bounded(a)
  BY DEF Inductive, IInv, OverrunBounded, Bounded
<1>2. ASSUME UNCHANGED <<malformed, skipMalformed, late>>, Unmoved(a)
      PROVE  Bounded(a)'
  BY <1>1, <1>2, UntouchedBounded
<1>3. ASSUME NEW r \in Readers, NEW b \in Authors \cup {Self}, NEW ok \in BOOLEAN,
             Receive(r, b, ok)
      PROVE  Bounded(a)'
  <2>1. Unmoved(a)
    BY <1>1, <1>3 DEF TypeOK, Unmoved, PastCheck, Receive, Goto, IsOwn
  <2> QED
    BY <1>2, <1>3, <2>1 DEF Receive, tracker
<1>4. ASSUME NEW r \in Readers, updateName(r) \/ recordMessageFrom(r)
      PROVE  Bounded(a)'
  <2>1. Unmoved(a)
    BY <1>1, <1>4 DEF TypeOK, Unmoved, PastCheck, updateName, recordMessageFrom, Goto
  <2> QED
    BY <1>2, <1>4, <2>1 DEF updateName, recordMessageFrom, history
<1>5. ASSUME NEW r \in Readers, shouldSkipMalformed(r) \/ RecordMalformed(r) \/ Forward(r)
      PROVE  Bounded(a)'
  BY <1>5, CheckingBounded, CountingBounded, ForwardingBounded
<1>6. CASE GetPeers \/ (\E b \in Authors : getName(b)) \/ UNCHANGED vars
  BY <1>2, <1>6 DEF Unmoved, PastCheck, GetPeers, getName, vars, tracker, history
<1> QED
  BY <1>3, <1>4, <1>5, <1>6 DEF Next, ReaderStep

-----------------------------------------------------------------------------
LEMMA InductiveStep == Inductive /\ [Next]_vars => Inductive'
BY TypedStep, WarnedStep, NamesStep, NoneLateStep, OverrunStep DEF Inductive, IInv

LEMMA AlwaysInductive == Spec => []Inductive
BY InitInductive, InductiveStep, PTL DEF Spec

\* An author is warned about once, on the message that makes it skipped, and
\* every peer that GetPeers reports has a name (recordMalformed, updateName).
THEOREM Invariance == Spec => []IInv
<1>1. Inductive => IInv
  BY DEF Inductive
<1> QED
  BY <1>1, AlwaysInductive, PTL

\* The threshold of recordMalformed is exact, and what is counted or forwarded
\* after it is at most what the other readers held past the check.
THEOREM Overrun == Spec => []OverrunBounded
<1>1. Inductive => OverrunBounded
  BY DEF Inductive
<1> QED
  BY <1>1, AlwaysInductive, PTL
=============================================================================
