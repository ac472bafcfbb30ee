----------------------- MODULE VersionHistoryProofs -----------------------
(***************************************************************************)
(* Version vectors stand for histories, for any number of devices, events  *)
(* and copies.  The inductive invariant is HistoryExact itself with the    *)
(* types: from it the comparisons are facts about two vectors.             *)
(***************************************************************************)
EXTENDS VersionHistory, VersionVectorProofs

Bounded(v) == \A x \in Device : Get(v, x) <= MaxVersion

\* Recording an event adds that event and no other to what a vector knows.
LEMMA KnownIncrement ==
    ASSUME NEW v \in Vector, NEW d \in Device
    PROVE  Known(Increment(OrNew(v, d), d)) =
             {e \in Event : e \in Known(v) \/ e = <<d, Get(v, d) + 1>>}
<1> DEFINE w == Increment(OrNew(v, d), d)
<1>1. \A x \in Device : Get(w, x) = IF x = d THEN Get(v, d) + 1 ELSE Get(v, x)
  BY OrNewType, GetOrNew, GetIncrement
<1>2. \A x \in Device : Get(v, x) \in Nat
  BY GetType
<1> HIDE DEF w
<1>3. ASSUME NEW e \in Event
      PROVE  e[2] <= Get(w, e[1]) <=>
               e[2] <= Get(v, e[1]) \/ e = <<d, Get(v, d) + 1>>
  <2>1. PICK x \in Device, n \in 1 .. MaxVersion : e = <<x, n>>
    BY DEF Event
  <2>2. n \in Int
    BY <2>1, BoundsAssumption
  <2> QED
    BY <1>1, <1>2, <2>1, <2>2
<1> QED
  BY <1>3 DEF Known, w

\* Merging two copies adds up their histories.
LEMMA KnownMerge ==
    ASSUME NEW v \in Vector, NEW w \in Vector, NEW d \in Device
    PROVE  Known(Merge(OrNew(v, d), w)) = Known(v) \cup Known(w)
<1> DEFINE m == Merge(OrNew(v, d), w)
<1>1. \A x \in Device : Get(m, x) = Max2(Get(v, x), Get(w, x))
  BY OrNewType, GetOrNew, GetMerge
<1>2. \A x \in Device : Get(v, x) \in Nat /\ Get(w, x) \in Nat
  BY GetType
<1> HIDE DEF m
<1>3. ASSUME NEW e \in Event
      PROVE  e[2] <= Get(m, e[1]) <=>
               e[2] <= Get(v, e[1]) \/ e[2] <= Get(w, e[1])
  <2>1. e[1] \in Device /\ e[2] \in Int
    BY BoundsAssumption DEF Event
  <2> QED
    BY <1>1, <1>2, <2>1 DEF Max2
<1> QED
  BY <1>3 DEF Known, m

\* Among vectors within the bound, more counts is more history.
LEMMA KnownOrder ==
    ASSUME NEW v \in Vector, NEW w \in Vector, Bounded(v)
    PROVE  Known(v) \subseteq Known(w) <=> Leq(v, w)
<1>0. \A x \in Device : Get(v, x) \in Nat /\ Get(w, x) \in Nat
  BY GetType
<1>1. ASSUME Leq(v, w), NEW e \in Known(v)
      PROVE  e \in Known(w)
  <2>1. e[1] \in Device /\ e[2] \in Int
    BY BoundsAssumption DEF Known, Event
  <2> QED
    BY <1>0, <1>1, <2>1 DEF Known, Leq
<1>2. ASSUME Known(v) \subseteq Known(w), NEW x \in Device
      PROVE  Get(v, x) <= Get(w, x)
  <2>1. CASE Get(v, x) = 0
    BY <1>0, <2>1
  <2>2. CASE Get(v, x) # 0
    <3>1. <<x, Get(v, x)>> \in Event
      BY <1>0, <2>2, BoundsAssumption DEF Event, Bounded
    <3>2. <<x, Get(v, x)>> \in Known(v)
      BY <1>0, <3>1 DEF Known
    <3> QED
      BY <1>2, <3>2 DEF Known
  <2> QED
    BY <2>1, <2>2
<1> QED
  BY <1>1, <1>2 DEF Leq

-----------------------------------------------------------------------------

Inv == TypeOK /\ HistoryExact

LEMMA InvInit == Init => Inv
<1> SUFFICES ASSUME Init PROVE Inv
  OBVIOUS
<1>1. TypeOK
  BY NoVectorType DEF Init, TypeOK
<1>3. Known(NoVector) = {}
  <2>1. \A e \in Event : e[1] \in Device /\ e[2] \in Int /\ e[2] > 0
    BY BoundsAssumption DEF Event
  <2>2. \A e \in Event : Get(NoVector, e[1]) = 0
    BY <2>1, NoVectorType
  <2> QED
    BY <2>1, <2>2 DEF Known
<1>4. HistoryExact
  <2> SUFFICES ASSUME NEW c \in Copies PROVE Exact(c)
    BY DEF HistoryExact
  <2>1. c.vec = NoVector /\ c.hist = {}
    BY DEF Init, Copies
  <2>2. \A x \in Device : Get(NoVector, x) <= MaxVersion
    <3>1. 0 <= MaxVersion
      BY BoundsAssumption
    <3> QED
      BY <3>1, NoVectorType, Zenon
  <2> QED
    BY <1>3, <2>1, <2>2 DEF Exact
<1> QED
  BY <1>1, <1>4 DEF Inv

\* What HistoryExact says of the replicas and of the sent copies, apart.
LEMMA ExactParts ==
    HistoryExact <=> /\ \A d \in Device : /\ hist[d] = Known(vec[d])
                                          /\ Bounded(vec[d])
                     /\ \A m \in sent : Exact(m)
<1>1. HistoryExact <=> /\ \A d \in Device :
                            Exact([vec |-> vec[d], hist |-> hist[d]])
                       /\ \A m \in sent : Exact(m)
  BY DEF HistoryExact, Copies
<1> QED
  BY <1>1 DEF Exact, Bounded

LEMMA InvNext == Inv /\ [Next]_vars => Inv'
<1> SUFFICES ASSUME Inv, [Next]_vars PROVE Inv'
  OBVIOUS
<1> USE DEF Inv
<1>a. /\ \A d \in Device : hist[d] = Known(vec[d]) /\ Bounded(vec[d])
      /\ \A m \in sent : Exact(m)
  BY ExactParts
<1>t. /\ \A d \in Device : vec[d] \in Vector
      /\ \A m \in sent : m.vec \in Vector /\ m.hist \in SUBSET Event
  BY DEF TypeOK, Copy
<1>1. ASSUME NEW d \in Device, RecordEvent(d)
      PROVE  Inv'
  <2>1. Get(vec[d], d) \in Nat /\ Get(vec[d], d) < MaxVersion
    BY <1>1, <1>t, GetType DEF RecordEvent
  <2>2. <<d, Get(vec[d], d) + 1>> \in Event
    BY <2>1, BoundsAssumption DEF Event
  <2>3. TypeOK'
    BY <1>1, <1>t, <2>2, OrNewType, IncrementType DEF RecordEvent, TypeOK
  <2>4. hist'[d] = Known(vec'[d])
    BY <1>1, <1>a, <1>t, <2>2, KnownIncrement DEF RecordEvent, TypeOK, Known
  <2>5. Bounded(vec'[d])
    <3>1. vec'[d] = Increment(OrNew(vec[d], d), d)
      BY <1>1 DEF RecordEvent, TypeOK
    <3>2. OrNew(vec[d], d) \in Vector
      BY <1>t, OrNewType
    <3>3. \A x \in Device : Get(vec'[d], x) =
                              IF x = d THEN Get(vec[d], d) + 1 ELSE Get(vec[d], x)
      BY <1>t, <3>1, <3>2, GetIncrement, GetOrNew
    <3> QED
      BY <1>a, <2>1, <3>3, BoundsAssumption DEF Bounded
  <2>6. \A e \in Device : hist'[e] = Known(vec'[e]) /\ Bounded(vec'[e])
    BY <1>1, <1>a, <2>4, <2>5 DEF RecordEvent, TypeOK
  <2>7. \A m \in sent' : Exact(m)
    BY <1>1, <1>a DEF RecordEvent
  <2>8. HistoryExact'
    BY <2>6, <2>7 DEF HistoryExact, Copies, Exact, Bounded, Known
  <2> QED
    BY <2>3, <2>8
<1>2. ASSUME NEW d \in Device, SendCopy(d)
      PROVE  Inv'
  <2>1. TypeOK'
    BY <1>2, <1>t DEF SendCopy, TypeOK, Copy
  <2>2. Exact([vec |-> vec[d], hist |-> hist[d]])
    BY <1>a DEF Exact, Bounded
  <2>3. \A m \in sent' : Exact(m)
    BY <1>2, <1>a, <2>2 DEF SendCopy
  <2>4. \A e \in Device : hist'[e] = Known(vec'[e]) /\ Bounded(vec'[e])
    BY <1>2, <1>a DEF SendCopy
  <2>5. HistoryExact'
    BY <2>3, <2>4 DEF HistoryExact, Copies, Exact, Bounded, Known
  <2> QED
    BY <2>1, <2>5
<1>3. ASSUME NEW d \in Device, NEW m \in sent, MergeCopy(d, m)
      PROVE  Inv'
  <2>0. /\ vec'[d] = Merge(OrNew(vec[d], d), m.vec)
        /\ OrNew(vec[d], d) \in Vector /\ m.vec \in Vector
        /\ hist'[d] = hist[d] \cup m.hist
    BY <1>3, <1>t, OrNewType DEF MergeCopy, TypeOK
  <2>1. TypeOK'
    BY <1>3, <1>t, <2>0, MergeType DEF MergeCopy, TypeOK
  <2>2. hist'[d] = Known(vec'[d])
    BY <1>a, <1>t, <2>0, KnownMerge DEF Exact
  <2>3. Bounded(vec'[d])
    <3>1. \A x \in Device : Get(vec'[d], x) = Max2(Get(vec[d], x), Get(m.vec, x))
      BY <1>t, <2>0, GetMerge, GetOrNew
    <3> QED
      BY <1>a, <3>1 DEF Bounded, Exact, Max2
  <2>4. \A e \in Device : hist'[e] = Known(vec'[e]) /\ Bounded(vec'[e])
    BY <1>3, <1>a, <2>2, <2>3 DEF MergeCopy, TypeOK
  <2>5. \A c \in sent' : Exact(c)
    BY <1>3, <1>a DEF MergeCopy
  <2>6. HistoryExact'
    BY <2>4, <2>5 DEF HistoryExact, Copies, Exact, Bounded, Known
  <2> QED
    BY <2>1, <2>6
<1>4. ASSUME NEW m \in sent, LoseCopy(m)
      PROVE  Inv'
  BY <1>4 DEF LoseCopy, TypeOK, HistoryExact, Copies, Exact, Known
<1>5. CASE UNCHANGED vars
  BY <1>5 DEF vars, TypeOK, HistoryExact, Copies, Exact, Known
<1> QED
  BY <1>1, <1>2, <1>3, <1>4, <1>5 DEF Next

\* Type correctness of the protocol on vectors.
THEOREM TypeCorrect == Spec => []TypeOK
<1>1. Inv => TypeOK
  BY DEF Inv
<1> QED
  BY InvInit, InvNext, <1>1, PTL DEF Spec

\* A vector and the events it was made from never drift apart, on a replica or
\* in a copy delivered late or twice.
THEOREM HistoriesAreExact == Spec => []HistoryExact
<1>1. Inv => HistoryExact
  BY DEF Inv
<1> QED
  BY InvInit, InvNext, <1>1, PTL DEF Spec

\* Under the invariant, inclusion of histories is the order on the counts.
LEMMA CopyOrder ==
    ASSUME Inv, NEW a \in Copies, NEW b \in Copies
    PROVE  /\ a.vec \in Vector /\ b.vec \in Vector
           /\ a.hist \subseteq b.hist <=> Leq(a.vec, b.vec)
           /\ b.hist \subseteq a.hist <=> Leq(b.vec, a.vec)
<1>1. a.vec \in Vector /\ b.vec \in Vector
  BY DEF Inv, TypeOK, Copies, Copy
<1>2. /\ a.hist = Known(a.vec) /\ Bounded(a.vec)
      /\ b.hist = Known(b.vec) /\ Bounded(b.vec)
  BY DEF Inv, HistoryExact, Exact, Bounded
<1> QED
  BY <1>1, <1>2, KnownOrder

\* is_newer_than answers exactly the question whether one copy's history
\* properly includes the other's.
THEOREM NewerIsMoreHistory == Spec => []NewerMeansMoreHistory
<1>1. Inv => NewerMeansMoreHistory
  <2> SUFFICES ASSUME Inv, NEW a \in Copies, NEW b \in Copies
               PROVE  IsNewerThan(a.vec, b.vec) <=>
                        b.hist \subseteq a.hist /\ b.hist # a.hist
    BY DEF NewerMeansMoreHistory
  <2> QED
    BY CopyOrder, NewerIsStrictlyMore
<1> QED
  BY InvInit, InvNext, <1>1, PTL DEF Spec

\* No concurrent modification escapes is_conflicting.
THEOREM ConcurrencyIsDetected == Spec => []ConcurrentDetected
<1>1. Inv => ConcurrentDetected
  <2> SUFFICES ASSUME Inv, NEW a \in Copies, NEW b \in Copies
               PROVE  /\ Concurrent(a, b) => IsConflicting(a.vec, b.vec)
                      /\ IsConflicting(a.vec, b.vec) =>
                            Concurrent(a, b) \/ a.hist = b.hist
    BY DEF ConcurrentDetected
  <2> QED
    BY CopyOrder, ConflictIsConcurrency DEF Concurrent
<1> QED
  BY InvInit, InvNext, <1>1, PTL DEF Spec

\* What one step does to a replica's history and counts.
Grows(d) ==
    /\ hist[d] \subseteq hist'[d]
    /\ Leq(vec[d], vec'[d])
    /\ (\E x \in Device : Get(vec'[d], x) # Get(vec[d], x)) =>
          \/ hist'[d] = hist[d] \cup {<<d, Get(vec[d], d) + 1>>}
          \/ \E m \in sent : hist'[d] = hist[d] \cup m.hist

\* A replica forgets nothing, whatever arrives late or twice (increment and
\* merge of version_vector.rs).
THEOREM NothingIsForgotten == Spec => HistoryGrows
<1>1. ASSUME Inv, Next, NEW d \in Device PROVE Grows(d)
  <2>t. /\ TypeOK
        /\ \A e \in Device : vec[e] \in Vector
        /\ \A m \in sent : m.vec \in Vector
    BY <1>1 DEF Inv, TypeOK, Copy
  <2>1. CASE vec'[d] = vec[d] /\ hist'[d] = hist[d]
    BY <2>1, <2>t, GetType DEF Grows, Leq
  <2>2. CASE RecordEvent(d)
    <3>1. /\ vec'[d] = Increment(OrNew(vec[d], d), d)
          /\ hist'[d] = hist[d] \cup {<<d, Get(vec[d], d) + 1>>}
      BY <2>2, <2>t DEF RecordEvent, TypeOK
    <3>2. \A x \in Device : Get(vec[d], x) <= Get(vec'[d], x)
      BY <2>t, <3>1, OrNewType, GetOrNew, GetIncrement, GetType
    <3> QED
      BY <3>1, <3>2 DEF Grows, Leq
  <2>3. ASSUME NEW m \in sent, MergeCopy(d, m) PROVE Grows(d)
    <3>1. /\ vec'[d] = Merge(OrNew(vec[d], d), m.vec)
          /\ hist'[d] = hist[d] \cup m.hist
      BY <2>3, <2>t DEF MergeCopy, TypeOK
    <3>2. \A x \in Device : Get(vec[d], x) <= Get(vec'[d], x)
      BY <2>t, <3>1, OrNewType, GetOrNew, GetMerge, GetType DEF Max2
    <3> QED
      BY <3>1, <3>2 DEF Grows, Leq
  <2>4. \/ vec'[d] = vec[d] /\ hist'[d] = hist[d]
        \/ RecordEvent(d)
        \/ \E m \in sent : MergeCopy(d, m)
    BY <1>1, <2>t DEF Next, RecordEvent, SendCopy, MergeCopy, LoseCopy, TypeOK
  <2> QED
    BY <2>1, <2>2, <2>3, <2>4
<1>2. Inv /\ [Next]_vars => [\A d \in Device : Grows(d)]_vars
  BY <1>1
<1>3. Spec => [][\A d \in Device : Grows(d)]_vars
  BY InvInit, InvNext, <1>2, PTL DEF Spec
<1> QED
  BY <1>3 DEF HistoryGrows, Grows
=============================================================================
