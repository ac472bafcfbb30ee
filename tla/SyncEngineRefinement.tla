------------------------ MODULE SyncEngineRefinement ------------------------
(***************************************************************************)
(* The sync engine implements VersionHistory: the steps of the engine,     *)
(* seen through the mapping of SyncEngineHistory.                          *)
(***************************************************************************)
EXTENDS SyncEngineHistory, SyncEngineCalls

-----------------------------------------------------------------------------
(* The copies on their way, place by place.                                *)

UploadHolds(d, p, v) ==
    up[d].pc = "send" /\ up[d].msg.kind = "metadata" /\ up[d].msg.path = p
    /\ up[d].msg.vec = v
IsCopy(m, p, v) == m.kind = "metadata" /\ m.path = p /\ m.vec = v
ChannelHolds(d, e, p, v) == \E i \in DOMAIN chan[d][e] : IsCopy(chan[d][e][i], p, v)
ReceiveHolds(d, p, v) ==
    rx[d].pc \in {"write", "merge"} /\ rx[d].msg.path = p /\ rx[d].msg.vec = v

OnTheWay(p, v) ==
    \/ \E d \in Device : UploadHolds(d, p, v)
    \/ \E d, e \in Device : ChannelHolds(d, e, p, v)
    \/ \E d \in Device : ReceiveHolds(d, p, v)

LEMMA CopiesInChannels ==
    ASSUME NEW c, NEW p, NEW v
    PROVE  v \in VectorsIn(c, p) <=>
             \E d, e \in Device : \E i \in DOMAIN c[d][e] : IsCopy(c[d][e][i], p, v)
<1> DEFINE M == UNION {Range(c[d][e]) : d, e \in Device}
           N == {x \in M : x.kind = "metadata" /\ x.path = p}
<1>1. ASSUME NEW x
      PROVE  x \in M <=> \E d, e \in Device : \E i \in DOMAIN c[d][e] : x = c[d][e][i]
  <2>1. x \in M <=> \E d, e \in Device : x \in Range(c[d][e])
    <3>1. x \in M <=> \E S \in {Range(c[d][e]) : d, e \in Device} : x \in S
      OBVIOUS
    <3>2. \A S : S \in {Range(c[d][e]) : d, e \in Device}
                    <=> \E d, e \in Device : S = Range(c[d][e])
      OBVIOUS
    <3> HIDE DEF M
    <3> QED
      BY <3>1, <3>2
  <2>2. \A d, e \in Device :
           x \in Range(c[d][e]) <=> \E i \in DOMAIN c[d][e] : x = c[d][e][i]
    BY DEF Range
  <2> QED
    BY <2>1, <2>2
<1>2. \A x : x \in N <=> x \in M /\ x.kind = "metadata" /\ x.path = p
  OBVIOUS
<1>3. VectorsIn(c, p) = {m.vec : m \in N}
  BY DEF VectorsIn
<1> HIDE DEF M, N
<1>4. v \in {m.vec : m \in N} <=> \E x \in N : x.vec = v
  OBVIOUS
<1>5. v \in VectorsIn(c, p) <=> \E x \in M : IsCopy(x, p, v)
  BY <1>2, <1>3, <1>4 DEF IsCopy
<1>6. ASSUME NEW x \in M, IsCopy(x, p, v)
      PROVE  \E d, e \in Device : \E i \in DOMAIN c[d][e] : IsCopy(c[d][e][i], p, v)
  <2>1. PICK d \in Device, e \in Device : \E i \in DOMAIN c[d][e] : x = c[d][e][i]
    BY <1>1
  <2>2. PICK i \in DOMAIN c[d][e] : x = c[d][e][i]
    BY <2>1
  <2> QED
    BY <1>6, <2>2
<1>7. ASSUME NEW d \in Device, NEW e \in Device, NEW i \in DOMAIN c[d][e],
             IsCopy(c[d][e][i], p, v)
      PROVE  \E x \in M : IsCopy(x, p, v)
  BY <1>1, <1>7
<1> QED
  BY <1>5, <1>6, <1>7

LEMMA SentIsOnTheWay ==
    ASSUME NEW p, NEW v
    PROVE  v \in SentVectors(p) <=> OnTheWay(p, v)
<1>1. v \in {up[d].msg.vec : d \in {x \in Device :
          up[x].pc = "send" /\ up[x].msg.kind = "metadata" /\ up[x].msg.path = p}}
      <=> \E d \in Device : UploadHolds(d, p, v)
  BY DEF UploadHolds
<1>2. v \in VectorsIn(chan, p) <=> \E d, e \in Device : ChannelHolds(d, e, p, v)
  BY CopiesInChannels DEF ChannelHolds
<1>3. v \in {rx[d].msg.vec : d \in {x \in Device :
          rx[x].pc \in {"write", "merge"} /\ rx[x].msg.path = p}}
      <=> \E d \in Device : ReceiveHolds(d, p, v)
  BY DEF ReceiveHolds
<1> QED
  BY <1>1, <1>2, <1>3 DEF SentVectors, OnTheWay

\* The same of the next state.
LEMMA SentIsOnTheWayNext ==
    ASSUME NEW p, NEW v
    PROVE  (v \in SentVectors(p)') <=> OnTheWay(p, v)'
<1>1. v \in {up'[d].msg.vec : d \in {x \in Device :
          up'[x].pc = "send" /\ up'[x].msg.kind = "metadata" /\ up'[x].msg.path = p}}
      <=> \E d \in Device : UploadHolds(d, p, v)'
  BY DEF UploadHolds
<1>2. v \in VectorsIn(chan', p) <=> \E d, e \in Device : ChannelHolds(d, e, p, v)'
  BY CopiesInChannels DEF ChannelHolds
<1>3. v \in {rx'[d].msg.vec : d \in {x \in Device :
          rx'[x].pc \in {"write", "merge"} /\ rx'[x].msg.path = p}}
      <=> \E d \in Device : ReceiveHolds(d, p, v)'
  BY DEF ReceiveHolds
<1> QED
  BY <1>1, <1>2, <1>3 DEF SentVectors, OnTheWay

-----------------------------------------------------------------------------
(* What a step does to the vectors is a step of the abstract specification. *)

CopyOf(v) == [vec |-> v, hist |-> KnownTo(v)]

LEMMA CopyIn ==
    ASSUME NEW V, NEW v
    PROVE  /\ CopyOf(v) \in CopiesOf(V) <=> v \in V
           /\ \A c \in CopiesOf(V) : c = CopyOf(c.vec) /\ c.vec \in V
<1>1. \A c : c \in CopiesOf(V) <=> \E w \in V : c = CopyOf(w)
  BY DEF CopiesOf, CopyOf
<1>2. \A w : CopyOf(w).vec = w
  BY DEF CopyOf
<1> QED
  BY <1>1, <1>2

LEMMA CopiesAdded ==
    ASSUME NEW V, NEW v
    PROVE  CopiesOf(V \cup {v}) = CopiesOf(V) \cup {CopyOf(v)}
  BY DEF CopiesOf, CopyOf

LEMMA CopiesLost ==
    ASSUME NEW V, NEW v
    PROVE  CopiesOf(V \ {v}) = CopiesOf(V) \ {CopyOf(v)}
<1>1. ASSUME NEW c PROVE c \in CopiesOf(V \ {v}) <=> c \in CopiesOf(V) /\ c # CopyOf(v)
  <2>1. c \in CopiesOf(V \ {v}) => c = CopyOf(c.vec) /\ c.vec \in V \ {v}
    BY CopyIn
  <2>2. c \in CopiesOf(V) => c = CopyOf(c.vec) /\ c.vec \in V
    BY CopyIn
  <2>3. CopyOf(v).vec = v
    BY DEF CopyOf
  <2>4. CopyOf(c.vec) \in CopiesOf(V) <=> c.vec \in V
    BY CopyIn
  <2>5. CopyOf(c.vec) \in CopiesOf(V \ {v}) <=> c.vec \in V \ {v}
    BY CopyIn
  <2> QED
    BY <2>1, <2>2, <2>3, <2>4, <2>5
<1> QED
  BY <1>1

LEMMA MapsToStutter ==
    ASSUME NEW p \in Path, \A d \in Device : vv'[d][p] = vv[d][p],
           SentVectors(p)' = SentVectors(p)
    PROVE  UNCHANGED History(p)!vars
<1>1. [d \in Device |-> vv[d][p]]' = [d \in Device |-> vv[d][p]]
  OBVIOUS
<1>2. [d \in Device |-> KnownTo(vv[d][p])]' = [d \in Device |-> KnownTo(vv[d][p])]
  BY DEF KnownTo
<1>3. CopiesOf(SentVectors(p))' = CopiesOf(SentVectors(p))
  BY DEF CopiesOf, KnownTo
<1> QED
  BY <1>1, <1>2, <1>3 DEF History!vars

LEMMA MapsToSend ==
    ASSUME NEW p \in Path, NEW d \in Device, vv' = vv, vv[d][p] # NoVector,
           SentVectors(p)' = SentVectors(p) \cup {vv[d][p]}
    PROVE  History(p)!SendCopy(d)
<1>1. /\ [e \in Device |-> vv[e][p]]' = [e \in Device |-> vv[e][p]]
      /\ [e \in Device |-> KnownTo(vv[e][p])]' = [e \in Device |-> KnownTo(vv[e][p])]
  BY DEF KnownTo
<1>2. CopiesOf(SentVectors(p))' = CopiesOf(SentVectors(p)) \cup {CopyOf(vv[d][p])}
  <2>1. CopiesOf(SentVectors(p))' = CopiesOf(SentVectors(p)')
    BY DEF CopiesOf, KnownTo
  <2> QED
    BY <2>1, CopiesAdded
<1> QED
  BY <1>1, <1>2 DEF History!SendCopy, History!NoVector, NoVector,
     History!Unlisted, Unlisted, CopyOf

LEMMA MapsToLose ==
    ASSUME NEW p \in Path, vv' = vv, NEW v \in SentVectors(p),
           SentVectors(p)' = SentVectors(p) \ {v}
    PROVE  /\ CopyOf(v) \in CopiesOf(SentVectors(p))
           /\ History(p)!LoseCopy(CopyOf(v))
<1>1. /\ [e \in Device |-> vv[e][p]]' = [e \in Device |-> vv[e][p]]
      /\ [e \in Device |-> KnownTo(vv[e][p])]' = [e \in Device |-> KnownTo(vv[e][p])]
  BY DEF KnownTo
<1>2. CopiesOf(SentVectors(p))' = CopiesOf(SentVectors(p)) \ {CopyOf(v)}
  <2>1. CopiesOf(SentVectors(p))' = CopiesOf(SentVectors(p)')
    BY DEF CopiesOf, KnownTo
  <2> QED
    BY <2>1, CopiesLost
<1>3. CopyOf(v) \in CopiesOf(SentVectors(p))
  BY CopyIn
<1> QED
  BY <1>1, <1>2, <1>3 DEF History!LoseCopy

\* Counting one more version is knowing one more event.
LEMMA KnownStepped ==
    ASSUME NEW v \in Vector, NEW d \in Device, Get(v, d) < MaxVersion
    PROVE  KnownTo(Increment(OrNew(v, d), d)) = KnownTo(v) \cup {<<d, Get(v, d) + 1>>}
<1> DEFINE w == Increment(OrNew(v, d), d)
<1>1. \A x \in Device : Get(w, x) = IF x = d THEN Get(v, d) + 1 ELSE Get(v, x)
  BY OrNewType, GetOrNew, GetIncrement
<1>2. \A x \in Device : Get(v, x) \in Nat
  BY GetType
<1> HIDE DEF w
<1>3. ASSUME NEW e \in Device \X (1 .. MaxVersion)
      PROVE  e[2] <= Get(w, e[1]) <=>
               e[2] <= Get(v, e[1]) \/ e = <<d, Get(v, d) + 1>>
  <2>1. PICK x \in Device, n \in 1 .. MaxVersion : e = <<x, n>>
    OBVIOUS
  <2>2. n \in Int
    BY <2>1, SyncEngineAssumption
  <2> QED
    BY <1>1, <1>2, <2>1, <2>2
<1>4. <<d, Get(v, d) + 1>> \in Device \X (1 .. MaxVersion)
  BY <1>2, SyncEngineAssumption
<1> QED
  BY <1>3, <1>4 DEF KnownTo, w

\* A merge knows what either side knows.
LEMMA KnownMerged ==
    ASSUME NEW v \in Vector, NEW w \in Vector, NEW d \in Device
    PROVE  KnownTo(Merge(OrNew(v, d), w)) = KnownTo(v) \cup KnownTo(w)
<1> DEFINE m == Merge(OrNew(v, d), w)
<1>1. \A x \in Device : Get(m, x) = Max2(Get(v, x), Get(w, x))
  BY OrNewType, GetOrNew, GetMerge
<1>2. \A x \in Device : Get(v, x) \in Nat /\ Get(w, x) \in Nat
  BY GetType
<1> HIDE DEF m
<1>3. ASSUME NEW e \in Device \X (1 .. MaxVersion)
      PROVE  e[2] <= Get(m, e[1]) <=>
               e[2] <= Get(v, e[1]) \/ e[2] <= Get(w, e[1])
  <2>1. e[1] \in Device /\ e[2] \in Int
    BY SyncEngineAssumption
  <2> QED
    BY <1>1, <1>2, <2>1 DEF Max2
<1> QED
  BY <1>3 DEF KnownTo, m

LEMMA MapsToRecord ==
    ASSUME TypeOK, NEW d \in Device, NEW p \in Path, Get(vv[d][p], d) < MaxVersion,
           vv' = [vv EXCEPT ![d][p] = Stepped(d, p)],
           SentVectors(p)' = SentVectors(p)
    PROVE  History(p)!RecordEvent(d)
<1> DEFINE v == vv[d][p]
           w == Increment(OrNew(v, d), d)
<1>1. v \in Vector
  BY DEF TypeOK
<1>2. \A e \in Device : vv'[e][p] = IF e = d THEN w ELSE vv[e][p]
  BY DEF TypeOK, Stepped
<1>3. KnownTo(w) = KnownTo(v) \cup {<<d, Get(v, d) + 1>>}
  BY <1>1, KnownStepped
<1>4. [e \in Device |-> vv[e][p]]' = [[e \in Device |-> vv[e][p]] EXCEPT ![d] = w]
  BY <1>2
<1>5. [e \in Device |-> KnownTo(vv[e][p])]' =
        [[e \in Device |-> KnownTo(vv[e][p])] EXCEPT ![d] = @ \cup {<<d, Get(v, d) + 1>>}]
  <2>1. [e \in Device |-> KnownTo(vv[e][p])]' = [e \in Device |-> KnownTo(vv'[e][p])]
    BY DEF KnownTo
  <2> HIDE DEF w
  <2>2. ASSUME NEW e \in Device
        PROVE  KnownTo(vv'[e][p]) = IF e = d THEN KnownTo(v) \cup {<<d, Get(v, d) + 1>>}
                                             ELSE KnownTo(vv[e][p])
    <3>1. CASE e = d
      <4>1. vv'[e][p] = w
        BY <1>2, <3>1
      <4> QED
        BY <1>3, <3>1, <4>1
    <3>2. CASE e # d
      <4>1. vv'[e][p] = vv[e][p]
        BY <1>2, <3>2
      <4> QED
        BY <3>2, <4>1
    <3> QED
      BY <3>1, <3>2
  <2> QED
    BY <2>1, <2>2
<1>6. CopiesOf(SentVectors(p))' = CopiesOf(SentVectors(p))
  BY DEF CopiesOf, KnownTo
<1> HIDE DEF w
<1>7. w = History(p)!Increment(History(p)!OrNew([e \in Device |-> vv[e][p]][d], d), d)
  BY DEF w, Increment, OrNew, Get, NoVector, New, Max2, Unlisted,
     History!Increment, History!OrNew, History!Get, History!NoVector,
     History!New, History!Max2, History!Unlisted
<1>8. Get(v, d) = History(p)!Get([e \in Device |-> vv[e][p]][d], d)
  BY DEF Get, Max2, History!Get, History!Max2
<1> QED
  BY <1>4, <1>5, <1>6, <1>7, <1>8 DEF History!RecordEvent

LEMMA MapsToMerge ==
    ASSUME TypeOK, NEW d \in Device, NEW p \in Path, NEW v \in Vector,
           v \in SentVectors(p),
           Serialised => vv[d][p] = NoVector \/ ~ IsConflicting(vv[d][p], v),
           vv' = [vv EXCEPT ![d][p] = Merge(OrNew(vv[d][p], d), v)],
           \/ SentVectors(p)' = SentVectors(p)
           \/ SentVectors(p)' = SentVectors(p) \ {v}
    PROVE  /\ CopyOf(v) \in CopiesOf(SentVectors(p))
           /\ History(p)!MergeCopy(d, CopyOf(v))
<1> DEFINE u == vv[d][p]
           w == Merge(OrNew(u, d), v)
<1>1. u \in Vector
  BY DEF TypeOK
<1>2. \A e \in Device : vv'[e][p] = IF e = d THEN w ELSE vv[e][p]
  BY DEF TypeOK
<1>3. KnownTo(w) = KnownTo(u) \cup KnownTo(v)
  BY <1>1, KnownMerged
<1>4. [e \in Device |-> vv[e][p]]' = [[e \in Device |-> vv[e][p]] EXCEPT ![d] = w]
  BY <1>2
<1>5. [e \in Device |-> KnownTo(vv[e][p])]' =
        [[e \in Device |-> KnownTo(vv[e][p])] EXCEPT ![d] = @ \cup KnownTo(v)]
  <2>1. [e \in Device |-> KnownTo(vv[e][p])]' = [e \in Device |-> KnownTo(vv'[e][p])]
    BY DEF KnownTo
  <2> HIDE DEF w
  <2>2. ASSUME NEW e \in Device
        PROVE  KnownTo(vv'[e][p]) = IF e = d THEN KnownTo(u) \cup KnownTo(v)
                                             ELSE KnownTo(vv[e][p])
    <3>1. CASE e = d
      <4>1. vv'[e][p] = w
        BY <1>2, <3>1
      <4> QED
        BY <1>3, <3>1, <4>1
    <3>2. CASE e # d
      <4>1. vv'[e][p] = vv[e][p]
        BY <1>2, <3>2
      <4> QED
        BY <3>2, <4>1
    <3> QED
      BY <3>1, <3>2
  <2> QED
    BY <2>1, <2>2
<1>6. CopiesOf(SentVectors(p))' \in {CopiesOf(SentVectors(p)),
                                     CopiesOf(SentVectors(p)) \ {CopyOf(v)}}
  <2>1. CopiesOf(SentVectors(p))' = CopiesOf(SentVectors(p)')
    BY DEF CopiesOf, KnownTo
  <2> QED
    BY <2>1, CopiesLost
<1>7. CopyOf(v) \in CopiesOf(SentVectors(p))
  BY CopyIn
<1> HIDE DEF w
<1>8. w = History(p)!Merge(History(p)!OrNew([e \in Device |-> vv[e][p]][d], d), v)
  BY DEF w, Merge, OrNew, NoVector, New, Max2, Unlisted,
     History!Merge, History!OrNew, History!NoVector,
     History!New, History!Max2, History!Unlisted
<1>9. Serialised =>
        \/ [e \in Device |-> vv[e][p]][d] = History(p)!NoVector
        \/ ~ History(p)!IsConflicting([e \in Device |-> vv[e][p]][d], v)
  <2>1. History(p)!NoVector = NoVector
    BY DEF NoVector, Unlisted, History!NoVector, History!Unlisted
  <2>2. History(p)!IsConflicting(u, v) <=> IsConflicting(u, v)
    BY DEF IsConflicting, IsNewerThan, Get, Max2,
       History!IsConflicting, History!IsNewerThan, History!Get, History!Max2
  <2> QED
    BY <2>1, <2>2
<1>10. CopyOf(v).vec = v /\ CopyOf(v).hist = KnownTo(v)
  BY DEF CopyOf
<1> QED
  BY <1>4, <1>5, <1>6, <1>7, <1>8, <1>9, <1>10 DEF History!MergeCopy

-----------------------------------------------------------------------------
(* What the actions do to the copies on their way.                         *)

LEMMA SameCopies ==
    ASSUME NEW p, \A v : OnTheWay(p, v)' <=> OnTheWay(p, v)
    PROVE  SentVectors(p)' = SentVectors(p)
<1>1. \A v : (v \in SentVectors(p)') <=> v \in SentVectors(p)
  BY SentIsOnTheWay, SentIsOnTheWayNext
<1> QED
  BY <1>1

LEMMA OneCopyLess ==
    ASSUME NEW p, NEW w,
           \A v : OnTheWay(p, v)' => OnTheWay(p, v),
           \A v : OnTheWay(p, v) => OnTheWay(p, v)' \/ v = w
    PROVE  \/ SentVectors(p)' = SentVectors(p)
           \/ w \in SentVectors(p) /\ SentVectors(p)' = SentVectors(p) \ {w}
<1>1. \A v : /\ (v \in SentVectors(p)') => v \in SentVectors(p)
             /\ v \in SentVectors(p) => (v \in SentVectors(p)') \/ v = w
  BY SentIsOnTheWay, SentIsOnTheWayNext
<1> QED
  BY <1>1

LEMMA OneCopyMore ==
    ASSUME NEW p, NEW w, \A v : OnTheWay(p, v)' <=> OnTheWay(p, v) \/ v = w
    PROVE  SentVectors(p)' = SentVectors(p) \cup {w}
<1>1. \A v : (v \in SentVectors(p)') <=> v \in SentVectors(p) \/ v = w
  BY SentIsOnTheWay, SentIsOnTheWayNext
<1> QED
  BY <1>1

\* A step that leaves every map as it is sends a copy, loses one or neither.
Relays(p) ==
    \/ SentVectors(p)' = SentVectors(p)
    \/ \E v \in SentVectors(p) : SentVectors(p)' = SentVectors(p) \ {v}
    \/ \E d \in Device : /\ vv[d][p] # NoVector
                         /\ SentVectors(p)' = SentVectors(p) \cup {vv[d][p]}

LEMMA UploadsRelay ==
    ASSUME TypeOK, NEW p \in Path, NEW d \in Device, ProcessQueue(d)
    PROVE  vv' = vv /\ Relays(p)
<1> USE DEF fileVars, engineVars, netVars, sessionVars, lifeVars, ghostVars
<1>1. /\ vv' = vv /\ rx' = rx
      /\ \A x \in Device : x # d => up'[x] = up[x]
  BY DEF ProcessQueue, UploadNext, UploadDone, UploadRead, UploadReadFails,
         UploadLook, UploadSend, UploadSendFails, TypeOK
<1>2. \A v : /\ \A x \in Device : ReceiveHolds(x, p, v)' <=> ReceiveHolds(x, p, v)
             /\ \A x \in Device \ {d} : UploadHolds(x, p, v)' <=> UploadHolds(x, p, v)
  BY <1>1 DEF ReceiveHolds, UploadHolds
<1>3. ASSUME chan' = chan
      PROVE  \A v, x, y : ChannelHolds(x, y, p, v)' <=> ChannelHolds(x, y, p, v)
  BY <1>3 DEF ChannelHolds
<1>4. ASSUME chan' = chan, \A v : ~ UploadHolds(d, p, v)' /\ ~ UploadHolds(d, p, v)
      PROVE  Relays(p)
  BY <1>2, <1>3, <1>4, SameCopies DEF OnTheWay, Relays
<1>5. CASE UploadNext(d)
  <2>1. \A v : ~ UploadHolds(d, p, v)' /\ ~ UploadHolds(d, p, v)
    BY <1>5 DEF UploadNext, UploadHolds, DeleteOf, Idle, TypeOK
  <2> QED
    BY <1>1, <1>4, <1>5, <2>1 DEF UploadNext
<1>6. CASE UploadDone(d) \/ UploadRead(d) \/ UploadReadFails(d)
  <2>1. \A v : ~ UploadHolds(d, p, v)' /\ ~ UploadHolds(d, p, v)
    BY <1>6 DEF UploadDone, UploadRead, UploadReadFails, UploadHolds, Idle, TypeOK
  <2> QED
    BY <1>1, <1>4, <1>6, <2>1 DEF UploadDone, UploadRead, UploadReadFails
<1>7. CASE UploadLook(d)
  <2> DEFINE q == up[d].path
  <2>1. \A v : ~ UploadHolds(d, p, v)
    BY <1>7 DEF UploadLook, UploadHolds
  <2>2. chan' = chan
    BY <1>7 DEF UploadLook
  <2>3. CASE vv[d][q] = NoVector \/ q # p
    <3>1. \A v : ~ UploadHolds(d, p, v)'
      BY <1>7, <2>3 DEF UploadLook, UploadHolds, TypeOK
    <3> QED
      BY <1>1, <1>4, <2>1, <2>2, <3>1
  <2>4. CASE vv[d][q] # NoVector /\ q = p
    <3>1. \A v : UploadHolds(d, p, v)' <=> v = vv[d][p]
      BY <1>7, <2>4 DEF UploadLook, UploadHolds, TypeOK
    <3>2. ASSUME NEW v PROVE OnTheWay(p, v)' <=> OnTheWay(p, v) \/ v = vv[d][p]
      BY <1>2, <1>3, <2>1, <2>2, <3>1 DEF OnTheWay
    <3>3. SentVectors(p)' = SentVectors(p) \cup {vv[d][p]}
      BY <3>2, OneCopyMore
    <3> QED
      BY <1>1, <2>4, <3>3 DEF Relays
  <2> QED
    BY <2>3, <2>4
<1>8. CASE UploadSend(d)
  <2>0. PICK to \in Device, m \in Message : to = up[d].to /\ m = up[d].msg
    BY <1>8, UploadLocals DEF UploadSend
  <2>1. /\ chan[d][to] \in Seq(Message)
        /\ chan' = [chan EXCEPT ![d][to] = Append(chan[d][to], m)]
    BY <1>8, <2>0 DEF UploadSend, Sent, TypeOK
  <2>2. \A v : /\ UploadHolds(d, p, v) <=> IsCopy(m, p, v)
               /\ ~ UploadHolds(d, p, v)'
    BY <1>8, <2>0 DEF UploadSend, UploadHolds, IsCopy, TypeOK
  <2>3. \A v : ChannelHolds(d, to, p, v)' <=> ChannelHolds(d, to, p, v) \/ IsCopy(m, p, v)
    <3>1. chan'[d][to] = Append(chan[d][to], m)
      BY <2>1 DEF TypeOK
    <3>2. /\ \A i \in DOMAIN chan[d][to] :
                i \in DOMAIN chan'[d][to] /\ chan'[d][to][i] = chan[d][to][i]
          /\ \A i \in DOMAIN chan'[d][to] :
                \/ i \in DOMAIN chan[d][to] /\ chan'[d][to][i] = chan[d][to][i]
                \/ chan'[d][to][i] = m
          /\ \E i \in DOMAIN chan'[d][to] : chan'[d][to][i] = m
      <4>1. Len(chan[d][to]) \in Nat
        BY <2>1
      <4>2. chan'[d][to][Len(chan[d][to]) + 1] = m
        BY <2>1, <3>1
      <4> QED
        BY <2>1, <3>1, <4>1, <4>2
    <3>3. ASSUME NEW v, ChannelHolds(d, to, p, v)'
          PROVE  ChannelHolds(d, to, p, v) \/ IsCopy(m, p, v)
      BY <3>2, <3>3 DEF ChannelHolds
    <3>4. ASSUME NEW v, ChannelHolds(d, to, p, v)
          PROVE  ChannelHolds(d, to, p, v)'
      BY <3>2, <3>4 DEF ChannelHolds
    <3>5. ASSUME NEW v, IsCopy(m, p, v)
          PROVE  ChannelHolds(d, to, p, v)'
      BY <3>2, <3>5 DEF ChannelHolds
    <3> QED
      BY <3>3, <3>4, <3>5
  <2>4. \A v : \A x, y \in Device : ~ (x = d /\ y = to) =>
           (ChannelHolds(x, y, p, v)' <=> ChannelHolds(x, y, p, v))
    BY <2>1 DEF ChannelHolds, TypeOK
  <2>5. ASSUME NEW v PROVE OnTheWay(p, v)' <=> OnTheWay(p, v)
    <3>1. (\E x, y \in Device : ChannelHolds(x, y, p, v)') <=>
             (\E x, y \in Device : ChannelHolds(x, y, p, v)) \/ UploadHolds(d, p, v)
      BY <2>1, <2>2, <2>3, <2>4
    <3>2. (\E x \in Device : UploadHolds(x, p, v)) <=>
             (\E x \in Device : UploadHolds(x, p, v)') \/ UploadHolds(d, p, v)
      BY <1>2, <2>2
    <3> QED
      BY <1>2, <3>1, <3>2 DEF OnTheWay
  <2> QED
    BY <1>1, <2>5, SameCopies DEF Relays
<1>9. CASE UploadSendFails(d)
  <2>1. \A v : /\ UploadHolds(d, p, v) => v = up[d].msg.vec
               /\ ~ UploadHolds(d, p, v)'
    BY <1>9 DEF UploadSendFails, UploadHolds, Idle, TypeOK
  <2>2. chan' = chan
    BY <1>9 DEF UploadSendFails
  <2>3. \/ SentVectors(p)' = SentVectors(p)
        \/ /\ up[d].msg.vec \in SentVectors(p)
           /\ SentVectors(p)' = SentVectors(p) \ {up[d].msg.vec}
    BY <1>2, <1>3, <2>1, <2>2, OneCopyLess DEF OnTheWay
  <2> QED
    BY <1>1, <2>3 DEF Relays
<1> QED
  BY <1>1, <1>5, <1>6, <1>7, <1>8, <1>9 DEF ProcessQueue

\* Taking the first message off a channel.
LEMMA TakingFromChannel ==
    ASSUME TypeOK, NEW d \in Device, NEW e \in Device, chan[e][d] # <<>>,
           chan' = [chan EXCEPT ![e][d] = Tail(@)], NEW p, NEW v
    PROVE  (\E x, y \in Device : ChannelHolds(x, y, p, v)) <=>
              \/ \E x, y \in Device : ChannelHolds(x, y, p, v)'
              \/ IsCopy(Head(chan[e][d]), p, v)
<1>1. chan[e][d] \in Seq(Message)
  BY DEF TypeOK
<1>2. chan'[e][d] = Tail(chan[e][d])
  BY DEF TypeOK
<1>3. \A x, y \in Device : ~ (x = e /\ y = d) => chan'[x][y] = chan[x][y]
  BY DEF TypeOK
<1>4. ChannelHolds(e, d, p, v) <=>
         ChannelHolds(e, d, p, v)' \/ IsCopy(Head(chan[e][d]), p, v)
  <2>1. ASSUME NEW i \in DOMAIN chan[e][d]
        PROVE  \/ chan[e][d][i] = Head(chan[e][d])
               \/ \E j \in DOMAIN chan'[e][d] : chan'[e][d][j] = chan[e][d][i]
    <3>1. CASE i = 1
      BY <1>1, <3>1
    <3>2. CASE i # 1
      <4>1. i - 1 \in DOMAIN Tail(chan[e][d]) /\ Tail(chan[e][d])[i - 1] = chan[e][d][i]
        BY <1>1, <3>2
      <4> QED
        BY <1>2, <4>1
    <3> QED
      BY <3>1, <3>2
  <2>2. \A j \in DOMAIN chan'[e][d] :
           \E i \in DOMAIN chan[e][d] : chan'[e][d][j] = chan[e][d][i]
    BY <1>1, <1>2, SequenceParts
  <2>3. Head(chan[e][d]) = chan[e][d][1] /\ 1 \in DOMAIN chan[e][d]
    BY <1>1, SequenceParts
  <2>4. ChannelHolds(e, d, p, v) =>
           ChannelHolds(e, d, p, v)' \/ IsCopy(Head(chan[e][d]), p, v)
    BY <2>1 DEF ChannelHolds
  <2>5. ChannelHolds(e, d, p, v)' => ChannelHolds(e, d, p, v)
    BY <2>2 DEF ChannelHolds
  <2> QED
    BY <2>3, <2>4, <2>5 DEF ChannelHolds
<1>5. \A x, y \in Device : ~ (x = e /\ y = d) =>
         (ChannelHolds(x, y, p, v)' <=> ChannelHolds(x, y, p, v))
  BY <1>3 DEF ChannelHolds
<1> QED
  BY <1>4, <1>5

LEMMA ReceivesRelay ==
    ASSUME TypeOK, NEW p \in Path, NEW d \in Device,
           \/ ReceiveFile(d) /\ ~ ReceiveMerge(d)
           \/ ReceiveWriteFails(d) \/ ReceiveSaveFails(d)
           \/ \E e \in Device : ReceiverLags(d, e)
    PROVE  vv' = vv /\ Relays(p)
<1> USE DEF fileVars, engineVars, netVars, sessionVars, lifeVars, ghostVars
<1>1. /\ vv' = vv /\ up' = up
      /\ \A x \in Device : x # d => rx'[x] = rx[x]
  BY DEF ReceiveFile, ReceiveRejects, ReceiveConflict, ReceiveUndecryptable,
         ReceiveAccepts, Arrives, ReceiveWrite, ReceiveSave, ReceiveWriteFails,
         ReceiveSaveFails, ReceiverLags, Fault, TypeOK
<1>2. \A v : /\ \A x \in Device : UploadHolds(x, p, v)' <=> UploadHolds(x, p, v)
             /\ \A x \in Device \ {d} : ReceiveHolds(x, p, v)' <=> ReceiveHolds(x, p, v)
  BY <1>1 DEF ReceiveHolds, UploadHolds
<1>3. ASSUME chan' = chan
      PROVE  \A v, x, y : ChannelHolds(x, y, p, v)' <=> ChannelHolds(x, y, p, v)
  BY <1>3 DEF ChannelHolds
\* The message is taken and not accepted.
<1>4. ASSUME NEW e \in Device, chan[e][d] # <<>>, rx' = rx,
             chan' = [chan EXCEPT ![e][d] = Tail(@)]
      PROVE  Relays(p)
  <2>1. PICK w : w = Head(chan[e][d]).vec
    OBVIOUS
  <2>2. ASSUME NEW v
        PROVE  /\ OnTheWay(p, v)' => OnTheWay(p, v)
               /\ OnTheWay(p, v) => OnTheWay(p, v)' \/ v = w
    <3>1. (\E x, y \in Device : ChannelHolds(x, y, p, v)) <=>
             \/ \E x, y \in Device : ChannelHolds(x, y, p, v)'
             \/ IsCopy(Head(chan[e][d]), p, v)
      BY <1>4, TakingFromChannel
    <3>2. ReceiveHolds(d, p, v)' <=> ReceiveHolds(d, p, v)
      BY <1>4 DEF ReceiveHolds
    <3>3. IsCopy(Head(chan[e][d]), p, v) => v = w
      BY <2>1 DEF IsCopy
    <3> QED
      BY <1>2, <3>1, <3>2, <3>3 DEF OnTheWay
  <2>3. \/ SentVectors(p)' = SentVectors(p)
        \/ w \in SentVectors(p) /\ SentVectors(p)' = SentVectors(p) \ {w}
    BY <2>2, OneCopyLess
  <2> QED
    BY <2>3 DEF Relays
\* The message is accepted.
<1>5. ASSUME NEW e \in Device, ReceiveAccepts(d, e)
      PROVE  Relays(p)
  <2>1. PICK m : m = Head(chan[e][d])
    OBVIOUS
  <2>2. ASSUME NEW v PROVE OnTheWay(p, v)' <=> OnTheWay(p, v)
    <3>1. (\E x, y \in Device : ChannelHolds(x, y, p, v)) <=>
             \/ \E x, y \in Device : ChannelHolds(x, y, p, v)'
             \/ IsCopy(m, p, v)
      BY <1>5, <2>1, TakingFromChannel DEF ReceiveAccepts, Arrives
    <3>2. ReceiveHolds(d, p, v)' <=> IsCopy(m, p, v)
      BY <1>5, <2>1 DEF ReceiveAccepts, ReceiveHolds, IsCopy, TypeOK
    <3>3. ~ ReceiveHolds(d, p, v)
      BY <1>5 DEF ReceiveAccepts, Arrives, ReceiveHolds, Idle
    <3> QED
      BY <1>2, <3>1, <3>2, <3>3 DEF OnTheWay
  <2> QED
    BY <2>2, SameCopies DEF Relays
\* The file is written.
<1>6. CASE ReceiveWrite(d)
  <2>1. rx[d] \in [pc : {"write", "merge"}, from : Device, msg : FileMsg]
    BY <1>6 DEF ReceiveWrite, TypeOK, ReceiveCall
  <2>2. rx'[d].msg = rx[d].msg /\ rx'[d].pc = "merge"
    BY <1>6, <2>1 DEF ReceiveWrite, TypeOK
  <2>3. chan' = chan /\ \A v : ReceiveHolds(d, p, v)' <=> ReceiveHolds(d, p, v)
    BY <1>6, <2>2 DEF ReceiveWrite, ReceiveHolds
  <2>4. ASSUME NEW v PROVE OnTheWay(p, v)' <=> OnTheWay(p, v)
    BY <1>2, <1>3, <2>3 DEF OnTheWay
  <2> QED
    BY <1>1, <2>4, SameCopies DEF Relays
\* The call ends, before the merge or after it.
<1>7. CASE ReceiveWriteFails(d) \/ ReceiveSave(d) \/ ReceiveSaveFails(d)
  <2>1. PICK w : w = rx[d].msg.vec
    OBVIOUS
  <2>2. chan' = chan
    BY <1>7 DEF ReceiveWriteFails, ReceiveSave, ReceiveSaveFails, Fault
  <2>3. \A v : /\ ReceiveHolds(d, p, v) => v = w
               /\ ~ ReceiveHolds(d, p, v)'
    <3>1. \A v : ReceiveHolds(d, p, v) => v = w
      BY <2>1 DEF ReceiveHolds
    <3>2. rx' = [rx EXCEPT ![d] = Idle]
      BY <1>7 DEF ReceiveWriteFails, ReceiveSave, ReceiveSaveFails
    <3>3. rx'[d] = Idle
      BY <3>2 DEF TypeOK
    <3>4. rx'[d].pc = "idle"
      BY <3>3 DEF Idle
    <3> QED
      BY <3>1, <3>4 DEF ReceiveHolds
  <2>4. \/ SentVectors(p)' = SentVectors(p)
        \/ w \in SentVectors(p) /\ SentVectors(p)' = SentVectors(p) \ {w}
    <3>1. ASSUME NEW v
          PROVE  /\ OnTheWay(p, v)' => OnTheWay(p, v)
                 /\ OnTheWay(p, v) => OnTheWay(p, v)' \/ v = w
      BY <1>2, <1>3, <2>2, <2>3 DEF OnTheWay
    <3> QED
      BY <3>1, OneCopyLess
  <2> QED
    BY <1>1, <2>4 DEF Relays
<1> QED
  BY <1>1, <1>4, <1>5, <1>6, <1>7 DEF ReceiveFile, ReceiveRejects,
     ReceiveConflict, ReceiveUndecryptable, Arrives, ReceiverLags

-----------------------------------------------------------------------------
(* Until an engine is dropped: resets = 0.                                 *)

\* handle_file_event looked at the bound before it read the file; the count is
\* still below it when it steps, since a merge raises no own count.
WithinBound ==
    \A d \in Device : ev[d].pc = "bump" => Get(vv[d][ev[d].path], d) < MaxVersion

HistoryInv == TypeOK /\ ClientInv /\ KnowledgeBacked /\ (resets = 0 => WithinBound)

LEMMA HistoryInvInit == Init => HistoryInv
<1>1. Init => WithinBound /\ resets = 0
  BY DEF Init, WithinBound, Idle
<1> QED
  BY <1>1, TypeInit, ClientInit, BackedInit DEF HistoryInv, KnowledgeBacked

LEMMA NoReset ==
    ASSUME TypeOK, [Next]_vars, resets' = 0
    PROVE  resets = 0 /\ \A d \in Device : ~ DropEngine(d)
<1> USE DEF fileVars, engineVars, netVars, sessionVars, lifeVars, ghostVars
<1>1. \A d \in Device : ~ DropEngine(d)
  <2>1. resets + 1 # 0
    BY DEF TypeOK
  <2> QED
    BY <2>1 DEF DropEngine
<1>2. CASE UNCHANGED vars
  BY <1>1, <1>2 DEF vars
<1>3. ASSUME NEW d \in Device, Watch(d) \/ HandleFileEvent(d) \/ BlocksOnGuard(d)
      PROVE  resets' = resets
  BY <1>3 DEF Watch, WatcherReports, WatchFails, DeleteReported, Forward,
     HandleFileEvent, EventRead, EventReadFails, Takes, EventDeleted, EventBump,
     EventSave, EventPeers, EventEnqueue, BlocksOnGuard, Fault
<1>4. ASSUME NEW d \in Device, ProcessQueue(d) \/ ReceiveFile(d)
      PROVE  resets' = resets
  BY <1>4 DEF ProcessQueue, UploadNext, UploadDone, UploadRead,
     UploadReadFails, UploadLook, UploadSend, UploadSendFails, ReceiveFile,
     ReceiveRejects, ReceiveConflict, ReceiveUndecryptable, ReceiveAccepts,
     ReceiveWrite, ReceiveMerge, ReceiveSave, Fault
<1>5. ASSUME NEW d \in Device, Environment(d)
      PROVE  resets' = resets
  BY <1>1, <1>5 DEF Environment, UserChanges, EventSaveFails, ReceiveWriteFails,
     ReceiveSaveFails, PeerStored, ChannelStored, ChannelCloses, ReceiverLags,
     StopSync, ReplaceEngine, StartSync, Fault
<1> QED
  BY <1>1, <1>2, <1>3, <1>4, <1>5 DEF Next

\* A merge leaves the own counts of its device, which nobody else can raise.
LEMMA MergeKeepsOwnCount ==
    ASSUME TypeOK, AllBacked, NEW d \in Device, ReceiveMerge(d)
    PROVE  /\ ev' = ev
           /\ \A x \in Device, q \in Path : Get(vv'[x][q], x) = Get(vv[x][q], x)
<1>1. rx[d].msg \in FileMsg /\ rx[d].pc = "merge"
  BY ReceiveLocals DEF ReceiveMerge
<1>2. PICK m \in FileMsg : m = rx[d].msg
  BY <1>1
<1>3. m.path \in Path /\ m.vec \in Vector /\ vv[d][m.path] \in Vector
  BY DEF FileMsg, TypeOK
<1>4. ev' = ev /\ vv' = [vv EXCEPT ![d][m.path] = Merged(d, m)]
  BY <1>2 DEF ReceiveMerge
<1>5. Get(Merged(d, m), d) = Max2(Get(vv[d][m.path], d), Get(m.vec, d))
  BY <1>3, OrNewType, GetMerge, GetOrNew DEF Merged
<1>6. Get(m.vec, d) <= Get(vv[d][m.path], d)
  BY <1>1, <1>2, <1>3 DEF AllBacked, CallsBacked, CallBacked, Backed
<1>7. Get(Merged(d, m), d) = Get(vv[d][m.path], d)
  BY <1>3, <1>5, <1>6, GetType DEF Max2
<1>8. \A x \in Device, q \in Path :
         vv'[x][q] = IF x = d /\ q = m.path THEN Merged(d, m) ELSE vv[x][q]
  BY <1>3, <1>4 DEF TypeOK
<1> QED
  BY <1>4, <1>7, <1>8

LEMMA WithinBoundNext ==
    ASSUME HistoryInv, [Next]_vars, resets' = 0
    PROVE  WithinBound'
<1> USE DEF fileVars, engineVars, netVars, sessionVars, lifeVars, ghostVars
<1>0. TypeOK /\ AllBacked /\ WithinBound
  BY NoReset DEF HistoryInv, KnowledgeBacked
<1>1. ASSUME vv' = vv, ev' = ev PROVE WithinBound'
  BY <1>0, <1>1 DEF WithinBound
<1>2. CASE UNCHANGED vars
  BY <1>1, <1>2 DEF vars
<1>3. ASSUME NEW d \in Device, HandleFileEvent(d) \/ EventSaveFails(d)
      PROVE  WithinBound'
  <2>1. \A x \in Device : x # d => ev'[x] = ev[x] /\ vv'[x] = vv[x]
    BY <1>0, <1>3 DEF HandleFileEvent, EventRead, EventReadFails, Takes,
       EventDeleted, EventBump, EventSave, EventPeers, EventEnqueue,
       EventSaveFails, Fault, TypeOK
  <2>2. ev'[d].pc = "bump" => Get(vv'[d][ev'[d].path], d) < MaxVersion
    <3>1. CASE EventRead(d)
      BY <1>0, <3>1 DEF EventRead, TypeOK
    <3>2. CASE ~ EventRead(d)
      BY <1>0, <1>3, <3>2 DEF HandleFileEvent, EventReadFails, Takes,
         EventDeleted, EventBump, EventSave, EventPeers, EventEnqueue,
         EventSaveFails, Idle, TypeOK
    <3> QED
      BY <3>1, <3>2
  <2> QED
    BY <1>0, <2>1, <2>2 DEF WithinBound
<1>4. ASSUME NEW d \in Device, ReceiveMerge(d) PROVE WithinBound'
  <2>1. \A x \in Device : ev[x].pc = "bump" => ev[x].path \in Path
    BY <1>0, EventLocals
  <2> QED
    BY <1>0, <1>4, <2>1, MergeKeepsOwnCount DEF WithinBound
<1>5. ASSUME NEW d \in Device,
             \/ ProcessQueue(d) \/ BlocksOnGuard(d) \/ Watch(d)
             \/ ReceiveFile(d) /\ ~ ReceiveMerge(d)
      PROVE  WithinBound'
  BY <1>1, <1>5 DEF ProcessQueue, UploadNext, UploadDone, UploadRead,
     UploadReadFails, UploadLook, UploadSend, UploadSendFails, BlocksOnGuard,
     Watch, WatcherReports, WatchFails, DeleteReported, Forward, ReceiveFile,
     ReceiveRejects, ReceiveConflict, ReceiveUndecryptable, ReceiveAccepts,
     ReceiveWrite, ReceiveSave
<1>6. ASSUME NEW d \in Device, Environment(d) /\ ~ EventSaveFails(d)
      PROVE  WithinBound'
  <2>1. ~ DropEngine(d)
    BY NoReset DEF HistoryInv
  <2> QED
    BY <1>1, <1>6, <2>1 DEF Environment, UserChanges, ReceiveWriteFails,
       ReceiveSaveFails, PeerStored, ChannelStored, ChannelCloses, ReceiverLags,
       StopSync, ReplaceEngine, StartSync, Fault
<1> QED
  BY <1>2, <1>3, <1>4, <1>5, <1>6 DEF Next

LEMMA HistoryInvNext == HistoryInv /\ [Next]_vars => HistoryInv'
<1> SUFFICES ASSUME HistoryInv, [Next]_vars PROVE HistoryInv'
  OBVIOUS
<1>1. TypeOK' /\ ClientInv' /\ (resets' = 0 => WithinBound')
  BY TypeNext, ClientNext, WithinBoundNext DEF HistoryInv
<1>2. KnowledgeBacked'
  BY BackedNext DEF HistoryInv
<1> QED
  BY <1>1, <1>2 DEF HistoryInv

-----------------------------------------------------------------------------
(* The refinement.                                                         *)

LEMMA HistoryStarts == Init => \A p \in Path : History(p)!Init
<1> SUFFICES ASSUME Init, NEW p \in Path PROVE History(p)!Init
  OBVIOUS
<1>1. \A d \in Device : vv[d][p] = NoVector
  BY DEF Init
<1>2. KnownTo(NoVector) = {}
  <2>1. \A e \in Device \X (1 .. MaxVersion) : e[1] \in Device /\ e[2] \in Int /\ e[2] > 0
    BY SyncEngineAssumption
  <2>2. \A e \in Device \X (1 .. MaxVersion) : Get(NoVector, e[1]) = 0
    BY <2>1, NoVectorType
  <2> QED
    BY <2>1, <2>2 DEF KnownTo
<1>3. SentVectors(p) = {}
  <2>1. ASSUME NEW v PROVE ~ OnTheWay(p, v)
    BY DEF Init, Idle, OnTheWay, UploadHolds, ChannelHolds, ReceiveHolds
  <2> QED
    BY <2>1, SentIsOnTheWay
<1>4. CopiesOf(SentVectors(p)) = {}
  BY <1>3 DEF CopiesOf
<1>5. History(p)!NoVector = NoVector
  BY DEF NoVector, Unlisted, History!NoVector, History!Unlisted
<1> QED
  BY <1>1, <1>2, <1>4, <1>5 DEF History!Init

PathStep(p) == [History(p)!Next]_(History(p)!vars)

LEMMA NoMapChanged ==
    ASSUME NEW p \in Path, vv' = vv, Relays(p)
    PROVE  PathStep(p)
<1>1. CASE SentVectors(p)' = SentVectors(p)
  BY <1>1, MapsToStutter DEF PathStep
<1>2. ASSUME NEW v \in SentVectors(p), SentVectors(p)' = SentVectors(p) \ {v}
      PROVE  PathStep(p)
  BY <1>2, MapsToLose DEF PathStep, History!Next
<1>3. ASSUME NEW d \in Device, vv[d][p] # NoVector,
             SentVectors(p)' = SentVectors(p) \cup {vv[d][p]}
      PROVE  PathStep(p)
  BY <1>3, MapsToSend DEF PathStep, History!Next
<1> QED
  BY <1>1, <1>2, <1>3 DEF Relays

\* handle_file_event counts a version of its path.
LEMMA BumpIsRecord ==
    ASSUME HistoryInv, WithinBound, NEW p \in Path, NEW d \in Device, EventBump(d)
    PROVE  PathStep(p)
<1>1. PICK q \in Path : q = ev[d].path /\ Get(vv[d][q], d) < MaxVersion
  BY EventLocals DEF EventBump, HistoryInv, WithinBound
<1>2. vv' = [vv EXCEPT ![d][q] = Stepped(d, q)] /\ UNCHANGED <<up, rx, chan>>
  BY <1>1 DEF EventBump, netVars
<1>3. SentVectors(p)' = SentVectors(p)
  BY <1>2 DEF SentVectors
<1>4. CASE q = p
  <2>1. History(p)!RecordEvent(d)
    BY <1>1, <1>2, <1>3, <1>4, MapsToRecord DEF HistoryInv
  <2> QED
    BY <2>1 DEF PathStep, History!Next
<1>5. CASE q # p
  <2>1. \A x \in Device : vv'[x][p] = vv[x][p]
    BY <1>2, <1>5 DEF HistoryInv, TypeOK
  <2> QED
    BY <1>3, <2>1, MapsToStutter DEF PathStep
<1> QED
  BY <1>4, <1>5

\* receive_file merges the copy it accepted; behind the mutex one that does not
\* conflict now.
LEMMA MergeIsMerge ==
    ASSUME HistoryInv, NEW p \in Path, NEW d \in Device, ReceiveMerge(d)
    PROVE  PathStep(p)
<1>0. TypeOK /\ ClientInv
  BY DEF HistoryInv
<1>1. PICK m \in FileMsg : m = rx[d].msg
  BY <1>0, ReceiveLocals DEF ReceiveMerge
<1>2. m.path \in Path /\ m.vec \in Vector
  BY DEF FileMsg
<1>3. /\ vv' = [vv EXCEPT ![d][m.path] = Merged(d, m)]
      /\ UNCHANGED <<up, chan>>
      /\ rx[d].pc = "merge" /\ rx'[d].pc = "save"
      /\ \A x \in Device : x # d => rx'[x] = rx[x]
  BY <1>0, <1>1 DEF ReceiveMerge, TypeOK, netVars
<1>4. \A v : /\ ReceiveHolds(d, p, v) <=> m.path = p /\ m.vec = v
             /\ ~ ReceiveHolds(d, p, v)'
  BY <1>1, <1>3 DEF ReceiveHolds
<1>5. ASSUME NEW v
      PROVE  /\ OnTheWay(p, v)' => OnTheWay(p, v)
             /\ OnTheWay(p, v) => OnTheWay(p, v)' \/ (m.path = p /\ m.vec = v)
  <2>1. \A x \in Device : UploadHolds(x, p, v)' <=> UploadHolds(x, p, v)
    BY <1>3 DEF UploadHolds
  <2>2. \A x, y \in Device : ChannelHolds(x, y, p, v)' <=> ChannelHolds(x, y, p, v)
    BY <1>3 DEF ChannelHolds
  <2>3. ASSUME NEW x \in Device
        PROVE  /\ ReceiveHolds(x, p, v)' => ReceiveHolds(x, p, v)
               /\ ReceiveHolds(x, p, v) =>
                    ReceiveHolds(x, p, v)' \/ (m.path = p /\ m.vec = v)
    BY <1>1, <1>3 DEF ReceiveHolds
  <2>4. ASSUME OnTheWay(p, v)' PROVE OnTheWay(p, v)
    BY <2>1, <2>2, <2>3, <2>4 DEF OnTheWay
  <2>5. ASSUME OnTheWay(p, v)
        PROVE  OnTheWay(p, v)' \/ (m.path = p /\ m.vec = v)
    BY <2>1, <2>2, <2>3, <2>5 DEF OnTheWay
  <2> QED
    BY <2>4, <2>5
<1>6. CASE m.path # p
  <2>1. SentVectors(p)' = SentVectors(p)
    BY <1>5, <1>6, SameCopies
  <2>2. \A x \in Device : vv'[x][p] = vv[x][p]
    BY <1>0, <1>2, <1>3, <1>6 DEF TypeOK
  <2> QED
    BY <2>1, <2>2, MapsToStutter DEF PathStep
<1>7. CASE m.path = p
  <2>1. m.vec \in SentVectors(p)
    BY <1>4, <1>7, SentIsOnTheWay DEF OnTheWay
  <2>2. \/ SentVectors(p)' = SentVectors(p)
        \/ SentVectors(p)' = SentVectors(p) \ {m.vec}
    <3>1. \A v : /\ OnTheWay(p, v)' => OnTheWay(p, v)
                 /\ OnTheWay(p, v) => OnTheWay(p, v)' \/ v = m.vec
      BY <1>5
    <3> QED
      BY <3>1, OneCopyLess
  <2>3. Serialised => vv[d][p] = NoVector \/ ~ IsConflicting(vv[d][p], m.vec)
    BY <1>0, <1>1, <1>3, <1>7 DEF ClientInv, Conflicts
  <2>4. vv' = [vv EXCEPT ![d][p] = Merge(OrNew(vv[d][p], d), m.vec)]
    BY <1>3, <1>7 DEF Merged
  <2>5. /\ CopyOf(m.vec) \in CopiesOf(SentVectors(p))
        /\ History(p)!MergeCopy(d, CopyOf(m.vec))
    BY <1>0, <1>2, <2>1, <2>2, <2>3, <2>4, MapsToMerge
  <2> QED
    BY <2>5 DEF PathStep, History!Next
<1> QED
  BY <1>6, <1>7

LEMMA StepIsHistoryStep ==
    ASSUME HistoryInv, [Next]_vars, resets' = 0, NEW p \in Path
    PROVE  PathStep(p)
<1> USE DEF fileVars, engineVars, netVars, sessionVars, lifeVars, ghostVars
<1>0. TypeOK /\ WithinBound
  BY NoReset DEF HistoryInv
<1>1. ASSUME UNCHANGED <<vv, up, rx, chan>> PROVE PathStep(p)
  <2>1. SentVectors(p)' = SentVectors(p)
    BY <1>1 DEF SentVectors
  <2> QED
    BY <1>1, <2>1, MapsToStutter DEF PathStep
<1>2. CASE UNCHANGED vars
  BY <1>1, <1>2 DEF vars
<1>3. ASSUME NEW d \in Device,
             \/ HandleFileEvent(d) /\ ~ EventBump(d)
             \/ EventSaveFails(d) \/ BlocksOnGuard(d) \/ Watch(d)
      PROVE  PathStep(p)
  BY <1>1, <1>3 DEF HandleFileEvent, EventRead, EventReadFails, Takes,
     EventDeleted, EventSave, EventPeers, EventEnqueue, EventSaveFails, Fault,
     BlocksOnGuard, Watch, WatcherReports, WatchFails, DeleteReported, Forward
<1>4. ASSUME NEW d \in Device,
             \/ ProcessQueue(d)
             \/ ReceiveFile(d) /\ ~ ReceiveMerge(d)
             \/ ReceiveWriteFails(d) \/ ReceiveSaveFails(d)
             \/ \E e \in Device : ReceiverLags(d, e)
      PROVE  PathStep(p)
  BY <1>0, <1>4, UploadsRelay, ReceivesRelay, NoMapChanged
<1>5. ASSUME NEW d \in Device,
             \/ \E q \in Path : UserChanges(d, q)
             \/ \E e \in Device : \/ PeerStored(d, e) \/ ChannelStored(d, e)
                                \/ ChannelCloses(d, e)
             \/ StopSync(d) \/ ReplaceEngine(d) \/ StartSync(d)
      PROVE  PathStep(p)
  <2>1. ~ DropEngine(d)
    BY NoReset DEF HistoryInv
  <2> QED
    BY <1>1, <1>5, <2>1 DEF UserChanges, PeerStored, ChannelStored,
       ChannelCloses, StopSync, ReplaceEngine, StartSync, Fault
<1> QED
  BY <1>0, <1>2, <1>3, <1>4, <1>5, BumpIsRecord, MergeIsMerge DEF Next, Environment

\* Until an engine is dropped, every step of the engines is, for every path, a
\* step of the protocol on vectors or none: what VersionHistory promises, the
\* calls of core/src/sync/mod.rs keep across all their awaits.
THEOREM EngineImplementsHistory == Spec => ImplementsHistory
<1>1. Spec => []HistoryInv
  BY HistoryInvInit, HistoryInvNext, PTL DEF Spec
<1>2. HistoryInv /\ [Next]_vars => [resets' = 0 => \A p \in Path : PathStep(p)]_vars
  BY StepIsHistoryStep
<1>3. Spec => [][resets' = 0 => \A p \in Path : PathStep(p)]_vars
  BY <1>1, <1>2, PTL DEF Spec
<1>4. Spec => \A p \in Path : History(p)!Init
  BY HistoryStarts DEF Spec
<1> QED
  BY <1>3, <1>4 DEF ImplementsHistory, PathStep
=============================================================================
