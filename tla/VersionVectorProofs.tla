------------------------ MODULE VersionVectorProofs ------------------------
(* What the operators of version_vector.rs guarantee for every vector. *)
EXTENDS VersionVector, TLAPS

\* Every operation returns a vector, and a lookup a count.
LEMMA GetType ==
    ASSUME NEW v \in Vector, NEW d \in Device
    PROVE  Get(v, d) \in Nat
  BY DEF Vector, Get, Max2, Unlisted

LEMMA OrNewType ==
    ASSUME NEW v \in Vector, NEW d \in Device
    PROVE  OrNew(v, d) \in Vector
  BY DEF Vector, New, OrNew, Unlisted

LEMMA IncrementType ==
    ASSUME NEW v \in Vector, NEW d \in Device
    PROVE  Increment(v, d) \in Vector
  BY DEF Vector, Increment, Get, Max2, Unlisted

LEMMA MergeType ==
    ASSUME NEW v \in Vector, NEW w \in Vector
    PROVE  Merge(v, w) \in Vector
  BY DEF Vector, Merge, Max2, Unlisted

\* The vector that is not there counts nothing.
LEMMA NoVectorType ==
    /\ NoVector \in Vector
    /\ \A x \in Device : Get(NoVector, x) = 0
  BY DEF Vector, NoVector, Get, Max2, Unlisted

\* Making the vector of a path that has none changes no count.
LEMMA GetOrNew ==
    ASSUME NEW v \in Vector, NEW d \in Device, NEW x \in Device
    PROVE  Get(OrNew(v, d), x) = Get(v, x)
  BY DEF Vector, NoVector, New, OrNew, Get, Max2, Unlisted

\* increment steps one count by one and leaves the others.
LEMMA GetIncrement ==
    ASSUME NEW v \in Vector, NEW d \in Device, NEW x \in Device
    PROVE  Get(Increment(v, d), x) = IF x = d THEN Get(v, d) + 1 ELSE Get(v, x)
  BY DEF Vector, Increment, Get, Max2, Unlisted

\* merge counts what either side counts.
LEMMA GetMerge ==
    ASSUME NEW v \in Vector, NEW w \in Vector, NEW x \in Device
    PROVE  Get(Merge(v, w), x) = Max2(Get(v, x), Get(w, x))
  BY DEF Vector, Merge, Get, Max2, Unlisted

\* A vector that was incremented is listed.
LEMMA IncrementListed ==
    ASSUME NEW v \in Vector, NEW d \in Device
    PROVE  Increment(v, d) # NoVector
  BY DEF Vector, Increment, NoVector, Get, Max2, Unlisted

\* The order on counts is transitive.
LEMMA LeqTransitive ==
    ASSUME NEW u \in Vector, NEW v \in Vector, NEW w \in Vector,
           Leq(u, v), Leq(v, w)
    PROVE  Leq(u, w)
<1> SUFFICES ASSUME NEW x \in Device PROVE Get(u, x) <= Get(w, x)
  BY DEF Leq
<1>1. Get(u, x) <= Get(v, x) /\ Get(v, x) <= Get(w, x)
  BY DEF Leq
<1> QED
  BY <1>1, GetType

\* is_newer_than is the strict part of the order on counts: listing a device
\* with 0 makes no difference to it.
THEOREM NewerIsStrictlyMore ==
    ASSUME NEW v \in Vector, NEW w \in Vector
    PROVE  IsNewerThan(v, w) <=> Leq(w, v) /\ ~ Leq(v, w)
<1>1. \A x \in Device : Get(v, x) >= w[x] <=> Get(w, x) <= Get(v, x)
  BY DEF Vector, Get, Max2, Unlisted
<1>2. \A x \in Device : Get(w, x) < v[x] <=> ~ (Get(v, x) <= Get(w, x))
  BY DEF Vector, Get, Max2, Unlisted
<1> QED
  BY <1>1, <1>2 DEF IsNewerThan, Leq

\* is_newer_than is a strict order: no copy is newer than itself, two copies
\* are not newer than each other, and being newer carries over a third one.
THEOREM NewerIsStrictOrder ==
    ASSUME NEW u \in Vector, NEW v \in Vector, NEW w \in Vector
    PROVE  /\ ~ IsNewerThan(v, v)
           /\ IsNewerThan(u, v) => ~ IsNewerThan(v, u)
           /\ IsNewerThan(u, v) /\ IsNewerThan(v, w) => IsNewerThan(u, w)
<1>1. Leq(w, v) /\ Leq(v, u) => Leq(w, u)
  BY LeqTransitive
<1>2. Leq(u, w) /\ Leq(w, v) => Leq(u, v)
  BY LeqTransitive
<1> QED
  BY <1>1, <1>2, NewerIsStrictlyMore

\* is_conflicting reports every pair neither of which covers the other, and
\* beyond those only pairs of equal counts that list different devices.
THEOREM ConflictIsConcurrency ==
    ASSUME NEW v \in Vector, NEW w \in Vector
    PROVE  /\ ~ Leq(v, w) /\ ~ Leq(w, v) => IsConflicting(v, w)
           /\ IsConflicting(v, w) <=>
                 \/ ~ Leq(v, w) /\ ~ Leq(w, v)
                 \/ Leq(v, w) /\ Leq(w, v) /\ v # w
           /\ IsConflicting(v, w) <=> IsConflicting(w, v)
<1>1. Leq(v, v)
  BY DEF Leq, Vector, Get, Max2, Unlisted
<1> QED
  BY <1>1, NewerIsStrictlyMore DEF IsConflicting

\* A merge is the least vector above both copies, the same map whichever of
\* them takes the other in, listed zeros included, and changes nothing where
\* the copies are the same.
THEOREM MergeIsJoin ==
    ASSUME NEW u \in Vector, NEW v \in Vector, NEW w \in Vector
    PROVE  /\ Leq(v, Merge(v, w))
           /\ Leq(w, Merge(v, w))
           /\ Leq(v, u) /\ Leq(w, u) => Leq(Merge(v, w), u)
           /\ Merge(v, w) = Merge(w, v)
           /\ Merge(v, v) = v
<1>1. ASSUME NEW x \in Device
      PROVE  /\ Get(v, x) <= Get(Merge(v, w), x)
             /\ Get(w, x) <= Get(Merge(v, w), x)
             /\ Get(v, x) <= Get(u, x) /\ Get(w, x) <= Get(u, x) =>
                   Get(Merge(v, w), x) <= Get(u, x)
  BY GetMerge, GetType DEF Max2
<1>2. Merge(v, w) = Merge(w, v)
  BY DEF Merge, Max2, Vector, Unlisted
<1>3. Merge(v, v) = v
  BY DEF Merge, Max2, Vector
<1> QED
  BY <1>1, <1>2, <1>3 DEF Leq
=============================================================================
