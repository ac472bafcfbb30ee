--------------------------- MODULE VersionVector ---------------------------
(***************************************************************************)
(* The version vectors of core/src/sync/version_vector.rs.                 *)
(*                                                                         *)
(* A vector is a map from device ids to counters in which a device may be  *)
(* missing.  A missing entry and an entry 0 read the same (get) and are    *)
(* different maps (PartialEq on the HashMap), and the code tells them      *)
(* apart, so a missing entry is kept as Unlisted, a number below every     *)
(* counter.  The wall-clock `timestamp` takes part in no comparison and is *)
(* left out, and so is the JSON round trip, which preserves the map.       *)
(* Counters are naturals: a u64 stepped by one per event does not wrap.    *)
(***************************************************************************)
EXTENDS Integers

CONSTANT Device

Unlisted == -1

Vector == [Device -> Nat \cup {Unlisted}]

\* The empty map: HashMap::get(path) is None, no vector was made yet.
NoVector == [x \in Device |-> Unlisted]

Max2(a, b) == IF a >= b THEN a ELSE b

\* VersionVector::new: the creating device is listed, with counter 0.
New(d) == [x \in Device |-> IF x = d THEN 0 ELSE Unlisted]

\* Mutant: a lookup that does not turn a missing entry into 0.
RawGet(v, d) == v[d]

\* VersionVector::get: a device that is not listed counts 0.
Get(v, d) == Max2(v[d], 0)

\* VersionVector::increment.
Increment(v, d) == [v EXCEPT ![d] = Get(v, d) + 1]

\* Mutants: the counts are added up; the incoming entries replace the own ones,
\* as HashMap::extend would.
AddUp(v, w) == [x \in Device |-> Get(v, x) + Get(w, x)]
Overwrite(v, w) == [x \in Device |-> IF w[x] = Unlisted THEN v[x] ELSE w[x]]

\* VersionVector::merge: entrywise maximum; lists every device of either.
Merge(v, w) == [x \in Device |-> Max2(v[x], w[x])]

\* Mutant: the first loop is missing.
SomeEntryNewer(v, w) == \E x \in Device : Get(w, x) < v[x]

\* VersionVector::is_newer_than.  Each loop runs over the listed entries; an
\* Unlisted one is below every count, so it fails neither test.
IsNewerThan(v, w) ==
    /\ \A x \in Device : Get(v, x) >= w[x]
    /\ \E x \in Device : Get(w, x) < v[x]

\* Mutant: only one direction is compared.
NotNewerThan(v, w) == ~ IsNewerThan(v, w) /\ v # w

\* VersionVector::is_conflicting; the last conjunct compares the two maps,
\* listed zeros included.
IsConflicting(v, w) ==
    /\ ~ IsNewerThan(v, w)
    /\ ~ IsNewerThan(w, v)
    /\ v # w

\* HashMap::entry(path).or_insert_with(|| VersionVector::new(d)).
OrNew(v, d) == IF v = NoVector THEN New(d) ELSE v

-----------------------------------------------------------------------------

\* The order the vectors stand for: w knows everything v knows.
Leq(v, w) == \A x \in Device : Get(v, x) <= Get(w, x)
=============================================================================
