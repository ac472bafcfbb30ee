--------------------------- MODULE VersionHistory ---------------------------
(***************************************************************************)
(* What version vectors are for: one file kept by several devices, each    *)
(* with its vector, next to the history the vector stands for.             *)
(*                                                                         *)
(* Every increment is an event <<device, n>>.  A replica's history is the  *)
(* set of events its vector was made from, kept in ghost state beside the  *)
(* vector and carried by the messages; the operators of version_vector.rs  *)
(* can then be compared with set inclusion between histories, which is     *)
(* what "concurrent" and "newer" mean.                                     *)
(*                                                                         *)
(* The protocol is the use SyncEngine makes of the vectors, without the    *)
(* files: handle_file_event increments, process_queue sends a copy,        *)
(* receive_file merges one.  A copy on its way may be delivered late,      *)
(* twice or never.  This is the abstract specification the sync engine     *)
(* implements for each of its paths (SyncEngineHistory).                   *)
(***************************************************************************)
EXTENDS VersionVector

CONSTANTS
    CheckedMerge,   \* no copy is merged that conflicts at that moment
    MaxVersion      \* bound: events per device

ASSUME BoundsAssumption == CheckedMerge \in BOOLEAN /\ MaxVersion \in Nat

VARIABLES
    vec,      \* vec[d]: the vector device d keeps for the file
    hist,     \* hist[d]: ghost, the events vec[d] was made from
    sent      \* the copies on their way: [vec, hist]

vars == <<vec, hist, sent>>

Event == Device \X (1 .. MaxVersion)

Init ==
    /\ vec = [d \in Device |-> NoVector]
    /\ hist = [d \in Device |-> {}]
    /\ sent = {}

\* handle_file_event, the block under the write lock.
RecordEvent(d) ==
    /\ Get(vec[d], d) < MaxVersion
    /\ vec' = [vec EXCEPT ![d] = Increment(OrNew(vec[d], d), d)]
    /\ hist' = [hist EXCEPT ![d] = @ \cup {<<d, Get(vec[d], d) + 1>>}]
    /\ UNCHANGED sent

\* process_queue, the copy it reads and sends; a path without vector is skipped.
SendCopy(d) ==
    /\ vec[d] # NoVector
    /\ sent' = sent \cup {[vec |-> vec[d], hist |-> hist[d]]}
    /\ UNCHANGED <<vec, hist>>

\* receive_file: any copy, an older one included, is merged; it may be on its
\* way once more.
MergeCopy(d, m) ==
    /\ m \in sent
    /\ CheckedMerge => vec[d] = NoVector \/ ~ IsConflicting(vec[d], m.vec)
    /\ vec' = [vec EXCEPT ![d] = Merge(OrNew(vec[d], d), m.vec)]
    /\ hist' = [hist EXCEPT ![d] = @ \cup m.hist]
    /\ sent' \in {sent, sent \ {m}}

\* A conflict, or a failure of the sender, the channel or the receiver.
LoseCopy(m) ==
    /\ m \in sent
    /\ sent' = sent \ {m}
    /\ UNCHANGED <<vec, hist>>

Next ==
    \/ \E d \in Device : RecordEvent(d) \/ SendCopy(d)
    \/ \E m \in sent : LoseCopy(m) \/ \E d \in Device : MergeCopy(d, m)

Spec == Init /\ [][Next]_vars

-----------------------------------------------------------------------------

Copy == [vec : Vector, hist : SUBSET Event]

TypeOK ==
    /\ vec \in [Device -> Vector]
    /\ hist \in [Device -> SUBSET Event]
    /\ sent \subseteq Copy

\* Every copy there is: the replicas' own and the ones sent.
Copies == {[vec |-> vec[d], hist |-> hist[d]] : d \in Device} \cup sent

\* The history a vector stands for: the first Get(v, x) events of every x.
Known(v) == {e \in Event : e[2] <= Get(v, e[1])}

Exact(c) ==
    /\ c.hist = Known(c.vec)
    /\ \A d \in Device : Get(c.vec, d) <= MaxVersion

\* Vectors and histories never drift apart, on a replica or in a message.
\* (increment numbers the events without gaps, merge loses and invents none.)
HistoryExact == \A c \in Copies : Exact(c)

\* is_newer_than says yes exactly when the other history is a proper part.
\* (Comparisons of any two copies, each possibly listing zeros.)
NewerMeansMoreHistory ==
    \A a, b \in Copies :
        IsNewerThan(a.vec, b.vec) <=> (b.hist \subseteq a.hist /\ b.hist # a.hist)

Concurrent(a, b) == ~ (a.hist \subseteq b.hist) /\ ~ (b.hist \subseteq a.hist)

\* No concurrent modification escapes is_conflicting, and what it reports
\* beyond those are copies of one history that list different devices.
ConcurrentDetected ==
    \A a, b \in Copies :
        /\ Concurrent(a, b) => IsConflicting(a.vec, b.vec)
        /\ IsConflicting(a.vec, b.vec) => Concurrent(a, b) \/ a.hist = b.hist

\* A replica never forgets an event, and gains only its own next event or
\* events of one copy that was sent (merge of an older copy changes nothing).
HistoryGrows ==
    [][\A d \in Device :
        /\ hist[d] \subseteq hist'[d]
        /\ Leq(vec[d], vec'[d])
        /\ (\E x \in Device : Get(vec'[d], x) # Get(vec[d], x)) =>
              \/ hist'[d] = hist[d] \cup {<<d, Get(vec[d], d) + 1>>}
              \/ \E m \in sent : hist'[d] = hist[d] \cup m.hist]_vars
=============================================================================
