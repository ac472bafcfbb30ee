------------------------- MODULE SyncEngineHistory -------------------------
(***************************************************************************)
(* SyncEngine implements VersionHistory, path by path.                     *)
(*                                                                         *)
(* The vectors in memory are the replicas, and the vectors a send, a       *)
(* channel or an accepted message holds are the copies on their way.  The  *)
(* events a vector was made from are not kept by the program; they are     *)
(* those the vector knows, which is what HistoryExact says of every state  *)
(* of the abstract specification.                                          *)
(***************************************************************************)
EXTENDS SyncEngine

\* The vectors of p in the messages of the channels c.
VectorsIn(c, p) ==
    {m.vec : m \in {x \in UNION {Range(c[d][e]) : d, e \in Device} :
                     x.kind = "metadata" /\ x.path = p}}

\* The vectors of p on their way between engines.
SentVectors(p) ==
    {up[d].msg.vec : d \in {x \in Device :
        up[x].pc = "send" /\ up[x].msg.kind = "metadata" /\ up[x].msg.path = p}}
    \cup VectorsIn(chan, p)
    \cup {rx[d].msg.vec : d \in {x \in Device :
        rx[x].pc \in {"write", "merge"} /\ rx[x].msg.path = p}}

KnownTo(v) == {e \in Device \X (1 .. MaxVersion) : e[2] <= Get(v, e[1])}

\* Vectors as the copies the abstract specification sends.
CopiesOf(V) == {[vec |-> v, hist |-> KnownTo(v)] : v \in V}

History(p) ==
    INSTANCE VersionHistory WITH
        CheckedMerge <- Serialised,
        vec <- [d \in Device |-> vv[d][p]],
        hist <- [d \in Device |-> KnownTo(vv[d][p])],
        sent <- CopiesOf(SentVectors(p))

\* Whatever the awaits, failures and channels do, an engine counts a version,
\* sends the vector it holds, or merges one that is on its way to it; behind
\* the client's mutex only one that does not conflict at that moment.  Until an
\* engine is dropped and counts from one again, this is
\* \A p \in Path : History(p)!Spec, spelled out for TLC.
ImplementsHistory ==
    /\ \A p \in Path : History(p)!Init
    /\ [][resets' = 0 => \A p \in Path : [History(p)!Next]_(History(p)!vars)]_vars
=============================================================================
