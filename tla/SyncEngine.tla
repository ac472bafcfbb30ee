----------------------------- MODULE SyncEngine -----------------------------
(***************************************************************************)
(* The sync engines (core/src/sync/mod.rs, queue.rs, watcher.rs) of a set  *)
(* of devices, the files they keep and the data channels between them.     *)
(*                                                                         *)
(* On each device three loops of the embedding program drive the engine:   *)
(* one hands it the watcher's events (handle_file_event), one empties its  *)
(* queue (process_queue), one gives it the messages that arrive            *)
(* (receive_file).  The loops are external: nothing under src/ runs them   *)
(* yet.  Every await of a call separates two actions; a stretch without    *)
(* await is one action.  Where the loop stands in its call is the record   *)
(* ev[d], up[d] or rx[d]: its pc and the locals still needed.              *)
(*                                                                         *)
(* Serialised = TRUE is the Tauri client, whose engine is reachable only   *)
(* through `sync_engine: Mutex<Option<SyncEngine>>`: the guard is held for *)
(* the whole call.  FALSE is a program that shares the engine (its methods *)
(* take &self) and lets calls overlap.                                     *)
(*                                                                         *)
(* Contents are numbers: the n-th edit of a user writes n, and a missing   *)
(* file is 0.  A hash stands for its content.  fs::write is one step,      *)
(* unless it fails half-way.                                               *)
(***************************************************************************)
EXTENDS VersionVector, SequencesExt

CONSTANTS
    Path,
    Editors,          \* the devices whose users edit files
    Joined,           \* the devices that start with a channel to every other
    Password,         \* passwords an engine is started with
    Serialised,       \* calls on one engine exclude each other
    SharedThread,     \* the three loops of a device run on one thread
    ReportsDeletes,   \* a removal is raised as FileEvent::Deleted
    EventCap,         \* capacity of the watcher's tokio channel
    MaxEdits,         \* bound: edits and removals by users
    MaxVersion,       \* bound: versions a device gives one path
    MaxFaults,        \* bound: failures of disk, store and network
    MaxResets         \* bound: engines dropped

ASSUME SyncEngineAssumption ==
    /\ IsFiniteSet(Device)
    /\ Editors \subseteq Device /\ Joined \subseteq Device
    /\ {Serialised, SharedThread, ReportsDeletes} \subseteq BOOLEAN
    /\ {EventCap, MaxEdits, MaxVersion, MaxFaults, MaxResets} \subseteq Nat

VARIABLES
    disk,       \* disk[d][p]: content of the file, Missing if there is none
    dirty,      \* dirty[d]: paths changed since the debouncer last reported
    missed,     \* ghost, missed[d]: paths whose last event a failure took before
                \* the file was read
    evq,        \* evq[d]: file events waiting for handle_file_event
    vv,         \* vv[d][p]: version_vectors, NoVector where the map has no key
    meta,       \* meta[d][p]: the row of file_metadata
    queue,      \* queue[d]: SyncQueue
    ev, up, rx, \* the handle_file_event, process_queue and receive_file calls
    chan,       \* chan[d][e]: messages on their way from d to e
    link,       \* link[d][e]: what d's TransportLayer holds for e
    running,    \* running[d]: the client's sync_engine is Some
    key,        \* key[d]: the password behind the engine's root_key
    blocked,    \* blocked[d]: the engine's thread waits on itself
    edits, faults, resets,   \* counters of the bounds
    owed,       \* ghost: own version d last queued for e
    dropped     \* ghost: <<d, e, p>> when an error path gave up a version
                \* d made of p before it reached e's map (e = d: d's own row)

fileVars == <<disk, dirty, missed, evq, edits>>
engineVars == <<vv, meta, queue>>
netVars == <<chan, link>>
sessionVars == <<running, key, blocked, resets>>
lifeVars == <<sessionVars, faults>>
ghostVars == <<owed, dropped>>
vars == <<fileVars, engineVars, ev, up, rx, netVars, lifeVars, ghostVars>>

Missing == 0

\* What a write leaves that fails after it truncated the file.
Torn == MaxEdits + 1
NoMeta == [hash |-> Missing, vec |-> NoVector]
Idle == [pc |-> "idle"]

Task == [kind : {"upload", "delete"}, to : Device, path : Path]
FileMsg == [kind : {"metadata"}, path : Path, content : Nat, vec : Vector,
            key : Password]
DeleteMsg == [kind : {"delete"}, path : Path]
Message == FileMsg \cup DeleteMsg
FileEvent == [kind : {"modified", "deleted"}, path : Path]

\* What a call still needs, at each of its awaits.
EventCall ==
    [pc : {"idle"}]
    \cup [pc : {"bump"}, path : Path, content : Nat]
    \cup [pc : {"save"}, path : Path, content : Nat, vec : Vector]
    \cup [pc : {"peers"}, kind : {"upload", "delete"}, path : Path]
    \cup [pc : {"enqueue"}, kind : {"upload", "delete"}, path : Path,
          to : SUBSET Device]

UploadCall ==
    [pc : {"idle", "next"}]
    \cup [pc : {"read"}, to : Device, path : Path]
    \cup [pc : {"look"}, to : Device, path : Path, content : Nat]
    \cup [pc : {"send"}, to : Device, msg : Message]

ReceiveCall ==
    [pc : {"idle"}]
    \cup [pc : {"write", "merge"}, from : Device, msg : FileMsg]
    \cup [pc : {"save"}, path : Path, content : Nat, vec : Vector]

-----------------------------------------------------------------------------

Peers(d) == {e \in Device : link[d][e] # "none"}

\* receive_file keeps the write guard of version_vectors over save_file_meta.
Locked(d) == rx[d].pc = "save"

AllIdle(d) == ev[d] = Idle /\ up[d] = Idle /\ rx[d] = Idle

\* Mutant: no mutex around the engine.
Unguarded(d) == running[d] /\ ~ blocked[d]

\* A loop may enter a call: there is an engine, and its mutex is free.
CanCall(d) ==
    /\ running[d]
    /\ ~ blocked[d]
    /\ Serialised => AllIdle(d)

\* One of the failures the environment is allowed.
Fault == faults < MaxFaults /\ faults' = faults + 1 /\ UNCHANGED sessionVars

GivenUp(d, p) == {<<d, e, p>> : e \in Device}

Init ==
    /\ disk = [d \in Device |-> [p \in Path |-> Missing]]
    /\ dirty = [d \in Device |-> {}]
    /\ missed = [d \in Device |-> {}]
    /\ evq = [d \in Device |-> <<>>]
    /\ edits = 0
    /\ vv = [d \in Device |-> [p \in Path |-> NoVector]]
    /\ meta = [d \in Device |-> [p \in Path |-> NoMeta]]
    /\ queue = [d \in Device |-> <<>>]
    /\ ev = [d \in Device |-> Idle]
    /\ up = [d \in Device |-> Idle]
    /\ rx = [d \in Device |-> Idle]
    /\ chan = [d \in Device |-> [e \in Device |-> <<>>]]
    /\ link = [d \in Device |-> [e \in Device |->
                 IF d \in Joined /\ e # d THEN "open" ELSE "none"]]
    /\ running = [d \in Device |-> TRUE]
    /\ key \in [Device -> Password]
    /\ blocked = [d \in Device |-> FALSE]
    /\ faults = 0
    /\ resets = 0
    /\ owed = [d \in Device |-> [e \in Device |-> [p \in Path |-> 0]]]
    /\ dropped = {}

-----------------------------------------------------------------------------
(* The user and the watcher. *)

\* The user writes a new content or removes the file.
UserChanges(d, p) ==
    /\ d \in Editors
    /\ edits < MaxEdits /\ edits' = edits + 1
    /\ \E content \in {edits + 1, Missing} \ {disk[d][p]} :
          disk' = [disk EXCEPT ![d][p] = content]
    /\ dirty' = [dirty EXCEPT ![d] = @ \cup {p}]
    /\ UNCHANGED <<missed, evq, engineVars, ev, up, rx, netVars, lifeVars,
                   ghostVars>>

\* Mutant: try_send, which loses the event when the channel is full.
TrySend(d, kind, p) ==
    /\ p \in dirty[d]
    /\ dirty' = [dirty EXCEPT ![d] = @ \ {p}]
    /\ evq' = IF Len(evq[d]) < EventCap
              THEN [evq EXCEPT ![d] = Append(@, [kind |-> kind, path |-> p])]
              ELSE evq
    /\ UNCHANGED <<disk, missed, edits, engineVars, ev, up, rx, netVars, lifeVars,
                   ghostVars>>

\* The debouncer hands on one event per path and window; the send waits
\* while the channel is full.
Forward(d, kind, p) ==
    /\ p \in dirty[d]
    /\ Len(evq[d]) < EventCap
    /\ dirty' = [dirty EXCEPT ![d] = @ \ {p}]
    /\ evq' = [evq EXCEPT ![d] = Append(@, [kind |-> kind, path |-> p])]
    /\ UNCHANGED <<disk, missed, edits, engineVars, ev, up, rx, netVars, lifeVars,
                   ghostVars>>

\* Every kind of change becomes Modified.
WatcherReports(d, p) == Forward(d, "modified", p)

\* The debouncer reports an error instead: `if let Ok(events)` passes over it.
WatchFails(d, p) ==
    /\ p \in dirty[d]
    /\ Fault
    /\ dirty' = [dirty EXCEPT ![d] = @ \ {p}]
    /\ missed' = [missed EXCEPT ![d] = @ \cup {p}]
    /\ UNCHANGED <<disk, evq, edits, engineVars, ev, up, rx, netVars, ghostVars>>

\* A caller that recognises removals itself and uses the Deleted variant.
DeleteReported(d, p) ==
    /\ ReportsDeletes
    /\ disk[d][p] = Missing
    /\ Forward(d, "deleted", p)

-----------------------------------------------------------------------------
(* handle_file_event *)

\* The call is entered with the next event, which is gone from the queue
\* whatever becomes of the call.
Takes(d, kind) ==
    /\ ev[d] = Idle /\ CanCall(d)
    /\ evq[d] # <<>> /\ Head(evq[d]).kind = kind
    /\ evq' = [evq EXCEPT ![d] = Tail(@)]

\* Created or Modified: the file is read.
EventRead(d) ==
    /\ Takes(d, "modified")
    /\ LET p == Head(evq[d]).path IN
         /\ Get(vv[d][p], d) < MaxVersion
         /\ disk[d][p] # Missing
         /\ ev' = [ev EXCEPT ![d] = [pc |-> "bump", path |-> p,
                                     content |-> disk[d][p]]]
         /\ missed' = [missed EXCEPT ![d] = @ \ {p}]
    /\ UNCHANGED <<disk, dirty, edits, engineVars, up, rx, netVars, lifeVars,
                   ghostVars>>

\* fs::read fails, as it must on a file that is gone: the call returns Err.
EventReadFails(d) ==
    /\ Takes(d, "modified")
    /\ LET p == Head(evq[d]).path IN
         \/ disk[d][p] = Missing /\ UNCHANGED <<lifeVars, missed>>
         \/ /\ disk[d][p] # Missing /\ Fault
            /\ missed' = [missed EXCEPT ![d] = @ \cup {p}]
    /\ UNCHANGED <<disk, dirty, edits, engineVars, ev, up, rx, netVars, ghostVars>>

\* Deleted: neither the vector nor the row of the path is touched.
EventDeleted(d) ==
    /\ Takes(d, "deleted")
    /\ ev' = [ev EXCEPT ![d] = [pc |-> "peers", kind |-> "delete",
                                path |-> Head(evq[d]).path]]
    /\ UNCHANGED <<disk, dirty, missed, edits, engineVars, up, rx, netVars, lifeVars,
                   ghostVars>>

\* Mutant: a copy is made, but the vector in the map is not stepped.
Unstepped(d, p) == vv[d][p]

\* The block under the write lock: the device's own counter steps.
Stepped(d, p) == Increment(OrNew(vv[d][p], d), d)

EventBump(d) ==
    /\ ev[d].pc = "bump" /\ ~ blocked[d] /\ ~ Locked(d)
    /\ LET p == ev[d].path
           v == Stepped(d, p)
       IN /\ vv' = [vv EXCEPT ![d][p] = v]
          /\ ev' = [ev EXCEPT ![d] = [pc |-> "save", path |-> p,
                                      content |-> ev[d].content, vec |-> v]]
    /\ UNCHANGED <<fileVars, meta, queue, up, rx, netVars, lifeVars, ghostVars>>

\* StorageEngine::save_file_meta: the row of the path is inserted or replaced.
SaveFileMeta(d, p, h, v) ==
    meta' = [meta EXCEPT ![d][p] = [hash |-> h, vec |-> v]]

\* save_file_meta with the copy of the vector made under the lock.
EventSave(d) ==
    /\ ev[d].pc = "save" /\ ~ blocked[d]
    /\ LET p == ev[d].path IN
         /\ SaveFileMeta(d, p, ev[d].content, ev[d].vec)
         /\ ev' = [ev EXCEPT ![d] = [pc |-> "peers", kind |-> "upload",
                                     path |-> p]]
         /\ dropped' = dropped \ {<<d, d, p>>}
    /\ UNCHANGED <<fileVars, vv, queue, up, rx, netVars, lifeVars, owed>>

\* The store fails: the call returns Err, the counter stays stepped.
EventSaveFails(d) ==
    /\ ev[d].pc = "save" /\ ~ blocked[d]
    /\ Fault
    /\ dropped' = dropped \cup GivenUp(d, ev[d].path)
    /\ ev' = [ev EXCEPT ![d] = Idle]
    /\ UNCHANGED <<fileVars, engineVars, up, rx, netVars, owed>>

\* connected_peers: the keys of `peers` at this moment.
EventPeers(d) ==
    /\ ev[d].pc = "peers" /\ ~ blocked[d]
    /\ ev' = [ev EXCEPT ![d] = [pc |-> "enqueue", kind |-> ev[d].kind,
                                path |-> ev[d].path, to |-> Peers(d)]]
    /\ UNCHANGED <<fileVars, engineVars, up, rx, netVars, lifeVars, ghostVars>>

\* SyncQueue::enqueue: one task per peer, in the order the HashMap lists them.
EventEnqueue(d) ==
    /\ ev[d].pc = "enqueue" /\ ~ blocked[d]
    /\ LET p == ev[d].path
           to == ev[d].to
           own == Get(vv[d][p], d)
       IN /\ \E order \in SetToSeqs(to) :
               queue' = [queue EXCEPT ![d] = @ \o
                 [i \in DOMAIN order |->
                    [kind |-> ev[d].kind, to |-> order[i], path |-> p]]]
          /\ IF ev[d].kind = "upload"
             THEN /\ owed' = [owed EXCEPT ![d] = [e \in Device |->
                       IF e \in to THEN [owed[d][e] EXCEPT ![p] = own]
                                   ELSE owed[d][e]]]
                  /\ dropped' = dropped \ {<<d, e, p>> : e \in to}
             ELSE UNCHANGED ghostVars
    /\ ev' = [ev EXCEPT ![d] = Idle]
    /\ UNCHANGED <<fileVars, vv, meta, up, rx, netVars, lifeVars>>

-----------------------------------------------------------------------------
(* process_queue *)

\* Mutant: the delete message carries the type of the other one.
MistypedDelete(p) == [kind |-> "metadata", path |-> p]

\* The message of a delete task.
DeleteOf(p) == [kind |-> "delete", path |-> p]

\* dequeue: the call is entered, or goes on, with the first task.
UploadNext(d) ==
    /\ \/ up[d].pc = "next" /\ ~ blocked[d]
       \/ up[d] = Idle /\ CanCall(d)
    /\ queue[d] # <<>>
    /\ LET t == Head(queue[d]) IN
         up' = [up EXCEPT ![d] =
           IF t.kind = "upload"
           THEN [pc |-> "read", to |-> t.to, path |-> t.path]
           ELSE [pc |-> "send", to |-> t.to, msg |-> DeleteOf(t.path)]]
    /\ queue' = [queue EXCEPT ![d] = Tail(@)]
    /\ UNCHANGED <<fileVars, vv, meta, ev, rx, netVars, lifeVars, ghostVars>>

\* The queue is empty: the call returns Ok.
UploadDone(d) ==
    /\ up[d].pc = "next" /\ ~ blocked[d]
    /\ queue[d] = <<>>
    /\ up' = [up EXCEPT ![d] = Idle]
    /\ UNCHANGED <<fileVars, engineVars, ev, rx, netVars, lifeVars, ghostVars>>

UploadRead(d) ==
    /\ up[d].pc = "read" /\ ~ blocked[d]
    /\ disk[d][up[d].path] # Missing
    /\ up' = [up EXCEPT ![d] = [pc |-> "look", to |-> up[d].to,
                path |-> up[d].path, content |-> disk[d][up[d].path]]]
    /\ UNCHANGED <<fileVars, engineVars, ev, rx, netVars, lifeVars, ghostVars>>

\* fs::read fails: the call returns Err, its task is gone, the others wait
\* for the next call.
UploadReadFails(d) ==
    /\ up[d].pc = "read" /\ ~ blocked[d]
    /\ (disk[d][up[d].path] = Missing /\ UNCHANGED lifeVars) \/ Fault
    /\ up' = [up EXCEPT ![d] = Idle]
    /\ dropped' = dropped \cup {<<d, up[d].to, up[d].path>>}
    /\ UNCHANGED <<fileVars, engineVars, ev, rx, netVars, owed>>

\* The vector is looked up after the content was read; without one the task
\* is passed over.
UploadLook(d) ==
    /\ up[d].pc = "look" /\ ~ blocked[d] /\ ~ Locked(d)
    /\ LET p == up[d].path IN
         up' = [up EXCEPT ![d] =
           IF vv[d][p] = NoVector THEN [pc |-> "next"]
           ELSE [pc |-> "send", to |-> up[d].to,
                 msg |-> [kind |-> "metadata", path |-> p,
                          content |-> up[d].content, vec |-> vv[d][p],
                          key |-> key[d]]]]
    /\ UNCHANGED <<fileVars, engineVars, ev, rx, netVars, lifeVars, ghostVars>>

\* Mutant: a channel that keeps one message at a time.
SentIfEmpty(d) ==
    IF chan[d][up[d].to] = <<>> THEN <<up[d].msg>> ELSE chan[d][up[d].to]

\* send_data on an open channel.
Sent(d) == Append(chan[d][up[d].to], up[d].msg)

UploadSend(d) ==
    /\ up[d].pc = "send" /\ ~ blocked[d]
    /\ link[d][up[d].to] = "open"
    /\ chan' = [chan EXCEPT ![d][up[d].to] = Sent(d)]
    /\ up' = [up EXCEPT ![d] = [pc |-> "next"]]
    /\ UNCHANGED <<fileVars, engineVars, ev, rx, link, lifeVars, ghostVars>>

\* No entry in data_channels, a closed channel, or one that refuses the message:
\* Err, the task is gone.
UploadSendFails(d) ==
    /\ up[d].pc = "send" /\ ~ blocked[d]
    /\ (link[d][up[d].to] # "open" /\ UNCHANGED lifeVars) \/ Fault
    /\ up' = [up EXCEPT ![d] = Idle]
    /\ dropped' = IF up[d].msg.kind = "metadata"
                  THEN dropped \cup {<<d, up[d].to, up[d].msg.path>>}
                  ELSE dropped
    /\ UNCHANGED <<fileVars, engineVars, ev, rx, netVars, owed>>

-----------------------------------------------------------------------------
(* receive_file *)

\* The loop takes the next message from e and enters the call.
Arrives(d, e) ==
    /\ rx[d] = Idle /\ CanCall(d)
    /\ chan[e][d] # <<>>
    /\ chan' = [chan EXCEPT ![e][d] = Tail(@)]

\* The version in m is news to d about its sender.
IsNews(d, e, m) == Get(vv[d][m.path], e) < Get(m.vec, e)

LostNews(d, e, m) == IF IsNews(d, e, m) THEN {<<e, d, m.path>>} ELSE {}

Conflicts(d, m) == vv[d][m.path] # NoVector /\ IsConflicting(vv[d][m.path], m.vec)

\* A delete message has no NUL byte: "Invalid message format".
ReceiveRejects(d, e) ==
    /\ Arrives(d, e)
    /\ Head(chan[e][d]).kind = "delete"
    /\ UNCHANGED <<fileVars, engineVars, ev, up, rx, link, lifeVars, ghostVars>>

\* A conflict is logged and the message forgotten.
ReceiveConflict(d, e) ==
    /\ Arrives(d, e)
    /\ LET m == Head(chan[e][d]) IN
         /\ m.kind = "metadata" /\ Conflicts(d, m)
         /\ dropped' = dropped \cup LostNews(d, e, m)
    /\ UNCHANGED <<fileVars, engineVars, ev, up, rx, link, lifeVars, owed>>

\* decrypt_data fails under another root key.
ReceiveUndecryptable(d, e) ==
    /\ Arrives(d, e)
    /\ LET m == Head(chan[e][d]) IN
         /\ m.kind = "metadata" /\ ~ Conflicts(d, m) /\ m.key # key[d]
         /\ dropped' = dropped \cup LostNews(d, e, m)
    /\ UNCHANGED <<fileVars, engineVars, ev, up, rx, link, lifeVars, owed>>

\* No conflict with the vector of this moment: the call goes on to the write.
ReceiveAccepts(d, e) ==
    /\ Arrives(d, e)
    /\ LET m == Head(chan[e][d]) IN
         /\ m.kind = "metadata" /\ ~ Conflicts(d, m) /\ m.key = key[d]
         /\ rx' = [rx EXCEPT ![d] = [pc |-> "write", from |-> e, msg |-> m]]
    /\ UNCHANGED <<fileVars, engineVars, ev, up, link, lifeVars, ghostVars>>

\* fs::write; the watcher sees this change like a user's.
ReceiveWrite(d) ==
    /\ rx[d].pc = "write" /\ ~ blocked[d]
    /\ LET m == rx[d].msg IN
         /\ disk' = [disk EXCEPT ![d][m.path] = m.content]
         /\ dirty' = [dirty EXCEPT ![d] = @ \cup {m.path}]
    /\ rx' = [rx EXCEPT ![d].pc = "merge"]
    /\ UNCHANGED <<missed, evq, edits, engineVars, ev, up, netVars, lifeVars,
                   ghostVars>>

\* It fails before it truncated the file, or after.
ReceiveWriteFails(d) ==
    /\ rx[d].pc = "write" /\ ~ blocked[d]
    /\ Fault
    /\ \/ UNCHANGED <<disk, dirty>>
       \/ /\ disk' = [disk EXCEPT ![d][rx[d].msg.path] = Torn]
          /\ dirty' = [dirty EXCEPT ![d] = @ \cup {rx[d].msg.path}]
    /\ dropped' = dropped \cup LostNews(d, rx[d].from, rx[d].msg)
    /\ rx' = [rx EXCEPT ![d] = Idle]
    /\ UNCHANGED <<missed, evq, edits, engineVars, ev, up, netVars, owed>>

\* Mutant: the vector is made, the merge forgotten.
Unmerged(d, m) == OrNew(vv[d][m.path], d)

\* Under the write lock, which stays held: merge, and make the row.
Merged(d, m) == Merge(OrNew(vv[d][m.path], d), m.vec)

ReceiveMerge(d) ==
    /\ rx[d].pc = "merge" /\ ~ blocked[d]
    /\ LET m == rx[d].msg
           v == Merged(d, m)
       IN /\ vv' = [vv EXCEPT ![d][m.path] = v]
          /\ rx' = [rx EXCEPT ![d] = [pc |-> "save", path |-> m.path,
                                      content |-> m.content, vec |-> v]]
    /\ UNCHANGED <<fileVars, meta, queue, ev, up, netVars, lifeVars, ghostVars>>

ReceiveSave(d) ==
    /\ rx[d].pc = "save" /\ ~ blocked[d]
    /\ LET p == rx[d].path IN
         /\ SaveFileMeta(d, p, rx[d].content, rx[d].vec)
         /\ dropped' = dropped \ {<<d, d, p>>}
    /\ rx' = [rx EXCEPT ![d] = Idle]
    /\ UNCHANGED <<fileVars, vv, queue, ev, up, netVars, lifeVars, owed>>

ReceiveSaveFails(d) ==
    /\ rx[d].pc = "save" /\ ~ blocked[d]
    /\ Fault
    /\ dropped' = dropped \cup {<<d, d, rx[d].path>>}
    /\ rx' = [rx EXCEPT ![d] = Idle]
    /\ UNCHANGED <<fileVars, engineVars, ev, up, netVars, owed>>

\* A std lock blocks its thread.  When the loops share the thread, the call
\* that holds the guard over its await is never polled again.
BlocksOnGuard(d) ==
    /\ SharedThread /\ Locked(d)
    /\ ev[d].pc = "bump" \/ up[d].pc = "look"
    /\ ~ blocked[d]
    /\ blocked' = [blocked EXCEPT ![d] = TRUE]
    /\ UNCHANGED <<fileVars, engineVars, ev, up, rx, netVars, running, key,
                   faults, resets, ghostVars>>

-----------------------------------------------------------------------------
(* Connections, seen from the engine, and the client's commands. *)

\* connect_peer: the entry of `peers` ...
PeerStored(d, e) ==
    /\ d # e /\ link[d][e] = "none"
    /\ link' = [link EXCEPT ![d][e] = "stored"]
    /\ UNCHANGED <<fileVars, engineVars, ev, up, rx, chan, lifeVars, ghostVars>>

\* ... and, a lock later, that of `data_channels`.
ChannelStored(d, e) ==
    /\ link[d][e] = "stored"
    /\ link' = [link EXCEPT ![d][e] = "open"]
    /\ UNCHANGED <<fileVars, engineVars, ev, up, rx, chan, lifeVars, ghostVars>>

\* The channel dies; both entries stay, and connect_peer finds the peer there.
ChannelCloses(d, e) ==
    /\ link[d][e] = "open"
    /\ Fault
    /\ link' = [link EXCEPT ![d][e] = "closed"]
    /\ UNCHANGED <<fileVars, engineVars, ev, up, rx, chan, ghostVars>>

\* The broadcast receiver of TransportEvent lags: the oldest message is gone.
ReceiverLags(d, e) ==
    /\ chan[e][d] # <<>>
    /\ Fault
    /\ chan' = [chan EXCEPT ![e][d] = Tail(@)]
    /\ LET m == Head(chan[e][d]) IN
         dropped' = IF m.kind = "metadata"
                    THEN dropped \cup LostNews(d, e, m) ELSE dropped
    /\ UNCHANGED <<fileVars, engineVars, ev, up, rx, link, owed>>

\* Mutant: the queue, an Arc, outlives the engine.
KeptQueue(d) == queue[d]

\* SyncEngine::new: an empty queue and an empty map of vectors.
NewQueue(d) == <<>>
NewVectors == [p \in Path |-> NoVector]

\* SyncEngine dropped: its map of vectors and its queue go with it.
DropEngine(d) ==
    /\ AllIdle(d)
    /\ resets < MaxResets /\ resets' = resets + 1
    /\ vv' = [vv EXCEPT ![d] = NewVectors]
    /\ queue' = [queue EXCEPT ![d] = NewQueue(d)]
    /\ owed' = [owed EXCEPT ![d] = [e \in Device |-> [p \in Path |-> 0]]]
    /\ dropped' = dropped
         \cup {<<e, d, p>> : e \in Device, p \in Path}
         \cup {<<d, t.to, t.path>> : t \in Range(queue[d])}
    /\ UNCHANGED <<fileVars, meta, ev, up, rx, netVars, blocked, faults>>

StopSync(d) ==
    /\ running[d]
    /\ DropEngine(d)
    /\ running' = [running EXCEPT ![d] = FALSE]
    /\ UNCHANGED key

\* start_sync while an engine is there: a new one takes its place.
ReplaceEngine(d) ==
    /\ running[d]
    /\ DropEngine(d)
    /\ \E k \in Password : key' = [key EXCEPT ![d] = k]
    /\ UNCHANGED running

StartSync(d) ==
    /\ ~ running[d]
    /\ running' = [running EXCEPT ![d] = TRUE]
    /\ \E k \in Password : key' = [key EXCEPT ![d] = k]
    /\ UNCHANGED <<fileVars, engineVars, ev, up, rx, netVars, blocked, faults,
                   resets, ghostVars>>

-----------------------------------------------------------------------------

HandleFileEvent(d) ==
    \/ EventRead(d) \/ EventReadFails(d) \/ EventDeleted(d) \/ EventBump(d)
    \/ EventSave(d) \/ EventPeers(d) \/ EventEnqueue(d)

ProcessQueue(d) ==
    \/ UploadNext(d) \/ UploadDone(d) \/ UploadRead(d) \/ UploadReadFails(d)
    \/ UploadLook(d) \/ UploadSend(d) \/ UploadSendFails(d)

ReceiveFile(d) ==
    \/ \E e \in Device :
         \/ ReceiveRejects(d, e) \/ ReceiveConflict(d, e)
         \/ ReceiveUndecryptable(d, e) \/ ReceiveAccepts(d, e)
    \/ ReceiveWrite(d) \/ ReceiveMerge(d) \/ ReceiveSave(d)

Watch(d) ==
    \E p \in Path :
        WatcherReports(d, p) \/ WatchFails(d, p) \/ DeleteReported(d, p)

Environment(d) ==
    \/ \E p \in Path : UserChanges(d, p)
    \/ EventSaveFails(d) \/ ReceiveWriteFails(d) \/ ReceiveSaveFails(d)
    \/ \E e \in Device :
         \/ PeerStored(d, e) \/ ChannelStored(d, e)
         \/ ChannelCloses(d, e) \/ ReceiverLags(d, e)
    \/ StopSync(d) \/ ReplaceEngine(d) \/ StartSync(d)

Next ==
    \E d \in Device :
        \/ Watch(d) \/ HandleFileEvent(d) \/ ProcessQueue(d) \/ ReceiveFile(d)
        \/ BlocksOnGuard(d) \/ Environment(d)

Spec == Init /\ [][Next]_vars

\* The loops and the watcher are scheduled; users, failures and commands are
\* not.  Every bound makes the steps of a behaviour finite, so weak fairness
\* of each loop is all that is needed.
Fairness ==
    \A d \in Device :
        /\ WF_vars(Watch(d))
        /\ WF_vars(HandleFileEvent(d))
        /\ WF_vars(ProcessQueue(d))
        /\ WF_vars(ReceiveFile(d))

FairSpec == Spec /\ Fairness

-----------------------------------------------------------------------------
(* Properties *)

TypeOK ==
    /\ disk \in [Device -> [Path -> Nat]]
    /\ dirty \in [Device -> SUBSET Path]
    /\ missed \in [Device -> SUBSET Path]
    /\ evq \in [Device -> Seq(FileEvent)]
    /\ vv \in [Device -> [Path -> Vector]]
    /\ meta \in [Device -> [Path -> [hash : Nat, vec : Vector]]]
    /\ queue \in [Device -> Seq(Task)]
    /\ ev \in [Device -> EventCall]
    /\ up \in [Device -> UploadCall]
    /\ rx \in [Device -> ReceiveCall]
    /\ chan \in [Device -> [Device -> Seq(Message)]]
    /\ link \in [Device -> [Device -> {"none", "stored", "open", "closed"}]]
    /\ running \in [Device -> BOOLEAN]
    /\ key \in [Device -> Password]
    /\ blocked \in [Device -> BOOLEAN]
    /\ edits \in Nat /\ faults \in Nat /\ resets \in Nat
    /\ owed \in [Device -> [Device -> [Path -> Nat]]]
    /\ dropped \subseteq Device \X Device \X Path

\* v claims no version of p that its maker does not count itself, where w holds
\* the vectors in memory.
Backed(w, p, v) == \A x \in Device : Get(v, x) <= Get(w[x][p], x)

\* Every vector there is: in memory, in the rows, in calls and in messages.
VectorsBacked == \A d \in Device, p \in Path : Backed(vv, p, vv[d][p])
RowsBacked == \A d \in Device, p \in Path : Backed(vv, p, meta[d][p].vec)
CallBacked(d) ==
    /\ ev[d].pc = "save" => Backed(vv, ev[d].path, ev[d].vec)
    /\ rx[d].pc = "save" => Backed(vv, rx[d].path, rx[d].vec)
    /\ rx[d].pc \in {"write", "merge"} =>
          Backed(vv, rx[d].msg.path, rx[d].msg.vec)
    /\ up[d].pc = "send" /\ up[d].msg.kind = "metadata" =>
          Backed(vv, up[d].msg.path, up[d].msg.vec)
CallsBacked == \A d \in Device : CallBacked(d)
ChannelBacked(d, e) ==
    \A i \in DOMAIN chan[d][e] :
        chan[d][e][i].kind = "metadata" =>
            Backed(vv, chan[d][e][i].path, chan[d][e][i].vec)
MessagesBacked == \A d, e \in Device : ChannelBacked(d, e)

\* While no engine was dropped, nobody anywhere knows of a version of a device
\* beyond the device's own counter, however calls and messages interleave.
AllBacked == VectorsBacked /\ RowsBacked /\ CallsBacked /\ MessagesBacked
KnowledgeBacked == resets = 0 => AllBacked

\* The row save_file_meta leaves is never ahead of the map in memory, although
\* it is written from a copy after the lock was given back.
RowBehindMemory ==
    resets = 0 =>
        \A d \in Device, p \in Path : Leq(meta[d][p].vec, vv[d][p])

\* process_queue's silent `if let Some(vv)` never skips: a task is in the
\* queue, or in work, only for a path whose vector the map holds.
UploadHasVector ==
    \A d \in Device :
        /\ \A i \in DOMAIN queue[d] :
              queue[d][i].kind = "upload" => vv[d][queue[d][i].path] # NoVector
        /\ up[d].pc \in {"read", "look"} => vv[d][up[d].path] # NoVector

\* A version of p by d, its n-th or later, is on its way from d to e.
InTransit(d, e, p, n) ==
    \/ \E i \in DOMAIN queue[d] :
          queue[d][i] = [kind |-> "upload", to |-> e, path |-> p]
    \/ up[d].pc \in {"read", "look"} /\ up[d].to = e /\ up[d].path = p
    \/ /\ up[d].pc = "send" /\ up[d].to = e /\ up[d].msg.kind = "metadata"
       /\ up[d].msg.path = p /\ Get(up[d].msg.vec, d) >= n
    \/ \E i \in DOMAIN chan[d][e] :
          /\ chan[d][e][i].kind = "metadata" /\ chan[d][e][i].path = p
          /\ Get(chan[d][e][i].vec, d) >= n
    \/ /\ rx[e].pc \in {"write", "merge"} /\ rx[e].msg.path = p
       /\ Get(rx[e].msg.vec, d) >= n

Knows(e, d, p, n) == Get(vv[e][p], d) >= n

\* A queued version is never lost on the way but by an error path: it is known
\* to the peer, in transit, or given up at a named failure.
VersionNeverVanishes ==
    \A d, e \in Device, p \in Path :
        owed[d][e][p] > 0 /\ <<d, e, p>> \notin dropped =>
            Knows(e, d, p, owed[d][e][p]) \/ InTransit(d, e, p, owed[d][e][p])

\* What handle_file_event and receive_file do to a vector only adds to it; it
\* restarts only with the engine, between calls.
VectorsGrow ==
    [][\A d \in Device, p \in Path :
         Leq(vv[d][p], vv'[d][p]) \/ (AllIdle(d) /\ queue'[d] = <<>>)]_vars

\* Serialised calls: what receive_file is about to write and merge does not
\* conflict with the vector of that later moment either.
ConflictCheckHolds ==
    Serialised =>
        \A d \in Device :
            rx[d].pc \in {"write", "merge"} => ~ Conflicts(d, rx[d].msg)

\* Serialised calls: between calls the row is the vector in memory, unless the
\* store failed on this path.
RowMatchesMemory ==
    Serialised /\ resets = 0 =>
        \A d \in Device, p \in Path :
            AllIdle(d) /\ <<d, d, p>> \notin dropped =>
                meta[d][p].vec = vv[d][p]

\* Serialised calls: a file whose content is not the one recorded for it has
\* its event still to come, so no change is forgotten between watcher, handler
\* and receiver but by a failure that missed or dropped names: of the watcher,
\* of a read, of the store.
ChangeNeverForgotten ==
    Serialised =>
        \A d \in Device, p \in Path :
            \/ disk[d][p] \in {Missing, meta[d][p].hash}
            \/ <<d, d, p>> \in dropped \/ p \in missed[d]
            \/ p \in dirty[d]
            \/ \E i \in DOMAIN evq[d] : evq[d][i] = [kind |-> "modified", path |-> p]
            \/ ev[d].pc \in {"bump", "save"} /\ ev[d].path = p

\* Serialised calls never wait on a guard their own thread holds.
NeverBlocked == Serialised => \A d \in Device : ~ blocked[d]

\* e has the newest version d queued for it, or a failure took it, or e has no
\* engine.
CaughtUp(d, e, p) ==
    \/ Knows(e, d, p, owed[d][e][p])
    \/ <<d, e, p>> \in dropped
    \/ ~ running[e]

\* The loops bring every queued version to its peer: again and again there is
\* a moment when all peers are caught up.
PeersCatchUp == []<>(\A d, e \in Device, p \in Path : CaughtUp(d, e, p))

-----------------------------------------------------------------------------
(* What the project's texts say and the code does not do. *)

\* "Version vectors detect concurrent modifications with manual resolution": a
\* sync that comes while a user's change waits to be counted is concurrent with
\* it, is to be detected, and never replaces that user's file.
SoleEditorKeepsFile ==
    [][\A d \in Device : Editors = {d} =>
         disk'[d] = disk[d] \/ edits' # edits]_vars

\* The handler compares the hash to see whether the file really changed: a
\* device whose user changes nothing makes no version.
NoVersionWithoutChange ==
    \A d \in Device \ Editors, p \in Path : Get(vv[d][p], d) = 0

\* A vector's entry for a device is that device's newest version number: when
\* a device has counted a version, nobody holds a higher number of its own.
EntriesAreNewest ==
    [][\A d \in Device, p \in Path :
         ev[d].pc = "bump" /\ ev[d].path = p /\ ev'[d].pc = "save" =>
             \A e \in Device : Get(vv'[e][p], d) <= Get(vv'[d][p], d)]_vars
=============================================================================
