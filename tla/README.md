# SyncFlow in TLA+

TLA+ models of SyncFlow (`src/`), model-checked with TLC and, where it is said,
proved with TLAPS. SyncFlow synchronises folders between the devices of a user:
a Rust core (`packages/core`), a Tauri client around it (`packages/client`) and a
signal server (`packages/server`). Paths below are relative to
`src/syncflow/packages/`.

## 1. The system

| Part | State | Operations | Talks to |
|---|---|---|---|
| Version vectors `core/src/sync/version_vector.rs` | a map device -> count per path | `increment`, `merge`, `is_conflicting`, `is_newer_than` | used by the engine |
| Sync engine `core/src/sync/mod.rs` | `version_vectors` (std RwLock), `queue` | `handle_file_event`, `process_queue`, `receive_file` | disk, storage, transport |
| Sync queue `core/src/sync/queue.rs` | a `VecDeque` of tasks (tokio Mutex) | `enqueue` for each connected peer, `dequeue` | engine |
| Watcher `core/src/sync/watcher.rs` | debouncer, bounded tokio channel | forwards every change as `Modified` | the loop that calls the engine |
| Storage `core/src/storage` | SQLite: `file_metadata`, `sync_state`, `file_versions`, `devices` | upserts and reads | engine, Tauri commands |
| Transport `core/src/transport/mod.rs` | `peers`, `data_channels`, an event broadcast of 100 | `connect_peer`, `send_data`, `connected_peers` | discovery, SDP exchange, WebRTC |
| SDP exchange, WebRTC peer, discovery `core/src/transport` | one shared peer connection; an mDNS daemon | offer and answer over HTTP; browse | other devices on the LAN |
| Crypto, core auth `core/src/crypto`, `core/src/auth` | none | hash, derive a key, encrypt, sign | engine |
| Tauri client `client/src-tauri/src` | `sync_engine: Mutex<Option<SyncEngine>>` | `start_sync`, `stop_sync`, read-only commands | engine, UI |
| Signal server `server/src/signal.rs` | registry device -> channel, one handler per WebSocket, one task per channel | `DeviceOnline`, `DeviceOffline`, forwarded messages, disconnect | clients, database |
| Devices, accounts `server/src/device.rs`, `auth.rs` | tables `server_devices`, `users` | register, list, login | database |

A change on a disk becomes an event of the watcher, `handle_file_event` counts a
version of the path, writes the metadata row and queues one task per connected
peer; `process_queue` reads the file, looks the vector up and sends both over a
data channel; the peer's `receive_file` refuses what conflicts with its own
vector, writes the file, merges the vector and writes its row. The signal server
is independent of that: it tells connected clients who is online and passes
their messages on.

What makes it hard, and which properties answer for it:

- **Calls overlap at awaits.** The engine's methods take `&self`; its vectors sit
  in a std lock, everything else is awaited. Checks go stale between the check and
  the write (`ConflictCheckHolds`), rows are written from stale copies
  (`RowMatchesMemory`, `RowBehindMemory`), and one guard is held over an await
  (`NeverBlocked`).
- **Steps fail half way.** Every `?` leaves counters stepped, events and tasks taken.
  The code has no retry; the models name what such a failure takes (`dropped`,
  `missed`), and the properties say that nothing else is lost (`ChangeNeverForgotten`,
  `VersionNeverVanishes`, `PeersCatchUp`).
- **Copies travel late, twice, or back.** A peer's watcher sees what
  `receive_file` wrote and sends it back as a new version, which may meet a change
  nobody has counted yet (`SoleEditorKeepsFile`, `NoVersionWithoutChange`,
  `VectorsGrow`).
- **Vectors must mean something.** No entry counts a version nobody made
  (`KnowledgeBacked`), and comparing vectors compares histories (`HistoryExact`,
  `NewerMeansMoreHistory`, `ConcurrentDetected`), and the engine does nothing to a
  vector that the abstract replicas could not do (`ImplementsHistory`).
- **The engine starts anew.** Vectors and queue live in memory
  (`EntriesAreNewest`, `UploadHasVector`).
- **Offers meet at a server.** All handlers of an SDP server share one peer
  connection, at three awaits each and without a lock; devices are reported again and
  again, and calls may overlap (`AnswerIsForOffer`, `ReadyForOffers`,
  `OneConnectionEach`, `ConnectedIsReachable`, `EveryCallEnds`). A server must have one
  offer open at a time all the same (`ImplementsExchange`).
- **Connections of one device overlap on the server.** Registry entries are removed by
  device id, database and registry change in separate steps, and messages sit in
  channels, and a client may give any device's id (`RegistryIsLive`,
  `AcceptedNotLost`, `RowFollowsRegistry`, `ToldTheTruth`, `VanishedIsNoticed`,
  `ConnectedStaysRegistered`). A message must be delivered once or lost with its
  connection all the same (`ImplementsMailbox`).
- **Accounts are made in three statements.** Between the SELECT, the INSERT and the
  token of a registration others do theirs, the last step may fail after the row is
  there, and a client may leave at any await (`TokensAreOwn`, `OneRegistrationWins`,
  `AccountsLetIn`); a device may be registered again for another user
  (`ListedForOneUser`). The endpoints must behave as if each request were served at one
  instant (`ImplementsService`).

Nothing under `src/` calls `handle_file_event`, `process_queue`, `receive_file`,
`start_watcher`, `connect_peer` or `start_sdp_server` yet. The loops that would
drive them are external to the models and stated as such; the code they call is
the code modelled.

## 2. The modules

| Module | Models | Extends |
|---|---|---|
| `VersionVector` | the vector as an algebra; no state | |
| `VersionHistory` | the abstract specification: replicas that make versions and merge copies delivered late, twice or never; with each vector the history it stands for | `VersionVector` |
| `SyncEngine` | engine, queue, watcher, metadata row, channels, start and stop | `VersionVector` |
| `SyncEngineHistory` | the refinement mapping from `SyncEngine` to `VersionHistory` | `SyncEngine` |
| `SignalServer` | WebSocket handlers, registry, channel tasks, `server_devices.is_online` | |
| `Mailbox` | the abstract specification of forwarding: a message waits for the connection registered when it was accepted | |
| `SignalServerMailbox` | the refinement mapping from `SignalServer` to `Mailbox` | `SignalServer` |
| `Transport` | discovery, `connect_peer`, the SDP server and its shared connection | |
| `OfferExchange` | the abstract specification of an SDP server: one offer open at a time, answered to its caller | |
| `TransportOffers` | the refinement mapping from `Transport` to `OfferExchange` | `Transport` |
| `Accounts` | `register` and `login` over `users`, the owner of a device, its lists | |
| `AccountService` | the abstract specification of the account endpoints: one indivisible service | |
| `AccountsRefinement` | the refinement mapping from `Accounts` to `AccountService` | `Accounts` |
| `VersionVectorProofs`, `VersionHistoryProofs`, `SyncEngineProofs`, `SignalServerProofs`, `TransportProofs`, `AccountsProofs` | theorems | the module they are about, with its refinement mapping |
| `SyncEngineCalls` | theorems about what calls keep across awaits | `SyncEngineProofs` |
| `SyncEngineRefinement` | the theorem that the engine implements the histories | `SyncEngineHistory`, `SyncEngineCalls` |
| `MC_VersionHistory`, `MC_SyncEngine`, `MC_SignalServer`, `MC_Transport`, `MC_Accounts` | instances and symmetry for TLC | the module they check |

**VersionVector.** A vector is a record of the set of devices the map lists and
their counts. The set matters: `is_conflicting` and `is_newer_than` loop over one
map's keys, and `VersionVector::new` lists its own device with 0, so that two maps
may count the same and list different devices.

**VersionHistory.** What the vectors of one path promise, without files, queues and
calls: a replica counts an event of its own (`RecordEvent`), sends the copy it holds
(`SendCopy`), merges a copy that is on its way, which may come once more
(`MergeCopy`), and copies get lost (`LoseCopy`). `hist` is the set of events a vector
was made from. `CheckedMerge` adds the conflict check of `receive_file` as a guard that
holds at the moment of the merge.

**SyncEngineHistory.** For each path: the vectors in memory are the replicas; the copies
on their way are the vectors an upload is about to send, those in the channels, and
those `receive_file` has accepted and not merged yet. The program keeps no histories;
`hist` is mapped to the events a vector knows, which is what `HistoryExact` says of
every abstract state. `CheckedMerge` is mapped to `Serialised`: behind the client's
mutex the check of `receive_file` is as good as one made with the merge, without it
only the unchecked protocol is implemented. So `ImplementsHistory` says that all the
awaits, `?`s, queues and channels of `sync/mod.rs` do to the vectors is count, send,
merge or lose a copy, each in one step, until an engine is dropped and counts from one
again.

**SyncEngine.** `vv[d][p]` is the map of vectors, `queue`, `meta` and `disk` are
what their names say. `ev[d]`, `up[d]` and `rx[d]` are the three calls in
progress: `pc` names the await they are at, the other fields are the locals still
needed. Each action is the stretch of code from one await to the next:

| Function | Actions |
|---|---|
| `handle_file_event` | `EventRead`, `EventReadFails`, `EventDeleted`, `EventBump`, `EventSave`, `EventSaveFails`, `EventPeers`, `EventEnqueue` |
| `process_queue` | `UploadNext`, `UploadRead`, `UploadReadFails`, `UploadLook`, `UploadSend`, `UploadSendFails`, `UploadDone` |
| `receive_file` | `ReceiveRejects`, `ReceiveConflict`, `ReceiveUndecryptable`, `ReceiveAccepts`, `ReceiveWrite`, `ReceiveWriteFails`, `ReceiveMerge`, `ReceiveSave`, `ReceiveSaveFails` |
| watcher, user | `UserChanges`, `WatcherReports`, `WatchFails`, `DeleteReported` |
| transport | `PeerStored`, `ChannelStored`, `ChannelCloses`, `ReceiverLags` |
| `start_sync`, `stop_sync` | `StartSync`, `ReplaceEngine`, `StopSync` |
| the guard of `receive_file` | `BlocksOnGuard` |

`Serialised` chooses between the Tauri client, whose mutex makes calls exclude
each other, and a program that shares the engine. `SharedThread` says that the
loops of a device run on one thread; the future of `receive_file` holds a std
guard over an await and cannot be moved between threads, so that is how it must
be run. `ReportsDeletes` lets a caller use `FileEvent::Deleted`, which the watcher
itself never produces. Contents are the numbers of the edits that made them, a
hash is its content, and decryption succeeds exactly under the same password.
The ghost variables are `owed`, the own version last queued for a peer, `dropped`,
the versions an error path gave up, and `missed`, the paths of which an event was
lost before the file was read: the debouncer reported an error (`WatchFails`), or
`fs::read` failed on a file that is there (`EventReadFails`). `dropped` and `missed` are
the lists of the losses the code accepts; `VersionNeverVanishes` and
`ChangeNeverForgotten` say there are no others. An `fs::write` that fails may have
truncated the file before (`Torn`), which the watcher sees. The `?`s of JSON
conversions and of `encrypt_data` work on the program's own values and are left out.

**SignalServer.** `call[c]` is where `handle_socket` of connection `c` stands. A
channel is the pair of its connection and the number of the `DeviceOnline` that
made it; `carried` says its task still receives. `registry` leads from devices to
channels. `Overlapping` lets a client connect anew while the server still handles
the connection it lost. What a gone client had heard is forgotten with it. The
ghost variables are `accepted` and `got` for forwarded messages and `drifted`, the
devices whose row the last update of it did not set. The server takes whatever device
id a `DeviceOnline` or `DeviceOffline` names, and so does the model; `OwnIds` restricts
clients to their own device, and properties that need it say so. So a connection that
announces two ids leaves the entry of the first behind when it ends, and
`RegistryIsLive` says that this is the only way to a dead entry. A client that closes
its connection (`Leaves`) ends its stream; one whose network goes without a word
(`CutOff`) may be noticed or not. Error replies to the sender and back pressure of a
socket are not modelled.

**Mailbox, SignalServerMailbox.** `Mailbox` knows who is registered and, for each
connection, which messages wait for it and which it has; accepting, delivering and
losing are one step each. In the mapping a message waits for a connection when it is in
any of the channels `DeviceOnline` made on it and that channel's task still carries, so
that announcing twice, leaving the registry or being replaced in it are no steps that
lose anything. Presence messages, rows and tasks are not seen.

**Transport.** `call[k]` is the k-th `connect_peer`, `handler[k]` the request it
posted, at one of the three awaits of `do_handle_offer`. An offer is the number of its
call, an answer the number of the offer `create_answer` found, so that an answer can
be told from another's. `shared[d]` is the one `RTCPeerConnection` of `d`'s server, of
which the model keeps the signalling state (stable, or a remote offer is open) and the
offer and answer set last: that is what the `webrtc` crate decides by when it refuses
a description. `peers` and `channels` are the two tables, `told` counts the
`PeerConnected` events of each peer. Calls of the devices in `Spawning` overlap, the
others' follow one another; no line under `src/` says which. `ServerOf` is where an
offer goes: services register 127.0.0.1, so that a device finds the server on its own
host that has the port. A device also finds itself. `broken` is a ghost: the servers
where an offer was left open.

**OfferExchange, TransportOffers.** `OfferExchange` keeps of each call its stage, of each
posted request where it is and what became of it, and of each server the offer it has
open. An answer is for the offer that is open, a refusal needs another one to be open or
a failure, and a failure or a dropped handler may leave an offer open for good. The
mapping takes the open offer from the signalling state of the shared connection. So
`ImplementsExchange` says that `set_remote_description` enters a critical section of
three awaits which `set_local_description` leaves.

`SyncEngine` takes it from where `Transport` ends: its `PeerStored` and
`ChannelStored` are the two inserts, and it assumes that a message sent arrives at the
peer's `receive_file`. As the code stands something outside `src/` has to see to that
(section 5).

**Accounts.** `call[c]` is the handler that works for connection `c`: `register` stands
before its SELECT and hash, its INSERT, or its token (`RegisterSelect`,
`RegisterInsert`, `RegisterSign`), `login` before its SELECT or its verification
(`LoginSelect`, `LoginVerify`). `users` is the table in the order of its ids, which
AUTOINCREMENT hands out and nothing deletes; the UNIQUE constraint is asked again by
the INSERT and answers 500, not 409, as the code does. `CallFails` is each `?`,
including the one after the INSERT; `ClientLeaves` drops a handler at its await, and
the statement it had handed to the store may be executed all the same.
`device::register_device` and `list_devices` are one statement each. The foreign key
refuses a new row for a user that does not exist; for a device that has a row ON
CONFLICT updates the other columns and leaves `user_id` as it is, so that nothing asks
whether the user of the refused row exists and the answer is 201 (`Admitted`).
`ListFails` is the missing parameter and the store's error. `asOf` is
a ghost, the accounts there were when a request came in. Expiry of tokens, public keys
and device names are left out.

**AccountService, AccountsRefinement.** `AccountService` serves each request in three
steps: it is asked, takes effect on the set of accounts at one instant, is answered.
Refusals may be decided with their answer; a failure answers "error" before or after
the effect; a caller that leaves does not learn whether there was one. In the mapping a
registration takes effect with its INSERT and a login when its row is read, though the
password is verified a step later; an id stands for the name in its row. That is
linearizability of `register`, `login`, `register_device` and `list_devices`: the
UNIQUE constraint's 500 for a name lost in a race is the one answer that is not what the
sequential service would say, and the abstract specification admits it by name. The
service itself accepts a registration for an unknown user of a device it knows.

## 3. What TLC checks

All bounds are constants, used only in guards. `CHECK_DEADLOCK FALSE` stands
everywhere: when users stop editing and clients stop sending, these systems come
to rest.

| Run | Question | Instance |
|---|---|---|
| `history` | Do vectors order copies as their histories are ordered? | 3 devices, 2 versions each, 2 copies on their way at a time |
| `overlap` | What holds when calls overlap at every await, and do the engines still implement `VersionHistory`? | 2 editing devices, 2 edits, 2 versions each, 1 failure |
| `client` | What does the client's mutex add, and is every merge then a checked one? | 2 editing devices, 2 paths, 2 edits, 2 versions each, 1 failure, removals reported |
| `sessions` | What survives stops and starts, and does every version arrive? | 2 devices, 2 passwords, channels still being made, 1 reset |
| `signal_reconnect` | Is the registry sound when connections of a device overlap and clients give any ids, and is the server a mailbox? | 2 devices, 2 connections, 2 announcements, 1 `DeviceOffline`, 2 messages, any ids |
| `signal_sessions` | Do row, registry and what clients hear agree, and is a device that went away noticed? | 2 devices, 2 connections, 2 announcements, own ids, 1 failed update, 1 HTTP registration, 1 connection cut off, 1 restart |
| `transport` | Do offers that meet get their own answers, one open at a time, and do calls end? | 2 devices on one host, 3 calls, one device overlapping its own, 1 failure or vanishing |
| `accounts` | Do tokens, accounts and devices go to the users they belong to, however requests interleave, and is it one service? | 2 connections, 2 names, 2 passwords, 1 device, 4 calls, 4 device calls, 1 failure |

Two devices are enough for a copy to go out, come back and meet a newer one; three
replicas, in `history`, let a version reach one of them by two ways and one copy
overtake another. Two versions of a device are what a stale copy and a newer one
need, one failure is what takes each `?` once. The run `restart` has a third edit, for the
version that is counted anew. Two paths share the queue, the
events and the calls of a device, which is what `client` is about; elsewhere one path
keeps the instance small. On the server two connections are either two of one
device, which make the reconnect race or two sessions, or a device and a client that
listens. Three calls of `connect_peer` put two offers at one server while a third
entry is looked up, and a device that reports itself is one of the cases. Two
connections let two registrations of a name race and two of different names insert
between one another's INSERT and token; the two calls that are left log in or try
again. Four device calls are two registrations of one device and the two lists that
could both name it.

Four runs are expected to find a violation. Each states what a text of the
repository says and shows what the code does instead:

| Run | Property | What happens |
|---|---|---|
| `sole_editor` | `SoleEditorKeepsFile` | the only user's second change is on the disk and not counted yet when the peer's echo of the first comes as {d1:1, d2:1}: newer than {d1:1}, in conflict with nothing, and written over the change (`sync/mod.rs:154`; README.md:10) |
| `echo` | `NoVersionWithoutChange` | a device whose user changes nothing makes versions: the hash is not compared (`sync/mod.rs:48`; design of 2026-04-20, line 166) |
| `restart` | `EntriesAreNewest` | a new engine counts a version of its own as 1 while the peer's entry for the device is 2 (`commands.rs:105`; design of 2026-04-20, line 175) |
| `signal_replaced` | `ConnectedStaysRegistered` | the end of a replaced connection unregisters its successor (`signal.rs:98`; plan of 2026-04-20, line 1942) |

Also met, without a run: `is_conflicting` reports copies of one history when one map
lists a device with 0 and the other does not (`version_vector.rs:40`; the second part
of `ConcurrentDetected` and the theorem `ConflictIsConcurrency` say exactly when); of
two racing registrations of a name the loser is told 500, where the check would have
said 409 (`auth.rs:69`); a device registered again for another user, even one that
does not exist, is answered 201 and stays with the first (`device.rs:33`); a
connection that announces d1 and then d2 leaves an entry for d1 that nothing removes
when it ends (`signal.rs:98`, `149`); all offers are answered by one connection, so
that a second device takes it over from the first (`sdp_exchange.rs:22`); services
register 127.0.0.1, so that devices on different hosts post their offers to themselves
(`discovery.rs:86`), where the design posts to the other's address; nothing filters
out the device itself; an SDP server whose handler failed half way refuses every later
offer (`ReadyForOffers` names these); `on_data_channel` is set only on the offering
connection, whose far end opens no channel, and the sender it would report is the
channel's label (`transport/mod.rs:144-154`); a delete message has no NUL byte and
every receiver rejects it (`sync/mod.rs:126-129`), where the design lists
`FileDelete`; a conflict is logged and forgotten (`sync/mod.rs:146-151`), where the
design marks it and waits for the user; `PeerDisconnected` is never sent and entries
of a dead peer stay (`transport/mod.rs`), where the mDNS design (line 190) cleans up.

### Fairness

`SyncEngine` asks weak fairness of four things per device: the watcher's forwarding
task and each of the three loops. A loop that has something to do and may enter the
engine does so; nothing is assumed of users, failures, connections, stops and starts.
`PeersCatchUp` asks that all peers are caught up again and again, up to the losses
`dropped` names and engines that are stopped.

`Transport` asks weak fairness of every call that can go on and of every handler. It is
not assumed that a caller hears of a server that vanished: `connect_peer` sets no
timeout, and `EveryCallEnds` leaves that case out.

`SignalServer` asks weak fairness of each handler in the middle of its work and of
each channel task, as the tokio runtime polls them, and strong fairness of `Ends`:
a client that closed its connection has left finitely many messages, so its handler
cannot be kept from the end of the stream for ever, though it may be busy now and then.
Clients may stay silent. Nothing is asked of a connection that was cut off: the loop
at `signal.rs:72` sends no ping and sets no timeout, so that its end, and a send to it,
may take for ever. `VanishedIsNoticed` leaves such devices out and shows that they do
not keep the others from being noticed.

## 4. What is proved

For every value of the constants that meets the modules' assumptions. All the
invariants and action properties of the passing runs are theorems; liveness
(`PeersCatchUp`, `VanishedIsNoticed`, `EveryCallEnds`) stays with TLC, as the prover has
no reasoning about fairness and ENABLED. All four refinements are theorems too: every
module that models code with state is shown to implement an abstract specification.

**`VersionVectorProofs`.** `is_newer_than` is a strict partial order and is the strict
part of the order on counts; `is_conflicting` is incomparability, plus exactly the case
of equal counts and different keys; `merge` is an upper bound of both vectors, below
every other in the order of counts, and commutative and idempotent to the letter, listed
zeros included.

**`VersionHistoryProofs`.** `TypeOK` and `HistoryExact`: a vector stands for exactly the
versions it was made from, in replicas and in copies. Together with `TypeOK` it is
inductive as it stands: incrementing adds one version, merging unites two sets, and both
lemmas are about vectors alone. From it follow `NewerMeansMoreHistory` and
`ConcurrentDetected`, because on exact histories the order of counts is inclusion, and
`HistoryGrows` (`NothingIsForgotten`).

**`SyncEngineProofs`.** `TypeOK`, one step per action; at each await the call holds
exactly the locals the code still needs. And `KnowledgeBacked`, in every configuration:
it is inductive relative to `TypeOK` because it speaks of every place a vector can be:
the maps, the rows, the locals of the three calls and the messages. While no engine was
dropped, entries of `vv[d][p]` for `d` only grow, so what was backed stays backed
(`GrowthKeepsBacked`), and `merge` of two backed vectors is backed because its entry is
one of the two. The counters of the bounds play no part.

**`SyncEngineCalls`.** What calls keep across their awaits, each with what makes it
inductive:

- `NeverBlocked` and `ConflictCheckHolds` from `ClientInv`: behind the mutex one of the
  three calls of an engine is in progress, so nobody asks for the lock while
  `receive_file` holds its guard, and the vector it checked against is the one it merges
  into.
- `VectorsGrow`: the vectors in memory change in `EventBump`, `ReceiveMerge` and when an
  engine is made, and nowhere else.
- `RowBehindMemory` from `RowsBehind`: the copy a call is about to save is behind memory
  when it is made, and memory only grows until it is saved.
- `UploadHasVector` from `TasksHaveVector`: whatever leads to a task of a path, in the
  call, in the queue or in the upload, came after a bump of that path in this engine.
- `RowMatchesMemory` from `RowsMatch`: between a bump or merge and its save a call is in
  progress, and a save that does not happen is in `dropped`.
- `ChangeNeverForgotten` from `Noticed`: a file whose content is not the recorded one
  has its event in the debouncer, in the channel, or in a call that has not saved, or
  a failure took that event and put the path into `missed`; the call that saves
  records the content it read, which the file may have left since, but then the change
  made another event.
- `VersionNeverVanishes` from `OwedKept`: what is owed to a peer is `Settled`, that is
  known or given up, or `Carried` by one of the places a version goes through. Each step
  of an upload or a receive hands it from one place to the next.
- `RestMeansCaughtUp` from that: when nothing is queued, sent or on its way from a device
  to a peer and the peer receives nothing, the peer is caught up. `PeersCatchUp` adds
  that such moments come.

**`SyncEngineRefinement`.** `EngineImplementsHistory`: until the first engine is dropped
every step of `SyncEngine` is, for every path, a step of `VersionHistory` or a stutter,
with no assumption on the constants. The set of
copies of a path is described place by place (`OnTheWay`); one lemma for each abstract
action says which change of the places it covers (`MapsToRecord`, `MapsToSend`,
`MapsToMerge`, `MapsToLose`), and each action of the engine is shown to make one of those
changes or none. `KnowledgeBacked` gives the bound on versions the abstract step needs,
`ClientInv` the check of a merge behind the mutex. An engine made anew forgets its
vectors, which no replica of `VersionHistory` does; that is the finding of `restart`
and the reason why the property ends at the first drop.

**`SignalServerProofs`.** For any number of devices, connections and messages:

- `RegistryIsLive` is not inductive alone: an entry is removed by the handler's
  `device_id`, so the invariant (`Live`) adds for each entry that its channel was made,
  and `Identity`, which says when a `device_id` is set and, under `OwnIds`, to what. With
  any ids, a newer announcement on a connection moves its id away from the entries of
  older ones; that is why the entries that stay behind are exactly those of an id
  announced earlier.
- `AcceptedNotLost` from `KeepsMessages`: a message counts as accepted while its client
  lives, and then its task does not fail; a task that ends has an empty channel.
- `RowFollowsRegistry` from `Sessions`: one connection of a device is under way, its row
  was written before it is registered, and the end of an earlier connection, which
  would write "offline", is over.
- `ToldTheTruth` from `Truth`: a registered channel of a live client has its task
  (`LiveCarried`), is empty when it is registered (`FreshChannels`), what a handler is
  about to tell is so (`TruthToTell`), and of every device no handler is telling of, the
  last word in the channel, or else the last one heard, is what the registry says
  (`Heard`). The lemmas before it are about the last message of a kind in a sequence
  that is appended to or whose head is taken.
- `ImplementsMailbox` from `PostInv`: a message is in one place of one channel
  (`InOnePlace`), so that delivering it takes it from where it waits; its number was handed
  out (`Numbered`), so that a new message is new; a connection nobody opened yet has
  nothing waiting (`NewIsBlank`); and no task stops before its channel is empty
  (`EndedIsEmpty`). The proof goes action by action; all that changes neither registry nor
  signal messages stutters.

**`TransportProofs`.** For any number of devices, any hosts and ports, calls in sequence
or not:

- `AnswerIsForOffer` and `ReadyForOffers`: `OpenOffer` adds that while a handler
  negotiates, the shared connection holds its offer and, once made, its answer. So two
  handlers of a server cannot both negotiate, and the signalling state does what no lock
  does. `NotPosted` says that a request follows its call, which keeps a new call from
  inheriting one.
- `ConnectedIsReachable` from `Reachable`: an entry of the tables was made by a call
  between those very devices that is past its answer, and a listed peer is `Served`: a
  call that waits to store a channel finds its peer stored, and overlapping calls leave
  a channel or one of them waiting.
- `OneConnectionEach` from `OneByOne`: where calls follow one another one is in progress,
  from its look-up to its first insert the entry stays empty, and no event was sent before
  the channel was stored (`OneReport`).
- `ImplementsExchange` from these and `Untaken`: an offer nobody has taken yet is open
  nowhere, so that the step that takes it is the abstract one and a refused offer is
  never the one that is open. One lemma per action of `Transport` names the abstract step
  it makes.

**`AccountsProofs`.** `AccountsInv` joins four facts: names are unique in `users`
(the look-up of `RegisterInsert` and the append are one step); what a handler read or
inserted before an await is still there after it, because rows only come; no two
handlers or answers hold the same row of a registration; and every account there was
when a request came in is there still. From it follow `TokensAreOwn`,
`OneRegistrationWins` and `AccountsLetIn`. `ListedForOneUser` needs that the owner of a
device, once set, stays, so that every list ever answered is still true of the devices it
names. `ImplementsService` rests on the same invariant: the row a handler holds is the
one its decision was made from, so what it decided is what it answers, and an id keeps
the name it stands for.

## 5. Not modelled

- WebRTC, mDNS, SQLite, the ciphers and the notify back ends are libraries.
- What becomes of a connection after its signalling: ICE, DTLS, the opening of the data
  channel, and the far end that is the shared connection. `on_data_channel` and
  `DataReceived` belong there. `/sdp/answer` changes nothing: the shared connection
  never has an offer of its own open, so the answer is refused and the refusal ignored.
- Tables `sync_state`, `file_versions`, `devices` of the client have no writer in `src/`
  besides tests; `SyncTask::Download` is never made.
- A successful `fs::write` is one step, and a failed one leaves the file as it was or
  torn: a crash in the middle of a write is not modelled, nor is a crash of the client
  process (its device id is new at every launch, so it comes back as another device).
- The Tauri commands besides `start_sync` and `stop_sync` return constants and keep no
  state; core auth is a record and three wrappers without a caller. Of the server's
  tables the descriptive columns, public keys and the expiry of tokens are left out:
  nothing under `src/` reads them.
- `hazards` in PROJECT.json lists some without a property. Some the code promises
  nothing about: a removal never reaches a peer's disk (`sync/mod.rs:126`), a peer
  that connects late is never caught up (`sync/mod.rs:71`), rows say "online" after a
  restart (`signal.rs:50`) or "offline" of a connected device that registers again
  (`device.rs:29`), a connection cut off may never end (`signal.rs:72`), a POST to a
  server that vanished may wait for ever (`transport/mod.rs:101`), overlapping calls
  overwrite each other's connection (`transport/mod.rs:78`), the order of what two
  tasks send on one socket (`signal.rs:134`), one connection that answers everybody
  (`sdp_exchange.rs:22`), the far end of a data channel without a handler
  (`transport/mod.rs:144`), the address 127.0.0.1 (`discovery.rs:86`). Others are
  failures without a retry: of a save (`sync/mod.rs:69`), of reading or sending
  (`sync/mod.rs:48`, `106`, `transport/mod.rs:58`), of the debouncer
  (`watcher.rs:54`), of a receiver that lags (`transport/mod.rs:41`), of an SDP
  handler half way (`sdp_exchange.rs:83`). The models take all these steps, and the
  properties excuse what such a failure loses by name (`dropped`, `missed`, `drifted`,
  `broken`); they do not show that the failure is harmless.
- The forwarding task of the watcher waits in the `recv` of a std channel on a worker of the
  runtime (`watcher.rs:53`). The models give it a thread of its own; on a runtime with one
  worker it would stop everything else.
- The React interface and the static STUN answer have no protocol.

## 6. Plan

In this order, the parts done marked:

1. `VersionVector`, `VersionHistory` and their proofs (done).
2. `SyncEngine` with its runs, `TypeOK` and `KnowledgeBacked` proved (done).
3. `SignalServer` with its runs, all its safety invariants proved (done).
4. `VersionHistory` as the abstract specification of the replicas, `SyncEngine` shown to
   implement it by TLC and by TLAPS while no engine is dropped (done).
5. The remaining invariants of the engine's calls as theorems (done).
6. `Transport` with its run, all its safety invariants proved (done); next the far end of
   a stored connection, once something under `src/` says what becomes of it.
7. `Accounts` with its run and proofs (done).
8. Abstract specifications of what the server side promises: `Mailbox` for messages,
   `OfferExchange` for SDP servers, `AccountService` for the endpoints, each shown to be
   implemented by TLC and by TLAPS (done); `EngineImplementsHistory` without its assumption
   on resets (done); next a presence service beside `Mailbox`, which knows who is online,
   with what clients are told in between as its steps.
