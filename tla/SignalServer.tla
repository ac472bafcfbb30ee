---------------------------- MODULE SignalServer ----------------------------
(***************************************************************************)
(* The signal server's WebSocket side (server/src/signal.rs) and the       *)
(* server_devices row it keeps up to date (server/src/device.rs).          *)
(*                                                                         *)
(* handle_socket runs once per connection, all connections concurrently.   *)
(* It reads one message after the other and works it off before it reads   *)
(* the next; every await on the store or on the registry's lock separates  *)
(* two actions, so that the handlers of different connections interleave   *)
(* there.  call[c] is where the handler of connection c stands.            *)
(*                                                                         *)
(* A DeviceOnline makes a channel and a task that carries the channel's    *)
(* messages to the socket; the registry holds the sending half under the   *)
(* id that the message names.  The server does not ask whose id it is: a   *)
(* client may announce any device, and several; OwnIds restricts clients   *)
(* to the device they run on.  The token of DeviceOnline is not looked at, *)
(* and the body of a forwarded message (offer, answer, candidate, sync     *)
(* request) is only its number.                                            *)
(***************************************************************************)
EXTENDS Integers, Sequences, FiniteSets

CONSTANTS
    Device,
    Conn,
    NoDevice,       \* not a device: device_id is None
    Overlapping,    \* a client reconnects before the server saw the old end
    OwnIds,         \* clients name their own device in what they announce
    MaxAnnounce,    \* bound: DeviceOnline messages on one connection
    MaxOnline,      \* bound: DeviceOnline messages in all
    MaxOffline,     \* bound: DeviceOffline messages
    MaxForward,     \* bound: messages forwarded
    MaxRegister,    \* bound: registrations of devices over HTTP
    MaxFaults,      \* bound: failed updates of a row
    MaxCuts,        \* bound: connections cut off
    MaxRestarts     \* bound: restarts of the server

ASSUME SignalServerAssumption ==
    /\ NoDevice \notin Device
    /\ {Overlapping, OwnIds} \subseteq BOOLEAN
    /\ MaxAnnounce \in Nat \ {0}
    /\ {MaxOnline, MaxOffline, MaxForward, MaxRegister, MaxFaults, MaxCuts,
        MaxRestarts} \subseteq Nat

VARIABLES
    dev,        \* dev[c]: the device whose client opened c
    alive,      \* alive[c]: the client's end of c is up
    cut,        \* connections cut off: nothing tells the server of their end
    call,       \* call[c]: where handle_socket(c) stands
    id,         \* id[c]: its device_id
    made,       \* made[c]: channels made by DeviceOnline on c
    registry,   \* registry[d]: the channel registered for d
    pipe,       \* pipe[ch]: messages in the channel
    carried,    \* carried[ch]: its task still receives
    row,        \* row[d]: server_devices.is_online, "none" without a row
    view,       \* view[c][d]: last word about d on c, since c announced
    accepted,   \* ghost: <<n, ch>>, message n put into a live client's channel
    got,        \* ghost: <<n, c>>, message n that reached the client of c
    drifted,    \* ghost: devices whose row the last update did not write
    offlines, forwards, registers, faults, restarts    \* counters of the bounds

clientVars == <<dev, alive, cut>>
handlerVars == <<call, id, made>>
channelVars == <<registry, pipe, carried>>
ghostVars == <<accepted, got, forwards, offlines>>
rowVars == <<row, drifted, registers, faults>>
vars == <<clientVars, handlerVars, channelVars, view, rowVars, ghostVars,
          restarts>>

Channel == Conn \X (1 .. MaxAnnounce)
NoChannel == <<>>
Made == {ch \in Channel : ch[2] <= made[ch[1]]}

Presence == [kind : {"online", "offline"}, dev : Device]
Signal == [kind : {"signal"}, n : 1 .. MaxForward]

Call ==
    [pc : {"new", "read", "db_on", "insert", "db_off", "done"}]
    \cup [pc : {"tell"}, word : {"online", "offline"}, dev : Device,
          then : {"read", "done"}]

At(c, pc) == call[c].pc = pc
Goto(c, pc) == call' = [call EXCEPT ![c] = [pc |-> pc]]
GoTell(c, word, d, then) ==
    call' = [call EXCEPT ![c] = [pc |-> "tell", word |-> word, dev |-> d, then |-> then]]

\* The devices that the client of c may name.
Named(c) == IF OwnIds THEN {dev[c]} ELSE Device

\* Mutant: an off-by-one in the channel that is registered.
OneFurther(c) == <<c, made[c] + 1>>

\* The channel the last DeviceOnline on c made.
Newest(c) == <<c, made[c]>>

Registered(c) == \E d \in Device : registry[d] # NoChannel /\ registry[d][1] = c

Init ==
    /\ dev = [c \in Conn |-> NoDevice]
    /\ alive = [c \in Conn |-> FALSE]
    /\ cut = {}
    /\ call = [c \in Conn |-> [pc |-> "new"]]
    /\ id = [c \in Conn |-> NoDevice]
    /\ made = [c \in Conn |-> 0]
    /\ registry = [d \in Device |-> NoChannel]
    /\ pipe = [ch \in Channel |-> <<>>]
    /\ carried = [ch \in Channel |-> FALSE]
    /\ row = [d \in Device |-> "none"]
    /\ view = [c \in Conn |-> [d \in Device |-> "unknown"]]
    /\ accepted = {} /\ got = {} /\ drifted = {}
    /\ offlines = 0 /\ forwards = 0 /\ registers = 0
    /\ faults = 0 /\ restarts = 0

-----------------------------------------------------------------------------
(* The client's side. *)

\* A client opens a connection; Overlapping lets it do so while the server
\* still handles an earlier one, whose end it has not seen.
Connect(c, d) ==
    /\ At(c, "new")
    /\ Overlapping \/ \A b \in Conn : dev[b] = d => At(b, "done")
    /\ \A b \in Conn : dev[b] = d => ~ alive[b]
    /\ dev' = [dev EXCEPT ![c] = d]
    /\ alive' = [alive EXCEPT ![c] = TRUE]
    /\ Goto(c, "read")
    /\ UNCHANGED <<cut, id, made, channelVars, view, rowVars, ghostVars, restarts>>

\* The client's end goes away, and what it heard goes with it.
Gone(c) ==
    /\ alive[c]
    /\ alive' = [alive EXCEPT ![c] = FALSE]
    /\ view' = [view EXCEPT ![c] = [d \in Device |-> "unknown"]]
    /\ accepted' = {a \in accepted : a[2][1] # c}
    /\ got' = {g \in got : g[2] # c}
    /\ UNCHANGED <<dev, handlerVars, channelVars, rowVars, offlines, forwards,
                   restarts>>

\* It closes the connection, or its process ends.
Leaves(c) == Gone(c) /\ UNCHANGED cut

\* Its network or its host goes.  The server sends no ping and sets no timeout:
\* the receiver may come to its end some time, or never.
CutOff(c) ==
    /\ Cardinality(cut) < MaxCuts
    /\ cut' = cut \cup {c}
    /\ Gone(c)

\* POST /api/device/register: the row is inserted or updated, offline either
\* way, whatever the registry holds.
RegisterDevice(d) ==
    /\ registers < MaxRegister /\ registers' = registers + 1
    /\ row' = [row EXCEPT ![d] = "off"]
    /\ drifted' = drifted \cup {d}
    /\ UNCHANGED <<clientVars, handlerVars, channelVars, view, faults,
                   ghostVars, restarts>>

-----------------------------------------------------------------------------
(* DeviceOnline *)

\* Up to the first await: the channel, its task, and the handler's device_id,
\* whatever the message says it is.
Announce(c, d) ==
    /\ At(c, "read")
    /\ made[c] < MaxAnnounce /\ Cardinality(Made) < MaxOnline
    /\ made' = [made EXCEPT ![c] = @ + 1]
    /\ id' = [id EXCEPT ![c] = d]
    /\ carried' = [carried EXCEPT ![<<c, made[c] + 1>>] = TRUE]
    /\ Goto(c, "db_on")
    /\ UNCHANGED <<clientVars, registry, pipe, view, rowVars, ghostVars, restarts>>

\* Mutant: the WHERE clause is missing.
UpdateAll(d, flag) ==
    /\ row' = [e \in Device |-> IF row[e] = "none" THEN "none" ELSE flag]
    /\ drifted' = drifted \ {d}
    /\ UNCHANGED <<registers, faults>>

\* UPDATE server_devices: no row, no effect; an error is ignored.
Update(d, flag) ==
    \/ /\ row' = [row EXCEPT ![d] = IF @ = "none" THEN @ ELSE flag]
       /\ drifted' = drifted \ {d}
       /\ UNCHANGED <<registers, faults>>
    \/ /\ faults < MaxFaults /\ faults' = faults + 1
       /\ drifted' = drifted \cup {d}
       /\ UNCHANGED <<row, registers>>

OnlineRow(c) ==
    /\ At(c, "db_on")
    /\ Update(id[c], "on")
    /\ Goto(c, "insert")
    /\ UNCHANGED <<clientVars, id, made, channelVars, view, ghostVars, restarts>>

OnlineInsert(c) ==
    /\ At(c, "insert")
    /\ registry' = [registry EXCEPT ![id[c]] = Newest(c)]
    /\ view' = [view EXCEPT ![c] = [d \in Device |-> "unknown"]]
    /\ GoTell(c, "online", id[c], "read")
    /\ UNCHANGED <<clientVars, id, made, pipe, carried, rowVars, ghostVars, restarts>>

\* Mutant: try_send on a channel of capacity one.
ToIdle(m) ==
    [ch \in Channel |->
        IF carried[ch] /\ (\E d \in Device : registry[d] = ch) /\ pipe[ch] = <<>>
        THEN <<m>> ELSE pipe[ch]]

\* broadcast_server_message, under one read lock: every registered channel
\* whose task still receives.
ToAll(m) ==
    [ch \in Channel |->
        IF carried[ch] /\ \E d \in Device : registry[d] = ch
        THEN Append(pipe[ch], m) ELSE pipe[ch]]

Tell(c) ==
    /\ At(c, "tell")
    /\ pipe' = ToAll([kind |-> call[c].word, dev |-> call[c].dev])
    /\ Goto(c, call[c].then)
    /\ UNCHANGED <<clientVars, id, made, registry, carried, view, rowVars,
                   ghostVars, restarts>>

-----------------------------------------------------------------------------
(* DeviceOffline, and the messages that are forwarded *)

\* The entry of the device that the message names goes, whoever made it; the
\* handler's device_id and the row stay as they are.
GoesOffline(c, d) ==
    /\ At(c, "read")
    /\ offlines < MaxOffline /\ offlines' = offlines + 1
    /\ registry' = [registry EXCEPT ![d] = NoChannel]
    /\ GoTell(c, "offline", d, "read")
    /\ UNCHANGED <<clientVars, id, made, pipe, carried, view, rowVars, accepted,
                   got, forwards, restarts>>

\* forward_to_target: the target is registered and its task receives.
Forward(c, target) ==
    /\ At(c, "read")
    /\ registry[target] # NoChannel /\ carried[registry[target]]
    /\ forwards < MaxForward /\ forwards' = forwards + 1
    /\ LET ch == registry[target] IN
         /\ pipe' = [pipe EXCEPT ![ch] = Append(@, [kind |-> "signal", n |-> forwards'])]
         /\ accepted' = accepted \cup
              (IF alive[ch[1]] THEN {<<forwards', ch>>} ELSE {})
    /\ UNCHANGED <<clientVars, handlerVars, registry, carried, view, rowVars, got,
                   offlines, restarts>>

-----------------------------------------------------------------------------
(* The task of a channel *)

Carry(ch) ==
    /\ carried[ch] /\ alive[ch[1]]
    /\ pipe[ch] # <<>>
    /\ pipe' = [pipe EXCEPT ![ch] = Tail(@)]
    /\ LET c == ch[1]
           m == Head(pipe[ch])
       IN IF m.kind = "signal"
          THEN got' = got \cup {<<m.n, c>>} /\ UNCHANGED view
          ELSE view' = [view EXCEPT ![c][m.dev] = m.kind] /\ UNCHANGED got
    /\ UNCHANGED <<clientVars, handlerVars, registry, carried, rowVars, accepted,
                   forwards, offlines, restarts>>

\* Nobody is at the other end.  A send fails and the task ends, or the buffers
\* between take what is in the channel; it reaches nobody.
CarryFails(ch) ==
    /\ carried[ch] /\ ~ alive[ch[1]]
    /\ pipe[ch] # <<>>
    /\ carried' = [carried EXCEPT ![ch] = FALSE] \/ UNCHANGED carried
    /\ pipe' = [pipe EXCEPT ![ch] = <<>>]
    /\ UNCHANGED <<clientVars, handlerVars, registry, view, rowVars, ghostVars,
                   restarts>>

\* The sending half is dropped: it is neither registered nor about to be.
SenderGone(ch) ==
    /\ \A d \in Device : registry[d] # ch
    /\ ~ (ch = Newest(ch[1]) /\ call[ch[1]].pc \in {"db_on", "insert"})

\* Mutant: the task stops without emptying its channel.
StopsAtOnce(ch) == SenderGone(ch)

\* recv is None: the sending half is gone and the channel is empty.
RecvIsNone(ch) == SenderGone(ch) /\ pipe[ch] = <<>>

CarryEnds(ch) ==
    /\ carried[ch]
    /\ RecvIsNone(ch)
    /\ carried' = [carried EXCEPT ![ch] = FALSE]
    /\ UNCHANGED <<clientVars, handlerVars, registry, pipe, view, rowVars,
                   ghostVars, restarts>>

-----------------------------------------------------------------------------
(* The end of handle_socket *)

\* Mutant: the end of a connection leaves its entry.
KeepsEntry(c) == registry

\* registry.remove(did): by device, whoever registered it.
WithoutDeviceOf(c) == [registry EXCEPT ![id[c]] = NoChannel]

\* The receiver is at its end.  A connection that announced nothing is done.
Ends(c) ==
    /\ At(c, "read") /\ ~ alive[c]
    /\ IF id[c] = NoDevice
       THEN Goto(c, "done") /\ UNCHANGED registry
       ELSE Goto(c, "db_off") /\ registry' = WithoutDeviceOf(c)
    /\ UNCHANGED <<clientVars, id, made, pipe, carried, view, rowVars, ghostVars,
                   restarts>>

OfflineRow(c) ==
    /\ At(c, "db_off")
    /\ Update(id[c], "off")
    /\ GoTell(c, "offline", id[c], "done")
    /\ UNCHANGED <<clientVars, id, made, channelVars, view, ghostVars, restarts>>

\* The server goes down and comes up: the rows are all that is left.
Restart ==
    /\ restarts < MaxRestarts /\ restarts' = restarts + 1
    /\ call' = [c \in Conn |-> [pc |-> IF At(c, "new") THEN "new" ELSE "done"]]
    /\ alive' = [c \in Conn |-> FALSE]
    /\ registry' = [d \in Device |-> NoChannel]
    /\ pipe' = [ch \in Channel |-> <<>>]
    /\ carried' = [ch \in Channel |-> FALSE]
    /\ view' = [c \in Conn |-> [d \in Device |-> "unknown"]]
    /\ accepted' = {} /\ got' = {}
    /\ UNCHANGED <<dev, cut, id, made, rowVars, offlines, forwards>>

-----------------------------------------------------------------------------

Handle(c) ==
    \/ \E d \in Named(c) : Announce(c, d) \/ GoesOffline(c, d)
    \/ OnlineRow(c) \/ OnlineInsert(c) \/ Tell(c)
    \/ \E target \in Device : Forward(c, target)
    \/ Ends(c) \/ OfflineRow(c)

Task(ch) == Carry(ch) \/ CarryFails(ch) \/ CarryEnds(ch)

Client(c) == Leaves(c) \/ CutOff(c) \/ \E d \in Device : Connect(c, d)

Next ==
    \/ \E c \in Conn : Handle(c) \/ Client(c)
    \/ \E ch \in Channel : Task(ch)
    \/ \E d \in Device : RegisterDevice(d)
    \/ Restart

Spec == Init /\ [][Next]_vars

\* The runtime polls every handler that is in the middle of its work and every
\* task.  A client that closed has left finitely many messages unread, so the
\* end of its stream is not put off for ever (SF); clients send what they like.
\* Nothing is claimed of a connection that was cut off: its receiver may wait,
\* and a send on it block, for as long as the network says nothing.
Fairness ==
    /\ \A c \in Conn :
          /\ WF_vars(OnlineRow(c) \/ OnlineInsert(c) \/ Tell(c) \/ OfflineRow(c))
          /\ SF_vars(c \notin cut /\ Ends(c))
    /\ \A ch \in Channel : WF_vars(ch[1] \notin cut /\ Task(ch))

FairSpec == Spec /\ Fairness

-----------------------------------------------------------------------------
(* Properties *)

TypeOK ==
    /\ dev \in [Conn -> Device \cup {NoDevice}]
    /\ alive \in [Conn -> BOOLEAN]
    /\ cut \subseteq Conn
    /\ call \in [Conn -> Call]
    /\ id \in [Conn -> Device \cup {NoDevice}]
    /\ made \in [Conn -> 0 .. MaxAnnounce]
    /\ registry \in [Device -> Channel \cup {NoChannel}]
    /\ pipe \in [Channel -> Seq(Presence \cup Signal)]
    /\ carried \in [Channel -> BOOLEAN]
    /\ row \in [Device -> {"none", "off", "on"}]
    /\ view \in [Conn -> [Device -> {"unknown", "online", "offline"}]]
    /\ accepted \subseteq (1 .. MaxForward) \X Channel
    /\ got \subseteq (1 .. MaxForward) \X Conn
    /\ drifted \subseteq Device
    /\ offlines \in 0 .. MaxOffline /\ forwards \in 0 .. MaxForward
    /\ registers \in 0 .. MaxRegister /\ faults \in 0 .. MaxFaults /\ restarts \in 0 .. MaxRestarts

\* The handler of c is past its loop, or was never in it.
Over(c) ==
    \/ call[c].pc \in {"new", "db_off", "done"}
    \/ At(c, "tell") /\ call[c].then = "done"

\* Removal is by device id, and a handler that ends later than its successor
\* began still leaves nothing behind under the id it had: the registry leads to
\* a connection that is over only by the channel of an id that the connection
\* announced before it announced another, and a client that names its own device
\* is never found under another.
RegistryIsLive ==
    \A d \in Device : registry[d] # NoChannel =>
        LET c == registry[d][1] IN
          /\ id[c] # NoDevice
          /\ registry[d] = Newest(c) => id[c] = d
          /\ id[c] = d => ~ Over(c)
          /\ OwnIds => id[c] = d /\ dev[c] = d

\* A message forward_to_target took reaches the connection that was registered
\* then, or waits for it, for as long as that connection lives: a new DeviceOnline or
\* a DeviceOffline of the target in between loses nothing.
AcceptedNotLost ==
    \A a \in accepted :
        LET n == a[1]
            ch == a[2]
        IN \/ <<n, ch[1]>> \in got
           \/ carried[ch] /\ \E i \in DOMAIN pipe[ch] :
                 pipe[ch][i] = [kind |-> "signal", n |-> n]

\* The sessions of a device follow one another and are its own: while it is
\* registered, the row says online, unless the last update of the row failed or
\* the device was registered anew over HTTP.
RowFollowsRegistry ==
    ~ Overlapping /\ OwnIds =>
        \A d \in Device :
            registry[d] # NoChannel /\ d \notin drifted => row[d] # "off"

\* The messages about d that wait in channel ch.
Unheard(ch, d) ==
    {i \in DOMAIN pipe[ch] : pipe[ch][i].kind # "signal" /\ pipe[ch][i].dev = d}

\* The last word about d that the client of channel ch got or will get.
LastWord(ch, d) ==
    IF Unheard(ch, d) = {} THEN view[ch[1]][d]
    ELSE pipe[ch][CHOOSE i \in Unheard(ch, d) : \A j \in Unheard(ch, d) : j <= i].kind

Status(d) == IF registry[d] = NoChannel THEN "offline" ELSE "online"

\* A handler changed the entry of d and has not told yet.
BeingTold(d) ==
    \E b \in Conn :
        \/ At(b, "db_off") /\ id[b] = d
        \/ At(b, "tell") /\ call[b].dev = d

\* The sessions of a device follow one another, with one DeviceOnline each: what
\* the registered client of e was last told about d, or will be told by what
\* waits in its channel, is what the registry says of d, but for the moment
\* between the change and the telling.
ToldTheTruth ==
    ~ Overlapping /\ OwnIds /\ MaxAnnounce = 1 =>
        \A e, d \in Device :
            LET ch == registry[e] IN
              ch # NoChannel =>
                \/ BeingTold(d) \/ ~ alive[ch[1]]
                \/ LastWord(ch, d) \in {"unknown", Status(d)}

\* The client of e takes d for online, or has still to hear about it.
Believes(e, d) ==
    \/ \E x \in Device : x = d /\ view[e][x] = "online"
    \/ \E ch \in Channel : ch[1] = e /\ Unheard(ch, d) # {}

\* A device whose client closed its connection is not believed online for ever:
\* it comes back, or every client that stays registered hears the last of it.
\* After a connection of the device was cut off this is not promised.
VanishedIsNoticed ==
    \A c \in Conn : \A e \in Conn \ {c} :
        (OwnIds /\ dev[c] # NoDevice /\ ~ alive[c]) ~>
            \/ At(c, "done") /\ ~ Believes(e, dev[c])
            \/ \E b \in Conn : dev[b] = dev[c] /\ (alive[b] \/ b \in cut)
            \/ ~ alive[e] \/ ~ Registered(e)

\* "each connected client stores its SplitSink in the registry when it sends
\* device_online": the entry of a client that is still there goes only by a
\* message of its own.
ConnectedStaysRegistered ==
    [][\A d \in Device :
         LET ch == registry[d] IN
           ch # NoChannel /\ registry'[d] = NoChannel =>
             ~ alive[ch[1]] \/ call'[ch[1]] # call[ch[1]]]_vars
=============================================================================
