------------------------------ MODULE Transport ------------------------------
(***************************************************************************)
(* How the transport layers of a LAN connect (core/src/transport): mDNS    *)
(* discovery, connect_peer, and the SDP server that answers offers.        *)
(*                                                                         *)
(* connect_peer makes a peer connection of its own, posts its offer, takes *)
(* the answer and stores connection and data channel.  The server answers  *)
(* every offer with one peer connection that all its handlers share.       *)
(* call[k] and handler[k] are the k-th connect_peer and the request it     *)
(* posts; an offer is the number of its call, an answer the number of the  *)
(* offer it was made for.  Awaits on what no other task can see (making    *)
(* the connection, its channel and its offer) do not end an action.        *)
(*                                                                         *)
(* External: the program that takes discovered devices from the receiver   *)
(* and calls connect_peer (Spawning: each call in a task of its own;       *)
(* otherwise one after the other); mDNS; and the webrtc crate, which       *)
(* refuses a description its signalling state does not allow.              *)
(***************************************************************************)
EXTENDS Integers, Sequences, FiniteSets

CONSTANTS
    Device,
    HostOf, PortOf,  \* where a device runs, the port of its SDP server
    Spawning,        \* devices whose connect_peer calls overlap
    FoundCap,        \* capacity of the channel of discovered devices
    MaxFound,        \* bound: devices reported by mDNS
    MaxFaults        \* bound: operations that fail, devices that vanish

ASSUME TransportAssumption ==
    /\ Spawning \subseteq Device
    /\ \A d, e \in Device : HostOf[d] = HostOf[e] /\ PortOf[d] = PortOf[e] => d = e
    /\ {FoundCap, MaxFound, MaxFaults} \subseteq Nat

VARIABLES
    up,         \* up[d]: d is there
    found,      \* found[d]: the receiver of discovered devices
    reports,    \* devices reported so far
    call,       \* call[k]: the k-th connect_peer
    started,    \* calls started so far
    handler,    \* handler[k]: the request of call k at an SDP server
    shared,     \* shared[d]: the peer connection of d's SDP server
    peers, channels,   \* the tables of d's TransportLayer: the call that stored
    told,       \* told[d][e]: PeerConnected events d sent for e
    faults,
    broken      \* ghost: servers with an offer nobody will answer

tables == <<peers, channels, told>>
discovery == <<found, reports>>
vars == <<up, discovery, call, started, handler, shared, tables, faults, broken>>

Id == 1 .. MaxFound
None == 0       \* no call, no offer, and the empty answer

Calling == {"check", "post", "wait", "peers", "channels"}
Call ==
    [pc : {"idle"}]
    \cup [pc : Calling \cup {"done", "failed"}, from : Device, to : Device]

\* "reply" holds the answer on its way back, None for the empty one.
Handler ==
    [pc : {"none"}]
    \cup [pc : {"offer", "create"}, at : Device]
    \cup [pc : {"local"}, at : Device, ans : Id]
    \cup [pc : {"reply"}, at : Device, ans : Id \cup {None}]

\* signalling state, the offer set last and the answer created last
Shared == [sig : {"stable", "have_remote"}, remote : Id \cup {None},
           answer : Id \cup {None}]

\* The devices listening where n finds m: m registered 127.0.0.1, which is n's
\* own host, and its port.
ServerOf(n, m) ==
    {s \in Device : HostOf[s] = HostOf[n] /\ PortOf[s] = PortOf[m]}

Goto(k, pc) == call' = [call EXCEPT ![k].pc = pc]
InProgress(k) == call[k].pc \in Calling
Negotiating(k) == handler[k].pc \in {"create", "local"}

\* The caller no longer listens for the response of call k.
Abandoned(k) == call[k].pc # "wait"

Init ==
    /\ up = [d \in Device |-> TRUE]
    /\ found = [d \in Device |-> <<>>] /\ reports = 0
    /\ call = [k \in Id |-> [pc |-> "idle"]] /\ started = 0
    /\ handler = [k \in Id |-> [pc |-> "none"]]
    /\ shared = [d \in Device |-> [sig |-> "stable", remote |-> None, answer |-> None]]
    /\ peers = [d \in Device |-> [e \in Device |-> None]]
    /\ channels = [d \in Device |-> [e \in Device |-> None]]
    /\ told = [d \in Device |-> [e \in Device |-> 0]]
    /\ faults = 0 /\ broken = {}

-----------------------------------------------------------------------------
(* Discovery *)

\* ServiceResolved, for the same device again and again and for n itself;
\* blocking_send waits for room.
Resolved(n, m) ==
    /\ up[n] /\ up[m]
    /\ reports < MaxFound /\ reports' = reports + 1
    /\ Len(found[n]) < FoundCap
    /\ found' = [found EXCEPT ![n] = Append(@, m)]
    /\ UNCHANGED <<up, call, started, handler, shared, tables, faults, broken>>

\* The consumer takes a device and calls connect_peer.
Starts(n) ==
    /\ found[n] # <<>>
    /\ n \in Spawning \/ \A k \in Id : InProgress(k) => call[k].from # n
    /\ found' = [found EXCEPT ![n] = Tail(@)]
    /\ started < MaxFound /\ started' = started + 1
    /\ call' = [call EXCEPT ![started + 1] =
                   [pc |-> "check", from |-> n, to |-> Head(found[n])]]
    /\ UNCHANGED <<up, reports, handler, shared, tables, faults, broken>>

-----------------------------------------------------------------------------
(* connect_peer *)

\* Mutant: contains_key is not asked.
NeverKnown(n, m) == FALSE

Known(n, m) == peers[n][m] # None

\* The table is asked; then connection, handlers, channel and offer are made.
Checks(k) ==
    /\ call[k].pc = "check"
    /\ Goto(k, IF Known(call[k].from, call[k].to) THEN "done" ELSE "post")
    /\ UNCHANGED <<up, discovery, started, handler, shared, tables, faults, broken>>

\* POST /sdp/offer reaches whoever listens there.
Posts(k) ==
    /\ call[k].pc = "post"
    /\ \E s \in ServerOf(call[k].from, call[k].to) :
          up[s] /\ handler' = [handler EXCEPT ![k] = [pc |-> "offer", at |-> s]]
    /\ Goto(k, "wait")
    /\ UNCHANGED <<up, discovery, started, shared, tables, faults, broken>>

Refused(k) ==
    /\ call[k].pc = "post"
    /\ \A s \in ServerOf(call[k].from, call[k].to) : ~ up[s]
    /\ Goto(k, "failed")
    /\ UNCHANGED <<up, discovery, started, handler, shared, tables, faults, broken>>

\* The response: an empty answer is an error, any other one becomes the remote
\* description of the call's own connection.
Answered(k) ==
    /\ call[k].pc = "wait" /\ handler[k].pc = "reply"
    /\ Goto(k, IF handler[k].ans = None THEN "failed" ELSE "peers")
    /\ UNCHANGED <<up, discovery, started, handler, shared, tables, faults, broken>>

\* Mutant: the peer is not stored.
OnlyGoesOn(k) ==
    /\ call[k].pc = "peers"
    /\ Goto(k, "channels")
    /\ UNCHANGED <<up, discovery, started, handler, shared, tables, faults, broken>>

StoresPeer(k) ==
    /\ call[k].pc = "peers"
    /\ peers' = [peers EXCEPT ![call[k].from][call[k].to] = k]
    /\ Goto(k, "channels")
    /\ UNCHANGED <<up, discovery, started, handler, shared, channels, told,
                   faults, broken>>

\* The channel, and PeerConnected.
StoresChannel(k) ==
    /\ call[k].pc = "channels"
    /\ channels' = [channels EXCEPT ![call[k].from][call[k].to] = k]
    /\ told' = [told EXCEPT ![call[k].from][call[k].to] = @ + 1]
    /\ Goto(k, "done")
    /\ UNCHANGED <<up, discovery, started, handler, shared, peers, faults, broken>>

\* One of the ?s: making the offer, sending it, reading the response, setting
\* the answer.  The entry is not made, the connection is dropped.
CallFails(k) ==
    /\ call[k].pc \in {"post", "wait"}
    /\ faults < MaxFaults /\ faults' = faults + 1
    /\ Goto(k, "failed")
    /\ UNCHANGED <<up, discovery, started, handler, shared, tables, broken>>

\* The server the request was posted to has gone and its host says so.
Cut(k) ==
    /\ call[k].pc = "wait" /\ handler[k].pc = "none"
    /\ Goto(k, "failed")
    /\ UNCHANGED <<up, discovery, started, handler, shared, tables, faults, broken>>

-----------------------------------------------------------------------------
(* handle_offer, on the connection all handlers share *)

Replies(k, ans) ==
    handler' = [handler EXCEPT ![k] = [pc |-> "reply", at |-> @.at, ans |-> ans]]

\* set_remote_description has taken the offer of k.
Taken(s, k) ==
    [shared EXCEPT ![s] =
        [sig |-> "have_remote", remote |-> k, answer |-> @.answer]]

TakesOffer(k) ==
    /\ shared' = Taken(handler[k].at, k)
    /\ handler' = [handler EXCEPT ![k] = [pc |-> "create", at |-> @.at]]

\* Mutant: the result of set_remote_description is not looked at.
GoesOnBusy(k) ==
    /\ handler' = [handler EXCEPT ![k] = [pc |-> "create", at |-> @.at]]
    /\ UNCHANGED shared

\* Mutant: a busy connection is waited for.
WaitsBusy(k) == FALSE

\* An offer is open already: the ? gives the empty answer.
RefusesBusy(k) == Replies(k, None) /\ UNCHANGED shared

SetsRemote(k) ==
    /\ handler[k].pc = "offer"
    /\ IF shared[handler[k].at].sig = "stable" THEN TakesOffer(k) ELSE RefusesBusy(k)
    /\ UNCHANGED <<up, discovery, call, started, tables, faults, broken>>

\* Mutant: the answer is made from nothing.
Blank(s) == None

\* What create_answer answers: the remote offer.
AnswerTo(s) == shared[s].remote

CreatesAnswer(k) ==
    /\ handler[k].pc = "create"
    /\ LET s == handler[k].at IN
         IF shared[s].sig = "have_remote"
         THEN /\ shared' = [shared EXCEPT ![s].answer = AnswerTo(s)]
              /\ handler' = [handler EXCEPT ![k] =
                                [pc |-> "local", at |-> s, ans |-> AnswerTo(s)]]
         ELSE Replies(k, None) /\ UNCHANGED shared
    /\ UNCHANGED <<up, discovery, call, started, tables, faults, broken>>

\* Mutant: set_local_description is left out.
KeepsSig(s) == UNCHANGED shared

Settles(s) == shared' = [shared EXCEPT ![s].sig = "stable"]

\* set_local_description wants the answer created last, and an open offer.
SetsLocal(k) ==
    /\ handler[k].pc = "local"
    /\ LET s == handler[k].at IN
         IF shared[s].sig = "have_remote" /\ shared[s].answer = handler[k].ans
         THEN Settles(s) /\ Replies(k, handler[k].ans)
         ELSE UNCHANGED shared /\ Replies(k, None)
    /\ UNCHANGED <<up, discovery, call, started, tables, faults, broken>>

\* One of the three fails for another reason; set_remote_description may fail
\* before or after the offer was taken.  Nothing rolls an open offer back.
HandlerFails(k) ==
    /\ handler[k].pc \in {"offer", "create", "local"}
    /\ faults < MaxFaults /\ faults' = faults + 1
    /\ Replies(k, None)
    /\ LET s == handler[k].at IN
         \/ /\ broken' = IF Negotiating(k) THEN broken \cup {s} ELSE broken
            /\ UNCHANGED shared
         \/ /\ handler[k].pc = "offer" /\ shared[s].sig = "stable"
            /\ shared' = Taken(s, k)
            /\ broken' = broken \cup {s}
    /\ UNCHANGED <<up, discovery, call, started, tables>>

\* The connection of the request is closed: axum drops the handler at its await.
HandlerDropped(k) ==
    /\ handler[k].pc \in {"offer", "create", "local"}
    /\ Abandoned(k)
    /\ broken' = IF Negotiating(k) THEN broken \cup {handler[k].at} ELSE broken
    /\ handler' = [handler EXCEPT ![k] = [pc |-> "none"]]
    /\ UNCHANGED <<up, discovery, call, started, shared, tables, faults>>

-----------------------------------------------------------------------------

\* A device goes: its calls and handlers end, its tables are lost.  It comes
\* back under another device id, that is, as another device.
Vanishes(n) ==
    /\ up[n]
    /\ faults < MaxFaults /\ faults' = faults + 1
    /\ up' = [up EXCEPT ![n] = FALSE]
    /\ found' = [found EXCEPT ![n] = <<>>]
    /\ call' = [k \in Id |-> IF InProgress(k) /\ call[k].from = n
                             THEN [call[k] EXCEPT !.pc = "failed"] ELSE call[k]]
    /\ handler' = [k \in Id |-> IF handler[k].pc # "none" /\ handler[k].at = n
                                THEN [pc |-> "none"] ELSE handler[k]]
    /\ shared' = [shared EXCEPT ![n] = [sig |-> "stable", remote |-> None, answer |-> None]]
    /\ peers' = [peers EXCEPT ![n] = [e \in Device |-> None]]
    /\ channels' = [channels EXCEPT ![n] = [e \in Device |-> None]]
    /\ told' = [told EXCEPT ![n] = [e \in Device |-> 0]]
    /\ broken' = broken \ {n}
    /\ UNCHANGED <<reports, started>>

ConnectPeer(k) ==
    \/ Checks(k) \/ Posts(k) \/ Refused(k) \/ Answered(k)
    \/ StoresPeer(k) \/ StoresChannel(k)

HandleOffer(k) == SetsRemote(k) \/ CreatesAnswer(k) \/ SetsLocal(k)

Fault(k) == CallFails(k) \/ Cut(k) \/ HandlerFails(k) \/ HandlerDropped(k)

Next ==
    \/ \E n, m \in Device : Resolved(n, m)
    \/ \E n \in Device : Starts(n) \/ Vanishes(n)
    \/ \E k \in Id : ConnectPeer(k) \/ HandleOffer(k) \/ Fault(k)

Spec == Init /\ [][Next]_vars

\* The runtimes poll every call and every handler that can go on, and a request
\* arrives or is refused.  Cut is not fair: connect_peer sets no timeout, and a
\* host that vanished says nothing.
FairSpec ==
    Spec /\ \A k \in Id : WF_vars(ConnectPeer(k)) /\ WF_vars(HandleOffer(k))

-----------------------------------------------------------------------------
(* Properties *)

TypeOK ==
    /\ up \in [Device -> BOOLEAN]
    /\ found \in [Device -> Seq(Device)]
    /\ reports \in 0 .. MaxFound /\ started \in 0 .. MaxFound
    /\ call \in [Id -> Call]
    /\ handler \in [Id -> Handler]
    /\ shared \in [Device -> Shared]
    /\ peers \in [Device -> [Device -> Id \cup {None}]]
    /\ channels \in [Device -> [Device -> Id \cup {None}]]
    /\ told \in [Device -> [Device -> Nat]]
    /\ faults \in 0 .. MaxFaults
    /\ broken \subseteq Device

\* Handlers meet on one connection at three awaits each, and no lock orders
\* them: still the answer a caller gets was made for its own offer, and at most
\* one handler of a server has an offer open.
AnswerIsForOffer ==
    /\ \A k \in Id : handler[k].pc = "reply" => handler[k].ans \in {k, None}
    /\ \A j, k \in Id :
          Negotiating(j) /\ Negotiating(k) /\ handler[j].at = handler[k].at => j = k

\* An SDP server is ready for an offer unless a handler is at work on one, or
\* an earlier one failed or was dropped half way.
ReadyForOffers ==
    \A s \in Device : shared[s].sig = "have_remote" =>
        s \in broken \/ \E k \in Id : Negotiating(k) /\ handler[k].at = s

\* PeerConnected is sent of a device that send_data can reach, and so can every
\* device connected_peers lists, or the call that listed it is about to store
\* the channel; both tables hold connections that were answered, or lost with
\* the server, for the device they are listed under.
ConnectedIsReachable ==
    \A n, m \in Device :
        /\ told[n][m] > 0 => channels[n][m] # None
        /\ channels[n][m] # None => peers[n][m] # None
        /\ peers[n][m] # None =>
              channels[n][m] # None \/ call[peers[n][m]].pc = "channels"
        /\ \A k \in {peers[n][m], channels[n][m]} \ {None} :
              /\ call[k].from = n /\ call[k].to = m
              /\ \/ handler[k].pc = "none"
                 \/ handler[k].pc = "reply" /\ handler[k].ans # None

\* Calls made one after the other: however often a device is reported, no offer
\* goes out for a device that is stored already, both tables hold the same
\* connection to it, and PeerConnected is sent for it once.
OneConnectionEach ==
    \A n \in Device \ Spawning : \A m \in Device :
        /\ channels[n][m] \in {None, peers[n][m]}
        /\ told[n][m] <= 1
        /\ \A k \in Id :
              /\ call[k].pc \in {"post", "wait", "peers"}
              /\ call[k].from = n /\ call[k].to = m
              => peers[n][m] = None

\* Every connect_peer comes to an end, unless the server it talks to vanishes.
EveryCallEnds ==
    \A k \in Id :
        call[k].pc # "idle" ~>
            \/ ~ InProgress(k)
            \/ \E s \in ServerOf(call[k].from, call[k].to) : ~ up[s]
=============================================================================
