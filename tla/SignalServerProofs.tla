------------------------- MODULE SignalServerProofs -------------------------
(***************************************************************************)
(* Proofs about SignalServer, in every interleaving of the handlers and     *)
(* with reconnects that overlap, whatever ids the clients announce: types;  *)
(* the registry leads to a handler that is over only by an id which the     *)
(* connection gave up for another; a forwarded message is not lost while    *)
(* its client lives.  And while clients name their own device and its       *)
(* sessions follow one another: the row follows the registry; what clients  *)
(* are told of a device is so.                                              *)
(*                                                                          *)
(* RegistryIsLive is inductive once it is known what a handler's device_id  *)
(* is: set before the channel of a DeviceOnline is registered, and its      *)
(* client's own under OwnIds; and that the registry holds only channels     *)
(* that were made.  The row needs one connection of a device                *)
(* under way at a time, and its row written before it is registered.  What  *)
(* clients hear needs that a registered channel of a live client has its    *)
(* task, that a channel is empty when it is registered, and that what a     *)
(* handler is about to tell is true.                                        *)
(*                                                                          *)
(* Last, the server implements Mailbox: a message is in one place at a time *)
(* and waits in a channel that is carried.                                  *)
(***************************************************************************)
EXTENDS SignalServerMailbox, TLAPS

Announced(c) == made[c] > 0 /\ id[c] # NoDevice

\* What a handler knows of its device: nothing, or what its client announced.
Identity ==
    \A c \in Conn :
        /\ IF At(c, "new") THEN id[c] = NoDevice ELSE dev[c] \in Device
        /\ OwnIds => id[c] \in {NoDevice, dev[c]}
        /\ call[c].pc \in {"db_on", "insert"} => Announced(c)
        /\ At(c, "db_off") => id[c] # NoDevice
        /\ At(c, "tell") /\ OwnIds => call[c].dev = dev[c]

\* A channel the registry may hold for d.
Serves(ch, d) ==
    LET c == ch[1] IN
      /\ ch[2] <= made[c]
      /\ id[c] # NoDevice
      /\ ch = Newest(c) => id[c] = d
      /\ id[c] = d => ~ Over(c)
      /\ OwnIds => id[c] = d /\ dev[c] = d

Live == \A d \in Device : registry[d] # NoChannel => Serves(registry[d], d)

Inv == TypeOK /\ Identity /\ Live

-----------------------------------------------------------------------------
(* Types *)

LEMMA CallTypes ==
    /\ \A pc \in {"new", "read", "db_on", "insert", "db_off", "done"} :
          [pc |-> pc] \in Call
    /\ \A w \in {"online", "offline"}, d \in Device, t \in {"read", "done"} :
          [pc |-> "tell", word |-> w, dev |-> d, then |-> t] \in Call
  BY DEF Call

LEMMA TellCall ==
    ASSUME NEW x \in Call, x.pc = "tell"
    PROVE  /\ x.word \in {"online", "offline"} /\ x.then \in {"read", "done"}
           /\ x.dev \in Device
  BY DEF Call

LEMMA InitInv == Init => Inv
<1> SUFFICES ASSUME Init PROVE Inv
  OBVIOUS
<1> USE SignalServerAssumption
<1>1. TypeOK
  BY CallTypes DEF Init, TypeOK, Presence, Signal
<1>2. Identity
  BY DEF Init, Identity, At
<1>3. Live
  BY DEF Init, Live, NoChannel
<1> QED
  BY <1>1, <1>2, <1>3 DEF Inv

LEMMA NewestChannel ==
    ASSUME TypeOK, NEW c \in Conn, made[c] > 0
    PROVE  Newest(c) \in Channel
  BY SignalServerAssumption DEF TypeOK, Newest, Channel

LEMMA MessageTypes ==
    /\ \A k \in {"online", "offline"}, d \in Device :
          [kind |-> k, dev |-> d] \in Presence
    /\ \A n \in 1 .. MaxForward : [kind |-> "signal", n |-> n] \in Signal
  BY DEF Presence, Signal

LEMMA GoesOnTyped ==
    ASSUME TypeOK, NEW c \in Conn,
           NEW pc \in {"new", "read", "db_on", "insert", "db_off", "done"},
           Goto(c, pc)
    PROVE  call' \in [Conn -> Call]
  BY CallTypes DEF TypeOK, Goto

LEMMA TellsTyped ==
    ASSUME TypeOK, NEW c \in Conn, NEW w \in {"online", "offline"},
           NEW d \in Device, NEW t \in {"read", "done"}, GoTell(c, w, d, t)
    PROVE  call' \in [Conn -> Call]
  BY CallTypes DEF TypeOK, GoTell

\* Where the handlers stand after one began to tell.
LEMMA NowTells ==
    ASSUME TypeOK, NEW c \in Conn, NEW w, NEW d, NEW t, GoTell(c, w, d, t)
    PROVE  \A b \in Conn :
             call'[b] = IF b = c
                        THEN [pc |-> "tell", word |-> w, dev |-> d, then |-> t]
                        ELSE call[b]
  BY DEF TypeOK, GoTell

\* What a client does to any device that it may name, and how it may go.
Announcing(c) == \E d \in Named(c) : Announce(c, d)
GoingOffline(c) == \E d \in Named(c) : GoesOffline(c, d)
Quits(c) == Leaves(c) \/ CutOff(c)

LEMMA HandlerSteps ==
    ASSUME NEW c \in Conn, Handle(c)
    PROVE  \/ Announcing(c) \/ OnlineRow(c) \/ OnlineInsert(c) \/ Tell(c)
           \/ GoingOffline(c) \/ (\E target \in Device : Forward(c, target))
           \/ Ends(c) \/ OfflineRow(c)
  BY DEF Handle, Announcing, GoingOffline

\* What a client may name is a device, under OwnIds its own.
LEMMA NamedDevice ==
    ASSUME TypeOK, Identity, NEW c \in Conn, ~ At(c, "new"), NEW d \in Named(c)
    PROVE  d \in Device /\ (OwnIds => d = dev[c])
  BY DEF Identity, Named

LEMMA BoundsTyped ==
    /\ MaxOffline \in Nat /\ MaxForward \in Nat /\ MaxRegister \in Nat
    /\ MaxFaults \in Nat /\ MaxRestarts \in Nat
  BY SignalServerAssumption

LEMMA CounterSteps ==
    ASSUME NEW max \in Nat, NEW k \in 0 .. max, k < max
    PROVE  k + 1 \in 0 .. max
  OBVIOUS

LEMMA UpdateTyped ==
    ASSUME TypeOK, NEW d \in Device, NEW flag \in {"on", "off"},
           Update(d, flag)
    PROVE  /\ row' \in [Device -> {"none", "off", "on"}]
           /\ drifted' \subseteq Device
           /\ registers' \in 0 .. MaxRegister /\ faults' \in 0 .. MaxFaults
<1>1. CASE row' = [row EXCEPT ![d] = IF @ = "none" THEN @ ELSE flag]
             /\ drifted' = drifted \ {d} /\ UNCHANGED <<registers, faults>>
  BY <1>1 DEF TypeOK
<1>2. CASE /\ faults < MaxFaults /\ faults' = faults + 1
           /\ drifted' = drifted \cup {d} /\ UNCHANGED <<row, registers>>
  <2>1. faults' \in 0 .. MaxFaults
    BY <1>2, BoundsTyped, CounterSteps DEF TypeOK
  <2> QED
    BY <1>2, <2>1 DEF TypeOK
<1> QED
  BY <1>1, <1>2 DEF Update

LEMMA TypeClient ==
    ASSUME TypeOK, NEW c \in Conn, Client(c)
    PROVE  TypeOK'
<1>1. CASE Leaves(c) \/ CutOff(c)
  <2>1. Gone(c) /\ cut' \subseteq Conn
    BY <1>1 DEF Leaves, CutOff, TypeOK
  <2> QED
    BY <2>1 DEF Gone, TypeOK, handlerVars, channelVars, rowVars
<1>2. ASSUME NEW d \in Device, Connect(c, d)
      PROVE  TypeOK'
  <2>1. call' \in [Conn -> Call]
    BY <1>2, GoesOnTyped DEF Connect
  <2> QED
    BY <1>2, <2>1 DEF Connect, TypeOK, channelVars, rowVars, ghostVars
<1> QED
  BY <1>1, <1>2 DEF Client

LEMMA TypeAnnounce ==
    ASSUME TypeOK, Identity, NEW c \in Conn,
           (\E d \in Named(c) : Announce(c, d)) \/ OnlineRow(c) \/ OnlineInsert(c)
    PROVE  TypeOK'
<1>1. At(c, "db_on") \/ At(c, "insert") => id[c] \in Device
  BY DEF Identity, Announced, At, TypeOK
<1>2. ASSUME NEW d \in Named(c), Announce(c, d)
      PROVE  TypeOK'
  <2>0. d \in Device
    BY <1>2, NamedDevice DEF Announce, At
  <2>1. call' \in [Conn -> Call]
    BY <1>2, GoesOnTyped DEF Announce
  <2>2. made' \in [Conn -> 0 .. MaxAnnounce]
    BY <1>2, SignalServerAssumption DEF Announce, TypeOK
  <2>3. carried' \in [Channel -> BOOLEAN]
    BY <1>2 DEF Announce, TypeOK
  <2> QED
    BY <1>2, <2>0, <2>1, <2>2, <2>3
    DEF Announce, TypeOK, clientVars, rowVars, ghostVars
<1>3. CASE OnlineRow(c)
  <2>1. call' \in [Conn -> Call]
    BY <1>3, GoesOnTyped DEF OnlineRow
  <2>2. /\ row' \in [Device -> {"none", "off", "on"}]
        /\ drifted' \subseteq Device
        /\ registers' \in 0 .. MaxRegister /\ faults' \in 0 .. MaxFaults
    BY <1>1, <1>3, UpdateTyped DEF OnlineRow
  <2> QED
    BY <1>3, <2>1, <2>2 DEF OnlineRow, TypeOK, clientVars, channelVars, ghostVars
<1>4. CASE OnlineInsert(c)
  <2>1. call' \in [Conn -> Call]
    BY <1>1, <1>4, TellsTyped DEF OnlineInsert
  <2>2. Newest(c) \in Channel
    BY <1>4, NewestChannel DEF OnlineInsert, Identity, Announced, At
  <2>3. registry' \in [Device -> Channel \cup {NoChannel}]
    BY <1>4, <2>2 DEF OnlineInsert, TypeOK
  <2>4. view' \in [Conn -> [Device -> {"unknown", "online", "offline"}]]
    BY <1>4 DEF OnlineInsert, TypeOK
  <2> QED
    BY <1>4, <2>1, <2>3, <2>4 DEF OnlineInsert, TypeOK, clientVars, rowVars, ghostVars
<1> QED
  BY <1>2, <1>3, <1>4

LEMMA TypeTell ==
    ASSUME TypeOK, Identity, NEW c \in Conn,
           \/ Tell(c) \/ \E d \in Named(c) : GoesOffline(c, d)
           \/ \E target \in Device : Forward(c, target)
    PROVE  TypeOK'
<1>2. CASE Tell(c)
  <2>1. /\ call[c].word \in {"online", "offline"} /\ call[c].then \in {"read", "done"}
        /\ call[c].dev \in Device
    BY <1>2, TellCall DEF Tell, At, TypeOK
  <2>2. call' \in [Conn -> Call]
    BY <1>2, <2>1, GoesOnTyped DEF Tell
  <2>3. [kind |-> call[c].word, dev |-> call[c].dev] \in Presence \cup Signal
    BY <1>2, <2>1, MessageTypes DEF Tell
  <2>4. pipe' \in [Channel -> Seq(Presence \cup Signal)]
    BY <1>2, <2>3 DEF Tell, ToAll, TypeOK
  <2> QED
    BY <1>2, <2>2, <2>4 DEF Tell, TypeOK, clientVars, rowVars, ghostVars
<1>3. ASSUME NEW d \in Named(c), GoesOffline(c, d)
      PROVE  TypeOK'
  <2>0. d \in Device
    BY <1>3, NamedDevice DEF GoesOffline, At
  <2>1. call' \in [Conn -> Call]
    BY <1>3, <2>0, TellsTyped DEF GoesOffline
  <2>2. offlines' \in 0 .. MaxOffline
    BY <1>3, BoundsTyped, CounterSteps DEF GoesOffline, TypeOK
  <2>3. registry' \in [Device -> Channel \cup {NoChannel}]
    BY <1>3 DEF GoesOffline, TypeOK
  <2> QED
    BY <1>3, <2>1, <2>2, <2>3 DEF GoesOffline, TypeOK, clientVars, rowVars
<1>4. ASSUME NEW target \in Device, Forward(c, target)
      PROVE  TypeOK'
  <2> DEFINE ch == registry[target]
  <2>1. ch \in Channel
    BY <1>4 DEF Forward, TypeOK
  <2>2. forwards' \in 1 .. MaxForward
    BY <1>4, SignalServerAssumption DEF Forward, TypeOK
  <2>3. [kind |-> "signal", n |-> forwards'] \in Presence \cup Signal
    BY <2>2, MessageTypes
  <2>4. pipe' \in [Channel -> Seq(Presence \cup Signal)]
    BY <1>4, <2>1, <2>3 DEF Forward, TypeOK
  <2>5. accepted' \subseteq (1 .. MaxForward) \X Channel
    BY <1>4, <2>1, <2>2 DEF Forward, TypeOK
  <2> QED
    BY <1>4, <2>2, <2>4, <2>5
    DEF Forward, TypeOK, clientVars, handlerVars, rowVars
<1> QED
  BY <1>2, <1>3, <1>4

LEMMA TypeEnd ==
    ASSUME TypeOK, Identity, NEW c \in Conn, Ends(c) \/ OfflineRow(c)
    PROVE  TypeOK'
<1>1. CASE Ends(c)
  <2>1. call' \in [Conn -> Call]
    BY <1>1, GoesOnTyped DEF Ends
  <2>2. registry' \in [Device -> Channel \cup {NoChannel}]
    BY <1>1 DEF Ends, WithoutDeviceOf, TypeOK
  <2> QED
    BY <1>1, <2>1, <2>2 DEF Ends, TypeOK, clientVars, rowVars, ghostVars
<1>2. CASE OfflineRow(c)
  <2>2. id[c] \in Device
    BY <1>2 DEF OfflineRow, Identity, TypeOK
  <2>1. call' \in [Conn -> Call]
    BY <1>2, <2>2, TellsTyped DEF OfflineRow
  <2>3. /\ row' \in [Device -> {"none", "off", "on"}]
        /\ drifted' \subseteq Device
        /\ registers' \in 0 .. MaxRegister /\ faults' \in 0 .. MaxFaults
    BY <1>2, <2>2, UpdateTyped DEF OfflineRow
  <2> QED
    BY <1>2, <2>1, <2>3 DEF OfflineRow, TypeOK, clientVars, channelVars, ghostVars
<1> QED
  BY <1>1, <1>2

LEMMA TypeTask ==
    ASSUME TypeOK, NEW ch \in Channel, Task(ch)
    PROVE  TypeOK'
<1>1. CASE Carry(ch)
  <2> DEFINE m == Head(pipe[ch])
  <2>1. m \in Presence \cup Signal /\ Tail(pipe[ch]) \in Seq(Presence \cup Signal)
    BY <1>1 DEF Carry, TypeOK
  <2>2. pipe' \in [Channel -> Seq(Presence \cup Signal)]
    BY <1>1, <2>1 DEF Carry, TypeOK
  <2>3. ch[1] \in Conn
    BY DEF Channel
  <2>4. got' \subseteq (1 .. MaxForward) \X Conn
    BY <1>1, <2>1, <2>3 DEF Carry, TypeOK, Presence, Signal
  <2>5. view' \in [Conn -> [Device -> {"unknown", "online", "offline"}]]
    <3>1. CASE m.kind = "signal"
      BY <1>1, <3>1 DEF Carry, TypeOK
    <3>2. CASE m.kind # "signal"
      <4>1. m.kind \in {"online", "offline"} /\ m.dev \in Device
        BY <2>1, <3>2 DEF Presence, Signal
      <4>2. view' = [view EXCEPT ![ch[1]][m.dev] = m.kind]
        BY <1>1, <3>2 DEF Carry
      <4> QED
        BY <2>3, <4>1, <4>2 DEF TypeOK
    <3> QED
      BY <3>1, <3>2
  <2> QED
    BY <1>1, <2>2, <2>4, <2>5
    DEF Carry, TypeOK, clientVars, handlerVars, rowVars
<1>2. CASE CarryFails(ch)
  <2>1. pipe' \in [Channel -> Seq(Presence \cup Signal)]
    BY <1>2 DEF CarryFails, TypeOK
  <2>2. carried' \in [Channel -> BOOLEAN]
    <3>1. CASE carried' = [carried EXCEPT ![ch] = FALSE]
      BY <3>1 DEF TypeOK
    <3>2. CASE UNCHANGED carried
      BY <3>2 DEF TypeOK
    <3> QED
      BY <1>2, <3>1, <3>2 DEF CarryFails
  <2> QED
    BY <1>2, <2>1, <2>2 DEF CarryFails, TypeOK, clientVars, handlerVars, rowVars, ghostVars
<1>3. CASE CarryEnds(ch)
  BY <1>3 DEF CarryEnds, TypeOK, clientVars, handlerVars, rowVars, ghostVars
<1> QED
  BY <1>1, <1>2, <1>3 DEF Task

LEMMA TypeRest ==
    ASSUME TypeOK, Restart \/ \E d \in Device : RegisterDevice(d)
    PROVE  TypeOK'
<1>1. CASE Restart
  <2>1. call' \in [Conn -> Call]
    BY <1>1, CallTypes DEF Restart
  <2> QED
    BY <1>1, <2>1, SignalServerAssumption DEF Restart, TypeOK, rowVars
<1>2. ASSUME NEW d \in Device, RegisterDevice(d)
      PROVE  TypeOK'
  <2>1. registers' \in 0 .. MaxRegister
    BY <1>2, BoundsTyped, CounterSteps DEF RegisterDevice, TypeOK
  <2> QED
    BY <1>2, <2>1
    DEF RegisterDevice, TypeOK, clientVars, handlerVars, channelVars, ghostVars
<1> QED
  BY <1>1, <1>2

LEMMA TypeNext == TypeOK /\ Identity /\ [Next]_vars => TypeOK'
<1> SUFFICES ASSUME TypeOK, Identity, [Next]_vars PROVE TypeOK'
  OBVIOUS
<1>1. CASE UNCHANGED vars
  BY <1>1 DEF vars, clientVars, handlerVars, channelVars, rowVars, ghostVars, TypeOK
<1> QED
  BY <1>1, TypeClient, TypeAnnounce, TypeTell, TypeEnd, TypeTask, TypeRest
  DEF Next, Handle

-----------------------------------------------------------------------------
(* What a handler knows of its device *)

\* The steps of a handler that reads, tells or is done change no device.
LEMMA GoesOnIdentity ==
    ASSUME TypeOK, Identity, NEW c \in Conn, ~ At(c, "new"),
           NEW x, call' = [call EXCEPT ![c] = x],
           x.pc \in {"read", "tell", "done"},
           x.pc = "tell" /\ OwnIds => x.dev = dev[c],
           UNCHANGED <<dev, id, made>>
    PROVE  Identity'
<1>1. \A b \in Conn : call'[b] = IF b = c THEN x ELSE call[b]
  BY DEF TypeOK
<1> QED
  BY <1>1 DEF Identity, At, Announced

LEMMA IdentityHandle ==
    ASSUME TypeOK, Identity, NEW c \in Conn, Handle(c)
    PROVE  Identity'
<1>1. ASSUME NEW d \in Named(c), Announce(c, d)
      PROVE  Identity'
  <2>0. d \in Device /\ (OwnIds => d = dev[c]) /\ d # NoDevice
    BY <1>1, NamedDevice, SignalServerAssumption DEF Announce, At
  <2>1. \A b \in Conn :
           /\ call'[b] = IF b = c THEN [pc |-> "db_on"] ELSE call[b]
           /\ id'[b] = IF b = c THEN d ELSE id[b]
           /\ made'[b] = IF b = c THEN made[c] + 1 ELSE made[b]
    BY <1>1 DEF Announce, Goto, TypeOK
  <2>2. made[c] + 1 > 0
    BY SignalServerAssumption DEF TypeOK
  <2>3. At(c, "read") /\ dev' = dev
    BY <1>1 DEF Announce, clientVars
  <2> QED
    BY <2>0, <2>1, <2>2, <2>3 DEF Identity, At, Announced
<1>2. CASE OnlineRow(c)
  <2>1. \A b \in Conn : call'[b] = IF b = c THEN [pc |-> "insert"] ELSE call[b]
    BY <1>2 DEF OnlineRow, Goto, TypeOK
  <2>2. At(c, "db_on") /\ UNCHANGED <<dev, id, made>>
    BY <1>2 DEF OnlineRow, clientVars
  <2> QED
    BY <2>1, <2>2 DEF Identity, At, Announced
<1>3. CASE OnlineInsert(c)
  <2>1. OwnIds => id[c] = dev[c]
    BY <1>3 DEF OnlineInsert, Identity, Announced, At
  <2> QED
    BY <1>3, <2>1, GoesOnIdentity DEF OnlineInsert, GoTell, At, clientVars
<1>4. CASE Tell(c)
  <2>1. call[c].then \in {"read", "done"}
    BY <1>4, TellCall DEF Tell, At, TypeOK
  <2> QED
    BY <1>4, <2>1, GoesOnIdentity DEF Tell, Goto, At, clientVars
<1>5. ASSUME NEW d \in Named(c), GoesOffline(c, d)
      PROVE  Identity'
  <2>1. OwnIds => d = dev[c]
    BY <1>5, NamedDevice DEF GoesOffline, At
  <2> QED
    BY <1>5, <2>1, GoesOnIdentity DEF GoesOffline, GoTell, At, clientVars
<1>6. CASE \E target \in Device : Forward(c, target)
  BY <1>6 DEF Forward, Identity, At, Announced, clientVars, handlerVars
<1>7. CASE Ends(c)
  <2>1. At(c, "read") /\ UNCHANGED <<dev, id, made>>
    BY <1>7 DEF Ends, clientVars
  <2>2. CASE id[c] = NoDevice
    BY <1>7, <2>1, <2>2, GoesOnIdentity DEF Ends, Goto, At
  <2>3. CASE id[c] # NoDevice
    <3>1. \A b \in Conn : call'[b] = IF b = c THEN [pc |-> "db_off"] ELSE call[b]
      BY <1>7, <2>3 DEF Ends, Goto, TypeOK
    <3> QED
      BY <2>1, <2>3, <3>1 DEF Identity, At, Announced
  <2> QED
    BY <2>2, <2>3
<1>8. CASE OfflineRow(c)
  <2>1. OwnIds => id[c] = dev[c]
    BY <1>8 DEF OfflineRow, Identity, At
  <2> QED
    BY <1>8, <2>1, GoesOnIdentity DEF OfflineRow, GoTell, At, clientVars
<1> QED
  BY <1>1, <1>2, <1>3, <1>4, <1>5, <1>6, <1>7, <1>8 DEF Handle

LEMMA IdentityNext == TypeOK /\ Identity /\ [Next]_vars => Identity'
<1> SUFFICES ASSUME TypeOK, Identity, [Next]_vars PROVE Identity'
  OBVIOUS
<1>1. ASSUME NEW c \in Conn, Leaves(c) \/ CutOff(c)
      PROVE  Identity'
  BY <1>1 DEF Leaves, CutOff, Gone, handlerVars, Identity, At, Announced
<1>2. ASSUME NEW c \in Conn, NEW d \in Device, Connect(c, d)
      PROVE  Identity'
  <2>1. \A b \in Conn :
           /\ call'[b] = IF b = c THEN [pc |-> "read"] ELSE call[b]
           /\ dev'[b] = IF b = c THEN d ELSE dev[b]
    BY <1>2 DEF Connect, Goto, TypeOK
  <2>2. At(c, "new") /\ UNCHANGED <<id, made>>
    BY <1>2 DEF Connect
  <2> QED
    BY <2>1, <2>2 DEF Identity, At, Announced
<1>3. ASSUME NEW ch \in Channel, Task(ch)
      PROVE  Identity'
  BY <1>3 DEF Task, Carry, CarryFails, CarryEnds, clientVars, handlerVars,
              Identity, At, Announced
<1>4. ASSUME NEW d \in Device, RegisterDevice(d)
      PROVE  Identity'
  BY <1>4 DEF RegisterDevice, clientVars, handlerVars, Identity, At, Announced
<1>5. CASE Restart
  <2>1. \A b \in Conn : call'[b].pc = IF At(b, "new") THEN "new" ELSE "done"
    BY <1>5 DEF Restart
  <2>2. UNCHANGED <<dev, id, made>>
    BY <1>5 DEF Restart
  <2> QED
    BY <2>1, <2>2 DEF Identity, At, Announced
<1>6. CASE UNCHANGED vars
  BY <1>6 DEF vars, clientVars, handlerVars, Identity, At, Announced
<1> QED
  BY <1>1, <1>2, <1>3, <1>4, <1>5, <1>6, IdentityHandle DEF Next, Client

-----------------------------------------------------------------------------
(* The registry *)

\* A step that adds no entry, and leaves the channels of the entries fit for them.
LEMMA StaysLive ==
    ASSUME TypeOK, Live,
           \A d \in Device : registry'[d] \in {registry[d], NoChannel},
           \A d \in Device, ch \in Channel :
               Serves(ch, d) /\ registry'[d] = ch => Serves(ch, d)'
    PROVE  Live'
<1>1. SUFFICES ASSUME NEW d \in Device, registry'[d] # NoChannel,
                      NEW ch, ch = registry'[d]
               PROVE  Serves(ch, d)'
  BY <1>1 DEF Live, Serves, Over, At, Newest
<1>2. registry'[d] = registry[d] /\ ch \in Channel
  BY <1>1 DEF TypeOK
<1> QED
  BY <1>1, <1>2 DEF Live

\* A handler goes on to a place where it still serves its device.
LEMMA GoesOnLive ==
    ASSUME TypeOK, Live, NEW c \in Conn,
           NEW x, call' = [call EXCEPT ![c] = x],
           \/ x.pc \in {"read", "db_on", "insert"} \/ (x.pc = "tell" /\ x.then # "done")
           \/ Over(c),
           UNCHANGED <<dev, registry, id, made>>
    PROVE  Live'
<1>1. \A b \in Conn : call'[b] = IF b = c THEN x ELSE call[b]
  BY DEF TypeOK
<1>2. \A b \in Conn : Over(b)' => Over(b)
  BY <1>1 DEF Over, At
<1>3. \A d \in Device, ch \in Channel : Serves(ch, d) => Serves(ch, d)'
  BY <1>2 DEF Serves, Newest, Channel
<1> QED
  BY <1>3, StaysLive

\* Another id is announced: the entries there are under ids the connection
\* leaves, or under the one id it may name.
LEMMA LiveAnnounce ==
    ASSUME TypeOK, Identity, Live, NEW c \in Conn, NEW e \in Named(c),
           Announce(c, e)
    PROVE  Live'
<1>1. \A b \in Conn :
         /\ call'[b] = IF b = c THEN [pc |-> "db_on"] ELSE call[b]
         /\ id'[b] = IF b = c THEN e ELSE id[b]
         /\ made'[b] = IF b = c THEN made[c] + 1 ELSE made[b]
  BY DEF Announce, Goto, TypeOK
<1>2. e \in Device /\ (OwnIds => e = dev[c]) /\ e # NoDevice
  BY NamedDevice, SignalServerAssumption DEF Announce, At
<1>3. UNCHANGED <<dev, registry>> /\ \A b \in Conn : made[b] \in Nat
  BY DEF Announce, clientVars, TypeOK
<1>4. ASSUME NEW d \in Device, NEW ch \in Channel, Serves(ch, d)
      PROVE  Serves(ch, d)'
  <2>1. CASE ch[1] = c
    <3>1. ~ Over(c)'
      BY <1>1 DEF Over, At
    <3>2. ch[2] \in Nat /\ ch[2] <= made[c]
      BY <1>4, <2>1 DEF Serves, Channel
    <3>3. ch # Newest(c)' /\ ch[2] <= made'[c]
      BY <1>1, <1>3, <3>2 DEF Newest
    <3>4. id'[c] = e /\ (OwnIds => e = d /\ dev'[c] = d)
      BY <1>1, <1>2, <1>3, <1>4, <2>1 DEF Serves
    <3> QED
      BY <1>2, <2>1, <3>1, <3>3, <3>4 DEF Serves
  <2>2. CASE ch[1] # c
    <3>1. ch[1] \in Conn
      BY DEF Channel
    <3>2. /\ id'[ch[1]] = id[ch[1]] /\ made'[ch[1]] = made[ch[1]]
          /\ call'[ch[1]] = call[ch[1]] /\ dev' = dev
      BY <1>1, <1>3, <2>2, <3>1
    <3> QED
      BY <1>4, <3>2 DEF Serves, Newest, Over, At
  <2> QED
    BY <2>1, <2>2
<1> QED
  BY <1>3, <1>4, StaysLive

LEMMA LiveInsert ==
    ASSUME TypeOK, Identity, Live, NEW c \in Conn, OnlineInsert(c)
    PROVE  Live'
<1>1. \A b \in Conn :
         call'[b] = IF b = c
                    THEN [pc |-> "tell", word |-> "online", dev |-> id[c], then |-> "read"]
                    ELSE call[b]
  BY NowTells DEF OnlineInsert
<1>2. \A d \in Device :
         registry'[d] = IF d = id[c] THEN <<c, made[c]>> ELSE registry[d]
  BY DEF OnlineInsert, TypeOK, Newest
<1>3. /\ id[c] \in Device /\ id[c] # NoDevice /\ (OwnIds => id[c] = dev[c])
      /\ UNCHANGED <<dev, id, made>> /\ made[c] \in Nat
  BY DEF OnlineInsert, Identity, At, Announced, clientVars, TypeOK
<1>4. \A b \in Conn : Over(b)' => Over(b)
  BY <1>1 DEF Over, At
<1>5. \A d \in Device, ch \in Channel : Serves(ch, d) => Serves(ch, d)'
  BY <1>3, <1>4 DEF Serves, Newest, Channel
<1>6. Serves(<<c, made[c]>>, id[c])'
  <2>1. ~ Over(c)'
    BY <1>1 DEF Over, At
  <2> QED
    BY <1>3, <2>1 DEF Serves
<1>7. ASSUME NEW d \in Device, NEW ch, ch = registry'[d], ch # NoChannel
      PROVE  Serves(ch, d)'
  <2>1. CASE d = id[c]
    <3>1. ch = <<c, made[c]>>
      BY <1>2, <1>7, <2>1
    <3> QED
      BY <1>3, <1>6, <2>1, <3>1
  <2>2. CASE d # id[c]
    <3>1. ch = registry[d] /\ ch \in Channel
      BY <1>2, <1>7, <2>2 DEF TypeOK
    <3> QED
      BY <1>5, <1>7, <3>1 DEF Live
  <2> QED
    BY <2>1, <2>2
<1> QED
  BY <1>7 DEF Live, Serves, Newest, Over, At

LEMMA LiveHandle ==
    ASSUME TypeOK, Identity, Live, NEW c \in Conn, Handle(c)
    PROVE  Live'
<1>2. CASE OnlineRow(c)
  BY <1>2, GoesOnLive DEF OnlineRow, Goto, clientVars, channelVars
<1>4. CASE Tell(c)
  <2>1. call[c].then \in {"read", "done"}
    BY <1>4, TellCall DEF Tell, At, TypeOK
  <2> QED
    BY <1>4, <2>1, GoesOnLive DEF Tell, Goto, Over, At, clientVars
<1>5. ASSUME NEW e \in Named(c), GoesOffline(c, e)
      PROVE  Live'
  <2>1. \A b \in Conn :
           call'[b] = IF b = c
                      THEN [pc |-> "tell", word |-> "offline", dev |-> e, then |-> "read"]
                      ELSE call[b]
    BY <1>5, NowTells DEF GoesOffline
  <2>2. UNCHANGED <<dev, id, made>>
    BY <1>5 DEF GoesOffline, clientVars
  <2>3. \A b \in Conn : Over(b)' => Over(b)
    BY <2>1 DEF Over, At
  <2>4. \A d \in Device, ch \in Channel : Serves(ch, d) => Serves(ch, d)'
    BY <2>2, <2>3 DEF Serves, Newest, Channel
  <2>5. \A d \in Device : registry'[d] \in {registry[d], NoChannel}
    BY <1>5 DEF GoesOffline, TypeOK
  <2> QED
    BY <2>4, <2>5, StaysLive
<1>6. CASE \E target \in Device : Forward(c, target)
  BY <1>6 DEF Forward, clientVars, handlerVars, Live, Serves, Newest, Over, At
<1>7. CASE Ends(c)
  <2>1. UNCHANGED <<dev, id, made>>
    BY <1>7 DEF Ends, clientVars
  <2>2. \A d \in Device : registry'[d] \in {registry[d], NoChannel}
    BY <1>7 DEF Ends, WithoutDeviceOf, TypeOK
  <2>3. \A b \in Conn : b # c => call'[b] = call[b]
    BY <1>7 DEF Ends, Goto, TypeOK
  <2>4. \A d \in Device : id[c] = d => registry'[d] = NoChannel
    BY <1>7, SignalServerAssumption DEF Ends, WithoutDeviceOf, TypeOK
  <2>5. ASSUME NEW d \in Device, NEW ch \in Channel, Serves(ch, d), registry'[d] = ch
        PROVE  Serves(ch, d)'
    <3>1. ch[1] \in Conn /\ ch # NoChannel
      BY DEF Channel, NoChannel
    <3>2. CASE ch[1] = c
      BY <2>1, <2>4, <2>5, <3>1, <3>2 DEF Serves, Newest
    <3>3. CASE ch[1] # c
      BY <2>1, <2>3, <2>5, <3>1, <3>3 DEF Serves, Newest, Over, At
    <3> QED
      BY <3>2, <3>3
  <2> QED
    BY <2>2, <2>5, StaysLive
<1>8. CASE OfflineRow(c)
  <2>1. call' = [call EXCEPT ![c] =
                   [pc |-> "tell", word |-> "offline", dev |-> id[c], then |-> "done"]]
    BY <1>8 DEF OfflineRow, GoTell
  <2>2. Over(c) /\ UNCHANGED <<dev, registry, id, made>>
    BY <1>8 DEF OfflineRow, Over, At, clientVars, channelVars
  <2> QED
    BY <2>1, <2>2, GoesOnLive
<1> QED
  BY <1>2, <1>4, <1>5, <1>6, <1>7, <1>8, LiveAnnounce, LiveInsert DEF Handle

LEMMA LiveNext ==
    TypeOK /\ Identity /\ Live /\ [Next]_vars => Live'
<1> SUFFICES ASSUME TypeOK, Identity, Live, [Next]_vars
             PROVE  Live'
  OBVIOUS
<1>1. ASSUME NEW c \in Conn, Leaves(c) \/ CutOff(c)
      PROVE  Live'
  BY <1>1 DEF Leaves, CutOff, Gone, handlerVars, channelVars, Live, Serves, Newest, Over, At
<1>2. ASSUME NEW c \in Conn, NEW d \in Device, Connect(c, d)
      PROVE  Live'
  <2>1. \A b \in Conn : b # c => call'[b] = call[b] /\ dev'[b] = dev[b]
    BY <1>2 DEF Connect, Goto, TypeOK
  <2>2. id[c] = NoDevice /\ UNCHANGED <<id, made, registry>>
    BY <1>2 DEF Connect, channelVars, Identity
  <2>3. ASSUME NEW e \in Device, NEW ch \in Channel, Serves(ch, e)
        PROVE  Serves(ch, e)'
    <3>1. ch[1] \in Conn /\ ch[1] # c
      BY <2>2, <2>3 DEF Serves, Channel
    <3> QED
      BY <2>1, <2>2, <2>3, <3>1 DEF Serves, Newest, Over, At
  <2> QED
    BY <2>2, <2>3, StaysLive
<1>3. ASSUME NEW ch \in Channel, Task(ch)
      PROVE  Live'
  BY <1>3 DEF Task, Carry, CarryFails, CarryEnds, clientVars, handlerVars,
              Live, Serves, Newest, Over, At
<1>4. ASSUME NEW d \in Device, RegisterDevice(d)
      PROVE  Live'
  BY <1>4 DEF RegisterDevice, clientVars, handlerVars, channelVars,
              Live, Serves, Newest, Over, At
<1>5. CASE Restart
  BY <1>5 DEF Restart, Live
<1>6. CASE UNCHANGED vars
  BY <1>6 DEF vars, clientVars, handlerVars, channelVars, Live, Serves, Newest, Over, At
<1> QED
  BY <1>1, <1>2, <1>3, <1>4, <1>5, <1>6, LiveHandle DEF Next, Client

-----------------------------------------------------------------------------

LEMMA InvNext == Inv /\ [Next]_vars => Inv'
  BY TypeNext, IdentityNext, LiveNext DEF Inv

LEMMA InvHolds == Spec => []Inv
  BY InitInv, InvNext, PTL DEF Spec

\* Every reachable state is well typed, whatever the number of devices and
\* connections.
THEOREM TypeCorrect == Spec => []TypeOK
  BY InvHolds, PTL DEF Inv

\* Whatever ids clients announce, and with any number of connections of one device
\* that overlap in any way, an entry of the registry leads to a handler that is
\* over only under an id that its connection gave up for another; where clients
\* name their own device, it leads to a handler of this device that still runs.
THEOREM RegistryStaysLive == Spec => []RegistryIsLive
<1>1. Live => RegistryIsLive
  BY DEF Live, Serves, RegistryIsLive
<1> QED
  BY <1>1, InvHolds, PTL DEF Inv

-----------------------------------------------------------------------------
(* Messages that were taken *)

\* Message n waits in channel ch.
Waits(n, ch) ==
    carried[ch] /\ \E i \in DOMAIN pipe[ch] : pipe[ch][i] = [kind |-> "signal", n |-> n]

\* Only live clients are owed a message.
AcceptedLive == \A a \in accepted : alive[a[2][1]]

KeepsMessages == AcceptedLive /\ AcceptedNotLost

\* A step that keeps what waits, and what was got.
LEMMA MessagesKept ==
    ASSUME TypeOK, KeepsMessages, accepted' = accepted, got \subseteq got',
           \A a \in accepted : alive'[a[2][1]],
           \A n \in 1 .. MaxForward, ch \in Channel :
               Waits(n, ch) /\ alive[ch[1]] => Waits(n, ch)' \/ <<n, ch[1]>> \in got'
    PROVE  KeepsMessages'
<1>1. ASSUME NEW a \in accepted
      PROVE  <<a[1], a[2][1]>> \in got' \/ Waits(a[1], a[2])'
  <2>1. a[1] \in 1 .. MaxForward /\ a[2] \in Channel
    BY DEF TypeOK
  <2>2. alive[a[2][1]] /\ (<<a[1], a[2][1]>> \in got \/ Waits(a[1], a[2]))
    BY DEF KeepsMessages, AcceptedLive, AcceptedNotLost, Waits
  <2> QED
    BY <2>1, <2>2
<1> QED
  BY <1>1 DEF KeepsMessages, AcceptedLive, AcceptedNotLost, Waits

LEMMA TailKeeps ==
    ASSUME NEW S, NEW s \in Seq(S), s # <<>>, NEW i \in DOMAIN s
    PROVE  s[i] = Head(s) \/ \E j \in DOMAIN Tail(s) : Tail(s)[j] = s[i]
<1>1. CASE i = 1
  BY <1>1
<1>2. CASE i # 1
  <2>1. i - 1 \in DOMAIN Tail(s) /\ Tail(s)[i - 1] = s[i]
    BY <1>2
  <2> QED
    BY <2>1
<1> QED
  BY <1>1, <1>2

LEMMA MessagesCarry ==
    ASSUME TypeOK, KeepsMessages, NEW ch \in Channel, Task(ch)
    PROVE  KeepsMessages'
<1> USE DEF clientVars, handlerVars, channelVars, rowVars, ghostVars
<1>0. pipe[ch] \in Seq(Presence \cup Signal)
  BY DEF TypeOK
<1>1. CASE Carry(ch)
  <2>1. /\ accepted' = accepted /\ alive' = alive /\ carried' = carried
        /\ got \subseteq got'
    BY <1>1 DEF Carry
  <2>2. ASSUME NEW n \in 1 .. MaxForward, NEW x \in Channel, Waits(n, x)
        PROVE  Waits(n, x)' \/ <<n, x[1]>> \in got'
    <3>1. CASE x # ch
      <4>1. pipe'[x] = pipe[x]
        BY <1>1, <3>1 DEF Carry, TypeOK
      <4> QED
        BY <2>1, <2>2, <4>1 DEF Waits
    <3>2. CASE x = ch
      <4>1. pipe'[ch] = Tail(pipe[ch]) /\ pipe[ch] # <<>>
        BY <1>1 DEF Carry, TypeOK
      <4>2. PICK i \in DOMAIN pipe[ch] : pipe[ch][i] = [kind |-> "signal", n |-> n]
        BY <2>2, <3>2 DEF Waits
      <4>3. CASE pipe[ch][i] = Head(pipe[ch])
        <5>1. Head(pipe[ch]).kind = "signal" /\ Head(pipe[ch]).n = n
          BY <4>2, <4>3
        <5>2. got' = got \cup {<<Head(pipe[ch]).n, ch[1]>>}
          BY <1>1, <5>1 DEF Carry
        <5> QED
          BY <3>2, <5>1, <5>2
      <4>4. CASE \E j \in DOMAIN Tail(pipe[ch]) : Tail(pipe[ch])[j] = pipe[ch][i]
        BY <2>1, <2>2, <3>2, <4>1, <4>2, <4>4 DEF Waits
      <4> QED
        BY <1>0, <4>1, <4>2, <4>3, <4>4, TailKeeps
    <3> QED
      BY <3>1, <3>2
  <2>3. \A a \in accepted : alive'[a[2][1]]
    BY <2>1 DEF KeepsMessages, AcceptedLive
  <2> QED
    BY <2>1, <2>2, <2>3, MessagesKept
<1>2. CASE CarryFails(ch) \/ CarryEnds(ch)
  <2>1. accepted' = accepted /\ alive' = alive /\ got' = got
    BY <1>2 DEF CarryFails, CarryEnds
  <2>2. /\ \A x \in Channel \ {ch} : pipe'[x] = pipe[x] /\ carried'[x] = carried[x]
        /\ ~ alive[ch[1]] \/ pipe[ch] = <<>>
    BY <1>2 DEF CarryFails, CarryEnds, RecvIsNone, TypeOK
  <2>3. ASSUME NEW n \in 1 .. MaxForward, NEW x \in Channel, Waits(n, x), alive[x[1]]
        PROVE  Waits(n, x)'
    <3>1. x # ch
      BY <2>2, <2>3 DEF Waits
    <3> QED
      BY <2>2, <2>3, <3>1 DEF Waits
  <2>4. \A a \in accepted : alive'[a[2][1]]
    BY <2>1 DEF KeepsMessages, AcceptedLive
  <2> QED
    BY <2>1, <2>3, <2>4, MessagesKept
<1> QED
  BY <1>1, <1>2 DEF Task

LEMMA MessagesHandle ==
    ASSUME TypeOK, TypeOK', KeepsMessages, NEW c \in Conn, Handle(c)
    PROVE  KeepsMessages'
<1> USE DEF clientVars, handlerVars, channelVars, rowVars, ghostVars
<1>0. alive' = alive /\ got' = got
  BY DEF Handle, Announcing, Announce, OnlineRow, OnlineInsert, Tell, GoingOffline,
     GoesOffline, Forward, Ends,
     OfflineRow
<1>a. \A a \in accepted : alive'[a[2][1]]
  BY <1>0 DEF KeepsMessages, AcceptedLive
<1>1. CASE OnlineRow(c) \/ OnlineInsert(c) \/ GoingOffline(c) \/ Ends(c) \/ OfflineRow(c)
  <2>1. accepted' = accepted /\ pipe' = pipe /\ carried' = carried
    BY <1>1 DEF OnlineRow, OnlineInsert, GoingOffline, GoesOffline, Ends, OfflineRow
  <2> QED
    BY <1>0, <1>a, <2>1, MessagesKept DEF Waits
<1>2. CASE Announcing(c)
  <2>1. accepted' = accepted /\ pipe' = pipe
    BY <1>2 DEF Announcing, Announce
  <2>2. \A ch \in Channel : carried[ch] => carried'[ch]
    BY <1>2 DEF Announcing, Announce, TypeOK
  <2> QED
    BY <1>0, <1>a, <2>1, <2>2, MessagesKept DEF Waits
<1>3. CASE Tell(c)
  <2>1. accepted' = accepted /\ carried' = carried
    BY <1>3 DEF Tell
  <2>2. PICK m : pipe' = ToAll(m)
    BY <1>3 DEF Tell
  <2>3. ASSUME NEW n \in 1 .. MaxForward, NEW ch \in Channel, Waits(n, ch)
        PROVE  Waits(n, ch)'
    <3>1. pipe[ch] \in Seq(Presence \cup Signal)
      BY DEF TypeOK
    <3>2. pipe'[ch] \in {pipe[ch], Append(pipe[ch], m)}
      BY <2>2 DEF ToAll
    <3>3. \A i \in DOMAIN pipe[ch] : i \in DOMAIN pipe'[ch] /\ pipe'[ch][i] = pipe[ch][i]
      <4>1. \A i \in DOMAIN pipe[ch] : i \in DOMAIN Append(pipe[ch], m)
                                       /\ Append(pipe[ch], m)[i] = pipe[ch][i]
        BY <3>1
      <4> QED
        BY <3>2, <4>1
    <3> QED
      BY <2>1, <2>3, <3>3 DEF Waits
  <2> QED
    BY <1>0, <1>a, <2>1, <2>3, MessagesKept
<1>4. ASSUME NEW target \in Device, Forward(c, target)
      PROVE  KeepsMessages'
  <2>0. PICK k \in 0 .. MaxForward, ch \in Channel : k = forwards' /\ ch = registry[target]
    BY <1>4 DEF TypeOK, Forward
  <2> DEFINE s == [kind |-> "signal", n |-> k]
  <2>1. /\ carried[ch] /\ carried' = carried
        /\ pipe' = [pipe EXCEPT ![ch] = Append(pipe[ch], s)]
        /\ accepted' = accepted \cup (IF alive[ch[1]] THEN {<<k, ch>>} ELSE {})
    BY <1>4, <2>0 DEF Forward
  <2>2. pipe[ch] \in Seq(Presence \cup Signal)
    BY DEF TypeOK
  <2>3. pipe'[ch] = Append(pipe[ch], s) /\ \A x \in Channel \ {ch} : pipe'[x] = pipe[x]
    BY <2>1 DEF TypeOK
  <2>4. /\ \A i \in DOMAIN pipe[ch] :
              i \in DOMAIN pipe'[ch] /\ pipe'[ch][i] = pipe[ch][i]
        /\ Len(pipe[ch]) + 1 \in DOMAIN pipe'[ch] /\ pipe'[ch][Len(pipe[ch]) + 1] = s
    BY <2>2, <2>3
  <2>5. ASSUME NEW a \in accepted
        PROVE  /\ alive'[a[2][1]]
               /\ <<a[1], a[2][1]>> \in got' \/ Waits(a[1], a[2])'
    <3>1. a[2] \in Channel
      BY DEF TypeOK
    <3>2. <<a[1], a[2][1]>> \in got \/ Waits(a[1], a[2])
      BY DEF KeepsMessages, AcceptedNotLost, Waits
    <3>3. Waits(a[1], a[2]) => Waits(a[1], a[2])'
      <4>1. CASE a[2] = ch
        BY <2>1, <2>4, <4>1 DEF Waits
      <4>2. CASE a[2] # ch
        BY <2>1, <2>3, <3>1, <4>2 DEF Waits
      <4> QED
        BY <4>1, <4>2
    <3> QED
      BY <1>0, <1>a, <3>2, <3>3
  <2>6. Waits(k, ch)'
    BY <2>1, <2>4 DEF Waits
  <2>7. ASSUME NEW a \in accepted'
        PROVE  /\ alive'[a[2][1]]
               /\ <<a[1], a[2][1]>> \in got' \/ Waits(a[1], a[2])'
    BY <1>0, <2>1, <2>5, <2>6, <2>7
  <2> QED
    BY <2>7 DEF KeepsMessages, AcceptedLive, AcceptedNotLost, Waits
<1> QED
  BY <1>1, <1>2, <1>3, <1>4, HandlerSteps

LEMMA MessagesNext == TypeOK /\ TypeOK' /\ KeepsMessages /\ [Next]_vars => KeepsMessages'
<1> SUFFICES ASSUME TypeOK, TypeOK', KeepsMessages, [Next]_vars
             PROVE  KeepsMessages'
  OBVIOUS
<1> USE DEF clientVars, handlerVars, channelVars, rowVars, ghostVars
<1>1. ASSUME NEW c \in Conn, Quits(c)
      PROVE  KeepsMessages'
  <2>1. /\ accepted' = {a \in accepted : a[2][1] # c} /\ got' = {g \in got : g[2] # c}
        /\ UNCHANGED <<pipe, carried>>
    BY <1>1 DEF Quits, Leaves, CutOff, Gone
  <2>2. ASSUME NEW a \in accepted'
        PROVE  /\ alive'[a[2][1]]
               /\ <<a[1], a[2][1]>> \in got' \/ Waits(a[1], a[2])'
    <3>1. a \in accepted /\ a[2][1] # c /\ a[2][1] \in Conn
      BY <2>1, <2>2 DEF TypeOK, Channel
    <3>2. alive'[a[2][1]]
      BY <1>1, <3>1 DEF Quits, Leaves, CutOff, Gone, KeepsMessages, AcceptedLive, TypeOK
    <3>3. <<a[1], a[2][1]>> \in got \/ Waits(a[1], a[2])
      BY <3>1 DEF KeepsMessages, AcceptedNotLost, Waits
    <3> QED
      BY <2>1, <3>1, <3>2, <3>3 DEF Waits
  <2> QED
    BY <2>2 DEF KeepsMessages, AcceptedLive, AcceptedNotLost, Waits
<1>2. ASSUME NEW c \in Conn, NEW d \in Device, Connect(c, d)
      PROVE  KeepsMessages'
  <2>1. UNCHANGED <<accepted, got, pipe, carried>>
    BY <1>2 DEF Connect
  <2>2. \A b \in Conn : alive[b] => alive'[b]
    BY <1>2 DEF Connect, TypeOK
  <2>3. \A a \in accepted : alive'[a[2][1]]
    <3>1. \A a \in accepted : a[2][1] \in Conn
      BY DEF TypeOK, Channel
    <3> QED
      BY <2>2, <3>1 DEF KeepsMessages, AcceptedLive
  <2> QED
    BY <2>1, <2>3, MessagesKept DEF Waits
<1>3. ASSUME UNCHANGED <<alive, accepted, got, pipe, carried>>
      PROVE  KeepsMessages'
  BY <1>3 DEF KeepsMessages, AcceptedLive, AcceptedNotLost
<1>4. ASSUME NEW d \in Device, RegisterDevice(d)
      PROVE  KeepsMessages'
  BY <1>3, <1>4 DEF RegisterDevice
<1>5. CASE Restart
  BY <1>5 DEF Restart, KeepsMessages, AcceptedLive, AcceptedNotLost
<1>6. CASE UNCHANGED vars
  BY <1>3, <1>6 DEF vars
<1> QED
  BY <1>1, <1>2, <1>4, <1>5, <1>6, MessagesHandle, MessagesCarry DEF Next, Client, Quits

\* A message forward_to_target took for a client that lives is on its way to it
\* until it arrives, whatever becomes of the registry meanwhile.
THEOREM NoMessageIsLost == Spec => []AcceptedNotLost
<1>1. Init => KeepsMessages
  BY DEF Init, KeepsMessages, AcceptedLive, AcceptedNotLost
<1>2. KeepsMessages => AcceptedNotLost
  BY DEF KeepsMessages
<1> QED
  BY <1>1, <1>2, MessagesNext, TypeCorrect, PTL DEF Spec

-----------------------------------------------------------------------------
(* The row and the registry *)

Open(c) == call[c].pc \notin {"new", "done"}

\* Sessions that follow one another: one connection of a device is handled, and
\* before it is registered its row was written.
OneSession == \A b, c \in Conn : Open(b) /\ Open(c) /\ dev[b] = dev[c] => b = c
RowWritten ==
    \A c \in Conn : At(c, "insert") /\ dev[c] \notin drifted => row[dev[c]] # "off"
RowFollows ==
    \A d \in Device : registry[d] # NoChannel /\ d \notin drifted => row[d] # "off"
Sessions == ~ Overlapping /\ OwnIds => OneSession /\ RowWritten /\ RowFollows

LEMMA UpdatesRow ==
    ASSUME TypeOK, NEW d \in Device, NEW flag \in {"on", "off"}, Update(d, flag)
    PROVE  /\ \A e \in Device : e # d => row'[e] = row[e]
           /\ \A e : e # d => (e \in drifted' <=> e \in drifted)
           /\ flag = "on" /\ d \notin drifted' => row'[d] # "off"
<1>1. CASE row' = [row EXCEPT ![d] = IF @ = "none" THEN @ ELSE flag]
             /\ drifted' = drifted \ {d}
  BY <1>1 DEF TypeOK
<1>2. CASE drifted' = drifted \cup {d} /\ UNCHANGED row
  BY <1>2
<1> QED
  BY <1>1, <1>2 DEF Update

\* A step that leaves rows alone and lets nobody get to the insert, nor into the
\* registry, nor a new connection of a device in.
LEMMA SessionsKept ==
    ASSUME Sessions, UNCHANGED <<dev, row, drifted>>,
           \A c \in Conn : (Open(c)' => Open(c)) /\ (At(c, "insert")' => At(c, "insert")),
           \A d \in Device : registry'[d] # NoChannel => registry[d] # NoChannel
    PROVE  Sessions'
  BY DEF Sessions, OneSession, RowWritten, RowFollows

LEMMA SessionsHandle ==
    ASSUME TypeOK, Identity, Live, Sessions, NEW c \in Conn, Handle(c)
    PROVE  Sessions'
<1> USE DEF clientVars, handlerVars, channelVars, rowVars, ghostVars
<1>0. dev' = dev /\ Open(c)
  BY DEF Handle, Announcing, Announce, OnlineRow, OnlineInsert, Tell, GoingOffline,
     GoesOffline, Forward, Ends,
     OfflineRow, Open, At
<1>a. \A b \in Conn \ {c} : call'[b] = call[b]
  BY DEF Handle, Announcing, Announce, OnlineRow, OnlineInsert, GoTell, Tell, GoingOffline,
     GoesOffline, Forward, Ends,
     OfflineRow, Goto, TypeOK
<1>b. dev[c] \in Device
  BY <1>0 DEF Identity, Open, At
<1>c. \A b \in Conn : Open(b)' => Open(b)
  BY <1>0, <1>a DEF Open
<1>d. At(c, "read") => Named(c) \subseteq Device
  BY NamedDevice DEF At
<1>1. CASE Announcing(c) \/ Tell(c) \/ GoingOffline(c) \/ Ends(c)
  <2>1. UNCHANGED <<row, drifted>>
    BY <1>1 DEF Announcing, Announce, Tell, GoingOffline, GoesOffline, Ends
  <2>2. ~ At(c, "insert")'
    <3>1. CASE Announcing(c)
      BY <3>1 DEF Announcing, Announce, Goto, At, TypeOK
    <3>2. CASE Tell(c)
      <4>1. call[c].then \in {"read", "done"}
        BY <3>2, TellCall DEF Tell, At, TypeOK
      <4> QED
        BY <3>2, <4>1 DEF Tell, Goto, At, TypeOK
    <3>3. CASE GoingOffline(c)
      BY <3>3 DEF GoingOffline, GoesOffline, GoTell, At, TypeOK
    <3>4. CASE Ends(c)
      BY <3>4 DEF Ends, Goto, At, TypeOK
    <3> QED
      BY <1>1, <3>1, <3>2, <3>3, <3>4
  <2>3. \A d \in Device : registry'[d] # NoChannel => registry[d] # NoChannel
    BY <1>1, <1>d DEF Announcing, Announce, Tell, GoingOffline, GoesOffline, Ends,
       WithoutDeviceOf, TypeOK
  <2>4. \A b \in Conn : At(b, "insert")' => At(b, "insert")
    BY <1>a, <2>2 DEF At
  <2> QED
    BY <1>0, <1>c, <2>1, <2>3, <2>4, SessionsKept
<1>2. CASE \E target \in Device : Forward(c, target)
  <2>1. UNCHANGED <<row, drifted, registry, call>>
    BY <1>2 DEF Forward
  <2> QED
    BY <1>0, <1>c, <2>1, SessionsKept DEF At
<1> SUFFICES ASSUME ~ Overlapping, OwnIds, OneSession, RowWritten, RowFollows
             PROVE  Sessions'
  BY DEF Sessions
<1>3. OneSession'
  BY <1>0, <1>c DEF OneSession
<1>4. CASE OnlineRow(c)
  <2>1. Update(dev[c], "on") /\ registry' = registry /\ At(c, "insert")'
    BY <1>4 DEF OnlineRow, Goto, At, TypeOK, Identity, Announced
  <2>2. /\ \A e \in Device : e # dev[c] => row'[e] = row[e]
        /\ \A e : e # dev[c] => (e \in drifted' <=> e \in drifted)
        /\ dev[c] \notin drifted' => row'[dev[c]] # "off"
    BY <1>b, <2>1, UpdatesRow
  <2>3. ASSUME NEW b \in Conn, At(b, "insert")', dev[b] \notin drifted'
        PROVE  row'[dev[b]] # "off"
    <3>1. CASE dev[b] = dev[c]
      BY <2>2, <2>3, <3>1
    <3>2. CASE dev[b] # dev[c]
      <4>1. At(b, "insert")
        BY <1>a, <2>3, <3>2 DEF At
      <4>2. dev[b] \in Device
        BY <4>1 DEF Identity, At
      <4> QED
        BY <2>2, <2>3, <3>2, <4>1, <4>2 DEF RowWritten
    <3> QED
      BY <3>1, <3>2
  <2>4. RowWritten'
    BY <1>0, <2>3 DEF RowWritten
  <2>5. RowFollows'
    BY <2>1, <2>2 DEF RowFollows
  <2> QED
    BY <1>3, <2>4, <2>5 DEF Sessions
<1>5. CASE OnlineInsert(c)
  <2>1. /\ UNCHANGED <<row, drifted>> /\ At(c, "insert") /\ ~ At(c, "insert")'
        /\ \A d \in Device : d # dev[c] => registry'[d] = registry[d]
    BY <1>5 DEF OnlineInsert, GoTell, At, TypeOK, Identity, Announced
  <2>2. RowWritten'
    BY <1>0, <1>a, <2>1 DEF RowWritten, At
  <2>3. RowFollows'
    BY <2>1 DEF RowFollows, RowWritten
  <2> QED
    BY <1>3, <2>2, <2>3 DEF Sessions
<1>6. CASE OfflineRow(c)
  <2>1. /\ id[c] = dev[c] /\ Update(id[c], "off") /\ registry' = registry
        /\ At(c, "db_off") /\ ~ At(c, "insert")'
    BY <1>6 DEF OfflineRow, GoTell, Identity, At, TypeOK
  <2>2. /\ \A e \in Device : e # dev[c] => row'[e] = row[e]
        /\ \A e : e # dev[c] => (e \in drifted' <=> e \in drifted)
    BY <1>b, <2>1, UpdatesRow
  <2>3. registry[dev[c]] = NoChannel
    <3>1. SUFFICES ASSUME registry[dev[c]] # NoChannel
                   PROVE  FALSE
      OBVIOUS
    <3>2. PICK b \in Conn : b = registry[dev[c]][1]
      BY <1>b, <3>1 DEF TypeOK, Channel
    <3>3. dev[b] = dev[c] /\ ~ Over(b)
      BY <1>b, <3>1, <3>2 DEF Live, Serves
    <3>4. b = c
      BY <1>0, <3>3 DEF Over, OneSession, Open, At
    <3> QED
      BY <2>1, <3>3, <3>4 DEF Over, At
  <2>4. ASSUME NEW b \in Conn, At(b, "insert")', dev[b] \notin drifted'
        PROVE  row'[dev[b]] # "off"
    <3>1. b # c /\ At(b, "insert") /\ Open(b)
      BY <1>a, <2>1, <2>4 DEF At, Open
    <3>2. dev[b] # dev[c] /\ dev[b] \in Device
      BY <1>0, <3>1 DEF OneSession, Identity, At
    <3> QED
      BY <2>2, <2>4, <3>1, <3>2 DEF RowWritten
  <2>5. RowWritten'
    BY <1>0, <2>4 DEF RowWritten
  <2>6. RowFollows'
    BY <2>1, <2>2, <2>3 DEF RowFollows
  <2> QED
    BY <1>3, <2>5, <2>6 DEF Sessions
<1> QED
  BY <1>1, <1>2, <1>4, <1>5, <1>6, HandlerSteps

LEMMA SessionsNext == Inv /\ Sessions /\ [Next]_vars => Sessions'
<1> SUFFICES ASSUME TypeOK, Identity, Live, Sessions, [Next]_vars
             PROVE  Sessions'
  BY DEF Inv
<1> USE DEF clientVars, handlerVars, channelVars, rowVars, ghostVars
<1>1. ASSUME UNCHANGED <<dev, row, drifted, call, registry>>
      PROVE  Sessions'
  BY <1>1 DEF Sessions, OneSession, RowWritten, RowFollows, Open, At
<1>2. ASSUME NEW c \in Conn, Quits(c)
      PROVE  Sessions'
  BY <1>1, <1>2 DEF Quits, Leaves, CutOff, Gone
<1>3. ASSUME NEW c \in Conn, NEW d \in Device, Connect(c, d)
      PROVE  Sessions'
  <2> SUFFICES ASSUME ~ Overlapping, OwnIds, OneSession, RowWritten, RowFollows
               PROVE  Sessions'
    BY DEF Sessions
  <2>1. /\ \A b \in Conn : dev[b] = d => At(b, "done")
        /\ dev'[c] = d /\ At(c, "read")' /\ UNCHANGED <<row, drifted, registry>>
        /\ \A b \in Conn \ {c} : dev'[b] = dev[b] /\ call'[b] = call[b]
    BY <1>3 DEF Connect, Goto, At, TypeOK
  <2>2. OneSession'
    <3>1. \A b \in Conn \ {c} : Open(b)' => Open(b) /\ dev'[b] # d
      BY <2>1 DEF Open, At
    <3> QED
      BY <2>1, <3>1 DEF OneSession
  <2>3. RowWritten'
    BY <2>1 DEF RowWritten, At
  <2>4. RowFollows'
    BY <2>1 DEF RowFollows
  <2> QED
    BY <2>2, <2>3, <2>4 DEF Sessions
<1>4. ASSUME NEW ch \in Channel, Task(ch)
      PROVE  Sessions'
  BY <1>1, <1>4 DEF Task, Carry, CarryFails, CarryEnds
<1>5. ASSUME NEW d \in Device, RegisterDevice(d)
      PROVE  Sessions'
  <2>1. /\ drifted' = drifted \cup {d} /\ UNCHANGED <<dev, call, registry>>
        /\ \A e \in Device : e # d => row'[e] = row[e]
    BY <1>5 DEF RegisterDevice, TypeOK
  <2>2. \A c \in Conn : At(c, "insert") => dev[c] \in Device
    BY DEF Identity, At
  <2> QED
    BY <2>1, <2>2 DEF Sessions, OneSession, RowWritten, RowFollows, Open, At
<1>6. CASE Restart
  <2>1. /\ \A c \in Conn : ~ Open(c)' /\ ~ At(c, "insert")'
        /\ \A d \in Device : registry'[d] = NoChannel
    BY <1>6 DEF Restart, Open, At
  <2> QED
    BY <2>1 DEF Sessions, OneSession, RowWritten, RowFollows
<1>7. CASE UNCHANGED vars
  BY <1>1, <1>7 DEF vars
<1> QED
  BY <1>2, <1>3, <1>4, <1>5, <1>6, <1>7, SessionsHandle DEF Next, Client, Quits

\* While the sessions of a device follow one another, the row of a registered
\* device says online unless its last update failed or it was registered anew.
THEOREM RowsFollow == Spec => []RowFollowsRegistry
<1>1. Init => Sessions
  BY DEF Init, Sessions, OneSession, RowWritten, RowFollows, Open, At, NoChannel
<1>2. Sessions => RowFollowsRegistry
  BY DEF Sessions, RowFollows, RowFollowsRegistry
<1> QED
  BY <1>1, <1>2, SessionsNext, InvHolds, PTL DEF Spec

-----------------------------------------------------------------------------
(* What clients are told *)

Message == Presence \cup Signal

\* The messages of s about d, and the kind of the last of them.
About(s, d) == {i \in DOMAIN s : s[i].kind # "signal" /\ s[i].dev = d}
Final(s, d, w) ==
    \E i \in About(s, d) : (\A j \in About(s, d) : j <= i) /\ s[i].kind = w

LEMMA AppendOther ==
    ASSUME NEW s \in Seq(Message), NEW m \in Message, NEW d,
           m.kind = "signal" \/ m.dev # d
    PROVE  /\ About(Append(s, m), d) = About(s, d)
           /\ \A w : Final(s, d, w) => Final(Append(s, m), d, w)
<1>1. \A i \in DOMAIN s : i \in DOMAIN Append(s, m) /\ Append(s, m)[i] = s[i]
  OBVIOUS
<1>2. \A i \in DOMAIN Append(s, m) : i \in DOMAIN s \/ Append(s, m)[i] = m
  OBVIOUS
<1>3. About(Append(s, m), d) = About(s, d)
  BY <1>1, <1>2 DEF About
<1>4. \A i \in About(s, d) : Append(s, m)[i] = s[i]
  BY <1>1 DEF About
<1> QED
  BY <1>3, <1>4 DEF Final

LEMMA AppendLast ==
    ASSUME NEW s \in Seq(Message), NEW m \in Message, NEW d,
           m.kind # "signal", m.dev = d
    PROVE  Final(Append(s, m), d, m.kind)
<1> DEFINE k == Len(s) + 1
<1>1. k \in DOMAIN Append(s, m) /\ Append(s, m)[k] = m
  OBVIOUS
<1>2. \A j \in DOMAIN Append(s, m) : j <= k
  OBVIOUS
<1>3. k \in About(Append(s, m), d) /\ \A j \in About(Append(s, m), d) : j <= k
  BY <1>1, <1>2 DEF About
<1> QED
  BY <1>1, <1>3 DEF Final

LEMMA TailIndex ==
    ASSUME NEW s \in Seq(Message), s # <<>>, NEW d
    PROVE  /\ \A i \in About(Tail(s), d) : i \in Nat /\ i >= 1 /\ i + 1 \in About(s, d)
           /\ \A i \in About(s, d) : i \in Nat /\ (i = 1 \/ i - 1 \in About(Tail(s), d))
           /\ \A i \in DOMAIN Tail(s) : Tail(s)[i] = s[i + 1]
           /\ Head(s) = s[1] /\ 1 \in DOMAIN s
<1>1. \A i \in DOMAIN Tail(s) :
         i \in Nat /\ i >= 1 /\ i + 1 \in DOMAIN s /\ Tail(s)[i] = s[i + 1]
  OBVIOUS
<1>2. \A i \in DOMAIN s : i \in Nat /\ (i = 1 \/ (i - 1 \in DOMAIN Tail(s)
                                          /\ Tail(s)[i - 1] = s[i]))
  OBVIOUS
<1>3. Head(s) = s[1] /\ 1 \in DOMAIN s
  OBVIOUS
<1> QED
  BY <1>1, <1>2, <1>3 DEF About

LEMMA TailLast ==
    ASSUME NEW s \in Seq(Message), s # <<>>, NEW d, NEW w, Final(s, d, w)
    PROVE  \/ Final(Tail(s), d, w)
           \/ /\ About(Tail(s), d) = {}
              /\ Head(s).kind = w /\ w # "signal" /\ Head(s).dev = d
<1>1. PICK i \in About(s, d) : (\A j \in About(s, d) : j <= i) /\ s[i].kind = w
  BY DEF Final
<1>2. CASE i = 1
  <2>1. About(Tail(s), d) = {}
    <3>1. SUFFICES ASSUME NEW j \in About(Tail(s), d)
                   PROVE  FALSE
      OBVIOUS
    <3>2. j \in Nat /\ j >= 1 /\ j + 1 <= 1
      BY <1>1, <1>2, <3>1, TailIndex
    <3> QED
      BY <3>2
  <2> QED
    BY <1>1, <1>2, <2>1, TailIndex DEF About
<1>3. CASE i # 1
  <2>1. i \in Nat /\ i - 1 \in About(Tail(s), d)
    BY <1>1, <1>3, TailIndex
  <2>2. ASSUME NEW j \in About(Tail(s), d)
        PROVE  j <= i - 1
    <3>1. j \in Nat /\ j + 1 <= i
      BY <1>1, <2>2, TailIndex
    <3> QED
      BY <2>1, <3>1
  <2>3. Tail(s)[i - 1] = s[i]
    <3>1. i - 1 \in DOMAIN Tail(s)
      BY <2>1 DEF About
    <3>2. Tail(s)[i - 1] = s[(i - 1) + 1]
      BY <3>1, TailIndex
    <3>3. (i - 1) + 1 = i
      BY <2>1
    <3> QED
      BY <3>2, <3>3
  <2> QED
    BY <1>1, <2>1, <2>2, <2>3 DEF Final
<1> QED
  BY <1>2, <1>3

LEMMA TailNone ==
    ASSUME NEW s \in Seq(Message), s # <<>>, NEW d, About(s, d) = {}
    PROVE  /\ About(Tail(s), d) = {}
           /\ Head(s).kind = "signal" \/ Head(s).dev # d
<1>1. About(Tail(s), d) = {}
  BY TailIndex
<1>2. 1 \notin About(s, d)
  OBVIOUS
<1> QED
  BY <1>1, <1>2, TailIndex DEF About

\* w is the last word about d that the client of ch got or will get.
Word(ch, d, w) ==
    \/ About(pipe[ch], d) = {} /\ view[ch[1]][d] = w
    \/ Final(pipe[ch], d, w)

LEMMA WordIsLast ==
    ASSUME TypeOK, NEW ch \in Channel, NEW d, NEW w, Word(ch, d, w)
    PROVE  LastWord(ch, d) = w
<1>1. Unheard(ch, d) = About(pipe[ch], d)
  BY DEF Unheard, About
<1>2. CASE About(pipe[ch], d) = {}
  BY <1>1, <1>2 DEF Word, Final, LastWord
<1>3. CASE About(pipe[ch], d) # {}
  <2>1. PICK i \in About(pipe[ch], d) :
           (\A j \in About(pipe[ch], d) : j <= i) /\ pipe[ch][i].kind = w
    BY <1>3 DEF Word, Final
  <2>2. About(pipe[ch], d) \subseteq Nat
    <3>1. pipe[ch] \in Seq(Message)
      BY DEF TypeOK, Message
    <3>2. DOMAIN pipe[ch] \subseteq Nat
      BY <3>1
    <3> QED
      BY <3>2 DEF About
  <2>3. PICK k : k = CHOOSE x \in About(pipe[ch], d) : \A j \in About(pipe[ch], d) : j <= x
    OBVIOUS
  <2>4. k \in About(pipe[ch], d) /\ \A j \in About(pipe[ch], d) : j <= k
    BY <2>1, <2>3
  <2>5. k <= i /\ i <= k
    BY <2>1, <2>4
  <2>6. k = i
    BY <2>2, <2>4, <2>5
  <2> QED
    BY <1>1, <1>3, <2>1, <2>3, <2>6 DEF LastWord
<1> QED
  BY <1>2, <1>3

\* One DeviceOnline per connection: until its insert the channel is empty, and
\* nothing leads to it.
Unused(c) == made[c] = 0 \/ call[c].pc \in {"db_on", "insert"}
Only(c) == <<c, 1>>
FreshChannels ==
    \A c \in Conn : Unused(c) =>
        pipe[Only(c)] = <<>> /\ \A d \in Device : registry[d] # Only(c)

\* A channel that a live client's handler registered, or is about to, is carried.
LiveCarried ==
    /\ \A d \in Device : registry[d] # NoChannel /\ alive[registry[d][1]] =>
                            carried[registry[d]]
    /\ \A c \in Conn : At(c, "db_on") \/ At(c, "insert") => ~ alive[c] \/ carried[Only(c)]

\* BeingTold where clients name their own device.
Telling(d) == \E b \in Conn : dev[b] = d /\ call[b].pc \in {"db_off", "tell"}

\* What a handler is about to tell is so.
Honest(c) ==
    /\ At(c, "tell") =>
          call[c].word = IF registry[dev[c]] = NoChannel THEN "offline" ELSE "online"
    /\ At(c, "db_off") => registry[dev[c]] = NoChannel
TruthToTell == \A c \in Conn : Honest(c)

Heard ==
    \A e, d \in Device : registry[e] # NoChannel =>
        \/ Telling(d) \/ ~ alive[registry[e][1]]
        \/ Word(registry[e], d, "unknown") \/ Word(registry[e], d, Status(d))

LEMMA OnlyChannel ==
    ASSUME MaxAnnounce = 1
    PROVE  /\ \A c \in Conn : Only(c) \in Channel
           /\ \A ch \in Channel : ch = Only(ch[1])
  BY DEF Only, Channel

LEMMA FreshNext ==
    ASSUME TypeOK, Identity, MaxAnnounce = 1, FreshChannels, [Next]_vars
    PROVE  FreshChannels'
<1> USE DEF clientVars, handlerVars, channelVars, rowVars, ghostVars
<1>1. ASSUME NEW c \in Conn, Announcing(c)
      PROVE  FreshChannels'
  <2>1. Unused(c)
    BY <1>1, SignalServerAssumption DEF Announcing, Announce, Unused, TypeOK
  <2>2. /\ UNCHANGED <<pipe, registry>>
        /\ \A b \in Conn \ {c} : call'[b] = call[b] /\ made'[b] = made[b]
    BY <1>1 DEF Announcing, Announce, Goto, TypeOK
  <2> QED
    BY <2>1, <2>2 DEF FreshChannels, Unused
<1>2. ASSUME NEW c \in Conn, OnlineInsert(c)
      PROVE  FreshChannels'
  <2>1. /\ made[c] > 0 /\ made' = made /\ pipe' = pipe
        /\ call'[c].pc = "tell" /\ \A b \in Conn \ {c} : call'[b] = call[b]
    BY <1>2 DEF OnlineInsert, GoTell, Identity, Announced, At, TypeOK
  <2>2. made[c] = 1 /\ dev[c] \in Device
    BY <1>2, <2>1 DEF OnlineInsert, TypeOK, Identity, At
  <2>3. \A d \in Device : registry'[d] \in {registry[d], Only(c)}
    BY <1>2, <2>2 DEF OnlineInsert, Newest, Only, TypeOK
  <2>4. \A b \in Conn : Unused(b)' => Unused(b) /\ b # c
    BY <2>1, <2>2 DEF Unused
  <2>5. \A b \in Conn \ {c} : Only(b) # Only(c)
    BY DEF Only
  <2> QED
    BY <2>1, <2>3, <2>4, <2>5 DEF FreshChannels
<1>3. ASSUME \A b \in Conn : Unused(b)' => Unused(b),
             \A d \in Device : registry'[d] \in {registry[d], NoChannel},
             \A b \in Conn : Unused(b) => pipe'[Only(b)] = <<>>
      PROVE  FreshChannels'
  <2>1. \A b \in Conn : Only(b) # NoChannel
    BY DEF Only, NoChannel
  <2> QED
    BY <1>3, <2>1 DEF FreshChannels
<1>4. ASSUME NEW c \in Conn, OnlineRow(c) \/ GoingOffline(c) \/ Ends(c) \/ OfflineRow(c)
      PROVE  FreshChannels'
  <2>1. made' = made /\ pipe' = pipe
    BY <1>4 DEF OnlineRow, GoingOffline, GoesOffline, Ends, OfflineRow
  <2>2. \A b \in Conn : Unused(b)' => Unused(b)
    <3>1. \A b \in Conn \ {c} : call'[b] = call[b]
      BY <1>4 DEF OnlineRow, GoingOffline, GoesOffline, GoTell, Ends, OfflineRow, Goto, TypeOK
    <3>2. CASE OnlineRow(c)
      BY <2>1, <3>1, <3>2 DEF OnlineRow, Unused, At
    <3>3. CASE GoingOffline(c) \/ Ends(c) \/ OfflineRow(c)
      <4>1. call'[c].pc \in {"tell", "done", "db_off"}
        BY <3>3 DEF GoingOffline, GoesOffline, GoTell, Ends, OfflineRow, Goto, TypeOK
      <4> QED
        BY <2>1, <3>1, <4>1 DEF Unused
    <3> QED
      BY <1>4, <3>2, <3>3
  <2>3. \A d \in Device : registry'[d] \in {registry[d], NoChannel}
    BY <1>4 DEF OnlineRow, GoingOffline, GoesOffline, Ends, OfflineRow, WithoutDeviceOf,
       TypeOK
  <2> QED
    BY <1>3, <2>1, <2>2, <2>3 DEF FreshChannels
<1>5. ASSUME NEW c \in Conn, Tell(c)
      PROVE  FreshChannels'
  <2>1. made' = made /\ registry' = registry
    BY <1>5 DEF Tell
  <2>2. call[c].then \in {"read", "done"}
    BY <1>5, TellCall DEF Tell, At, TypeOK
  <2>3. \A b \in Conn : Unused(b)' => Unused(b)
    BY <1>5, <2>2 DEF Tell, Goto, Unused, TypeOK
  <2>4. \A b \in Conn : Unused(b) => pipe'[Only(b)] = pipe[Only(b)]
    BY <1>5, OnlyChannel DEF Tell, ToAll, FreshChannels
  <2> QED
    BY <1>3, <2>1, <2>3, <2>4 DEF FreshChannels
<1>6. ASSUME NEW c \in Conn, NEW t \in Device, Forward(c, t)
      PROVE  FreshChannels'
  <2>1. /\ UNCHANGED <<made, registry, call>> /\ registry[t] # NoChannel
        /\ \A ch \in Channel \ {registry[t]} : pipe'[ch] = pipe[ch]
    BY <1>6 DEF Forward, TypeOK
  <2>2. \A b \in Conn : Unused(b) => Only(b) # registry[t]
    BY DEF FreshChannels
  <2> QED
    BY <1>3, <2>1, <2>2, OnlyChannel DEF FreshChannels, Unused
<1>7. ASSUME NEW ch \in Channel, Task(ch)
      PROVE  FreshChannels'
  <2>1. UNCHANGED <<made, registry, call>>
    BY <1>7 DEF Task, Carry, CarryFails, CarryEnds
  <2>2. \A x \in Channel : pipe[x] = <<>> => pipe'[x] = <<>>
    BY <1>7 DEF Task, Carry, CarryFails, CarryEnds, TypeOK
  <2> QED
    BY <1>3, <2>1, <2>2, OnlyChannel DEF FreshChannels, Unused
<1>8. ASSUME NEW c \in Conn, Client(c)
      PROVE  FreshChannels'
  <2>1. UNCHANGED <<made, registry, pipe>>
    BY <1>8 DEF Client, Quits, Leaves, CutOff, Gone, Connect
  <2>2. \A b \in Conn : Unused(b)' => Unused(b)
    <3>1. CASE Quits(c)
      <4>1. UNCHANGED <<call, made>>
        BY <3>1 DEF Quits, Leaves, CutOff, Gone
      <4> QED
        BY <4>1 DEF Unused
    <3>2. CASE \E d \in Device : Connect(c, d)
      <4>1. made' = made /\ call' = [call EXCEPT ![c] = [pc |-> "read"]]
        BY <3>2 DEF Connect, Goto
      <4>2. \A b \in Conn : call'[b] = call[b] \/ call'[b].pc = "read"
        BY <4>1 DEF TypeOK
      <4> QED
        BY <4>1, <4>2 DEF Unused
    <3> QED
      BY <1>8, <3>1, <3>2 DEF Client, Quits
  <2> QED
    BY <1>3, <2>1, <2>2 DEF FreshChannels
<1>9. CASE Restart
  <2>1. /\ made' = made /\ \A c \in Conn : call'[c].pc \in {"new", "done"}
        /\ \A ch \in Channel : pipe'[ch] = <<>>
        /\ \A d \in Device : registry'[d] = NoChannel
    BY <1>9 DEF Restart
  <2> QED
    BY <1>3, <2>1, OnlyChannel DEF Unused
<1>10. CASE UNCHANGED vars \/ \E d \in Device : RegisterDevice(d)
  BY <1>10 DEF vars, RegisterDevice, FreshChannels, Unused
<1> QED
  BY <1>1, <1>2, <1>4, <1>5, <1>6, <1>7, <1>8, <1>9, <1>10, HandlerSteps DEF Next

LEMMA CarriedNext ==
    ASSUME Inv, MaxAnnounce = 1, LiveCarried, [Next]_vars
    PROVE  LiveCarried'
<1> USE DEF clientVars, handlerVars, channelVars, rowVars, ghostVars
<1>0. TypeOK /\ Identity /\ Live
  BY DEF Inv
\* No entry, no call before an insert, and no life is new, and no task ends.
<1>1. ASSUME \A d \in Device : registry'[d] \in {registry[d], NoChannel},
             \A c \in Conn : (At(c, "db_on") \/ At(c, "insert"))' =>
                                At(c, "db_on") \/ At(c, "insert"),
             \A c \in Conn : alive'[c] => alive[c],
             \A ch \in Channel : carried[ch] => carried'[ch]
      PROVE  LiveCarried'
  <2>1. ASSUME NEW d \in Device, registry'[d] # NoChannel, alive'[registry'[d][1]]
        PROVE  carried'[registry'[d]]
    <3>1. registry'[d] = registry[d] /\ registry[d] \in Channel
      BY <1>0, <1>1, <2>1 DEF TypeOK
    <3>2. registry[d][1] \in Conn
      BY <3>1 DEF Channel
    <3> QED
      BY <1>1, <2>1, <3>1, <3>2 DEF LiveCarried
  <2>2. ASSUME NEW c \in Conn, (At(c, "db_on") \/ At(c, "insert"))', alive'[c]
        PROVE  carried'[Only(c)]
    BY <1>1, <2>2, OnlyChannel DEF LiveCarried
  <2> QED
    BY <2>1, <2>2 DEF LiveCarried, Only
<1>2. ASSUME NEW c \in Conn, Announcing(c)
      PROVE  LiveCarried'
  <2>1. made[c] = 0
    BY <1>0, <1>2 DEF Announcing, Announce, TypeOK
  <2>2. /\ UNCHANGED <<registry, alive>> /\ carried'[Only(c)]
        /\ \A ch \in Channel : carried[ch] => carried'[ch]
        /\ \A b \in Conn \ {c} : call'[b] = call[b]
    BY <1>0, <1>2, <2>1, OnlyChannel DEF Announcing, Announce, Goto, Only, TypeOK
  <2>3. \A d \in Device : registry[d] # NoChannel => registry[d] \in Channel
    BY <1>0 DEF TypeOK
  <2> QED
    BY <2>2, <2>3, OnlyChannel DEF LiveCarried, At
<1>3. ASSUME NEW c \in Conn, OnlineInsert(c)
      PROVE  LiveCarried'
  <2>1. made[c] = 1 /\ dev[c] \in Device
    BY <1>0, <1>3 DEF OnlineInsert, TypeOK, Identity, Announced, At
  <2>2. /\ UNCHANGED <<alive, carried>> /\ call'[c].pc = "tell"
        /\ \A b \in Conn \ {c} : call'[b] = call[b]
        /\ \A d \in Device : registry'[d] = registry[d] \/ registry'[d] = Only(c)
    BY <1>0, <1>3, <2>1 DEF OnlineInsert, GoTell, Newest, Only, TypeOK
  <2>3. (~ alive[c] \/ carried[Only(c)]) /\ Only(c)[1] = c
    BY <1>3 DEF OnlineInsert, LiveCarried, Only
  <2> QED
    BY <2>2, <2>3 DEF LiveCarried, At
<1>4. ASSUME NEW c \in Conn,
             \/ OnlineRow(c) \/ GoingOffline(c) \/ Ends(c) \/ OfflineRow(c) \/ Tell(c)
             \/ \E t \in Device : Forward(c, t)
      PROVE  LiveCarried'
  <2>1. UNCHANGED <<alive, carried>>
    BY <1>4 DEF OnlineRow, GoingOffline, GoesOffline, Ends, OfflineRow, Tell, Forward
  <2>2. \A d \in Device : registry'[d] \in {registry[d], NoChannel}
    BY <1>0, <1>4 DEF OnlineRow, GoingOffline, GoesOffline, Ends, OfflineRow, Tell, Forward,
       WithoutDeviceOf, TypeOK
  <2>3. \A b \in Conn \ {c} : call'[b] = call[b]
    BY <1>0, <1>4 DEF OnlineRow, GoingOffline, GoesOffline, GoTell, Ends, OfflineRow, Tell,
       Forward, Goto, TypeOK
  <2>4. CASE OnlineRow(c)
    BY <1>1, <2>1, <2>2, <2>3, <2>4 DEF OnlineRow, At
  <2>5. CASE ~ OnlineRow(c)
    <3>1. At(c, "tell") => call[c].then \in {"read", "done"}
      BY <1>0, TellCall DEF At, TypeOK
    <3>2. (At(c, "db_on") \/ At(c, "insert"))' => At(c, "db_on") \/ At(c, "insert")
      BY <1>0, <1>4, <2>5, <3>1 DEF GoingOffline, GoesOffline, GoTell, Ends, OfflineRow, Tell,
         Forward, Goto,
         At, TypeOK
    <3> QED
      BY <1>1, <2>1, <2>2, <2>3, <3>2 DEF At
  <2> QED
    BY <2>4, <2>5
<1>5. ASSUME NEW ch \in Channel, Task(ch)
      PROVE  LiveCarried'
  <2>1. UNCHANGED <<call, alive, registry>>
    BY <1>5 DEF Task, Carry, CarryFails, CarryEnds
  <2>2. CASE Carry(ch)
    BY <1>1, <2>1, <2>2 DEF Carry, At
  <2>3. CASE CarryFails(ch) \/ CarryEnds(ch)
    <3>1. \A x \in Channel \ {ch} : carried'[x] = carried[x]
      BY <1>0, <2>3 DEF CarryFails, CarryEnds, TypeOK
    <3>2. \/ ~ alive[ch[1]]
          \/ /\ \A d \in Device : registry[d] # ch
             /\ ~ (ch = Newest(ch[1]) /\ call[ch[1]].pc \in {"db_on", "insert"})
      BY <2>3 DEF CarryFails, CarryEnds, RecvIsNone, SenderGone
    <3>3. ASSUME NEW d \in Device, registry[d] # NoChannel, alive[registry[d][1]]
          PROVE  carried'[registry[d]]
      <4>1. registry[d] # ch /\ registry[d] \in Channel
        BY <1>0, <3>2, <3>3 DEF TypeOK
      <4> QED
        BY <3>1, <3>3, <4>1 DEF LiveCarried
    <3>4. ASSUME NEW c \in Conn, At(c, "db_on") \/ At(c, "insert"), alive[c]
          PROVE  carried'[Only(c)]
      <4>1. Only(c) = Newest(c) /\ Only(c)[1] = c
        BY <1>0, <3>4 DEF Identity, Announced, At, TypeOK, Newest, Only
      <4>2. Only(c) # ch
        BY <3>2, <3>4, <4>1 DEF At
      <4> QED
        BY <3>1, <3>4, <4>2, OnlyChannel DEF LiveCarried
    <3> QED
      BY <2>1, <3>3, <3>4 DEF LiveCarried, At, Only
  <2> QED
    BY <1>5, <2>2, <2>3 DEF Task
<1>6. ASSUME NEW c \in Conn, Quits(c)
      PROVE  LiveCarried'
  <2>1. /\ UNCHANGED <<call, registry, carried>>
        /\ \A b \in Conn : alive'[b] => alive[b]
    BY <1>0, <1>6 DEF Quits, Leaves, CutOff, Gone, TypeOK
  <2> QED
    BY <1>1, <2>1 DEF At
<1>7. ASSUME NEW c \in Conn, NEW d \in Device, Connect(c, d)
      PROVE  LiveCarried'
  <2>1. /\ UNCHANGED <<registry, carried>> /\ call'[c].pc = "read" /\ At(c, "new")
        /\ \A b \in Conn \ {c} : alive'[b] = alive[b] /\ call'[b] = call[b]
    BY <1>0, <1>7 DEF Connect, Goto, TypeOK
  <2>2. \A e \in Device : registry[e] # NoChannel =>
           registry[e][1] # c /\ registry[e][1] \in Conn
    BY <1>0, <2>1 DEF Live, Serves, Identity, At, TypeOK, Channel
  <2> QED
    BY <2>1, <2>2 DEF LiveCarried, At, Only
<1>8. CASE Restart
  <2>1. (\A c \in Conn : call'[c].pc \in {"new", "done"})
        /\ \A d \in Device : registry'[d] = NoChannel
    BY <1>8 DEF Restart
  <2> QED
    BY <2>1 DEF LiveCarried, At
<1>9. CASE UNCHANGED vars \/ \E d \in Device : RegisterDevice(d)
  BY <1>9 DEF vars, RegisterDevice, LiveCarried, At, Only
<1> QED
  BY <1>2, <1>3, <1>4, <1>5, <1>6, <1>7, <1>8, <1>9, HandlerSteps DEF Next, Client, Quits

\* A step of c leaves the others to tell the truth: their devices are not c's.
LEMMA OthersTellTruth ==
    ASSUME OneSession, TruthToTell, NEW c \in Conn, Open(c), dev' = dev,
           \A b \in Conn \ {c} : call'[b] = call[b],
           \A d \in Device : d # dev[c] => registry'[d] = registry[d],
           Identity
    PROVE  \A b \in Conn \ {c} : Honest(b)'
<1> SUFFICES ASSUME NEW b \in Conn \ {c}
             PROVE  Honest(b)'
  OBVIOUS
<1>1. Honest(b) /\ call'[b] = call[b]
  BY DEF TruthToTell
<1>2. CASE At(b, "tell") \/ At(b, "db_off")
  <2>1. dev[b] \in Device /\ dev[b] # dev[c]
    BY <1>2 DEF OneSession, Open, At, Identity
  <2> QED
    BY <1>1, <2>1 DEF Honest, At
<1>3. CASE ~ (At(b, "tell") \/ At(b, "db_off"))
  BY <1>1, <1>3 DEF Honest, At
<1> QED
  BY <1>2, <1>3

LEMMA TruthNext ==
    ASSUME Inv, OwnIds, OneSession, TruthToTell, [Next]_vars
    PROVE  TruthToTell'
<1> USE DEF clientVars, handlerVars, channelVars, rowVars, ghostVars
<1>0. TypeOK /\ Identity /\ Live
  BY DEF Inv
<1>1. ASSUME NEW c \in Conn, Handle(c)
      PROVE  TruthToTell'
  <2>1. dev' = dev /\ Open(c) /\ \A b \in Conn \ {c} : call'[b] = call[b]
    BY <1>0, <1>1 DEF Handle, Announcing, Announce, OnlineRow, OnlineInsert, GoTell, Tell,
       GoingOffline, GoesOffline,
       Forward, Ends, OfflineRow, Open, At, Goto, TypeOK
  <2>2. dev[c] \in Device /\ id[c] \in {NoDevice, dev[c]}
    BY <1>0, <2>1 DEF Identity, Open, At
  <2>3. \A d \in Device : d # dev[c] => registry'[d] = registry[d]
    <3>1. CASE OnlineInsert(c)
      BY <1>0, <2>2, <3>1 DEF OnlineInsert, Identity, Announced, At, TypeOK
    <3>2. CASE GoingOffline(c) \/ Ends(c)
      BY <1>0, <2>2, <3>2 DEF GoingOffline, GoesOffline, Named, Ends, WithoutDeviceOf,
         TypeOK
    <3> QED
      BY <1>1, <3>1, <3>2, HandlerSteps DEF Announcing, Announce, OnlineRow, Tell, Forward,
         OfflineRow
  <2>4. Honest(c)'
    <3>1. CASE Announcing(c) \/ OnlineRow(c)
      BY <1>0, <3>1 DEF Announcing, Announce, OnlineRow, Goto, Honest, At, TypeOK
    <3>2. CASE OnlineInsert(c)
      <4>1. /\ call'[c].pc = "tell" /\ call'[c].word = "online"
            /\ registry'[dev[c]] = <<c, made[c]>>
        BY <1>0, <2>2, <3>2 DEF OnlineInsert, GoTell, Newest, TypeOK, Identity,
           Announced, At
      <4> QED
        BY <2>1, <4>1 DEF Honest, At, NoChannel
    <3>3. CASE Tell(c)
      <4>1. call[c].then \in {"read", "done"}
        BY <1>0, <3>3, TellCall DEF Tell, At, TypeOK
      <4> QED
        BY <1>0, <3>3, <4>1 DEF Tell, Goto, Honest, At, TypeOK
    <3>4. CASE GoingOffline(c)
      <4>1. /\ call'[c].pc = "tell" /\ call'[c].word = "offline"
            /\ registry'[dev[c]] = NoChannel
        BY <1>0, <2>2, <3>4 DEF GoingOffline, GoesOffline, GoTell, Named, TypeOK
      <4> QED
        BY <2>1, <4>1 DEF Honest, At
    <3>5. CASE \E t \in Device : Forward(c, t)
      BY <3>5 DEF Forward, TruthToTell, Honest, At
    <3>6. CASE Ends(c)
      <4>1. CASE id[c] = NoDevice
        BY <1>0, <3>6, <4>1 DEF Ends, Goto, Honest, At, TypeOK
      <4>2. CASE id[c] # NoDevice
        <5>1. registry'[dev[c]] = NoChannel /\ call'[c].pc = "db_off"
          BY <1>0, <2>2, <3>6, <4>2 DEF Ends, Goto, WithoutDeviceOf, TypeOK
        <5> QED
          BY <2>1, <5>1 DEF Honest, At
      <4> QED
        BY <4>1, <4>2
    <3>7. CASE OfflineRow(c)
      <4>1. /\ call'[c].pc = "tell" /\ call'[c].word = "offline"
            /\ registry' = registry /\ At(c, "db_off")
        BY <1>0, <3>7 DEF OfflineRow, GoTell, TypeOK
      <4> QED
        BY <2>1, <4>1 DEF TruthToTell, Honest, At
    <3> QED
      BY <1>1, <3>1, <3>2, <3>3, <3>4, <3>5, <3>6, <3>7, HandlerSteps
  <2>5. \A b \in Conn \ {c} : Honest(b)'
    BY <1>0, <2>1, <2>3, OthersTellTruth
  <2> QED
    BY <2>4, <2>5 DEF TruthToTell
<1>2. ASSUME NEW c \in Conn, NEW d \in Device, Connect(c, d)
      PROVE  TruthToTell'
  <2>1. /\ registry' = registry /\ call'[c].pc = "read"
        /\ \A b \in Conn \ {c} : dev'[b] = dev[b] /\ call'[b] = call[b]
    BY <1>0, <1>2 DEF Connect, Goto, TypeOK
  <2> QED
    BY <2>1 DEF TruthToTell, Honest, At
<1>3. ASSUME UNCHANGED <<call, dev, registry>>
      PROVE  TruthToTell'
  BY <1>3 DEF TruthToTell, Honest, At
<1>4. ASSUME NEW c \in Conn, Quits(c)
      PROVE  TruthToTell'
  BY <1>3, <1>4 DEF Quits, Leaves, CutOff, Gone
<1>5. ASSUME NEW ch \in Channel, Task(ch)
      PROVE  TruthToTell'
  BY <1>3, <1>5 DEF Task, Carry, CarryFails, CarryEnds
<1>6. CASE Restart
  <2>1. \A c \in Conn : call'[c].pc \in {"new", "done"}
    BY <1>6 DEF Restart
  <2> QED
    BY <2>1 DEF TruthToTell, Honest, At
<1>7. CASE UNCHANGED vars \/ \E d \in Device : RegisterDevice(d)
  BY <1>3, <1>7 DEF vars, RegisterDevice
<1> QED
  BY <1>1, <1>2, <1>4, <1>5, <1>6, <1>7 DEF Next, Client, Quits

\* A step that adds no entry and keeps the last words.
LEMMA HeardKept ==
    ASSUME TypeOK, Heard,
           \A e \in Device : registry'[e] \in {registry[e], NoChannel},
           \A e \in Device : registry'[e] # NoChannel /\ alive'[registry[e][1]] =>
                                alive[registry[e][1]],
           \A d \in Device : Telling(d) => Telling(d)',
           \A d \in Device : Telling(d)' \/ Status(d)' = Status(d),
           \A ch \in Channel, d \in Device, w \in {"unknown", "online", "offline"} :
               alive'[ch[1]] /\ Word(ch, d, w) => Word(ch, d, w)'
    PROVE  Heard'
<1> SUFFICES ASSUME NEW e \in Device, NEW d \in Device, registry'[e] # NoChannel,
                    ~ Telling(d)', alive'[registry'[e][1]]
             PROVE  \/ Word(registry[e], d, "unknown")'
                    \/ Word(registry[e], d, Status(d))'
  BY DEF Heard
<1>1. PICK ch \in Channel : registry'[e] = ch /\ registry[e] = ch
  BY DEF TypeOK
<1>2. PICK w \in {"online", "offline"} : w = Status(d)
  BY DEF Status
<1>3. Status(d)' = w /\ ~ Telling(d) /\ alive[ch[1]]
  BY <1>1, <1>2
<1>4. Word(ch, d, "unknown") \/ Word(ch, d, w)
  BY <1>1, <1>2, <1>3 DEF Heard
<1>5. Word(ch, d, "unknown")' \/ Word(ch, d, w)'
  BY <1>1, <1>4
<1> QED
  BY <1>1, <1>3, <1>5 DEF Word

LEMMA WordSame ==
    ASSUME NEW ch \in Channel, NEW d \in Device, NEW w, Word(ch, d, w),
           pipe'[ch] = pipe[ch], view'[ch[1]][d] = view[ch[1]][d]
    PROVE  Word(ch, d, w)'
  BY DEF Word

LEMMA WordBefore ==
    ASSUME TypeOK, NEW ch \in Channel, NEW d \in Device, NEW w, Word(ch, d, w),
           NEW m \in Message, m.kind = "signal" \/ m.dev # d,
           pipe'[ch] = Append(pipe[ch], m), view'[ch[1]][d] = view[ch[1]][d]
    PROVE  Word(ch, d, w)'
<1>1. pipe[ch] \in Seq(Message)
  BY DEF TypeOK, Message
<1>2. /\ About(pipe'[ch], d) = About(pipe[ch], d)
      /\ Final(pipe[ch], d, w) => Final(pipe'[ch], d, w)
  BY <1>1, AppendOther
<1> QED
  BY <1>2 DEF Word

\* A step of a handler that tells nobody and lets nobody in.
LEMMA HeardQuiet ==
    ASSUME TypeOK, Heard, NEW c \in Conn, UNCHANGED <<dev, alive, pipe, view>>,
           \A b \in Conn \ {c} : call'[b] = call[b],
           call[c].pc \in {"db_off", "tell"} => call'[c].pc \in {"db_off", "tell"},
           \A d \in Device :
               \/ registry'[d] = registry[d]
               \/ registry'[d] = NoChannel /\ d = dev[c] /\ call'[c].pc \in {"db_off",
                  "tell"}
    PROVE  Heard'
<1>1. \A d \in Device : Telling(d) => Telling(d)'
  BY DEF Telling
<1>2. \A d \in Device : Telling(d)' \/ Status(d)' = Status(d)
  BY DEF Telling, Status
<1>3. \A ch \in Channel, d \in Device, w \in {"unknown", "online", "offline"} :
         alive'[ch[1]] /\ Word(ch, d, w) => Word(ch, d, w)'
  BY DEF Word
<1>4. \A d \in Device : registry'[d] \in {registry[d], NoChannel}
  OBVIOUS
<1> QED
  BY <1>1, <1>2, <1>3, <1>4, HeardKept

\* A step that changes channels and views only.
LEMMA HeardOnTheWay ==
    ASSUME TypeOK, Heard, UNCHANGED <<dev, alive, call, registry>>,
           \A ch \in Channel, d \in Device, w \in {"unknown", "online", "offline"} :
               alive[ch[1]] /\ Word(ch, d, w) => Word(ch, d, w)'
    PROVE  Heard'
<1>1. \A d \in Device : Telling(d)' <=> Telling(d)
  BY DEF Telling
<1>2. \A d \in Device : Status(d)' = Status(d)
  BY DEF Status
<1> QED
  BY <1>1, <1>2, HeardKept

LEMMA HeardCarry ==
    ASSUME TypeOK, MaxAnnounce = 1, Heard, NEW ch \in Channel, Carry(ch)
    PROVE  Heard'
<1> USE DEF clientVars, handlerVars, channelVars, rowVars, ghostVars
<1> DEFINE s == pipe[ch]
           m == Head(pipe[ch])
           c == ch[1]
<1>1. s \in Seq(Message) /\ s # <<>> /\ c \in Conn
  BY DEF Carry, TypeOK, Message, Channel
<1>2. m \in Message
  BY <1>1
<1>3. pipe'[ch] = Tail(s) /\ \A x \in Channel \ {ch} : pipe'[x] = pipe[x]
  BY DEF Carry, TypeOK
<1>4. UNCHANGED <<dev, alive, call, registry>>
  BY DEF Carry
<1>5. \A b \in Conn \ {c} : view'[b] = view[b]
  <2>1. CASE m.kind = "signal"
    BY <2>1 DEF Carry
  <2>2. CASE m.kind # "signal"
    BY <2>2 DEF Carry, TypeOK
  <2> QED
    BY <2>1, <2>2
<1>6. ASSUME NEW d \in Device
      PROVE  view'[c][d] = IF m.kind # "signal" /\ m.dev = d THEN m.kind ELSE view[c][d]
  <2>1. CASE m.kind = "signal"
    BY <2>1 DEF Carry
  <2>2. CASE m.kind # "signal"
    <3>1. view' = [view EXCEPT ![c][m.dev] = m.kind] /\ m.dev \in Device
      BY <1>2, <2>2 DEF Carry, Message, Presence, Signal
    <3> QED
      BY <1>1, <2>2, <3>1 DEF TypeOK
  <2> QED
    BY <2>1, <2>2
<1>7. ASSUME NEW x \in Channel, NEW d \in Device, NEW w \in {"unknown", "online",
   "offline"},
             Word(x, d, w)
      PROVE  Word(x, d, w)'
  <2>1. CASE x # ch
    <3>1. x[1] \in Conn \ {c}
      BY <2>1, OnlyChannel DEF Channel
    <3> QED
      BY <1>3, <1>5, <1>7, <2>1, <3>1, WordSame
  <2>2. CASE x = ch
    <3>1. CASE About(s, d) = {} /\ view[c][d] = w
      <4>1. About(Tail(s), d) = {} /\ (m.kind = "signal" \/ m.dev # d)
        BY <1>1, <3>1, TailNone
      <4> QED
        BY <1>3, <1>6, <2>2, <3>1, <4>1 DEF Word
    <3>2. CASE Final(s, d, w)
      <4>1. CASE Final(Tail(s), d, w)
        BY <1>3, <2>2, <4>1 DEF Word
      <4>2. CASE /\ About(Tail(s), d) = {}
                 /\ m.kind = w /\ w # "signal" /\ m.dev = d
        BY <1>3, <1>6, <2>2, <4>2 DEF Word
      <4> QED
        BY <1>1, <3>2, <4>1, <4>2, TailLast
    <3> QED
      BY <1>7, <2>2, <3>1, <3>2 DEF Word
  <2> QED
    BY <2>1, <2>2
<1> QED
  BY <1>4, <1>7, HeardOnTheWay

LEMMA HeardTell ==
    ASSUME TypeOK, Identity, OwnIds, LiveCarried, TruthToTell, Heard, NEW c \in Conn,
           Tell(c)
    PROVE  Heard'
<1> USE DEF clientVars, handlerVars, channelVars, rowVars, ghostVars
<1>1. PICK d0 \in Device, w0 \in {"online", "offline"} :
             d0 = dev[c] /\ d0 = call[c].dev /\ w0 = call[c].word
  BY TellCall DEF Tell, Identity, At, TypeOK
<1> DEFINE m == [kind |-> w0, dev |-> d0]
<1>2. m \in Message
  BY <1>1, MessageTypes DEF Message
<1>3. /\ pipe' = ToAll(m) /\ UNCHANGED <<dev, alive, registry, view>>
      /\ \A b \in Conn \ {c} : call'[b] = call[b]
  BY <1>1 DEF Tell, Goto, TypeOK
<1>4. Status(d0) = w0
  BY <1>1 DEF Tell, TruthToTell, Honest, Status
<1>5. SUFFICES ASSUME NEW e \in Device, NEW d \in Device, registry[e] # NoChannel,
                      ~ Telling(d)', alive[registry[e][1]]
               PROVE  \/ Word(registry[e], d, "unknown")'
                      \/ Word(registry[e], d, Status(d))'
  BY <1>3 DEF Heard
<1>6. PICK ch \in Channel : registry[e] = ch
  BY <1>5 DEF TypeOK
<1>7. PICK w \in {"online", "offline"} : w = Status(d)
  BY DEF Status
<1>8. Status(d)' = w /\ registry'[e] = ch
  BY <1>3, <1>6, <1>7 DEF Status
<1>9. pipe'[ch] = Append(pipe[ch], m)
  BY <1>3, <1>5, <1>6 DEF LiveCarried, ToAll
<1>10. pipe[ch] \in Seq(Message)
  BY DEF TypeOK, Message
<1>11. CASE d = d0
  <2>1. Final(Append(pipe[ch], m), d, m.kind)
    BY <1>2, <1>10, <1>11, AppendLast
  <2>2. Word(ch, d, w)'
    BY <1>4, <1>7, <1>9, <1>11, <2>1 DEF Word
  <2> QED
    BY <1>8, <2>2 DEF Word
<1>12. CASE d # d0
  <2>1. ~ Telling(d)
    BY <1>1, <1>3, <1>5, <1>12 DEF Telling
  <2>2. Word(ch, d, "unknown") \/ Word(ch, d, w)
    BY <1>5, <1>6, <1>7, <2>1 DEF Heard
  <2>3. view'[ch[1]][d] = view[ch[1]][d] /\ m.dev # d
    BY <1>3, <1>12
  <2>4. Word(ch, d, "unknown")' \/ Word(ch, d, w)'
    BY <1>2, <1>9, <2>2, <2>3, WordBefore
  <2> QED
    BY <1>8, <2>4 DEF Word
<1> QED
  BY <1>11, <1>12

LEMMA HeardInsert ==
    ASSUME Inv, OwnIds, MaxAnnounce = 1, FreshChannels, Heard, NEW c \in Conn,
           OnlineInsert(c)
    PROVE  Heard'
<1> USE DEF clientVars, handlerVars, channelVars, rowVars, ghostVars
<1>0. TypeOK /\ Identity /\ Live
  BY DEF Inv
<1>1. PICK d0 \in Device : d0 = dev[c] /\ d0 = id[c]
  BY <1>0 DEF OnlineInsert, Identity, Announced, At
<1>2. made[c] = 1
  BY <1>0 DEF OnlineInsert, TypeOK, Identity, Announced, At
<1>3. /\ UNCHANGED <<dev, alive, pipe>>
      /\ registry'[d0] = Only(c) /\ \A e \in Device \ {d0} : registry'[e] = registry[e]
      /\ \A d \in Device : view'[c][d] = "unknown"
      /\ \A b \in Conn \ {c} : call'[b] = call[b] /\ view'[b] = view[b]
      /\ call'[c].pc = "tell"
  BY <1>0, <1>1, <1>2 DEF OnlineInsert, GoTell, Newest, Only, TypeOK
<1>4. SUFFICES ASSUME NEW e \in Device, NEW d \in Device, registry'[e] # NoChannel,
                      ~ Telling(d)', alive[registry'[e][1]]
               PROVE  \/ Word(registry[e], d, "unknown")'
                      \/ Word(registry[e], d, Status(d))'
  BY <1>3 DEF Heard
<1>5. d # d0
  BY <1>1, <1>3, <1>4 DEF Telling
<1>6. CASE e = d0
  <2>1. pipe[Only(c)] = <<>>
    BY DEF FreshChannels, Unused, OnlineInsert, At
  <2>2. About(pipe'[Only(c)], d) = {}
    BY <1>3, <2>1 DEF About
  <2>3. view'[Only(c)[1]][d] = "unknown"
    BY <1>3 DEF Only
  <2> QED
    BY <1>3, <1>6, <2>2, <2>3 DEF Word
<1>7. CASE e # d0
  <2>1. PICK ch \in Channel : registry[e] = ch /\ registry'[e] = ch
    BY <1>0, <1>3, <1>4, <1>7 DEF TypeOK
  <2>2. PICK w \in {"online", "offline"} : w = Status(d)
    BY DEF Status
  <2>3. Status(d)' = w
    BY <1>3, <1>5, <2>2 DEF Status
  <2>4. dev[ch[1]] = e /\ ch[1] \in Conn
    BY <1>0, <1>4, <2>1 DEF Live, Serves, Channel
  <2>5. ch[1] # c
    BY <1>1, <1>7, <2>4
  <2>6. ~ Telling(d)
    BY <1>3, <1>4 DEF Telling, OnlineInsert, At
  <2>7. Word(ch, d, "unknown") \/ Word(ch, d, w)
    BY <1>4, <2>1, <2>2, <2>6 DEF Heard
  <2>8. Word(ch, d, "unknown")' \/ Word(ch, d, w)'
    BY <1>3, <2>4, <2>5, <2>7, WordSame
  <2> QED
    BY <2>1, <2>3, <2>8 DEF Word
<1> QED
  BY <1>6, <1>7

LEMMA HeardNext ==
    ASSUME Inv, OwnIds, MaxAnnounce = 1, FreshChannels, LiveCarried, TruthToTell,
           Heard, [Next]_vars
    PROVE  Heard'
<1> USE DEF clientVars, handlerVars, channelVars, rowVars, ghostVars
<1>0. TypeOK /\ Identity /\ Live
  BY DEF Inv
<1>1. ASSUME NEW c \in Conn,
             Announcing(c) \/ OnlineRow(c) \/ GoingOffline(c) \/ Ends(c) \/ OfflineRow(c)
      PROVE  Heard'
  <2>1. UNCHANGED <<dev, alive, pipe, view>>
    BY <1>1 DEF Announcing, Announce, OnlineRow, GoingOffline, GoesOffline, Ends, OfflineRow
  <2>2. \A b \in Conn \ {c} : call'[b] = call[b]
    BY <1>0, <1>1 DEF Announcing, Announce, OnlineRow, GoingOffline, GoesOffline, GoTell, Ends,
       OfflineRow, Goto, TypeOK
  <2>3. call[c].pc \in {"db_off", "tell"} => call'[c].pc \in {"db_off", "tell"}
    <3>1. CASE Announcing(c) \/ OnlineRow(c) \/ GoingOffline(c) \/ Ends(c)
      BY <3>1 DEF Announcing, Announce, OnlineRow, GoingOffline, GoesOffline, Ends, At
    <3>2. CASE OfflineRow(c)
      BY <1>0, <3>2 DEF OfflineRow, GoTell, TypeOK
    <3> QED
      BY <1>1, <3>1, <3>2
  <2>4. ASSUME NEW d \in Device
        PROVE  \/ registry'[d] = registry[d]
               \/ registry'[d] = NoChannel /\ d = dev[c] /\ call'[c].pc \in {"db_off",
                  "tell"}
    <3>1. CASE Announcing(c) \/ OnlineRow(c) \/ OfflineRow(c)
      BY <3>1 DEF Announcing, Announce, OnlineRow, OfflineRow
    <3>2. CASE GoingOffline(c)
      BY <1>0, <3>2 DEF GoingOffline, GoesOffline, GoTell, Named, TypeOK
    <3>3. CASE Ends(c)
      <4>1. CASE id[c] = NoDevice
        BY <3>3, <4>1 DEF Ends
      <4>2. CASE id[c] # NoDevice
        <5>1. id[c] = dev[c]
          BY <1>0, <4>2 DEF Identity
        <5>2. call'[c].pc = "db_off" /\ registry' = [registry EXCEPT ![dev[c]] = NoChannel]
          BY <1>0, <3>3, <4>2, <5>1 DEF Ends, Goto, WithoutDeviceOf, TypeOK
        <5> QED
          BY <1>0, <5>2 DEF TypeOK
      <4> QED
        BY <4>1, <4>2
    <3> QED
      BY <1>1, <3>1, <3>2, <3>3
  <2> QED
    BY <1>0, <2>1, <2>2, <2>3, <2>4, HeardQuiet
<1>2. ASSUME NEW c \in Conn, NEW t \in Device, Forward(c, t)
      PROVE  Heard'
  <2>1. UNCHANGED <<dev, alive, call, registry, view>>
    BY <1>2 DEF Forward
  <2>2. PICK k \in 1 .. MaxForward, ch \in Channel : k = forwards' /\ ch = registry[t]
    BY <1>0, <1>2, SignalServerAssumption DEF Forward, TypeOK
  <2> DEFINE m == [kind |-> "signal", n |-> k]
  <2>3. m \in Message
    BY <2>2, MessageTypes DEF Message
  <2>4. pipe' = [pipe EXCEPT ![ch] = Append(pipe[ch], m)]
    BY <1>2, <2>2 DEF Forward
  <2>5. pipe'[ch] = Append(pipe[ch], m) /\ \A x \in Channel \ {ch} : pipe'[x] = pipe[x]
    BY <1>0, <2>4 DEF TypeOK
  <2>6. ASSUME NEW x \in Channel, NEW d \in Device,
               NEW w \in {"unknown", "online", "offline"}, Word(x, d, w)
        PROVE  Word(x, d, w)'
    <3>1. CASE x = ch
      BY <1>0, <2>1, <2>3, <2>5, <2>6, <3>1, WordBefore
    <3>2. CASE x # ch
      BY <2>1, <2>5, <2>6, <3>2, WordSame
    <3> QED
      BY <3>1, <3>2
  <2> QED
    BY <1>0, <2>1, <2>6, HeardOnTheWay
<1>3. ASSUME NEW ch \in Channel, Task(ch)
      PROVE  Heard'
  <2>1. CASE CarryFails(ch)
    <3>1. /\ ~ alive[ch[1]] /\ UNCHANGED <<dev, alive, call, registry, view>>
          /\ \A x \in Channel \ {ch} : pipe'[x] = pipe[x]
      BY <1>0, <2>1 DEF CarryFails, TypeOK
    <3>2. \A x \in Channel, d \in Device, w \in {"unknown", "online", "offline"} :
             alive[x[1]] /\ Word(x, d, w) => Word(x, d, w)'
      BY <3>1, WordSame
    <3> QED
      BY <1>0, <3>1, <3>2, HeardOnTheWay
  <2>2. CASE CarryEnds(ch)
    <3>1. UNCHANGED <<dev, alive, call, registry, view, pipe>>
      BY <2>2 DEF CarryEnds
    <3>2. \A x \in Channel, d \in Device, w \in {"unknown", "online", "offline"} :
             alive[x[1]] /\ Word(x, d, w) => Word(x, d, w)'
      BY <3>1, WordSame
    <3> QED
      BY <1>0, <3>1, <3>2, HeardOnTheWay
  <2> QED
    BY <1>0, <1>3, <2>1, <2>2, HeardCarry DEF Task
<1>4. ASSUME NEW c \in Conn, Quits(c)
      PROVE  Heard'
  <2>1. /\ UNCHANGED <<dev, call, registry, pipe>> /\ ~ alive'[c]
        /\ \A b \in Conn \ {c} : alive'[b] = alive[b] /\ view'[b] = view[b]
    BY <1>0, <1>4 DEF Quits, Leaves, CutOff, Gone, TypeOK
  <2>2. ASSUME NEW x \in Channel, NEW d \in Device,
               NEW w \in {"unknown", "online", "offline"}, alive'[x[1]], Word(x, d, w)
        PROVE  Word(x, d, w)'
    <3>1. x[1] \in Conn \ {c}
      BY <2>1, <2>2 DEF Channel
    <3> QED
      BY <2>1, <2>2, <3>1, WordSame
  <2>3. \A d \in Device : (Telling(d)' <=> Telling(d)) /\ Status(d)' = Status(d)
    BY <2>1 DEF Telling, Status
  <2>4. \A e \in Device : registry'[e] # NoChannel /\ alive'[registry[e][1]] =>
                             alive[registry[e][1]]
    <3>1. \A e \in Device : registry[e] # NoChannel => registry[e][1] \in Conn
      BY <1>0 DEF TypeOK, Channel
    <3> QED
      BY <2>1, <3>1
  <2> QED
    BY <1>0, <2>1, <2>2, <2>3, <2>4, HeardKept
<1>5. ASSUME NEW c \in Conn, NEW d \in Device, Connect(c, d)
      PROVE  Heard'
  <2>1. /\ UNCHANGED <<registry, pipe, view>> /\ At(c, "new")
        /\ \A b \in Conn \ {c} : alive'[b] = alive[b] /\ dev'[b] = dev[b] /\ call'[b] = call[b]
    BY <1>0, <1>5 DEF Connect, Goto, TypeOK
  <2>2. \A x \in Device : Telling(x) => Telling(x)'
    BY <2>1 DEF Telling, At
  <2>3. \A x \in Device : Status(x)' = Status(x)
    BY <2>1 DEF Status
  <2>4. \A e \in Device : registry'[e] # NoChannel /\ alive'[registry[e][1]] =>
                             alive[registry[e][1]]
    <3>1. \A e \in Device : registry[e] # NoChannel => registry[e][1] \in Conn \ {c}
      BY <1>0, <2>1 DEF Live, Serves, Identity, At, TypeOK, Channel
    <3> QED
      BY <2>1, <3>1
  <2>5. \A ch \in Channel, x \in Device, w \in {"unknown", "online", "offline"} :
           Word(ch, x, w) => Word(ch, x, w)'
    BY <2>1, WordSame
  <2> QED
    BY <1>0, <2>1, <2>2, <2>3, <2>4, <2>5, HeardKept
<1>6. CASE Restart
  BY <1>6 DEF Restart, Heard
<1>7. ASSUME UNCHANGED <<dev, alive, call, registry, view, pipe>>
      PROVE  Heard'
  <2>1. \A x \in Channel, d \in Device, w \in {"unknown", "online", "offline"} :
           alive[x[1]] /\ Word(x, d, w) => Word(x, d, w)'
    BY <1>7, WordSame
  <2> QED
    BY <1>0, <1>7, <2>1, HeardOnTheWay
<1>8. ASSUME NEW d \in Device, RegisterDevice(d)
      PROVE  Heard'
  BY <1>7, <1>8 DEF RegisterDevice
<1>9. CASE UNCHANGED vars
  BY <1>7, <1>9 DEF vars
<1>10. \A c \in Conn : Tell(c) \/ OnlineInsert(c) => Heard'
  BY <1>0, HeardTell, HeardInsert
<1> QED
  BY <1>1, <1>2, <1>3, <1>4, <1>5, <1>6, <1>8, <1>9, <1>10, HandlerSteps DEF Next,
     Client, Quits

TruthInv == FreshChannels /\ LiveCarried /\ TruthToTell /\ Heard
Truth == ~ Overlapping /\ OwnIds /\ MaxAnnounce = 1 => TruthInv

LEMMA TruthStep == Inv /\ Sessions /\ Truth /\ [Next]_vars => Truth'
<1> SUFFICES ASSUME Inv, Sessions, Truth, [Next]_vars, ~ Overlapping, OwnIds,
                    MaxAnnounce = 1
             PROVE  TruthInv'
  BY DEF Truth
<1>1. FreshChannels /\ LiveCarried /\ TruthToTell /\ Heard /\ OneSession
  BY DEF Truth, TruthInv, Sessions
<1>2. TypeOK /\ Identity
  BY DEF Inv
<1>3. FreshChannels'
  BY <1>1, <1>2, FreshNext
<1>4. LiveCarried'
  BY <1>1, CarriedNext
<1>5. TruthToTell'
  BY <1>1, TruthNext
<1>6. Heard'
  BY <1>1, HeardNext
<1> QED
  BY <1>3, <1>4, <1>5, <1>6 DEF TruthInv

LEMMA TruthSuffices == TypeOK /\ Identity /\ Truth => ToldTheTruth
<1> SUFFICES ASSUME TypeOK, Identity, OwnIds, Heard,
                    NEW e \in Device, NEW d \in Device, registry[e] # NoChannel,
                    ~ BeingTold(d), alive[registry[e][1]]
             PROVE  LastWord(registry[e], d) \in {"unknown", Status(d)}
  BY DEF Truth, TruthInv, ToldTheTruth
<1>0. ~ Telling(d)
  BY DEF Telling, BeingTold, Identity, At
<1>1. registry[e] \in Channel
  BY DEF TypeOK
<1>2. Word(registry[e], d, "unknown") \/ Word(registry[e], d, Status(d))
  BY <1>0 DEF Heard
<1> QED
  BY <1>1, <1>2, WordIsLast

\* While the sessions of a device follow one another, with one DeviceOnline
\* each that names it, the last thing a registered client heard of a device, or will hear of
\* it, is what the registry says, however many devices come and go.
THEOREM ClientsHearTheTruth == Spec => []ToldTheTruth
<1>1. Init => Truth
  <2>1. Init /\ MaxAnnounce = 1 => FreshChannels
    BY OnlyChannel DEF Init, FreshChannels, Only, NoChannel
  <2>2. Init => LiveCarried /\ TruthToTell /\ Heard
    BY DEF Init, LiveCarried, TruthToTell, Honest, Heard, At, NoChannel
  <2> QED
    BY <2>1, <2>2 DEF Truth, TruthInv
<1>2. Init => Sessions
  BY DEF Init, Sessions, OneSession, RowWritten, RowFollows, Open, At, NoChannel
<1>3. Inv /\ Truth => ToldTheTruth
  BY TruthSuffices DEF Inv
<1> QED
  BY <1>1, <1>2, <1>3, SessionsNext, TruthStep, InvHolds, PTL DEF Spec

-----------------------------------------------------------------------------
(* SignalServer implements Mailbox                                         *)

\* Message n is the i-th in channel ch.
IsAt(ch, i, n) == i \in DOMAIN pipe[ch] /\ Holds(ch, i, n)

\* A message is in one place of one channel.
InOnePlace ==
    \A x, y \in Channel, i, j \in Nat, n \in 1 .. MaxForward :
        IsAt(x, i, n) /\ IsAt(y, j, n) => x = y /\ i = j

\* No number is in a channel or with a client before it is given.
Numbered ==
    /\ \A ch \in Channel, i \in Nat, n \in 1 .. MaxForward :
          IsAt(ch, i, n) => n <= forwards
    /\ \A g \in got : g[1] <= forwards

\* Nothing is there for a connection nobody opened yet.
NewIsBlank ==
    \A c \in Conn : At(c, "new") =>
        /\ dev[c] = NoDevice /\ ~ alive[c]
        /\ \A ch \in Channel : ch[1] = c => pipe[ch] = <<>>

\* A task does not stop before its channel is empty.
EndedIsEmpty == \A ch \in Channel : ~ carried[ch] => pipe[ch] = <<>>

PostInv == InOnePlace /\ Numbered /\ NewIsBlank /\ EndedIsEmpty

LEMMA PipeTypes ==
    ASSUME TypeOK, NEW ch \in Channel
    PROVE  /\ pipe[ch] \in Seq(Presence \cup Signal)
           /\ Len(pipe[ch]) \in Nat /\ DOMAIN pipe[ch] = 1 .. Len(pipe[ch])
           /\ \A i, n : IsAt(ch, i, n) => i \in Nat \ {0} /\ n \in 1 .. MaxForward
<1>1. pipe[ch] \in Seq(Presence \cup Signal)
  BY DEF TypeOK
<1>2. Len(pipe[ch]) \in Nat /\ DOMAIN pipe[ch] = 1 .. Len(pipe[ch])
  BY <1>1
<1>3. ASSUME NEW i, NEW n, IsAt(ch, i, n)
      PROVE  i \in Nat \ {0} /\ n \in 1 .. MaxForward
  <2>1. i \in 1 .. Len(pipe[ch])
    BY <1>2, <1>3 DEF IsAt
  <2>2. pipe[ch][i] \in Presence \cup Signal
    BY <1>1, <2>1
  <2>3. pipe[ch][i] \in Signal
    BY <1>3, <2>2 DEF IsAt, Holds, Presence
  <2> QED
    BY <1>2, <1>3, <2>1, <2>3 DEF IsAt, Holds, Signal
<1> QED
  BY <1>1, <1>2, <1>3

\* What the steps make of the messages in the channels.
LEMMA SamePipe ==
    ASSUME NEW ch, pipe'[ch] = pipe[ch]
    PROVE  \A i, n : IsAt(ch, i, n)' <=> IsAt(ch, i, n)
BY DEF IsAt, Holds

LEMMA EmptyPipe ==
    ASSUME NEW ch, pipe'[ch] = <<>>
    PROVE  \A i, n : ~ IsAt(ch, i, n)'
BY DEF IsAt, Holds

LEMMA AppendedAt ==
    ASSUME TypeOK, NEW ch \in Channel, NEW m, pipe'[ch] = Append(pipe[ch], m)
    PROVE  \A i \in Nat : \A n : IsAt(ch, i, n)' <=>
              \/ IsAt(ch, i, n)
              \/ i = Len(pipe[ch]) + 1 /\ m.kind = "signal" /\ m.n = n
<1>1. Len(pipe[ch]) \in Nat /\ DOMAIN pipe[ch] = 1 .. Len(pipe[ch])
  BY PipeTypes
<1>2. /\ DOMAIN pipe'[ch] = 1 .. Len(pipe[ch]) + 1
      /\ \A i \in 1 .. Len(pipe[ch]) : pipe'[ch][i] = pipe[ch][i]
      /\ pipe'[ch][Len(pipe[ch]) + 1] = m
  BY PipeTypes
<1> QED
  BY <1>1, <1>2 DEF IsAt, Holds

LEMMA ToldAt ==
    ASSUME TypeOK, NEW m, m.kind # "signal", pipe' = ToAll(m), NEW ch \in Channel
    PROVE  \A i \in Nat : \A n : IsAt(ch, i, n)' <=> IsAt(ch, i, n)
<1>1. pipe'[ch] = pipe[ch] \/ pipe'[ch] = Append(pipe[ch], m)
  BY DEF ToAll
<1>2. CASE pipe'[ch] = pipe[ch]
  BY <1>2, SamePipe
<1>3. CASE pipe'[ch] = Append(pipe[ch], m)
  BY <1>3, AppendedAt
<1> QED
  BY <1>1, <1>2, <1>3

LEMMA TailedAt ==
    ASSUME TypeOK, NEW ch \in Channel, pipe[ch] # <<>>, pipe'[ch] = Tail(pipe[ch])
    PROVE  \A i \in Nat \ {0} : \A n : IsAt(ch, i, n)' <=> IsAt(ch, i + 1, n)
<1>1. Len(pipe[ch]) \in Nat \ {0} /\ DOMAIN pipe[ch] = 1 .. Len(pipe[ch])
  BY PipeTypes
<1>2. /\ DOMAIN pipe'[ch] = 1 .. Len(pipe[ch]) - 1
      /\ \A i \in 1 .. Len(pipe[ch]) - 1 : pipe'[ch][i] = pipe[ch][i + 1]
  BY <1>1, PipeTypes
<1> QED
  BY <1>1, <1>2 DEF IsAt, Holds

\* Every step, by what it does to the channels.
Posts(c, target, ch, k) ==
    /\ Forward(c, target)
    /\ ch = registry[target] /\ k = forwards + 1
    /\ k \in 1 .. MaxForward /\ forwards \in Nat /\ forwards' = k
    /\ got' = got
    /\ pipe'[ch] = Append(pipe[ch], [kind |-> "signal", n |-> k])
    /\ \A x \in Channel \ {ch} : pipe'[x] = pipe[x]

Takes(ch) ==
    /\ Carry(ch)
    /\ forwards' = forwards
    /\ pipe[ch] # <<>> /\ pipe'[ch] = Tail(pipe[ch])
    /\ \A x \in Channel \ {ch} : pipe'[x] = pipe[x]

LEMMA ForwardPosts ==
    ASSUME TypeOK, NEW c \in Conn, NEW target \in Device, Forward(c, target)
    PROVE  \E ch \in Channel, k \in Nat : Posts(c, target, ch, k)
<1>1. PICK ch \in Channel : ch = registry[target]
  BY DEF Forward, TypeOK
<1>2. PICK k \in Nat : k = forwards + 1
  BY DEF TypeOK
<1>3. k \in 1 .. MaxForward /\ forwards \in Nat /\ forwards' = k
  BY <1>2, BoundsTyped DEF Forward, TypeOK
<1>4. /\ pipe' = [pipe EXCEPT ![ch] = Append(@, [kind |-> "signal", n |-> k])]
      /\ got' = got
  BY <1>1, <1>3 DEF Forward
<1>5. /\ pipe'[ch] = Append(pipe[ch], [kind |-> "signal", n |-> k])
      /\ \A x \in Channel \ {ch} : pipe'[x] = pipe[x]
  BY <1>4 DEF TypeOK
<1> QED
  BY <1>1, <1>2, <1>3, <1>4, <1>5 DEF Posts

LEMMA CarryTakes ==
    ASSUME TypeOK, NEW ch \in Channel, Carry(ch)
    PROVE  Takes(ch)
<1>1. pipe' = [pipe EXCEPT ![ch] = Tail(@)] /\ pipe[ch] # <<>> /\ forwards' = forwards
  BY DEF Carry
<1> QED
  BY <1>1 DEF Takes, TypeOK

LEMMA PipeSteps ==
    ASSUME TypeOK, [Next]_vars
    PROVE  \/ pipe' = pipe /\ forwards' = forwards /\ got' \subseteq got
           \/ /\ \E m : m.kind # "signal" /\ pipe' = ToAll(m)
              /\ forwards' = forwards /\ got' = got
           \/ \E c \in Conn, target \in Device, ch \in Channel, k \in Nat :
                 Posts(c, target, ch, k)
           \/ \E ch \in Channel : Takes(ch)
           \/ /\ \A ch \in Channel : pipe'[ch] \in {<<>>, pipe[ch]}
              /\ forwards' = forwards /\ got' \subseteq got
<1> USE DEF clientVars, handlerVars, channelVars, rowVars, ghostVars
<1>1. CASE UNCHANGED vars
  BY <1>1 DEF vars
<1>2. ASSUME NEW c \in Conn, Client(c)
      PROVE  pipe' = pipe /\ forwards' = forwards /\ got' \subseteq got
  BY <1>2 DEF Client, Quits, Leaves, CutOff, Gone, Connect
<1>3. ASSUME NEW c \in Conn, Tell(c)
      PROVE  /\ \E m : m.kind # "signal" /\ pipe' = ToAll(m)
             /\ forwards' = forwards /\ got' = got
  <2>1. PICK m : m = [kind |-> call[c].word, dev |-> call[c].dev]
    OBVIOUS
  <2>2. call[c].word \in {"online", "offline"}
    BY <1>3, TellCall DEF Tell, At, TypeOK
  <2>3. m.kind # "signal" /\ pipe' = ToAll(m)
    BY <1>3, <2>1, <2>2 DEF Tell
  <2> QED
    BY <1>3, <2>3 DEF Tell
<1>4. ASSUME NEW c \in Conn, NEW target \in Device, Forward(c, target)
      PROVE  \E ch \in Channel, k \in Nat : Posts(c, target, ch, k)
  BY <1>4, ForwardPosts
<1>5. ASSUME NEW c \in Conn,
             \/ Announcing(c) \/ OnlineRow(c) \/ OnlineInsert(c) \/ GoingOffline(c)
             \/ Ends(c) \/ OfflineRow(c)
      PROVE  pipe' = pipe /\ forwards' = forwards /\ got' \subseteq got
  BY <1>5 DEF Announcing, Announce, OnlineRow, OnlineInsert, GoingOffline, GoesOffline,
     Ends, OfflineRow
<1>6. ASSUME NEW ch \in Channel, Carry(ch)
      PROVE  Takes(ch)
  BY <1>6, CarryTakes
<1>7. ASSUME NEW ch \in Channel, CarryFails(ch) \/ CarryEnds(ch)
      PROVE  /\ \A x \in Channel : pipe'[x] \in {<<>>, pipe[x]}
             /\ forwards' = forwards /\ got' \subseteq got
  BY <1>7 DEF CarryFails, CarryEnds, TypeOK
<1>8. CASE Restart
  BY <1>8 DEF Restart
<1>9. ASSUME NEW d \in Device, RegisterDevice(d)
      PROVE  pipe' = pipe /\ forwards' = forwards /\ got' \subseteq got
  BY <1>9 DEF RegisterDevice
<1> QED
  BY <1>1, <1>2, <1>3, <1>4, <1>5, <1>6, <1>7, <1>8, <1>9, HandlerSteps DEF Next, Task

\* So a message comes to a place from a place, or is new.
LEMMA PlacesStep ==
    ASSUME TypeOK, [Next]_vars
    PROVE  \/ \A ch \in Channel, i \in Nat : \A n :
                 IsAt(ch, i, n)' => IsAt(ch, i, n)
           \/ \E c \in Conn, target \in Device, ch \in Channel, k \in Nat :
                 /\ Posts(c, target, ch, k)
                 /\ \A x \in Channel, i \in Nat : \A n :
                       IsAt(x, i, n)' <=>
                         \/ IsAt(x, i, n)
                         \/ x = ch /\ i = Len(pipe[ch]) + 1 /\ n = k
           \/ \E ch \in Channel :
                 /\ Takes(ch)
                 /\ \A x \in Channel, i \in Nat \ {0} : \A n :
                       IsAt(x, i, n)' <=> IsAt(x, IF x = ch THEN i + 1 ELSE i, n)
<1>1. CASE \A ch \in Channel : pipe'[ch] \in {<<>>, pipe[ch]}
  BY <1>1, SamePipe, EmptyPipe
<1>2. CASE \E m : m.kind # "signal" /\ pipe' = ToAll(m)
  BY <1>2, ToldAt
<1>3. ASSUME NEW c \in Conn, NEW target \in Device, NEW ch \in Channel, NEW k \in Nat,
             Posts(c, target, ch, k)
      PROVE  \A x \in Channel, i \in Nat : \A n :
                IsAt(x, i, n)' <=>
                  \/ IsAt(x, i, n)
                  \/ x = ch /\ i = Len(pipe[ch]) + 1 /\ n = k
  <2>1. PICK m : m = [kind |-> "signal", n |-> k]
    OBVIOUS
  <2>2. pipe'[ch] = Append(pipe[ch], m) /\ m.kind = "signal" /\ m.n = k
    BY <1>3, <2>1 DEF Posts
  <2>3. \A i \in Nat : \A n : IsAt(ch, i, n)' <=>
           \/ IsAt(ch, i, n)
           \/ i = Len(pipe[ch]) + 1 /\ n = k
    BY <2>2, AppendedAt
  <2>4. \A x \in Channel \ {ch} : \A i, n : IsAt(x, i, n)' <=> IsAt(x, i, n)
    BY <1>3, SamePipe DEF Posts
  <2> QED
    BY <2>3, <2>4
<1>4. ASSUME NEW ch \in Channel, Takes(ch)
      PROVE  \A x \in Channel, i \in Nat \ {0} : \A n :
                IsAt(x, i, n)' <=> IsAt(x, IF x = ch THEN i + 1 ELSE i, n)
  <2>1. \A i \in Nat \ {0} : \A n : IsAt(ch, i, n)' <=> IsAt(ch, i + 1, n)
    BY <1>4, TailedAt DEF Takes
  <2>2. \A x \in Channel \ {ch} : \A i, n : IsAt(x, i, n)' <=> IsAt(x, i, n)
    BY <1>4, SamePipe DEF Takes
  <2> QED
    BY <2>1, <2>2
<1> QED
  BY <1>1, <1>2, <1>3, <1>4, PipeSteps

LEMMA TakenWasFirst ==
    ASSUME TypeOK, NEW ch \in Channel, Takes(ch)
    PROVE  LET m == Head(pipe[ch]) IN
             IF m.kind = "signal"
             THEN IsAt(ch, 1, m.n) /\ got' = got \cup {<<m.n, ch[1]>>}
             ELSE (\A n : ~ IsAt(ch, 1, n)) /\ got' = got
<1>1. Head(pipe[ch]) = pipe[ch][1] /\ 1 \in DOMAIN pipe[ch]
  BY PipeTypes DEF Takes
<1> QED
  BY <1>1 DEF Takes, Carry, IsAt, Holds

LEMMA NumbersGrow ==
    ASSUME TypeOK, Numbered, [Next]_vars
    PROVE  /\ forwards \in Nat /\ forwards' \in Nat /\ forwards <= forwards'
           /\ \A g \in got' : g[1] <= forwards'
<1>1. forwards \in Nat /\ \A g \in got : g[1] \in Nat /\ g[1] <= forwards
  BY DEF TypeOK, Numbered
<1>2. ASSUME got' \subseteq got, forwards' = forwards \/ forwards' = forwards + 1
      PROVE  /\ forwards' \in Nat /\ forwards <= forwards'
             /\ \A g \in got' : g[1] <= forwards'
  BY <1>1, <1>2
<1>3. ASSUME NEW ch \in Channel, Takes(ch)
      PROVE  forwards' = forwards /\ \A g \in got' : g[1] <= forwards
  <2>1. PICK m : m = Head(pipe[ch])
    OBVIOUS
  <2>2. \/ m.kind = "signal" /\ IsAt(ch, 1, m.n) /\ got' = got \cup {<<m.n, ch[1]>>}
        \/ got' = got
    BY <1>3, <2>1, TakenWasFirst
  <2>3. IsAt(ch, 1, m.n) => m.n <= forwards
    BY PipeTypes DEF Numbered
  <2> QED
    BY <1>1, <1>3, <2>2, <2>3 DEF Takes
<1>4. ASSUME NEW c \in Conn, NEW target \in Device, NEW ch \in Channel, NEW k \in Nat,
             Posts(c, target, ch, k)
      PROVE  got' \subseteq got /\ forwards' = forwards + 1
  BY <1>4 DEF Posts
<1>5. \/ got' \subseteq got /\ (forwards' = forwards \/ forwards' = forwards + 1)
      \/ \E ch \in Channel : Takes(ch)
  BY <1>4, PipeSteps
<1> QED
  BY <1>1, <1>2, <1>3, <1>5

LEMMA InOnePlaceNext ==
    ASSUME TypeOK, TypeOK', InOnePlace, Numbered, [Next]_vars
    PROVE  InOnePlace' /\ Numbered'
<1>0. /\ forwards \in Nat /\ forwards' \in Nat /\ forwards <= forwards'
      /\ \A g \in got' : g[1] <= forwards'
  BY NumbersGrow
<1>1. CASE \A ch \in Channel, i \in Nat : \A n : IsAt(ch, i, n)' => IsAt(ch, i, n)
  BY <1>0, <1>1 DEF InOnePlace, Numbered
<1>2. ASSUME NEW c \in Conn, NEW target \in Device, NEW ch \in Channel, NEW k \in Nat,
             Posts(c, target, ch, k),
             \A x \in Channel, i \in Nat : \A n :
                IsAt(x, i, n)' <=>
                  \/ IsAt(x, i, n)
                  \/ x = ch /\ i = Len(pipe[ch]) + 1 /\ n = k
      PROVE  InOnePlace' /\ Numbered'
  <2>1. k = forwards + 1 /\ forwards' = k
    BY <1>2 DEF Posts
  <2>2. \A x \in Channel, i \in Nat : ~ IsAt(x, i, k)
    BY <1>0, <2>1, PipeTypes DEF Numbered
  <2>3. InOnePlace'
    BY <1>2, <2>2 DEF InOnePlace
  <2>4. Numbered'
    BY <1>0, <1>2, <2>1 DEF Numbered
  <2> QED
    BY <2>3, <2>4
<1>3. ASSUME NEW ch \in Channel, Takes(ch),
             \A x \in Channel, i \in Nat \ {0} : \A n :
                IsAt(x, i, n)' <=> IsAt(x, IF x = ch THEN i + 1 ELSE i, n)
      PROVE  InOnePlace' /\ Numbered'
  <2>0. \A x \in Channel, i \in Nat : \A n : IsAt(x, i, n)' => i # 0
    <3> SUFFICES ASSUME NEW x \in Channel
                 PROVE  0 \notin DOMAIN pipe'[x]
      BY DEF IsAt
    <3>1. pipe'[x] \in Seq(Presence \cup Signal)
      BY DEF TypeOK
    <3> QED
      BY <3>1
  <2>1. ASSUME NEW x \in Channel, NEW i \in Nat, NEW n, IsAt(x, i, n)'
        PROVE  \E j \in Nat : /\ IsAt(x, j, n)
                             /\ j = IF x = ch THEN i + 1 ELSE i
    BY <1>3, <2>0, <2>1
  <2>2. InOnePlace'
    <3> SUFFICES ASSUME NEW x \in Channel, NEW y \in Channel, NEW i \in Nat, NEW j \in Nat,
                        NEW n \in 1 .. MaxForward, IsAt(x, i, n)', IsAt(y, j, n)'
                 PROVE  x = y /\ i = j
      BY DEF InOnePlace
    <3>1. PICK a \in Nat : IsAt(x, a, n) /\ a = IF x = ch THEN i + 1 ELSE i
      BY <2>1
    <3>2. PICK b \in Nat : IsAt(y, b, n) /\ b = IF y = ch THEN j + 1 ELSE j
      BY <2>1
    <3> QED
      BY <3>1, <3>2 DEF InOnePlace
  <2>3. Numbered'
    BY <1>0, <2>1 DEF Numbered
  <2> QED
    BY <2>2, <2>3
<1> QED
  BY <1>1, <1>2, <1>3, PlacesStep

LEMMA NewIsBlankHandle ==
    ASSUME Inv, NewIsBlank, NEW c \in Conn, Handle(c)
    PROVE  NewIsBlank'
<1> USE DEF clientVars, handlerVars, channelVars, rowVars, ghostVars
<1>1. TypeOK /\ Identity /\ Live
  BY DEF Inv
<1>2. /\ dev' = dev /\ alive' = alive
      /\ \A x \in Conn : At(x, "new")' => At(x, "new")
  <2>0. ASSUME NEW v, v.pc # "new", call' = [call EXCEPT ![c] = v]
        PROVE  \A x \in Conn : At(x, "new")' => At(x, "new")
    BY <1>1, <2>0 DEF At, TypeOK
  <2>1. CASE Announcing(c) \/ OnlineRow(c) \/ Ends(c)
    <3>1. Goto(c, "db_on") \/ Goto(c, "insert") \/ Goto(c, "done") \/ Goto(c, "db_off")
      BY <2>1 DEF Announcing, Announce, OnlineRow, Ends
    <3>2. dev' = dev /\ alive' = alive
      BY <2>1 DEF Announcing, Announce, OnlineRow, Ends
    <3> QED
      BY <2>0, <3>1, <3>2 DEF Goto
  <2>2. CASE OnlineInsert(c) \/ GoingOffline(c) \/ OfflineRow(c)
    <3>1. PICK v : v.pc = "tell" /\ call' = [call EXCEPT ![c] = v]
      BY <2>2 DEF OnlineInsert, GoingOffline, GoesOffline, GoTell, OfflineRow
    <3>2. dev' = dev /\ alive' = alive
      BY <2>2 DEF OnlineInsert, GoingOffline, GoesOffline, OfflineRow
    <3> QED
      BY <2>0, <3>1, <3>2
  <2>3. CASE Tell(c)
    <3>1. call[c].then \in {"read", "done"}
      BY <1>1, <2>3, TellCall DEF Tell, At, TypeOK
    <3> QED
      BY <1>1, <2>3, <3>1 DEF Tell, At, Goto, TypeOK
  <2>4. ASSUME NEW target \in Device, Forward(c, target)
        PROVE  dev' = dev /\ alive' = alive /\ call' = call
    BY <2>4 DEF Forward
  <2> QED
    BY <2>1, <2>2, <2>3, <2>4, HandlerSteps DEF At
\* No channel of a new connection is registered.
<1>3. \A d \in Device, x \in Conn :
         At(x, "new") /\ registry[d] # NoChannel => registry[d][1] # x
  BY <1>1 DEF Live, Serves, Identity, At
<1>4. ASSUME NEW ch \in Channel, \A d \in Device : registry[d] # ch
      PROVE  pipe'[ch] = pipe[ch]
  <2>1. CASE Tell(c)
    BY <1>4, <2>1 DEF Tell, ToAll
  <2>2. ASSUME NEW target \in Device, Forward(c, target)
        PROVE  pipe'[ch] = pipe[ch]
    BY <1>1, <1>4, <2>2 DEF Forward, TypeOK
  <2> QED
    BY <2>1, <2>2
       DEF Handle, Announcing, Announce, OnlineRow, OnlineInsert, GoingOffline,
          GoesOffline, Ends, OfflineRow
<1>5. \A ch \in Channel : ch # NoChannel
  BY DEF Channel, NoChannel
<1> QED
  BY <1>2, <1>3, <1>4, <1>5 DEF NewIsBlank

LEMMA NewIsBlankNext ==
    ASSUME Inv, NewIsBlank, [Next]_vars
    PROVE  NewIsBlank'
<1> USE DEF clientVars, handlerVars, channelVars, rowVars, ghostVars
<1>1. TypeOK
  BY DEF Inv
<1>2. CASE UNCHANGED vars
  BY <1>2 DEF vars, NewIsBlank, At
<1>3. ASSUME NEW c \in Conn, NEW d \in Device, Connect(c, d)
      PROVE  NewIsBlank'
  BY <1>1, <1>3 DEF Connect, NewIsBlank, At, Goto, TypeOK
<1>4. ASSUME NEW c \in Conn, Quits(c)
      PROVE  NewIsBlank'
  BY <1>1, <1>4 DEF Quits, Leaves, CutOff, Gone, NewIsBlank, At, TypeOK
<1>5. ASSUME NEW ch \in Channel, Task(ch)
      PROVE  NewIsBlank'
  <2>1. /\ dev' = dev /\ alive' = alive /\ call' = call
        /\ \A x \in Channel : pipe[x] = <<>> => pipe'[x] = <<>>
    BY <1>1, <1>5 DEF Task, Carry, CarryFails, CarryEnds, TypeOK
  <2> QED
    BY <2>1 DEF NewIsBlank, At
<1>6. ASSUME NEW d \in Device, RegisterDevice(d)
      PROVE  NewIsBlank'
  BY <1>6 DEF RegisterDevice, NewIsBlank, At
<1>7. CASE Restart
  BY <1>7 DEF Restart, NewIsBlank, At
<1> QED
  BY <1>2, <1>3, <1>4, <1>5, <1>6, <1>7, NewIsBlankHandle DEF Next, Client, Quits

LEMMA EndedIsEmptyNext ==
    ASSUME TypeOK, EndedIsEmpty, [Next]_vars
    PROVE  EndedIsEmpty'
<1> USE DEF clientVars, handlerVars, channelVars, rowVars, ghostVars
<1>1. ASSUME \A ch \in Channel : carried[ch] => carried'[ch], pipe' = pipe
      PROVE  EndedIsEmpty'
  BY <1>1 DEF EndedIsEmpty
<1>2. ASSUME NEW c \in Conn, NEW d \in Device, Forward(c, d)
      PROVE  EndedIsEmpty'
  BY <1>2 DEF Forward, EndedIsEmpty, TypeOK
<1>3. ASSUME NEW c \in Conn, Tell(c)
      PROVE  EndedIsEmpty'
  BY <1>3 DEF Tell, ToAll, EndedIsEmpty
<1>4. ASSUME NEW c \in Conn, Announcing(c)
      PROVE  EndedIsEmpty'
  BY <1>1, <1>4 DEF Announcing, Announce, TypeOK
<1>5. ASSUME NEW ch \in Channel, Carry(ch)
      PROVE  EndedIsEmpty'
  BY <1>5 DEF Carry, EndedIsEmpty, TypeOK
<1>6. ASSUME NEW ch \in Channel, CarryFails(ch) \/ CarryEnds(ch)
      PROVE  EndedIsEmpty'
  BY <1>6 DEF CarryFails, CarryEnds, RecvIsNone, EndedIsEmpty, TypeOK
<1>7. CASE Restart
  BY <1>7 DEF Restart, EndedIsEmpty
<1>8. CASE UNCHANGED vars
  BY <1>1, <1>8 DEF vars
<1>9. ASSUME NEW d \in Device, RegisterDevice(d)
      PROVE  EndedIsEmpty'
  BY <1>1, <1>9 DEF RegisterDevice
<1>10. CASE \E c \in Conn : OnlineRow(c) \/ OnlineInsert(c) \/ GoingOffline(c) \/ Ends(c)
                            \/ OfflineRow(c) \/ Client(c)
  <2>1. UNCHANGED <<carried, pipe>>
    BY <1>10 DEF Client, Quits, Leaves, CutOff, Gone, Connect, OnlineRow, OnlineInsert,
       GoingOffline, GoesOffline, Ends,
                 OfflineRow
  <2> QED
    BY <1>1, <2>1
<1> QED
  BY <1>2, <1>3, <1>4, <1>5, <1>6, <1>7, <1>8, <1>9, <1>10, HandlerSteps DEF Next, Task

LEMMA PostInvHolds == Spec => [](Inv /\ PostInv)
<1>1. Init => PostInv
  BY DEF Init, PostInv, InOnePlace, Numbered, NewIsBlank, EndedIsEmpty, IsAt, At
<1>2. Inv /\ PostInv /\ [Next]_vars => (Inv /\ PostInv)'
  BY InvNext, InOnePlaceNext, NewIsBlankNext, EndedIsEmptyNext DEF Inv, PostInv
<1> QED
  BY <1>1, <1>2, InitInv, PTL DEF Spec

\* What the mailboxes show of the server.
Entries == [d \in Device |-> IF registry[d] = NoChannel THEN {} ELSE {registry[d][1]}]
Opened == [c \in Conn |-> IF dev[c] = NoDevice THEN {} ELSE {dev[c]}]
Waiting == [c \in Conn |-> WaitingFor(c)]
Delivered == [c \in Conn |-> {n \in 1 .. forwards : <<n, c>> \in got}]

OnTheWay(c, n) == \E ch \in Channel, i \in Nat : ch[1] = c /\ IsAt(ch, i, n)

BoxesAre ==
    \A c \in Conn : \A n :
        /\ n \in Waiting[c] <=> alive[c] /\ OnTheWay(c, n)
        /\ n \in Delivered[c] <=> <<n, c>> \in got

LEMMA BoxesMean == TypeOK /\ PostInv => BoxesAre
<1> SUFFICES ASSUME TypeOK, PostInv, NEW c \in Conn, NEW n
             PROVE  /\ n \in Waiting[c] <=> alive[c] /\ OnTheWay(c, n)
                    /\ n \in Delivered[c] <=> <<n, c>> \in got
  BY DEF BoxesAre
<1>1. forwards \in Nat /\ Numbered
  BY DEF TypeOK, PostInv
<1>2. ASSUME NEW ch \in Channel, NEW i, IsAt(ch, i, n)
      PROVE  i \in Nat /\ n \in 1 .. forwards
  <2>1. i \in Nat \ {0} /\ n \in 1 .. MaxForward
    BY <1>2, PipeTypes
  <2> QED
    BY <1>1, <1>2, <2>1 DEF Numbered
<1>3. n \in Waiting[c] <=>
        /\ n \in 1 .. forwards /\ alive[c]
        /\ \E k \in 1 .. MaxAnnounce : carried[<<c, k>>] /\ \E i : IsAt(<<c, k>>, i, n)
  BY DEF Waiting, WaitingFor, IsAt
<1>4. /\ \A k \in 1 .. MaxAnnounce : <<c, k>> \in Channel
      /\ \A ch \in Channel : \A i : IsAt(ch, i, n) => carried[ch]
  BY DEF Channel, PostInv, EndedIsEmpty, IsAt
<1>5. \A ch \in Channel : ch[1] = c => \E k \in 1 .. MaxAnnounce : ch = <<c, k>>
  BY DEF Channel
<1>6. n \in Waiting[c] <=> alive[c] /\ OnTheWay(c, n)
  BY <1>2, <1>3, <1>4, <1>5 DEF OnTheWay
<1>7. <<n, c>> \in got => n \in 1 .. forwards
  <2>1. <<n, c>> \in got => n \in 1 .. MaxForward
    BY DEF TypeOK
  <2> QED
    BY <1>1, <2>1 DEF Numbered
<1> QED
  BY <1>6, <1>7 DEF Delivered

\* What every step brings along.
LEMMA PostStep ==
    ASSUME Inv, PostInv, [Next]_vars
    PROVE  /\ TypeOK /\ TypeOK' /\ Identity /\ BoxesAre /\ BoxesAre'
           /\ InOnePlace /\ Numbered /\ NewIsBlank
<1>1. Inv' /\ PostInv'
  BY InvNext, InOnePlaceNext, NewIsBlankNext, EndedIsEmptyNext DEF Inv, PostInv
<1>2. TypeOK' /\ PostInv' => BoxesAre'
  BY BoxesMean, PTL
<1> QED
  BY <1>1, <1>2, BoxesMean DEF Inv, PostInv

LEMMA EntriesStay == ASSUME registry' = registry  PROVE Entries' = Entries
BY DEF Entries

LEMMA OpenedStay == ASSUME dev' = dev  PROVE Opened' = Opened
BY DEF Opened

LEMMA DeliveredStays ==
    ASSUME got' = got, forwards' = forwards  PROVE Delivered' = Delivered
BY DEF Delivered

LEMMA WaitingStays ==
    ASSUME BoxesAre, BoxesAre', alive' = alive,
           \A c \in Conn : \A n : alive[c] => (OnTheWay(c, n)' <=> OnTheWay(c, n))
    PROVE  Waiting' = Waiting
<1>1. ASSUME NEW c \in Conn
      PROVE  WaitingFor(c)' = WaitingFor(c)
  <2>1. \A n : n \in Waiting[c]' <=> n \in Waiting[c]
    BY DEF BoxesAre
  <2>2. Waiting[c]' = WaitingFor(c)' /\ Waiting[c] = WaitingFor(c)
    BY DEF Waiting
  <2> QED
    BY <2>1, <2>2
<1> QED
  BY <1>1 DEF Waiting

\* The other steps: nobody's mailbox changes.
LEMMA NothingMoves ==
    ASSUME Inv, PostInv, [Next]_vars,
           UNCHANGED <<registry, dev, alive, got, forwards>>,
           \A c \in Conn : \A n : alive[c] => (OnTheWay(c, n)' <=> OnTheWay(c, n))
    PROVE  UNCHANGED Post!vars
<1>1. BoxesAre /\ BoxesAre'
  BY PostStep
<1>2. /\ Entries' = Entries /\ Opened' = Opened
      /\ Delivered' = Delivered /\ Waiting' = Waiting
  BY <1>1, EntriesStay, OpenedStay, DeliveredStays, WaitingStays
<1> QED
  BY <1>2 DEF Post!vars, Entries, Opened, Delivered, Waiting

LEMMA PipesStay ==
    ASSUME pipe' = pipe
    PROVE  \A c \in Conn : \A n : OnTheWay(c, n)' <=> OnTheWay(c, n)
BY SamePipe DEF OnTheWay

LEMMA TellingMovesNothing ==
    ASSUME Inv, PostInv, [Next]_vars, NEW c \in Conn, Tell(c)
    PROVE  UNCHANGED Post!vars
<1>0. TypeOK
  BY DEF Inv
<1>1. PICK m : m = [kind |-> call[c].word, dev |-> call[c].dev]
  OBVIOUS
<1>2. m.kind # "signal" /\ pipe' = ToAll(m)
  <2>1. call[c].word \in {"online", "offline"}
    BY <1>0, TellCall DEF Tell, At, TypeOK
  <2> QED
    BY <1>1, <2>1 DEF Tell
<1>3. \A b \in Conn : \A n : OnTheWay(b, n)' <=> OnTheWay(b, n)
  BY <1>0, <1>2, ToldAt DEF OnTheWay
<1> QED
  BY <1>3, NothingMoves DEF Tell, clientVars, ghostVars

LEMMA CarryDelivers ==
    ASSUME Inv, PostInv, [Next]_vars, NEW ch \in Channel, Carry(ch)
    PROVE  UNCHANGED Post!vars \/ \E c \in Conn : \E n \in Waiting[c] : Post!Delivers(c, n)
<1>0. /\ TypeOK /\ TypeOK' /\ BoxesAre /\ BoxesAre' /\ InOnePlace
      /\ Takes(ch) /\ forwards' = forwards
      /\ UNCHANGED <<registry, dev, alive>> /\ alive[ch[1]]
  BY PostStep, CarryTakes DEF Takes, Carry, clientVars
<1>1. PICK c \in Conn : c = ch[1]
  BY DEF Channel
<1>2. /\ \A x \in Channel \ {ch} : \A i, n : IsAt(x, i, n)' <=> IsAt(x, i, n)
      /\ \A i \in Nat \ {0} : \A n : IsAt(ch, i, n)' <=> IsAt(ch, i + 1, n)
  BY <1>0, SamePipe, TailedAt DEF Takes
<1>3. /\ \A i \in Nat : \A n : IsAt(ch, i, n) => i \in Nat \ {0} /\ n \in 1 .. MaxForward
      /\ \A i \in Nat : \A n : IsAt(ch, i, n)' => i \in Nat \ {0}
  <2>1. 0 \notin DOMAIN pipe'[ch]
    BY <1>0 DEF TypeOK
  <2> QED
    BY <1>0, <2>1, PipeTypes DEF IsAt
\* The message that was first is gone, the others are there.
<1>4. /\ \A b \in Conn \ {c} : \A n : OnTheWay(b, n)' <=> OnTheWay(b, n)
      /\ \A n : ~ IsAt(ch, 1, n) => (OnTheWay(c, n)' <=> OnTheWay(c, n))
      /\ \A n : IsAt(ch, 1, n) => ~ OnTheWay(c, n)'
  <2>1. \A b \in Conn \ {c} : \A n : OnTheWay(b, n)' <=> OnTheWay(b, n)
    BY <1>1, <1>2 DEF OnTheWay
  <2>2. ASSUME NEW n, OnTheWay(c, n)'
        PROVE  OnTheWay(c, n) /\ ~ IsAt(ch, 1, n)
    <3>1. PICK x \in Channel, i \in Nat : x[1] = c /\ IsAt(x, i, n)'
      BY <2>2 DEF OnTheWay
    <3>2. CASE x # ch
      <4>1. IsAt(x, i, n) /\ n \in 1 .. MaxForward
        BY <1>0, <1>2, <3>1, <3>2, PipeTypes
      <4> QED
        BY <1>0, <3>1, <3>2, <4>1 DEF OnTheWay, InOnePlace
    <3>3. CASE x = ch
      <4>1. i # 0 /\ IsAt(ch, i + 1, n) /\ n \in 1 .. MaxForward
        BY <1>2, <1>3, <3>1, <3>3
      <4>2. i + 1 # 1 /\ i + 1 \in Nat
        BY <4>1
      <4> QED
        BY <1>0, <3>1, <3>3, <4>1, <4>2 DEF OnTheWay, InOnePlace
    <3> QED
      BY <3>2, <3>3
  <2>3. ASSUME NEW n, OnTheWay(c, n), ~ IsAt(ch, 1, n)
        PROVE  OnTheWay(c, n)'
    <3>1. PICK x \in Channel, i \in Nat : x[1] = c /\ IsAt(x, i, n)
      BY <2>3 DEF OnTheWay
    <3>2. CASE x # ch
      BY <1>2, <3>1, <3>2 DEF OnTheWay
    <3>3. CASE x = ch
      <4>1. i # 0 /\ i # 1
        BY <1>3, <2>3, <3>1, <3>3
      <4>2. PICK j \in Nat \ {0} : j + 1 = i
        <5>1. i - 1 \in Nat \ {0} /\ (i - 1) + 1 = i
          BY <4>1
        <5> QED
          BY <5>1
      <4>3. IsAt(ch, j, n)'
        BY <1>2, <3>1, <3>3, <4>2
      <4> QED
        BY <3>1, <3>3, <4>3 DEF OnTheWay
    <3> QED
      BY <3>2, <3>3
  <2> QED
    BY <2>1, <2>2, <2>3
<1>5. PICK m : m = Head(pipe[ch])
  OBVIOUS
<1>6. CASE m.kind # "signal"
  <2>1. (\A n : ~ IsAt(ch, 1, n)) /\ got' = got
    BY <1>0, <1>5, <1>6, TakenWasFirst
  <2> QED
    BY <1>0, <1>4, <2>1, NothingMoves
<1>7. CASE m.kind = "signal"
  <2>1. IsAt(ch, 1, m.n) /\ got' = got \cup {<<m.n, c>>}
    BY <1>0, <1>1, <1>5, <1>7, TakenWasFirst
  <2>2. m.n \in Waiting[c]
    BY <1>0, <1>1, <2>1 DEF BoxesAre, OnTheWay
  <2>3. \A n : IsAt(ch, 1, n) => n = m.n
    BY <2>1 DEF IsAt, Holds
  <2>4. Waiting' = [Waiting EXCEPT ![c] = Waiting[c] \ {m.n}]
    <3>1. \A b \in Conn : \A n :
             n \in Waiting'[b] <=> n \in Waiting[b] /\ (b = c => n # m.n)
      BY <1>0, <1>4, <2>1, <2>3 DEF BoxesAre
    <3>2. \A b \in Conn : Waiting'[b] = IF b = c THEN Waiting[c] \ {m.n} ELSE Waiting[b]
      BY <3>1
    <3> QED
      BY <3>2 DEF Waiting
  <2>5. Delivered' = [Delivered EXCEPT ![c] = Delivered[c] \cup {m.n}]
    <3>1. \A b \in Conn : \A n :
             n \in Delivered'[b] <=> n \in Delivered[b] \/ (b = c /\ n = m.n)
      BY <1>0, <2>1 DEF BoxesAre
    <3>2. \A b \in Conn :
             Delivered'[b] = IF b = c THEN Delivered[c] \cup {m.n} ELSE Delivered[b]
      BY <3>1
    <3> QED
      BY <3>2 DEF Delivered
  <2>6. Entries' = Entries /\ Opened' = Opened
    BY <1>0, EntriesStay, OpenedStay
  <2>7. Post!Delivers(c, m.n)
    BY <1>0, <2>2, <2>4, <2>5, <2>6
    DEF Post!Delivers, Entries, Opened, Waiting, Delivered
  <2> QED
    BY <2>2, <2>7
<1> QED
  BY <1>6, <1>7

LEMMA ForwardAccepts ==
    ASSUME Inv, PostInv, [Next]_vars, NEW b \in Conn, NEW d \in Device, Forward(b, d)
    PROVE  \E c \in Conn : Post!Accepts(d, c)
<1>0. /\ TypeOK /\ BoxesAre /\ BoxesAre' /\ Numbered
      /\ UNCHANGED <<registry, dev, alive>>
  BY PostStep DEF Forward, clientVars
<1>1. PICK ch \in Channel, k \in Nat : Posts(b, d, ch, k)
  BY <1>0, ForwardPosts
<1>2. PICK c \in Conn : c = ch[1]
  BY DEF Channel
<1>3. /\ registry[d] = ch /\ k = forwards + 1 /\ forwards' = k /\ got' = got
      /\ k \in 1 .. MaxForward /\ forwards \in Nat
  BY <1>1 DEF Posts
<1>4. ch # NoChannel
  BY DEF Channel, NoChannel
<1>5. PICK m : m = [kind |-> "signal", n |-> k]
  OBVIOUS
<1>6. /\ \A x \in Channel \ {ch} : \A i, n : IsAt(x, i, n)' <=> IsAt(x, i, n)
      /\ \A i \in Nat : \A n : IsAt(ch, i, n)' <=>
            \/ IsAt(ch, i, n)
            \/ i = Len(pipe[ch]) + 1 /\ n = k
  <2>1. pipe'[ch] = Append(pipe[ch], m) /\ m.kind = "signal" /\ m.n = k
    BY <1>1, <1>5 DEF Posts
  <2>2. \A i \in Nat : \A n : IsAt(ch, i, n)' <=>
            \/ IsAt(ch, i, n)
            \/ i = Len(pipe[ch]) + 1 /\ n = k
    BY <1>0, <2>1, AppendedAt
  <2> QED
    BY <1>1, <2>2, SamePipe DEF Posts
<1>7. Len(pipe[ch]) + 1 \in Nat
  BY <1>0, PipeTypes
<1>8. \A x \in Conn : \A n :
         OnTheWay(x, n)' <=> OnTheWay(x, n) \/ (x = c /\ n = k)
  BY <1>2, <1>6, <1>7 DEF OnTheWay
<1>9. Waiting' = IF alive[c] THEN [Waiting EXCEPT ![c] = Waiting[c] \cup {k}] ELSE Waiting
  <2>1. \A x \in Conn : \A n :
           n \in Waiting'[x] <=> n \in Waiting[x] \/ (x = c /\ alive[c] /\ n = k)
    BY <1>0, <1>8 DEF BoxesAre
  <2>2. CASE alive[c]
    <3>1. \A x \in Conn :
             Waiting'[x] = IF x = c THEN Waiting[c] \cup {k} ELSE Waiting[x]
      BY <2>1, <2>2
    <3> QED
      BY <2>2, <3>1 DEF Waiting
  <2>3. CASE ~ alive[c]
    <3>1. \A x \in Conn : Waiting'[x] = Waiting[x]
      BY <2>1, <2>3
    <3> QED
      BY <2>3, <3>1 DEF Waiting
  <2> QED
    BY <2>2, <2>3
<1>10. Delivered' = Delivered
  <2>1. \A x \in Conn : \A n : n \in Delivered'[x] <=> n \in Delivered[x]
    BY <1>0, <1>3 DEF BoxesAre
  <2>2. \A x \in Conn : Delivered'[x] = Delivered[x]
    BY <2>1
  <2> QED
    BY <2>2 DEF Delivered
<1>11. Entries' = Entries /\ Opened' = Opened /\ Entries[d] = {c}
  BY <1>0, <1>2, <1>3, <1>4, EntriesStay, OpenedStay DEF Entries
<1>12. Post!Accepts(d, c)
  BY <1>0, <1>3, <1>9, <1>10, <1>11
  DEF Post!Accepts, Entries, Opened, Waiting, Delivered
<1> QED
  BY <1>12

LEMMA ConnectConnects ==
    ASSUME Inv, PostInv, [Next]_vars, NEW c \in Conn, NEW d \in Device, Connect(c, d)
    PROVE  Post!Connects(c, d)
<1>0. /\ TypeOK /\ BoxesAre /\ BoxesAre' /\ NewIsBlank /\ At(c, "new")
      /\ UNCHANGED <<registry, pipe, got, forwards>>
      /\ dev' = [dev EXCEPT ![c] = d] /\ alive' = [alive EXCEPT ![c] = TRUE]
      /\ \A b \in Conn : dev[b] = d => ~ alive[b]
  BY PostStep DEF Connect, channelVars, ghostVars
<1>1. d # NoDevice
  BY SignalServerAssumption
<1>2. Opened[c] = {} /\ \A b \in Conn : Opened[b] = {d} => ~ alive[b]
  BY <1>0 DEF NewIsBlank, Opened
<1>3. Opened' = [Opened EXCEPT ![c] = {d}]
  BY <1>0, <1>1 DEF Opened, TypeOK
<1>4. \A b \in Conn : \A n : OnTheWay(b, n)' <=> OnTheWay(b, n)
  BY <1>0, PipesStay
<1>5. \A n : ~ OnTheWay(c, n)
  BY <1>0 DEF OnTheWay, IsAt, NewIsBlank
<1>6. Waiting' = Waiting
  <2>1. \A b \in Conn : \A n : n \in Waiting'[b] <=> n \in Waiting[b]
    BY <1>0, <1>4, <1>5 DEF BoxesAre, TypeOK
  <2>2. \A b \in Conn : Waiting'[b] = Waiting[b]
    BY <2>1
  <2> QED
    BY <2>2 DEF Waiting
<1>7. Entries' = Entries /\ Delivered' = Delivered
  BY <1>0, EntriesStay, DeliveredStays
<1> QED
  BY <1>0, <1>2, <1>3, <1>6, <1>7
  DEF Post!Connects, Entries, Opened, Waiting, Delivered

LEMMA InsertRegisters ==
    ASSUME Inv, PostInv, [Next]_vars, NEW c \in Conn, OnlineInsert(c)
    PROVE  \E d \in Device : Post!Registers(c, d)
<1>0. /\ TypeOK /\ Identity /\ BoxesAre /\ BoxesAre' /\ At(c, "insert")
      /\ UNCHANGED <<dev, alive, pipe, got, forwards>>
      /\ registry' = [registry EXCEPT ![id[c]] = Newest(c)]
  BY PostStep DEF OnlineInsert, clientVars, ghostVars
<1>1. PICK d \in Device : d = id[c]
  BY <1>0 DEF Identity, Announced, At, TypeOK
<1>2. Opened[c] # {}
  BY <1>0, SignalServerAssumption DEF Identity, At, Opened
<1>3. Newest(c) # NoChannel /\ Newest(c)[1] = c
  BY DEF Newest, NoChannel
<1>4. Entries' = [Entries EXCEPT ![d] = {c}]
  BY <1>0, <1>1, <1>3 DEF Entries, TypeOK
<1>5. Waiting' = Waiting /\ Opened' = Opened /\ Delivered' = Delivered
  BY <1>0, PipesStay, WaitingStays, OpenedStay, DeliveredStays
<1>6. Post!Registers(c, d)
  BY <1>0, <1>2, <1>4, <1>5
  DEF Post!Registers, Entries, Opened, Waiting, Delivered
<1> QED
  BY <1>6

\* An entry goes, by whatever connection.
LEMMA EntryGoes ==
    ASSUME Inv, PostInv, [Next]_vars, NEW d \in Device,
           UNCHANGED <<dev, alive, pipe, got, forwards>>,
           registry' = [registry EXCEPT ![d] = NoChannel]
    PROVE  Post!Unregisters(d)
<1>0. TypeOK /\ BoxesAre /\ BoxesAre'
  BY PostStep
<1>2. Entries' = [Entries EXCEPT ![d] = {}]
  BY <1>0 DEF Entries, TypeOK
<1>3. Waiting' = Waiting /\ Opened' = Opened /\ Delivered' = Delivered
  BY <1>0, PipesStay, WaitingStays, OpenedStay, DeliveredStays
<1> QED
  BY <1>2, <1>3
  DEF Post!Unregisters, Entries, Opened, Waiting, Delivered

LEMMA OfflineUnregisters ==
    ASSUME Inv, PostInv, [Next]_vars, NEW c \in Conn, GoingOffline(c)
    PROVE  \E d \in Device : Post!Unregisters(d)
<1>1. PICK d \in Named(c) : GoesOffline(c, d)
  BY DEF GoingOffline
<1>2. /\ UNCHANGED <<dev, alive, pipe, got, forwards>> /\ d \in Device
      /\ registry' = [registry EXCEPT ![d] = NoChannel]
  BY <1>1, PostStep, NamedDevice DEF GoesOffline, clientVars, At
<1> QED
  BY <1>1, <1>2, EntryGoes

LEMMA EndUnregistersOrNothing ==
    ASSUME Inv, PostInv, [Next]_vars, NEW c \in Conn, Ends(c)
    PROVE  UNCHANGED Post!vars \/ \E d \in Device : Post!Unregisters(d)
<1>1. UNCHANGED <<dev, alive, pipe, got, forwards>>
  BY DEF Ends, clientVars, ghostVars
<1>2. CASE id[c] = NoDevice
  <2>1. registry' = registry
    BY <1>2 DEF Ends
  <2> QED
    BY <1>1, <2>1, PipesStay, NothingMoves
<1>3. CASE id[c] # NoDevice
  <2>1. PICK d \in Device : id[c] = d
    BY <1>3, PostStep DEF TypeOK
  <2>2. registry' = [registry EXCEPT ![d] = NoChannel]
    BY <1>3, <2>1 DEF Ends, WithoutDeviceOf
  <2> QED
    BY <1>1, <2>1, <2>2, EntryGoes
<1> QED
  BY <1>2, <1>3

LEMMA LeavesLeaves ==
    ASSUME Inv, PostInv, [Next]_vars, NEW c \in Conn, Quits(c)
    PROVE  Post!Leaves(c)
<1>0. /\ TypeOK /\ BoxesAre /\ BoxesAre' /\ alive[c]
      /\ UNCHANGED <<dev, registry, pipe, forwards>>
      /\ alive' = [alive EXCEPT ![c] = FALSE] /\ got' = {g \in got : g[2] # c}
  BY PostStep DEF Quits, Leaves, CutOff, Gone, channelVars
<1>1. Waiting' = [Waiting EXCEPT ![c] = {}]
  <2>1. \A b \in Conn : \A n : n \in Waiting'[b] <=> n \in Waiting[b] /\ b # c
    BY <1>0, PipesStay DEF BoxesAre, TypeOK
  <2>2. \A b \in Conn : Waiting'[b] = IF b = c THEN {} ELSE Waiting[b]
    BY <2>1
  <2> QED
    BY <2>2 DEF Waiting
<1>2. Delivered' = [Delivered EXCEPT ![c] = {}]
  <2>1. \A b \in Conn : \A n : n \in Delivered'[b] <=> n \in Delivered[b] /\ b # c
    BY <1>0 DEF BoxesAre
  <2>2. \A b \in Conn : Delivered'[b] = IF b = c THEN {} ELSE Delivered[b]
    BY <2>1
  <2> QED
    BY <2>2 DEF Delivered
<1>3. Entries' = Entries /\ Opened' = Opened
  BY <1>0, EntriesStay, OpenedStay
<1> QED
  BY <1>0, <1>1, <1>2, <1>3
  DEF Post!Leaves, Entries, Opened, Waiting, Delivered

LEMMA RestartRestarts ==
    ASSUME Inv, PostInv, [Next]_vars, Restart
    PROVE  Post!Restarts
<1>0. /\ BoxesAre' /\ UNCHANGED <<dev, forwards>>
      /\ alive' = [c \in Conn |-> FALSE] /\ got' = {}
      /\ registry' = [d \in Device |-> NoChannel]
  BY PostStep DEF Restart
<1>1. \A c \in Conn : \A n : n \notin Waiting'[c] /\ n \notin Delivered'[c]
  BY <1>0 DEF BoxesAre
<1>2. \A c \in Conn : Waiting'[c] = {} /\ Delivered'[c] = {}
  BY <1>1
<1>3. Waiting' = [c \in Conn |-> {}] /\ Delivered' = [c \in Conn |-> {}]
  BY <1>2 DEF Waiting, Delivered
<1>4. Entries' = [d \in Device |-> {}] /\ Opened' = Opened
  BY <1>0, OpenedStay DEF Entries
<1> QED
  BY <1>0, <1>3, <1>4
  DEF Post!Restarts, Entries, Opened, Waiting, Delivered

LEMMA MailboxInit == Init => Post!Init
<1> SUFFICES ASSUME Init  PROVE Post!Init
  OBVIOUS
<1>1. Entries = [d \in Device |-> {}] /\ Opened = [c \in Conn |-> {}]
  BY DEF Init, Entries, Opened
<1>2. Waiting = [c \in Conn |-> {}] /\ Delivered = [c \in Conn |-> {}]
  BY DEF Init, Waiting, WaitingFor, Delivered
<1> QED
  BY <1>1, <1>2 DEF Init, Post!Init, Entries, Opened, Waiting, Delivered

LEMMA MailboxNext == Inv /\ PostInv /\ [Next]_vars => [Post!Next]_(Post!vars)
<1> SUFFICES ASSUME Inv, PostInv, [Next]_vars
             PROVE  Post!Next \/ UNCHANGED Post!vars
  OBVIOUS
<1> USE DEF clientVars, handlerVars, channelVars, rowVars, ghostVars
<1>0. \A c \in Conn : Waiting[c] = WaitingFor(c)
  BY DEF Waiting
<1>1. CASE UNCHANGED vars
  BY <1>1, PipesStay, NothingMoves DEF vars
<1>2. ASSUME NEW c \in Conn, Client(c)
      PROVE  Post!Next
  BY <1>2, LeavesLeaves, ConnectConnects DEF Client, Quits, Post!Next
<1>3. ASSUME NEW c \in Conn, OnlineInsert(c) \/ GoingOffline(c)
      PROVE  Post!Next
  BY <1>3, InsertRegisters, OfflineUnregisters DEF Post!Next
<1>4. ASSUME NEW c \in Conn, Ends(c)
      PROVE  Post!Next \/ UNCHANGED Post!vars
  BY <1>4, EndUnregistersOrNothing DEF Post!Next
<1>5. ASSUME NEW c \in Conn, NEW d \in Device, Forward(c, d)
      PROVE  Post!Next
  BY <1>5, ForwardAccepts DEF Post!Next
<1>6. ASSUME NEW c \in Conn, Announcing(c) \/ OnlineRow(c) \/ OfflineRow(c)
      PROVE  UNCHANGED Post!vars
  BY <1>6, PipesStay, NothingMoves DEF Announcing, Announce, OnlineRow, OfflineRow
<1>7. ASSUME NEW c \in Conn, Tell(c)
      PROVE  UNCHANGED Post!vars
  BY <1>7, TellingMovesNothing
<1>8. ASSUME NEW ch \in Channel, Carry(ch)
      PROVE  Post!Next \/ UNCHANGED Post!vars
  BY <1>0, <1>8, CarryDelivers DEF Post!Next
<1>9. ASSUME NEW ch \in Channel, CarryFails(ch) \/ CarryEnds(ch)
      PROVE  UNCHANGED Post!vars
  <2>1. UNCHANGED <<registry, dev, alive, got, forwards>>
    BY <1>9 DEF CarryFails, CarryEnds
  <2>2. \A x \in Channel : alive[x[1]] => pipe'[x] = pipe[x]
    BY <1>9, PostStep DEF CarryFails, CarryEnds, TypeOK
  <2>3. \A c \in Conn : \A n : alive[c] => (OnTheWay(c, n)' <=> OnTheWay(c, n))
    BY <2>2, SamePipe DEF OnTheWay
  <2> QED
    BY <2>1, <2>3, NothingMoves
<1>10. ASSUME NEW d \in Device, RegisterDevice(d)
       PROVE  UNCHANGED Post!vars
  BY <1>10, PipesStay, NothingMoves DEF RegisterDevice
<1>11. CASE Restart
  BY <1>11, RestartRestarts DEF Post!Next
<1> QED
  BY <1>1, <1>2, <1>3, <1>4, <1>5, <1>6, <1>7, <1>8, <1>9, <1>10, <1>11
 , HandlerSteps DEF Next, Task

\* Whatever channels a device goes through and whoever removes its entry, a
\* message that is forwarded to it waits for the connection that was registered
\* then, and is delivered there once or goes with it, and nowhere else.
THEOREM ServerImplementsMailbox == Spec => ImplementsMailbox
<1>1. Spec => Post!Init /\ [][Post!Next]_(Post!vars)
  BY MailboxInit, MailboxNext, PostInvHolds, PTL DEF Spec
<1> QED
  BY <1>1 DEF ImplementsMailbox, Post!Spec
=============================================================================
