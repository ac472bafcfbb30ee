--------------------------- MODULE TransportProofs ---------------------------
(***************************************************************************)
(* Proofs about Transport: types, that every answer belongs to the offer   *)
(* it is given for although the handlers of a server share one connection  *)
(* without a lock, that a server is ready for offers unless one was left   *)
(* open, and that the tables hold connections one can rely on.             *)
(*                                                                         *)
(* What makes it true is the signalling state: while a handler has an      *)
(* offer open the connection holds that very offer (OpenOffer), so that no *)
(* second handler can be as far.  Last, that Transport implements          *)
(* OfferExchange, whose critical section this is.                          *)
(***************************************************************************)
EXTENDS TransportOffers, TLAPS

\* The connection of a server holds the offer its handler is at, and answers
\* carry the number of their offer.
OpenOffer ==
    \A k \in Id :
        /\ Negotiating(k) => /\ shared[handler[k].at].sig = "have_remote"
                             /\ shared[handler[k].at].remote = k
        /\ handler[k].pc = "local" => /\ handler[k].ans = k
                                      /\ shared[handler[k].at].answer = k
        /\ handler[k].pc = "reply" => handler[k].ans \in {k, None}

\* Calls are numbered in the order they start, and a request follows its call.
NotPosted ==
    \A k \in Id :
        /\ k > started => call[k].pc = "idle"
        /\ call[k].pc \in {"idle", "check", "post"} => handler[k].pc = "none"

Inv == TypeOK /\ NotPosted /\ OpenOffer /\ ReadyForOffers

-----------------------------------------------------------------------------
(* Records *)

LEMMA HandlerTypes ==
    /\ [pc |-> "none"] \in Handler
    /\ \A s \in Device :
          /\ [pc |-> "offer", at |-> s] \in Handler
          /\ [pc |-> "create", at |-> s] \in Handler
          /\ \A i \in Id : [pc |-> "local", at |-> s, ans |-> i] \in Handler
          /\ \A i \in Id \cup {None} : [pc |-> "reply", at |-> s, ans |-> i] \in Handler
  BY DEF Handler

LEMMA HandlerFields ==
    ASSUME NEW h \in Handler
    PROVE  /\ h.pc \in {"none", "offer", "create", "local", "reply"}
           /\ h.pc # "none" => h.at \in Device
           /\ h.pc = "local" => h.ans \in Id
           /\ h.pc = "reply" => h.ans \in Id \cup {None}
  BY DEF Handler

LEMMA CallFields ==
    ASSUME NEW c \in Call, c.pc # "idle"
    PROVE  c.from \in Device /\ c.to \in Device
  BY DEF Call

LEMMA CallMoves ==
    ASSUME NEW c \in Call, c.pc # "idle",
           NEW pc \in Calling \cup {"done", "failed"}
    PROVE  [c EXCEPT !.pc = pc] \in Call
  BY DEF Call, Calling

LEMMA GotoTyped ==
    ASSUME TypeOK, NEW k \in Id, call[k].pc # "idle",
           NEW pc \in Calling \cup {"done", "failed"}, Goto(k, pc)
    PROVE  call' \in [Id -> Call]
<1>1. [call[k] EXCEPT !.pc = pc] \in Call
  BY CallMoves DEF TypeOK
<1> QED
  BY <1>1 DEF TypeOK, Goto

LEMMA RepliesTyped ==
    ASSUME TypeOK, NEW k \in Id, handler[k].pc # "none",
           NEW ans \in Id \cup {None}, Replies(k, ans)
    PROVE  /\ handler' \in [Id -> Handler]
           /\ handler' = [handler EXCEPT ![k] =
                             [pc |-> "reply", at |-> handler[k].at, ans |-> ans]]
<1>1. handler[k].at \in Device
  BY HandlerFields DEF TypeOK
<1> QED
  BY <1>1, HandlerTypes DEF TypeOK, Replies

LEMMA TakenTyped ==
    ASSUME TypeOK, NEW s \in Device, NEW k \in Id
    PROVE  Taken(s, k) \in [Device -> Shared]
<1>1. shared[s].answer \in Id \cup {None}
  BY DEF TypeOK, Shared
<1>2. [sig |-> "have_remote", remote |-> k, answer |-> shared[s].answer] \in Shared
  BY <1>1 DEF Shared
<1> QED
  BY <1>2 DEF TypeOK, Taken

LEMMA FaultCounted ==
    ASSUME TypeOK, faults < MaxFaults, faults' = faults + 1
    PROVE  faults' \in 0 .. MaxFaults
  BY TransportAssumption DEF TypeOK

LEMMA IdIsNumber == Id \subseteq Nat \ {0} /\ None \notin Id
  BY TransportAssumption DEF Id, None

-----------------------------------------------------------------------------
(* Types *)

LEMMA InitInv == Init => Inv
<1> SUFFICES ASSUME Init PROVE Inv
  OBVIOUS
<1> USE TransportAssumption
<1>1. TypeOK
  <2>1. [pc |-> "idle"] \in Call /\ [pc |-> "none"] \in Handler
    BY HandlerTypes DEF Call
  <2>2. [sig |-> "stable", remote |-> None, answer |-> None] \in Shared
    BY DEF Shared
  <2> QED
    BY <2>1, <2>2 DEF Init, TypeOK
<1>2. NotPosted /\ OpenOffer
  BY DEF Init, NotPosted, OpenOffer, Negotiating
<1>3. ReadyForOffers
  BY DEF Init, ReadyForOffers
<1> QED
  BY <1>1, <1>2, <1>3 DEF Inv

LEMMA TypeDiscovery ==
    ASSUME TypeOK, NEW n \in Device, NEW m \in Device, Resolved(n, m) \/ Starts(n)
    PROVE  TypeOK'
<1>1. CASE Resolved(n, m)
  <2>1. reports' \in 0 .. MaxFound
    BY <1>1, TransportAssumption DEF Resolved, TypeOK
  <2> QED
    BY <1>1, <2>1 DEF Resolved, TypeOK, tables
<1>2. CASE Starts(n)
  <2>1. found[n] \in Seq(Device) /\ found[n] # <<>>
    BY <1>2 DEF Starts, TypeOK
  <2>2. Head(found[n]) \in Device /\ Tail(found[n]) \in Seq(Device)
    BY <2>1
  <2>3. started + 1 \in Id /\ started' \in 0 .. MaxFound
    BY <1>2, TransportAssumption DEF Starts, TypeOK, Id
  <2>4. [pc |-> "check", from |-> n, to |-> Head(found[n])] \in Call
    BY <2>2 DEF Call, Calling
  <2> QED
    BY <1>2, <2>2, <2>3, <2>4 DEF Starts, TypeOK, tables
<1> QED
  BY <1>1, <1>2

LEMMA TypeConnectPeer ==
    ASSUME TypeOK, NEW k \in Id, ConnectPeer(k)
    PROVE  TypeOK'
<1>1. CASE Checks(k)
  <2>1. call' \in [Id -> Call]
    BY <1>1, GotoTyped DEF Checks, Calling
  <2> QED
    BY <1>1, <2>1 DEF Checks, TypeOK, tables, discovery
<1>2. CASE Posts(k)
  <2>1. call' \in [Id -> Call]
    BY <1>2, GotoTyped DEF Posts, Calling
  <2>2. handler' \in [Id -> Handler]
    BY <1>2, HandlerTypes DEF Posts, TypeOK, ServerOf
  <2> QED
    BY <1>2, <2>1, <2>2 DEF Posts, TypeOK, tables, discovery
<1>3. CASE Refused(k)
  <2>1. call' \in [Id -> Call]
    BY <1>3, GotoTyped DEF Refused, Calling
  <2> QED
    BY <1>3, <2>1 DEF Refused, TypeOK, tables, discovery
<1>4. CASE Answered(k)
  <2>1. call' \in [Id -> Call]
    BY <1>4, GotoTyped DEF Answered, Calling
  <2> QED
    BY <1>4, <2>1 DEF Answered, TypeOK, tables, discovery
<1>5. CASE StoresPeer(k)
  <2>1. call' \in [Id -> Call]
    BY <1>5, GotoTyped DEF StoresPeer, Calling
  <2>2. call[k].from \in Device /\ call[k].to \in Device
    BY <1>5, CallFields DEF StoresPeer, TypeOK
  <2>3. peers' \in [Device -> [Device -> Id \cup {None}]]
    BY <1>5, <2>2 DEF StoresPeer, TypeOK
  <2> QED
    BY <1>5, <2>1, <2>3 DEF StoresPeer, TypeOK, discovery
<1>6. CASE StoresChannel(k)
  <2>1. call' \in [Id -> Call]
    BY <1>6, GotoTyped DEF StoresChannel, Calling
  <2>2. call[k].from \in Device /\ call[k].to \in Device
    BY <1>6, CallFields DEF StoresChannel, TypeOK
  <2>3. channels' \in [Device -> [Device -> Id \cup {None}]]
    BY <1>6, <2>2 DEF StoresChannel, TypeOK
  <2>4. told' \in [Device -> [Device -> Nat]]
    BY <1>6, <2>2 DEF StoresChannel, TypeOK
  <2> QED
    BY <1>6, <2>1, <2>3, <2>4 DEF StoresChannel, TypeOK, discovery
<1> QED
  BY <1>1, <1>2, <1>3, <1>4, <1>5, <1>6 DEF ConnectPeer

LEMMA TypeHandleOffer ==
    ASSUME TypeOK, OpenOffer, NEW k \in Id, HandleOffer(k)
    PROVE  TypeOK'
<1> DEFINE s == handler[k].at
<1>1. handler[k] \in Handler /\ shared \in [Device -> Shared]
  BY DEF TypeOK
<1>2. handler[k].pc # "none" /\ s \in Device
  BY <1>1, HandlerFields DEF HandleOffer, SetsRemote, CreatesAnswer, SetsLocal
<1>3. CASE SetsRemote(k)
  <2>1. CASE TakesOffer(k)
    <3>1. shared' \in [Device -> Shared]
      BY <1>2, <2>1, TakenTyped DEF TakesOffer
    <3>2. handler' \in [Id -> Handler]
      BY <1>2, <2>1, HandlerTypes DEF TakesOffer, TypeOK
    <3> QED
      BY <1>3, <3>1, <3>2 DEF SetsRemote, TypeOK, tables, discovery
  <2>2. CASE RefusesBusy(k)
    <3>1. handler' \in [Id -> Handler]
      BY <1>2, <2>2, RepliesTyped DEF RefusesBusy
    <3> QED
      BY <1>3, <2>2, <3>1 DEF SetsRemote, RefusesBusy, TypeOK, tables, discovery
  <2> QED
    BY <1>3, <2>1, <2>2 DEF SetsRemote
<1>4. CASE CreatesAnswer(k)
  <2>1. shared[s].sig = "have_remote" /\ shared[s].remote = k
    BY <1>4 DEF CreatesAnswer, OpenOffer, Negotiating
  <2>2. /\ shared' = [shared EXCEPT ![s].answer = k]
        /\ handler' = [handler EXCEPT ![k] = [pc |-> "local", at |-> s, ans |-> k]]
    BY <1>4, <2>1 DEF CreatesAnswer, AnswerTo
  <2>3. handler' \in [Id -> Handler]
    BY <1>2, <2>2, HandlerTypes DEF TypeOK
  <2>4. shared' \in [Device -> Shared]
    BY <1>1, <1>2, <2>2 DEF Shared
  <2> QED
    BY <1>4, <2>3, <2>4 DEF CreatesAnswer, TypeOK, tables, discovery
<1>5. CASE SetsLocal(k)
  <2>1. handler[k].ans \in Id
    BY <1>1, <1>5, HandlerFields DEF SetsLocal
  <2>2. handler' \in [Id -> Handler]
    BY <1>2, <1>5, <2>1, RepliesTyped DEF SetsLocal
  <2>3. shared' \in [Device -> Shared]
    BY <1>1, <1>2, <1>5 DEF SetsLocal, Settles, Shared
  <2> QED
    BY <1>5, <2>2, <2>3 DEF SetsLocal, TypeOK, tables, discovery
<1> QED
  BY <1>3, <1>4, <1>5 DEF HandleOffer

LEMMA TypeFault ==
    ASSUME TypeOK, NEW k \in Id, Fault(k)
    PROVE  TypeOK'
<1>1. CASE CallFails(k) \/ Cut(k)
  <2>1. call' \in [Id -> Call]
    BY <1>1, GotoTyped DEF CallFails, Cut, Calling
  <2>2. faults' \in 0 .. MaxFaults
    BY <1>1, FaultCounted DEF CallFails, Cut, TypeOK
  <2> QED
    BY <1>1, <2>1, <2>2 DEF CallFails, Cut, TypeOK, tables, discovery
<1>2. CASE HandlerFails(k)
  <2>1. handler[k].pc # "none" /\ handler[k].at \in Device
    BY <1>2, HandlerFields DEF HandlerFails, TypeOK
  <2>2. handler' \in [Id -> Handler]
    BY <1>2, <2>1, RepliesTyped DEF HandlerFails
  <2>3. shared' \in [Device -> Shared]
    <3>1. CASE UNCHANGED shared
      BY <3>1 DEF TypeOK
    <3>2. CASE shared' = Taken(handler[k].at, k)
      BY <2>1, <3>2, TakenTyped
    <3> QED
      BY <1>2, <3>1, <3>2 DEF HandlerFails
  <2>5. broken' \subseteq Device
    BY <1>2, <2>1 DEF HandlerFails, TypeOK
  <2>4. faults' \in 0 .. MaxFaults
    BY <1>2, FaultCounted DEF HandlerFails
  <2> QED
    BY <1>2, <2>2, <2>3, <2>4, <2>5 DEF HandlerFails, TypeOK, tables, discovery
<1>3. CASE HandlerDropped(k)
  <2>1. handler[k].at \in Device
    BY <1>3, HandlerFields DEF HandlerDropped, TypeOK
  <2>2. handler' \in [Id -> Handler]
    BY <1>3, HandlerTypes DEF HandlerDropped, TypeOK
  <2> QED
    BY <1>3, <2>1, <2>2 DEF HandlerDropped, TypeOK, tables, discovery
<1> QED
  BY <1>1, <1>2, <1>3 DEF Fault

LEMMA TypeVanishes ==
    ASSUME TypeOK, NEW n \in Device, Vanishes(n)
    PROVE  TypeOK'
<1>1. call' \in [Id -> Call]
  <2>1. \A k \in Id : InProgress(k) => [call[k] EXCEPT !.pc = "failed"] \in Call
    BY CallMoves DEF TypeOK, InProgress, Calling
  <2> QED
    BY <2>1 DEF Vanishes, TypeOK
<1>2. handler' \in [Id -> Handler]
  BY HandlerTypes DEF Vanishes, TypeOK
<1>3. shared' \in [Device -> Shared]
  <2>1. [sig |-> "stable", remote |-> None, answer |-> None] \in Shared
    BY DEF Shared
  <2> QED
    BY <2>1 DEF Vanishes, TypeOK
<1>4. faults' \in 0 .. MaxFaults
  BY FaultCounted DEF Vanishes
<1>5. up' \in [Device -> BOOLEAN] /\ found' \in [Device -> Seq(Device)]
  BY DEF Vanishes, TypeOK
<1>6. /\ peers' \in [Device -> [Device -> Id \cup {None}]]
      /\ channels' \in [Device -> [Device -> Id \cup {None}]]
      /\ told' \in [Device -> [Device -> Nat]]
  BY DEF Vanishes, TypeOK
<1> QED
  BY <1>1, <1>2, <1>3, <1>4, <1>5, <1>6 DEF Vanishes, TypeOK

-----------------------------------------------------------------------------
(* Open offers *)

LEMMA PostedConnectPeer ==
    ASSUME TypeOK, NotPosted, NEW k \in Id, ConnectPeer(k)
    PROVE  NotPosted'
<1>1. k <= started
  <2>1. call[k].pc # "idle"
    BY DEF ConnectPeer, Checks, Posts, Refused, Answered, StoresPeer, StoresChannel
  <2> QED
    BY <2>1, TransportAssumption DEF NotPosted, TypeOK, Id
<1>2. started' = started
  BY DEF ConnectPeer, Checks, Posts, Refused, Answered, StoresPeer, StoresChannel
<1>3. \A j \in Id \ {k} : call'[j] = call[j] /\ handler'[j] = handler[j]
  BY DEF ConnectPeer, Checks, Posts, Refused, Answered, StoresPeer, StoresChannel,
         Goto, TypeOK
<1>4. call'[k].pc \in {"idle", "check", "post"} => handler'[k].pc = "none"
  <2>1. CASE Checks(k)
    BY <2>1 DEF Checks, NotPosted
  <2>2. CASE ~ Checks(k)
    <3>1. PICK pc \in Calling \cup {"done", "failed"} :
              Goto(k, pc) /\ pc \notin {"idle", "check", "post"}
      BY <2>2 DEF ConnectPeer, Posts, Refused, Answered, StoresPeer, StoresChannel,
                  Calling
    <3>2. call[k].pc # "idle" /\ call[k] \in Call
      BY <2>2 DEF ConnectPeer, Posts, Refused, Answered, StoresPeer, StoresChannel,
                  TypeOK
    <3>3. call'[k].pc = pc
      BY <3>1, <3>2 DEF Goto, TypeOK, Call
    <3> QED
      BY <3>1, <3>3
  <2> QED
    BY <2>1, <2>2
<1>5. ~ k > started'
  BY <1>1, <1>2, TransportAssumption DEF TypeOK, Id
<1>6. SUFFICES ASSUME NEW j \in Id
               PROVE  /\ j > started' => call'[j].pc = "idle"
                      /\ call'[j].pc \in {"idle", "check", "post"} =>
                            handler'[j].pc = "none"
  BY DEF NotPosted
<1>7. CASE j = k
  BY <1>4, <1>5, <1>7
<1>8. CASE j # k
  BY <1>2, <1>3, <1>8 DEF NotPosted
<1> QED
  BY <1>7, <1>8

LEMMA OfferConnectPeer ==
    ASSUME TypeOK, NotPosted, OpenOffer, ReadyForOffers, NEW k \in Id, ConnectPeer(k)
    PROVE  OpenOffer' /\ ReadyForOffers'
<1>1. CASE Posts(k)
  <2>1. PICK s \in Device : handler' = [handler EXCEPT ![k] = [pc |-> "offer", at |-> s]]
    BY <1>1 DEF Posts, ServerOf
  <2>2. ~ Negotiating(k)
    BY <1>1 DEF Posts, NotPosted, Negotiating
  <2>3. ~ Negotiating(k)' /\ handler'[k].pc = "offer"
    BY <2>1 DEF Negotiating, TypeOK
  <2>4. \A j \in Id \ {k} : handler'[j] = handler[j]
    BY <2>1 DEF TypeOK
  <2>5. OpenOffer'
    BY <1>1, <2>3, <2>4 DEF Posts, OpenOffer, Negotiating
  <2>6. ReadyForOffers'
    BY <1>1, <2>2, <2>4 DEF Posts, ReadyForOffers, Negotiating
  <2> QED
    BY <2>5, <2>6
<1>2. CASE ~ Posts(k)
  <2>1. UNCHANGED <<handler, shared, broken>>
    BY <1>2 DEF ConnectPeer, Checks, Refused, Answered, StoresPeer, StoresChannel
  <2> QED
    BY <2>1 DEF OpenOffer, ReadyForOffers, Negotiating
<1> QED
  BY <1>1, <1>2

\* What a handler does to the others: nothing, if the connection does not change
\* under them.
LEMMA OthersKept ==
    ASSUME OpenOffer, NEW k \in Id,
           \A j \in Id \ {k} : handler'[j] = handler[j],
           \A j \in Id \ {k} : Negotiating(j) =>
              shared'[handler[j].at] = shared[handler[j].at]
    PROVE  \A j \in Id \ {k} :
              /\ Negotiating(j)' => /\ shared'[handler'[j].at].sig = "have_remote"
                                    /\ shared'[handler'[j].at].remote = j
              /\ handler'[j].pc = "local" => /\ handler'[j].ans = j
                                             /\ shared'[handler'[j].at].answer = j
              /\ handler'[j].pc = "reply" => handler'[j].ans \in {j, None}
  BY DEF OpenOffer, Negotiating

\* The step of one handler, and what it does to the connection of its server.
LEMMA HandlerStep ==
    ASSUME TypeOK, OpenOffer, ReadyForOffers, NEW k \in Id, handler[k].pc # "none",
           \A j \in Id \ {k} : handler'[j] = handler[j],
           \A t \in Device \ {handler[k].at} : shared'[t] = shared[t],
           broken \subseteq broken',
           Negotiating(k)' => /\ handler'[k].at = handler[k].at
                              /\ shared'[handler[k].at].sig = "have_remote"
                              /\ shared'[handler[k].at].remote = k,
           handler'[k].pc = "local" => /\ handler'[k].ans = k
                                       /\ shared'[handler[k].at].answer = k,
           handler'[k].pc = "reply" => handler'[k].ans \in {k, None},
           \A j \in Id \ {k} : Negotiating(j) /\ handler[j].at = handler[k].at =>
              shared'[handler[k].at] = shared[handler[k].at],
           shared'[handler[k].at].sig = "have_remote" =>
              \/ shared'[handler[k].at] = shared[handler[k].at] /\ ~ Negotiating(k)
              \/ handler[k].at \in broken'
              \/ Negotiating(k)'
    PROVE  OpenOffer' /\ ReadyForOffers'
<1> DEFINE s == handler[k].at
<1>2. \A j \in Id \ {k} : handler'[j] = handler[j]
  OBVIOUS
<1>3. \A t \in Device \ {s} : shared'[t] = shared[t]
  OBVIOUS
<1>4. OpenOffer'
  <2>1. \A j \in Id \ {k} : Negotiating(j) =>
              shared'[handler[j].at] = shared[handler[j].at]
    <3>1. SUFFICES ASSUME NEW j \in Id \ {k}, Negotiating(j)
                   PROVE  shared'[handler[j].at] = shared[handler[j].at]
      OBVIOUS
    <3>2. handler[j].at \in Device
      BY <3>1, HandlerFields DEF TypeOK, Negotiating
    <3> QED
      BY <1>3, <3>1, <3>2
  <2>2. /\ Negotiating(k)' => /\ shared'[handler'[k].at].sig = "have_remote"
                              /\ shared'[handler'[k].at].remote = k
        /\ handler'[k].pc = "local" => /\ handler'[k].ans = k
                                       /\ shared'[handler'[k].at].answer = k
        /\ handler'[k].pc = "reply" => handler'[k].ans \in {k, None}
    BY DEF Negotiating
  <2> QED
    BY <1>2, <2>1, <2>2, OthersKept DEF OpenOffer
<1>5. ReadyForOffers'
  <2>1. SUFFICES ASSUME NEW t \in Device, shared'[t].sig = "have_remote"
                 PROVE  \/ t \in broken'
                        \/ \E j \in Id : Negotiating(j)' /\ handler'[j].at = t
    BY DEF ReadyForOffers
  <2>2. CASE t # s
    BY <1>2, <1>3, <2>1, <2>2 DEF ReadyForOffers, Negotiating
  <2>3. CASE t = s
    <3>1. CASE shared'[s] = shared[s] /\ ~ Negotiating(k)
      <4>1. s \in broken \/ \E j \in Id : Negotiating(j) /\ handler[j].at = s
        BY <2>1, <2>3, <3>1 DEF ReadyForOffers
      <4> QED
        BY <1>2, <2>3, <3>1, <4>1 DEF Negotiating
    <3>2. CASE Negotiating(k)'
      BY <2>3, <3>2
    <3> QED
      BY <2>1, <2>3, <3>1, <3>2
  <2> QED
    BY <2>2, <2>3
<1> QED
  BY <1>4, <1>5

LEMMA OfferHandleOffer ==
    ASSUME TypeOK, OpenOffer, ReadyForOffers, NEW k \in Id, HandleOffer(k)
    PROVE  OpenOffer' /\ ReadyForOffers'
<1> DEFINE s == handler[k].at
<1>1. handler[k] \in Handler /\ shared \in [Device -> Shared]
  BY DEF TypeOK
<1>2. handler[k].pc # "none" /\ s \in Device
  BY <1>1, HandlerFields DEF HandleOffer, SetsRemote, CreatesAnswer, SetsLocal
<1>3. broken' = broken
  BY DEF HandleOffer, SetsRemote, CreatesAnswer, SetsLocal
<1>5. CASE SetsRemote(k)
  <2>1. ~ Negotiating(k)
    BY <1>5 DEF SetsRemote, Negotiating
  <2>2. CASE shared[s].sig = "stable"
    <3>1. shared' = Taken(s, k)
      BY <1>5, <2>2 DEF SetsRemote, TakesOffer
    <3>2. shared'[s].sig = "have_remote" /\ shared'[s].remote = k
      BY <1>1, <1>2, <3>1 DEF Taken
    <3>3. \A t \in Device \ {s} : shared'[t] = shared[t]
      BY <1>1, <3>1 DEF Taken
    <3>4. /\ handler'[k].pc = "create" /\ handler'[k].at = s
          /\ \A j \in Id \ {k} : handler'[j] = handler[j]
      BY <1>5, <2>2 DEF SetsRemote, TakesOffer, TypeOK
    <3>5. \A j \in Id \ {k} : ~ (Negotiating(j) /\ handler[j].at = s)
      BY <2>2 DEF OpenOffer
    <3>6. Negotiating(k)'
      BY <3>4 DEF Negotiating
    <3> QED
      BY <1>2, <1>3, <3>2, <3>3, <3>4, <3>5, <3>6, HandlerStep
  <2>3. CASE shared[s].sig # "stable"
    <3>1. shared' = shared /\ Replies(k, None)
      BY <1>5, <2>3 DEF SetsRemote, RefusesBusy
    <3>2. /\ handler'[k].pc = "reply" /\ handler'[k].ans = None /\ ~ Negotiating(k)'
          /\ \A j \in Id \ {k} : handler'[j] = handler[j]
      BY <3>1 DEF Replies, TypeOK, Negotiating
    <3>3. /\ \A t \in Device \ {s} : shared'[t] = shared[t]
          /\ handler'[k].pc # "local" /\ handler'[k].ans \in {k, None}
      BY <3>1, <3>2
    <3> QED
      BY <1>2, <1>3, <2>1, <3>1, <3>2, <3>3, HandlerStep
  <2> QED
    BY <2>2, <2>3
<1>6. CASE CreatesAnswer(k)
  <2>1. shared[s].sig = "have_remote" /\ shared[s].remote = k /\ shared[s] \in Shared
    BY <1>1, <1>2, <1>6 DEF CreatesAnswer, OpenOffer, Negotiating
  <2>2. /\ shared' = [shared EXCEPT ![s].answer = k]
        /\ handler' = [handler EXCEPT ![k] = [pc |-> "local", at |-> s, ans |-> k]]
    BY <1>6, <2>1 DEF CreatesAnswer, AnswerTo
  <2>3. /\ shared'[s].sig = "have_remote" /\ shared'[s].remote = k
        /\ shared'[s].answer = k
    BY <1>1, <1>2, <2>1, <2>2 DEF Shared
  <2>4. \A t \in Device \ {s} : shared'[t] = shared[t]
    BY <1>1, <2>2
  <2>5. /\ handler'[k].pc = "local" /\ handler'[k].at = s /\ handler'[k].ans = k
        /\ \A j \in Id \ {k} : handler'[j] = handler[j]
    BY <2>2 DEF TypeOK
  <2>6. \A j \in Id \ {k} : ~ (Negotiating(j) /\ handler[j].at = s)
    BY <2>1 DEF OpenOffer
  <2>7. Negotiating(k)'
    BY <2>5 DEF Negotiating
  <2> QED
    BY <1>2, <1>3, <2>3, <2>4, <2>5, <2>6, <2>7, HandlerStep
<1>7. CASE SetsLocal(k)
  <2>1. /\ shared[s].sig = "have_remote" /\ shared[s].remote = k
        /\ shared[s] \in Shared /\ handler[k].ans = k /\ shared[s].answer = k
    BY <1>1, <1>2, <1>7 DEF SetsLocal, OpenOffer, Negotiating
  <2>2. \A j \in Id \ {k} : ~ (Negotiating(j) /\ handler[j].at = s)
    BY <2>1 DEF OpenOffer
  <2>3. shared' = [shared EXCEPT ![s].sig = "stable"] /\ Replies(k, k)
    BY <1>7, <2>1 DEF SetsLocal, Settles
  <2>4. shared'[s].sig # "have_remote"
    BY <1>1, <1>2, <2>1, <2>3 DEF Shared
  <2>5. \A t \in Device \ {s} : shared'[t] = shared[t]
    BY <1>1, <2>3
  <2>6. /\ handler'[k].pc = "reply" /\ handler'[k].ans = k /\ ~ Negotiating(k)'
        /\ \A j \in Id \ {k} : handler'[j] = handler[j]
    BY <2>3 DEF Replies, TypeOK, Negotiating
  <2>7. handler'[k].pc # "local" /\ handler'[k].ans \in {k, None}
    BY <2>6
  <2> QED
    BY <1>2, <1>3, <2>2, <2>4, <2>5, <2>6, <2>7, HandlerStep
<1> QED
  BY <1>5, <1>6, <1>7 DEF HandleOffer

LEMMA OfferFault ==
    ASSUME TypeOK, OpenOffer, ReadyForOffers, NEW k \in Id, Fault(k)
    PROVE  OpenOffer' /\ ReadyForOffers'
<1> DEFINE s == handler[k].at
<1>1. handler[k] \in Handler /\ shared \in [Device -> Shared]
  BY DEF TypeOK
<1>2. CASE CallFails(k) \/ Cut(k)
  <2>1. UNCHANGED <<handler, shared, broken>>
    BY <1>2 DEF CallFails, Cut
  <2> QED
    BY <2>1 DEF OpenOffer, ReadyForOffers, Negotiating
<1>3. CASE HandlerFails(k)
  <2>1. handler[k].pc # "none" /\ s \in Device
    BY <1>1, <1>3, HandlerFields DEF HandlerFails
  <2>2. /\ handler'[k].pc = "reply" /\ handler'[k].ans = None /\ ~ Negotiating(k)'
        /\ \A j \in Id \ {k} : handler'[j] = handler[j]
    BY <1>3 DEF HandlerFails, Replies, TypeOK, Negotiating
  <2>3. handler'[k].pc # "local" /\ handler'[k].ans \in {k, None}
    BY <2>2
  <2>4. broken \subseteq broken'
    BY <1>3 DEF HandlerFails
  <2>5. CASE /\ broken' = IF Negotiating(k) THEN broken \cup {s} ELSE broken
             /\ UNCHANGED shared
    <3>1. shared'[s].sig = "have_remote" => ~ Negotiating(k) \/ s \in broken'
      BY <2>5
    <3>2. \A t \in Device : shared'[t] = shared[t]
      BY <2>5
    <3> QED
      BY <2>1, <2>2, <2>3, <2>4, <3>1, <3>2, HandlerStep
  <2>6. CASE /\ handler[k].pc = "offer" /\ shared[s].sig = "stable"
             /\ shared' = Taken(s, k) /\ broken' = broken \cup {s}
    <3>1. \A t \in Device \ {s} : shared'[t] = shared[t]
      BY <1>1, <2>6 DEF Taken
    <3>2. \A j \in Id \ {k} : ~ (Negotiating(j) /\ handler[j].at = s)
      BY <2>6 DEF OpenOffer
    <3>3. s \in broken'
      BY <2>6
    <3> QED
      BY <2>1, <2>2, <2>3, <2>4, <3>1, <3>2, <3>3, HandlerStep
  <2> QED
    BY <1>3, <2>5, <2>6 DEF HandlerFails
<1>4. CASE HandlerDropped(k)
  <2>1. handler[k].pc # "none"
    BY <1>4 DEF HandlerDropped
  <2>2. /\ handler'[k].pc = "none" /\ ~ Negotiating(k)'
        /\ \A j \in Id \ {k} : handler'[j] = handler[j]
    BY <1>4 DEF HandlerDropped, TypeOK, Negotiating
  <2>3. /\ shared' = shared /\ broken \subseteq broken'
        /\ Negotiating(k) => s \in broken'
    BY <1>4 DEF HandlerDropped
  <2>4. handler'[k].pc # "local" /\ handler'[k].pc # "reply"
    BY <2>2
  <2> QED
    BY <2>1, <2>2, <2>3, <2>4, HandlerStep
<1> QED
  BY <1>2, <1>3, <1>4 DEF Fault

LEMMA OfferVanishes ==
    ASSUME TypeOK, OpenOffer, ReadyForOffers, NEW n \in Device, Vanishes(n)
    PROVE  OpenOffer' /\ ReadyForOffers'
<1>1. /\ shared'[n].sig = "stable"
      /\ \A t \in Device \ {n} : shared'[t] = shared[t]
  BY DEF Vanishes, TypeOK
<1>2. \A j \in Id :
        \/ handler'[j].pc = "none"
        \/ handler'[j] = handler[j] /\ (handler[j].pc = "none" \/ handler[j].at # n)
  BY DEF Vanishes
<1>3. \A j \in Id : handler[j].pc # "none" => handler[j].at \in Device
  BY HandlerFields DEF TypeOK
<1>4. OpenOffer'
  <2>1. SUFFICES ASSUME NEW j \in Id, handler'[j].pc # "none"
                 PROVE  /\ handler'[j] = handler[j]
                        /\ shared'[handler[j].at] = shared[handler[j].at]
    BY DEF OpenOffer, Negotiating
  <2> QED
    BY <1>1, <1>2, <1>3, <2>1
<1>5. ReadyForOffers'
  <2>1. SUFFICES ASSUME NEW t \in Device, shared'[t].sig = "have_remote"
                 PROVE  \/ t \in broken'
                        \/ \E j \in Id : Negotiating(j)' /\ handler'[j].at = t
    BY DEF ReadyForOffers
  <2>2. t # n /\ shared[t].sig = "have_remote"
    BY <1>1, <2>1
  <2>3. CASE t \in broken
    BY <2>2, <2>3 DEF Vanishes
  <2>4. CASE t \notin broken
    <3>1. PICK j \in Id : Negotiating(j) /\ handler[j].at = t
      BY <2>2, <2>4 DEF ReadyForOffers
    <3>2. handler'[j] = handler[j]
      BY <2>2, <3>1 DEF Vanishes, Negotiating
    <3> QED
      BY <3>1, <3>2 DEF Negotiating
  <2> QED
    BY <2>3, <2>4
<1> QED
  BY <1>4, <1>5

-----------------------------------------------------------------------------
(* Calls and their requests *)

LEMMA PostedHandleOffer ==
    ASSUME TypeOK, NotPosted, NEW k \in Id, HandleOffer(k)
    PROVE  NotPosted'
<1>1. handler[k].pc # "none" /\ call' = call /\ started' = started
  BY DEF HandleOffer, SetsRemote, CreatesAnswer, SetsLocal
<1>2. \A j \in Id \ {k} : handler'[j] = handler[j]
  BY DEF HandleOffer, SetsRemote, CreatesAnswer, SetsLocal, TakesOffer, RefusesBusy,
         Replies, TypeOK
<1> QED
  BY <1>1, <1>2 DEF NotPosted

LEMMA PostedFault ==
    ASSUME TypeOK, NotPosted, NEW k \in Id, Fault(k)
    PROVE  NotPosted'
<1>1. CASE CallFails(k) \/ Cut(k)
  <2>1. /\ Goto(k, "failed") /\ call[k].pc \notin {"idle", "check"}
        /\ handler' = handler /\ started' = started
    BY <1>1 DEF CallFails, Cut
  <2>2. call'[k].pc = "failed" /\ \A j \in Id \ {k} : call'[j] = call[j]
    BY <2>1 DEF Goto, TypeOK, Call
  <2>3. ~ k > started
    BY <2>1 DEF NotPosted
  <2> QED
    BY <2>1, <2>2, <2>3 DEF NotPosted
<1>2. CASE HandlerFails(k)
  <2>1. handler[k].pc # "none" /\ call' = call /\ started' = started
    BY <1>2 DEF HandlerFails
  <2>2. \A j \in Id \ {k} : handler'[j] = handler[j]
    BY <1>2 DEF HandlerFails, Replies, TypeOK
  <2> QED
    BY <2>1, <2>2 DEF NotPosted
<1>3. CASE HandlerDropped(k)
  BY <1>3 DEF HandlerDropped, TypeOK, NotPosted
<1> QED
  BY <1>1, <1>2, <1>3 DEF Fault

LEMMA PostedDevice ==
    ASSUME TypeOK, NotPosted, NEW n \in Device, NEW m \in Device,
           Resolved(n, m) \/ Starts(n) \/ Vanishes(n)
    PROVE  NotPosted'
<1>1. CASE Resolved(n, m)
  BY <1>1 DEF Resolved, NotPosted
<1>2. CASE Starts(n)
  <2>1. started + 1 \in Id /\ started \in Int
    BY <1>2, TransportAssumption DEF Starts, TypeOK, Id
  <2>2. call'[started + 1].pc = "check" /\ handler' = handler
    BY <1>2, <2>1 DEF Starts, TypeOK
  <2>3. \A j \in Id \ {started + 1} : call'[j] = call[j]
    BY <1>2 DEF Starts, TypeOK
  <2>4. handler[started + 1].pc = "none"
    BY <2>1 DEF NotPosted
  <2>5. started' = started + 1 /\ Id \subseteq Int
    BY <1>2, IdIsNumber DEF Starts
  <2>6. SUFFICES ASSUME NEW j \in Id
                 PROVE  /\ j > started' => call'[j].pc = "idle"
                        /\ call'[j].pc \in {"idle", "check", "post"} =>
                              handler'[j].pc = "none"
    BY DEF NotPosted
  <2>7. CASE j = started + 1
    BY <2>1, <2>2, <2>4, <2>5, <2>7
  <2>8. CASE j # started + 1
    <3>1. j > started' => j > started
      BY <2>1, <2>5
    <3> QED
      BY <2>2, <2>3, <2>8, <3>1 DEF NotPosted
  <2> QED
    BY <2>7, <2>8
<1>3. CASE Vanishes(n)
  <2>1. \A j \in Id :
           \/ call'[j] = call[j]
           \/ call[j].pc # "idle" /\ call'[j].pc = "failed"
    BY <1>3 DEF Vanishes, TypeOK, InProgress, Calling, Call
  <2>2. \A j \in Id : handler[j].pc = "none" => handler'[j].pc = "none"
    BY <1>3 DEF Vanishes
  <2>3. started' = started
    BY <1>3 DEF Vanishes
  <2> QED
    BY <2>1, <2>2, <2>3 DEF NotPosted
<1> QED
  BY <1>1, <1>2, <1>3

-----------------------------------------------------------------------------

LEMMA StepInv == Inv /\ [Next]_vars => Inv'
<1> SUFFICES ASSUME Inv, [Next]_vars
             PROVE  Inv'
  OBVIOUS
<1>1. TypeOK /\ NotPosted /\ OpenOffer /\ ReadyForOffers
  BY DEF Inv
<1>2. ASSUME NEW n \in Device, NEW m \in Device, Resolved(n, m) \/ Starts(n)
      PROVE  Inv'
  <2>1. UNCHANGED <<handler, shared, broken>>
    BY <1>2 DEF Resolved, Starts
  <2>2. OpenOffer' /\ ReadyForOffers'
    BY <1>1, <2>1 DEF OpenOffer, ReadyForOffers, Negotiating
  <2> QED
    BY <1>1, <1>2, <2>2, TypeDiscovery, PostedDevice DEF Inv
<1>3. ASSUME NEW n \in Device, Vanishes(n)
      PROVE  Inv'
  BY <1>1, <1>3, TypeVanishes, PostedDevice, OfferVanishes DEF Inv
<1>4. ASSUME NEW k \in Id, ConnectPeer(k)
      PROVE  Inv'
  BY <1>1, <1>4, TypeConnectPeer, PostedConnectPeer, OfferConnectPeer DEF Inv
<1>5. ASSUME NEW k \in Id, HandleOffer(k)
      PROVE  Inv'
  BY <1>1, <1>5, TypeHandleOffer, PostedHandleOffer, OfferHandleOffer DEF Inv
<1>6. ASSUME NEW k \in Id, Fault(k)
      PROVE  Inv'
  BY <1>1, <1>6, TypeFault, PostedFault, OfferFault DEF Inv
<1>7. CASE UNCHANGED vars
  BY <1>1, <1>7
  DEF vars, tables, discovery, Inv, TypeOK, NotPosted, OpenOffer, ReadyForOffers,
      Negotiating
<1>8. CASE Next
  BY <1>2, <1>3, <1>4, <1>5, <1>6, <1>8 DEF Next
<1> QED
  BY <1>7, <1>8

LEMMA Invariance == Spec => []Inv
<1> QED
  BY InitInv, StepInv, PTL DEF Spec

\* Types: at each await a call and a handler hold what the code still needs, in
\* particular create_answer always has a remote offer to answer.
THEOREM TypeCorrect == Spec => []TypeOK
<1>1. Inv => TypeOK
  BY DEF Inv
<1> QED
  BY <1>1, Invariance, PTL

\* The answer of handle_offer belongs to the offer of its request, and one
\* handler at most negotiates on the shared connection, without any lock.
THEOREM AnswersMatch == Spec => []AnswerIsForOffer
<1>1. Inv => AnswerIsForOffer
  BY DEF Inv, OpenOffer, AnswerIsForOffer
<1> QED
  BY <1>1, Invariance, PTL

\* The shared connection is ready for an offer unless one is being answered, or
\* was left open by a handler that failed or was dropped.
THEOREM ServersStayReady == Spec => []ReadyForOffers
<1>1. Inv => ReadyForOffers
  BY DEF Inv
<1> QED
  BY <1>1, Invariance, PTL

-----------------------------------------------------------------------------
(* The tables                                                              *)

\* The request of k was answered, or is lost with its server.
Replied(k) ==
    handler[k].pc = "none" \/ (handler[k].pc = "reply" /\ handler[k].ans # None)

\* Call k is past its answer, for the entry of m in the tables of n.
Filed(n, m, k) ==
    call[k].pc \in {"channels", "done"} /\ call[k].from = n /\ call[k].to = m

\* The channel is there, or the call that stored the peer is about to store it.
Served(n, m) == channels[n][m] # None \/ call[peers[n][m]].pc = "channels"

Reachable ==
    /\ \A k \in Id :
          /\ call[k].pc \in {"peers", "channels", "done"} => Replied(k)
          /\ call[k].pc = "channels" => peers[call[k].from][call[k].to] # None
    /\ \A n, m \in Device :
          /\ told[n][m] # 0 => channels[n][m] # None
          /\ channels[n][m] # None => peers[n][m] # None
          /\ peers[n][m] # None => Served(n, m)
          /\ \A k \in Id : k = peers[n][m] \/ k = channels[n][m] => Filed(n, m, k)

\* Where calls follow one another: one is in progress, and it found the tables
\* without its device.
Offering(k) == call[k].pc \in {"post", "wait", "peers"}
Single ==
    \A n \in Device \ Spawning : \A j, k \in Id :
        InProgress(j) /\ InProgress(k) /\ call[j].from = n /\ call[k].from = n => j = k
FirstOffer ==
    \A n \in Device \ Spawning : \A k \in Id : call[k].from = n =>
        /\ Offering(k) => peers[n][call[k].to] = None
        /\ call[k].pc = "channels" =>
              peers[n][call[k].to] = k /\ channels[n][call[k].to] = None
SameTables ==
    \A n \in Device \ Spawning : \A m \in Device : channels[n][m] \in {None, peers[n][m]}
OneReport == \A n \in Device \ Spawning : \A m \in Device : told[n][m] \in {0, 1}
OneByOne == Single /\ FirstOffer /\ SameTables /\ OneReport

LEMMA CallGoes ==
    ASSUME TypeOK, NEW k \in Id, call[k].pc # "idle", NEW pc, Goto(k, pc)
    PROVE  /\ call'[k].pc = pc
           /\ call'[k].from = call[k].from /\ call'[k].to = call[k].to
           /\ \A j \in Id \ {k} : call'[j] = call[j]
<1>1. call[k] \in Call /\ call' = [call EXCEPT ![k] = [call[k] EXCEPT !.pc = pc]]
  BY DEF TypeOK, Goto
<1>2. call'[k] = [call[k] EXCEPT !.pc = pc] /\ \A j \in Id \ {k} : call'[j] = call[j]
  BY <1>1 DEF TypeOK
<1> QED
  BY <1>1, <1>2 DEF Call

\* A step of call k, or of its request, that does not touch the tables.
LEMMA TablesKept ==
    ASSUME TypeOK, Reachable, OneByOne, NEW k \in Id, UNCHANGED tables,
           \A j \in Id \ {k} : call'[j] = call[j] /\ handler'[j] = handler[j],
           call'[k] = call[k] \/ call[k].pc \notin {"channels", "done"},
           call'[k].pc \in {"peers", "channels", "done"} => Replied(k)',
           call'[k].pc = "channels" => call'[k] = call[k],
           InProgress(k)' =>
              InProgress(k) /\ call'[k].from = call[k].from /\ call'[k].to = call[k].to,
           Offering(k)' => Offering(k) \/ peers[call[k].from][call[k].to] = None
    PROVE  Reachable' /\ OneByOne'
<1> USE DEF tables
<1>1. Reachable'
  <2>1. ASSUME NEW j \in Id
        PROVE  /\ call'[j].pc \in {"peers", "channels", "done"} => Replied(j)'
               /\ call'[j].pc = "channels" => peers'[call'[j].from][call'[j].to] # None
    <3>1. CASE j = k
      BY <3>1 DEF Reachable
    <3>2. CASE j # k
      BY <3>2 DEF Reachable, Replied
    <3> QED
      BY <3>1, <3>2
  <2>2. ASSUME NEW n \in Device, NEW m \in Device, NEW j \in Id,
               j = peers[n][m] \/ j = channels[n][m]
        PROVE  Filed(n, m, j)'
    <3>1. Filed(n, m, j)
      BY <2>2 DEF Reachable
    <3>2. call'[j] = call[j]
      BY <3>1 DEF Filed
    <3> QED
      BY <3>1, <3>2 DEF Filed
  <2>3. ASSUME NEW n \in Device, NEW m \in Device, peers[n][m] # None
        PROVE  Served(n, m)'
    <3>1. Served(n, m) /\ Filed(n, m, peers[n][m]) /\ peers[n][m] \in Id
      BY <2>3 DEF Reachable, TypeOK
    <3>2. call'[peers[n][m]] = call[peers[n][m]]
      BY <3>1 DEF Filed
    <3> QED
      BY <3>1, <3>2 DEF Served
  <2> QED
    BY <2>1, <2>2, <2>3 DEF Reachable
<1>2. OneByOne'
  <2>1. \A j \in Id : InProgress(j)' => InProgress(j) /\ call'[j].from = call[j].from
                                        /\ call'[j].to = call[j].to
    BY DEF InProgress
  <2>2. ASSUME NEW n \in Device \ Spawning, NEW j \in Id, Offering(j)', call'[j].from = n
        PROVE  peers'[n][call'[j].to] = None
    <3>1. InProgress(j)'
      BY <2>2 DEF Offering, InProgress, Calling
    <3>2. Offering(j) \/ peers[call[j].from][call[j].to] = None
      BY <2>2 DEF Offering
    <3> QED
      BY <2>1, <2>2, <3>1, <3>2 DEF OneByOne, FirstOffer
  <2>3. ASSUME NEW n \in Device \ Spawning, NEW j \in Id, call'[j].pc = "channels",
               call'[j].from = n
        PROVE  peers'[n][call'[j].to] = j /\ channels'[n][call'[j].to] = None
    <3>1. call'[j] = call[j]
      BY <2>3
    <3> QED
      BY <2>3, <3>1 DEF OneByOne, FirstOffer
  <2>4. ASSUME NEW n \in Device \ Spawning, NEW i \in Id, NEW j \in Id,
               InProgress(i)', InProgress(j)', call'[i].from = n, call'[j].from = n
        PROVE  i = j
    BY <2>1, <2>4 DEF OneByOne, Single
  <2>5. Single'
    BY <2>4 DEF Single
  <2>6. FirstOffer'
    BY <2>2, <2>3 DEF FirstOffer
  <2>7. SameTables'
    BY DEF OneByOne, SameTables
  <2> QED
    BY <2>5, <2>6, <2>7 DEF OneByOne, OneReport
<1> QED
  BY <1>1, <1>2

LEMMA TablesStoresPeer ==
    ASSUME TypeOK, Reachable, OneByOne, NEW k \in Id, StoresPeer(k)
    PROVE  Reachable' /\ OneByOne'
<1> DEFINE a == call[k].from
           b == call[k].to
<1>1. a \in Device /\ b \in Device
  BY CallFields DEF StoresPeer, TypeOK
<1>2. /\ peers'[a][b] = k
      /\ \A n, m \in Device : n # a \/ m # b => peers'[n][m] = peers[n][m]
  BY <1>1 DEF StoresPeer, TypeOK
<1>3. /\ call'[k].pc = "channels" /\ call'[k].from = a /\ call'[k].to = b
      /\ \A j \in Id \ {k} : call'[j] = call[j]
  BY CallGoes DEF StoresPeer
<1>4. /\ handler' = handler /\ channels' = channels /\ told' = told
      /\ call[k].pc = "peers" /\ k # None
  BY IdIsNumber DEF StoresPeer
<1>5. \A j \in Id : call[j].pc # "idle" => call[j].from \in Device /\ call[j].to \in Device
  BY CallFields DEF TypeOK
<1>6. Reachable'
  <2>1. ASSUME NEW j \in Id
        PROVE  /\ call'[j].pc \in {"peers", "channels", "done"} => Replied(j)'
               /\ call'[j].pc = "channels" => peers'[call'[j].from][call'[j].to] # None
    <3>1. CASE j = k
      BY <1>1, <1>2, <1>3, <1>4, <3>1 DEF Reachable, Replied
    <3>2. CASE j # k
      BY <1>2, <1>3, <1>4, <1>5, <3>2 DEF Reachable, Replied
    <3> QED
      BY <3>1, <3>2
  <2>2. ASSUME NEW n \in Device, NEW m \in Device
        PROVE  /\ told'[n][m] # 0 => channels'[n][m] # None
               /\ channels'[n][m] # None => peers'[n][m] # None
    BY <1>2, <1>4 DEF Reachable
  <2>4. ASSUME NEW n \in Device, NEW m \in Device, peers'[n][m] # None
        PROVE  Served(n, m)'
    <3>1. CASE n = a /\ m = b
      BY <1>2, <1>3, <3>1 DEF Served
    <3>2. CASE n # a \/ m # b
      <4>1. peers'[n][m] = peers[n][m] /\ peers[n][m] \in Id
        BY <1>2, <2>4, <3>2 DEF TypeOK
      <4>2. Served(n, m) /\ Filed(n, m, peers[n][m])
        BY <2>4, <4>1 DEF Reachable
      <4>3. call'[peers[n][m]] = call[peers[n][m]]
        BY <1>3, <1>4, <4>1, <4>2 DEF Filed
      <4> QED
        BY <1>4, <4>1, <4>2, <4>3 DEF Served
    <3> QED
      BY <3>1, <3>2
  <2>3. ASSUME NEW n \in Device, NEW m \in Device, NEW j \in Id,
               j = peers'[n][m] \/ j = channels'[n][m]
        PROVE  Filed(n, m, j)'
    <3>1. CASE j = peers[n][m] \/ j = channels[n][m]
      <4>1. Filed(n, m, j) /\ j # k
        BY <1>4, <3>1 DEF Reachable, Filed
      <4> QED
        BY <1>3, <4>1 DEF Filed
    <3>2. CASE n = a /\ m = b /\ j = k
      BY <1>3, <3>2 DEF Filed
    <3> QED
      BY <1>2, <1>4, <2>3, <3>1, <3>2
  <2> QED
    BY <2>1, <2>2, <2>3, <2>4 DEF Reachable
<1>7. OneByOne'
  <2>1. \A j \in Id : InProgress(j)' => InProgress(j) /\ call'[j].from = call[j].from
    BY <1>3, <1>4 DEF InProgress, Calling
  <2>2. Single'
    BY <2>1 DEF OneByOne, Single
  <2>3. InProgress(k) /\ InProgress(k)'
    BY <1>3, <1>4 DEF InProgress, Calling
  <2>4. ASSUME NEW n \in Device \ Spawning, NEW j \in Id, call'[j].from = n
        PROVE  /\ Offering(j)' => peers'[n][call'[j].to] = None
               /\ call'[j].pc = "channels" =>
                     peers'[n][call'[j].to] = j /\ channels'[n][call'[j].to] = None
    <3>1. CASE j = k
      <4>1. peers[a][b] = None
        BY <1>3, <1>4, <2>4, <3>1 DEF OneByOne, FirstOffer, Offering
      <4>2. channels[a][b] = None
        BY <1>1, <4>1 DEF Reachable
      <4> QED
        BY <1>1, <1>2, <1>3, <1>4, <2>4, <3>1, <4>2 DEF Offering
    <3>2. CASE j # k /\ n = a
      <4>1. ~ InProgress(j)'
        BY <1>3, <2>2, <2>3, <2>4, <3>2 DEF Single
      <4> QED
        BY <4>1 DEF Offering, InProgress, Calling
    <3>3. CASE j # k /\ n # a
      <4>1. call'[j] = call[j] /\ (call[j].pc # "idle" => call[j].to \in Device)
        BY <1>3, <1>5, <3>3
      <4>2. \A m \in Device : peers'[n][m] = peers[n][m]
        BY <1>2, <3>3
      <4> QED
        BY <1>4, <2>4, <4>1, <4>2 DEF OneByOne, FirstOffer, Offering
    <3> QED
      BY <3>1, <3>2, <3>3
  <2>5. ASSUME NEW n \in Device \ Spawning, NEW m \in Device
        PROVE  channels'[n][m] \in {None, peers'[n][m]}
    <3>1. CASE n = a /\ m = b
      <4>1. peers[n][m] = None
        BY <1>4, <3>1 DEF OneByOne, FirstOffer, Offering
      <4> QED
        BY <1>4, <4>1 DEF OneByOne, SameTables
    <3>2. CASE n # a \/ m # b
      BY <1>2, <1>4, <3>2 DEF OneByOne, SameTables
    <3> QED
      BY <3>1, <3>2
  <2>6. FirstOffer'
    BY <2>4 DEF FirstOffer
  <2>7. SameTables'
    BY <2>5 DEF SameTables
  <2>8. OneReport'
    BY <1>4 DEF OneByOne, OneReport
  <2> QED
    BY <2>2, <2>6, <2>7, <2>8 DEF OneByOne
<1> QED
  BY <1>6, <1>7

LEMMA TablesStoresChannel ==
    ASSUME TypeOK, Reachable, OneByOne, NEW k \in Id, StoresChannel(k)
    PROVE  Reachable' /\ OneByOne'
<1> DEFINE a == call[k].from
           b == call[k].to
<1>1. a \in Device /\ b \in Device
  BY CallFields DEF StoresChannel, TypeOK
<1>2. /\ channels'[a][b] = k
      /\ \A n, m \in Device : n # a \/ m # b => channels'[n][m] = channels[n][m]
  <2>1. channels' = [channels EXCEPT ![a][b] = k]
    BY DEF StoresChannel
  <2> QED
    BY <1>1, <2>1 DEF TypeOK
<1>3. /\ call'[k].pc = "done" /\ call'[k].from = a /\ call'[k].to = b
      /\ \A j \in Id \ {k} : call'[j] = call[j]
  BY CallGoes DEF StoresChannel
<1>4. /\ handler' = handler /\ peers' = peers /\ call[k].pc = "channels" /\ k # None
  BY IdIsNumber DEF StoresChannel
<1>5. /\ told'[a][b] = told[a][b] + 1
      /\ \A n, m \in Device : n # a \/ m # b => told'[n][m] = told[n][m]
  <2>1. told' = [told EXCEPT ![a][b] = @ + 1]
    BY DEF StoresChannel
  <2> QED
    BY <1>1, <2>1 DEF TypeOK
<1>6. Reachable'
  <2>1. ASSUME NEW j \in Id
        PROVE  /\ call'[j].pc \in {"peers", "channels", "done"} => Replied(j)'
               /\ call'[j].pc = "channels" => peers'[call'[j].from][call'[j].to] # None
    BY <1>3, <1>4 DEF Reachable, Replied
  <2>2. ASSUME NEW n \in Device, NEW m \in Device
        PROVE  /\ told'[n][m] # 0 => channels'[n][m] # None
               /\ channels'[n][m] # None => peers'[n][m] # None
    BY <1>2, <1>4, <1>5 DEF Reachable
  <2>4. ASSUME NEW n \in Device, NEW m \in Device, peers'[n][m] # None
        PROVE  Served(n, m)'
    <3>1. CASE n = a /\ m = b
      BY <1>2, <1>4, <3>1 DEF Served
    <3>2. CASE n # a \/ m # b
      <4>1. peers[n][m] \in Id /\ Served(n, m) /\ Filed(n, m, peers[n][m])
        BY <1>4, <2>4 DEF Reachable, TypeOK
      <4>2. peers[n][m] # k
        BY <3>2, <4>1 DEF Filed
      <4> QED
        BY <1>2, <1>3, <1>4, <3>2, <4>1, <4>2 DEF Served
    <3> QED
      BY <3>1, <3>2
  <2>3. ASSUME NEW n \in Device, NEW m \in Device, NEW j \in Id,
               j = peers'[n][m] \/ j = channels'[n][m]
        PROVE  Filed(n, m, j)'
    <3>1. CASE j = peers[n][m] \/ j = channels[n][m]
      <4>1. Filed(n, m, j)
        BY <3>1 DEF Reachable
      <4> QED
        BY <1>3, <4>1 DEF Filed
    <3>2. CASE n = a /\ m = b /\ j = k
      BY <1>3, <3>2 DEF Filed
    <3> QED
      BY <1>2, <1>4, <2>3, <3>1, <3>2
  <2> QED
    BY <2>1, <2>2, <2>3, <2>4 DEF Reachable
<1>7. OneByOne'
  <2>1. \A j \in Id : InProgress(j)' => InProgress(j) /\ call'[j] = call[j]
    BY <1>3, <1>4 DEF InProgress, Calling
  <2>2. \A j \in Id : Offering(j)' \/ call'[j].pc = "channels" => InProgress(j)'
    BY DEF Offering, InProgress, Calling
  <2>3. \A j \in Id : Offering(j)' \/ call'[j].pc = "channels" => call'[j] = call[j]
    BY <2>1, <2>2
  <2>4. Single'
    BY <2>1 DEF OneByOne, Single
  <2>5. FirstOffer'
    <3>1. InProgress(k) /\ ~ InProgress(k)'
      BY <1>3, <1>4 DEF InProgress, Calling
    <3>2. ASSUME NEW n \in Device \ Spawning, NEW j \in Id, call'[j].from = n
          PROVE  /\ Offering(j)' => peers'[n][call'[j].to] = None
                 /\ call'[j].pc = "channels" =>
                       peers'[n][call'[j].to] = j /\ channels'[n][call'[j].to] = None
      <4>1. Offering(j)' => Offering(j)
        BY <2>3 DEF Offering
      <4>2. CASE call'[j].pc # "channels"
        BY <1>4, <2>3, <3>2, <4>1, <4>2 DEF OneByOne, FirstOffer
      <4>3. CASE call'[j].pc = "channels"
        <5>1. call'[j] = call[j] /\ InProgress(j) /\ j # k
          BY <2>2, <2>3, <1>3, <2>1, <4>3
        <5>2. n # a
          BY <3>1, <3>2, <5>1 DEF OneByOne, Single
        <5>3. call[j].to \in Device
          BY <4>3, <5>1, CallFields DEF TypeOK
        <5> QED
          BY <1>2, <1>4, <3>2, <4>3, <5>1, <5>2, <5>3 DEF OneByOne, FirstOffer, Offering
      <4> QED
        BY <4>2, <4>3
    <3> QED
      BY <3>2 DEF FirstOffer
  <2>6. SameTables'
    <3>1. ASSUME NEW n \in Device \ Spawning, NEW m \in Device
          PROVE  channels'[n][m] \in {None, peers'[n][m]}
      <4>1. CASE n = a /\ m = b
        BY <1>2, <1>4, <4>1 DEF OneByOne, FirstOffer
      <4>2. CASE n # a \/ m # b
        BY <1>2, <1>4, <4>2 DEF OneByOne, SameTables
      <4> QED
        BY <4>1, <4>2
    <3> QED
      BY <3>1 DEF SameTables
  <2>7. OneReport'
    <3>1. ASSUME NEW n \in Device \ Spawning, NEW m \in Device
          PROVE  told'[n][m] \in {0, 1}
      <4>1. CASE n = a /\ m = b
        <5>1. channels[a][b] = None
          BY <1>4, <4>1 DEF OneByOne, FirstOffer
        <5>2. told[a][b] = 0
          BY <1>1, <5>1 DEF Reachable
        <5> QED
          BY <1>5, <4>1, <5>2
      <4>2. CASE n # a \/ m # b
        BY <1>5, <4>2 DEF OneByOne, OneReport
      <4> QED
        BY <4>1, <4>2
    <3> QED
      BY <3>1 DEF OneReport
  <2> QED
    BY <2>4, <2>5, <2>6, <2>7 DEF OneByOne
<1> QED
  BY <1>6, <1>7

LEMMA TablesVanishes ==
    ASSUME TypeOK, Reachable, OneByOne, NEW n \in Device, Vanishes(n)
    PROVE  Reachable' /\ OneByOne'
<1>1. \A j \in Id :
         \/ call'[j] = call[j]
         \/ InProgress(j) /\ call[j].from = n /\ call'[j].pc = "failed"
  BY DEF Vanishes, TypeOK, InProgress, Calling, Call
<1>2. \A j \in Id : InProgress(j) /\ call[j].from = n => call'[j].pc = "failed"
  BY DEF Vanishes, TypeOK, InProgress, Calling, Call
<1>3. \A j \in Id : handler'[j] = handler[j] \/ handler'[j].pc = "none"
  BY DEF Vanishes
<1>4. /\ \A m \in Device : peers'[n][m] = None /\ channels'[n][m] = None /\ told'[n][m] = 0
      /\ \A x \in Device \ {n} :
            peers'[x] = peers[x] /\ channels'[x] = channels[x] /\ told'[x] = told[x]
  BY DEF Vanishes, TypeOK
<1>5. \A j \in Id : call[j].pc # "idle" => call[j].from \in Device
  BY CallFields DEF TypeOK
<1>6. None \notin Id
  BY IdIsNumber
<1>7. Reachable'
  <2>1. ASSUME NEW j \in Id
        PROVE  /\ call'[j].pc \in {"peers", "channels", "done"} => Replied(j)'
               /\ call'[j].pc = "channels" => peers'[call'[j].from][call'[j].to] # None
    <3>1. CASE call'[j].pc \in {"peers", "channels", "done"}
      <4>1. call'[j] = call[j] /\ Replied(j)
        BY <1>1, <3>1 DEF Reachable
      <4>2. Replied(j)'
        <5>1. CASE handler'[j] = handler[j]
          BY <4>1, <5>1 DEF Replied
        <5> QED
          BY <1>3, <5>1 DEF Replied
      <4>3. call[j].pc = "channels" => call[j].from # n
        BY <1>2, <4>1 DEF InProgress, Calling
      <4>4. call[j].pc = "channels" => peers'[call[j].from] = peers[call[j].from]
        BY <1>4, <1>5, <4>3
      <4> QED
        BY <4>1, <4>2, <4>4 DEF Reachable
    <3> QED
      BY <3>1
  <2>2. ASSUME NEW x \in Device, NEW m \in Device
        PROVE  /\ told'[x][m] # 0 => channels'[x][m] # None
               /\ channels'[x][m] # None => peers'[x][m] # None
    BY <1>4 DEF Reachable
  <2>4. ASSUME NEW x \in Device, NEW m \in Device, peers'[x][m] # None
        PROVE  Served(x, m)'
    <3>1. x # n /\ peers'[x] = peers[x] /\ channels'[x] = channels[x]
      BY <1>4, <2>4
    <3>2. peers[x][m] \in Id /\ Served(x, m) /\ Filed(x, m, peers[x][m])
      BY <2>4, <3>1 DEF Reachable, TypeOK
    <3>3. call'[peers[x][m]] = call[peers[x][m]]
      BY <1>1, <3>1, <3>2 DEF Filed
    <3> QED
      BY <3>1, <3>2, <3>3 DEF Served
  <2>3. ASSUME NEW x \in Device, NEW m \in Device, NEW j \in Id,
               j = peers'[x][m] \/ j = channels'[x][m]
        PROVE  Filed(x, m, j)'
    <3>1. x # n /\ (j = peers[x][m] \/ j = channels[x][m])
      BY <1>4, <1>6, <2>3
    <3>2. Filed(x, m, j)
      BY <3>1 DEF Reachable
    <3>3. call'[j] = call[j]
      BY <1>1, <3>1, <3>2 DEF Filed
    <3> QED
      BY <3>2, <3>3 DEF Filed
  <2> QED
    BY <2>1, <2>2, <2>3, <2>4 DEF Reachable
<1>8. OneByOne'
  <2>1. \A j \in Id : InProgress(j)' =>
           InProgress(j) /\ call'[j] = call[j] /\ call[j].from # n /\ call[j].from \in Device
    BY <1>1, <1>2, <1>5 DEF InProgress, Calling
  <2>2. \A j \in Id : Offering(j)' \/ call'[j].pc = "channels" =>
           InProgress(j)' /\ (Offering(j)' => Offering(j)) /\ call'[j] = call[j]
    BY <2>1 DEF Offering, InProgress, Calling
  <2>3. SameTables'
    BY <1>4 DEF OneByOne, SameTables
  <2>4. ASSUME NEW x \in Device \ Spawning, NEW j \in Id, call'[j].from = x
        PROVE  /\ Offering(j)' => peers'[x][call'[j].to] = None
               /\ call'[j].pc = "channels" =>
                     peers'[x][call'[j].to] = j /\ channels'[x][call'[j].to] = None
    <3>1. CASE Offering(j)' \/ call'[j].pc = "channels"
      <4>1. x # n /\ call'[j] = call[j] /\ (Offering(j)' => Offering(j))
        BY <2>1, <2>2, <2>4, <3>1
      <4>2. peers'[x] = peers[x] /\ channels'[x] = channels[x]
        BY <1>4, <4>1
      <4> QED
        BY <2>4, <4>1, <4>2 DEF OneByOne, FirstOffer
    <3> QED
      BY <3>1
  <2>5. FirstOffer'
    BY <2>4 DEF FirstOffer
  <2>6. Single'
    BY <2>1 DEF OneByOne, Single
  <2>7. OneReport'
    BY <1>4 DEF OneByOne, OneReport
  <2> QED
    BY <2>3, <2>5, <2>6, <2>7 DEF OneByOne
<1> QED
  BY <1>7, <1>8

LEMMA TablesStarts ==
    ASSUME TypeOK, NotPosted, Reachable, OneByOne, NEW n \in Device, Starts(n)
    PROVE  Reachable' /\ OneByOne'
<1> DEFINE k == started + 1
<1>1. k \in Id /\ k > started
  BY TransportAssumption DEF Starts, TypeOK, Id
<1>2. call[k].pc = "idle"
  BY <1>1 DEF NotPosted
<1>3. /\ call'[k].pc = "check" /\ call'[k].from = n
      /\ \A j \in Id \ {k} : call'[j] = call[j]
  BY <1>1 DEF Starts, TypeOK
<1>4. UNCHANGED <<handler, peers, channels, told>>
  BY DEF Starts, tables
<1>5. Reachable'
  <2>1. ASSUME NEW j \in Id
        PROVE  /\ call'[j].pc \in {"peers", "channels", "done"} => Replied(j)'
               /\ call'[j].pc = "channels" => peers'[call'[j].from][call'[j].to] # None
    <3>1. CASE j = k
      BY <1>3, <3>1
    <3>2. CASE j # k
      BY <1>3, <1>4, <3>2 DEF Reachable, Replied
    <3> QED
      BY <3>1, <3>2
  <2>2. ASSUME NEW x \in Device, NEW m \in Device, NEW j \in Id,
               j = peers[x][m] \/ j = channels[x][m]
        PROVE  Filed(x, m, j)'
    <3>1. Filed(x, m, j)
      BY <2>2 DEF Reachable
    <3>2. call'[j] = call[j]
      BY <1>2, <1>3, <3>1 DEF Filed
    <3> QED
      BY <3>1, <3>2 DEF Filed
  <2>3. ASSUME NEW x \in Device, NEW m \in Device, peers[x][m] # None
        PROVE  Served(x, m)'
    <3>1. peers[x][m] \in Id /\ Served(x, m) /\ Filed(x, m, peers[x][m])
      BY <2>3 DEF Reachable, TypeOK
    <3>2. call'[peers[x][m]] = call[peers[x][m]]
      BY <1>2, <1>3, <3>1 DEF Filed
    <3> QED
      BY <1>4, <3>1, <3>2 DEF Served
  <2> QED
    BY <1>4, <2>1, <2>2, <2>3 DEF Reachable
<1>6. OneByOne'
  <2>1. n \in Spawning \/ \A j \in Id : InProgress(j) => call[j].from # n
    BY DEF Starts
  <2>2. ASSUME NEW x \in Device \ Spawning, NEW i \in Id, NEW j \in Id,
               InProgress(i)', InProgress(j)', call'[i].from = x, call'[j].from = x
        PROVE  i = j
    <3>1. \A l \in Id : l # k => (InProgress(l)' <=> InProgress(l))
      BY <1>3 DEF InProgress
    <3>2. CASE x = n
      <4>1. \A l \in Id : l # k => ~ (InProgress(l)' /\ call'[l].from = n)
        BY <1>3, <2>1, <2>2, <3>1, <3>2
      <4> QED
        BY <2>2, <3>2, <4>1
    <3>3. CASE x # n
      <4>1. i # k /\ j # k
        BY <1>3, <2>2, <3>3
      <4> QED
        BY <1>3, <2>2, <3>1, <4>1 DEF OneByOne, Single
    <3> QED
      BY <3>2, <3>3
  <2>3. ASSUME NEW x \in Device \ Spawning, NEW j \in Id, call'[j].from = x
        PROVE  /\ Offering(j)' => peers'[x][call'[j].to] = None
               /\ call'[j].pc = "channels" =>
                     peers'[x][call'[j].to] = j /\ channels'[x][call'[j].to] = None
    <3>1. CASE j = k
      BY <1>3, <3>1 DEF Offering
    <3>2. CASE j # k
      BY <1>3, <1>4, <2>3, <3>2 DEF OneByOne, FirstOffer, Offering
    <3> QED
      BY <3>1, <3>2
  <2>4. Single'
    BY <2>2 DEF Single
  <2>5. FirstOffer'
    BY <2>3 DEF FirstOffer
  <2>6. SameTables'
    BY <1>4 DEF OneByOne, SameTables
  <2>7. OneReport'
    BY <1>4 DEF OneByOne, OneReport
  <2> QED
    BY <2>4, <2>5, <2>6, <2>7 DEF OneByOne
<1> QED
  BY <1>5, <1>6

LEMMA TablesConnectPeer ==
    ASSUME TypeOK, NotPosted, Reachable, OneByOne, NEW k \in Id, ConnectPeer(k)
    PROVE  Reachable' /\ OneByOne'
<1>1. CASE Checks(k)
  <2>1. handler[k].pc = "none" /\ handler' = handler /\ call[k].pc = "check"
    BY <1>1 DEF Checks, NotPosted
  <2>2. CASE Known(call[k].from, call[k].to)
    <3>1. Goto(k, "done") /\ UNCHANGED tables
      BY <1>1, <2>2 DEF Checks
    <3>2. call'[k].pc = "done" /\ \A j \in Id \ {k} : call'[j] = call[j]
      BY <2>1, <3>1, CallGoes
    <3> QED
      BY <2>1, <3>1, <3>2, TablesKept DEF Replied, InProgress, Calling, Offering
  <2>3. CASE ~ Known(call[k].from, call[k].to)
    <3>1. Goto(k, "post") /\ UNCHANGED tables
      BY <1>1, <2>3 DEF Checks
    <3>2. /\ call'[k].pc = "post" /\ \A j \in Id \ {k} : call'[j] = call[j]
          /\ call'[k].from = call[k].from /\ call'[k].to = call[k].to
      BY <2>1, <3>1, CallGoes
    <3>3. InProgress(k) /\ peers[call[k].from][call[k].to] = None
      BY <2>1, <2>3 DEF Known, InProgress, Calling
    <3> QED
      BY <2>1, <3>1, <3>2, <3>3, TablesKept
  <2> QED
    BY <2>2, <2>3
<1>2. CASE Posts(k)
  <2>1. /\ call'[k].pc = "wait" /\ \A j \in Id \ {k} : call'[j] = call[j]
        /\ call'[k].from = call[k].from /\ call'[k].to = call[k].to
    BY <1>2, CallGoes DEF Posts
  <2>2. \A j \in Id \ {k} : handler'[j] = handler[j]
    BY <1>2 DEF Posts, TypeOK
  <2>3. call[k].pc = "post" /\ UNCHANGED tables
    BY <1>2 DEF Posts
  <2> QED
    BY <2>1, <2>2, <2>3, TablesKept DEF InProgress, Calling, Offering
<1>3. CASE Refused(k)
  <2>1. call'[k].pc = "failed" /\ \A j \in Id \ {k} : call'[j] = call[j]
    BY <1>3, CallGoes DEF Refused
  <2>2. handler' = handler /\ call[k].pc = "post" /\ UNCHANGED tables
    BY <1>3 DEF Refused
  <2> QED
    BY <2>1, <2>2, TablesKept DEF InProgress, Calling, Offering
<1>4. CASE Answered(k)
  <2>1. /\ handler' = handler /\ call[k].pc = "wait" /\ handler[k].pc = "reply"
        /\ UNCHANGED tables
    BY <1>4 DEF Answered
  <2>2. CASE handler[k].ans = None
    <3>1. call'[k].pc = "failed" /\ \A j \in Id \ {k} : call'[j] = call[j]
      BY <1>4, <2>2, CallGoes DEF Answered
    <3> QED
      BY <2>1, <3>1, TablesKept DEF InProgress, Calling, Offering
  <2>3. CASE handler[k].ans # None
    <3>1. /\ call'[k].pc = "peers" /\ \A j \in Id \ {k} : call'[j] = call[j]
          /\ call'[k].from = call[k].from /\ call'[k].to = call[k].to
      BY <1>4, <2>3, CallGoes DEF Answered
    <3>2. Replied(k)' /\ Offering(k) /\ InProgress(k)
      BY <2>1, <2>3 DEF Replied, Offering, InProgress, Calling
    <3> QED
      BY <2>1, <3>1, <3>2, TablesKept
  <2> QED
    BY <2>2, <2>3
<1> QED
  BY <1>1, <1>2, <1>3, <1>4, TablesStoresPeer, TablesStoresChannel DEF ConnectPeer

\* A handler ends in a reply only from one of its own awaits.
LEMMA TablesHandler ==
    ASSUME TypeOK, Reachable, OneByOne, NEW k \in Id,
           HandleOffer(k) \/ HandlerFails(k) \/ HandlerDropped(k)
    PROVE  Reachable' /\ OneByOne'
<1>1. call' = call /\ UNCHANGED tables /\ handler[k].pc \notin {"none", "reply"}
  BY DEF HandleOffer, SetsRemote, CreatesAnswer, SetsLocal, HandlerFails, HandlerDropped
<1>2. \A j \in Id \ {k} : handler'[j] = handler[j]
  BY DEF HandleOffer, SetsRemote, CreatesAnswer, SetsLocal, HandlerFails, HandlerDropped,
     TakesOffer, RefusesBusy, Replies, TypeOK
<1>3. call[k].pc \notin {"peers", "channels", "done"}
  BY <1>1 DEF Reachable, Replied
<1> QED
  BY <1>1, <1>2, <1>3, TablesKept DEF InProgress, Offering

LEMMA TablesFault ==
    ASSUME TypeOK, Reachable, OneByOne, NEW k \in Id, Fault(k)
    PROVE  Reachable' /\ OneByOne'
<1>1. CASE CallFails(k) \/ Cut(k)
  <2>1. Goto(k, "failed") /\ call[k].pc \in {"post", "wait"} /\ handler' = handler
        /\ UNCHANGED tables
    BY <1>1 DEF CallFails, Cut
  <2>2. call'[k].pc = "failed" /\ \A j \in Id \ {k} : call'[j] = call[j]
    BY <2>1, CallGoes
  <2> QED
    BY <2>1, <2>2, TablesKept DEF InProgress, Calling, Offering
<1> QED
  BY <1>1, TablesHandler DEF Fault

LEMMA TablesInit == Init => Reachable /\ OneByOne
<1> SUFFICES ASSUME Init PROVE Reachable /\ OneByOne
  OBVIOUS
<1>1. \A k \in Id : call[k].pc = "idle"
  BY DEF Init
<1>2. \A n, m \in Device : peers[n][m] = None /\ channels[n][m] = None /\ told[n][m] = 0
  BY DEF Init
<1>3. Reachable
  BY <1>1, <1>2, IdIsNumber DEF Reachable
<1>4. OneByOne
  BY <1>1, <1>2 DEF OneByOne, Single, FirstOffer, SameTables, OneReport,
     InProgress, Calling, Offering
<1> QED
  BY <1>3, <1>4

LEMMA TablesNext ==
    Inv /\ Reachable /\ OneByOne /\ [Next]_vars => Reachable' /\ OneByOne'
<1> SUFFICES ASSUME Inv, Reachable, OneByOne, [Next]_vars
             PROVE  Reachable' /\ OneByOne'
  OBVIOUS
<1>1. TypeOK /\ NotPosted
  BY DEF Inv
<1>2. ASSUME UNCHANGED <<call, handler, tables>>
      PROVE  Reachable' /\ OneByOne'
  BY <1>2 DEF tables, Reachable, Served, Replied, Filed, OneByOne, Single,
     FirstOffer, SameTables, OneReport, InProgress, Offering
<1>3. ASSUME NEW n \in Device, NEW m \in Device, Resolved(n, m)
      PROVE  UNCHANGED <<call, handler, tables>>
  BY <1>3 DEF Resolved
<1>4. CASE UNCHANGED vars
  BY <1>2, <1>4 DEF vars
<1> QED
  BY <1>1, <1>2, <1>3, <1>4, TablesStarts, TablesVanishes, TablesConnectPeer,
     TablesHandler, TablesFault DEF Next

LEMMA TablesInvariance == Spec => [](Reachable /\ OneByOne)
<1> QED
  BY TablesInit, TablesNext, Invariance, PTL DEF Spec

\* Whoever is listed or reported as connected can be reached, or its call is
\* about to store the channel, over a connection that was answered or lost with
\* its server, however calls overlap, fail and vanish.
THEOREM ConnectedAreReachable == Spec => []ConnectedIsReachable
<1>1. TypeOK /\ Reachable => ConnectedIsReachable
  <2> SUFFICES ASSUME TypeOK, Reachable, NEW n \in Device, NEW m \in Device
               PROVE  /\ told[n][m] > 0 => channels[n][m] # None
                      /\ channels[n][m] # None => peers[n][m] # None
                      /\ peers[n][m] # None => Served(n, m)
                      /\ \A k \in {peers[n][m], channels[n][m]} \ {None} :
                            /\ call[k].from = n /\ call[k].to = m
                            /\ \/ handler[k].pc = "none"
                               \/ handler[k].pc = "reply" /\ handler[k].ans # None
    BY DEF ConnectedIsReachable, Served
  <2>1. /\ told[n][m] > 0 => channels[n][m] # None
        /\ channels[n][m] # None => peers[n][m] # None
        /\ peers[n][m] # None => Served(n, m)
    BY DEF Reachable, TypeOK
  <2>2. {peers[n][m], channels[n][m]} \ {None} \subseteq Id
    BY DEF TypeOK
  <2>3. ASSUME NEW k \in {peers[n][m], channels[n][m]} \ {None}
        PROVE  Filed(n, m, k) /\ Replied(k)
    <3>1. Filed(n, m, k)
      BY <2>2, <2>3 DEF Reachable
    <3> QED
      BY <2>2, <3>1 DEF Reachable, Filed
  <2> QED
    BY <2>1, <2>3 DEF Filed, Replied
<1> QED
  BY <1>1, TablesInvariance, TypeCorrect, PTL

\* A device whose calls follow one another offers itself once to each device,
\* however often that is reported, files one connection in both tables, and
\* sends one PeerConnected.
THEOREM ConnectionsAreSingle == Spec => []OneConnectionEach
<1>1. TypeOK /\ OneByOne => OneConnectionEach
  <2> SUFFICES ASSUME TypeOK, OneByOne, NEW n \in Device \ Spawning, NEW m \in Device
               PROVE  /\ channels[n][m] \in {None, peers[n][m]}
                      /\ told[n][m] <= 1
                      /\ \A k \in Id :
                            /\ call[k].pc \in {"post", "wait", "peers"}
                            /\ call[k].from = n /\ call[k].to = m
                            => peers[n][m] = None
    BY DEF OneConnectionEach
  <2>1. told[n][m] \in {0, 1}
    BY DEF OneByOne, OneReport
  <2> QED
    BY <2>1 DEF OneByOne, FirstOffer, SameTables, Offering
<1> QED
  BY <1>1, TablesInvariance, TypeCorrect, PTL

-----------------------------------------------------------------------------
(* Transport implements OfferExchange                                      *)

\* The offer of k has not been looked at yet, if it is made at all.
Fresh(k) == call[k].pc \in {"idle", "check", "post"} \/ handler[k].pc = "offer"

Untaken ==
    \A k \in Id, s \in Device :
        Fresh(k) /\ shared[s].sig = "have_remote" => shared[s].remote # k

LEMMA UntakenKept ==
    ASSUME Untaken, \A k \in Id : Fresh(k)' => Fresh(k),
           \A s \in Device : shared'[s].sig = "have_remote" =>
              \/ shared[s].sig = "have_remote" /\ shared'[s].remote = shared[s].remote
              \/ \A k \in Id : shared'[s].remote = k => ~ Fresh(k)'
    PROVE  Untaken'
BY DEF Untaken

\* What a request is at the steps of its handler.
LEMMA AtHandler ==
    ASSUME TypeOK, NotPosted, NEW k \in Id, handler[k].pc # "none"
    PROVE  /\ handler[k].at \in Device
           /\ call[k].pc \notin {"idle", "check", "post"}
           /\ handler[k].pc \in {"offer", "create", "local", "reply"}
  BY HandlerFields DEF TypeOK, NotPosted

LEMMA UntakenHandler ==
    ASSUME Inv, Untaken, NEW k \in Id,
           HandleOffer(k) \/ HandlerFails(k) \/ HandlerDropped(k)
    PROVE  Untaken'
<1>1. TypeOK /\ NotPosted /\ OpenOffer
  BY DEF Inv
<1>2. PICK s \in Device : s = handler[k].at
  BY <1>1, AtHandler
  DEF HandleOffer, SetsRemote, CreatesAnswer, SetsLocal, HandlerFails, HandlerDropped
<1>3. call' = call /\ call[k].pc \notin {"idle", "check", "post"}
  BY <1>1, AtHandler
  DEF HandleOffer, SetsRemote, CreatesAnswer, SetsLocal, HandlerFails, HandlerDropped
<1>4. /\ \A j \in Id \ {k} : handler'[j] = handler[j]
      /\ handler'[k].pc # "offer"
  <2>1. \E h : handler' = [handler EXCEPT ![k] = h] /\ h.pc # "offer"
    <3>1. PICK x : x = [pc |-> "create", at |-> handler[k].at]
      OBVIOUS
    <3>2. PICK y : y = [pc |-> "local", at |-> handler[k].at, ans |-> AnswerTo(handler[k].at)]
      OBVIOUS
    <3>3. PICK z : z = [pc |-> "none"]
      OBVIOUS
    <3>4. x.pc # "offer" /\ y.pc # "offer" /\ z.pc # "offer"
      BY <3>1, <3>2, <3>3
    <3>5. ASSUME NEW ans, Replies(k, ans)
          PROVE  \E h : handler' = [handler EXCEPT ![k] = h] /\ h.pc # "offer"
      <4>1. PICK h : h = [pc |-> "reply", at |-> handler[k].at, ans |-> ans]
        OBVIOUS
      <4>2. h.pc # "offer" /\ handler' = [handler EXCEPT ![k] = h]
        BY <3>5, <4>1 DEF Replies
      <4> QED
        BY <4>2
    <3>6. \/ handler' = [handler EXCEPT ![k] = x]
          \/ handler' = [handler EXCEPT ![k] = y]
          \/ handler' = [handler EXCEPT ![k] = z]
          \/ \E ans : Replies(k, ans)
      <4>1. CASE SetsRemote(k)
        BY <3>1, <4>1 DEF SetsRemote, TakesOffer, RefusesBusy
      <4>2. CASE CreatesAnswer(k)
        BY <3>2, <4>2 DEF CreatesAnswer
      <4>3. CASE SetsLocal(k) \/ HandlerFails(k)
        BY <4>3 DEF SetsLocal, HandlerFails
      <4>4. CASE HandlerDropped(k)
        BY <3>3, <4>4 DEF HandlerDropped
      <4> QED
        BY <4>1, <4>2, <4>3, <4>4 DEF HandleOffer
    <3> QED
      BY <3>4, <3>5, <3>6
  <2> QED
    BY <1>1, <2>1 DEF TypeOK
<1>5. (\A j \in Id : Fresh(j)' => Fresh(j)) /\ ~ Fresh(k)'
  BY <1>3, <1>4 DEF Fresh
<1>6. \/ shared' = shared
      \/ shared' = Taken(s, k)
      \/ shared' = [shared EXCEPT ![s].answer = AnswerTo(s)]
      \/ shared' = [shared EXCEPT ![s].sig = "stable"]
  BY <1>2 DEF HandleOffer, SetsRemote, TakesOffer, RefusesBusy, CreatesAnswer, SetsLocal,
     Settles, HandlerFails, HandlerDropped
<1>7. ASSUME NEW t \in Device, shared'[t].sig = "have_remote"
      PROVE  \/ shared[t].sig = "have_remote" /\ shared'[t].remote = shared[t].remote
             \/ \A j \in Id : shared'[t].remote = j => ~ Fresh(j)'
  <2>1. CASE shared' = shared
    BY <1>7, <2>1
  <2>2. CASE shared' = Taken(s, k)
    <3>1. t = s => shared'[t].remote = k
      BY <1>1, <2>2 DEF Taken, TypeOK
    <3>2. t # s => shared'[t] = shared[t]
      BY <1>1, <2>2 DEF Taken, TypeOK
    <3> QED
      BY <1>5, <1>7, <3>1, <3>2
  <2>3. CASE shared' = [shared EXCEPT ![s].answer = AnswerTo(s)]
    BY <1>1, <1>7, <2>3 DEF TypeOK, Shared
  <2>4. CASE shared' = [shared EXCEPT ![s].sig = "stable"]
    BY <1>1, <1>7, <2>4 DEF TypeOK, Shared
  <2> QED
    BY <1>6, <2>1, <2>2, <2>3, <2>4
<1> QED
  BY <1>5, <1>7, UntakenKept

LEMMA UntakenCall ==
    ASSUME Inv, Untaken, NEW k \in Id, ConnectPeer(k) \/ CallFails(k) \/ Cut(k)
    PROVE  Untaken'
<1>1. TypeOK
  BY DEF Inv
<1>2. shared' = shared
  BY DEF ConnectPeer, Checks, Posts, Refused, Answered, StoresPeer, StoresChannel,
     CallFails, Cut
<1>3. PICK pc \in Calling \cup {"done", "failed"} :
         Goto(k, pc) /\ (pc \in {"check", "post"} => call[k].pc = "check")
  BY DEF ConnectPeer, Checks, Posts, Refused, Answered, StoresPeer, StoresChannel,
     CallFails, Cut, Calling
<1>4. call[k].pc # "idle" /\ pc # "idle"
  BY DEF ConnectPeer, Checks, Posts, Refused, Answered, StoresPeer, StoresChannel,
     CallFails, Cut, Calling
<1>5. call'[k].pc = pc /\ \A j \in Id \ {k} : call'[j] = call[j]
  BY <1>1, <1>3, <1>4, CallGoes
<1>6. /\ \A j \in Id \ {k} : handler'[j] = handler[j]
      /\ handler' = handler \/ call[k].pc = "post"
  BY <1>1 DEF ConnectPeer, Checks, Posts, Refused, Answered, StoresPeer, StoresChannel,
     CallFails, Cut, TypeOK
<1>7. \A j \in Id : Fresh(j)' => Fresh(j)
  BY <1>3, <1>4, <1>5, <1>6 DEF Fresh
<1> QED
  BY <1>2, <1>7, UntakenKept

LEMMA UntakenNext == Inv /\ Untaken /\ [Next]_vars => Untaken'
<1> SUFFICES ASSUME Inv, Untaken, [Next]_vars
             PROVE  Untaken'
  OBVIOUS
<1>1. TypeOK /\ NotPosted
  BY DEF Inv
<1>2. CASE UNCHANGED vars
  BY <1>2 DEF vars, Untaken, Fresh
<1>3. ASSUME NEW n \in Device, NEW m \in Device, Resolved(n, m)
      PROVE  Untaken'
  BY <1>3 DEF Resolved, Untaken, Fresh
<1>4. ASSUME NEW n \in Device, Starts(n)
      PROVE  Untaken'
  <2>1. PICK i \in Id : i = started + 1 /\ i > started
    BY <1>1, <1>4, TransportAssumption DEF Starts, TypeOK, Id
  <2>2. \A k \in Id \ {i} : call'[k] = call[k]
    BY <1>1, <1>4, <2>1 DEF Starts, TypeOK
  <2>3. call[i].pc = "idle" /\ handler' = handler /\ shared' = shared
    BY <1>1, <1>4, <2>1 DEF Starts, NotPosted
  <2>4. \A k \in Id : Fresh(k)' => Fresh(k)
    BY <2>2, <2>3 DEF Fresh
  <2> QED
    BY <2>3, <2>4, UntakenKept
<1>5. ASSUME NEW n \in Device, Vanishes(n)
      PROVE  Untaken'
  <2>1. \A k \in Id : call'[k] = call[k] \/ call'[k].pc = "failed"
    BY <1>1, <1>5 DEF Vanishes, TypeOK, InProgress, Calling, Call
  <2>2. \A k \in Id : handler'[k] = handler[k] \/ handler'[k].pc = "none"
    BY <1>5 DEF Vanishes
  <2>3. \A k \in Id : Fresh(k)' => Fresh(k)
    BY <2>1, <2>2 DEF Fresh
  <2>4. \A s \in Device : shared'[s] = shared[s] \/ shared'[s].sig = "stable"
    BY <1>1, <1>5 DEF Vanishes, TypeOK
  <2>5. "stable" # "have_remote"
    OBVIOUS
  <2> QED
    BY <2>3, <2>4, <2>5, UntakenKept
<1>6. ASSUME NEW k \in Id, ConnectPeer(k) \/ HandleOffer(k) \/ Fault(k)
      PROVE  Untaken'
  BY <1>6, UntakenCall, UntakenHandler DEF Fault
<1> QED
  BY <1>2, <1>3, <1>4, <1>5, <1>6 DEF Next

LEMMA UntakenInvariance == Spec => [](Inv /\ Untaken)
<1>1. Init => Untaken
  BY DEF Init, Untaken
<1> QED
  BY <1>1, UntakenNext, Invariance, PTL DEF Spec

\* What the exchange shows of the transport layers.
Callers == [k \in Id |-> Stage(call[k].pc)]
Requests == [k \in Id |-> RequestOf(k)]
Opens == [s \in Device |-> OpenAt(s)]

LEMMA CallersStay ==
    ASSUME \A k \in Id : Stage(call'[k].pc) = Stage(call[k].pc)
    PROVE  Callers' = Callers
BY DEF Callers

LEMMA CallerMoves ==
    ASSUME TypeOK, NEW k \in Id, call[k].pc # "idle", NEW pc, Goto(k, pc)
    PROVE  Callers' = [Callers EXCEPT ![k] = Stage(pc)]
<1>1. call'[k].pc = pc /\ \A j \in Id \ {k} : call'[j] = call[j]
  BY CallGoes
<1> QED
  BY <1>1 DEF Callers

LEMMA Stages ==
    /\ \A pc \in {"idle", "check", "post"} : Stage(pc) = "new"
    /\ Stage("wait") = "asking"
    /\ \A pc \in {"peers", "channels"} : Stage(pc) = "connected"
    /\ \A pc \in {"done", "failed"} : Stage(pc) = "over"
  BY DEF Stage

LEMMA RequestsStay ==
    ASSUME \A k \in Id : RequestOf(k)' = RequestOf(k)
    PROVE  Requests' = Requests
BY DEF Requests

LEMMA RequestMoves ==
    ASSUME NEW k \in Id, NEW r, RequestOf(k)' = r,
           \A j \in Id \ {k} : handler'[j] = handler[j]
    PROVE  Requests' = [Requests EXCEPT ![k] = r]
<1>1. \A j \in Id \ {k} : RequestOf(j)' = RequestOf(j)
  BY DEF RequestOf, StateOf
<1> QED
  BY <1>1 DEF Requests

LEMMA OpensStay ==
    ASSUME \A s \in Device : OpenAt(s)' = OpenAt(s)
    PROVE  Opens' = Opens
BY DEF Opens

LEMMA OpenMoves ==
    ASSUME NEW s \in Device, NEW o, OpenAt(s)' = o,
           \A t \in Device \ {s} : shared'[t] = shared[t]
    PROVE  Opens' = [Opens EXCEPT ![s] = o]
<1>1. \A t \in Device \ {s} : OpenAt(t)' = OpenAt(t)
  BY DEF OpenAt
<1> QED
  BY <1>1 DEF Opens

\* A request its handler still works on.
LEMMA RequestWaits ==
    ASSUME NEW k \in Id, handler[k].pc \in {"offer", "create", "local"}
    PROVE  Requests[k].at = handler[k].at /\ Exchange!Waits(k)
<1>1. Requests[k] = [at |-> handler[k].at, state |-> "waiting", offer |-> None]
  BY DEF Requests, RequestOf, StateOf
<1>2. /\ Requests[k].at = handler[k].at /\ Requests[k].state = "waiting"
      /\ Requests[k] # <<>>
  BY <1>1
<1> QED
  BY <1>2 DEF Exchange!Waits, Exchange!Nothing, Requests

LEMMA RequestReplied ==
    ASSUME TypeOK, NEW k \in Id, NEW ans, Replies(k, ans),
           NEW s, s = handler[k].at
    PROVE  /\ ans = None =>
                Requests' = [Requests EXCEPT ![k] = Exchange!Request(s, "refused", None)]
           /\ ans # None =>
                Requests' = [Requests EXCEPT ![k] = Exchange!Request(s, "answered", ans)]
<1>1. PICK h : h = [pc |-> "reply", at |-> s, ans |-> ans]
  OBVIOUS
<1>2. handler' = [handler EXCEPT ![k] = h]
  BY <1>1 DEF Replies
<1>3. handler'[k] = h /\ \A j \in Id \ {k} : handler'[j] = handler[j]
  BY <1>2 DEF TypeOK
<1>4. h.pc = "reply" /\ h.at = s /\ h.ans = ans
  BY <1>1
<1>5. ASSUME ans = None
      PROVE  Requests' = [Requests EXCEPT ![k] = Exchange!Request(s, "refused", None)]
  <2>1. PICK r : r = Exchange!Request(s, "refused", None)
    OBVIOUS
  <2>2. RequestOf(k)' = r
    BY <1>3, <1>4, <1>5, <2>1 DEF RequestOf, StateOf, Exchange!Request
  <2> QED
    BY <1>3, <2>1, <2>2, RequestMoves
<1>6. ASSUME ans # None
      PROVE  Requests' = [Requests EXCEPT ![k] = Exchange!Request(s, "answered", ans)]
  <2>1. PICK r : r = Exchange!Request(s, "answered", ans)
    OBVIOUS
  <2>2. RequestOf(k)' = r
    BY <1>3, <1>4, <1>6, <2>1 DEF RequestOf, StateOf, Exchange!Request
  <2> QED
    BY <1>3, <2>1, <2>2, RequestMoves
<1> QED
  BY <1>5, <1>6

\* The steps of a handler.
LEMMA OfferIsTakenOrRefused ==
    ASSUME Inv, Untaken, NEW k \in Id, SetsRemote(k)
    PROVE  Exchange!Takes(k) \/ Exchange!Refuses(k)
<1>1. TypeOK /\ NotPosted /\ handler[k].pc = "offer" /\ UNCHANGED <<call, faults>>
  BY DEF Inv, SetsRemote
<1>2. PICK s \in Device : s = handler[k].at
  BY <1>1, AtHandler
<1>3. Exchange!Waits(k) /\ Requests[k].at = s /\ Callers' = Callers
  BY <1>1, <1>2, RequestWaits, CallersStay
<1>4. CASE shared[s].sig = "stable"
  <2>1. PICK h : h = [pc |-> "create", at |-> s]
    OBVIOUS
  <2>2. shared' = Taken(s, k) /\ handler' = [handler EXCEPT ![k] = h]
    BY <1>2, <1>4, <2>1 DEF SetsRemote, TakesOffer
  <2>3. /\ shared'[s].sig = "have_remote" /\ shared'[s].remote = k
        /\ \A t \in Device \ {s} : shared'[t] = shared[t]
    BY <1>1, <2>2 DEF Taken, TypeOK
  <2>4. OpenAt(s)' = {k} /\ Opens[s] = {}
    BY <1>4, <2>3 DEF OpenAt, Opens
  <2>5. Opens' = [Opens EXCEPT ![s] = {k}]
    BY <2>3, <2>4, OpenMoves
  <2>6. RequestOf(k)' = RequestOf(k)
    <3>1. handler'[k] = h /\ h.pc = "create" /\ h.at = s
      BY <1>1, <2>1, <2>2 DEF TypeOK
    <3> QED
      BY <1>1, <1>2, <3>1 DEF RequestOf, StateOf
  <2>7. \A j \in Id \ {k} : RequestOf(j)' = RequestOf(j)
    BY <1>1, <2>2 DEF RequestOf, StateOf, TypeOK
  <2>8. Requests' = Requests
    BY <2>6, <2>7, RequestsStay
  <2>9. Exchange!Takes(k)
    BY <1>1, <1>3, <2>4, <2>5, <2>8 DEF Exchange!Takes, Requests, Opens, Callers
  <2> QED
    BY <2>9
<1>5. CASE shared[s].sig # "stable"
  <2>1. Replies(k, None) /\ shared' = shared
    BY <1>2, <1>5 DEF SetsRemote, RefusesBusy
  <2>2. Requests' = [Requests EXCEPT ![k] = Exchange!Request(s, "refused", None)]
    BY <1>1, <1>2, <2>1, RequestReplied
  <2>3. Opens' = Opens
    BY <2>1, OpensStay DEF OpenAt
  <2>4. Opens[s] \notin {{}, {k}}
    <3>1. shared[s].sig = "have_remote"
      BY <1>1, <1>5 DEF TypeOK, Shared
    <3>2. shared[s].remote # k
      BY <1>1, <3>1 DEF Untaken, Fresh
    <3> QED
      BY <3>1, <3>2 DEF Opens, OpenAt
  <2>5. Exchange!Refuses(k)
    BY <1>1, <1>3, <2>2, <2>3, <2>4 DEF Exchange!Refuses, Requests, Opens, Callers
  <2> QED
    BY <2>5
<1> QED
  BY <1>4, <1>5

LEMMA AnswerIsCreated ==
    ASSUME Inv, NEW k \in Id, CreatesAnswer(k)
    PROVE  UNCHANGED Exchange!vars
<1>1. TypeOK /\ NotPosted /\ handler[k].pc = "create" /\ UNCHANGED <<call, faults>>
  BY DEF Inv, CreatesAnswer
<1>2. PICK s \in Device : s = handler[k].at
  BY <1>1, AtHandler
<1>3. shared[s].sig = "have_remote"
  BY <1>1, <1>2 DEF Inv, OpenOffer, Negotiating
<1>4. PICK h : h = [pc |-> "local", at |-> s, ans |-> AnswerTo(s)]
  OBVIOUS
<1>5. /\ shared' = [shared EXCEPT ![s].answer = AnswerTo(s)]
      /\ handler' = [handler EXCEPT ![k] = h]
  BY <1>2, <1>3, <1>4 DEF CreatesAnswer
<1>6. \A t \in Device : OpenAt(t)' = OpenAt(t)
  <2>1. \A t \in Device : shared'[t].sig = shared[t].sig /\ shared'[t].remote = shared[t].remote
    BY <1>1, <1>5 DEF TypeOK, Shared
  <2> QED
    BY <2>1 DEF OpenAt
<1>7. RequestOf(k)' = RequestOf(k)
  <2>1. handler'[k] = h /\ h.pc = "local" /\ h.at = s
    BY <1>1, <1>4, <1>5 DEF TypeOK
  <2> QED
    BY <1>1, <1>2, <2>1 DEF RequestOf, StateOf
<1>8. \A j \in Id \ {k} : RequestOf(j)' = RequestOf(j)
  BY <1>1, <1>5 DEF RequestOf, StateOf, TypeOK
<1>9. Requests' = Requests /\ Opens' = Opens /\ Callers' = Callers
  BY <1>1, <1>6, <1>7, <1>8, RequestsStay, OpensStay, CallersStay
<1> QED
  BY <1>1, <1>9 DEF Exchange!vars, Requests, Opens, Callers

LEMMA AnswerIsGiven ==
    ASSUME Inv, NEW k \in Id, SetsLocal(k)
    PROVE  Exchange!Answers(k)
<1>1. TypeOK /\ NotPosted /\ handler[k].pc = "local" /\ UNCHANGED <<call, faults>>
  BY DEF Inv, SetsLocal
<1>2. PICK s \in Device : s = handler[k].at
  BY <1>1, AtHandler
<1>3. /\ shared[s].sig = "have_remote" /\ shared[s].remote = k
      /\ shared[s].answer = k /\ handler[k].ans = k
  BY <1>1, <1>2 DEF Inv, OpenOffer, Negotiating
<1>4. shared' = [shared EXCEPT ![s].sig = "stable"] /\ Replies(k, k)
  BY <1>2, <1>3 DEF SetsLocal, Settles
<1>5. k # None
  BY IdIsNumber
<1>6. Requests' = [Requests EXCEPT ![k] = Exchange!Request(s, "answered", k)]
  BY <1>1, <1>2, <1>4, <1>5, RequestReplied
<1>7. /\ shared'[s].sig = "stable"
      /\ \A t \in Device \ {s} : shared'[t] = shared[t]
  BY <1>1, <1>4 DEF TypeOK, Shared
<1>8. OpenAt(s)' = {} /\ Opens[s] = {k}
  BY <1>3, <1>7 DEF OpenAt, Opens
<1>9. Opens' = [Opens EXCEPT ![s] = {}]
  BY <1>7, <1>8, OpenMoves
<1>10. Exchange!Waits(k) /\ Requests[k].at = s /\ Callers' = Callers
  BY <1>1, <1>2, RequestWaits, CallersStay
<1> QED
  BY <1>1, <1>6, <1>8, <1>9, <1>10 DEF Exchange!Answers, Requests, Opens, Callers

LEMMA HandlerFailsFails ==
    ASSUME Inv, NEW k \in Id, HandlerFails(k)
    PROVE  Exchange!Fails(k)
<1>1. /\ TypeOK /\ NotPosted /\ handler[k].pc \in {"offer", "create", "local"}
      /\ call' = call /\ faults < MaxFaults /\ faults' = faults + 1
  BY DEF Inv, HandlerFails
<1>2. PICK s \in Device : s = handler[k].at
  BY <1>1, AtHandler
<1>3. Exchange!Waits(k) /\ Requests[k].at = s /\ Callers' = Callers
  BY <1>1, <1>2, RequestWaits, CallersStay
<1>4. Requests' = [Requests EXCEPT ![k] = Exchange!Request(s, "refused", None)]
  BY <1>1, <1>2, RequestReplied DEF HandlerFails
<1>5. Opens' = Opens \/ (Opens[s] = {} /\ Opens' = [Opens EXCEPT ![s] = {k}])
  <2>1. CASE shared' = shared
    BY <2>1, OpensStay DEF OpenAt
  <2>2. CASE shared[s].sig = "stable" /\ shared' = Taken(s, k)
    <3>1. /\ shared'[s].sig = "have_remote" /\ shared'[s].remote = k
          /\ \A t \in Device \ {s} : shared'[t] = shared[t]
      BY <1>1, <2>2 DEF Taken, TypeOK
    <3>2. OpenAt(s)' = {k} /\ Opens[s] = {}
      BY <2>2, <3>1 DEF OpenAt, Opens
    <3> QED
      BY <3>1, <3>2, OpenMoves
  <2> QED
    BY <1>2, <2>1, <2>2 DEF HandlerFails
<1> QED
  BY <1>1, <1>3, <1>4, <1>5 DEF Exchange!Fails, Exchange!Fault, Requests, Opens, Callers

LEMMA HandlerDroppedDrops ==
    ASSUME Inv, NEW k \in Id, HandlerDropped(k)
    PROVE  Exchange!Drops(k)
<1>1. /\ TypeOK /\ NotPosted /\ handler[k].pc \in {"offer", "create", "local"}
      /\ UNCHANGED <<call, faults, shared>> /\ call[k].pc # "wait"
  BY DEF Inv, HandlerDropped, Abandoned
<1>2. PICK h : h = [pc |-> "none"]
  OBVIOUS
<1>3. handler'[k] = h /\ \A j \in Id \ {k} : handler'[j] = handler[j]
  BY <1>1, <1>2 DEF HandlerDropped, TypeOK
<1>4. PICK r : r = Exchange!Nothing
  OBVIOUS
<1>5. RequestOf(k)' = r
  <2>1. h.pc = "none"
    BY <1>2
  <2> QED
    BY <1>3, <1>4, <2>1 DEF RequestOf, Exchange!Nothing
<1>6. Requests' = [Requests EXCEPT ![k] = Exchange!Nothing]
  BY <1>3, <1>4, <1>5, RequestMoves
<1>7. Opens' = Opens /\ Callers' = Callers
  BY <1>1, OpensStay, CallersStay DEF OpenAt
<1>8. Callers[k] # "asking"
  <2>1. call[k].pc \in {"idle", "check", "post", "peers", "channels", "done", "failed"}
    BY <1>1 DEF TypeOK, Call, Calling
  <2> QED
    BY <2>1, Stages DEF Callers
<1> QED
  BY <1>1, <1>6, <1>7, <1>8, RequestWaits
  DEF Exchange!Drops, Requests, Opens, Callers

\* The steps of a call.
LEMMA OnlyTheCall ==
    ASSUME UNCHANGED <<handler, shared>>
    PROVE  Requests' = Requests /\ Opens' = Opens
BY RequestsStay, OpensStay DEF RequestOf, StateOf, OpenAt

LEMMA CallSkips ==
    ASSUME TypeOK, NEW k \in Id, call[k].pc \in {"check", "post"},
           NEW pc \in {"done", "failed"}, Goto(k, pc), UNCHANGED <<handler, shared>>,
           faults' = faults \/ (faults < MaxFaults /\ faults' = faults + 1)
    PROVE  Exchange!Skips(k)
<1>1. Callers' = [Callers EXCEPT ![k] = "over"]
  BY CallerMoves, Stages
<1>2. Callers[k] = "new"
  BY Stages DEF Callers
<1> QED
  BY <1>1, <1>2, OnlyTheCall
  DEF Exchange!Skips, Exchange!Turns, Exchange!Fault, Requests, Opens, Callers

LEMMA CallGivesUp ==
    ASSUME TypeOK, NEW k \in Id, call[k].pc = "wait", Goto(k, "failed"),
           UNCHANGED <<handler, shared>>,
           \/ faults < MaxFaults /\ faults' = faults + 1
           \/ /\ Requests[k] = Exchange!Nothing \/ Requests[k].state = "refused"
              /\ faults' = faults
    PROVE  Exchange!GivesUp(k)
<1>1. Callers' = [Callers EXCEPT ![k] = "over"]
  BY CallerMoves, Stages
<1>2. Callers[k] = "asking"
  BY Stages DEF Callers
<1> QED
  BY <1>1, <1>2, OnlyTheCall
  DEF Exchange!GivesUp, Exchange!Turns, Exchange!Fault, Requests, Opens, Callers

LEMMA CallStep ==
    ASSUME Inv, NEW k \in Id, ConnectPeer(k) \/ CallFails(k) \/ Cut(k)
    PROVE  Exchange!Next \/ UNCHANGED Exchange!vars
<1>0. TypeOK /\ NotPosted
  BY DEF Inv
<1>1. CASE Checks(k)
  <2>1. CASE Goto(k, "done")
    BY <1>0, <1>1, <2>1, CallSkips DEF Checks, Exchange!Next
  <2>2. CASE Goto(k, "post")
    <3>1. Callers' = [Callers EXCEPT ![k] = "new"] /\ Callers[k] = "new"
      BY <1>0, <1>1, <2>2, CallerMoves, Stages DEF Checks, Callers
    <3>2. Callers' = Callers
      BY <3>1 DEF Callers
    <3> QED
      BY <1>1, <3>2, OnlyTheCall DEF Checks, Exchange!vars, Requests, Opens, Callers
  <2> QED
    BY <1>1, <2>1, <2>2 DEF Checks
<1>2. CASE Posts(k)
  <2>1. PICK s \in Device : handler' = [handler EXCEPT ![k] = [pc |-> "offer", at |-> s]]
    BY <1>2 DEF Posts, ServerOf
  <2>2. PICK h : h = [pc |-> "offer", at |-> s]
    OBVIOUS
  <2>3. handler'[k] = h /\ \A j \in Id \ {k} : handler'[j] = handler[j]
    BY <1>0, <2>1, <2>2 DEF TypeOK
  <2>4. PICK r : r = Exchange!Request(s, "waiting", None)
    OBVIOUS
  <2>5. RequestOf(k)' = r
    <3>1. h.pc = "offer" /\ h.at = s
      BY <2>2
    <3> QED
      BY <2>3, <2>4, <3>1 DEF RequestOf, StateOf, Exchange!Request
  <2>6. Requests' = [Requests EXCEPT ![k] = Exchange!Request(s, "waiting", None)]
    BY <2>3, <2>4, <2>5, RequestMoves
  <2>7. Callers' = [Callers EXCEPT ![k] = "asking"] /\ Callers[k] = "new"
    BY <1>0, <1>2, CallerMoves, Stages DEF Posts, Callers
  <2>8. Opens' = Opens /\ faults' = faults
    BY <1>2, OpensStay DEF Posts, OpenAt
  <2>9. Exchange!Asks(k, s)
    BY <2>6, <2>7, <2>8 DEF Exchange!Asks, Exchange!Turns, Requests, Opens, Callers
  <2> QED
    BY <2>9 DEF Exchange!Next
<1>3. CASE Refused(k)
  BY <1>0, <1>3, CallSkips DEF Refused, Exchange!Next
<1>4. CASE Answered(k)
  <2>1. handler[k].pc = "reply" /\ call[k].pc = "wait" /\ UNCHANGED <<handler, shared, faults>>
    BY <1>4 DEF Answered
  <2>2. PICK r : r = [at |-> handler[k].at, state |-> StateOf(handler[k]),
                      offer |-> IF StateOf(handler[k]) = "answered" THEN handler[k].ans
                                ELSE None]
    OBVIOUS
  <2>3. Requests[k] = r /\ r.state = StateOf(handler[k]) /\ r # Exchange!Nothing
    BY <2>1, <2>2 DEF Requests, RequestOf, Exchange!Nothing
  <2>4. CASE handler[k].ans = None
    <3>1. Requests[k].state = "refused" /\ Goto(k, "failed")
      BY <1>4, <2>1, <2>3, <2>4 DEF StateOf, Answered
    <3> QED
      BY <1>0, <2>1, <3>1, CallGivesUp DEF Exchange!Next
  <2>5. CASE handler[k].ans # None
    <3>1. Requests[k].state = "answered" /\ Goto(k, "peers")
      BY <1>4, <2>1, <2>3, <2>5 DEF StateOf, Answered
    <3>2. Callers' = [Callers EXCEPT ![k] = "connected"] /\ Callers[k] = "asking"
      BY <1>0, <2>1, <3>1, CallerMoves, Stages DEF Callers
    <3>3. Exchange!Connects(k)
      BY <2>1, <2>3, <3>1, <3>2, OnlyTheCall
      DEF Exchange!Connects, Exchange!Turns, Requests, Opens, Callers
    <3> QED
      BY <3>3 DEF Exchange!Next
  <2> QED
    BY <2>4, <2>5
<1>5. CASE StoresPeer(k)
  <2>1. Callers' = [Callers EXCEPT ![k] = "connected"] /\ Callers[k] = "connected"
    BY <1>0, <1>5, CallerMoves, Stages DEF StoresPeer, Callers
  <2>2. Callers' = Callers
    BY <2>1 DEF Callers
  <2> QED
    BY <1>5, <2>2, OnlyTheCall DEF StoresPeer, Exchange!vars, Requests, Opens, Callers
<1>6. CASE StoresChannel(k)
  <2>1. Callers' = [Callers EXCEPT ![k] = "over"] /\ Callers[k] = "connected"
    BY <1>0, <1>6, CallerMoves, Stages DEF StoresChannel, Callers
  <2>2. Exchange!Ends(k)
    BY <1>6, <2>1, OnlyTheCall
    DEF StoresChannel, Exchange!Ends, Exchange!Turns, Requests, Opens, Callers
  <2> QED
    BY <2>2 DEF Exchange!Next
<1>7. CASE CallFails(k)
  BY <1>0, <1>7, CallSkips, CallGivesUp DEF CallFails, Exchange!Next
<1>8. CASE Cut(k)
  <2>1. Requests[k] = Exchange!Nothing
    BY <1>8 DEF Cut, Requests, RequestOf, Exchange!Nothing
  <2> QED
    BY <1>0, <1>8, <2>1, CallGivesUp DEF Cut, Exchange!Next
<1> QED
  BY <1>1, <1>2, <1>3, <1>4, <1>5, <1>6, <1>7, <1>8 DEF ConnectPeer

LEMMA VanishesVanishes ==
    ASSUME Inv, NEW n \in Device, Vanishes(n)
    PROVE  Exchange!Vanishes(n)
<1>1. TypeOK /\ faults < MaxFaults /\ faults' = faults + 1
  BY DEF Inv, Vanishes
<1>2. PICK K \in SUBSET Id : \A k \in Id : k \in K <=> InProgress(k) /\ call[k].from = n
  <2>1. {k \in Id : InProgress(k) /\ call[k].from = n} \in SUBSET Id
    OBVIOUS
  <2> QED
    BY <2>1
<1>3. Callers' = [k \in Id |-> IF k \in K THEN "over" ELSE Callers[k]]
  <2>1. ASSUME NEW k \in K
        PROVE  Stage(call'[k].pc) = "over"
    <3>1. call'[k] = [call[k] EXCEPT !.pc = "failed"] /\ call[k] \in Call
      BY <1>1, <1>2 DEF Vanishes, TypeOK
    <3>2. call'[k].pc = "failed"
      BY <3>1 DEF Call
    <3> QED
      BY <3>2, Stages
  <2>2. \A k \in Id \ K : call'[k] = call[k]
    BY <1>2 DEF Vanishes
  <2> QED
    BY <2>1, <2>2 DEF Callers
<1>4. Requests' = [k \in Id |-> IF Requests[k] # Exchange!Nothing /\ Requests[k].at = n
                                THEN Exchange!Nothing ELSE Requests[k]]
  <2>1. ASSUME NEW k \in Id
        PROVE  RequestOf(k)' = IF Requests[k] # Exchange!Nothing /\ Requests[k].at = n
                               THEN Exchange!Nothing ELSE Requests[k]
    <3>1. CASE handler[k].pc = "none"
      <4>1. handler'[k].pc = "none"
        BY <3>1 DEF Vanishes
      <4> QED
        BY <3>1, <4>1 DEF RequestOf, Requests, Exchange!Nothing
    <3>2. CASE handler[k].pc # "none"
      <4>1. PICK r : r = [at |-> handler[k].at, state |-> StateOf(handler[k]),
                          offer |-> IF StateOf(handler[k]) = "answered"
                                    THEN handler[k].ans ELSE None]
        OBVIOUS
      <4>2. Requests[k] = r /\ r.at = handler[k].at /\ r # Exchange!Nothing
        BY <3>2, <4>1 DEF Requests, RequestOf, Exchange!Nothing
      <4>3. CASE handler[k].at = n
        <5>1. handler'[k].pc = "none"
          BY <3>2, <4>3 DEF Vanishes
        <5> QED
          BY <4>2, <4>3, <5>1 DEF RequestOf, Exchange!Nothing
      <4>4. CASE handler[k].at # n
        <5>1. handler'[k] = handler[k]
          BY <4>4 DEF Vanishes
        <5>2. RequestOf(k)' = RequestOf(k)
          BY <5>1 DEF RequestOf, StateOf
        <5> QED
          BY <4>2, <4>4, <5>2 DEF Requests
      <4> QED
        BY <4>3, <4>4
    <3> QED
      BY <3>1, <3>2
  <2> QED
    BY <2>1 DEF Requests
<1>5. Opens' = [Opens EXCEPT ![n] = {}]
  <2>1. shared'[n].sig = "stable" /\ \A t \in Device \ {n} : shared'[t] = shared[t]
    BY <1>1 DEF Vanishes, TypeOK
  <2>2. OpenAt(n)' = {}
    BY <2>1 DEF OpenAt
  <2> QED
    BY <2>1, <2>2, OpenMoves
<1> QED
  BY <1>1, <1>3, <1>4, <1>5
  DEF Exchange!Vanishes, Exchange!Fault, Requests, Opens, Callers

LEMMA ExchangeInit == Init => Exchange!Init
<1> SUFFICES ASSUME Init  PROVE Exchange!Init
  OBVIOUS
<1>1. \A k \in Id : Stage(call[k].pc) = "new" /\ RequestOf(k) = Exchange!Nothing
  BY Stages DEF Init, RequestOf, Exchange!Nothing
<1>2. \A s \in Device : OpenAt(s) = {}
  BY DEF Init, OpenAt
<1> QED
  BY <1>1, <1>2 DEF Init, Exchange!Init

LEMMA ExchangeNext == Inv /\ Untaken /\ [Next]_vars => [Exchange!Next]_(Exchange!vars)
<1> SUFFICES ASSUME Inv, Untaken, [Next]_vars
             PROVE  Exchange!Next \/ UNCHANGED Exchange!vars
  OBVIOUS
<1>0. TypeOK /\ NotPosted
  BY DEF Inv
<1>1. ASSUME UNCHANGED <<handler, shared, faults>>,
             \A k \in Id : Stage(call'[k].pc) = Stage(call[k].pc)
      PROVE  UNCHANGED Exchange!vars
  BY <1>1, OnlyTheCall, CallersStay DEF Exchange!vars, Requests, Opens, Callers
<1>2. CASE UNCHANGED vars
  BY <1>1, <1>2 DEF vars
<1>3. ASSUME NEW n \in Device, NEW m \in Device, Resolved(n, m)
      PROVE  UNCHANGED Exchange!vars
  BY <1>1, <1>3 DEF Resolved
<1>4. ASSUME NEW n \in Device, Starts(n)
      PROVE  UNCHANGED Exchange!vars
  <2>1. PICK i \in Id : i = started + 1 /\ i > started
    BY <1>0, <1>4, TransportAssumption DEF Starts, TypeOK, Id
  <2>2. PICK x : x = [pc |-> "check", from |-> n, to |-> Head(found[n])]
    OBVIOUS
  <2>3. x.pc = "check" /\ call[i].pc = "idle"
    BY <1>0, <2>1, <2>2 DEF NotPosted
  <2>4. call' = [call EXCEPT ![i] = x] /\ UNCHANGED <<handler, shared, faults>>
    BY <1>4, <2>1, <2>2 DEF Starts
  <2>5. call'[i] = x /\ \A k \in Id \ {i} : call'[k] = call[k]
    BY <1>0, <2>4 DEF TypeOK
  <2> QED
    BY <1>1, <2>3, <2>4, <2>5, Stages
<1>5. ASSUME NEW n \in Device, Vanishes(n)
      PROVE  Exchange!Next
  BY <1>5, VanishesVanishes DEF Exchange!Next
<1>6. ASSUME NEW k \in Id, HandleOffer(k)
      PROVE  Exchange!Next \/ UNCHANGED Exchange!vars
  BY <1>6, OfferIsTakenOrRefused, AnswerIsCreated, AnswerIsGiven
  DEF HandleOffer, Exchange!Next
<1>7. ASSUME NEW k \in Id, HandlerFails(k) \/ HandlerDropped(k)
      PROVE  Exchange!Next
  BY <1>7, HandlerFailsFails, HandlerDroppedDrops DEF Exchange!Next
<1> QED
  BY <1>2, <1>3, <1>4, <1>5, <1>6, <1>7, CallStep DEF Next, Fault

\* handle_offer's three awaits on the connection all handlers share act as one
\* critical section: an offer is opened, answered to its own call and closed
\* before the next, others are refused meanwhile, whatever fails or vanishes.
THEOREM TransportImplementsExchange == Spec => ImplementsExchange
<1>1. Spec => Exchange!Init /\ [][Exchange!Next]_(Exchange!vars)
  BY ExchangeInit, ExchangeNext, UntakenInvariance, PTL DEF Spec
<1> QED
  BY <1>1 DEF ImplementsExchange, Exchange!Spec
=============================================================================
