-------------------------- MODULE SyncEngineProofs --------------------------
(***************************************************************************)
(* Type correctness of SyncEngine, one lemma per group of actions, after   *)
(* lemmas on what a call holds at each of its awaits; then its first       *)
(* invariant about vectors, KnowledgeBacked.                               *)
(***************************************************************************)
EXTENDS SyncEngine, VersionVectorProofs, FiniteSetTheorems

-----------------------------------------------------------------------------
(* The locals of a call, at each of its awaits, and what is taken off a      *)
(* queue.                                                                    *)

LEMMA EventLocals ==
    ASSUME TypeOK, NEW d \in Device
    PROVE  /\ ev[d].pc \in {"bump", "save", "peers", "enqueue"} => ev[d].path \in Path
           /\ ev[d].pc \in {"bump", "save"} => ev[d].content \in Nat
           /\ ev[d].pc = "save" => ev[d].vec \in Vector
           /\ ev[d].pc \in {"peers", "enqueue"} => ev[d].kind \in {"upload", "delete"}
           /\ ev[d].pc = "enqueue" => ev[d].to \in SUBSET Device
<1>1. ev[d] \in EventCall
  BY DEF TypeOK
<1> QED
  BY <1>1 DEF EventCall

LEMMA UploadLocals ==
    ASSUME TypeOK, NEW d \in Device
    PROVE  /\ up[d].pc \in {"read", "look", "send"} => up[d].to \in Device
           /\ up[d].pc \in {"read", "look"} => up[d].path \in Path
           /\ up[d].pc = "look" => up[d].content \in Nat
           /\ up[d].pc = "send" => up[d].msg \in Message
<1>1. up[d] \in UploadCall
  BY DEF TypeOK
<1> QED
  BY <1>1 DEF UploadCall

LEMMA ReceiveLocals ==
    ASSUME TypeOK, NEW d \in Device
    PROVE  /\ rx[d].pc \in {"write", "merge"} =>
                rx[d].from \in Device /\ rx[d].msg \in FileMsg
           /\ rx[d].pc = "save" =>
                /\ rx[d].path \in Path /\ rx[d].content \in Nat
                /\ rx[d].vec \in Vector
<1>1. rx[d] \in ReceiveCall
  BY DEF TypeOK
<1> QED
  BY <1>1 DEF ReceiveCall

LEMMA MessageFields ==
    ASSUME NEW m \in Message
    PROVE  /\ m.path \in Path
           /\ m.kind = "metadata" => m \in FileMsg
           /\ m.kind = "metadata" => m.content \in Nat /\ m.vec \in Vector
  BY DEF Message, FileMsg, DeleteMsg

LEMMA SequenceParts ==
    ASSUME NEW S, NEW s \in Seq(S), s # <<>>
    PROVE  /\ Head(s) \in S /\ Tail(s) \in Seq(S)
           /\ Head(s) = s[1] /\ 1 \in DOMAIN s
           /\ \A i \in DOMAIN Tail(s) : i + 1 \in DOMAIN s /\ Tail(s)[i] = s[i + 1]
  OBVIOUS

LEMMA LostNewsType ==
    ASSUME NEW d \in Device, NEW e \in Device, NEW m, m.path \in Path
    PROVE  LostNews(d, e, m) \subseteq Device \X Device \X Path
  BY DEF LostNews

-----------------------------------------------------------------------------
(* Types *)

LEMMA TypeInit == Init => TypeOK
  BY NoVectorType
  DEF Init, TypeOK, Missing, NoMeta, Idle, EventCall, UploadCall, ReceiveCall

LEMMA FaultTypes ==
    ASSUME TypeOK, Fault \/ UNCHANGED lifeVars
    PROVE  faults' \in Nat /\ UNCHANGED sessionVars
BY DEF Fault, lifeVars, TypeOK

LEMMA EventTaken ==
    ASSUME TypeOK, NEW d \in Device, NEW kind, Takes(d, kind)
    PROVE  Head(evq[d]) \in FileEvent /\ evq' \in [Device -> Seq(FileEvent)]
<1>1. Head(evq[d]) \in FileEvent /\ Tail(evq[d]) \in Seq(FileEvent)
  BY SequenceParts DEF Takes, TypeOK
<1> QED
  BY <1>1 DEF Takes, TypeOK

LEMMA TypeEvents ==
    ASSUME TypeOK, NEW d \in Device, HandleFileEvent(d)
    PROVE  TypeOK'
<1> USE DEF fileVars, engineVars, netVars, sessionVars, lifeVars, ghostVars
<1>1. CASE EventRead(d)
  <2>1. Head(evq[d]) \in FileEvent /\ evq' \in [Device -> Seq(FileEvent)]
    BY <1>1, EventTaken DEF EventRead
  <2>2. Head(evq[d]).path \in Path
    BY <2>1 DEF FileEvent
  <2>3. [pc |-> "bump", path |-> Head(evq[d]).path,
         content |-> disk[d][Head(evq[d]).path]] \in EventCall
    BY <2>2 DEF TypeOK, EventCall
  <2>4. ev' \in [Device -> EventCall] /\ missed' \in [Device -> SUBSET Path]
    BY <1>1, <2>3 DEF EventRead, TypeOK
  <2> QED
    BY <1>1, <2>1, <2>4 DEF EventRead, TypeOK
<1>2. CASE EventDeleted(d)
  <2>1. Head(evq[d]) \in FileEvent /\ evq' \in [Device -> Seq(FileEvent)]
    BY <1>2, EventTaken DEF EventDeleted
  <2>2. [pc |-> "peers", kind |-> "delete", path |-> Head(evq[d]).path] \in EventCall
    BY <2>1 DEF FileEvent, EventCall
  <2> QED
    BY <1>2, <2>1, <2>2 DEF EventDeleted, TypeOK
<1>3. CASE EventBump(d)
  <2>1. ev[d].path \in Path /\ ev[d].content \in Nat
    BY <1>3, EventLocals DEF EventBump
  <2>2. Stepped(d, ev[d].path) \in Vector
    BY <2>1, OrNewType, IncrementType DEF Stepped, TypeOK
  <2>3. [pc |-> "save", path |-> ev[d].path, content |-> ev[d].content,
         vec |-> Stepped(d, ev[d].path)] \in EventCall
    BY <2>1, <2>2 DEF EventCall
  <2>4. vv' \in [Device -> [Path -> Vector]]
    BY <1>3, <2>1, <2>2 DEF EventBump, TypeOK
  <2> QED
    BY <1>3, <2>3, <2>4 DEF EventBump, TypeOK
<1>4. CASE EventSave(d)
  <2>1. [hash |-> ev[d].content, vec |-> ev[d].vec] \in [hash : Nat, vec : Vector]
    BY <1>4, EventLocals DEF EventSave
  <2>2. [pc |-> "peers", kind |-> "upload", path |-> ev[d].path] \in EventCall
    BY <1>4, EventLocals DEF EventSave, EventCall
  <2> QED
    BY <1>4, <2>1, <2>2 DEF EventSave, SaveFileMeta, TypeOK
<1>5. CASE EventPeers(d)
  <2>1. [pc |-> "enqueue", kind |-> ev[d].kind, path |-> ev[d].path,
         to |-> Peers(d)] \in EventCall
    BY <1>5, EventLocals DEF EventPeers, Peers, EventCall
  <2> QED
    BY <1>5, <2>1 DEF EventPeers, TypeOK
<1>6. CASE EventEnqueue(d)
  <2>1. /\ ev[d].kind \in {"upload", "delete"}
        /\ ev[d].path \in Path /\ ev[d].to \in SUBSET Device
    BY <1>6, EventLocals DEF EventEnqueue
  <2>2. queue' \in [Device -> Seq(Task)]
    <3>1. PICK order \in SetToSeqs(ev[d].to) :
             queue' = [queue EXCEPT ![d] = @ \o
               [i \in DOMAIN order |-> [kind |-> ev[d].kind, to |-> order[i],
                                        path |-> ev[d].path]]]
      BY <1>6 DEF EventEnqueue
    <3>2. order \in [1 .. Cardinality(ev[d].to) -> ev[d].to]
      BY <3>1 DEF SetToSeqs
    <3>3. Cardinality(ev[d].to) \in Nat
      BY <2>1, SyncEngineAssumption, FS_Subset, FS_CardinalityType
    <3>4. [i \in DOMAIN order |-> [kind |-> ev[d].kind, to |-> order[i],
                                   path |-> ev[d].path]]
             \in [1 .. Cardinality(ev[d].to) -> Task]
      BY <2>1, <3>2 DEF Task
    <3>5. [i \in DOMAIN order |-> [kind |-> ev[d].kind, to |-> order[i],
                                   path |-> ev[d].path]] \in Seq(Task)
      BY <3>3, <3>4
    <3> QED
      BY <3>1, <3>5 DEF TypeOK
  <2>3. owed' \in [Device -> [Device -> [Path -> Nat]]]
    <3>1. Get(vv[d][ev[d].path], d) \in Nat
      BY <2>1, GetType DEF TypeOK
    <3> DEFINE o == [e \in Device |-> IF e \in ev[d].to
                       THEN [owed[d][e] EXCEPT ![ev[d].path] =
                               Get(vv[d][ev[d].path], d)]
                       ELSE owed[d][e]]
    <3>2. o \in [Device -> [Path -> Nat]]
      <4>1. \A e \in Device : owed[d][e] \in [Path -> Nat]
        BY DEF TypeOK
      <4> QED
        BY <2>1, <3>1, <4>1
    <3>3. owed' = owed \/ owed' = [owed EXCEPT ![d] = o]
      BY <1>6 DEF EventEnqueue
    <3> QED
      BY <3>2, <3>3 DEF TypeOK
  <2>4. dropped' \subseteq Device \X Device \X Path
    BY <1>6 DEF EventEnqueue, TypeOK
  <2>5. ev' \in [Device -> EventCall]
    BY <1>6 DEF EventEnqueue, TypeOK, Idle, EventCall
  <2> QED
    BY <1>6, <2>2, <2>3, <2>4, <2>5 DEF EventEnqueue, TypeOK
<1>7. CASE EventReadFails(d)
  <2>1. Head(evq[d]) \in FileEvent /\ evq' \in [Device -> Seq(FileEvent)]
    BY <1>7, EventTaken DEF EventReadFails
  <2>2. Head(evq[d]).path \in Path
    BY <2>1 DEF FileEvent
  <2>3. missed' \in [Device -> SUBSET Path]
    <3>1. \/ missed' = missed
          \/ missed' = [missed EXCEPT ![d] = @ \cup {Head(evq[d]).path}]
      BY <1>7 DEF EventReadFails
    <3>2. missed \in [Device -> SUBSET Path]
      BY DEF TypeOK
    <3> QED
      BY <2>2, <3>1, <3>2
  <2>4. faults' \in Nat /\ UNCHANGED sessionVars
    BY <1>7, FaultTypes DEF EventReadFails
  <2> QED
    BY <1>7, <2>1, <2>3, <2>4 DEF EventReadFails, TypeOK
<1> QED
  BY <1>1, <1>2, <1>3, <1>4, <1>5, <1>6, <1>7 DEF HandleFileEvent

LEMMA TypeUploads ==
    ASSUME TypeOK, NEW d \in Device, ProcessQueue(d)
    PROVE  TypeOK'
<1> USE DEF fileVars, engineVars, netVars, sessionVars, lifeVars, ghostVars
<1>1. CASE UploadNext(d)
  <2>1. Head(queue[d]) \in Task /\ Tail(queue[d]) \in Seq(Task)
    BY <1>1, SequenceParts DEF UploadNext, TypeOK
  <2>2. queue' \in [Device -> Seq(Task)]
    BY <1>1, <2>1 DEF UploadNext, TypeOK
  <2>3. up' \in [Device -> UploadCall]
    BY <1>1, <2>1 DEF UploadNext, TypeOK, Task, UploadCall, Message,
       DeleteMsg, DeleteOf
  <2> QED
    BY <1>1, <2>2, <2>3 DEF UploadNext, TypeOK
<1>2. CASE UploadDone(d)
  BY <1>2 DEF UploadDone, TypeOK, UploadCall, Idle
<1>3. CASE UploadRead(d)
  <2>0. up[d].to \in Device /\ up[d].path \in Path
    BY <1>3, UploadLocals DEF UploadRead
  <2>1. [pc |-> "look", to |-> up[d].to, path |-> up[d].path,
         content |-> disk[d][up[d].path]] \in UploadCall
    BY <2>0 DEF UploadCall, TypeOK
  <2> QED
    BY <1>3, <2>1 DEF UploadRead, TypeOK
<1>4. CASE UploadReadFails(d)
  <2>1. <<d, up[d].to, up[d].path>> \in Device \X Device \X Path
    BY <1>4, UploadLocals DEF UploadReadFails
  <2>2. faults' \in Nat /\ UNCHANGED sessionVars
    BY <1>4, FaultTypes DEF UploadReadFails
  <2>3. up' \in [Device -> UploadCall]
    BY <1>4 DEF UploadReadFails, TypeOK, UploadCall, Idle
  <2> QED
    BY <1>4, <2>1, <2>2, <2>3 DEF UploadReadFails, TypeOK
<1>5. CASE UploadLook(d)
  <2> DEFINE m == [kind |-> "metadata", path |-> up[d].path,
                   content |-> up[d].content, vec |-> vv[d][up[d].path],
                   key |-> key[d]]
  <2>1. up[d].path \in Path /\ up[d].to \in Device /\ up[d].content \in Nat
    BY <1>5, UploadLocals DEF UploadLook
  <2>2. m \in Message
    BY <2>1 DEF TypeOK, Message, FileMsg
  <2>3. [pc |-> "send", to |-> up[d].to, msg |-> m] \in UploadCall
    BY <2>1, <2>2 DEF UploadCall
  <2>4. [pc |-> "next"] \in UploadCall
    BY DEF UploadCall
  <2> QED
    BY <1>5, <2>3, <2>4 DEF UploadLook, TypeOK
<1>6. CASE UploadSend(d)
  <2>1. up[d].to \in Device /\ up[d].msg \in Message
    BY <1>6, UploadLocals DEF UploadSend
  <2>2. Sent(d) \in Seq(Message)
    BY <2>1 DEF Sent, TypeOK
  <2>3. chan' \in [Device -> [Device -> Seq(Message)]]
    BY <1>6, <2>1, <2>2 DEF UploadSend, TypeOK
  <2> QED
    BY <1>6, <2>3 DEF UploadSend, TypeOK, UploadCall
<1>7. CASE UploadSendFails(d)
  <2>1. up[d].to \in Device /\ up[d].msg.path \in Path
    BY <1>7, UploadLocals, MessageFields DEF UploadSendFails
  <2>2. dropped' \subseteq Device \X Device \X Path
    <3>1. <<d, up[d].to, up[d].msg.path>> \in Device \X Device \X Path
      BY <2>1
    <3>2. \/ dropped' = dropped
          \/ dropped' = dropped \cup {<<d, up[d].to, up[d].msg.path>>}
      BY <1>7 DEF UploadSendFails
    <3> QED
      BY <3>1, <3>2 DEF TypeOK
  <2>3. up' \in [Device -> UploadCall]
    BY <1>7 DEF UploadSendFails, TypeOK, UploadCall, Idle
  <2>4. faults' \in Nat /\ UNCHANGED sessionVars
    BY <1>7, FaultTypes DEF UploadSendFails
  <2> QED
    BY <1>7, <2>2, <2>3, <2>4 DEF UploadSendFails, TypeOK
<1> QED
  BY <1>1, <1>2, <1>3, <1>4, <1>5, <1>6, <1>7 DEF ProcessQueue

\* Taking the next message off a channel.
LEMMA ArrivalTypes ==
    ASSUME TypeOK, NEW d \in Device, NEW e \in Device, chan[e][d] # <<>>
    PROVE  /\ Head(chan[e][d]) \in Message
           /\ LostNews(d, e, Head(chan[e][d])) \subseteq Device \X Device \X Path
           /\ [chan EXCEPT ![e][d] = Tail(@)] \in [Device -> [Device -> Seq(Message)]]
<1>1. chan[e][d] \in Seq(Message)
  BY DEF TypeOK
<1>2. Head(chan[e][d]) \in Message /\ Tail(chan[e][d]) \in Seq(Message)
  BY <1>1, SequenceParts
<1> QED
  BY <1>2, MessageFields, LostNewsType DEF TypeOK

LEMMA TypeReceives ==
    ASSUME TypeOK, NEW d \in Device, ReceiveFile(d)
    PROVE  TypeOK'
<1> USE DEF fileVars, engineVars, netVars, sessionVars, lifeVars, ghostVars
<1>1. ASSUME NEW e \in Device, ReceiveRejects(d, e)
      PROVE  TypeOK'
  BY <1>1, ArrivalTypes DEF ReceiveRejects, Arrives, TypeOK
<1>2. ASSUME NEW e \in Device, ReceiveConflict(d, e)
      PROVE  TypeOK'
  BY <1>2, ArrivalTypes DEF ReceiveConflict, Arrives, TypeOK
<1>3. ASSUME NEW e \in Device, ReceiveUndecryptable(d, e)
      PROVE  TypeOK'
  BY <1>3, ArrivalTypes DEF ReceiveUndecryptable, Arrives, TypeOK
<1>4. ASSUME NEW e \in Device, ReceiveAccepts(d, e)
      PROVE  TypeOK'
  <2>1. [pc |-> "write", from |-> e, msg |-> Head(chan[e][d])] \in ReceiveCall
    BY <1>4, ArrivalTypes, MessageFields DEF ReceiveAccepts, Arrives, ReceiveCall
  <2> QED
    BY <1>4, <2>1, ArrivalTypes DEF ReceiveAccepts, Arrives, TypeOK
<1>5. CASE ReceiveWrite(d)
  <2>1. rx[d].msg.path \in Path /\ rx[d].msg.content \in Nat
    BY <1>5, ReceiveLocals DEF ReceiveWrite, FileMsg
  <2>2. [rx[d] EXCEPT !.pc = "merge"] \in ReceiveCall
    <3>1. rx[d] \in [pc : {"write", "merge"}, from : Device, msg : FileMsg]
      BY <1>5 DEF ReceiveWrite, TypeOK, ReceiveCall
    <3> QED
      BY <3>1 DEF ReceiveCall
  <2>3. rx' \in [Device -> ReceiveCall]
    BY <1>5, <2>2 DEF ReceiveWrite, TypeOK
  <2>4. disk' \in [Device -> [Path -> Nat]] /\ dirty' \in [Device -> SUBSET Path]
    BY <1>5, <2>1 DEF ReceiveWrite, TypeOK
  <2> QED
    BY <1>5, <2>3, <2>4 DEF ReceiveWrite, TypeOK
<1>6. CASE ReceiveMerge(d)
  <2>1. rx[d].msg.path \in Path /\ rx[d].msg.content \in Nat /\ rx[d].msg.vec \in Vector
    BY <1>6, ReceiveLocals DEF ReceiveMerge, FileMsg
  <2>2. Merged(d, rx[d].msg) \in Vector
    BY <2>1, OrNewType, MergeType DEF Merged, TypeOK
  <2>3. vv' \in [Device -> [Path -> Vector]]
    BY <1>6, <2>1, <2>2 DEF ReceiveMerge, TypeOK
  <2>4. [pc |-> "save", path |-> rx[d].msg.path, content |-> rx[d].msg.content,
         vec |-> Merged(d, rx[d].msg)] \in ReceiveCall
    BY <2>1, <2>2 DEF ReceiveCall
  <2> QED
    BY <1>6, <2>3, <2>4 DEF ReceiveMerge, TypeOK
<1>7. CASE ReceiveSave(d)
  <2>1. [hash |-> rx[d].content, vec |-> rx[d].vec] \in [hash : Nat, vec : Vector]
    BY <1>7, ReceiveLocals DEF ReceiveSave
  <2> QED
    BY <1>7, <2>1, ReceiveLocals
    DEF ReceiveSave, SaveFileMeta, TypeOK, ReceiveCall, Idle
<1> QED
  BY <1>1, <1>2, <1>3, <1>4, <1>5, <1>6, <1>7 DEF ReceiveFile

LEMMA TypeRest ==
    ASSUME TypeOK, NEW d \in Device,
           Watch(d) \/ BlocksOnGuard(d) \/ Environment(d)
    PROVE  TypeOK'
<1> USE DEF fileVars, engineVars, netVars, sessionVars, lifeVars, ghostVars
<1>1. ASSUME NEW p \in Path, NEW kind \in {"modified", "deleted"},
             Forward(d, kind, p)
      PROVE  TypeOK'
  <2>1. [kind |-> kind, path |-> p] \in FileEvent
    BY DEF FileEvent
  <2>2. evq' \in [Device -> Seq(FileEvent)]
    BY <1>1, <2>1 DEF Forward, TypeOK
  <2>3. dirty' \in [Device -> SUBSET Path]
    BY <1>1 DEF Forward, TypeOK
  <2> QED
    BY <1>1, <2>2, <2>3 DEF Forward, TypeOK
<1>f. Fault => faults' \in Nat
  BY DEF Fault, TypeOK
<1>2. CASE BlocksOnGuard(d)
  BY <1>2 DEF BlocksOnGuard, TypeOK
<1>3. ASSUME NEW p \in Path, UserChanges(d, p)
      PROVE  TypeOK'
  <2>1. edits' \in Nat /\ edits + 1 \in Nat /\ Missing \in Nat
    BY <1>3 DEF UserChanges, TypeOK, Missing
  <2>2. PICK content \in {edits + 1, Missing} :
           disk' = [disk EXCEPT ![d][p] = content]
    BY <1>3 DEF UserChanges
  <2>3. disk' \in [Device -> [Path -> Nat]]
    BY <2>1, <2>2 DEF TypeOK
  <2>4. dirty' \in [Device -> SUBSET Path]
    BY <1>3 DEF UserChanges, TypeOK
  <2> QED
    BY <1>3, <2>1, <2>3, <2>4 DEF UserChanges, TypeOK
<1>4. CASE EventSaveFails(d)
  <2>1. GivenUp(d, ev[d].path) \subseteq Device \X Device \X Path
    BY <1>4, EventLocals DEF EventSaveFails, GivenUp
  <2>2. dropped' \subseteq Device \X Device \X Path
    BY <1>4, <2>1 DEF EventSaveFails, TypeOK
  <2>3. ev' \in [Device -> EventCall]
    BY <1>4 DEF EventSaveFails, TypeOK, EventCall, Idle
  <2> QED
    BY <1>4, <1>f, <2>2, <2>3 DEF EventSaveFails, Fault, TypeOK
<1>5. CASE ReceiveWriteFails(d)
  <2>1. LostNews(d, rx[d].from, rx[d].msg) \subseteq Device \X Device \X Path
    BY <1>5, ReceiveLocals, LostNewsType DEF ReceiveWriteFails, FileMsg
  <2>2. rx[d].msg.path \in Path /\ Torn \in Nat
    BY <1>5, ReceiveLocals, SyncEngineAssumption DEF ReceiveWriteFails, FileMsg, Torn
  <2>3. disk' \in [Device -> [Path -> Nat]] /\ dirty' \in [Device -> SUBSET Path]
    <3>1. \/ disk' = disk /\ dirty' = dirty
          \/ /\ disk' = [disk EXCEPT ![d][rx[d].msg.path] = Torn]
             /\ dirty' = [dirty EXCEPT ![d] = @ \cup {rx[d].msg.path}]
      BY <1>5 DEF ReceiveWriteFails
    <3>2. disk \in [Device -> [Path -> Nat]] /\ dirty \in [Device -> SUBSET Path]
      BY DEF TypeOK
    <3>3. CASE disk' = disk /\ dirty' = dirty
      BY <3>2, <3>3
    <3>4. CASE /\ disk' = [disk EXCEPT ![d][rx[d].msg.path] = Torn]
               /\ dirty' = [dirty EXCEPT ![d] = @ \cup {rx[d].msg.path}]
      BY <2>2, <3>2, <3>4
    <3> QED
      BY <3>1, <3>3, <3>4
  <2>4. rx' \in [Device -> ReceiveCall] /\ dropped' \subseteq Device \X Device \X Path
    BY <1>5, <2>1 DEF ReceiveWriteFails, TypeOK, ReceiveCall, Idle
  <2> QED
    BY <1>5, <1>f, <2>3, <2>4 DEF ReceiveWriteFails, Fault, TypeOK
<1>6. CASE ReceiveSaveFails(d)
  <2>1. <<d, d, rx[d].path>> \in Device \X Device \X Path
    BY <1>6, ReceiveLocals DEF ReceiveSaveFails
  <2> QED
    BY <1>6, <2>1, <1>f DEF ReceiveSaveFails, Fault, TypeOK, ReceiveCall, Idle
<1>7. ASSUME NEW e \in Device, PeerStored(d, e) \/ ChannelStored(d, e)
      PROVE  TypeOK'
  <2>1. PICK s \in {"stored", "open"} : link' = [link EXCEPT ![d][e] = s]
    BY <1>7 DEF PeerStored, ChannelStored
  <2>2. link' \in [Device -> [Device -> {"none", "stored", "open", "closed"}]]
    BY <2>1 DEF TypeOK
  <2>3. UNCHANGED <<fileVars, engineVars, ev, up, rx, chan, lifeVars, ghostVars>>
    BY <1>7 DEF PeerStored, ChannelStored
  <2> QED
    BY <2>2, <2>3 DEF TypeOK
<1>8. ASSUME NEW e \in Device, ChannelCloses(d, e)
      PROVE  TypeOK'
  <2>1. link' \in [Device -> [Device -> {"none", "stored", "open", "closed"}]]
    BY <1>8 DEF ChannelCloses, TypeOK
  <2> QED
    BY <1>8, <2>1, <1>f DEF ChannelCloses, Fault, TypeOK
<1>9. ASSUME NEW e \in Device, ReceiverLags(d, e)
      PROVE  TypeOK'
  <2>1. dropped' \subseteq Device \X Device \X Path
    BY <1>9, ArrivalTypes DEF ReceiverLags, TypeOK
  <2>2. chan' \in [Device -> [Device -> Seq(Message)]]
    BY <1>9, ArrivalTypes DEF ReceiverLags
  <2> QED
    BY <1>9, <2>1, <2>2, <1>f DEF ReceiverLags, Fault, TypeOK
<1>10. ASSUME DropEngine(d), running' \in [Device -> BOOLEAN],
              key' \in [Device -> Password]
       PROVE  TypeOK'
  <2>1. vv' \in [Device -> [Path -> Vector]]
    BY <1>10, NoVectorType DEF DropEngine, NewVectors, TypeOK
  <2>2. dropped' \subseteq Device \X Device \X Path
    <3>1. queue[d] \in Seq(Task)
      BY DEF TypeOK
    <3>2. \A t \in Range(queue[d]) : t \in Task
      BY <3>1 DEF Range
    <3> QED
      BY <1>10, <3>2 DEF DropEngine, TypeOK, Task
  <2>3. owed' \in [Device -> [Device -> [Path -> Nat]]]
    BY <1>10 DEF DropEngine, TypeOK
  <2>4. queue' \in [Device -> Seq(Task)] /\ resets' \in Nat
    BY <1>10 DEF DropEngine, NewQueue, TypeOK
  <2> QED
    BY <1>10, <2>1, <2>2, <2>3, <2>4 DEF DropEngine, TypeOK
<1>11. CASE StopSync(d)
  BY <1>10, <1>11 DEF StopSync, TypeOK
<1>12. CASE ReplaceEngine(d)
  <2>1. PICK k \in Password : key' = [key EXCEPT ![d] = k]
    BY <1>12 DEF ReplaceEngine
  <2>2. key' \in [Device -> Password]
    BY <2>1 DEF TypeOK
  <2> QED
    BY <1>10, <1>12, <2>2 DEF ReplaceEngine, TypeOK
<1>13. CASE StartSync(d)
  BY <1>13 DEF StartSync, TypeOK
<1>14. ASSUME NEW p \in Path, WatchFails(d, p)
       PROVE  TypeOK'
  <2>1. dirty' \in [Device -> SUBSET Path] /\ missed' \in [Device -> SUBSET Path]
    BY <1>14 DEF WatchFails, TypeOK
  <2> QED
    BY <1>14, <1>f, <2>1 DEF WatchFails, Fault, TypeOK
<1> QED
  BY <1>1, <1>2, <1>3, <1>4, <1>5, <1>6, <1>7, <1>8, <1>9, <1>11, <1>12, <1>13,
     <1>14
  DEF Watch, WatcherReports, DeleteReported, Environment

LEMMA TypeNext == TypeOK /\ [Next]_vars => TypeOK'
<1> SUFFICES ASSUME TypeOK, [Next]_vars PROVE TypeOK'
  OBVIOUS
<1>1. CASE UNCHANGED vars
  BY <1>1 DEF vars, fileVars, engineVars, netVars, sessionVars, lifeVars,
              ghostVars, TypeOK
<1> QED
  BY <1>1, TypeEvents, TypeUploads, TypeReceives, TypeRest DEF Next

\* Every reachable state is well typed: each call holds the locals of the await
\* it is at, every message and row a vector of the known devices.
THEOREM TypeCorrect == Spec => []TypeOK
  BY TypeInit, TypeNext, PTL DEF Spec

-----------------------------------------------------------------------------
(* Nobody knows of a version its maker did not count: KnowledgeBacked.     *)
(*                                                                         *)
(* With TypeOK the invariant is inductive.  Most steps move a vector from  *)
(* one place to another while the maps in memory stay: what was backed     *)
(* stays backed.  Two steps change a map, the increment of an event and    *)
(* the merge of a message.  Both leave every device's own counter where it *)
(* is or raise it (a merge raises no own counter just because the message  *)
(* was backed), and the vector they produce is backed again.               *)

\* What is backed stays backed while every own counter of the path stands or
\* grows.
LEMMA BackedStays ==
    ASSUME NEW w, NEW w2, NEW p, NEW v \in Vector,
           \A x \in Device : w[x][p] \in Vector /\ w2[x][p] \in Vector,
           \A x \in Device : Get(w[x][p], x) <= Get(w2[x][p], x),
           Backed(w, p, v)
    PROVE  Backed(w2, p, v)
<1>1. ASSUME NEW x \in Device PROVE Get(v, x) <= Get(w2[x][p], x)
  <2>1. Get(v, x) \in Nat /\ Get(w[x][p], x) \in Nat /\ Get(w2[x][p], x) \in Nat
    BY GetType
  <2>2. Get(v, x) <= Get(w[x][p], x) /\ Get(w[x][p], x) <= Get(w2[x][p], x)
    BY DEF Backed
  <2> QED
    BY <2>1, <2>2
<1> QED
  BY <1>1 DEF Backed

-----------------------------------------------------------------------------
(* Steps that change no map in memory.                                     *)

\* The event calls.
LEMMA EventsKeepBacked ==
    ASSUME TypeOK, AllBacked, NEW d \in Device,
           \/ EventRead(d) \/ EventReadFails(d) \/ EventDeleted(d) \/ EventSave(d)
           \/ EventSaveFails(d) \/ EventPeers(d) \/ EventEnqueue(d)
    PROVE  AllBacked'
<1> USE DEF fileVars, engineVars, netVars, sessionVars, lifeVars, ghostVars
<1>1. vv' = vv /\ up' = up /\ rx' = rx /\ chan' = chan
  BY DEF EventRead, EventReadFails, Takes, EventDeleted, EventSave, EventSaveFails,
     EventPeers, EventEnqueue, Fault
<1>2. VectorsBacked' /\ MessagesBacked'
  BY <1>1 DEF AllBacked, VectorsBacked, MessagesBacked, ChannelBacked
<1>3. RowsBacked'
  <2>1. CASE meta' = meta
    BY <1>1, <2>1 DEF AllBacked, RowsBacked
  <2>2. CASE EventSave(d)
    <3>1. ev[d].path \in Path /\ Backed(vv, ev[d].path, ev[d].vec)
      BY <2>2, EventLocals DEF EventSave, AllBacked, CallsBacked, CallBacked
    <3>2. meta' = [meta EXCEPT ![d][ev[d].path] = [hash |-> ev[d].content,
                                                   vec |-> ev[d].vec]]
      BY <2>2 DEF EventSave, SaveFileMeta
    <3>3. ASSUME NEW x \in Device, NEW q \in Path
          PROVE  \/ meta'[x][q] = meta[x][q]
                 \/ q = ev[d].path /\ meta'[x][q].vec = ev[d].vec
      BY <3>1, <3>2 DEF TypeOK
    <3> QED
      BY <1>1, <3>1, <3>3 DEF AllBacked, RowsBacked
  <2> QED
    BY <2>1, <2>2 DEF EventRead, EventReadFails, Takes, EventDeleted,
       EventSaveFails, EventPeers, EventEnqueue
<1>4. CallsBacked'
  <2>1. ev'[d].pc # "save"
    BY DEF EventRead, EventReadFails, Takes, EventDeleted, EventSave,
       EventSaveFails, EventPeers, EventEnqueue, TypeOK, Idle
  <2>2. \A x \in Device : x # d => ev'[x] = ev[x]
    BY DEF EventRead, EventReadFails, Takes, EventDeleted, EventSave,
       EventSaveFails, EventPeers, EventEnqueue, TypeOK
  <2> QED
    BY <1>1, <2>1, <2>2 DEF AllBacked, CallsBacked, CallBacked
<1> QED
  BY <1>2, <1>3, <1>4 DEF AllBacked

\* The upload calls.
LEMMA UploadsKeepBacked ==
    ASSUME TypeOK, AllBacked, NEW d \in Device, ProcessQueue(d)
    PROVE  AllBacked'
<1> USE DEF fileVars, engineVars, netVars, sessionVars, lifeVars, ghostVars
<1>1. vv' = vv /\ meta' = meta /\ ev' = ev /\ rx' = rx
  BY DEF ProcessQueue, UploadNext, UploadDone, UploadRead, UploadReadFails,
         UploadLook, UploadSend, UploadSendFails
<1>2. VectorsBacked' /\ RowsBacked'
  BY <1>1 DEF AllBacked, VectorsBacked, RowsBacked
<1>3. \A x \in Device : x # d => up'[x] = up[x]
  BY DEF ProcessQueue, UploadNext, UploadDone, UploadRead, UploadReadFails,
         UploadLook, UploadSend, UploadSendFails, TypeOK
<1>4. up'[d].pc = "send" /\ up'[d].msg.kind = "metadata" =>
         Backed(vv, up'[d].msg.path, up'[d].msg.vec)
  <2>1. CASE UploadLook(d)
    <3>1. up[d].path \in Path
      BY <2>1, UploadLocals DEF UploadLook
    <3>2. \/ up'[d] = [pc |-> "next"]
          \/ /\ up'[d].msg.path = up[d].path
             /\ up'[d].msg.vec = vv[d][up[d].path]
      BY <2>1 DEF UploadLook, TypeOK
    <3> QED
      BY <3>1, <3>2 DEF AllBacked, VectorsBacked
  <2>2. CASE UploadNext(d)
    BY <2>2 DEF UploadNext, DeleteOf, TypeOK
  <2> QED
    BY <2>1, <2>2 DEF ProcessQueue, UploadDone, UploadRead, UploadReadFails,
                      UploadSend, UploadSendFails, TypeOK, Idle
<1>5. CallsBacked'
  BY <1>1, <1>3, <1>4 DEF AllBacked, CallsBacked, CallBacked
<1>6. MessagesBacked'
  <2>1. CASE chan' = chan
    BY <1>1, <2>1 DEF AllBacked, MessagesBacked, ChannelBacked
  <2>2. CASE UploadSend(d)
    <3> DEFINE to == up[d].to
               m == up[d].msg
    <3>1. to \in Device /\ m \in Message
      BY <2>2, UploadLocals DEF UploadSend
    <3>2. m.kind = "metadata" => Backed(vv, m.path, m.vec)
      BY <2>2 DEF UploadSend, AllBacked, CallsBacked, CallBacked
    <3>3. chan' = [chan EXCEPT ![d][to] = Append(chan[d][to], m)]
      BY <2>2 DEF UploadSend, Sent
    <3>4. chan[d][to] \in Seq(Message)
      BY <3>1 DEF TypeOK
    <3>5. ASSUME NEW x \in Device, NEW y \in Device, NEW i \in DOMAIN chan'[x][y]
          PROVE  \/ i \in DOMAIN chan[x][y] /\ chan'[x][y][i] = chan[x][y][i]
                 \/ chan'[x][y][i] = m
      <4>1. CASE x = d /\ y = to
        <5>1. chan'[x][y] = Append(chan[d][to], m)
          BY <3>1, <3>3, <4>1 DEF TypeOK
        <5> QED
          BY <3>1, <3>4, <4>1, <5>1
      <4>2. CASE ~ (x = d /\ y = to)
        BY <3>1, <3>3, <4>2 DEF TypeOK
      <4> QED
        BY <4>1, <4>2
    <3> QED
      BY <1>1, <3>2, <3>5 DEF AllBacked, MessagesBacked, ChannelBacked
  <2> QED
    BY <2>1, <2>2 DEF ProcessQueue, UploadNext, UploadDone, UploadRead,
                      UploadReadFails, UploadLook, UploadSendFails
<1> QED
  BY <1>2, <1>5, <1>6 DEF AllBacked

\* Taking the first message off a channel leaves the others backed.
LEMMA TakingKeepsBacked ==
    ASSUME TypeOK, AllBacked, NEW d \in Device, NEW e \in Device,
           chan[e][d] # <<>>, vv' = vv,
           chan' = [chan EXCEPT ![e][d] = Tail(@)]
    PROVE  /\ MessagesBacked'
           /\ Head(chan[e][d]).kind = "metadata" =>
                Backed(vv, Head(chan[e][d]).path, Head(chan[e][d]).vec)
<1>1. chan[e][d] \in Seq(Message)
  BY DEF TypeOK
<1>2. ASSUME NEW x \in Device, NEW y \in Device, NEW i \in DOMAIN chan'[x][y]
      PROVE  \E j \in DOMAIN chan[x][y] : chan'[x][y][i] = chan[x][y][j]
  <2>1. CASE x = e /\ y = d
    <3>1. chan'[x][y] = Tail(chan[e][d])
      BY <2>1 DEF TypeOK
    <3> QED
      BY <1>1, <2>1, <3>1, SequenceParts
  <2>2. CASE ~ (x = e /\ y = d)
    BY <2>2 DEF TypeOK
  <2> QED
    BY <2>1, <2>2
<1>3. MessagesBacked'
  BY <1>2 DEF AllBacked, MessagesBacked, ChannelBacked
<1>4. Head(chan[e][d]) = chan[e][d][1] /\ 1 \in DOMAIN chan[e][d]
  BY <1>1, SequenceParts
<1> QED
  BY <1>3, <1>4 DEF AllBacked, MessagesBacked, ChannelBacked

\* The receive calls, up to the merge and after it.
LEMMA ReceivesKeepBacked ==
    ASSUME TypeOK, AllBacked, NEW d \in Device,
           \/ \E e \in Device : ReceiveRejects(d, e) \/ ReceiveConflict(d, e)
                              \/ ReceiveUndecryptable(d, e) \/ ReceiveAccepts(d, e)
           \/ ReceiveWrite(d) \/ ReceiveSave(d)
           \/ ReceiveWriteFails(d) \/ ReceiveSaveFails(d)
    PROVE  AllBacked'
<1> USE DEF fileVars, engineVars, netVars, sessionVars, lifeVars, ghostVars
<1>1. vv' = vv /\ ev' = ev /\ up' = up
  BY DEF ReceiveRejects, ReceiveConflict, ReceiveUndecryptable, ReceiveAccepts,
         ReceiveWrite, ReceiveSave, ReceiveWriteFails, ReceiveSaveFails, Fault
<1>2. VectorsBacked'
  BY <1>1 DEF AllBacked, VectorsBacked
<1>3. MessagesBacked'
  <2>1. CASE chan' = chan
    BY <1>1, <2>1 DEF AllBacked, MessagesBacked, ChannelBacked
  <2>2. ASSUME NEW e \in Device, Arrives(d, e)
        PROVE  MessagesBacked'
    BY <1>1, <2>2, TakingKeepsBacked DEF Arrives
  <2> QED
    BY <2>1, <2>2 DEF ReceiveRejects, ReceiveConflict, ReceiveUndecryptable,
       ReceiveAccepts, ReceiveWrite, ReceiveSave, ReceiveWriteFails,
       ReceiveSaveFails, Fault
<1>4. RowsBacked'
  <2>1. CASE meta' = meta
    BY <1>1, <2>1 DEF AllBacked, RowsBacked
  <2>2. CASE ReceiveSave(d)
    <3>1. rx[d].path \in Path /\ Backed(vv, rx[d].path, rx[d].vec)
      BY <2>2, ReceiveLocals DEF ReceiveSave, AllBacked, CallsBacked, CallBacked
    <3>2. meta' = [meta EXCEPT ![d][rx[d].path] = [hash |-> rx[d].content,
                                                   vec |-> rx[d].vec]]
      BY <2>2 DEF ReceiveSave, SaveFileMeta
    <3>3. ASSUME NEW x \in Device, NEW q \in Path
          PROVE  \/ meta'[x][q] = meta[x][q]
                 \/ q = rx[d].path /\ meta'[x][q].vec = rx[d].vec
      BY <3>1, <3>2 DEF TypeOK
    <3> QED
      BY <1>1, <3>1, <3>3 DEF AllBacked, RowsBacked
  <2> QED
    BY <2>1, <2>2 DEF ReceiveRejects, ReceiveConflict, ReceiveUndecryptable,
       ReceiveAccepts, ReceiveWrite, ReceiveWriteFails, ReceiveSaveFails, Fault
<1>5. CallsBacked'
  <2>1. \A x \in Device : x # d => rx'[x] = rx[x]
    BY DEF ReceiveRejects, ReceiveConflict, ReceiveUndecryptable, ReceiveAccepts,
           ReceiveWrite, ReceiveSave, ReceiveWriteFails, ReceiveSaveFails, TypeOK
  <2>2. rx'[d] = rx[d] => CallsBacked'
    BY <1>1, <2>1 DEF AllBacked, CallsBacked, CallBacked
  <2>3. ASSUME NEW e \in Device, ReceiveAccepts(d, e)
        PROVE  CallsBacked'
    <3>1. Backed(vv, Head(chan[e][d]).path, Head(chan[e][d]).vec)
      BY <1>1, <2>3, TakingKeepsBacked DEF ReceiveAccepts, Arrives
    <3>2. rx'[d] = [pc |-> "write", from |-> e, msg |-> Head(chan[e][d])]
      BY <2>3 DEF ReceiveAccepts, TypeOK
    <3> QED
      BY <1>1, <2>1, <3>1, <3>2 DEF AllBacked, CallsBacked, CallBacked
  <2>4. CASE ReceiveWrite(d)
    <3>1. rx[d].pc = "write" /\ Backed(vv, rx[d].msg.path, rx[d].msg.vec)
      BY <2>4 DEF ReceiveWrite, AllBacked, CallsBacked, CallBacked
    <3>2. rx[d] \in [pc : {"write", "merge"}, from : Device, msg : FileMsg]
      BY <2>4 DEF ReceiveWrite, TypeOK, ReceiveCall
    <3>3. rx'[d].pc = "merge" /\ rx'[d].msg = rx[d].msg
      BY <2>4, <3>2 DEF ReceiveWrite, TypeOK
    <3> QED
      BY <1>1, <2>1, <3>1, <3>3 DEF AllBacked, CallsBacked, CallBacked
  <2>5. CASE ReceiveSave(d) \/ ReceiveWriteFails(d) \/ ReceiveSaveFails(d)
    <3>1. rx'[d].pc = "idle"
      BY <2>5 DEF ReceiveSave, ReceiveWriteFails, ReceiveSaveFails, TypeOK, Idle
    <3> QED
      BY <1>1, <2>1, <3>1 DEF AllBacked, CallsBacked, CallBacked
  <2> QED
    BY <2>2, <2>3, <2>4, <2>5 DEF ReceiveRejects, ReceiveConflict,
       ReceiveUndecryptable
<1> QED
  BY <1>2, <1>3, <1>4, <1>5 DEF AllBacked

\* What surrounds the calls.  An engine dropped is a reset, after which
\* nothing is claimed.
LEMMA RestKeepsBacked ==
    ASSUME TypeOK, AllBacked, resets' = 0, NEW d \in Device,
           \/ Watch(d) \/ BlocksOnGuard(d)
           \/ \E p \in Path : UserChanges(d, p)
           \/ \E e \in Device : \/ PeerStored(d, e) \/ ChannelStored(d, e)
                              \/ ChannelCloses(d, e) \/ ReceiverLags(d, e)
           \/ StopSync(d) \/ ReplaceEngine(d) \/ StartSync(d)
    PROVE  AllBacked'
<1> USE DEF fileVars, engineVars, netVars, sessionVars, lifeVars, ghostVars
<1>1. ~ DropEngine(d)
  BY DEF DropEngine, TypeOK
<1>2. vv' = vv /\ meta' = meta /\ ev' = ev /\ up' = up /\ rx' = rx
  BY <1>1 DEF Watch, WatcherReports, WatchFails, DeleteReported, Forward,
     BlocksOnGuard, UserChanges, PeerStored, ChannelStored, ChannelCloses,
     ReceiverLags, StopSync, ReplaceEngine, StartSync, Fault
<1>3. MessagesBacked'
  <2>1. CASE chan' = chan
    BY <1>2, <2>1 DEF AllBacked, MessagesBacked, ChannelBacked
  <2>2. ASSUME NEW e \in Device, ReceiverLags(d, e)
        PROVE  MessagesBacked'
    BY <1>2, <2>2, TakingKeepsBacked DEF ReceiverLags
  <2> QED
    BY <1>1, <2>1, <2>2 DEF Watch, WatcherReports, WatchFails, DeleteReported,
       Forward, BlocksOnGuard, UserChanges, PeerStored, ChannelStored,
       ChannelCloses, StopSync, ReplaceEngine, StartSync, Fault
<1> QED
  BY <1>2, <1>3 DEF AllBacked, VectorsBacked, RowsBacked, CallsBacked, CallBacked

-----------------------------------------------------------------------------
(* The two steps that change a map.                                        *)

\* A map in which one vector grew at its own counter keeps everything backed.
LEMMA GrowthKeepsBacked ==
    ASSUME TypeOK, NEW d \in Device, NEW p \in Path, NEW v \in Vector,
           vv' = [vv EXCEPT ![d][p] = v],
           Get(vv[d][p], d) <= Get(v, d),
           NEW q \in Path, NEW u \in Vector, Backed(vv, q, u)
    PROVE  Backed(vv', q, u)
<1>1. \A x \in Device : vv[x][q] \in Vector
  BY DEF TypeOK
<1>2. \A x \in Device : vv'[x][q] = IF x = d /\ q = p THEN v ELSE vv[x][q]
  BY DEF TypeOK
<1>3. \A x \in Device : Get(vv[x][q], x) <= Get(vv'[x][q], x)
  BY <1>1, <1>2, GetType
<1> HIDE DEF TypeOK
<1>4. \A x \in Device : vv'[x][q] \in Vector
  BY <1>1, <1>2
<1> QED
  BY <1>1, <1>3, <1>4, BackedStays

\* A new vector v of d for p that is backed itself: the map, the rows, the
\* messages and what the calls hold are backed by the new map.
LEMMA NewVectorBacked ==
    ASSUME TypeOK, AllBacked, NEW d \in Device, NEW p \in Path, NEW v \in Vector,
           vv' = [vv EXCEPT ![d][p] = v], meta' = meta, chan' = chan,
           Get(vv[d][p], d) <= Get(v, d),
           \A x \in Device : x # d => Get(v, x) <= Get(vv[x][p], x)
    PROVE  /\ VectorsBacked' /\ RowsBacked' /\ MessagesBacked'
           /\ Backed(vv', p, v)
           /\ \A x \in Device :
                /\ ev[x].pc = "save" => Backed(vv', ev[x].path, ev[x].vec)
                /\ rx[x].pc = "save" => Backed(vv', rx[x].path, rx[x].vec)
                /\ rx[x].pc \in {"write", "merge"} =>
                      Backed(vv', rx[x].msg.path, rx[x].msg.vec)
                /\ up[x].pc = "send" /\ up[x].msg.kind = "metadata" =>
                      Backed(vv', up[x].msg.path, up[x].msg.vec)
<1>1. ASSUME NEW q \in Path, NEW u \in Vector, Backed(vv, q, u)
      PROVE  Backed(vv', q, u)
  BY <1>1, GrowthKeepsBacked
<1>2. Backed(vv', p, v)
  <2>1. ASSUME NEW x \in Device PROVE Get(v, x) <= Get(vv'[x][p], x)
    <3>1. CASE x = d
      <4>1. vv'[x][p] = v
        BY <3>1 DEF TypeOK
      <4> QED
        BY <3>1, <4>1, GetType
    <3>2. CASE x # d
      <4>1. vv'[x][p] = vv[x][p]
        BY <3>2 DEF TypeOK
      <4> QED
        BY <3>2, <4>1
    <3> QED
      BY <3>1, <3>2
  <2> QED
    BY <2>1 DEF Backed
<1>3. VectorsBacked'
  <2>1. ASSUME NEW x \in Device, NEW q \in Path PROVE Backed(vv', q, vv'[x][q])
    <3>1. CASE x = d /\ q = p
      BY <1>2, <3>1 DEF TypeOK
    <3>2. CASE ~ (x = d /\ q = p)
      <4>1. vv'[x][q] = vv[x][q] /\ vv[x][q] \in Vector
        BY <3>2 DEF TypeOK
      <4> QED
        BY <1>1, <4>1 DEF AllBacked, VectorsBacked
    <3> QED
      BY <3>1, <3>2
  <2> QED
    BY <2>1 DEF VectorsBacked
<1>4. RowsBacked'
  BY <1>1 DEF AllBacked, RowsBacked, TypeOK
<1>5. MessagesBacked'
  <2>1. ASSUME NEW x \in Device, NEW y \in Device, NEW i \in DOMAIN chan[x][y],
               chan[x][y][i].kind = "metadata"
        PROVE  Backed(vv', chan[x][y][i].path, chan[x][y][i].vec)
    <3>1. chan[x][y][i] \in Message
      <4>1. chan[x][y] \in Seq(Message)
        BY DEF TypeOK
      <4> QED
        BY <4>1
    <3> QED
      BY <1>1, <2>1, <3>1, MessageFields DEF AllBacked, MessagesBacked, ChannelBacked
  <2> QED
    BY <2>1 DEF MessagesBacked, ChannelBacked
<1>6. ASSUME NEW x \in Device
      PROVE  /\ ev[x].pc = "save" => Backed(vv', ev[x].path, ev[x].vec)
             /\ rx[x].pc = "save" => Backed(vv', rx[x].path, rx[x].vec)
             /\ rx[x].pc \in {"write", "merge"} =>
                   Backed(vv', rx[x].msg.path, rx[x].msg.vec)
             /\ up[x].pc = "send" /\ up[x].msg.kind = "metadata" =>
                   Backed(vv', up[x].msg.path, up[x].msg.vec)
  <2>1. ev[x].pc = "save" => Backed(vv', ev[x].path, ev[x].vec)
    BY <1>1, EventLocals DEF AllBacked, CallsBacked, CallBacked
  <2>2. /\ rx[x].pc = "save" => Backed(vv', rx[x].path, rx[x].vec)
        /\ rx[x].pc \in {"write", "merge"} =>
              Backed(vv', rx[x].msg.path, rx[x].msg.vec)
    BY <1>1, ReceiveLocals DEF AllBacked, CallsBacked, CallBacked, FileMsg
  <2>3. up[x].pc = "send" /\ up[x].msg.kind = "metadata" =>
           Backed(vv', up[x].msg.path, up[x].msg.vec)
    BY <1>1, UploadLocals, MessageFields DEF AllBacked, CallsBacked, CallBacked
  <2> QED
    BY <2>1, <2>2, <2>3
<1> QED
  BY <1>2, <1>3, <1>4, <1>5, <1>6

\* handle_file_event: the new vector claims the own version it just made, and
\* otherwise what the old one claimed.
LEMMA BumpKeepsBacked ==
    ASSUME TypeOK, AllBacked, NEW d \in Device, EventBump(d)
    PROVE  AllBacked'
<1> USE DEF fileVars, engineVars, netVars, sessionVars, lifeVars, ghostVars
<1> DEFINE p == ev[d].path
           v == Stepped(d, p)
<1>1. p \in Path /\ vv[d][p] \in Vector
  BY EventLocals DEF EventBump, TypeOK
<1>2. v \in Vector
  BY <1>1, OrNewType, IncrementType DEF Stepped
<1>3. \A x \in Device : Get(v, x) = IF x = d THEN Get(vv[d][p], d) + 1
                                            ELSE Get(vv[d][p], x)
  BY <1>1, OrNewType, GetIncrement, GetOrNew DEF Stepped
<1>4. /\ vv' = [vv EXCEPT ![d][p] = v]
      /\ ev' = [ev EXCEPT ![d] = [pc |-> "save", path |-> p,
                                  content |-> ev[d].content, vec |-> v]]
      /\ meta' = meta /\ up' = up /\ rx' = rx /\ chan' = chan
  BY DEF EventBump
<1> HIDE DEF p, v
<1>5. Get(vv[d][p], d) <= Get(v, d)
  BY <1>1, <1>3, GetType
<1>6. \A x \in Device : x # d => Get(v, x) <= Get(vv[x][p], x)
  BY <1>1, <1>3 DEF AllBacked, VectorsBacked, Backed
<1>7. CallsBacked'
  <2>1. ev'[d].path = p /\ ev'[d].vec = v
    BY <1>4 DEF TypeOK
  <2>2. \A x \in Device : x # d => ev'[x] = ev[x]
    BY <1>4 DEF TypeOK
  <2> QED
    BY <1>1, <1>2, <1>4, <1>5, <1>6, <2>1, <2>2, NewVectorBacked
    DEF CallsBacked, CallBacked
<1> QED
  BY <1>1, <1>2, <1>4, <1>5, <1>6, <1>7, NewVectorBacked DEF AllBacked

\* receive_file: the merged vector claims what the old one or the message
\* claims, of d itself no more than d counted before.
LEMMA MergeKeepsBacked ==
    ASSUME TypeOK, AllBacked, NEW d \in Device, ReceiveMerge(d)
    PROVE  AllBacked'
<1> USE DEF fileVars, engineVars, netVars, sessionVars, lifeVars, ghostVars
<1> DEFINE m == rx[d].msg
           p == m.path
           v == Merged(d, m)
<1>1. p \in Path /\ m.vec \in Vector /\ vv[d][p] \in Vector
  <2>1. m \in FileMsg
    BY ReceiveLocals DEF ReceiveMerge
  <2> QED
    BY <2>1 DEF FileMsg, TypeOK
<1>2. v \in Vector
  BY <1>1, OrNewType, MergeType DEF Merged
<1>3. \A x \in Device : Get(v, x) = Max2(Get(vv[d][p], x), Get(m.vec, x))
  BY <1>1, OrNewType, GetMerge, GetOrNew DEF Merged
<1>4. Backed(vv, p, m.vec) /\ Backed(vv, p, vv[d][p])
  BY <1>1 DEF ReceiveMerge, AllBacked, CallsBacked, CallBacked, VectorsBacked
<1>5. /\ vv' = [vv EXCEPT ![d][p] = v]
      /\ rx' = [rx EXCEPT ![d] = [pc |-> "save", path |-> p,
                                  content |-> m.content, vec |-> v]]
      /\ meta' = meta /\ up' = up /\ ev' = ev /\ chan' = chan
  BY DEF ReceiveMerge
<1> HIDE DEF p, v, m
<1>6. Get(vv[d][p], d) <= Get(v, d)
  BY <1>1, <1>3, GetType DEF Max2
<1>7. \A x \in Device : x # d => Get(v, x) <= Get(vv[x][p], x)
  BY <1>3, <1>4 DEF Backed, Max2
<1>8. CallsBacked'
  <2>1. rx'[d].pc = "save" /\ rx'[d].path = p /\ rx'[d].vec = v
    BY <1>5 DEF TypeOK
  <2>2. \A x \in Device : x # d => rx'[x] = rx[x]
    BY <1>5 DEF TypeOK
  <2> QED
    BY <1>1, <1>2, <1>5, <1>6, <1>7, <2>1, <2>2, NewVectorBacked
    DEF CallsBacked, CallBacked
<1> QED
  BY <1>1, <1>2, <1>5, <1>6, <1>7, <1>8, NewVectorBacked DEF AllBacked

-----------------------------------------------------------------------------

LEMMA BackedInit == Init => AllBacked
<1> SUFFICES ASSUME Init PROVE AllBacked
  OBVIOUS
<1>1. ASSUME NEW p \in Path PROVE Backed(vv, p, NoVector)
  <2>1. \A x \in Device : vv[x][p] = NoVector
    BY DEF Init
  <2>2. ASSUME NEW x \in Device PROVE Get(NoVector, x) <= Get(vv[x][p], x)
    <3>1. Get(vv[x][p], x) = Get(NoVector, x)
      BY <2>1, Zenon
    <3>2. Get(NoVector, x) = 0
      BY NoVectorType, Zenon
    <3> QED
      BY <3>1, <3>2
  <2> QED
    BY <2>2 DEF Backed
<1>2. VectorsBacked /\ RowsBacked
  BY <1>1 DEF Init, VectorsBacked, RowsBacked, NoMeta
<1>3. CallsBacked
  BY DEF Init, CallsBacked, CallBacked, Idle
<1>4. MessagesBacked
  BY DEF Init, MessagesBacked, ChannelBacked
<1> QED
  BY <1>2, <1>3, <1>4 DEF AllBacked

\* Only a dropped engine counts, and it counts up.
LEMMA ResetsOnlyGrow ==
    ASSUME TypeOK, [Next]_vars PROVE resets' = resets \/ resets' = resets + 1
<1> USE DEF fileVars, engineVars, netVars, sessionVars, lifeVars, ghostVars
<1>1. CASE UNCHANGED vars
  BY <1>1 DEF vars
<1>2. ASSUME NEW d \in Device, Watch(d) \/ HandleFileEvent(d) \/ BlocksOnGuard(d)
      PROVE  resets' = resets
  BY <1>2 DEF Watch, WatcherReports, WatchFails, DeleteReported, Forward,
     HandleFileEvent, EventRead, EventReadFails, Takes, EventDeleted, EventBump,
     EventSave, EventPeers, EventEnqueue, BlocksOnGuard, Fault
<1>3. ASSUME NEW d \in Device, ProcessQueue(d) \/ ReceiveFile(d)
      PROVE  resets' = resets
  BY <1>3 DEF ProcessQueue, UploadNext, UploadDone, UploadRead,
     UploadReadFails, UploadLook, UploadSend, UploadSendFails, ReceiveFile,
     ReceiveRejects, ReceiveConflict, ReceiveUndecryptable, ReceiveAccepts,
     ReceiveWrite, ReceiveMerge, ReceiveSave, Fault
<1>4. ASSUME NEW d \in Device, Environment(d)
      PROVE  resets' = resets \/ resets' = resets + 1
  BY <1>4 DEF Environment, UserChanges, EventSaveFails, ReceiveWriteFails,
     ReceiveSaveFails, PeerStored, ChannelStored, ChannelCloses, ReceiverLags,
     StopSync, ReplaceEngine, DropEngine, StartSync, Fault
<1> QED
  BY <1>1, <1>2, <1>3, <1>4 DEF Next

LEMMA BackedNext == TypeOK /\ KnowledgeBacked /\ [Next]_vars => KnowledgeBacked'
<1> SUFFICES ASSUME TypeOK, KnowledgeBacked, [Next]_vars, resets' = 0
             PROVE  AllBacked'
  BY DEF KnowledgeBacked
<1>1. resets = 0
  <2>1. resets \in Nat
    BY DEF TypeOK
  <2>2. resets' = resets \/ resets' = resets + 1
    BY ResetsOnlyGrow
  <2> QED
    BY <2>1, <2>2
<1>2. AllBacked
  BY <1>1 DEF KnowledgeBacked
<1>3. CASE UNCHANGED vars
  BY <1>2, <1>3 DEF vars, fileVars, engineVars, netVars, sessionVars, lifeVars,
     ghostVars, AllBacked, VectorsBacked, RowsBacked, CallsBacked, CallBacked,
     MessagesBacked, ChannelBacked
<1>4. ASSUME NEW d \in Device, HandleFileEvent(d) PROVE AllBacked'
  BY <1>2, <1>4, EventsKeepBacked, BumpKeepsBacked DEF HandleFileEvent
<1>5. ASSUME NEW d \in Device, ProcessQueue(d) PROVE AllBacked'
  BY <1>2, <1>5, UploadsKeepBacked
<1>6. ASSUME NEW d \in Device, ReceiveFile(d) PROVE AllBacked'
  BY <1>2, <1>6, ReceivesKeepBacked, MergeKeepsBacked DEF ReceiveFile
<1>7. ASSUME NEW d \in Device, Watch(d) \/ BlocksOnGuard(d) \/ Environment(d)
      PROVE  AllBacked'
  BY <1>2, <1>7, RestKeepsBacked, EventsKeepBacked, ReceivesKeepBacked
  DEF Environment
<1> QED
  BY <1>3, <1>4, <1>5, <1>6, <1>7 DEF Next

\* While no engine was dropped, no vector in memory, in a row, in a call or in
\* a message counts more versions of a device than the device made, whether
\* the calls overlap or not and whatever fails (increment and merge of
\* version_vector.rs as handle_file_event and receive_file use them).
THEOREM KnowledgeIsBacked == Spec => []KnowledgeBacked
<1>1. Init => KnowledgeBacked
  BY BackedInit DEF KnowledgeBacked
<1> QED
  BY <1>1, BackedNext, TypeCorrect, PTL DEF Spec
=============================================================================
