-------------------------- MODULE SyncEngineCalls --------------------------
(***************************************************************************)
(* What the calls of a sync engine keep across their awaits.               *)
(*                                                                         *)
(* First what the client's mutex gives: one call on an engine at a time,   *)
(* from which follow that no call waits on a guard of its own thread and   *)
(* that the conflict check still holds when the message is merged.         *)
(*                                                                         *)
(* Then what holds however calls overlap: vectors in memory only grow,     *)
(* what a call or a row took from them stays behind them, and every task   *)
(* that is queued or in progress has its vector.  Behind the mutex again,  *)
(* the row of a path agrees with memory between calls.                     *)
(*                                                                         *)
(* Last the two ends of a change: a change of a file stays on its way to   *)
(* a bump of the vector, and a version that was queued for a peer stays on *)
(* its way to the peer's vector; so loops at rest are caught up.           *)
(***************************************************************************)
EXTENDS SyncEngineProofs

-----------------------------------------------------------------------------
(* One call at a time.                                                     *)

OneCall(d) ==
    /\ ev[d].pc = "idle" \/ up[d].pc = "idle"
    /\ ev[d].pc = "idle" \/ rx[d].pc = "idle"
    /\ up[d].pc = "idle" \/ rx[d].pc = "idle"

ClientInv ==
    Serialised =>
        \A d \in Device :
            /\ OneCall(d)
            /\ ~ blocked[d]
            /\ rx[d].pc \in {"write", "merge"} => ~ Conflicts(d, rx[d].msg)

LEMMA ClientInit == Init => ClientInv
<1> SUFFICES ASSUME Init, NEW d \in Device
             PROVE  /\ OneCall(d) /\ ~ blocked[d]
                    /\ rx[d].pc \in {"write", "merge"} => ~ Conflicts(d, rx[d].msg)
  BY DEF ClientInv
<1>1. ev[d].pc = "idle" /\ up[d].pc = "idle" /\ rx[d].pc = "idle"
  BY DEF Init, Idle
<1>2. ~ blocked[d]
  BY DEF Init
<1> QED
  BY <1>1, <1>2 DEF OneCall

\* The steps of an event call.
LEMMA EventsKeepClient ==
    ASSUME TypeOK, ClientInv, NEW d \in Device,
           HandleFileEvent(d) \/ EventSaveFails(d)
    PROVE  ClientInv'
<1> USE DEF fileVars, engineVars, netVars, sessionVars, lifeVars, ghostVars
<1> SUFFICES ASSUME Serialised
             PROVE  \A x \in Device :
                       /\ OneCall(x)' /\ ~ blocked'[x]
                       /\ rx'[x].pc \in {"write", "merge"} =>
                             ~ Conflicts(x, rx[x].msg)'
  BY DEF ClientInv
<1>1. /\ up' = up /\ rx' = rx /\ blocked' = blocked
      /\ \A x \in Device : x # d => ev'[x] = ev[x] /\ vv'[x] = vv[x]
  BY DEF HandleFileEvent, EventRead, EventReadFails, Takes, EventDeleted,
     EventBump, EventSave,
         EventPeers, EventEnqueue, EventSaveFails, Fault, TypeOK
<1>2. up[d].pc = "idle" /\ rx[d].pc = "idle"
  <2>1. CASE AllIdle(d)
    BY <2>1 DEF AllIdle, Idle
  <2>2. CASE ev[d].pc # "idle"
    BY <2>2 DEF ClientInv, OneCall
  <2> QED
    BY <2>1, <2>2 DEF HandleFileEvent, EventRead, EventReadFails, Takes,
       EventDeleted, EventBump,
       EventSave, EventPeers, EventEnqueue, EventSaveFails, CanCall
<1> QED
  BY <1>1, <1>2 DEF ClientInv, OneCall, Conflicts

\* The steps of an upload call.
LEMMA UploadsKeepClient ==
    ASSUME TypeOK, ClientInv, NEW d \in Device, ProcessQueue(d)
    PROVE  ClientInv'
<1> USE DEF fileVars, engineVars, netVars, sessionVars, lifeVars, ghostVars
<1> SUFFICES ASSUME Serialised
             PROVE  \A x \in Device :
                       /\ OneCall(x)' /\ ~ blocked'[x]
                       /\ rx'[x].pc \in {"write", "merge"} =>
                             ~ Conflicts(x, rx[x].msg)'
  BY DEF ClientInv
<1>1. /\ ev' = ev /\ rx' = rx /\ blocked' = blocked /\ vv' = vv
      /\ \A x \in Device : x # d => up'[x] = up[x]
  BY DEF ProcessQueue, UploadNext, UploadDone, UploadRead, UploadReadFails,
         UploadLook, UploadSend, UploadSendFails, Fault, TypeOK
<1>2. ev[d].pc = "idle" /\ rx[d].pc = "idle"
  <2>1. CASE AllIdle(d)
    BY <2>1 DEF AllIdle, Idle
  <2>2. CASE up[d].pc # "idle"
    BY <2>2 DEF ClientInv, OneCall
  <2> QED
    BY <2>1, <2>2 DEF ProcessQueue, UploadNext, UploadDone, UploadRead,
       UploadReadFails, UploadLook, UploadSend, UploadSendFails, CanCall
<1> QED
  BY <1>1, <1>2 DEF ClientInv, OneCall, Conflicts

\* The steps of a receive call.
LEMMA ReceivesKeepClient ==
    ASSUME TypeOK, ClientInv, NEW d \in Device,
           ReceiveFile(d) \/ ReceiveWriteFails(d) \/ ReceiveSaveFails(d)
    PROVE  ClientInv'
<1> USE DEF fileVars, engineVars, netVars, sessionVars, lifeVars, ghostVars
<1> SUFFICES ASSUME Serialised
             PROVE  \A x \in Device :
                       /\ OneCall(x)' /\ ~ blocked'[x]
                       /\ rx'[x].pc \in {"write", "merge"} =>
                             ~ Conflicts(x, rx[x].msg)'
  BY DEF ClientInv
<1>1. /\ ev' = ev /\ up' = up /\ blocked' = blocked
      /\ \A x \in Device : x # d => rx'[x] = rx[x] /\ vv'[x] = vv[x]
  BY DEF ReceiveFile, ReceiveRejects, ReceiveConflict, ReceiveUndecryptable,
         ReceiveAccepts, ReceiveWrite, ReceiveMerge, ReceiveSave,
         ReceiveWriteFails, ReceiveSaveFails, Fault, TypeOK
<1>2. ev[d].pc = "idle" /\ up[d].pc = "idle"
  <2>1. CASE AllIdle(d)
    BY <2>1 DEF AllIdle, Idle
  <2>2. CASE rx[d].pc # "idle"
    BY <2>2 DEF ClientInv, OneCall
  <2> QED
    BY <2>1, <2>2 DEF ReceiveFile, ReceiveRejects, ReceiveConflict,
       ReceiveUndecryptable, ReceiveAccepts, Arrives, ReceiveWrite,
       ReceiveMerge, ReceiveSave, ReceiveWriteFails, ReceiveSaveFails, CanCall
<1>3. rx'[d].pc \in {"write", "merge"} => ~ Conflicts(d, rx[d].msg)'
  <2>1. ASSUME NEW e \in Device, ReceiveAccepts(d, e)
        PROVE  ~ Conflicts(d, rx[d].msg)'
    BY <2>1 DEF ReceiveAccepts, Conflicts, TypeOK
  <2>2. CASE ReceiveWrite(d)
    <3>1. rx[d] \in [pc : {"write", "merge"}, from : Device, msg : FileMsg]
      BY <2>2 DEF ReceiveWrite, TypeOK, ReceiveCall
    <3>2. rx'[d].msg = rx[d].msg /\ vv' = vv /\ rx[d].pc = "write"
      BY <2>2, <3>1 DEF ReceiveWrite, TypeOK
    <3> QED
      BY <3>2 DEF ClientInv, Conflicts
  <2>3. CASE rx'[d] = rx[d] /\ vv' = vv
    BY <2>3 DEF ClientInv, Conflicts
  <2>4. CASE rx'[d].pc \notin {"write", "merge"}
    BY <2>4
  <2> QED
    BY <2>1, <2>2, <2>3, <2>4 DEF ReceiveFile, ReceiveRejects, ReceiveConflict,
       ReceiveUndecryptable, ReceiveMerge, ReceiveSave, ReceiveWriteFails,
       ReceiveSaveFails, Idle, TypeOK
<1> QED
  BY <1>1, <1>2, <1>3 DEF ClientInv, OneCall, Conflicts

\* What surrounds the calls: an engine goes away only between them.
LEMMA RestKeepsClient ==
    ASSUME TypeOK, ClientInv, NEW d \in Device,
           \/ Watch(d) \/ BlocksOnGuard(d)
           \/ \E p \in Path : UserChanges(d, p)
           \/ \E e \in Device : \/ PeerStored(d, e) \/ ChannelStored(d, e)
                              \/ ChannelCloses(d, e) \/ ReceiverLags(d, e)
           \/ StopSync(d) \/ ReplaceEngine(d) \/ StartSync(d)
    PROVE  ClientInv'
<1> USE DEF fileVars, engineVars, netVars, sessionVars, lifeVars, ghostVars
<1> SUFFICES ASSUME Serialised PROVE ClientInv'
  BY DEF ClientInv
<1>1. CASE UNCHANGED <<vv, ev, up, rx, blocked>>
  BY <1>1 DEF ClientInv, OneCall, Conflicts
<1>2. CASE DropEngine(d)
  <2>1. rx[d].pc = "idle"
    BY <1>2 DEF DropEngine, AllIdle, Idle
  <2>2. \A x \in Device : x # d => vv'[x] = vv[x]
    BY <1>2 DEF DropEngine, TypeOK
  <2>3. UNCHANGED <<ev, up, rx, blocked>>
    BY <1>2 DEF DropEngine
  <2> QED
    BY <2>1, <2>2, <2>3 DEF ClientInv, OneCall, Conflicts
<1>3. CASE BlocksOnGuard(d)
  BY <1>3 DEF BlocksOnGuard, Locked, ClientInv, OneCall
<1>4. CASE Watch(d) \/ \E p \in Path : UserChanges(d, p)
  BY <1>1, <1>4 DEF Watch, WatcherReports, WatchFails, DeleteReported, Forward,
     UserChanges, Fault
<1>5. ASSUME NEW e \in Device, \/ PeerStored(d, e) \/ ChannelStored(d, e)
                              \/ ChannelCloses(d, e) \/ ReceiverLags(d, e)
      PROVE  ClientInv'
  BY <1>1, <1>5 DEF PeerStored, ChannelStored, ChannelCloses, ReceiverLags, Fault
<1>6. CASE StopSync(d) \/ ReplaceEngine(d) \/ StartSync(d)
  BY <1>1, <1>2, <1>6 DEF StopSync, ReplaceEngine, StartSync
<1> QED
  BY <1>3, <1>4, <1>5, <1>6

LEMMA ClientNext == TypeOK /\ ClientInv /\ [Next]_vars => ClientInv'
<1> SUFFICES ASSUME TypeOK, ClientInv, [Next]_vars PROVE ClientInv'
  OBVIOUS
<1>1. CASE UNCHANGED vars
  BY <1>1 DEF vars, fileVars, engineVars, lifeVars, sessionVars, ClientInv,
     OneCall, Conflicts
<1> QED
  BY <1>1, EventsKeepClient, UploadsKeepClient, ReceivesKeepClient,
     RestKeepsClient DEF Next, Environment

\* Behind the client's mutex no call ever waits on a std lock whose guard its
\* own thread holds, the write guard receive_file keeps over save_file_meta
\* included.
THEOREM NobodyBlocks == Spec => []NeverBlocked
<1>1. ClientInv => NeverBlocked
  BY DEF ClientInv, NeverBlocked
<1> QED
  BY ClientInit, ClientNext, TypeCorrect, <1>1, PTL DEF Spec

\* Behind the client's mutex the answer of the conflict check in receive_file
\* stays true over its fs::write, up to the merge.
THEOREM CheckStaysTrue == Spec => []ConflictCheckHolds
<1>1. ClientInv => ConflictCheckHolds
  BY DEF ClientInv, ConflictCheckHolds
<1> QED
  BY ClientInit, ClientNext, TypeCorrect, <1>1, PTL DEF Spec

-----------------------------------------------------------------------------
(* What steps do to the vectors.                                           *)

\* What surrounds the calls, but the drop of an engine.
Surroundings(d) ==
    \/ Watch(d) \/ BlocksOnGuard(d)
    \/ \E p \in Path : UserChanges(d, p)
    \/ \E e \in Device : \/ PeerStored(d, e) \/ ChannelStored(d, e)
                       \/ ChannelCloses(d, e) \/ ReceiverLags(d, e)
    \/ StartSync(d)

\* The steps by the call they belong to.
LEMMA StepsOfNext ==
    ASSUME [Next]_vars
    PROVE  \/ UNCHANGED vars
           \/ \E d \in Device :
                \/ HandleFileEvent(d) \/ EventSaveFails(d)
                \/ ProcessQueue(d)
                \/ ReceiveFile(d) \/ ReceiveWriteFails(d) \/ ReceiveSaveFails(d)
                \/ Surroundings(d) \/ StopSync(d) \/ ReplaceEngine(d)
  BY DEF Next, Environment, Surroundings

LEMMA StepsKeepingCalls ==
    ASSUME NEW d \in Device, Surroundings(d)
    PROVE  UNCHANGED <<vv, meta, queue, ev, up, rx, owed, resets>>
  BY DEF Surroundings, Watch, WatcherReports, WatchFails, DeleteReported, Forward,
     BlocksOnGuard, UserChanges, PeerStored, ChannelStored, ChannelCloses,
     ReceiverLags, StartSync, Fault, fileVars, engineVars, netVars,
     sessionVars, lifeVars, ghostVars

\* Only three steps touch a map of vectors.
LEMMA MapSteps ==
    ASSUME [Next]_vars
    PROVE  \/ vv' = vv
           \/ \E d \in Device : EventBump(d) \/ ReceiveMerge(d) \/ DropEngine(d)
<1> USE DEF fileVars, engineVars, netVars, sessionVars, lifeVars, ghostVars
<1>1. CASE UNCHANGED vars
  BY <1>1 DEF vars
<1>2. ASSUME NEW d \in Device, HandleFileEvent(d) \/ EventSaveFails(d), ~ EventBump(d)
      PROVE  vv' = vv
  BY <1>2 DEF HandleFileEvent, EventRead, EventReadFails, Takes, EventDeleted,
     EventSave, EventPeers, EventEnqueue, EventSaveFails
<1>3. ASSUME NEW d \in Device, ProcessQueue(d)
      PROVE  vv' = vv
  BY <1>3 DEF ProcessQueue, UploadNext, UploadDone, UploadRead,
     UploadReadFails, UploadLook, UploadSend, UploadSendFails
<1>4. ASSUME NEW d \in Device, ~ ReceiveMerge(d),
             ReceiveFile(d) \/ ReceiveWriteFails(d) \/ ReceiveSaveFails(d)
      PROVE  vv' = vv
  BY <1>4 DEF ReceiveFile, ReceiveRejects, ReceiveConflict,
     ReceiveUndecryptable, ReceiveAccepts, ReceiveWrite, ReceiveSave,
     ReceiveWriteFails, ReceiveSaveFails
<1>5. ASSUME NEW d \in Device, Surroundings(d) \/ StopSync(d) \/ ReplaceEngine(d)
      PROVE  vv' = vv \/ DropEngine(d)
  BY <1>5, StepsKeepingCalls DEF StopSync, ReplaceEngine
<1> QED
  BY <1>1, <1>2, <1>3, <1>4, <1>5, StepsOfNext

\* A merged vector lists the devices of either side.
LEMMA MergeListed ==
    ASSUME NEW v \in Vector, NEW w \in Vector, NEW d \in Device
    PROVE  Merge(OrNew(v, d), w) # NoVector
<1>1. OrNew(v, d) \in Vector /\ OrNew(v, d) # NoVector
  <2>1. New(d)[d] = 0 /\ NoVector[d] = -1
    BY DEF New, NoVector, Unlisted
  <2>2. New(d) # NoVector
    BY <2>1
  <2> QED
    BY <2>2, OrNewType DEF OrNew
<1>2. PICK x \in Device : OrNew(v, d)[x] # Unlisted
  BY <1>1 DEF Vector, NoVector
<1>3. Merge(OrNew(v, d), w)[x] # Unlisted
  BY <1>1, <1>2 DEF Vector, Merge, Max2, Unlisted
<1> QED
  BY <1>3 DEF NoVector

\* No step but the drop of the engine takes anything from a vector.
LEMMA VectorSteps ==
    ASSUME TypeOK, [Next]_vars, NEW d \in Device, NEW p \in Path, ~ DropEngine(d)
    PROVE  /\ Leq(vv[d][p], vv'[d][p])
           /\ vv[d][p] # NoVector => vv'[d][p] # NoVector
<1>0. vv[d][p] \in Vector
  BY DEF TypeOK
<1>1. CASE vv'[d][p] = vv[d][p]
  BY <1>0, <1>1, GetType DEF Leq
<1>2. CASE vv'[d][p] # vv[d][p]
  <2>1. PICK e \in Device : EventBump(e) \/ ReceiveMerge(e) \/ DropEngine(e)
    BY <1>2, MapSteps
  <2>2. CASE EventBump(e)
    <3>1. e = d /\ p = ev[d].path
      BY <1>2, <2>2 DEF EventBump, TypeOK
    <3>2. vv'[d][p] = Stepped(d, p)
      BY <2>2, <3>1 DEF EventBump, TypeOK
    <3>3. \A x \in Device : Get(Stepped(d, p), x) =
                              IF x = d THEN Get(vv[d][p], d) + 1 ELSE Get(vv[d][p], x)
      BY <1>0, OrNewType, GetIncrement, GetOrNew DEF Stepped
    <3>4. Stepped(d, p) # NoVector
      BY <1>0, OrNewType, IncrementListed DEF Stepped
    <3> QED
      BY <1>0, <3>2, <3>3, <3>4, GetType DEF Leq
  <2>3. CASE ReceiveMerge(e)
    <3>1. e = d /\ p = rx[d].msg.path
      BY <1>2, <2>3 DEF ReceiveMerge, TypeOK
    <3>2. rx[d].msg.vec \in Vector
      BY <2>3, <3>1, ReceiveLocals DEF ReceiveMerge, FileMsg
    <3>3. vv'[d][p] = Merge(OrNew(vv[d][p], d), rx[d].msg.vec)
      BY <2>3, <3>1 DEF ReceiveMerge, Merged, TypeOK
    <3>4. \A x \in Device : Get(vv'[d][p], x) =
                              Max2(Get(vv[d][p], x), Get(rx[d].msg.vec, x))
      BY <1>0, <3>2, <3>3, OrNewType, GetMerge, GetOrNew
    <3>5. vv'[d][p] # NoVector
      BY <1>0, <3>2, <3>3, MergeListed
    <3> QED
      BY <1>0, <3>2, <3>4, <3>5, GetType DEF Leq, Max2
  <2>4. CASE DropEngine(e)
    <3>1. e # d
      BY <2>4
    <3>2. vv'[d] = vv[d]
      BY <2>4, <3>1 DEF DropEngine, TypeOK
    <3> QED
      BY <1>2, <3>2
  <2> QED
    BY <2>1, <2>2, <2>3, <2>4
<1> QED
  BY <1>1, <1>2

\* What handle_file_event and receive_file do to a vector only adds to it, on
\* whatever threads the calls overlap; it restarts only with the engine.
THEOREM VectorsOnlyGrow == Spec => VectorsGrow
<1>1. ASSUME TypeOK, [Next]_vars
      PROVE  \A d \in Device, p \in Path :
                 Leq(vv[d][p], vv'[d][p]) \/ (AllIdle(d) /\ queue'[d] = <<>>)
  <2> SUFFICES ASSUME NEW d \in Device, NEW p \in Path
               PROVE  Leq(vv[d][p], vv'[d][p]) \/ (AllIdle(d) /\ queue'[d] = <<>>)
    OBVIOUS
  <2>1. CASE ~ DropEngine(d)
    BY <1>1, <2>1, VectorSteps
  <2>2. CASE DropEngine(d)
    BY <1>1, <2>2 DEF DropEngine, NewQueue, TypeOK
  <2> QED
    BY <2>1, <2>2
<1>2. TypeOK /\ [Next]_vars =>
          [\A d \in Device, p \in Path :
              Leq(vv[d][p], vv'[d][p]) \/ (AllIdle(d) /\ queue'[d] = <<>>)]_vars
  BY <1>1
<1> QED
  BY <1>2, TypeInit, TypeNext, PTL DEF Spec, VectorsGrow

-----------------------------------------------------------------------------
(* The rows against the maps.                                              *)

\* The vector a call is about to save is the one it left in the map, and only
\* such a vector gets into a row.
SavesFresh(d) ==
    /\ ev'[d].pc = "save" =>
          \/ ev'[d] = ev[d]
          \/ ev'[d].path \in Path /\ ev'[d].vec = vv'[d][ev'[d].path]
    /\ rx'[d].pc = "save" =>
          \/ rx'[d] = rx[d]
          \/ rx'[d].path \in Path /\ rx'[d].vec = vv'[d][rx'[d].path]
    /\ \A p \in Path :
          \/ meta'[d][p] = meta[d][p]
          \/ ev[d].pc = "save" /\ ev[d].path = p /\ meta'[d][p].vec = ev[d].vec
          \/ rx[d].pc = "save" /\ rx[d].path = p /\ meta'[d][p].vec = rx[d].vec

LEMMA SaveSteps ==
    ASSUME TypeOK, [Next]_vars, NEW d \in Device
    PROVE  SavesFresh(d)
<1> USE DEF fileVars, engineVars, netVars, sessionVars, lifeVars, ghostVars
<1>1. ASSUME ev'[d] = ev[d], rx'[d] = rx[d], meta'[d] = meta[d]
      PROVE  SavesFresh(d)
  BY <1>1 DEF SavesFresh
<1>2. CASE UNCHANGED vars
  BY <1>1, <1>2 DEF vars
<1>3. ASSUME NEW x \in Device,
             \/ HandleFileEvent(x) \/ EventSaveFails(x)
             \/ ReceiveFile(x) \/ ReceiveWriteFails(x) \/ ReceiveSaveFails(x),
             x # d
      PROVE  SavesFresh(d)
  BY <1>1, <1>3 DEF HandleFileEvent, EventRead, EventReadFails, Takes,
     EventDeleted, EventBump, EventSave, EventPeers, EventEnqueue,
     EventSaveFails, ReceiveFile, ReceiveRejects, ReceiveConflict,
     ReceiveUndecryptable, ReceiveAccepts, ReceiveWrite, ReceiveMerge,
     ReceiveSave, ReceiveWriteFails, ReceiveSaveFails, SaveFileMeta, TypeOK
<1>4. ASSUME NEW x \in Device, ProcessQueue(x)
      PROVE  SavesFresh(d)
  BY <1>1, <1>4 DEF ProcessQueue, UploadNext, UploadDone, UploadRead,
     UploadReadFails, UploadLook, UploadSend, UploadSendFails
<1>5. ASSUME NEW x \in Device, Surroundings(x) \/ StopSync(x) \/ ReplaceEngine(x)
      PROVE  SavesFresh(d)
  BY <1>1, <1>5, StepsKeepingCalls DEF StopSync, ReplaceEngine, DropEngine
<1>6. CASE EventBump(d)
  <2>1. ev[d].path \in Path
    BY <1>6, EventLocals DEF EventBump
  <2>2. /\ ev'[d].path = ev[d].path /\ ev'[d].vec = Stepped(d, ev[d].path)
        /\ vv'[d][ev[d].path] = Stepped(d, ev[d].path)
        /\ rx' = rx /\ meta' = meta
    BY <1>6, <2>1 DEF EventBump, TypeOK
  <2> QED
    BY <2>1, <2>2 DEF SavesFresh
<1>7. CASE EventSave(d)
  <2>1. ev'[d].pc # "save" /\ rx' = rx /\ ev[d].pc = "save"
    BY <1>7 DEF EventSave, TypeOK
  <2>2. \A p \in Path : \/ meta'[d][p] = meta[d][p]
                        \/ ev[d].path = p /\ meta'[d][p].vec = ev[d].vec
    BY <1>7, EventLocals DEF EventSave, SaveFileMeta, TypeOK
  <2> QED
    BY <2>1, <2>2 DEF SavesFresh
<1>8. CASE HandleFileEvent(d) \/ EventSaveFails(d)
  <2>1. ASSUME ~ EventBump(d), ~ EventSave(d)
        PROVE  ev'[d].pc # "save" /\ rx' = rx /\ meta' = meta
    BY <1>8, <2>1 DEF HandleFileEvent, EventRead, EventReadFails, Takes,
       EventDeleted, EventPeers,
       EventEnqueue, EventSaveFails, Fault, Idle, TypeOK
  <2> QED
    BY <1>6, <1>7, <2>1 DEF SavesFresh
<1>9. CASE ReceiveMerge(d)
  <2>1. rx[d].msg.path \in Path
    BY <1>9, ReceiveLocals DEF ReceiveMerge, FileMsg
  <2>2. /\ rx'[d].path = rx[d].msg.path /\ rx'[d].vec = Merged(d, rx[d].msg)
        /\ vv'[d][rx[d].msg.path] = Merged(d, rx[d].msg)
        /\ ev' = ev /\ meta' = meta
    BY <1>9, <2>1 DEF ReceiveMerge, TypeOK
  <2> QED
    BY <2>1, <2>2 DEF SavesFresh
<1>10. CASE ReceiveSave(d)
  <2>1. rx'[d].pc # "save" /\ ev' = ev /\ rx[d].pc = "save"
    BY <1>10 DEF ReceiveSave, Idle, TypeOK
  <2>2. \A p \in Path : \/ meta'[d][p] = meta[d][p]
                        \/ rx[d].path = p /\ meta'[d][p].vec = rx[d].vec
    BY <1>10, ReceiveLocals DEF ReceiveSave, SaveFileMeta, TypeOK
  <2> QED
    BY <2>1, <2>2 DEF SavesFresh
<1>11. CASE ReceiveFile(d) \/ ReceiveWriteFails(d) \/ ReceiveSaveFails(d)
  <2>1. ASSUME ReceiveWrite(d)
        PROVE  rx'[d].pc = "merge" /\ ev' = ev /\ meta' = meta
    <3>1. rx[d] \in [pc : {"write", "merge"}, from : Device, msg : FileMsg]
      BY <2>1 DEF ReceiveWrite, TypeOK, ReceiveCall
    <3> QED
      BY <2>1, <3>1 DEF ReceiveWrite, TypeOK
  <2>2. ASSUME ~ ReceiveMerge(d), ~ ReceiveSave(d), ~ ReceiveWrite(d)
        PROVE  /\ (rx'[d].pc # "save" \/ rx' = rx)
               /\ ev' = ev /\ meta' = meta
    BY <1>11, <2>2 DEF ReceiveFile, ReceiveRejects, ReceiveConflict,
       ReceiveUndecryptable, ReceiveAccepts, ReceiveWriteFails,
       ReceiveSaveFails, Fault, Idle, TypeOK
  <2> QED
    BY <1>9, <1>10, <2>1, <2>2 DEF SavesFresh
<1> QED
  BY <1>2, <1>3, <1>4, <1>5, <1>8, <1>11, StepsOfNext

\* Rows, and the vectors on their way into rows, are behind the maps.
RowsBehind ==
    \A d \in Device :
        /\ \A p \in Path : Leq(meta[d][p].vec, vv[d][p])
        /\ ev[d].pc = "save" => Leq(ev[d].vec, vv[d][ev[d].path])
        /\ rx[d].pc = "save" => Leq(rx[d].vec, vv[d][rx[d].path])

LEMMA LeqReflexive ==
    ASSUME NEW v \in Vector PROVE Leq(v, v)
  BY GetType DEF Leq

LEMMA RowsBehindNext ==
    ASSUME TypeOK, RowsBehind, [Next]_vars, \A d \in Device : ~ DropEngine(d)
    PROVE  RowsBehind'
<1> SUFFICES ASSUME NEW d \in Device
             PROVE  /\ \A p \in Path : Leq(meta'[d][p].vec, vv'[d][p])
                    /\ ev'[d].pc = "save" => Leq(ev'[d].vec, vv'[d][ev'[d].path])
                    /\ rx'[d].pc = "save" => Leq(rx'[d].vec, vv'[d][rx'[d].path])
  BY DEF RowsBehind
<1>1. TypeOK'
  BY TypeNext
<1>2. \A p \in Path : /\ vv[d][p] \in Vector /\ vv'[d][p] \in Vector
                     /\ meta[d][p].vec \in Vector
                     /\ Leq(vv[d][p], vv'[d][p])
  <2>1. \A p \in Path : Leq(vv[d][p], vv'[d][p])
    BY VectorSteps
  <2>2. vv[d] \in [Path -> Vector] /\ vv'[d] \in [Path -> Vector]
    BY <1>1 DEF TypeOK
  <2>3. meta[d] \in [Path -> [hash : Nat, vec : Vector]]
    BY DEF TypeOK
  <2> QED
    BY <2>1, <2>2, <2>3
<1>3. SavesFresh(d)
  BY SaveSteps
<1>4. /\ ev[d].pc = "save" => /\ ev[d].path \in Path /\ ev[d].vec \in Vector
                              /\ Leq(ev[d].vec, vv'[d][ev[d].path])
      /\ rx[d].pc = "save" => /\ rx[d].path \in Path /\ rx[d].vec \in Vector
                              /\ Leq(rx[d].vec, vv'[d][rx[d].path])
  BY <1>2, EventLocals, ReceiveLocals, LeqTransitive DEF RowsBehind
<1>5. \A p \in Path : Leq(meta'[d][p].vec, vv'[d][p])
  <2> SUFFICES ASSUME NEW p \in Path PROVE Leq(meta'[d][p].vec, vv'[d][p])
    OBVIOUS
  <2>1. CASE meta'[d][p] = meta[d][p]
    BY <1>2, <2>1, LeqTransitive DEF RowsBehind
  <2> QED
    BY <1>3, <1>4, <2>1 DEF SavesFresh
<1> QED
  BY <1>2, <1>3, <1>4, <1>5, LeqReflexive DEF SavesFresh

\* An engine dropped counts, for good.
LEMMA DropCounts ==
    ASSUME TypeOK, [Next]_vars, resets' = 0
    PROVE  resets = 0 /\ \A d \in Device : ~ DropEngine(d)
<1>1. resets \in Nat
  BY DEF TypeOK
<1>2. resets' = resets \/ resets' = resets + 1
  BY ResetsOnlyGrow
<1>3. \A d \in Device : DropEngine(d) => resets' = resets + 1
  BY DEF DropEngine
<1> QED
  BY <1>1, <1>2, <1>3

\* The row save_file_meta leaves is never ahead of the map in memory, although
\* it is written from a copy after the lock was given back and calls overlap.
THEOREM RowsStayBehind == Spec => []RowBehindMemory
<1> DEFINE I == resets = 0 => RowsBehind
<1>1. Init => I
  <2> SUFFICES ASSUME Init, NEW d \in Device
               PROVE  /\ \A p \in Path : Leq(meta[d][p].vec, vv[d][p])
                      /\ ev[d].pc # "save" /\ rx[d].pc # "save"
    BY DEF RowsBehind
  <2>1. \A p \in Path : meta[d][p].vec = NoVector /\ vv[d][p] = NoVector
    BY DEF Init, NoMeta
  <2>2. ev[d].pc # "save" /\ rx[d].pc # "save"
    BY DEF Init, Idle
  <2> QED
    BY <2>1, <2>2, LeqReflexive, NoVectorType
<1>2. TypeOK /\ I /\ [Next]_vars => I'
  BY DropCounts, RowsBehindNext
<1>3. I => RowBehindMemory
  BY DEF RowsBehind, RowBehindMemory
<1> QED
  BY <1>1, <1>2, <1>3, TypeCorrect, PTL DEF Spec

-----------------------------------------------------------------------------
(* The tasks of the queue.                                                 *)

\* Where a task, or what a call keeps of one, comes from.
TaskOrigins(d) ==
    /\ \A i \in DOMAIN queue'[d] :
          \/ \E j \in DOMAIN queue[d] : queue[d][j] = queue'[d][i]
          \/ /\ ev[d].pc = "enqueue"
             /\ queue'[d][i].kind = ev[d].kind /\ queue'[d][i].path = ev[d].path
    /\ up'[d].pc \in {"read", "look"} =>
          \/ up[d].pc \in {"read", "look"} /\ up[d].path = up'[d].path
          \/ \E j \in DOMAIN queue[d] :
                queue[d][j].kind = "upload" /\ queue[d][j].path = up'[d].path
    /\ ev'[d].pc \in {"peers", "enqueue"} /\ ev'[d].kind = "upload" =>
          \/ ev[d].pc = "save" /\ ev[d].path = ev'[d].path
          \/ /\ ev[d].pc \in {"peers", "enqueue"} /\ ev[d].kind = "upload"
             /\ ev[d].path = ev'[d].path
    /\ ev'[d].pc = "save" => ev'[d] = ev[d] \/ EventBump(d)

\* What enqueue adds at the end of the queue.
LEMMA EnqueuedTasks ==
    ASSUME TypeOK, NEW d \in Device, EventEnqueue(d)
    PROVE  /\ \A i \in DOMAIN queue'[d] :
                 \/ i \in DOMAIN queue[d] /\ queue'[d][i] = queue[d][i]
                 \/ \E e \in ev[d].to : queue'[d][i] =
                       [kind |-> ev[d].kind, to |-> e, path |-> ev[d].path]
           /\ \A i \in DOMAIN queue[d] :
                 i \in DOMAIN queue'[d] /\ queue'[d][i] = queue[d][i]
           /\ \A e \in ev[d].to : \E i \in DOMAIN queue'[d] :
                 queue'[d][i] =
                    [kind |-> ev[d].kind, to |-> e, path |-> ev[d].path]
<1>1. PICK order \in SetToSeqs(ev[d].to) :
         queue' = [queue EXCEPT ![d] = @ \o
           [i \in DOMAIN order |-> [kind |-> ev[d].kind, to |-> order[i],
                                    path |-> ev[d].path]]]
  BY DEF EventEnqueue
<1>2. IsFiniteSet(ev[d].to) /\ Cardinality(ev[d].to) \in Nat
  BY EventLocals, SyncEngineAssumption, FS_Subset, FS_CardinalityType
  DEF EventEnqueue
<1> DEFINE n == Cardinality(ev[d].to)
           T(e) == [kind |-> ev[d].kind, to |-> e, path |-> ev[d].path]
           new == [i \in 1 .. n |-> T(order[i])]
<1>3. /\ order \in [1 .. n -> ev[d].to]
      /\ \A i, j \in 1 .. n : i # j => order[i] # order[j]
  BY <1>1 DEF SetToSeqs
<1>4. \A e \in ev[d].to : \E i \in 1 .. n : order[i] = e
  <2>1. order \in Injection(1 .. n, ev[d].to)
    BY <1>3 DEF Injection, IsInjective
  <2>2. IsFiniteSet(1 .. n) /\ Cardinality(1 .. n) = n
    BY <1>2, FS_Interval
  <2>3. order \in Surjection(1 .. n, ev[d].to)
    BY <1>2, <2>1, <2>2, FS_Injection
  <2> QED
    BY <2>3 DEF Surjection
<1>5. queue[d] \in Seq(Task)
  BY DEF TypeOK
<1>6. new \in Seq(Task) /\ Len(new) = n /\ DOMAIN new = 1 .. n
  <2>1. \A i \in 1 .. n : T(order[i]) \in Task
    BY <1>3, EventLocals DEF EventEnqueue, Task
  <2> QED
    BY <1>2, <2>1
<1>7. queue'[d] = queue[d] \o new
  BY <1>1, <1>3 DEF TypeOK
<1>8. /\ DOMAIN queue[d] = 1 .. Len(queue[d]) /\ Len(queue[d]) \in Nat
      /\ DOMAIN (queue[d] \o new) = 1 .. Len(queue[d]) + n
      /\ \A i \in 1 .. Len(queue[d]) : (queue[d] \o new)[i] = queue[d][i]
      /\ \A i \in 1 .. n : (queue[d] \o new)[Len(queue[d]) + i] = new[i]
  BY <1>2, <1>5, <1>6
<1>9. \A i \in 1 .. n : new[i] = T(order[i])
  OBVIOUS
<1> HIDE DEF new, n
<1>10. ASSUME NEW i \in 1 .. Len(queue[d]) + n
       PROVE  \/ i \in 1 .. Len(queue[d])
              \/ \E j \in 1 .. n : i = Len(queue[d]) + j
  <2>1. CASE i > Len(queue[d])
    <3>1. i - Len(queue[d]) \in 1 .. n /\ i = Len(queue[d]) + (i - Len(queue[d]))
      BY <1>2, <1>8, <2>1 DEF n
    <3> QED
      BY <3>1
  <2> QED
    BY <1>8, <2>1
<1>11. \A i \in 1 .. n : Len(queue[d]) + i \in 1 .. Len(queue[d]) + n
  BY <1>2, <1>8 DEF n
<1>12. \A i \in 1 .. Len(queue[d]) : i \in 1 .. Len(queue[d]) + n
  BY <1>2, <1>8 DEF n
<1> HIDE DEF T
<1>13. \A i \in 1 .. n : \E e \in ev[d].to : new[i] = T(e)
  BY <1>3, <1>9
<1>14. \A e \in ev[d].to : \E i \in 1 .. n : new[i] = T(e)
  BY <1>4, <1>9
<1>15. \A i \in DOMAIN queue'[d] :
          \/ i \in DOMAIN queue[d] /\ queue'[d][i] = queue[d][i]
          \/ \E e \in ev[d].to : queue'[d][i] = T(e)
  <2> SUFFICES ASSUME NEW i \in 1 .. Len(queue[d]) + n
               PROVE  \/ i \in DOMAIN queue[d] /\ queue'[d][i] = queue[d][i]
                      \/ \E e \in ev[d].to : queue'[d][i] = T(e)
    BY <1>7, <1>8
  <2>1. CASE i \in 1 .. Len(queue[d])
    BY <1>7, <1>8, <2>1
  <2>2. ASSUME NEW j \in 1 .. n, i = Len(queue[d]) + j
        PROVE  \E e \in ev[d].to : queue'[d][i] = T(e)
    <3>1. queue'[d][i] = new[j]
      BY <1>7, <1>8, <2>2
    <3> QED
      BY <1>13, <3>1
  <2> QED
    BY <1>10, <2>1, <2>2
<1>16. \A e \in ev[d].to : \E i \in DOMAIN queue'[d] : queue'[d][i] = T(e)
  BY <1>7, <1>8, <1>11, <1>14
<1> QED
  BY <1>7, <1>8, <1>12, <1>15, <1>16 DEF T

LEMMA OriginsOfTasks ==
    ASSUME TypeOK, [Next]_vars, NEW d \in Device, ~ DropEngine(d)
    PROVE  TaskOrigins(d)
<1> USE DEF fileVars, engineVars, netVars, sessionVars, lifeVars, ghostVars
<1>1. ASSUME ev'[d] = ev[d], up'[d] = up[d], queue'[d] = queue[d]
      PROVE  TaskOrigins(d)
  BY <1>1 DEF TaskOrigins
<1>2. CASE UNCHANGED vars
  BY <1>1, <1>2 DEF vars
<1>3. ASSUME NEW x \in Device, x # d,
             HandleFileEvent(x) \/ EventSaveFails(x) \/ ProcessQueue(x)
      PROVE  TaskOrigins(d)
  BY <1>1, <1>3 DEF HandleFileEvent, EventRead, EventReadFails, Takes,
     EventDeleted, EventBump, EventSave, EventPeers, EventEnqueue,
     EventSaveFails, ProcessQueue, UploadNext, UploadDone, UploadRead,
     UploadReadFails, UploadLook, UploadSend, UploadSendFails, TypeOK
<1>4. ASSUME NEW x \in Device,
             ReceiveFile(x) \/ ReceiveWriteFails(x) \/ ReceiveSaveFails(x)
      PROVE  TaskOrigins(d)
  BY <1>1, <1>4 DEF ReceiveFile, ReceiveRejects, ReceiveConflict,
     ReceiveUndecryptable, ReceiveAccepts, ReceiveWrite, ReceiveMerge,
     ReceiveSave, ReceiveWriteFails, ReceiveSaveFails
<1>5. ASSUME NEW x \in Device, Surroundings(x) \/ StopSync(x) \/ ReplaceEngine(x)
      PROVE  TaskOrigins(d)
  <2>1. CASE Surroundings(x)
    BY <1>1, <2>1, StepsKeepingCalls
  <2>2. CASE DropEngine(x)
    <3>1. x # d
      BY <2>2
    <3> QED
      BY <1>1, <2>2, <3>1 DEF DropEngine, TypeOK
  <2> QED
    BY <1>5, <2>1, <2>2 DEF StopSync, ReplaceEngine
<1>6. CASE EventEnqueue(d)
  <2>1. ev'[d].pc = "idle" /\ up' = up /\ ev[d].pc = "enqueue"
    BY <1>6 DEF EventEnqueue, Idle, TypeOK
  <2>2. ASSUME NEW i \in DOMAIN queue'[d]
        PROVE  \/ \E j \in DOMAIN queue[d] : queue[d][j] = queue'[d][i]
               \/ queue'[d][i].kind = ev[d].kind /\ queue'[d][i].path = ev[d].path
    <3>1. CASE i \in DOMAIN queue[d] /\ queue'[d][i] = queue[d][i]
      BY <3>1
    <3>2. ASSUME NEW e \in ev[d].to,
                 queue'[d][i] = [kind |-> ev[d].kind, to |-> e, path |-> ev[d].path]
          PROVE  queue'[d][i].kind = ev[d].kind /\ queue'[d][i].path = ev[d].path
      BY <3>2
    <3>3. \/ i \in DOMAIN queue[d] /\ queue'[d][i] = queue[d][i]
          \/ \E e \in ev[d].to : queue'[d][i] =
                [kind |-> ev[d].kind, to |-> e, path |-> ev[d].path]
      BY <1>6, EnqueuedTasks
    <3> QED
      BY <3>1, <3>2, <3>3
  <2> QED
    BY <2>1, <2>2 DEF TaskOrigins
<1>7. CASE HandleFileEvent(d) \/ EventSaveFails(d)
  <2>1. ASSUME ~ EventEnqueue(d)
        PROVE  /\ up' = up /\ queue' = queue
               /\ ev'[d].pc = "save" => EventBump(d)
               /\ ev'[d].pc \in {"peers", "enqueue"} /\ ev'[d].kind = "upload" =>
                     \/ ev[d].pc = "save" /\ ev[d].path = ev'[d].path
                     \/ /\ ev[d].pc \in {"peers", "enqueue"} /\ ev[d].kind = "upload"
                        /\ ev[d].path = ev'[d].path
    BY <1>7, <2>1 DEF HandleFileEvent, EventRead, EventReadFails, Takes,
       EventDeleted, EventBump,
       EventSave, EventPeers, EventSaveFails, Idle, TypeOK
  <2> QED
    BY <1>6, <2>1 DEF TaskOrigins
<1>8. CASE UploadNext(d)
  <2>1. /\ queue[d] # <<>> /\ queue'[d] = Tail(queue[d]) /\ ev' = ev
        /\ up'[d] = IF Head(queue[d]).kind = "upload"
                    THEN [pc |-> "read", to |-> Head(queue[d]).to,
                          path |-> Head(queue[d]).path]
                    ELSE [pc |-> "send", to |-> Head(queue[d]).to,
                          msg |-> DeleteOf(Head(queue[d]).path)]
    BY <1>8 DEF UploadNext, TypeOK
  <2>2. queue[d] \in Seq(Task)
    BY DEF TypeOK
  <2>3. /\ Head(queue[d]) = queue[d][1] /\ 1 \in DOMAIN queue[d]
        /\ \A i \in DOMAIN Tail(queue[d]) :
              i + 1 \in DOMAIN queue[d] /\ Tail(queue[d])[i] = queue[d][i + 1]
    BY <2>1, <2>2, SequenceParts
  <2>4. \A i \in DOMAIN queue'[d] : \E j \in DOMAIN queue[d] :
           queue[d][j] = queue'[d][i]
    BY <2>1, <2>3
  <2>5. up'[d].pc \in {"read", "look"} =>
           \E j \in DOMAIN queue[d] :
              queue[d][j].kind = "upload" /\ queue[d][j].path = up'[d].path
    BY <2>1, <2>3
  <2> QED
    BY <2>1, <2>4, <2>5 DEF TaskOrigins
<1>9. CASE ProcessQueue(d)
  <2>1. ASSUME ~ UploadNext(d)
        PROVE  /\ ev' = ev /\ queue' = queue
               /\ up'[d].pc \in {"read", "look"} =>
                     up[d].pc \in {"read", "look"} /\ up[d].path = up'[d].path
    BY <1>9, <2>1 DEF ProcessQueue, UploadDone, UploadRead, UploadReadFails,
       UploadLook, UploadSend, UploadSendFails, Idle, TypeOK
  <2> QED
    BY <1>8, <2>1 DEF TaskOrigins
<1> QED
  BY <1>2, <1>3, <1>4, <1>5, <1>7, <1>9, StepsOfNext

\* A path has a vector from the moment its row is saved until its task is done.
TasksHaveVector ==
    \A d \in Device :
        /\ \A i \in DOMAIN queue[d] :
              queue[d][i].kind = "upload" => vv[d][queue[d][i].path] # NoVector
        /\ up[d].pc \in {"read", "look"} => vv[d][up[d].path] # NoVector
        /\ ev[d].pc = "save" => vv[d][ev[d].path] # NoVector
        /\ ev[d].pc \in {"peers", "enqueue"} /\ ev[d].kind = "upload" =>
              vv[d][ev[d].path] # NoVector

LEMMA TasksHaveVectorInit == Init => TasksHaveVector
<1>1. ASSUME Init, NEW d \in Device
      PROVE  DOMAIN queue[d] = {} /\ up[d].pc = "idle" /\ ev[d].pc = "idle"
  BY <1>1 DEF Init, Idle
<1> QED
  BY <1>1 DEF TasksHaveVector

LEMMA TasksHaveVectorNext ==
    TypeOK /\ TasksHaveVector /\ [Next]_vars => TasksHaveVector'
<1> SUFFICES ASSUME TypeOK, TasksHaveVector, [Next]_vars, NEW d \in Device
             PROVE  /\ \A i \in DOMAIN queue'[d] :
                          queue'[d][i].kind = "upload" =>
                             vv'[d][queue'[d][i].path] # NoVector
                    /\ up'[d].pc \in {"read", "look"} =>
                          vv'[d][up'[d].path] # NoVector
                    /\ ev'[d].pc = "save" => vv'[d][ev'[d].path] # NoVector
                    /\ ev'[d].pc \in {"peers", "enqueue"} /\ ev'[d].kind = "upload" =>
                          vv'[d][ev'[d].path] # NoVector
  BY DEF TasksHaveVector
<1>0. TypeOK'
  BY TypeNext
<1>1. CASE DropEngine(d)
  <2>1. /\ ev'[d].pc = "idle" /\ up'[d].pc = "idle" /\ queue'[d] = <<>>
    BY <1>1 DEF DropEngine, AllIdle, Idle, NewQueue, TypeOK
  <2> QED
    BY <2>1
<1>2. CASE ~ DropEngine(d)
  <2>1. TaskOrigins(d)
    BY <1>2, OriginsOfTasks
  <2>2. \A p \in Path : vv[d][p] # NoVector => vv'[d][p] # NoVector
    BY <1>2, VectorSteps
  <2>3. \A i \in DOMAIN queue[d] : queue[d][i].path \in Path
    <3>1. queue[d] \in Seq(Task)
      BY DEF TypeOK
    <3>2. \A i \in DOMAIN queue[d] : queue[d][i] \in Task
      BY <3>1
    <3> QED
      BY <3>2 DEF Task
  <2>4. ASSUME NEW i \in DOMAIN queue'[d], queue'[d][i].kind = "upload"
        PROVE  vv'[d][queue'[d][i].path] # NoVector
    <3>1. CASE \E j \in DOMAIN queue[d] : queue[d][j] = queue'[d][i]
      BY <2>2, <2>3, <2>4, <3>1 DEF TasksHaveVector
    <3>2. CASE /\ ev[d].pc = "enqueue"
               /\ queue'[d][i].kind = ev[d].kind /\ queue'[d][i].path = ev[d].path
      BY <2>2, <2>4, <3>2, EventLocals DEF TasksHaveVector
    <3> QED
      BY <2>1, <3>1, <3>2 DEF TaskOrigins
  <2>5. ASSUME up'[d].pc \in {"read", "look"}
        PROVE  vv'[d][up'[d].path] # NoVector
    BY <2>1, <2>2, <2>3, <2>5, UploadLocals DEF TaskOrigins, TasksHaveVector
  <2>6. ASSUME ev'[d].pc = "save"
        PROVE  vv'[d][ev'[d].path] # NoVector
    <3>1. CASE ev'[d] = ev[d]
      BY <2>2, <2>6, <3>1, EventLocals DEF TasksHaveVector
    <3>2. CASE EventBump(d)
      <4>1. ev[d].path \in Path
        BY <3>2, EventLocals DEF EventBump
      <4>2. /\ ev'[d].path = ev[d].path
            /\ vv'[d][ev[d].path] = Stepped(d, ev[d].path)
        BY <3>2, <4>1 DEF EventBump, TypeOK
      <4>3. vv[d][ev[d].path] \in Vector
        BY <4>1 DEF TypeOK
      <4> QED
        BY <4>2, <4>3, OrNewType, IncrementListed DEF Stepped
    <3> QED
      BY <2>1, <2>6, <3>1, <3>2 DEF TaskOrigins
  <2>7. ASSUME ev'[d].pc \in {"peers", "enqueue"}, ev'[d].kind = "upload"
        PROVE  vv'[d][ev'[d].path] # NoVector
    BY <2>1, <2>2, <2>7, EventLocals DEF TaskOrigins, TasksHaveVector
  <2> QED
    BY <2>4, <2>5, <2>6, <2>7
<1> QED
  BY <1>1, <1>2

\* The silent `if let Some(vv)` of process_queue never skips a task, whatever
\* calls overlap: an engine goes together with its queue.
THEOREM TasksAreSent == Spec => []UploadHasVector
<1>2. TasksHaveVector => UploadHasVector
  BY DEF TasksHaveVector, UploadHasVector
<1> QED
  BY <1>2, TasksHaveVectorInit, TasksHaveVectorNext, TypeCorrect, PTL DEF Spec

-----------------------------------------------------------------------------
(* Rows and maps between the calls of the client.                          *)

\* An engine is no peer of its own.
NoSelf ==
    \A d \in Device :
        /\ link[d][d] = "none"
        /\ ev[d].pc = "enqueue" => d \notin ev[d].to

LEMMA NoSelfInit == Init => NoSelf
<1>1. ASSUME Init, NEW d \in Device
      PROVE  link[d][d] = "none" /\ ev[d].pc = "idle"
  BY <1>1 DEF Init, Idle
<1> QED
  BY <1>1 DEF NoSelf

LEMMA NoSelfNext == TypeOK /\ NoSelf /\ [Next]_vars => NoSelf'
<1> SUFFICES ASSUME TypeOK, NoSelf, [Next]_vars, NEW d \in Device
             PROVE  /\ link'[d][d] = "none"
                    /\ ev'[d].pc = "enqueue" => d \notin ev'[d].to
  BY DEF NoSelf
<1> USE DEF fileVars, engineVars, netVars, sessionVars, lifeVars, ghostVars
<1>0. link[d][d] = "none" /\ d \notin Peers(d)
  BY DEF NoSelf, Peers
<1>1. link'[d][d] = "none"
  <2>1. ASSUME NEW x \in Device, NEW e \in Device,
               PeerStored(x, e) \/ ChannelStored(x, e) \/ ChannelCloses(x, e)
        PROVE  link'[d][d] = "none"
    <3>1. ~ (x = d /\ e = d)
      BY <1>0, <2>1 DEF PeerStored, ChannelStored, ChannelCloses
    <3>2. \E l : link' = [link EXCEPT ![x][e] = l]
      BY <2>1 DEF PeerStored, ChannelStored, ChannelCloses
    <3> QED
      BY <1>0, <3>1, <3>2 DEF TypeOK
  <2>2. \/ link' = link
        \/ \E x, e \in Device :
              PeerStored(x, e) \/ ChannelStored(x, e) \/ ChannelCloses(x, e)
    <3>1. ASSUME NEW x \in Device, HandleFileEvent(x) \/ EventSaveFails(x)
          PROVE  link' = link
      BY <3>1 DEF HandleFileEvent, EventRead, EventReadFails, Takes, EventDeleted,
         EventBump, EventSave, EventPeers, EventEnqueue, EventSaveFails
    <3>2. ASSUME NEW x \in Device, ProcessQueue(x)
          PROVE  link' = link
      BY <3>2 DEF ProcessQueue, UploadNext, UploadDone, UploadRead,
         UploadReadFails, UploadLook, UploadSend, UploadSendFails
    <3>3. ASSUME NEW x \in Device,
                 ReceiveFile(x) \/ ReceiveWriteFails(x) \/ ReceiveSaveFails(x)
          PROVE  link' = link
      BY <3>3 DEF ReceiveFile, ReceiveRejects, ReceiveConflict,
         ReceiveUndecryptable, ReceiveAccepts, ReceiveWrite, ReceiveMerge,
         ReceiveSave, ReceiveWriteFails, ReceiveSaveFails
    <3>4. ASSUME NEW x \in Device, Surroundings(x) \/ StopSync(x) \/ ReplaceEngine(x)
          PROVE  \/ link' = link
                 \/ \E e \in Device :
                       PeerStored(x, e) \/ ChannelStored(x, e) \/ ChannelCloses(x, e)
      <4>1. CASE Watch(x) \/ BlocksOnGuard(x) \/ \E p \in Path : UserChanges(x, p)
        BY <4>1 DEF Watch, WatcherReports, WatchFails, DeleteReported, Forward,
           BlocksOnGuard, UserChanges
      <4>2. CASE StartSync(x) \/ StopSync(x) \/ ReplaceEngine(x)
        BY <4>2 DEF StartSync, StopSync, ReplaceEngine, DropEngine
      <4>3. ASSUME NEW e \in Device, ReceiverLags(x, e)
            PROVE  link' = link
        BY <4>3 DEF ReceiverLags
      <4> QED
        BY <3>4, <4>1, <4>2, <4>3 DEF Surroundings
    <3>5. CASE UNCHANGED vars
      BY <3>5 DEF vars
    <3> QED
      BY <3>1, <3>2, <3>3, <3>4, <3>5, StepsOfNext
  <2> QED
    BY <1>0, <2>1, <2>2
<1>2. ASSUME ev'[d].pc = "enqueue" PROVE d \notin ev'[d].to
  <2>1. CASE ev'[d] = ev[d]
    BY <1>2, <2>1 DEF NoSelf
  <2>2. CASE ev'[d] # ev[d]
    <3>1. EventPeers(d)
      <4>1. ASSUME NEW x \in Device, HandleFileEvent(x) \/ EventSaveFails(x)
            PROVE  EventPeers(d)
        BY <1>2, <2>2, <4>1 DEF HandleFileEvent, EventRead, EventReadFails, Takes,
           EventDeleted, EventBump, EventSave, EventPeers, EventEnqueue,
           EventSaveFails, Idle, TypeOK
      <4>2. ASSUME NEW x \in Device, ProcessQueue(x)
            PROVE  ev' = ev
        BY <4>2 DEF ProcessQueue, UploadNext, UploadDone, UploadRead,
           UploadReadFails, UploadLook, UploadSend, UploadSendFails
      <4>3. ASSUME NEW x \in Device,
                   ReceiveFile(x) \/ ReceiveWriteFails(x) \/ ReceiveSaveFails(x)
            PROVE  ev' = ev
        BY <4>3 DEF ReceiveFile, ReceiveRejects, ReceiveConflict,
           ReceiveUndecryptable, ReceiveAccepts, ReceiveWrite, ReceiveMerge,
           ReceiveSave, ReceiveWriteFails, ReceiveSaveFails
      <4>4. ASSUME NEW x \in Device,
                   Surroundings(x) \/ StopSync(x) \/ ReplaceEngine(x)
            PROVE  ev' = ev
        BY <4>4, StepsKeepingCalls DEF StopSync, ReplaceEngine, DropEngine
      <4>5. ~ UNCHANGED vars
        BY <2>2 DEF vars
      <4> QED
        BY <2>2, <4>1, <4>2, <4>3, <4>4, <4>5, StepsOfNext
    <3>2. ev'[d].to = Peers(d)
      BY <3>1 DEF EventPeers, TypeOK
    <3> QED
      BY <1>0, <3>2
  <2> QED
    BY <2>1, <2>2
<1> QED
  BY <1>1, <1>2

\* What surrounds the calls forgives no loss.
LEMMA LossesStay ==
    ASSUME NEW x \in Device, Surroundings(x) \/ StopSync(x) \/ ReplaceEngine(x)
    PROVE  \A t \in dropped : t \in dropped'
<1> USE DEF fileVars, engineVars, netVars, sessionVars, lifeVars, ghostVars
<1>1. CASE Watch(x) \/ BlocksOnGuard(x) \/ \E p \in Path : UserChanges(x, p)
  BY <1>1 DEF Watch, WatcherReports, WatchFails, DeleteReported, Forward,
     BlocksOnGuard, UserChanges
<1>2. CASE StartSync(x)
  BY <1>2 DEF StartSync
<1>3. CASE DropEngine(x)
  BY <1>3 DEF DropEngine
<1>4. ASSUME NEW e \in Device, \/ PeerStored(x, e) \/ ChannelStored(x, e)
                              \/ ChannelCloses(x, e) \/ ReceiverLags(x, e)
      PROVE  \A t \in dropped : t \in dropped'
  BY <1>4 DEF PeerStored, ChannelStored, ChannelCloses, ReceiverLags
<1> QED
  BY <1>1, <1>2, <1>3, <1>4 DEF Surroundings, StopSync, ReplaceEngine

\* A save ends in the row or in a failure that is remembered, and only a save
\* makes up for an earlier failure.
SavesEnd(d) ==
    /\ ev[d].pc = "save" =>
          \/ ev'[d] = ev[d] \/ <<d, d, ev[d].path>> \in dropped'
          \/ meta'[d][ev[d].path].vec = ev[d].vec
    /\ rx[d].pc = "save" =>
          \/ rx'[d] = rx[d] \/ <<d, d, rx[d].path>> \in dropped'
          \/ meta'[d][rx[d].path].vec = rx[d].vec
    /\ \A p \in Path : <<d, d, p>> \in dropped =>
          \/ <<d, d, p>> \in dropped'
          \/ ev[d].pc = "save" /\ ev[d].path = p /\ meta'[d][p].vec = ev[d].vec
          \/ rx[d].pc = "save" /\ rx[d].path = p /\ meta'[d][p].vec = rx[d].vec

LEMMA SavesEndNext ==
    ASSUME TypeOK, NoSelf, [Next]_vars, NEW d \in Device
    PROVE  SavesEnd(d)
<1> USE DEF fileVars, engineVars, netVars, sessionVars, lifeVars, ghostVars
<1>1. ASSUME ev'[d] = ev[d], rx'[d] = rx[d],
             \A p \in Path : <<d, d, p>> \in dropped => <<d, d, p>> \in dropped'
      PROVE  SavesEnd(d)
  BY <1>1 DEF SavesEnd
<1>2. CASE UNCHANGED vars
  BY <1>1, <1>2 DEF vars
<1>3. ASSUME NEW x \in Device, HandleFileEvent(x) \/ EventSaveFails(x), x # d
      PROVE  SavesEnd(d)
  <2>1. /\ ev'[d] = ev[d] /\ rx' = rx
        /\ \A p \in Path : <<d, d, p>> \in dropped => <<d, d, p>> \in dropped'
    <3>1. CASE \/ EventRead(x) \/ EventReadFails(x) \/ EventDeleted(x)
               \/ EventBump(x) \/ EventPeers(x) \/ EventSaveFails(x)
      BY <1>3, <3>1 DEF EventRead, EventReadFails, Takes, EventDeleted, EventBump,
         EventPeers, EventSaveFails, TypeOK
    <3>2. CASE EventSave(x)
      BY <1>3, <3>2 DEF EventSave, TypeOK
    <3>3. CASE EventEnqueue(x)
      <4>1. ev'[d] = ev[d] /\ rx' = rx
        BY <1>3, <3>3 DEF EventEnqueue, TypeOK
      <4>2. \A p \in Path : <<d, d, p>> \in dropped => <<d, d, p>> \in dropped'
        BY <1>3, <3>3 DEF EventEnqueue
      <4> QED
        BY <4>1, <4>2
    <3> QED
      BY <1>3, <3>1, <3>2, <3>3 DEF HandleFileEvent
  <2> QED
    BY <1>1, <2>1
<1>4. ASSUME NEW x \in Device, ProcessQueue(x)
      PROVE  SavesEnd(d)
  <2>1. ev' = ev /\ rx' = rx /\ \A t \in dropped : t \in dropped'
    BY <1>4 DEF ProcessQueue, UploadNext, UploadDone, UploadRead,
       UploadReadFails, UploadLook, UploadSend, UploadSendFails
  <2> QED
    BY <1>1, <2>1
<1>5. ASSUME NEW x \in Device,
             ReceiveFile(x) \/ ReceiveWriteFails(x) \/ ReceiveSaveFails(x), x # d
      PROVE  SavesEnd(d)
  <2>1. /\ rx'[d] = rx[d] /\ ev' = ev
        /\ \A p \in Path : <<d, d, p>> \in dropped => <<d, d, p>> \in dropped'
    BY <1>5 DEF ReceiveFile, ReceiveRejects, ReceiveConflict,
       ReceiveUndecryptable, ReceiveAccepts, ReceiveWrite, ReceiveMerge,
       ReceiveSave, ReceiveWriteFails, ReceiveSaveFails, TypeOK
  <2> QED
    BY <1>1, <2>1
<1>6. ASSUME NEW x \in Device, Surroundings(x) \/ StopSync(x) \/ ReplaceEngine(x)
      PROVE  SavesEnd(d)
  <2>1. ev' = ev /\ rx' = rx
    BY <1>6, StepsKeepingCalls DEF StopSync, ReplaceEngine, DropEngine
  <2>2. \A t \in dropped : t \in dropped'
    BY <1>6, LossesStay
  <2> QED
    BY <1>1, <2>1, <2>2
<1>7. CASE EventSave(d)
  <2>1. ev[d].pc = "save" /\ ev[d].path \in Path /\ rx' = rx
    BY <1>7, EventLocals DEF EventSave
  <2>2. meta'[d][ev[d].path].vec = ev[d].vec
    BY <1>7, <2>1 DEF EventSave, SaveFileMeta, TypeOK
  <2>3. \A p \in Path : <<d, d, p>> \in dropped =>
           p = ev[d].path \/ <<d, d, p>> \in dropped'
    BY <1>7 DEF EventSave
  <2> QED
    BY <2>1, <2>2, <2>3 DEF SavesEnd
<1>8. CASE EventSaveFails(d)
  <2>1. /\ <<d, d, ev[d].path>> \in dropped' /\ rx' = rx
        /\ \A t \in dropped : t \in dropped'
    BY <1>8 DEF EventSaveFails, GivenUp
  <2> QED
    BY <2>1 DEF SavesEnd
<1>9. CASE EventEnqueue(d)
  <2>1. ev[d].pc = "enqueue" /\ d \notin ev[d].to /\ rx' = rx
    BY <1>9 DEF EventEnqueue, NoSelf
  <2>2. \A p \in Path : <<d, d, p>> \in dropped => <<d, d, p>> \in dropped'
    BY <1>9, <2>1 DEF EventEnqueue
  <2> QED
    BY <2>1, <2>2 DEF SavesEnd
<1>10. CASE \/ EventRead(d) \/ EventReadFails(d) \/ EventDeleted(d)
            \/ EventBump(d) \/ EventPeers(d)
  <2>1. /\ ev[d].pc # "save" /\ rx' = rx /\ dropped' = dropped
    BY <1>10 DEF EventRead, EventReadFails, Takes, EventDeleted, EventBump,
       EventPeers, Idle
  <2> QED
    BY <2>1 DEF SavesEnd
<1>11. CASE ReceiveSave(d)
  <2>1. rx[d].pc = "save" /\ rx[d].path \in Path /\ ev' = ev
    BY <1>11, ReceiveLocals DEF ReceiveSave
  <2>2. meta'[d][rx[d].path].vec = rx[d].vec
    BY <1>11, <2>1 DEF ReceiveSave, SaveFileMeta, TypeOK
  <2>3. \A p \in Path : <<d, d, p>> \in dropped =>
           p = rx[d].path \/ <<d, d, p>> \in dropped'
    BY <1>11 DEF ReceiveSave
  <2> QED
    BY <2>1, <2>2, <2>3 DEF SavesEnd
<1>12. CASE ReceiveSaveFails(d)
  <2>1. /\ <<d, d, rx[d].path>> \in dropped' /\ ev' = ev
        /\ \A t \in dropped : t \in dropped'
    BY <1>12 DEF ReceiveSaveFails
  <2> QED
    BY <2>1 DEF SavesEnd
<1>13. CASE ReceiveFile(d) \/ ReceiveWriteFails(d)
  <2>1. ASSUME ~ ReceiveSave(d)
        PROVE  /\ rx[d].pc # "save" /\ ev' = ev
               /\ \A t \in dropped : t \in dropped'
    BY <1>13, <2>1 DEF ReceiveFile, ReceiveRejects, ReceiveConflict,
       ReceiveUndecryptable, ReceiveAccepts, Arrives, ReceiveWrite,
       ReceiveMerge, ReceiveWriteFails, Idle
  <2> QED
    BY <1>11, <2>1 DEF SavesEnd
<1> QED
  BY <1>2, <1>3, <1>4, <1>5, <1>6, <1>7, <1>8, <1>9, <1>10, <1>12, <1>13,
     StepsOfNext DEF HandleFileEvent

\* A row not yet written, or given up, is the only one that differs.
RowsMatch ==
    \A d \in Device :
        /\ ev[d].pc = "save" => ev[d].vec = vv[d][ev[d].path]
        /\ rx[d].pc = "save" => rx[d].vec = vv[d][rx[d].path]
        /\ \A p \in Path :
              \/ <<d, d, p>> \in dropped
              \/ ev[d].pc = "save" /\ ev[d].path = p
              \/ rx[d].pc = "save" /\ rx[d].path = p
              \/ meta[d][p].vec = vv[d][p]

LEMMA RowsMatchNext ==
    ASSUME TypeOK, NoSelf, ClientInv, Serialised, RowsMatch, [Next]_vars,
           \A d \in Device : ~ DropEngine(d)
    PROVE  RowsMatch'
<1> SUFFICES ASSUME NEW d \in Device
             PROVE  /\ ev'[d].pc = "save" => ev'[d].vec = vv'[d][ev'[d].path]
                    /\ rx'[d].pc = "save" => rx'[d].vec = vv'[d][rx'[d].path]
                    /\ \A p \in Path :
                          \/ <<d, d, p>> \in dropped'
                          \/ ev'[d].pc = "save" /\ ev'[d].path = p
                          \/ rx'[d].pc = "save" /\ rx'[d].path = p
                          \/ meta'[d][p].vec = vv'[d][p]
  BY DEF RowsMatch
<1>1. SavesFresh(d) /\ SavesEnd(d)
  BY SaveSteps, SavesEndNext
<1>2. /\ ev[d].pc = "save" => ev[d].vec = vv[d][ev[d].path]
      /\ rx[d].pc = "save" => rx[d].vec = vv[d][rx[d].path]
      /\ \A p \in Path :
            \/ <<d, d, p>> \in dropped
            \/ ev[d].pc = "save" /\ ev[d].path = p
            \/ rx[d].pc = "save" /\ rx[d].path = p
            \/ meta[d][p].vec = vv[d][p]
  BY DEF RowsMatch
<1>3. \/ vv'[d] = vv[d]
      \/ EventBump(d) \/ ReceiveMerge(d)
  BY MapSteps DEF EventBump, ReceiveMerge, TypeOK
<1>4. ev[d].pc = "save" \/ rx[d].pc = "save" => vv'[d] = vv[d]
  BY <1>3 DEF ClientInv, OneCall, EventBump, ReceiveMerge
<1>5. ev'[d].pc = "save" => ev'[d].vec = vv'[d][ev'[d].path]
  BY <1>1, <1>2, <1>4 DEF SavesFresh
<1>6. rx'[d].pc = "save" => rx'[d].vec = vv'[d][rx'[d].path]
  BY <1>1, <1>2, <1>4 DEF SavesFresh
<1>7. ASSUME NEW p \in Path, <<d, d, p>> \notin dropped',
             ~ (ev'[d].pc = "save" /\ ev'[d].path = p),
             ~ (rx'[d].pc = "save" /\ rx'[d].path = p)
      PROVE  meta'[d][p].vec = vv'[d][p]
  <2>1. CASE ev[d].pc = "save" /\ ev[d].path = p
    BY <1>1, <1>2, <1>4, <1>7, <2>1 DEF SavesEnd
  <2>2. CASE rx[d].pc = "save" /\ rx[d].path = p
    BY <1>1, <1>2, <1>4, <1>7, <2>2 DEF SavesEnd
  <2>3. CASE /\ ~ (ev[d].pc = "save" /\ ev[d].path = p)
             /\ ~ (rx[d].pc = "save" /\ rx[d].path = p)
    <3>1. <<d, d, p>> \notin dropped /\ meta'[d][p] = meta[d][p]
      BY <1>1, <1>7, <2>3 DEF SavesEnd, SavesFresh
    <3>2. meta[d][p].vec = vv[d][p]
      BY <1>2, <2>3, <3>1
    <3>3. vv'[d][p] = vv[d][p]
      <4>1. CASE EventBump(d)
        <5>1. ev'[d].pc = "save" /\ ev'[d].path = ev[d].path
          BY <4>1 DEF EventBump, TypeOK
        <5> QED
          BY <1>7, <4>1, <5>1 DEF EventBump, TypeOK
      <4>2. CASE ReceiveMerge(d)
        <5>1. rx'[d].pc = "save" /\ rx'[d].path = rx[d].msg.path
          BY <4>2 DEF ReceiveMerge, TypeOK
        <5> QED
          BY <1>7, <4>2, <5>1 DEF ReceiveMerge, TypeOK
      <4> QED
        BY <1>3, <4>1, <4>2
    <3> QED
      BY <3>1, <3>2, <3>3
  <2> QED
    BY <2>1, <2>2, <2>3
<1> QED
  BY <1>5, <1>6, <1>7

\* Behind the client's mutex the row of a path is, between calls, the vector
\* in memory, unless the store failed on it: no older copy is written last.
THEOREM RowsAgree == Spec => []RowMatchesMemory
<1> DEFINE I == Serialised /\ resets = 0 => RowsMatch
<1>1. Init => I
  <2>1. ASSUME Init, NEW d \in Device
        PROVE  /\ ev[d].pc = "idle" /\ rx[d].pc = "idle"
               /\ \A p \in Path : meta[d][p].vec = vv[d][p]
    BY <2>1 DEF Init, Idle, NoMeta
  <2> QED
    BY <2>1 DEF RowsMatch
<1>2. TypeOK /\ NoSelf /\ ClientInv /\ I /\ [Next]_vars => I'
  BY DropCounts, RowsMatchNext
<1>3. I => RowMatchesMemory
  <2> SUFFICES ASSUME Serialised, resets = 0, RowsMatch,
                      NEW d \in Device, NEW p \in Path,
                      AllIdle(d), <<d, d, p>> \notin dropped
               PROVE  meta[d][p].vec = vv[d][p]
    BY DEF RowMatchesMemory
  <2>1. ev[d].pc = "idle" /\ rx[d].pc = "idle"
    BY DEF AllIdle, Idle
  <2> QED
    BY <2>1 DEF RowsMatch
<1> QED
  BY <1>1, <1>2, <1>3, TypeCorrect, NoSelfInit, NoSelfNext, ClientInit, ClientNext,
     PTL DEF Spec

-----------------------------------------------------------------------------
(* Changes on their way to the engine.                                     *)

InEvents(q, p) == \E i \in DOMAIN q : q[i] = [kind |-> "modified", path |-> p]

\* The engine will look at p, or a failure kept it from that, or there is
\* nothing to look at.
Coming(d, p) ==
    \/ disk[d][p] = Missing \/ p \in missed[d]
    \/ p \in dirty[d] \/ InEvents(evq[d], p)

\* The step that reads p.
Reads(d, p) ==
    EventRead(d) /\ Head(evq[d]) = [kind |-> "modified", path |-> p]

\* The steps that touch the file, the watcher or its channel.
FileStep(d) ==
    \/ \E p \in Path : UserChanges(d, p)
    \/ Watch(d) \/ EventRead(d) \/ EventReadFails(d) \/ EventDeleted(d)
    \/ ReceiveWrite(d) \/ ReceiveWriteFails(d)

SameFiles(d) ==
    /\ disk'[d] = disk[d] /\ dirty'[d] = dirty[d] /\ evq'[d] = evq[d]
    /\ missed'[d] = missed[d]

LEMMA FileSteps ==
    ASSUME TypeOK, [Next]_vars, NEW d \in Device, ~ FileStep(d)
    PROVE  SameFiles(d)
<1> USE DEF fileVars, engineVars, netVars, sessionVars, lifeVars, ghostVars
<1>1. CASE UNCHANGED fileVars
  BY <1>1 DEF SameFiles
<1>2. ASSUME NEW x \in Device, HandleFileEvent(x) \/ EventSaveFails(x)
      PROVE  SameFiles(d)
  <2>1. CASE EventRead(x) \/ EventReadFails(x) \/ EventDeleted(x)
    <3>1. x # d
      BY <2>1 DEF FileStep
    <3> QED
      BY <2>1, <3>1 DEF EventRead, EventReadFails, Takes, EventDeleted, SameFiles,
         TypeOK
  <2> QED
    BY <1>1, <1>2, <2>1 DEF HandleFileEvent, EventBump, EventSave, EventPeers,
       EventEnqueue, EventSaveFails
<1>3. ASSUME NEW x \in Device, ProcessQueue(x)
      PROVE  SameFiles(d)
  BY <1>1, <1>3 DEF ProcessQueue, UploadNext, UploadDone, UploadRead,
     UploadReadFails, UploadLook, UploadSend, UploadSendFails
<1>4. ASSUME NEW x \in Device,
             ReceiveFile(x) \/ ReceiveWriteFails(x) \/ ReceiveSaveFails(x)
      PROVE  SameFiles(d)
  <2>1. CASE ReceiveWrite(x) \/ ReceiveWriteFails(x)
    <3>1. x # d
      BY <2>1 DEF FileStep
    <3> QED
      BY <2>1, <3>1 DEF ReceiveWrite, ReceiveWriteFails, SameFiles, TypeOK
  <2> QED
    BY <1>1, <1>4, <2>1 DEF ReceiveFile, ReceiveRejects, ReceiveConflict,
       ReceiveUndecryptable, ReceiveAccepts, ReceiveMerge, ReceiveSave,
       ReceiveSaveFails
<1>5. ASSUME NEW x \in Device, Watch(x) \/ \E p \in Path : UserChanges(x, p)
      PROVE  SameFiles(d)
  <2>1. x # d
    BY <1>5 DEF FileStep
  <2> QED
    BY <1>5, <2>1 DEF Watch, WatcherReports, WatchFails, DeleteReported, Forward,
       UserChanges, SameFiles, TypeOK
<1>6. ASSUME NEW x \in Device, Surroundings(x), ~ Watch(x),
             ~ \E p \in Path : UserChanges(x, p)
      PROVE  UNCHANGED fileVars
  BY <1>6 DEF Surroundings, BlocksOnGuard, PeerStored, ChannelStored,
     ChannelCloses, ReceiverLags, StartSync
<1>7. ASSUME NEW x \in Device, StopSync(x) \/ ReplaceEngine(x)
      PROVE  UNCHANGED fileVars
  BY <1>7 DEF StopSync, ReplaceEngine, DropEngine
<1>8. CASE UNCHANGED vars
  BY <1>1, <1>8 DEF vars
<1> QED
  BY <1>1, <1>2, <1>3, <1>4, <1>5, <1>6, <1>7, <1>8, StepsOfNext

\* An event that waits keeps waiting until handle_file_event takes it.
LEMMA EventsWait ==
    ASSUME NEW q \in Seq(FileEvent), q # <<>>, NEW p, InEvents(q, p),
           Head(q) # [kind |-> "modified", path |-> p]
    PROVE  InEvents(Tail(q), p)
<1>1. PICK i \in DOMAIN q : q[i] = [kind |-> "modified", path |-> p]
  BY DEF InEvents
<1>2. i # 1 /\ i \in 1 .. Len(q) /\ Len(q) \in Nat
  BY <1>1
<1>3. i - 1 \in 1 .. Len(q) - 1 /\ i = (i - 1) + 1
  BY <1>2
<1>4. i - 1 \in DOMAIN Tail(q) /\ Tail(q)[i - 1] = q[i]
  BY <1>2, <1>3
<1> QED
  BY <1>1, <1>4 DEF InEvents

LEMMA EventsJoin ==
    ASSUME NEW q \in Seq(FileEvent), NEW e \in FileEvent
    PROVE  /\ \A p : InEvents(q, p) => InEvents(Append(q, e), p)
           /\ \A p : e = [kind |-> "modified", path |-> p] => InEvents(Append(q, e), p)
<1>1. /\ \A i \in DOMAIN q : i \in DOMAIN Append(q, e) /\ Append(q, e)[i] = q[i]
      /\ Len(q) + 1 \in DOMAIN Append(q, e) /\ Append(q, e)[Len(q) + 1] = e
  OBVIOUS
<1> QED
  BY <1>1 DEF InEvents

\* What is coming is lost on no way but the one into handle_file_event.
LEMMA ComingStays ==
    ASSUME TypeOK, [Next]_vars, NEW d \in Device, NEW p \in Path, Coming(d, p),
           ~ Reads(d, p)
    PROVE  Coming(d, p)'
<1> DEFINE Still == \/ disk'[d][p] = Missing \/ p \in missed'[d]
                    \/ p \in dirty'[d] \/ InEvents(evq'[d], p)
<1> SUFFICES Still
  BY DEF Coming
<1>0. evq[d] \in Seq(FileEvent)
  BY DEF TypeOK
<1>1. CASE ~ FileStep(d)
  BY <1>1, FileSteps DEF Coming, SameFiles
<1>2. ASSUME NEW x \in Path, UserChanges(d, x)
      PROVE  Still
  BY <1>2 DEF UserChanges, Coming, TypeOK
<1>3. ASSUME NEW x \in Path, NEW k \in {"modified", "deleted"}, Forward(d, k, x),
             k = "deleted" => disk[d][x] = Missing
      PROVE  Still
  <2>1. /\ disk' = disk /\ missed' = missed /\ dirty'[d] = dirty[d] \ {x}
        /\ evq'[d] = Append(evq[d], [kind |-> k, path |-> x])
    BY <1>3 DEF Forward, TypeOK
  <2>2. [kind |-> k, path |-> x] \in FileEvent
    BY DEF FileEvent
  <2> QED
    BY <1>0, <1>3, <2>1, <2>2, EventsJoin DEF Coming
<1>4. ASSUME NEW x \in Path, WatchFails(d, x)
      PROVE  Still
  <2>1. /\ disk' = disk /\ evq' = evq /\ dirty'[d] = dirty[d] \ {x}
        /\ missed'[d] = missed[d] \cup {x}
    BY <1>4 DEF WatchFails, TypeOK
  <2> QED
    BY <2>1 DEF Coming
<1>5. CASE Watch(d)
  BY <1>3, <1>4, <1>5 DEF Watch, WatcherReports, DeleteReported
<1>6. CASE EventRead(d) \/ EventReadFails(d) \/ EventDeleted(d)
  <2>1. /\ evq[d] # <<>> /\ evq'[d] = Tail(evq[d]) /\ disk' = disk /\ dirty' = dirty
        /\ EventDeleted(d) => Head(evq[d]).kind = "deleted"
    BY <1>6, <1>0 DEF EventRead, EventReadFails, Takes, EventDeleted, TypeOK, fileVars
  <2>2. CASE Head(evq[d]) # [kind |-> "modified", path |-> p]
    <3>1. p \in missed[d] => p \in missed'[d]
      <4>1. CASE EventDeleted(d)
        BY <4>1 DEF EventDeleted
      <4>2. CASE EventReadFails(d)
        BY <4>2 DEF EventReadFails, TypeOK
      <4>3. CASE EventRead(d)
        <5>1. Head(evq[d]) \in FileEvent /\ Head(evq[d]).kind = "modified"
          BY <1>0, <2>1, <4>3 DEF EventRead, Takes
        <5>2. Head(evq[d]).path # p
          BY <2>2, <5>1 DEF FileEvent
        <5>3. missed'[d] = missed[d] \ {Head(evq[d]).path}
          BY <4>3 DEF EventRead, TypeOK
        <5> QED
          BY <5>2, <5>3
      <4> QED
        BY <1>6, <4>1, <4>2, <4>3
    <3> QED
      BY <1>0, <2>1, <2>2, <3>1, EventsWait DEF Coming
  <2>3. CASE Head(evq[d]) = [kind |-> "modified", path |-> p]
    <3>1. EventReadFails(d)
      BY <1>6, <2>1, <2>3 DEF Reads
    <3>2. disk[d][p] = Missing \/ p \in missed'[d]
      BY <2>3, <3>1 DEF EventReadFails, TypeOK
    <3> QED
      BY <2>1, <3>2
  <2> QED
    BY <2>2, <2>3
<1>7. CASE ReceiveWrite(d) \/ ReceiveWriteFails(d)
  <2>1. /\ evq' = evq /\ missed' = missed
        /\ disk'[d][p] = disk[d][p] \/ p \in dirty'[d]
        /\ p \in dirty[d] => p \in dirty'[d]
    BY <1>7 DEF ReceiveWrite, ReceiveWriteFails, TypeOK
  <2> QED
    BY <2>1 DEF Coming
<1> QED
  BY <1>1, <1>2, <1>5, <1>6, <1>7 DEF FileStep

\* A file changes in sight of the watcher.
LEMMA ChangesAreSeen ==
    ASSUME TypeOK, [Next]_vars, NEW d \in Device, NEW p \in Path
    PROVE  disk'[d][p] = disk[d][p] \/ p \in dirty'[d]
<1>1. CASE ~ FileStep(d)
  BY <1>1, FileSteps DEF SameFiles
<1>2. ASSUME NEW x \in Path, UserChanges(d, x)
      PROVE  disk'[d][p] = disk[d][p] \/ p \in dirty'[d]
  BY <1>2 DEF UserChanges, TypeOK
<1>3. CASE Watch(d) \/ EventRead(d) \/ EventReadFails(d) \/ EventDeleted(d)
  BY <1>3 DEF Watch, WatcherReports, WatchFails, DeleteReported, Forward,
     EventRead, EventReadFails, EventDeleted
<1>4. CASE ReceiveWrite(d) \/ ReceiveWriteFails(d)
  BY <1>4 DEF ReceiveWrite, ReceiveWriteFails, TypeOK
<1> QED
  BY <1>1, <1>2, <1>3, <1>4 DEF FileStep
-----------------------------------------------------------------------------

Handling(d, p) == ev[d].pc \in {"bump", "save"} /\ ev[d].path = p

\* A content that is not the row's is coming, being handled or given up; what
\* is handled is the file as it is now, and what was received is coming too.
Noticed ==
    \A d \in Device :
        /\ \A p \in Path :
              \/ disk[d][p] = meta[d][p].hash
              \/ <<d, d, p>> \in dropped
              \/ Coming(d, p) \/ Handling(d, p)
        /\ \A p \in Path :
              Handling(d, p) => ev[d].content = disk[d][p] \/ Coming(d, p)
        /\ rx[d].pc = "merge" => Coming(d, rx[d].msg.path)
        /\ rx[d].pc = "save" => Coming(d, rx[d].path)

\* Steps of another device, or of this one outside the handling of changes.
Aside(d) ==
    /\ meta'[d] = meta[d]
    /\ \A p \in Path : <<d, d, p>> \in dropped => <<d, d, p>> \in dropped'
    /\ ev[d].pc \in {"bump", "save"} \/ ev'[d].pc \in {"bump", "save"} => ev'[d] = ev[d]
    /\ rx'[d].pc \in {"merge", "save"} => rx'[d] = rx[d]

LEMMA HandlingSteps ==
    ASSUME TypeOK, NoSelf, [Next]_vars, NEW d \in Device
    PROVE  \/ Aside(d)
           \/ EventRead(d) \/ EventBump(d) \/ EventSave(d) \/ EventSaveFails(d)
           \/ ReceiveWrite(d) \/ ReceiveMerge(d) \/ ReceiveSave(d)
<1> USE DEF fileVars, engineVars, netVars, sessionVars, lifeVars, ghostVars
<1>1. CASE UNCHANGED vars
  BY <1>1 DEF vars, Aside
<1>2. ASSUME NEW x \in Device, ProcessQueue(x)
      PROVE  Aside(d)
  <2>1. ev' = ev /\ rx' = rx /\ meta' = meta /\ \A t \in dropped : t \in dropped'
    BY <1>2 DEF ProcessQueue, UploadNext, UploadDone, UploadRead,
       UploadReadFails, UploadLook, UploadSend, UploadSendFails
  <2> QED
    BY <2>1 DEF Aside
<1>3. ASSUME NEW x \in Device, Surroundings(x) \/ StopSync(x) \/ ReplaceEngine(x)
      PROVE  Aside(d)
  <2>1. ev' = ev /\ rx' = rx /\ meta' = meta
    BY <1>3, StepsKeepingCalls DEF StopSync, ReplaceEngine, DropEngine
  <2>2. \A t \in dropped : t \in dropped'
    BY <1>3, LossesStay
  <2> QED
    BY <2>1, <2>2 DEF Aside
<1>4. ASSUME NEW x \in Device, EventEnqueue(x)
      PROVE  Aside(d)
  <2>1. /\ rx' = rx /\ meta' = meta /\ ev[x].pc = "enqueue"
        /\ ev'[x].pc = "idle" /\ \A y \in Device : y # x => ev'[y] = ev[y]
    BY <1>4 DEF EventEnqueue, Idle, TypeOK
  <2>2. \A p \in Path : <<d, d, p>> \in dropped => <<d, d, p>> \in dropped'
    <3>1. x = d => d \notin ev[x].to
      BY <2>1 DEF NoSelf
    <3> QED
      BY <1>4, <3>1 DEF EventEnqueue
  <2> QED
    BY <2>1, <2>2 DEF Aside
<1>5. ASSUME NEW x \in Device, EventReadFails(x) \/ EventDeleted(x) \/ EventPeers(x)
      PROVE  Aside(d)
  BY <1>5 DEF EventReadFails, EventDeleted, Takes, EventPeers, Idle, Aside, TypeOK
<1>6. ASSUME NEW x \in Device, x # d,
             \/ EventRead(x) \/ EventBump(x) \/ EventSave(x) \/ EventSaveFails(x)
      PROVE  Aside(d)
  BY <1>6 DEF EventRead, EventBump, EventSave, EventSaveFails, SaveFileMeta,
     Aside, TypeOK
<1>7. ASSUME NEW x \in Device, x # d,
             ReceiveWrite(x) \/ ReceiveMerge(x) \/ ReceiveSave(x)
      PROVE  Aside(d)
  BY <1>7 DEF ReceiveWrite, ReceiveMerge, ReceiveSave, SaveFileMeta, Aside, TypeOK
<1>8. ASSUME NEW x \in Device, ReceiveWriteFails(x) \/ ReceiveSaveFails(x)
      PROVE  Aside(d)
  <2>1. ev' = ev /\ meta' = meta /\ \A t \in dropped : t \in dropped'
    BY <1>8 DEF ReceiveWriteFails, ReceiveSaveFails
  <2>2. rx' = [rx EXCEPT ![x] = Idle]
    BY <1>8 DEF ReceiveWriteFails, ReceiveSaveFails
  <2>3. rx'[d] = rx[d] \/ rx'[d].pc = "idle"
    BY <2>2 DEF Idle, TypeOK
  <2> QED
    BY <2>1, <2>3 DEF Aside
<1>9. ASSUME NEW x \in Device, NEW e \in Device,
             \/ ReceiveRejects(x, e) \/ ReceiveConflict(x, e)
             \/ ReceiveUndecryptable(x, e) \/ ReceiveAccepts(x, e)
      PROVE  Aside(d)
  <2>1. ev' = ev /\ meta' = meta /\ \A t \in dropped : t \in dropped'
    BY <1>9 DEF ReceiveRejects, ReceiveConflict, ReceiveUndecryptable,
       ReceiveAccepts
  <2>2. CASE ReceiveAccepts(x, e)
    <3>1. rx'[d] = rx[d] \/ rx'[d].pc = "write"
      BY <2>2 DEF ReceiveAccepts, TypeOK
    <3> QED
      BY <2>1, <3>1 DEF Aside
  <2>3. CASE ~ ReceiveAccepts(x, e)
    <3>1. rx' = rx
      BY <1>9, <2>3 DEF ReceiveRejects, ReceiveConflict, ReceiveUndecryptable
    <3> QED
      BY <2>1, <3>1 DEF Aside
  <2> QED
    BY <2>2, <2>3
<1>10. ASSUME NEW x \in Device, HandleFileEvent(x) \/ EventSaveFails(x)
       PROVE  \/ Aside(d)
              \/ EventRead(d) \/ EventBump(d) \/ EventSave(d) \/ EventSaveFails(d)
  BY <1>4, <1>5, <1>6, <1>10 DEF HandleFileEvent
<1>11. ASSUME NEW x \in Device,
              ReceiveFile(x) \/ ReceiveWriteFails(x) \/ ReceiveSaveFails(x)
       PROVE  Aside(d) \/ ReceiveWrite(d) \/ ReceiveMerge(d) \/ ReceiveSave(d)
  BY <1>7, <1>8, <1>9, <1>11 DEF ReceiveFile
<1> QED
  BY <1>1, <1>2, <1>3, <1>10, <1>11, StepsOfNext

LEMMA NoticedNext ==
    ASSUME TypeOK, NoSelf, ClientInv, Serialised, Noticed, [Next]_vars
    PROVE  Noticed'
<1> USE DEF fileVars, engineVars, netVars, sessionVars, lifeVars, ghostVars
<1> SUFFICES ASSUME NEW d \in Device
             PROVE  /\ \A p \in Path :
                          \/ disk'[d][p] = meta'[d][p].hash
                          \/ <<d, d, p>> \in dropped'
                          \/ Coming(d, p)' \/ Handling(d, p)'
                    /\ \A p \in Path : Handling(d, p)' =>
                          ev'[d].content = disk'[d][p] \/ Coming(d, p)'
                    /\ rx'[d].pc = "merge" => Coming(d, rx[d].msg.path)'
                    /\ rx'[d].pc = "save" => Coming(d, rx[d].path)'
  BY DEF Noticed
<1>1. /\ \A p \in Path :
            \/ disk[d][p] = meta[d][p].hash
            \/ <<d, d, p>> \in dropped
            \/ Coming(d, p) \/ Handling(d, p)
      /\ \A p \in Path : Handling(d, p) => ev[d].content = disk[d][p] \/ Coming(d, p)
      /\ rx[d].pc = "merge" => Coming(d, rx[d].msg.path)
      /\ rx[d].pc = "save" => Coming(d, rx[d].path)
  BY DEF Noticed
<1>2. \A p \in Path : disk'[d][p] = disk[d][p] \/ Coming(d, p)'
  BY ChangesAreSeen DEF Coming
<1>3. ASSUME ~ EventRead(d)
      PROVE  \A p \in Path : Coming(d, p) => Coming(d, p)'
  BY <1>3, ComingStays DEF Reads
<1>4. /\ rx[d].pc = "merge" => rx[d].msg.path \in Path
      /\ rx[d].pc = "save" => rx[d].path \in Path
  BY ReceiveLocals DEF FileMsg
<1>5. CASE Aside(d) /\ ~ EventRead(d)
  <2>1. \A p \in Path : Handling(d, p)' <=> Handling(d, p)
    BY <1>5 DEF Aside, Handling
  <2>2. \A p \in Path : Handling(d, p) => ev'[d] = ev[d]
    BY <1>5 DEF Aside, Handling
  <2>3. rx'[d].pc = "merge" => Coming(d, rx[d].msg.path)'
    BY <1>1, <1>3, <1>4, <1>5 DEF Aside, Coming
  <2>4. rx'[d].pc = "save" => Coming(d, rx[d].path)'
    BY <1>1, <1>3, <1>4, <1>5 DEF Aside, Coming
  <2>5. \A p \in Path :
           \/ disk'[d][p] = meta'[d][p].hash
           \/ <<d, d, p>> \in dropped'
           \/ Coming(d, p)' \/ Handling(d, p)'
    BY <1>1, <1>2, <1>3, <1>5, <2>1 DEF Aside
  <2> QED
    BY <1>1, <1>2, <1>3, <1>5, <2>1, <2>2, <2>3, <2>4, <2>5
<1>6. CASE EventRead(d)
  <2>1. /\ rx[d].pc = "idle" /\ ev[d].pc = "idle" /\ rx' = rx /\ meta' = meta
        /\ dropped' = dropped /\ disk' = disk
    BY <1>6 DEF EventRead, Takes, CanCall, AllIdle, Idle
  <2>2. \A p \in Path : Reads(d, p) =>
           ev'[d].pc = "bump" /\ ev'[d].path = p /\ ev'[d].content = disk[d][p]
    BY <1>6 DEF EventRead, Reads, TypeOK
  <2>3. \A p \in Path : ~ Handling(d, p)
    BY <2>1 DEF Handling
  <2>4. \A p \in Path : Handling(d, p)' => ev'[d].content = disk'[d][p]
    BY <1>6, <2>1 DEF EventRead, Handling, TypeOK
  <2>5. ASSUME NEW p \in Path
        PROVE  \/ disk'[d][p] = meta'[d][p].hash
               \/ <<d, d, p>> \in dropped'
               \/ Coming(d, p)' \/ Handling(d, p)'
    <3>1. CASE Reads(d, p)
      BY <2>1, <2>2, <3>1 DEF Coming, Handling
    <3>2. CASE ~ Reads(d, p) /\ Coming(d, p)
      BY <3>2, ComingStays
    <3>3. CASE ~ Coming(d, p)
      BY <1>1, <2>1, <2>3, <3>3
    <3> QED
      BY <3>1, <3>2, <3>3
  <2> QED
    BY <2>1, <2>4, <2>5
<1>7. CASE EventBump(d)
  <2>1. /\ ev[d].pc = "bump" /\ ev'[d].pc = "save" /\ ev'[d].path = ev[d].path
        /\ ev'[d].content = ev[d].content /\ rx' = rx /\ meta' = meta
        /\ dropped' = dropped
    BY <1>7 DEF EventBump, TypeOK
  <2>2. rx[d].pc = "idle" /\ ~ EventRead(d)
    BY <2>1 DEF ClientInv, OneCall, EventRead, Takes, Idle
  <2>3. \A p \in Path : Handling(d, p)' <=> Handling(d, p)
    BY <2>1 DEF Handling
  <2> QED
    BY <1>1, <1>2, <1>3, <2>1, <2>2, <2>3
<1>8. CASE EventSave(d)
  <2>1. /\ ev[d].pc = "save" /\ ev'[d].pc = "peers" /\ rx' = rx /\ ev[d].path \in Path
        /\ \A p \in Path : p # ev[d].path =>
              /\ meta'[d][p] = meta[d][p]
              /\ <<d, d, p>> \in dropped => <<d, d, p>> \in dropped'
        /\ meta'[d][ev[d].path].hash = ev[d].content
    BY <1>8, EventLocals DEF EventSave, SaveFileMeta, TypeOK
  <2>2. rx[d].pc = "idle" /\ ~ EventRead(d)
    BY <2>1 DEF ClientInv, OneCall, EventRead, Takes, Idle
  <2>3. /\ \A p \in Path : ~ Handling(d, p)'
        /\ \A p \in Path : Handling(d, p) <=> p = ev[d].path
    BY <2>1 DEF Handling
  <2> QED
    BY <1>1, <1>2, <1>3, <2>1, <2>2, <2>3
<1>9. CASE EventSaveFails(d)
  <2>1. /\ ev[d].pc = "save" /\ ev'[d].pc = "idle" /\ rx' = rx /\ meta' = meta
        /\ ev[d].path \in Path
        /\ \A t \in dropped : t \in dropped'
        /\ <<d, d, ev[d].path>> \in dropped'
    BY <1>9, EventLocals DEF EventSaveFails, GivenUp, Idle, TypeOK
  <2>2. rx[d].pc = "idle" /\ ~ EventRead(d)
    BY <2>1 DEF ClientInv, OneCall, EventRead, Takes, Idle
  <2>3. /\ \A p \in Path : ~ Handling(d, p)'
        /\ \A p \in Path : Handling(d, p) => p = ev[d].path
    BY <2>1 DEF Handling
  <2> QED
    BY <1>1, <1>2, <1>3, <2>1, <2>2, <2>3
<1>10. CASE ReceiveWrite(d) \/ ReceiveMerge(d) \/ ReceiveSave(d)
  <2>1. ev[d].pc = "idle" /\ ev' = ev /\ ~ EventRead(d)
    BY <1>10 DEF ReceiveWrite, ReceiveMerge, ReceiveSave, ClientInv, OneCall,
       EventRead, Takes, CanCall, AllIdle, Idle
  <2>2. \A p \in Path : ~ Handling(d, p) /\ ~ Handling(d, p)'
    BY <2>1 DEF Handling
  <2>3. CASE ReceiveWrite(d)
    <3>1. rx[d] \in [pc : {"write", "merge"}, from : Device, msg : FileMsg]
      BY <2>3 DEF ReceiveWrite, TypeOK, ReceiveCall
    <3>2. /\ meta' = meta /\ dropped' = dropped /\ rx'[d].pc = "merge"
          /\ rx'[d].msg.path \in dirty'[d]
      BY <2>3, <3>1 DEF ReceiveWrite, TypeOK
    <3> QED
      BY <1>1, <1>2, <1>3, <2>1, <2>2, <3>2 DEF Coming
  <2>4. CASE ReceiveMerge(d)
    <3>1. /\ meta' = meta /\ dropped' = dropped /\ rx[d].pc = "merge"
          /\ rx'[d].pc = "save" /\ rx'[d].path = rx[d].msg.path
      BY <2>4 DEF ReceiveMerge, TypeOK
    <3>2. Coming(d, rx[d].path)'
      BY <1>1, <1>3, <1>4, <2>1, <3>1 DEF Coming
    <3> QED
      BY <1>1, <1>2, <1>3, <2>1, <2>2, <3>1, <3>2
  <2>5. CASE ReceiveSave(d)
    <3>1. /\ rx[d].pc = "save" /\ rx'[d].pc = "idle"
          /\ \A p \in Path : p # rx[d].path =>
                /\ meta'[d][p] = meta[d][p]
                /\ <<d, d, p>> \in dropped => <<d, d, p>> \in dropped'
      BY <2>5 DEF ReceiveSave, SaveFileMeta, Idle, TypeOK
    <3> QED
      BY <1>1, <1>2, <1>3, <1>4, <2>1, <2>2, <3>1
  <2> QED
    BY <1>10, <2>3, <2>4, <2>5
<1> QED
  BY <1>5, <1>6, <1>7, <1>8, <1>9, <1>10, HandlingSteps

\* Behind the client's mutex a file whose content is not the one recorded for
\* it is still to be handled, unless the watcher, a read or the store failed
\* on it.
THEOREM ChangesAreHandled == Spec => []ChangeNeverForgotten
<1> DEFINE I == Serialised => Noticed
<1>1. Init => I
  <2>1. ASSUME Init, NEW d \in Device
        PROVE  /\ ev[d].pc = "idle" /\ rx[d].pc = "idle"
               /\ \A p \in Path : disk[d][p] = Missing
    BY <2>1 DEF Init, Idle
  <2> QED
    BY <2>1 DEF Noticed, Coming, Handling
<1>2. TypeOK /\ NoSelf /\ ClientInv /\ I /\ [Next]_vars => I'
  BY NoticedNext
<1>3. I => ChangeNeverForgotten
  BY DEF Noticed, Coming, Handling, InEvents, ChangeNeverForgotten
<1> QED
  BY <1>1, <1>2, <1>3, TypeCorrect, NoSelfInit, NoSelfNext, ClientInit, ClientNext,
     PTL DEF Spec

-----------------------------------------------------------------------------
(* Versions on their way to a peer.                                        *)

Queued(d, e, p) ==
    \E i \in DOMAIN queue[d] : queue[d][i] = [kind |-> "upload", to |-> e, path |-> p]
BeingRead(d, e, p) == up[d].pc \in {"read", "look"} /\ up[d].to = e /\ up[d].path = p
BeingSent(d, e, p, n) ==
    /\ up[d].pc = "send" /\ up[d].to = e /\ up[d].msg.kind = "metadata"
    /\ up[d].msg.path = p /\ Get(up[d].msg.vec, d) >= n
Carries(m, d, p, n) == m.kind = "metadata" /\ m.path = p /\ Get(m.vec, d) >= n
InChannel(d, e, p, n) == \E i \in DOMAIN chan[d][e] : Carries(chan[d][e][i], d, p, n)
BeingReceived(d, e, p, n) ==
    /\ rx[e].pc \in {"write", "merge"} /\ rx[e].from = d
    /\ rx[e].msg.path = p /\ Get(rx[e].msg.vec, d) >= n

\* InTransit, where the receiver took the message from d itself: only then
\* does it count as lost when the receiver fails.
Carried(d, e, p, n) ==
    \/ Queued(d, e, p) \/ BeingRead(d, e, p) \/ BeingSent(d, e, p, n)
    \/ InChannel(d, e, p, n) \/ BeingReceived(d, e, p, n)

LEMMA ChannelHead ==
    ASSUME TypeOK, NEW d \in Device, NEW e \in Device, chan[d][e] # <<>>
    PROVE  /\ Head(chan[d][e]) \in Message
           /\ \A i \in DOMAIN chan[d][e] :
                 \/ chan[d][e][i] = Head(chan[d][e])
                 \/ \E j \in DOMAIN Tail(chan[d][e]) : Tail(chan[d][e])[j] = chan[d][e][i]
<1>1. chan[d][e] \in Seq(Message)
  BY DEF TypeOK
<1>2. PICK s \in Seq(Message) : s = chan[d][e]
  BY <1>1
<1>3. Head(s) \in Message /\ Head(s) = s[1]
  BY <1>2
<1>4. ASSUME NEW i \in DOMAIN s, i # 1
      PROVE  \E j \in DOMAIN Tail(s) : Tail(s)[j] = s[i]
  <2>1. i - 1 \in DOMAIN Tail(s) /\ Tail(s)[i - 1] = s[i]
    BY <1>2, <1>4
  <2> QED
    BY <2>1
<1> QED
  BY <1>2, <1>3, <1>4

\* process_queue hands a version on from the queue to the channel, or an error
\* path gives it up.
LEMMA UploadsCarry ==
    ASSUME TypeOK, TasksHaveVector, NEW d \in Device, NEW e \in Device, NEW p \in Path,
           NEW n \in Nat, n <= Get(vv[d][p], d), ProcessQueue(d), Carried(d, e, p, n)
    PROVE  Carried(d, e, p, n)' \/ <<d, e, p>> \in dropped'
<1> USE DEF fileVars, engineVars, netVars, sessionVars, lifeVars, ghostVars
<1>1. rx' = rx
  BY DEF ProcessQueue, UploadNext, UploadDone, UploadRead, UploadReadFails,
     UploadLook, UploadSend, UploadSendFails
<1>2. CASE BeingReceived(d, e, p, n)
  BY <1>1, <1>2 DEF Carried, BeingReceived
<1>3. CASE InChannel(d, e, p, n)
  <2>1. chan' = chan \/ UploadSend(d)
    BY DEF ProcessQueue, UploadNext, UploadDone, UploadRead, UploadReadFails,
       UploadLook, UploadSend, UploadSendFails
  <2>2. CASE chan'[d][e] = chan[d][e]
    BY <1>3, <2>2 DEF Carried, InChannel
  <2>3. CASE UploadSend(d) /\ chan'[d][e] # chan[d][e]
    <3>1. chan'[d][e] = Append(chan[d][e], up[d].msg)
      BY <2>3 DEF UploadSend, Sent, TypeOK
    <3>2. chan[d][e] \in Seq(Message)
      BY DEF TypeOK
    <3>3. \A i \in DOMAIN chan[d][e] :
             i \in DOMAIN chan'[d][e] /\ chan'[d][e][i] = chan[d][e][i]
      BY <3>1, <3>2
    <3> QED
      BY <1>3, <3>3 DEF Carried, InChannel
  <2> QED
    BY <2>1, <2>2, <2>3
<1>4. CASE BeingSent(d, e, p, n)
  <2>1. UploadSend(d) \/ UploadSendFails(d)
    BY <1>4 DEF BeingSent, ProcessQueue, UploadNext, UploadDone, UploadRead,
       UploadReadFails, UploadLook, Idle
  <2>2. CASE UploadSend(d)
    <3>1. chan'[d][e] = Append(chan[d][e], up[d].msg)
      BY <1>4, <2>2 DEF BeingSent, UploadSend, Sent, TypeOK
    <3>2. chan[d][e] \in Seq(Message)
      BY DEF TypeOK
    <3>3. /\ Len(chan[d][e]) + 1 \in DOMAIN chan'[d][e]
          /\ chan'[d][e][Len(chan[d][e]) + 1] = up[d].msg
      BY <3>1, <3>2
    <3> QED
      BY <1>4, <3>3 DEF Carried, InChannel, Carries, BeingSent
  <2>3. CASE UploadSendFails(d)
    BY <1>4, <2>3 DEF BeingSent, UploadSendFails
  <2> QED
    BY <2>1, <2>2, <2>3
<1>5. CASE BeingRead(d, e, p)
  <2>1. UploadRead(d) \/ UploadReadFails(d) \/ UploadLook(d)
    BY <1>5 DEF BeingRead, ProcessQueue, UploadNext, UploadDone, UploadSend,
       UploadSendFails, Idle
  <2>2. CASE UploadRead(d)
    <3>1. up'[d].pc = "look" /\ up'[d].to = e /\ up'[d].path = p
      BY <1>5, <2>2 DEF BeingRead, UploadRead, TypeOK
    <3> QED
      BY <3>1 DEF Carried, BeingRead
  <2>3. CASE UploadReadFails(d)
    BY <1>5, <2>3 DEF BeingRead, UploadReadFails
  <2>4. CASE UploadLook(d)
    <3>1. vv[d][p] # NoVector
      BY <1>5 DEF BeingRead, TasksHaveVector
    <3>2. /\ up'[d].pc = "send" /\ up'[d].to = e /\ up'[d].msg.kind = "metadata"
          /\ up'[d].msg.path = p /\ up'[d].msg.vec = vv[d][p]
      BY <1>5, <2>4, <3>1 DEF BeingRead, UploadLook, TypeOK
    <3>3. vv[d][p] \in Vector
      BY DEF TypeOK
    <3> QED
      BY <3>2, <3>3, GetType DEF Carried, BeingSent
  <2> QED
    BY <2>1, <2>2, <2>3, <2>4
<1>6. CASE Queued(d, e, p)
  <2>1. CASE queue' = queue
    BY <1>6, <2>1 DEF Carried, Queued
  <2>2. CASE UploadNext(d)
    <3>1. queue[d] \in Seq(Task) /\ queue[d] # <<>>
      BY <2>2 DEF UploadNext, TypeOK
    <3>2. PICK i \in DOMAIN queue[d] :
             queue[d][i] = [kind |-> "upload", to |-> e, path |-> p]
      BY <1>6 DEF Queued
    <3>3. queue'[d] = Tail(queue[d])
      BY <2>2 DEF UploadNext, TypeOK
    <3>4. CASE i = 1
      <4>1. Head(queue[d]) = [kind |-> "upload", to |-> e, path |-> p]
        BY <3>1, <3>2, <3>4
      <4>2. /\ Head(queue[d]).kind = "upload" /\ Head(queue[d]).to = e
            /\ Head(queue[d]).path = p
        BY <4>1
      <4>3. up'[d] = [pc |-> "read", to |-> Head(queue[d]).to,
                      path |-> Head(queue[d]).path]
        BY <2>2, <4>2 DEF UploadNext, TypeOK
      <4>4. up'[d].pc = "read" /\ up'[d].to = e /\ up'[d].path = p
        BY <4>2, <4>3
      <4> QED
        BY <4>4 DEF Carried, BeingRead
    <3>5. CASE i # 1
      <4>1. i - 1 \in DOMAIN Tail(queue[d]) /\ Tail(queue[d])[i - 1] = queue[d][i]
        BY <3>1, <3>2, <3>5
      <4> QED
        BY <3>2, <3>3, <4>1 DEF Carried, Queued
    <3> QED
      BY <3>4, <3>5
  <2>3. queue' = queue \/ UploadNext(d)
    BY DEF ProcessQueue, UploadDone, UploadRead, UploadReadFails,
       UploadLook, UploadSend, UploadSendFails
  <2> QED
    BY <2>1, <2>2, <2>3
<1> QED
  BY <1>2, <1>3, <1>4, <1>5, <1>6 DEF Carried

\* A message taken from the channel is what a version is carried by, or the
\* others still carry it.
LEMMA TakenFromChannel ==
    ASSUME TypeOK, NEW d \in Device, NEW e \in Device, NEW x \in Device, NEW p, NEW n,
           chan[x][e] # <<>>, chan' = [chan EXCEPT ![x][e] = Tail(@)],
           InChannel(d, e, p, n)
    PROVE  InChannel(d, e, p, n)' \/ (x = d /\ Carries(Head(chan[d][e]), d, p, n))
<1>1. CASE x # d
  BY <1>1 DEF InChannel, TypeOK
<1>2. CASE x = d
  <2>1. chan'[d][e] = Tail(chan[d][e])
    BY <1>2 DEF TypeOK
  <2> QED
    BY <1>2, <2>1, ChannelHead DEF InChannel
<1> QED
  BY <1>1, <1>2

\* A version the receiver gives up is known to it or named in dropped.
LEMMA LostOrKnown ==
    ASSUME TypeOK, NEW d \in Device, NEW e \in Device, NEW p \in Path, NEW n \in Nat,
           NEW m, m.path = p, m.vec \in Vector, Get(m.vec, d) >= n
    PROVE  Knows(e, d, p, n) \/ <<d, e, p>> \in LostNews(e, d, m)
<1>1. vv[e][p] \in Vector
  BY DEF TypeOK
<1>2. Get(vv[e][p], d) \in Nat /\ Get(m.vec, d) \in Nat
  BY <1>1, GetType
<1> QED
  BY <1>2 DEF Knows, LostNews, IsNews

\* receive_file, or the broadcast, brings a version on, or names its loss.
LEMMA ReceivesCarry ==
    ASSUME TypeOK, NEW d \in Device, NEW e \in Device, NEW p \in Path, NEW n \in Nat,
           \/ ReceiveFile(e) \/ ReceiveWriteFails(e) \/ ReceiveSaveFails(e)
           \/ \E x \in Device : ReceiverLags(e, x),
           Carried(d, e, p, n)
    PROVE  \/ Carried(d, e, p, n)' \/ <<d, e, p>> \in dropped'
           \/ Knows(e, d, p, n) \/ Knows(e, d, p, n)'
<1> USE DEF fileVars, engineVars, netVars, sessionVars, lifeVars, ghostVars
<1>1. queue' = queue /\ up' = up
  BY DEF ReceiveFile, ReceiveRejects, ReceiveConflict, ReceiveUndecryptable,
     ReceiveAccepts, ReceiveWrite, ReceiveMerge, ReceiveSave,
     ReceiveWriteFails, ReceiveSaveFails, ReceiverLags
<1>2. CASE Queued(d, e, p) \/ BeingRead(d, e, p) \/ BeingSent(d, e, p, n)
  BY <1>1, <1>2 DEF Carried, Queued, BeingRead, BeingSent
<1>3. CASE BeingReceived(d, e, p, n)
  <2>0. rx[e].msg \in FileMsg /\ rx[e].msg.vec \in Vector
    BY <1>3, ReceiveLocals DEF BeingReceived, FileMsg
  <2>1. CASE rx'[e] = rx[e]
    BY <1>3, <2>1 DEF Carried, BeingReceived
  <2>2. CASE ReceiveWrite(e)
    <3>1. rx[e] \in [pc : {"write", "merge"}, from : Device, msg : FileMsg]
      BY <2>2 DEF ReceiveWrite, TypeOK, ReceiveCall
    <3>2. rx'[e].pc = "merge" /\ rx'[e].from = rx[e].from /\ rx'[e].msg = rx[e].msg
      BY <2>2, <3>1 DEF ReceiveWrite, TypeOK
    <3> QED
      BY <1>3, <3>2 DEF Carried, BeingReceived
  <2>3. CASE ReceiveWriteFails(e)
    <3>1. dropped' = dropped \cup LostNews(e, d, rx[e].msg)
      BY <1>3, <2>3 DEF ReceiveWriteFails, BeingReceived
    <3> QED
      BY <1>3, <2>0, <3>1, LostOrKnown DEF BeingReceived
  <2>4. CASE ReceiveMerge(e)
    <3>1. vv'[e][p] = Merge(OrNew(vv[e][p], e), rx[e].msg.vec)
      BY <1>3, <2>4 DEF ReceiveMerge, BeingReceived, Merged, TypeOK
    <3>2. vv[e][p] \in Vector
      BY DEF TypeOK
    <3>3. Get(vv'[e][p], d) = Max2(Get(vv[e][p], d), Get(rx[e].msg.vec, d))
      BY <2>0, <3>1, <3>2, OrNewType, GetMerge, GetOrNew
    <3> QED
      BY <1>3, <2>0, <3>2, <3>3, GetType DEF Knows, Max2, BeingReceived
  <2>5. ASSUME NEW x \in Device
        PROVE  /\ ~ ReceiveRejects(e, x) /\ ~ ReceiveConflict(e, x)
               /\ ~ ReceiveUndecryptable(e, x) /\ ~ ReceiveAccepts(e, x)
               /\ ReceiverLags(e, x) => rx' = rx
    BY <1>3 DEF BeingReceived, ReceiveRejects, ReceiveConflict,
       ReceiveUndecryptable, ReceiveAccepts, Arrives, Idle, ReceiverLags
  <2>6. ~ ReceiveSave(e) /\ ~ ReceiveSaveFails(e)
    BY <1>3 DEF BeingReceived, ReceiveSave, ReceiveSaveFails
  <2> QED
    BY <2>1, <2>2, <2>3, <2>4, <2>5, <2>6 DEF ReceiveFile
<1>4. CASE InChannel(d, e, p, n)
  <2>1. CASE chan' = chan
    BY <1>4, <2>1 DEF Carried, InChannel
  <2>2. ASSUME NEW x \in Device, chan[x][e] # <<>>,
               chan' = [chan EXCEPT ![x][e] = Tail(@)], ~ InChannel(d, e, p, n)'
        PROVE  /\ x = d /\ Carries(Head(chan[d][e]), d, p, n)
               /\ Head(chan[d][e]) \in FileMsg /\ Head(chan[d][e]).vec \in Vector
    <3>1. x = d /\ Carries(Head(chan[d][e]), d, p, n)
      BY <1>4, <2>2, TakenFromChannel
    <3> QED
      BY <2>2, <3>1, ChannelHead, MessageFields DEF Carries
  <2>3. ASSUME NEW x \in Device,
               \/ ReceiveConflict(e, x) \/ ReceiveUndecryptable(e, x)
               \/ ReceiverLags(e, x), ~ InChannel(d, e, p, n)'
        PROVE  Knows(e, d, p, n) \/ <<d, e, p>> \in dropped'
    <3>1. chan[x][e] # <<>> /\ chan' = [chan EXCEPT ![x][e] = Tail(@)]
      BY <2>3 DEF ReceiveConflict, ReceiveUndecryptable, ReceiverLags, Arrives
    <3>2. /\ x = d /\ Carries(Head(chan[d][e]), d, p, n)
          /\ Head(chan[d][e]).vec \in Vector
      BY <2>2, <2>3, <3>1
    <3>3. dropped' = dropped \cup LostNews(e, d, Head(chan[d][e]))
      BY <2>3, <3>2 DEF ReceiveConflict, ReceiveUndecryptable, ReceiverLags, Carries
    <3> QED
      BY <3>2, <3>3, LostOrKnown DEF Carries
  <2>4. ASSUME NEW x \in Device, ReceiveRejects(e, x)
        PROVE  InChannel(d, e, p, n)'
    <3>1. /\ chan[x][e] # <<>> /\ chan' = [chan EXCEPT ![x][e] = Tail(@)]
          /\ Head(chan[x][e]).kind = "delete"
      BY <2>4 DEF ReceiveRejects, Arrives
    <3> QED
      BY <2>2, <3>1 DEF Carries
  <2>5. ASSUME NEW x \in Device, ReceiveAccepts(e, x), ~ InChannel(d, e, p, n)'
        PROVE  BeingReceived(d, e, p, n)'
    <3>1. chan[x][e] # <<>> /\ chan' = [chan EXCEPT ![x][e] = Tail(@)]
      BY <2>5 DEF ReceiveAccepts, Arrives
    <3>2. x = d /\ Carries(Head(chan[d][e]), d, p, n)
      BY <2>2, <2>5, <3>1
    <3>3. rx'[e].pc = "write" /\ rx'[e].from = d /\ rx'[e].msg = Head(chan[d][e])
      BY <2>5, <3>2 DEF ReceiveAccepts, TypeOK
    <3> QED
      BY <3>2, <3>3 DEF BeingReceived, Carries
  <2>6. CASE \/ ReceiveWrite(e) \/ ReceiveMerge(e) \/ ReceiveSave(e)
             \/ ReceiveWriteFails(e) \/ ReceiveSaveFails(e)
    <3>1. chan' = chan
      BY <2>6 DEF ReceiveWrite, ReceiveMerge, ReceiveSave, ReceiveWriteFails,
         ReceiveSaveFails
    <3> QED
      BY <2>1, <3>1
  <2> QED
    BY <2>3, <2>4, <2>5, <2>6 DEF ReceiveFile, Carried
<1> QED
  BY <1>2, <1>3, <1>4 DEF Carried

LEMMA VersionsAreCarried ==
    ASSUME TypeOK, TasksHaveVector, [Next]_vars, NEW d \in Device, NEW e \in Device,
           NEW p \in Path, NEW n \in Nat, n <= Get(vv[d][p], d), ~ DropEngine(d),
           Carried(d, e, p, n)
    PROVE  \/ Carried(d, e, p, n)' \/ <<d, e, p>> \in dropped'
           \/ Knows(e, d, p, n) \/ Knows(e, d, p, n)'
<1> USE DEF fileVars, engineVars, netVars, sessionVars, lifeVars, ghostVars
<1>1. ASSUME queue'[d] = queue[d], up'[d] = up[d], chan'[d][e] = chan[d][e],
             rx'[e] = rx[e]
      PROVE  Carried(d, e, p, n)'
  BY <1>1 DEF Carried, Queued, BeingRead, BeingSent, InChannel, BeingReceived
<1>2. CASE UNCHANGED vars
  BY <1>1, <1>2 DEF vars
<1>3. ASSUME NEW x \in Device, HandleFileEvent(x) \/ EventSaveFails(x)
      PROVE  Carried(d, e, p, n)'
  <2>1. up' = up /\ chan' = chan /\ rx' = rx
    BY <1>3 DEF HandleFileEvent, EventRead, EventReadFails, Takes, EventDeleted,
       EventBump, EventSave, EventPeers, EventEnqueue, EventSaveFails
  <2>2. CASE queue'[d] = queue[d]
    BY <1>1, <2>1, <2>2
  <2>3. CASE EventEnqueue(d)
    <3>1. \A i \in DOMAIN queue[d] :
             i \in DOMAIN queue'[d] /\ queue'[d][i] = queue[d][i]
      BY <2>3, EnqueuedTasks
    <3>2. Queued(d, e, p) => Queued(d, e, p)'
      BY <3>1 DEF Queued
    <3> QED
      BY <2>1, <3>2 DEF Carried, BeingRead, BeingSent, InChannel, BeingReceived
  <2>4. ASSUME x # d, EventEnqueue(x)
        PROVE  queue'[d] = queue[d]
    BY <2>4 DEF EventEnqueue, TypeOK
  <2>5. ASSUME ~ EventEnqueue(x)
        PROVE  queue' = queue
    BY <1>3, <2>5 DEF HandleFileEvent, EventRead, EventReadFails, Takes,
       EventDeleted, EventBump, EventSave, EventPeers, EventSaveFails
  <2> QED
    BY <2>2, <2>3, <2>4, <2>5
<1>4. ASSUME NEW x \in Device, ProcessQueue(x), x # d
      PROVE  Carried(d, e, p, n)'
  BY <1>1, <1>4 DEF ProcessQueue, UploadNext, UploadDone, UploadRead,
     UploadReadFails, UploadLook, UploadSend, UploadSendFails, TypeOK
<1>5. ASSUME NEW x \in Device, x # e,
             \/ ReceiveFile(x) \/ ReceiveWriteFails(x) \/ ReceiveSaveFails(x)
             \/ \E y \in Device : ReceiverLags(x, y)
      PROVE  Carried(d, e, p, n)'
  <2>1. queue' = queue /\ up' = up
    BY <1>5 DEF ReceiveFile, ReceiveRejects, ReceiveConflict, ReceiveUndecryptable,
       ReceiveAccepts, ReceiveWrite, ReceiveMerge, ReceiveSave,
       ReceiveWriteFails, ReceiveSaveFails, ReceiverLags
  <2>2. \/ chan' = chan
        \/ \E y \in Device : chan' = [chan EXCEPT ![y][x] = Tail(@)]
    BY <1>5 DEF ReceiveFile, ReceiveRejects, ReceiveConflict, ReceiveUndecryptable,
       ReceiveAccepts, Arrives, ReceiveWrite, ReceiveMerge, ReceiveSave,
       ReceiveWriteFails, ReceiveSaveFails, ReceiverLags
  <2>3. chan'[d][e] = chan[d][e]
    <3>1. ASSUME NEW y \in Device, chan' = [chan EXCEPT ![y][x] = Tail(@)]
          PROVE  chan'[d][e] = chan[d][e]
      <4>1. CASE y = d
        BY <1>5, <3>1, <4>1 DEF TypeOK
      <4>2. CASE y # d
        BY <3>1, <4>2 DEF TypeOK
      <4> QED
        BY <4>1, <4>2
    <3> QED
      BY <2>2, <3>1
  <2>4. rx'[e] = rx[e]
    BY <1>5 DEF ReceiveFile, ReceiveRejects, ReceiveConflict, ReceiveUndecryptable,
       ReceiveAccepts, ReceiveWrite, ReceiveMerge, ReceiveSave,
       ReceiveWriteFails, ReceiveSaveFails, ReceiverLags, TypeOK
  <2> QED
    BY <1>1, <2>1, <2>3, <2>4
<1>6. ASSUME NEW x \in Device, Surroundings(x)
      PROVE  \/ UNCHANGED <<queue, up, rx, chan>>
             \/ \E y \in Device : ReceiverLags(x, y)
  <2>1. UNCHANGED <<queue, up, rx>>
    BY <1>6, StepsKeepingCalls
  <2>2. CASE Watch(x) \/ BlocksOnGuard(x) \/ \E q \in Path : UserChanges(x, q)
    BY <2>1, <2>2 DEF Watch, WatcherReports, WatchFails, DeleteReported, Forward,
       BlocksOnGuard, UserChanges
  <2>3. CASE StartSync(x)
    BY <2>1, <2>3 DEF StartSync
  <2>4. ASSUME NEW y \in Device,
               PeerStored(x, y) \/ ChannelStored(x, y) \/ ChannelCloses(x, y)
        PROVE  chan' = chan
    BY <2>4 DEF PeerStored, ChannelStored, ChannelCloses
  <2> QED
    BY <1>6, <2>1, <2>2, <2>3, <2>4 DEF Surroundings
<1>7. ASSUME NEW x \in Device, StopSync(x) \/ ReplaceEngine(x)
      PROVE  Carried(d, e, p, n)'
  <2>1. DropEngine(x) /\ x # d
    BY <1>7 DEF StopSync, ReplaceEngine
  <2>2. queue'[d] = queue[d] /\ UNCHANGED <<up, rx, chan>>
    BY <2>1 DEF DropEngine, TypeOK
  <2> QED
    BY <1>1, <2>2
<1>8. ASSUME NEW x \in Device, Surroundings(x)
      PROVE  \/ Carried(d, e, p, n)' \/ <<d, e, p>> \in dropped'
             \/ Knows(e, d, p, n) \/ Knows(e, d, p, n)'
  BY <1>1, <1>5, <1>6, <1>8, ReceivesCarry
<1>9. ASSUME NEW x \in Device,
             \/ ReceiveFile(x) \/ ReceiveWriteFails(x) \/ ReceiveSaveFails(x)
      PROVE  \/ Carried(d, e, p, n)' \/ <<d, e, p>> \in dropped'
             \/ Knows(e, d, p, n) \/ Knows(e, d, p, n)'
  BY <1>5, <1>9, ReceivesCarry
<1>10. ASSUME NEW x \in Device, ProcessQueue(x)
       PROVE  Carried(d, e, p, n)' \/ <<d, e, p>> \in dropped'
  BY <1>4, <1>10, UploadsCarry
<1> QED
  BY <1>2, <1>3, <1>7, <1>8, <1>9, <1>10, StepsOfNext

\* What steps do to the two ghosts: enqueue owes what d counts now and forgives
\* earlier losses, a new engine owes nothing, and its peers' versions are lost
\* on it.
GhostStep(d, e, p) ==
    \/ /\ owed'[d][e][p] = owed[d][e][p]
       /\ <<d, e, p>> \in dropped => <<d, e, p>> \in dropped'
       /\ ~ DropEngine(d)
       /\ DropEngine(e) => <<d, e, p>> \in dropped'
    \/ DropEngine(d) /\ owed'[d][e][p] = 0
    \/ /\ EventEnqueue(d) /\ e \in ev[d].to /\ ev[d].path = p
       /\ ev[d].kind = "upload" /\ owed'[d][e][p] = Get(vv[d][p], d)

LEMMA GhostSteps ==
    ASSUME TypeOK, NoSelf, [Next]_vars, NEW d \in Device, NEW e \in Device, d # e,
           NEW p \in Path
    PROVE  GhostStep(d, e, p)
<1> USE DEF fileVars, engineVars, netVars, sessionVars, lifeVars, ghostVars
<1>1. ASSUME owed'[d] = owed[d], <<d, e, p>> \in dropped => <<d, e, p>> \in dropped',
             ~ DropEngine(d), ~ DropEngine(e)
      PROVE  GhostStep(d, e, p)
  BY <1>1 DEF GhostStep
<1>2. CASE DropEngine(d)
  BY <1>2 DEF DropEngine, GhostStep, TypeOK
<1>3. CASE DropEngine(e)
  <2>1. owed'[d] = owed[d] /\ \A t \in dropped : t \in dropped'
    BY <1>3 DEF DropEngine, TypeOK
  <2>2. <<d, e, p>> \in dropped'
    BY <1>3 DEF DropEngine
  <2> QED
    BY <1>2, <2>1, <2>2 DEF GhostStep
<1>4. CASE EventEnqueue(d)
  <2>1. CASE ev[d].kind # "upload"
    <3>1. owed' = owed /\ dropped' = dropped
      BY <1>4, <2>1 DEF EventEnqueue
    <3> QED
      BY <1>1, <1>2, <1>3, <3>1
  <2>2. CASE ev[d].kind = "upload"
    <3>1. /\ owed' = [owed EXCEPT ![d] = [x \in Device |->
                 IF x \in ev[d].to
                 THEN [owed[d][x] EXCEPT ![ev[d].path] = Get(vv[d][ev[d].path], d)]
                 ELSE owed[d][x]]]
          /\ dropped' = dropped \ {<<d, x, ev[d].path>> : x \in ev[d].to}
      BY <1>4, <2>2 DEF EventEnqueue
    <3>2. CASE e \in ev[d].to /\ ev[d].path = p
      BY <1>4, <2>2, <3>1, <3>2 DEF GhostStep, TypeOK
    <3>3. CASE ~ (e \in ev[d].to /\ ev[d].path = p)
      <4>1. owed'[d][e] = IF e \in ev[d].to
                          THEN [owed[d][e] EXCEPT ![ev[d].path] = Get(vv[d][ev[d].path], d)]
                          ELSE owed[d][e]
        BY <3>1 DEF TypeOK
      <4>3. owed'[d][e][p] = owed[d][e][p]
        BY <3>3, <4>1 DEF TypeOK
      <4>2. <<d, e, p>> \in dropped => <<d, e, p>> \in dropped'
        BY <3>1, <3>3
      <4> QED
        BY <1>2, <1>3, <4>2, <4>3 DEF GhostStep
    <3> QED
      BY <3>2, <3>3
  <2> QED
    BY <2>1, <2>2
<1>5. ASSUME NEW x \in Device, HandleFileEvent(x) \/ EventSaveFails(x),
             ~ EventEnqueue(d)
      PROVE  owed'[d] = owed[d] /\ (<<d, e, p>> \in dropped => <<d, e, p>> \in dropped')
  <2>1. CASE \/ EventRead(x) \/ EventReadFails(x) \/ EventDeleted(x)
             \/ EventBump(x) \/ EventPeers(x)
             \/ EventSaveFails(x)
    BY <2>1 DEF EventRead, EventReadFails, Takes, EventDeleted, EventBump,
       EventPeers, EventSaveFails
  <2>2. CASE EventSave(x)
    BY <2>2 DEF EventSave
  <2>3. CASE EventEnqueue(x)
    <3>1. x # d
      BY <1>5, <2>3
    <3>2. CASE ev[x].kind # "upload"
      BY <2>3, <3>2 DEF EventEnqueue
    <3>3. CASE ev[x].kind = "upload"
      <4>1. /\ owed' = [owed EXCEPT ![x] = [y \in Device |->
                   IF y \in ev[x].to
                   THEN [owed[x][y] EXCEPT ![ev[x].path] = Get(vv[x][ev[x].path], x)]
                   ELSE owed[x][y]]]
            /\ dropped' = dropped \ {<<x, y, ev[x].path>> : y \in ev[x].to}
        BY <2>3, <3>3 DEF EventEnqueue
      <4>2. owed'[d] = owed[d]
        BY <3>1, <4>1 DEF TypeOK
      <4>3. <<d, e, p>> \in dropped => <<d, e, p>> \in dropped'
        BY <3>1, <4>1
      <4> QED
        BY <4>2, <4>3
    <3> QED
      BY <3>2, <3>3
  <2> QED
    BY <1>5, <2>1, <2>2, <2>3 DEF HandleFileEvent
<1>6. ASSUME NEW x \in Device, ProcessQueue(x)
      PROVE  owed' = owed /\ \A t \in dropped : t \in dropped'
  BY <1>6 DEF ProcessQueue, UploadNext, UploadDone, UploadRead,
     UploadReadFails, UploadLook, UploadSend, UploadSendFails
<1>7. ASSUME NEW x \in Device,
             ReceiveFile(x) \/ ReceiveWriteFails(x) \/ ReceiveSaveFails(x)
      PROVE  owed' = owed /\ (<<d, e, p>> \in dropped => <<d, e, p>> \in dropped')
  BY <1>7 DEF ReceiveFile, ReceiveRejects, ReceiveConflict, ReceiveUndecryptable,
     ReceiveAccepts, ReceiveWrite, ReceiveMerge, ReceiveSave,
     ReceiveWriteFails, ReceiveSaveFails
<1>8. ASSUME NEW x \in Device, Surroundings(x)
      PROVE  owed' = owed /\ \A t \in dropped : t \in dropped'
  BY <1>8, StepsKeepingCalls, LossesStay
<1>9. ASSUME NEW x \in Device, StopSync(x) \/ ReplaceEngine(x),
             ~ DropEngine(d), ~ DropEngine(e)
      PROVE  owed'[d] = owed[d] /\ (<<d, e, p>> \in dropped => <<d, e, p>> \in dropped')
  <2>1. DropEngine(x) /\ x # d
    BY <1>9 DEF StopSync, ReplaceEngine
  <2>2. owed'[d] = owed[d] /\ \A t \in dropped : t \in dropped'
    BY <2>1 DEF DropEngine, TypeOK
  <2> QED
    BY <2>2
<1>10. CASE UNCHANGED vars
  <2>1. owed' = owed /\ dropped' = dropped
    BY <1>10 DEF vars
  <2> QED
    BY <1>1, <1>2, <1>3, <2>1
<1> QED
  BY <1>1, <1>2, <1>3, <1>4, <1>5, <1>6, <1>7, <1>8, <1>9, <1>10, StepsOfNext

\* A version d counts is settled for e if e knows it, or it is carried, or it
\* was given up.
Settled(d, e, p, n) ==
    /\ n <= Get(vv[d][p], d)
    /\ n = 0 \/ <<d, e, p>> \in dropped \/ Knows(e, d, p, n) \/ Carried(d, e, p, n)

OwedKept ==
    \A d, e \in Device, p \in Path : d # e =>
        \A n \in Nat : n = owed[d][e][p] => Settled(d, e, p, n)

\* Nothing is owed to oneself.
NoOwnDebt == \A d \in Device, p \in Path : owed[d][d][p] = 0

LEMMA NoOwnDebtNext == TypeOK /\ NoSelf /\ NoOwnDebt /\ [Next]_vars => NoOwnDebt'
<1> SUFFICES ASSUME TypeOK, NoSelf, NoOwnDebt, [Next]_vars,
                    NEW d \in Device, NEW p \in Path
             PROVE  owed'[d][d][p] = 0
  BY DEF NoOwnDebt
<1> USE DEF fileVars, engineVars, netVars, sessionVars, lifeVars, ghostVars
<1>0. owed[d][d][p] = 0
  BY DEF NoOwnDebt
<1>1. ASSUME NEW x \in Device, EventEnqueue(x)
      PROVE  owed'[d][d][p] = 0
  <2>1. x = d => d \notin ev[d].to
    BY <1>1 DEF NoSelf, EventEnqueue
  <2>2. CASE ev[x].kind = "upload"
    <3>1. owed' = [owed EXCEPT ![x] = [y \in Device |->
                 IF y \in ev[x].to
                 THEN [owed[x][y] EXCEPT ![ev[x].path] = Get(vv[x][ev[x].path], x)]
                 ELSE owed[x][y]]]
      BY <1>1, <2>2 DEF EventEnqueue
    <3> QED
      BY <1>0, <2>1, <3>1 DEF TypeOK
  <2>3. CASE ev[x].kind # "upload"
    BY <1>0, <1>1, <2>3 DEF EventEnqueue
  <2> QED
    BY <2>2, <2>3
<1>2. ASSUME NEW x \in Device, DropEngine(x)
      PROVE  owed'[d][d][p] = 0
  BY <1>0, <1>2 DEF DropEngine, TypeOK
<1>3. ASSUME NEW x \in Device, HandleFileEvent(x) \/ EventSaveFails(x), ~ EventEnqueue(x)
      PROVE  owed' = owed
  BY <1>3 DEF HandleFileEvent, EventRead, EventReadFails, Takes, EventDeleted,
     EventBump, EventSave, EventPeers, EventSaveFails
<1>4. ASSUME NEW x \in Device, ProcessQueue(x)
      PROVE  owed' = owed
  BY <1>4 DEF ProcessQueue, UploadNext, UploadDone, UploadRead,
     UploadReadFails, UploadLook, UploadSend, UploadSendFails
<1>5. ASSUME NEW x \in Device,
             ReceiveFile(x) \/ ReceiveWriteFails(x) \/ ReceiveSaveFails(x)
      PROVE  owed' = owed
  BY <1>5 DEF ReceiveFile, ReceiveRejects, ReceiveConflict, ReceiveUndecryptable,
     ReceiveAccepts, ReceiveWrite, ReceiveMerge, ReceiveSave,
     ReceiveWriteFails, ReceiveSaveFails
<1>6. ASSUME NEW x \in Device, Surroundings(x)
      PROVE  owed' = owed
  BY <1>6, StepsKeepingCalls
<1>7. CASE UNCHANGED vars
  BY <1>0, <1>7 DEF vars
<1> QED
  BY <1>0, <1>1, <1>2, <1>3, <1>4, <1>5, <1>6, <1>7, StepsOfNext
     DEF StopSync, ReplaceEngine

LEMMA OwedKeptNext ==
    TypeOK /\ NoSelf /\ TasksHaveVector /\ OwedKept /\ [Next]_vars => OwedKept'
<1> SUFFICES ASSUME TypeOK, NoSelf, TasksHaveVector, OwedKept, [Next]_vars,
                    NEW d \in Device, NEW e \in Device, NEW p \in Path, d # e,
                    NEW n \in Nat, n = owed'[d][e][p]
             PROVE  Settled(d, e, p, n)'
  BY DEF OwedKept
<1>1. TypeOK'
  BY TypeNext
<1>2. /\ Get(vv[d][p], d) \in Nat /\ Get(vv'[d][p], d) \in Nat
      /\ Get(vv[e][p], d) \in Nat /\ Get(vv'[e][p], d) \in Nat
  <2>1. /\ vv[d][p] \in Vector /\ vv'[d][p] \in Vector
        /\ vv[e][p] \in Vector /\ vv'[e][p] \in Vector
    BY <1>1 DEF TypeOK
  <2> QED
    BY <2>1, GetType
<1>3. ASSUME ~ DropEngine(d) PROVE Get(vv[d][p], d) <= Get(vv'[d][p], d)
  BY <1>3, VectorSteps DEF Leq
<1>4. ASSUME ~ DropEngine(e) PROVE Get(vv[e][p], d) <= Get(vv'[e][p], d)
  BY <1>4, VectorSteps DEF Leq
<1>5. CASE /\ owed'[d][e][p] = owed[d][e][p]
           /\ <<d, e, p>> \in dropped => <<d, e, p>> \in dropped'
           /\ ~ DropEngine(d)
           /\ DropEngine(e) => <<d, e, p>> \in dropped'
  <2>0. Settled(d, e, p, n)
    BY <1>5 DEF OwedKept
  <2>1. n <= Get(vv[d][p], d) /\ n <= Get(vv'[d][p], d)
    BY <1>2, <1>3, <1>5, <2>0 DEF Settled
  <2>2. ASSUME ~ DropEngine(e), Knows(e, d, p, n) \/ Knows(e, d, p, n)'
        PROVE  Knows(e, d, p, n)'
    <3>1. Get(vv[e][p], d) >= n \/ Get(vv'[e][p], d) >= n
      BY <2>2 DEF Knows
    <3>2. Get(vv'[e][p], d) >= n
      BY <1>2, <1>4, <2>2, <3>1
    <3> QED
      BY <3>2 DEF Knows
  <2>3. ASSUME Carried(d, e, p, n)
        PROVE  \/ Carried(d, e, p, n)' \/ <<d, e, p>> \in dropped'
               \/ Knows(e, d, p, n) \/ Knows(e, d, p, n)'
    BY <1>5, <2>1, <2>3, VersionsAreCarried
  <2>4. \/ n = 0 \/ <<d, e, p>> \in dropped' \/ Knows(e, d, p, n)'
        \/ Carried(d, e, p, n)'
    BY <1>5, <2>0, <2>2, <2>3 DEF Settled
  <2> QED
    BY <2>1, <2>4 DEF Settled
<1>6. CASE DropEngine(d) /\ owed'[d][e][p] = 0
  BY <1>2, <1>6 DEF Settled
<1>7. CASE /\ EventEnqueue(d) /\ e \in ev[d].to /\ ev[d].path = p
           /\ ev[d].kind = "upload" /\ owed'[d][e][p] = Get(vv[d][p], d)
  <2>1. vv' = vv
    BY <1>7 DEF EventEnqueue
  <2>2. Queued(d, e, p)'
    BY <1>7, EnqueuedTasks DEF Queued
  <2>3. n <= Get(vv'[d][p], d)
    BY <1>2, <1>7, <2>1
  <2> QED
    BY <2>2, <2>3 DEF Settled, Carried
<1> QED
  BY <1>5, <1>6, <1>7, GhostSteps DEF GhostStep

\* A queued version is never lost on the way but by a failure that dropped
\* names, however calls overlap and engines come and go, on any number of devices.
THEOREM VersionsArrive == Spec => []VersionNeverVanishes
<1>1. Init => OwedKept /\ NoOwnDebt
  <2>1. ASSUME Init, NEW d \in Device, NEW e \in Device, NEW p \in Path
        PROVE  owed[d][e][p] = 0 /\ Get(vv[d][p], d) \in Nat
    BY <2>1, NoVectorType, GetType DEF Init
  <2> QED
    BY <2>1 DEF OwedKept, NoOwnDebt, Settled
<1>2. Init => TasksHaveVector
  BY TasksHaveVectorInit
<1>3. TypeOK /\ OwedKept /\ NoOwnDebt => VersionNeverVanishes
  <2> SUFFICES ASSUME TypeOK, OwedKept, NoOwnDebt, NEW d \in Device, NEW e \in Device,
                      NEW p \in Path, owed[d][e][p] > 0, <<d, e, p>> \notin dropped,
                      ~ Knows(e, d, p, owed[d][e][p])
               PROVE  InTransit(d, e, p, owed[d][e][p])
    BY DEF VersionNeverVanishes
  <2>1. d # e
    BY DEF NoOwnDebt
  <2>2. PICK n \in Nat : n = owed[d][e][p]
    BY DEF TypeOK
  <2>3. Carried(d, e, p, n)
    BY <2>1, <2>2 DEF OwedKept, Settled
  <2> QED
    BY <2>2, <2>3 DEF Carried, Queued, BeingRead, BeingSent, InChannel, Carries,
       BeingReceived, InTransit
<1> QED
  BY <1>1, <1>2, <1>3, OwedKeptNext, NoOwnDebtNext, TasksHaveVectorNext, NoSelfInit,
     NoSelfNext, TypeCorrect, PTL DEF Spec

\* d has nothing left to do for e, and e takes nothing in.
AtRest(d, e) ==
    /\ \A i \in DOMAIN queue[d] : queue[d][i].to # e
    /\ up[d] = Idle /\ chan[d][e] = <<>> /\ rx[e] = Idle

RestIsCaughtUp ==
    \A d, e \in Device, p \in Path : AtRest(d, e) => CaughtUp(d, e, p)

\* The loops can come to rest only with every peer caught up: once d's queue
\* holds nothing for e, nothing is sent and nothing received, e knows the newest
\* version d queued for it, or a failure that dropped names took it.  That they
\* come to rest is what PeersCatchUp adds.
THEOREM RestMeansCaughtUp == Spec => []RestIsCaughtUp
<1>1. TypeOK /\ VersionNeverVanishes => RestIsCaughtUp
  <2> SUFFICES ASSUME TypeOK, VersionNeverVanishes, NEW d \in Device,
                      NEW e \in Device, NEW p \in Path, AtRest(d, e)
               PROVE  CaughtUp(d, e, p)
    BY DEF RestIsCaughtUp
  <2>1. PICK n \in Nat : n = owed[d][e][p]
    BY DEF TypeOK
  <2>2. Get(vv[e][p], d) \in Nat
    <3>1. vv[e][p] \in Vector
      BY DEF TypeOK
    <3> QED
      BY <3>1, GetType
  <2>3. up[d].pc = "idle" /\ rx[e].pc = "idle"
    BY DEF AtRest, Idle
  <2>4. chan[d][e] = <<>> /\ DOMAIN chan[d][e] = {}
    BY DEF AtRest
  <2>5. \A i \in DOMAIN queue[d] :
           queue[d][i] # [kind |-> "upload", to |-> e, path |-> p]
    BY DEF AtRest
  <2>6. ~ InTransit(d, e, p, n)
    BY <2>3, <2>4, <2>5 DEF InTransit
  <2>7. CASE n = 0
    BY <2>1, <2>2, <2>7 DEF CaughtUp, Knows
  <2>8. CASE n > 0
    BY <2>1, <2>6, <2>8 DEF CaughtUp, VersionNeverVanishes
  <2> QED
    BY <2>7, <2>8
<1> QED
  BY <1>1, TypeCorrect, VersionsArrive, PTL
====
