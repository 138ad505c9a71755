-------------------------- MODULE RtcEngineProofs --------------------------
(***************************************************************************)
(* Proofs about RtcEngine for every set of producible kinds, both profiles  *)
(* and every number of application calls.                                   *)
(***************************************************************************)
EXTENDS RtcEngine, TLAPS

-----------------------------------------------------------------------------
\* The inductive invariant.

\* Which part of its life the engine is in. The client is gone exactly from the
\* start of the destroy task on; the native state can only be past its end while
\* that task is running or after it.
Phase ==
  /\ mStartupClient = "null" <=> (wpc \in DestroyPcs \/ looper = "quit")
  /\ looper = "quit" => wpc = "idle"
  /\ mStartupClient = "null" => serverProducers = {}
  /\ mSendTransport = "closed" => wpc = "free"
  /\ wpc \in {"free", "tracks"} => mSendTransport # "open"
  /\ mDevice = "disposed" => wpc = "tracks" \/ looper = "quit"
  /\ wpc \in Slots => mSendTransport = "open" /\ (wpc \in Kinds => mProducer[wpc] = Null)
  /\ mStartupClient = "open" /\ mSendTransport # "open" => objs = <<>>

\* An object has the id the server issued for it, or none.
IdsAreIssued == \A r \in Refs : objs[r].id \in {NoId, r}

FieldsTyped ==
  \A s \in Slots : mProducer[s] # Null => mProducer[s] \in Refs /\ objs[mProducer[s]].slot = s

\* A live media producer with an id of the server is in the transport's map, so
\* that SendTransport::Close finds it.
IssuedAreInMap ==
  \A r \in Refs :
    objs[r].slot \in Kinds /\ ~objs[r].closed /\ objs[r].id # NoId => r \in inMap

\* A producer of the server is held, or its close was lost, and such a close was
\* sent for a producer that is closed for good.
ServerIdsAreHeld ==
  /\ \A id \in serverProducers :
       /\ objs[id].id = id /\ objs[id].slot \in Kinds
       /\ mProducer[objs[id].slot] = id \/ id \in lostCloses
  /\ \A id \in lostCloses : id = NoId \/ (id \in Refs /\ objs[id].closed)

IInv ==
  /\ TypeOK
  /\ Phase
  /\ IdsAreIssued
  /\ FieldsTyped
  /\ FieldIsTheLiveProducer
  /\ IssuedAreInMap
  /\ ServerIdsAreHeld
  /\ IssuedProducersEnd
  /\ StoreFollowsFields
  /\ NeverUsesDisposed

-----------------------------------------------------------------------------
\* Initially nothing exists.
LEMMA InitEstablishes == Init => IInv
<1> SUFFICES ASSUME Init PROVE IInv
  OBVIOUS
<1> USE DEF Init, Kinds, Labels, Slots
<1>1. TypeOK
  <2>1. mTrack \in [Kinds -> {"none", "on", "off", "disposed"}] /\ mProducer \in [Slots -> Nat]
    BY DEF Null
  <2>2. mainQ \in Seq(Tasks) /\ workQ \in Seq(Tasks) /\ nettyQ \in Seq(Replies) /\ objs \in Seq(Obj)
    OBVIOUS
  <2>3. calls \in 0..MaxCalls
    BY MaxCallsAssumption
  <2>4. inMap \subseteq Refs /\ store \subseteq Refs /\ serverProducers \subseteq Refs
    OBVIOUS
  <2> QED BY <2>1, <2>2, <2>3, <2>4 DEF TypeOK, Pcs, Crashes
<1>2. Refs = {}
  BY DEF Refs
<1> QED BY <1>1, <1>2
  DEF IInv, Phase, IdsAreIssued, FieldsTyped, FieldIsTheLiveProducer, IssuedAreInMap,
      ServerIdsAreHeld, IssuedProducersEnd, StoreFollowsFields, NeverUsesDisposed, DestroyPcs, Null

LEMMA AppendType ==
  ASSUME NEW S, NEW q \in Seq(S), NEW e \in S
  PROVE  Append(q, e) \in Seq(S)
OBVIOUS

\* What posting a task leaves in a queue.
LEMMA PostType ==
  ASSUME NEW q \in Seq(Tasks), NEW t \in Tasks
  PROVE  Post(q, t) \in Seq(Tasks)
BY DEF Post

LEMMA TaskType ==
  ASSUME NEW op \in Ops, NEW s \in Slots \cup {"none"}
  PROVE  Task(op, s) \in Tasks
BY DEF Task, Tasks

\* A step that changes neither the links nor the media keeps the invariant if
\* the worker stays outside the destroy task and does not enter a callback.
LEMMA QuietStep ==
  ASSUME IInv, TypeOK', UNCHANGED <<linkVars, mediaVars, looper>>,
         \/ wpc' = wpc
         \/ /\ looper = "running" /\ wpc \notin DestroyPcs
            /\ wpc' \notin DestroyPcs \cup Slots,
         crash' # "disposed"
  PROVE  IInv'
BY DEF IInv, TypeOK, Phase, IdsAreIssued, FieldsTyped, FieldIsTheLiveProducer, IssuedAreInMap,
    ServerIdsAreHeld, IssuedProducersEnd, StoreFollowsFields, NeverUsesDisposed, Refs,
    linkVars, mediaVars, DestroyPcs

\* A stuttering step.
LEMMA StutterKeeps == IInv /\ UNCHANGED vars => IInv'
BY DEF IInv, TypeOK, Phase, IdsAreIssued, FieldsTyped, FieldIsTheLiveProducer, IssuedAreInMap,
    ServerIdsAreHeld, IssuedProducersEnd, StoreFollowsFields, NeverUsesDisposed, Refs,
    vars, apiVars, queueVars, workerVars, linkVars, mediaVars

\* The application's calls and the answers to them.
LEMMA AppKeeps == IInv /\ (App \/ RequestReply) => IInv'
<1> SUFFICES ASSUME IInv, App \/ RequestReply PROVE IInv'
  OBVIOUS
<1> USE DEF Call, AskServer, apiVars, queueVars, workerVars
<1>t. TypeOK
  BY DEF IInv
<1>m. calls < MaxCalls => calls + 1 \in 0..MaxCalls
  BY <1>t, MaxCallsAssumption DEF TypeOK
<1>1. CASE nativeJoinChannel \/ Request
  <2>1. TypeOK'
    BY <1>1, <1>t, <1>m DEF nativeJoinChannel, Request, TypeOK, linkVars, mediaVars, Refs, Crashes
  <2> QED BY <1>1, <2>1, QuietStep DEF nativeJoinChannel, Request, IInv, NeverUsesDisposed
<1>2. CASE RequestReply
  <2>0. nettyQ' \in Seq(Replies)
    BY <1>2, <1>t, AppendType DEF RequestReply, TypeOK, Replies
  <2>1. TypeOK'
    BY <1>2, <1>t, <2>0 DEF RequestReply, TypeOK, linkVars, mediaVars, Refs
  <2> QED BY <1>2, <2>1, QuietStep DEF RequestReply, IInv, NeverUsesDisposed
<1>3. ASSUME NEW t \in Tasks, ThroughMain(t) PROVE IInv'
  <2>1. TypeOK'
    BY <1>3, <1>t, <1>m DEF ThroughMain, TypeOK, linkVars, mediaVars, Refs
  <2> QED BY <1>3, <2>1, QuietStep DEF ThroughMain, IInv, NeverUsesDisposed
<1>4. CASE nativeDisableCamera \/ nativeDestroy
  <2>0. Task("disable", "video") \in Tasks /\ Task("destroy", "none") \in Tasks
    BY TaskType DEF Ops, Slots, Kinds
  <2>1. TypeOK'
    BY <1>4, <2>0, <1>t, <1>m, PostType
    DEF nativeDisableCamera, nativeDestroy, TypeOK, linkVars, mediaVars, Refs
  <2> QED BY <1>4, <2>1, QuietStep DEF nativeDisableCamera, nativeDestroy, IInv, NeverUsesDisposed
<1>5. ASSUME NEW op \in {"enable", "disable"}, nativeAudio(op) PROVE IInv'
  <2>0. Task(op, "audio") \in Tasks
    BY TaskType DEF Ops, Slots, Kinds
  <2>1. TypeOK'
    BY <1>5, <2>0, <1>t, <1>m, PostType DEF nativeAudio, AudioQueues, TypeOK, linkVars, mediaVars, Refs
  <2> QED BY <1>5, <2>1, QuietStep DEF nativeAudio, AudioQueues, IInv, NeverUsesDisposed
<1>6. Task("enable", "video") \in Tasks /\ Task("localVideo", "none") \in Tasks
  BY TaskType DEF Ops, Slots, Kinds
<1> QED BY <1>1, <1>2, <1>3, <1>4, <1>5, <1>6 
  DEF App, nativeLeaveChannel, nativeStartICE, nativeEnableCamera, nativeSetupLocalVideo

\* The main looper, the event loop and the signalling thread.
LEMMA ThreadsKeep ==
  IInv /\ (MainLooper \/ CreateRoomReply \/ Listener \/ \E l \in Labels : DataChannelClosed(l)) => IInv'
<1> USE DEF apiVars, queueVars, workerVars
<1>1. ASSUME IInv, MainLooper PROVE IInv'
  <2>1. TypeOK /\ Head(mainQ) \in Tasks /\ Tail(mainQ) \in Seq(Tasks)
    BY <1>1 DEF IInv, MainLooper, TypeOK
  <2>2. TypeOK'
    BY <1>1, <2>1, PostType DEF MainLooper, TypeOK, linkVars, mediaVars, Refs
  <2> QED BY <1>1, <2>2, QuietStep DEF MainLooper, IInv, NeverUsesDisposed
<1>2. ASSUME IInv, CreateRoomReply PROVE IInv'
  <2>0. nettyQ' \in Seq(Replies)
    BY <1>2, AppendType DEF CreateRoomReply, IInv, TypeOK, Replies
  <2>1. TypeOK'
    BY <1>2, <2>0 DEF CreateRoomReply, IInv, TypeOK, linkVars, mediaVars, Refs
  <2> QED BY <1>2, <2>1, QuietStep DEF CreateRoomReply, IInv, NeverUsesDisposed
<1>3. ASSUME IInv, Listener PROVE IInv'
  <2>1. TypeOK /\ Head(nettyQ) \in Replies /\ Tail(nettyQ) \in Seq(Replies)
    BY <1>3 DEF IInv, Listener, TypeOK
  <2>2. \A op \in {"join", "roomMediasoup", "throw"} : Task(op, "none") \in Tasks
    BY TaskType DEF Ops
  <2>3. Posted(Head(nettyQ)) \in Seq(Tasks)
    BY <2>1, <2>2, PostType DEF Posted, TypeOK, Replies
  <2>4. TypeOK'
    BY <1>3, <2>1, <2>3 DEF Listener, TypeOK, linkVars, mediaVars, Refs
  <2> QED BY <1>3, <2>4, QuietStep DEF Listener, IInv, NeverUsesDisposed
<1>4. ASSUME IInv, NEW l \in Labels, DataChannelClosed(l) PROVE IInv'
  <2>1. /\ mProducer' \in [Slots -> Nat]
        /\ \A s \in Slots : mProducer'[s] = IF s = l THEN Null ELSE mProducer[s]
    BY <1>4 DEF DataChannelClosed, IInv, TypeOK, Slots, Labels, Null
  <2>2. TypeOK'
    BY <1>4, <2>1 DEF DataChannelClosed, IInv, TypeOK, linkVars, Refs
  <2>3. l \notin Kinds /\ Kinds \subseteq Slots
    BY <1>4 DEF Labels, Kinds, Slots
  <2> QED BY <1>4, <2>1, <2>2, <2>3
    DEF DataChannelClosed, IInv, Phase, IdsAreIssued, FieldsTyped, FieldIsTheLiveProducer,
        IssuedAreInMap, ServerIdsAreHeld, IssuedProducersEnd, StoreFollowsFields,
        NeverUsesDisposed, Refs, linkVars
<1> QED BY <1>1, <1>2, <1>3, <1>4

\* What Take leaves.
LEMMA TakeType ==
  ASSUME IInv, NEW op, Take(op)
  PROVE  /\ workQ' \in Seq(Tasks) /\ Head(workQ) \in Tasks
         /\ crash = "none" /\ looper = "running" /\ wpc = "idle"
         /\ mStartupClient = "open" /\ mDevice # "disposed" /\ mSendTransport # "closed"
BY DEF IInv, TypeOK, Phase, Take, Working, DestroyPcs

\* Steps of the worker that only move it, or kill the process.
LEMMA QuietWorkerKeeps ==
  ASSUME IInv,
         \/ Throw \/ JoinStart \/ JoinEnd \/ createRoomMediasoup \/ RequestFails \/ FusionReply
         \/ \E s \in Slots : EnableSkips(s) \/ TrackFails(s)
         \/ \E k \in Kinds : StopSendingThrows(k)
  PROVE  IInv'
<1> USE DEF Die, Goto, apiVars, queueVars
<1>1. CASE Throw \/ JoinStart \/ (\E k \in Kinds : StopSendingThrows(k))
           \/ (\E s \in Slots : EnableSkips(s) \/ TrackFails(s))
           \/ (Take("roomMediasoup") /\ createRoomMediasoup)
  <2>1. PICK op : Take(op)
    BY <1>1 DEF Throw, JoinStart, StopSendingThrows, EnableSkips, TrackFails, TakeEnable, TakeDisable
  <2>2. /\ workQ' \in Seq(Tasks)
        /\ looper = "running" /\ wpc = "idle"
        /\ mStartupClient = "open" /\ mDevice # "disposed"
    BY <2>1, TakeType
  <2>3. /\ UNCHANGED <<calls, caller, lastAudio, mClosed, mainQ, nettyQ, createRoomReq, linkVars, mediaVars, looper>>
        /\ crash' \in Crashes \ {"disposed"} /\ wpc' \in {"idle", "caps", "roomMediasoup"}
    <3>1. crash = "none"
      BY <2>1, TakeType
    <3> QED BY <1>1, <2>2, <3>1
      DEF Throw, JoinStart, StopSendingThrows, EnableSkips, TrackFails, createRoomMediasoup, Crashes
  <2>4. TypeOK'
    BY <2>2, <2>3 DEF IInv, TypeOK, linkVars, mediaVars, Refs, Pcs, JoinPcs
  <2> QED BY <2>2, <2>3, <2>4, QuietStep DEF DestroyPcs, Slots, Kinds, Labels
<1>2. CASE JoinEnd \/ RequestFails \/ FusionReply
           \/ (Working /\ wpc = "roomMediasoup" /\ UNCHANGED workQ /\ createRoomMediasoup)
  <2>1. /\ UNCHANGED <<calls, caller, lastAudio, mClosed, mainQ, nettyQ, createRoomReq, workQ, linkVars, mediaVars, looper>>
        /\ looper = "running" /\ crash' \in Crashes \ {"disposed"}
        /\ wpc' = wpc \/ (wpc' = "idle" /\ wpc \in {"room", "fusion", "roomMediasoup"})
    BY <1>2 DEF JoinEnd, RequestFails, FusionReply, createRoomMediasoup, Working, Crashes, Take
  <2>2. TypeOK'
    BY <2>1 DEF IInv, TypeOK, linkVars, mediaVars, Refs, Pcs
  <2> QED BY <2>1, <2>2, QuietStep DEF DestroyPcs, Slots, Kinds, Labels
<1> QED BY <1>1, <1>2 DEF createRoomMediasoup

\* A step that leaves the producers and the send transport alone keeps the
\* invariant if it keeps the types and the phase.
LEMMA SameProducers ==
  ASSUME IInv, TypeOK', Phase', crash' # "disposed",
         UNCHANGED <<mSendTransport, mProducer, objs, inMap, store, serverProducers, lostCloses>>
  PROVE  IInv'
BY DEF IInv, IdsAreIssued, FieldsTyped, FieldIsTheLiveProducer, IssuedAreInMap, ServerIdsAreHeld,
       IssuedProducersEnd, StoreFollowsFields, NeverUsesDisposed, Refs

\* joinImpl's steps that build the session.
LEMMA JoinKeeps ==
  ASSUME IInv, JoinLoad \/ createSendTransport \/ createRecvTransport
  PROVE  IInv'
<1> USE DEF Die, Goto, Working, apiVars, queueVars, mediaVars
<1>0. TypeOK /\ Phase
  BY DEF IInv
<1>1. CASE JoinLoad
  <2>1. mDevice # "disposed" /\ crash = "none" /\ looper = "running" /\ wpc = "caps" /\ mStartupClient = "open"
    BY <1>0, <1>1 DEF JoinLoad, Phase, TypeOK, DestroyPcs
  <2>2. TypeOK'
    BY <1>0, <1>1, <2>1 DEF JoinLoad, TypeOK, Refs, Pcs, JoinPcs, Crashes
  <2>3. Phase'
    BY <1>0, <1>1, <2>1 DEF JoinLoad, Phase, DestroyPcs, Slots, Kinds, Labels
  <2>4. UNCHANGED <<mSendTransport, mProducer, objs, inMap, store, serverProducers, lostCloses>>
    BY <1>1 DEF JoinLoad
  <2>5. crash' # "disposed"
    BY <1>0, <1>1, <2>1 DEF JoinLoad, TypeOK
  <2> QED BY <2>2, <2>3, <2>4, <2>5, SameProducers
<1>2. CASE createRecvTransport
  <2>1. crash = "none" /\ looper = "running" /\ wpc = "recv" /\ mStartupClient = "open"
    BY <1>0, <1>2 DEF createRecvTransport, Phase, TypeOK, DestroyPcs
  <2>2. TypeOK'
    BY <1>0, <1>2, <2>1 DEF createRecvTransport, TypeOK, Refs, Pcs, JoinPcs
  <2>3. Phase'
    BY <1>0, <1>2, <2>1 DEF createRecvTransport, Phase, DestroyPcs, Slots, Kinds, Labels
  <2> QED BY <1>2, <2>1, <2>2, <2>3, SameProducers DEF createRecvTransport
<1>3. CASE createSendTransport
  <2>1. crash = "none" /\ looper = "running" /\ wpc = "send" /\ mStartupClient = "open"
    BY <1>0, <1>3 DEF createSendTransport, Phase, TypeOK, DestroyPcs
  <2>2. Task("enable", "chat") \in Tasks /\ Task("enable", "bot") \in Tasks
    BY TaskType DEF Ops, Slots, Labels
  <2>3. workQ' \in Seq(Tasks)
    BY <1>0, <1>3, <2>2 DEF createSendTransport, TypeOK
  <2>4. TypeOK'
    BY <1>0, <1>3, <2>1, <2>3 DEF createSendTransport, TypeOK, Refs, Pcs, JoinPcs
  <2>5. Phase'
    BY <1>0, <1>3, <2>1 DEF createSendTransport, Phase, DestroyPcs, Slots, Kinds, Labels
  <2>6. IssuedProducersEnd' /\ StoreFollowsFields' 
    BY <1>0, <1>3, <2>1 DEF createSendTransport, IInv, IssuedProducersEnd, StoreFollowsFields, Refs, Phase
  <2>7. UNCHANGED <<mProducer, objs, inMap, store, serverProducers, lostCloses>> /\ crash' = "none"
    BY <1>3, <2>1 DEF createSendTransport
  <2> QED BY <2>4, <2>5, <2>6, <2>7
    DEF IInv, IdsAreIssued, FieldsTyped, FieldIsTheLiveProducer,
        IssuedAreInMap, ServerIdsAreHeld, NeverUsesDisposed, Refs
<1> QED BY <1>1, <1>2, <1>3

\* Steps of the worker that only touch a track or wait for an id.
LEMMA TrackStepsKeep ==
  ASSUME IInv, LocalVideo \/ \E s \in Slots : SendFails(s) \/ ProduceAsks(s)
  PROVE  IInv'
<1> USE DEF Die, Goto, apiVars, queueVars
<1>0. TypeOK /\ Phase
  BY DEF IInv
<1>t. \A s \in Slots : WithTrack(s) \in [Kinds -> {"none", "on", "off", "disposed"}]
  BY <1>0 DEF TypeOK, WithTrack
<1>v. "video" \in Slots
  BY DEF Slots, Kinds
<1>1. CASE LocalVideo
  <2>1. /\ workQ' \in Seq(Tasks) /\ crash = "none" /\ looper = "running" /\ wpc = "idle"
    BY <1>1, TakeType DEF LocalVideo
  <2>2. TypeOK'
    BY <1>0, <1>1, <2>1, <1>t, <1>v DEF LocalVideo, TypeOK, linkVars, Refs, Crashes
  <2>3. Phase'
    BY <1>0, <1>1, <2>1 DEF LocalVideo, Phase, linkVars
  <2> QED BY <1>1, <2>1, <2>2, <2>3, SameProducers DEF LocalVideo, linkVars
<1>2. ASSUME NEW s \in Slots, SendFails(s) PROVE IInv'
  <2>1. /\ workQ' \in Seq(Tasks) /\ crash = "none" /\ looper = "running" /\ wpc = "idle"
        /\ mStartupClient = "open" /\ mDevice # "disposed"
    BY <1>2, TakeType DEF SendFails, TakeEnable
  <2>w. wpc' \in {"idle", "fusion"} /\ UNCHANGED <<looper, crash>>
    BY <1>2 DEF SendFails, EnableEnds
  <2>2. mTrack' \in [Kinds -> {"none", "on", "off", "disposed"}]
    BY <1>0, <1>2 DEF SendFails, TypeOK
  <2>3. TypeOK'
    BY <1>0, <1>2, <2>1, <2>2, <2>w DEF SendFails, TypeOK, linkVars, Refs, Pcs
  <2>4. Phase'
    BY <1>0, <1>2, <2>1, <2>w DEF SendFails, Phase, linkVars, DestroyPcs, Slots, Kinds, Labels
  <2> QED BY <1>2, <2>1, <2>w, <2>3, <2>4, SameProducers DEF SendFails, linkVars
<1>3. ASSUME NEW s \in Slots, ProduceAsks(s) PROVE IInv'
  <2>1. /\ workQ' \in Seq(Tasks) /\ crash = "none" /\ looper = "running" /\ wpc = "idle"
        /\ mStartupClient = "open" /\ mDevice # "disposed" /\ mSendTransport # "closed"
    BY <1>3, TakeType DEF ProduceAsks, TakeEnable
  <2>2. mSendTransport = "open" /\ mProducer[s] = Null
    BY <1>0, <1>3, <2>1 DEF ProduceAsks, ReadyToProduce, TypeOK
  <2>3. TypeOK'
    BY <1>0, <1>3, <2>1, <1>t DEF ProduceAsks, TypeOK, linkVars, Refs, Pcs
  <2>4. s \notin DestroyPcs /\ s # "idle"
    BY DEF DestroyPcs, Slots, Kinds, Labels
  <2>5. Phase'
    BY <1>0, <1>3, <2>1, <2>2, <2>4 DEF ProduceAsks, Phase, linkVars, DestroyPcs
  <2> QED BY <1>3, <2>1, <2>3, <2>5, SameProducers DEF ProduceAsks, linkVars
<1> QED BY <1>1, <1>2, <1>3

\* A new object in a free slot of the open transport.
LEMMA CreatedKeeps ==
  ASSUME IInv, NEW s \in Slots, NEW id \in {NoId, Len(objs) + 1}, Created(s, id),
         mSendTransport = "open", s \in Kinds => mProducer[s] = Null,
         mStartupClient = "open",
         serverProducers' = IF s \in Kinds /\ id # NoId THEN serverProducers \cup {id}
                                                       ELSE serverProducers,
         UNCHANGED <<linkVars, looper, crash, lostCloses>>, looper = "running",
         wpc \notin DestroyPcs, wpc' \in {"idle", "fusion"},
         TypeOK'
  PROVE  IInv'
<1> DEFINE new == Len(objs) + 1
<1>0. /\ objs \in Seq(Obj) /\ mProducer \in [Slots -> Nat]
      /\ inMap \subseteq Refs /\ store \subseteq Refs /\ serverProducers \subseteq Refs
  BY DEF IInv, TypeOK
<1>1. /\ Refs = 1..Len(objs) /\ Refs' = Refs \cup {new} /\ new \notin Refs /\ new \in Nat /\ new # NoId
      /\ \A r \in Refs : objs'[r] = objs[r] /\ objs[r] \in Obj
      /\ objs'[new] = [slot |-> s, id |-> id, closed |-> FALSE]
  BY <1>0 DEF Created, Refs, NoId
<1>2. \A t \in Slots : mProducer'[t] = IF t = s THEN new ELSE mProducer[t]
  BY <1>0 DEF Created
<1>3. /\ inMap' = {r \in inMap : ~SameKey(r, s, id)} \cup {new}
      /\ store' = IF s \in Kinds THEN {r \in store : objs[r].id # id} \cup {new} ELSE store
  BY DEF Created
<1>4. Kinds \subseteq Slots
  BY DEF Slots
<1>5. Phase'
  BY <1>1 DEF IInv, Phase, linkVars, DestroyPcs, Slots, Kinds, Labels
<1>6. IdsAreIssued'
  BY <1>1 DEF IInv, IdsAreIssued
<1>7. FieldsTyped'
  BY <1>1, <1>2 DEF IInv, FieldsTyped
<1>8. FieldIsTheLiveProducer'
  BY <1>1, <1>2, <1>4 DEF IInv, FieldIsTheLiveProducer, FieldsTyped, Null
<1>9. IssuedAreInMap'
  <2> SUFFICES ASSUME NEW r \in Refs', objs'[r].slot \in Kinds, ~objs'[r].closed, objs'[r].id # NoId
               PROVE  r \in inMap'
    BY DEF IssuedAreInMap
  <2>1. CASE r = new
    BY <2>1, <1>3
  <2>2. CASE r \in Refs
    <3>1. r \in inMap /\ objs[r].id = r
      BY <2>2, <1>1 DEF IInv, IssuedAreInMap, IdsAreIssued
    <3>2. objs[r].id # id
      BY <2>2, <3>1, <1>1
    <3> QED BY <3>1, <3>2, <1>3 DEF SameKey
  <2> QED BY <2>1, <2>2, <1>1
<1>10. ServerIdsAreHeld'
  <2>l. \A i \in lostCloses' : i = NoId \/ (i \in Refs' /\ objs'[i].closed)
    BY <1>1 DEF IInv, ServerIdsAreHeld
  <2> SUFFICES ASSUME NEW i \in serverProducers'
               PROVE  /\ objs'[i].id = i /\ objs'[i].slot \in Kinds
                      /\ mProducer'[objs'[i].slot] = i \/ i \in lostCloses'
    BY <2>l DEF ServerIdsAreHeld
  <2>1. CASE i \in serverProducers
    <3>1. /\ i \in Refs /\ objs[i].id = i /\ objs[i].slot \in Kinds
          /\ mProducer[objs[i].slot] = i \/ i \in lostCloses
      BY <2>1, <1>0 DEF IInv, ServerIdsAreHeld
    <3>2. CASE mProducer[objs[i].slot] = i
      <4>1. objs[i].slot # s
        BY <3>1, <3>2, <1>1 DEF Null
      <4> QED BY <3>1, <3>2, <4>1, <1>1, <1>2, <1>4
    <3>3. CASE i \in lostCloses
      BY <3>1, <3>3, <1>1
    <3> QED BY <3>1, <3>2, <3>3
  <2>2. CASE i \notin serverProducers
    <3>1. i = new /\ i = id /\ s \in Kinds
      BY <2>2, <1>1
    <3> QED BY <3>1, <1>1, <1>2
  <2> QED BY <2>1, <2>2
<1>11. IssuedProducersEnd' /\ NeverUsesDisposed'
  BY DEF IInv, IssuedProducersEnd, NeverUsesDisposed, linkVars
<1>12. StoreFollowsFields'
  <2> SUFFICES ASSUME NEW r \in Refs', objs'[r].slot \in Kinds, objs'[r].id # NoId
               PROVE  /\ mProducer'[objs'[r].slot] = r => r \in store'
                      /\ r \in store' /\ mProducer'[objs'[r].slot] # r =>
                           objs'[r].slot = "video" /\ mSendTransport' # "open"
    BY DEF StoreFollowsFields
  <2>1. CASE r = new
    BY <2>1, <1>1, <1>2, <1>3
  <2>2. CASE r \in Refs
    <3>1. objs[r].id = r /\ objs[r].id # id
      BY <2>2, <1>1 DEF IInv, IdsAreIssued
    <3>2. /\ mProducer[objs[r].slot] = r => r \in store
          /\ r \in store => mProducer[objs[r].slot] = r
      BY <2>2, <1>1 DEF IInv, StoreFollowsFields
    <3>3. objs[r].slot = s => mProducer[s] = Null
      BY <1>1, <2>2
    <3> QED BY <2>2, <3>1, <3>2, <3>3, <1>1, <1>2, <1>3, <1>4 DEF Null
  <2> QED BY <2>1, <2>2, <1>1
<1> QED BY <1>5, <1>6, <1>7, <1>8, <1>9, <1>10, <1>11, <1>12 DEF IInv

\* The types of the media state after a creation.
LEMMA CreatedType ==
  ASSUME TypeOK, NEW s \in Slots, NEW id \in {NoId, Len(objs) + 1}, Created(s, id)
  PROVE  /\ objs' \in Seq(Obj) /\ mProducer' \in [Slots -> Nat]
         /\ inMap' \subseteq Refs' /\ store' \subseteq Refs'
         /\ serverProducers \cup {Len(objs) + 1} \subseteq Refs'
<1>1. Len(objs) \in Nat /\ [slot |-> s, id |-> id, closed |-> FALSE] \in Obj
  BY DEF TypeOK, Obj, NoId
<1>2. objs' \in Seq(Obj)
  BY <1>1 DEF TypeOK, Created
<1>3. Refs' = Refs \cup {Len(objs) + 1}
  BY <1>1 DEF TypeOK, Created, Refs
<1>4. mProducer' \in [Slots -> Nat]
  BY <1>1 DEF TypeOK, Created
<1> QED BY <1>2, <1>3, <1>4 DEF TypeOK, Created

\* onProduce and onProduceData, with and without the server.
LEMMA ProduceKeeps ==
  ASSUME IInv, NEW s \in Slots, ProduceClosed(s) \/ ProduceReply(s)
  PROVE  IInv'
<1> USE DEF Goto, apiVars, queueVars
<1>0. TypeOK /\ Phase
  BY DEF IInv
<1>1. CASE ProduceClosed(s)
  <2>1. /\ workQ' \in Seq(Tasks) /\ crash = "none" /\ looper = "running" /\ wpc = "idle"
        /\ mStartupClient = "open" /\ mSendTransport = "open" /\ mProducer[s] = Null
    BY <1>0, <1>1, TakeType DEF ProduceClosed, TakeEnable, ReadyToProduce, TypeOK
  <2>2. Created(s, NoId) /\ wpc' \in {"idle", "fusion"} /\ UNCHANGED <<linkVars, looper, crash, serverProducers, lostCloses>>
    BY <1>1 DEF ProduceClosed, EnableEnds
  <2>3. mTrack' \in [Kinds -> {"none", "on", "off", "disposed"}]
    BY <1>0, <1>1 DEF ProduceClosed, WithTrack, TypeOK
  <2>4. TypeOK'
    BY <1>0, <1>1, <2>1, <2>2, <2>3, CreatedType DEF ProduceClosed, TypeOK, linkVars, Pcs
  <2> QED BY <2>1, <2>2, <2>4, CreatedKeeps DEF DestroyPcs
<1>2. CASE ProduceReply(s)
  <2>1. /\ crash = "none" /\ looper = "running" /\ wpc = s /\ wpc \notin DestroyPcs
        /\ mStartupClient = "open" /\ mSendTransport = "open" /\ (s \in Kinds => mProducer[s] = Null)
    BY <1>0, <1>2 DEF ProduceReply, Working, Phase, TypeOK, DestroyPcs, Slots, Kinds, Labels
  <2>2. wpc' \in {"idle", "fusion"} /\ UNCHANGED <<linkVars, looper, crash, workQ, mTrack, lostCloses>>
    BY <1>2 DEF ProduceReply, EnableEnds
  <2>3. PICK id \in {NoId, Len(objs) + 1} :
          /\ Created(s, id)
          /\ serverProducers' = IF s \in Kinds /\ id # NoId THEN serverProducers \cup {id}
                                                           ELSE serverProducers
    <3>1. Len(objs) + 1 # NoId
      BY <1>0 DEF TypeOK, NoId
    <3> QED BY <1>2, <3>1 DEF ProduceReply
  <2>4. serverProducers' \subseteq Refs'
    BY <1>0, <2>3, CreatedType
  <2>5. TypeOK'
    BY <1>0, <1>2, <2>1, <2>2, <2>3, <2>4, CreatedType DEF ProduceReply, TypeOK, linkVars, Pcs
  <2> QED BY <2>1, <2>2, <2>3, <2>5, CreatedKeeps
<1> QED BY <1>1, <1>2

\* disableCameraImpl and disableAudioImpl.
LEMMA DisableKeeps ==
  ASSUME IInv, NEW k \in Kinds, Disable(k)
  PROVE  IInv'
<1> USE DEF Goto, apiVars, queueVars
<1>0. TypeOK /\ Phase /\ k \in Slots /\ Kinds \subseteq Slots
  BY DEF IInv, Slots
<1>1. /\ workQ' \in Seq(Tasks) /\ crash = "none" /\ looper = "running" /\ wpc = "idle"
      /\ mStartupClient = "open" /\ mSendTransport # "closed"
  BY TakeType DEF Disable, TakeDisable
<1>2. wpc' = "idle" /\ UNCHANGED <<linkVars, looper, crash, calls, caller, lastAudio, mClosed, mainQ, nettyQ, createRoomReq>>
  BY DEF Disable
<1>3. CASE mProducer[k] = Null
  <2>1. UNCHANGED mediaVars
    BY <1>3 DEF Disable
  <2>2. TypeOK'
    BY <1>0, <1>1, <1>2, <2>1 DEF TypeOK, linkVars, mediaVars, Refs
  <2> QED BY <1>1, <1>2, <2>1, <2>2, QuietStep DEF IInv, NeverUsesDisposed
<1>4. CASE mProducer[k] # Null
  <2> DEFINE r == mProducer[k]
             i == objs[r].id
  <2>1. /\ r \in Refs /\ objs[r].slot = k /\ objs \in Seq(Obj) /\ i \in {NoId, r}
        /\ \A q \in Refs : objs[q] \in Obj
    BY <1>0, <1>4 DEF IInv, FieldsTyped, TypeOK, IdsAreIssued, Refs
  <2>2. /\ objs' = [objs EXCEPT ![r].closed = TRUE]
        /\ inMap' = {q \in inMap : ~SameKey(q, k, i)}
        /\ store' = {q \in store : objs[q].id # i}
        /\ CloseUserProducer(i)
        /\ mProducer' = [mProducer EXCEPT ![k] = Null]
        /\ UNCHANGED mTrack
    BY <1>4 DEF Disable
  <2>3. /\ Refs' = Refs /\ objs' \in Seq(Obj)
        /\ \A q \in Refs : /\ objs'[q].slot = objs[q].slot /\ objs'[q].id = objs[q].id
                            /\ objs'[q].closed = (q = r \/ objs[q].closed)
    <3>1. DOMAIN objs' = DOMAIN objs /\ \A q \in Refs \ {r} : objs'[q] = objs[q]
      BY <2>1, <2>2 DEF Refs
    <3>2. objs'[r] = [objs[r] EXCEPT !.closed = TRUE]
      BY <2>1, <2>2 DEF Refs
    <3>3. objs'[r].slot = objs[r].slot /\ objs'[r].id = objs[r].id /\ objs'[r].closed = TRUE
      BY <2>1, <3>2 DEF Obj
    <3>4. objs'[r] \in Obj
      BY <2>1, <3>2 DEF Obj
    <3>5. objs' \in Seq(Obj)
      BY <2>1, <2>2, <3>4 DEF Refs
    <3>6. \A q \in Refs : objs[q].closed \in BOOLEAN
      BY <2>1 DEF Obj
    <3> QED BY <3>1, <3>3, <3>5, <3>6 DEF Refs
  <2>4. /\ mProducer' \in [Slots -> Nat]
        /\ \A s \in Slots : mProducer'[s] = IF s = k THEN Null ELSE mProducer[s]
    BY <1>0, <2>2 DEF TypeOK, Null
  <2>c. /\ serverProducers' \subseteq serverProducers /\ lostCloses' \subseteq lostCloses \cup {i}
        /\ lostCloses \subseteq lostCloses' /\ (i \in serverProducers' => i \in lostCloses')
        /\ i \in Nat
    BY <2>1, <2>2 DEF CloseUserProducer, Obj
  <2>5. TypeOK'
    BY <1>0, <1>1, <1>2, <2>2, <2>3, <2>4, <2>c DEF TypeOK, linkVars
  <2>6. mSendTransport = "open"
    BY <1>0, <1>1, <2>1 DEF Phase, TypeOK, Refs
  <2>7. Phase'
    BY <1>0, <1>1, <1>2, <2>2, <2>3, <2>6 DEF Phase, linkVars, DestroyPcs, Slots, Kinds, Labels
  <2>8. IdsAreIssued' /\ FieldsTyped' /\ NeverUsesDisposed' /\ IssuedProducersEnd'
    BY <1>1, <1>2, <2>3, <2>4, <2>6
    DEF IInv, IdsAreIssued, FieldsTyped, NeverUsesDisposed, IssuedProducersEnd, linkVars
  <2>9. FieldIsTheLiveProducer'
    <3> SUFFICES ASSUME NEW j \in Kinds, NEW q \in Refs, objs[q].slot = j
                 PROVE  mProducer'[j] = q <=> ~objs'[q].closed
      BY <2>3 DEF FieldIsTheLiveProducer
    <3>1. mProducer[j] = q <=> ~objs[q].closed
      BY DEF IInv, FieldIsTheLiveProducer
    <3>2. q # Null
      BY <2>1 DEF Refs, Null
    <3>3. CASE j = k
      BY <1>0, <2>3, <2>4, <3>1, <3>2, <3>3
    <3>4. CASE j # k
      BY <1>0, <2>1, <2>3, <2>4, <3>1, <3>4
    <3> QED BY <3>3, <3>4
  <2>10. IssuedAreInMap'
    BY <2>1, <2>2, <2>3 DEF IInv, IssuedAreInMap, IdsAreIssued, SameKey, FieldIsTheLiveProducer
  <2>11. ServerIdsAreHeld'
    <3>1. ASSUME NEW j \in lostCloses' PROVE j = NoId \/ (j \in Refs' /\ objs'[j].closed)
      <4>1. CASE j \in lostCloses
        <5>1. j = NoId \/ (j \in Refs /\ objs[j].closed)
          BY <4>1 DEF IInv, ServerIdsAreHeld
        <5>2. j \in Refs /\ objs[j].closed => objs'[j].closed
          BY <2>3
        <5> QED BY <2>3, <5>1, <5>2
      <4>2. CASE j = i
        <5>1. j = r => objs'[j].closed
          BY <2>1, <2>3
        <5> QED BY <2>1, <2>3, <4>2, <5>1
      <4> QED BY <2>c, <3>1, <4>1, <4>2
    <3>2. ASSUME NEW j \in serverProducers'
          PROVE  /\ objs'[j].id = j /\ objs'[j].slot \in Kinds
                 /\ mProducer'[objs'[j].slot] = j \/ j \in lostCloses'
      <4>1. /\ j \in Refs /\ objs[j].id = j /\ objs[j].slot \in Kinds
            /\ mProducer[objs[j].slot] = j \/ j \in lostCloses
        BY <1>0, <3>2, <2>c DEF IInv, ServerIdsAreHeld, TypeOK
      <4>2. j = r => j = i
        BY <4>1
      <4>3. objs'[j].id = j /\ objs'[j].slot = objs[j].slot /\ objs[j].slot \in Slots
        BY <1>0, <2>3, <4>1
      <4>4. CASE j \in lostCloses
        BY <2>c, <4>1, <4>3, <4>4
      <4>5. CASE mProducer[objs[j].slot] = j /\ objs[j].slot # k
        BY <2>4, <4>1, <4>3, <4>5
      <4>6. CASE mProducer[objs[j].slot] = j /\ objs[j].slot = k
        BY <2>c, <3>2, <4>1, <4>2, <4>3, <4>6
      <4> QED BY <4>1, <4>4, <4>5, <4>6
    <3> QED BY <3>1, <3>2 DEF ServerIdsAreHeld
  <2>12. StoreFollowsFields'
    BY <1>0, <1>2, <2>1, <2>2, <2>3, <2>4, <2>6
    DEF IInv, StoreFollowsFields, IdsAreIssued, linkVars, Null, Refs
  <2> QED BY <2>5, <2>7, <2>8, <2>9, <2>10, <2>11, <2>12 DEF IInv
<1> QED BY <1>3, <1>4

\* The destroy task closes the client: the server forgets the session.
LEMMA DestroyStartKeeps ==
  ASSUME IInv, DestroyStart
  PROVE  IInv'
<1> USE DEF Goto, apiVars, queueVars
<1>1. TypeOK /\ Phase
  BY DEF IInv
<1>2. workQ' \in Seq(Tasks) /\ crash = "none" /\ looper = "running" /\ wpc = "idle"
      /\ mStartupClient = "open" /\ mSendTransport # "closed"
  BY TakeType DEF DestroyStart
<1>3. TypeOK'
  BY <1>1, <1>2 DEF DestroyStart, TypeOK, Refs, Pcs, DestroyPcs
<1>4. Phase'
  BY <1>1, <1>2 DEF DestroyStart, Phase, DestroyPcs, Slots, Kinds, Labels
<1>5. ServerIdsAreHeld' /\ NeverUsesDisposed'
  BY <1>2 DEF DestroyStart, IInv, ServerIdsAreHeld, NeverUsesDisposed, Refs
<1>6. UNCHANGED <<mSendTransport, mProducer, objs, inMap, store>>
  BY DEF DestroyStart
<1> QED BY <1>3, <1>4, <1>5, <1>6
  DEF IInv, IdsAreIssued, FieldsTyped, FieldIsTheLiveProducer, IssuedAreInMap, IssuedProducersEnd,
      StoreFollowsFields, Refs

\* SendTransport::Close reaches every live producer with an id of the server.
LEMMA CloseSendTransportKeeps ==
  ASSUME IInv, CloseSendTransport
  PROVE  IInv'
<1> USE DEF Goto, Working, apiVars, queueVars
<1>0. TypeOK /\ Phase
  BY DEF IInv
<1>1. /\ crash = "none" /\ looper = "running" /\ wpc = "closeSend" /\ wpc' = "free"
      /\ mStartupClient = "null" /\ serverProducers = {}
      /\ UNCHANGED <<mStartupClient, mDevice, mRecvTransport, mTrack, inMap, serverProducers, lostCloses, looper, crash>>
  BY <1>0 DEF CloseSendTransport, Phase, DestroyPcs
<1>2. CASE mSendTransport # "open"
  <2>1. UNCHANGED <<mSendTransport, objs, mProducer, store>>
    BY <1>2 DEF CloseSendTransport
  <2>2. TypeOK'
    BY <1>0, <1>1, <2>1 DEF CloseSendTransport, TypeOK, Refs, Pcs, DestroyPcs
  <2>3. Phase'
    BY <1>0, <1>1, <1>2, <2>1 DEF Phase, DestroyPcs, Slots, Kinds, Labels
  <2> QED BY <1>1, <2>1, <2>2, <2>3, SameProducers
<1>3. CASE mSendTransport = "open"
  <2> DEFINE told  == ClosedByTransport
             slots == {objs[r].slot : r \in told}
  <2>1. /\ mSendTransport' = "closed"
        /\ objs' = [r \in Refs |-> IF r \in told THEN [objs[r] EXCEPT !.closed = TRUE] ELSE objs[r]]
        /\ mProducer' = [s \in Slots |-> IF s \in slots THEN Null ELSE mProducer[s]]
        /\ store' = StoreAfterClose(slots)
    BY <1>3 DEF CloseSendTransport, TransportClosed
  <2>2. /\ objs \in Seq(Obj) /\ Refs = 1..Len(objs) /\ Len(objs) \in Nat
        /\ \A r \in Refs : objs[r] \in Obj /\ r # Null
        /\ mProducer \in [Slots -> Nat] /\ inMap \subseteq Refs /\ store \subseteq Refs
        /\ Kinds \subseteq Slots
    BY <1>0 DEF TypeOK, Refs, Slots, Null
  <2>3. told \subseteq Refs /\ \A r \in Refs : r \in told <=> r \in inMap /\ ~objs[r].closed
    BY <2>2 DEF ClosedByTransport
  <2>4. /\ Refs' = Refs /\ objs' \in Seq(Obj)
        /\ \A q \in Refs : /\ objs'[q].slot = objs[q].slot /\ objs'[q].id = objs[q].id
                            /\ objs'[q].closed = (q \in told \/ objs[q].closed)
    <3>1. DOMAIN objs' = 1..Len(objs)
      BY <2>1, <2>2
    <3>2. ASSUME NEW q \in Refs
          PROVE  /\ objs'[q] \in Obj
                 /\ objs'[q].slot = objs[q].slot /\ objs'[q].id = objs[q].id
                 /\ objs'[q].closed = (q \in told \/ objs[q].closed)
      <4>1. CASE q \in told
        <5>1. objs'[q] = [objs[q] EXCEPT !.closed = TRUE]
          BY <2>1, <4>1
        <5> HIDE DEF told
        <5> QED BY <2>2, <4>1, <5>1 DEF Obj
      <4>2. CASE q \notin told
        <5>1. objs'[q] = objs[q]
          BY <2>1, <4>2
        <5> HIDE DEF told
        <5> QED BY <2>2, <4>2, <5>1 DEF Obj
      <4> QED BY <4>1, <4>2
    <3>3. objs' \in [1..Len(objs) -> Obj]
      BY <2>1, <2>2, <3>2
    <3>4. objs' \in Seq(Obj)
      BY <2>2, <3>3
    <3> QED BY <3>1, <3>2, <3>4, <2>2 DEF Refs
  <2>5. /\ mProducer' \in [Slots -> Nat]
        /\ \A s \in Slots : mProducer'[s] = IF s \in slots THEN Null ELSE mProducer[s]
    BY <2>1, <2>2 DEF Null
  <2>6. store' \subseteq store
    BY <2>1 DEF StoreAfterClose
  <2>7. TypeOK'
    BY <1>0, <1>1, <2>1, <2>2, <2>4, <2>5, <2>6 DEF CloseSendTransport, TypeOK, Pcs, DestroyPcs
  <2>8. Phase'
    BY <1>0, <1>1, <2>1 DEF Phase, DestroyPcs, Slots, Kinds, Labels
  <2> HIDE DEF told, slots
  <2>9. IdsAreIssued' /\ FieldsTyped' /\ NeverUsesDisposed'
    BY <1>1, <2>4, <2>5
    DEF IInv, IdsAreIssued, FieldsTyped, NeverUsesDisposed
  <2>s. ServerIdsAreHeld'
    BY <1>1, <2>4 DEF IInv, ServerIdsAreHeld
  <2>10. \A k \in Kinds : k \in slots <=> (mProducer[k] # Null /\ mProducer[k] \in told)
    <3> SUFFICES ASSUME NEW k \in Kinds
                 PROVE  k \in slots <=> (mProducer[k] # Null /\ mProducer[k] \in told)
      OBVIOUS
    <3>1. ASSUME k \in slots PROVE mProducer[k] # Null /\ mProducer[k] \in told
      <4>1. PICK r \in told : objs[r].slot = k
        BY <3>1 DEF slots
      <4>2. r \in Refs /\ ~objs[r].closed /\ r # Null
        BY <4>1, <2>2, <2>3
      <4>3. mProducer[k] = r
        BY <4>1, <4>2 DEF IInv, FieldIsTheLiveProducer
      <4> QED BY <4>1, <4>2, <4>3
    <3>2. ASSUME mProducer[k] # Null, mProducer[k] \in told PROVE k \in slots
      <4>1. objs[mProducer[k]].slot = k
        BY <3>2, <2>2 DEF IInv, FieldsTyped
      <4> QED BY <3>2, <4>1 DEF slots
    <3> QED BY <3>1, <3>2
  <2>11. FieldIsTheLiveProducer'
    <3> SUFFICES ASSUME NEW k \in Kinds, NEW q \in Refs, objs[q].slot = k
                 PROVE  mProducer'[k] = q <=> ~objs'[q].closed
      BY <2>4 DEF FieldIsTheLiveProducer
    <3>1. mProducer[k] = q <=> ~objs[q].closed
      BY DEF IInv, FieldIsTheLiveProducer
    <3>2. q # Null /\ k \in Slots
      BY <2>2
    <3>3. objs[q].closed \in BOOLEAN
      BY <2>2 DEF Obj
    <3>4. CASE objs[q].closed
      <4>1. objs'[q].closed
        BY <2>4, <3>4
      <4>2. mProducer'[k] # q
        BY <2>5, <3>1, <3>2, <3>4
      <4> QED BY <4>1, <4>2
    <3>5. CASE ~objs[q].closed
      <4>1. mProducer[k] = q
        BY <3>1, <3>5
      <4>2. objs'[q].closed <=> q \in told
        BY <2>4, <3>5
      <4>3. mProducer'[k] = q <=> q \notin told
        BY <2>5, <2>10, <3>2, <4>1
      <4> QED BY <4>2, <4>3
    <3> QED BY <3>4, <3>5
  <2>12. IssuedAreInMap'
    BY <1>1, <2>4 DEF IInv, IssuedAreInMap
  <2>13. IssuedProducersEnd'
    <3> SUFFICES ASSUME NEW k \in Kinds, mProducer'[k] # Null PROVE objs'[mProducer'[k]].id = NoId
      BY DEF IssuedProducersEnd
    <3>1. mProducer'[k] = mProducer[k] /\ k \notin slots /\ mProducer[k] \notin told
      BY <2>2, <2>5, <2>10
    <3>2. mProducer[k] \in Refs /\ objs[mProducer[k]].slot = k
      BY <3>1, <2>2 DEF IInv, FieldsTyped
    <3>3. ~objs[mProducer[k]].closed
      BY <3>2 DEF IInv, FieldIsTheLiveProducer
    <3>4. mProducer[k] \notin inMap
      BY <2>3, <3>1, <3>2, <3>3
    <3>5. objs[mProducer[k]].id = NoId
      BY <3>2, <3>3, <3>4 DEF IInv, IssuedAreInMap
    <3> QED BY <3>1, <3>2, <3>5, <2>4
  <2>14. StoreFollowsFields'
    <3> SUFFICES ASSUME NEW q \in Refs, objs[q].slot \in Kinds, objs[q].id # NoId
                 PROVE  /\ mProducer'[objs[q].slot] = q => q \in store'
                        /\ q \in store' /\ mProducer'[objs[q].slot] # q =>
                             objs[q].slot = "video" /\ mSendTransport' # "open"
      BY <2>4 DEF StoreFollowsFields
    <3>1. /\ mProducer[objs[q].slot] = q => q \in store
          /\ q \in store => mProducer[objs[q].slot] = q
          /\ objs[q].id = q /\ q # Null
      BY <1>3, <2>2 DEF IInv, StoreFollowsFields, IdsAreIssued
    <3>2. mProducer'[objs[q].slot] # q
      <4>1. CASE mProducer[objs[q].slot] = q
        <5>1. ~objs[q].closed
          BY <4>1 DEF IInv, FieldIsTheLiveProducer
        <5>2. q \in told
          BY <5>1, <2>3 DEF IInv, IssuedAreInMap
        <5> QED BY <4>1, <5>2, <3>1, <2>10, <2>5, <2>2
      <4>2. CASE mProducer[objs[q].slot] # q
        BY <4>2, <3>1, <2>5, <2>2
      <4> QED BY <4>1, <4>2
    <3>3. ASSUME q \in store', objs[q].slot = "audio" PROVE FALSE
      <4>1. q \in store /\ mProducer["audio"] = q
        BY <3>3, <3>1, <2>6
      <4>2. ~objs[q].closed
        BY <3>3, <4>1 DEF IInv, FieldIsTheLiveProducer
      <4>3. "audio" \in slots
        <5>1. q \in told
          BY <4>2, <2>3 DEF IInv, IssuedAreInMap
        <5> QED BY <3>1, <3>3, <4>1, <5>1, <2>10
      <4> QED BY <3>3, <3>1, <4>1, <4>3, <2>1 DEF StoreAfterClose
    <3> QED BY <2>1, <3>2, <3>3 DEF Kinds
  <2> QED BY <2>7, <2>8, <2>9, <2>s, <2>11, <2>12, <2>13, <2>14 DEF IInv
<1> QED BY <1>2, <1>3

\* The end of the destroy task.
LEMMA DestroyEndKeeps ==
  ASSUME IInv, disposeTransportDevice \/ DestroyEnd
  PROVE  IInv'
<1> USE DEF Goto, Working, apiVars, queueVars
<1>0. TypeOK /\ Phase
  BY DEF IInv
<1>1. CASE disposeTransportDevice
  <2>1. /\ crash = "none" /\ looper = "running" /\ wpc = "free" /\ wpc' = "tracks"
        /\ mStartupClient = "null" /\ mSendTransport # "open" /\ mSendTransport' = "null"
        /\ UNCHANGED <<mStartupClient, mProducer, objs, inMap, store, serverProducers, lostCloses, looper, crash>>
    BY <1>0, <1>1 DEF disposeTransportDevice, Phase, DestroyPcs, mediaVars
  <2>2. TypeOK'
    BY <1>0, <1>1, <2>1 DEF disposeTransportDevice, TypeOK, Refs, Pcs, DestroyPcs, mediaVars
  <2>3. Phase'
    BY <1>0, <1>1, <2>1 DEF disposeTransportDevice, Phase, DestroyPcs, Slots, Kinds, Labels
  <2> QED BY <2>1, <2>2, <2>3
    DEF IInv, IdsAreIssued, FieldsTyped, FieldIsTheLiveProducer, IssuedAreInMap, ServerIdsAreHeld,
        IssuedProducersEnd, StoreFollowsFields, NeverUsesDisposed, Refs
<1>2. CASE DestroyEnd
  <2>1. /\ crash = "none" /\ looper = "running" /\ wpc = "tracks" /\ wpc' = "idle"
        /\ looper' = "quit" /\ workQ' = <<>> /\ crash' = crash
        /\ UNCHANGED <<linkVars, mProducer, objs, inMap, store, serverProducers, lostCloses>>
    BY <1>2 DEF DestroyEnd, QuitLooper
  <2>2. mTrack' \in [Kinds -> {"none", "on", "off", "disposed"}]
    BY <1>0, <1>2 DEF DestroyEnd, TypeOK
  <2>3. workQ' \in Seq(Tasks)
    BY <2>1
  <2>4. TypeOK'
    BY <1>0, <1>2, <2>1, <2>2, <2>3 DEF DestroyEnd, TypeOK, Refs, Pcs, linkVars
  <2>5. Phase'
    BY <1>0, <2>1 DEF Phase, DestroyPcs, Slots, Kinds, Labels, linkVars
  <2> QED BY <2>1, <2>4, <2>5, SameProducers DEF linkVars
<1> QED BY <1>1, <1>2

\* The worker's steps.
LEMMA WorkerKeeps == IInv /\ Worker => IInv'
<1> SUFFICES ASSUME IInv, Worker PROVE IInv'
  OBVIOUS
<1>1. ASSUME NEW s \in Slots, Produce(s) PROVE IInv'
  BY <1>1, QuietWorkerKeeps, TrackStepsKeep, ProduceKeeps DEF Produce
<1>2. ASSUME NEW k \in Kinds, Disable(k) \/ StopSendingThrows(k) PROVE IInv'
  BY <1>2, QuietWorkerKeeps, DisableKeeps
<1> QED BY <1>1, <1>2, QuietWorkerKeeps, JoinKeeps, TrackStepsKeep, DestroyStartKeeps,
           CloseSendTransportKeeps, DestroyEndKeeps DEF Worker

LEMMA NextKeeps == IInv /\ [Next]_vars => IInv'
BY AppKeeps, ThreadsKeep, WorkerKeeps, StutterKeeps DEF Next

\* The inductive invariant holds in every reachable state, for all constants.
THEOREM Inductive == Spec => []IInv
<1>1. Init => IInv
  BY InitEstablishes
<1>2. IInv /\ [Next]_vars => IInv'
  BY NextKeeps
<1> QED BY <1>1, <1>2, PTL DEF Spec

\* The state keeps its types.
THEOREM Types == Spec => []TypeOK
<1>1. IInv => TypeOK
  BY DEF IInv
<1> QED BY <1>1, Inductive, PTL

\* The video and audio fields name exactly the live native producers.
THEOREM FieldsNameLiveProducers == Spec => []FieldIsTheLiveProducer
<1>1. IInv => FieldIsTheLiveProducer
  BY DEF IInv
<1> QED BY <1>1, Inductive, PTL

\* The server never has a producer of this user that the engine does not hold,
\* unless a request to close it failed or was lost.
THEOREM ServerFollowsEngine == Spec => []ServerProducersAreHeld
<1>1. IInv => ServerProducersAreHeld
  BY DEF IInv, ServerIdsAreHeld, ServerProducersAreHeld, TypeOK, Refs, NoId
<1> QED BY <1>1, Inductive, PTL

\* Closing the send transport reaches every media producer the server knows.
THEOREM CloseReachesIssuedProducers == Spec => []IssuedProducersEnd
<1>1. IInv => IssuedProducersEnd
  BY DEF IInv
<1> QED BY <1>1, Inductive, PTL

\* The store and the fields agree on the producers the server knows.
THEOREM StoreAgreesWithFields == Spec => []StoreFollowsFields
<1>1. IInv => StoreFollowsFields
  BY DEF IInv
<1> QED BY <1>1, Inductive, PTL

\* No task reaches the device or the client after the destroy task released it.
THEOREM NoUseAfterDispose == Spec => []NeverUsesDisposed
<1>1. IInv => NeverUsesDisposed
  BY DEF IInv
<1> QED BY <1>1, Inductive, PTL

-----------------------------------------------------------------------------
(***************************************************************************)
(* The order of audio calls. While the worker runs, the last audio task of  *)
(* its queue is the last call it accepted; once none is left, a microphone  *)
(* that is on, or about to be, was enabled last.                            *)
(***************************************************************************)
HasAudio(q) == \E i \in DOMAIN q : IsAudio(q[i])
LastIs(q, op) ==
  \A i \in DOMAIN q :
    IsAudio(q[i]) /\ (\A j \in DOMAIN q : IsAudio(q[j]) => j <= i) => q[i].op = op
AudioTasks(q) == \A i \in DOMAIN q : IsAudio(q[i]) => q[i].op \in {"enable", "disable"}

AudioOn == wpc = "audio" \/ mProducer["audio"] # Null
AudioOrder ==
  /\ ~HasAudio(mainQ) /\ AudioTasks(workQ)
  /\ crash = "none" /\ looper = "running" =>
       /\ LastIs(workQ, lastAudio)
       /\ ~HasAudio(workQ) /\ AudioOn => lastAudio = "enable"

\* A task that is not about audio joins a queue.
LEMMA OtherAppended ==
  ASSUME NEW q \in Seq(Tasks), NEW t \in Tasks, ~IsAudio(t), NEW op
  PROVE  /\ HasAudio(Append(q, t)) <=> HasAudio(q)
         /\ LastIs(q, op) => LastIs(Append(q, t), op)
         /\ AudioTasks(q) => AudioTasks(Append(q, t))
<1> DEFINE a == Append(q, t)
<1>1. /\ DOMAIN q = 1..Len(q) /\ DOMAIN a = 1..(Len(q) + 1) /\ Len(q) \in Nat
      /\ a[Len(q) + 1] = t /\ \A i \in DOMAIN q : a[i] = q[i]
  OBVIOUS
<1>2. \A i \in DOMAIN a : IsAudio(a[i]) => i \in DOMAIN q
  BY <1>1
<1>3. DOMAIN q \subseteq DOMAIN a
  BY <1>1
<1> HIDE DEF a
<1> QED BY <1>1, <1>2, <1>3 DEF HasAudio, LastIs, AudioTasks, a

\* An audio task joins a queue.
LEMMA AudioAppended ==
  ASSUME NEW q \in Seq(Tasks), NEW t \in Tasks, IsAudio(t)
  PROVE  /\ HasAudio(Append(q, t)) /\ LastIs(Append(q, t), t.op)
         /\ AudioTasks(q) /\ t.op \in {"enable", "disable"} => AudioTasks(Append(q, t))
<1> DEFINE a == Append(q, t)
<1>1. /\ DOMAIN q = 1..Len(q) /\ DOMAIN a = 1..(Len(q) + 1) /\ Len(q) \in Nat
      /\ a[Len(q) + 1] = t /\ \A i \in DOMAIN q : a[i] = q[i]
  OBVIOUS
<1>2. \A i \in DOMAIN a : i \in DOMAIN q \/ i = Len(q) + 1
  BY <1>1
<1>3. Len(q) + 1 \in DOMAIN a
  BY <1>1
<1>4. \A i \in DOMAIN q : ~(Len(q) + 1 <= i)
  BY <1>1
<1> HIDE DEF a
<1> QED BY <1>1, <1>2, <1>3, <1>4 DEF HasAudio, LastIs, AudioTasks, a

\* The head leaves a queue.
LEMMA HeadTaken ==
  ASSUME NEW q \in Seq(Tasks), q # <<>>, NEW op
  PROVE  /\ LastIs(q, op) => LastIs(Tail(q), op)
         /\ AudioTasks(q) => AudioTasks(Tail(q))
         /\ ~HasAudio(Tail(q)) /\ ~IsAudio(Head(q)) => ~HasAudio(q)
         /\ ~HasAudio(Tail(q)) /\ IsAudio(Head(q)) /\ LastIs(q, op) => Head(q).op = op
         /\ ~HasAudio(q) => ~HasAudio(Tail(q))
<1> DEFINE r == Tail(q)
<1>1. /\ DOMAIN q = 1..Len(q) /\ DOMAIN r = 1..(Len(q) - 1) /\ Len(q) \in Nat /\ Len(q) > 0
      /\ Head(q) = q[1] /\ \A i \in DOMAIN r : r[i] = q[i + 1]
  OBVIOUS
<1>2. \A i \in DOMAIN r : i + 1 \in DOMAIN q
  BY <1>1
<1>3. \A i \in DOMAIN q : i = 1 \/ i - 1 \in DOMAIN r
  BY <1>1
<1>4. 1 \in DOMAIN q
  BY <1>1
<1>5. \A i \in DOMAIN q : i # 1 => q[i] = r[i - 1]
  BY <1>1, <1>3
<1> HIDE DEF r
<1>6. LastIs(q, op) => LastIs(r, op)
  <2> SUFFICES ASSUME LastIs(q, op), NEW i \in DOMAIN r, IsAudio(r[i]),
                      \A j \in DOMAIN r : IsAudio(r[j]) => j <= i
               PROVE  r[i].op = op
    BY DEF LastIs
  <2>1. ASSUME NEW j \in DOMAIN q, IsAudio(q[j]) PROVE j <= i + 1
    <3>1. CASE j = 1
      BY <3>1, <1>1
    <3>2. CASE j # 1
      <4>1. j - 1 \in DOMAIN r /\ IsAudio(r[j - 1])
        BY <2>1, <3>2, <1>3, <1>5
      <4>2. j - 1 <= i
        BY <4>1
      <4> QED BY <4>2, <1>1, <2>1
    <3> QED BY <3>1, <3>2
  <2> QED BY <2>1, <1>1, <1>2 DEF LastIs
<1>7. AudioTasks(q) => AudioTasks(r)
  BY <1>1, <1>2 DEF AudioTasks
<1>8. ~HasAudio(r) => \A i \in DOMAIN q : IsAudio(q[i]) => i = 1
  BY <1>3, <1>5 DEF HasAudio
<1>9. ~HasAudio(r) /\ ~IsAudio(Head(q)) => ~HasAudio(q)
  BY <1>8, <1>1 DEF HasAudio
<1>10. ~HasAudio(r) /\ IsAudio(Head(q)) /\ LastIs(q, op) => Head(q).op = op
  BY <1>8, <1>1, <1>4 DEF LastIs
<1>11. ~HasAudio(q) => ~HasAudio(r)
  BY <1>1, <1>2 DEF HasAudio
<1> QED BY <1>6, <1>7, <1>9, <1>10, <1>11 DEF r

\* A step that takes a task: if the microphone is on afterwards, the task
\* enabled it, or it was on and the task is not about audio.
LEMMA TakenAudio ==
  ASSUME IInv, AudioOrder, NEW op, Take(op), UNCHANGED <<mainQ, lastAudio, looper>>,
         crash' = "none" /\ AudioOn' =>
           IF IsAudio(Head(workQ)) THEN op = "enable" ELSE AudioOn
  PROVE  AudioOrder'
<1>1. workQ \in Seq(Tasks) /\ workQ # <<>> /\ workQ' = Tail(workQ) /\ Head(workQ).op = op
      /\ crash = "none" /\ looper = "running"
  BY DEF IInv, TypeOK, Take, Working
<1>2. /\ LastIs(workQ, lastAudio) => LastIs(Tail(workQ), lastAudio)
      /\ AudioTasks(workQ) => AudioTasks(Tail(workQ))
      /\ ~HasAudio(Tail(workQ)) /\ ~IsAudio(Head(workQ)) => ~HasAudio(workQ)
      /\ ~HasAudio(Tail(workQ)) /\ IsAudio(Head(workQ)) /\ LastIs(workQ, lastAudio) =>
           Head(workQ).op = lastAudio
  BY <1>1, HeadTaken
<1> QED BY <1>1, <1>2 DEF AudioOrder

\* The application's calls and the answers to them.
LEMMA AppKeepsOrder == IInv /\ AudioOrder /\ (App \/ RequestReply) => AudioOrder'
<1> SUFFICES ASSUME IInv, AudioOrder, App \/ RequestReply PROVE AudioOrder'
  OBVIOUS
<1> USE DEF Call, apiVars, queueVars, workerVars, mediaVars, AudioOn
<1>0. mainQ \in Seq(Tasks) /\ workQ \in Seq(Tasks)
  BY DEF IInv, TypeOK
<1>1. CASE nativeJoinChannel \/ Request \/ RequestReply
  <2>1. UNCHANGED <<lastAudio, mainQ, workQ, looper, wpc, mProducer>> /\ crash = "none"
    BY <1>1 DEF nativeJoinChannel, Request, RequestReply
  <2> QED BY <2>1 DEF AudioOrder
<1>2. ASSUME NEW t \in Tasks, ~IsAudio(t), ThroughMain(t) PROVE AudioOrder'
  <2>1. UNCHANGED <<lastAudio, workQ, looper, wpc, mProducer, crash>> /\ mainQ' = Append(mainQ, t)
    BY <1>2 DEF ThroughMain
  <2>2. HasAudio(Append(mainQ, t)) <=> HasAudio(mainQ)
    BY <1>0, <1>2, OtherAppended
  <2> QED BY <2>1, <2>2 DEF AudioOrder
<1>3. CASE nativeDisableCamera \/ nativeDestroy
  <2>1. PICK t \in Tasks : ~IsAudio(t) /\ (workQ' = workQ \/ workQ' = Append(workQ, t))
    <3>1. Task("disable", "video") \in Tasks /\ Task("destroy", "none") \in Tasks
      BY TaskType DEF Ops, Slots, Kinds
    <3>2. ~IsAudio(Task("disable", "video")) /\ ~IsAudio(Task("destroy", "none"))
      BY DEF IsAudio, Task
    <3> QED BY <1>3, <3>1, <3>2 DEF nativeDisableCamera, nativeDestroy, Post
  <2>2. UNCHANGED <<lastAudio, mainQ, looper, wpc, mProducer, crash>>
    BY <1>3 DEF nativeDisableCamera, nativeDestroy
  <2>3. /\ HasAudio(Append(workQ, t)) <=> HasAudio(workQ)
        /\ LastIs(workQ, lastAudio) => LastIs(Append(workQ, t), lastAudio)
        /\ AudioTasks(workQ) => AudioTasks(Append(workQ, t))
    BY <1>0, <2>1, OtherAppended
  <2> QED BY <2>1, <2>2, <2>3 DEF AudioOrder
<1>4. ASSUME NEW op \in {"enable", "disable"}, nativeAudio(op) PROVE AudioOrder'
  <2>1. Task(op, "audio") \in Tasks /\ IsAudio(Task(op, "audio")) /\ Task(op, "audio").op = op
    BY TaskType DEF Ops, Slots, Kinds, IsAudio, Task
  <2>2. /\ UNCHANGED <<mainQ, looper, wpc, mProducer, crash>>
        /\ looper # "quit" => lastAudio' = op /\ workQ' = Append(workQ, Task(op, "audio"))
        /\ looper = "quit" => UNCHANGED <<lastAudio, workQ>>
    BY <1>4 DEF nativeAudio, AudioQueues, Post
  <2>3. /\ HasAudio(Append(workQ, Task(op, "audio")))
        /\ LastIs(Append(workQ, Task(op, "audio")), op)
        /\ AudioTasks(workQ) => AudioTasks(Append(workQ, Task(op, "audio")))
    BY <1>0, <2>1, AudioAppended
  <2> QED BY <2>2, <2>3 DEF AudioOrder
<1>5. /\ Task("enable", "video") \in Tasks /\ ~IsAudio(Task("enable", "video"))
      /\ Task("localVideo", "none") \in Tasks /\ ~IsAudio(Task("localVideo", "none"))
  BY TaskType DEF Ops, Slots, Kinds, IsAudio, Task
<1> QED BY <1>1, <1>2, <1>3, <1>4, <1>5
  DEF App, nativeLeaveChannel, nativeStartICE, nativeEnableCamera, nativeSetupLocalVideo

\* The main looper, the event loop and the signalling thread.
LEMMA ThreadsKeepOrder ==
  IInv /\ AudioOrder
    /\ (MainLooper \/ CreateRoomReply \/ Listener \/ \E l \in Labels : DataChannelClosed(l))
  => AudioOrder'
<1> USE DEF apiVars, queueVars, workerVars, mediaVars, AudioOn
<1>1. ASSUME IInv, AudioOrder, MainLooper PROVE AudioOrder'
  <2>1. /\ mainQ \in Seq(Tasks) /\ workQ \in Seq(Tasks) /\ mainQ # <<>> /\ Head(mainQ) \in Tasks
        /\ mainQ' = Tail(mainQ) /\ workQ' \in {workQ, Append(workQ, Head(mainQ))}
        /\ UNCHANGED <<lastAudio, looper, wpc, mProducer, crash>>
    BY <1>1 DEF IInv, TypeOK, MainLooper, Post
  <2>2. ~HasAudio(Tail(mainQ)) /\ ~IsAudio(Head(mainQ))
    <3>1. ~HasAudio(mainQ) => ~HasAudio(Tail(mainQ))
      BY <2>1, HeadTaken
    <3>2. 1 \in DOMAIN mainQ /\ Head(mainQ) = mainQ[1]
      BY <2>1
    <3> QED BY <1>1, <3>1, <3>2 DEF AudioOrder, HasAudio
  <2>3. /\ HasAudio(Append(workQ, Head(mainQ))) <=> HasAudio(workQ)
        /\ LastIs(workQ, lastAudio) => LastIs(Append(workQ, Head(mainQ)), lastAudio)
        /\ AudioTasks(workQ) => AudioTasks(Append(workQ, Head(mainQ)))
    BY <2>1, <2>2, OtherAppended
  <2> QED BY <1>1, <2>1, <2>2, <2>3 DEF AudioOrder
<1>2. ASSUME IInv, AudioOrder, CreateRoomReply PROVE AudioOrder'
  <2>1. UNCHANGED <<lastAudio, mainQ, workQ, looper, wpc, mProducer, crash>>
    BY <1>2 DEF CreateRoomReply
  <2> QED BY <1>2, <2>1 DEF AudioOrder
<1>3. ASSUME IInv, AudioOrder, Listener PROVE AudioOrder'
  <2> DEFINE once(op) == Append(workQ, Task(op, "none"))
             twice == Append(once("throw"), Task("throw", "none"))
  <2>1. workQ \in Seq(Tasks) /\ UNCHANGED <<lastAudio, mainQ, looper, wpc, mProducer, crash>>
    BY <1>3 DEF IInv, TypeOK, Listener
  <2>2. ASSUME NEW q \in Seq(Tasks), NEW op \in {"join", "roomMediasoup", "throw"}
        PROVE  /\ Append(q, Task(op, "none")) \in Seq(Tasks)
               /\ HasAudio(Append(q, Task(op, "none"))) <=> HasAudio(q)
               /\ LastIs(q, lastAudio) => LastIs(Append(q, Task(op, "none")), lastAudio)
               /\ AudioTasks(q) => AudioTasks(Append(q, Task(op, "none")))
    <3>1. Task(op, "none") \in Tasks /\ ~IsAudio(Task(op, "none"))
      BY TaskType DEF Ops, IsAudio, Task
    <3> QED BY <3>1, OtherAppended, AppendType
  <2>3. workQ' \in {workQ, once("join"), once("roomMediasoup"), once("throw"), twice}
    BY <1>3 DEF Listener, Posted, Post
  <2>4. /\ HasAudio(workQ') <=> HasAudio(workQ)
        /\ LastIs(workQ, lastAudio) => LastIs(workQ', lastAudio)
        /\ AudioTasks(workQ) => AudioTasks(workQ')
    <3>1. CASE workQ' = twice
      BY <2>1, <2>2, <3>1
    <3>2. ASSUME NEW op \in {"join", "roomMediasoup", "throw"}, workQ' = once(op)
          PROVE  /\ HasAudio(workQ') <=> HasAudio(workQ)
                 /\ LastIs(workQ, lastAudio) => LastIs(workQ', lastAudio)
                 /\ AudioTasks(workQ) => AudioTasks(workQ')
      BY <2>1, <2>2, <3>2
    <3> QED BY <2>3, <3>1, <3>2
  <2> QED BY <1>3, <2>1, <2>4 DEF AudioOrder
<1>4. ASSUME IInv, AudioOrder, NEW l \in Labels, DataChannelClosed(l) PROVE AudioOrder'
  <2>1. UNCHANGED <<lastAudio, mainQ, workQ, looper, wpc, crash>> /\ mProducer'["audio"] = mProducer["audio"]
    BY <1>4 DEF DataChannelClosed, Labels, IInv, TypeOK, Slots, Kinds
  <2> QED BY <1>4, <2>1 DEF AudioOrder
<1> QED BY <1>1, <1>2, <1>3, <1>4

\* Worker steps that take a task.
LEMMA TakesKeepOrder ==
  ASSUME IInv, AudioOrder,
         \/ Throw \/ JoinStart \/ LocalVideo \/ DestroyStart
         \/ Take("roomMediasoup") /\ createRoomMediasoup
         \/ \E s \in Slots : EnableSkips(s) \/ TrackFails(s) \/ SendFails(s) \/ ProduceClosed(s)
                             \/ ProduceAsks(s)
         \/ \E k \in Kinds : Disable(k) \/ StopSendingThrows(k)
  PROVE  AudioOrder'
<1> USE DEF apiVars, mediaVars, Die, Goto, AudioOn
<1>0. mProducer \in [Slots -> Nat] /\ "audio" \in Slots /\ wpc \in Pcs
  BY DEF IInv, TypeOK, Slots, Kinds
<1>1. ASSUME NEW op \in {"throw", "join", "localVideo", "destroy", "roomMediasoup"}, Take(op)
      PROVE  ~IsAudio(Head(workQ)) /\ wpc = "idle"
  <2>1. workQ \in Seq(Tasks) /\ workQ # <<>> /\ Head(workQ).op = op /\ wpc = "idle"
    BY <1>1 DEF IInv, TypeOK, Take
  <2>2. 1 \in DOMAIN workQ /\ Head(workQ) = workQ[1]
    BY <2>1
  <2> QED BY <2>1, <2>2 DEF AudioOrder, AudioTasks
<1>2. CASE Throw
  BY <1>2, <1>1, TakenAudio DEF Throw
<1>3. CASE JoinStart
  BY <1>3, <1>1, TakenAudio DEF JoinStart
<1>4. CASE LocalVideo
  BY <1>4, <1>1, TakenAudio DEF LocalVideo
<1>5. CASE DestroyStart
  BY <1>5, <1>1, TakenAudio DEF DestroyStart
<1>6. CASE Take("roomMediasoup") /\ createRoomMediasoup
  <2>1. UNCHANGED <<mainQ, lastAudio, looper, mProducer>> /\ wpc' # "audio"
    BY <1>6 DEF createRoomMediasoup
  <2> QED BY <1>6, <1>1, <2>1, TakenAudio
<1>7. ASSUME NEW s \in Slots,
             EnableSkips(s) \/ TrackFails(s) \/ SendFails(s) \/ ProduceClosed(s) \/ ProduceAsks(s)
      PROVE  AudioOrder'
  <2>1. Take("enable") /\ Head(workQ).slot = s /\ UNCHANGED <<mainQ, lastAudio, looper>> /\ wpc = "idle"
    BY <1>7 DEF EnableSkips, TrackFails, SendFails, ProduceClosed, ProduceAsks, TakeEnable, Take, EnableEnds
  <2>2. s # "audio" => mProducer'["audio"] = mProducer["audio"] /\ (crash' = "none" => wpc' # "audio")
    BY <1>7, <1>0, <2>1
    DEF EnableSkips, TrackFails, SendFails, ProduceClosed, ProduceAsks, EnableEnds, Created
  <2> QED BY <2>1, <2>2, TakenAudio DEF IsAudio
<1>8. ASSUME NEW k \in Kinds, Disable(k) \/ StopSendingThrows(k) PROVE AudioOrder'
  <2>1. Take("disable") /\ Head(workQ).slot = k /\ UNCHANGED <<mainQ, lastAudio, looper>> /\ wpc = "idle"
    BY <1>8 DEF Disable, StopSendingThrows, TakeDisable, Take
  <2>2. crash' = "none" => /\ wpc' = "idle"
                           /\ mProducer'["audio"] = IF k = "audio" THEN Null ELSE mProducer["audio"]
    BY <1>8, <1>0, <2>1 DEF Disable, StopSendingThrows
  <2> QED BY <2>1, <2>2, TakenAudio DEF IsAudio
<1> QED BY <1>2, <1>3, <1>4, <1>5, <1>6, <1>7, <1>8

\* Worker steps inside a task.
LEMMA InsideKeepsOrder ==
  ASSUME IInv, AudioOrder,
         \/ JoinLoad \/ createSendTransport \/ createRecvTransport \/ JoinEnd \/ RequestFails
         \/ FusionReply \/ CloseSendTransport \/ disposeTransportDevice \/ DestroyEnd
         \/ Working /\ wpc = "roomMediasoup" /\ UNCHANGED workQ /\ createRoomMediasoup
         \/ \E s \in Slots : ProduceReply(s)
  PROVE  AudioOrder'
<1> USE DEF apiVars, queueVars, mediaVars, Die, Goto, AudioOn
<1>0. /\ mProducer \in [Slots -> Nat] /\ "audio" \in Slots /\ workQ \in Seq(Tasks)
  BY DEF IInv, TypeOK, Slots, Kinds
<1>1. CASE JoinLoad \/ createRecvTransport \/ JoinEnd \/ RequestFails \/ FusionReply
           \/ disposeTransportDevice
           \/ (Working /\ wpc = "roomMediasoup" /\ UNCHANGED workQ /\ createRoomMediasoup)
  <2>1. /\ UNCHANGED <<lastAudio, mainQ, workQ, looper, mProducer>> /\ crash = "none"
        /\ wpc' = wpc \/ wpc' # "audio"
    BY <1>1 DEF JoinLoad, createRecvTransport, JoinEnd, RequestFails, FusionReply,
                disposeTransportDevice, createRoomMediasoup, Working, Take
  <2> QED BY <2>1 DEF AudioOrder
<1>2. CASE createSendTransport
  <2> DEFINE chat == Task("enable", "chat")
             bot  == Task("enable", "bot")
  <2>1. chat \in Tasks /\ bot \in Tasks /\ ~IsAudio(chat) /\ ~IsAudio(bot)
    BY TaskType DEF Ops, Slots, Kinds, Labels, IsAudio, Task
  <2>2. workQ' = Append(Append(workQ, chat), bot) /\ Append(workQ, chat) \in Seq(Tasks)
    <3> HIDE DEF chat, bot
    <3>1. workQ' = workQ \o <<chat, bot>>
      BY <1>2 DEF createSendTransport, chat, bot
    <3> QED BY <1>0, <2>1, <3>1
  <2>3. /\ HasAudio(workQ') <=> HasAudio(workQ)
        /\ LastIs(workQ, lastAudio) => LastIs(workQ', lastAudio)
        /\ AudioTasks(workQ) => AudioTasks(workQ')
    BY <1>0, <2>1, <2>2, OtherAppended
  <2>4. UNCHANGED <<lastAudio, mainQ, looper, mProducer, crash>> /\ wpc' # "audio"
    BY <1>2 DEF createSendTransport
  <2> QED BY <2>3, <2>4 DEF AudioOrder
<1>3. CASE CloseSendTransport
  <2>1. /\ UNCHANGED <<lastAudio, mainQ, workQ, looper, crash>> /\ wpc' # "audio"
        /\ mProducer'["audio"] # Null => mProducer["audio"] # Null
    BY <1>0, <1>3 DEF CloseSendTransport, TransportClosed
  <2> QED BY <2>1 DEF AudioOrder
<1>4. CASE DestroyEnd
  <2>1. UNCHANGED mainQ /\ workQ' = <<>> /\ looper' = "quit"
    BY <1>4 DEF DestroyEnd, QuitLooper
  <2> QED BY <2>1 DEF AudioOrder, AudioTasks
<1>5. ASSUME NEW s \in Slots, ProduceReply(s) PROVE AudioOrder'
  <2>1. UNCHANGED <<lastAudio, mainQ, workQ, looper, crash>> /\ wpc' # "audio" /\ wpc = s
    BY <1>5 DEF ProduceReply, EnableEnds
  <2>2. s # "audio" => mProducer'["audio"] = mProducer["audio"]
    BY <1>0, <1>5 DEF ProduceReply, Created
  <2> QED BY <2>1, <2>2 DEF AudioOrder
<1> QED BY <1>1, <1>2, <1>3, <1>4, <1>5

LEMMA NextKeepsOrder == IInv /\ AudioOrder /\ [Next]_vars => AudioOrder'
<1> SUFFICES ASSUME IInv, AudioOrder, [Next]_vars PROVE AudioOrder'
  OBVIOUS
<1>1. CASE Worker
  BY <1>1, TakesKeepOrder, InsideKeepsOrder DEF Worker, Produce, createRoomMediasoup
<1>2. CASE UNCHANGED vars
  BY <1>2 DEF vars, apiVars, queueVars, workerVars, mediaVars, AudioOrder, AudioOn
<1> QED BY <1>1, <1>2, AppKeepsOrder, ThreadsKeepOrder DEF Next

\* Audio calls take effect in the order in which the application made them.
THEOREM AudioCallsKeepTheirOrder == Spec => []LastAudioCallWins
<1>1. Init => AudioOrder
  BY DEF Init, AudioOrder, HasAudio, LastIs, AudioTasks, AudioOn, Slots, Kinds, Null
<1>2. IInv /\ AudioOrder /\ [Next]_vars => AudioOrder'
  BY NextKeepsOrder
<1>3. AudioOrder => LastAudioCallWins
  BY DEF AudioOrder, LastAudioCallWins, AudioTaskLeft, HasAudio, AudioOn
<1> QED BY <1>1, <1>2, <1>3, Inductive, PTL DEF Spec

=============================================================================
