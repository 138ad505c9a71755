----------------------------- MODULE RtcEngine -----------------------------
(***************************************************************************)
(* The local side of RtcEngineEx: the application's calls, the main looper, *)
(* the worker looper with its FIFO queue, the replies of the signalling     *)
(* server, and the native producers of the send transport, from the         *)
(* creation of the engine to the end of nativeDestroy's task.               *)
(*                                                                          *)
(* Threads: application calls are serialised by RtcEngineImpl's monitor     *)
(* (caller); the main looper forwards two calls to the worker (mainQ); the  *)
(* worker runs one task at a time and blocks inside it on the server's      *)
(* replies (wpc); netty's event loop runs the listeners of replies (nettyQ);*)
(* WebRTC's signalling thread reports the end of a data channel.            *)
(***************************************************************************)
EXTENDS Integers, Sequences, FiniteSets

CONSTANTS
  CanProduce,     \* the kinds for which the loaded device can produce
  FusionProfile,  \* TRUE when channelProfile == 1
  MaxCalls        \* bound: application calls in one behaviour

Kinds  == {"video", "audio"}
Labels == {"chat", "bot"}
Slots  == Kinds \cup Labels

ASSUME CanProduceAssumption == CanProduce \subseteq Kinds
ASSUME FusionAssumption == FusionProfile \in BOOLEAN
ASSUME MaxCallsAssumption == MaxCalls \in Nat

\* The empty string onProduce returns when it has no id of the server.
NoId == 0

\* The null of the mVideoProducer, mAudioProducer, ... fields.
Null == 0

VARIABLES
  calls,           \* how many calls the application has made
  caller,          \* who holds RtcEngineImpl's monitor: "free" or a blocked call
  lastAudio,       \* history: the last audio call the worker's queue accepted
  mainQ,           \* the main looper's queue
  workQ,           \* the worker looper's queue
  nettyQ,          \* replies whose listener has not run yet
  createRoomReq,   \* joinImpl's createRoom request has no answer yet
  looper,          \* the worker looper: "running" or "quit"
  wpc,             \* where the worker is inside its task
  crash,           \* why the process died, or "none"
  mClosed,
  mStartupClient,  \* "open" or "null"
  mDevice,         \* "new", "loaded" or "disposed"
  mSendTransport,  \* "null", "open" or "closed" (and not yet disposed)
  mRecvTransport,  \* "null" or "open"
  mTrack,          \* mLocalVideoTrack and mLocalAudioTrack
  mProducer,       \* the engine's producer fields, by slot: an index of objs
  objs,            \* every native Producer and DataProducer ever created
  inMap,           \* SendTransport's producers and dataProducers maps
  store,           \* RoomStore's producers map
  serverProducers, \* the producers the server has for this user
  lostCloses       \* history: ids whose closeUserProducer failed or never reached the server

apiVars    == <<calls, caller, lastAudio, mClosed>>
queueVars  == <<mainQ, workQ, nettyQ, createRoomReq>>
workerVars == <<looper, wpc, crash>>
linkVars   == <<mStartupClient, mDevice, mSendTransport, mRecvTransport>>
mediaVars  == <<mTrack, mProducer, objs, inMap, store, serverProducers, lostCloses>>
vars       == <<apiVars, queueVars, workerVars, linkVars, mediaVars>>

-----------------------------------------------------------------------------
\* Tasks of the worker's queue and the places where a task waits.

Task(op, slot) == [op |-> op, slot |-> slot]
Ops   == {"join", "roomMediasoup", "throw", "enable", "disable", "localVideo", "destroy"}
Tasks == [op : Ops, slot : Slots \cup {"none"}]

JoinPcs    == {"caps", "send", "recv", "room"}
DestroyPcs == {"closeSend", "free", "tracks"}
\* wpc = s for a slot s: the worker waits in onProduce(Data) for the id of s.
Pcs == {"idle", "roomMediasoup", "fusion"} \cup JoinPcs \cup DestroyPcs \cup Slots

Replies == {"ok", "badToken", "mismatch", "fail", "createRoom"}
Crashes == {"none", "rpc", "loaded", "config", "track", "native", "caller", "disposed"}

\* A native object: which field it was made for, the id the server gave it.
Obj == [slot : Slots, id : Nat, closed : BOOLEAN]

Refs == DOMAIN objs

\* Handler.post: refused, without an exception, once the looper has quit.
Post(q, t) == IF looper = "quit" THEN q ELSE Append(q, t)

\* producers and dataProducers are maps from an id: two objects of one map
\* collide when they have the same id.
SameMap(s, t) == (s \in Kinds) = (t \in Kinds)
SameKey(r, s, id) == SameMap(objs[r].slot, s) /\ objs[r].id = id

Init ==
  /\ calls = 0 /\ caller = "free" /\ lastAudio = "none"
  /\ mainQ = <<>> /\ workQ = <<>> /\ nettyQ = <<>> /\ createRoomReq = FALSE
  /\ looper = "running" /\ wpc = "idle" /\ crash = "none"
  /\ mClosed = FALSE /\ mStartupClient = "open" /\ mDevice = "new"
  /\ mSendTransport = "null" /\ mRecvTransport = "null"
  /\ mTrack = [k \in Kinds |-> "none"]
  /\ mProducer = [s \in Slots |-> Null]
  /\ objs = <<>> /\ inMap = {} /\ store = {} /\ serverProducers = {}
  /\ lostCloses = {}

-----------------------------------------------------------------------------
(***************************************************************************)
(* The application's calls. Each holds RtcEngineImpl's monitor; the ones    *)
(* that ask the server keep it until the answer comes.                      *)
(***************************************************************************)
Call ==
  /\ crash = "none" /\ caller = "free" /\ calls < MaxCalls
  /\ calls' = calls + 1

\* A call that sends a request through mStartupClient and waits for its answer;
\* the field is null once the destroy task has begun.
AskServer(what) ==
  IF mStartupClient = "null"
  THEN crash' = "caller" /\ UNCHANGED caller
  ELSE caller' = what /\ UNCHANGED crash

nativeJoinChannel ==
  /\ Call /\ AskServer("join")
  /\ UNCHANGED <<lastAudio, mClosed, looper, wpc, queueVars, linkVars, mediaVars>>

\* A call that only asks the server and returns the code of its answer.
Request ==
  /\ Call /\ AskServer("request")
  /\ UNCHANGED <<lastAudio, mClosed, looper, wpc, queueVars, linkVars, mediaVars>>
nativeLeaveChannel == Request  \* and nativeCloseChannel
nativeStartICE     == Request  \* and nativeChangeDisplayUserName and the fusion calls

\* The answer wakes the blocked caller; initClient's listener runs later.
RequestReply ==
  /\ crash = "none" /\ caller # "free"
  /\ caller' = "free"
  /\ IF caller = "join"
     THEN \E code \in {"ok", "badToken", "mismatch", "fail"} : nettyQ' = Append(nettyQ, code)
     ELSE UNCHANGED nettyQ
  /\ UNCHANGED <<calls, lastAudio, mClosed, mainQ, workQ, createRoomReq, workerVars, linkVars,
                 mediaVars>>

\* enableVideo and setupLocalVideo reach the worker through the main looper.
ThroughMain(t) ==
  /\ Call /\ mainQ' = Append(mainQ, t)
  /\ UNCHANGED <<caller, lastAudio, mClosed, workQ, nettyQ, createRoomReq, workerVars, linkVars,
                 mediaVars>>
nativeEnableCamera    == ThroughMain(Task("enable", "video"))
nativeSetupLocalVideo == ThroughMain(Task("localVideo", "none"))

nativeDisableCamera ==
  /\ Call /\ workQ' = Post(workQ, Task("disable", "video"))
  /\ UNCHANGED <<caller, lastAudio, mClosed, mainQ, nettyQ, createRoomReq, workerVars, linkVars,
                 mediaVars>>

\* nativeEnableAudio and nativeDisableAudio post their task directly.
\* Mutant: enabling goes through the main looper, as it does for the camera.
AudioThroughMain(op) ==
  IF op = "enable" THEN mainQ' = Append(mainQ, Task(op, "audio")) /\ UNCHANGED workQ
                   ELSE workQ' = Post(workQ, Task(op, "audio")) /\ UNCHANGED mainQ
AudioQueues(op) ==
  /\ workQ' = Post(workQ, Task(op, "audio")) /\ UNCHANGED mainQ
nativeAudio(op) ==
  /\ Call /\ AudioQueues(op)
  /\ lastAudio' = IF looper = "quit" THEN lastAudio ELSE op
  /\ UNCHANGED <<caller, mClosed, nettyQ, createRoomReq, workerVars, linkVars, mediaVars>>

nativeDestroy ==
  /\ Call
  /\ mClosed' = TRUE
  /\ workQ' = IF mClosed THEN workQ ELSE Post(workQ, Task("destroy", "none"))
  /\ UNCHANGED <<caller, lastAudio, mainQ, nettyQ, createRoomReq, workerVars, linkVars, mediaVars>>

-----------------------------------------------------------------------------
(***************************************************************************)
(* The main looper and netty's event loop.                                  *)
(***************************************************************************)
MainLooper ==
  /\ crash = "none" /\ mainQ # <<>>
  /\ mainQ' = Tail(mainQ) /\ workQ' = Post(workQ, Head(mainQ))
  /\ UNCHANGED <<apiVars, nettyQ, createRoomReq, workerVars, linkVars, mediaVars>>

CreateRoomReply ==
  /\ crash = "none" /\ createRoomReq
  /\ createRoomReq' = FALSE
  /\ \/ nettyQ' = Append(nettyQ, "createRoom")
     \/ UNCHANGED nettyQ
  /\ UNCHANGED <<apiVars, mainQ, workQ, workerVars, linkVars, mediaVars>>

\* What the listener of a reply posts. Code 1 falls through to code 1000, so
\* its listener posts two tasks that throw.
Posted(reply) ==
  CASE reply = "ok"         -> Post(workQ, Task("join", "none"))
    [] reply = "createRoom" -> Post(workQ, Task("roomMediasoup", "none"))
    [] reply = "badToken"   -> LET q == Post(workQ, Task("throw", "none"))
                               IN  Post(q, Task("throw", "none"))
    [] reply = "mismatch"   -> Post(workQ, Task("throw", "none"))
    [] OTHER                -> workQ

Listener ==
  /\ crash = "none" /\ nettyQ # <<>>
  /\ nettyQ' = Tail(nettyQ) /\ workQ' = Posted(Head(nettyQ))
  /\ UNCHANGED <<apiVars, mainQ, createRoomReq, workerVars, linkVars, mediaVars>>

\* DataProducer's onClose, on the signalling thread.
DataChannelClosed(l) ==
  /\ crash = "none" /\ mProducer[l] # Null
  /\ mProducer' = [mProducer EXCEPT ![l] = Null]
  /\ UNCHANGED <<apiVars, queueVars, workerVars, linkVars, mTrack, objs, inMap, store,
                 serverProducers, lostCloses>>

-----------------------------------------------------------------------------
(***************************************************************************)
(* The worker. Take(op) removes the task at the head of the queue.          *)
(***************************************************************************)
Working == crash = "none" /\ looper = "running"

Take(op) ==
  /\ Working /\ wpc = "idle" /\ workQ # <<>> /\ Head(workQ).op = op
  /\ workQ' = Tail(workQ)

Die(cause) == crash' = cause /\ UNCHANGED <<looper, wpc>>
Goto(pc)   == wpc' = pc /\ UNCHANGED <<looper, crash>>

Throw ==
  /\ Take("throw") /\ Die("config")
  /\ UNCHANGED <<apiVars, mainQ, nettyQ, createRoomReq, linkVars, mediaVars>>

\* joinImpl up to the first request: no network, or the request is sent.
JoinStart ==
  /\ Take("join")
  /\ IF mStartupClient = "null" THEN Die("disposed")
     ELSE Goto("caps") \/ Goto("idle")
  /\ UNCHANGED <<apiVars, mainQ, nettyQ, createRoomReq, linkVars, mediaVars>>

\* A failed request ends joinImpl with an exception nobody catches.
RequestFails ==
  /\ Working /\ wpc \in JoinPcs \cup {"roomMediasoup"} \cup Slots
  /\ Die("rpc")
  /\ UNCHANGED <<apiVars, queueVars, linkVars, mediaVars>>

\* Device::Load throws when it has been loaded before.
JoinLoad ==
  /\ Working /\ wpc = "caps"
  /\ CASE mDevice = "new"    -> mDevice' = "loaded" /\ Goto("send")
       [] mDevice = "loaded" -> UNCHANGED mDevice /\ Die("loaded")
       [] OTHER              -> UNCHANGED mDevice /\ Die("disposed")
  /\ UNCHANGED <<apiVars, queueVars, mStartupClient, mSendTransport, mRecvTransport, mediaVars>>

createSendTransport ==
  /\ Working /\ wpc = "send"
  /\ mSendTransport' = "open"
  /\ workQ' = workQ \o <<Task("enable", "chat"), Task("enable", "bot")>>
  /\ Goto("recv")
  /\ UNCHANGED <<apiVars, mainQ, nettyQ, createRoomReq, mStartupClient, mDevice, mRecvTransport,
                 mediaVars>>

createRecvTransport ==
  /\ Working /\ wpc = "recv"
  /\ mRecvTransport' = "open" /\ createRoomReq' = TRUE
  /\ Goto("room")
  /\ UNCHANGED <<apiVars, mainQ, workQ, nettyQ, mStartupClient, mDevice, mSendTransport, mediaVars>>

JoinEnd ==
  /\ Working /\ wpc = "room" /\ Goto("idle")
  /\ UNCHANGED <<apiVars, queueVars, linkVars, mediaVars>>

createRoomMediasoup ==
  /\ \/ Take("roomMediasoup") /\ Goto("roomMediasoup")
     \/ Working /\ wpc = "roomMediasoup" /\ Goto("idle") /\ UNCHANGED workQ
  /\ UNCHANGED <<apiVars, mainQ, nettyQ, createRoomReq, linkVars, mediaVars>>

-----------------------------------------------------------------------------
(***************************************************************************)
(* Enabling and disabling a producer on the worker.                         *)
(***************************************************************************)
\* Mutant: the check that the field is still null is dropped.
ReadyTwice(s) ==
  /\ mSendTransport # "null"
  /\ s \in Kinds => mDevice = "loaded" /\ s \in CanProduce

\* The early returns of enableCameraImpl, enableAudioImpl and of the tasks
\* of enableChatDataProducer and enableBotDataProducer.
ReadyToProduce(s) ==
  /\ mProducer[s] = Null
  /\ mSendTransport # "null"
  /\ s \in Kinds => mDevice = "loaded" /\ s \in CanProduce

TakeEnable(s) == Take("enable") /\ Head(workQ).slot = s

EnableSkips(s) ==
  /\ TakeEnable(s) /\ ~ReadyToProduce(s)
  /\ IF s \in Kinds /\ mProducer[s] = Null /\ mDevice = "disposed"
     THEN Die("disposed") ELSE Goto("idle")
  /\ UNCHANGED <<apiVars, mainQ, nettyQ, createRoomReq, linkVars, mediaVars>>

\* The first use of a kind makes its track, enabled; a track is never enabled
\* again after a failure has disabled it.
WithTrack(s) ==
  IF s \in Kinds /\ mTrack[s] = "none" THEN [mTrack EXCEPT ![s] = "on"] ELSE mTrack

TrackFails(s) ==
  /\ TakeEnable(s) /\ ReadyToProduce(s) /\ WithTrack(s) # mTrack
  /\ Die("track")
  /\ UNCHANGED <<apiVars, mainQ, nettyQ, createRoomReq, linkVars, mediaVars>>

\* enableCameraImpl ends with nativeStartFusion in the fusion profile, which
\* asks the server when there is a network.
EnableEnds(s) ==
  \/ Goto("idle")
  \/ s = "video" /\ FusionProfile /\ Goto("fusion")

\* SendHandler::Send or SendDataChannel throws; the impls catch it.
SendFails(s) ==
  /\ TakeEnable(s) /\ ReadyToProduce(s)
  /\ mTrack' = IF s \in Kinds THEN [mTrack EXCEPT ![s] = "off"] ELSE mTrack
  /\ EnableEnds(s)
  /\ UNCHANGED <<apiVars, mainQ, nettyQ, createRoomReq, linkVars, mProducer, objs, inMap, store,
                 serverProducers, lostCloses>>

\* SendTransport::Produce(Data) after the id is known: the object enters the
\* transport's map under its id, the engine's field and, for media, the store.
Created(s, id) ==
  LET new == Len(objs) + 1
  IN  /\ objs' = Append(objs, [slot |-> s, id |-> id, closed |-> FALSE])
      /\ inMap' = {r \in inMap : ~SameKey(r, s, id)} \cup {new}
      /\ mProducer' = [mProducer EXCEPT ![s] = new]
      /\ store' = IF s \in Kinds THEN {r \in store : objs[r].id # id} \cup {new} ELSE store

\* onProduce and onProduceData return "" without asking when mClosed is set.
ProduceClosed(s) ==
  /\ TakeEnable(s) /\ ReadyToProduce(s) /\ mClosed
  /\ mTrack' = WithTrack(s)
  /\ Created(s, NoId)
  /\ EnableEnds(s)
  /\ UNCHANGED <<apiVars, mainQ, nettyQ, createRoomReq, linkVars, serverProducers,
                 lostCloses>>

\* Otherwise the worker waits for the id inside the callback.
ProduceAsks(s) ==
  /\ TakeEnable(s) /\ ReadyToProduce(s) /\ ~mClosed
  /\ mTrack' = WithTrack(s)
  /\ Goto(s)
  /\ UNCHANGED <<apiVars, mainQ, nettyQ, createRoomReq, linkVars, mProducer, objs, inMap, store,
                 serverProducers, lostCloses>>

\* fetchProduceId: the server's new id, or "" when the answer cannot be parsed
\* (the server then has no producer: it issued no id).
ProduceReply(s) ==
  /\ Working /\ wpc = s
  /\ \/ /\ Created(s, Len(objs) + 1)
        /\ serverProducers' = IF s \in Kinds THEN serverProducers \cup {Len(objs) + 1}
                                             ELSE serverProducers
     \/ Created(s, NoId) /\ UNCHANGED serverProducers
  /\ EnableEnds(s)
  /\ UNCHANGED <<apiVars, queueVars, linkVars, mTrack, lostCloses>>

FusionReply ==
  /\ Working /\ wpc = "fusion" /\ Goto("idle")
  /\ UNCHANGED <<apiVars, queueVars, linkVars, mediaVars>>

\* Mutant: the request is forgotten.
KeepUserProducer(id) == UNCHANGED <<serverProducers, lostCloses>>
\* The request closeUserProducer: nobody looks at its promise and any exception of sending it is
\* swallowed, so the server closes the producer or, unnoticed, keeps it.
CloseUserProducer(id) ==
  \/ serverProducers' = serverProducers \ {id} /\ UNCHANGED lostCloses
  \/ lostCloses' = lostCloses \cup {id} /\ UNCHANGED serverProducers

TakeDisable(k) == Take("disable") /\ Head(workQ).slot = k

\* disableCameraImpl and disableAudioImpl: Producer::Close erases the id from
\* the map and stops sending, which may throw through JNI; then the store, the
\* server and the field forget the producer.
Disable(k) ==
  /\ TakeDisable(k)
  /\ IF mProducer[k] = Null
     THEN Goto("idle") /\ UNCHANGED mediaVars
     ELSE LET r  == mProducer[k]
              id == objs[r].id
          IN  /\ objs' = [objs EXCEPT ![r].closed = TRUE]
              /\ inMap' = {q \in inMap : ~SameKey(q, k, id)}
              /\ store' = {q \in store : objs[q].id # id}
              /\ CloseUserProducer(id)
              /\ mProducer' = [mProducer EXCEPT ![k] = Null]
              /\ UNCHANGED mTrack
              /\ Goto("idle")
  /\ UNCHANGED <<apiVars, mainQ, nettyQ, createRoomReq, linkVars>>

StopSendingThrows(k) ==
  /\ TakeDisable(k) /\ mProducer[k] # Null /\ ~objs[mProducer[k]].closed
  /\ Die("native")
  /\ UNCHANGED <<apiVars, mainQ, nettyQ, createRoomReq, linkVars, mediaVars>>

\* The worker's part of nativeSetupLocalVideo.
LocalVideo ==
  /\ Take("localVideo")
  /\ \/ mTrack' = WithTrack("video") /\ Goto("idle")
     \/ WithTrack("video") # mTrack /\ UNCHANGED mTrack /\ Die("track")
  /\ UNCHANGED <<apiVars, mainQ, nettyQ, createRoomReq, linkVars, mProducer, objs, inMap, store,
                 serverProducers, lostCloses>>

-----------------------------------------------------------------------------
(***************************************************************************)
(* The task nativeDestroy posts. Closing the client ends the session on the *)
(* server; closing the send transport calls onTransportClose of every       *)
(* object its maps still hold; quitting the looper drops the queue.         *)
(***************************************************************************)
DestroyStart ==
  /\ Take("destroy")
  /\ mStartupClient' = "null" /\ serverProducers' = {}
  /\ Goto("closeSend")
  /\ UNCHANGED <<apiVars, mainQ, nettyQ, createRoomReq, mDevice, mSendTransport, mRecvTransport,
                 mTrack, mProducer, objs, inMap, store, lostCloses>>

\* The objects SendTransport::Close finds in its maps and that are not closed.
\* Mutant: only the data producers are visited.
DataOnly == {r \in inMap : ~objs[r].closed /\ objs[r].slot \in Labels}
ClosedByTransport == {r \in inMap : ~objs[r].closed}

\* The audio listener also removes the field's producer from the store; the
\* video listener does not.
\* Mutant: neither of them does.
StoreKeeps(slots) == store
StoreAfterClose(slots) ==
  IF "audio" \in slots /\ mProducer["audio"] # Null
  THEN {q \in store : objs[q].id # objs[mProducer["audio"]].id}
  ELSE store

\* The listeners of the objects in told set their field to null.
TransportClosed(told) ==
  LET slots == {objs[r].slot : r \in told}
  IN  /\ objs' = [r \in Refs |-> IF r \in told THEN [objs[r] EXCEPT !.closed = TRUE] ELSE objs[r]]
      /\ mProducer' = [s \in Slots |-> IF s \in slots THEN Null ELSE mProducer[s]]
      /\ store' = StoreAfterClose(slots)

CloseSendTransport ==
  /\ Working /\ wpc = "closeSend"
  /\ IF mSendTransport = "open"
     THEN mSendTransport' = "closed" /\ TransportClosed(ClosedByTransport)
     ELSE UNCHANGED <<mSendTransport, objs, mProducer, store>>
  /\ Goto("free")
  /\ UNCHANGED <<apiVars, queueVars, mStartupClient, mDevice, mRecvTransport, mTrack, inMap,
                 serverProducers, lostCloses>>

\* dispose() of both transports, then of the device.
disposeTransportDevice ==
  /\ Working /\ wpc = "free"
  /\ mSendTransport' = "null" /\ mRecvTransport' = "null" /\ mDevice' = "disposed"
  /\ Goto("tracks")
  /\ UNCHANGED <<apiVars, queueVars, mStartupClient, mediaVars>>

\* Looper.quit drops every message that is still queued.
\* Mutant: the looper is left running.
StayInLooper == UNCHANGED <<looper, workQ>>
QuitLooper == looper' = "quit" /\ workQ' = <<>>

DestroyEnd ==
  /\ Working /\ wpc = "tracks"
  /\ mTrack' = [k \in Kinds |-> IF mTrack[k] = "none" THEN "none" ELSE "disposed"]
  /\ QuitLooper /\ wpc' = "idle" /\ UNCHANGED crash
  /\ UNCHANGED <<apiVars, mainQ, nettyQ, createRoomReq, linkVars, mProducer, objs, inMap, store,
                 serverProducers, lostCloses>>

-----------------------------------------------------------------------------
App ==
  \/ nativeJoinChannel \/ nativeLeaveChannel \/ nativeStartICE \/ nativeDestroy
  \/ nativeEnableCamera \/ nativeDisableCamera \/ nativeSetupLocalVideo
  \/ \E op \in {"enable", "disable"} : nativeAudio(op)

Produce(s) ==
  EnableSkips(s) \/ TrackFails(s) \/ SendFails(s) \/ ProduceClosed(s) \/ ProduceAsks(s)
  \/ ProduceReply(s)

Worker ==
  \/ Throw \/ JoinStart \/ JoinLoad \/ createSendTransport \/ createRecvTransport \/ JoinEnd
  \/ createRoomMediasoup \/ RequestFails \/ FusionReply \/ LocalVideo
  \/ \E s \in Slots : Produce(s)
  \/ \E k \in Kinds : Disable(k) \/ StopSendingThrows(k)
  \/ DestroyStart \/ CloseSendTransport \/ disposeTransportDevice \/ DestroyEnd

Next ==
  \/ App \/ RequestReply \/ MainLooper \/ CreateRoomReply \/ Listener \/ Worker
  \/ \E l \in Labels : DataChannelClosed(l)

Spec == Init /\ [][Next]_vars

\* The loopers and netty's event loop run what is queued, and every request is
\* answered or fails: netty completes the promise of a request either way.
Fairness ==
  /\ WF_vars(Worker) /\ WF_vars(MainLooper) /\ WF_vars(Listener)
  /\ WF_vars(RequestReply) /\ WF_vars(CreateRoomReply)

FairSpec == Spec /\ Fairness

-----------------------------------------------------------------------------
\* Types of the state.
TypeOK ==
  /\ calls \in 0..MaxCalls
  /\ caller \in {"free", "join", "request"}
  /\ lastAudio \in {"none", "enable", "disable"}
  /\ mainQ \in Seq(Tasks) /\ workQ \in Seq(Tasks) /\ nettyQ \in Seq(Replies)
  /\ createRoomReq \in BOOLEAN /\ mClosed \in BOOLEAN
  /\ looper \in {"running", "quit"} /\ wpc \in Pcs /\ crash \in Crashes
  /\ mStartupClient \in {"open", "null"}
  /\ mDevice \in {"new", "loaded", "disposed"}
  /\ mSendTransport \in {"null", "open", "closed"} /\ mRecvTransport \in {"null", "open"}
  /\ mTrack \in [Kinds -> {"none", "on", "off", "disposed"}]
  /\ objs \in Seq(Obj)
  /\ mProducer \in [Slots -> Nat]
  /\ inMap \subseteq Refs /\ store \subseteq Refs /\ serverProducers \subseteq Refs
  /\ lostCloses \subseteq Nat

\* The field mVideoProducer or mAudioProducer names exactly the live native
\* producer of its kind: there is never a second one, none is leaked by an
\* enable that overlaps a disable or a close, and no field keeps a closed one
\* (enableCameraImpl, disableCameraImpl, SendTransport::Close's callbacks).
FieldIsTheLiveProducer ==
  \A k \in Kinds : \A r \in Refs :
    objs[r].slot = k => (mProducer[k] = r <=> ~objs[r].closed)

\* Every producer the server has for this user is one the engine still holds,
\* or one it asked the server to close by a request that failed or was lost:
\* nothing else makes remote users consume a stream nobody feeds
\* (createUserProduce in onProduce against closeUserProducer in the disable
\* tasks). And a lost request was sent only after the native producer closed.
ServerProducersAreHeld ==
  /\ crash = "none" =>
       \A id \in serverProducers : mProducer[objs[id].slot] = id \/ id \in lostCloses
  /\ \A id \in lostCloses \cap Refs : objs[id].closed

\* When the send transport has closed or is gone, the engine holds no media
\* producer that has an id of the server: onTransportClose reached it.
IssuedProducersEnd ==
  mSendTransport # "open" =>
    \A k \in Kinds : mProducer[k] # Null => objs[mProducer[k]].id = NoId

\* The store lists a producer with an id of the server while the engine holds
\* it; the audio one leaves the store with its field, the video one may stay
\* behind, but only after the transport has closed.
StoreFollowsFields ==
  \A r \in Refs :
    objs[r].slot \in Kinds /\ objs[r].id # NoId =>
      /\ mProducer[objs[r].slot] = r => r \in store
      /\ r \in store /\ mProducer[objs[r].slot] # r =>
           objs[r].slot = "video" /\ mSendTransport # "open"

\* Audio calls take effect in the order the application made them: with no
\* audio task left to run, the microphone is on only if the last call the
\* worker accepted enabled it (nativeEnableAudio, nativeDisableAudio).
IsAudio(t) == t.slot = "audio"
AudioTaskLeft == wpc = "audio" \/ \E i \in DOMAIN workQ : IsAudio(workQ[i])
LastAudioCallWins ==
  crash = "none" /\ looper = "running" /\ ~AudioTaskLeft /\ mProducer["audio"] # Null =>
    lastAudio = "enable"

\* No task of the worker reaches the disposed device or the closed client,
\* whatever was queued before and after nativeDestroy.
NeverUsesDisposed == crash # "disposed"

\* nativeDestroy always comes to its end: whatever the worker is doing and has
\* queued, the client, the transports and the device are released and the
\* looper quits, unless the process dies first.
Released == looper = "quit" /\ mStartupClient = "null" /\ mDevice = "disposed"
DestroyCompletes == mClosed ~> (Released \/ crash # "none")

\* What Transport.close promises in its documentation: the transport's
\* producers are closed with it, every one of them.
TransportCloseClosesAll ==
  mSendTransport = "closed" =>
    \A r \in Refs : objs[r].slot \in Kinds => objs[r].closed

=============================================================================
