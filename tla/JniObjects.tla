---------------------------- MODULE JniObjects ----------------------------
(***************************************************************************)
(* The native objects behind org.mediasoup.droid and who may still use      *)
(* them: devices, transports, producers, consumers, their data variants,    *)
(* and peer connections. A Java wrapper holds a handle to an owner          *)
(* (OwnedSendTransport and the like), which holds the native object and the *)
(* C++ listener through which it calls Java back. Only devices, transports  *)
(* and peer connections are ever freed.                                     *)
(*                                                                          *)
(* Java threads call in as they like, for no wrapper and no native function *)
(* takes a lock; WebRTC's signalling thread delivers connection states and  *)
(* data channel events whenever it likes. Closing a peer connection or a    *)
(* data channel waits for that thread, so a callback is one step.           *)
(*                                                                          *)
(* The classes rely on their callers for three things: calls on a transport *)
(* and its children do not overlap, a transport is closed before it is      *)
(* freed, a device is freed after its transports. The history variable      *)
(* misused records where the callers broke that; nothing forbids it.        *)
(***************************************************************************)
EXTENDS Naturals, FiniteSets

CONSTANTS
  Threads,     \* Java threads
  Objs,        \* the native objects that may be created
  Kind,        \* object -> its class
  Parent,      \* object -> the object that creates it, or NoObj
  NoObj,
  MaxCreated   \* bound: objects with a listener created in one behaviour

RootKinds      == {"Device", "PeerConnection"}
TransportKinds == {"SendTransport", "RecvTransport"}
DataKinds      == {"DataProducer", "DataConsumer"}
ProducerKinds  == {"Producer", "DataProducer"}
ChildKinds     == {"Producer", "Consumer"} \cup DataKinds

ParentKind(k) ==
  IF k \in TransportKinds THEN "Device"
  ELSE IF k \in ProducerKinds THEN "SendTransport" ELSE "RecvTransport"

ASSUME NoObjAssumption == NoObj \notin Objs
ASSUME MaxCreatedAssumption == MaxCreated \in Nat
ASSUME KindAssumption == Kind \in [Objs -> RootKinds \cup TransportKinds \cup ChildKinds]
ASSUME ParentAssumption ==
  /\ Parent \in [Objs -> Objs \cup {NoObj}]
  /\ \A o \in Objs : IF Kind[o] \in RootKinds THEN Parent[o] = NoObj
                     ELSE Parent[o] \in Objs /\ Kind[Parent[o]] = ParentKind(Kind[o])

VARIABLES
  handle,     \* object -> mNative... of its wrapper: "none" before there is one, "set" or "zero"
  native,     \* object -> "none", "open", "closed" or "deleted"
  listener,   \* object -> its C++ listener: "none", "live" or "deleted"
  named,      \* objects whose listener knows its Java wrapper (SetJTransport, SetJProducer, ...)
  loaded,     \* devices that have been loaded
  ready,      \* transports past OnConnect (transportReady)
  channel,    \* object -> the state of its data channel
  call,       \* thread -> the object it is inside a native call on, and where
  inMap,      \* children in the producers, consumers, ... map of their transport
  empty,      \* producers whose id is the empty string: onProduce gave them none of the server
  told,       \* children whose listener got OnTransportClose
  dropped,    \* children closed by their own close()
  failed,     \* objects whose creation threw
  misused,    \* history: objects on which callers overlapped, or which they freed too early
  unnamed,    \* history: objects whose listener called Java with null for its object
  wild,       \* history: deleted objects and listeners that were used
  ended       \* "no", or what ended the process

jniVars   == <<handle, native, listener, named>>
mediaVars == <<loaded, ready, channel>>
mapVars   == <<inMap, empty>>
endVars   == <<told, dropped, failed>>
vars == <<jniVars, mediaVars, mapVars, call, endVars, misused, unnamed, wild, ended>>

Idle == [obj |-> NoObj, at |-> "idle"]

Init ==
  /\ handle = [o \in Objs |-> "none"] /\ native = [o \in Objs |-> "none"]
  /\ listener = [o \in Objs |-> "none"] /\ named = {}
  /\ loaded = {} /\ ready = {} /\ channel = [o \in Objs |-> "none"]
  /\ call = [t \in Threads |-> Idle]
  /\ inMap = {} /\ empty = {} /\ told = {} /\ dropped = {} /\ failed = {}
  /\ misused = {} /\ unnamed = {} /\ wild = {} /\ ended = "no"

-----------------------------------------------------------------------------
(***************************************************************************)
(* Using objects, and calling Java                                          *)
(***************************************************************************)
\* After a use of something deleted the program's behaviour is undefined, and the model stops.
Running == ended = "no" /\ wild = {}

\* o is still to be created, within the bound.
Creatable(o) ==
  listener[o] = "none" /\ Cardinality({c \in Objs : listener[c] # "none"}) < MaxCreated

\* The objects os and the listeners of ls are dereferenced.
Touch(os, ls) ==
  wild' = wild \cup {o \in os : native[o] = "deleted"} \cup {o \in ls : listener[o] = "deleted"}

\* The listener of o calls Java with its wrapper; a Java exception fails the check of the
\* call context.
Callback(os, o) ==
  /\ Touch(os, {o})
  /\ unnamed' = IF o \in named THEN unnamed ELSE unnamed \cup {o}
  /\ ended' \in {"no", "java exception"}

NoCallback == UNCHANGED <<unnamed, ended>>

\* The objects whose calls must not overlap with calls on o: those of its transport, or of its
\* creator while Java has no wrapper.
Family(o) == IF Kind[o] \in ChildKinds \/ handle[o] = "none" THEN Parent[o] ELSE o

InUse(f) == \E t \in Threads : call[t] # Idle /\ Family(call[t].obj) = f

\* Thread t calls into the family of o and goes to place a. broken: what else the call breaks.
Enter(t, o, a, broken) ==
  /\ Running /\ call[t] = Idle
  /\ call' = [call EXCEPT ![t] = [obj |-> o, at |-> a]]
  /\ misused' = misused \cup broken \cup {f \in {Family(o)} : InUse(f)}

\* Thread t, inside a call at place a, goes to place b.
Go(t, a, b) ==
  /\ Running /\ call[t].at = a
  /\ call' = [call EXCEPT ![t].at = b]
  /\ UNCHANGED misused

Leave(t, a) ==
  /\ Running /\ call[t].at = a
  /\ call' = [call EXCEPT ![t] = Idle]
  /\ UNCHANGED misused

\* A call that ends the process.
Dies(t, why) ==
  /\ Running /\ call[t] = Idle /\ ended' = why
  /\ UNCHANGED <<jniVars, mediaVars, mapVars, call, endVars, misused, unnamed, wild>>

\* A call returns: until then it was using its object, and its transport if it went through it.
Return(t) ==
  LET o == call[t].obj
  IN  /\ \/ Leave(t, "read") /\ Touch({o}, {})
         \/ Leave(t, "through") /\ Touch({o, Parent[o]}, {})
      /\ NoCallback /\ UNCHANGED <<jniVars, mediaVars, mapVars, endVars>>

\* Asks o something and returns; the object's state does not change.
Ask(t, o) ==
  /\ Enter(t, o, "read", {}) /\ Touch({o}, {}) /\ NoCallback
  /\ UNCHANGED <<jniVars, mediaVars, mapVars, endVars>>

-----------------------------------------------------------------------------
(***************************************************************************)
(* Devices. The wrapper throws IllegalStateException on a zero handle.      *)
(***************************************************************************)
NewDevice(t, o) ==
  /\ Kind[o] = "Device" /\ native[o] = "none" /\ Running /\ call[t] = Idle
  /\ native' = [native EXCEPT ![o] = "open"] /\ handle' = [handle EXCEPT ![o] = "set"]
  /\ UNCHANGED <<listener, named, mediaVars, mapVars, call, endVars, misused, unnamed, wild, ended>>

\* Fails without an effect when the device is loaded or the capabilities are bad.
Load(t, o) ==
  /\ Kind[o] = "Device" /\ handle[o] = "set"
  /\ Enter(t, o, "read", {}) /\ Touch({o}, {}) /\ NoCallback
  /\ loaded' \in {loaded, loaded \cup {o}}
  /\ UNCHANGED <<jniVars, ready, channel, mapVars, endVars>>

AskDevice(t, o) == Kind[o] = "Device" /\ handle[o] = "set" /\ Ask(t, o)

\* Nothing looks whether the transports are gone; they keep pointers into the device. DeleteNative
\* is the second half.
FreeDevice(t, o) ==
  /\ Kind[o] = "Device" /\ handle[o] = "set"
  /\ Enter(t, o, "free", {d \in {o} : \E c \in Objs : Parent[c] = d /\ native[c] \in {"open", "closed"}})
  /\ Touch({o}, {}) /\ NoCallback
  /\ UNCHANGED <<jniVars, mediaVars, mapVars, endVars>>

-----------------------------------------------------------------------------
(***************************************************************************)
(* Creating transports and their children. A listener is allocated first;   *)
(* whatever throws before the native object exists leaves it behind, and    *)
(* Java gets a MediasoupException.                                          *)
(***************************************************************************)
NewListener(t, o, k) ==
  /\ Kind[o] = k /\ Creatable(o) /\ handle[Parent[o]] = "set"
  /\ Enter(t, o, "create", {}) /\ Touch({Parent[o]}, {}) /\ NoCallback
  /\ listener' = [listener EXCEPT ![o] = "live"]
  /\ UNCHANGED <<handle, native, named, mediaVars, mapVars, endVars>>

CreateSendTransport(t, o) == NewListener(t, o, "SendTransport")
CreateRecvTransport(t, o) == NewListener(t, o, "RecvTransport")
Produce(t, o)     == NewListener(t, o, "Producer")
Consume(t, o)     == NewListener(t, o, "Consumer")
ConsumeData(t, o) == NewListener(t, o, "DataConsumer")

\* produceData does not check its handle: a zero is cast to OwnedSendTransport.
ProduceData(t, o) ==
  \/ NewListener(t, o, "DataProducer")
  \/ Kind[o] = "DataProducer" /\ handle[Parent[o]] = "zero" /\ Dies(t, "null")

CreateThrows(t) ==
  /\ Leave(t, "create") \/ Leave(t, "negotiated")
  /\ failed' = failed \cup {call[t].obj}
  /\ Touch({Parent[call[t].obj]}, {}) /\ NoCallback
  /\ UNCHANGED <<jniVars, mediaVars, mapVars, told, dropped>>

\* The first child makes the transport connect: SetupTransport calls Transport::OnConnect.
OnConnect(t) ==
  LET p == Parent[call[t].obj]
  IN  /\ Go(t, "create", "create") /\ Kind[call[t].obj] \in ChildKinds
      /\ native[p] = "open" /\ p \notin ready
      /\ Callback({p}, p) /\ ready' = ready \cup {p}
      /\ UNCHANGED <<jniVars, loaded, channel, mapVars, endVars>>

\* The device's capabilities are used for media.
Capable(o) == IF Kind[o] \in DataKinds THEN {Parent[o]} ELSE {Parent[o], Parent[Parent[o]]}

\* Once its offer is made, a producer asks the application for its id.
AskProducerId(t, k) ==
  LET o == call[t].obj
  IN  /\ Go(t, "create", "negotiated") /\ Kind[o] = k
      /\ native[Parent[o]] = "open" /\ Parent[o] \in ready
      /\ Callback(Capable(o), Parent[o])
      /\ UNCHANGED <<jniVars, mediaVars, mapVars, endVars>>

OnProduce(t)     == AskProducerId(t, "Producer")
OnProduceData(t) == AskProducerId(t, "DataProducer")

\* A consumer comes with its id; the transport only negotiates.
Receive(t) ==
  LET o == call[t].obj
  IN  /\ Go(t, "create", "negotiated") /\ Kind[o] \in ChildKinds \ ProducerKinds
      /\ native[Parent[o]] = "open" /\ Parent[o] \in ready
      /\ Touch(Capable(o), {}) /\ NoCallback
      /\ UNCHANGED <<jniVars, mediaVars, mapVars, endVars>>

\* Two children of one map have the same id. The server gives distinct ids, and consume() refuses
\* an empty one.
SameKey(c, o, e) == Parent[c] = Parent[o] /\ Kind[c] = Kind[o] /\ {c, o} \subseteq e

\* The native object exists and enters the map under its id, over the one that was there before;
\* a data channel has its observer from here on.
Construct(t) ==
  LET o == call[t].obj
  IN  /\ \/ Go(t, "create", "wrap") /\ Kind[o] \in TransportKinds /\ Parent[o] \in loaded
         \/ Go(t, "negotiated", "wrap")
      /\ Touch({Parent[o]}, {})
      /\ native' = [native EXCEPT ![o] = "open"]
      /\ channel' = IF Kind[o] \in DataKinds THEN [channel EXCEPT ![o] = "live"] ELSE channel
      /\ empty' \in IF Kind[o] \in ProducerKinds THEN {empty, empty \cup {o}} ELSE {empty}
      /\ inMap' = IF Kind[o] \in ChildKinds THEN {c \in inMap : ~SameKey(c, o, empty')} \cup {o}
                                            ELSE inMap
      /\ NoCallback /\ UNCHANGED <<handle, listener, named, loaded, ready, endVars>>

\* Mutant: SetJProducer and the like are forgotten.
WrapOnly(t, k) ==
  LET o == call[t].obj
  IN  /\ call[t].at \in {"wrap", "set"} /\ Kind[o] = k /\ Touch({o}, {})
      /\ \/ Go(t, "wrap", "set") /\ UNCHANGED <<handle, named>>
         \/ Leave(t, "set") /\ handle' = [handle EXCEPT ![o] = "set"] /\ UNCHANGED named
      /\ NoCallback /\ UNCHANGED <<native, listener, mediaVars, mapVars, endVars>>
\* The owner and the wrapper are made, the listener learns of the wrapper, and Java gets it.
\* The constructors of Producer and Consumer ask the new object for its track.
NativeToJava(t, k) ==
  LET o == call[t].obj
  IN  /\ call[t].at \in {"wrap", "set"} /\ Kind[o] = k /\ Touch({o}, {})
      /\ \/ Go(t, "wrap", "set") /\ named' = named \cup {o} /\ UNCHANGED handle
         \/ Leave(t, "set") /\ handle' = [handle EXCEPT ![o] = "set"] /\ UNCHANGED named
      /\ NoCallback /\ UNCHANGED <<native, listener, mediaVars, mapVars, endVars>>

NativeToJavaSendTransport(t) == NativeToJava(t, "SendTransport")
NativeToJavaRecvTransport(t) == NativeToJava(t, "RecvTransport")
NativeToJavaProducer(t)      == NativeToJava(t, "Producer")
NativeToJavaConsumer(t)      == NativeToJava(t, "Consumer")
NativeToJavaDataProducer(t)  == NativeToJava(t, "DataProducer")
NativeToJavaDataConsumer(t)  == NativeToJava(t, "DataConsumer")

-----------------------------------------------------------------------------
(***************************************************************************)
(* Calls on a transport. GetNativeTransport casts the handle and reads the  *)
(* owner before ExtractNativeTransport can assert that it is not null.      *)
(***************************************************************************)
AskTransport(t, o) ==
  /\ Kind[o] \in TransportKinds
  /\ \/ handle[o] = "set" /\ Ask(t, o)
     \/ handle[o] = "zero" /\ Dies(t, "null")

\* RestartIce and UpdateIceServers may throw, which is caught.
UpdateIce(t, o) == Kind[o] \in TransportKinds /\ handle[o] = "set" /\ Ask(t, o)

\* Transport::Close, then TransportClosed of every child. WebRTC reports that the connection is
\* closed on the way. A second close only reads the flag, as AskTransport does.
CloseTransport(t, o) ==
  /\ Kind[o] \in TransportKinds /\ handle[o] = "set" /\ native[o] = "open"
  /\ Enter(t, o, "close", {})
  /\ native' = [native EXCEPT ![o] = "closed"]
  /\ Callback({o}, o)
  /\ UNCHANGED <<handle, listener, named, mediaVars, mapVars, endVars>>

\* The open children that are still in a map of transport o.
MapChildren(o, ks) == {c \in inMap : Parent[c] = o /\ Kind[c] \in ks /\ native[c] = "open"}

\* Mutant: the maps of data producers and data consumers are not walked.
MediaToTell(o) == MapChildren(o, ChildKinds \ DataKinds)
\* The map of producers or consumers is walked before that of their data variants.
ChildrenToTell(o) ==
  IF MapChildren(o, ChildKinds \ DataKinds) # {} THEN MapChildren(o, ChildKinds \ DataKinds)
                                                 ELSE MapChildren(o, DataKinds)

\* Mutant: a child closed by its own close() is told as well.
TellClosedToo(t, c, k) ==
  /\ Go(t, "close", "close") /\ Kind[c] = k /\ Parent[c] = call[t].obj
  /\ c \notin told /\ handle[c] = "set"
  /\ native' = [native EXCEPT ![c] = "closed"] /\ told' = told \cup {c}
  /\ Callback({c}, c)
  /\ UNCHANGED <<handle, listener, named, mediaVars, mapVars, dropped, failed>>
TransportClosed(t, c, k) ==
  /\ Go(t, "close", "close") /\ Kind[c] = k /\ c \in ChildrenToTell(call[t].obj)
  /\ native' = [native EXCEPT ![c] = "closed"] /\ told' = told \cup {c}
  /\ Callback({c, Parent[c]}, c)
  /\ UNCHANGED <<handle, listener, named, mediaVars, mapVars, dropped, failed>>

ProducerOnTransportClose(t, c)     == TransportClosed(t, c, "Producer")
ConsumerOnTransportClose(t, c)     == TransportClosed(t, c, "Consumer")
DataProducerOnTransportClose(t, c) == TransportClosed(t, c, "DataProducer")
DataConsumerOnTransportClose(t, c) == TransportClosed(t, c, "DataConsumer")

\* Mutant: close() waits until every child it ever had has been told.
CloseAwaitsAll(t) ==
  /\ Leave(t, "close") /\ \A c \in Objs : Parent[c] = call[t].obj /\ native[c] # "none" => c \in told
  /\ UNCHANGED <<jniVars, mediaVars, mapVars, endVars, unnamed, wild, ended>>
CloseReturns(t) ==
  /\ Leave(t, "close") /\ ChildrenToTell(call[t].obj) = {}
  /\ Touch({call[t].obj}, {}) /\ NoCallback
  /\ UNCHANGED <<jniVars, mediaVars, mapVars, endVars>>

\* Mutant: the destructor of the owner forgets the listener.
FreeNativeOnly(t, o, k) ==
  /\ Kind[o] = k /\ handle[o] = "set"
  /\ Enter(t, o, "free", {p \in {o} : native[p] # "closed"})
  /\ Touch({}, {o}) /\ NoCallback
  /\ UNCHANGED <<jniVars, mediaVars, mapVars, endVars>>
\* dispose() deletes the owner, whose destructor deletes the listener first; nothing looks whether
\* the transport has been closed.
FreeTransport(t, o, k) ==
  /\ Kind[o] = k /\ handle[o] = "set"
  /\ Enter(t, o, "free", {p \in {o} : native[p] # "closed"})
  /\ Touch({}, {o}) /\ NoCallback
  /\ listener' = [listener EXCEPT ![o] = "deleted"]
  /\ UNCHANGED <<handle, native, named, mediaVars, mapVars, endVars>>

FreeSendTransport(t, o) == FreeTransport(t, o, "SendTransport")
FreeRecvTransport(t, o) == FreeTransport(t, o, "RecvTransport")

\* The object itself goes, and the wrapper's handle becomes zero.
DeleteNative(t) ==
  LET o == call[t].obj
  IN  /\ Leave(t, "free") /\ Touch({o}, {}) /\ NoCallback
      /\ native' = [native EXCEPT ![o] = "deleted"] /\ handle' = [handle EXCEPT ![o] = "zero"]
      /\ UNCHANGED <<listener, named, mediaVars, mapVars, endVars>>

-----------------------------------------------------------------------------
(***************************************************************************)
(* Calls on producers and consumers. Their handles never become zero.       *)
(***************************************************************************)
AskChild(t, o, k) == Kind[o] = k /\ handle[o] = "set" /\ Ask(t, o)

AskProducer(t, o)     == AskChild(t, o, "Producer")
AskConsumer(t, o)     == AskChild(t, o, "Consumer")
AskDataProducer(t, o) == AskChild(t, o, "DataProducer")
AskDataConsumer(t, o) == AskChild(t, o, "DataConsumer")
ResumeProducer(t, o)  == AskChild(t, o, "Producer")
PauseProducer(t, o)   == AskChild(t, o, "Producer")
PauseConsumer(t, o)   == AskChild(t, o, "Consumer")
SendData(t, o)        == AskChild(t, o, "DataProducer")

\* GetStats, SetMaxSpatialLayer and ReplaceTrack go through the transport unless the child is
\* closed; what they throw is caught.
AskThroughTransport(t, o, k) ==
  /\ Kind[o] = k /\ handle[o] = "set"
  /\ \/ native[o] # "open" /\ Ask(t, o)
     \/ /\ native[o] = "open" /\ Enter(t, o, "through", {})
        /\ Touch({o, Parent[o]}, {}) /\ NoCallback
        /\ UNCHANGED <<jniVars, mediaVars, mapVars, endVars>>

GetProducerStats(t, o)   == AskThroughTransport(t, o, "Producer")
GetConsumerStats(t, o)   == AskThroughTransport(t, o, "Consumer")
SetMaxSpatialLayer(t, o) == AskThroughTransport(t, o, "Producer")
ReplaceTrack(t, o)       == AskThroughTransport(t, o, "Producer")

\* The transport erases the child's id from its map, whoever is in there under it. A media child
\* makes an open transport renegotiate, and what that throws is not caught. A second close only
\* looks at the flag, as a getter does.
CloseChild(t, o, k) ==
  /\ Kind[o] = k /\ handle[o] = "set" /\ native[o] = "open"
  /\ Enter(t, o, "through", {}) /\ Touch({o, Parent[o]}, {})
  /\ native' = [native EXCEPT ![o] = "closed"] /\ dropped' = dropped \cup {o}
  /\ inMap' = {c \in inMap : c # o /\ ~SameKey(c, o, empty)}
  /\ ended' \in IF Kind[o] \notin DataKinds /\ native[Parent[o]] = "open" THEN {"no", "uncaught"}
                                                                       ELSE {"no"}
  /\ UNCHANGED <<handle, listener, named, mediaVars, empty, told, failed, unnamed>>

CloseProducer(t, o)     == CloseChild(t, o, "Producer")
CloseConsumer(t, o)     == CloseChild(t, o, "Consumer")
CloseDataProducer(t, o) == CloseChild(t, o, "DataProducer")
CloseDataConsumer(t, o) == CloseChild(t, o, "DataConsumer")

-----------------------------------------------------------------------------
(***************************************************************************)
(* Peer connections of their own. ExtractNativePC asserts that the handle   *)
(* is not zero; most functions let exceptions through.                      *)
(***************************************************************************)
NewPeerConnection(t, o) ==
  /\ Kind[o] = "PeerConnection" /\ Creatable(o) /\ call[t] = Idle /\ Running
  /\ \/ /\ native' = [native EXCEPT ![o] = "open"] /\ handle' = [handle EXCEPT ![o] = "set"]
        /\ listener' = [listener EXCEPT ![o] = "live"] /\ UNCHANGED ended
     \/ ended' = "uncaught" /\ UNCHANGED <<native, handle, listener>>
  /\ UNCHANGED <<named, mediaVars, mapVars, call, endVars, misused, unnamed, wild>>

ExtractNativePC(t, o) ==
  /\ Kind[o] = "PeerConnection"
  /\ \/ handle[o] = "set" /\ Ask(t, o)
     \/ handle[o] = "zero" /\ Dies(t, "assertion")

GetNativePeerConnection(t, o) == ExtractNativePC(t, o)
SetConfiguration(t, o)        == ExtractNativePC(t, o)
Negotiate(t, o)               == ExtractNativePC(t, o)
GetDescriptions(t, o)         == ExtractNativePC(t, o)
AddTransceiver(t, o)          == ExtractNativePC(t, o)
GetPeerConnectionStats(t, o)  == ExtractNativePC(t, o)

CreateOffer(t, o) ==
  \/ ExtractNativePC(t, o)
  \/ Kind[o] = "PeerConnection" /\ handle[o] = "set" /\ Dies(t, "uncaught")

\* Closing an open connection tells its observer.
ClosePeerConnection(t, o) ==
  /\ Kind[o] = "PeerConnection" /\ handle[o] = "set" /\ native[o] = "open"
  /\ Enter(t, o, "read", {}) /\ Touch({o}, {o}) /\ ended' \in {"no", "java exception"}
  /\ native' = [native EXCEPT ![o] = "closed"]
  /\ UNCHANGED <<handle, listener, named, mediaVars, mapVars, endVars, unnamed>>

\* dispose() closes, then frees: the observer first, then the connection (DeleteNative).
DisposePeerConnection(t, o) ==
  /\ Kind[o] = "PeerConnection" /\ handle[o] = "set"
  /\ Enter(t, o, "free", {}) /\ Touch({o}, {o})
  /\ ended' \in IF native[o] = "open" THEN {"no", "java exception"} ELSE {"no"}
  /\ native' = [native EXCEPT ![o] = "closed"] /\ listener' = [listener EXCEPT ![o] = "deleted"]
  /\ UNCHANGED <<handle, named, mediaVars, mapVars, endVars, unnamed>>

-----------------------------------------------------------------------------
(***************************************************************************)
(* The signalling thread.                                                   *)
(***************************************************************************)
OnConnectionStateChange(o, k) ==
  /\ Running /\ Kind[o] = k /\ native[o] = "open" /\ o \in ready
  /\ Callback({o}, o)
  /\ UNCHANGED <<jniVars, mediaVars, mapVars, call, endVars, misused>>

SendConnectionStateChange(o) == OnConnectionStateChange(o, "SendTransport")
RecvConnectionStateChange(o) == OnConnectionStateChange(o, "RecvTransport")

\* Any callback of PrivateListenerJni; it passes no object of ours.
PeerConnectionEvent(o) ==
  /\ Running /\ Kind[o] = "PeerConnection" /\ native[o] = "open"
  /\ Touch({o}, {o}) /\ ended' \in {"no", "java exception"}
  /\ UNCHANGED <<jniVars, mediaVars, mapVars, call, endVars, misused, unnamed>>

\* A data channel reports to its observer until it has reported that it is closed.
ChannelSteps(o) == IF channel[o] = "live" THEN {"live", "closed"} ELSE {}

DataEvent(o, k) ==
  /\ Running /\ Kind[o] = k
  /\ \E s \in ChannelSteps(o) : channel' = [channel EXCEPT ![o] = s]
  /\ Callback({o}, o)
  /\ UNCHANGED <<jniVars, loaded, ready, mapVars, call, endVars, misused>>

\* OnConnecting, OnOpen, OnMessage, OnClosing, OnClose.
DataConsumerEvent(o) == DataEvent(o, "DataConsumer")
\* OnOpen, OnBufferedAmountChange, OnClose.
DataProducerEvent(o) == DataEvent(o, "DataProducer")

-----------------------------------------------------------------------------
\* What a thread inside a call does next.
Proceed(t) ==
  \/ Return(t) \/ CreateThrows(t) \/ OnConnect(t) \/ OnProduce(t) \/ OnProduceData(t) \/ Receive(t)
  \/ Construct(t)
  \/ NativeToJavaSendTransport(t) \/ NativeToJavaRecvTransport(t)
  \/ NativeToJavaProducer(t) \/ NativeToJavaConsumer(t)
  \/ NativeToJavaDataProducer(t) \/ NativeToJavaDataConsumer(t)
  \/ \E c \in Objs : \/ ProducerOnTransportClose(t, c) \/ ConsumerOnTransportClose(t, c)
                     \/ DataProducerOnTransportClose(t, c) \/ DataConsumerOnTransportClose(t, c)
  \/ CloseReturns(t) \/ DeleteNative(t)

CallDevice(t, o) ==
  \/ NewDevice(t, o) \/ Load(t, o) \/ AskDevice(t, o) \/ FreeDevice(t, o)
  \/ CreateSendTransport(t, o) \/ CreateRecvTransport(t, o)

CallTransport(t, o) ==
  \/ AskTransport(t, o) \/ UpdateIce(t, o) \/ CloseTransport(t, o)
  \/ FreeSendTransport(t, o) \/ FreeRecvTransport(t, o)
  \/ Produce(t, o) \/ ProduceData(t, o) \/ Consume(t, o) \/ ConsumeData(t, o)

CallChild(t, o) ==
  \/ AskProducer(t, o) \/ ResumeProducer(t, o) \/ PauseProducer(t, o) \/ CloseProducer(t, o)
  \/ GetProducerStats(t, o) \/ SetMaxSpatialLayer(t, o) \/ ReplaceTrack(t, o)
  \/ AskConsumer(t, o) \/ PauseConsumer(t, o) \/ GetConsumerStats(t, o) \/ CloseConsumer(t, o)
  \/ AskDataProducer(t, o) \/ SendData(t, o) \/ CloseDataProducer(t, o)
  \/ AskDataConsumer(t, o) \/ CloseDataConsumer(t, o)

CallPeerConnection(t, o) ==
  \/ NewPeerConnection(t, o) \/ GetNativePeerConnection(t, o) \/ SetConfiguration(t, o)
  \/ CreateOffer(t, o) \/ Negotiate(t, o) \/ GetDescriptions(t, o) \/ AddTransceiver(t, o)
  \/ GetPeerConnectionStats(t, o) \/ ClosePeerConnection(t, o) \/ DisposePeerConnection(t, o)

Signal(o) ==
  \/ SendConnectionStateChange(o) \/ RecvConnectionStateChange(o) \/ PeerConnectionEvent(o)
  \/ DataConsumerEvent(o) \/ DataProducerEvent(o)

Next ==
  \/ \E t \in Threads : Proceed(t)
  \/ \E t \in Threads, o \in Objs :
       CallDevice(t, o) \/ CallTransport(t, o) \/ CallChild(t, o) \/ CallPeerConnection(t, o)
  \/ \E o \in Objs : Signal(o)

\* A thread inside a native call goes on; the application's listeners return.
Fairness == \A t \in Threads : WF_vars(Proceed(t))

Spec == Init /\ [][Next]_vars /\ Fairness

-----------------------------------------------------------------------------
(***************************************************************************)
(* Properties                                                               *)
(***************************************************************************)
Places == {"idle", "read", "through", "create", "negotiated", "wrap", "set", "close", "free"}

\* Type correctness.
TypeOK ==
  /\ handle \in [Objs -> {"none", "set", "zero"}]
  /\ native \in [Objs -> {"none", "open", "closed", "deleted"}]
  /\ listener \in [Objs -> {"none", "live", "deleted"}]
  /\ channel \in [Objs -> {"none", "live", "closed"}]
  /\ named \subseteq Objs /\ loaded \subseteq Objs /\ ready \subseteq Objs
  /\ call \in [Threads -> [obj : Objs \cup {NoObj}, at : Places]]
  /\ \A t \in Threads : (call[t].obj = NoObj) <=> (call[t].at = "idle")
  /\ inMap \subseteq Objs /\ empty \subseteq Objs
  /\ told \subseteq Objs /\ dropped \subseteq Objs /\ failed \subseteq Objs
  /\ misused \subseteq Objs
  /\ unnamed \subseteq Objs /\ wild \subseteq Objs
  /\ ended \in {"no", "java exception", "uncaught", "assertion", "null"}

IsChild(o) == Kind[o] \in ChildKinds

\* Another child of the transport has the id of child o.
Shares(o) == \E c \in Objs \ {o} : SameKey(c, o, empty)
\* Two children of transport o have one id.
Ambiguous(o) == \E c \in Objs : IsChild(c) /\ Parent[c] = o /\ Shares(c)

\* A deleted native object or listener is used, by a Java thread or by WebRTC's, only where the
\* callers overlapped or freed too early, or through a child that its transport lost because
\* another one had its id (SendTransport::Produce, OnProduce returning ""). Nowhere else do the
\* wrappers, the owners' destructors, Close and the callbacks reach one.
UsesAreLive == \A o \in wild : o \in misused \/ Ambiguous(o)

Closing(o) == \E t \in Threads : call[t].obj = o /\ call[t].at = "close"

\* When a transport's close() has returned, each of its children is closed, and stays so when the
\* transport is freed, so that close() and getStats() of a child never reach a freed transport;
\* except a child whose map entry another child of the same id took, and where callers overlapped.
ChildrenEndWithTransport ==
  \A o \in Objs : IsChild(o) /\ native[o] = "open" =>
    \/ native[Parent[o]] = "open"
    \/ native[Parent[o]] = "closed" /\ Closing(Parent[o])
    \/ o \notin inMap /\ Shares(o)
    \/ Parent[o] \in misused

\* A child ends once: its listener hears of the transport's close exactly if its own close() was
\* not called before. Overlapping calls race on the flag closed, so nothing is said of them.
ChildrenEndOnce ==
  \A o \in Objs : IsChild(o) /\ Parent[o] \notin misused =>
    /\ ~(o \in told /\ o \in dropped)
    /\ (native[o] = "closed") <=> (o \in told \cup dropped)

Creating(o) == \E t \in Threads : call[t].obj = o /\ call[t].at \in {"create", "negotiated"}
Freeing(o) == \E t \in Threads : call[t].obj = o /\ call[t].at = "free"

\* A listener lives as long as its native object. Only a creation that throws leaves one behind.
ListenersFollowObjects ==
  \A o \in Objs : Kind[o] # "Device" =>
    /\ native[o] \in {"open", "closed"} /\ ~Freeing(o) => listener[o] = "live"
    /\ listener[o] = "live" /\ native[o] \in {"none", "deleted"} => Creating(o) \/ o \in failed

\* Callbacks of transports, producers and consumers always carry their Java object: a transport
\* connects only when a child is created, children can only be created by Java, and a transport
\* is closed only before or after the creation of a child, unless the callers overlap.
MediaCallbacksAreNamed ==
  \A o \in unnamed : Kind[o] \in DataKinds \/ (IsChild(o) /\ Parent[o] \in misused)

\* Every native call returns to Java, or the process ends, or its behaviour is undefined.
CallsReturn == \A t \in Threads : call[t] # Idle ~> call[t] = Idle \/ ~Running
=============================================================================
