# Verification of the RTC client

TLA+ models of the Android RTC SDK in `src/rtc-sdk`: the Java engine
(`com.zeewain.rtc`), the mediasoup client it drives (`deps/libmediasoupclient`),
the JNI layer between the two (`src/main/jni`), and the signalling server, the
JVM and WebRTC as far as this code can see them. TLC checks the models on small
instances; TLAPS proves every safety property the passing runs check, and four
refinements, for every value of the constants.

`PROJECT.json` is the index: components, runs, mutants, the map from definitions
to source lines, findings, hazards and theorems.

## 1. The system

An application talks to one `RtcEngine`. Five kinds of threads meet in it:

| thread | runs | code |
|---|---|---|
| application | API calls, one at a time under the engine's monitor; some wait for the server inside it | `RtcEngineImpl`, `RtcEngineEx.native*` |
| main looper | forwards `enableCamera` and `setupLocalVideo` to the worker | `RtcEngineEx`, `mMainHandler` |
| worker looper | a FIFO of tasks: join, enable, disable, local view, destroy; waits for the server inside a task | `RtcEngineEx`, `mWorkHandler` |
| netty's event loop | listeners of replies and all notifications, one at a time | `RtcEngineEx.handleNotification` |
| WebRTC's signalling thread | tells when a data channel or a connection has changed | `DataProducer`, `DataConsumer`, `Transport` |

No lock orders the worker and the event loop; both call through JNI into the
native transports, and into `RoomStore`.

### Inventory

| component | state | operations | who calls it | what makes it correct |
|---|---|---|---|---|
| Engine, local side (`RtcEngineEx`, `RtcEngineImpl`) | `mClosed`, client, device, transports, tracks, four producer fields | join, leave, enable and disable of camera and microphone, local view, chat and bot channels, destroy | application, loopers, netty | a field names the one live native producer; the server has no producer the engine lost but by a failed request; calls take effect in order; destroy comes to its end and nothing runs on what it disposed |
| Engine, remote side (`RtcEngineEx`, `Peers`, `Peer`) | `mConsumers`, `mDataConsumers` | six notifications, the reply of `joinRoomMediaSoup` | netty; the destroy task | engine, native consumers, transport and store name the same consumers; peers list theirs |
| `RoomStore` and models | producers, consumers, data consumers, peers | add, remove, update | engine | follows the engine |
| Singleton factory (`RtcEngine.create`, `destroy`) | the instance | create, destroy | application | a new engine is not hurt by the end of the old one |
| Signalling client (`ClientFactory`, `RtcServer`, netty client) | connection, processor table | request, notification | engine | every request is answered or fails |
| Device (`Device.cpp`, `ortc.cpp`) | loaded, capabilities | load, canProduce | engine | loaded once |
| Send and receive transport, producers, consumers | maps by id, closed flags | produce, consume, close | engine through JNI | a close reaches every object, each hears of its end once |
| Receive handler and remote SDP | media sections, `midToIndex`, `firstMid`, BUNDLE group, transceivers by mid | Receive, ReceiveDataChannel, StopReceiving | receive transport | a running consumer keeps its own section; offers are consistent |
| Send handler | media sections, transceivers, SCTP stream ids | Send, SendDataChannel, StopSending, RestartIce | send transport | the section it answers is the one WebRTC offered; a running producer keeps its section and line |
| JNI objects and the Java wrappers | native handles, owners, listeners | create, call, close, dispose, callbacks | engine, signalling thread | no deleted object is used as long as callers close before they free and do not overlap; listeners live as long as their objects and know their Java object |
| Java reference classes (`scoped_java_ref.h`) | local and global references | construct, copy, move, reset, release, destroy | all of the JNI layer | one owner for each reference, deleted once |
| Class and method ids (`jni_generator_helper`, generated headers) | atomic cells | look up on first use, call, check | every call to Java | written once; no exception stays pending |
| Capture, network, logging and other utilities | platform objects | | engine | outcome taken as a choice |

Hard behaviours: destroy overtakes queued tasks (it sets `mClosed` at once, but
its own task waits its turn); a blocked worker wakes into a world that changed;
a native call ends in an exception half way; the server closes what the client
never managed to create; a media section is recycled under another mid; the send
handler guesses a section before the offer exists; a callback comes before the
wrapper it is for; two threads look a class up at once. The list, with source
lines, is `hazards` in `PROJECT.json`.

## 2. Modules

| module | models | state and actions |
|---|---|---|
| `RtcEngine` | local side, send transport, worker, server | one variable per field of `RtcEngineEx` that matters, the three queues, where the worker is inside its task (`wpc`), every native producer (`objs`), the transport's map (`inMap`), the store, the server's producers. One action per API call, task, wait inside a task, reply and callback |
| `RemoteMedia` | remote side, receive transport, store, server | the server's view, the messages in flight (`inbox`), the engine's maps, the native consumers, the store, where the event loop is inside a notification (`npc`) and how far destroy has come (`life`) |
| `RemoteSdp` | `Sdp::RemoteSdp` as a value with operators | `AddMediaSection`, `ReplaceMediaSection`, `CloseMediaSection`, `Receive`, `RecvSctpAssociation`, `UpdateDtlsRole` |
| `RecvHandler` | `RecvHandler` and the part of `RecvTransport::Consume` that adds the probator | the remote SDP, the transceiver map's keys, flags, the consumers. One action per method, and one for its failure |
| `SendHandler` | `SendHandler`, and the functions of WebRTC it depends on | the remote SDP; the m= lines of WebRTC's next offer (`lines`) and the streams of its data channels; flags, producers. Each method is an exchange that is taken, refused by WebRTC, or throws early or late |
| `JniObjects` | the `Owned…` objects and listeners of `*_jni.cpp`, the wrappers of `org.mediasoup.droid`, and the native classes as these see them | per object: the wrapper's handle, the native object, its listener, its data channel, whether its transport's map has it; per thread: the call it is inside; in `misused`, where callers overlapped or freed too early. One action per native method or group of methods with the same effect, one per callback |
| `ScopedJavaRef` | `JavaRef` and its three subclasses over the JVM's reference table | the table, the C++ handles, the references held outside a handle. One action per constructor, assignment, reset, release and destructor |
| `JniResults` | how a native method returns a Java object, over `ScopedJavaRef` | the stub and the `JNI_` function, statement by statement |
| `LazyIds` | `LazyGetClass`, `MethodID::LazyGet`, `JniJavaCallContextChecked` | the cells, the global references, where each thread is |
| `SectionSlots`, `JavaValues`, `OnceCells` | abstract specifications | sections that are exclusive and never move; variables that hold objects; cells that are written once |
| `MC*` | constants for TLC | |
| `*Proofs` (eight) | theorems | those of `JniResults` are in `ScopedJavaRefProofs`; `RemoteSdpProofs` has the lemmas of the two handlers' |

The engine's two modules compose the Java classes with the native transport, the
store and the server; `RecvHandler` and `SendHandler` are both built over
`RemoteSdp` and shown to implement `SectionSlots`; `JniResults` extends
`ScopedJavaRef`.

### How the state was abstracted

* **Ids.** A native producer is an index of `objs`; the id the server gave it is
  that index, or `NoId` for the empty string `onProduce` returns when it has
  none. Ids of consumers and users are model values.
* **Waits.** A task of the worker that waits for the server (`wpc`), a native
  call of the event loop (`npc`) and a blocked application call (`caller`) are
  split at the wait; everything between two waits is one step. In `JniObjects` a
  native call is split where another thread can see it: before and after the
  native object exists, before and after the wrapper is made and named, inside
  close and free.
* **Exceptions.** A Java exception that a task catches is an early return. One
  that nobody catches, and a native exception that crosses JNI, end the process:
  `crash`, `ended` or `aborted` says so and stops every action.
* **Data races.** The worker closes the receive transport while the event loop
  may be inside it. The engine's models interleave their steps; the outcome of
  two threads inside one `std::map` is not modelled. In `JniObjects` any thread
  may call any object at any time, since neither the wrappers nor the native
  functions take a lock: calls may overlap, a transport may be freed open or
  under another thread's call, a device before its transports. The native
  classes are not made for that. The history variable `misused` records the
  objects on which it happened, and a use of something deleted (`wild`) stops
  the model, as the program's behaviour is undefined from there on.
* **Maps by id.** A transport finds its children through maps from id to child.
  Ids of the server are distinct; producers to which `onProduce` gave the empty
  id (`empty`) share a key, so that a later one takes the entry of an earlier
  one (`inMap`) and a close erases the entry of whoever has it.
* **Requests that get lost.** `closeUserProducer` is sent and forgotten. Either
  the server takes it, or it fails and the server keeps the producer; the
  history variable `lostCloses` records the ids of the latter.
* **Callbacks.** Closing a peer connection or a data channel waits for the
  signalling thread, so a callback is one step of `JniObjects` and never runs
  past the close of its object.
* **Sections.** A media section is its mid and one of open, disabled (inactive)
  or closed (port 0). Codecs, ICE and DTLS contents are left out. The BUNDLE
  group is kept by the index of the section it names, which is its order.
* **Mids.** Numbers, and the two names the library chooses (`datachannel`,
  `probator`). On the receive side whether the server gives a mid is a constant
  (`MidsGiven`), though `Handler.cpp:643` decides for each call, since the one
  server of a session does it always or never; if it does, mids are distinct,
  otherwise the size of the transceiver map is used. On the send side WebRTC numbers its transceivers.
* **Lines.** WebRTC's next offer is the sequence of its m= lines, each with its
  mid and whether a transceiver, or the data transport, is behind it. A new
  transceiver recycles the first line that is not in use.
* **References.** A slot of the JVM's table is dead, local to a thread or
  global, and designates an object. Slots are used again.

External parts, modelled from how the code uses them: the signalling server
(users, consumers, order of messages), netty (a promise is always completed;
notifications run one at a time, because the processors are registered without
an executor of their own), the JVM's references. WebRTC's part of `SendHandler`
follows the vendored `pc/sdp_offer_answer.cc` and `pc/data_channel_controller.cc`;
elsewhere WebRTC is an exchange of descriptions that ends or throws and a data
channel that may close at any time.

## 3. Runs

| run | question | bounds | states |
|---|---|---|---|
| `engine` | do fields, native producers, store and server agree under every interleaving, and does destroy come to its end? | 3 application calls | 200,000 |
| `close_all` | does closing a transport close all its producers? (violated) | 4 calls | to the violation |
| `remote` | do engine, transport, native consumers and store agree between notifications, with destroy in between, and is a close by the server always reflected? | 2 users, a media consumer of one, a data consumer of the other, 2 entries | 637,000 |
| `remote_freed` | is the receive transport freed under a running native call? (violated) | the same, 1 entry | to the violation |
| `recv_handler` | are sections, map, BUNDLE group and consumers consistent, whatever throws; is `SectionSlots` implemented? | 4 consumers, 2 of them video, 2 failures, mids not given | 283,000 |
| `send_handler` | does the handler's guess fit WebRTC's offers; do running producers keep section and line; is `SectionSlots` implemented? | 4 producers, 3 data channels on 2 streams, 2 failures | 1,801,000 |
| `jni_objects_send` | is nothing deleted used but by misuse or a shared id, do children end with their transport and once? | device, send transport, 2 producers, data producer, 3 of them created (`MaxCreated`) besides the device; 2 threads | 438,000 |
| `jni_objects_all` | do listeners live as long as their objects, do callbacks carry their Java object, does every call return? | an object of every class, 2 of them created besides the device; 2 threads | 89,000 |
| `java_refs` | do the reference classes keep one owner for each reference, and implement `JavaValues`? | 2 threads, 3 handles, 4 references to 2 objects | 68,000 |
| `jni_results` | does what a method releases reach Java alive, and is its frame clean? | 1 thread, 4 references to 2 objects | 2,000 |
| `jni_results_obj` | does every method return a live reference? (violated) | the same | to the violation |
| `lazy_ids` | is one class reference stored, are the others deleted, does every call end; is `OnceCells` implemented? | 3 threads, 2 methods of 2 classes | 102,000 |

**Why the bounds are enough.** Three calls hold join, an enable, and a disable,
a second enable or destroy; the worker's tasks then overlap with each other,
with the replies and with destroy, and the proofs cover any number of calls.
`close_all` needs a fourth call, since it takes a camera and a microphone.
Two users and two entries let a user leave, enter again and leave while a
consumer of it is created, fails or is closed. Four consumers, or producers,
with two failures let a section be recycled twice, a probator fail and be tried
again, and a failed call leave a section or a line behind between two running
ones. Three channels on two streams let the ids go round once. The JNI run of
the send side has a transport with any two of its children, so that one hides
the other in the map, or is closed by itself while the other is told; the run
with all classes has a transport with one child, or two transports, or one
beside a peer connection. Two threads are enough for one to free what the other
is inside of. Three handles let one be copied into a second while the
third holds the same object, and four references are one more than the handles.
Three threads let one win the exchange of the class cell, one lose it and one
come later. The proofs remove the bounds for the properties they cover.

**Deadlock** is checked in `jni_results` only: elsewhere an application may stop
calling, a session may be over, and a process that died stops.

**Symmetry** is used in `java_refs` and `jni_results`, over the slots of the
reference table and other sets whose members the actions do not tell apart, and
in `jni_objects_send` over the threads.

**Fairness.** `RtcEngine`: weak fairness of the worker, the main looper and the
listener (a looper and an event loop run what is queued) and of the replies
(netty completes every promise, with an answer or a failure). Nothing is assumed
of the application, of WebRTC's callbacks or of the server's behaviour.
`RemoteMedia`: weak fairness of the event loop only. `JniObjects` and `LazyIds`:
weak fairness of each thread inside a call, which holds no lock that another one
needs; nothing is assumed of when calls begin. A callback returns: a request
that is never answered, or a listener of the application that blocks for good,
does block the code (`get()` without a timeout, `RtcEngineEx.java:194`), and
the liveness properties say nothing of that.

**What the properties say**

* `FieldIsTheLiveProducer`, `ServerProducersAreHeld`, `IssuedProducersEnd`,
  `StoreFollowsFields`: four copies of one fact, which producer exists, kept by
  the engine, the native library, the store and the server, agree although each
  is written at another step of a task that can fail in between. Two things the
  code gives up are exempted: a producer whose `closeUserProducer` failed stays
  at the server (`lostCloses`), and the video producer stays in the store after
  the transport's close (see the observations).
* `LastAudioCallWins`: the order of audio calls survives the queues. There is no
  such property for video: enable goes through the main looper and disable does
  not, so the code may swap them.
* `NeverUsesDisposed`, `DestroyCompletes`: nothing queued behind destroy reaches
  what it released, and destroy ends.
* `ConsumersAgree`, `PeersListTheirConsumers`, `DestroyLeavesNothing`,
  `ServerCloseReflected`: the same for the remote side. The reply of the join
  replaces the peers, so a consumer notified before it is not listed afterwards;
  the history variable `early` names these, and `PeersListTheirConsumers` is
  about the others. `DestroyLeavesNothing` exempts what raced with destroy.
* `OfferMirrorsSections`, `FirstSectionStays`, `RunningHaveSections`,
  `OffersDistinctMids`, `ImplementsSlots`: recycling, failures and retries never
  touch the section of a running consumer, and WebRTC is offered what the
  handler holds. After a failure two sections may have the same mid (the data
  channel's or the probator's, tried again); `OffersDistinctMids` says that this
  is the only way.
* `AnswersAreTaken`: two parties that never tell each other their choice of the
  next m= section, the handler before the offer and WebRTC in it, make the same
  one in every history without an exchange that throws by itself.
  `RunningHaveLines`: whatever throws, a running producer has an open section at
  the place of its own line. `NextStreamIsFree`: until the ids have gone round.
* `UsesAreLive`, `ChildrenEndWithTransport`, `ChildrenEndOnce`,
  `ListenersFollowObjects`, `MediaCallbacksAreNamed`, `CallsReturn`: the life of
  native objects, whatever the order of creations that fail half way, closes,
  disposals and callbacks, and however calls overlap. The classes cannot be safe
  under every order; the first three say exactly what they need. Something
  deleted is used only where calls on it overlapped, it was freed too early, or
  two of its children had one id; a child outlives its transport's close only if
  its map entry was taken, or under overlapping calls. That the engine does
  overlap is the finding of `remote_freed`, that it does give two producers one
  id that of `close_all`. `ListenersFollowObjects` and `CallsReturn` have no
  such exception.
* `OneOwner`, `LiveIffHeld`, `OwnsItsKind`, `HandlesAreVariables`: no reference
  is leaked, deleted twice or deleted as the wrong kind, and a handle holds what
  was last put into it. `ReleasedIsLive`, `FrameIsClean`, `MembersAreLive`: so
  does what leaves a frame.
* `ClassIsStored`, `OneReferenceIsKept`, `ImplementsOnceCells`,
  `NoExceptionEscapes`, `CallsEnd`: the race for a class cell has one winner
  whom everybody follows, and a Java exception ends the call before any more
  native code runs.

Every property of a passing run has a mutant in `PROJECT.json`: a plausible
mistake in a mapped definition under which the run fails.

### Findings

* `close_all`: `onProduce` returns the empty string once `mClosed` is set. A
  camera and a microphone enabled by tasks queued before the destroy task then
  share one key of the transport's map, and `SendTransport::Close` visits only
  the second. `Transport.java` says that close includes all producers.
* `remote_freed`: the destroy task frees the receive transport while the event
  loop may be inside `consume` or `Consumer.close`; the check of the handle in
  `RecvTransport.java` comes before the call and excludes nothing.
* `jni_results_obj`: `GetSenders`, `GetTransceivers` and the two
  `AddTransceiver` of `peerconnection_jni.cpp` build their result from
  `j_result.obj()`, which `j_result` then deletes.

### Observations

What the models also show, where no doc or test says otherwise:

* Disabling the camera or the microphone forgets the producer whether or not
  `closeUserProducer` succeeds (`RtcEngineEx.java:396-403`, `:514-521`). If it
  does not, remote users keep a producer nobody feeds until the session ends;
  nothing tries again.
* `onTransportClose` of the video producer leaves it in the store
  (`RtcEngineEx.java:432`), that of the audio producer does not.
* A producer that its transport lost to another of the same id stays open when
  the transport is closed and freed; its `close()` and `getStats()` then reach
  the deleted transport (`Producer.cpp:99`, `:111`).
* An event of a data channel that the signalling thread delivers between the
  construction of a data producer or consumer and the `SetJ…` call of its
  listener calls Java with null for the object (`data_consumer_jni.cpp:157` and
  `:31`, `data_producer_jni.cpp:145`; the Javadoc at `DataConsumer.java:15`
  names the parameter without a null). `MediaCallbacksAreNamed` is therefore
  about transports and media.
* A call on a disposed transport that does not check its handle
  (`SendTransport.java:133` has no `checkTransportExists`) reads through the
  zero handle before the assertion that tests it (`transport_jni.cpp:205`,
  `:95`); the process ends. `UsesAreLive` is about objects that were deleted.
* After a Send whose exchange throws, the transceiver stays with a line of its
  own that no section of the handler answers. Later answers may be refused for
  good, so `AnswersAreTaken` is about histories without such an exception.
* After the stream ids have gone round, an id that is in use makes
  `CreateDataChannel` fail, and the id does not advance: every later
  `SendDataChannel` fails until that channel closes.
* Enable and disable of the camera may take effect in another order than made.

## 4. Proofs

All theorems are checked by TLAPS with Z3, Zenon and LS4 and hold for every
value of the constants under the named assumptions of the modules.

* **`RtcEngineProofs`** (`CanProduceAssumption`, `FusionAssumption`,
  `MaxCallsAssumption`): `TypeOK`, `FieldIsTheLiveProducer`,
  `ServerProducersAreHeld`, `IssuedProducersEnd`, `StoreFollowsFields`,
  `NeverUsesDisposed`. The invariants are not inductive: whether a producer is
  live depends on what the transport's map holds, since a close reaches only
  what is in the map. `IInv` adds `Phase` (which steps of destroy have been
  taken, and that nothing is queued once the looper has quit), `IdsAreIssued`
  (an id is that of the object itself or none), `FieldsTyped`, `IssuedAreInMap`
  (a live producer with an id is in the map) and `ServerIdsAreHeld` (a producer
  of the server is in its field, or its close was lost and it is closed for
  good).
  `LastAudioCallWins` follows from a second invariant, `AudioOrder`: the last
  audio task of the worker's queue is the last call the engine accepted, and
  once none is left a microphone that is on, or about to be, was enabled last.
* **`RemoteMediaProofs`** (`ConsumersAssumption`, `OwnerAssumption`,
  `MaxJoinsAssumption`): `TypeOK`, `ConsumersAgree`, `DestroyLeavesNothing`,
  `PeersListTheirConsumers`.
  `ConsumersAgree` speaks of the moments between notifications; `IInv` says what
  holds inside one (`OneAtATime`, `Early`, `Agreement`: the four copies may
  differ only in the consumer being handled, by what `npc` says) and after the
  close (`AfterClose`). `PeersListTheirConsumers` rests on a second invariant,
  `PeersInv`, about the messages still in flight: a message that makes a new
  `Peer`, and with it an empty list, must not meet a consumer of that user.
  `ClosedGoAway` says that what the server has closed is gone once the inbox is
  handled (`Gone`: a close is in it and no creation after that), `AddedWithout`
  the same of the messages in front of one that adds the peer. These two follow
  from the order in which the server sends; `ListedAreHeld` and `HeldAreListed`
  then state the property also inside a notification, where one consumer is in
  a list and not in the map, or in neither. `early` exempts what was created
  before the join was answered, and `EarlyOnes` bounds it to that.
* **`RemoteSdpProofs`**: lemmas about the operators for descriptions of any
  length: each keeps `Sound` (the map leads to the right section, every closed
  section is found by its mid, the first section stays, the SDP object mirrors
  the sections) and changes only the section it is about (`Extends`, which also
  says which closed sections there are afterwards).
* **`RecvHandlerProofs`** (`VideoAssumption`, `MidsGivenAssumption`,
  `GivenMidAssumption`, `MaxFailuresAssumption`): all five invariants, and
  `Spec => ImplementsSlots`. `IInv` adds what the keys of the transceiver map
  can be (`MapKeys`: the next number is not among them, with mids given or not)
  and `ClosedInMap`: a closed section always belonged to a received consumer.
  A fresh mid is therefore never that of a closed section, which is what makes
  recycling by mid safe. The step of every action maps to `Start`, `Stop` or a
  stutter under `slotOf`.
* **`SendHandlerProofs`** (`MidOfAssumption`, `NumStreamsAssumption`,
  `SendBoundsAssumption`): all three invariants, `TypeOK`, and
  `Spec => ImplementsSlots`. Two facts have to be kept apart, since the second
  does not survive an exception. `Fits` holds whatever throws or is refused: no
  mid is on two of WebRTC's lines, every mid is that of a producer asked for or
  of the data, a closed section's mid is on the line of the same place or on
  none, and a running producer has its section and its line in one place. A
  recycled section therefore never takes the place of a running producer.
  `Aligned` holds until an exchange throws: sections and lines agree one by one
  and a line is unused exactly where the section is closed. The two parties then
  choose the same place, the first unused line being the first closed section
  (`AnswersAreTaken`). `FirstRound` says that until the ids have gone round they
  were given out in order.
* **`JniObjectsProofs`** (`NoObjAssumption`, `KindAssumption`,
  `ParentAssumption`): `TypeOK`, `UsesAreLive`, `ChildrenEndWithTransport`,
  `ChildrenEndOnce`, `ListenersFollowObjects`, `MediaCallbacksAreNamed`, for any
  objects and threads, none of which is kept out of an object. `IInv` says what
  the place of a call tells of its object: what no other thread can change
  (`Placed`: an object that is being made exists for nobody else, a listener
  lives until its object is being freed), and what others leave alone unless
  the family is in `misused` (`Kept`: the transport behind a child is still
  there). `OverlapsRecorded` is what joins the two: two calls in one family mean
  that it is in `misused`, so a step of one thread either finds the others
  elsewhere or has the exception. Of every object between the calls it says that
  its handle is zero exactly when it is deleted (`HandleOK`), that its listener
  is there unless a creation or a free is under way (`ListenerOK`), that an open
  child is in the map or shares an id (`MapOK`), that what is above it still
  exists unless misused (`ParentOK`, `DeviceOK`), and that it ended once
  (`EndOK`). A step changes one object and one call (`OnlyAt`, `OthersWait`);
  the lemmas about that are proved once and cited by every action.
* **`ScopedJavaRefProofs`** (`NoRefAssumption`, `NoEnvAssumption`,
  `NilAssumption`, `OutOfScopeAssumption`): the three ownership invariants,
  inductive together, and `Spec => HandlesAreVariables`. The refinement needs
  them: an operation on one handle deletes a reference, and only because no
  other handle owns it do all others keep their objects.
  For `JniResults` (and `HandlesAssumption`): `ReleasedIsLive`, `FrameIsClean`,
  `MembersAreLive`, for any number of threads. The ownership invariants do not
  hold of it, because a method that returns by `obj()` leaves two owners.
  `ResultInv` says instead where the result is, stage by stage (`Stage`: a frame
  has no local reference but its arguments and the one that `j_result`, then the
  returned handle, then the stub has), that bare references and arguments are
  live (`LooseAreLive`), and that each listener's member owns a global reference
  of its own (`MemberHolds`). A step of one thread leaves the frames of the
  others alone (`Apart`), which is what lets the stages be proved one by one.
* **`LazyIdsProofs`** (`ClassOfAssumption`, `UnsetAssumption`): the three
  invariants, and `Spec => ImplementsOnceCells`, for any number of threads. The
  strengthening `Races` says that a thread on its way to the exchange is not the
  one whose reference is stored, and holds the reference it made.

TLC finds no violation of the inductive invariants of `SendHandlerProofs` and
`JniObjectsProofs`, of `PeersInv` and of `ResultInv` on small instances; the proofs show that they hold
in general.

Only model-checked: the liveness properties `DestroyCompletes`,
`ServerCloseReflected`, `CallsReturn` and `CallsEnd` (fairness and `ENABLED` are
outside the prover's reach). The three violations are counterexamples, which
only TLC gives.

## 5. Not modelled

* The capability algebra of `ortc.cpp` and the conversions of encodings, JSON,
  SDP and options: functions of documents, without state.
* The factory and a second engine: what a new engine meets after a destroy is
  the client and the processor table of `ClientFactory`, whose netty client is a
  binary library; its behaviour after close cannot be read from its use.
* `PeerConnection.cpp`, which turns observer callbacks into futures that its
  caller waits for; the models have the outcome of each wait.
* `ReplaceTrack`, `SetMaxSpatialLayer`, the stats and the ICE servers, which
  change no section; pause and resume beyond the objects they use; scores,
  layers and other display state of the store, most of which nobody sets.
* The logger: one static handler that every log line of every thread uses
  (`hazards` has the line where it bites).
* Camera, audio and network utilities; the vendored libraries but for the
  functions above. Of the generated headers, each of the two patterns is
  modelled once (`JniResults`, `LazyIds`).

Within a task, the contents of requests and replies are reduced to success,
failure and the ids they carry.

## 6. Plan

1. Done: `RtcEngine`, `RemoteMedia`, `RemoteSdp`, `RecvHandler`, `SectionSlots`
   with their runs and proofs.
2. Done: `SendHandler` with WebRTC's lines; `ScopedJavaRef`, `JniResults`,
   `LazyIds`, `JniObjects` and the abstract `JavaValues` and `OnceCells`, with
   their runs and proofs; `LastAudioCallWins` from the order of the worker's
   queue.
3. Done: the proofs of `SendHandler` over the lemmas of `RemoteSdpProofs`, of
   `PeersListTheirConsumers` from the messages in flight, and of `JniResults`.
4. Done: `JniObjects` without any order imposed on the callers, with the
   transports' maps by id; lost requests in `RtcEngine`.
5. Left: safety lemmas towards the liveness properties (that something is always
   queued, pending or under way while destroy has not come to its end), which
   leave only the fairness argument to TLC.
