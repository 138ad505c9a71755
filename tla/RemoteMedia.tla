---------------------------- MODULE RemoteMedia ----------------------------
(***************************************************************************)
(* The remote side of RtcEngineEx: the notifications of the server, handled *)
(* one at a time by netty's event loop, the native consumers of the receive *)
(* transport, the engine's mConsumers and mDataConsumers, and what RoomStore *)
(* keeps of peers and consumers; all of it while the worker creates the     *)
(* receive transport and, in nativeDestroy's task, closes and frees it.     *)
(*                                                                          *)
(* The event loop and the worker share this state without a lock: a         *)
(* notification is several steps, and the worker may step in between.       *)
(***************************************************************************)
EXTENDS Naturals, Sequences, FiniteSets

CONSTANTS
  Users,       \* the other users of the room
  Media,       \* ids of audio and video consumers the server may create
  Data,        \* ids of data consumers the server may create
  Owner,       \* the user a consumer belongs to
  MaxJoins     \* bound: how often users enter the room during the session

Consumers == Media \cup Data

ASSUME ConsumersAssumption == Media \cap Data = {} /\ IsFiniteSet(Media)
ASSUME OwnerAssumption == Owner \in [Consumers -> Users]
ASSUME MaxJoinsAssumption == MaxJoins \in Nat

VARIABLES
  \* the server
  present,   \* the users in the room
  joins,     \* how often a user has entered
  joined,    \* joinRoomMediaSoup has been handled
  replied,   \* ... and answered
  made,      \* the consumers the server has created for this user
  open,      \* ... and not closed
  early,     \* history: those it created before it answered
  inbox,     \* messages on their way to the event loop, in order
  \* the engine
  life,      \* "new", "session", then the steps of the destroy task
  mRecvTransport,  \* "null", "open", "closed" or "freed"
  native,    \* every native consumer: "none", "live", "closed" or "ended"
  inMap,     \* RecvTransport's consumers and dataConsumers maps
  held,      \* the keys of mConsumers and mDataConsumers
  \* RoomStore
  store,     \* the keys of its consumers and dataConsumers
  known,     \* the keys of its peers
  listed,    \* the consumers listed by their peer
  \* the event loop
  npc,       \* where it is inside a notification
  handling,  \* the consumer of that notification
  raced,     \* history: the transport was closed under a running notification
  crash      \* TRUE once a native exception has killed the process

serverVars == <<present, joins, joined, replied, made, open, early>>
storeVars  == <<store, known, listed>>
nettyVars  == <<npc, handling>>
vars == <<serverVars, inbox, life, mRecvTransport, native, inMap, held, storeVars, nettyVars,
          raced, crash>>

-----------------------------------------------------------------------------
\* Messages, in the order the websocket delivers them.
UsersReply(us)  == [type |-> "users", users |-> us]
Joined(p)       == [type |-> "USER_JOINED", users |-> {p}]
Left(p)         == [type |-> "USER_LEFT", users |-> {p}]
CreateMsg(c)    == [type |-> "CREATE_USER_CONSUMER", consumer |-> c]
ClosedMsg(c)    == [type |-> "USER_CONSUMER_CLOSED", consumer |-> c]

Messages ==
  [type : {"users", "USER_JOINED", "USER_LEFT"}, users : SUBSET Users]
    \cup [type : {"CREATE_USER_CONSUMER", "USER_CONSUMER_CLOSED"}, consumer : Consumers]

OwnedBy(us) == {c \in Consumers : Owner[c] \in us}

\* The event loop is inside a native call on the receive transport.
InNative == {"entered", "receiving", "stopping"}

Init ==
  /\ present \in SUBSET Users /\ joins = 0 /\ joined = FALSE /\ replied = FALSE
  /\ made = {} /\ open = {} /\ early = {} /\ inbox = <<>>
  /\ life = "new" /\ mRecvTransport = "null"
  /\ native = [c \in Consumers |-> "none"] /\ inMap = {} /\ held = {}
  /\ store = {} /\ known = {} /\ listed = {}
  /\ npc = "idle" /\ handling = {} /\ raced = FALSE /\ crash = FALSE

-----------------------------------------------------------------------------
(***************************************************************************)
(* The server, from how the client uses it. It tells of users from the      *)
(* start; joinImpl asks joinRoomMediaSoup after createRecvTransport, and    *)
(* consumers are created once the server has handled that.                  *)
(***************************************************************************)
Send(msgs) ==
  /\ ~crash /\ life \in {"new", "session"}
  /\ inbox' = inbox \o msgs

\* The sequences that list every element of S once.
Orders(S) == {q \in [1..Cardinality(S) -> S] : \A i, j \in DOMAIN q : q[i] = q[j] => i = j}

ServerVarsOnly ==
  UNCHANGED <<life, mRecvTransport, native, inMap, held, storeVars, nettyVars, raced, crash>>

ServerJoins ==
  /\ life = "session" /\ ~joined
  /\ joined' = TRUE
  /\ UNCHANGED <<present, joins, replied, made, open, early, inbox>> /\ ServerVarsOnly

ServerReplies ==
  /\ joined /\ ~replied
  /\ replied' = TRUE /\ Send(<<UsersReply(present)>>)
  /\ UNCHANGED <<present, joins, joined, made, open, early>> /\ ServerVarsOnly

ServerUserEnters(p) ==
  /\ p \notin present /\ joins < MaxJoins
  /\ present' = present \cup {p} /\ joins' = joins + 1
  /\ Send(<<Joined(p)>>)
  /\ UNCHANGED <<joined, replied, made, open, early>> /\ ServerVarsOnly

\* The consumers of a user are closed with it, before or after USER_LEFT.
ServerUserLeaves(p) ==
  LET ended == open \cap OwnedBy({p})
  IN  /\ p \in present
      /\ present' = present \ {p} /\ open' = open \ ended
      /\ \E q \in Orders(ended \cap Media) :
           LET closes == [i \in DOMAIN q |-> ClosedMsg(q[i])]
           IN  Send(closes \o <<Left(p)>>) \/ Send(<<Left(p)>> \o closes)
      /\ UNCHANGED <<joins, joined, replied, made, early>> /\ ServerVarsOnly

ServerCreates(c) ==
  /\ joined /\ Owner[c] \in present /\ c \notin made
  /\ made' = made \cup {c} /\ open' = open \cup {c}
  /\ early' = IF replied THEN early ELSE early \cup ({c} \cap Media)
  /\ Send(<<CreateMsg(c)>>)
  /\ UNCHANGED <<present, joins, joined, replied>> /\ ServerVarsOnly

ServerCloses(c) ==
  /\ c \in open \cap Media
  /\ open' = open \ {c}
  /\ Send(<<ClosedMsg(c)>>)
  /\ UNCHANGED <<present, joins, joined, replied, made, early>> /\ ServerVarsOnly

-----------------------------------------------------------------------------
(***************************************************************************)
(* The event loop: handleNotification and the listener of                   *)
(* joinRoomMediaSoup. The destroy task closes the client and clears the     *)
(* processors, so no message is taken after that.                           *)
(***************************************************************************)
Receive(type) ==
  /\ ~crash /\ npc = "idle" /\ life \in {"new", "session"}
  /\ inbox # <<>> /\ Head(inbox).type = type
  /\ inbox' = Tail(inbox)

EngineVars == <<serverVars, life, mRecvTransport, raced>>

\* RoomStore.addPeer: a new Peer, without consumers, replaces the old one.
addPeers(us) == known' = known \cup us /\ listed' = listed \ OwnedBy(us)

AddPeers ==
  /\ Receive("users") \/ Receive("USER_JOINED")
  /\ addPeers(Head(inbox).users)
  /\ UNCHANGED <<EngineVars, native, inMap, held, store, nettyVars, crash>>

\* RoomStore.removePeer.
UserLeft ==
  /\ Receive("USER_LEFT")
  /\ known' = known \ Head(inbox).users /\ listed' = listed \ OwnedBy(Head(inbox).users)
  /\ UNCHANGED <<EngineVars, native, inMap, held, store, nettyVars, crash>>

\* onNewConsumer and onNewDataConsumer reach RecvTransport.consume(Data), and
\* checkTransportExists passes.
NewConsumer ==
  /\ Receive("CREATE_USER_CONSUMER")
  /\ npc' = "entered" /\ handling' = {Head(inbox).consumer}
  /\ UNCHANGED <<EngineVars, native, inMap, held, storeVars, crash>>

\* The notification is handled, or its exception caught.
Done == npc' = "idle" /\ handling' = {}

\* RecvTransport::Consume(Data) checks closed first; a throw is caught.
ConsumeStart ==
  /\ ~crash /\ npc = "entered" /\ mRecvTransport # "freed"
  /\ IF mRecvTransport = "closed" THEN Done ELSE npc' = "receiving" /\ UNCHANGED handling
  /\ UNCHANGED <<EngineVars, inbox, native, inMap, held, storeVars, crash>>

\* RecvHandler::Receive throws: nothing is created, the server is not told.
ConsumeFails ==
  /\ ~crash /\ npc = "receiving" /\ mRecvTransport # "freed" /\ Done
  /\ UNCHANGED <<EngineVars, inbox, native, inMap, held, storeVars, crash>>

ConsumeDone(c) ==
  /\ ~crash /\ npc = "receiving" /\ c \in handling /\ mRecvTransport # "freed"
  /\ native' = [native EXCEPT ![c] = "live"] /\ inMap' = inMap \cup {c}
  /\ npc' = "created"
  /\ UNCHANGED <<EngineVars, inbox, held, storeVars, handling, crash>>

\* mConsumers.put, then RoomStore.addConsumer: a peer that is not known does
\* not list the consumer.
\* Mutant: the consumer is listed only.
ListOnly(c) ==
  /\ listed' = IF Owner[c] \in known THEN listed \cup {c} ELSE listed
  /\ UNCHANGED <<store, known>>
addConsumer(c) ==
  /\ store' = store \cup {c}
  /\ listed' = IF Owner[c] \in known THEN listed \cup {c} ELSE listed
  /\ UNCHANGED known

StoreConsumer(c) ==
  /\ ~crash /\ npc = "created" /\ c \in handling
  /\ held' = held \cup {c}
  /\ addConsumer(c)
  /\ Done
  /\ UNCHANGED <<EngineVars, inbox, native, inMap, crash>>

\* USER_CONSUMER_CLOSED: mConsumers forgets the consumer first, and a consumer
\* it does not hold is ignored; Consumer::Close then erases it from the
\* transport's map and stops receiving.
\* Mutant: the consumer is looked up under the wrong id.
IgnoreClosed ==
  /\ Receive("USER_CONSUMER_CLOSED")
  /\ UNCHANGED <<EngineVars, native, inMap, held, storeVars, nettyVars, crash>>
ConsumerClosed ==
  /\ Receive("USER_CONSUMER_CLOSED")
  /\ LET c == Head(inbox).consumer
     IN  IF c \notin held THEN UNCHANGED <<nettyVars, native, inMap, held>>
         ELSE /\ held' = held \ {c}
              /\ native' = [native EXCEPT ![c] = "closed"] /\ inMap' = inMap \ {c}
              /\ npc' = "stopping" /\ handling' = {c}
  /\ UNCHANGED <<EngineVars, storeVars, crash>>

\* RoomStore.removeConsumer.
\* Mutant: the peer keeps it.
KeepListed(c) == store' = store \ {c} /\ UNCHANGED <<listed, known>>
removeConsumer(c) == store' = store \ {c} /\ listed' = listed \ {c} /\ UNCHANGED known

StopReceiving(c) ==
  /\ ~crash /\ npc = "stopping" /\ c \in handling /\ mRecvTransport # "freed"
  /\ removeConsumer(c)
  /\ Done
  /\ UNCHANGED <<EngineVars, inbox, native, inMap, held, crash>>

\* No JNI function catches what RecvHandler::StopReceiving throws.
StopThrows ==
  /\ ~crash /\ npc = "stopping" /\ mRecvTransport # "freed"
  /\ crash' = TRUE
  /\ UNCHANGED <<EngineVars, inbox, native, inMap, held, storeVars, nettyVars>>

\* DataConsumer::OnStateChange, on the signalling thread: mDataConsumers
\* forgets the consumer, the store does not.
DataChannelClosed(d) ==
  /\ ~crash /\ native[d] \in {"live", "closed"}
  /\ native' = [native EXCEPT ![d] = "ended"] /\ held' = held \ {d}
  /\ UNCHANGED <<EngineVars, inbox, inMap, storeVars, nettyVars, crash>>

-----------------------------------------------------------------------------
(***************************************************************************)
(* The worker: createRecvTransport in joinImpl, and the task of             *)
(* nativeDestroy.                                                           *)
(***************************************************************************)
createRecvTransport ==
  /\ ~crash /\ life = "new"
  /\ life' = "session" /\ mRecvTransport' = "open"
  /\ UNCHANGED <<serverVars, inbox, native, inMap, held, storeVars, nettyVars, raced, crash>>

DestroyStart ==
  /\ ~crash /\ life \in {"new", "session"}
  /\ life' = "clientClosed" /\ inbox' = <<>>
  /\ UNCHANGED <<serverVars, mRecvTransport, native, inMap, held, storeVars, nettyVars, raced, crash>>

\* What RecvTransport::Close closes.
\* Mutant: the consumers of the map are not visited.
CloseNone == {}
ClosedByTransport == {c \in inMap : native[c] = "live"}

\* Consumer::TransportClosed tells the listener, which empties mConsumers;
\* the listener of a data consumer does nothing.
CloseRecvTransport ==
  /\ ~crash /\ life = "clientClosed" /\ life' = "closed"
  /\ IF mRecvTransport = "null"
     THEN UNCHANGED <<mRecvTransport, native, held, raced>>
     ELSE /\ mRecvTransport' = "closed"
          /\ native' = [c \in Consumers |-> IF c \in ClosedByTransport THEN "closed" ELSE native[c]]
          /\ held' = held \ (ClosedByTransport \cap Media)
          /\ raced' = (npc # "idle")
  /\ UNCHANGED <<serverVars, inbox, inMap, storeVars, nettyVars, crash>>

\* RecvTransport.dispose.
FreeRecvTransport ==
  /\ ~crash /\ life = "closed" /\ life' = "freed"
  /\ mRecvTransport' = IF mRecvTransport = "null" THEN "null" ELSE "freed"
  /\ UNCHANGED <<serverVars, inbox, native, inMap, held, storeVars, nettyVars, raced, crash>>

\* mConsumers.forEach(... mConsumers.remove(s)).
ClearConsumers ==
  /\ ~crash /\ life = "freed" /\ life' = "destroyed"
  /\ held' = held \ Media
  /\ UNCHANGED <<serverVars, inbox, mRecvTransport, native, inMap, storeVars, nettyVars, raced, crash>>

-----------------------------------------------------------------------------
Server ==
  \/ ServerJoins \/ ServerReplies
  \/ \E p \in Users : ServerUserEnters(p) \/ ServerUserLeaves(p)
  \/ \E c \in Consumers : ServerCreates(c) \/ ServerCloses(c)

EventLoop ==
  \/ AddPeers \/ UserLeft \/ NewConsumer \/ ConsumerClosed
  \/ ConsumeStart \/ ConsumeFails \/ StopThrows
  \/ \E c \in Consumers : ConsumeDone(c) \/ StoreConsumer(c) \/ StopReceiving(c)

Worker == createRecvTransport \/ DestroyStart \/ CloseRecvTransport \/ FreeRecvTransport \/ ClearConsumers

Next == Server \/ EventLoop \/ Worker \/ \E d \in Data : DataChannelClosed(d)

Spec == Init /\ [][Next]_vars

\* Netty's event loop runs what is ready.
FairSpec == Spec /\ WF_vars(EventLoop)

-----------------------------------------------------------------------------
\* Types of the state.
TypeOK ==
  /\ present \subseteq Users /\ joins \in 0..MaxJoins
  /\ joined \in BOOLEAN /\ replied \in BOOLEAN
  /\ made \subseteq Consumers /\ open \subseteq made /\ early \subseteq Consumers
  /\ inbox \in Seq(Messages)
  /\ life \in {"new", "session", "clientClosed", "closed", "freed", "destroyed"}
  /\ mRecvTransport \in {"null", "open", "closed", "freed"}
  /\ native \in [Consumers -> {"none", "live", "closed", "ended"}]
  /\ inMap \subseteq Consumers /\ held \subseteq Consumers
  /\ store \subseteq Consumers /\ known \subseteq Users /\ listed \subseteq Consumers
  /\ npc \in {"idle", "created"} \cup InNative /\ handling \subseteq Consumers
  /\ npc = "idle" <=> handling = {}
  /\ raced \in BOOLEAN /\ crash \in BOOLEAN

\* During the session, between two notifications, mConsumers, the transport's
\* map, the live native consumers and the store name the same media consumers,
\* whatever arrived, failed and closed before (onNewConsumer,
\* USER_CONSUMER_CLOSED, RecvTransport::Consume, RecvTransport::OnClose).
ConsumersAgree ==
  life = "session" /\ npc = "idle" =>
    \A c \in Media : /\ c \in held <=> native[c] = "live"
                     /\ c \in held <=> c \in inMap
                     /\ c \in held <=> c \in store

\* The set a peer lists is what setupRemoteVideo walks: between notifications it
\* has no stale media consumer, and it misses none of a known peer that the server
\* created after it had answered the join (Peers.addPeer, addConsumer, removeConsumer).
PeersListTheirConsumers ==
  life = "session" /\ npc = "idle" =>
    /\ listed \cap Media \subseteq held
    /\ \A c \in (held \cap Media) \ early : Owner[c] \in known => c \in listed

\* After the destroy task no media consumer is held or alive, unless a
\* notification was running when the transport was closed.
DestroyLeavesNothing ==
  life = "destroyed" /\ ~raced =>
    held \cap Media = {} /\ \A c \in Media : native[c] # "live"

\* A consumer the server has closed does not stay: the event loop takes it out
\* of the store, unless the session ends or the process dies.
ServerCloseReflected ==
  \A c \in Media :
    (c \in made \ open) ~> (c \notin store \/ life # "session" \/ crash)

\* What RecvTransport.checkTransportExists is there for: no native call runs on
\* a transport that dispose has freed.
NoCallOnFreedTransport == ~(mRecvTransport = "freed" /\ npc \in InNative)

=============================================================================
