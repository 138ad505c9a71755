------------------------- MODULE RemoteMediaProofs -------------------------
(***************************************************************************)
(* Proofs about RemoteMedia for every set of users and of consumers and     *)
(* every number of joins.                                                   *)
(***************************************************************************)
EXTENDS RemoteMedia, TLAPS, FiniteSetTheorems

-----------------------------------------------------------------------------
\* The inductive invariant.

\* The event loop handles one consumer at a time.
OneAtATime == \A c, d \in handling : c = d

\* Before createRecvTransport the server has sent nothing about consumers, so
\* no notification ever meets a transport that is null.
UserMessages == {"users", "USER_JOINED", "USER_LEFT"}
Early ==
  /\ life = "new" =>
       /\ ~joined /\ made = {} /\ mRecvTransport = "null"
       /\ \A i \in 1..Len(inbox) : inbox[i].type \in UserMessages
  /\ mRecvTransport = "null" =>
       /\ life # "session" /\ npc = "idle"
       /\ \A c \in Media : native[c] # "live" /\ c \notin held

\* The four records of a consumer agree.
Agree(c) ==
  /\ c \in held <=> native[c] = "live"
  /\ c \in held <=> c \in inMap
  /\ c \in held <=> c \in store

\* Until the transport is closed they agree on every consumer but the one in
\* the middle of a notification, which is alive and in the transport's map
\* after RecvTransport::Consume, and neither after Consumer::Close.
Agreement ==
  life \in {"new", "session", "clientClosed"} =>
    \A c \in Media :
      /\ (npc = "created" /\ c \in handling) => (native[c] = "live" /\ c \in inMap)
      /\ (npc = "stopping" /\ c \in handling) =>
            (native[c] # "live" /\ c \notin inMap /\ c \notin held)
      /\ (npc \notin {"created", "stopping"} \/ c \notin handling) => Agree(c)

\* Once the transport is closed, and was not closed under a notification,
\* nothing is left to hold or to keep alive a consumer.
AfterClose ==
  life \in {"closed", "freed", "destroyed"} /\ ~raced =>
    npc = "idle" /\ \A c \in Media : native[c] # "live" /\ c \notin held

IInv == TypeOK /\ OneAtATime /\ Early /\ Agreement /\ AfterClose

-----------------------------------------------------------------------------
\* Messages.

LEMMA MessageTypes ==
  /\ \A us \in SUBSET Users : UsersReply(us) \in Messages /\ UsersReply(us).type = "users"
  /\ \A p \in Users : Joined(p) \in Messages /\ Joined(p).type = "USER_JOINED"
  /\ \A p \in Users : Left(p) \in Messages /\ Left(p).type = "USER_LEFT"
  /\ \A c \in Consumers : CreateMsg(c) \in Messages /\ ClosedMsg(c) \in Messages
BY DEF UsersReply, Joined, Left, CreateMsg, ClosedMsg, Messages

LEMMA Concatenation ==
  ASSUME NEW S, NEW s \in Seq(S), NEW t \in Seq(S)
  PROVE  s \o t \in Seq(S) /\ (s = <<>> => s \o t = t /\ t \o s = t)
OBVIOUS

\* The message at the head of the inbox, by its type.
LEMMA HeadMessage ==
  ASSUME TypeOK, inbox # <<>>
  PROVE  /\ Tail(inbox) \in Seq(Messages)
         /\ Head(inbox).type \in UserMessages => Head(inbox).users \subseteq Users
         /\ Head(inbox).type \in {"CREATE_USER_CONSUMER", "USER_CONSUMER_CLOSED"} =>
              Head(inbox).consumer \in Consumers
<1>1. inbox \in Seq(Messages) /\ Head(inbox) \in Messages
  BY DEF TypeOK
<1> QED BY <1>1 DEF Messages, UserMessages

\* Sending keeps the inbox a queue of messages, and one about users only when
\* the new messages are.
LEMMA SendKeeps ==
  ASSUME TypeOK, Early, NEW msgs \in Seq(Messages), Send(msgs),
         life = "new" => \A i \in 1..Len(msgs) : msgs[i].type \in UserMessages
  PROVE  /\ inbox' \in Seq(Messages)
         /\ life = "new" => \A i \in 1..Len(inbox') : inbox'[i].type \in UserMessages
<1>1. inbox \in Seq(Messages) /\ inbox' = inbox \o msgs
  BY DEF TypeOK, Send
<1>2. inbox' \in Seq(Messages)
  BY <1>1
<1>3. ASSUME life = "new", NEW i \in 1..Len(inbox') PROVE inbox'[i].type \in UserMessages
  <2>1. \A j \in 1..Len(inbox) : inbox[j].type \in UserMessages
    BY <1>3 DEF Early
  <2>2. CASE i \in 1..Len(inbox)
    BY <1>1, <2>1, <2>2
  <2>3. CASE i \notin 1..Len(inbox)
    <3>1. i - Len(inbox) \in 1..Len(msgs) /\ inbox'[i] = msgs[i - Len(inbox)]
      BY <1>1, <2>3
    <3> QED BY <1>3, <3>1
  <2> QED BY <2>2, <2>3
<1> QED BY <1>2, <1>3

\* The close messages of some consumers.
LEMMA ClosesType ==
  ASSUME NEW S \in SUBSET Media, NEW q \in Orders(S)
  PROVE  /\ [i \in DOMAIN q |-> ClosedMsg(q[i])] \in Seq(Messages)
         /\ S = {} => [i \in DOMAIN q |-> ClosedMsg(q[i])] = <<>>
<1>1. IsFiniteSet(S)
  BY ConsumersAssumption, FS_Subset
<1>2. Cardinality(S) \in Nat /\ (S = {} => Cardinality(S) = 0)
  BY <1>1, FS_CardinalityType, FS_EmptySet
<1>3. q \in [1..Cardinality(S) -> S]
  BY DEF Orders
<1>4. DOMAIN q = 1..Cardinality(S) /\ \A i \in DOMAIN q : ClosedMsg(q[i]) \in Messages
  BY <1>3, MessageTypes DEF Consumers
<1> QED BY <1>2, <1>4

-----------------------------------------------------------------------------
LEMMA InitEstablishes == Init => IInv
<1> SUFFICES ASSUME Init PROVE IInv
  OBVIOUS
<1>1. inbox \in Seq(Messages) /\ joins \in 0..MaxJoins
  BY MaxJoinsAssumption DEF Init
<1>2. TypeOK
  BY <1>1 DEF Init, TypeOK, InNative
<1>3. Early /\ Agreement
  BY DEF Init, Early, Agreement, Agree, Consumers
<1> QED BY <1>2, <1>3 DEF Init, IInv, OneAtATime, AfterClose

\* A step of the server touches the client through the inbox only.
LEMMA ServerStepKeeps ==
  ASSUME IInv, ServerVarsOnly,
         present' \subseteq Users, joins' \in 0..MaxJoins, joined' \in BOOLEAN, replied' \in BOOLEAN,
         made' \subseteq Consumers, open' \subseteq made', early' \subseteq Consumers, inbox' \in Seq(Messages),
         life = "new" => ~joined' /\ made' = {} /\
                         \A i \in 1..Len(inbox') : inbox'[i].type \in UserMessages
  PROVE  IInv'
<1> USE DEF IInv, ServerVarsOnly, storeVars, nettyVars
<1>1. TypeOK'
  BY DEF TypeOK
<1>2. OneAtATime' /\ Early' /\ AfterClose'
  BY DEF OneAtATime, Early, AfterClose
<1>3. Agreement'
  BY DEF Agreement, Agree
<1> QED BY <1>1, <1>2, <1>3

LEMMA ServerKeeps == IInv /\ Server => IInv'
<1> SUFFICES ASSUME IInv, Server PROVE IInv'
  OBVIOUS
<1>0. TypeOK /\ Early
  BY DEF IInv
<1>1. CASE ServerJoins
  BY <1>0, <1>1, ServerStepKeeps DEF ServerJoins, TypeOK
<1>2. CASE ServerReplies
  <2>1. <<UsersReply(present)>> \in Seq(Messages) /\ life # "new"
    BY <1>0, <1>2, MessageTypes DEF TypeOK, Early, ServerReplies
  <2>2. inbox' \in Seq(Messages)
    BY <1>0, <1>2, <2>1, SendKeeps DEF ServerReplies
  <2> QED BY <1>0, <1>2, <2>1, <2>2, ServerStepKeeps DEF ServerReplies, TypeOK
<1>3. ASSUME NEW p \in Users, ServerUserEnters(p) PROVE IInv'
  <2>1. <<Joined(p)>> \in Seq(Messages) /\ \A i \in 1..Len(<<Joined(p)>>) : <<Joined(p)>>[i].type \in UserMessages
    BY MessageTypes DEF UserMessages
  <2>2. Send(<<Joined(p)>>)
    BY <1>3 DEF ServerUserEnters
  <2>3. inbox' \in Seq(Messages) /\ (life = "new" => \A i \in 1..Len(inbox') : inbox'[i].type \in UserMessages)
    BY <1>0, <2>1, <2>2, SendKeeps
  <2>4. present' \subseteq Users /\ joins' \in 0..MaxJoins
    BY <1>0, <1>3, MaxJoinsAssumption DEF TypeOK, ServerUserEnters
  <2> QED BY <1>0, <1>3, <2>3, <2>4, ServerStepKeeps DEF ServerUserEnters, TypeOK, Early
<1>4. ASSUME NEW p \in Users, ServerUserLeaves(p) PROVE IInv'
  <2> DEFINE ended == open \cap OwnedBy({p})
             closes(q) == [i \in DOMAIN q |-> ClosedMsg(q[i])]
  <2>1. PICK q \in Orders(ended \cap Media) :
          Send(closes(q) \o <<Left(p)>>) \/ Send(<<Left(p)>> \o closes(q))
    BY <1>4 DEF ServerUserLeaves
  <2>2. closes(q) \in Seq(Messages) /\ (ended \cap Media = {} => closes(q) = <<>>)
    BY ClosesType
  <2>3. <<Left(p)>> \in Seq(Messages) /\ \A i \in 1..Len(<<Left(p)>>) : <<Left(p)>>[i].type \in UserMessages
    BY MessageTypes DEF UserMessages
  <2>4. life = "new" => ended \cap Media = {}
    BY <1>0 DEF Early, TypeOK
  <2>5. inbox' \in Seq(Messages) /\ (life = "new" => \A i \in 1..Len(inbox') : inbox'[i].type \in UserMessages)
    <3>1. PICK cl \in Seq(Messages) :
            /\ Send(cl \o <<Left(p)>>) \/ Send(<<Left(p)>> \o cl)
            /\ life = "new" => cl = <<>>
      BY <2>1, <2>2, <2>4
    <3>2. ASSUME NEW msgs \in {cl \o <<Left(p)>>, <<Left(p)>> \o cl}, Send(msgs)
          PROVE  /\ inbox' \in Seq(Messages)
                 /\ life = "new" => \A i \in 1..Len(inbox') : inbox'[i].type \in UserMessages
      <4>1. msgs \in Seq(Messages)
        BY <2>3, Concatenation
      <4>2. life = "new" => msgs = <<Left(p)>>
        BY <2>3, <3>1, Concatenation
      <4>3. life = "new" => \A i \in 1..Len(msgs) : msgs[i].type \in UserMessages
        BY <2>3, <4>2
      <4> QED BY <1>0, <3>2, <4>1, <4>3, SendKeeps
    <3>3. CASE Send(cl \o <<Left(p)>>)
      BY <3>2, <3>3
    <3>4. CASE Send(<<Left(p)>> \o cl)
      BY <3>2, <3>4
    <3> QED BY <3>1, <3>3, <3>4
  <2>6. present' \subseteq Users /\ open' \subseteq made
    BY <1>0, <1>4 DEF TypeOK, ServerUserLeaves
  <2> QED BY <1>0, <1>4, <2>5, <2>6, ServerStepKeeps DEF ServerUserLeaves, TypeOK, Early
<1>5. ASSUME NEW c \in Consumers, ServerCreates(c) PROVE IInv'
  <2>1. <<CreateMsg(c)>> \in Seq(Messages) /\ life # "new"
    BY <1>0, <1>5, MessageTypes DEF Early, ServerCreates
  <2>2. inbox' \in Seq(Messages)
    BY <1>0, <1>5, <2>1, SendKeeps DEF ServerCreates
  <2> QED BY <1>0, <1>5, <2>1, <2>2, ServerStepKeeps DEF ServerCreates, TypeOK
<1>6. ASSUME NEW c \in Consumers, ServerCloses(c) PROVE IInv'
  <2>1. <<ClosedMsg(c)>> \in Seq(Messages) /\ life # "new"
    BY <1>0, <1>6, MessageTypes DEF Early, TypeOK, ServerCloses
  <2>2. inbox' \in Seq(Messages)
    BY <1>0, <1>6, <2>1, SendKeeps DEF ServerCloses
  <2> QED BY <1>0, <1>6, <2>1, <2>2, ServerStepKeeps DEF ServerCloses, TypeOK
<1> QED BY <1>1, <1>2, <1>3, <1>4, <1>5, <1>6 DEF Server

-----------------------------------------------------------------------------
\* A notification that is taken finds the event loop idle and the transport not
\* yet closed; one about a consumer finds it created.
LEMMA Received ==
  ASSUME IInv, NEW type, Receive(type)
  PROVE  /\ npc = "idle" /\ handling = {} /\ life \in {"new", "session"}
         /\ inbox' \in Seq(Messages)
         /\ \A i \in 1..Len(inbox') : inbox'[i] = inbox[i + 1] /\ i + 1 \in 1..Len(inbox)
         /\ type \in UserMessages => Head(inbox).users \subseteq Users
         /\ type \in {"CREATE_USER_CONSUMER", "USER_CONSUMER_CLOSED"} =>
              Head(inbox).consumer \in Consumers /\ life = "session" /\ mRecvTransport # "null"
<1>1. npc = "idle" /\ handling = {} /\ life \in {"new", "session"} /\ inbox # <<>>
      /\ Head(inbox).type = type /\ inbox' = Tail(inbox) /\ TypeOK /\ Early
  BY DEF IInv, TypeOK, Receive
<1>2. inbox \in Seq(Messages) /\ inbox' \in Seq(Messages)
  BY <1>1, HeadMessage DEF TypeOK
<1>3. \A i \in 1..Len(inbox') : inbox'[i] = inbox[i + 1] /\ i + 1 \in 1..Len(inbox)
  BY <1>1, <1>2
<1>4. type \in {"CREATE_USER_CONSUMER", "USER_CONSUMER_CLOSED"} => life = "session"
  <2>1. 1 \in 1..Len(inbox) /\ Head(inbox) = inbox[1]
    BY <1>1, <1>2
  <2> QED BY <1>1, <2>1 DEF Early, UserMessages
<1> QED BY <1>1, <1>2, <1>3, <1>4, HeadMessage DEF Early

\* AddPeers and UserLeft change the peers only.
LEMMA PeersKeep == IInv /\ (AddPeers \/ UserLeft) => IInv'
<1> SUFFICES ASSUME IInv, AddPeers \/ UserLeft PROVE IInv'
  OBVIOUS
<1> DEFINE us == Head(inbox).users
<1>1. PICK type \in UserMessages : Receive(type)
  BY DEF AddPeers, UserLeft, UserMessages
<1>2. /\ inbox' \in Seq(Messages) /\ us \subseteq Users
      /\ \A i \in 1..Len(inbox') : inbox'[i] = inbox[i + 1] /\ i + 1 \in 1..Len(inbox)
  BY <1>1, Received
<1>3. UNCHANGED <<serverVars, life, mRecvTransport, raced, native, inMap, held, store, nettyVars, crash>>
  BY DEF AddPeers, UserLeft, EngineVars
<1>4. known' \subseteq Users /\ listed' \subseteq Consumers
  BY <1>2 DEF IInv, TypeOK, AddPeers, UserLeft, addPeers
<1> USE DEF IInv, serverVars, nettyVars
<1>5. TypeOK'
  BY <1>2, <1>3, <1>4 DEF TypeOK
<1>6. Early'
  BY <1>2, <1>3 DEF Early
<1>7. OneAtATime' /\ Agreement' /\ AfterClose'
  BY <1>3 DEF OneAtATime, Agreement, Agree, AfterClose
<1> QED BY <1>5, <1>6, <1>7

LEMMA NewConsumerKeeps == IInv /\ NewConsumer => IInv'
<1> SUFFICES ASSUME IInv, NewConsumer PROVE IInv'
  OBVIOUS
<1>1. Receive("CREATE_USER_CONSUMER")
  BY DEF NewConsumer
<1>2. /\ npc = "idle" /\ handling = {} /\ life = "session" /\ mRecvTransport # "null"
      /\ inbox' \in Seq(Messages) /\ Head(inbox).consumer \in Consumers
  BY <1>1, Received
<1> USE DEF IInv, NewConsumer, EngineVars, serverVars, storeVars
<1>3. TypeOK'
  BY <1>2 DEF TypeOK, InNative
<1>4. OneAtATime' /\ Early' /\ AfterClose'
  BY <1>2 DEF OneAtATime, Early, AfterClose
<1>5. Agreement'
  BY <1>2 DEF Agreement, Agree
<1> QED BY <1>3, <1>4, <1>5

LEMMA ConsumerClosedKeeps == IInv /\ ConsumerClosed => IInv'
<1> SUFFICES ASSUME IInv, ConsumerClosed PROVE IInv'
  OBVIOUS
<1> DEFINE c == Head(inbox).consumer
<1>1. Receive("USER_CONSUMER_CLOSED")
  BY DEF ConsumerClosed
<1>2. /\ npc = "idle" /\ handling = {} /\ life = "session" /\ mRecvTransport # "null"
      /\ inbox' \in Seq(Messages) /\ c \in Consumers
  BY <1>1, Received
<1>3. UNCHANGED <<EngineVars, storeVars, crash>>
  BY DEF ConsumerClosed
<1> USE DEF IInv, EngineVars, serverVars, storeVars, nettyVars
<1>4. CASE c \notin held
  <2>1. UNCHANGED <<nettyVars, native, inMap, held>>
    BY <1>4 DEF ConsumerClosed
  <2>2. TypeOK' /\ OneAtATime'
    BY <1>2, <1>3, <2>1 DEF TypeOK, OneAtATime
  <2>3. Early' /\ AfterClose' /\ Agreement'
    BY <1>2, <1>3, <2>1 DEF Early, AfterClose, Agreement, Agree
  <2> QED BY <2>2, <2>3
<1>5. CASE c \in held
  <2>1. /\ held' = held \ {c} /\ native' = [native EXCEPT ![c] = "closed"]
        /\ inMap' = inMap \ {c} /\ npc' = "stopping" /\ handling' = {c}
    BY <1>5 DEF ConsumerClosed
  <2> HIDE DEF c
  <2>2. TypeOK' /\ OneAtATime'
    BY <1>2, <1>3, <2>1 DEF TypeOK, OneAtATime, InNative
  <2>3. Early' /\ AfterClose'
    BY <1>2, <1>3, <2>1 DEF Early, AfterClose
  <2>4. native'[c] = "closed" /\ \A d \in Consumers : d # c => native'[d] = native[d]
    BY <1>2, <2>1 DEF TypeOK
  <2>5. Agreement'
    BY <1>2, <1>3, <2>1, <2>4 DEF Agreement, Agree, Consumers
  <2> QED BY <2>2, <2>3, <2>5
<1> QED BY <1>4, <1>5

LEMMA ConsumeEndsKeep == IInv /\ (ConsumeStart \/ ConsumeFails) => IInv'
<1> SUFFICES ASSUME IInv, ConsumeStart \/ ConsumeFails PROVE IInv'
  OBVIOUS
<1>1. UNCHANGED <<EngineVars, inbox, native, inMap, held, storeVars, crash>>
  BY DEF ConsumeStart, ConsumeFails
<1>2. /\ npc \in {"entered", "receiving"}
      /\ (npc' = "idle" /\ handling' = {}) \/ (npc' = "receiving" /\ handling' = handling)
  BY DEF ConsumeStart, ConsumeFails, Done
<1> USE DEF IInv, EngineVars, serverVars, storeVars
<1>3. TypeOK' /\ OneAtATime'
  BY <1>1, <1>2 DEF TypeOK, OneAtATime, InNative
<1>4. Early' /\ AfterClose'
  BY <1>1, <1>2 DEF Early, AfterClose
<1>5. Agreement'
  BY <1>1, <1>2 DEF Agreement, Agree
<1> QED BY <1>3, <1>4, <1>5

LEMMA ConsumeDoneKeeps == ASSUME NEW c \in Consumers, IInv, ConsumeDone(c) PROVE IInv'
<1> USE DEF IInv, ConsumeDone, EngineVars, serverVars, storeVars
<1>1. TypeOK' /\ OneAtATime'
  BY DEF TypeOK, OneAtATime, InNative
<1>2. Early' /\ AfterClose'
  BY DEF Early, AfterClose
<1>3. native'[c] = "live" /\ \A d \in Consumers : d # c => native'[d] = native[d]
  BY DEF TypeOK
<1>4. \A d \in handling : d = c
  BY DEF OneAtATime
<1>5. Agreement'
  BY <1>3, <1>4 DEF Agreement, Agree, Consumers
<1> QED BY <1>1, <1>2, <1>5

LEMMA StoreConsumerKeeps == ASSUME NEW c \in Consumers, IInv, StoreConsumer(c) PROVE IInv'
<1> USE DEF IInv, StoreConsumer, addConsumer, Done, EngineVars, serverVars
<1>1. TypeOK' /\ OneAtATime'
  BY DEF TypeOK, OneAtATime
<1>2. Early' /\ AfterClose'
  BY DEF Early, AfterClose
<1>3. \A d \in handling : d = c
  BY DEF OneAtATime
<1>4. Agreement'
  BY <1>3 DEF Agreement, Agree
<1> QED BY <1>1, <1>2, <1>4

LEMMA StopKeeps ==
  ASSUME IInv, StopThrows \/ \E c \in Consumers : StopReceiving(c)
  PROVE  IInv'
<1> USE DEF IInv, EngineVars, serverVars, storeVars, nettyVars
<1>1. CASE StopThrows
  <2> USE <1>1 DEF StopThrows
  <2>1. TypeOK' /\ OneAtATime'
    BY DEF TypeOK, OneAtATime
  <2>2. Early' /\ AfterClose' /\ Agreement'
    BY DEF Early, AfterClose, Agreement, Agree
  <2> QED BY <2>1, <2>2
<1>2. ASSUME NEW c \in Consumers, StopReceiving(c) PROVE IInv'
  <2> USE <1>2 DEF StopReceiving, removeConsumer, Done
  <2>1. TypeOK' /\ OneAtATime'
    BY DEF TypeOK, OneAtATime
  <2>2. Early' /\ AfterClose'
    BY DEF Early, AfterClose
  <2>3. \A d \in handling : d = c
    BY DEF OneAtATime
  <2>4. Agreement'
    BY <2>3 DEF Agreement, Agree
  <2> QED BY <2>1, <2>2, <2>4
<1> QED BY <1>1, <1>2

LEMMA DataChannelClosedKeeps == ASSUME NEW d \in Data, IInv, DataChannelClosed(d) PROVE IInv'
<1> USE DEF IInv, DataChannelClosed, EngineVars, serverVars, storeVars, nettyVars
<1>1. d \in Consumers /\ d \notin Media
  BY ConsumersAssumption DEF Consumers
<1>2. \A c \in Media : native'[c] = native[c] /\ (c \in held' <=> c \in held)
  BY <1>1 DEF TypeOK, Consumers
<1>3. TypeOK' /\ OneAtATime'
  BY <1>1 DEF TypeOK, OneAtATime
<1>4. Early' /\ AfterClose'
  BY <1>2 DEF Early, AfterClose
<1>5. Agreement'
  BY <1>2 DEF Agreement, Agree
<1> QED BY <1>3, <1>4, <1>5

-----------------------------------------------------------------------------
\* The worker's steps other than the close leave the consumers alone.
LEMMA WorkerKeeps == IInv /\ Worker => IInv'
<1> SUFFICES ASSUME IInv, Worker PROVE IInv'
  OBVIOUS
<1> USE DEF IInv, serverVars, storeVars, nettyVars
<1>1. CASE createRecvTransport
  <2> USE <1>1 DEF createRecvTransport
  <2>1. TypeOK' /\ OneAtATime'
    BY DEF TypeOK, OneAtATime
  <2>2. Early' /\ AfterClose' /\ Agreement'
    BY DEF Early, AfterClose, Agreement, Agree
  <2> QED BY <2>1, <2>2
<1>2. CASE DestroyStart
  <2> USE <1>2 DEF DestroyStart
  <2>1. inbox' \in Seq(Messages)
    OBVIOUS
  <2>2. TypeOK' /\ OneAtATime'
    BY <2>1 DEF TypeOK, OneAtATime
  <2>3. Early' /\ AfterClose' /\ Agreement'
    BY DEF Early, AfterClose, Agreement, Agree
  <2> QED BY <2>2, <2>3
<1>3. CASE CloseRecvTransport
  <2>1. /\ life = "clientClosed" /\ life' = "closed"
        /\ UNCHANGED <<serverVars, inbox, inMap, storeVars, nettyVars, crash>>
    BY <1>3 DEF CloseRecvTransport
  <2>2. OneAtATime' /\ Agreement'
    BY <2>1 DEF OneAtATime, Agreement
  <2>3. CASE mRecvTransport = "null"
    <3>1. UNCHANGED <<mRecvTransport, native, held, raced>>
      BY <1>3, <2>3 DEF CloseRecvTransport
    <3>2. TypeOK'
      BY <2>1, <3>1 DEF TypeOK
    <3>3. Early' /\ AfterClose'
      BY <2>1, <2>3, <3>1 DEF Early, AfterClose
    <3> QED BY <2>2, <3>2, <3>3
  <2>4. CASE mRecvTransport # "null"
    <3>1. /\ mRecvTransport' = "closed" /\ raced' = (npc # "idle")
          /\ native' = [c \in Consumers |-> IF c \in ClosedByTransport THEN "closed" ELSE native[c]]
          /\ held' = held \ (ClosedByTransport \cap Media)
      BY <1>3, <2>4 DEF CloseRecvTransport
    <3>2. native' \in [Consumers -> {"none", "live", "closed", "ended"}]
      BY <3>1 DEF TypeOK
    <3>3. held' \subseteq Consumers /\ raced' \in BOOLEAN
      BY <3>1 DEF TypeOK
    <3>4. TypeOK' /\ Early'
      BY <2>1, <3>1, <3>2, <3>3 DEF TypeOK, Early
    <3>5. ASSUME ~raced', NEW c \in Media PROVE npc' = "idle" /\ native'[c] # "live" /\ c \notin held'
      <4>1. npc = "idle" /\ npc' = "idle"
        BY <2>1, <3>1, <3>5
      <4>2. Agree(c)
        BY <2>1, <4>1 DEF Agreement
      <4>3. c \in Consumers /\ (c \in ClosedByTransport <=> native[c] = "live")
        BY <4>2 DEF Agree, ClosedByTransport, Consumers
      <4> QED BY <3>1, <4>1, <4>2, <4>3 DEF Agree
    <3>6. AfterClose'
      <4>1. ~raced' => npc' = "idle"
        BY <2>1, <3>1
      <4> QED BY <3>5, <4>1 DEF AfterClose
    <3> QED BY <2>2, <3>4, <3>6
  <2> QED BY <2>3, <2>4
<1>4. CASE FreeRecvTransport
  <2> USE <1>4 DEF FreeRecvTransport
  <2>1. TypeOK' /\ OneAtATime'
    BY DEF TypeOK, OneAtATime
  <2>2. Early' /\ AfterClose' /\ Agreement'
    BY DEF Early, AfterClose, Agreement
  <2> QED BY <2>1, <2>2
<1>5. CASE ClearConsumers
  <2> USE <1>5 DEF ClearConsumers
  <2>1. TypeOK' /\ OneAtATime'
    BY DEF TypeOK, OneAtATime
  <2>2. Early' /\ AfterClose' /\ Agreement'
    BY DEF Early, AfterClose, Agreement
  <2> QED BY <2>1, <2>2
<1> QED BY <1>1, <1>2, <1>3, <1>4, <1>5 DEF Worker

LEMMA NextKeeps == IInv /\ [Next]_vars => IInv'
<1> SUFFICES ASSUME IInv, [Next]_vars PROVE IInv'
  OBVIOUS
<1>1. CASE Server
  BY <1>1, ServerKeeps
<1>2. CASE EventLoop
  BY <1>2, PeersKeep, NewConsumerKeeps, ConsumerClosedKeeps, ConsumeEndsKeep, ConsumeDoneKeeps,
     StoreConsumerKeeps, StopKeeps DEF EventLoop
<1>3. CASE Worker
  BY <1>3, WorkerKeeps
<1>4. CASE \E d \in Data : DataChannelClosed(d)
  BY <1>4, DataChannelClosedKeeps
<1>5. CASE UNCHANGED vars
  <2> USE <1>5 DEF IInv, vars, serverVars, storeVars, nettyVars
  <2>1. TypeOK' /\ OneAtATime'
    BY DEF TypeOK, OneAtATime
  <2>2. Early' /\ AfterClose' /\ Agreement'
    BY DEF Early, AfterClose, Agreement, Agree
  <2> QED BY <2>1, <2>2
<1> QED BY <1>1, <1>2, <1>3, <1>4, <1>5 DEF Next

-----------------------------------------------------------------------------
\* The inductive invariant of the event loop and the worker: it holds initially
\* and every step of RemoteMedia keeps it.
THEOREM Inductive == Spec => []IInv
<1>1. Init => IInv
  BY InitEstablishes
<1>2. IInv /\ [Next]_vars => IInv'
  BY NextKeeps
<1> QED BY <1>1, <1>2, PTL DEF Spec

\* The state of RemoteMedia keeps its types; the event loop works on a consumer
\* exactly while it is inside a notification (handleNotification).
THEOREM Types == Spec => []TypeOK
<1>1. IInv => TypeOK
  BY DEF IInv
<1> QED BY <1>1, Inductive, PTL

\* mConsumers, the native consumers, the transport's map and the store agree
\* between notifications (onNewConsumer, USER_CONSUMER_CLOSED).
THEOREM ConsumersStayInAgreement == Spec => []ConsumersAgree
<1>1. IInv => ConsumersAgree
  <2> SUFFICES ASSUME IInv, life = "session", npc = "idle", NEW c \in Media PROVE Agree(c)
    BY DEF ConsumersAgree, Agree
  <2> QED BY DEF IInv, Agreement
<1> QED BY <1>1, Inductive, PTL

\* The destroy task leaves no media consumer held or alive, unless it closed the
\* transport under a running notification (disposeTransportDevice).
THEOREM DestroyReleasesConsumers == Spec => []DestroyLeavesNothing
<1>1. IInv => DestroyLeavesNothing
  BY DEF IInv, AfterClose, DestroyLeavesNothing
<1> QED BY <1>1, Inductive, PTL

-----------------------------------------------------------------------------
(***************************************************************************)
(* What a peer lists. A message that makes a new Peer must not meet a       *)
(* consumer of that peer: by then the messages before it have taken the     *)
(* consumer away. Only consumers created before the join was answered are   *)
(* exempt.                                                                  *)
(***************************************************************************)
\* The consumer that a notification is about to put into mConsumers, or has taken out of it.
Coming  == IF npc \in {"entered", "receiving", "created"} THEN handling ELSE {}
Leaving == IF npc = "stopping" THEN handling ELSE {}
Here    == held \cup Coming

\* Once the first n messages of q are handled, c is not held: it is neither here nor created by
\* them, or they close it and do not create it after that.
Gone(c, q, here, n) ==
  \/ c \notin here /\ \A j \in 1..n : q[j] # CreateMsg(c)
  \/ \E k \in 1..n : q[k] = ClosedMsg(c) /\ \A j \in k..n : q[j] # CreateMsg(c)

AddsPeer(m, u) == m.type \in {"users", "USER_JOINED"} /\ u \in m.users

ClosedGoAway   == \A c \in Media \ open : Gone(c, inbox, Here, Len(inbox))
AddedWithout   ==
  \A c \in Media \ early : \A i \in 1..Len(inbox) :
    AddsPeer(inbox[i], Owner[c]) => Gone(c, inbox, Here, i)
EarlyOnes      == early \subseteq made /\ (~replied => made \cap Media \subseteq early)
OpenArePresent == \A c \in open : Owner[c] \in present
ListedAreHeld  == listed \cap Media \subseteq held \cup Leaving
HeldAreListed  == \A c \in (held \cap Media) \ early : Owner[c] \in known => c \in listed

PeersInv ==
  life \in {"new", "session"} =>
    /\ ClosedGoAway /\ AddedWithout /\ EarlyOnes /\ OpenArePresent
    /\ ListedAreHeld /\ HeldAreListed

LEMMA MessagesDiffer ==
  /\ \A c, d \in Consumers : /\ CreateMsg(c) # ClosedMsg(d)
                             /\ CreateMsg(c) = CreateMsg(d) => c = d
                             /\ ClosedMsg(c) = ClosedMsg(d) => c = d
  /\ \A m : m.type \in UserMessages =>
       \A c \in Consumers : m # CreateMsg(c) /\ m # ClosedMsg(c)
  /\ \A c \in Consumers : \A u : ~AddsPeer(CreateMsg(c), u) /\ ~AddsPeer(ClosedMsg(c), u)
<1>1. \A c \in Consumers : /\ CreateMsg(c).type = "CREATE_USER_CONSUMER" /\ CreateMsg(c).consumer = c
                           /\ ClosedMsg(c).type = "USER_CONSUMER_CLOSED" /\ ClosedMsg(c).consumer = c
  BY DEF CreateMsg, ClosedMsg
<1> QED BY <1>1 DEF UserMessages, AddsPeer

LEMMA GonePrefix ==
  ASSUME NEW q \in Seq(Messages), NEW msgs \in Seq(Messages), NEW c, NEW here,
         NEW i \in 1..Len(q), Gone(c, q, here, i)
  PROVE  Gone(c, q \o msgs, here, i)
<1>1. \A j \in 1..Len(q) : (q \o msgs)[j] = q[j]
  OBVIOUS
<1> QED BY <1>1 DEF Gone

LEMMA GoneAppended ==
  ASSUME NEW q \in Seq(Messages), NEW msgs \in Seq(Messages), NEW c, NEW here,
         Gone(c, q, here, Len(q)), NEW n \in 0..Len(msgs),
         \A j \in 1..n : msgs[j] # CreateMsg(c)
  PROVE  Gone(c, q \o msgs, here, Len(q) + n)
<1>1. /\ \A j \in 1..Len(q) : (q \o msgs)[j] = q[j]
      /\ \A j \in (Len(q) + 1)..(Len(q) + n) :
           (q \o msgs)[j] = msgs[j - Len(q)] /\ j - Len(q) \in 1..n
  OBVIOUS
<1>2. \A j \in (Len(q) + 1)..(Len(q) + n) : (q \o msgs)[j] # CreateMsg(c)
  BY <1>1
<1>3. \A j \in 1..(Len(q) + n) : j \in 1..Len(q) \/ j \in (Len(q) + 1)..(Len(q) + n)
  OBVIOUS
<1>4. CASE c \notin here /\ \A j \in 1..Len(q) : q[j] # CreateMsg(c)
  BY <1>1, <1>2, <1>3, <1>4 DEF Gone
<1>5. CASE \E k \in 1..Len(q) : q[k] = ClosedMsg(c) /\ \A j \in k..Len(q) : q[j] # CreateMsg(c)
  <2>1. PICK k \in 1..Len(q) : q[k] = ClosedMsg(c) /\ \A j \in k..Len(q) : q[j] # CreateMsg(c)
    BY <1>5
  <2>2. k \in 1..(Len(q) + n) /\ (q \o msgs)[k] = ClosedMsg(c)
    BY <1>1, <2>1
  <2>3. ASSUME NEW j \in k..(Len(q) + n) PROVE (q \o msgs)[j] # CreateMsg(c)
    <3>1. CASE j \in 1..Len(q)
      BY <1>1, <2>1, <3>1
    <3>2. CASE j \in (Len(q) + 1)..(Len(q) + n)
      BY <1>2, <3>2
    <3> QED BY <1>3, <3>1, <3>2
  <2> QED BY <2>2, <2>3 DEF Gone
<1> QED BY <1>4, <1>5 DEF Gone

LEMMA GoneClosed ==
  ASSUME NEW q \in Seq(Messages), NEW msgs \in Seq(Messages), NEW c, NEW here,
         \E k \in 1..Len(msgs) : msgs[k] = ClosedMsg(c),
         \A j \in 1..Len(msgs) : msgs[j] # CreateMsg(c)
  PROVE  Gone(c, q \o msgs, here, Len(q \o msgs))
<1>1. PICK k \in 1..Len(msgs) : msgs[k] = ClosedMsg(c)
  OBVIOUS
<1>2. Len(q) + k \in 1..Len(q \o msgs) /\ (q \o msgs)[Len(q) + k] = ClosedMsg(c)
  BY <1>1
<1>3. ASSUME NEW j \in (Len(q) + k)..Len(q \o msgs)
      PROVE  (q \o msgs)[j] # CreateMsg(c)
  <2>1. j - Len(q) \in 1..Len(msgs) /\ (q \o msgs)[j] = msgs[j - Len(q)]
    OBVIOUS
  <2> QED BY <2>1
<1> QED BY <1>2, <1>3 DEF Gone

\* The first message is handled: nothing comes that it does not create, and what it closes goes.
LEMMA GoneTail ==
  ASSUME NEW q \in Seq(Messages), q # <<>>, NEW c, NEW here, NEW n \in 1..Len(q),
         Gone(c, q, here, n), NEW after,
         Head(q) = ClosedMsg(c) => c \notin after,
         c \in after => c \in here \/ Head(q) = CreateMsg(c)
  PROVE  Gone(c, Tail(q), after, n - 1)
<1>1. /\ Head(q) = q[1] /\ \A j \in 1..(n - 1) : Tail(q)[j] = q[j + 1] /\ j + 1 \in 1..n
      /\ n - 1 \in Nat /\ 1 \in 1..n
  OBVIOUS
<1>2. CASE c \notin here /\ \A j \in 1..n : q[j] # CreateMsg(c)
  BY <1>1, <1>2 DEF Gone
<1>3. ASSUME NEW k \in 1..n, q[k] = ClosedMsg(c), \A j \in k..n : q[j] # CreateMsg(c)
      PROVE  Gone(c, Tail(q), after, n - 1)
  <2>1. CASE k = 1
    <3>1. c \notin after
      BY <1>1, <1>3, <2>1
    <3> QED BY <1>1, <1>3, <2>1, <3>1 DEF Gone
  <2>2. CASE k # 1
    <3>1. k - 1 \in 1..(n - 1) /\ Tail(q)[k - 1] = ClosedMsg(c)
      <4>1. k - 1 \in 1..(n - 1)
        BY <2>2
      <4>2. Tail(q)[k - 1] = q[(k - 1) + 1] /\ (k - 1) + 1 = k
        BY <1>1, <4>1
      <4> QED BY <1>3, <4>1, <4>2
    <3>2. ASSUME NEW j \in (k - 1)..(n - 1) PROVE Tail(q)[j] # CreateMsg(c)
      <4>1. j \in 1..(n - 1) /\ j + 1 \in k..n
        BY <2>2
      <4> QED BY <1>1, <1>3, <4>1
    <3> QED BY <3>1, <3>2 DEF Gone
  <2> QED BY <2>1, <2>2
<1> QED BY <1>2, <1>3 DEF Gone

LEMMA GoneStays ==
  ASSUME NEW c, NEW q, NEW here, NEW n, Gone(c, q, here, n), NEW after, c \in after => c \in here
  PROVE  Gone(c, q, after, n)
BY DEF Gone

-----------------------------------------------------------------------------
\* The server sends msgs: they create nothing that is not open then, they close what is not open
\* any more, and whoever they add as a peer has no consumer left by then.
LEMMA ServerSends ==
  ASSUME IInv, PeersInv, ServerVarsOnly, NEW msgs \in Seq(Messages), Send(msgs),
         early \subseteq early', EarlyOnes', OpenArePresent',
         \A c \in Media \ open' : \A j \in 1..Len(msgs) : msgs[j] # CreateMsg(c),
         \A c \in (Media \cap open) \ open' : \E k \in 1..Len(msgs) : msgs[k] = ClosedMsg(c),
         \A c \in Media \ early' : \A i \in 1..Len(msgs) :
           AddsPeer(msgs[i], Owner[c]) =>
             c \notin open /\ \A j \in 1..i : msgs[j] # CreateMsg(c)
  PROVE  PeersInv'
<1>1. /\ life \in {"new", "session"} /\ inbox' = inbox \o msgs /\ inbox \in Seq(Messages)
      /\ ClosedGoAway /\ AddedWithout /\ ListedAreHeld /\ HeldAreListed
  BY DEF Send, IInv, TypeOK, PeersInv
<1>2. Here' = Here /\ Leaving' = Leaving /\ UNCHANGED <<held, known, listed>>
  BY DEF ServerVarsOnly, storeVars, nettyVars, Here, Coming, Leaving
<1>3. ClosedGoAway'
  <2> SUFFICES ASSUME NEW c \in Media, c \notin open'
               PROVE  Gone(c, inbox \o msgs, Here, Len(inbox \o msgs))
    BY <1>1, <1>2 DEF ClosedGoAway
  <2>1. CASE c \in open
    BY <1>1, <2>1, GoneClosed
  <2>2. CASE c \notin open
    <3>1. Gone(c, inbox, Here, Len(inbox))
      BY <1>1, <2>2 DEF ClosedGoAway
    <3>2. Len(inbox \o msgs) = Len(inbox) + Len(msgs) /\ Len(msgs) \in 0..Len(msgs)
      BY <1>1
    <3> QED BY <1>1, <3>1, <3>2, GoneAppended
  <2> QED BY <2>1, <2>2
<1>4. AddedWithout'
  <2> SUFFICES ASSUME NEW c \in Media, c \notin early', NEW i \in 1..Len(inbox \o msgs),
                      AddsPeer((inbox \o msgs)[i], Owner[c])
               PROVE  Gone(c, inbox \o msgs, Here, i)
    BY <1>1, <1>2 DEF AddedWithout
  <2>1. CASE i \in 1..Len(inbox)
    <3>1. (inbox \o msgs)[i] = inbox[i]
      BY <1>1, <2>1
    <3>2. Gone(c, inbox, Here, i)
      BY <1>1, <2>1, <3>1 DEF AddedWithout
    <3> QED BY <1>1, <2>1, <3>2, GonePrefix
  <2>2. CASE i \notin 1..Len(inbox)
    <3> DEFINE n == i - Len(inbox)
    <3>1. n \in 1..Len(msgs) /\ n \in 0..Len(msgs) /\ (inbox \o msgs)[i] = msgs[n] /\ i = Len(inbox) + n
      BY <1>1, <2>2
    <3> HIDE DEF n
    <3>2. c \notin open /\ \A j \in 1..n : msgs[j] # CreateMsg(c)
      BY <3>1
    <3>3. Gone(c, inbox, Here, Len(inbox))
      BY <1>1, <3>2 DEF ClosedGoAway
    <3> QED BY <1>1, <3>1, <3>2, <3>3, GoneAppended
  <2> QED BY <2>1, <2>2
<1>5. ListedAreHeld' /\ HeldAreListed'
  BY <1>1, <1>2 DEF ListedAreHeld, HeldAreListed
<1> QED BY <1>3, <1>4, <1>5 DEF PeersInv

LEMMA ServerSendsOne ==
  ASSUME IInv, PeersInv, ServerVarsOnly, NEW m \in Messages, Send(<<m>>),
         early \subseteq early', EarlyOnes', OpenArePresent',
         \A c \in Media \ open' : m # CreateMsg(c),
         \A c \in (Media \cap open) \ open' : m = ClosedMsg(c),
         \A c \in Media \ early' : AddsPeer(m, Owner[c]) => c \notin open /\ m # CreateMsg(c)
  PROVE  PeersInv'
<1> DEFINE msgs == <<m>>
<1>1. msgs \in Seq(Messages) /\ Len(msgs) = 1 /\ msgs[1] = m /\ Send(msgs)
  OBVIOUS
<1> HIDE DEF msgs
<1>2. \A j \in 1..Len(msgs) : j = 1
  BY <1>1
<1>3. 1 \in 1..Len(msgs)
  BY <1>1
<1> QED BY <1>1, <1>2, <1>3, ServerSends

\* The close messages of all consumers of S, and only theirs.
LEMMA ClosesAll ==
  ASSUME NEW S \in SUBSET Media, NEW q \in Orders(S)
  PROVE  LET closes == [i \in DOMAIN q |-> ClosedMsg(q[i])]
         IN  /\ closes \in Seq(Messages)
             /\ \A i \in 1..Len(closes) : \E c \in Media : closes[i] = ClosedMsg(c)
             /\ \A c \in S : \E i \in 1..Len(closes) : closes[i] = ClosedMsg(c)
<1> DEFINE n == Cardinality(S)
           closes == [i \in DOMAIN q |-> ClosedMsg(q[i])]
<1>1. IsFiniteSet(S) /\ n \in Nat
  BY ConsumersAssumption, FS_Subset, FS_CardinalityType
<1>2. q \in [1..n -> S] /\ \A i, j \in 1..n : q[i] = q[j] => i = j
  BY DEF Orders
<1>3. q \in Injection(1..n, S)
  BY <1>2 DEF Injection, IsInjective
<1>4. Cardinality(1..n) = n
  BY <1>1, FS_Interval
<1>5. q \in Surjection(1..n, S)
  BY <1>1, <1>3, <1>4, FS_Injection
<1>6. \A c \in S : \E i \in 1..n : q[i] = c
  BY <1>5 DEF Surjection
<1>7. closes \in Seq(Messages) /\ DOMAIN closes = 1..n
  BY <1>2, ClosesType
<1>8. Len(closes) = n
  BY <1>1, <1>7
<1>9. \A i \in 1..n : closes[i] = ClosedMsg(q[i]) /\ q[i] \in Media
  BY <1>2
<1> HIDE DEF closes, n
<1>10. \A c \in S : \E i \in 1..Len(closes) : closes[i] = ClosedMsg(c)
  BY <1>6, <1>8, <1>9
<1>11. \A i \in 1..Len(closes) : \E c \in Media : closes[i] = ClosedMsg(c)
  BY <1>8, <1>9
<1> QED BY <1>7, <1>10, <1>11 DEF closes

\* They are sent with USER_LEFT, before or after it.
LEMMA LeavesWith ==
  ASSUME NEW p \in Users, NEW cl \in Seq(Messages),
         \A i \in 1..Len(cl) : \E c \in Media : cl[i] = ClosedMsg(c),
         NEW msgs, msgs = cl \o <<Left(p)>> \/ msgs = <<Left(p)>> \o cl
  PROVE  /\ msgs \in Seq(Messages)
         /\ \A i \in 1..Len(msgs) : msgs[i] = Left(p) \/ \E c \in Media : msgs[i] = ClosedMsg(c)
         /\ \A i \in 1..Len(cl) : \E j \in 1..Len(msgs) : msgs[j] = cl[i]
<1> DEFINE l == Left(p)
<1>1. l \in Messages
  BY MessageTypes
<1> HIDE DEF l
<1>2. CASE msgs = cl \o <<l>>
  <2>1. /\ msgs \in Seq(Messages) /\ Len(msgs) = Len(cl) + 1 /\ msgs[Len(cl) + 1] = l
        /\ \A i \in 1..Len(cl) : msgs[i] = cl[i] /\ i \in 1..Len(msgs)
    BY <1>1, <1>2
  <2>2. \A i \in 1..Len(msgs) : i \in 1..Len(cl) \/ i = Len(cl) + 1
    BY <2>1
  <2> QED BY <2>1, <2>2 DEF l
<1>3. CASE msgs = <<l>> \o cl
  <2>1. /\ msgs \in Seq(Messages) /\ Len(msgs) = Len(cl) + 1 /\ msgs[1] = l
        /\ \A i \in 2..(Len(cl) + 1) : msgs[i] = cl[i - 1] /\ i - 1 \in 1..Len(cl)
        /\ \A i \in 1..Len(cl) : msgs[i + 1] = cl[i] /\ i + 1 \in 1..Len(msgs)
    BY <1>1, <1>3
  <2>2. \A i \in 1..Len(msgs) : i = 1 \/ i \in 2..(Len(cl) + 1)
    BY <2>1
  <2>3. ASSUME NEW i \in 1..Len(msgs) PROVE msgs[i] = l \/ \E c \in Media : msgs[i] = ClosedMsg(c)
    <3>1. CASE i = 1
      BY <2>1, <3>1
    <3>2. CASE i \in 2..(Len(cl) + 1)
      <4>1. msgs[i] = cl[i - 1] /\ i - 1 \in 1..Len(cl)
        BY <2>1, <3>2
      <4> QED BY <4>1
    <3> QED BY <2>2, <3>1, <3>2
  <2>4. ASSUME NEW i \in 1..Len(cl) PROVE \E j \in 1..Len(msgs) : msgs[j] = cl[i]
    <3>1. i + 1 \in 1..Len(msgs) /\ msgs[i + 1] = cl[i]
      BY <2>1
    <3> QED BY <3>1
  <2> QED BY <2>1, <2>3, <2>4 DEF l
<1> QED BY <1>2, <1>3 DEF l

LEMMA ServerKeepsPeers == IInv /\ PeersInv /\ Server => PeersInv'
<1> SUFFICES ASSUME IInv, PeersInv, Server PROVE PeersInv'
  OBVIOUS
<1>0. /\ present \subseteq Users /\ made \subseteq Consumers /\ open \subseteq made
      /\ Media \subseteq Consumers
  BY DEF IInv, TypeOK, Consumers
<1>1. CASE ServerJoins
  BY <1>1 DEF ServerJoins, ServerVarsOnly, storeVars, nettyVars, PeersInv, ClosedGoAway, AddedWithout,
              EarlyOnes, OpenArePresent, ListedAreHeld, HeldAreListed, Here, Coming, Leaving
<1>2. CASE ServerReplies
  <2> DEFINE m == UsersReply(present)
  <2>1. /\ Send(<<m>>) /\ ServerVarsOnly /\ UNCHANGED <<present, made, open, early>> /\ ~replied
        /\ EarlyOnes /\ OpenArePresent
    BY <1>2 DEF ServerReplies, PeersInv, Send
  <2>2. m \in Messages /\ m.type \in UserMessages
    BY <1>0, MessageTypes DEF UserMessages
  <2>3. \A c \in Consumers : m # CreateMsg(c)
    BY <2>2, MessagesDiffer
  <2> HIDE DEF m
  <2>5. \A c \in Media \ early : c \notin open
    BY <1>0, <2>1 DEF EarlyOnes
  <2>6. EarlyOnes' /\ OpenArePresent'
    BY <1>2, <2>1 DEF ServerReplies, EarlyOnes, OpenArePresent
  <2> QED BY <1>0, <2>1, <2>2, <2>3, <2>5, <2>6, ServerSendsOne
<1>3. ASSUME NEW p \in Users, ServerUserEnters(p) PROVE PeersInv'
  <2> DEFINE m == Joined(p)
  <2>1. /\ Send(<<m>>) /\ ServerVarsOnly /\ UNCHANGED <<made, open, early, replied>>
        /\ present' = present \cup {p} /\ p \notin present /\ EarlyOnes /\ OpenArePresent
    BY <1>3 DEF ServerUserEnters, PeersInv, Send
  <2>2. m \in Messages /\ m.type \in UserMessages /\ m.users = {p}
    BY MessageTypes DEF UserMessages, Joined
  <2>3. \A c \in Consumers : m # CreateMsg(c)
    BY <2>2, MessagesDiffer
  <2> HIDE DEF m
  <2>5. \A c \in Media : AddsPeer(m, Owner[c]) => c \notin open
    BY <2>1, <2>2 DEF OpenArePresent, AddsPeer
  <2>6. EarlyOnes' /\ OpenArePresent'
    BY <2>1 DEF EarlyOnes, OpenArePresent
  <2> QED BY <1>0, <2>1, <2>2, <2>3, <2>5, <2>6, ServerSendsOne
<1>4. ASSUME NEW p \in Users, ServerUserLeaves(p) PROVE PeersInv'
  <2> DEFINE ended == open \cap OwnedBy({p})
             S == ended \cap Media
             closes(q) == [i \in DOMAIN q |-> ClosedMsg(q[i])]
  <2>1. PICK q \in Orders(S) : Send(closes(q) \o <<Left(p)>>) \/ Send(<<Left(p)>> \o closes(q))
    BY <1>4 DEF ServerUserLeaves
  <2>2. /\ ServerVarsOnly /\ UNCHANGED <<made, early, replied>>
        /\ present' = present \ {p} /\ open' = open \ ended
    BY <1>4 DEF ServerUserLeaves
  <2>3. EarlyOnes /\ OpenArePresent
    BY <2>1 DEF PeersInv, Send
  <2>4. PICK cl \in Seq(Messages) :
          /\ Send(cl \o <<Left(p)>>) \/ Send(<<Left(p)>> \o cl)
          /\ \A i \in 1..Len(cl) : \E c \in Media : cl[i] = ClosedMsg(c)
          /\ \A c \in S : \E i \in 1..Len(cl) : cl[i] = ClosedMsg(c)
    <3> DEFINE sent == closes(q)
    <3>1. S \in SUBSET Media
      OBVIOUS
    <3> HIDE DEF S
    <3>2. /\ sent \in Seq(Messages)
          /\ \A i \in 1..Len(sent) : \E c \in Media : sent[i] = ClosedMsg(c)
          /\ \A c \in S : \E i \in 1..Len(sent) : sent[i] = ClosedMsg(c)
      BY <3>1, ClosesAll
    <3>3. Send(sent \o <<Left(p)>>) \/ Send(<<Left(p)>> \o sent)
      BY <2>1
    <3> HIDE DEF sent
    <3> QED BY <3>2, <3>3
  <2>5. PICK msgs : (msgs = cl \o <<Left(p)>> \/ msgs = <<Left(p)>> \o cl) /\ Send(msgs)
    BY <2>4
  <2>6. /\ msgs \in Seq(Messages)
        /\ \A i \in 1..Len(msgs) : msgs[i] = Left(p) \/ \E c \in Media : msgs[i] = ClosedMsg(c)
        /\ \A c \in S : \E i \in 1..Len(msgs) : msgs[i] = ClosedMsg(c)
    <3> HIDE DEF S
    <3>1. /\ msgs \in Seq(Messages)
          /\ \A i \in 1..Len(msgs) : msgs[i] = Left(p) \/ \E c \in Media : msgs[i] = ClosedMsg(c)
          /\ \A i \in 1..Len(cl) : \E j \in 1..Len(msgs) : msgs[j] = cl[i]
      <4>1. cl \in Seq(Messages) /\ \A i \in 1..Len(cl) : \E c \in Media : cl[i] = ClosedMsg(c)
        BY <2>4
      <4>2. msgs = cl \o <<Left(p)>> \/ msgs = <<Left(p)>> \o cl
        BY <2>5
      <4> QED BY ONLY <4>1, <4>2, p \in Users, LeavesWith
    <3>2. ASSUME NEW c \in S PROVE \E i \in 1..Len(msgs) : msgs[i] = ClosedMsg(c)
      <4>1. PICK i \in 1..Len(cl) : cl[i] = ClosedMsg(c)
        BY <2>4
      <4> QED BY <3>1, <4>1
    <3> QED BY <3>1, <3>2
  <2>7. /\ \A c \in Consumers : Left(p) # CreateMsg(c)
        /\ \A u : ~AddsPeer(Left(p), u)
    <3>1. Left(p).type = "USER_LEFT"
      BY DEF Left
    <3> QED BY <3>1, MessagesDiffer DEF UserMessages, AddsPeer
  <2>8. \A i \in 1..Len(msgs) : /\ \A c \in Media : msgs[i] # CreateMsg(c)
                                /\ \A u : ~AddsPeer(msgs[i], u)
    BY <1>0, <2>6, <2>7, MessagesDiffer
  <2>9. EarlyOnes' /\ OpenArePresent'
    BY <1>0, <2>2, <2>3 DEF EarlyOnes, OpenArePresent, OwnedBy
  <2>10. (Media \cap open) \ open' \subseteq S
    BY <2>2
  <2> HIDE DEF S, ended
  <2> QED BY <2>2, <2>5, <2>6, <2>8, <2>9, <2>10, ServerSends
<1>5. ASSUME NEW c \in Consumers, ServerCreates(c) PROVE PeersInv'
  <2> DEFINE m == CreateMsg(c)
  <2>1. /\ Send(<<m>>) /\ ServerVarsOnly /\ UNCHANGED <<present, replied>>
        /\ made' = made \cup {c} /\ open' = open \cup {c} /\ Owner[c] \in present
        /\ early' = IF replied THEN early ELSE early \cup ({c} \cap Media)
        /\ EarlyOnes /\ OpenArePresent
    BY <1>5 DEF ServerCreates, PeersInv, Send
  <2>2. m \in Messages /\ (\A u : ~AddsPeer(m, u)) /\ \A d \in Consumers : m = CreateMsg(d) => d = c
    BY MessageTypes, MessagesDiffer
  <2> HIDE DEF m
  <2>4. EarlyOnes' /\ OpenArePresent' /\ early \subseteq early'
    BY <2>1 DEF EarlyOnes, OpenArePresent
  <2> QED BY <1>0, <2>1, <2>2, <2>4, ServerSendsOne
<1>6. ASSUME NEW c \in Consumers, ServerCloses(c) PROVE PeersInv'
  <2> DEFINE m == ClosedMsg(c)
  <2>1. /\ Send(<<m>>) /\ ServerVarsOnly /\ UNCHANGED <<present, replied, made, early>>
        /\ open' = open \ {c} /\ EarlyOnes /\ OpenArePresent
    BY <1>6 DEF ServerCloses, PeersInv, Send
  <2>2. m \in Messages /\ (\A u : ~AddsPeer(m, u)) /\ \A d \in Consumers : m # CreateMsg(d)
    BY MessageTypes, MessagesDiffer
  <2>4. EarlyOnes' /\ OpenArePresent'
    BY <2>1 DEF EarlyOnes, OpenArePresent
  <2>5. \A d \in (Media \cap open) \ open' : d = c
    BY <2>1
  <2> QED BY <1>0, <2>1, <2>2, <2>4, <2>5, ServerSendsOne
<1> QED BY <1>1, <1>2, <1>3, <1>4, <1>5, <1>6 DEF Server

-----------------------------------------------------------------------------
\* Taking a message off the inbox.
LEMMA ReceiveShifts ==
  ASSUME IInv, PeersInv, NEW type, Receive(type), UNCHANGED serverVars,
         \A c \in Media : /\ Head(inbox) = ClosedMsg(c) => c \notin Here'
                          /\ c \in Here' => c \in Here \/ Head(inbox) = CreateMsg(c)
  PROVE  ClosedGoAway' /\ AddedWithout' /\ EarlyOnes' /\ OpenArePresent'
<1>1. /\ inbox \in Seq(Messages) /\ inbox # <<>> /\ inbox' = Tail(inbox)
      /\ ClosedGoAway /\ AddedWithout /\ EarlyOnes /\ OpenArePresent
  BY DEF Receive, IInv, TypeOK, PeersInv
<1>2. /\ Len(inbox) \in 1..Len(inbox) /\ Len(Tail(inbox)) = Len(inbox) - 1
      /\ \A i \in 1..Len(Tail(inbox)) :
           i + 1 \in 1..Len(inbox) /\ Tail(inbox)[i] = inbox[i + 1] /\ (i + 1) - 1 = i
  BY <1>1
<1>3. ClosedGoAway'
  <2> SUFFICES ASSUME NEW c \in Media \ open
               PROVE  Gone(c, Tail(inbox), Here', Len(inbox) - 1)
    BY <1>1, <1>2 DEF ClosedGoAway, serverVars
  <2> QED BY <1>1, <1>2, GoneTail DEF ClosedGoAway
<1>4. AddedWithout'
  <2> SUFFICES ASSUME NEW c \in Media \ early, NEW i \in 1..Len(Tail(inbox)),
                      AddsPeer(Tail(inbox)[i], Owner[c])
               PROVE  Gone(c, Tail(inbox), Here', i)
    BY <1>1 DEF AddedWithout, serverVars
  <2>1. Gone(c, inbox, Here, i + 1)
    BY <1>1, <1>2 DEF AddedWithout
  <2>2. Gone(c, Tail(inbox), Here', (i + 1) - 1)
    BY <1>1, <1>2, <2>1, GoneTail
  <2> QED BY <1>2, <2>2
<1> QED BY <1>1, <1>3, <1>4 DEF EarlyOnes, OpenArePresent, serverVars

\* A peer that is added has no consumer but early ones.
LEMMA AddedHasNone ==
  ASSUME IInv, PeersInv, AddPeers, NEW c \in Media \ early, Owner[c] \in Head(inbox).users
  PROVE  c \notin held
<1>1. /\ inbox \in Seq(Messages) /\ inbox # <<>> /\ Head(inbox).type \in {"users", "USER_JOINED"}
      /\ AddedWithout
  BY DEF AddPeers, Receive, IInv, TypeOK, PeersInv
<1>2. 1 \in 1..Len(inbox) /\ Head(inbox) = inbox[1]
  BY <1>1
<1>3. Gone(c, inbox, Here, 1)
  BY <1>1, <1>2 DEF AddedWithout, AddsPeer
<1>4. inbox[1] # ClosedMsg(c)
  BY <1>1, <1>2, MessagesDiffer DEF UserMessages, Consumers
<1>5. \A k \in 1..1 : k = 1
  OBVIOUS
<1> QED BY <1>3, <1>4, <1>5 DEF Gone, Here

LEMMA PeersMessagesKeepPeers ==
  ASSUME IInv, PeersInv, AddPeers \/ UserLeft
  PROVE  PeersInv'
<1> DEFINE us == Head(inbox).users
<1>1. PICK type \in UserMessages : Receive(type)
  BY DEF AddPeers, UserLeft, UserMessages
<1>2. UNCHANGED <<serverVars, life, held, nettyVars>>
  BY DEF AddPeers, UserLeft, EngineVars
<1>3. Here' = Here /\ Leaving' = Leaving
  BY <1>2 DEF Here, Coming, Leaving, nettyVars
<1>4. /\ npc = "idle" /\ Head(inbox).type \in UserMessages
      /\ ListedAreHeld /\ HeldAreListed
  BY <1>1 DEF Receive, PeersInv
<1>5. \A c \in Media : Head(inbox) # ClosedMsg(c)
  BY <1>4, MessagesDiffer DEF Consumers
<1>6. ClosedGoAway' /\ AddedWithout' /\ EarlyOnes' /\ OpenArePresent'
  BY <1>1, <1>2, <1>3, <1>5, ReceiveShifts
<1>7. listed' = listed \ OwnedBy(us) /\ (UserLeft => known' = known \ us) /\ (AddPeers => known' = known \cup us)
  BY DEF AddPeers, UserLeft, addPeers
<1>8. ListedAreHeld'
  BY <1>2, <1>3, <1>4, <1>7 DEF ListedAreHeld
<1>9. HeldAreListed'
  <2> SUFFICES ASSUME NEW c \in (held \cap Media) \ early, Owner[c] \in known'
               PROVE  c \in listed'
    BY <1>2 DEF HeldAreListed, serverVars
  <2>1. Owner[c] \notin us
    BY <1>7, AddedHasNone
  <2>2. Owner[c] \in known
    BY <1>7, <2>1
  <2> QED BY <1>4, <1>7, <2>1, <2>2 DEF HeldAreListed, OwnedBy
<1> QED BY <1>6, <1>8, <1>9 DEF PeersInv

LEMMA NewConsumerKeepsPeers ==
  ASSUME IInv, PeersInv, NewConsumer
  PROVE  PeersInv'
<1> DEFINE d == Head(inbox).consumer
<1>1. /\ Receive("CREATE_USER_CONSUMER") /\ npc' = "entered" /\ handling' = {d}
      /\ UNCHANGED <<serverVars, life, held, known, listed>>
  BY DEF NewConsumer, EngineVars, storeVars
<1>2. npc = "idle" /\ ListedAreHeld /\ HeldAreListed /\ inbox # <<>> /\ Head(inbox) \in Messages
  BY <1>1 DEF Receive, PeersInv, IInv, TypeOK
<1>3. Head(inbox) = CreateMsg(d)
  BY <1>1, <1>2 DEF Receive, Messages, CreateMsg
<1>4. d \in Consumers
  BY <1>1, Received
<1> HIDE DEF d
<1>5. Here' = held \cup {d} /\ Here = held /\ Leaving' = {} /\ Leaving = {}
  BY <1>1, <1>2 DEF Here, Coming, Leaving
<1>6. \A c \in Media : /\ Head(inbox) # ClosedMsg(c)
                       /\ c \in Here' => c \in Here \/ Head(inbox) = CreateMsg(c)
  BY <1>3, <1>4, <1>5, MessagesDiffer DEF Consumers
<1>7. ClosedGoAway' /\ AddedWithout' /\ EarlyOnes' /\ OpenArePresent'
  BY <1>1, <1>6, ReceiveShifts
<1>8. ListedAreHeld' /\ HeldAreListed'
  BY <1>1, <1>2, <1>5 DEF ListedAreHeld, HeldAreListed, serverVars
<1> QED BY <1>7, <1>8 DEF PeersInv

LEMMA ConsumerClosedKeepsPeers ==
  ASSUME IInv, PeersInv, ConsumerClosed
  PROVE  PeersInv'
<1> DEFINE d == Head(inbox).consumer
<1>1. Receive("USER_CONSUMER_CLOSED") /\ UNCHANGED <<serverVars, life, known, listed>>
  BY DEF ConsumerClosed, EngineVars, storeVars
<1>2. npc = "idle" /\ ListedAreHeld /\ HeldAreListed /\ inbox # <<>> /\ Head(inbox) \in Messages
  BY <1>1 DEF Receive, PeersInv, IInv, TypeOK
<1>3. Head(inbox) = ClosedMsg(d) /\ d \in Consumers
  <2>1. Head(inbox) = ClosedMsg(d)
    BY <1>1, <1>2 DEF Receive, Messages, ClosedMsg
  <2> QED BY <1>1, <2>1, Received
<1>4. /\ held' = held \ {d} /\ Leaving = {} /\ Here = held
      /\ \/ npc' = "idle" /\ d \notin held
         \/ npc' = "stopping" /\ handling' = {d}
  BY <1>2 DEF ConsumerClosed, nettyVars, Here, Coming, Leaving
<1> HIDE DEF d
<1>5. Here' = held \ {d}
  BY <1>4 DEF Here, Coming
<1>6. \A c \in Media : /\ Head(inbox) = ClosedMsg(c) => c \notin Here'
                       /\ c \in Here' => c \in Here
  BY <1>3, <1>4, <1>5, MessagesDiffer DEF Consumers
<1>7. ClosedGoAway' /\ AddedWithout' /\ EarlyOnes' /\ OpenArePresent'
  BY <1>1, <1>6, ReceiveShifts
<1>8. ListedAreHeld'
  <2>1. CASE npc' = "idle" /\ d \notin held
    BY <1>1, <1>2, <1>4, <2>1 DEF ListedAreHeld
  <2>2. CASE npc' = "stopping" /\ handling' = {d}
    <3>1. Leaving' = {d}
      BY <2>2 DEF Leaving
    <3> QED BY <1>1, <1>2, <1>4, <3>1 DEF ListedAreHeld
  <2> QED BY <1>4, <2>1, <2>2
<1>9. HeldAreListed'
  BY <1>1, <1>2, <1>4 DEF HeldAreListed, serverVars
<1> QED BY <1>7, <1>8, <1>9 DEF PeersInv

\* No message is taken or sent, and no consumer comes.
LEMMA QuietKeeps ==
  ASSUME PeersInv, UNCHANGED <<serverVars, inbox>>,
         life' \in {"new", "session"} => life \in {"new", "session"},
         \A c \in Media : c \in Here' => c \in Here,
         life' \in {"new", "session"} /\ ListedAreHeld /\ HeldAreListed => ListedAreHeld' /\ HeldAreListed'
  PROVE  PeersInv'
<1> SUFFICES ASSUME life' \in {"new", "session"} PROVE PeersInv'
  BY DEF PeersInv
<1>1. /\ ClosedGoAway /\ AddedWithout /\ EarlyOnes /\ OpenArePresent
      /\ ListedAreHeld' /\ HeldAreListed'
  BY DEF PeersInv
<1>2. ClosedGoAway'
  BY <1>1, GoneStays DEF ClosedGoAway, serverVars
<1>3. AddedWithout'
  BY <1>1, GoneStays DEF AddedWithout, serverVars
<1> QED BY <1>1, <1>2, <1>3 DEF PeersInv, EarlyOnes, OpenArePresent, serverVars

LEMMA LoopKeepsPeers ==
  ASSUME IInv, PeersInv,
         \/ ConsumeStart \/ ConsumeFails \/ StopThrows
         \/ \E c \in Consumers : ConsumeDone(c) \/ StoreConsumer(c) \/ StopReceiving(c)
  PROVE  PeersInv'
<1>1. CASE ConsumeStart \/ ConsumeFails
  <2>1. /\ UNCHANGED <<serverVars, inbox, life, held, known, listed>>
        /\ npc \in {"entered", "receiving"}
        /\ (npc' = "idle" /\ handling' = {}) \/ (npc' = "receiving" /\ handling' = handling)
    BY <1>1 DEF ConsumeStart, ConsumeFails, Done, EngineVars, storeVars
  <2>2. Leaving = {} /\ Leaving' = {} /\ Here' \subseteq Here
    BY <2>1 DEF Leaving, Here, Coming
  <2>3. ListedAreHeld /\ HeldAreListed => ListedAreHeld' /\ HeldAreListed'
    BY <2>1, <2>2 DEF ListedAreHeld, HeldAreListed, serverVars
  <2> QED BY <2>1, <2>2, <2>3, QuietKeeps
<1>2. CASE StopThrows
  <2>1. UNCHANGED <<serverVars, inbox, life, held, known, listed, npc, handling>>
    BY <1>2 DEF StopThrows, EngineVars, storeVars, nettyVars
  <2>2. Leaving' = Leaving /\ Here' = Here
    BY <2>1 DEF Leaving, Here, Coming
  <2>3. ListedAreHeld /\ HeldAreListed => ListedAreHeld' /\ HeldAreListed'
    BY <2>1, <2>2 DEF ListedAreHeld, HeldAreListed, serverVars
  <2> QED BY <2>1, <2>2, <2>3, QuietKeeps
<1>3. ASSUME NEW c \in Consumers, ConsumeDone(c) PROVE PeersInv'
  <2>1. /\ UNCHANGED <<serverVars, inbox, life, held, known, listed, handling>>
        /\ npc = "receiving" /\ npc' = "created"
    BY <1>3 DEF ConsumeDone, EngineVars, storeVars
  <2>2. Leaving' = {} /\ Leaving = {} /\ Here' = Here
    BY <2>1 DEF Leaving, Here, Coming
  <2>3. ListedAreHeld /\ HeldAreListed => ListedAreHeld' /\ HeldAreListed'
    BY <2>1, <2>2 DEF ListedAreHeld, HeldAreListed, serverVars
  <2> QED BY <2>1, <2>2, <2>3, QuietKeeps
<1>4. ASSUME NEW c \in Consumers, StoreConsumer(c) PROVE PeersInv'
  <2>1. /\ UNCHANGED <<serverVars, inbox, life, known>> /\ npc = "created" /\ c \in handling
        /\ held' = held \cup {c} /\ npc' = "idle" /\ handling' = {}
        /\ listed' = IF Owner[c] \in known THEN listed \cup {c} ELSE listed
    BY <1>4 DEF StoreConsumer, addConsumer, Done, EngineVars
  <2>2. Leaving' = {} /\ Leaving = {} /\ Here' \subseteq Here
    BY <2>1 DEF Leaving, Here, Coming
  <2>3. ListedAreHeld /\ HeldAreListed => ListedAreHeld' /\ HeldAreListed'
    BY <2>1, <2>2 DEF ListedAreHeld, HeldAreListed, serverVars
  <2> QED BY <2>1, <2>2, <2>3, QuietKeeps
<1>5. ASSUME NEW c \in Consumers, StopReceiving(c) PROVE PeersInv'
  <2>1. /\ UNCHANGED <<serverVars, inbox, life, known, held>> /\ npc = "stopping" /\ c \in handling
        /\ npc' = "idle" /\ handling' = {} /\ listed' = listed \ {c}
    BY <1>5 DEF StopReceiving, removeConsumer, Done, EngineVars
  <2>2. handling = {c}
    BY <2>1 DEF IInv, OneAtATime
  <2>3. Leaving' = {} /\ Leaving = {c} /\ Here' = Here
    BY <2>1, <2>2 DEF Leaving, Here, Coming
  <2>4. c \in Media => c \notin held \/ life \notin {"new", "session"}
    BY <2>1 DEF IInv, Agreement
  <2>5. life' \in {"new", "session"} /\ ListedAreHeld /\ HeldAreListed => ListedAreHeld' /\ HeldAreListed'
    BY <2>1, <2>3, <2>4 DEF ListedAreHeld, HeldAreListed, serverVars
  <2> QED BY <2>1, <2>3, <2>5, QuietKeeps
<1> QED BY <1>1, <1>2, <1>3, <1>4, <1>5

LEMMA OthersKeepPeers ==
  ASSUME IInv, PeersInv, Worker \/ (\E d \in Data : DataChannelClosed(d)) \/ UNCHANGED vars
  PROVE  PeersInv'
<1>1. CASE createRecvTransport \/ UNCHANGED vars
  <2>1. /\ UNCHANGED <<serverVars, inbox, held, known, listed, npc, handling>>
        /\ life' \in {"new", "session"} => life \in {"new", "session"}
    BY <1>1 DEF createRecvTransport, vars, serverVars, storeVars, nettyVars
  <2>2. Leaving' = Leaving /\ Here' = Here
    BY <2>1 DEF Leaving, Here, Coming
  <2>3. ListedAreHeld /\ HeldAreListed => ListedAreHeld' /\ HeldAreListed'
    BY <2>1, <2>2 DEF ListedAreHeld, HeldAreListed, serverVars
  <2> QED BY <2>1, <2>2, <2>3, QuietKeeps
<1>2. CASE DestroyStart \/ CloseRecvTransport \/ FreeRecvTransport \/ ClearConsumers
  BY <1>2 DEF DestroyStart, CloseRecvTransport, FreeRecvTransport, ClearConsumers, PeersInv
<1>3. ASSUME NEW d \in Data, DataChannelClosed(d) PROVE PeersInv'
  <2>1. /\ UNCHANGED <<serverVars, inbox, life, known, listed, npc, handling>>
        /\ held' = held \ {d} /\ d \notin Media
    BY <1>3, ConsumersAssumption DEF DataChannelClosed, EngineVars, storeVars, nettyVars
  <2>2. Leaving' = Leaving /\ Here' \subseteq Here
    BY <2>1 DEF Leaving, Here, Coming
  <2>3. ListedAreHeld /\ HeldAreListed => ListedAreHeld' /\ HeldAreListed'
    BY <2>1, <2>2 DEF ListedAreHeld, HeldAreListed, serverVars
  <2> QED BY <2>1, <2>2, <2>3, QuietKeeps
<1> QED BY <1>1, <1>2, <1>3 DEF Worker

LEMMA InitPeers == Init => PeersInv
<1> SUFFICES ASSUME Init PROVE PeersInv
  OBVIOUS
<1>1. inbox = <<>> /\ Len(inbox) = 0 /\ 1..Len(inbox) = {} /\ Here = {}
  BY DEF Init, Here, Coming
<1>2. ClosedGoAway /\ AddedWithout
  BY <1>1 DEF ClosedGoAway, AddedWithout, Gone
<1> QED BY <1>2 DEF Init, PeersInv, EarlyOnes, OpenArePresent, ListedAreHeld, HeldAreListed

\* During the session, between notifications, a peer lists its media consumers: no stale one, and
\* all of a known peer that the server created after it had answered the join (Peers.addPeer
\* replaces a peer, addConsumer, removeConsumer), in any order of entering, leaving and closing.
THEOREM PeersStayListed == Spec => []PeersListTheirConsumers
<1>1. Init => PeersInv
  BY InitPeers
<1>2. IInv /\ PeersInv /\ [Next]_vars => PeersInv'
  <2> SUFFICES ASSUME IInv, PeersInv, [Next]_vars PROVE PeersInv'
    OBVIOUS
  <2>1. CASE Server
    BY <2>1, ServerKeepsPeers
  <2>2. CASE EventLoop
    BY <2>2, PeersMessagesKeepPeers, NewConsumerKeepsPeers, ConsumerClosedKeepsPeers, LoopKeepsPeers
    DEF EventLoop
  <2> QED BY <2>1, <2>2, OthersKeepPeers DEF Next
<1>3. IInv /\ PeersInv => PeersListTheirConsumers
  BY DEF PeersInv, PeersListTheirConsumers, ListedAreHeld, HeldAreListed, Leaving
<1> QED BY <1>1, <1>2, <1>3, Inductive, PTL DEF Spec
=============================================================================
