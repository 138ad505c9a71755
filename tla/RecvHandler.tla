---------------------------- MODULE RecvHandler ----------------------------
(***************************************************************************)
(* RecvHandler with its remote SDP, as RecvTransport drives it: consumers   *)
(* are received and stopped, the first video consumer is followed by the    *)
(* probator, the first data consumer adds the application section. Every    *)
(* exchange of descriptions with WebRTC may throw, and what was done before *)
(* the throw stays done.                                                    *)
(*                                                                          *)
(* The calls come from one thread; each is one step.                        *)
(***************************************************************************)
EXTENDS RemoteSdp

CONSTANTS
  Consumers,    \* the consumers the server may create
  Video,        \* ... of kind video
  MidsGiven,    \* TRUE when rtpParameters carries a mid
  GivenMid,     \* that mid, a number of its own for every consumer
  MaxFailures   \* bound: exchanges that throw

ASSUME VideoAssumption == Video \subseteq Consumers
ASSUME MidsGivenAssumption == MidsGiven \in BOOLEAN
ASSUME GivenMidAssumption ==
  /\ GivenMid \in [Consumers -> Nat]
  /\ \A c, d \in Consumers : GivenMid[c] = GivenMid[d] => c = d
ASSUME MaxFailuresAssumption == MaxFailures \in Nat

VARIABLES
  remoteSdp,
  mapMidTransceiver,           \* its keys: the transceiver under a key has that mid
  transportReady,
  hasDataChannelMediaSection,
  probatorConsumerCreated,
  probing,                     \* RecvTransport::Consume is about to receive the probator
  seen,                        \* consumers the server has created
  live,                        \* ... that exist and are not closed
  localId,                     \* the mid of every consumer that was received
  failures

transportVars == <<probatorConsumerCreated, probing, seen, live, localId>>
vars == <<remoteSdp, mapMidTransceiver, transportReady, hasDataChannelMediaSection,
          transportVars, failures>>

Init ==
  /\ remoteSdp = EmptySdp /\ mapMidTransceiver = {}
  /\ transportReady = FALSE /\ hasDataChannelMediaSection = FALSE
  /\ probatorConsumerCreated = FALSE /\ probing = FALSE
  /\ seen = {} /\ live = {} /\ localId = [c \in Consumers |-> NoMid]
  /\ failures = 0

-----------------------------------------------------------------------------
(***************************************************************************)
(* An exchange: sdp is offered, WebRTC answers, and on the first exchange   *)
(* SetupTransport writes the DTLS role and connects.                        *)
(***************************************************************************)
Exchange(sdp) ==
  /\ remoteSdp' = IF transportReady THEN sdp ELSE UpdateDtlsRole(sdp)
  /\ transportReady' = TRUE

\* It throws before SetupTransport, in OnConnect, or after it.
ExchangeThrows(sdp) ==
  /\ failures < MaxFailures /\ failures' = failures + 1
  /\ \/ remoteSdp' = sdp /\ UNCHANGED transportReady
     \/ remoteSdp' = UpdateDtlsRole(sdp) /\ ~transportReady /\ UNCHANGED transportReady
     \/ Exchange(sdp)

\* mid is optional; without it the size of the map is used. The map only grows.
\* Mutant: the number of running consumers is used.
ByRunning(c) == IF MidsGiven THEN NumMid(GivenMid[c]) ELSE NumMid(Cardinality(live))
LocalId(c) ==
  IF MidsGiven THEN NumMid(GivenMid[c]) ELSE NumMid(Cardinality(mapMidTransceiver))

Consume(c) ==
  /\ ~probing /\ c \notin seen
  /\ seen' = seen \cup {c} /\ live' = live \cup {c}
  /\ localId' = [localId EXCEPT ![c] = LocalId(c)]
  /\ Exchange(Receive(remoteSdp, LocalId(c)))
  /\ mapMidTransceiver' = mapMidTransceiver \cup {LocalId(c)}
  /\ probing' = (c \in Video /\ ~probatorConsumerCreated)
  /\ UNCHANGED <<hasDataChannelMediaSection, probatorConsumerCreated, failures>>

ConsumeThrows(c) ==
  /\ ~probing /\ c \notin seen
  /\ seen' = seen \cup {c}
  /\ ExchangeThrows(Receive(remoteSdp, LocalId(c)))
  /\ UNCHANGED <<mapMidTransceiver, hasDataChannelMediaSection, probatorConsumerCreated, probing,
                 live, localId>>

Probe ==
  /\ probing /\ probing' = FALSE
  /\ Exchange(Receive(remoteSdp, ProbatorMid))
  /\ mapMidTransceiver' = mapMidTransceiver \cup {ProbatorMid}
  /\ probatorConsumerCreated' = TRUE
  /\ UNCHANGED <<hasDataChannelMediaSection, seen, live, localId, failures>>

\* The exception is caught; the next video consumer tries again.
ProbeThrows ==
  /\ probing /\ probing' = FALSE
  /\ ExchangeThrows(Receive(remoteSdp, ProbatorMid))
  /\ UNCHANGED <<mapMidTransceiver, hasDataChannelMediaSection, probatorConsumerCreated, seen, live,
                 localId>>

\* Mutant: the flag is not set.
ReceiveDataAgain ==
  /\ ~probing /\ ~hasDataChannelMediaSection
  /\ Exchange(RecvSctpAssociation(remoteSdp))
  /\ UNCHANGED <<mapMidTransceiver, hasDataChannelMediaSection, transportVars, failures>>
ReceiveDataChannel ==
  /\ ~probing /\ ~hasDataChannelMediaSection
  /\ Exchange(RecvSctpAssociation(remoteSdp))
  /\ hasDataChannelMediaSection' = TRUE
  /\ UNCHANGED <<mapMidTransceiver, transportVars, failures>>

ReceiveDataChannelThrows ==
  /\ ~probing /\ ~hasDataChannelMediaSection
  /\ ExchangeThrows(RecvSctpAssociation(remoteSdp))
  /\ UNCHANGED <<mapMidTransceiver, hasDataChannelMediaSection, transportVars>>

\* The section is closed before the exchange, and stays closed if that throws;
\* the map keeps the transceiver.
StopReceiving(c) ==
  /\ ~probing /\ c \in live
  /\ live' = live \ {c}
  /\ remoteSdp' = CloseMediaSection(remoteSdp, localId[c])
  /\ \/ UNCHANGED failures
     \/ failures < MaxFailures /\ failures' = failures + 1
  /\ UNCHANGED <<mapMidTransceiver, transportReady, hasDataChannelMediaSection,
                 probatorConsumerCreated, probing, seen, localId>>

Next ==
  \/ \E c \in Consumers : Consume(c) \/ ConsumeThrows(c) \/ StopReceiving(c)
  \/ Probe \/ ProbeThrows \/ ReceiveDataChannel \/ ReceiveDataChannelThrows

Spec == Init /\ [][Next]_vars

-----------------------------------------------------------------------------
Sections == remoteSdp.sections
Index    == remoteSdp.midToIndex

\* Types of the state.
TypeOK ==
  /\ IsSdp(remoteSdp)
  /\ mapMidTransceiver \subseteq Mids
  /\ transportReady \in BOOLEAN /\ hasDataChannelMediaSection \in BOOLEAN
  /\ probatorConsumerCreated \in BOOLEAN /\ probing \in BOOLEAN
  /\ seen \subseteq Consumers /\ live \subseteq seen
  /\ localId \in [Consumers -> Mids \cup {NoMid}]
  /\ failures \in 0..MaxFailures

\* What WebRTC is offered is what the handler holds: the media array repeats the
\* sections and the BUNDLE group names, in order, those that are not rejected,
\* whatever threw before (CloseMediaSection, ReplaceMediaSection).
OfferMirrorsSections ==
  remoteSdp.media = Sections /\ remoteSdp.bundle = RegenerateBundleMids(Sections)

\* The first section, which carries the bundled transport, keeps its place and
\* is never rejected or recycled (CloseMediaSection's note on the first m section).
FirstSectionStays ==
  Sections # <<>> => Sections[1].mid = remoteSdp.firstMid /\ ~IsClosed(Sections[1])

\* Every running consumer has an open section under its mid, found by the map.
RunningHaveSections ==
  \A c \in live :
    /\ localId[c] \in DOMAIN Index
    /\ Sections[Index[localId[c]]] = Section(localId[c])

\* As long as no exchange has thrown, no two sections have the same mid and the
\* map names every one of them.
OffersDistinctMids ==
  failures = 0 =>
    \A i \in DOMAIN Sections :
      Sections[i].mid \in DOMAIN Index /\ Index[Sections[i].mid] = i

\* Sections are handed out as SectionSlots says: recycling a closed section, an
\* exchange that throws and the sections it leaves behind never move the section
\* of a running consumer nor give it to another.
slotOf == [c \in Consumers |-> IF c \in live THEN Index[localId[c]] ELSE 0]
Slots == INSTANCE SectionSlots WITH slot <- slotOf
ImplementsSlots == Slots!Spec
=============================================================================
