---------------------------- MODULE SendHandler ----------------------------
(***************************************************************************)
(* SendHandler with its remote SDP and the m= sections of WebRTC's offers,  *)
(* as SendTransport drives them. On this side WebRTC offers and the handler *)
(* answers: before it sees the offer it guesses from its own sections which *)
(* m= section WebRTC will give the new transceiver, and WebRTC takes only   *)
(* an answer that has the mids of its offer, one by one. Every exchange may *)
(* throw, and what was done before the throw stays done.                    *)
(*                                                                          *)
(* The calls come from one thread; each is one step.                        *)
(***************************************************************************)
EXTENDS RemoteSdp

CONSTANTS
  Producers,     \* the calls of produce
  MidOf,         \* the mid that WebRTC generates for the transceiver of each, a number
  NumStreams,    \* SctpNumStreamsMis
  MaxChannels,   \* bound: data channels created
  MaxFailures    \* bound: exchanges that throw by themselves

ASSUME MidOfAssumption ==
  /\ MidOf \in [Producers -> Nat]
  /\ \A p, q \in Producers : MidOf[p] = MidOf[q] => p = q
ASSUME NumStreamsAssumption == NumStreams \in Nat \ {0}
ASSUME SendBoundsAssumption == MaxChannels \in Nat /\ MaxFailures \in Nat

VARIABLES
  remoteSdp,
  transportReady,
  hasDataChannelMediaSection,
  nextSendSctpStreamId,
  lines,       \* the m= sections of WebRTC's next offer, those for data only once they are set
  streams,     \* the SCTP streams of WebRTC's data channels
  created,     \* how many data channels were created
  seen,        \* producers that were asked for
  live,        \* ... that exist and are not closed
  refused,     \* history: WebRTC was given an answer that does not fit its offer
  failures

dataVars == <<hasDataChannelMediaSection, nextSendSctpStreamId, streams, created>>
vars == <<remoteSdp, transportReady, lines, dataVars, seen, live, refused, failures>>

Init ==
  /\ remoteSdp = EmptySdp /\ transportReady = FALSE /\ lines = <<>>
  /\ hasDataChannelMediaSection = FALSE /\ nextSendSctpStreamId = 0
  /\ streams = {} /\ created = 0
  /\ seen = {} /\ live = {} /\ refused = FALSE /\ failures = 0

Mid(p) == NumMid(MidOf[p])

-----------------------------------------------------------------------------
(***************************************************************************)
(* WebRTC's part. A line is used while a transceiver, or the data           *)
(* transport, is behind it; one that the answer rejects loses it.           *)
(***************************************************************************)
Line(mid) == [mid |-> mid, used |-> TRUE]
Lines     == [mid : Mids, used : BOOLEAN]
Unused(ls) == {i \in DOMAIN ls : ~ls[i].used}

\* The offer has a line for a new transceiver: the first one that can be recycled, or a new one.
AddTransceiver(ls, mid) ==
  IF Unused(ls) = {} THEN Append(ls, Line(mid))
  ELSE [ls EXCEPT ![CHOOSE i \in Unused(ls) : \A j \in Unused(ls) : i <= j] = Line(mid)]

HasDataLine(ls) == \E i \in DOMAIN ls : ls[i].mid = DataMid

\* With data channels ss there is a line for data, which comes last when it is new.
CreateOffer(ls, ss) == IF ss = {} \/ HasDataLine(ls) THEN ls ELSE Append(ls, Line(DataMid))

\* The answer must have the lines of the offer, in their order.
MediaSectionsInSameOrder(offer, sdp) ==
  /\ Len(offer) = Len(sdp.media)
  /\ \A i \in DOMAIN offer : offer[i].mid = sdp.media[i].mid

\* A rejected line loses its transceiver.
RemoveStoppedTransceivers(offer, sdp) ==
  [i \in DOMAIN offer |->
     [mid |-> offer[i].mid, used |-> offer[i].used /\ ~IsClosed(sdp.media[i])]]

-----------------------------------------------------------------------------
(***************************************************************************)
(* An exchange: WebRTC offers, and is given sdp as the answer.              *)
(***************************************************************************)
\* The first exchange writes the DTLS role and connects.
SetupTransport(sdp) == IF transportReady THEN sdp ELSE UpdateDtlsRole(sdp)

Taken(offer, sdp) ==
  /\ MediaSectionsInSameOrder(offer, sdp)
  /\ remoteSdp' = sdp /\ lines' = RemoveStoppedTransceivers(offer, sdp)
  /\ UNCHANGED <<refused, failures>>

\* SetRemoteDescription throws, the offer stays set.
Refused(offer, sdp) ==
  /\ ~MediaSectionsInSameOrder(offer, sdp)
  /\ remoteSdp' = sdp /\ lines' = offer
  /\ refused' = TRUE /\ UNCHANGED failures

Fails == failures < MaxFailures /\ failures' = failures + 1 /\ UNCHANGED refused

\* It throws before the offer is set (in CreateOffer, in SetupTransport before or after the role
\* is written, in SetLocalDescription), which leaves early of the lines.
ThrowsEarly(early) ==
  /\ Fails /\ lines' = early
  /\ \/ remoteSdp' = remoteSdp /\ UNCHANGED transportReady
     \/ remoteSdp' = SetupTransport(remoteSdp) /\ transportReady' \in {transportReady, TRUE}

\* It throws once the offer is set: before the section is in the remote SDP, or in
\* SetRemoteDescription.
ThrowsLate(offer, sdp) ==
  /\ Fails /\ lines' = offer /\ remoteSdp' \in {SetupTransport(remoteSdp), sdp}
  /\ transportReady' = TRUE

-----------------------------------------------------------------------------
(***************************************************************************)
(* Send, for SendTransport::Produce                                         *)
(***************************************************************************)
\* RemoteSdp::GetNextMediaSectionIdx: the first closed section, or a new one.
\* Mutant: closed sections are not reused.
NextIdxNew(sdp) == Len(sdp.sections) + 1
GetNextMediaSectionIdx(sdp) ==
  IF ClosedSections(sdp) = {} THEN Len(sdp.sections) + 1 ELSE FirstClosed(sdp)

\* RemoteSdp::Send: the section for the offer's line idx, in the place of reuseMid or at the end.
SendSection(sdp, offer) ==
  LET idx == GetNextMediaSectionIdx(sdp)
      s   == Section(offer[idx].mid)
  IN  IF idx \in DOMAIN sdp.sections THEN ReplaceMediaSection(sdp, s, sdp.sections[idx].mid)
      ELSE AddMediaSection(sdp, s)

OfferFor(p) == CreateOffer(AddTransceiver(lines, Mid(p)), streams)
AnswerFor(p) == SendSection(SetupTransport(remoteSdp), OfferFor(p))
GuessExists(p) == GetNextMediaSectionIdx(remoteSdp) \in DOMAIN OfferFor(p)

Send(p) ==
  /\ p \notin seen /\ GuessExists(p) /\ Taken(OfferFor(p), AnswerFor(p))
  /\ seen' = seen \cup {p} /\ live' = live \cup {p} /\ transportReady' = TRUE
  /\ UNCHANGED dataVars

SendRefused(p) ==
  /\ p \notin seen /\ GuessExists(p) /\ Refused(OfferFor(p), AnswerFor(p))
  /\ seen' = seen \cup {p} /\ transportReady' = TRUE
  /\ UNCHANGED <<dataVars, live>>

\* The section that was guessed is not in the offer, or not the transceiver's: reading its
\* encodings throws.
SendMisses(p) ==
  /\ p \notin seen
  /\ GuessExists(p) => OfferFor(p)[GetNextMediaSectionIdx(remoteSdp)].mid # Mid(p)
  /\ remoteSdp' = SetupTransport(remoteSdp) /\ lines' = OfferFor(p)
  /\ seen' = seen \cup {p} /\ transportReady' = TRUE /\ refused' = TRUE
  /\ UNCHANGED <<dataVars, live, failures>>

\* The transceiver stays, inactive and without a track.
SendThrows(p) ==
  /\ p \notin seen /\ seen' = seen \cup {p}
  /\ \/ ThrowsEarly(AddTransceiver(lines, Mid(p)))
     \/ GuessExists(p) /\ ThrowsLate(OfferFor(p), AnswerFor(p))
  /\ UNCHANGED <<dataVars, live>>

-----------------------------------------------------------------------------
(***************************************************************************)
(* StopSending, when a producer is closed or the server gave it no id       *)
(***************************************************************************)
\* mapMidTransceiver has the transceiver of every producer that was sent, and keeps it.
Stopped(p) == CloseMediaSection(remoteSdp, Mid(p))

StopSending(p) ==
  /\ p \in live /\ live' = live \ {p}
  /\ \/ Taken(CreateOffer(lines, streams), Stopped(p))
     \/ Refused(CreateOffer(lines, streams), Stopped(p))
  /\ UNCHANGED <<transportReady, dataVars, seen>>

StopSendingThrows(p) ==
  /\ p \in live /\ live' = live \ {p}
  /\ Fails /\ remoteSdp' = Stopped(p) /\ lines' \in {lines, CreateOffer(lines, streams)}
  /\ UNCHANGED <<transportReady, dataVars, seen>>

-----------------------------------------------------------------------------
(***************************************************************************)
(* SendDataChannel, for SendTransport::ProduceData. WebRTC creates no       *)
(* channel on a stream that is in use; the call then throws and changes     *)
(* nothing, the stream id included.                                         *)
(***************************************************************************)
\* Mutant: wraps one stream too early.
NextStreamIdShort(id) == (id + 1) % (NumStreams - 1)
NextStreamId(id) == (id + 1) % NumStreams

CreateDataChannel ==
  /\ created < MaxChannels /\ created' = created + 1
  /\ nextSendSctpStreamId \notin streams
  /\ streams' = streams \cup {nextSendSctpStreamId}
  /\ nextSendSctpStreamId' = NextStreamId(nextSendSctpStreamId)

DataOffer  == CreateOffer(lines, streams')
DataAnswer == AddMediaSection(SetupTransport(remoteSdp), Section(DataMid))

\* The first channel adds the section for data.
SendFirstDataChannel ==
  /\ ~hasDataChannelMediaSection /\ CreateDataChannel
  /\ \/ Taken(DataOffer, DataAnswer) /\ hasDataChannelMediaSection' = TRUE
     \/ Refused(DataOffer, DataAnswer) /\ UNCHANGED hasDataChannelMediaSection
  /\ transportReady' = TRUE
  /\ UNCHANGED <<seen, live>>

SendFirstDataChannelThrows ==
  /\ ~hasDataChannelMediaSection /\ CreateDataChannel
  /\ ThrowsEarly(lines) \/ ThrowsLate(DataOffer, DataAnswer)
  /\ UNCHANGED <<hasDataChannelMediaSection, seen, live>>

SendDataChannel ==
  /\ hasDataChannelMediaSection /\ CreateDataChannel
  /\ UNCHANGED <<remoteSdp, transportReady, lines, hasDataChannelMediaSection, seen, live, refused,
                 failures>>

\* A channel has closed, at the producer's request or the other side's, and frees its stream.
OnSctpDataChannelClosed(id) ==
  /\ streams' = streams \ {id}
  /\ UNCHANGED <<remoteSdp, transportReady, lines, hasDataChannelMediaSection,
                 nextSendSctpStreamId, created, seen, live, refused, failures>>

-----------------------------------------------------------------------------
\* The ICE parameters are written into every section; once connected, an exchange follows.
\* UpdateIceParameters writes the sections as UpdateDtlsRole does.
RestartIce ==
  /\ transportReady
  /\ \/ Taken(CreateOffer(lines, streams), UpdateDtlsRole(remoteSdp))
     \/ Refused(CreateOffer(lines, streams), UpdateDtlsRole(remoteSdp))
     \/ /\ Fails /\ remoteSdp' = UpdateDtlsRole(remoteSdp)
        /\ lines' \in {lines, CreateOffer(lines, streams)}
  /\ UNCHANGED <<transportReady, dataVars, seen, live>>

Next ==
  \/ \E p \in Producers :
       \/ Send(p) \/ SendRefused(p) \/ SendMisses(p) \/ SendThrows(p)
       \/ StopSending(p) \/ StopSendingThrows(p)
  \/ SendFirstDataChannel \/ SendFirstDataChannelThrows \/ SendDataChannel
  \/ \E id \in streams : OnSctpDataChannelClosed(id)
  \/ RestartIce

Spec == Init /\ [][Next]_vars

-----------------------------------------------------------------------------
Sections == remoteSdp.sections
Index    == remoteSdp.midToIndex

\* Types of the state.
TypeOK ==
  /\ IsSdp(remoteSdp) /\ lines \in Seq(Lines)
  /\ transportReady \in BOOLEAN /\ hasDataChannelMediaSection \in BOOLEAN /\ refused \in BOOLEAN
  /\ nextSendSctpStreamId \in 0..(NumStreams - 1) /\ streams \subseteq 0..(NumStreams - 1)
  /\ created \in 0..MaxChannels /\ failures \in 0..MaxFailures
  /\ live \subseteq seen /\ seen \subseteq Producers

\* As long as no exchange throws by itself, the handler's guess is right: the section it names
\* before the offer is the one WebRTC gives the transceiver, and every answer fits its offer,
\* however producers, data channels and recycled sections follow each other.
AnswersAreTaken == failures = 0 => ~refused

\* A running producer has an open section, found by its mid, at the very place of the line that
\* has its transceiver, whatever threw or was refused since (Send, StopSending).
RunningHaveLines ==
  \A p \in live :
    /\ Mid(p) \in DOMAIN Index /\ Index[Mid(p)] \in DOMAIN lines
    /\ Sections[Index[Mid(p)]] = Section(Mid(p)) /\ lines[Index[Mid(p)]] = Line(Mid(p))

\* Until the ids have gone round once, the next stream id is free, exchanges that throw and leave
\* a channel behind included: SendDataChannel is not refused its stream.
NextStreamIsFree == created < NumStreams => nextSendSctpStreamId \notin streams

\* Sections are handed out as SectionSlots says, now for producers: none is moved while its
\* producer runs, and none is given to two.
slotOf == [p \in Producers |-> IF p \in live THEN Index[Mid(p)] ELSE 0]
Slots == INSTANCE SectionSlots WITH slot <- slotOf, Consumers <- Producers
ImplementsSlots == Slots!Spec
=============================================================================
