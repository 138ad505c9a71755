------------------------- MODULE SendHandlerProofs -------------------------
(***************************************************************************)
(* SendHandler keeps its invariants and implements SectionSlots, for any    *)
(* set of producers, any number of data channels and of failures.           *)
(*                                                                          *)
(* The handler and WebRTC agree on the sections of running producers        *)
(* because a line in use is never given away and no mid is on two lines; a  *)
(* section the handler reuses after a failure may get a mid that is already *)
(* known, but never that of a running producer. As long as nothing throws,  *)
(* sections and lines agree one by one, and so do the two parties' choices  *)
(* of the next one.                                                         *)
(***************************************************************************)
EXTENDS SendHandler, RemoteSdpProofs

\* The mids that can be in use: those of the producers asked for, and that for data.
MidsFor(ps) == {Mid(p) : p \in ps} \cup {DataMid}

LinesDistinct(ls) == \A i, j \in DOMAIN ls : ls[i].mid = ls[j].mid => i = j
MidsOfLines(ls)   == {ls[i].mid : i \in DOMAIN ls}

\* A closed section was a producer's, and WebRTC has its mid in the same place or nowhere.
ClosedInPlace(sdp, ls) ==
  /\ DataMid \notin ClosedMids(sdp)
  /\ \A i \in ClosedSections(sdp), j \in DOMAIN ls : ls[j].mid = sdp.sections[i].mid => i = j

\* The producers ps have their section and their line, in one place.
HaveLines(sdp, ls, ps) ==
  \A p \in ps :
    /\ Mid(p) \in DOMAIN sdp.midToIndex /\ sdp.midToIndex[Mid(p)] \in DOMAIN ls
    /\ sdp.sections[sdp.midToIndex[Mid(p)]] = Section(Mid(p))
    /\ ls[sdp.midToIndex[Mid(p)]] = Line(Mid(p))

\* What always holds between the description sdp and the lines ls, with the producers ps
\* running and the mids of known in use.
Fits(sdp, ls, ps, known) ==
  /\ Sound(sdp) /\ ls \in Seq(Lines) /\ LinesDistinct(ls)
  /\ MidsOf(sdp) \subseteq known /\ MidsOfLines(ls) \subseteq known
  /\ ClosedInPlace(sdp, ls) /\ HaveLines(sdp, ls, ps)

\* Sections and lines agree one by one.
Agree(sdp, ls) ==
  /\ Len(ls) = Len(sdp.sections)
  /\ \A i \in DOMAIN ls : /\ ls[i].mid = sdp.sections[i].mid
                          /\ ls[i].used <=> ~IsClosed(sdp.sections[i])

\* Until an exchange throws they do, data channels have their section, and no answer was refused.
Aligned ==
  failures = 0 =>
    /\ ~refused /\ Agree(remoteSdp, lines)
    /\ HasDataLine(lines) <=> hasDataChannelMediaSection
    /\ streams # {} => hasDataChannelMediaSection

\* The ids of the first round are given out in their order.
FirstRound ==
  created < NumStreams => nextSendSctpStreamId = created /\ \A id \in streams : id < created

IInv == TypeOK /\ Fits(remoteSdp, lines, live, MidsFor(seen)) /\ Aligned /\ FirstRound

-----------------------------------------------------------------------------
(***************************************************************************)
(* Mids and lines                                                           *)
(***************************************************************************)
LEMMA SendMids ==
  /\ DataMid \in Mids
  /\ \A p \in Producers : Mid(p) \in Mids /\ Mid(p) # DataMid
  /\ \A p, q \in Producers : Mid(p) = Mid(q) => p = q
<1>1. \A n \in Nat : NumMid(n) \in Mids /\ NumMid(n) # DataMid
  BY DEF NumMid, Mids, DataMid
<1>2. \A m, n \in Nat : NumMid(m) = NumMid(n) => m = n
  BY DEF NumMid
<1>3. \A p \in Producers : MidOf[p] \in Nat
  BY MidOfAssumption
<1> QED BY <1>1, <1>2, <1>3, MidOfAssumption DEF Mid, Mids

\* The mid of a producer that was not asked for is not in use.
LEMMA FreshMid ==
  ASSUME NEW ps \in SUBSET Producers, NEW p \in Producers, p \notin ps
  PROVE  Mid(p) \notin MidsFor(ps)
BY SendMids DEF MidsFor

LEMMA LineType == \A mid \in Mids : Line(mid) \in Lines /\ Line(mid).mid = mid /\ Line(mid).used
BY DEF Line, Lines

\* r came from the lines ls when mids of new got lines of their own: a line in use is kept.
Grown(r, ls, new) ==
  /\ r \in Seq(Lines) /\ LinesDistinct(r)
  /\ \A i \in DOMAIN ls : i \in DOMAIN r /\ (ls[i].used => r[i] = ls[i])
  /\ \A i \in DOMAIN r : (i \in DOMAIN ls /\ r[i] = ls[i]) \/ (\E m \in new : r[i] = Line(m))

\* Where a new transceiver goes.
NextLine(ls) ==
  IF Unused(ls) = {} THEN Len(ls) + 1
  ELSE CHOOSE i \in Unused(ls) : \A j \in Unused(ls) : i <= j

\* AddTransceiver changes one line, which nothing uses or which is new.
LEMMA AddTransceiverLines ==
  ASSUME NEW ls \in Seq(Lines), NEW mid \in Mids
  PROVE  LET r == AddTransceiver(ls, mid)
             k == NextLine(ls)
         IN  /\ r \in Seq(Lines) /\ k \in DOMAIN r /\ r[k] = Line(mid)
             /\ DOMAIN r = DOMAIN ls \cup {k}
             /\ \A i \in DOMAIN ls : i # k => r[i] = ls[i]
             /\ k \in DOMAIN ls => ~ls[k].used
             /\ Len(r) = IF Unused(ls) = {} THEN Len(ls) + 1 ELSE Len(ls)
<1> DEFINE r == AddTransceiver(ls, mid)
           k == NextLine(ls)
           l == Line(mid)
<1>1. l \in Lines
  BY LineType
<1>2. CASE Unused(ls) = {}
  <2>1. r = Append(ls, l) /\ k = Len(ls) + 1
    BY <1>2 DEF AddTransceiver, NextLine
  <2> HIDE DEF r, k, l
  <2>2. /\ r \in Seq(Lines) /\ DOMAIN r = 1..(Len(ls) + 1) /\ r[Len(ls) + 1] = l
        /\ DOMAIN ls = 1..Len(ls) /\ Len(ls) \in Nat /\ Len(r) = Len(ls) + 1
        /\ \A i \in 1..Len(ls) : r[i] = ls[i]
    BY <1>1, <2>1
  <2> QED BY <1>2, <2>1, <2>2 DEF r, k, l
<1>3. CASE Unused(ls) # {}
  <2>1. Unused(ls) \in SUBSET Nat
    BY DEF Unused
  <2>2. k \in Unused(ls) /\ r = [ls EXCEPT ![k] = l]
    BY <1>3, <2>1, LeastExists DEF AddTransceiver, NextLine
  <2>3. k \in DOMAIN ls /\ ~ls[k].used
    BY <2>2 DEF Unused
  <2> HIDE DEF r, k, l
  <2>4. /\ r \in Seq(Lines) /\ DOMAIN r = DOMAIN ls /\ r[k] = l /\ Len(r) = Len(ls)
        /\ \A i \in DOMAIN ls : i # k => r[i] = ls[i]
    BY <1>1, <2>2, <2>3
  <2> QED BY <1>3, <2>3, <2>4 DEF r, k, l
<1> QED BY <1>2, <1>3

\* CreateOffer adds the line for data, or nothing.
LEMMA CreateOfferLines ==
  ASSUME NEW ls \in Seq(Lines), NEW ss
  PROVE  LET r == CreateOffer(ls, ss)
         IN  \/ r = ls
             \/ /\ ~HasDataLine(ls) /\ r \in Seq(Lines) /\ Len(r) = Len(ls) + 1
                /\ DOMAIN r = 1..(Len(ls) + 1) /\ r[Len(ls) + 1] = Line(DataMid)
                /\ \A i \in DOMAIN ls : i \in DOMAIN r /\ r[i] = ls[i]
<1> DEFINE l == Line(DataMid)
<1>1. l \in Lines
  BY LineType, SendMids
<1> HIDE DEF l
<1>2. /\ Append(ls, l) \in Seq(Lines) /\ Len(Append(ls, l)) = Len(ls) + 1
      /\ DOMAIN Append(ls, l) = 1..(Len(ls) + 1) /\ Append(ls, l)[Len(ls) + 1] = l
      /\ \A i \in DOMAIN ls : i \in DOMAIN Append(ls, l) /\ Append(ls, l)[i] = ls[i]
  BY <1>1
<1> QED BY <1>2 DEF CreateOffer, l

LEMMA AddTransceiverGrows ==
  ASSUME NEW ls \in Seq(Lines), LinesDistinct(ls), NEW mid \in Mids, mid \notin MidsOfLines(ls)
  PROVE  Grown(AddTransceiver(ls, mid), ls, {mid})
<1> DEFINE r == AddTransceiver(ls, mid)
           k == NextLine(ls)
<1>1. /\ r \in Seq(Lines) /\ k \in DOMAIN r /\ r[k] = Line(mid)
      /\ DOMAIN r = DOMAIN ls \cup {k}
      /\ \A i \in DOMAIN ls : i # k => r[i] = ls[i]
      /\ k \in DOMAIN ls => ~ls[k].used
  BY AddTransceiverLines
<1> HIDE DEF r, k
<1>2. \A i \in DOMAIN r : i # k => i \in DOMAIN ls /\ r[i] = ls[i] /\ r[i].mid # mid
  BY <1>1 DEF MidsOfLines
<1>3. r[k].mid = mid
  BY <1>1, LineType
<1>4. LinesDistinct(r)
  BY <1>2, <1>3 DEF LinesDistinct
<1> QED BY <1>1, <1>2, <1>4 DEF Grown, r

LEMMA CreateOfferGrows ==
  ASSUME NEW ls \in Seq(Lines), LinesDistinct(ls), NEW ss
  PROVE  Grown(CreateOffer(ls, ss), ls, {DataMid})
<1> DEFINE r == CreateOffer(ls, ss)
           n == Len(ls) + 1
<1>1. CASE r = ls
  BY <1>1 DEF Grown
<1>2. CASE r # ls
  <2>1. /\ ~HasDataLine(ls) /\ r \in Seq(Lines) /\ DOMAIN r = 1..n /\ r[n] = Line(DataMid)
        /\ \A i \in DOMAIN ls : i \in DOMAIN r /\ r[i] = ls[i]
    BY <1>2, CreateOfferLines
  <2>2. \A i \in DOMAIN r : i # n => i \in DOMAIN ls /\ r[i] = ls[i] /\ r[i].mid # DataMid
    BY <2>1 DEF HasDataLine
  <2>3. r[n].mid = DataMid
    BY <2>1, LineType, SendMids
  <2> HIDE DEF r, n
  <2>4. LinesDistinct(r)
    BY <2>2, <2>3 DEF LinesDistinct
  <2> QED BY <2>1, <2>2, <2>4 DEF Grown, r
<1> QED BY <1>1, <1>2

LEMMA GrownTwice ==
  ASSUME NEW a, NEW b, NEW c, NEW m, NEW n, m \in Mids, n \in Mids,
         Grown(b, a, {m}), Grown(c, b, {n})
  PROVE  Grown(c, a, {m, n})
<1>1. \A i \in DOMAIN a : a[i].used => i \in DOMAIN c /\ c[i] = a[i]
  BY DEF Grown
<1>2. \A i \in DOMAIN a : i \in DOMAIN c
  BY DEF Grown
<1>3. ASSUME NEW i \in DOMAIN c
      PROVE  (i \in DOMAIN a /\ c[i] = a[i]) \/ (\E mm \in {m, n} : c[i] = Line(mm))
  BY DEF Grown
<1> QED BY <1>1, <1>2, <1>3 DEF Grown

-----------------------------------------------------------------------------
(***************************************************************************)
(* What the parts of an exchange keep of Fits                               *)
(***************************************************************************)
\* Sections given to ps stay where they are.
Keeps(r, sdp, ps) == \A p \in ps : r.midToIndex[Mid(p)] = sdp.midToIndex[Mid(p)]

\* WebRTC's lines grow.
LEMMA FitsGrown ==
  ASSUME NEW sdp, NEW ls, NEW ps, NEW known, NEW more, Fits(sdp, ls, ps, known),
         NEW r, NEW new \in SUBSET Mids, Grown(r, ls, new),
         new \cap ClosedMids(sdp) = {}, new \subseteq more, known \subseteq more
  PROVE  Fits(sdp, r, ps, more)
<1>1. \A i \in DOMAIN r : (i \in DOMAIN ls /\ r[i] = ls[i]) \/ r[i].mid \in new
  BY LineType DEF Grown
<1>2. MidsOfLines(r) \subseteq more
  BY <1>1 DEF MidsOfLines, Fits
<1>3. ClosedInPlace(sdp, r)
  <2> SUFFICES ASSUME NEW i \in ClosedSections(sdp), NEW j \in DOMAIN r, r[j].mid = sdp.sections[i].mid
               PROVE  i = j
    BY DEF ClosedInPlace, Fits
  <2>1. sdp.sections[i].mid \notin new
    BY DEF ClosedMids
  <2> QED BY <1>1, <2>1 DEF Fits, ClosedInPlace
<1>4. HaveLines(sdp, r, ps)
  <2> SUFFICES ASSUME NEW p \in ps
               PROVE  /\ sdp.midToIndex[Mid(p)] \in DOMAIN r
                      /\ r[sdp.midToIndex[Mid(p)]] = Line(Mid(p))
    BY DEF Fits, HaveLines
  <2>1. sdp.midToIndex[Mid(p)] \in DOMAIN ls /\ ls[sdp.midToIndex[Mid(p)]] = Line(Mid(p))
    BY DEF Fits, HaveLines
  <2>2. Line(Mid(p)).used
    BY DEF Line
  <2> QED BY <2>1, <2>2 DEF Grown
<1> QED BY <1>2, <1>3, <1>4 DEF Fits, Grown

\* What a taken answer makes of a line: it is used as before, unless its section is rejected.
LEMMA RemovedLines ==
  ASSUME NEW ls \in Seq(Lines), NEW sdp
  PROVE  LET r == RemoveStoppedTransceivers(ls, sdp)
         IN  /\ r \in Seq(Lines) /\ DOMAIN r = DOMAIN ls /\ Len(r) = Len(ls)
             /\ \A i \in DOMAIN ls :
                  /\ r[i].mid = ls[i].mid
                  /\ r[i].used <=> ls[i].used /\ ~IsClosed(sdp.media[i])
                  /\ ls[i].used /\ ~IsClosed(sdp.media[i]) => r[i] = ls[i]
<1> DEFINE r    == RemoveStoppedTransceivers(ls, sdp)
           b(i) == ls[i].used /\ ~IsClosed(sdp.media[i])
<1>1. \A i \in DOMAIN ls : b(i) \in BOOLEAN
  BY Zenon
<1>2. r = [i \in DOMAIN ls |-> [mid |-> ls[i].mid, used |-> b(i)]]
  BY DEF RemoveStoppedTransceivers
<1>3. \A i \in DOMAIN ls : b(i) => ls[i].used
  OBVIOUS
<1> HIDE DEF b, r
<1>4. DOMAIN ls = 1..Len(ls) /\ Len(ls) \in Nat /\ \A i \in DOMAIN ls : ls[i] \in Lines
  OBVIOUS
<1>5. ASSUME NEW i \in DOMAIN ls
      PROVE  /\ r[i] \in Lines /\ r[i].mid = ls[i].mid /\ r[i].used = b(i)
             /\ b(i) => r[i] = ls[i]
  <2>1. r[i] = [mid |-> ls[i].mid, used |-> b(i)]
    BY <1>2
  <2>2. ls[i] = [mid |-> ls[i].mid, used |-> ls[i].used] /\ ls[i].mid \in Mids /\ ls[i].used \in BOOLEAN
    BY <1>4 DEF Lines
  <2>3. b(i) => b(i) = TRUE /\ ls[i].used = TRUE
    BY <1>1, <1>3, <2>2, Zenon
  <2>4. b(i) => r[i] = ls[i]
    BY <2>1, <2>2, <2>3
  <2> QED BY <1>1, <2>1, <2>2, <2>4 DEF Lines
<1>6. DOMAIN r = DOMAIN ls
  BY <1>2
<1>7. r = [i \in 1..Len(ls) |-> r[i]]
  BY <1>2, <1>4
<1>8. r \in Seq(Lines) /\ Len(r) = Len(ls)
  BY <1>4, <1>5, <1>6, <1>7
<1>9. \A i \in DOMAIN ls : r[i].used <=> b(i)
  BY <1>5
<1> QED BY <1>5, <1>6, <1>8, <1>9 DEF b, r

\* A taken answer takes the transceivers from rejected lines.
LEMMA FitsRemoved ==
  ASSUME NEW sdp, NEW ls, NEW ps, NEW known, Fits(sdp, ls, ps, known)
  PROVE  Fits(sdp, RemoveStoppedTransceivers(ls, sdp), ps, known)
<1> DEFINE r == RemoveStoppedTransceivers(ls, sdp)
<1>1. /\ r \in Seq(Lines) /\ DOMAIN r = DOMAIN ls
      /\ \A i \in DOMAIN ls : /\ r[i].mid = ls[i].mid
                              /\ ls[i].used /\ ~IsClosed(sdp.media[i]) => r[i] = ls[i]
  BY RemovedLines DEF Fits
<1> HIDE DEF r
<1>2. LinesDistinct(r) /\ MidsOfLines(r) \subseteq known /\ ClosedInPlace(sdp, r)
  BY <1>1 DEF Fits, LinesDistinct, MidsOfLines, ClosedInPlace
<1>3. HaveLines(sdp, r, ps)
  <2> SUFFICES ASSUME NEW p \in ps
               PROVE  r[sdp.midToIndex[Mid(p)]] = Line(Mid(p))
    BY <1>1 DEF Fits, HaveLines
  <2> DEFINE i == sdp.midToIndex[Mid(p)]
  <2>1. i \in DOMAIN ls /\ ls[i] = Line(Mid(p)) /\ sdp.media[i] = Section(Mid(p))
    BY DEF Fits, HaveLines, Sound, Mirrored
  <2>2. ~IsClosed(Section(Mid(p)))
    BY DEF Section, IsClosed
  <2>3. Line(Mid(p)).used
    BY DEF Line
  <2> HIDE DEF i
  <2>4. r[i] = ls[i]
    BY <1>1, <2>1, <2>2, <2>3
  <2> QED BY <2>1, <2>4 DEF i
<1> QED BY <1>1, <1>2, <1>3 DEF Fits, r

\* A mid of no running producer gets a section.
LEMMA FitsExtended ==
  ASSUME NEW sdp, NEW ls, NEW ps, NEW known, Fits(sdp, ls, ps, known),
         NEW r, NEW mid \in known, Sound(r), Extends(r, sdp, mid), \A p \in ps : Mid(p) # mid
  PROVE  Fits(r, ls, ps, known) /\ Keeps(r, sdp, ps)
<1>1. MidsOf(r) \subseteq known
  BY DEF Fits, Extends
<1>2. ClosedInPlace(r, ls)
  BY DEF Fits, ClosedInPlace, Extends
<1>3. \A p \in ps : /\ Mid(p) \in DOMAIN r.midToIndex /\ r.midToIndex[Mid(p)] = sdp.midToIndex[Mid(p)]
                    /\ r.sections[r.midToIndex[Mid(p)]] = sdp.sections[sdp.midToIndex[Mid(p)]]
  <2> TAKE p \in ps
  <2>1. Mid(p) \in DOMAIN sdp.midToIndex /\ sdp.sections[sdp.midToIndex[Mid(p)]] = Section(Mid(p))
    BY DEF Fits, HaveLines
  <2>2. ~IsClosed(Section(Mid(p)))
    BY DEF Section, IsClosed
  <2> QED BY <2>1, <2>2 DEF Extends, InUse
<1>4. HaveLines(r, ls, ps) /\ Keeps(r, sdp, ps)
  BY <1>3 DEF Fits, HaveLines, Keeps
<1> QED BY <1>1, <1>2, <1>4 DEF Fits

\* Only the sections and the map matter.
LEMMA FitsRole ==
  ASSUME NEW sdp, NEW ls, NEW ps, NEW known, Fits(sdp, ls, ps, known)
  PROVE  Fits(UpdateDtlsRole(sdp), ls, ps, known) /\ Keeps(UpdateDtlsRole(sdp), sdp, ps)
<1> DEFINE r == UpdateDtlsRole(sdp)
<1>1. Sound(r) /\ r.sections = sdp.sections /\ r.midToIndex = sdp.midToIndex
  BY DtlsSound DEF Fits
<1> HIDE DEF r
<1>2. Fits(r, ls, ps, known) /\ Keeps(r, sdp, ps)
  BY <1>1 DEF Fits, Keeps, MidsOf, ClosedInPlace, ClosedMids, ClosedSections, HaveLines
<1> QED BY <1>2 DEF r

LEMMA FitsSetup ==
  ASSUME NEW sdp, NEW ls, NEW ps, NEW known, Fits(sdp, ls, ps, known)
  PROVE  /\ Fits(SetupTransport(sdp), ls, ps, known) /\ Keeps(SetupTransport(sdp), sdp, ps)
         /\ SetupTransport(sdp).sections = sdp.sections
         /\ SetupTransport(sdp).midToIndex = sdp.midToIndex
<1>1. UpdateDtlsRole(sdp).sections = sdp.sections /\ UpdateDtlsRole(sdp).midToIndex = sdp.midToIndex
  BY DtlsSound DEF Fits
<1>2. Keeps(sdp, sdp, ps)
  BY DEF Keeps
<1> QED BY <1>1, <1>2, FitsRole DEF SetupTransport

\* The section of a producer that stops is closed.
LEMMA FitsClosed ==
  ASSUME NEW sdp, NEW ls, NEW ps \in SUBSET Producers, NEW known, Fits(sdp, ls, ps, known),
         NEW p \in ps
  PROVE  LET r == CloseMediaSection(sdp, Mid(p))
         IN  Fits(r, ls, ps \ {p}, known) /\ r.midToIndex = sdp.midToIndex
<1> DEFINE r == CloseMediaSection(sdp, Mid(p))
           k == sdp.midToIndex[Mid(p)]
<1>1. /\ Mid(p) \in DOMAIN sdp.midToIndex /\ k \in DOMAIN ls /\ ls[k] = Line(Mid(p))
      /\ sdp.sections[k] = Section(Mid(p)) /\ k \in DOMAIN sdp.sections
  BY DEF Fits, HaveLines, Sound, IsSdp
<1>2. /\ Sound(r) /\ r.midToIndex = sdp.midToIndex
      /\ \A m \in DOMAIN sdp.midToIndex \ {Mid(p)} :
           r.sections[r.midToIndex[m]] = sdp.sections[sdp.midToIndex[m]]
      /\ ClosedMids(r) \subseteq ClosedMids(sdp) \cup {Mid(p)}
      /\ ClosedSections(r) \subseteq ClosedSections(sdp) \cup {k}
      /\ MidsOf(r) = MidsOf(sdp) /\ DOMAIN r.sections = DOMAIN sdp.sections
      /\ \A i \in DOMAIN sdp.sections : r.sections[i].mid = sdp.sections[i].mid
  BY <1>1, CloseSound DEF Fits
<1>3. ls[k].mid = Mid(p) /\ sdp.sections[k].mid = Mid(p)
  BY <1>1 DEF Line, Section
<1> HIDE DEF r, k
<1>4. ClosedInPlace(r, ls)
  <2>1. DataMid \notin ClosedMids(r)
    BY <1>2, SendMids DEF Fits, ClosedInPlace
  <2>2. ASSUME NEW i \in ClosedSections(r), NEW j \in DOMAIN ls, ls[j].mid = r.sections[i].mid
        PROVE  i = j
    <3>1. ls[j].mid = sdp.sections[i].mid
      BY <1>2, <2>2 DEF ClosedSections
    <3>2. CASE i = k
      BY <1>1, <1>3, <3>1, <3>2 DEF Fits, LinesDistinct
    <3>3. CASE i # k
      BY <1>2, <3>1, <3>3 DEF Fits, ClosedInPlace
    <3> QED BY <3>2, <3>3
  <2> QED BY <2>1, <2>2 DEF ClosedInPlace
<1>5. HaveLines(r, ls, ps \ {p})
  <2> SUFFICES ASSUME NEW q \in ps \ {p}
               PROVE  r.sections[r.midToIndex[Mid(q)]] = Section(Mid(q))
    BY <1>2 DEF Fits, HaveLines
  <2>1. Mid(q) # Mid(p) /\ Mid(q) \in DOMAIN sdp.midToIndex
    BY SendMids DEF Fits, HaveLines
  <2> QED BY <1>2, <2>1 DEF Fits, HaveLines
<1> QED BY <1>2, <1>4, <1>5 DEF Fits, r

-----------------------------------------------------------------------------
(***************************************************************************)
(* RemoteSdp::Send                                                          *)
(***************************************************************************)
\* The section is guessed at a closed one, or after the last.
LEMMA GuessedSection ==
  ASSUME NEW sdp, Sound(sdp)
  PROVE  LET idx == GetNextMediaSectionIdx(sdp)
         IN  \/ idx \in ClosedSections(sdp) /\ idx \in DOMAIN sdp.sections
             \/ ClosedSections(sdp) = {} /\ idx = Len(sdp.sections) + 1 /\ idx \notin DOMAIN sdp.sections
<1>1. DOMAIN sdp.sections = 1..Len(sdp.sections) /\ Len(sdp.sections) \in Nat
  BY DEF Sound, IsSdp
<1>2. CASE ClosedSections(sdp) = {}
  BY <1>1, <1>2 DEF GetNextMediaSectionIdx
<1>3. CASE ClosedSections(sdp) # {}
  BY <1>3, FirstClosedIsClosed DEF GetNextMediaSectionIdx, ClosedSections
<1> QED BY <1>2, <1>3

\* What the section sent gets is never the mid of a running producer, whether or not the offer
\* gave that section to the new transceiver.
LEMMA SendSectionFits ==
  ASSUME NEW sdp, NEW ls, NEW ps, NEW known \in SUBSET Mids, Fits(sdp, ls, ps, known),
         GetNextMediaSectionIdx(sdp) \in DOMAIN ls
  PROVE  LET r == SendSection(sdp, ls)
         IN  /\ Fits(r, ls, ps, known) /\ Keeps(r, sdp, ps)
             /\ Extends(r, sdp, ls[GetNextMediaSectionIdx(sdp)].mid)
<1> DEFINE idx == GetNextMediaSectionIdx(sdp)
           mid == ls[idx].mid
           r   == SendSection(sdp, ls)
<1>1. mid \in known /\ mid \in Mids
  BY DEF Fits, MidsOfLines
<1>2. idx \notin DOMAIN sdp.sections \/ IsClosed(sdp.sections[idx])
  BY GuessedSection DEF Fits, ClosedSections
<1>3. Sound(r) /\ Extends(r, sdp, mid)
  <2>1. CASE idx \in ClosedSections(sdp) /\ idx \in DOMAIN sdp.sections
    <3>1. mid \notin ClosedMids(sdp) \/ mid = sdp.sections[idx].mid
      BY DEF Fits, ClosedInPlace, ClosedMids
    <3>2. r = ReplaceMediaSection(sdp, Section(mid), sdp.sections[idx].mid)
      BY <2>1 DEF SendSection
    <3> QED BY <1>1, <2>1, <3>1, <3>2, ReplaceSound DEF Fits
  <2>2. CASE ClosedSections(sdp) = {} /\ idx \notin DOMAIN sdp.sections
    <3>1. r = AddMediaSection(sdp, Section(mid))
      BY <2>2 DEF SendSection
    <3>2. mid \notin ClosedMids(sdp)
      BY <2>2 DEF ClosedMids
    <3> QED BY <1>1, <3>1, <3>2, AddSound DEF Fits
  <2> QED BY <2>1, <2>2, GuessedSection DEF Fits
<1>4. \A p \in ps : Mid(p) # mid
  <2> SUFFICES ASSUME NEW p \in ps, Mid(p) = mid PROVE FALSE
    OBVIOUS
  <2> DEFINE i == sdp.midToIndex[Mid(p)]
  <2>1. /\ i \in DOMAIN ls /\ ls[i] = Line(Mid(p)) /\ sdp.sections[i] = Section(Mid(p))
        /\ i \in DOMAIN sdp.sections
    BY DEF Fits, HaveLines, Sound, IsSdp
  <2>2. ls[i].mid = ls[idx].mid /\ ~IsClosed(sdp.sections[i])
    BY <2>1 DEF Line, Section, IsClosed
  <2>3. i = idx
    BY <2>1, <2>2 DEF Fits, LinesDistinct
  <2> QED BY <1>2, <2>1, <2>2, <2>3
<1> QED BY <1>1, <1>3, <1>4, FitsExtended

\* The sections that result.
LEMMA SendSectionAt ==
  ASSUME NEW sdp, Sound(sdp), NEW ls \in Seq(Lines), GetNextMediaSectionIdx(sdp) \in DOMAIN ls
  PROVE  LET idx == GetNextMediaSectionIdx(sdp)
             r   == SendSection(sdp, ls)
         IN  /\ r.sections[idx] = Section(ls[idx].mid)
             /\ \A i \in DOMAIN sdp.sections : i # idx => r.sections[i] = sdp.sections[i]
             /\ Len(r.sections) = IF ClosedSections(sdp) = {} THEN Len(sdp.sections) + 1
                                                              ELSE Len(sdp.sections)
<1> DEFINE idx == GetNextMediaSectionIdx(sdp)
           s   == Section(ls[idx].mid)
           r   == SendSection(sdp, ls)
<1>1. sdp.sections \in Seq(MediaSections)
  BY DEF Sound, IsSdp
<1>2. CASE idx \in ClosedSections(sdp) /\ idx \in DOMAIN sdp.sections
  <2>1. sdp.midToIndex[sdp.sections[idx].mid] = idx
    BY <1>2 DEF Sound, ClosedKeyed, ClosedSections
  <2>2. r.sections = [sdp.sections EXCEPT ![idx] = s]
    BY <1>2, <2>1 DEF SendSection, ReplaceMediaSection
  <2> HIDE DEF idx, s, r
  <2>3. /\ r.sections[idx] = s /\ Len(r.sections) = Len(sdp.sections)
        /\ \A i \in DOMAIN sdp.sections : i # idx => r.sections[i] = sdp.sections[i]
    BY <1>1, <1>2, <2>2
  <2> QED BY <1>2, <2>3 DEF idx, s, r
<1>3. CASE /\ ClosedSections(sdp) = {} /\ idx = Len(sdp.sections) + 1
           /\ idx \notin DOMAIN sdp.sections
  <2>1. r.sections = Append(sdp.sections, s)
    BY <1>3 DEF SendSection, AddMediaSection
  <2>2. s \in MediaSections
    <3>1. ls[idx] \in Lines
      OBVIOUS
    <3> QED BY <3>1, SectionType DEF Lines
  <2> HIDE DEF idx, s, r
  <2>3. /\ r.sections[idx] = s /\ Len(r.sections) = Len(sdp.sections) + 1
        /\ \A i \in DOMAIN sdp.sections : i # idx => r.sections[i] = sdp.sections[i]
    BY <1>1, <1>3, <2>1, <2>2
  <2> QED BY <1>3, <2>3 DEF idx, s, r
<1> QED BY <1>2, <1>3, GuessedSection

-----------------------------------------------------------------------------
(***************************************************************************)
(* While sections and lines agree, so do the two parties                    *)
(***************************************************************************)
LEMMA AgreeTaken ==
  ASSUME NEW sdp, Sound(sdp), NEW ls \in Seq(Lines), Len(ls) = Len(sdp.sections),
         \A i \in DOMAIN ls : /\ ls[i].mid = sdp.sections[i].mid
                              /\ ~IsClosed(sdp.sections[i]) => ls[i].used
  PROVE  /\ MediaSectionsInSameOrder(ls, sdp)
         /\ Agree(sdp, RemoveStoppedTransceivers(ls, sdp))
         /\ HasDataLine(RemoveStoppedTransceivers(ls, sdp)) <=> HasDataLine(ls)
<1> DEFINE r == RemoveStoppedTransceivers(ls, sdp)
<1>1. sdp.media = sdp.sections
  BY DEF Sound, Mirrored
<1>2. /\ DOMAIN r = DOMAIN ls /\ Len(r) = Len(ls)
      /\ \A i \in DOMAIN ls : /\ r[i].mid = ls[i].mid
                              /\ r[i].used <=> ls[i].used /\ ~IsClosed(sdp.media[i])
  BY RemovedLines
<1> HIDE DEF r
<1>3. MediaSectionsInSameOrder(ls, sdp)
  BY <1>1 DEF MediaSectionsInSameOrder
<1>4. Agree(sdp, r)
  BY <1>1, <1>2 DEF Agree
<1>5. HasDataLine(r) <=> HasDataLine(ls)
  BY <1>2 DEF HasDataLine
<1> QED BY <1>3, <1>4, <1>5 DEF r

\* The line that WebRTC takes is the section that the handler guesses.
LEMMA AgreeOnNext ==
  ASSUME NEW sdp, Sound(sdp), NEW ls \in Seq(Lines), Agree(sdp, ls)
  PROVE  /\ Unused(ls) = ClosedSections(sdp) /\ DOMAIN ls = DOMAIN sdp.sections
         /\ NextLine(ls) = GetNextMediaSectionIdx(sdp)
<1>1. DOMAIN ls = DOMAIN sdp.sections
  BY DEF Agree, Sound, IsSdp
<1>2. Unused(ls) = ClosedSections(sdp)
  BY <1>1 DEF Agree, Unused, ClosedSections
<1> QED BY <1>1, <1>2 DEF NextLine, GetNextMediaSectionIdx, FirstClosed, Agree

LEMMA AgreeSend ==
  ASSUME NEW sdp, Sound(sdp), NEW ls \in Seq(Lines), Agree(sdp, ls), NEW mid \in Mids
  PROVE  LET k == GetNextMediaSectionIdx(sdp)
             o == AddTransceiver(ls, mid)
         IN  k \in DOMAIN o /\ o[k] = Line(mid) /\ Agree(SendSection(sdp, o), o)
<1> DEFINE k == GetNextMediaSectionIdx(sdp)
           o == AddTransceiver(ls, mid)
           r == SendSection(sdp, o)
<1>1. /\ Unused(ls) = ClosedSections(sdp) /\ DOMAIN ls = DOMAIN sdp.sections
      /\ NextLine(ls) = k
  BY AgreeOnNext
<1>2. /\ o \in Seq(Lines) /\ k \in DOMAIN o /\ o[k] = Line(mid)
      /\ DOMAIN o = DOMAIN ls \cup {k}
      /\ \A i \in DOMAIN ls : i # k => o[i] = ls[i]
      /\ Len(o) = IF Unused(ls) = {} THEN Len(ls) + 1 ELSE Len(ls)
  <2> HIDE DEF k
  <2> QED BY <1>1, AddTransceiverLines
<1>3. /\ r.sections[k] = Section(o[k].mid)
      /\ \A i \in DOMAIN sdp.sections : i # k => r.sections[i] = sdp.sections[i]
      /\ Len(r.sections) = IF ClosedSections(sdp) = {} THEN Len(sdp.sections) + 1
                                                       ELSE Len(sdp.sections)
  <2> HIDE DEF o
  <2> QED BY <1>2, SendSectionAt
<1>4. o[k].mid = mid /\ o[k].used /\ r.sections[k].mid = mid /\ ~IsClosed(r.sections[k])
  BY <1>2, <1>3, LineType, SectionType
<1> HIDE DEF k, o, r
<1>5. Len(o) = Len(r.sections)
  BY <1>1, <1>2, <1>3 DEF Agree
<1>6. ASSUME NEW i \in DOMAIN o
      PROVE  o[i].mid = r.sections[i].mid /\ (o[i].used <=> ~IsClosed(r.sections[i]))
  <2>1. CASE i = k
    BY <1>4, <2>1
  <2>2. CASE i # k
    <3>1. i \in DOMAIN ls /\ o[i] = ls[i] /\ r.sections[i] = sdp.sections[i]
      BY <1>1, <1>2, <1>3, <2>2
    <3> QED BY <3>1 DEF Agree
  <2> QED BY <2>1, <2>2
<1>7. Agree(r, o)
  BY <1>5, <1>6 DEF Agree
<1> QED BY <1>2, <1>7 DEF k, o, r

\* A new transceiver never takes the line for data.
LEMMA DataLineStays ==
  ASSUME NEW sdp, NEW ls, NEW ps, NEW known, Fits(sdp, ls, ps, known), Agree(sdp, ls),
         NEW mid \in Mids, mid # DataMid
  PROVE  HasDataLine(AddTransceiver(ls, mid)) <=> HasDataLine(ls)
<1> DEFINE o == AddTransceiver(ls, mid)
           k == NextLine(ls)
<1>1. ls \in Seq(Lines) /\ Sound(sdp)
  BY DEF Fits
<1>2. /\ k \in DOMAIN o /\ o[k] = Line(mid) /\ DOMAIN o = DOMAIN ls \cup {k}
      /\ \A i \in DOMAIN ls : i # k => o[i] = ls[i]
      /\ k \in DOMAIN ls => ~ls[k].used
  BY <1>1, AddTransceiverLines
<1> HIDE DEF o, k
<1>3. o[k].mid # DataMid
  BY <1>2, LineType
<1>4. k \in DOMAIN ls => ls[k].mid # DataMid
  <2> SUFFICES ASSUME k \in DOMAIN ls PROVE ls[k].mid # DataMid
    OBVIOUS
  <2>1. k \in ClosedSections(sdp) /\ ls[k].mid = sdp.sections[k].mid
    BY <1>1, <1>2, AgreeOnNext DEF Agree, Unused
  <2> QED BY <2>1 DEF Fits, ClosedInPlace, ClosedMids
<1>5. HasDataLine(o) <=> HasDataLine(ls)
  BY <1>2, <1>3, <1>4 DEF HasDataLine
<1> QED BY <1>5 DEF o

-----------------------------------------------------------------------------
(***************************************************************************)
(* The offer and the answer of Send                                         *)
(***************************************************************************)
LEMMA MidsForMore ==
  ASSUME NEW ps \in SUBSET Producers, NEW p \in Producers
  PROVE  /\ MidsFor(ps) \subseteq MidsFor(ps \cup {p}) /\ MidsFor(ps \cup {p}) \in SUBSET Mids
         /\ Mid(p) \in MidsFor(ps \cup {p}) /\ DataMid \in MidsFor(ps)
         /\ MidsFor(ps) \in SUBSET Mids
BY SendMids DEF MidsFor

\* The lines, with a new transceiver and with the line for data, still fit.
LEMMA OfferFits ==
  ASSUME IInv, NEW p \in Producers, p \notin seen
  PROVE  /\ Fits(remoteSdp, AddTransceiver(lines, Mid(p)), live, MidsFor(seen \cup {p}))
         /\ Fits(remoteSdp, OfferFor(p), live, MidsFor(seen \cup {p}))
         /\ \E k \in DOMAIN OfferFor(p) : OfferFor(p)[k] = Line(Mid(p))
         /\ Mid(p) \notin MidsOf(remoteSdp)
<1> DEFINE a    == AddTransceiver(lines, Mid(p))
           o    == CreateOffer(a, streams)
           more == MidsFor(seen \cup {p})
<1>1. /\ Fits(remoteSdp, lines, live, MidsFor(seen)) /\ lines \in Seq(Lines) /\ LinesDistinct(lines)
      /\ seen \in SUBSET Producers
  BY DEF IInv, Fits, TypeOK
<1>2. Mid(p) \notin MidsFor(seen) /\ Mid(p) \in Mids /\ DataMid \in Mids
  BY <1>1, FreshMid, SendMids
<1>3. Mid(p) \notin MidsOf(remoteSdp) /\ Mid(p) \notin MidsOfLines(lines)
  BY <1>1, <1>2 DEF Fits
<1>4. Mid(p) \notin ClosedMids(remoteSdp)
  BY <1>3 DEF ClosedMids, MidsOf, ClosedSections
<1>5. Grown(a, lines, {Mid(p)})
  BY <1>1, <1>2, <1>3, AddTransceiverGrows
<1>6. Fits(remoteSdp, a, live, more)
  <2>1. Mid(p) \in more /\ MidsFor(seen) \subseteq more
    BY <1>1, MidsForMore
  <2> HIDE DEF more, a
  <2> QED BY <1>1, <1>2, <1>4, <1>5, <2>1, FitsGrown
<1>7. \E k \in DOMAIN a : a[k] = Line(Mid(p))
  BY <1>1, <1>2, AddTransceiverLines
<1> HIDE DEF a
<1>8. a \in Seq(Lines) /\ LinesDistinct(a)
  BY <1>6 DEF Fits
<1>9. Grown(o, a, {DataMid})
  BY <1>8, CreateOfferGrows
<1>10. DataMid \notin ClosedMids(remoteSdp)
  BY <1>1 DEF Fits, ClosedInPlace
<1> HIDE DEF o
<1>11. DataMid \in more
  BY <1>1, MidsForMore
<1>12. Fits(remoteSdp, o, live, more)
  <2> HIDE DEF more
  <2> QED BY <1>2, <1>6, <1>9, <1>10, <1>11, FitsGrown
<1>13. \E k \in DOMAIN o : o[k] = Line(Mid(p))
  BY <1>7, <1>9 DEF Grown, Line
<1> QED BY <1>3, <1>6, <1>12, <1>13 DEF OfferFor, a, o

\* SetupTransport does not touch the sections, so the guess holds through it.
LEMMA SameGuess ==
  ASSUME IInv
  PROVE  GetNextMediaSectionIdx(SetupTransport(remoteSdp)) = GetNextMediaSectionIdx(remoteSdp)
<1>1. SetupTransport(remoteSdp).sections = remoteSdp.sections
  BY FitsSetup DEF IInv
<1> QED BY <1>1 DEF GetNextMediaSectionIdx, ClosedSections, FirstClosed

LEMMA AnswerFits ==
  ASSUME IInv, NEW p \in Producers, p \notin seen, GuessExists(p)
  PROVE  /\ Fits(AnswerFor(p), OfferFor(p), live, MidsFor(seen \cup {p}))
         /\ Keeps(AnswerFor(p), remoteSdp, live)
         /\ MidsOf(AnswerFor(p)) \subseteq
              MidsOf(remoteSdp) \cup {OfferFor(p)[GetNextMediaSectionIdx(remoteSdp)].mid}
         /\ Extends(AnswerFor(p), SetupTransport(remoteSdp),
                    OfferFor(p)[GetNextMediaSectionIdx(remoteSdp)].mid)
<1> DEFINE s    == SetupTransport(remoteSdp)
           o    == OfferFor(p)
           more == MidsFor(seen \cup {p})
           idx  == GetNextMediaSectionIdx(remoteSdp)
           r    == SendSection(s, o)
<1>1. Fits(remoteSdp, o, live, more)
  BY OfferFits
<1>2. more \in SUBSET Mids
  BY MidsForMore DEF IInv, TypeOK
<1>3. GetNextMediaSectionIdx(s) = idx /\ idx \in DOMAIN o
  BY SameGuess DEF GuessExists
<1> HIDE DEF o, more
<1>4. Fits(s, o, live, more) /\ Keeps(s, remoteSdp, live) /\ s.sections = remoteSdp.sections
  BY <1>1, FitsSetup
<1> HIDE DEF s, idx
<1>5. Fits(r, o, live, more) /\ Keeps(r, s, live) /\ Extends(r, s, o[idx].mid)
  BY <1>2, <1>3, <1>4, SendSectionFits
<1> HIDE DEF r
<1>6. Keeps(r, remoteSdp, live)
  BY <1>4, <1>5 DEF Keeps
<1>7. MidsOf(r) \subseteq MidsOf(remoteSdp) \cup {o[idx].mid}
  BY <1>4, <1>5 DEF Extends, MidsOf
<1> QED BY <1>5, <1>6, <1>7 DEF AnswerFor, r, s, o, idx, more

\* An answer that WebRTC takes has the section of the producer where its transceiver is.
LEMMA TakenHasLine ==
  ASSUME IInv, NEW p \in Producers, p \notin seen, GuessExists(p),
         MediaSectionsInSameOrder(OfferFor(p), AnswerFor(p))
  PROVE  Fits(AnswerFor(p), OfferFor(p), live \cup {p}, MidsFor(seen \cup {p}))
<1> DEFINE r   == AnswerFor(p)
           o   == OfferFor(p)
           mid == o[GetNextMediaSectionIdx(remoteSdp)].mid
<1>1. /\ Fits(r, o, live, MidsFor(seen \cup {p}))
      /\ MidsOf(r) \subseteq MidsOf(remoteSdp) \cup {mid}
      /\ Extends(r, SetupTransport(remoteSdp), mid)
  BY AnswerFits
<1>2. PICK k \in DOMAIN o : o[k] = Line(Mid(p))
  BY OfferFits
<1>3. Mid(p) \notin MidsOf(remoteSdp)
  BY OfferFits
<1> HIDE DEF o, r, mid
<1>4. /\ r.media = r.sections /\ r.sections \in Seq(MediaSections) /\ o \in Seq(Lines)
      /\ r.midToIndex \in [DOMAIN r.midToIndex -> DOMAIN r.sections]
  BY <1>1 DEF Fits, Sound, Mirrored, IsSdp
<1>5. DOMAIN o = DOMAIN r.sections /\ \A i \in DOMAIN o : o[i].mid = r.sections[i].mid
  <2>1. Len(o) = Len(r.media) /\ \A i \in DOMAIN o : o[i].mid = r.media[i].mid
    BY DEF MediaSectionsInSameOrder, o, r
  <2> QED BY <1>4, <2>1
<1>6. o[k].mid = Mid(p)
  BY <1>2 DEF Line
<1>7. mid = Mid(p)
  <2>1. Mid(p) \in MidsOf(r)
    BY <1>5, <1>6 DEF MidsOf
  <2> QED BY <1>1, <1>3, <2>1
<1>8. Mid(p) \in DOMAIN r.midToIndex /\ r.sections[r.midToIndex[Mid(p)]] = Section(Mid(p))
  BY <1>1, <1>7 DEF Extends
<1>9. r.midToIndex[Mid(p)] = k
  <2>1. r.midToIndex[Mid(p)] \in DOMAIN o /\ o[r.midToIndex[Mid(p)]].mid = Mid(p)
    BY <1>4, <1>5, <1>8 DEF Section
  <2> QED BY <1>1, <1>6, <2>1 DEF Fits, LinesDistinct
<1>10. HaveLines(r, o, live \cup {p})
  BY <1>1, <1>2, <1>8, <1>9 DEF Fits, HaveLines
<1> QED BY <1>1, <1>10 DEF Fits, r, o

\* Until an exchange throws, the guess is the line of the transceiver and the answer fits.
LEMMA SendAgrees ==
  ASSUME IInv, failures = 0, NEW p \in Producers, p \notin seen
  PROVE  /\ GuessExists(p)
         /\ OfferFor(p)[GetNextMediaSectionIdx(remoteSdp)].mid = Mid(p)
         /\ Agree(AnswerFor(p), OfferFor(p))
         /\ HasDataLine(OfferFor(p)) <=> hasDataChannelMediaSection
<1> DEFINE a == AddTransceiver(lines, Mid(p))
           s == SetupTransport(remoteSdp)
           k == GetNextMediaSectionIdx(remoteSdp)
<1>1. /\ Fits(remoteSdp, lines, live, MidsFor(seen)) /\ lines \in Seq(Lines) /\ Agree(remoteSdp, lines)
      /\ HasDataLine(lines) <=> hasDataChannelMediaSection
      /\ streams # {} => hasDataChannelMediaSection
  BY DEF IInv, Fits, Aligned
<1>2. Mid(p) \in Mids /\ Mid(p) # DataMid
  BY SendMids
<1>3. HasDataLine(a) <=> HasDataLine(lines)
  BY <1>1, <1>2, DataLineStays
<1>4. OfferFor(p) = a
  BY <1>1, <1>3 DEF OfferFor, CreateOffer
<1>5. Sound(s) /\ s.sections = remoteSdp.sections
  BY <1>1, FitsSetup DEF Fits
<1>6. Agree(s, lines)
  BY <1>1, <1>5 DEF Agree
<1>7. GetNextMediaSectionIdx(s) = k
  BY SameGuess
<1> HIDE DEF s, k
<1>8. k \in DOMAIN a /\ a[k] = Line(Mid(p)) /\ Agree(SendSection(s, a), a)
  BY <1>1, <1>2, <1>5, <1>6, <1>7, AgreeSend
<1> HIDE DEF a
<1>9. a[k].mid = Mid(p)
  BY <1>2, <1>8, LineType
<1> QED BY <1>1, <1>3, <1>4, <1>8, <1>9 DEF GuessExists, AnswerFor, s, k

-----------------------------------------------------------------------------
(***************************************************************************)
(* What each step keeps: the sections and lines fit each other, and running *)
(* producers keep their section.                                            *)
(***************************************************************************)
FitsNext == Fits(remoteSdp', lines', live', MidsFor(seen'))

LEMMA FailsCounts ==
  ASSUME IInv, Fails
  PROVE  failures' \in 0..MaxFailures /\ failures' # 0
BY SendBoundsAssumption DEF IInv, TypeOK, Fails

LEMMA EarlyKeeps ==
  ASSUME IInv, NEW ls, NEW known, Fits(remoteSdp, ls, live, known), ThrowsEarly(ls)
  PROVE  Fits(remoteSdp', lines', live, known) /\ Keeps(remoteSdp', remoteSdp, live)
BY FitsSetup DEF ThrowsEarly, Keeps

LEMMA LateKeeps ==
  ASSUME IInv, NEW ls, NEW known, Fits(remoteSdp, ls, live, known),
         NEW sdp, Fits(sdp, ls, live, known), Keeps(sdp, remoteSdp, live), ThrowsLate(ls, sdp)
  PROVE  Fits(remoteSdp', lines', live, known) /\ Keeps(remoteSdp', remoteSdp, live)
BY FitsSetup DEF ThrowsLate

LEMMA SendFits ==
  ASSUME IInv, NEW p \in Producers, Send(p)
  PROVE  FitsNext /\ Keeps(remoteSdp', remoteSdp, live)
<1>1. /\ p \notin seen /\ GuessExists(p) /\ MediaSectionsInSameOrder(OfferFor(p), AnswerFor(p))
      /\ seen' = seen \cup {p} /\ live' = live \cup {p} /\ remoteSdp' = AnswerFor(p)
      /\ lines' = RemoveStoppedTransceivers(OfferFor(p), AnswerFor(p))
  BY DEF Send, Taken
<1>2. Fits(AnswerFor(p), OfferFor(p), live', MidsFor(seen'))
  BY <1>1, TakenHasLine
<1>3. FitsNext
  BY <1>1, <1>2, FitsRemoved DEF FitsNext
<1> QED BY <1>1, <1>3, AnswerFits

LEMMA SendFailsFits ==
  ASSUME IInv, NEW p \in Producers, SendRefused(p) \/ SendMisses(p) \/ SendThrows(p)
  PROVE  FitsNext /\ live' = live /\ Keeps(remoteSdp', remoteSdp, live)
<1>1. p \notin seen /\ seen' = seen \cup {p} /\ live' = live
  BY DEF SendRefused, SendMisses, SendThrows
<1>2. Fits(remoteSdp, OfferFor(p), live, MidsFor(seen'))
  BY <1>1, OfferFits
<1>3. CASE SendRefused(p)
  BY <1>1, <1>3, AnswerFits DEF SendRefused, Refused, FitsNext
<1>4. CASE SendMisses(p)
  BY <1>1, <1>2, <1>4, FitsSetup DEF SendMisses, FitsNext
<1>5. CASE ThrowsEarly(AddTransceiver(lines, Mid(p)))
  BY <1>1, <1>5, OfferFits, EarlyKeeps DEF FitsNext
<1>6. CASE GuessExists(p) /\ ThrowsLate(OfferFor(p), AnswerFor(p))
  BY <1>1, <1>2, <1>6, AnswerFits, LateKeeps DEF FitsNext
<1> QED BY <1>1, <1>3, <1>4, <1>5, <1>6 DEF SendThrows

\* The offer of an exchange that adds no transceiver.
LEMMA PlainOfferFits ==
  ASSUME IInv, NEW ss
  PROVE  Fits(remoteSdp, CreateOffer(lines, ss), live, MidsFor(seen))
<1>1. Fits(remoteSdp, lines, live, MidsFor(seen)) /\ lines \in Seq(Lines) /\ LinesDistinct(lines)
  BY DEF IInv, Fits
<1>2. Grown(CreateOffer(lines, ss), lines, {DataMid})
  BY <1>1, CreateOfferGrows
<1>3. DataMid \in Mids /\ DataMid \in MidsFor(seen) /\ DataMid \notin ClosedMids(remoteSdp)
  BY <1>1, SendMids DEF MidsFor, Fits, ClosedInPlace
<1> QED BY <1>1, <1>2, <1>3, FitsGrown

LEMMA StopFits ==
  ASSUME IInv, NEW p \in Producers, StopSending(p) \/ StopSendingThrows(p)
  PROVE  FitsNext /\ live' = live \ {p} /\ p \in live /\ remoteSdp'.midToIndex = remoteSdp.midToIndex
<1> DEFINE o == CreateOffer(lines, streams)
           r == Stopped(p)
<1>1. p \in live /\ live' = live \ {p} /\ seen' = seen
  BY DEF StopSending, StopSendingThrows
<1>2. live \in SUBSET Producers
  BY DEF IInv, TypeOK
<1>3. /\ Fits(r, lines, live', MidsFor(seen')) /\ Fits(r, o, live', MidsFor(seen'))
      /\ r.midToIndex = remoteSdp.midToIndex
  <2>1. Fits(remoteSdp, lines, live, MidsFor(seen)) /\ Fits(remoteSdp, o, live, MidsFor(seen))
    BY PlainOfferFits DEF IInv
  <2> HIDE DEF o
  <2> QED BY <1>1, <1>2, <2>1, FitsClosed DEF Stopped
<1>4. /\ remoteSdp' = r
      /\ lines' = RemoveStoppedTransceivers(o, r) \/ lines' = o \/ lines' = lines
  BY DEF StopSending, StopSendingThrows, Taken, Refused
<1> HIDE DEF o, r
<1>5. FitsNext
  BY <1>3, <1>4, FitsRemoved DEF FitsNext
<1> QED BY <1>1, <1>3, <1>4, <1>5

\* The section for data goes after the others.
LEMMA DataAnswerFits ==
  ASSUME IInv
  PROVE  /\ Fits(DataAnswer, DataOffer, live, MidsFor(seen)) /\ Keeps(DataAnswer, remoteSdp, live)
         /\ Fits(remoteSdp, DataOffer, live, MidsFor(seen))
<1> DEFINE s == SetupTransport(remoteSdp)
           o == DataOffer
           r == AddMediaSection(s, Section(DataMid))
<1>1. Fits(remoteSdp, o, live, MidsFor(seen))
  BY PlainOfferFits DEF DataOffer
<1> HIDE DEF o
<1>2. Fits(s, o, live, MidsFor(seen)) /\ Keeps(s, remoteSdp, live)
  BY <1>1, FitsSetup
<1> HIDE DEF s
<1>3. DataMid \in Mids /\ DataMid \in MidsFor(seen) /\ DataMid \notin ClosedMids(s) /\ Sound(s)
  BY <1>2, SendMids DEF MidsFor, Fits, ClosedInPlace
<1>4. Sound(r) /\ Extends(r, s, DataMid)
  BY <1>3, AddSound
<1>5. \A p \in live : Mid(p) # DataMid
  BY SendMids DEF IInv, TypeOK
<1> HIDE DEF r
<1>6. Fits(r, o, live, MidsFor(seen)) /\ Keeps(r, s, live)
  BY <1>2, <1>3, <1>4, <1>5, FitsExtended
<1>7. Keeps(r, remoteSdp, live)
  BY <1>2, <1>6 DEF Keeps
<1> QED BY <1>1, <1>6, <1>7 DEF DataAnswer, r, s, o

LEMMA DataFits ==
  ASSUME IInv, SendFirstDataChannel \/ SendFirstDataChannelThrows
  PROVE  FitsNext /\ live' = live /\ Keeps(remoteSdp', remoteSdp, live)
<1>1. live' = live /\ seen' = seen
  BY DEF SendFirstDataChannel, SendFirstDataChannelThrows
<1>2. /\ Fits(DataAnswer, DataOffer, live, MidsFor(seen)) /\ Keeps(DataAnswer, remoteSdp, live)
      /\ Fits(remoteSdp, DataOffer, live, MidsFor(seen))
      /\ Fits(remoteSdp, lines, live, MidsFor(seen))
  BY DataAnswerFits DEF IInv
<1>3. CASE SendFirstDataChannel
  <2>1. /\ remoteSdp' = DataAnswer
        /\ lines' = DataOffer \/ lines' = RemoveStoppedTransceivers(DataOffer, DataAnswer)
    BY <1>3 DEF SendFirstDataChannel, Taken, Refused
  <2> QED BY <1>1, <1>2, <2>1, FitsRemoved DEF FitsNext
<1>4. CASE ThrowsEarly(lines)
  BY <1>1, <1>2, <1>4, EarlyKeeps DEF FitsNext
<1>5. CASE ThrowsLate(DataOffer, DataAnswer)
  BY <1>1, <1>2, <1>5, LateKeeps DEF FitsNext
<1> QED BY <1>1, <1>3, <1>4, <1>5 DEF SendFirstDataChannelThrows

LEMMA RestartFits ==
  ASSUME IInv, RestartIce
  PROVE  FitsNext /\ live' = live /\ Keeps(remoteSdp', remoteSdp, live)
<1> DEFINE o == CreateOffer(lines, streams)
           r == UpdateDtlsRole(remoteSdp)
<1>1. live' = live /\ seen' = seen
  BY DEF RestartIce
<1>2. /\ Fits(r, o, live, MidsFor(seen)) /\ Fits(r, lines, live, MidsFor(seen))
      /\ Keeps(r, remoteSdp, live)
  <2>1. Fits(remoteSdp, lines, live, MidsFor(seen)) /\ Fits(remoteSdp, o, live, MidsFor(seen))
    BY PlainOfferFits DEF IInv
  <2> HIDE DEF o
  <2> QED BY <2>1, FitsRole
<1>3. /\ remoteSdp' = r
      /\ lines' = RemoveStoppedTransceivers(o, r) \/ lines' = o \/ lines' = lines
  BY DEF RestartIce, Taken, Refused
<1> HIDE DEF o, r
<1> QED BY <1>1, <1>2, <1>3, FitsRemoved DEF FitsNext

\* Nothing of it changes.
LEMMA OthersFit ==
  ASSUME IInv, UNCHANGED <<remoteSdp, lines, live, seen>>
  PROVE  FitsNext /\ Keeps(remoteSdp', remoteSdp, live)
BY DEF IInv, FitsNext, Keeps

-----------------------------------------------------------------------------
(***************************************************************************)
(* Until an exchange throws, every answer is taken                          *)
(***************************************************************************)
\* An answer that agrees with its offer is not refused, and its lines agree with it.
LEMMA AgreedIsTaken ==
  ASSUME NEW sdp, Sound(sdp), NEW o \in Seq(Lines), Agree(sdp, o), Taken(o, sdp) \/ Refused(o, sdp)
  PROVE  /\ Agree(remoteSdp', lines') /\ refused' = refused
         /\ HasDataLine(lines') <=> HasDataLine(o)
BY AgreeTaken DEF Agree, Taken, Refused

LEMMA SendAligned ==
  ASSUME IInv, NEW p \in Producers, Send(p) \/ SendRefused(p) \/ SendMisses(p)
  PROVE  Aligned'
<1> SUFFICES ASSUME failures = 0 PROVE Aligned'
  BY DEF Aligned, Send, SendRefused, SendMisses, Taken, Refused
<1>1. p \notin seen /\ UNCHANGED dataVars
  BY DEF Send, SendRefused, SendMisses
<1>2. /\ GuessExists(p) /\ OfferFor(p)[GetNextMediaSectionIdx(remoteSdp)].mid = Mid(p)
      /\ Agree(AnswerFor(p), OfferFor(p))
      /\ HasDataLine(OfferFor(p)) <=> hasDataChannelMediaSection
  BY <1>1, SendAgrees
<1>3. Sound(AnswerFor(p)) /\ OfferFor(p) \in Seq(Lines)
  BY <1>1, <1>2, AnswerFits DEF Fits
<1>4. Taken(OfferFor(p), AnswerFor(p)) \/ Refused(OfferFor(p), AnswerFor(p))
  BY <1>2 DEF Send, SendRefused, SendMisses
<1>5. /\ Agree(remoteSdp', lines') /\ refused' = refused
      /\ HasDataLine(lines') <=> hasDataChannelMediaSection
  BY <1>2, <1>3, <1>4, AgreedIsTaken
<1> QED BY <1>1, <1>5 DEF IInv, Aligned, dataVars

\* Without a new channel the offer has the lines as they are.
LEMMA PlainOfferAgrees ==
  ASSUME IInv, failures = 0
  PROVE  CreateOffer(lines, streams) = lines
BY DEF IInv, Aligned, CreateOffer

LEMMA StopAligned ==
  ASSUME IInv, NEW p \in Producers, StopSending(p)
  PROVE  Aligned'
<1> SUFFICES ASSUME failures = 0 PROVE Aligned'
  BY DEF Aligned, StopSending, Taken, Refused
<1> DEFINE r == Stopped(p)
           k == Index[Mid(p)]
<1>1. p \in live /\ UNCHANGED dataVars
  BY DEF StopSending
<1>2. /\ Sound(remoteSdp) /\ Agree(remoteSdp, lines) /\ lines \in Seq(Lines)
      /\ Mid(p) \in DOMAIN Index /\ k \in DOMAIN lines /\ lines[k] = Line(Mid(p))
  BY <1>1 DEF IInv, Fits, HaveLines, Aligned, Index
<1>3. /\ Sound(r) /\ r.midToIndex = Index /\ DOMAIN r.sections = DOMAIN Sections
      /\ \A m \in DOMAIN Index \ {Mid(p)} : r.sections[r.midToIndex[m]] = Sections[Index[m]]
      /\ \A i \in DOMAIN Sections : r.sections[i].mid = Sections[i].mid
  BY <1>2, CloseSound DEF Stopped, Index, Sections
<1> HIDE DEF r, k
<1>4. DOMAIN lines = DOMAIN Sections
  BY <1>2, AgreeOnNext DEF Sections
<1>5. Len(lines) = Len(r.sections)
  BY <1>2, <1>3, <1>4 DEF Sound, IsSdp
<1>6. ASSUME NEW i \in DOMAIN lines, ~IsClosed(r.sections[i]) PROVE lines[i].used
  <2>1. CASE i = k
    BY <1>2, <2>1 DEF Line
  <2>2. CASE i # k
    <3> SUFFICES ASSUME IsClosed(Sections[i]) PROVE FALSE
      BY <1>2 DEF Agree, Sections
    <3>1. Sections[i].mid \in DOMAIN Index /\ Index[Sections[i].mid] = i
      BY <1>2, <1>4 DEF Sound, ClosedKeyed, Sections, Index
    <3>2. r.sections[i] = Sections[i]
      BY <1>3, <2>2, <3>1 DEF k
    <3> QED BY <1>6, <3>2
  <2> QED BY <2>1, <2>2
<1>7. \A i \in DOMAIN lines : lines[i].mid = r.sections[i].mid
  BY <1>2, <1>3, <1>4 DEF Agree, Sections
<1>8. /\ MediaSectionsInSameOrder(lines, r) /\ Agree(r, RemoveStoppedTransceivers(lines, r))
      /\ HasDataLine(RemoveStoppedTransceivers(lines, r)) <=> HasDataLine(lines)
  BY <1>2, <1>3, <1>5, <1>6, <1>7, AgreeTaken
<1>9. Taken(lines, r) \/ Refused(lines, r)
  BY PlainOfferAgrees DEF StopSending, r
<1> QED BY <1>1, <1>8, <1>9 DEF IInv, Aligned, Taken, Refused, dataVars

LEMMA DataAligned ==
  ASSUME IInv, SendFirstDataChannel
  PROVE  Aligned'
<1> SUFFICES ASSUME failures = 0 PROVE Aligned'
  BY DEF Aligned, SendFirstDataChannel, Taken, Refused
<1> DEFINE s == SetupTransport(remoteSdp)
           l == Line(DataMid)
           d == Section(DataMid)
<1>1. /\ ~HasDataLine(lines) /\ lines \in Seq(Lines) /\ Agree(remoteSdp, lines)
      /\ Fits(remoteSdp, lines, live, MidsFor(seen))
  BY DEF IInv, Aligned, Fits, SendFirstDataChannel
<1>2. DataOffer = Append(lines, l)
  BY <1>1 DEF DataOffer, CreateOffer, SendFirstDataChannel, CreateDataChannel
<1>3. DataAnswer.sections = Append(Sections, d) /\ Sections \in Seq(MediaSections)
  BY <1>1, FitsSetup DEF DataAnswer, AddMediaSection, Sections, Fits, Sound, IsSdp
<1>4. /\ l \in Lines /\ l.mid = DataMid /\ l.used /\ d \in MediaSections /\ d.mid = DataMid
      /\ ~IsClosed(d)
  BY LineType, SectionType, SendMids
<1> HIDE DEF l, d
<1>5. /\ DataOffer \in Seq(Lines) /\ Len(DataOffer) = Len(lines) + 1
      /\ Len(DataAnswer.sections) = Len(Sections) + 1
      /\ DOMAIN DataOffer = 1..(Len(lines) + 1) /\ DataOffer[Len(lines) + 1] = l
      /\ DataAnswer.sections[Len(Sections) + 1] = d
      /\ \A i \in DOMAIN lines : DataOffer[i] = lines[i]
      /\ \A i \in DOMAIN Sections : DataAnswer.sections[i] = Sections[i]
  BY <1>1, <1>2, <1>3, <1>4
<1>6. Len(lines) = Len(Sections) /\ DOMAIN lines = DOMAIN Sections /\ DOMAIN lines = 1..Len(lines)
  BY <1>1, <1>3 DEF Agree, Sections
<1>7. Agree(DataAnswer, DataOffer)
  <2>1. ASSUME NEW i \in DOMAIN DataOffer
        PROVE  /\ DataOffer[i].mid = DataAnswer.sections[i].mid
               /\ DataOffer[i].used <=> ~IsClosed(DataAnswer.sections[i])
    <3>1. CASE i = Len(lines) + 1
      BY <1>4, <1>5, <1>6, <3>1
    <3>2. CASE i # Len(lines) + 1
      <4>1. i \in DOMAIN lines /\ DataOffer[i] = lines[i] /\ DataAnswer.sections[i] = Sections[i]
        BY <1>1, <1>5, <1>6, <3>2
      <4> QED BY <1>1, <4>1 DEF Agree, Sections
    <3> QED BY <3>1, <3>2
  <2> QED BY <1>5, <1>6, <2>1 DEF Agree
<1>8. HasDataLine(DataOffer)
  <2>1. Len(lines) + 1 \in DOMAIN DataOffer
    BY <1>1, <1>5
  <2> QED BY <1>4, <1>5, <2>1 DEF HasDataLine
<1>9. Sound(DataAnswer)
  BY DataAnswerFits DEF Fits
<1>10. /\ Taken(DataOffer, DataAnswer) /\ hasDataChannelMediaSection' = TRUE
  BY <1>5, <1>7, <1>9, AgreeTaken DEF SendFirstDataChannel, Refused, Agree
<1>11. Agree(remoteSdp', lines') /\ refused' = refused /\ HasDataLine(lines')
  BY <1>5, <1>7, <1>8, <1>9, <1>10, AgreedIsTaken
<1> QED BY <1>10, <1>11 DEF IInv, Aligned

LEMMA RestartAligned ==
  ASSUME IInv, RestartIce
  PROVE  Aligned'
<1> SUFFICES ASSUME failures' = 0 PROVE Aligned'
  BY DEF Aligned
<1>1. failures = 0 /\ ~Fails
  BY FailsCounts DEF RestartIce, Taken, Refused
<1> DEFINE r == UpdateDtlsRole(remoteSdp)
<1>2. Sound(remoteSdp) /\ Agree(remoteSdp, lines) /\ lines \in Seq(Lines)
  BY <1>1 DEF IInv, Fits, Aligned
<1>3. Sound(r) /\ Agree(r, lines)
  BY <1>2, DtlsSound DEF Agree
<1>4. Taken(lines, r) \/ Refused(lines, r)
  BY <1>1, PlainOfferAgrees DEF RestartIce
<1> HIDE DEF r
<1>5. /\ Agree(remoteSdp', lines') /\ refused' = refused
      /\ HasDataLine(lines') <=> HasDataLine(lines)
  BY <1>2, <1>3, <1>4, AgreedIsTaken
<1> QED BY <1>1, <1>5 DEF IInv, Aligned, RestartIce, dataVars

-----------------------------------------------------------------------------
(***************************************************************************)
(* Stream ids                                                               *)
(***************************************************************************)
LEMMA NextStream ==
  ASSUME NEW id \in 0..(NumStreams - 1)
  PROVE  /\ NextStreamId(id) \in 0..(NumStreams - 1)
         /\ id + 1 < NumStreams => NextStreamId(id) = id + 1
BY NumStreamsAssumption DEF NextStreamId

\* A step leaves the streams alone, gives out the next, or frees one.
LEMMA StreamSteps ==
  ASSUME Next
  PROVE  \/ UNCHANGED <<nextSendSctpStreamId, streams, created>>
         \/ CreateDataChannel
         \/ streams' \subseteq streams /\ UNCHANGED <<nextSendSctpStreamId, created>>
BY DEF Next, Send, SendRefused, SendMisses, SendThrows, StopSending, StopSendingThrows,
       SendFirstDataChannel, SendFirstDataChannelThrows, SendDataChannel,
       OnSctpDataChannelClosed, RestartIce, dataVars

LEMMA StreamsKept ==
  ASSUME IInv, Next
  PROVE  /\ FirstRound' /\ nextSendSctpStreamId' \in 0..(NumStreams - 1)
         /\ streams' \subseteq 0..(NumStreams - 1) /\ created' \in 0..MaxChannels
<1>1. CASE CreateDataChannel
  <2>1. /\ nextSendSctpStreamId \in 0..(NumStreams - 1) /\ streams \subseteq 0..(NumStreams - 1)
        /\ created \in 0..MaxChannels /\ FirstRound
    BY DEF IInv, TypeOK
  <2>2. /\ NextStreamId(nextSendSctpStreamId) \in 0..(NumStreams - 1)
        /\ nextSendSctpStreamId + 1 < NumStreams =>
             NextStreamId(nextSendSctpStreamId) = nextSendSctpStreamId + 1
    BY <2>1, NextStream
  <2>3. /\ created' = created + 1 /\ created < MaxChannels
        /\ streams' = streams \cup {nextSendSctpStreamId}
        /\ nextSendSctpStreamId' = NextStreamId(nextSendSctpStreamId)
    BY <1>1 DEF CreateDataChannel
  <2>4. FirstRound'
    <3> SUFFICES ASSUME created + 1 < NumStreams
                 PROVE  nextSendSctpStreamId' = created' /\ \A id \in streams' : id < created'
      BY <2>3 DEF FirstRound
    <3>1. nextSendSctpStreamId = created /\ \A id \in streams : id < created
      BY <2>1, NumStreamsAssumption DEF FirstRound
    <3> QED BY <2>1, <2>2, <2>3, <3>1, NumStreamsAssumption
  <2> QED BY <2>1, <2>2, <2>3, <2>4, SendBoundsAssumption
<1>2. CASE streams' \subseteq streams /\ UNCHANGED <<nextSendSctpStreamId, created>>
  BY <1>2 DEF IInv, TypeOK, FirstRound
<1> QED BY <1>1, <1>2, StreamSteps

-----------------------------------------------------------------------------
(***************************************************************************)
(* The invariant                                                            *)
(***************************************************************************)
LEMMA InitHolds == Init => IInv
<1> SUFFICES ASSUME Init PROVE IInv
  OBVIOUS
<1> USE DEF Init
<1>1. Sound(EmptySdp) /\ MidsOf(EmptySdp) = {} /\ ClosedMids(EmptySdp) = {} /\ EmptySdp.sections = <<>>
  BY EmptySound DEF EmptySdp
<1>2. ClosedSections(EmptySdp) = {}
  BY <1>1 DEF ClosedSections
<1>3. Fits(remoteSdp, lines, live, MidsFor(seen))
  BY <1>1, <1>2 DEF Fits, LinesDistinct, MidsOfLines, ClosedInPlace, HaveLines
<1>4. TypeOK
  <2>1. IsSdp(remoteSdp) /\ lines \in Seq(Lines)
    BY <1>1 DEF Sound
  <2>2. /\ nextSendSctpStreamId \in 0..(NumStreams - 1) /\ streams \subseteq 0..(NumStreams - 1)
        /\ created \in 0..MaxChannels /\ failures \in 0..MaxFailures
    BY NumStreamsAssumption, SendBoundsAssumption
  <2> QED BY <2>1, <2>2 DEF TypeOK
<1>5. Aligned
  BY <1>1 DEF Aligned, Agree, HasDataLine
<1>6. FirstRound
  BY DEF FirstRound
<1> QED BY <1>3, <1>4, <1>5, <1>6 DEF IInv

\* Every step keeps the sections of the producers that run before and after it, and only Send and
\* StopSending change who runs.
LEMMA StepFits ==
  ASSUME IInv, Next
  PROVE  /\ FitsNext
         /\ \/ live' = live /\ Keeps(remoteSdp', remoteSdp, live)
            \/ \E p \in Producers : Send(p) /\ Keeps(remoteSdp', remoteSdp, live)
            \/ \E p \in Producers : (StopSending(p) \/ StopSendingThrows(p))
<1>1. CASE \E p \in Producers : Send(p)
  BY <1>1, SendFits
<1>2. CASE \E p \in Producers : SendRefused(p) \/ SendMisses(p) \/ SendThrows(p)
  BY <1>2, SendFailsFits
<1>3. CASE \E p \in Producers : StopSending(p) \/ StopSendingThrows(p)
  BY <1>3, StopFits
<1>4. CASE SendFirstDataChannel \/ SendFirstDataChannelThrows
  BY <1>4, DataFits
<1>5. CASE SendDataChannel \/ \E id \in streams : OnSctpDataChannelClosed(id)
  BY <1>5, OthersFit DEF SendDataChannel, OnSctpDataChannelClosed
<1>6. CASE RestartIce
  BY <1>6, RestartFits
<1> QED BY <1>1, <1>2, <1>3, <1>4, <1>5, <1>6 DEF Next

\* An exchange that throws ends what Aligned says.
LEMMA ThrowsAligned ==
  ASSUME IInv, \/ \E p \in Producers : SendThrows(p) \/ StopSendingThrows(p)
               \/ SendFirstDataChannelThrows
  PROVE  Aligned'
<1>1. Fails
  BY DEF SendThrows, StopSendingThrows, SendFirstDataChannelThrows, ThrowsEarly, ThrowsLate
<1> QED BY <1>1, FailsCounts DEF Aligned

LEMMA ChannelsAligned ==
  ASSUME IInv, SendDataChannel \/ \E id \in streams : OnSctpDataChannelClosed(id)
  PROVE  Aligned'
BY DEF IInv, Aligned, SendDataChannel, OnSctpDataChannelClosed

LEMMA StepAligned ==
  ASSUME IInv, Next
  PROVE  Aligned'
BY SendAligned, StopAligned, DataAligned, RestartAligned, ThrowsAligned, ChannelsAligned DEF Next

LEMMA StepTypes ==
  ASSUME IInv, Next
  PROVE  TypeOK'
<1>1. IsSdp(remoteSdp') /\ lines' \in Seq(Lines)
  BY StepFits DEF FitsNext, Fits, Sound
<1>2. failures' = failures \/ Fails
  BY DEF Next, Send, SendRefused, SendMisses, SendThrows, StopSending, StopSendingThrows,
         SendFirstDataChannel, SendFirstDataChannelThrows, SendDataChannel,
         OnSctpDataChannelClosed, RestartIce, Taken, Refused, ThrowsEarly, ThrowsLate
<1>3. failures' \in 0..MaxFailures
  BY <1>2, FailsCounts DEF IInv, TypeOK
<1>4. transportReady' \in BOOLEAN
  <2>1. transportReady' = transportReady \/ transportReady' = TRUE
    BY DEF Next, Send, SendRefused, SendMisses, SendThrows, StopSending, StopSendingThrows,
           SendFirstDataChannel, SendFirstDataChannelThrows, SendDataChannel,
           OnSctpDataChannelClosed, RestartIce, ThrowsEarly, ThrowsLate
  <2> QED BY <2>1 DEF IInv, TypeOK
<1>5. hasDataChannelMediaSection' \in BOOLEAN
  <2>1. hasDataChannelMediaSection' = hasDataChannelMediaSection \/ hasDataChannelMediaSection' = TRUE
    BY DEF Next, Send, SendRefused, SendMisses, SendThrows, StopSending, StopSendingThrows,
           SendFirstDataChannel, SendFirstDataChannelThrows, SendDataChannel,
           OnSctpDataChannelClosed, RestartIce, dataVars
  <2> QED BY <2>1 DEF IInv, TypeOK
<1>6. refused' \in BOOLEAN
  <2>1. refused' = refused \/ refused' = TRUE
    BY DEF Next, Send, SendRefused, SendMisses, SendThrows, StopSending, StopSendingThrows,
           SendFirstDataChannel, SendFirstDataChannelThrows, SendDataChannel,
           OnSctpDataChannelClosed, RestartIce, Taken, Refused, ThrowsEarly, ThrowsLate, Fails
  <2> QED BY <2>1 DEF IInv, TypeOK
<1>7. live' \subseteq seen' /\ seen' \subseteq Producers
  <2>1. live \subseteq seen /\ seen \subseteq Producers
    BY DEF IInv, TypeOK
  <2> QED BY <2>1 DEF Next, Send, SendRefused, SendMisses, SendThrows, StopSending, StopSendingThrows,
           SendFirstDataChannel, SendFirstDataChannelThrows, SendDataChannel,
           OnSctpDataChannelClosed, RestartIce
<1> QED BY <1>1, <1>3, <1>4, <1>5, <1>6, <1>7, StreamsKept DEF TypeOK

LEMMA NextHolds == IInv /\ [Next]_vars => IInv'
<1> SUFFICES ASSUME IInv, [Next]_vars PROVE IInv'
  OBVIOUS
<1>1. CASE UNCHANGED vars
  BY <1>1 DEF vars, dataVars, IInv, TypeOK, Aligned, FirstRound
<1>2. CASE Next
  BY <1>2, StepTypes, StepFits, StepAligned, StreamsKept DEF IInv, FitsNext
<1> QED BY <1>1, <1>2

\* The strengthened invariant is inductive, for any set of producers with distinct mids, any
\* number of streams, of data channels and of exchanges that throw.
THEOREM Inductive == Spec => []IInv
BY InitHolds, NextHolds, PTL DEF Spec

\* The state keeps its types.
THEOREM Types == Spec => []TypeOK
<1>1. IInv => TypeOK
  BY DEF IInv
<1> QED BY <1>1, Inductive, PTL

\* Until an exchange throws, SendHandler::Send guesses the line WebRTC takes (the same first closed
\* or new section), so no answer is refused and no encoding is looked for in a wrong section.
THEOREM EveryAnswerIsTaken == Spec => []AnswersAreTaken
<1>1. IInv => AnswersAreTaken
  BY DEF IInv, Aligned, AnswersAreTaken
<1> QED BY <1>1, Inductive, PTL

\* Whatever throws or is refused, a producer that runs keeps its open section where its
\* transceiver's line is.
THEOREM RunningKeepTheirLines == Spec => []RunningHaveLines
<1>1. IInv => RunningHaveLines
  BY DEF IInv, Fits, HaveLines, RunningHaveLines, Sections, Index
<1> QED BY <1>1, Inductive, PTL

\* In the first round of stream ids SendDataChannel never meets a stream in use.
THEOREM StreamsAreFree == Spec => []NextStreamIsFree
<1>1. IInv => NextStreamIsFree
  BY DEF IInv, TypeOK, FirstRound, NextStreamIsFree
<1> QED BY <1>1, Inductive, PTL

-----------------------------------------------------------------------------
(***************************************************************************)
(* SendHandler implements SectionSlots                                      *)
(***************************************************************************)
LEMMA RunningSlots ==
  ASSUME NEW sdp, NEW ls, NEW ps \in SUBSET Producers, NEW known, Fits(sdp, ls, ps, known)
  PROVE  /\ \A p \in ps : sdp.midToIndex[Mid(p)] \in Nat \ {0}
         /\ \A p, q \in ps : sdp.midToIndex[Mid(p)] = sdp.midToIndex[Mid(q)] => p = q
<1>1. ASSUME NEW p \in ps
      PROVE  /\ sdp.midToIndex[Mid(p)] \in Nat \ {0}
             /\ sdp.sections[sdp.midToIndex[Mid(p)]].mid = Mid(p)
  <2>1. /\ sdp.midToIndex[Mid(p)] \in DOMAIN ls /\ ls \in Seq(Lines)
        /\ sdp.sections[sdp.midToIndex[Mid(p)]] = Section(Mid(p))
    BY DEF Fits, HaveLines
  <2>2. DOMAIN ls \subseteq Nat \ {0}
    BY <2>1
  <2> QED BY <2>1, <2>2 DEF Section
<1> QED BY <1>1, SendMids

LEMMA SendIsStart ==
  ASSUME IInv, IInv', NEW p \in Producers, Send(p), Keeps(remoteSdp', remoteSdp, live)
  PROVE  Slots!Start(p)
<1>1. p \notin live /\ live' = live \cup {p} /\ live \subseteq Producers
  BY DEF Send, IInv, TypeOK
<1>2. \A q \in live : Index'[Mid(q)] = Index[Mid(q)]
  BY DEF Keeps, Index
<1>3. /\ \A q \in live' : Index'[Mid(q)] \in Nat \ {0}
      /\ \A q, s \in live' : Index'[Mid(q)] = Index'[Mid(s)] => q = s
  <2>1. Fits(remoteSdp', lines', live', MidsFor(seen'))
    BY DEF IInv
  <2> QED BY <1>1, <2>1, RunningSlots DEF Index
<1>4. slotOf[p] = 0 /\ slotOf'[p] = Index'[Mid(p)] /\ slotOf'[p] \in Nat \ {0}
  BY <1>1, <1>3 DEF slotOf
<1>5. \A q \in Producers : slotOf[q] # slotOf'[p]
  BY <1>1, <1>2, <1>3, <1>4 DEF slotOf
<1>6. slotOf' = [slotOf EXCEPT ![p] = slotOf'[p]]
  BY <1>1, <1>2, <1>4 DEF slotOf
<1> QED BY <1>4, <1>5, <1>6 DEF Slots!Start

LEMMA StopIsStop ==
  ASSUME IInv, NEW p \in Producers, StopSending(p) \/ StopSendingThrows(p)
  PROVE  Slots!Stop(p)
<1>1. p \in live /\ live' = live \ {p} /\ Index' = Index
  BY StopFits DEF Index
<1>2. slotOf[p] # 0
  BY <1>1, RunningSlots DEF slotOf, IInv, TypeOK, Index
<1>3. slotOf' = [slotOf EXCEPT ![p] = 0]
  BY <1>1 DEF slotOf
<1> QED BY <1>2, <1>3 DEF Slots!Stop

LEMMA KeepsStutters ==
  ASSUME live' = live, Keeps(remoteSdp', remoteSdp, live)
  PROVE  slotOf' = slotOf
BY DEF slotOf, Keeps, Index

\* Producers get their m= sections as SectionSlots says: one that no running producer has, which
\* is not moved until StopSending, whatever is recycled, refused or throws in between.
THEOREM ImplementsSectionSlots == Spec => ImplementsSlots
<1>1. Init => Slots!Init
  BY DEF Init, Slots!Init, slotOf
<1>2. IInv /\ IInv' /\ [Next]_vars => [Slots!Next]_slotOf
  <2> SUFFICES ASSUME IInv, IInv', [Next]_vars PROVE Slots!Next \/ slotOf' = slotOf
    OBVIOUS
  <2>1. CASE UNCHANGED vars
    BY <2>1 DEF vars, slotOf, Index
  <2>2. CASE Next
    BY <2>2, StepFits, SendIsStart, StopIsStop, KeepsStutters DEF Slots!Next
  <2> QED BY <2>1, <2>2
<1> QED BY <1>1, <1>2, Inductive, PTL DEF Spec, ImplementsSlots, Slots!Spec
=============================================================================
