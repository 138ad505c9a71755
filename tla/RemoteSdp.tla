----------------------------- MODULE RemoteSdp -----------------------------
(***************************************************************************)
(* Sdp::RemoteSdp: the remote description a handler builds section by       *)
(* section. A value of this module is the C++ object: the media sections,   *)
(* the map from mid to index, the first mid, and the two parts of sdpObject *)
(* that depend on them (the media array and the BUNDLE group).              *)
(*                                                                          *)
(* Indices start at 1. std::map::operator[] inserts index 0 for a mid it    *)
(* does not know; every lookup here is of a known mid, and fails otherwise. *)
(***************************************************************************)
EXTENDS Integers, Sequences, FiniteSets

\* The mids in use: numbers, and the two names the library chooses itself.
NumMid(n)   == <<"mid", n>>
DataMid     == <<"datachannel", 0>>
ProbatorMid == <<"probator", 0>>
NoMid       == <<"", 0>>
Mids        == ({"mid"} \X Nat) \cup {DataMid, ProbatorMid}

\* A section offers media, is inactive (Disable) or is rejected (Close).
States        == {"open", "disabled", "closed"}
Section(mid)  == [mid |-> mid, state |-> "open"]
IsClosed(s)   == s.state = "closed"
MediaSections == [mid : Mids, state : States]

EmptySdp ==
  [sections |-> <<>>, midToIndex |-> [m \in {} |-> 0], firstMid |-> NoMid,
   media |-> <<>>, bundle |-> [i \in {} |-> NoMid]]

\* The BUNDLE group: the mids of the sections that are not rejected, in order,
\* each under the index of its section.
RegenerateBundleMids(sections) ==
  [i \in {j \in DOMAIN sections : ~IsClosed(sections[j])} |-> sections[i].mid]

\* midToIndex.erase(old); midToIndex[mid] = idx
\* Mutant: the size is taken for the last index.
ReindexPast(map, old, mid, idx) ==
  [m \in (DOMAIN map \ old) \cup {mid} |-> IF m = mid THEN idx + 1 ELSE map[m]]
Reindex(map, old, mid, idx) ==
  [m \in (DOMAIN map \ old) \cup {mid} |-> IF m = mid THEN idx ELSE map[m]]

AddMediaSection(sdp, s) ==
  LET added == Append(sdp.sections, s)
  IN  [sections   |-> added,
       midToIndex |-> Reindex(sdp.midToIndex, {}, s.mid, Len(added)),
       firstMid   |-> IF sdp.firstMid = NoMid THEN s.mid ELSE sdp.firstMid,
       media      |-> Append(sdp.media, s),
       bundle     |-> RegenerateBundleMids(added)]

\* Mutant: the new mid is entered for the last section, as when one is added.
ReplaceAsLast(sdp, s, reuseMid) ==
  LET idx      == sdp.midToIndex[reuseMid]
      replaced == [sdp.sections EXCEPT ![idx] = s]
  IN  [sections   |-> replaced,
       midToIndex |-> Reindex(sdp.midToIndex, {sdp.sections[idx].mid}, s.mid, Len(replaced)),
       firstMid   |-> sdp.firstMid,
       media      |-> [sdp.media EXCEPT ![idx] = s],
       bundle     |-> RegenerateBundleMids(replaced)]
ReplaceMediaSection(sdp, s, reuseMid) ==
  LET idx      == sdp.midToIndex[reuseMid]
      replaced == [sdp.sections EXCEPT ![idx] = s]
  IN  [sections   |-> replaced,
       midToIndex |-> Reindex(sdp.midToIndex, {sdp.sections[idx].mid}, s.mid, idx),
       firstMid   |-> sdp.firstMid,
       media      |-> [sdp.media EXCEPT ![idx] = s],
       bundle     |-> RegenerateBundleMids(replaced)]

\* The first section carries the bundled transport and is never rejected.
\* Mutant: it is closed like the others.
CloseAny(sdp, mid) == "closed"
StateOnClose(sdp, mid) == IF mid = sdp.firstMid THEN "disabled" ELSE "closed"

\* Mutant: the SDP object is not brought up to date.
CloseOnly(sdp, mid) ==
  [sdp EXCEPT !.sections = [sdp.sections EXCEPT ![sdp.midToIndex[mid]] =
                              [mid |-> @.mid, state |-> StateOnClose(sdp, mid)]]]
CloseMediaSection(sdp, mid) ==
  LET idx    == sdp.midToIndex[mid]
      s      == [mid |-> sdp.sections[idx].mid, state |-> StateOnClose(sdp, mid)]
      closed == [sdp.sections EXCEPT ![idx] = s]
  IN  [sections   |-> closed,
       midToIndex |-> sdp.midToIndex,
       firstMid   |-> sdp.firstMid,
       media      |-> [sdp.media EXCEPT ![idx] = s],
       bundle     |-> RegenerateBundleMids(closed)]

ClosedSections(sdp) == {i \in DOMAIN sdp.sections : IsClosed(sdp.sections[i])}
FirstClosed(sdp)    == CHOOSE i \in ClosedSections(sdp) : \A j \in ClosedSections(sdp) : i <= j

\* RemoteSdp::Receive: the first closed section is recycled.
Receive(sdp, mid) ==
  IF ClosedSections(sdp) = {}
  THEN AddMediaSection(sdp, Section(mid))
  ELSE ReplaceMediaSection(sdp, Section(mid), sdp.sections[FirstClosed(sdp)].mid)

RecvSctpAssociation(sdp) == AddMediaSection(sdp, Section(DataMid))

\* UpdateDtlsRole writes every section into the SDP object again.
UpdateDtlsRole(sdp) ==
  [sections |-> sdp.sections, midToIndex |-> sdp.midToIndex, firstMid |-> sdp.firstMid,
   media |-> sdp.sections, bundle |-> sdp.bundle]

IsSdp(sdp) ==
  /\ sdp.sections \in Seq(MediaSections) /\ sdp.firstMid \in Mids \cup {NoMid}
  /\ DOMAIN sdp.midToIndex \subseteq Mids
  /\ sdp.midToIndex \in [DOMAIN sdp.midToIndex -> DOMAIN sdp.sections]
=============================================================================
