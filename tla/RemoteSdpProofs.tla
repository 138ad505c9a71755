-------------------------- MODULE RemoteSdpProofs --------------------------
(***************************************************************************)
(* What the operations of RemoteSdp keep and change, for every description  *)
(* of any length: the lemmas the proofs about the handlers rest on.         *)
(***************************************************************************)
EXTENDS RemoteSdp, WellFoundedInduction, TLAPS

\* Every key of the map leads to the section with that mid.
Keyed(sdp) ==
  \A m \in DOMAIN sdp.midToIndex : sdp.sections[sdp.midToIndex[m]].mid = m

\* Every closed section is found by its mid, so that recycling takes that one.
ClosedKeyed(sdp) ==
  \A i \in DOMAIN sdp.sections :
    IsClosed(sdp.sections[i]) =>
      sdp.sections[i].mid \in DOMAIN sdp.midToIndex /\ sdp.midToIndex[sdp.sections[i].mid] = i

FirstKept(sdp) ==
  /\ sdp.firstMid = NoMid <=> sdp.sections = <<>>
  /\ sdp.sections # <<>> => sdp.sections[1].mid = sdp.firstMid /\ ~IsClosed(sdp.sections[1])

Mirrored(sdp) ==
  sdp.media = sdp.sections /\ sdp.bundle = RegenerateBundleMids(sdp.sections)

Sound(sdp) == IsSdp(sdp) /\ Keyed(sdp) /\ ClosedKeyed(sdp) /\ FirstKept(sdp) /\ Mirrored(sdp)

ClosedMids(sdp) == {sdp.sections[i].mid : i \in ClosedSections(sdp)}
MidsOf(sdp)     == {sdp.sections[i].mid : i \in DOMAIN sdp.sections}

\* No two sections have the same mid and the map has them all.
AllKeyed(sdp) ==
  \A i \in DOMAIN sdp.sections :
    sdp.sections[i].mid \in DOMAIN sdp.midToIndex /\ sdp.midToIndex[sdp.sections[i].mid] = i

\* The keys of the map whose section is not closed.
InUse(sdp) == {m \in DOMAIN sdp.midToIndex : ~IsClosed(sdp.sections[sdp.midToIndex[m]])}

\* r came from sdp by giving mid a section that no other mid in use has, and
\* left the sections of the others alone.
Extends(r, sdp, mid) ==
  /\ mid \in DOMAIN r.midToIndex /\ r.sections[r.midToIndex[mid]] = Section(mid)
  /\ \A m \in InUse(sdp) \ {mid} :
       /\ m \in DOMAIN r.midToIndex /\ r.midToIndex[m] = sdp.midToIndex[m]
       /\ r.sections[r.midToIndex[m]] = sdp.sections[sdp.midToIndex[m]]
       /\ r.midToIndex[mid] # r.midToIndex[m]
  /\ \A i \in ClosedSections(r) : i \in ClosedSections(sdp) /\ r.sections[i] = sdp.sections[i]
  /\ ClosedMids(r) \subseteq ClosedMids(sdp) /\ MidsOf(r) \subseteq MidsOf(sdp) \cup {mid}
  /\ AllKeyed(sdp) /\ mid \notin MidsOf(sdp) => AllKeyed(r)

-----------------------------------------------------------------------------
LEMMA EmptySound == Sound(EmptySdp) /\ AllKeyed(EmptySdp) /\ MidsOf(EmptySdp) = {} /\ ClosedMids(EmptySdp) = {}
<1>1. /\ EmptySdp.sections = <<>> /\ EmptySdp.media = <<>> /\ EmptySdp.firstMid = NoMid
      /\ EmptySdp.bundle = [i \in {} |-> NoMid] /\ EmptySdp.midToIndex = [m \in {} |-> 0]
  BY DEF EmptySdp
<1>2. RegenerateBundleMids(<<>>) = [i \in {} |-> NoMid]
  BY DEF RegenerateBundleMids
<1> QED BY <1>1, <1>2
  DEF Sound, IsSdp, Keyed, ClosedKeyed, FirstKept, Mirrored, AllKeyed, MidsOf, ClosedMids, ClosedSections

LEMMA SectionType == \A mid \in Mids : Section(mid) \in MediaSections /\ Section(mid).mid = mid /\ ~IsClosed(Section(mid))
BY DEF Section, MediaSections, States, IsClosed

LEMMA NoMidIsNone == NoMid \notin Mids
BY DEF NoMid, Mids, DataMid, ProbatorMid

LEMMA AddSound ==
  ASSUME NEW sdp, Sound(sdp), NEW mid \in Mids, mid \notin ClosedMids(sdp)
  PROVE  Sound(AddMediaSection(sdp, Section(mid))) /\ Extends(AddMediaSection(sdp, Section(mid)), sdp, mid)
<1> DEFINE s == Section(mid)
           r == AddMediaSection(sdp, s)
           n == Len(sdp.sections) + 1
<1>1. s \in MediaSections /\ s.mid = mid /\ ~IsClosed(s)
  BY SectionType
<1>2. /\ sdp.sections \in Seq(MediaSections) /\ DOMAIN sdp.midToIndex \subseteq Mids
      /\ sdp.midToIndex \in [DOMAIN sdp.midToIndex -> DOMAIN sdp.sections]
  BY DEF Sound, IsSdp
<1>3. /\ r.sections = Append(sdp.sections, s) /\ r.media = Append(sdp.media, s)
      /\ r.firstMid = IF sdp.firstMid = NoMid THEN mid ELSE sdp.firstMid
      /\ r.bundle = RegenerateBundleMids(r.sections)
      /\ r.midToIndex = Reindex(sdp.midToIndex, {}, mid, Len(Append(sdp.sections, s)))
  BY <1>1 DEF AddMediaSection
<1>4. /\ r.sections \in Seq(MediaSections) /\ DOMAIN r.sections = 1..n /\ n \in Nat \ {0}
      /\ r.sections[n] = s /\ DOMAIN sdp.sections = 1..(n - 1)
      /\ \A i \in 1..(n - 1) : r.sections[i] = sdp.sections[i]
      /\ Len(Append(sdp.sections, s)) = n
  <2> HIDE DEF s
  <2> QED BY <1>1, <1>2, <1>3
<1>5. /\ DOMAIN r.midToIndex = DOMAIN sdp.midToIndex \cup {mid}
      /\ r.midToIndex[mid] = n
      /\ \A m \in DOMAIN sdp.midToIndex : m # mid => r.midToIndex[m] = sdp.midToIndex[m]
      /\ r.midToIndex \in [DOMAIN r.midToIndex -> 1..n]
  BY <1>2, <1>3, <1>4 DEF Reindex
<1> HIDE DEF r, s
<1>6. IsSdp(r)
  BY <1>2, <1>3, <1>4, <1>5 DEF IsSdp, Sound
<1>7. Keyed(r)
  BY <1>1, <1>2, <1>4, <1>5 DEF Keyed, Sound
<1>8. ClosedKeyed(r)
  BY <1>1, <1>2, <1>4, <1>5 DEF ClosedKeyed, Sound, ClosedMids, ClosedSections
<1>9. FirstKept(r)
  <2>1. CASE sdp.sections = <<>>
    <3>1. n = 1
      BY <2>1
    <3> QED BY <1>1, <1>3, <1>4, <2>1, <3>1, NoMidIsNone DEF FirstKept, Sound
  <2>2. CASE sdp.sections # <<>>
    <3>1. n > 1
      BY <1>2, <2>2
    <3> QED BY <1>3, <1>4, <2>2, <3>1 DEF FirstKept, Sound
  <2> QED BY <2>1, <2>2
<1>10. Mirrored(r)
  BY <1>3 DEF Mirrored, Sound
<1>11. /\ ClosedMids(r) \subseteq ClosedMids(sdp) /\ MidsOf(r) \subseteq MidsOf(sdp) \cup {mid}
       /\ \A i \in ClosedSections(r) : i \in ClosedSections(sdp) /\ r.sections[i] = sdp.sections[i]
  <2>1. \A i \in DOMAIN r.sections : i = n \/ (i \in DOMAIN sdp.sections /\ r.sections[i] = sdp.sections[i])
    BY <1>4
  <2> QED BY <1>1, <1>4, <2>1 DEF ClosedMids, ClosedSections, MidsOf
<1>12. ASSUME AllKeyed(sdp), mid \notin MidsOf(sdp) PROVE AllKeyed(r)
  <2>1. \A i \in 1..(n - 1) : r.sections[i].mid = sdp.sections[i].mid /\ sdp.sections[i].mid # mid
    BY <1>4, <1>12 DEF MidsOf
  <2> QED BY <1>1, <1>4, <1>5, <1>12, <2>1 DEF AllKeyed
<1>13. Extends(r, sdp, mid)
  <2>1. ASSUME NEW m \in InUse(sdp) \ {mid}
        PROVE  /\ m \in DOMAIN r.midToIndex /\ r.midToIndex[m] = sdp.midToIndex[m]
               /\ r.sections[r.midToIndex[m]] = sdp.sections[sdp.midToIndex[m]]
               /\ r.midToIndex[mid] # r.midToIndex[m]
    BY <1>2, <1>4, <1>5 DEF InUse
  <2> QED BY <1>4, <1>5, <1>11, <1>12, <2>1 DEF Extends, s
<1>14. Sound(r)
  BY <1>6, <1>7, <1>8, <1>9, <1>10 DEF Sound
<1> QED BY <1>13, <1>14 DEF r, s

\* A set of numbers that is not empty has a least one.
LEMMA LeastExists ==
  ASSUME NEW S \in SUBSET Nat, S # {}
  PROVE  \E i \in S : \A j \in S : i <= j
<1> DEFINE less == {ss \in Nat \X Nat : ss[1] < ss[2]}
<1>1. IsWellFoundedOn(less, Nat)
  BY NatLessThanWellFounded DEF OpToRel
<1> HIDE DEF less
<1>2. PICK i \in S : \A j \in S : ~(<<j, i>> \in less)
  BY <1>1, WFMin
<1>3. \A a, b \in Nat : b < a => <<b, a>> \in less
  BY DEF less
<1>4. \A j \in S : i <= j
  <2> TAKE j \in S
  <2>1. i \in Nat /\ j \in Nat /\ ~(j < i)
    BY <1>2, <1>3
  <2> QED BY <2>1
<1> QED BY <1>4

LEMMA FirstClosedIsClosed ==
  ASSUME NEW sdp, Sound(sdp), ClosedSections(sdp) # {}
  PROVE  FirstClosed(sdp) \in ClosedSections(sdp)
<1>1. ClosedSections(sdp) \in SUBSET Nat
  BY DEF ClosedSections, Sound, IsSdp
<1> QED BY <1>1, LeastExists DEF FirstClosed

\* The mid that takes the place of a closed one is new, or that very one.
LEMMA ReplaceSound ==
  ASSUME NEW sdp, Sound(sdp), NEW mid \in Mids, NEW i \in ClosedSections(sdp),
         mid \notin ClosedMids(sdp) \/ mid = sdp.sections[i].mid
  PROVE  /\ Sound(ReplaceMediaSection(sdp, Section(mid), sdp.sections[i].mid))
         /\ Extends(ReplaceMediaSection(sdp, Section(mid), sdp.sections[i].mid), sdp, mid)
<1> DEFINE s   == Section(mid)
           old == sdp.sections[i].mid
           r   == ReplaceMediaSection(sdp, s, old)
<1>1. s \in MediaSections /\ s.mid = mid /\ ~IsClosed(s)
  BY SectionType
<1>2. /\ sdp.sections \in Seq(MediaSections) /\ DOMAIN sdp.midToIndex \subseteq Mids
      /\ sdp.midToIndex \in [DOMAIN sdp.midToIndex -> DOMAIN sdp.sections]
  BY DEF Sound, IsSdp
<1>3. /\ i \in DOMAIN sdp.sections /\ IsClosed(sdp.sections[i])
      /\ old \in DOMAIN sdp.midToIndex /\ sdp.midToIndex[old] = i
  BY DEF ClosedSections, ClosedMids, Sound, ClosedKeyed
<1>4. /\ r.sections = [sdp.sections EXCEPT ![i] = s]
      /\ r.media = [sdp.media EXCEPT ![i] = s]
      /\ r.firstMid = sdp.firstMid
      /\ r.bundle = RegenerateBundleMids(r.sections)
      /\ r.midToIndex = Reindex(sdp.midToIndex, {old}, mid, i)
  BY <1>1, <1>3 DEF ReplaceMediaSection
<1>5. /\ r.sections \in Seq(MediaSections) /\ DOMAIN r.sections = DOMAIN sdp.sections
      /\ r.sections[i] = s
      /\ \A j \in DOMAIN sdp.sections : j # i => r.sections[j] = sdp.sections[j]
  <2> HIDE DEF s, r
  <2> QED BY <1>1, <1>2, <1>3, <1>4
<1>6. /\ DOMAIN r.midToIndex = (DOMAIN sdp.midToIndex \ {old}) \cup {mid}
      /\ r.midToIndex[mid] = i
      /\ \A m \in DOMAIN sdp.midToIndex \ {old} : m # mid => r.midToIndex[m] = sdp.midToIndex[m]
      /\ r.midToIndex \in [DOMAIN r.midToIndex -> DOMAIN sdp.sections]
  BY <1>2, <1>3, <1>4 DEF Reindex
<1>7. \A m \in DOMAIN sdp.midToIndex \ {old} : sdp.midToIndex[m] # i
  BY <1>3 DEF Sound, Keyed
<1> HIDE DEF r, s, old
<1>8. IsSdp(r)
  BY <1>2, <1>4, <1>5, <1>6 DEF IsSdp, Sound
<1>9. Keyed(r)
  BY <1>1, <1>2, <1>5, <1>6, <1>7 DEF Keyed, Sound
<1>10. ClosedKeyed(r)
  <2> SUFFICES ASSUME NEW j \in DOMAIN r.sections, IsClosed(r.sections[j])
               PROVE  r.sections[j].mid \in DOMAIN r.midToIndex /\ r.midToIndex[r.sections[j].mid] = j
    BY DEF ClosedKeyed
  <2>1. j # i /\ r.sections[j] = sdp.sections[j]
    BY <1>1, <1>5
  <2>2. sdp.sections[j].mid \in DOMAIN sdp.midToIndex /\ sdp.midToIndex[sdp.sections[j].mid] = j
    BY <1>5, <2>1 DEF Sound, ClosedKeyed
  <2>3. sdp.sections[j].mid # mid /\ sdp.sections[j].mid # old
    BY <1>3, <1>5, <2>1, <2>2 DEF ClosedMids, ClosedSections, old
  <2> QED BY <1>6, <2>1, <2>2, <2>3
<1>11. FirstKept(r)
  <2>1. sdp.sections # <<>> /\ r.sections # <<>> /\ 1 \in DOMAIN sdp.sections /\ i # 1
    BY <1>2, <1>3, <1>5 DEF Sound, FirstKept
  <2> QED BY <1>4, <1>5, <2>1 DEF FirstKept, Sound
<1>12. Mirrored(r)
  BY <1>4 DEF Mirrored, Sound
<1>13. /\ ClosedMids(r) \subseteq ClosedMids(sdp) /\ MidsOf(r) \subseteq MidsOf(sdp) \cup {mid}
       /\ \A j \in ClosedSections(r) : j \in ClosedSections(sdp) /\ r.sections[j] = sdp.sections[j]
  BY <1>1, <1>5 DEF ClosedMids, ClosedSections, MidsOf
<1>14. ASSUME AllKeyed(sdp), mid \notin MidsOf(sdp) PROVE AllKeyed(r)
  <2>1. \A j \in DOMAIN sdp.sections :
          j # i => sdp.sections[j].mid # mid /\ sdp.sections[j].mid # old
    BY <1>3, <1>14 DEF MidsOf, AllKeyed
  <2> QED BY <1>1, <1>5, <1>6, <1>14, <2>1 DEF AllKeyed
<1>15. Extends(r, sdp, mid)
  <2>1. ASSUME NEW m \in InUse(sdp) \ {mid}
        PROVE  /\ m \in DOMAIN r.midToIndex /\ r.midToIndex[m] = sdp.midToIndex[m]
               /\ r.sections[r.midToIndex[m]] = sdp.sections[sdp.midToIndex[m]]
               /\ r.midToIndex[mid] # r.midToIndex[m]
    BY <1>2, <1>3, <1>5, <1>6, <1>7 DEF InUse
  <2> QED BY <1>5, <1>6, <1>13, <1>14, <2>1 DEF Extends, s
<1>16. Sound(r)
  BY <1>8, <1>9, <1>10, <1>11, <1>12 DEF Sound
<1> QED BY <1>15, <1>16 DEF r, s, old

LEMMA ReceiveSound ==
  ASSUME NEW sdp, Sound(sdp), NEW mid \in Mids, mid \notin ClosedMids(sdp)
  PROVE  Sound(Receive(sdp, mid)) /\ Extends(Receive(sdp, mid), sdp, mid)
BY AddSound, ReplaceSound, FirstClosedIsClosed DEF Receive

LEMMA CloseSound ==
  ASSUME NEW sdp, Sound(sdp), NEW mid \in DOMAIN sdp.midToIndex
  PROVE  LET r == CloseMediaSection(sdp, mid)
         IN  /\ Sound(r) /\ r.midToIndex = sdp.midToIndex
             /\ \A m \in DOMAIN sdp.midToIndex \ {mid} :
                  r.sections[r.midToIndex[m]] = sdp.sections[sdp.midToIndex[m]]
             /\ ClosedMids(r) \subseteq ClosedMids(sdp) \cup {mid}
             /\ ClosedSections(r) \subseteq ClosedSections(sdp) \cup {sdp.midToIndex[mid]}
             /\ MidsOf(r) = MidsOf(sdp) /\ (AllKeyed(sdp) => AllKeyed(r))
             /\ DOMAIN r.sections = DOMAIN sdp.sections
             /\ \A i \in DOMAIN sdp.sections : r.sections[i].mid = sdp.sections[i].mid
<1> DEFINE i == sdp.midToIndex[mid]
           s == [mid |-> sdp.sections[i].mid, state |-> StateOnClose(sdp, mid)]
           r == CloseMediaSection(sdp, mid)
<1>1. /\ sdp.sections \in Seq(MediaSections) /\ DOMAIN sdp.midToIndex \subseteq Mids
      /\ sdp.midToIndex \in [DOMAIN sdp.midToIndex -> DOMAIN sdp.sections]
      /\ i \in DOMAIN sdp.sections /\ sdp.sections[i].mid = mid /\ mid \in Mids
  BY DEF Sound, IsSdp, Keyed
<1>2. s \in MediaSections /\ s.mid = mid /\ (IsClosed(s) => mid # sdp.firstMid)
  BY <1>1 DEF MediaSections, States, StateOnClose, IsClosed
<1>3. /\ r.sections = [sdp.sections EXCEPT ![i] = s]
      /\ r.media = [sdp.media EXCEPT ![i] = s]
      /\ r.firstMid = sdp.firstMid /\ r.midToIndex = sdp.midToIndex
      /\ r.bundle = RegenerateBundleMids(r.sections)
  BY DEF CloseMediaSection
<1> HIDE DEF r, s, i
<1>4. /\ r.sections \in Seq(MediaSections) /\ DOMAIN r.sections = DOMAIN sdp.sections
      /\ r.sections[i] = s
      /\ \A j \in DOMAIN sdp.sections : j # i => r.sections[j] = sdp.sections[j]
  BY <1>1, <1>2, <1>3
<1>5. \A j \in DOMAIN sdp.sections : r.sections[j].mid = sdp.sections[j].mid
  BY <1>1, <1>2, <1>4
<1>6. IsSdp(r)
  BY <1>1, <1>3, <1>4 DEF IsSdp, Sound
<1>7. Keyed(r)
  BY <1>1, <1>3, <1>5 DEF Keyed, Sound
<1>8. ClosedKeyed(r)
  <2> SUFFICES ASSUME NEW j \in DOMAIN r.sections, IsClosed(r.sections[j])
               PROVE  r.sections[j].mid \in DOMAIN r.midToIndex /\ r.midToIndex[r.sections[j].mid] = j
    BY DEF ClosedKeyed
  <2>1. CASE j = i
    BY <1>1, <1>2, <1>3, <1>4, <2>1 DEF i
  <2>2. CASE j # i
    BY <1>3, <1>4, <2>2 DEF Sound, ClosedKeyed
  <2> QED BY <2>1, <2>2
<1>9. FirstKept(r)
  <2>1. sdp.sections # <<>> /\ r.sections # <<>> /\ 1 \in DOMAIN sdp.sections
    BY <1>1, <1>4
  <2>2. sdp.sections[1].mid = sdp.firstMid /\ ~IsClosed(sdp.sections[1])
    BY <2>1 DEF Sound, FirstKept
  <2>3. ~IsClosed(r.sections[1])
    BY <1>1, <1>2, <1>4, <2>1, <2>2
  <2> QED BY <1>3, <1>5, <2>1, <2>2, <2>3 DEF FirstKept, Sound
<1>10. Mirrored(r)
  BY <1>3 DEF Mirrored, Sound
<1>11. \A m \in DOMAIN sdp.midToIndex \ {mid} :
          r.sections[r.midToIndex[m]] = sdp.sections[sdp.midToIndex[m]]
  <2>1. \A m \in DOMAIN sdp.midToIndex \ {mid} : sdp.midToIndex[m] # i
    BY <1>1 DEF Sound, Keyed
  <2> QED BY <1>1, <1>3, <1>4, <2>1
<1>12. ClosedMids(r) \subseteq ClosedMids(sdp) \cup {mid} /\ ClosedSections(r) \subseteq ClosedSections(sdp) \cup {i}
  BY <1>1, <1>2, <1>4 DEF ClosedMids, ClosedSections
<1>13. MidsOf(r) = MidsOf(sdp) /\ (AllKeyed(sdp) => AllKeyed(r))
  BY <1>3, <1>4, <1>5 DEF MidsOf, AllKeyed
<1> QED BY <1>3, <1>4, <1>5, <1>6, <1>7, <1>8, <1>9, <1>10, <1>11, <1>12, <1>13 DEF Sound, r, i

\* Writing the DTLS role changes nothing in a sound description.
LEMMA DtlsSound ==
  ASSUME NEW sdp, Sound(sdp)
  PROVE  LET r == UpdateDtlsRole(sdp)
         IN  Sound(r) /\ r.sections = sdp.sections /\ r.midToIndex = sdp.midToIndex
<1> DEFINE r == UpdateDtlsRole(sdp)
<1>1. /\ r.sections = sdp.sections /\ r.midToIndex = sdp.midToIndex /\ r.firstMid = sdp.firstMid
      /\ r.media = sdp.sections /\ r.bundle = sdp.bundle
  BY DEF UpdateDtlsRole
<1> HIDE DEF r
<1>2. Sound(r)
  BY <1>1 DEF Sound, IsSdp, Keyed, ClosedKeyed, FirstKept, Mirrored
<1> QED BY <1>1, <1>2 DEF r
=============================================================================
