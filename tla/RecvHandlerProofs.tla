------------------------- MODULE RecvHandlerProofs -------------------------
(***************************************************************************)
(* RecvHandler keeps its invariants and implements SectionSlots, for any    *)
(* set of consumers and any number of failures.                             *)
(*                                                                          *)
(* The heart of the argument is ClosedInMap: a closed section is always that *)
(* of a consumer that was received, so a fresh mid is never the mid of a    *)
(* closed section and recycling never takes a key from a running consumer.  *)
(***************************************************************************)
EXTENDS RecvHandler, RemoteSdpProofs, FiniteSetTheorems

Numbers == {"mid"} \X Nat

\* What the keys of mapMidTransceiver can be: a mid that LocalId will give out is
\* not among them.
MapKeys ==
  /\ IsFiniteSet(mapMidTransceiver)
  /\ mapMidTransceiver \subseteq Numbers \cup {ProbatorMid}
  /\ MidsGiven => \A m \in mapMidTransceiver \cap Numbers : \E c \in seen : m = NumMid(GivenMid[c])
  /\ ~MidsGiven => \A n \in Nat : NumMid(n) \in mapMidTransceiver => n < Cardinality(mapMidTransceiver)
  /\ ProbatorMid \in mapMidTransceiver => probatorConsumerCreated
  /\ probing => ~probatorConsumerCreated

ClosedInMap == ClosedMids(remoteSdp) \subseteq mapMidTransceiver \cap Numbers

RunningAreNumbered ==
  /\ \A c \in live : localId[c] \in mapMidTransceiver \cap Numbers
  /\ \A c, d \in live : localId[c] = localId[d] => c = d

\* Without a failure every section belongs to the map or is the data section.
NothingLeftBehind ==
  failures = 0 =>
    /\ AllKeyed(remoteSdp)
    /\ MidsOf(remoteSdp) \subseteq mapMidTransceiver \cup {DataMid}
    /\ DataMid \in MidsOf(remoteSdp) => hasDataChannelMediaSection

IInv ==
  /\ TypeOK /\ Sound(remoteSdp) /\ MapKeys /\ ClosedInMap
  /\ RunningAreNumbered /\ RunningHaveSections /\ NothingLeftBehind

-----------------------------------------------------------------------------
LEMMA MidFacts ==
  /\ Numbers \subseteq Mids /\ DataMid \in Mids /\ ProbatorMid \in Mids
  /\ DataMid \notin Numbers /\ ProbatorMid \notin Numbers /\ DataMid # ProbatorMid
  /\ \A n \in Nat : NumMid(n) \in Numbers
  /\ \A m, n \in Nat : NumMid(m) = NumMid(n) => m = n
BY DEF Numbers, Mids, DataMid, ProbatorMid, NumMid

LEMMA CardinalityIsNat ==
  ASSUME MapKeys PROVE Cardinality(mapMidTransceiver) \in Nat
BY FS_CardinalityType DEF MapKeys

\* The mid a consumer is received with is new, given or not.
LEMMA LocalIdIsFresh ==
  ASSUME IInv, NEW c \in Consumers, c \notin seen
  PROVE  LocalId(c) \in Numbers /\ LocalId(c) \notin mapMidTransceiver
<1>1. CASE MidsGiven
  <2>1. LocalId(c) = NumMid(GivenMid[c]) /\ GivenMid[c] \in Nat
    BY <1>1, GivenMidAssumption DEF LocalId
  <2>2. ASSUME NumMid(GivenMid[c]) \in mapMidTransceiver PROVE FALSE
    <3>1. PICK d \in seen : NumMid(GivenMid[c]) = NumMid(GivenMid[d])
      BY <1>1, <2>1, <2>2, MidFacts DEF IInv, MapKeys
    <3>2. d \in Consumers /\ GivenMid[d] \in Nat
      BY GivenMidAssumption DEF IInv, TypeOK
    <3> QED BY <2>1, <3>1, <3>2, GivenMidAssumption, MidFacts
  <2> QED BY <2>1, <2>2, MidFacts
<1>2. CASE ~MidsGiven
  <2>1. LocalId(c) = NumMid(Cardinality(mapMidTransceiver)) /\ Cardinality(mapMidTransceiver) \in Nat
    BY <1>2, CardinalityIsNat DEF LocalId, IInv
  <2> QED BY <1>2, <2>1, MidFacts DEF IInv, MapKeys
<1> QED BY <1>1, <1>2

\* After an exchange, finished or not, the handler holds the offered sections.
LEMMA ExchangeKeeps ==
  ASSUME NEW sdp, NEW mid, Sound(sdp), Extends(sdp, remoteSdp, mid), Exchange(sdp) \/ ExchangeThrows(sdp),
         transportReady \in BOOLEAN
  PROVE  Sound(remoteSdp') /\ Extends(remoteSdp', remoteSdp, mid) /\ transportReady' \in BOOLEAN
<1>1. remoteSdp' = sdp \/ remoteSdp' = UpdateDtlsRole(sdp)
  BY DEF Exchange, ExchangeThrows
<1>2. transportReady' \in BOOLEAN
  BY DEF Exchange, ExchangeThrows
<1>3. Sound(remoteSdp') /\ remoteSdp'.sections = sdp.sections /\ remoteSdp'.midToIndex = sdp.midToIndex
  BY <1>1, DtlsSound
<1>4. Extends(remoteSdp', remoteSdp, mid)
  <2>1. /\ ClosedMids(remoteSdp') = ClosedMids(sdp) /\ MidsOf(remoteSdp') = MidsOf(sdp)
        /\ ClosedSections(remoteSdp') = ClosedSections(sdp)
        /\ AllKeyed(remoteSdp') <=> AllKeyed(sdp)
    BY <1>3 DEF AllKeyed, MidsOf, ClosedMids, ClosedSections
  <2> QED BY <1>3, <2>1 DEF Extends
<1> QED BY <1>2, <1>3, <1>4

\* A section given to a mid of no running consumer leaves their sections alone.
LEMMA RunningKept ==
  ASSUME IInv, NEW mid, Extends(remoteSdp', remoteSdp, mid), \A c \in live : localId[c] # mid
  PROVE  \A c \in live :
           /\ localId[c] \in DOMAIN Index' /\ Index'[localId[c]] = Index[localId[c]]
           /\ Sections'[Index'[localId[c]]] = Section(localId[c])
           /\ Index'[mid] # Index[localId[c]]
<1> TAKE c \in live
<1>1. localId[c] \in Mids /\ localId[c] \in DOMAIN Index /\ Sections[Index[localId[c]]] = Section(localId[c])
  BY MidFacts DEF IInv, RunningAreNumbered, RunningHaveSections
<1>2. localId[c] \in InUse(remoteSdp) \ {mid}
  BY <1>1, SectionType DEF InUse, Sections, Index
<1> QED BY <1>1, <1>2 DEF Extends, Sections, Index

LEMMA InitHolds == Init => IInv
<1> SUFFICES ASSUME Init PROVE IInv
  OBVIOUS
<1>1. remoteSdp = EmptySdp /\ mapMidTransceiver = {} /\ live = {} /\ seen = {} /\ failures = 0
  BY DEF Init
<1>2. Sound(remoteSdp) /\ AllKeyed(remoteSdp) /\ MidsOf(remoteSdp) = {} /\ ClosedMids(remoteSdp) = {}
  BY <1>1, EmptySound
<1>3. TypeOK
  <2>1. /\ transportReady \in BOOLEAN /\ hasDataChannelMediaSection \in BOOLEAN
        /\ probatorConsumerCreated \in BOOLEAN /\ probing \in BOOLEAN
    BY DEF Init
  <2>2. localId \in [Consumers -> Mids \cup {NoMid}]
    BY DEF Init
  <2>3. failures \in 0..MaxFailures
    BY <1>1, MaxFailuresAssumption
  <2> QED BY <1>1, <1>2, <2>1, <2>2, <2>3 DEF TypeOK, Sound
<1>4. MapKeys
  <2>1. IsFiniteSet(mapMidTransceiver)
    BY <1>1, FS_EmptySet
  <2>2. probing = FALSE
    BY DEF Init
  <2> QED BY <1>1, <2>1, <2>2 DEF MapKeys
<1>5. ClosedInMap /\ RunningAreNumbered /\ RunningHaveSections /\ NothingLeftBehind
  BY <1>1, <1>2 DEF ClosedInMap, RunningAreNumbered, RunningHaveSections, NothingLeftBehind
<1> QED BY <1>2, <1>3, <1>4, <1>5 DEF IInv

\* What every step that adds a section under a new mid keeps.
LEMMA SectionAdded ==
  ASSUME IInv, NEW mid \in Mids, NEW sdp, mid \notin mapMidTransceiver \cap Numbers,
         sdp = Receive(remoteSdp, mid) \/ sdp = AddMediaSection(remoteSdp, Section(mid)),
         Exchange(sdp) \/ ExchangeThrows(sdp)
  PROVE  /\ Sound(remoteSdp') /\ Extends(remoteSdp', remoteSdp, mid) /\ transportReady' \in BOOLEAN
         /\ \A c \in live :
              /\ localId[c] \in DOMAIN Index' /\ Index'[localId[c]] = Index[localId[c]]
              /\ Sections'[Index'[localId[c]]] = Section(localId[c])
              /\ Index'[mid] # Index[localId[c]]
<1>1. Sound(sdp) /\ Extends(sdp, remoteSdp, mid)
  BY ReceiveSound, AddSound DEF IInv, ClosedInMap
<1>2. Sound(remoteSdp') /\ Extends(remoteSdp', remoteSdp, mid) /\ transportReady' \in BOOLEAN
  BY <1>1, ExchangeKeeps DEF IInv, TypeOK
<1>3. \A c \in live : localId[c] # mid
  BY DEF IInv, RunningAreNumbered
<1> QED BY <1>2, <1>3, RunningKept

\* Consume gives the consumer a section of its own.
LEMMA ConsumeStarts ==
  ASSUME IInv, NEW c \in Consumers, Consume(c)
  PROVE  /\ localId'[c] = LocalId(c) /\ LocalId(c) \in DOMAIN Index'
         /\ Sections'[Index'[LocalId(c)]] = Section(LocalId(c))
         /\ \A d \in live :
              /\ d # c /\ localId'[d] = localId[d] /\ localId[d] \in DOMAIN Index'
              /\ Index'[localId[d]] = Index[localId[d]] /\ Index'[LocalId(c)] # Index[localId[d]]
              /\ Sections'[Index'[localId[d]]] = Section(localId[d])
<1>1. c \notin seen /\ localId' = [localId EXCEPT ![c] = LocalId(c)]
  BY DEF Consume
<1>2. LocalId(c) \in Numbers /\ LocalId(c) \notin mapMidTransceiver /\ LocalId(c) \in Mids
  BY <1>1, LocalIdIsFresh, MidFacts
<1>3. /\ Extends(remoteSdp', remoteSdp, LocalId(c))
      /\ \A d \in live :
           /\ localId[d] \in DOMAIN Index' /\ Index'[localId[d]] = Index[localId[d]]
           /\ Sections'[Index'[localId[d]]] = Section(localId[d])
           /\ Index'[LocalId(c)] # Index[localId[d]]
  BY <1>2, SectionAdded DEF Consume
<1>4. LocalId(c) \in DOMAIN Index' /\ Sections'[Index'[LocalId(c)]] = Section(LocalId(c))
  BY <1>3 DEF Extends, Sections, Index
<1>5. localId \in [Consumers -> Mids \cup {NoMid}] /\ live \subseteq seen
  BY DEF IInv, TypeOK
<1> QED BY <1>1, <1>3, <1>4, <1>5

-----------------------------------------------------------------------------
LEMMA ConsumeKeeps ==
  ASSUME IInv, NEW c \in Consumers, Consume(c)
  PROVE  IInv'
<1> DEFINE mid == LocalId(c)
<1> USE DEF Consume
<1>1. mid \in Numbers /\ mid \notin mapMidTransceiver /\ mid \in Mids
  BY LocalIdIsFresh, MidFacts
<1>2. Sound(remoteSdp') /\ Extends(remoteSdp', remoteSdp, mid) /\ transportReady' \in BOOLEAN
  BY <1>1, SectionAdded
<1> HIDE DEF mid
<1>3. TypeOK'
  <2>1. IsSdp(remoteSdp')
    BY <1>2 DEF Sound
  <2>2. /\ mapMidTransceiver' \subseteq Mids /\ seen' \subseteq Consumers /\ live' \subseteq seen'
        /\ localId' \in [Consumers -> Mids \cup {NoMid}]
    BY <1>1 DEF IInv, TypeOK, mid
  <2>3. hasDataChannelMediaSection' \in BOOLEAN /\ probatorConsumerCreated' \in BOOLEAN /\ failures' \in 0..MaxFailures
    BY DEF IInv, TypeOK
  <2>4. probing' \in BOOLEAN
    BY Zenon
  <2> QED BY <1>2, <2>1, <2>2, <2>3, <2>4 DEF TypeOK
<1>4. MapKeys'
  <2>1. IsFiniteSet(mapMidTransceiver') /\ Cardinality(mapMidTransceiver') = Cardinality(mapMidTransceiver) + 1
    BY <1>1, FS_AddElement DEF IInv, MapKeys, mid
  <2>2. mapMidTransceiver' \subseteq Numbers \cup {ProbatorMid}
    BY <1>1 DEF IInv, MapKeys, mid
  <2>3. ASSUME MidsGiven, NEW m \in mapMidTransceiver' \cap Numbers
        PROVE  \E d \in seen' : m = NumMid(GivenMid[d])
    BY <2>3 DEF IInv, MapKeys, mid, LocalId
  <2>4. ASSUME ~MidsGiven, NEW n \in Nat, NumMid(n) \in mapMidTransceiver'
        PROVE  n < Cardinality(mapMidTransceiver')
    <3>1. Cardinality(mapMidTransceiver) \in Nat
      BY CardinalityIsNat DEF IInv
    <3>2. CASE NumMid(n) \in mapMidTransceiver
      BY <2>1, <2>4, <3>1, <3>2 DEF IInv, MapKeys
    <3>3. CASE NumMid(n) = mid
      <4>1. n = Cardinality(mapMidTransceiver)
        BY <2>4, <3>1, <3>3, MidFacts DEF mid, LocalId
      <4> QED BY <2>1, <3>1, <4>1
    <3> QED BY <2>4, <3>2, <3>3 DEF mid
  <2>5. ProbatorMid \in mapMidTransceiver' => probatorConsumerCreated'
    BY <1>1, MidFacts DEF IInv, MapKeys, mid
  <2>6. probing' => ~probatorConsumerCreated'
    BY Zenon
  <2> QED BY <2>1, <2>2, <2>3, <2>4, <2>5, <2>6 DEF MapKeys
<1>5. ClosedInMap'
  BY <1>2 DEF IInv, ClosedInMap, Extends
<1>6. RunningAreNumbered'
  <2>1. localId'[c] = mid /\ \A d \in live : localId'[d] = localId[d]
    BY ConsumeStarts DEF mid
  <2>2. live' = live \cup {c} /\ mapMidTransceiver' = mapMidTransceiver \cup {mid}
    BY DEF mid
  <2> QED BY <1>1, <2>1, <2>2 DEF IInv, RunningAreNumbered
<1>7. RunningHaveSections'
  <2> SUFFICES ASSUME NEW d \in live \cup {c}
               PROVE  localId'[d] \in DOMAIN Index' /\ Sections'[Index'[localId'[d]]] = Section(localId'[d])
    BY DEF RunningHaveSections
  <2>1. CASE d = c
    <3>1. /\ localId'[c] = LocalId(c) /\ LocalId(c) \in DOMAIN Index'
          /\ Sections'[Index'[LocalId(c)]] = Section(LocalId(c))
      BY ConsumeStarts
    <3> HIDE DEF Consume
    <3> QED BY <2>1, <3>1
  <2>2. CASE d \in live
    BY <2>2, ConsumeStarts
  <2> QED BY <2>1, <2>2
<1>8. NothingLeftBehind'
  <2> SUFFICES ASSUME failures = 0
               PROVE  NothingLeftBehind'
    BY DEF NothingLeftBehind
  <2>1. mid \notin MidsOf(remoteSdp)
    BY <1>1, MidFacts DEF IInv, NothingLeftBehind
  <2>2. AllKeyed(remoteSdp') /\ MidsOf(remoteSdp') \subseteq MidsOf(remoteSdp) \cup {mid}
    BY <1>2, <2>1 DEF IInv, NothingLeftBehind, Extends
  <2>3. mapMidTransceiver' = mapMidTransceiver \cup {mid} /\ hasDataChannelMediaSection' = hasDataChannelMediaSection
    BY DEF mid
  <2>4. DataMid # mid
    BY <1>1, MidFacts
  <2> QED BY <2>2, <2>3, <2>4 DEF IInv, NothingLeftBehind
<1> QED BY <1>2, <1>3, <1>4, <1>5, <1>6, <1>7, <1>8 DEF IInv

LEMMA StopReceivingKeeps ==
  ASSUME IInv, NEW c \in Consumers, StopReceiving(c)
  PROVE  IInv'
<1> DEFINE mid == localId[c]
<1> USE DEF StopReceiving
<1>1. mid \in DOMAIN remoteSdp.midToIndex /\ mid \in mapMidTransceiver \cap Numbers
  BY DEF IInv, RunningHaveSections, RunningAreNumbered, Index
<1>2. /\ Sound(remoteSdp') /\ remoteSdp'.midToIndex = remoteSdp.midToIndex
      /\ \A m \in DOMAIN remoteSdp.midToIndex \ {mid} :
           remoteSdp'.sections[remoteSdp'.midToIndex[m]] = remoteSdp.sections[remoteSdp.midToIndex[m]]
      /\ ClosedMids(remoteSdp') \subseteq ClosedMids(remoteSdp) \cup {mid}
      /\ MidsOf(remoteSdp') = MidsOf(remoteSdp) /\ (AllKeyed(remoteSdp) => AllKeyed(remoteSdp'))
  BY <1>1, CloseSound DEF IInv
<1> HIDE DEF mid
<1>3. failures \in 0..MaxFailures /\ failures' \in 0..MaxFailures /\ (failures' = 0 => failures = 0)
  BY MaxFailuresAssumption DEF IInv, TypeOK
<1>4. TypeOK'
  BY <1>2, <1>3 DEF IInv, TypeOK, Sound
<1>5. MapKeys'
  BY DEF IInv, MapKeys
<1>6. ClosedInMap'
  BY <1>1, <1>2 DEF IInv, ClosedInMap
<1>7. RunningAreNumbered'
  BY DEF IInv, RunningAreNumbered
<1>8. RunningHaveSections'
  <2> SUFFICES ASSUME NEW d \in live \ {c}
               PROVE  localId[d] \in DOMAIN Index' /\ Sections'[Index'[localId[d]]] = Section(localId[d])
    BY DEF RunningHaveSections
  <2>1. localId[d] # mid
    BY DEF IInv, RunningAreNumbered, mid
  <2> QED BY <1>2, <2>1 DEF IInv, RunningHaveSections, Sections, Index
<1>9. NothingLeftBehind'
  BY <1>2, <1>3 DEF IInv, NothingLeftBehind
<1> QED BY <1>2, <1>4, <1>5, <1>6, <1>7, <1>8, <1>9 DEF IInv

\* The steps that leave the consumers alone: a section is added under a new mid,
\* and the map grows by that mid or not at all.
LEMMA OtherSectionKeeps ==
  ASSUME IInv, NEW mid \in Mids, mid \notin Numbers, NEW sdp,
         sdp = Receive(remoteSdp, mid) \/ sdp = AddMediaSection(remoteSdp, Section(mid)),
         Exchange(sdp) \/ ExchangeThrows(sdp),
         live' = live, localId' = localId,
         mapMidTransceiver \subseteq mapMidTransceiver'
  PROVE  ClosedInMap' /\ RunningAreNumbered' /\ RunningHaveSections' /\ Sound(remoteSdp')
<1>1. /\ Sound(remoteSdp') /\ Extends(remoteSdp', remoteSdp, mid)
      /\ \A c \in live :
           /\ localId[c] \in DOMAIN Index' /\ Sections'[Index'[localId[c]]] = Section(localId[c])
  BY SectionAdded
<1>2. ClosedInMap'
  BY <1>1 DEF IInv, ClosedInMap, Extends
<1>3. RunningAreNumbered'
  BY DEF IInv, RunningAreNumbered
<1>4. RunningHaveSections'
  BY <1>1 DEF RunningHaveSections
<1> QED BY <1>1, <1>2, <1>3, <1>4

\* An exchange that throws is counted.
LEMMA ThrowCounts ==
  ASSUME IInv, NEW sdp, ExchangeThrows(sdp)
  PROVE  failures' \in 0..MaxFailures /\ failures' # 0
<1>1. failures \in 0..MaxFailures /\ failures < MaxFailures /\ failures' = failures + 1
  BY DEF IInv, TypeOK, ExchangeThrows
<1> QED BY <1>1, MaxFailuresAssumption

LEMMA ConsumeThrowsKeeps ==
  ASSUME IInv, NEW c \in Consumers, ConsumeThrows(c)
  PROVE  IInv'
<1> DEFINE mid == LocalId(c)
<1> USE DEF ConsumeThrows
<1>1. mid \in Numbers /\ mid \notin mapMidTransceiver /\ mid \in Mids
  BY LocalIdIsFresh, MidFacts
<1>2. /\ Sound(remoteSdp') /\ Extends(remoteSdp', remoteSdp, mid) /\ transportReady' \in BOOLEAN
      /\ \A d \in live :
           localId[d] \in DOMAIN Index' /\ Sections'[Index'[localId[d]]] = Section(localId[d])
  BY <1>1, SectionAdded
<1> HIDE DEF mid
<1>3. failures' \in 0..MaxFailures /\ failures' # 0
  BY ThrowCounts
<1>4. TypeOK'
  BY <1>2, <1>3 DEF IInv, TypeOK, Sound
<1>5. MapKeys'
  BY DEF IInv, MapKeys
<1>6. ClosedInMap'
  BY <1>2 DEF IInv, ClosedInMap, Extends
<1>7. RunningAreNumbered'
  BY DEF IInv, RunningAreNumbered
<1>8. RunningHaveSections'
  BY <1>2 DEF RunningHaveSections
<1>9. NothingLeftBehind'
  BY <1>3 DEF NothingLeftBehind
<1> QED BY <1>2, <1>4, <1>5, <1>6, <1>7, <1>8, <1>9 DEF IInv

LEMMA ProbeKeeps ==
  ASSUME IInv, Probe
  PROVE  IInv'
<1> USE DEF Probe
<1>1. ProbatorMid \in Mids /\ ProbatorMid \notin Numbers /\ ProbatorMid # DataMid
  BY MidFacts
<1>2. ~probatorConsumerCreated /\ ProbatorMid \notin mapMidTransceiver
  BY DEF IInv, MapKeys
<1>3. ClosedInMap' /\ RunningAreNumbered' /\ RunningHaveSections' /\ Sound(remoteSdp')
  BY <1>1, OtherSectionKeeps
<1>4. Extends(remoteSdp', remoteSdp, ProbatorMid) /\ transportReady' \in BOOLEAN
  BY <1>1, SectionAdded
<1>5. TypeOK'
  BY <1>1, <1>3, <1>4 DEF IInv, TypeOK, Sound
<1>6. MapKeys'
  <2>1. IsFiniteSet(mapMidTransceiver') /\ Cardinality(mapMidTransceiver') = Cardinality(mapMidTransceiver) + 1
    BY <1>2, FS_AddElement DEF IInv, MapKeys
  <2>2. Cardinality(mapMidTransceiver) \in Nat
    BY CardinalityIsNat DEF IInv
  <2>3. mapMidTransceiver' \subseteq Numbers \cup {ProbatorMid}
    BY DEF IInv, MapKeys
  <2>4. ASSUME MidsGiven, NEW m \in mapMidTransceiver' \cap Numbers
        PROVE  \E d \in seen' : m = NumMid(GivenMid[d])
    BY <1>1, <2>4 DEF IInv, MapKeys
  <2>5. ASSUME ~MidsGiven, NEW n \in Nat, NumMid(n) \in mapMidTransceiver'
        PROVE  n < Cardinality(mapMidTransceiver')
    <3>1. NumMid(n) \in mapMidTransceiver
      BY <1>1, <2>5, MidFacts
    <3>2. n < Cardinality(mapMidTransceiver)
      BY <2>5, <3>1 DEF IInv, MapKeys
    <3> HIDE DEF Probe
    <3> QED BY <2>1, <2>2, <3>2
  <2>6. probatorConsumerCreated' /\ ~probing'
    OBVIOUS
  <2> QED BY <2>1, <2>3, <2>4, <2>5, <2>6 DEF MapKeys
<1>7. NothingLeftBehind'
  <2> SUFFICES ASSUME failures = 0
               PROVE  NothingLeftBehind'
    BY DEF NothingLeftBehind
  <2>1. ProbatorMid \notin MidsOf(remoteSdp)
    BY <1>1, <1>2 DEF IInv, NothingLeftBehind
  <2>2. AllKeyed(remoteSdp') /\ MidsOf(remoteSdp') \subseteq MidsOf(remoteSdp) \cup {ProbatorMid}
    BY <1>4, <2>1 DEF IInv, NothingLeftBehind, Extends
  <2> QED BY <1>1, <2>2 DEF IInv, NothingLeftBehind
<1> QED BY <1>3, <1>5, <1>6, <1>7 DEF IInv

LEMMA ProbeThrowsKeeps ==
  ASSUME IInv, ProbeThrows
  PROVE  IInv'
<1> USE DEF ProbeThrows
<1>1. ProbatorMid \in Mids /\ ProbatorMid \notin Numbers
  BY MidFacts
<1>2. ClosedInMap' /\ RunningAreNumbered' /\ RunningHaveSections' /\ Sound(remoteSdp')
  BY <1>1, OtherSectionKeeps
<1>3. transportReady' \in BOOLEAN
  BY <1>1, SectionAdded
<1>4. failures' \in 0..MaxFailures /\ failures' # 0
  BY ThrowCounts
<1>5. TypeOK'
  BY <1>2, <1>3, <1>4 DEF IInv, TypeOK, Sound
<1>6. MapKeys' /\ NothingLeftBehind'
  BY <1>4 DEF IInv, MapKeys, NothingLeftBehind
<1> QED BY <1>2, <1>5, <1>6 DEF IInv

LEMMA ReceiveDataChannelKeeps ==
  ASSUME IInv, ReceiveDataChannel \/ ReceiveDataChannelThrows
  PROVE  IInv'
<1> USE DEF ReceiveDataChannel, ReceiveDataChannelThrows, RecvSctpAssociation, transportVars
<1>1. DataMid \in Mids /\ DataMid \notin Numbers
  BY MidFacts
<1>2. ClosedInMap' /\ RunningAreNumbered' /\ RunningHaveSections' /\ Sound(remoteSdp')
  BY <1>1, OtherSectionKeeps
<1>3. Extends(remoteSdp', remoteSdp, DataMid) /\ transportReady' \in BOOLEAN
  BY <1>1, SectionAdded
<1>4. failures' \in 0..MaxFailures
  BY ThrowCounts DEF IInv, TypeOK
<1>5. hasDataChannelMediaSection' \in BOOLEAN
  BY DEF IInv, TypeOK
<1>6. TypeOK'
  BY <1>2, <1>3, <1>4, <1>5 DEF IInv, TypeOK, Sound
<1>7. MapKeys'
  BY DEF IInv, MapKeys
<1>8. NothingLeftBehind'
  <2>1. CASE ReceiveDataChannelThrows
    BY <2>1, ThrowCounts DEF NothingLeftBehind
  <2>2. CASE ReceiveDataChannel /\ failures = 0
    <3>1. DataMid \notin MidsOf(remoteSdp)
      BY <2>2 DEF IInv, NothingLeftBehind
    <3>2. AllKeyed(remoteSdp') /\ MidsOf(remoteSdp') \subseteq MidsOf(remoteSdp) \cup {DataMid}
      BY <1>3, <2>2, <3>1 DEF IInv, NothingLeftBehind, Extends
    <3> QED BY <2>2, <3>2 DEF IInv, NothingLeftBehind
  <2>3. CASE ReceiveDataChannel /\ failures # 0
    BY <2>3 DEF NothingLeftBehind
  <2> QED BY <2>1, <2>2, <2>3
<1> QED BY <1>2, <1>6, <1>7, <1>8 DEF IInv

LEMMA NextHolds == IInv /\ [Next]_vars => IInv'
<1> SUFFICES ASSUME IInv, [Next]_vars PROVE IInv'
  OBVIOUS
<1>1. CASE UNCHANGED vars
  <2> USE <1>1 DEF vars, transportVars
  <2>1. TypeOK' /\ Sound(remoteSdp')
    BY DEF IInv, TypeOK
  <2>2. MapKeys' /\ ClosedInMap' /\ RunningAreNumbered'
    BY DEF IInv, MapKeys, ClosedInMap, RunningAreNumbered
  <2>3. RunningHaveSections' /\ NothingLeftBehind'
    BY DEF IInv, RunningHaveSections, NothingLeftBehind, Sections, Index
  <2> QED BY <2>1, <2>2, <2>3 DEF IInv
<1>2. CASE Next
  BY <1>2, ConsumeKeeps, ConsumeThrowsKeeps, StopReceivingKeeps, ProbeKeeps, ProbeThrowsKeeps,
     ReceiveDataChannelKeeps DEF Next
<1> QED BY <1>1, <1>2

\* The strengthened invariant is inductive: it holds in every reachable state of
\* a handler with any number of consumers and of exchanges that throw.
THEOREM Inductive == Spec => []IInv
BY InitHolds, NextHolds, PTL DEF Spec

\* The state keeps its types.
THEOREM Types == Spec => []TypeOK
<1>1. IInv => TypeOK
  BY DEF IInv
<1> QED BY <1>1, Inductive, PTL

\* What WebRTC is offered is what the handler holds (CloseMediaSection,
\* ReplaceMediaSection), after any sequence of calls and throws.
THEOREM OffersMirrorTheSections == Spec => []OfferMirrorsSections
<1>1. IInv => OfferMirrorsSections
  BY DEF IInv, Sound, Mirrored, OfferMirrorsSections, Sections
<1> QED BY <1>1, Inductive, PTL

\* The section that carries the bundled transport is never rejected or recycled.
THEOREM FirstSectionIsKept == Spec => []FirstSectionStays
<1>1. IInv => FirstSectionStays
  BY DEF IInv, Sound, FirstKept, FirstSectionStays, Sections
<1> QED BY <1>1, Inductive, PTL

\* A running consumer always has its open section, whatever failed around it.
THEOREM RunningKeepTheirSections == Spec => []RunningHaveSections
<1>1. IInv => RunningHaveSections
  BY DEF IInv
<1> QED BY <1>1, Inductive, PTL

\* As long as nothing throws the offers name every mid once.
THEOREM MidsAreDistinct == Spec => []OffersDistinctMids
<1>1. IInv => OffersDistinctMids
  BY DEF IInv, NothingLeftBehind, AllKeyed, OffersDistinctMids, Sections, Index
<1> QED BY <1>1, Inductive, PTL

-----------------------------------------------------------------------------
\* Steps under which no consumer starts or stops do not move a section.
LEMMA SlotsKept ==
  ASSUME IInv, live' = live, localId' = localId,
         \A c \in live : Index'[localId[c]] = Index[localId[c]]
  PROVE  slotOf' = slotOf
BY DEF slotOf

LEMMA SlotTypes ==
  ASSUME IInv
  PROVE  \A c \in live : c \in Consumers /\ Index[localId[c]] \in Nat \ {0}
<1> TAKE c \in live
<1>1. /\ c \in Consumers /\ localId[c] \in DOMAIN Index
      /\ Index \in [DOMAIN Index -> DOMAIN Sections] /\ Sections \in Seq(MediaSections)
  BY DEF IInv, TypeOK, RunningHaveSections, Sound, IsSdp, Index, Sections
<1>2. DOMAIN Sections \subseteq Nat \ {0}
  BY <1>1
<1> QED BY <1>1, <1>2

LEMMA ConsumeIsStart ==
  ASSUME IInv, IInv', NEW c \in Consumers, Consume(c)
  PROVE  Slots!Start(c)
<1>1. c \notin live /\ live' = live \cup {c} /\ live \subseteq Consumers
  BY DEF Consume, IInv, TypeOK
<1>2. /\ localId'[c] = LocalId(c)
      /\ \A d \in live : /\ localId'[d] = localId[d] /\ Index'[localId[d]] = Index[localId[d]]
                          /\ Index'[LocalId(c)] # Index[localId[d]]
  BY ConsumeStarts
<1>3. Index'[LocalId(c)] \in Nat \ {0}
  <2>1. LocalId(c) \in DOMAIN Index'
    BY ConsumeStarts
  <2>2. Index' \in [DOMAIN Index' -> DOMAIN Sections'] /\ Sections' \in Seq(MediaSections)
    BY DEF IInv, Sound, IsSdp, Index, Sections
  <2>3. DOMAIN Sections' \subseteq Nat \ {0}
    BY <2>2
  <2> QED BY <2>1, <2>2, <2>3
<1>4. slotOf[c] = 0 /\ slotOf'[c] = Index'[LocalId(c)]
  BY <1>1, <1>2 DEF slotOf
<1>5. \A d \in Consumers : slotOf[d] # slotOf'[c]
  BY <1>2, <1>3, <1>4 DEF slotOf
<1>6. slotOf' = [slotOf EXCEPT ![c] = slotOf'[c]]
  BY <1>1, <1>2, <1>4 DEF slotOf
<1> QED BY <1>3, <1>4, <1>5, <1>6 DEF Slots!Start

LEMMA StopReceivingIsStop ==
  ASSUME IInv, NEW c \in Consumers, StopReceiving(c)
  PROVE  Slots!Stop(c)
<1>1. c \in live /\ live' = live \ {c} /\ localId' = localId
  BY DEF StopReceiving
<1>2. Index' = Index
  BY <1>1, CloseSound DEF StopReceiving, IInv, RunningHaveSections, Index
<1>3. slotOf[c] # 0
  BY <1>1, SlotTypes DEF slotOf
<1>4. slotOf' = [slotOf EXCEPT ![c] = 0]
  BY <1>1, <1>2 DEF slotOf
<1> QED BY <1>3, <1>4 DEF Slots!Stop

LEMMA OthersStutter ==
  ASSUME IInv, \/ \E c \in Consumers : ConsumeThrows(c)
               \/ Probe \/ ProbeThrows \/ ReceiveDataChannel \/ ReceiveDataChannelThrows
  PROVE  slotOf' = slotOf
<1>1. CASE \E c \in Consumers : ConsumeThrows(c)
  <2>1. PICK c \in Consumers : ConsumeThrows(c)
    BY <1>1
  <2>2. LocalId(c) \in Mids /\ LocalId(c) \notin mapMidTransceiver
    BY <2>1, LocalIdIsFresh, MidFacts DEF ConsumeThrows
  <2>3. \A d \in live : Index'[localId[d]] = Index[localId[d]]
    BY <2>1, <2>2, SectionAdded DEF ConsumeThrows
  <2> QED BY <2>1, <2>3, SlotsKept DEF ConsumeThrows
<1>2. CASE Probe \/ ProbeThrows
  <2>1. \A d \in live : Index'[localId[d]] = Index[localId[d]]
    BY <1>2, SectionAdded, MidFacts DEF Probe, ProbeThrows
  <2> QED BY <1>2, <2>1, SlotsKept DEF Probe, ProbeThrows
<1>3. CASE ReceiveDataChannel \/ ReceiveDataChannelThrows
  <2>1. \A d \in live : Index'[localId[d]] = Index[localId[d]]
    BY <1>3, SectionAdded, MidFacts DEF ReceiveDataChannel, ReceiveDataChannelThrows, RecvSctpAssociation
  <2> QED BY <1>3, <2>1, SlotsKept DEF ReceiveDataChannel, ReceiveDataChannelThrows, transportVars
<1> QED BY <1>1, <1>2, <1>3

\* The handler implements SectionSlots: a consumer gets a section no running
\* consumer has and keeps it until it stops, whatever is recycled or throws.
THEOREM ImplementsSectionSlots == Spec => ImplementsSlots
<1>1. Init => Slots!Init
  BY DEF Init, Slots!Init, slotOf
<1>2. IInv /\ IInv' /\ [Next]_vars => [Slots!Next]_slotOf
  <2> SUFFICES ASSUME IInv, IInv', [Next]_vars PROVE Slots!Next \/ slotOf' = slotOf
    OBVIOUS
  <2>1. CASE UNCHANGED vars
    BY <2>1, SlotsKept DEF vars, transportVars, Index
  <2>2. CASE Next
    BY <2>2, ConsumeIsStart, StopReceivingIsStop, OthersStutter DEF Next, Slots!Next
  <2> QED BY <2>1, <2>2
<1> QED BY <1>1, <1>2, Inductive, PTL DEF Spec, ImplementsSlots, Slots!Spec

=============================================================================
