-------------------------- MODULE JniObjectsProofs --------------------------
(***************************************************************************)
(* Proofs about JniObjects, for every set of threads and objects. The       *)
(* inductive invariant says what is known of an object while a call is at   *)
(* some place on it, whatever other threads do (Placed) and as long as      *)
(* nobody misused its family (Kept), that overlapping calls have been       *)
(* recorded as a misuse, and what is known of each object in any case.      *)
(***************************************************************************)
EXTENDS JniObjects, TLAPS

Alive(o) == native[o] \in {"open", "closed"}

At(o, places) == \E t \in Threads : call[t].obj = o /\ call[t].at \in places

BeingMade == {"create", "negotiated", "wrap", "set"}

\* What is known of object o while a call on it is at place a, whatever the other threads do.
Placed(o, a) ==
  /\ a \in BeingMade =>
       /\ Kind[o] \notin RootKinds /\ handle[o] = "none" /\ listener[o] = "live"
       /\ handle[Parent[o]] # "none"
       /\ IsChild(o) => Parent[o] \in named
  /\ a \in {"create", "negotiated"} => native[o] = "none"
  /\ a = "negotiated" => IsChild(o)
  /\ a \in {"wrap", "set"} => Alive(o)
  /\ a = "set" => o \in named
  /\ a \in {"read", "through", "close", "free"} => handle[o] # "none"
  /\ a = "close" => Kind[o] \in TransportKinds
  /\ a = "through" => IsChild(o)
  /\ a = "free" => ~IsChild(o) /\ (Kind[o] # "Device" => listener[o] = "deleted")

\* What else is known of it as long as nobody misused its family.
Kept(o, a) ==
  Family(o) \notin misused =>
    /\ a = "read" => native[o] # "deleted"
    /\ a = "close" => native[o] = "closed"
    /\ a = "free" /\ Kind[o] # "Device" => native[o] = "closed"
    /\ a = "free" /\ Kind[o] = "Device" =>
         native[o] # "deleted" /\ \A c \in Objs : Parent[c] = o => ~Alive(c)
    /\ a \in BeingMade => handle[Parent[o]] = "set"
    /\ a = "negotiated" => native[Parent[o]] = "open"
    /\ a = "through" => native[Parent[o]] # "deleted" \/ Ambiguous(Parent[o])

CallOK(t) == call[t] # Idle => Placed(call[t].obj, call[t].at) /\ Kept(call[t].obj, call[t].at)

\* Calls that overlap in one family have been recorded.
OverlapsRecorded ==
  \A t, u \in Threads : t # u /\ call[t] # Idle /\ call[u] # Idle /\ Family(call[t].obj) = Family(call[u].obj)
    => Family(call[t].obj) \in misused

\* An object has one creator.
OneCreator ==
  \A t, u \in Threads : call[t].at \in BeingMade /\ call[u].at \in BeingMade /\ call[t].obj = call[u].obj
    => t = u

\* A wrapper's handle is zero exactly when its object is deleted, and producers and consumers are
\* never deleted.
HandleOK(o) ==
  /\ handle[o] = "zero" <=> native[o] = "deleted"
  /\ handle[o] = "set" => Alive(o)
  /\ Alive(o) /\ handle[o] = "none" => Kind[o] \notin RootKinds /\ At(o, {"wrap", "set"})
  /\ handle[o] # "none" /\ Kind[o] \notin RootKinds => o \in named
  /\ IsChild(o) => native[o] # "deleted" /\ listener[o] # "deleted"
  /\ IsChild(o) /\ native[o] # "none" => handle[Parent[o]] # "none"

\* Listeners are deleted with their object, or just before it.
ListenerOK(o) ==
  Kind[o] # "Device" =>
    /\ Alive(o) => listener[o] = "live" \/ At(o, {"free"})
    /\ listener[o] = "live" /\ ~Alive(o) => At(o, {"create", "negotiated"}) \/ o \in failed
    /\ listener[o] = "deleted" => native[o] = "deleted" \/ At(o, {"free"})
    /\ native[o] = "deleted" => listener[o] = "deleted"

\* A transport's device is there.
DeviceOK(o) ==
  Kind[o] \in TransportKinds /\ Alive(o) /\ Parent[o] \notin misused => native[Parent[o]] # "deleted"

\* A child ends once.
EndOK(o) ==
  IsChild(o) =>
    /\ ~(o \in told /\ o \in dropped)
    /\ (native[o] = "closed") <=> (o \in told \cup dropped)

\* The transport finds its open children, but for the ones whose entry another one took.
MapOK(o) == IsChild(o) /\ native[o] = "open" => o \in inMap \/ Shares(o)

\* An open child's transport is there (the body of ChildrenEndWithTransport).
ParentOK(o) ==
  IsChild(o) /\ native[o] = "open" =>
    \/ native[Parent[o]] = "open"
    \/ native[Parent[o]] = "closed" /\ Closing(Parent[o])
    \/ o \notin inMap /\ Shares(o)
    \/ Parent[o] \in misused

ObjOK(o) == HandleOK(o) /\ ListenerOK(o) /\ DeviceOK(o) /\ EndOK(o) /\ MapOK(o) /\ ParentOK(o)

\* Only a transport that has its wrapper gets children, and with them a connection.
ReadyOK == \A o \in ready : Kind[o] \in TransportKinds /\ o \in named

IInv ==
  /\ TypeOK /\ OverlapsRecorded /\ OneCreator /\ ReadyOK /\ UsesAreLive /\ MediaCallbacksAreNamed
  /\ \A t \in Threads : CallOK(t)
  /\ \A o \in Objs : ObjOK(o)

-----------------------------------------------------------------------------
(***************************************************************************)
(* Facts about kinds, families and places                                   *)
(***************************************************************************)
\* The kinds are disjoint, and an object's parent has the kind that creates it.
LEMMA KindFacts ==
  /\ \A o \in Objs : Kind[o] \in RootKinds \/ Kind[o] \in TransportKinds \/ Kind[o] \in ChildKinds
  /\ RootKinds \cap TransportKinds = {} /\ RootKinds \cap ChildKinds = {}
  /\ TransportKinds \cap ChildKinds = {}
  /\ "Device" \in RootKinds /\ "PeerConnection" \in RootKinds
  /\ \A o \in Objs : Kind[o] \in RootKinds => Parent[o] = NoObj
  /\ \A o \in Objs : Kind[o] \in TransportKinds => Parent[o] \in Objs /\ Kind[Parent[o]] = "Device"
  /\ \A o \in Objs : IsChild(o) <=> Kind[o] \in ChildKinds
  /\ \A o \in Objs : Kind[o] \in ChildKinds => Parent[o] \in Objs /\ Kind[Parent[o]] \in TransportKinds
  /\ \A o \in Objs : Kind[o] \notin RootKinds => Parent[o] \in Objs
  /\ NoObj \notin Objs
<1>1. /\ RootKinds \cap TransportKinds = {} /\ RootKinds \cap ChildKinds = {} /\ TransportKinds \cap ChildKinds = {}
      /\ "Device" \in RootKinds /\ "PeerConnection" \in RootKinds
  BY DEF RootKinds, TransportKinds, ChildKinds, DataKinds
<1>2. \A o \in Objs : Kind[o] \in RootKinds \/ Kind[o] \in TransportKinds \/ Kind[o] \in ChildKinds
  BY KindAssumption
<1>3. \A k \in TransportKinds : ParentKind(k) = "Device"
  BY DEF ParentKind
<1>4. \A k \in ChildKinds : ParentKind(k) \in TransportKinds
  BY <1>1 DEF ParentKind, TransportKinds
<1>5. \A o \in Objs : IsChild(o) <=> Kind[o] \in ChildKinds
  BY DEF IsChild
<1> QED
  BY <1>1, <1>2, <1>3, <1>4, <1>5, ParentAssumption, NoObjAssumption

\* The kinds of transports and children by name.
LEMMA KindNames ==
  /\ \A k \in {"SendTransport", "RecvTransport"} : k \in TransportKinds /\ k \notin RootKinds /\ k \notin ChildKinds
  /\ \A k \in {"Producer", "Consumer", "DataProducer", "DataConsumer"} :
       k \in ChildKinds /\ k \notin RootKinds /\ k \notin TransportKinds
  /\ DataKinds \subseteq ChildKinds /\ ProducerKinds \subseteq ChildKinds
  BY DEF RootKinds, TransportKinds, ChildKinds, DataKinds, ProducerKinds

\* A call that is not idle is on an object.
LEMMA CallTypes ==
  ASSUME TypeOK, NEW t \in Threads
  PROVE  /\ call[t] # Idle => call[t].obj \in Objs /\ call[t].at \in Places \ {"idle"}
         /\ call[t].obj # NoObj => call[t] # Idle
         /\ call[t].at # "idle" => call[t] # Idle
<1>1. call[t] \in [obj : Objs \cup {NoObj}, at : Places] /\ ((call[t].obj = NoObj) <=> (call[t].at = "idle"))
  BY DEF TypeOK
<1>2. call[t] # Idle => call[t].obj \in Objs /\ call[t].at \in Places \ {"idle"}
  BY <1>1 DEF Idle
<1> QED
  BY <1>2 DEF Idle

\* What the invariant says of a call that is not idle.
LEMMA InCall ==
  ASSUME IInv, NEW t \in Threads, call[t] # Idle \/ call[t].at # "idle" \/ call[t].obj \in Objs
  PROVE  /\ call[t] # Idle /\ call[t].obj \in Objs /\ call[t].at \in Places \ {"idle"}
         /\ Placed(call[t].obj, call[t].at) /\ Kept(call[t].obj, call[t].at)
<1>1. call[t] # Idle
  BY NoObjAssumption DEF Idle
<1> QED
  BY <1>1, CallTypes DEF IInv, CallOK

\* Sharing an id is for ever: ids are only added.
LEMMA SharesStays ==
  ASSUME empty \subseteq empty'
  PROVE  /\ \A o : Shares(o) => Shares(o)'
         /\ \A o : Ambiguous(o) => Ambiguous(o)'
  BY DEF Shares, Ambiguous, SameKey, IsChild

\* A child that shares its id makes its transport ambiguous.
LEMMA SharesAmbiguous ==
  ASSUME NEW o \in Objs, IsChild(o), Shares(o) PROVE Ambiguous(Parent[o])
  BY DEF Ambiguous

-----------------------------------------------------------------------------
(***************************************************************************)
(* What a step of thread t that changes only object n leaves alone          *)
(***************************************************************************)
\* Histories and names only grow.
Grows == misused \subseteq misused' /\ empty \subseteq empty' /\ named \subseteq named' /\ failed \subseteq failed'

\* Nothing changes but n, and n does not lose its wrapper or get its listener back. Any entry may
\* leave the map.
OnlyAt(n) ==
  /\ \A x \in Objs : x # n =>
       /\ handle'[x] = handle[x] /\ native'[x] = native[x] /\ listener'[x] = listener[x]
       /\ x \in named' <=> x \in named
       /\ x \in told' <=> x \in told
       /\ x \in dropped' <=> x \in dropped
       /\ x \in inMap' => x \in inMap
  /\ handle[n] # "none" => handle'[n] # "none"
  /\ listener[n] = "deleted" => listener'[n] = "deleted"

OthersWait(t) == \A u \in Threads : u # t => call'[u] = call[u]

\* The object in the call of another thread, or its parent, is n only where that is harmless or
\* recorded.
Guarded(t, n) ==
  \A u \in Threads : u # t /\ call[u] # Idle =>
    /\ call[u].obj = n /\ call[u].at \in BeingMade =>
         /\ handle'[n] = handle[n] /\ listener'[n] = listener[n]
         /\ native'[n] = native[n] \/ (Alive(n) /\ Alive(n)')
    /\ call[u].obj = n \/ (Parent[call[u].obj] = n /\ call[u].at \in BeingMade \cup {"through"}) =>
         Family(call[u].obj) \in misused' \/ (native'[n] = native[n] /\ handle'[n] = handle[n])
    /\ Parent[n] = call[u].obj /\ Alive(n)' /\ ~Alive(n) /\ call[u].at = "free" =>
         Family(call[u].obj) \in misused'

\* The calls that others rely on are still where they were.
CallsStay(x) ==
  /\ At(x, {"wrap", "set"}) => At(x, {"wrap", "set"})'
  /\ At(x, {"create", "negotiated"}) => At(x, {"create", "negotiated"})'
  /\ At(x, {"free"}) => At(x, {"free"})'
  /\ Closing(x) => Closing(x)'

\* What is said of the calls of other threads stays true.
LEMMA OthersOK ==
  ASSUME IInv, NEW t \in Threads, NEW n \in Objs, Grows, OnlyAt(n), OthersWait(t), Guarded(t, n),
         NEW u \in Threads, u # t
  PROVE  CallOK(u)'
<1>0. SUFFICES ASSUME call'[u] # Idle PROVE CallOK(u)'
  BY DEF CallOK
<1>1. call'[u] = call[u] /\ call[u] # Idle
  BY <1>0 DEF OthersWait
<1> PICK x, a : x = call[u].obj /\ a = call[u].at
  OBVIOUS
<1>2. x \in Objs /\ a \in Places \ {"idle"} /\ Placed(x, a) /\ Kept(x, a)
  BY <1>1, InCall
<1>3. /\ x = n /\ a \in BeingMade =>
           /\ handle'[n] = handle[n] /\ listener'[n] = listener[n]
           /\ native'[n] = native[n] \/ (Alive(n) /\ Alive(n)')
      /\ x = n \/ (Parent[x] = n /\ a \in BeingMade \cup {"through"}) =>
           Family(x) \in misused' \/ (native'[n] = native[n] /\ handle'[n] = handle[n])
      /\ Parent[n] = x /\ Alive(n)' /\ ~Alive(n) /\ a = "free" => Family(x) \in misused'
  BY <1>1 DEF Guarded
<1>4. Family(x)' = Family(x)
  <2>1. handle[x] = "none" <=> handle'[x] = "none"
    BY <1>2, <1>3 DEF Placed, OnlyAt, Places, BeingMade
  <2> QED
    BY <2>1 DEF Family
<1>5. a \in BeingMade => Parent[x] \in Objs
  BY <1>2, KindFacts DEF Placed
<1>6. a = "through" => Parent[x] \in Objs
  BY <1>2, KindFacts DEF Placed
<1>7. Placed(x, a)'
  <2>1. a \in BeingMade => (handle'[x] = "none" /\ listener'[x] = "live" /\ handle'[Parent[x]] # "none")
    BY <1>2, <1>3, <1>5 DEF Placed, OnlyAt
  <2>2. a \in BeingMade => (IsChild(x) => Parent[x] \in named') /\ Kind[x] \notin RootKinds
    BY <1>2 DEF Placed, Grows
  <2>3. a \in {"create", "negotiated"} => native'[x] = "none"
    BY <1>2, <1>3 DEF Placed, OnlyAt, BeingMade, Alive
  <2>4. a \in {"wrap", "set"} => Alive(x)'
    <3>1. a \in {"wrap", "set"} => a \in BeingMade
      BY DEF BeingMade
    <3>2. a \in {"wrap", "set"} => Alive(x)
      BY <1>2 DEF Placed
    <3> QED
      BY <1>2, <1>3, <3>1, <3>2 DEF OnlyAt, Alive
  <2>5. a = "set" => x \in named'
    BY <1>2 DEF Placed, Grows
  <2>6. a \in {"read", "through", "close", "free"} => handle'[x] # "none"
    BY <1>2 DEF Placed, OnlyAt
  <2>7. a = "free" => ~IsChild(x) /\ (Kind[x] # "Device" => listener'[x] = "deleted")
    BY <1>2 DEF Placed, OnlyAt
  <2>8. (a = "negotiated" => IsChild(x)) /\ (a = "close" => Kind[x] \in TransportKinds) /\ (a = "through" => IsChild(x))
    BY <1>2 DEF Placed
  <2> QED
    BY <2>1, <2>2, <2>3, <2>4, <2>5, <2>6, <2>7, <2>8 DEF Placed, IsChild
<1>8. Kept(x, a)'
  <2>0. SUFFICES ASSUME Family(x) \notin misused'
                 PROVE  /\ a = "read" => native'[x] # "deleted"
                        /\ a = "close" => native'[x] = "closed"
                        /\ a = "free" /\ Kind[x] # "Device" => native'[x] = "closed"
                        /\ a = "free" /\ Kind[x] = "Device" =>
                             native'[x] # "deleted" /\ \A c \in Objs : Parent[c] = x => ~Alive(c)'
                        /\ a \in BeingMade => handle'[Parent[x]] = "set"
                        /\ a = "negotiated" => native'[Parent[x]] = "open"
                        /\ a = "through" => native'[Parent[x]] # "deleted" \/ Ambiguous(Parent[x])'
    BY <1>4 DEF Kept
  <2>1. Family(x) \notin misused
    BY <2>0 DEF Grows
  <2>2. native'[x] = native[x]
    BY <1>2, <1>3, <2>0 DEF OnlyAt
  <2>3. a \in BeingMade \cup {"through"} =>
          native'[Parent[x]] = native[Parent[x]] /\ handle'[Parent[x]] = handle[Parent[x]]
    BY <1>3, <1>5, <1>6, <2>0 DEF OnlyAt
  <2>4. ASSUME a = "free", Kind[x] = "Device", NEW c \in Objs, Parent[c] = x PROVE ~Alive(c)'
    <3>1. ~Alive(c)
      BY <1>2, <2>1, <2>4 DEF Kept
    <3> QED
      BY <1>3, <2>0, <2>4, <3>1 DEF OnlyAt, Alive
  <2>5. Ambiguous(Parent[x]) => Ambiguous(Parent[x])'
    BY SharesStays DEF Grows
  <2> QED
    BY <1>2, <2>1, <2>2, <2>3, <2>4, <2>5 DEF Kept, BeingMade
<1> QED
  BY <1>1, <1>7, <1>8 DEF CallOK

\* What is said of another object stays true.
LEMMA ObjectsOK ==
  ASSUME IInv, NEW n \in Objs, Grows, OnlyAt(n), NEW x \in Objs, x # n,
         \A y \in Objs : y # n => CallsStay(y),
         x \in inMap /\ x \notin inMap' => Shares(x)',
         Parent[x] = n => DeviceOK(x)' /\ ParentOK(x)'
  PROVE  ObjOK(x)'
<1>1. ObjOK(x) /\ CallsStay(x)
  BY DEF IInv
<1>2. handle'[x] = handle[x] /\ native'[x] = native[x] /\ listener'[x] = listener[x]
      /\ (x \in named' <=> x \in named) /\ (x \in told' <=> x \in told) /\ (x \in dropped' <=> x \in dropped)
      /\ (x \in inMap' => x \in inMap)
  BY DEF OnlyAt
<1>3. HandleOK(x)'
  <2>1. IsChild(x) => Parent[x] \in Objs
    BY KindFacts
  <2>2. IsChild(x) /\ native[x] # "none" => handle'[Parent[x]] # "none"
    BY <1>1, <2>1 DEF OnlyAt, ObjOK, HandleOK
  <2>3. Alive(x) /\ handle[x] = "none" => Kind[x] \notin RootKinds /\ At(x, {"wrap", "set"})'
    BY <1>1 DEF ObjOK, HandleOK, CallsStay
  <2> QED
    BY <1>1, <1>2, <2>2, <2>3 DEF ObjOK, HandleOK, Alive, IsChild
<1>4. ListenerOK(x)'
  BY <1>1, <1>2 DEF ObjOK, ListenerOK, Alive, CallsStay, Grows
<1>5. EndOK(x)'
  BY <1>1, <1>2 DEF ObjOK, EndOK, IsChild
<1>6. Shares(x) => Shares(x)'
  BY SharesStays DEF Grows
<1>7. MapOK(x)'
  BY <1>1, <1>2, <1>6 DEF ObjOK, MapOK, IsChild
<1>8. DeviceOK(x)' /\ ParentOK(x)'
  <2>1. CASE Parent[x] = n
    BY <2>1
  <2>2. CASE Parent[x] # n
    <3>1. Kind[x] \notin RootKinds => Parent[x] \in Objs /\ native'[Parent[x]] = native[Parent[x]] /\ CallsStay(Parent[x])
      BY <2>2, KindFacts DEF OnlyAt
    <3>2. Kind[x] \in TransportKinds \/ IsChild(x) => Kind[x] \notin RootKinds
      BY KindFacts
    <3> QED
      BY <1>1, <1>2, <1>6, <3>1, <3>2 DEF ObjOK, DeviceOK, ParentOK, Alive, IsChild, CallsStay, Grows
  <2> QED
    BY <2>1, <2>2
<1> QED
  BY <1>3, <1>4, <1>5, <1>7, <1>8 DEF ObjOK

\* What is below an object is untouched when the object and the close() on it are.
LEMMA BelowStays ==
  ASSUME IInv, NEW n \in Objs, Grows, OnlyAt(n), NEW x \in Objs, x # n, Parent[x] = n,
         native'[n] = native[n], Closing(n) => Closing(n)'
  PROVE  DeviceOK(x)' /\ ParentOK(x)'
<1>1. ObjOK(x)
  BY DEF IInv
<1>2. native'[x] = native[x] /\ (x \in inMap' => x \in inMap)
  BY DEF OnlyAt
<1>3. Shares(x) => Shares(x)'
  BY SharesStays DEF Grows
<1> QED
  BY <1>1, <1>2, <1>3 DEF ObjOK, DeviceOK, ParentOK, Alive, IsChild, Grows

\* A step of thread t that changes only object n.
LEMMA StepInv ==
  ASSUME IInv, TypeOK', NEW t \in Threads, NEW n \in Objs,
         Grows, OnlyAt(n), OthersWait(t), Guarded(t, n),
         \A x \in Objs : x # n => CallsStay(x),
         \A x \in inMap : x # n => x \in inMap' \/ Shares(x)',
         (native'[n] = native[n] /\ (Closing(n) => Closing(n)'))
           \/ \A x \in Objs : x # n /\ Parent[x] = n => DeviceOK(x)' /\ ParentOK(x)',
         CallOK(t)', ObjOK(n)',
         OverlapsRecorded', OneCreator', ReadyOK', UsesAreLive', MediaCallbacksAreNamed'
  PROVE  IInv'
<1>1. \A u \in Threads : CallOK(u)'
  BY OthersOK
<1>2. ASSUME NEW x \in Objs, x # n PROVE ObjOK(x)'
  <2>1. Parent[x] = n => DeviceOK(x)' /\ ParentOK(x)'
    BY <1>2, BelowStays
  <2>2. x \in inMap /\ x \notin inMap' => Shares(x)'
    BY <1>2
  <2> QED
    BY <1>2, <2>1, <2>2, ObjectsOK
<1> QED
  BY <1>1, <1>2 DEF IInv

\* Only flags, channels and histories change.
LEMMA QuietInv ==
  ASSUME IInv, TypeOK', ReadyOK', UsesAreLive', MediaCallbacksAreNamed',
         UNCHANGED <<jniVars, call, mapVars, endVars, misused>>
  PROVE  IInv'
<1>0. UNCHANGED <<handle, native, listener, named, call, inMap, empty, told, dropped, failed, misused>>
  BY DEF jniVars, mapVars, endVars
<1>1. \A x : Family(x)' = Family(x)
  BY <1>0 DEF Family
<1>2. OverlapsRecorded' /\ OneCreator'
  BY <1>0, <1>1 DEF IInv, OverlapsRecorded, OneCreator
<1>3. Grows /\ \A x : (Shares(x) => Shares(x)') /\ (Ambiguous(x) => Ambiguous(x)')
  BY <1>0, SharesStays DEF Grows
<1>4. ASSUME NEW t \in Threads PROVE CallOK(t)'
  BY <1>0, <1>1, <1>3 DEF IInv, CallOK, Placed, Kept, Alive, IsChild
<1>5. ASSUME NEW o \in Objs PROVE ObjOK(o)'
  BY <1>0, <1>3 DEF IInv, ObjOK, HandleOK, ListenerOK, DeviceOK, EndOK, MapOK, ParentOK, Alive, At, Closing, IsChild
<1> QED
  BY <1>2, <1>4, <1>5 DEF IInv

-----------------------------------------------------------------------------
(***************************************************************************)
(* Entering, moving on and leaving                                          *)
(***************************************************************************)
CallType ==
  /\ call \in [Threads -> [obj : Objs \cup {NoObj}, at : Places]]
  /\ \A t \in Threads : (call[t].obj = NoObj) <=> (call[t].at = "idle")

\* A thread is still at some places of an object unless it is t and went elsewhere.
LEMMA AtStays ==
  ASSUME NEW t \in Threads, OthersWait(t), NEW x, NEW p, At(x, p),
         call[t].obj # x \/ call[t].at \notin p \/ (call'[t].obj = x /\ call'[t].at \in p)
  PROVE  At(x, p)'
<1>1. PICK u \in Threads : call[u].obj = x /\ call[u].at \in p
  BY DEF At
<1>2. CASE u = t
  BY <1>1, <1>2 DEF At
<1>3. CASE u # t
  BY <1>1, <1>3 DEF At, OthersWait
<1> QED
  BY <1>2, <1>3

\* The places that CallsStay is about.
LEMMA CallsStayAt ==
  ASSUME NEW t \in Threads, OthersWait(t), NEW x,
         \/ call[t].obj # x
         \/ call[t].at \in {"idle", "read", "through"}
         \/ call'[t].obj = x /\ call'[t].at = call[t].at
         \/ call'[t].obj = x /\ {call[t].at, call'[t].at} \subseteq {"create", "negotiated"}
         \/ call'[t].obj = x /\ {call[t].at, call'[t].at} \subseteq {"wrap", "set"}
  PROVE  CallsStay(x)
<1>1. At(x, {"wrap", "set"}) => At(x, {"wrap", "set"})'
  BY AtStays
<1>2. At(x, {"create", "negotiated"}) => At(x, {"create", "negotiated"})'
  BY AtStays
<1>3. At(x, {"free"}) => At(x, {"free"})'
  BY AtStays
<1>4. At(x, {"close"}) => At(x, {"close"})'
  BY AtStays
<1>5. (Closing(x) <=> At(x, {"close"})) /\ (Closing(x)' <=> At(x, {"close"})')
  BY DEF Closing, At
<1> QED
  BY <1>1, <1>2, <1>3, <1>4, <1>5 DEF CallsStay

\* A thread enters, and an overlap is recorded.
LEMMA EnterFacts ==
  ASSUME IInv, NEW t \in Threads, NEW o \in Objs, NEW a \in Places \ {"idle"}, NEW broken \in SUBSET Objs,
         Enter(t, o, a, broken), UNCHANGED handle,
         a \in BeingMade => listener[o] = "none",
         handle[o] # "none" \/ Kind[o] \notin RootKinds
  PROVE  /\ CallType' /\ OverlapsRecorded' /\ OneCreator'
         /\ misused' \subseteq Objs /\ misused \subseteq misused' /\ broken \subseteq misused'
         /\ call[t] = Idle /\ call'[t] = [obj |-> o, at |-> a] /\ OthersWait(t)
         /\ call'[t].obj = o /\ call'[t].at = a
         /\ \A x : CallsStay(x)
         /\ \A u \in Threads : call[u] # Idle /\ Family(call[u].obj) = Family(o) => Family(o) \in misused'
<1>1. call[t] = Idle /\ call'[t] = [obj |-> o, at |-> a] /\ OthersWait(t)
  BY DEF Enter, IInv, TypeOK, OthersWait
<1>2. CallType'
  <2>1. call' \in [Threads -> [obj : Objs \cup {NoObj}, at : Places]]
    BY DEF Enter, IInv, TypeOK
  <2>2. ASSUME NEW u \in Threads PROVE (call'[u].obj = NoObj) <=> (call'[u].at = "idle")
    <3>1. CASE u = t
      BY <1>1, <3>1, NoObjAssumption
    <3>2. CASE u # t
      BY <1>1, <3>2 DEF OthersWait, IInv, TypeOK
    <3> QED
      BY <3>1, <3>2
  <2> QED
    BY <2>1, <2>2 DEF CallType
<1>3. \A u \in Threads : call[u] # Idle /\ Family(call[u].obj) = Family(o) => Family(o) \in misused'
  BY DEF Enter, InUse
<1>4. misused \subseteq misused' /\ broken \subseteq misused'
  BY DEF Enter
<1>5. misused' \subseteq Objs
  <2>1. Family(o) \in Objs
    BY KindFacts DEF Family
  <2> QED
    BY <2>1 DEF Enter, IInv, TypeOK
<1>6. \A x : Family(x)' = Family(x)
  BY DEF Family
<1>7. OverlapsRecorded'
  <2> SUFFICES ASSUME NEW v \in Threads, NEW w \in Threads, v # w, call'[v] # Idle, call'[w] # Idle,
                      Family(call'[v].obj) = Family(call'[w].obj)
               PROVE  Family(call'[v].obj) \in misused'
    BY DEF OverlapsRecorded, Family, Idle
  <2>1. CASE v = t
    BY <1>1, <1>3, <2>1 DEF OthersWait
  <2>2. CASE w = t
    BY <1>1, <1>3, <2>2 DEF OthersWait
  <2>3. CASE v # t /\ w # t
    BY <1>1, <1>4, <2>3 DEF OthersWait, IInv, OverlapsRecorded
  <2> QED
    BY <2>1, <2>2, <2>3
<1>8. OneCreator'
  <2> SUFFICES ASSUME NEW v \in Threads, NEW w \in Threads, call'[v].at \in BeingMade, call'[w].at \in BeingMade,
                      call'[v].obj = call'[w].obj, v # w
               PROVE  FALSE
    BY DEF OneCreator
  <2>1. ASSUME NEW z \in Threads, z # t, call[z].at \in BeingMade, call[z].obj = o, a \in BeingMade PROVE FALSE
    <3>1. Placed(call[z].obj, call[z].at)
      BY <2>1, InCall DEF BeingMade
    <3> QED
      BY <2>1, <3>1 DEF Placed
  <2> QED
    BY <1>1, <2>1 DEF OthersWait, IInv, OneCreator
<1>9. \A x : CallsStay(x)
  BY <1>1, CallsStayAt DEF Idle
<1> QED
  BY <1>1, <1>2, <1>3, <1>4, <1>5, <1>7, <1>8, <1>9

\* A thread moves on inside its call.
LEMMA GoFacts ==
  ASSUME IInv, NEW t \in Threads, NEW a \in Places \ {"idle"}, NEW b \in Places \ {"idle"},
         Go(t, a, b), UNCHANGED handle, b \in BeingMade => a \in BeingMade
  PROVE  /\ CallType' /\ OverlapsRecorded' /\ OneCreator'
         /\ misused' = misused
         /\ call[t] # Idle /\ call[t].at = a /\ OthersWait(t)
         /\ call'[t].obj = call[t].obj /\ call'[t].at = b
<1>1. /\ call[t].at = a /\ call'[t].obj = call[t].obj /\ call'[t].at = b
      /\ OthersWait(t) /\ misused' = misused
  BY DEF Go, IInv, TypeOK, OthersWait
<1>2. call[t] # Idle
  BY <1>1 DEF Idle
<1>3. CallType'
  <2>1. call' \in [Threads -> [obj : Objs \cup {NoObj}, at : Places]]
    BY DEF Go, IInv, TypeOK
  <2>2. ASSUME NEW u \in Threads PROVE (call'[u].obj = NoObj) <=> (call'[u].at = "idle")
    <3>1. call[t].obj # NoObj
      BY <1>1, <1>2, InCall, NoObjAssumption
    <3>2. CASE u = t
      BY <1>1, <3>1, <3>2
    <3>3. CASE u # t
      BY <1>1, <3>3 DEF OthersWait, IInv, TypeOK
    <3> QED
      BY <3>2, <3>3
  <2> QED
    BY <2>1, <2>2 DEF CallType
<1>4. \A u \in Threads : call'[u].obj = call[u].obj /\ (call'[u] # Idle => call[u] # Idle)
                         /\ (call'[u].at \in BeingMade => call[u].at \in BeingMade)
  BY <1>1, <1>2 DEF OthersWait
<1>5. OverlapsRecorded' /\ OneCreator'
  BY <1>1, <1>4 DEF IInv, OverlapsRecorded, OneCreator, Family
<1> QED
  BY <1>1, <1>2, <1>3, <1>5

\* A thread returns to Java.
LEMMA LeaveFacts ==
  ASSUME IInv, NEW t \in Threads, NEW a \in Places \ {"idle"}, Leave(t, a),
         \A u \in Threads : u # t /\ call[u] # Idle =>
           (handle'[call[u].obj] = "none" <=> handle[call[u].obj] = "none")
  PROVE  /\ CallType' /\ OverlapsRecorded' /\ OneCreator'
         /\ misused' = misused
         /\ call[t] # Idle /\ call[t].at = a /\ call'[t] = Idle /\ OthersWait(t)
<1>1. call[t].at = a /\ call'[t] = Idle /\ OthersWait(t) /\ misused' = misused
  BY DEF Leave, IInv, TypeOK, OthersWait
<1>2. call[t] # Idle
  BY <1>1 DEF Idle
<1>3. CallType'
  <2>1. call' \in [Threads -> [obj : Objs \cup {NoObj}, at : Places]]
    BY DEF Leave, IInv, TypeOK, Idle, Places
  <2>2. ASSUME NEW u \in Threads PROVE (call'[u].obj = NoObj) <=> (call'[u].at = "idle")
    <3>2. CASE u = t
      BY <1>1, <3>2 DEF Idle
    <3>3. CASE u # t
      BY <1>1, <3>3 DEF OthersWait, IInv, TypeOK
    <3> QED
      BY <3>2, <3>3
  <2> QED
    BY <2>1, <2>2 DEF CallType
<1>4. \A u \in Threads : call'[u] # Idle => u # t /\ call[u] # Idle /\ call'[u] = call[u]
  BY <1>1 DEF OthersWait
<1>5. OverlapsRecorded'
  <2> SUFFICES ASSUME NEW v \in Threads, NEW w \in Threads, v # w, call'[v] # Idle, call'[w] # Idle,
                      Family(call[v].obj)' = Family(call[w].obj)'
               PROVE  Family(call[v].obj)' \in misused'
    BY DEF OverlapsRecorded, Idle
  <2>1. Family(call[v].obj)' = Family(call[v].obj) /\ Family(call[w].obj)' = Family(call[w].obj)
    BY <1>4 DEF Family
  <2> QED
    BY <1>1, <1>4, <2>1 DEF IInv, OverlapsRecorded
<1>6. OneCreator'
  BY <1>1 DEF IInv, OneCreator, OthersWait, Idle, BeingMade
<1> QED
  BY <1>1, <1>2, <1>3, <1>5, <1>6

-----------------------------------------------------------------------------
(***************************************************************************)
(* Who else is at the object that a step changes                            *)
(***************************************************************************)
\* The parent of an object that is being made, or used through its transport, has its wrapper,
\* and is the family of that object.
LEMMA ParentInCall ==
  ASSUME IInv, NEW u \in Threads, call[u].at \in BeingMade \cup {"through"}
  PROVE  /\ call[u].obj \in Objs /\ Parent[call[u].obj] \in Objs
         /\ handle[Parent[call[u].obj]] # "none"
         /\ Family(call[u].obj) = Parent[call[u].obj]
         /\ Kind[Parent[call[u].obj]] \notin ChildKinds
<1>1. call[u].obj \in Objs /\ Placed(call[u].obj, call[u].at)
  BY InCall DEF BeingMade
<1> PICK x \in Objs, a \in BeingMade \cup {"through"} : x = call[u].obj /\ a = call[u].at
  BY <1>1
<1>2. Kind[x] \notin RootKinds
  BY <1>1, KindFacts DEF Placed
<1>3. Parent[x] \in Objs /\ Kind[Parent[x]] \notin ChildKinds
  BY <1>2, KindFacts
<1>4. Family(x) = Parent[x]
  BY <1>1, KindFacts DEF Family, Placed
<1>5. handle[Parent[x]] # "none"
  <2>1. CASE a \in BeingMade
    BY <1>1, <2>1 DEF Placed
  <2>2. CASE a = "through"
    <3>1. IsChild(x) /\ handle[x] # "none" /\ HandleOK(x) /\ handle[x] \in {"none", "set", "zero"}
      BY <1>1, <2>2 DEF Placed, IInv, ObjOK, TypeOK
    <3> QED
      BY <3>1 DEF HandleOK, Alive
  <2> QED
    BY <2>1, <2>2
<1> QED
  BY <1>3, <1>4, <1>5

\* Nobody relies on what does not change.
LEMMA GuardQuiet ==
  ASSUME NEW t, NEW n \in Objs, UNCHANGED <<handle, native, listener>> PROVE Guarded(t, n)
  BY DEF Guarded, Alive

\* Entering records the calls that are at n or below it.
LEMMA GuardEnter ==
  ASSUME IInv, NEW t \in Threads, NEW n \in Objs, NEW a \in Places \ {"idle"}, NEW broken \in SUBSET Objs,
         Enter(t, n, a, broken), handle[n] # "none", Alive(n)' => Alive(n)
  PROVE  Guarded(t, n)
<1> SUFFICES ASSUME NEW u \in Threads, u # t, call[u] # Idle
             PROVE  /\ ~(call[u].obj = n /\ call[u].at \in BeingMade)
                    /\ call[u].obj = n \/ (Parent[call[u].obj] = n /\ call[u].at \in BeingMade \cup {"through"}) =>
                         Family(call[u].obj) \in misused'
  BY DEF Guarded
<1>1. ~(call[u].obj = n /\ call[u].at \in BeingMade)
  BY InCall DEF Placed
<1>2. Family(call[u].obj) = Family(n) => Family(n) \in misused'
  BY DEF Enter, InUse
<1>3. CASE call[u].obj = n
  BY <1>1, <1>2, <1>3
<1>4. CASE Parent[call[u].obj] = n /\ call[u].at \in BeingMade \cup {"through"}
  <2>1. Family(call[u].obj) = n /\ Family(n) = n
    BY <1>4, ParentInCall DEF Family
  <2> QED
    BY <1>1, <1>2, <2>1
<1> QED
  BY <1>1, <1>3, <1>4

\* So did the calls before, for a thread that is inside a call on n.
LEMMA GuardInside ==
  ASSUME IInv, NEW t \in Threads, NEW n \in Objs, call[t].obj = n, handle[n] # "none",
         misused \subseteq misused', Alive(n)' => Alive(n)
  PROVE  Guarded(t, n)
<1> SUFFICES ASSUME NEW u \in Threads, u # t, call[u] # Idle
             PROVE  /\ ~(call[u].obj = n /\ call[u].at \in BeingMade)
                    /\ call[u].obj = n \/ (Parent[call[u].obj] = n /\ call[u].at \in BeingMade \cup {"through"}) =>
                         Family(call[u].obj) \in misused'
  BY DEF Guarded
<1>1. ~(call[u].obj = n /\ call[u].at \in BeingMade)
  BY InCall DEF Placed
<1>2. Family(call[u].obj) = Family(n) => Family(n) \in misused'
  <2>1. call[t] # Idle
    BY InCall
  <2> QED
    BY <2>1 DEF IInv, OverlapsRecorded
<1>3. CASE call[u].obj = n
  BY <1>1, <1>2, <1>3
<1>4. CASE Parent[call[u].obj] = n /\ call[u].at \in BeingMade \cup {"through"}
  <2>1. Family(call[u].obj) = n /\ Family(n) = n
    BY <1>4, ParentInCall DEF Family
  <2> QED
    BY <1>1, <1>2, <2>1
<1> QED
  BY <1>1, <1>3, <1>4

\* An object without a wrapper is known to its creator only.
LEMMA GuardMaker ==
  ASSUME IInv, NEW t \in Threads, NEW n \in Objs, call[t].obj = n, call[t].at \in BeingMade,
         misused \subseteq misused'
  PROVE  Guarded(t, n) /\ \A u \in Threads : u # t => call[u].obj # n
<1>0. handle[n] = "none" /\ call[t] # Idle
  BY InCall DEF Placed, BeingMade
<1>1. ASSUME NEW u \in Threads, u # t PROVE call[u].obj # n
  <2> SUFFICES ASSUME call[u].obj = n PROVE FALSE
    OBVIOUS
  <2>1. call[u].at \in BeingMade
    BY <1>0, InCall DEF Placed, Places, BeingMade
  <2> QED
    BY <1>1, <2>1 DEF IInv, OneCreator
<1>2. ASSUME NEW u \in Threads, call[u].at \in BeingMade \cup {"through"} PROVE Parent[call[u].obj] # n
  BY <1>0, <1>2, ParentInCall
<1>3. ASSUME NEW u \in Threads, u # t, call[u] # Idle, Parent[n] = call[u].obj, call[u].at = "free"
      PROVE  Family(call[u].obj) \in misused'
  <2>1. Family(n) = Parent[n]
    BY <1>0 DEF Family
  <2>2. Family(call[u].obj) = call[u].obj
    BY <1>3, InCall DEF Placed, Family, IsChild
  <2> QED
    BY <1>0, <1>3, <2>1, <2>2 DEF IInv, OverlapsRecorded
<1> QED
  BY <1>1, <1>2, <1>3 DEF Guarded

\* An object that does not exist yet is in nobody's way.
LEMMA GuardNew ==
  ASSUME IInv, NEW t \in Threads, NEW n \in Objs, Kind[n] \in RootKinds, handle[n] = "none"
  PROVE  Guarded(t, n)
<1>1. ASSUME NEW u \in Threads, call[u] # Idle PROVE call[u].obj # n
  BY <1>1, InCall DEF Placed, Places, BeingMade
<1>2. ASSUME NEW u \in Threads, call[u].at \in BeingMade \cup {"through"} PROVE Parent[call[u].obj] # n
  BY <1>2, ParentInCall
<1>3. Parent[n] \notin Objs
  BY KindFacts
<1>4. \A u \in Threads : call[u] # Idle => call[u].obj \in Objs
  BY InCall
<1> QED
  BY <1>1, <1>2, <1>3, <1>4 DEF Guarded

\* A child that its transport's close() closes.
LEMMA GuardBelow ==
  ASSUME IInv, NEW t \in Threads, NEW n \in Objs, call[t].obj = Parent[n], IsChild(n), call[t].at = "close",
         misused \subseteq misused', UNCHANGED <<handle, listener>>, Alive(n), Alive(n)'
  PROVE  Guarded(t, n)
<1>0. Parent[n] \in Objs /\ Kind[Parent[n]] \notin ChildKinds /\ handle[Parent[n]] # "none" /\ call[t] # Idle
  BY KindFacts, InCall DEF Placed
<1>1. ASSUME NEW u \in Threads, u # t, call[u] # Idle, call[u].obj = n PROVE Family(n) \in misused'
  <2>1. Family(n) = Parent[n] /\ Family(Parent[n]) = Parent[n]
    BY <1>0, KindFacts DEF Family
  <2> QED
    BY <1>0, <1>1, <2>1 DEF IInv, OverlapsRecorded
<1>2. ASSUME NEW u \in Threads, call[u].at \in BeingMade \cup {"through"} PROVE Parent[call[u].obj] # n
  BY <1>2, ParentInCall, KindFacts
<1> QED
  BY <1>1, <1>2 DEF Guarded

-----------------------------------------------------------------------------
(***************************************************************************)
(* Uses and callbacks                                                       *)
(***************************************************************************)
\* Whatever is deleted and touched has been misused or has lost a child.
LEMMA TouchOK ==
  ASSUME Running, NEW os \in SUBSET Objs, NEW ls \in SUBSET Objs, Touch(os, ls),
         \A x \in os : native[x] = "deleted" => x \in misused' \/ Ambiguous(x)',
         \A x \in ls : listener[x] = "deleted" => x \in misused' \/ Ambiguous(x)'
  PROVE  UsesAreLive' /\ wild' \subseteq Objs
<1>1. wild = {}
  BY DEF Running
<1>2. \A x \in wild' : (x \in os /\ native[x] = "deleted") \/ (x \in ls /\ listener[x] = "deleted")
  BY <1>1 DEF Touch
<1> QED
  BY <1>2 DEF UsesAreLive

\* An object and its listener are touched.
LEMMA TouchOneOK ==
  ASSUME Running, NEW o \in Objs, Touch({o}, {o}),
         native[o] = "deleted" => o \in misused' \/ Ambiguous(o)',
         listener[o] = "deleted" => o \in misused' \/ Ambiguous(o)'
  PROVE  UsesAreLive' /\ wild' \subseteq Objs
<1>1. wild = {}
  BY DEF Running
<1>2. \A x \in wild' : x = o /\ (native[o] = "deleted" \/ listener[o] = "deleted")
  BY <1>1 DEF Touch
<1> QED
  BY <1>2 DEF UsesAreLive

\* Without a callback nothing new is unnamed.
LEMMA NoCallbackOK ==
  ASSUME IInv, NoCallback, misused \subseteq misused'
  PROVE  MediaCallbacksAreNamed' /\ unnamed' \subseteq Objs /\ ended' = ended
  BY DEF IInv, NoCallback, MediaCallbacksAreNamed, TypeOK, IsChild

\* A callback about a named object, about a data channel, or under misuse.
LEMMA CallbackOK ==
  ASSUME IInv, NEW os, NEW o \in Objs, Callback(os, o), misused \subseteq misused',
         o \in named \/ Kind[o] \in DataKinds \/ (IsChild(o) /\ Parent[o] \in misused')
  PROVE  /\ MediaCallbacksAreNamed' /\ unnamed' \subseteq Objs /\ ended' \in {"no", "java exception"}
         /\ Touch(os, {o})
  BY DEF IInv, MediaCallbacksAreNamed, Callback, TypeOK, IsChild

\* A listener that is gone before its object is being freed by somebody.
LEMMA FreedListener ==
  ASSUME IInv, NEW o \in Objs, Kind[o] # "Device", listener[o] = "deleted", native[o] # "deleted"
  PROVE  /\ ~IsChild(o) /\ handle[o] # "none" /\ Family(o) = o
         /\ \E u \in Threads : call[u] # Idle /\ call[u].obj = o /\ call[u].at = "free" /\ Kept(o, "free")
<1>1. At(o, {"free"})
  BY DEF IInv, ObjOK, ListenerOK
<1>2. PICK u \in Threads : call[u].obj = o /\ call[u].at = "free"
  BY <1>1 DEF At
<1>3. call[u] # Idle /\ Placed(o, "free") /\ Kept(o, "free")
  BY <1>2, InCall
<1> QED
  BY <1>2, <1>3 DEF Placed, Family, IsChild

-----------------------------------------------------------------------------
(***************************************************************************)
(* Calls that only read, and events                                         *)
(***************************************************************************)
\* A wrapper's object is there.
LEMMA SetIsAlive ==
  ASSUME IInv, NEW o \in Objs, handle[o] = "set"
  PROVE  Alive(o) /\ native[o] # "deleted" /\ native[o] # "none"
<1>1. HandleOK(o)
  BY DEF IInv, ObjOK
<1> QED
  BY <1>1 DEF HandleOK, Alive

\* A call that ends the process.
LEMMA DiesInv ==
  ASSUME IInv, NEW t \in Threads, NEW why \in {"uncaught", "assertion", "null"}, Dies(t, why)
  PROVE  IInv'
<1>1. TypeOK'
  BY DEF IInv, Dies, TypeOK, jniVars, mediaVars, mapVars, endVars
<1>2. ReadyOK' /\ MediaCallbacksAreNamed' /\ UsesAreLive'
  BY DEF IInv, Dies, jniVars, mediaVars, mapVars, ReadyOK, MediaCallbacksAreNamed, UsesAreLive, IsChild, Running
<1> QED
  BY <1>1, <1>2, QuietInv DEF Dies

\* A call enters and changes nothing of the objects.
LEMMA EnterInv ==
  ASSUME IInv, NEW t \in Threads, NEW o \in Objs, NEW a \in Places \ {"idle"}, NEW broken \in SUBSET Objs,
         Enter(t, o, a, broken), handle[o] # "none", a \notin BeingMade, Placed(o, a), Kept(o, a)',
         UNCHANGED <<jniVars, ready, channel, mapVars, endVars>>, NoCallback, loaded' \subseteq Objs,
         UsesAreLive', wild' \subseteq Objs
  PROVE  IInv'
<1>0. UNCHANGED <<handle, native, listener, named, ready, channel, inMap, empty, told, dropped, failed>>
  BY DEF jniVars, mapVars, endVars
<1>1. /\ CallType' /\ OverlapsRecorded' /\ OneCreator'
      /\ misused' \subseteq Objs /\ misused \subseteq misused'
      /\ call'[t] = [obj |-> o, at |-> a] /\ OthersWait(t) /\ \A x : CallsStay(x)
  BY <1>0, EnterFacts
<1>2. MediaCallbacksAreNamed' /\ unnamed' \subseteq Objs /\ ended' = ended
  BY <1>1, NoCallbackOK
<1>3. TypeOK'
  BY <1>0, <1>1, <1>2 DEF IInv, TypeOK, CallType
<1>4. Grows /\ OnlyAt(o) /\ Guarded(t, o)
  BY <1>0, <1>1, GuardQuiet DEF Grows, OnlyAt
<1>5. ReadyOK'
  BY <1>0 DEF IInv, ReadyOK
<1>6. CallOK(t)'
  <2>1. Placed(o, a)'
    BY <1>0 DEF Placed, Alive, IsChild
  <2> QED
    BY <1>1, <2>1 DEF CallOK
<1>7. ObjOK(o)'
  <2>1. ObjOK(o) /\ CallsStay(o) /\ CallsStay(Parent[o]) /\ (Shares(o) => Shares(o)')
    BY <1>1, <1>4, SharesStays DEF IInv, Grows
  <2>2. HandleOK(o)' /\ ListenerOK(o)' /\ EndOK(o)'
    BY <1>0, <2>1 DEF ObjOK, HandleOK, ListenerOK, EndOK, Alive, IsChild, CallsStay
  <2>3. DeviceOK(o)' /\ MapOK(o)' /\ ParentOK(o)'
    BY <1>0, <1>1, <2>1 DEF ObjOK, DeviceOK, MapOK, ParentOK, Alive, IsChild, CallsStay
  <2> QED
    BY <2>2, <2>3 DEF ObjOK
<1>8. native'[o] = native[o] /\ (Closing(o) => Closing(o)')
  BY <1>0, <1>1 DEF CallsStay
<1> QED
  BY <1>0, <1>1, <1>2, <1>3, <1>4, <1>5, <1>6, <1>7, <1>8, StepInv

\* A wrapper with a handle asks its object.
LEMMA AskInv ==
  ASSUME IInv, NEW t \in Threads, NEW o \in Objs, handle[o] = "set",
         Enter(t, o, "read", {}), Touch({o}, {}), NoCallback, loaded' \subseteq Objs,
         UNCHANGED <<jniVars, ready, channel, mapVars, endVars>>
  PROVE  IInv'
<1>1. native[o] # "deleted" /\ Running
  BY SetIsAlive DEF Enter
<1>2. UsesAreLive' /\ wild' \subseteq Objs
  BY <1>1, TouchOK
<1>3. Placed(o, "read")
  BY DEF Placed, BeingMade
<1>4. Kept(o, "read")'
  BY <1>1 DEF Kept, BeingMade, jniVars
<1>5. "read" \in Places \ {"idle"} /\ "read" \notin BeingMade
  BY DEF Places, BeingMade
<1> QED
  BY <1>2, <1>3, <1>4, <1>5, EnterInv

\* The same, as the calls state it.
LEMMA AskCallInv == ASSUME IInv, NEW t \in Threads, NEW o \in Objs, handle[o] = "set", Ask(t, o) PROVE IInv'
<1>1. UNCHANGED <<ready, channel>> /\ loaded' \subseteq Objs
  BY DEF Ask, mediaVars, IInv, TypeOK
<1> QED
  BY <1>1, AskInv DEF Ask

\* A call into the transport's maps: an open child's transport is there, or lost the child.
LEMMA OpenChildParent ==
  ASSUME IInv, NEW o \in Objs, IsChild(o), native[o] = "open", native[Parent[o]] = "deleted"
  PROVE  Parent[o] \in misused \/ Ambiguous(Parent[o])
<1>1. ParentOK(o)
  BY DEF IInv, ObjOK
<1> QED
  BY <1>1, SharesAmbiguous DEF ParentOK

\* getStats and the like go through the transport.
LEMMA AskThroughInv ==
  ASSUME IInv, NEW t \in Threads, NEW o \in Objs, NEW k \in ChildKinds, AskThroughTransport(t, o, k) PROVE IInv'
<1>1. CASE native[o] # "open"
  BY <1>1, AskCallInv DEF AskThroughTransport
<1>2. CASE native[o] = "open"
  <2>1. /\ Enter(t, o, "through", {}) /\ Touch({o, Parent[o]}, {}) /\ NoCallback /\ handle[o] = "set"
        /\ UNCHANGED <<jniVars, mediaVars, mapVars, endVars>> /\ IsChild(o)
    BY <1>2 DEF AskThroughTransport, IsChild
  <2>2. UNCHANGED <<native, handle, ready, channel, empty>> /\ loaded' \subseteq Objs
    BY <2>1 DEF mediaVars, jniVars, mapVars, IInv, TypeOK
  <2>3. "through" \in Places \ {"idle"} /\ "through" \notin BeingMade /\ Parent[o] \in Objs
    BY <2>1, KindFacts DEF Places, BeingMade
  <2>4. misused \subseteq misused' /\ (\A x : Ambiguous(x) => Ambiguous(x)')
    BY <2>1, <2>2, SharesStays DEF Enter
  <2>5. native[Parent[o]] = "deleted" => Parent[o] \in misused' \/ Ambiguous(Parent[o])'
    BY <1>2, <2>1, <2>4, OpenChildParent
  <2>6. UsesAreLive' /\ wild' \subseteq Objs
    BY <1>2, <2>1, <2>3, <2>5, TouchOK DEF Enter
  <2>7. Placed(o, "through")
    BY <2>1 DEF Placed, BeingMade
  <2>8. Kept(o, "through")'
    <3>1. Family(o)' = Parent[o]
      BY <2>1 DEF Family, IsChild
    <3> QED
      BY <2>2, <2>5, <3>1 DEF Kept, BeingMade
  <2> QED
    BY <2>1, <2>2, <2>3, <2>6, <2>7, <2>8, EnterInv
<1> QED
  BY <1>1, <1>2

\* The first half of freeing a device.
LEMMA FreeDeviceInv == ASSUME IInv, NEW t \in Threads, NEW o \in Objs, FreeDevice(t, o) PROVE IInv'
<1> DEFINE broken == {d \in {o} : \E c \in Objs : Parent[c] = d /\ native[c] \in {"open", "closed"}}
<1>1. /\ Enter(t, o, "free", broken) /\ Touch({o}, {}) /\ NoCallback /\ handle[o] = "set" /\ Kind[o] = "Device"
      /\ UNCHANGED <<jniVars, mediaVars, mapVars, endVars>>
  BY DEF FreeDevice
<1>2. broken \in SUBSET Objs /\ (o \notin broken => \A c \in Objs : Parent[c] = o => ~Alive(c))
  BY DEF Alive
<1>3. broken \subseteq misused'
  BY <1>1 DEF Enter
<1> HIDE DEF broken
<1>4. UNCHANGED <<native, handle, ready, channel, empty>> /\ loaded' \subseteq Objs
  BY <1>1 DEF mediaVars, jniVars, mapVars, IInv, TypeOK
<1>5. native[o] # "deleted"
  BY <1>1, SetIsAlive
<1>6. UsesAreLive' /\ wild' \subseteq Objs
  BY <1>1, <1>5, TouchOK DEF Enter
<1>7. ~IsChild(o)
  BY <1>1, KindFacts
<1>8. Placed(o, "free")
  BY <1>1, <1>7 DEF Placed, BeingMade
<1>9. Kept(o, "free")'
  <2>1. Family(o)' = o
    BY <1>1, <1>4, <1>7 DEF Family, IsChild
  <2> QED
    BY <1>1, <1>2, <1>3, <1>4, <1>5, <2>1 DEF Kept, BeingMade, Alive
<1>10. "free" \in Places \ {"idle"} /\ "free" \notin BeingMade
  BY DEF Places, BeingMade
<1> QED
  BY <1>1, <1>2, <1>4, <1>6, <1>8, <1>9, <1>10, EnterInv

\* Loading a device.
LEMMA LoadInv == ASSUME IInv, NEW t \in Threads, NEW o \in Objs, Load(t, o) PROVE IInv'
<1>1. loaded' \subseteq Objs
  BY DEF Load, IInv, TypeOK
<1> QED
  BY <1>1, AskInv DEF Load

\* A thread returns, and nothing of the objects changes.
LEMMA LeaveInv ==
  ASSUME IInv, NEW t \in Threads, NEW a \in Places \ {"idle"}, Leave(t, a), NEW o \in Objs, call[t].obj = o,
         UNCHANGED <<jniVars, mediaVars, mapVars, told, dropped>>, NoCallback,
         failed \subseteq failed' /\ failed' \subseteq Objs,
         UsesAreLive', wild' \subseteq Objs, a \in {"read", "through", "create", "negotiated", "close"},
         a \in {"create", "negotiated"} => o \in failed',
         a = "close" => \A x \in Objs : Parent[x] = o => ParentOK(x)'
  PROVE  IInv'
<1>0. UNCHANGED <<handle, native, listener, named, loaded, ready, channel, inMap, empty, told, dropped>>
  BY DEF jniVars, mapVars, mediaVars
<1>1. /\ CallType' /\ OverlapsRecorded' /\ OneCreator'
      /\ misused' = misused
      /\ call[t] # Idle /\ call[t].at = a /\ call'[t] = Idle /\ OthersWait(t)
  BY <1>0, LeaveFacts
<1>2. MediaCallbacksAreNamed' /\ unnamed' \subseteq Objs /\ ended' = ended
  BY <1>1, NoCallbackOK
<1>3. TypeOK'
  BY <1>0, <1>1, <1>2 DEF IInv, TypeOK, CallType
<1>4. Grows /\ OnlyAt(o) /\ Guarded(t, o)
  BY <1>0, <1>1, GuardQuiet DEF Grows, OnlyAt
<1>5. ReadyOK'
  BY <1>0 DEF IInv, ReadyOK
<1>6. CallOK(t)'
  BY <1>1 DEF CallOK, Idle
<1>7. \A x : x # o => CallsStay(x)
  BY <1>1, CallsStayAt
<1>8. ObjOK(o)'
  <2>1. ObjOK(o) /\ (Shares(o) => Shares(o)')
    BY <1>4, SharesStays DEF IInv, Grows
  <2>2. At(o, {"wrap", "set"}) => At(o, {"wrap", "set"})'
    BY <1>1, AtStays
  <2>3. At(o, {"free"}) => At(o, {"free"})'
    BY <1>1, AtStays
  <2>4. At(o, {"create", "negotiated"}) => At(o, {"create", "negotiated"})' \/ o \in failed'
    BY <1>1, AtStays
  <2>5. HandleOK(o)' /\ ListenerOK(o)' /\ EndOK(o)'
    BY <1>0, <2>1, <2>2, <2>3, <2>4 DEF ObjOK, HandleOK, ListenerOK, EndOK, Alive, IsChild
  <2>6. Closing(Parent[o]) /\ IsChild(o) => Closing(Parent[o])'
    <3>1. IsChild(o) => Parent[o] # o
      BY KindFacts
    <3> QED
      BY <1>7, <3>1 DEF CallsStay
  <2>7. DeviceOK(o)' /\ MapOK(o)' /\ ParentOK(o)'
    BY <1>0, <1>1, <2>1, <2>6 DEF ObjOK, DeviceOK, MapOK, ParentOK, Alive, IsChild
  <2> QED
    BY <2>5, <2>7 DEF ObjOK
<1>9. (native'[o] = native[o] /\ (Closing(o) => Closing(o)'))
        \/ \A x \in Objs : x # o /\ Parent[x] = o => DeviceOK(x)' /\ ParentOK(x)'
  <2>1. CASE a = "close"
    <3>1. ASSUME NEW x \in Objs, Parent[x] = o PROVE DeviceOK(x)'
      BY <1>0, <1>1 DEF IInv, ObjOK, DeviceOK, Alive
    <3> QED
      BY <2>1, <3>1
  <2>2. CASE a # "close"
    <3>1. At(o, {"close"}) => At(o, {"close"})'
      BY <1>1, <2>2, AtStays
    <3> QED
      BY <1>0, <3>1 DEF At, Closing
  <2> QED
    BY <2>1, <2>2
<1> QED
  BY <1>0, <1>1, <1>2, <1>3, <1>4, <1>5, <1>6, <1>7, <1>8, <1>9, StepInv

\* A call returns.
LEMMA ReturnInv == ASSUME IInv, NEW t \in Threads, Return(t) PROVE IInv'
<1>0. call[t].at \in {"read", "through"} /\ Running /\ call[t].obj \in Objs
  BY InCall DEF Return, Leave
<1> PICK o \in Objs, a \in {"read", "through"} : o = call[t].obj /\ a = call[t].at
  BY <1>0
<1>1. Leave(t, a) /\ UNCHANGED <<jniVars, mediaVars, mapVars, endVars>> /\ NoCallback /\ misused' = misused
  BY DEF Return, Leave
<1>2. Placed(o, a) /\ Kept(o, a)
  BY <1>0, InCall
<1>3. \A x : Ambiguous(x) => Ambiguous(x)'
  BY <1>1, SharesStays DEF mapVars
<1>4. native[o] = "deleted" => o \in misused
  <2>1. HandleOK(o)
    BY DEF IInv, ObjOK
  <2>2. CASE IsChild(o)
    BY <2>1, <2>2 DEF HandleOK
  <2>3. CASE ~IsChild(o)
    <3>1. Family(o) = o /\ a = "read"
      BY <1>0, <1>2, <2>3 DEF Family, Placed, IsChild
    <3> QED
      BY <1>2, <3>1 DEF Kept
  <2> QED
    BY <2>2, <2>3
<1>5. UsesAreLive' /\ wild' \subseteq Objs
  <2>1. CASE a = "read"
    <3>1. Touch({o}, {})
      BY <2>1 DEF Return, Leave
    <3> QED
      BY <1>0, <1>1, <1>4, <3>1, TouchOK
  <2>2. CASE a = "through"
    <3>1. Touch({o, Parent[o]}, {})
      BY <2>2 DEF Return, Leave
    <3>2. Parent[o] \in Objs /\ Family(o) = Parent[o]
      BY <2>2, ParentInCall
    <3>3. native[Parent[o]] = "deleted" => Parent[o] \in misused \/ Ambiguous(Parent[o])
      BY <1>2, <2>2, <3>2 DEF Kept
    <3> QED
      BY <1>0, <1>1, <1>3, <1>4, <3>1, <3>2, <3>3, TouchOK
  <2> QED
    BY <1>0, <2>1, <2>2
<1>6. a \in Places \ {"idle"}
  BY <1>0 DEF Places
<1>7. failed \subseteq failed' /\ failed' \subseteq Objs /\ UNCHANGED <<told, dropped>>
  BY <1>1 DEF endVars, IInv, TypeOK
<1>8. a \in {"read", "through", "create", "negotiated", "close"} /\ a \notin {"create", "negotiated"} /\ a # "close"
  BY <1>0
<1> QED
  BY <1>1, <1>5, <1>6, <1>7, <1>8, LeaveInv

\* The parent of an object that is being made is there unless it was misused.
LEMMA MakerParent ==
  ASSUME IInv, NEW t \in Threads, call[t].at \in BeingMade
  PROVE  /\ Parent[call[t].obj] \in Objs
         /\ native[Parent[call[t].obj]] = "deleted" => Parent[call[t].obj] \in misused
<1>1. Family(call[t].obj) = Parent[call[t].obj] /\ Parent[call[t].obj] \in Objs
  BY ParentInCall
<1>2. Kept(call[t].obj, call[t].at)
  BY InCall DEF BeingMade
<1>3. HandleOK(Parent[call[t].obj])
  BY <1>1 DEF IInv, ObjOK
<1> QED
  BY <1>1, <1>2, <1>3 DEF Kept, HandleOK

\* A creation throws.
LEMMA CreateThrowsInv == ASSUME IInv, NEW t \in Threads, CreateThrows(t) PROVE IInv'
<1>0. call[t].at \in {"create", "negotiated"} /\ Running /\ call[t].obj \in Objs
  BY InCall DEF CreateThrows, Leave
<1> PICK o \in Objs, a \in {"create", "negotiated"} : o = call[t].obj /\ a = call[t].at
  BY <1>0
<1>1. /\ Leave(t, a) /\ UNCHANGED <<jniVars, mediaVars, mapVars, told, dropped>> /\ NoCallback /\ misused' = misused
      /\ failed' = failed \cup {o} /\ Touch({Parent[o]}, {})
  BY DEF CreateThrows, Leave
<1>2. Parent[o] \in Objs /\ (native[Parent[o]] = "deleted" => Parent[o] \in misused)
  BY <1>0, MakerParent DEF BeingMade
<1>3. UsesAreLive' /\ wild' \subseteq Objs
  BY <1>0, <1>1, <1>2, TouchOK
<1>4. a \in Places \ {"idle"} /\ failed' \subseteq Objs
  BY <1>0, <1>1 DEF Places, IInv, TypeOK
<1> QED
  BY <1>0, <1>1, <1>3, <1>4, LeaveInv

\* close() returns: the children left open are those that the maps have lost.
LEMMA CloseReturnsInv == ASSUME IInv, NEW t \in Threads, CloseReturns(t) PROVE IInv'
<1>0. call[t].at = "close" /\ Running /\ call[t].obj \in Objs
  BY InCall DEF CloseReturns, Leave
<1> PICK o \in Objs : o = call[t].obj
  BY <1>0
<1>1. /\ Leave(t, "close") /\ UNCHANGED <<jniVars, mediaVars, mapVars, endVars>> /\ NoCallback /\ misused' = misused
      /\ Touch({o}, {}) /\ ChildrenToTell(o) = {}
  BY DEF CloseReturns, Leave
<1>2. Placed(o, "close") /\ Kept(o, "close")
  BY <1>0, InCall
<1>3. native[o] = "deleted" => o \in misused
  <2>1. Family(o) = o
    BY <1>2, KindFacts DEF Placed, Family
  <2> QED
    BY <1>2, <2>1 DEF Kept
<1>4. UsesAreLive' /\ wild' \subseteq Objs
  BY <1>0, <1>1, <1>3, TouchOK
<1>5. ASSUME NEW x \in Objs, Parent[x] = o PROVE ParentOK(x)'
  <2>1. SUFFICES ASSUME IsChild(x), native[x] = "open" PROVE x \notin inMap' /\ Shares(x)'
    BY <1>1 DEF ParentOK, IsChild, jniVars
  <2>2. x \notin inMap
    <3>1. MapChildren(o, ChildKinds \ DataKinds) = {} /\ MapChildren(o, DataKinds) = {}
      BY <1>1 DEF ChildrenToTell
    <3> QED
      BY <1>5, <2>1, <3>1 DEF MapChildren, IsChild
  <2>3. Shares(x)
    BY <2>1, <2>2 DEF IInv, ObjOK, MapOK
  <2> QED
    BY <1>1, <2>2, <2>3, SharesStays DEF mapVars
<1>6. "close" \in Places \ {"idle"}
  BY DEF Places
<1> QED
  BY <1>1, <1>4, <1>5, <1>6, LeaveInv DEF endVars, IInv, TypeOK

-----------------------------------------------------------------------------
(***************************************************************************)
(* The callbacks of a creation                                              *)
(***************************************************************************)
\* While a child is created, the listener of its transport is there unless the transport was
\* misused; and so is the device of an open transport.
LEMMA MakerCallback ==
  ASSUME IInv, NEW t \in Threads, call[t].at \in BeingMade, NEW o \in Objs, call[t].obj = o, IsChild(o),
         native[Parent[o]] = "open"
  PROVE  /\ Parent[o] \in Objs /\ Parent[Parent[o]] \in Objs /\ Kind[Parent[o]] \in TransportKinds
         /\ Parent[o] \in named
         /\ listener[Parent[o]] = "deleted" => Parent[o] \in misused
         /\ native[Parent[Parent[o]]] = "deleted" => Parent[Parent[o]] \in misused
<1>1. Parent[o] \in Objs /\ Kind[Parent[o]] \in TransportKinds /\ Kind[Parent[o]] # "Device" /\ Parent[Parent[o]] \in Objs
  BY KindFacts
<1>2. Placed(o, call[t].at) /\ call[t] # Idle /\ Family(o) = Parent[o]
  BY InCall, ParentInCall DEF BeingMade
<1>3. ASSUME listener[Parent[o]] = "deleted" PROVE Parent[o] \in misused
  <2>1. /\ Family(Parent[o]) = Parent[o]
        /\ \E u \in Threads : call[u] # Idle /\ call[u].obj = Parent[o] /\ call[u].at = "free"
    BY <1>1, <1>3, FreedListener
  <2>2. PICK u \in Threads : call[u] # Idle /\ call[u].obj = Parent[o] /\ call[u].at = "free"
    BY <2>1
  <2>3. u # t
    BY <2>2 DEF BeingMade
  <2> QED
    BY <1>2, <2>1, <2>2, <2>3 DEF IInv, OverlapsRecorded
<1>4. DeviceOK(Parent[o])
  BY <1>1 DEF IInv, ObjOK
<1> QED
  BY <1>1, <1>2, <1>3, <1>4 DEF Placed, DeviceOK, Alive

\* A transport connects.
LEMMA OnConnectInv == ASSUME IInv, NEW t \in Threads, OnConnect(t) PROVE IInv'
<1>0. call[t].at = "create" /\ Running /\ call[t].obj \in Objs /\ misused' = misused /\ call[t].at \in BeingMade
  BY InCall DEF OnConnect, Go, BeingMade
<1> PICK o \in Objs : o = call[t].obj
  BY <1>0
<1>1. /\ IsChild(o) /\ native[Parent[o]] = "open" /\ Callback({Parent[o]}, Parent[o])
      /\ ready' = ready \cup {Parent[o]} /\ UNCHANGED <<jniVars, loaded, channel, mapVars, endVars>>
  BY DEF OnConnect, IsChild
<1>2. /\ Parent[o] \in Objs /\ Kind[Parent[o]] \in TransportKinds /\ Parent[o] \in named
      /\ listener[Parent[o]] = "deleted" => Parent[o] \in misused
  BY <1>0, <1>1, MakerCallback
<1>3. /\ MediaCallbacksAreNamed' /\ unnamed' \subseteq Objs /\ ended' \in {"no", "java exception"}
      /\ Touch({Parent[o]}, {Parent[o]})
  BY <1>0, <1>1, <1>2, CallbackOK
<1>4. UsesAreLive' /\ wild' \subseteq Objs
  <2>1. {Parent[o]} \in SUBSET Objs /\ \A x \in {Parent[o]} : native[x] # "deleted"
    BY <1>1, <1>2
  <2>2. \A x \in {Parent[o]} : listener[x] = "deleted" => x \in misused'
    BY <1>0, <1>2
  <2> QED
    BY <1>0, <1>3, <2>1, <2>2, TouchOK
<1>5. call' = call
  <2>1. call' = [call EXCEPT ![t].at = "create"]
    BY DEF OnConnect, Go
  <2>2. call[t] \in [obj : Objs \cup {NoObj}, at : Places] /\ call \in [Threads -> [obj : Objs \cup {NoObj}, at : Places]]
    BY DEF IInv, TypeOK
  <2> QED
    BY <1>0, <2>1, <2>2
<1>6. TypeOK'
  BY <1>0, <1>1, <1>2, <1>3, <1>4, <1>5 DEF IInv, TypeOK, jniVars, mapVars, endVars
<1>7. ReadyOK'
  BY <1>1, <1>2 DEF IInv, ReadyOK, jniVars
<1> QED
  BY <1>0, <1>1, <1>3, <1>4, <1>5, <1>6, <1>7, QuietInv

\* The transport has negotiated for a child.
LEMMA NegotiatedInv ==
  ASSUME IInv, NEW t \in Threads, Go(t, "create", "negotiated"), NEW o \in Objs, call[t].obj = o, IsChild(o),
         native[Parent[o]] = "open", UNCHANGED <<jniVars, mediaVars, mapVars, endVars>>,
         UsesAreLive', wild' \subseteq Objs, MediaCallbacksAreNamed', unnamed' \subseteq Objs,
         ended' \in {"no", "java exception"}
  PROVE  IInv'
<1>0. UNCHANGED <<handle, native, listener, named, loaded, ready, channel, inMap, empty, told, dropped, failed>>
  BY DEF jniVars, mapVars, mediaVars, endVars
<1>1. /\ CallType' /\ OverlapsRecorded' /\ OneCreator' /\ misused' = misused
      /\ call[t] # Idle /\ call[t].at = "create" /\ OthersWait(t)
      /\ call'[t].obj = o /\ call'[t].at = "negotiated"
  BY <1>0, GoFacts DEF Places, BeingMade
<1>2. TypeOK'
  BY <1>0, <1>1 DEF IInv, TypeOK, CallType
<1>3. Grows /\ OnlyAt(o) /\ Guarded(t, o)
  BY <1>0, <1>1, GuardQuiet DEF Grows, OnlyAt
<1>4. ReadyOK'
  BY <1>0 DEF IInv, ReadyOK
<1>5. ASSUME NEW x PROVE CallsStay(x)
  <2>1. call'[t].obj = o /\ {call[t].at, call'[t].at} \subseteq {"create", "negotiated"}
    BY <1>1
  <2>2. CASE x = o
    BY <1>1, <2>1, <2>2, CallsStayAt
  <2>3. CASE x # o
    BY <1>1, <2>3, CallsStayAt
  <2> QED
    BY <2>2, <2>3
<1>6. CallOK(t)'
  <2>1. Placed(o, "create") /\ Kept(o, "create") /\ Family(o) = Parent[o]
    BY <1>1, InCall, ParentInCall DEF BeingMade
  <2>2. Placed(o, "negotiated")'
    BY <1>0, <2>1 DEF Placed, BeingMade, IsChild
  <2>3. Kept(o, "negotiated")'
    BY <1>0, <1>1, <2>1 DEF Kept, BeingMade, Family
  <2> QED
    BY <1>1, <2>2, <2>3 DEF CallOK
<1>7. ObjOK(o)'
  <2>1. ObjOK(o) /\ CallsStay(o) /\ CallsStay(Parent[o]) /\ (Shares(o) => Shares(o)')
    BY <1>3, <1>5, SharesStays DEF IInv, Grows
  <2>2. HandleOK(o)' /\ ListenerOK(o)' /\ EndOK(o)'
    BY <1>0, <2>1 DEF ObjOK, HandleOK, ListenerOK, EndOK, Alive, IsChild, CallsStay
  <2>3. DeviceOK(o)' /\ MapOK(o)' /\ ParentOK(o)'
    BY <1>0, <1>1, <2>1 DEF ObjOK, DeviceOK, MapOK, ParentOK, Alive, IsChild, CallsStay
  <2> QED
    BY <2>2, <2>3 DEF ObjOK
<1>8. native'[o] = native[o] /\ (Closing(o) => Closing(o)')
  BY <1>0, <1>5 DEF CallsStay
<1> QED
  BY <1>0, <1>1, <1>2, <1>3, <1>4, <1>5, <1>6, <1>7, <1>8, StepInv

\* A producer asks for its id.
LEMMA AskProducerIdInv ==
  ASSUME IInv, NEW t \in Threads, NEW k \in ChildKinds, AskProducerId(t, k) PROVE IInv'
<1>0. call[t].at = "create" /\ Running /\ call[t].obj \in Objs /\ misused' = misused /\ call[t].at \in BeingMade
  BY InCall DEF AskProducerId, Go, BeingMade
<1> PICK o \in Objs : o = call[t].obj
  BY <1>0
<1>1. /\ Go(t, "create", "negotiated") /\ IsChild(o) /\ native[Parent[o]] = "open"
      /\ Callback(Capable(o), Parent[o]) /\ UNCHANGED <<jniVars, mediaVars, mapVars, endVars>>
  BY DEF AskProducerId, IsChild
<1>2. /\ Parent[o] \in Objs /\ Parent[Parent[o]] \in Objs /\ Parent[o] \in named
      /\ listener[Parent[o]] = "deleted" => Parent[o] \in misused
      /\ native[Parent[Parent[o]]] = "deleted" => Parent[Parent[o]] \in misused
  BY <1>0, <1>1, MakerCallback
<1>3. /\ MediaCallbacksAreNamed' /\ unnamed' \subseteq Objs /\ ended' \in {"no", "java exception"}
      /\ Touch(Capable(o), {Parent[o]})
  BY <1>0, <1>1, <1>2, CallbackOK
<1>4. Capable(o) \subseteq {Parent[o], Parent[Parent[o]]}
  BY DEF Capable
<1>5. UsesAreLive' /\ wild' \subseteq Objs
  <2>1. Capable(o) \in SUBSET Objs
    BY <1>2, <1>4
  <2>2. \A x \in Capable(o) : native[x] = "deleted" => x \in misused'
    BY <1>0, <1>1, <1>2, <1>4
  <2>3. {Parent[o]} \in SUBSET Objs /\ \A x \in {Parent[o]} : listener[x] = "deleted" => x \in misused'
    BY <1>0, <1>2
  <2> QED
    BY <1>0, <1>3, <2>1, <2>2, <2>3, TouchOK
<1> QED
  BY <1>1, <1>3, <1>5, NegotiatedInv

\* A consumer's transport negotiates.
LEMMA ReceiveInv == ASSUME IInv, NEW t \in Threads, Receive(t) PROVE IInv'
<1>0. call[t].at = "create" /\ Running /\ call[t].obj \in Objs /\ misused' = misused /\ call[t].at \in BeingMade
  BY InCall DEF Receive, Go, BeingMade
<1> PICK o \in Objs : o = call[t].obj
  BY <1>0
<1>1. /\ Go(t, "create", "negotiated") /\ IsChild(o) /\ native[Parent[o]] = "open"
      /\ Touch(Capable(o), {}) /\ NoCallback /\ UNCHANGED <<jniVars, mediaVars, mapVars, endVars>>
  BY DEF Receive, IsChild
<1>2. /\ Parent[o] \in Objs /\ Parent[Parent[o]] \in Objs
      /\ native[Parent[Parent[o]]] = "deleted" => Parent[Parent[o]] \in misused
  BY <1>0, <1>1, MakerCallback
<1>3. MediaCallbacksAreNamed' /\ unnamed' \subseteq Objs /\ ended' = ended
  BY <1>0, <1>1, NoCallbackOK
<1>4. Capable(o) \subseteq {Parent[o], Parent[Parent[o]]}
  BY DEF Capable
<1>5. UsesAreLive' /\ wild' \subseteq Objs
  <2>1. Capable(o) \in SUBSET Objs
    BY <1>2, <1>4
  <2>2. \A x \in Capable(o) : native[x] = "deleted" => x \in misused'
    BY <1>0, <1>1, <1>2, <1>4
  <2> QED
    BY <1>0, <1>1, <2>1, <2>2, TouchOK
<1>6. ended' \in {"no", "java exception"}
  BY <1>0, <1>3 DEF Running
<1> QED
  BY <1>1, <1>3, <1>5, <1>6, NegotiatedInv

-----------------------------------------------------------------------------
(***************************************************************************)
(* The signalling thread                                                    *)
(***************************************************************************)
\* The listener of an open object is there, unless somebody frees an object that is not closed.
LEMMA OpenListener ==
  ASSUME IInv, NEW o \in Objs, Kind[o] # "Device", native[o] = "open", listener[o] = "deleted"
  PROVE  o \in misused
<1>1. Family(o) = o /\ Kept(o, "free")
  BY FreedListener
<1> QED
  BY <1>1 DEF Kept

\* The connection state of a transport.
LEMMA StateChangeInv == ASSUME IInv, NEW o \in Objs, NEW k, OnConnectionStateChange(o, k) PROVE IInv'
<1>1. /\ Running /\ native[o] = "open" /\ o \in ready /\ Callback({o}, o)
      /\ UNCHANGED <<jniVars, mediaVars, mapVars, call, endVars, misused>>
  BY DEF OnConnectionStateChange
<1>2. o \in named /\ Kind[o] # "Device"
  BY <1>1, KindFacts DEF IInv, ReadyOK
<1>3. MediaCallbacksAreNamed' /\ unnamed' \subseteq Objs /\ ended' \in {"no", "java exception"} /\ Touch({o}, {o})
  BY <1>1, <1>2, CallbackOK
<1>4. UsesAreLive' /\ wild' \subseteq Objs
  BY <1>1, <1>2, <1>3, OpenListener, TouchOneOK
<1>5. TypeOK'
  BY <1>1, <1>3, <1>4 DEF IInv, TypeOK, jniVars, mediaVars, mapVars, endVars
<1>6. ReadyOK'
  BY <1>1 DEF IInv, ReadyOK, jniVars, mediaVars
<1> QED
  BY <1>1, <1>3, <1>4, <1>5, <1>6, QuietInv

\* Any event of a peer connection.
LEMMA PeerConnectionEventInv == ASSUME IInv, NEW o \in Objs, PeerConnectionEvent(o) PROVE IInv'
<1>1. /\ Running /\ native[o] = "open" /\ Kind[o] # "Device" /\ Touch({o}, {o}) /\ ended' \in {"no", "java exception"}
      /\ UNCHANGED <<jniVars, mediaVars, mapVars, call, endVars, misused, unnamed>>
  BY DEF PeerConnectionEvent
<1>4. UsesAreLive' /\ wild' \subseteq Objs
  BY <1>1, OpenListener, TouchOneOK
<1>5. TypeOK'
  BY <1>1, <1>4 DEF IInv, TypeOK, jniVars, mediaVars, mapVars, endVars
<1>6. ReadyOK' /\ MediaCallbacksAreNamed'
  BY <1>1 DEF IInv, ReadyOK, MediaCallbacksAreNamed, IsChild, jniVars, mediaVars
<1> QED
  BY <1>1, <1>4, <1>5, <1>6, QuietInv

\* Any event of a data channel.
LEMMA DataEventInv == ASSUME IInv, NEW o \in Objs, NEW k \in DataKinds, DataEvent(o, k) PROVE IInv'
<1>1. /\ Running /\ Kind[o] \in DataKinds /\ Callback({o}, o)
      /\ UNCHANGED <<jniVars, loaded, ready, mapVars, call, endVars, misused>>
  BY DEF DataEvent
<1>2. IsChild(o) /\ native[o] # "deleted" /\ listener[o] # "deleted"
  <2>1. IsChild(o)
    BY <1>1, KindNames DEF IsChild
  <2> QED
    BY <2>1 DEF IInv, ObjOK, HandleOK
<1>3. MediaCallbacksAreNamed' /\ unnamed' \subseteq Objs /\ ended' \in {"no", "java exception"} /\ Touch({o}, {o})
  BY <1>1, <1>2, CallbackOK
<1>4. UsesAreLive' /\ wild' \subseteq Objs
  BY <1>1, <1>2, <1>3, TouchOneOK
<1>5. channel' \in [Objs -> {"none", "live", "closed"}]
  BY DEF DataEvent, ChannelSteps, IInv, TypeOK
<1>6. TypeOK'
  BY <1>1, <1>3, <1>4, <1>5 DEF IInv, TypeOK, jniVars, mapVars, endVars
<1>7. ReadyOK'
  BY <1>1 DEF IInv, ReadyOK, jniVars
<1> QED
  BY <1>1, <1>3, <1>4, <1>6, <1>7, QuietInv

-----------------------------------------------------------------------------
(***************************************************************************)
(* Creating objects                                                         *)
(***************************************************************************)
\* Types are a matter of the variables that change.
LEMMA ObjectsTyped ==
  ASSUME TypeOK, native' \in [Objs -> {"none", "open", "closed", "deleted"}],
         handle' \in [Objs -> {"none", "set", "zero"}], listener' \in [Objs -> {"none", "live", "deleted"}],
         UNCHANGED <<named, loaded, ready, channel, inMap, empty, told, dropped, failed, call, misused, unnamed, wild, ended>>
  PROVE  TypeOK'
BY DEF TypeOK

\* A device or a peer connection appears.
LEMMA NewRootInv ==
  ASSUME IInv, NEW t \in Threads, NEW o \in Objs, Kind[o] \in RootKinds, native[o] = "none", Running, call[t] = Idle,
         native' = [native EXCEPT ![o] = "open"], handle' = [handle EXCEPT ![o] = "set"],
         listener' = listener \/ (listener[o] = "none" /\ listener' = [listener EXCEPT ![o] = "live"]),
         Kind[o] # "Device" => listener'[o] = "live",
         UNCHANGED <<named, mediaVars, mapVars, call, endVars, misused, unnamed, wild, ended>>
  PROVE  IInv'
<1>0. UNCHANGED <<named, loaded, ready, channel, inMap, empty, told, dropped, failed, call, misused, unnamed, wild, ended>>
  BY DEF mediaVars, mapVars, endVars
<1>1. handle[o] = "none" /\ ~IsChild(o) /\ Kind[o] \notin TransportKinds
  <2>1. HandleOK(o) /\ handle[o] \in {"none", "set", "zero"}
    BY DEF IInv, ObjOK, TypeOK
  <2> QED
    BY <2>1, KindFacts DEF HandleOK, Alive
<1>2. TypeOK'
  <2>1. native' \in [Objs -> {"none", "open", "closed", "deleted"}] /\ handle' \in [Objs -> {"none", "set", "zero"}]
    BY DEF IInv, TypeOK
  <2>2. listener' \in [Objs -> {"none", "live", "deleted"}]
    <3>1. CASE listener' = listener
      BY <3>1 DEF IInv, TypeOK
    <3>2. CASE listener' = [listener EXCEPT ![o] = "live"]
      BY <3>2 DEF IInv, TypeOK
    <3> QED
      BY <3>1, <3>2
  <2>3. TypeOK
    BY DEF IInv
  <2> QED
    BY <1>0, <2>1, <2>2, <2>3, ObjectsTyped
<1>3. native'[o] = "open" /\ handle'[o] = "set"
  BY DEF IInv, TypeOK
<1>4. Grows /\ OnlyAt(o) /\ OthersWait(t)
  BY <1>0, <1>1, <1>3 DEF Grows, OnlyAt, OthersWait, IInv, TypeOK
<1>5. Guarded(t, o)
  BY <1>1, GuardNew
<1>6. \A x : CallsStay(x)
  BY <1>0 DEF CallsStay, At, Closing
<1>7. ~At(o, Places \ {"idle"})
  <2> SUFFICES ASSUME NEW u \in Threads, call[u].obj = o PROVE FALSE
    BY DEF At
  <2>1. Placed(o, call[u].at) /\ call[u].at \in Places \ {"idle"}
    BY InCall
  <2> QED
    BY <1>1, <2>1 DEF Placed, Places, BeingMade
<1>8. CallOK(t)'
  BY <1>0 DEF CallOK
<1>9. OverlapsRecorded' /\ OneCreator'
  <2>1. ASSUME NEW u \in Threads, call[u] # Idle PROVE Family(call[u].obj)' = Family(call[u].obj)
    <3>1. call[u].obj \in Objs /\ call[u].obj # o
      BY <1>7, <2>1, InCall DEF At
    <3> QED
      BY <1>0, <3>1 DEF Family, IInv, TypeOK
  <2>2. OverlapsRecorded'
    BY <1>0, <2>1 DEF IInv, OverlapsRecorded
  <2> QED
    BY <1>0, <2>2 DEF IInv, OneCreator
<1>10. ObjOK(o)'
  BY <1>1, <1>3 DEF ObjOK, HandleOK, ListenerOK, DeviceOK, EndOK, MapOK, ParentOK, Alive, IsChild
<1>11. ASSUME NEW x \in Objs, x # o, Parent[x] = o PROVE DeviceOK(x)' /\ ParentOK(x)'
  <2>1. native'[o] # "deleted" /\ native'[Parent[x]] = "open"
    BY <1>3, <1>11
  <2> QED
    BY <1>11, <2>1 DEF DeviceOK, ParentOK
<1>12. ReadyOK' /\ UsesAreLive' /\ MediaCallbacksAreNamed'
  BY <1>0 DEF IInv, ReadyOK, UsesAreLive, MediaCallbacksAreNamed, IsChild, Running
<1> QED
  BY <1>0, <1>2, <1>4, <1>5, <1>6, <1>8, <1>9, <1>10, <1>11, <1>12, StepInv

\* An object without a listener does not exist.
LEMMA NoListener ==
  ASSUME IInv, NEW o \in Objs, Kind[o] # "Device", listener[o] = "none"
  PROVE  native[o] = "none" /\ handle[o] = "none"
<1>1. /\ HandleOK(o) /\ ListenerOK(o) /\ handle[o] \in {"none", "set", "zero"}
      /\ native[o] \in {"none", "open", "closed", "deleted"}
  BY DEF IInv, ObjOK, TypeOK
<1>2. ~At(o, {"free"})
  <2> SUFFICES ASSUME NEW u \in Threads, call[u].obj = o, call[u].at = "free" PROVE FALSE
    BY DEF At
  <2>1. Placed(o, "free")
    BY InCall
  <2> QED
    BY <2>1 DEF Placed
<1> QED
  BY <1>1, <1>2 DEF HandleOK, ListenerOK, Alive

\* A listener is allocated for an object to come.
LEMMA NewListenerInv ==
  ASSUME IInv, NEW t \in Threads, NEW o \in Objs, NEW k, k \notin RootKinds, NewListener(t, o, k) PROVE IInv'
<1>0. /\ Kind[o] = k /\ listener[o] = "none" /\ handle[Parent[o]] = "set" /\ Enter(t, o, "create", {})
      /\ Touch({Parent[o]}, {}) /\ NoCallback /\ listener' = [listener EXCEPT ![o] = "live"]
      /\ UNCHANGED <<handle, native, named, loaded, ready, channel, inMap, empty, told, dropped, failed>>
  BY DEF NewListener, Creatable, mediaVars, mapVars, endVars
<1>1. Parent[o] \in Objs /\ Parent[o] # o /\ Kind[o] # "Device"
  BY <1>0, KindFacts
<1>2. native[o] = "none" /\ handle[o] = "none"
  BY <1>0, <1>1, NoListener
<1>3. /\ CallType' /\ OverlapsRecorded' /\ OneCreator'
      /\ misused' \subseteq Objs /\ misused \subseteq misused'
      /\ call'[t] = [obj |-> o, at |-> "create"] /\ OthersWait(t) /\ \A x : CallsStay(x)
  BY <1>0, EnterFacts DEF Places
<1>4. native[Parent[o]] # "deleted" /\ (IsChild(o) => Parent[o] \in named)
  <2>1. HandleOK(Parent[o])
    BY <1>1 DEF IInv, ObjOK
  <2>2. IsChild(o) => Kind[Parent[o]] \notin RootKinds
    BY KindFacts
  <2> QED
    BY <1>0, <1>1, <2>1, <2>2, SetIsAlive DEF HandleOK
<1>5. UsesAreLive' /\ wild' \subseteq Objs
  BY <1>0, <1>1, <1>4, TouchOK DEF Enter
<1>6. MediaCallbacksAreNamed' /\ unnamed' \subseteq Objs /\ ended' = ended
  BY <1>0, <1>3, NoCallbackOK
<1>7. TypeOK' /\ listener'[o] = "live"
  BY <1>0, <1>3, <1>5, <1>6 DEF IInv, TypeOK, CallType
<1>8. Grows /\ OnlyAt(o)
  BY <1>0, <1>3 DEF Grows, OnlyAt, IInv, TypeOK
<1>9. Guarded(t, o)
  <2>1. ASSUME NEW u \in Threads, call[u] # Idle, call[u].obj = o PROVE call[u].at \notin BeingMade
    BY <1>0, <2>1, InCall DEF Placed
  <2> QED
    BY <1>0, <2>1 DEF Guarded, Alive
<1>10. CallOK(t)'
  <2>1. Placed(o, "create")'
    BY <1>0, <1>1, <1>2, <1>4, <1>7 DEF Placed, BeingMade, IsChild
  <2>2. Kept(o, "create")'
    BY <1>0 DEF Kept, BeingMade
  <2> QED
    BY <1>3, <2>1, <2>2 DEF CallOK
<1>11. ObjOK(o)'
  <2>1. ObjOK(o)
    BY DEF IInv
  <2>2. At(o, {"create", "negotiated"})'
    BY <1>3 DEF At
  <2> QED
    BY <1>0, <1>1, <1>2, <1>7, <2>1, <2>2 DEF ObjOK, HandleOK, ListenerOK, DeviceOK, EndOK, MapOK, ParentOK, Alive, IsChild
<1>12. ReadyOK'
  BY <1>0 DEF IInv, ReadyOK
<1>13. native'[o] = native[o] /\ (Closing(o) => Closing(o)')
  BY <1>0, <1>3 DEF CallsStay
<1> QED
  BY <1>0, <1>3, <1>5, <1>6, <1>7, <1>8, <1>9, <1>10, <1>11, <1>12, <1>13, StepInv

\* The native object is constructed and entered in its transport's map.
LEMMA ConstructInv == ASSUME IInv, NEW t \in Threads, Construct(t) PROVE IInv'
<1>0. call[t].at \in {"create", "negotiated"} /\ Running /\ call[t].obj \in Objs
  BY InCall DEF Construct, Go
<1> PICK o \in Objs, a \in {"create", "negotiated"} : o = call[t].obj /\ a = call[t].at
  BY <1>0
<1>1. /\ Go(t, a, "wrap") /\ (a = "create" => Kind[o] \in TransportKinds)
      /\ Touch({Parent[o]}, {}) /\ native' = [native EXCEPT ![o] = "open"]
      /\ channel' = channel \/ channel' = [channel EXCEPT ![o] = "live"]
      /\ empty' \in {empty, empty \cup {o}}
      /\ inMap' = (IF Kind[o] \in ChildKinds THEN {c \in inMap : ~SameKey(c, o, empty')} \cup {o} ELSE inMap)
      /\ NoCallback /\ UNCHANGED <<handle, listener, named, loaded, ready, told, dropped, failed>>
  BY <1>0 DEF Construct, Go, endVars
<1>2. a \in Places \ {"idle"} /\ a \in BeingMade
  BY <1>0 DEF Places, BeingMade
<1>3. /\ CallType' /\ OverlapsRecorded' /\ OneCreator' /\ misused' = misused
      /\ call[t] # Idle /\ call[t].at = a /\ OthersWait(t)
      /\ call'[t].obj = call[t].obj /\ call'[t].at = "wrap"
  BY <1>1, <1>2, GoFacts DEF Places
<1>4. Placed(o, a) /\ Kept(o, a) /\ Family(o) = Parent[o] /\ Parent[o] \in Objs
  BY <1>0, <1>2, InCall, ParentInCall
<1>5. native[Parent[o]] = "deleted" => Parent[o] \in misused
  BY <1>2, MakerParent
<1>6. UsesAreLive' /\ wild' \subseteq Objs
  BY <1>0, <1>1, <1>3, <1>4, <1>5, TouchOK
<1>7. MediaCallbacksAreNamed' /\ unnamed' \subseteq Objs /\ ended' = ended
  BY <1>1, <1>3, NoCallbackOK
<1>8. TypeOK'
  <2>1. inMap \subseteq Objs /\ empty \subseteq Objs /\ channel \in [Objs -> {"none", "live", "closed"}]
    BY DEF IInv, TypeOK
  <2>2. inMap' \subseteq Objs
    BY <1>1, <2>1
  <2>3. empty' \subseteq Objs
    BY <1>1, <2>1
  <2>4. channel' \in [Objs -> {"none", "live", "closed"}]
    BY <1>1, <2>1
  <2> QED
    BY <1>1, <1>3, <1>6, <1>7, <2>2, <2>3, <2>4 DEF IInv, TypeOK, CallType
<1>9. native'[o] = "open" /\ Grows
  BY <1>1, <1>3 DEF IInv, TypeOK, Grows
<1>10. OnlyAt(o)
  BY <1>1 DEF OnlyAt, IInv, TypeOK
<1>11. Guarded(t, o)
  BY <1>2, <1>3, GuardMaker
<1>12. \A x : x # o => CallsStay(x)
  BY <1>3, CallsStayAt
<1>13. ASSUME NEW x \in inMap, x # o PROVE x \in inMap' \/ Shares(x)'
  <2>1. SUFFICES ASSUME SameKey(x, o, empty') PROVE Shares(x)'
    BY <1>1, <1>13
  <2> QED
    BY <1>13, <2>1 DEF Shares, SameKey
<1>14. CallOK(t)'
  <2>1. Placed(o, "wrap")'
    <3>1. /\ Kind[o] \notin RootKinds /\ handle'[o] = "none" /\ listener'[o] = "live" /\ handle'[Parent[o]] # "none"
          /\ IsChild(o) => Parent[o] \in named'
      BY <1>1, <1>2, <1>4 DEF Placed
    <3> QED
      BY <1>9, <3>1 DEF Placed, IsChild, Alive
  <2>2. Kept(o, "wrap")'
    <3>1. Family(o)' = Family(o)
      BY <1>1 DEF Family
    <3> QED
      BY <1>1, <1>2, <1>3, <1>4, <3>1 DEF Kept, BeingMade
  <2> QED
    BY <1>3, <2>1, <2>2 DEF CallOK
<1>15. ObjOK(o)'
  <2>1. ObjOK(o)
    BY DEF IInv
  <2>2. native[o] = "none" /\ handle'[o] = "none" /\ listener'[o] = "live" /\ handle'[Parent[o]] # "none"
        /\ Kind[o] \notin RootKinds
    BY <1>0, <1>1, <1>2, <1>4 DEF Placed
  <2>3. At(o, {"wrap", "set"})'
    BY <1>3 DEF At
  <2>4. HandleOK(o)' /\ ListenerOK(o)'
    BY <1>9, <2>2, <2>3 DEF HandleOK, ListenerOK, Alive, IsChild
  <2>5. EndOK(o)'
    BY <1>1, <1>9, <2>1, <2>2 DEF ObjOK, EndOK, IsChild
  <2>6. MapOK(o)'
    BY <1>1 DEF MapOK, IsChild
  <2>7. Parent[o] # o
    BY <2>2, KindFacts
  <2>8. DeviceOK(o)'
    BY <1>1, <1>3, <1>4, <1>5, <2>7 DEF DeviceOK, IInv, TypeOK
  <2>9. ParentOK(o)'
    <3>1. IsChild(o) => a = "negotiated"
      BY <1>0, <1>1, KindFacts
    <3>2. IsChild(o) => native'[Parent[o]] = "open" \/ Parent[o] \in misused'
      BY <1>1, <1>3, <1>4, <2>7, <3>1 DEF Kept, IInv, TypeOK
    <3> QED
      BY <3>2 DEF ParentOK, IsChild
  <2> QED
    BY <2>4, <2>5, <2>6, <2>8, <2>9 DEF ObjOK
<1>16. ASSUME NEW x \in Objs, x # o, Parent[x] = o PROVE DeviceOK(x)' /\ ParentOK(x)'
  <2>1. native'[Parent[x]] = "open"
    BY <1>9, <1>16
  <2> QED
    BY <2>1 DEF DeviceOK, ParentOK
<1>17. ReadyOK'
  BY <1>1 DEF IInv, ReadyOK
<1> QED
  BY <1>3, <1>6, <1>7, <1>8, <1>9, <1>10, <1>11, <1>12, <1>13, <1>14, <1>15, <1>16, <1>17, StepInv

\* The listener learns of the wrapper.
LEMMA NameInv ==
  ASSUME IInv, NEW t \in Threads, NEW o \in Objs, call[t].obj = o, Go(t, "wrap", "set"), Touch({o}, {}), NoCallback,
         named' = named \cup {o},
         UNCHANGED <<handle, native, listener, mediaVars, mapVars, endVars>>
  PROVE  IInv'
<1>0. UNCHANGED <<handle, native, listener, loaded, ready, channel, inMap, empty, told, dropped, failed>> /\ Running
  BY DEF mediaVars, mapVars, endVars, Go
<1>1. /\ CallType' /\ OverlapsRecorded' /\ OneCreator' /\ misused' = misused
      /\ call[t] # Idle /\ call[t].at = "wrap" /\ OthersWait(t)
      /\ call'[t].obj = call[t].obj /\ call'[t].at = "set"
  BY <1>0, GoFacts DEF Places, BeingMade
<1>2. Placed(o, "wrap") /\ Kept(o, "wrap")
  BY <1>1, InCall
<1>3. UsesAreLive' /\ wild' \subseteq Objs
  BY <1>0, <1>2, TouchOK DEF Placed, Alive
<1>4. MediaCallbacksAreNamed' /\ unnamed' \subseteq Objs /\ ended' = ended
  BY <1>1, NoCallbackOK
<1>5. TypeOK' /\ ReadyOK'
  BY <1>0, <1>1, <1>3, <1>4 DEF IInv, TypeOK, CallType, ReadyOK
<1>6. Grows /\ OnlyAt(o) /\ Guarded(t, o)
  BY <1>0, <1>1, GuardQuiet DEF Grows, OnlyAt
<1>7. ASSUME NEW x PROVE CallsStay(x)
  <2>1. {call[t].at, call'[t].at} \subseteq {"wrap", "set"}
    BY <1>1
  <2> QED
    BY <1>1, <2>1, CallsStayAt
<1>8. CallOK(t)'
  <2>1. Placed(o, "set")'
    BY <1>0, <1>2 DEF Placed, BeingMade, IsChild, Alive
  <2>2. Kept(o, "set")'
    BY <1>0, <1>1, <1>2 DEF Kept, BeingMade, Family
  <2> QED
    BY <1>1, <2>1, <2>2 DEF CallOK
<1>9. ObjOK(o)'
  <2>1. ObjOK(o) /\ CallsStay(o) /\ CallsStay(Parent[o]) /\ (Shares(o) => Shares(o)')
    BY <1>6, <1>7, SharesStays DEF IInv, Grows
  <2>2. HandleOK(o)' /\ ListenerOK(o)' /\ EndOK(o)'
    BY <1>0, <2>1 DEF ObjOK, HandleOK, ListenerOK, EndOK, Alive, IsChild, CallsStay
  <2>3. DeviceOK(o)' /\ MapOK(o)' /\ ParentOK(o)'
    BY <1>0, <1>1, <2>1 DEF ObjOK, DeviceOK, MapOK, ParentOK, Alive, IsChild, CallsStay
  <2> QED
    BY <2>2, <2>3 DEF ObjOK
<1>10. native'[o] = native[o] /\ (Closing(o) => Closing(o)')
  BY <1>0, <1>7 DEF CallsStay
<1> QED
  BY <1>0, <1>1, <1>3, <1>4, <1>5, <1>6, <1>7, <1>8, <1>9, <1>10, StepInv

\* Java gets the wrapper.
LEMMA WrapperInv ==
  ASSUME IInv, NEW t \in Threads, NEW o \in Objs, call[t].obj = o, Leave(t, "set"), Touch({o}, {}), NoCallback,
         handle' = [handle EXCEPT ![o] = "set"],
         UNCHANGED <<named, native, listener, mediaVars, mapVars, endVars>>
  PROVE  IInv'
<1>0. /\ UNCHANGED <<named, native, listener, loaded, ready, channel, inMap, empty, told, dropped, failed>>
      /\ Running /\ call[t].at = "set" /\ call[t].at \in BeingMade /\ misused' = misused
  BY DEF mediaVars, mapVars, endVars, Leave, BeingMade
<1>1. Guarded(t, o) /\ \A u \in Threads : u # t => call[u].obj # o
  BY <1>0, GuardMaker
<1>2. ASSUME NEW u \in Threads, u # t, call[u] # Idle
      PROVE  handle'[call[u].obj] = "none" <=> handle[call[u].obj] = "none"
  BY <1>1, <1>2, InCall DEF IInv, TypeOK
<1>3. /\ CallType' /\ OverlapsRecorded' /\ OneCreator'
      /\ call[t] # Idle /\ call'[t] = Idle /\ OthersWait(t)
  BY <1>2, LeaveFacts DEF Places
<1>4. Placed(o, "set") /\ Kept(o, "set")
  BY <1>0, InCall
<1>5. UsesAreLive' /\ wild' \subseteq Objs
  BY <1>0, <1>4, TouchOK DEF Placed, Alive
<1>6. MediaCallbacksAreNamed' /\ unnamed' \subseteq Objs /\ ended' = ended
  BY <1>0, NoCallbackOK
<1>7. TypeOK' /\ ReadyOK' /\ handle'[o] = "set"
  BY <1>0, <1>3, <1>5, <1>6 DEF IInv, TypeOK, CallType, ReadyOK
<1>8. Grows /\ OnlyAt(o)
  BY <1>0, <1>4, <1>7 DEF Grows, OnlyAt, IInv, TypeOK
<1>9. CallOK(t)'
  BY <1>3 DEF CallOK, Idle
<1>10. \A x : x # o => CallsStay(x)
  BY <1>3, CallsStayAt
<1>11. At(o, {"close"}) => At(o, {"close"})'
  BY <1>0, <1>3, AtStays
<1>12. ObjOK(o)'
  <2>1. /\ ObjOK(o) /\ Alive(o) /\ listener[o] = "live" /\ o \in named /\ Kind[o] \notin RootKinds
        /\ (Shares(o) => Shares(o)')
    BY <1>4, <1>8, SharesStays DEF IInv, Grows, Placed, BeingMade
  <2>2. Parent[o] # o
    BY <2>1, KindFacts
  <2>3. HandleOK(o)'
    <3>1. IsChild(o) => handle'[Parent[o]] # "none"
      BY <1>4, <1>7, <2>2 DEF Placed, BeingMade, IInv, TypeOK
    <3> QED
      BY <1>0, <1>7, <2>1, <3>1 DEF ObjOK, HandleOK, Alive, IsChild
  <2>4. ListenerOK(o)' /\ EndOK(o)'
    BY <1>0, <2>1 DEF ObjOK, ListenerOK, EndOK, Alive, IsChild
  <2>5. CallsStay(Parent[o])
    BY <1>10, <2>2
  <2>6. DeviceOK(o)' /\ MapOK(o)' /\ ParentOK(o)'
    BY <1>0, <2>1, <2>5 DEF ObjOK, DeviceOK, MapOK, ParentOK, Alive, IsChild, CallsStay
  <2> QED
    BY <2>3, <2>4, <2>6 DEF ObjOK
<1>13. native'[o] = native[o] /\ (Closing(o) => Closing(o)')
  BY <1>0, <1>11 DEF At, Closing
<1> QED
  BY <1>0, <1>1, <1>3, <1>5, <1>6, <1>7, <1>8, <1>9, <1>10, <1>12, <1>13, StepInv

\* Both steps.
LEMMA NativeToJavaInv == ASSUME IInv, NEW t \in Threads, NEW k, NativeToJava(t, k) PROVE IInv'
<1>0. call[t].at \in {"wrap", "set"} /\ call[t].obj \in Objs
  BY InCall DEF NativeToJava
<1> PICK o \in Objs : o = call[t].obj
  BY <1>0
<1>1. Touch({o}, {}) /\ NoCallback /\ UNCHANGED <<native, listener, mediaVars, mapVars, endVars>>
  BY DEF NativeToJava
<1>2. CASE Go(t, "wrap", "set")
  <2>1. named' = named \cup {o} /\ UNCHANGED handle
    BY <1>2 DEF NativeToJava, Go, Leave
  <2> QED
    BY <1>1, <1>2, <2>1, NameInv
<1>3. CASE Leave(t, "set")
  <2>1. handle' = [handle EXCEPT ![o] = "set"] /\ UNCHANGED named
    BY <1>3 DEF NativeToJava, Go, Leave
  <2> QED
    BY <1>1, <1>3, <2>1, WrapperInv
<1> QED
  BY <1>2, <1>3 DEF NativeToJava

-----------------------------------------------------------------------------
(***************************************************************************)
(* Closing and freeing                                                      *)
(***************************************************************************)
\* A call enters and closes its object, frees its listener, or drops it from the map.
LEMMA EnterChangeInv ==
  ASSUME IInv, NEW t \in Threads, NEW o \in Objs, NEW a \in {"read", "through", "close", "free"},
         NEW broken \in SUBSET Objs, Enter(t, o, a, broken), handle[o] = "set",
         native' = native \/ native' = [native EXCEPT ![o] = "closed"],
         listener' = listener \/ listener' = [listener EXCEPT ![o] = "deleted"],
         dropped' = dropped \/ dropped' = dropped \cup {o},
         inMap' \subseteq inMap, \A x \in inMap : x # o => x \in inMap' \/ Shares(x)',
         UNCHANGED <<handle, named, mediaVars, empty, told, failed>>,
         UsesAreLive', wild' \subseteq Objs, MediaCallbacksAreNamed', unnamed' \subseteq Objs,
         ended' \in {"no", "java exception", "uncaught"},
         Placed(o, a)', Kept(o, a)', ObjOK(o)',
         \A x \in Objs : x # o /\ Parent[x] = o => ParentOK(x)'
  PROVE  IInv'
<1>0. UNCHANGED <<handle, named, loaded, ready, channel, empty, told, failed>>
  BY DEF mediaVars
<1>1. Alive(o)
  BY SetIsAlive
<1>2. a \in Places \ {"idle"} /\ a \notin BeingMade
  BY DEF Places, BeingMade
<1>3. /\ CallType' /\ OverlapsRecorded' /\ OneCreator'
      /\ misused' \subseteq Objs /\ misused \subseteq misused'
      /\ call'[t].obj = o /\ call'[t].at = a /\ OthersWait(t) /\ \A x : CallsStay(x)
  BY <1>0, <1>2, EnterFacts
<1>4. TypeOK' /\ ReadyOK'
  <2>1. native' \in [Objs -> {"none", "open", "closed", "deleted"}]
    BY DEF IInv, TypeOK
  <2>2. listener' \in [Objs -> {"none", "live", "deleted"}]
    BY DEF IInv, TypeOK
  <2>3. dropped' \subseteq Objs /\ inMap' \subseteq Objs
    BY DEF IInv, TypeOK
  <2> QED
    BY <1>0, <1>3, <2>1, <2>2, <2>3 DEF IInv, TypeOK, CallType, ReadyOK
<1>5. Grows
  BY <1>0, <1>3 DEF Grows
<1>6. OnlyAt(o)
  BY <1>0 DEF OnlyAt, IInv, TypeOK
<1>7. Alive(o)' /\ native'[o] # "deleted"
  BY <1>1 DEF Alive, IInv, TypeOK
<1>8. Guarded(t, o)
  BY <1>1, <1>2, GuardEnter
<1>9. CallOK(t)'
  BY <1>3 DEF CallOK
<1>10. ASSUME NEW x \in Objs, x # o, Parent[x] = o PROVE DeviceOK(x)' /\ ParentOK(x)'
  BY <1>7, <1>10 DEF DeviceOK
<1> QED
  BY <1>3, <1>4, <1>5, <1>6, <1>8, <1>9, <1>10, StepInv

\* Somebody who frees the listener of an object is recorded by whoever enters.
LEMMA EnterListener ==
  ASSUME IInv, NEW t \in Threads, NEW o \in Objs, NEW a, NEW broken, Enter(t, o, a, broken), handle[o] = "set",
         Kind[o] # "Device", listener[o] = "deleted"
  PROVE  o \in misused'
<1>1. native[o] # "deleted"
  BY SetIsAlive
<1>2. Family(o) = o /\ \E u \in Threads : call[u] # Idle /\ call[u].obj = o
  BY <1>1, FreedListener
<1> QED
  BY <1>2 DEF Enter, InUse

\* close() of a transport.
LEMMA CloseTransportInv == ASSUME IInv, NEW t \in Threads, NEW o \in Objs, CloseTransport(t, o) PROVE IInv'
<1>0. /\ Kind[o] \in TransportKinds /\ handle[o] = "set" /\ native[o] = "open" /\ Enter(t, o, "close", {})
      /\ native' = [native EXCEPT ![o] = "closed"] /\ Callback({o}, o)
      /\ UNCHANGED <<handle, listener, named, mediaVars, inMap, empty, told, dropped, failed>>
  BY DEF CloseTransport, mapVars, endVars
<1>1. Kind[o] \notin RootKinds /\ ~IsChild(o) /\ Kind[o] # "Device" /\ HandleOK(o) /\ ObjOK(o)
  BY <1>0, KindFacts DEF IInv, ObjOK
<1>2. misused \subseteq misused' /\ Running
  BY <1>0 DEF Enter
<1>3. MediaCallbacksAreNamed' /\ unnamed' \subseteq Objs /\ ended' \in {"no", "java exception"} /\ Touch({o}, {o})
  BY <1>0, <1>1, <1>2, CallbackOK DEF HandleOK
<1>4. UsesAreLive' /\ wild' \subseteq Objs
  BY <1>0, <1>1, <1>2, <1>3, EnterListener, TouchOneOK
<1>5. native'[o] = "closed"
  BY <1>0 DEF IInv, TypeOK
<1>6. Placed(o, "close")' /\ Kept(o, "close")'
  BY <1>0, <1>5 DEF Placed, Kept, BeingMade
<1>7. CallsStay(o) /\ call'[t] = [obj |-> o, at |-> "close"]
  BY <1>0, EnterFacts DEF Places, BeingMade
<1>8. ObjOK(o)'
  <2>1. HandleOK(o)' /\ EndOK(o)' /\ MapOK(o)' /\ ParentOK(o)'
    BY <1>0, <1>1, <1>5 DEF HandleOK, EndOK, MapOK, ParentOK, Alive, IsChild
  <2>2. ListenerOK(o)'
    BY <1>0, <1>1, <1>5, <1>7 DEF ObjOK, ListenerOK, Alive, CallsStay
  <2>3. DeviceOK(o)'
    <3>1. native'[Parent[o]] = native[Parent[o]]
      BY <1>0, KindFacts DEF IInv, TypeOK
    <3> QED
      BY <1>0, <1>1, <1>2, <3>1 DEF ObjOK, DeviceOK, Alive
  <2> QED
    BY <2>1, <2>2, <2>3 DEF ObjOK
<1>9. \A x \in Objs : x # o /\ Parent[x] = o => ParentOK(x)'
  <2>1. Closing(o)'
    BY <1>7 DEF Closing
  <2> QED
    BY <1>5, <2>1 DEF ParentOK
<1>10. {} \in SUBSET Objs /\ inMap' \subseteq inMap /\ \A x \in inMap : x \in inMap'
  BY <1>0
<1>11. ended' \in {"no", "java exception", "uncaught"}
  BY <1>3
<1> QED
  BY <1>0, <1>3, <1>4, <1>6, <1>8, <1>9, <1>10, <1>11, EnterChangeInv

\* The first half of freeing a transport: its listener goes.
LEMMA FreeTransportInv ==
  ASSUME IInv, NEW t \in Threads, NEW o \in Objs, NEW k \in TransportKinds, FreeTransport(t, o, k) PROVE IInv'
<1> DEFINE broken == {p \in {o} : native[p] # "closed"}
<1>0. /\ Kind[o] \in TransportKinds /\ handle[o] = "set" /\ Enter(t, o, "free", broken)
      /\ listener' = [listener EXCEPT ![o] = "deleted"] /\ Touch({}, {o}) /\ NoCallback
      /\ UNCHANGED <<handle, native, named, mediaVars, inMap, empty, told, dropped, failed>>
  BY DEF FreeTransport, mapVars, endVars
<1>1. Kind[o] \notin RootKinds /\ ~IsChild(o) /\ Kind[o] # "Device" /\ ObjOK(o)
  BY <1>0, KindFacts DEF IInv
<1>2. misused \subseteq misused' /\ broken \subseteq misused' /\ Running
  BY <1>0 DEF Enter
<1>3. broken \in SUBSET Objs /\ (o \notin broken => native[o] = "closed")
  OBVIOUS
<1> HIDE DEF broken
<1>4. MediaCallbacksAreNamed' /\ unnamed' \subseteq Objs /\ ended' = ended
  BY <1>0, <1>2, NoCallbackOK
<1>5. UsesAreLive' /\ wild' \subseteq Objs
  BY <1>0, <1>1, <1>2, EnterListener, TouchOK
<1>6. listener'[o] = "deleted" /\ native[o] # "deleted"
  BY <1>0, SetIsAlive DEF IInv, TypeOK
<1>7. Placed(o, "free")'
  BY <1>0, <1>1, <1>6 DEF Placed, BeingMade, IsChild
<1>8. Kept(o, "free")'
  <2>1. Family(o)' = o
    BY <1>0, <1>1 DEF Family, IsChild
  <2> QED
    BY <1>0, <1>1, <1>2, <1>3, <2>1 DEF Kept, BeingMade
<1>9. CallsStay(o) /\ call'[t] = [obj |-> o, at |-> "free"]
  BY <1>0, <1>3, EnterFacts DEF Places, BeingMade
<1>10. ObjOK(o)'
  <2>1. HandleOK(o)' /\ EndOK(o)' /\ MapOK(o)' /\ ParentOK(o)'
    BY <1>0, <1>1 DEF ObjOK, HandleOK, EndOK, MapOK, ParentOK, Alive, IsChild
  <2>2. ListenerOK(o)'
    <3>1. At(o, {"free"})'
      BY <1>9 DEF At
    <3> QED
      BY <1>6, <3>1 DEF ListenerOK
  <2>3. DeviceOK(o)'
    BY <1>0, <1>1, <1>2 DEF ObjOK, DeviceOK, Alive
  <2> QED
    BY <2>1, <2>2, <2>3 DEF ObjOK
<1>11. ASSUME NEW x \in Objs, x # o, Parent[x] = o PROVE ParentOK(x)'
  <2>1. Shares(x) => Shares(x)'
    BY <1>0, SharesStays
  <2>2. ParentOK(x)
    BY DEF IInv, ObjOK
  <2> QED
    BY <1>0, <1>2, <1>9, <1>11, <2>1, <2>2 DEF ParentOK, IsChild, CallsStay
<1>12. ended' \in {"no", "java exception", "uncaught"}
  BY <1>2, <1>4 DEF Running
<1> QED
  BY <1>0, <1>3, <1>4, <1>5, <1>7, <1>8, <1>10, <1>11, <1>12, EnterChangeInv

\* close() of a child.
LEMMA CloseChildInv ==
  ASSUME IInv, NEW t \in Threads, NEW o \in Objs, NEW k \in ChildKinds, CloseChild(t, o, k) PROVE IInv'
<1>0. /\ IsChild(o) /\ handle[o] = "set" /\ native[o] = "open" /\ Enter(t, o, "through", {}) /\ Touch({o, Parent[o]}, {})
      /\ native' = [native EXCEPT ![o] = "closed"] /\ dropped' = dropped \cup {o}
      /\ inMap' = {c \in inMap : c # o /\ ~SameKey(c, o, empty)}
      /\ ended' \in {"no", "uncaught"}
      /\ UNCHANGED <<handle, listener, named, mediaVars, empty, told, failed, unnamed>>
  BY DEF CloseChild, IsChild
<1>1. Parent[o] \in Objs /\ Parent[o] # o /\ Kind[o] # "Device" /\ Kind[o] \notin RootKinds /\ ObjOK(o)
      /\ Kind[o] \notin TransportKinds
  BY <1>0, KindFacts DEF IInv
<1>2. misused \subseteq misused' /\ Running /\ \A x : (Ambiguous(x) => Ambiguous(x)')
  BY <1>0, SharesStays DEF Enter
<1>3. MediaCallbacksAreNamed' /\ unnamed' \subseteq Objs
  BY <1>0, <1>2 DEF IInv, MediaCallbacksAreNamed, TypeOK, IsChild
<1>4. native[Parent[o]] = "deleted" => Parent[o] \in misused' \/ Ambiguous(Parent[o])'
  BY <1>0, <1>2, OpenChildParent
<1>5. UsesAreLive' /\ wild' \subseteq Objs
  BY <1>0, <1>1, <1>2, <1>4, TouchOK
<1>6. native'[o] = "closed" /\ native'[Parent[o]] = native[Parent[o]]
  BY <1>0, <1>1 DEF IInv, TypeOK
<1>7. Placed(o, "through")'
  BY <1>0 DEF Placed, BeingMade, IsChild
<1>8. Kept(o, "through")'
  <2>1. Family(o)' = Parent[o]
    BY <1>0 DEF Family, IsChild
  <2> QED
    BY <1>4, <1>6, <2>1 DEF Kept, BeingMade
<1>9. CallsStay(o)
  <2>1. "through" \in Places \ {"idle"} /\ "through" \notin BeingMade /\ {} \in SUBSET Objs
    BY DEF Places, BeingMade
  <2> QED
    BY <1>0, <1>1, <2>1, EnterFacts
<1>10. ObjOK(o)'
  <2>1. HandleOK(o)' /\ MapOK(o)' /\ ParentOK(o)' /\ DeviceOK(o)'
    BY <1>0, <1>1, <1>6 DEF ObjOK, HandleOK, MapOK, ParentOK, DeviceOK, Alive, IsChild
  <2>2. EndOK(o)'
    BY <1>0, <1>1, <1>6 DEF ObjOK, EndOK, IsChild
  <2>3. ListenerOK(o)'
    BY <1>0, <1>1, <1>6, <1>9 DEF ObjOK, ListenerOK, Alive, CallsStay
  <2> QED
    BY <2>1, <2>2, <2>3 DEF ObjOK
<1>11. ASSUME NEW x \in inMap, x # o PROVE x \in inMap' \/ Shares(x)'
  <2>1. SUFFICES ASSUME SameKey(x, o, empty) PROVE Shares(x)'
    BY <1>0, <1>11
  <2> QED
    BY <1>0, <1>11, <2>1 DEF Shares, SameKey
<1>12. \A x \in Objs : x # o /\ Parent[x] = o => ParentOK(x)'
  <2>1. \A x \in Objs : IsChild(x) => Parent[x] # o
    BY <1>1, KindFacts
  <2> QED
    BY <2>1 DEF ParentOK, IsChild
<1>13. {} \in SUBSET Objs /\ inMap' \subseteq inMap /\ ended' \in {"no", "java exception", "uncaught"}
  BY <1>0
<1> QED
  BY <1>0, <1>3, <1>5, <1>7, <1>8, <1>10, <1>11, <1>12, <1>13, EnterChangeInv

\* A peer connection is closed, or closed and its observer freed.
LEMMA EndPeerConnectionInv ==
  ASSUME IInv, NEW t \in Threads, NEW o \in Objs, NEW a \in {"read", "free"}, Kind[o] = "PeerConnection",
         handle[o] = "set", Enter(t, o, a, {}), Touch({o}, {o}), ended' \in {"no", "java exception"},
         native' = [native EXCEPT ![o] = "closed"],
         listener' = IF a = "free" THEN [listener EXCEPT ![o] = "deleted"] ELSE listener,
         UNCHANGED <<handle, named, mediaVars, mapVars, endVars, unnamed>>
  PROVE  IInv'
<1>0. UNCHANGED <<handle, named, mediaVars, inMap, empty, told, dropped, failed, unnamed>>
  BY DEF mapVars, endVars
<1>1. Kind[o] \in RootKinds /\ ~IsChild(o) /\ Kind[o] # "Device" /\ Kind[o] \notin TransportKinds /\ ObjOK(o)
  BY KindFacts DEF IInv
<1>2. misused \subseteq misused' /\ Running
  BY DEF Enter
<1>3. MediaCallbacksAreNamed' /\ unnamed' \subseteq Objs
  BY <1>0, <1>2 DEF IInv, MediaCallbacksAreNamed, TypeOK, IsChild
<1>4. UsesAreLive' /\ wild' \subseteq Objs
  BY <1>1, <1>2, SetIsAlive, EnterListener, TouchOneOK
<1>5. native'[o] = "closed" /\ (a = "free" => listener'[o] = "deleted") /\ (a # "free" => listener' = listener)
  BY DEF IInv, TypeOK
<1>6. Placed(o, a)' /\ Kept(o, a)'
  BY <1>0, <1>1, <1>5 DEF Placed, Kept, BeingMade, IsChild
<1>7. {} \in SUBSET Objs /\ a \in Places \ {"idle"} /\ a \notin BeingMade /\ a \in {"read", "through", "close", "free"}
      /\ ended' \in {"no", "java exception", "uncaught"}
  BY DEF Places, BeingMade
<1>8. CallsStay(o) /\ call'[t].obj = o /\ call'[t].at = a
  <2>1. handle[o] # "none" /\ UNCHANGED handle
    BY <1>0
  <2>2. a \in BeingMade => listener[o] = "none"
    BY <1>7
  <2>3. CallsStay(o)
    BY <1>7, <2>1, <2>2, EnterFacts
  <2>4. call'[t].obj = o
    BY <1>7, <2>1, <2>2, EnterFacts
  <2>5. call'[t].at = a
    BY DEF Enter, IInv, TypeOK
  <2> QED
    BY <2>3, <2>4, <2>5
<1>9. ObjOK(o)'
  <2>1. HandleOK(o)' /\ EndOK(o)' /\ MapOK(o)' /\ ParentOK(o)' /\ DeviceOK(o)'
    BY <1>0, <1>1, <1>5 DEF HandleOK, EndOK, MapOK, ParentOK, DeviceOK, Alive, IsChild
  <2>2. ListenerOK(o)'
    <3>1. a = "free" => At(o, {"free"})'
      BY <1>8 DEF At
    <3>2. Alive(o)
      BY SetIsAlive
    <3>3. a # "free" => listener'[o] = "live" \/ At(o, {"free"})'
      BY <1>1, <1>5, <1>8, <3>2 DEF ObjOK, ListenerOK, CallsStay
    <3> QED
      BY <1>5, <3>1, <3>3 DEF ListenerOK, Alive
  <2> QED
    BY <2>1, <2>2 DEF ObjOK
<1>10. \A x \in Objs : x # o /\ Parent[x] = o => ParentOK(x)'
  <2>1. \A x \in Objs : IsChild(x) => Parent[x] # o
    BY <1>1, KindFacts
  <2> QED
    BY <2>1 DEF ParentOK, IsChild
<1>11. inMap' \subseteq inMap /\ \A x \in inMap : x \in inMap'
  BY <1>0
<1> QED
  BY <1>0, <1>3, <1>4, <1>6, <1>7, <1>9, <1>10, <1>11, EnterChangeInv

\* The object itself is deleted.
LEMMA DeleteNativeInv == ASSUME IInv, NEW t \in Threads, DeleteNative(t) PROVE IInv'
<1>0. call[t].at = "free" /\ Running /\ call[t].obj \in Objs /\ misused' = misused
  BY InCall DEF DeleteNative, Leave
<1> PICK o \in Objs : o = call[t].obj
  BY <1>0
<1>1. /\ Leave(t, "free") /\ Touch({o}, {}) /\ NoCallback
      /\ native' = [native EXCEPT ![o] = "deleted"] /\ handle' = [handle EXCEPT ![o] = "zero"]
      /\ UNCHANGED <<listener, named, loaded, ready, channel, inMap, empty, told, dropped, failed>>
  BY DEF DeleteNative, mediaVars, mapVars, endVars
<1>2. Placed(o, "free") /\ Kept(o, "free") /\ call[t] # Idle
  BY <1>0, InCall
<1>3. Family(o) = o /\ ~IsChild(o) /\ handle[o] # "none"
  BY <1>2 DEF Family, Placed, IsChild
<1>4. native'[o] = "deleted" /\ handle'[o] = "zero"
  BY <1>1 DEF IInv, TypeOK
<1>5. ASSUME NEW u \in Threads, u # t, call[u] # Idle
      PROVE  handle'[call[u].obj] = "none" <=> handle[call[u].obj] = "none"
  BY <1>1, <1>3, <1>4, <1>5, InCall DEF IInv, TypeOK
<1>6. /\ CallType' /\ OverlapsRecorded' /\ OneCreator' /\ call'[t] = Idle /\ OthersWait(t)
  BY <1>1, <1>5, LeaveFacts DEF Places
<1>7. UsesAreLive' /\ wild' \subseteq Objs
  <2>1. native[o] = "deleted" => o \in misused'
    BY <1>0, <1>2, <1>3 DEF Kept
  <2> QED
    BY <1>0, <1>1, <2>1, TouchOK
<1>8. MediaCallbacksAreNamed' /\ unnamed' \subseteq Objs /\ ended' = ended
  BY <1>0, <1>1, NoCallbackOK
<1>9. TypeOK' /\ ReadyOK'
  BY <1>0, <1>1, <1>6, <1>7, <1>8 DEF IInv, TypeOK, CallType, ReadyOK
<1>10. Grows /\ OnlyAt(o)
  BY <1>0, <1>1, <1>4 DEF Grows, OnlyAt, IInv, TypeOK
<1>11. Guarded(t, o)
  BY <1>0, <1>3, <1>4, GuardInside DEF Alive
<1>12. CallOK(t)'
  BY <1>6 DEF CallOK, Idle
<1>13. \A x : x # o => CallsStay(x)
  BY <1>6, CallsStayAt
<1>14. ObjOK(o)'
  <2>1. ObjOK(o) /\ (Kind[o] # "Device" => listener[o] = "deleted")
    BY <1>2 DEF IInv, Placed
  <2>2. HandleOK(o)' /\ ListenerOK(o)'
    BY <1>1, <1>3, <1>4, <2>1 DEF ObjOK, HandleOK, ListenerOK, Alive, IsChild
  <2>3. EndOK(o)' /\ MapOK(o)' /\ ParentOK(o)' /\ DeviceOK(o)'
    BY <1>3, <1>4 DEF EndOK, MapOK, ParentOK, DeviceOK, Alive, IsChild
  <2> QED
    BY <2>2, <2>3 DEF ObjOK
<1>15. ASSUME NEW x \in Objs, x # o, Parent[x] = o PROVE DeviceOK(x)' /\ ParentOK(x)'
  <2>0. native'[x] = native[x]
    BY <1>1, <1>15 DEF IInv, TypeOK
  <2>1. DeviceOK(x)'
    <3>1. SUFFICES ASSUME Kind[x] \in TransportKinds, Alive(x), o \notin misused PROVE FALSE
      BY <1>0, <1>15, <2>0 DEF DeviceOK, Alive
    <3>2. Kind[o] = "Device"
      BY <1>15, <3>1, KindFacts
    <3> QED
      BY <1>2, <1>3, <1>15, <3>1, <3>2 DEF Kept
  <2>2. ParentOK(x)'
    <3>1. SUFFICES ASSUME IsChild(x), native[x] = "open", o \notin misused PROVE x \notin inMap' /\ Shares(x)'
      BY <1>0, <1>15, <2>0 DEF ParentOK, IsChild
    <3>2. Kind[o] # "Device"
      BY <1>15, <3>1, KindFacts
    <3>3. native[o] = "closed"
      BY <1>2, <1>3, <3>1, <3>2 DEF Kept
    <3>4. ~Closing(o)
      <4> SUFFICES ASSUME NEW u \in Threads, call[u].obj = o, call[u].at = "close" PROVE FALSE
        BY DEF Closing
      <4>1. u # t /\ call[u] # Idle
        BY <1>0, InCall
      <4> QED
        BY <1>2, <1>3, <3>1, <4>1 DEF IInv, OverlapsRecorded
    <3>5. x \notin inMap /\ Shares(x)
      BY <1>15, <3>1, <3>3, <3>4 DEF IInv, ObjOK, ParentOK
    <3> QED
      BY <1>1, <3>5, SharesStays
  <2> QED
    BY <2>1, <2>2
<1> QED
  BY <1>1, <1>6, <1>7, <1>8, <1>9, <1>10, <1>11, <1>12, <1>13, <1>14, <1>15, StepInv

\* close() tells a child.
LEMMA TransportClosedInv ==
  ASSUME IInv, NEW t \in Threads, NEW c \in Objs, NEW k \in ChildKinds, TransportClosed(t, c, k) PROVE IInv'
<1>0. call[t].at = "close" /\ Running /\ call[t].obj \in Objs /\ misused' = misused
  BY InCall DEF TransportClosed, Go
<1> PICK p \in Objs : p = call[t].obj
  BY <1>0
<1>1. /\ Go(t, "close", "close") /\ IsChild(c) /\ c \in ChildrenToTell(p)
      /\ native' = [native EXCEPT ![c] = "closed"] /\ told' = told \cup {c} /\ Callback({c, Parent[c]}, c)
      /\ UNCHANGED <<handle, listener, named, loaded, ready, channel, inMap, empty, dropped, failed>>
  BY DEF TransportClosed, IsChild, mediaVars, mapVars
<1>2. Parent[c] = p /\ native[c] = "open"
  BY <1>1 DEF ChildrenToTell, MapChildren
<1>3. Placed(p, "close") /\ Kept(p, "close") /\ call[t] # Idle
  BY <1>0, InCall
<1>4. Kind[p] \in TransportKinds /\ Kind[c] # "Device" /\ p # c /\ Family(p) = p /\ Family(c) = p
  BY <1>1, <1>2, <1>3, KindFacts DEF Placed, Family
<1>5. ObjOK(c) /\ listener[c] # "deleted"
  BY <1>1 DEF IInv, ObjOK, HandleOK
<1>6. c \in named \/ p \in misused
  <2>1. SUFFICES ASSUME handle[c] = "none" PROVE p \in misused
    BY <1>1, <1>5, KindFacts DEF ObjOK, HandleOK
  <2>2. At(c, {"wrap", "set"})
    BY <1>2, <1>5, <2>1 DEF ObjOK, HandleOK, Alive
  <2>3. PICK u \in Threads : call[u].obj = c /\ call[u].at \in {"wrap", "set"}
    BY <2>2 DEF At
  <2>4. u # t /\ call[u] # Idle
    BY <1>0, <2>3, InCall
  <2> QED
    BY <1>3, <1>4, <2>3, <2>4 DEF IInv, OverlapsRecorded
<1>7. /\ MediaCallbacksAreNamed' /\ unnamed' \subseteq Objs /\ ended' \in {"no", "java exception"}
      /\ Touch({c, p}, {c})
  BY <1>0, <1>1, <1>2, <1>6, CallbackOK
<1>8. UsesAreLive' /\ wild' \subseteq Objs
  <2>1. native[p] = "deleted" => p \in misused'
    BY <1>0, <1>3, <1>4 DEF Kept
  <2>2. {c, p} \in SUBSET Objs /\ {c} \in SUBSET Objs /\ \A x \in {c} : listener[x] # "deleted"
    BY <1>5
  <2>3. \A x \in {c, p} : native[x] = "deleted" => x \in misused'
    BY <1>2, <2>1
  <2> QED
    BY <1>0, <1>7, <2>2, <2>3, TouchOK
<1>9. /\ CallType' /\ OverlapsRecorded' /\ OneCreator' /\ OthersWait(t)
      /\ call'[t].obj = p /\ call'[t].at = "close"
  BY <1>1, GoFacts DEF Places, BeingMade
<1>10. TypeOK' /\ ReadyOK'
  BY <1>0, <1>1, <1>7, <1>8, <1>9 DEF IInv, TypeOK, CallType, ReadyOK
<1>11. native'[c] = "closed" /\ native'[p] = native[p]
  BY <1>1, <1>4 DEF IInv, TypeOK
<1>12. Grows /\ OnlyAt(c)
  BY <1>0, <1>1 DEF Grows, OnlyAt, IInv, TypeOK
<1>13. Guarded(t, c)
  BY <1>0, <1>1, <1>2, <1>11, GuardBelow DEF Alive
<1>14. \A x : CallsStay(x)
  BY <1>0, <1>9, CallsStayAt
<1>15. CallOK(t)'
  <2>1. Placed(p, "close")'
    BY <1>1, <1>3 DEF Placed, BeingMade
  <2>2. Kept(p, "close")'
    BY <1>0, <1>1, <1>3, <1>11 DEF Kept, BeingMade, Family
  <2> QED
    BY <1>9, <2>1, <2>2 DEF CallOK
<1>16. ObjOK(c)'
  <2>1. HandleOK(c)' /\ MapOK(c)' /\ ParentOK(c)'
    <3>1. At(c, {"wrap", "set"}) => At(c, {"wrap", "set"})'
      BY <1>14 DEF CallsStay
    <3> QED
      BY <1>1, <1>2, <1>5, <1>11, <3>1 DEF ObjOK, HandleOK, MapOK, ParentOK, Alive, IsChild
  <2>2. EndOK(c)'
    BY <1>1, <1>2, <1>5, <1>11 DEF ObjOK, EndOK, IsChild
  <2>3. ListenerOK(c)'
    BY <1>1, <1>2, <1>5, <1>11, <1>14 DEF ObjOK, ListenerOK, Alive, CallsStay
  <2>4. DeviceOK(c)'
    BY <1>1, KindFacts DEF DeviceOK
  <2> QED
    BY <2>1, <2>2, <2>3, <2>4 DEF ObjOK
<1>17. ASSUME NEW x \in Objs, x # c, Parent[x] = c PROVE DeviceOK(x)' /\ ParentOK(x)'
  <2>1. Kind[x] \notin TransportKinds /\ ~IsChild(x)
    BY <1>1, <1>17, KindFacts
  <2> QED
    BY <2>1 DEF DeviceOK, ParentOK, IsChild
<1> QED
  BY <1>1, <1>7, <1>8, <1>9, <1>10, <1>12, <1>13, <1>14, <1>15, <1>16, <1>17, StepInv

\* A device.
LEMMA NewDeviceInv == ASSUME IInv, NEW t \in Threads, NEW o \in Objs, NewDevice(t, o) PROVE IInv'
<1>1. Kind[o] \in RootKinds /\ Kind[o] = "Device"
  BY KindFacts DEF NewDevice
<1> QED
  BY <1>1, NewRootInv DEF NewDevice

\* A peer connection, or what its constructor throws.
LEMMA NewPeerConnectionInv == ASSUME IInv, NEW t \in Threads, NEW o \in Objs, NewPeerConnection(t, o) PROVE IInv'
<1>1. /\ Kind[o] \in RootKinds /\ Kind[o] # "Device" /\ listener[o] = "none" /\ call[t] = Idle /\ Running
      /\ UNCHANGED <<named, mediaVars, mapVars, call, endVars, misused, unnamed, wild>>
  BY KindFacts DEF NewPeerConnection, Creatable
<1>2. native[o] = "none"
  BY <1>1, NoListener
<1>3. CASE ended' = "uncaught" /\ UNCHANGED <<native, handle, listener>>
  <2>1. Dies(t, "uncaught")
    BY <1>1, <1>3 DEF Dies, jniVars
  <2> QED
    BY <2>1, DiesInv
<1>4. CASE /\ native' = [native EXCEPT ![o] = "open"] /\ handle' = [handle EXCEPT ![o] = "set"]
           /\ listener' = [listener EXCEPT ![o] = "live"] /\ UNCHANGED ended
  <2>1. listener'[o] = "live"
    BY <1>4 DEF IInv, TypeOK
  <2> QED
    BY <1>1, <1>2, <1>4, <2>1, NewRootInv
<1> QED
  BY <1>3, <1>4 DEF NewPeerConnection

\* close() of a peer connection.
LEMMA ClosePeerConnectionInv == ASSUME IInv, NEW t \in Threads, NEW o \in Objs, ClosePeerConnection(t, o) PROVE IInv'
<1>1. listener' = IF "read" = "free" THEN [listener EXCEPT ![o] = "deleted"] ELSE listener
  BY DEF ClosePeerConnection
<1> QED
  BY <1>1, EndPeerConnectionInv DEF ClosePeerConnection

\* dispose() of a peer connection.
LEMMA DisposePeerConnectionInv == ASSUME IInv, NEW t \in Threads, NEW o \in Objs, DisposePeerConnection(t, o) PROVE IInv'
<1>1. ended' \in {"no", "java exception"}
  BY DEF DisposePeerConnection
<1> QED
  BY <1>1, EndPeerConnectionInv DEF DisposePeerConnection

-----------------------------------------------------------------------------
(***************************************************************************)
(* All calls and events                                                     *)
(***************************************************************************)
\* Calls on a device.
LEMMA DeviceCallInv == ASSUME IInv, NEW t \in Threads, NEW o \in Objs, CallDevice(t, o) PROVE IInv'
<1>1. CASE NewDevice(t, o)
  BY <1>1, NewDeviceInv
<1>2. CASE Load(t, o)
  BY <1>2, LoadInv
<1>3. CASE AskDevice(t, o)
  BY <1>3, AskCallInv DEF AskDevice
<1>4. CASE FreeDevice(t, o)
  BY <1>4, FreeDeviceInv
<1>5. CASE CreateSendTransport(t, o) \/ CreateRecvTransport(t, o)
  BY <1>5, NewListenerInv, KindNames DEF CreateSendTransport, CreateRecvTransport
<1> QED
  BY <1>1, <1>2, <1>3, <1>4, <1>5 DEF CallDevice

\* Calls on a transport.
LEMMA TransportCallInv == ASSUME IInv, NEW t \in Threads, NEW o \in Objs, CallTransport(t, o) PROVE IInv'
<1>1. CASE AskTransport(t, o)
  BY <1>1, AskCallInv, DiesInv DEF AskTransport
<1>2. CASE UpdateIce(t, o)
  BY <1>2, AskCallInv DEF UpdateIce
<1>3. CASE CloseTransport(t, o)
  BY <1>3, CloseTransportInv
<1>4. CASE FreeSendTransport(t, o) \/ FreeRecvTransport(t, o)
  BY <1>4, FreeTransportInv DEF FreeSendTransport, FreeRecvTransport, TransportKinds
<1>5. CASE Produce(t, o) \/ Consume(t, o) \/ ConsumeData(t, o)
  BY <1>5, NewListenerInv, KindNames DEF Produce, Consume, ConsumeData
<1>6. CASE ProduceData(t, o)
  BY <1>6, NewListenerInv, DiesInv, KindNames DEF ProduceData
<1> QED
  BY <1>1, <1>2, <1>3, <1>4, <1>5, <1>6 DEF CallTransport

\* Calls on producers and consumers.
LEMMA ChildCallInv == ASSUME IInv, NEW t \in Threads, NEW o \in Objs, CallChild(t, o) PROVE IInv'
<1>1. ASSUME NEW k, AskChild(t, o, k) PROVE IInv'
  BY <1>1, AskCallInv DEF AskChild
<1>2. CASE \/ AskProducer(t, o) \/ ResumeProducer(t, o) \/ PauseProducer(t, o) \/ AskConsumer(t, o)
           \/ PauseConsumer(t, o) \/ AskDataProducer(t, o) \/ SendData(t, o) \/ AskDataConsumer(t, o)
  BY <1>1, <1>2 DEF AskProducer, ResumeProducer, PauseProducer, AskConsumer, PauseConsumer,
                    AskDataProducer, SendData, AskDataConsumer
<1>3. CASE \/ GetProducerStats(t, o) \/ SetMaxSpatialLayer(t, o) \/ ReplaceTrack(t, o)
           \/ GetConsumerStats(t, o)
  BY <1>3, AskThroughInv, KindNames DEF GetProducerStats, SetMaxSpatialLayer, ReplaceTrack, GetConsumerStats
<1>4. CASE \/ CloseProducer(t, o) \/ CloseConsumer(t, o) \/ CloseDataProducer(t, o)
           \/ CloseDataConsumer(t, o)
  BY <1>4, CloseChildInv, KindNames DEF CloseProducer, CloseConsumer, CloseDataProducer, CloseDataConsumer
<1> QED
  BY <1>2, <1>3, <1>4 DEF CallChild

\* Calls on a peer connection.
LEMMA PeerConnectionCallInv == ASSUME IInv, NEW t \in Threads, NEW o \in Objs, CallPeerConnection(t, o) PROVE IInv'
<1>1. ASSUME ExtractNativePC(t, o) PROVE IInv'
  BY <1>1, AskCallInv, DiesInv DEF ExtractNativePC
<1>2. CASE \/ GetNativePeerConnection(t, o) \/ SetConfiguration(t, o) \/ Negotiate(t, o)
           \/ GetDescriptions(t, o) \/ AddTransceiver(t, o) \/ GetPeerConnectionStats(t, o)
  BY <1>1, <1>2 DEF GetNativePeerConnection, SetConfiguration, Negotiate, GetDescriptions,
                    AddTransceiver, GetPeerConnectionStats
<1>3. CASE CreateOffer(t, o)
  BY <1>1, <1>3, DiesInv DEF CreateOffer
<1>4. CASE NewPeerConnection(t, o)
  BY <1>4, NewPeerConnectionInv
<1>5. CASE ClosePeerConnection(t, o)
  BY <1>5, ClosePeerConnectionInv
<1>6. CASE DisposePeerConnection(t, o)
  BY <1>6, DisposePeerConnectionInv
<1> QED
  BY <1>2, <1>3, <1>4, <1>5, <1>6 DEF CallPeerConnection

\* What a thread does inside its call.
LEMMA ProceedInv == ASSUME IInv, NEW t \in Threads, Proceed(t) PROVE IInv'
<1>1. CASE Return(t)
  BY <1>1, ReturnInv
<1>2. CASE CreateThrows(t)
  BY <1>2, CreateThrowsInv
<1>3. CASE OnConnect(t)
  BY <1>3, OnConnectInv
<1>4. CASE OnProduce(t) \/ OnProduceData(t)
  BY <1>4, AskProducerIdInv, KindNames DEF OnProduce, OnProduceData
<1>5. CASE Construct(t)
  BY <1>5, ConstructInv
<1>6. CASE \/ NativeToJavaSendTransport(t) \/ NativeToJavaRecvTransport(t) \/ NativeToJavaProducer(t)
           \/ NativeToJavaConsumer(t) \/ NativeToJavaDataProducer(t) \/ NativeToJavaDataConsumer(t)
  BY <1>6, NativeToJavaInv DEF NativeToJavaSendTransport, NativeToJavaRecvTransport, NativeToJavaProducer,
                               NativeToJavaConsumer, NativeToJavaDataProducer, NativeToJavaDataConsumer
<1>7. ASSUME NEW c \in Objs,
             \/ ProducerOnTransportClose(t, c) \/ ConsumerOnTransportClose(t, c)
             \/ DataProducerOnTransportClose(t, c) \/ DataConsumerOnTransportClose(t, c)
      PROVE  IInv'
  BY <1>7, TransportClosedInv, KindNames DEF ProducerOnTransportClose, ConsumerOnTransportClose,
                                  DataProducerOnTransportClose, DataConsumerOnTransportClose
<1>8. CASE CloseReturns(t)
  BY <1>8, CloseReturnsInv
<1>9. CASE DeleteNative(t)
  BY <1>9, DeleteNativeInv
<1>10. CASE Receive(t)
  BY <1>10, ReceiveInv
<1> QED
  BY <1>1, <1>2, <1>3, <1>4, <1>5, <1>6, <1>7, <1>8, <1>9, <1>10 DEF Proceed

\* What the signalling thread does.
LEMMA SignalInv == ASSUME IInv, NEW o \in Objs, Signal(o) PROVE IInv'
<1>1. CASE SendConnectionStateChange(o) \/ RecvConnectionStateChange(o)
  BY <1>1, StateChangeInv DEF SendConnectionStateChange, RecvConnectionStateChange
<1>2. CASE PeerConnectionEvent(o)
  BY <1>2, PeerConnectionEventInv
<1>3. CASE DataConsumerEvent(o) \/ DataProducerEvent(o)
  BY <1>3, DataEventInv DEF DataConsumerEvent, DataProducerEvent, DataKinds
<1> QED
  BY <1>1, <1>2, <1>3 DEF Signal

\* Every step keeps the invariant.
LEMMA NextInv == IInv /\ [Next]_vars => IInv'
<1> SUFFICES ASSUME IInv, [Next]_vars PROVE IInv'
  OBVIOUS
<1>1. ASSUME NEW t \in Threads, Proceed(t) PROVE IInv'
  BY <1>1, ProceedInv
<1>2. ASSUME NEW t \in Threads, NEW o \in Objs,
             CallDevice(t, o) \/ CallTransport(t, o) \/ CallChild(t, o) \/ CallPeerConnection(t, o)
      PROVE  IInv'
  BY <1>2, DeviceCallInv, TransportCallInv, ChildCallInv, PeerConnectionCallInv
<1>3. ASSUME NEW o \in Objs, Signal(o) PROVE IInv'
  BY <1>3, SignalInv
<1>4. CASE UNCHANGED vars
  <2>1. UNCHANGED <<jniVars, mediaVars, mapVars, call, endVars, misused, unnamed, wild, ended>>
    BY <1>4 DEF vars
  <2>2. TypeOK'
    BY <2>1 DEF IInv, TypeOK, jniVars, mediaVars, mapVars, endVars
  <2>3. ReadyOK' /\ MediaCallbacksAreNamed'
    BY <2>1 DEF IInv, ReadyOK, MediaCallbacksAreNamed, IsChild, jniVars, mediaVars
  <2>4. UsesAreLive'
    <3>1. \A x : Ambiguous(x) => Ambiguous(x)'
      BY <2>1, SharesStays DEF mapVars
    <3> QED
      BY <2>1, <3>1 DEF IInv, UsesAreLive
  <2> QED
    BY <2>1, <2>2, <2>3, <2>4, QuietInv
<1> QED
  BY <1>1, <1>2, <1>3, <1>4 DEF Next

\* Nothing exists at the start.
LEMMA InitInv == Init => IInv
<1> SUFFICES ASSUME Init PROVE IInv
  OBVIOUS
<1>1. TypeOK
  BY NoObjAssumption DEF Init, TypeOK, Idle, Places
<1>2. \A t \in Threads : call[t] = Idle
  BY DEF Init
<1>3. OverlapsRecorded /\ OneCreator /\ \A t \in Threads : CallOK(t)
  BY <1>2 DEF OverlapsRecorded, OneCreator, CallOK, Idle, BeingMade
<1>4. \A o \in Objs : ObjOK(o)
  BY DEF Init, ObjOK, HandleOK, ListenerOK, DeviceOK, EndOK, MapOK, ParentOK, Alive
<1>5. ReadyOK /\ UsesAreLive /\ MediaCallbacksAreNamed
  BY DEF Init, ReadyOK, UsesAreLive, MediaCallbacksAreNamed
<1> QED
  BY <1>1, <1>3, <1>4, <1>5 DEF IInv

\* The invariant holds in every reachable state.
LEMMA IInvHolds == Spec => []IInv
  BY InitInv, NextInv, PTL DEF Spec

-----------------------------------------------------------------------------
(***************************************************************************)
(* What the invariant says                                                  *)
(***************************************************************************)
\* The state has its type in every reachable state.
THEOREM ObjectTypesHold == Spec => []TypeOK
<1>1. IInv => TypeOK
  BY DEF IInv
<1> QED
  BY <1>1, IInvHolds, PTL

\* Only misuse by the callers, or a child that shares its id with another one, lets a call or a
\* callback use a deleted native object or listener: the wrappers zero their handles with the
\* delete, and close() ends every child that the maps still hold.
THEOREM UsesAreLiveHolds == Spec => []UsesAreLive
<1>1. IInv => UsesAreLive
  BY DEF IInv
<1> QED
  BY <1>1, IInvHolds, PTL

\* An open child has an open transport, or one whose close() is about to tell it, unless the map
\* lost the child to another one with its id or the callers overlapped.
THEOREM ChildrenEndWithTransportHolds == Spec => []ChildrenEndWithTransport
<1>1. IInv => ChildrenEndWithTransport
  BY DEF IInv, ObjOK, ParentOK, ChildrenEndWithTransport
<1> QED
  BY <1>1, IInvHolds, PTL

\* A child hears of its transport's close exactly if it was not closed before.
THEOREM ChildrenEndOnceHolds == Spec => []ChildrenEndOnce
<1>1. IInv => ChildrenEndOnce
  <2> SUFFICES ASSUME IInv, NEW o \in Objs, IsChild(o)
               PROVE  /\ ~(o \in told /\ o \in dropped)
                      /\ (native[o] = "closed") <=> (o \in told \cup dropped)
    BY DEF ChildrenEndOnce
  <2>1. ObjOK(o)
    BY DEF IInv
  <2> QED
    BY <2>1 DEF ObjOK, EndOK, IsChild
<1> QED
  BY <1>1, IInvHolds, PTL

\* Listeners live as long as their objects; only a creation that throws leaves one behind.
THEOREM ListenersFollowObjectsHolds == Spec => []ListenersFollowObjects
<1>1. IInv => ListenersFollowObjects
  <2> SUFFICES ASSUME IInv, NEW o \in Objs, Kind[o] # "Device"
               PROVE  /\ native[o] \in {"open", "closed"} /\ ~Freeing(o) => listener[o] = "live"
                      /\ listener[o] = "live" /\ native[o] \in {"none", "deleted"} => Creating(o) \/ o \in failed
    BY DEF ListenersFollowObjects
  <2>1. ObjOK(o)
    BY DEF IInv
  <2>2. (At(o, {"free"}) => Freeing(o)) /\ (At(o, {"create", "negotiated"}) => Creating(o))
    BY DEF At, Freeing, Creating
  <2> QED
    BY <2>1, <2>2 DEF ObjOK, ListenerOK, Alive
<1> QED
  BY <1>1, IInvHolds, PTL

\* Callbacks of transports, producers and consumers carry their Java object.
THEOREM MediaCallbacksAreNamedHolds == Spec => []MediaCallbacksAreNamed
<1>1. IInv => MediaCallbacksAreNamed
  BY DEF IInv
<1> QED
  BY <1>1, IInvHolds, PTL
=============================================================================
