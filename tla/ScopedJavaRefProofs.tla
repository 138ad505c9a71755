------------------------ MODULE ScopedJavaRefProofs ------------------------
(***************************************************************************)
(* Proofs about ScopedJavaRef, and about JniResults that runs native        *)
(* methods with it, for every number of threads, objects and slots.         *)
(*                                                                          *)
(* The invariants of the reference classes are inductive together, for any  *)
(* set of variables: a destructor deletes safely because its reference has  *)
(* one owner, and the frame's end kills no handle because a local handle    *)
(* and its reference are of one thread. This part uses nothing of           *)
(* JniResults, nor what it assumes of Handles.                              *)
(*                                                                          *)
(* Of the native methods, the last part proves which handle has the result  *)
(* at which stage. One owner does not hold there: the methods that return   *)
(* by obj() leave a second owner, and the proof is about the others.        *)
(***************************************************************************)
EXTENDS JniResults, FiniteSetTheorems, TLAPS

Inv == TypeOK /\ OneOwner /\ LiveIffHeld /\ OwnsItsKind

USE DEF obj, IsFree

\* Null variables satisfy everything there is to satisfy.
LEMMA InitInv == Init => Inv
<1> SUFFICES ASSUME Init PROVE Inv
  OBVIOUS
<1>1. TypeOK
  BY DEF Init, TypeOK, NoHandle, Dead
<1>2. \A x \in Handles : h[x] = NoHandle
  BY DEF Init
<1>3. OneOwner /\ OwnsItsKind /\ LiveIffHeld
  BY <1>2 DEF Init, OneOwner, OwnsItsKind, KeepsItsThread, LiveIffHeld, Owns, NoHandle
<1> QED
  BY <1>1, <1>3 DEF Inv

\* A variable that owns its reference, or is new, becomes null or leaves its scope and the
\* reference is deleted: Reset, the destructors, assignments of null.
LEMMA NullInv ==
  ASSUME Inv, NEW x \in Handles, h[x].cls # "param",
         NEW hd \in [cls : {"none", "param", "local", "global"}, obj_ : {NoRef},
                      env_ : Threads \cup {NoEnv}, on : Threads \cup {NoEnv}],
         hd.cls = "local" => hd.env_ \in {hd.on, NoEnv},
         refs' = Delete(refs, h[x].obj_), h' = [h EXCEPT ![x] = hd], UNCHANGED <<bare, args>>
  PROVE  Inv'
<1> USE NoRefAssumption
<1>0. TypeOK /\ OneOwner /\ LiveIffHeld /\ OwnsItsKind
  BY DEF Inv
<1>1. h[x].obj_ # NoRef => /\ h[x].obj_ \in Refs /\ Owns(x, h[x].obj_)
                           /\ refs[h[x].obj_] # Dead
                           /\ h[x].obj_ \notin bare \cup args
  BY <1>0 DEF TypeOK, OneOwner, LiveIffHeld, OwnsItsKind, Owns
<1>2. refs' = Delete(refs, h[x].obj_) /\ h' = [h EXCEPT ![x] = hd]
  OBVIOUS
<1>3. TypeOK'
  BY <1>0, <1>1, <1>2 DEF TypeOK, Delete
<1>4. \A y \in Handles : h'[y] = IF y = x THEN hd ELSE h[y]
  BY <1>0, <1>2 DEF TypeOK
<1>5. \A q \in Refs : refs'[q] = IF q = h[x].obj_ THEN Dead ELSE refs[q]
  BY <1>0, <1>1, <1>2 DEF TypeOK, Delete
<1>6. \A y \in Handles, q \in Refs : Owns(y, q)' <=> y # x /\ Owns(y, q)
  BY <1>4 DEF Owns
<1>7. OneOwner'
  BY <1>0, <1>6 DEF OneOwner
<1>8. LiveIffHeld'
  <2>1. \A y \in Handles, q \in Refs : Owns(y, q) /\ q = h[x].obj_ => y = x
    BY <1>0, <1>1 DEF OneOwner
  <2>2. \A q \in Refs : Owns(x, q) => q = h[x].obj_
    BY DEF Owns
  <2> QED
    BY <1>0, <1>1, <1>5, <1>6, <2>1, <2>2 DEF LiveIffHeld
<1>K. KeepsItsThread'
  BY <1>0, <1>4 DEF OwnsItsKind, KeepsItsThread
<1>9. OwnsItsKind'
  <2> SUFFICES ASSUME NEW y \in Handles, h'[y].obj_ # NoRef
               PROVE  (\/ h[y].cls = "global" /\ refs[h[y].obj_].kind = "global"
                       \/ h[y].cls = "local" /\ refs[h[y].obj_].kind = "local"
                          /\ refs[h[y].obj_].env = h[y].on /\ h[y].env_ = h[y].on
                       \/ h[y].cls = "param" /\ h[y].obj_ \in args /\ refs[h[y].obj_].env = h[y].on)'
    BY <1>K DEF OwnsItsKind
  <2>1. y # x
    BY <1>4
  <2>2. h'[y] = h[y] /\ h[y].obj_ \in Refs
    BY <1>0, <1>4, <2>1 DEF TypeOK
  <2>3. h[y].obj_ # h[x].obj_
    BY <1>0, <1>1, <2>1, <2>2 DEF OneOwner, OwnsItsKind, Owns
  <2>4. refs'[h[y].obj_] = refs[h[y].obj_]
    BY <1>5, <2>2, <2>3
  <2> QED
    BY <1>0, <2>2, <2>4 DEF OwnsItsKind
<1> QED
  BY <1>3, <1>7, <1>8, <1>9 DEF Inv

\* SetNewRef, called on a new variable or on one of the class c.
LEMMA SetNewInv ==
  ASSUME Inv, NEW x \in Handles, NEW r \in Refs \cup {NoRef}, NEW c \in {"local", "global"},
         NEW e \in Threads \cup {NoEnv}, NEW t \in Threads \cup {NoEnv},
         r # NoRef => refs[r] # Dead,
         h[x].cls = "none" \/ h[x].cls = c,
         c = "local" => e \in {t, NoEnv} /\ (r # NoRef => e = t /\ t \in Threads),
         c = "global" => e = NoEnv,
         SetNewRef(x, r, c, e, t), UNCHANGED <<bare, args>>
  PROVE  Inv'
<1> USE NoRefAssumption, NoEnvAssumption, NilAssumption
<1>0. TypeOK /\ OneOwner /\ LiveIffHeld /\ OwnsItsKind
  BY DEF Inv
<1>1. h[x].obj_ # NoRef => /\ h[x].obj_ \in Refs /\ Owns(x, h[x].obj_)
                           /\ refs[h[x].obj_] # Dead
                           /\ h[x].obj_ \notin bare \cup args
  BY <1>0 DEF TypeOK, OneOwner, LiveIffHeld, OwnsItsKind, Owns
<1>2. CASE r = NoRef
  <2>1. /\ refs' = Delete(refs, h[x].obj_)
        /\ h' = [h EXCEPT ![x] = Handle(c, NoRef, e, t)]
    BY <1>2 DEF SetNewRef
  <2>2. Handle(c, NoRef, e, t) \in [cls : {"none", "param", "local", "global"}, obj_ : {NoRef},
                      env_ : Threads \cup {NoEnv}, on : Threads \cup {NoEnv}]
    BY DEF Handle
  <2>3. LET hd == Handle(c, NoRef, e, t) IN hd.cls = "local" => hd.env_ \in {hd.on, NoEnv}
    BY DEF Handle
  <2> QED
    BY <2>1, <2>2, <2>3, NullInv
<1>3. CASE r # NoRef
  <2>1. PICK n \in Refs :
          /\ refs[n] = Dead
          /\ refs' = Delete([refs EXCEPT ![n] = Ref(c, refs[r].obj, e)], h[x].obj_)
          /\ h' = [h EXCEPT ![x] = Handle(c, n, e, t)]
    BY <1>3 DEF SetNewRef
  <2>2. n # h[x].obj_ /\ n \notin bare \cup args /\ \A y \in Handles : ~Owns(y, n)
    BY <1>0, <1>1, <2>1 DEF LiveIffHeld
  <2>3. r \in Refs /\ refs[r].obj \in Objects
    BY <1>0, <1>3 DEF TypeOK, Dead
  <2>4. \A q \in Refs : refs'[q] = IF q = n THEN Ref(c, refs[r].obj, e)
                                   ELSE IF q = h[x].obj_ THEN Dead ELSE refs[q]
    BY <1>0, <1>1, <2>1, <2>2 DEF TypeOK, Delete
  <2>5. TypeOK'
    <3>1. Ref(c, refs[r].obj, e) \in [kind : {"local"}, obj : Objects, env : Threads]
                                       \cup [kind : {"global"}, obj : Objects, env : {NoEnv}]
      BY <1>3, <2>3 DEF Ref
    <3>2. h' \in [Handles -> [cls : {"none", "param", "local", "global"}, obj_ : Refs \cup {NoRef},
                        env_ : Threads \cup {NoEnv}, on : Threads \cup {NoEnv}]]
      BY <1>0, <2>1 DEF TypeOK, Handle
    <3>3. refs' \in [Refs -> {Dead} \cup [kind : {"local"}, obj : Objects, env : Threads]
                              \cup [kind : {"global"}, obj : Objects, env : {NoEnv}]]
      BY <1>0, <1>1, <2>1, <3>1 DEF TypeOK, Delete
    <3> QED
      BY <1>0, <3>2, <3>3 DEF TypeOK
  <2>6. \A y \in Handles : h'[y] = IF y = x THEN Handle(c, n, e, t) ELSE h[y]
    BY <1>0, <2>1 DEF TypeOK
  <2>7. \A y \in Handles, q \in Refs : Owns(y, q)' <=> IF y = x THEN q = n ELSE Owns(y, q)
    BY <2>6 DEF Owns, Handle
  <2>8. OneOwner'
    BY <1>0, <2>2, <2>7 DEF OneOwner
  <2>9. LiveIffHeld'
    <3>1. \A y \in Handles, q \in Refs : Owns(y, q) /\ q = h[x].obj_ => y = x
      BY <1>0, <1>1 DEF OneOwner
    <3>2. \A q \in Refs : Owns(x, q) => q = h[x].obj_
      BY DEF Owns
    <3>3. Ref(c, refs[r].obj, e) # Dead
      BY DEF Ref, Dead
    <3> QED
      BY <1>0, <1>1, <2>2, <2>4, <2>7, <3>1, <3>2, <3>3 DEF LiveIffHeld
  <2>K. KeepsItsThread'
    BY <1>0, <2>6 DEF OwnsItsKind, KeepsItsThread, Handle
  <2>10. OwnsItsKind'
    <3> SUFFICES ASSUME NEW y \in Handles, h'[y].obj_ # NoRef
                 PROVE  (\/ h[y].cls = "global" /\ refs[h[y].obj_].kind = "global"
                         \/ h[y].cls = "local" /\ refs[h[y].obj_].kind = "local"
                            /\ refs[h[y].obj_].env = h[y].on /\ h[y].env_ = h[y].on
                         \/ h[y].cls = "param" /\ h[y].obj_ \in args /\ refs[h[y].obj_].env = h[y].on)'
      BY <2>K DEF OwnsItsKind
    <3>1. CASE y = x
      BY <1>3, <2>4, <2>6, <3>1 DEF Handle, Ref
    <3>2. CASE y # x
      <4>1. h'[y] = h[y] /\ h[y].obj_ \in Refs
        BY <1>0, <2>6, <3>2 DEF TypeOK
      <4>2. h[y].obj_ # h[x].obj_
        BY <1>0, <1>1, <3>2, <4>1 DEF OneOwner, OwnsItsKind, Owns
      <4>3. h[y].obj_ # n
        BY <1>0, <2>2, <4>1 DEF OwnsItsKind, Owns
      <4>4. refs'[h[y].obj_] = refs[h[y].obj_]
        BY <2>4, <4>1, <4>2, <4>3
      <4> QED
        BY <1>0, <4>1, <4>4 DEF OwnsItsKind
    <3> QED
      BY <3>1, <3>2
  <2> QED
    BY <2>5, <2>8, <2>9, <2>10 DEF Inv
<1> QED
  BY <1>2, <1>3

\* A move: the reference changes hands and stays the only one of its owner.
LEMMA StealInv ==
  ASSUME Inv, NEW x \in Handles, NEW y \in Handles, h[x].cls = "none",
         h[y].cls \in {"local", "global"},
         NEW hd \in [cls : {h[y].cls}, obj_ : {NoRef}, env_ : Threads \cup {NoEnv},
                      on : Threads \cup {NoEnv}],
         h[y].cls = "local" => hd.env_ = h[y].env_ /\ hd.on = h[y].on,
         Steal(x, hd, y), UNCHANGED <<bare, args>>
  PROVE  Inv'
<1> USE NoRefAssumption
<1>0. TypeOK /\ OneOwner /\ LiveIffHeld /\ OwnsItsKind
  BY DEF Inv
<1> DEFINE moved == [hd EXCEPT !.obj_ = h[y].obj_]
<1>1. x # y /\ h[x].obj_ = NoRef
  BY <1>0 DEF OwnsItsKind
<1>2. refs' = refs /\ h' = [h EXCEPT ![x] = moved, ![y].obj_ = NoRef]
  BY DEF Steal
<1>3. /\ moved.cls = h[y].cls /\ moved.obj_ = h[y].obj_
      /\ moved.env_ = hd.env_ /\ moved.on = hd.on
      /\ moved \in [cls : {h[y].cls}, obj_ : {h[y].obj_}, env_ : Threads \cup {NoEnv},
                    on : Threads \cup {NoEnv}]
  OBVIOUS
<1>4. TypeOK'
  BY <1>0, <1>1, <1>2, <1>3 DEF TypeOK
<1>5. \A z \in Handles : h'[z] = IF z = x THEN moved
                                 ELSE IF z = y THEN [h[y] EXCEPT !.obj_ = NoRef] ELSE h[z]
  BY <1>0, <1>1, <1>2 DEF TypeOK
<1>6. h'[y].obj_ = NoRef
  BY <1>0, <1>1, <1>5 DEF TypeOK
<1>7. \A z \in Handles, q \in Refs :
        Owns(z, q)' <=> (z = x /\ Owns(y, q)) \/ (z # x /\ z # y /\ Owns(z, q))
  BY <1>1, <1>3, <1>5, <1>6 DEF Owns
<1>8. \A q \in Refs : (\E z \in Handles : Owns(z, q)') <=> (\E z \in Handles : Owns(z, q))
  BY <1>1, <1>7 DEF Owns
<1>9. OneOwner'
  BY <1>0, <1>7, <1>8 DEF OneOwner
<1>10. LiveIffHeld'
  BY <1>0, <1>2, <1>8 DEF LiveIffHeld
<1>K. KeepsItsThread'
  BY <1>0, <1>1, <1>3, <1>5 DEF OwnsItsKind, KeepsItsThread, TypeOK
<1>11. OwnsItsKind'
  <2> HIDE DEF moved
  <2>1. h'[x] = moved /\ \A z \in Handles : z # x /\ z # y => h'[z] = h[z]
    BY <1>1, <1>5
  <2>2. args' = args
    OBVIOUS
  <2> SUFFICES ASSUME NEW z \in Handles, h'[z].obj_ # NoRef
               PROVE  (\/ h[z].cls = "global" /\ refs[h[z].obj_].kind = "global"
                       \/ h[z].cls = "local" /\ refs[h[z].obj_].kind = "local"
                          /\ refs[h[z].obj_].env = h[z].on /\ h[z].env_ = h[z].on
                       \/ h[z].cls = "param" /\ h[z].obj_ \in args /\ refs[h[z].obj_].env = h[z].on)'
    BY <1>K DEF OwnsItsKind
  <2>3. CASE z = x
    BY <1>0, <1>2, <1>3, <2>1, <2>3 DEF OwnsItsKind
  <2>4. CASE z # x
    BY <1>0, <1>2, <1>6, <2>1, <2>2, <2>4 DEF OwnsItsKind
  <2> QED
    BY <2>3, <2>4
<1> QED
  BY <1>4, <1>9, <1>10, <1>11 DEF Inv

\* Release(): the reference passes from the variable to the caller.
LEMMA ReleaseInv ==
  ASSUME Inv, NEW x \in Handles, h[x].cls \in {"local", "global"}, ReleaseInternal(x)
  PROVE  Inv'
<1> USE NoRefAssumption
<1>0. TypeOK /\ OneOwner /\ LiveIffHeld /\ OwnsItsKind
  BY DEF Inv
<1>1. /\ bare' = bare \cup ({h[x].obj_} \ {NoRef}) /\ h' = [h EXCEPT ![x].obj_ = NoRef]
      /\ refs' = refs /\ args' = args
  BY DEF ReleaseInternal
<1>2. TypeOK'
  BY <1>0, <1>1 DEF TypeOK
<1>3. \A y \in Handles : h'[y] = IF y = x THEN [h[x] EXCEPT !.obj_ = NoRef] ELSE h[y]
  BY <1>0, <1>1 DEF TypeOK
<1>4. h'[x].obj_ = NoRef
  BY <1>0, <1>3 DEF TypeOK
<1>5. \A y \in Handles, q \in Refs : Owns(y, q)' <=> y # x /\ Owns(y, q)
  BY <1>3, <1>4 DEF Owns
<1>6. \A q \in Refs : Owns(x, q) <=> q = h[x].obj_
  BY DEF Owns
<1>7. OneOwner'
  BY <1>0, <1>1, <1>5, <1>6 DEF OneOwner
<1>8. LiveIffHeld'
  BY <1>0, <1>1, <1>5, <1>6 DEF LiveIffHeld
<1>K. KeepsItsThread'
  BY <1>0, <1>3 DEF OwnsItsKind, KeepsItsThread, TypeOK
<1>9. OwnsItsKind'
  BY <1>0, <1>1, <1>3, <1>4, <1>K DEF OwnsItsKind
<1> QED
  BY <1>2, <1>7, <1>8, <1>9 DEF Inv

\* Adopt: the reference passes from the caller to a new variable.
LEMMA AdoptInv ==
  ASSUME Inv, NEW t \in Threads, NEW x \in Handles, NEW r \in Refs, ConstructLocalOwning(t, x, r)
  PROVE  Inv'
<1> USE NoRefAssumption
<1>0. TypeOK /\ OneOwner /\ LiveIffHeld /\ OwnsItsKind
  BY DEF Inv
<1>1. /\ h[x].cls = "none" /\ r \in bare /\ refs[r].kind = "local" /\ refs[r].env = t
      /\ h' = [h EXCEPT ![x] = Handle("local", r, t, t)]
      /\ bare' = bare \ {r} /\ refs' = refs /\ args' = args
  BY DEF ConstructLocalOwning
<1>2. TypeOK'
  BY <1>0, <1>1 DEF TypeOK, Handle
<1>3. \A y \in Handles : h'[y] = IF y = x THEN Handle("local", r, t, t) ELSE h[y]
  BY <1>0, <1>1 DEF TypeOK
<1>4. \A y \in Handles, q \in Refs : Owns(y, q)' <=> IF y = x THEN q = r ELSE Owns(y, q)
  BY <1>3 DEF Owns, Handle
<1>5. \A q \in Refs : ~Owns(x, q)
  BY <1>1 DEF Owns
<1>6. OneOwner'
  BY <1>0, <1>1, <1>4 DEF OneOwner
<1>7. LiveIffHeld'
  BY <1>0, <1>1, <1>4, <1>5 DEF LiveIffHeld
<1>K. KeepsItsThread'
  BY <1>0, <1>3 DEF OwnsItsKind, KeepsItsThread, Handle
<1>8. OwnsItsKind'
  BY <1>0, <1>1, <1>3, <1>K DEF OwnsItsKind, Handle
<1> QED
  BY <1>2, <1>6, <1>7, <1>8 DEF Inv

\* A parameter's variable comes and goes; it owns nothing.
LEMMA ParamInv ==
  ASSUME Inv, NEW x \in Handles, h[x].cls \in {"none", "param"},
         NEW hd \in [cls : {"none", "param"}, obj_ : Refs \cup {NoRef},
                     env_ : {NoEnv}, on : Threads \cup {NoEnv}],
         hd.obj_ # NoRef => hd.cls = "param" /\ hd.obj_ \in args /\ refs[hd.obj_].env = hd.on,
         h' = [h EXCEPT ![x] = hd], UNCHANGED <<refs, bare, args>>
  PROVE  Inv'
<1>0. TypeOK /\ OneOwner /\ LiveIffHeld /\ OwnsItsKind
  BY DEF Inv
<1>1. TypeOK'
  BY <1>0 DEF TypeOK
<1>2. \A y \in Handles : h'[y] = IF y = x THEN hd ELSE h[y]
  BY <1>0 DEF TypeOK
<1>3. \A y \in Handles, q \in Refs : Owns(y, q)' <=> Owns(y, q)
  BY <1>2 DEF Owns
<1>4. OneOwner' /\ LiveIffHeld'
  BY <1>0, <1>3 DEF OneOwner, LiveIffHeld
<1>K. KeepsItsThread'
  BY <1>0, <1>2 DEF OwnsItsKind, KeepsItsThread
<1>5. OwnsItsKind'
  BY <1>0, <1>2, <1>K DEF OwnsItsKind
<1> QED
  BY <1>1, <1>4, <1>5 DEF Inv

\* A local reference the JVM makes is held by the caller or by Java.
LEMMA JvmNewInv ==
  ASSUME Inv, NEW t \in Threads, NEW o \in Objects, JniResult(t, o) \/ EnterNative(t, o)
  PROVE  Inv'
<1>0. TypeOK /\ OneOwner /\ LiveIffHeld /\ OwnsItsKind
  BY DEF Inv
<1>1. PICK n \in Refs : /\ refs[n] = Dead /\ refs' = [refs EXCEPT ![n] = Ref("local", o, t)]
                        /\ \/ bare' = bare \cup {n} /\ args' = args
                           \/ args' = args \cup {n} /\ bare' = bare
  BY DEF JniResult, EnterNative
<1>2. h' = h
  BY DEF JniResult, EnterNative
<1>3. n \notin bare \cup args /\ \A x \in Handles : ~Owns(x, n)
  BY <1>0, <1>1 DEF LiveIffHeld
<1>4. \A q \in Refs : refs'[q] = IF q = n THEN Ref("local", o, t) ELSE refs[q]
  BY <1>0, <1>1 DEF TypeOK
<1>5. TypeOK'
  BY <1>0, <1>1, <1>2 DEF TypeOK, Ref
<1>6. \A x \in Handles, q \in Refs : Owns(x, q)' <=> Owns(x, q)
  BY <1>2 DEF Owns
<1>7. OneOwner'
  BY <1>0, <1>1, <1>3, <1>6 DEF OneOwner
<1>8. Ref("local", o, t) # Dead
  BY DEF Ref, Dead
<1>9. LiveIffHeld'
  BY <1>0, <1>1, <1>3, <1>4, <1>6, <1>8 DEF LiveIffHeld
<1>10. \A x \in Handles : h[x].obj_ # NoRef => h[x].obj_ \in Refs /\ h[x].obj_ # n
  BY <1>0, <1>3 DEF TypeOK, OwnsItsKind, Owns
<1>11. \A x \in Handles : h[x].obj_ # NoRef => refs'[h[x].obj_] = refs[h[x].obj_]
  BY <1>4, <1>10
<1>K. KeepsItsThread'
  BY <1>0, <1>2 DEF OwnsItsKind, KeepsItsThread
<1>12. OwnsItsKind'
  BY <1>0, <1>1, <1>2, <1>11, <1>K DEF OwnsItsKind
<1> QED
  BY <1>5, <1>7, <1>9, <1>12 DEF Inv

\* Deleting references that only the caller or Java holds.
LEMMA JvmFreeInv ==
  ASSUME Inv, NEW S \in SUBSET Refs, \A x \in Handles : h[x].obj_ \notin S,
         refs' = [r \in Refs |-> IF r \in S THEN Dead ELSE refs[r]],
         bare' = bare \ S, args' = args \ S, h' = h
  PROVE  Inv'
<1>0. TypeOK /\ OneOwner /\ LiveIffHeld /\ OwnsItsKind
  BY DEF Inv
<1>1. TypeOK'
  BY <1>0 DEF TypeOK
<1>2. \A x \in Handles, q \in Refs : Owns(x, q)' <=> Owns(x, q) /\ q \notin S
  BY DEF Owns
<1>3. OneOwner'
  BY <1>0, <1>2 DEF OneOwner
<1>4. LiveIffHeld'
  BY <1>0, <1>2 DEF LiveIffHeld
<1>5. \A x \in Handles : h[x].obj_ # NoRef => refs'[h[x].obj_] = refs[h[x].obj_]
  BY <1>0 DEF TypeOK
<1>K. KeepsItsThread'
  BY <1>0 DEF OwnsItsKind, KeepsItsThread
<1>6. OwnsItsKind'
  BY <1>0, <1>5, <1>K DEF OwnsItsKind
<1> QED
  BY <1>1, <1>3, <1>4, <1>6 DEF Inv

LEMMA JvmInv ==
  ASSUME Inv, NEW t \in Threads, Jvm(t)
  PROVE  Inv'
<1> USE NoRefAssumption, NoEnvAssumption
<1>0. TypeOK /\ OneOwner /\ LiveIffHeld /\ OwnsItsKind
  BY DEF Inv
<1>1. ASSUME NEW o \in Objects, JniResult(t, o) \/ EnterNative(t, o)
      PROVE  Inv'
  BY <1>1, JvmNewInv
<1>2. ASSUME NEW r \in Refs, DeleteBare(t, r)
      PROVE  Inv'
  <2>1. \A x \in Handles : h[x].obj_ \notin {r}
    BY <1>0, <1>2 DEF DeleteBare, OneOwner, OwnsItsKind, Owns
  <2>2. /\ refs' = [q \in Refs |-> IF q \in {r} THEN Dead ELSE refs[q]]
        /\ bare' = bare \ {r} /\ h' = h
    BY <1>0, <1>2 DEF DeleteBare, Delete, TypeOK
  <2>3. args' = args \ {r}
    BY <1>0, <1>2 DEF DeleteBare, OneOwner
  <2>4. {r} \in SUBSET Refs
    OBVIOUS
  <2> QED
    BY <2>1, <2>2, <2>3, <2>4, JvmFreeInv
<1>3. ASSUME LeaveNative(t)
      PROVE  Inv'
  <2>1. \A x \in Handles : h[x].obj_ \notin OfFrame(t)
    BY <1>0, <1>3 DEF LeaveNative, OfFrame, OwnsItsKind
  <2>2. OfFrame(t) \in SUBSET Refs
    BY DEF OfFrame
  <2>3. /\ refs' = [q \in Refs |-> IF q \in OfFrame(t) THEN Dead ELSE refs[q]]
        /\ bare' = bare \ OfFrame(t) /\ args' = args \ OfFrame(t) /\ h' = h
    BY <1>3 DEF LeaveNative
  <2> QED
    BY <2>1, <2>2, <2>3, JvmFreeInv
<1> QED
  BY <1>1, <1>2, <1>3 DEF Jvm

\* A handle that is not null holds a live reference to an object.
LEMMA NotNullIsLive ==
  ASSUME Inv, NEW x \in Handles, h[x].obj_ # NoRef
  PROVE  h[x].obj_ \in Refs /\ refs[h[x].obj_] # Dead /\ h[x].cls # "none"
BY DEF Inv, TypeOK, LiveIffHeld, OwnsItsKind, Owns

LEMMA ConstructInv ==
  ASSUME Inv, NEW t \in Threads, NEW x \in Handles, Construct(t, x)
  PROVE  Inv'
<1> USE NoRefAssumption, NoEnvAssumption
<1>0. TypeOK /\ OneOwner /\ LiveIffHeld /\ OwnsItsKind
  BY DEF Inv
<1>1. CASE ConstructParam(t, x)
  <2>1. PICK r \in {a \in args : refs[a].env = t} \cup {NoRef} :
          h' = [h EXCEPT ![x] = Handle("param", r, NoEnv, t)]
    BY <1>1 DEF ConstructParam
  <2>2. /\ h[x].cls \in {"none", "param"} /\ UNCHANGED <<refs, bare, args>>
        /\ Handle("param", r, NoEnv, t) \in
             [cls : {"none", "param"}, obj_ : Refs \cup {NoRef}, env_ : {NoEnv}, on : Threads \cup {NoEnv}]
    BY <1>0, <1>1 DEF ConstructParam, Handle, TypeOK
  <2>3. LET hd == Handle("param", r, NoEnv, t) IN
          hd.obj_ # NoRef => hd.cls = "param" /\ hd.obj_ \in args /\ refs[hd.obj_].env = hd.on
    BY DEF Handle
  <2> QED
    BY <2>1, <2>2, <2>3, ParamInv
<1>2. CASE ConstructLocalNull(t, x) \/ ConstructGlobalNull(x)
  <2>1. PICK c \in {"local", "global"}, o \in Threads \cup {NoEnv} :
          h' = [h EXCEPT ![x] = Handle(c, NoRef, NoEnv, o)]
    BY <1>2 DEF ConstructLocalNull, ConstructGlobalNull
  <2>2. /\ h[x].cls = "none" /\ h[x].obj_ = NoRef /\ refs' = refs /\ UNCHANGED <<bare, args>>
    BY <1>0, <1>2 DEF ConstructLocalNull, ConstructGlobalNull, OwnsItsKind
  <2>3. Handle(c, NoRef, NoEnv, o) \in
          [cls : {"none", "param", "local", "global"}, obj_ : {NoRef},
           env_ : Threads \cup {NoEnv}, on : Threads \cup {NoEnv}]
    BY DEF Handle
  <2>4. refs' = Delete(refs, h[x].obj_)
    BY <2>2 DEF Delete
  <2>5. h[x].cls # "param" /\ Handle(c, NoRef, NoEnv, o).env_ = NoEnv
    BY <2>2 DEF Handle
  <2> QED
    BY <2>1, <2>2, <2>3, <2>4, <2>5, NullInv
<1>3. ASSUME NEW r \in Refs, Adopt(t, x, r)
      PROVE  Inv'
  BY <1>3, AdoptInv DEF Adopt
<1>4. ASSUME NEW r \in Refs, ConstructGlobal(t, x, r)
      PROVE  Inv'
  <2>1. refs[r] # Dead /\ r # NoRef
    BY <1>0, <1>4 DEF ConstructGlobal, LiveIffHeld
  <2>2. SetNewRef(x, r, "global", NoEnv, NoEnv) /\ h[x].cls = "none" /\ UNCHANGED <<bare, args>>
    BY <1>4 DEF ConstructGlobal, SetNewGlobalRef
  <2> QED
    BY <2>1, <2>2, SetNewInv
<1>5. ASSUME NEW y \in Handles, CopyLocal(t, x, y)
      PROVE  Inv'
  <2>1. SetNewRef(x, h[y].obj_, "local", h[y].env_, t) /\ h[x].cls = "none" /\ UNCHANGED <<bare, args>>
    BY <1>5 DEF CopyLocal
  <2>2. h[y].obj_ \in Refs \cup {NoRef} /\ h[y].env_ \in Threads \cup {NoEnv}
    BY <1>0 DEF TypeOK
  <2>3. h[y].obj_ # NoRef => refs[h[y].obj_] # Dead /\ h[y].env_ = t
    BY <1>0, <1>5, NotNullIsLive DEF CopyLocal, IsLocal, OwnsItsKind
  <2>4. h[y].env_ \in {t, NoEnv}
    BY <1>0, <1>5 DEF CopyLocal, IsLocal, OwnsItsKind, KeepsItsThread
  <2> QED
    BY <2>1, <2>2, <2>3, <2>4, SetNewInv
<1>6. ASSUME NEW y \in Handles, MoveLocal(t, x, y)
      PROVE  Inv'
  <2>1. /\ h[x].cls = "none" /\ h[y].cls = "local" /\ h[y].on = t
        /\ Steal(x, Handle("local", NoRef, h[y].env_, t), y) /\ UNCHANGED <<bare, args>>
    BY <1>6 DEF MoveLocal, IsLocal
  <2>2. LET hd == Handle("local", NoRef, h[y].env_, t) IN
          /\ hd \in [cls : {h[y].cls}, obj_ : {NoRef}, env_ : Threads \cup {NoEnv}, on : Threads \cup {NoEnv}]
          /\ hd.env_ = h[y].env_ /\ hd.on = h[y].on
    BY <1>0, <2>1 DEF Handle, TypeOK
  <2> QED
    BY <2>1, <2>2, StealInv
<1>7. ASSUME NEW y \in Handles, ConvertToLocal(t, x, y)
      PROVE  Inv'
  <2>1. SetNewRef(x, h[y].obj_, "local", t, t) /\ h[x].cls = "none" /\ UNCHANGED <<bare, args>>
    BY <1>7 DEF ConvertToLocal, SetNewLocalRef
  <2>2. /\ h[y].obj_ \in Refs \cup {NoRef}
        /\ h[y].obj_ # NoRef => refs[h[y].obj_] # Dead
    BY <1>0, NotNullIsLive DEF TypeOK
  <2> QED
    BY <2>1, <2>2, SetNewInv
<1>8. ASSUME NEW y \in Handles, CopyGlobal(t, x, y) \/ ConvertToGlobal(t, x, y)
      PROVE  Inv'
  <2>1. SetNewRef(x, h[y].obj_, "global", NoEnv, NoEnv) /\ h[x].cls = "none" /\ UNCHANGED <<bare, args>>
    BY <1>8 DEF CopyGlobal, ConvertToGlobal, SetNewGlobalRef
  <2>2. /\ h[y].obj_ \in Refs \cup {NoRef}
        /\ h[y].obj_ # NoRef => refs[h[y].obj_] # Dead
    BY <1>0, NotNullIsLive DEF TypeOK
  <2> QED
    BY <2>1, <2>2, SetNewInv
<1>9. ASSUME NEW y \in Handles, MoveGlobal(x, y)
      PROVE  Inv'
  <2>1. /\ h[x].cls = "none" /\ h[y].cls = "global"
        /\ Steal(x, Handle("global", NoRef, NoEnv, NoEnv), y) /\ UNCHANGED <<bare, args>>
    BY <1>9 DEF MoveGlobal, IsGlobal
  <2>2. Handle("global", NoRef, NoEnv, NoEnv) \in
          [cls : {h[y].cls}, obj_ : {NoRef}, env_ : Threads \cup {NoEnv}, on : Threads \cup {NoEnv}]
    BY <2>1 DEF Handle
  <2> QED
    BY <2>1, <2>2, StealInv
<1> QED
  BY <1>1, <1>2, <1>3, <1>4, <1>5, <1>6, <1>7, <1>8, <1>9 DEF Construct

LEMMA UseInv ==
  ASSUME Inv, NEW t \in Threads, NEW x \in Handles, Use(t, x)
  PROVE  Inv'
<1> USE NoRefAssumption, NoEnvAssumption
<1>0. TypeOK /\ OneOwner /\ LiveIffHeld /\ OwnsItsKind
  BY DEF Inv
<1>1. CASE AssignNullToLocal(t, x) \/ AssignNullToGlobal(x)
  <2>1. /\ h' = [h EXCEPT ![x].obj_ = NoRef] /\ refs' = Delete(refs, h[x].obj_)
        /\ UNCHANGED <<bare, args>> /\ h[x].cls # "param"
    BY <1>1 DEF AssignNullToLocal, AssignNullToGlobal, ResetLocal, ResetGlobal, ResetLocalRef,
                ResetGlobalRef, IsLocal, IsGlobal
  <2>2. [h[x] EXCEPT !.obj_ = NoRef] \in
          [cls : {"none", "param", "local", "global"}, obj_ : {NoRef},
           env_ : Threads \cup {NoEnv}, on : Threads \cup {NoEnv}]
    BY <1>0 DEF TypeOK
  <2>3. h' = [h EXCEPT ![x] = [h[x] EXCEPT !.obj_ = NoRef]]
    BY <1>0, <2>1 DEF TypeOK
  <2>4. LET hd == [h[x] EXCEPT !.obj_ = NoRef] IN hd.cls = "local" => hd.env_ \in {hd.on, NoEnv}
    BY <1>0 DEF OwnsItsKind, KeepsItsThread, TypeOK
  <2> QED
    BY <2>1, <2>2, <2>3, <2>4, NullInv
<1>2. CASE DestructLocal(t, x) \/ DestructGlobal(x)
  <2>1. /\ h' = [h EXCEPT ![x] = NoHandle] /\ refs' = Delete(refs, h[x].obj_)
        /\ UNCHANGED <<bare, args>> /\ h[x].cls # "param"
    BY <1>2 DEF DestructLocal, DestructGlobal, IsLocal, IsGlobal
  <2>2. NoHandle \in [cls : {"none", "param", "local", "global"}, obj_ : {NoRef},
                      env_ : Threads \cup {NoEnv}, on : Threads \cup {NoEnv}]
    BY DEF NoHandle
  <2>3. NoHandle.cls = "none"
    BY DEF NoHandle
  <2> QED
    BY <2>1, <2>2, <2>3, NullInv
<1>3. CASE ReleaseLocal(t, x) \/ ReleaseGlobal(x)
  BY <1>3, ReleaseInv DEF ReleaseLocal, ReleaseGlobal, IsLocal, IsGlobal
<1>4. CASE DestructParam(t, x)
  <2>1. /\ h[x].cls \in {"none", "param"} /\ h' = [h EXCEPT ![x] = NoHandle]
        /\ UNCHANGED <<refs, bare, args>>
    BY <1>4 DEF DestructParam
  <2>2. /\ NoHandle \in [cls : {"none", "param"}, obj_ : Refs \cup {NoRef}, env_ : {NoEnv},
                         on : Threads \cup {NoEnv}]
        /\ NoHandle.obj_ = NoRef
    BY DEF NoHandle
  <2> QED
    BY <2>1, <2>2, ParamInv
<1>5. ASSUME NEW y \in Handles, AssignToLocal(t, x, y)
      PROVE  Inv'
  <2>1. /\ SetNewRef(x, h[y].obj_, "local", IF h[x].env_ = NoEnv THEN t ELSE h[x].env_, t)
        /\ h[x].cls = "local" /\ h[x].on = t /\ UNCHANGED <<bare, args>>
    BY <1>5 DEF AssignToLocal, ResetLocalTo, SetNewLocalRef, IsLocal
  <2>2. h[x].env_ \in {t, NoEnv}
    BY <1>0, <2>1 DEF OwnsItsKind, KeepsItsThread
  <2>3. SetNewRef(x, h[y].obj_, "local", t, t)
    BY <2>1, <2>2
  <2>4. /\ h[y].obj_ \in Refs \cup {NoRef}
        /\ h[y].obj_ # NoRef => refs[h[y].obj_] # Dead
    BY <1>0, NotNullIsLive DEF TypeOK
  <2> QED
    BY <2>1, <2>3, <2>4, SetNewInv
<1>6. ASSUME NEW y \in Handles, AssignToGlobal(t, x, y)
      PROVE  Inv'
  <2>1. /\ SetNewRef(x, h[y].obj_, "global", NoEnv, NoEnv)
        /\ h[x].cls = "global" /\ UNCHANGED <<bare, args>>
    BY <1>6 DEF AssignToGlobal, ResetGlobalTo, SetNewGlobalRef, IsGlobal
  <2>2. /\ h[y].obj_ \in Refs \cup {NoRef}
        /\ h[y].obj_ # NoRef => refs[h[y].obj_] # Dead
    BY <1>0, NotNullIsLive DEF TypeOK
  <2> QED
    BY <2>1, <2>2, SetNewInv
<1> QED
  BY <1>1, <1>2, <1>3, <1>4, <1>5, <1>6 DEF Use

\* The four invariants are inductive.
LEMMA NextInv == Inv /\ [Next]_vars => Inv'
<1> SUFFICES ASSUME Inv, [Next]_vars PROVE Inv'
  OBVIOUS
<1>1. CASE UNCHANGED vars
  BY <1>1 DEF vars, Inv, TypeOK, OneOwner, LiveIffHeld, OwnsItsKind, KeepsItsThread, Owns
<1>2. ASSUME NEW t \in Threads, Jvm(t) PROVE Inv'
  BY <1>2, JvmInv
<1>3. ASSUME NEW t \in Threads, NEW x \in Handles, Construct(t, x) PROVE Inv'
  BY <1>3, ConstructInv
<1>4. ASSUME NEW t \in Threads, NEW x \in Handles, Use(t, x) PROVE Inv'
  BY <1>4, UseInv
<1> QED
  BY <1>1, <1>2, <1>3, <1>4 DEF Next

\* References are owned once, live exactly while held, and of their owner's class and thread,
\* whatever sequence of copies, moves, assignments, releases and destructions is run.
THEOREM OwnershipHolds == Spec => [](TypeOK /\ OneOwner /\ LiveIffHeld /\ OwnsItsKind)
<1>1. Spec => []Inv
  BY InitInv, NextInv, PTL DEF Spec
<1> QED
  BY <1>1, PTL DEF Inv

\* No reference is deleted twice: a handle that owns one is its only owner, and neither the
\* caller nor Java has it too (steal, Adopt, Release and their nulling of obj_).
THEOREM OneOwnerHolds == Spec => []OneOwner
BY OwnershipHolds, PTL

\* A destructor calls the JNI function of its reference's kind, on the thread it belongs to
\* (Reset*Ref, SetNew*Ref, the env_ a copy takes over).
THEOREM OwnedKindHolds == Spec => []OwnsItsKind
BY OwnershipHolds, PTL

-----------------------------------------------------------------------------
(***************************************************************************)
(* The classes implement JavaValues: handles are variables.                 *)
(***************************************************************************)
Val == [x \in Handles |-> Designates(x)]

\* What a handle designates is an object or null exactly when it is in scope.
LEMMA DesignatesType ==
  ASSUME Inv, NEW x \in Handles
  PROVE  /\ h[x].cls = "none" => Designates(x) = OutOfScope
         /\ h[x].cls # "none" => Designates(x) \in Objects \cup {Nil} /\ Designates(x) # OutOfScope
BY OutOfScopeAssumption DEF Inv, TypeOK, Designates, Dead

\* A step that writes x and deletes at most what x owns leaves the others' objects alone.
LEMMA OthersKeep ==
  ASSUME Inv, NEW x \in Handles, \A y \in Handles : y # x => h'[y] = h[y],
         \A q \in Refs : refs[q] # Dead /\ (q = h[x].obj_ => h[x].cls = "param") => refs'[q] = refs[q]
  PROVE  \A y \in Handles : y # x => Designates(y)' = Designates(y)
<1> SUFFICES ASSUME NEW y \in Handles, y # x PROVE Designates(y)' = Designates(y)
  OBVIOUS
<1>1. CASE h[y].obj_ = NoRef
  BY <1>1 DEF Designates
<1>2. CASE h[y].obj_ # NoRef
  <2>1. h[y].obj_ \in Refs /\ refs[h[y].obj_] # Dead /\ h[y].cls # "none"
    BY <1>2, NotNullIsLive
  <2>2. h[y].obj_ = h[x].obj_ => h[x].cls = "param"
    BY <1>2, <2>1, NotNullIsLive DEF Inv, OneOwner, OwnsItsKind, Owns
  <2> QED
    BY <2>1, <2>2 DEF Designates
<1> QED
  BY <1>1, <1>2

\* Such a step sets x to what it then designates.
LEMMA SetsOne ==
  ASSUME NEW x \in Handles, NEW v, Designates(x)' = v,
         \A y \in Handles : y # x => Designates(y)' = Designates(y)
  PROVE  Val' = [Val EXCEPT ![x] = v]
BY DEF Val

\* The objects held as bare references stay objects.
LEMMA LooseType ==
  ASSUME Inv
  PROVE  {refs[r].obj : r \in bare \cup args} \subseteq Objects
<1> SUFFICES ASSUME NEW r \in bare \cup args PROVE refs[r].obj \in Objects
  OBVIOUS
<1>1. r \in Refs /\ refs[r] # Dead
  BY DEF Inv, TypeOK, LiveIffHeld
<1> QED
  BY <1>1 DEF Inv, TypeOK

\* SetNewRef makes x designate what r refers to.
LEMMA SetNewValue ==
  ASSUME Inv, NEW x \in Handles, NEW r \in Refs \cup {NoRef}, NEW c \in {"local", "global"},
         NEW e, NEW t, h[x].cls # "param", r # NoRef => refs[r] # Dead, SetNewRef(x, r, c, e, t)
  PROVE  Val' = [Val EXCEPT ![x] = IF r = NoRef THEN Nil ELSE refs[r].obj]
<1> USE NoRefAssumption
<1>0. /\ refs \in [Refs -> {Dead} \cup [kind : {"local"}, obj : Objects, env : Threads]
                              \cup [kind : {"global"}, obj : Objects, env : {NoEnv}]]
      /\ h \in [Handles -> [cls : {"none", "param", "local", "global"}, obj_ : Refs \cup {NoRef},
                        env_ : Threads \cup {NoEnv}, on : Threads \cup {NoEnv}]]
  BY DEF Inv, TypeOK
<1>1. CASE r = NoRef
  <2>1. refs' = Delete(refs, h[x].obj_) /\ h' = [h EXCEPT ![x] = Handle(c, NoRef, e, t)]
    BY <1>1 DEF SetNewRef
  <2>2. Designates(x)' = Nil
    BY <1>0, <2>1 DEF Designates, Handle
  <2>3. \A y \in Handles : y # x => h'[y] = h[y]
    BY <1>0, <2>1
  <2>4. \A q \in Refs : refs[q] # Dead /\ (q = h[x].obj_ => h[x].cls = "param") => refs'[q] = refs[q]
    BY <1>0, <2>1 DEF Delete
  <2>5. \A y \in Handles : y # x => Designates(y)' = Designates(y)
    BY <2>3, <2>4, OthersKeep
  <2> QED
    BY <1>1, <2>2, <2>5, SetsOne
<1>2. CASE r # NoRef
  <2>1. PICK n \in Refs :
          /\ refs[n] = Dead
          /\ refs' = Delete([refs EXCEPT ![n] = Ref(c, refs[r].obj, e)], h[x].obj_)
          /\ h' = [h EXCEPT ![x] = Handle(c, n, e, t)]
    BY <1>2 DEF SetNewRef
  <2>2. n # h[x].obj_
    BY <2>1, NotNullIsLive
  <2>3. Designates(x)' = refs[r].obj
    <3>1. refs'[n] = Ref(c, refs[r].obj, e)
      BY <1>0, <2>1, <2>2 DEF Delete
    <3>2. h'[x] = Handle(c, n, e, t)
      BY <1>0, <2>1
    <3> QED
      BY <3>1, <3>2 DEF Designates, Handle, Ref
  <2>4. \A y \in Handles : y # x => h'[y] = h[y]
    BY <1>0, <2>1
  <2>5. \A q \in Refs : refs[q] # Dead /\ (q = h[x].obj_ => h[x].cls = "param") => refs'[q] = refs[q]
    BY <1>0, <2>1 DEF Delete
  <2>6. \A y \in Handles : y # x => Designates(y)' = Designates(y)
    BY <2>4, <2>5, OthersKeep
  <2> QED
    BY <1>2, <2>3, <2>6, SetsOne
<1> QED
  BY <1>1, <1>2

\* ... and from a handle, what that handle designates.
LEMMA SetNewFrom ==
  ASSUME Inv, NEW x \in Handles, NEW y \in Handles, NEW c \in {"local", "global"}, NEW e, NEW t,
         h[x].cls # "param", h[y].cls # "none", SetNewRef(x, h[y].obj_, c, e, t)
  PROVE  Val' = [Val EXCEPT ![x] = Val[y]]
<1>1. h[y].obj_ \in Refs \cup {NoRef} /\ (h[y].obj_ # NoRef => refs[h[y].obj_] # Dead)
  BY NotNullIsLive DEF Inv, TypeOK
<1>2. Val[y] = IF h[y].obj_ = NoRef THEN Nil ELSE refs[h[y].obj_].obj
  BY DEF Val, Designates
<1> QED
  BY <1>1, <1>2, SetNewValue

\* A variable that takes or loses a reference while the table is left alone, or deletes its own.
LEMMA HandleValue ==
  ASSUME Inv, NEW x \in Handles, NEW hd, h' = [h EXCEPT ![x] = hd],
         refs' = refs \/ (refs' = Delete(refs, h[x].obj_) /\ h[x].cls # "param" /\ hd.obj_ = NoRef)
  PROVE  Val' = [Val EXCEPT ![x] = IF hd.cls = "none" THEN OutOfScope
                                   ELSE IF hd.obj_ = NoRef THEN Nil ELSE refs[hd.obj_].obj]
<1>0. DOMAIN h = Handles /\ h = [z \in Handles |-> h[z]] /\ refs = [q \in Refs |-> refs[q]]
  BY DEF Inv, TypeOK
<1>1. h'[x] = hd /\ \A y \in Handles : y # x => h'[y] = h[y]
  BY <1>0
<1>2. \A q \in Refs : refs[q] # Dead /\ (q = h[x].obj_ => h[x].cls = "param") => refs'[q] = refs[q]
  BY <1>0 DEF Delete
<1>3. \A y \in Handles : y # x => Designates(y)' = Designates(y)
  BY <1>1, <1>2, OthersKeep
<1>4. Designates(x)' = IF hd.cls = "none" THEN OutOfScope
                       ELSE IF hd.obj_ = NoRef THEN Nil ELSE refs[hd.obj_].obj
  BY <1>1 DEF Designates
<1> QED
  BY <1>3, <1>4, SetsOne

\* A handle is in scope in JavaValues exactly when its variable exists.
LEMMA ScopeIsClass ==
  ASSUME Inv, NEW x \in Handles
  PROVE  Values!InScope(x) <=> h[x].cls # "none"
BY DesignatesType DEF Values!InScope

LEMMA DeclareFrom ==
  ASSUME Inv, NEW x \in Handles, h[x].cls = "none", NEW v, Val' = [Val EXCEPT ![x] = v],
         \/ v = Nil
         \/ \E r \in bare \cup args : v = refs[r].obj
         \/ \E y \in Handles : h[y].cls # "none" /\ v = Val[y]
  PROVE  Values!Next
<1>1. ~Values!InScope(x)
  BY ScopeIsClass
<1>2. v \in {Nil} \cup {refs[r].obj : r \in bare \cup args}
             \cup {Val[y] : y \in {z \in Handles : Values!InScope(z)}}
  BY ScopeIsClass
<1>3. Values!Declare(x)
  BY <1>1, <1>2 DEF Values!Declare, Values!Set, Val
<1> QED
  BY <1>3 DEF Values!Next

LEMMA ConstructValue ==
  ASSUME Inv, NEW t \in Threads, NEW x \in Handles, Construct(t, x)
  PROVE  Values!Next
<1> USE NoRefAssumption
<1>0. /\ \A y \in Handles : h[y].obj_ \in Refs \cup {NoRef}
      /\ h[x].cls = "none" => h[x].obj_ = NoRef
      /\ h[x].cls = "none"
  BY NotNullIsLive DEF Inv, TypeOK, Construct, ConstructParam, ConstructLocalNull,
     ConstructGlobalNull, Adopt, ConstructLocalOwning, ConstructGlobal, CopyLocal, MoveLocal,
     ConvertToLocal, CopyGlobal, MoveGlobal, ConvertToGlobal
<1>1. CASE ConstructParam(t, x)
  <2>1. PICK r \in {a \in args : refs[a].env = t} \cup {NoRef} :
          h' = [h EXCEPT ![x] = Handle("param", r, NoEnv, t)]
    BY <1>1 DEF ConstructParam
  <2>2. refs' = refs
    BY <1>1 DEF ConstructParam
  <2>3. Val' = [Val EXCEPT ![x] = IF r = NoRef THEN Nil ELSE refs[r].obj]
    BY <2>1, <2>2, HandleValue DEF Handle
  <2> QED
    BY <1>0, <2>3, DeclareFrom
<1>2. CASE ConstructLocalNull(t, x) \/ ConstructGlobalNull(x)
  <2>1. PICK c \in {"local", "global"}, o \in Threads \cup {NoEnv} :
          h' = [h EXCEPT ![x] = Handle(c, NoRef, NoEnv, o)]
    BY <1>2 DEF ConstructLocalNull, ConstructGlobalNull
  <2>2. refs' = refs
    BY <1>2 DEF ConstructLocalNull, ConstructGlobalNull
  <2>3. LET hd == Handle(c, NoRef, NoEnv, o) IN hd.cls # "none" /\ hd.obj_ = NoRef
    BY DEF Handle
  <2>4. Val' = [Val EXCEPT ![x] = Nil]
    BY <2>1, <2>2, <2>3, HandleValue
  <2> QED
    BY <1>0, <2>4, DeclareFrom
<1>3. ASSUME NEW r \in Refs, Adopt(t, x, r)
      PROVE  Values!Next
  <2>1. h' = [h EXCEPT ![x] = Handle("local", r, t, t)] /\ refs' = refs /\ r \in bare
    BY <1>3 DEF Adopt, ConstructLocalOwning
  <2>2. Val' = [Val EXCEPT ![x] = refs[r].obj]
    BY <2>1, HandleValue DEF Handle
  <2> QED
    BY <1>0, <2>1, <2>2, DeclareFrom
<1>4. ASSUME NEW r \in Refs, ConstructGlobal(t, x, r)
      PROVE  Values!Next
  <2>1. SetNewRef(x, r, "global", NoEnv, NoEnv) /\ r \in bare /\ refs[r] # Dead
    BY <1>4 DEF ConstructGlobal, SetNewGlobalRef, Inv, LiveIffHeld
  <2>2. Val' = [Val EXCEPT ![x] = refs[r].obj]
    BY <1>0, <2>1, SetNewValue
  <2> QED
    BY <1>0, <2>1, <2>2, DeclareFrom
<1>5. ASSUME NEW y \in Handles, h[y].cls # "none", NEW c \in {"local", "global"}, NEW e, NEW o,
             SetNewRef(x, h[y].obj_, c, e, o)
      PROVE  Values!Next
  <2>1. Val' = [Val EXCEPT ![x] = Val[y]]
    BY <1>0, <1>5, SetNewFrom
  <2> QED
    BY <1>0, <1>5, <2>1, DeclareFrom
<1>6. ASSUME NEW y \in Handles,
             CopyLocal(t, x, y) \/ ConvertToLocal(t, x, y) \/ CopyGlobal(t, x, y) \/ ConvertToGlobal(t, x, y)
      PROVE  Values!Next
  <2>1. h[y].cls # "none"
    BY <1>6 DEF CopyLocal, ConvertToLocal, CopyGlobal, ConvertToGlobal, IsLocal, IsGlobal, Names
  <2>2. CASE CopyLocal(t, x, y)
    BY <1>5, <2>1, <2>2 DEF CopyLocal
  <2>3. CASE ConvertToLocal(t, x, y)
    BY <1>5, <2>1, <2>3 DEF ConvertToLocal, SetNewLocalRef
  <2>4. CASE CopyGlobal(t, x, y) \/ ConvertToGlobal(t, x, y)
    BY <1>5, <2>1, <2>4 DEF CopyGlobal, ConvertToGlobal, SetNewGlobalRef
  <2> QED
    BY <1>6, <2>2, <2>3, <2>4
<1>7. ASSUME NEW y \in Handles, MoveLocal(t, x, y) \/ MoveGlobal(x, y)
      PROVE  Values!Next
  <2>1. PICK hd \in {Handle("local", NoRef, h[y].env_, t), Handle("global", NoRef, NoEnv, NoEnv)} :
          Steal(x, hd, y) /\ h[y].cls \in {"local", "global"}
    BY <1>7 DEF MoveLocal, MoveGlobal, IsLocal, IsGlobal
  <2> DEFINE moved == [hd EXCEPT !.obj_ = h[y].obj_]
  <2>2. refs' = refs /\ h' = [h EXCEPT ![x] = moved, ![y].obj_ = NoRef] /\ x # y
    BY <1>0, <2>1 DEF Steal
  <2>3. moved.cls # "none" /\ moved.obj_ = h[y].obj_
    BY <2>1 DEF Handle
  <2>4. h \in [Handles -> [cls : {"none", "param", "local", "global"}, obj_ : Refs \cup {NoRef},
                        env_ : Threads \cup {NoEnv}, on : Threads \cup {NoEnv}]]
    BY DEF Inv, TypeOK
  <2>5. /\ h'[x] = moved /\ h'[y].obj_ = NoRef /\ h'[y].cls = h[y].cls
        /\ \A z \in Handles : z # x /\ z # y => h'[z] = h[z]
    BY <2>2, <2>4
  <2>6. /\ Designates(x)' = Designates(y) /\ Designates(y)' = Nil
        /\ \A z \in Handles : z # x /\ z # y => Designates(z)' = Designates(z)
    <3> HIDE DEF moved
    <3>1. Designates(x)' = Designates(y)
      <4>1. h'[x].cls # "none" /\ h'[x].obj_ = h[y].obj_ /\ h[y].cls # "none"
        BY <2>1, <2>3, <2>5
      <4> QED
        BY <2>2, <4>1 DEF Designates
    <3>2. Designates(y)' = Nil
      BY <2>1, <2>5 DEF Designates
    <3>3. ASSUME NEW z \in Handles, z # x, z # y PROVE Designates(z)' = Designates(z)
      <4>1. h'[z] = h[z] /\ refs' = refs
        BY <2>2, <2>5, <3>3
      <4> QED
        BY <4>1 DEF Designates
    <3> QED
      BY <3>1, <3>2, <3>3
  <2>7. Val' = [Val EXCEPT ![x] = Val[y], ![y] = Nil]
    BY <2>2, <2>6 DEF Val
  <2>8. Values!MoveInto(x, y)
    BY <1>0, <2>1, <2>7, ScopeIsClass DEF Values!MoveInto, Val
  <2> QED
    BY <2>8 DEF Values!Next
<1> QED
  BY <1>1, <1>2, <1>3, <1>4, <1>6, <1>7 DEF Construct

LEMMA UseValue ==
  ASSUME Inv, NEW t \in Threads, NEW x \in Handles, Use(t, x)
  PROVE  Values!Next
<1>0. /\ h = [z \in Handles |-> h[z]]
      /\ h[x] \in [cls : {"none", "param", "local", "global"}, obj_ : Refs \cup {NoRef},
                   env_ : Threads \cup {NoEnv}, on : Threads \cup {NoEnv}]
  BY DEF Inv, TypeOK
<1>1. ASSUME h[x].cls # "none", Val' = [Val EXCEPT ![x] = Nil]
      PROVE  Values!Next
  <2>1. Values!Clear(x)
    BY <1>1, ScopeIsClass DEF Values!Clear, Values!Set, Val
  <2> QED
    BY <2>1 DEF Values!Next
<1>2. ASSUME h[x].cls # "none", Val' = [Val EXCEPT ![x] = OutOfScope]
      PROVE  Values!Next
  <2>1. Values!Destroy(x)
    BY <1>2, ScopeIsClass DEF Values!Destroy, Values!Set, Val
  <2> QED
    BY <2>1 DEF Values!Next
<1>3. CASE \/ AssignNullToLocal(t, x) \/ AssignNullToGlobal(x)
           \/ ReleaseLocal(t, x) \/ ReleaseGlobal(x)
  <2> DEFINE hd == [h[x] EXCEPT !.obj_ = NoRef]
  <2>1. /\ h' = [h EXCEPT ![x].obj_ = NoRef] /\ h[x].cls \in {"local", "global"}
        /\ refs' = refs \/ refs' = Delete(refs, h[x].obj_)
    BY <1>3 DEF AssignNullToLocal, AssignNullToGlobal, ResetLocal, ResetGlobal, ResetLocalRef,
       ResetGlobalRef, IsLocal, IsGlobal, ReleaseLocal, ReleaseGlobal, ReleaseInternal
  <2>2. h' = [h EXCEPT ![x] = hd] /\ hd.obj_ = NoRef /\ hd.cls = h[x].cls
    BY <1>0, <2>1
  <2> HIDE DEF hd
  <2>3. Val' = [Val EXCEPT ![x] = Nil]
    BY <2>1, <2>2, HandleValue
  <2> QED
    BY <1>1, <2>1, <2>3
<1>4. CASE DestructLocal(t, x) \/ DestructGlobal(x) \/ DestructParam(t, x)
  <2>1. /\ h' = [h EXCEPT ![x] = NoHandle] /\ h[x].cls # "none"
        /\ refs' = refs \/ (refs' = Delete(refs, h[x].obj_) /\ h[x].cls # "param")
    BY <1>4 DEF DestructLocal, DestructGlobal, DestructParam, IsLocal, IsGlobal
  <2>2. NoHandle.cls = "none" /\ NoHandle.obj_ = NoRef
    BY DEF NoHandle
  <2>3. Val' = [Val EXCEPT ![x] = OutOfScope]
    BY <2>1, <2>2, HandleValue
  <2> QED
    BY <1>2, <2>1, <2>3
<1>5. ASSUME NEW y \in Handles, AssignToLocal(t, x, y) \/ AssignToGlobal(t, x, y)
      PROVE  Values!Next
  <2>1. h[x].cls \in {"local", "global"} /\ h[y].cls # "none"
    BY <1>5 DEF AssignToLocal, AssignToGlobal, ResetLocalTo, ResetGlobalTo, IsLocal, IsGlobal, Names
  <2>2. Val' = [Val EXCEPT ![x] = Val[y]]
    <3>1. CASE AssignToLocal(t, x, y)
      BY <2>1, <3>1, SetNewFrom DEF AssignToLocal, ResetLocalTo, SetNewLocalRef
    <3>2. CASE AssignToGlobal(t, x, y)
      BY <2>1, <3>2, SetNewFrom DEF AssignToGlobal, ResetGlobalTo, SetNewGlobalRef
    <3> QED
      BY <1>5, <3>1, <3>2
  <2>3. Values!Assign(x, y)
    BY <2>1, <2>2, ScopeIsClass DEF Values!Assign, Values!Set, Val
  <2> QED
    BY <2>3 DEF Values!Next
<1> QED
  BY <1>3, <1>4, <1>5 DEF Use

\* The JVM's own steps change no handle's object.
LEMMA JvmValue ==
  ASSUME Inv, Inv', NEW t \in Threads, Jvm(t)
  PROVE  Values!Next
<1>1. h' = h
  BY DEF Jvm, JniResult, EnterNative, DeleteBare, LeaveNative
<1>2. \A q \in Refs : refs[q] # Dead /\ refs'[q] # Dead => refs'[q] = refs[q]
  BY DEF Jvm, JniResult, EnterNative, DeleteBare, LeaveNative, Delete, Inv, TypeOK
<1>3. \A x \in Handles : h[x].obj_ # NoRef =>
        h[x].obj_ \in Refs /\ refs[h[x].obj_] # Dead /\ refs'[h[x].obj_] # Dead
  BY <1>1 DEF Inv, TypeOK, LiveIffHeld, OwnsItsKind, Owns
<1>4. \A x \in Handles : Designates(x)' = Designates(x)
  BY <1>1, <1>2, <1>3 DEF Designates
<1>5. Val' = Val
  BY <1>4 DEF Val
<1> QED
  BY <1>5 DEF Values!Next, Val

\* The reference classes implement JavaValues.
THEOREM ImplementsJavaValues == Spec => HandlesAreVariables
<1>1. Init => Values!Init
  <2> SUFFICES ASSUME Init PROVE Values!Init
    OBVIOUS
  <2>1. \A x \in Handles : Designates(x) = OutOfScope
    BY DEF Init, Designates, NoHandle
  <2> QED
    BY <2>1 DEF Init, Values!Init
<1>2. Inv /\ Inv' /\ [Next]_vars =>
        [Values!Next /\ {refs[r].obj : r \in bare \cup args}' \subseteq Objects]_(Values!vars)
  <2> SUFFICES ASSUME Inv, Inv', [Next]_vars
               PROVE  [Values!Next /\ {refs[r].obj : r \in bare \cup args}' \subseteq Objects]_(Values!vars)
    OBVIOUS
  <2>1. {refs[r].obj : r \in bare \cup args}' \subseteq Objects
    <3>1. \A r \in bare' \cup args' : refs'[r].obj \in Objects
      BY DEF Inv, TypeOK, LiveIffHeld
    <3> QED
      BY <3>1
  <2>2. CASE UNCHANGED vars
    BY <2>2 DEF vars, Values!vars, Designates
  <2>3. CASE Next
    <3>1. Values!Next
      BY <2>3, JvmValue, ConstructValue, UseValue DEF Next
    <3> QED
      BY <2>1, <3>1
  <2> QED
    BY <2>2, <2>3
<1>3. Spec => []Inv
  BY OwnershipHolds, PTL DEF Inv
<1> QED
  BY <1>1, <1>2, <1>3, PTL DEF Spec, HandlesAreVariables, Values!Spec

-----------------------------------------------------------------------------
(***************************************************************************)
(* JniResults: what a native method hands to Java.                          *)
(***************************************************************************)
\* The local references of t's frame that are not the arguments of the call.
Own(t) == OfFrame(t) \ args

\* r is the one of them, and designates the object the method made.
Carries(t, r) == r \in Refs /\ Own(t) = {r} /\ refs[r].obj = made[t]

\* The same at the end of a method, which may have failed.
Ends(t, r) == IF made[t] = Nil THEN r = NoRef /\ Own(t) = {} ELSE Carries(t, r)

\* Where the result is, stage by stage.
Stage(t) ==
  /\ at[t] \in {"java", "stub", "body"} => Own(t) = {}
  /\ at[t] = "adopt" => \E r \in bare : Carries(t, r)
  /\ at[t] \in {"set", "return"} => Carries(t, obj(JResult(t)))
  /\ at[t] = "unwind" => \/ fn[t] \in ByRelease /\ obj(JResult(t)) = NoRef /\ Carries(t, obj(Ret(t)))
                         \/ fn[t] \in ByObj /\ Carries(t, obj(JResult(t)))
  /\ at[t] = "release" /\ fn[t] \in ByRelease => Ends(t, obj(Ret(t)))
  /\ at[t] = "leave" /\ fn[t] \in ByRelease => Ends(t, out[t])

CallTypes ==
  /\ fn \in [Threads -> ByRelease \cup ByObj \cup {"none"}]
  /\ at \in [Threads -> {"java", "stub", "body", "adopt", "set", "return", "unwind", "release", "leave"}]
  /\ made \in [Threads -> Objects \cup {Nil}]
  /\ out \in [Threads -> Refs \cup {NoRef}]
  /\ got \in [Threads -> (ByRelease \cup ByObj \cup {"none"}) \X (Objects \cup {Nil}) \X (Objects \cup {Nil})]

\* Arguments are live local references; a bare one is too, is no argument, and is about to be adopted.
LooseAreLive ==
  /\ \A r \in args : refs[r].kind = "local"
  /\ \A r \in bare : refs[r].kind = "local" /\ r \notin args /\ at[refs[r].env] = "adopt"

\* A listener's member is null before it is set, and then owns a global reference of its own.
MemberHolds(t) ==
  IF IsFree(Member(t)) THEN obj(Member(t)) = NoRef
  ELSE /\ h[Member(t)].cls = "global" /\ obj(Member(t)) \in Refs
       /\ refs[obj(Member(t))].kind = "global"
       /\ \A u \in Threads : obj(Member(u)) = obj(Member(t)) => u = t

ResultInv ==
  /\ TypeOK /\ CallTypes /\ LooseAreLive
  /\ \A t \in Threads : Stage(t) /\ MemberHolds(t)
  /\ ReleasedIsLive

USE DEF Own


\* The variables of a thread are handles, and all different.
LEMMA StackHandles ==
  \A t \in Threads : Caller(t) \in Handles /\ JResult(t) \in Handles /\ Ret(t) \in Handles /\ Member(t) \in Handles
BY HandlesAssumption DEF Caller, JResult, Ret, Member

\* A live reference is local, of a thread, or global, of none, and designates an object.
LEMMA LiveRefs ==
  ASSUME TypeOK, NEW r \in Refs
  PROVE  /\ refs[r].kind \in {"none", "local", "global"}
         /\ refs[r].kind = "none" <=> refs[r] = Dead
         /\ refs[r].kind = "local" => refs[r].obj \in Objects /\ refs[r].env \in Threads
         /\ refs[r].kind = "global" => refs[r].obj \in Objects /\ refs[r].env = NoEnv
         /\ refs[r].obj \in Objects \cup {Nil}
BY DEF TypeOK, Dead

\* A step of t that leaves the others' calls, variables and frames alone.
Apart(t) ==
  \A u \in Threads \ {t} :
    /\ at'[u] = at[u] /\ fn'[u] = fn[u] /\ made'[u] = made[u] /\ out'[u] = out[u]
    /\ h'[JResult(u)] = h[JResult(u)] /\ h'[Ret(u)] = h[Ret(u)]
    /\ OfFrame(u)' = OfFrame(u)
    /\ \A r \in OfFrame(u) : /\ refs'[r] = refs[r]
                             /\ r \in args' <=> r \in args
                             /\ r \in bare => r \in bare'

\* Such a step leaves the others at their stage.
LEMMA ApartStage ==
  ASSUME NEW t \in Threads, Apart(t), NEW u \in Threads \ {t}, Stage(u)
  PROVE  Stage(u)'
<1>1. /\ at'[u] = at[u] /\ fn'[u] = fn[u] /\ made'[u] = made[u] /\ out'[u] = out[u]
      /\ h'[JResult(u)] = h[JResult(u)] /\ h'[Ret(u)] = h[Ret(u)]
  BY DEF Apart
<1>2. Own(u)' = Own(u)
  BY DEF Apart
<1>3. \A r \in Own(u) : refs'[r] = refs[r] /\ (r \in bare => r \in bare')
  BY DEF Apart
<1>4. \A r : Carries(u, r)' <=> Carries(u, r)
  BY <1>1, <1>2, <1>3 DEF Carries
<1>5. \A r : Carries(u, r) /\ r \in bare => r \in bare'
  BY <1>3 DEF Carries
<1>6. \A r : Ends(u, r)' <=> Ends(u, r)
  BY <1>1, <1>2, <1>4 DEF Ends
<1>7. (\E r \in bare : Carries(u, r)) => \E r \in bare' : Carries(u, r)'
  BY <1>4, <1>5
<1>8. /\ Carries(u, obj(JResult(u))) => Carries(u, obj(JResult(u)))'
      /\ Carries(u, obj(Ret(u))) => Carries(u, obj(Ret(u)))'
      /\ Ends(u, obj(Ret(u))) => Ends(u, obj(Ret(u)))'
      /\ Ends(u, out[u]) => Ends(u, out[u])'
  BY <1>1, <1>4, <1>6
<1> HIDE DEF Own
<1> QED
  BY <1>1, <1>2, <1>7, <1>8 DEF Stage
\* A new local reference of t joins t's frame and no other.
LEMMA NewLocal ==
  ASSUME TypeOK, NEW t \in Threads, NEW o \in Objects, NEW n \in Refs, refs[n] = Dead,
         refs' = [refs EXCEPT ![n] = Ref("local", o, t)]
  PROVE  /\ \A r \in Refs : refs'[r] = IF r = n THEN Ref("local", o, t) ELSE refs[r]
         /\ OfFrame(t)' = OfFrame(t) \cup {n}
         /\ \A u \in Threads : u # t => OfFrame(u)' = OfFrame(u)
         /\ \A u \in Threads : n \notin OfFrame(u)
         /\ refs' \in [Refs -> {Dead} \cup [kind : {"local"}, obj : Objects, env : Threads]
                               \cup [kind : {"global"}, obj : Objects, env : {NoEnv}]]
<1>1. \A r \in Refs : refs'[r] = IF r = n THEN Ref("local", o, t) ELSE refs[r]
  BY DEF TypeOK
<1>2. Ref("local", o, t).kind = "local" /\ Ref("local", o, t).env = t /\ Dead.kind = "none"
  BY DEF Ref, Dead
<1>3. Ref("local", o, t) \in [kind : {"local"}, obj : Objects, env : Threads]
  BY DEF Ref
<1>4. refs' \in [Refs -> {Dead} \cup [kind : {"local"}, obj : Objects, env : Threads]
                               \cup [kind : {"global"}, obj : Objects, env : {NoEnv}]]
  BY <1>3 DEF TypeOK
<1> QED
  BY <1>1, <1>2, <1>4 DEF OfFrame

\* A reference of t's frame that is deleted leaves it, and nothing else changes.
LEMMA DeletedLocal ==
  ASSUME TypeOK, NEW t \in Threads, NEW d, d = NoRef \/ d \in OfFrame(t), refs' = Delete(refs, d)
  PROVE  /\ \A r \in Refs : refs'[r] = IF r = d THEN Dead ELSE refs[r]
         /\ OfFrame(t)' = OfFrame(t) \ {d}
         /\ \A u \in Threads : u # t => OfFrame(u)' = OfFrame(u) /\ d \notin OfFrame(u)
         /\ refs' \in [Refs -> {Dead} \cup [kind : {"local"}, obj : Objects, env : Threads]
                               \cup [kind : {"global"}, obj : Objects, env : {NoEnv}]]
<1>1. \A r \in Refs : refs'[r] = IF r = d THEN Dead ELSE refs[r]
  BY NoRefAssumption DEF TypeOK, Delete, OfFrame
<1>2. Dead.kind = "none"
  BY DEF Dead
<1>3. refs' \in [Refs -> {Dead} \cup [kind : {"local"}, obj : Objects, env : Threads]
                               \cup [kind : {"global"}, obj : Objects, env : {NoEnv}]]
  BY DEF TypeOK, Delete
<1>4. d \notin Refs => d = NoRef
  BY DEF OfFrame
<1> QED
  BY <1>1, <1>2, <1>3, <1>4, NoRefAssumption DEF OfFrame

\* The members keep what they own when neither they nor the global references change.
LEMMA MembersKept ==
  ASSUME \A u \in Threads : MemberHolds(u), \A u \in Threads : h'[Member(u)] = h[Member(u)],
         \A r \in Refs : refs[r].kind = "global" => refs'[r] = refs[r]
  PROVE  \A u \in Threads : MemberHolds(u)'
BY DEF MemberHolds

\* The parts of the invariant, after a step of t.
LEMMA Together ==
  ASSUME ResultInv, NEW t \in Threads, Apart(t), Stage(t)', TypeOK', CallTypes', LooseAreLive',
         \A u \in Threads : MemberHolds(u)', ReleasedIsLive'
  PROVE  ResultInv'
<1>1. \A u \in Threads : Stage(u)'
  BY ApartStage DEF ResultInv
<1> QED
  BY <1>1 DEF ResultInv

\* Java calls a method: the argument is an argument, and the frame has nothing else.
LEMMA CallKeeps ==
  ASSUME ResultInv, NEW t \in Threads, NEW f \in ByRelease \cup ByObj, NEW o \in Objects, Call(t, f, o)
  PROVE  ResultInv'
<1>1. PICK n \in Refs : refs[n] = Dead /\ refs' = [refs EXCEPT ![n] = Ref("local", o, t)] /\ args' = args \cup {n}
  BY DEF Call, EnterNative
<1>2. /\ UNCHANGED <<h, bare, made, out, got>> /\ at[t] = "java"
      /\ fn' = [fn EXCEPT ![t] = f] /\ at' = [at EXCEPT ![t] = "stub"]
  BY DEF Call, EnterNative, Goto
<1>3. TypeOK /\ CallTypes /\ LooseAreLive /\ Stage(t) /\ ReleasedIsLive /\ \A u \in Threads : MemberHolds(u)
  BY DEF ResultInv
<1>4. /\ \A r \in Refs : refs'[r] = IF r = n THEN Ref("local", o, t) ELSE refs[r]
      /\ OfFrame(t)' = OfFrame(t) \cup {n}
      /\ \A u \in Threads : u # t => OfFrame(u)' = OfFrame(u)
      /\ \A u \in Threads : n \notin OfFrame(u)
      /\ refs' \in [Refs -> {Dead} \cup [kind : {"local"}, obj : Objects, env : Threads]
                            \cup [kind : {"global"}, obj : Objects, env : {NoEnv}]]
  BY <1>1, <1>3, NewLocal
<1>5. n \notin args /\ n \notin bare /\ Dead.kind = "none"
  BY <1>1, <1>3 DEF LooseAreLive, Dead
<1>6. TypeOK' /\ CallTypes' /\ ReleasedIsLive'
  <2>1. TypeOK'
    BY <1>1, <1>2, <1>3, <1>4 DEF TypeOK
  <2>2. CallTypes'
    BY <1>2, <1>3 DEF CallTypes
  <2> QED
    BY <1>2, <1>3, <2>1, <2>2 DEF ReleasedIsLive
<1>7. \A u \in Threads : at'[u] = (IF u = t THEN "stub" ELSE at[u]) /\ (u # t => fn'[u] = fn[u])
  BY <1>2, <1>3 DEF CallTypes
<1>8. LooseAreLive'
  <2>1. Ref("local", o, t).kind = "local"
    BY DEF Ref
  <2>2. args \subseteq Refs /\ bare \subseteq Refs
    BY <1>3 DEF TypeOK
  <2>3. \A r \in args' : refs'[r].kind = "local"
    BY <1>1, <1>3, <1>4, <2>1, <2>2 DEF LooseAreLive
  <2>4. \A r \in bare : refs[r].env \in Threads
    BY <1>3, <2>2, LiveRefs DEF LooseAreLive
  <2>5. \A r \in bare' : refs'[r].kind = "local" /\ r \notin args' /\ at'[refs'[r].env] = "adopt"
    BY <1>1, <1>2, <1>3, <1>4, <1>5, <1>7, <2>2, <2>4 DEF LooseAreLive
  <2> QED
    BY <2>3, <2>5 DEF LooseAreLive
<1>9. Apart(t)
  <2>1. \A u \in Threads : \A r \in OfFrame(u) : r \in Refs /\ r # n
    BY <1>4 DEF OfFrame
  <2> QED
    BY <1>1, <1>2, <1>4, <1>7, <2>1 DEF Apart
<1>10. Stage(t)'
  <2>1. Own(t) = {}
    BY <1>2, <1>3 DEF Stage
  <2>2. Own(t)' = {}
    BY <1>1, <1>4, <2>1
  <2> HIDE DEF Own
  <2> QED
    BY <1>7, <2>2 DEF Stage
<1>11. \A u \in Threads : MemberHolds(u)'
  BY <1>1, <1>2, <1>3, <1>4, <1>5, MembersKept
<1> QED
  BY <1>6, <1>8, <1>9, <1>10, <1>11, Together
\* The variables of t's stack.
Stack(t) == {Caller(t), JResult(t), Ret(t)}

\* A step that writes nothing but t's stack and t's own call.
LEMMA StackStep ==
  ASSUME ResultInv, NEW t \in Threads, UNCHANGED <<refs, bare, args, fn, got>>, at[t] # "adopt",
         TypeOK', CallTypes', Stage(t)',
         \A u \in Threads : u # t => at'[u] = at[u] /\ made'[u] = made[u] /\ out'[u] = out[u],
         \A x \in Handles : x \notin Stack(t) => h'[x] = h[x]
  PROVE  ResultInv'
<1>1. TypeOK /\ LooseAreLive /\ ReleasedIsLive /\ \A u \in Threads : MemberHolds(u)
  BY DEF ResultInv
<1>2. \A u \in Threads : Member(u) \notin Stack(t)
  BY DEF Stack, Member, Caller, JResult, Ret
<1>3. \A u \in Threads : u # t => JResult(u) \notin Stack(t) /\ Ret(u) \notin Stack(t)
  BY DEF Stack, Caller, JResult, Ret
<1>4. \A u \in Threads : /\ h'[Member(u)] = h[Member(u)]
                         /\ u # t => h'[JResult(u)] = h[JResult(u)] /\ h'[Ret(u)] = h[Ret(u)]
  BY <1>2, <1>3, StackHandles
<1>5. \A u \in Threads : MemberHolds(u)'
  BY <1>1, <1>4, MembersKept
<1>6. Apart(t)
  BY <1>4 DEF Apart, OfFrame
<1>7. LooseAreLive'
  <2>1. \A r \in bare : refs[r].env \in Threads /\ refs[r].env # t
    BY <1>1, LiveRefs DEF LooseAreLive, TypeOK
  <2> QED
    BY <1>1, <2>1 DEF LooseAreLive
<1>8. ReleasedIsLive'
  BY <1>1 DEF ReleasedIsLive
<1> QED
  BY <1>5, <1>6, <1>7, <1>8, Together

\* The generated stub wraps the argument.
LEMMA StubKeeps ==
  ASSUME ResultInv, NEW t \in Threads, Stub(t)
  PROVE  ResultInv'
<1>1. PICK r \in Refs \cup {NoRef} : h' = [h EXCEPT ![Caller(t)] = Handle("param", r, NoEnv, t)]
  BY DEF Stub, ConstructParam, ResultInv, TypeOK
<1>2. /\ UNCHANGED <<refs, bare, args, fn, made, out, got>> /\ at[t] = "stub"
      /\ at' = [at EXCEPT ![t] = "body"]
  BY DEF Stub, ConstructParam, Goto
<1>3. TypeOK /\ CallTypes /\ Stage(t)
  BY DEF ResultInv
<1>4. TypeOK' /\ CallTypes'
  <2>1. TypeOK'
    BY <1>1, <1>2, <1>3 DEF TypeOK, Handle
  <2> QED
    BY <1>2, <1>3, <2>1 DEF CallTypes
<1>5. \A u \in Threads : at'[u] = (IF u = t THEN "body" ELSE at[u])
  BY <1>2, <1>3 DEF CallTypes
<1>6. Stage(t)'
  <2>1. Own(t) = {} /\ Own(t)' = Own(t)
    BY <1>2, <1>3 DEF Stage, OfFrame
  <2> HIDE DEF Own
  <2> QED
    BY <1>5, <2>1 DEF Stage
<1>7. \A x \in Handles : x \notin Stack(t) => h'[x] = h[x]
  BY <1>1, <1>3 DEF TypeOK, Stack
<1> QED
  BY <1>2, <1>4, <1>5, <1>6, <1>7, StackStep

\* A step that leaves the references and the made object alone moves nothing.
LEMMA SameCarries ==
  ASSUME NEW t \in Threads, UNCHANGED <<refs, args>>, made'[t] = made[t]
  PROVE  /\ Own(t)' = Own(t)
         /\ \A r : Carries(t, r)' <=> Carries(t, r)
         /\ \A r : Ends(t, r)' <=> Ends(t, r)
BY DEF Carries, Ends, OfFrame

\* The result's handle is Release()d into the returned one.
LEMMA ReturnReleasedKeeps ==
  ASSUME ResultInv, NEW t \in Threads, ReturnReleased(t)
  PROVE  ResultInv'
<1>1. h' = [h EXCEPT ![Ret(t)] = Handle("local", obj(JResult(t)), t, t), ![JResult(t)].obj_ = NoRef]
  BY DEF ReturnReleased
<1>2. /\ UNCHANGED <<refs, bare, args, fn, made, out, got>> /\ at[t] = "return" /\ fn[t] \in ByRelease
      /\ at' = [at EXCEPT ![t] = "unwind"]
  BY DEF ReturnReleased, Goto
<1>3. TypeOK /\ CallTypes /\ Stage(t)
  BY DEF ResultInv
<1>4. JResult(t) \in Handles /\ Ret(t) \in Handles /\ JResult(t) # Ret(t)
  BY StackHandles DEF JResult, Ret
<1>5. /\ h'[Ret(t)].obj_ = obj(JResult(t)) /\ h'[JResult(t)].obj_ = NoRef
      /\ \A x \in Handles : x \notin Stack(t) => h'[x] = h[x]
  BY <1>1, <1>3, <1>4 DEF TypeOK, Stack, Handle
<1>6. TypeOK'
  <2>1. h[JResult(t)] \in [cls : {"none", "param", "local", "global"}, obj_ : Refs \cup {NoRef},
                            env_ : Threads \cup {NoEnv}, on : Threads \cup {NoEnv}]
    BY <1>3, <1>4 DEF TypeOK
  <2>2. Handle("local", obj(JResult(t)), t, t) \in
           [cls : {"none", "param", "local", "global"}, obj_ : Refs \cup {NoRef},
            env_ : Threads \cup {NoEnv}, on : Threads \cup {NoEnv}]
    BY <2>1 DEF Handle
  <2>3. [h[JResult(t)] EXCEPT !.obj_ = NoRef] \in
           [cls : {"none", "param", "local", "global"}, obj_ : Refs \cup {NoRef},
            env_ : Threads \cup {NoEnv}, on : Threads \cup {NoEnv}]
    BY <2>1
  <2> QED
    BY <1>1, <1>2, <1>3, <1>4, <2>2, <2>3 DEF TypeOK
<1>7. CallTypes'
  BY <1>2, <1>3 DEF CallTypes
<1>8. \A u \in Threads : at'[u] = (IF u = t THEN "unwind" ELSE at[u])
  BY <1>2, <1>3 DEF CallTypes
<1>9. Stage(t)'
  <2>1. Carries(t, obj(JResult(t)))
    BY <1>2, <1>3 DEF Stage
  <2>2. Carries(t, obj(Ret(t)))'
    BY <1>2, <1>5, <2>1, SameCarries
  <2> HIDE DEF Own
  <2> QED
    BY <1>2, <1>5, <1>8, <2>2 DEF Stage
<1> QED
  BY <1>2, <1>5, <1>6, <1>7, <1>8, <1>9, StackStep

\* The returned handle takes the reference j_result still owns.
LEMMA ReturnObjKeeps ==
  ASSUME ResultInv, NEW t \in Threads, ReturnObj(t)
  PROVE  ResultInv'
<1>1. h' = [h EXCEPT ![Ret(t)] = Handle("local", obj(JResult(t)), t, t)]
  BY DEF ReturnObj
<1>2. /\ UNCHANGED <<refs, bare, args, fn, made, out, got>> /\ at[t] = "return" /\ fn[t] \in ByObj
      /\ at' = [at EXCEPT ![t] = "unwind"]
  BY DEF ReturnObj, Goto
<1>3. TypeOK /\ CallTypes /\ Stage(t)
  BY DEF ResultInv
<1>4. JResult(t) \in Handles /\ Ret(t) \in Handles /\ JResult(t) # Ret(t)
  BY StackHandles DEF JResult, Ret
<1>5. /\ h'[JResult(t)] = h[JResult(t)]
      /\ \A x \in Handles : x \notin Stack(t) => h'[x] = h[x]
  BY <1>1, <1>3, <1>4 DEF TypeOK, Stack
<1>6. TypeOK'
  BY <1>1, <1>2, <1>3, <1>4 DEF TypeOK, Handle
<1>7. CallTypes'
  BY <1>2, <1>3 DEF CallTypes
<1>8. \A u \in Threads : at'[u] = (IF u = t THEN "unwind" ELSE at[u])
  BY <1>2, <1>3 DEF CallTypes
<1>9. Stage(t)'
  <2>1. Carries(t, obj(JResult(t)))
    BY <1>2, <1>3 DEF Stage
  <2>2. Carries(t, obj(JResult(t)))'
    BY <1>2, <1>5, <2>1, SameCarries
  <2> HIDE DEF Own
  <2> QED
    BY <1>2, <1>8, <2>2 DEF Stage
<1> QED
  BY <1>2, <1>5, <1>6, <1>7, <1>8, <1>9, StackStep

\* The native call failed and the returned handle is null.
LEMMA ReturnNullKeeps ==
  ASSUME ResultInv, NEW t \in Threads, ReturnNull(t)
  PROVE  ResultInv'
<1>1. h' = [h EXCEPT ![Ret(t)] = Handle("local", NoRef, NoEnv, t)]
  BY DEF ReturnNull, ConstructLocalNull
<1>2. /\ UNCHANGED <<refs, bare, args, fn, out, got>> /\ at[t] = "body"
      /\ at' = [at EXCEPT ![t] = "release"] /\ made' = [made EXCEPT ![t] = Nil]
  BY DEF ReturnNull, ConstructLocalNull, Goto
<1>3. TypeOK /\ CallTypes /\ Stage(t)
  BY DEF ResultInv
<1>4. Ret(t) \in Handles
  BY StackHandles
<1>5. /\ h'[Ret(t)].obj_ = NoRef
      /\ \A x \in Handles : x \notin Stack(t) => h'[x] = h[x]
  BY <1>1, <1>3, <1>4 DEF TypeOK, Stack, Handle
<1>6. TypeOK'
  BY <1>1, <1>2, <1>3, <1>4 DEF TypeOK, Handle
<1>7. CallTypes'
  BY <1>2, <1>3 DEF CallTypes
<1>8. \A u \in Threads : /\ at'[u] = (IF u = t THEN "release" ELSE at[u])
                         /\ made'[u] = (IF u = t THEN Nil ELSE made[u])
  BY <1>2, <1>3 DEF CallTypes
<1>9. Stage(t)'
  <2>1. Own(t)' = {}
    BY <1>2, <1>3 DEF Stage, OfFrame
  <2> HIDE DEF Own
  <2>2. Ends(t, obj(Ret(t)))'
    BY <1>5, <1>8, <2>1 DEF Ends
  <2> QED
    BY <1>8, <2>2 DEF Stage
<1> QED
  BY <1>2, <1>5, <1>6, <1>7, <1>8, <1>9, StackStep

\* The stub keeps the reference and its variables go.
LEMMA StubReleasesKeeps ==
  ASSUME ResultInv, NEW t \in Threads, StubReleases(t)
  PROVE  ResultInv'
<1>1. h' = [h EXCEPT ![Ret(t)] = NoHandle, ![Caller(t)] = NoHandle]
  BY DEF StubReleases
<1>2. /\ UNCHANGED <<refs, bare, args, fn, made, got>> /\ at[t] = "release"
      /\ at' = [at EXCEPT ![t] = "leave"] /\ out' = [out EXCEPT ![t] = obj(Ret(t))]
  BY DEF StubReleases, Goto
<1>3. TypeOK /\ CallTypes /\ Stage(t)
  BY DEF ResultInv
<1>4. Ret(t) \in Handles /\ Caller(t) \in Handles /\ obj(Ret(t)) \in Refs \cup {NoRef}
  BY <1>3, StackHandles DEF TypeOK
<1>5. \A x \in Handles : x \notin Stack(t) => h'[x] = h[x]
  BY <1>1, <1>3, <1>4 DEF TypeOK, Stack
<1>6. TypeOK'
  BY <1>1, <1>2, <1>3, <1>4 DEF TypeOK, NoHandle
<1>7. CallTypes'
  BY <1>2, <1>3, <1>4 DEF CallTypes
<1>8. \A u \in Threads : /\ at'[u] = (IF u = t THEN "leave" ELSE at[u])
                         /\ out'[u] = (IF u = t THEN obj(Ret(t)) ELSE out[u])
  BY <1>2, <1>3 DEF CallTypes
<1>9. Stage(t)'
  <2>1. fn[t] \in ByRelease => Ends(t, obj(Ret(t)))
    BY <1>2, <1>3 DEF Stage
  <2>2. fn'[t] \in ByRelease => Ends(t, out[t])'
    BY <1>2, <1>8, <2>1, SameCarries
  <2> HIDE DEF Own
  <2> QED
    BY <1>8, <2>2 DEF Stage
<1> QED
  BY <1>2, <1>5, <1>6, <1>7, <1>8, <1>9, StackStep
\* A JNI function returns the result as a bare reference.
LEMMA NativeToJavaKeeps ==
  ASSUME ResultInv, NEW t \in Threads, NEW o \in Objects, NativeToJava(t, o)
  PROVE  ResultInv'
<1>1. PICK n \in Refs : refs[n] = Dead /\ refs' = [refs EXCEPT ![n] = Ref("local", o, t)] /\ bare' = bare \cup {n}
  BY DEF NativeToJava, JniResult
<1>2. /\ UNCHANGED <<h, args, fn, out, got>> /\ at[t] = "body"
      /\ made' = [made EXCEPT ![t] = o] /\ at' = [at EXCEPT ![t] = "adopt"]
  BY DEF NativeToJava, JniResult, Goto
<1>3. TypeOK /\ CallTypes /\ LooseAreLive /\ Stage(t) /\ ReleasedIsLive /\ \A u \in Threads : MemberHolds(u)
  BY DEF ResultInv
<1>4. /\ \A r \in Refs : refs'[r] = IF r = n THEN Ref("local", o, t) ELSE refs[r]
      /\ OfFrame(t)' = OfFrame(t) \cup {n}
      /\ \A u \in Threads : u # t => OfFrame(u)' = OfFrame(u)
      /\ \A u \in Threads : n \notin OfFrame(u)
      /\ refs' \in [Refs -> {Dead} \cup [kind : {"local"}, obj : Objects, env : Threads]
                            \cup [kind : {"global"}, obj : Objects, env : {NoEnv}]]
  BY <1>1, <1>3, NewLocal
<1>5. n \notin args /\ n \notin bare /\ Dead.kind = "none"
  BY <1>1, <1>3 DEF LooseAreLive, Dead
<1>6. TypeOK' /\ CallTypes' /\ ReleasedIsLive'
  <2>1. TypeOK'
    BY <1>1, <1>2, <1>3, <1>4 DEF TypeOK
  <2>2. CallTypes'
    BY <1>2, <1>3 DEF CallTypes
  <2> QED
    BY <1>2, <1>3, <2>1, <2>2 DEF ReleasedIsLive
<1>7. \A u \in Threads : /\ at'[u] = (IF u = t THEN "adopt" ELSE at[u])
                         /\ made'[u] = (IF u = t THEN o ELSE made[u])
  BY <1>2, <1>3 DEF CallTypes
<1>8. LooseAreLive'
  <2>1. Ref("local", o, t).kind = "local" /\ Ref("local", o, t).env = t
    BY DEF Ref
  <2>2. args \subseteq Refs /\ bare \subseteq Refs
    BY <1>3 DEF TypeOK
  <2>3. \A r \in args' : refs'[r].kind = "local"
    BY <1>2, <1>3, <1>4, <1>5, <2>2 DEF LooseAreLive
  <2>4. \A r \in bare : refs[r].env \in Threads
    BY <1>3, <2>2, LiveRefs DEF LooseAreLive
  <2>5. \A r \in bare' : refs'[r].kind = "local" /\ r \notin args' /\ at'[refs'[r].env] = "adopt"
    BY <1>1, <1>2, <1>3, <1>4, <1>5, <1>7, <2>1, <2>2, <2>4 DEF LooseAreLive
  <2> QED
    BY <2>3, <2>5 DEF LooseAreLive
<1>9. Apart(t)
  <2>1. \A u \in Threads : \A r \in OfFrame(u) : r \in Refs /\ r # n
    BY <1>4 DEF OfFrame
  <2> QED
    BY <1>1, <1>2, <1>4, <1>7, <2>1 DEF Apart
<1>10. Stage(t)'
  <2>1. Own(t)' = {n}
    BY <1>2, <1>3, <1>4, <1>5 DEF Stage
  <2>2. refs'[n].obj = made'[t] /\ n \in bare'
    BY <1>1, <1>4, <1>7 DEF Ref
  <2> HIDE DEF Own
  <2>3. Carries(t, n)'
    BY <2>1, <2>2 DEF Carries
  <2> QED
    BY <1>7, <2>2, <2>3 DEF Stage
<1>11. \A u \in Threads : MemberHolds(u)'
  BY <1>1, <1>2, <1>3, <1>4, <1>5, MembersKept
<1> QED
  BY <1>6, <1>8, <1>9, <1>10, <1>11, Together

\* j_result adopts the one bare reference there is of its thread.
LEMMA JResultAdoptsKeeps ==
  ASSUME ResultInv, NEW t \in Threads, JResultAdopts(t)
  PROVE  ResultInv'
<1>1. PICK r \in Refs : /\ r \in bare /\ refs[r].kind = "local" /\ refs[r].env = t
                        /\ h' = [h EXCEPT ![JResult(t)] = Handle("local", r, t, t)]
                        /\ bare' = bare \ {r}
  BY DEF JResultAdopts, Adopt, ConstructLocalOwning
<1>2. /\ UNCHANGED <<refs, args, fn, made, out, got>> /\ at[t] = "adopt"
      /\ at' = [at EXCEPT ![t] = IF fn[t] = "NativeToJavaTransport" THEN "set" ELSE "return"]
  BY DEF JResultAdopts, Adopt, ConstructLocalOwning, Goto
<1>3. TypeOK /\ CallTypes /\ LooseAreLive /\ Stage(t) /\ ReleasedIsLive /\ \A u \in Threads : MemberHolds(u)
  BY DEF ResultInv
<1>4. JResult(t) \in Handles
  BY StackHandles
<1>5. \A x \in Handles : h'[x] = IF x = JResult(t) THEN Handle("local", r, t, t) ELSE h[x]
  BY <1>1, <1>3 DEF TypeOK
<1>6. TypeOK' /\ CallTypes' /\ ReleasedIsLive'
  <2>1. TypeOK'
    BY <1>1, <1>2, <1>3 DEF TypeOK, Handle
  <2>2. CallTypes'
    BY <1>2, <1>3 DEF CallTypes
  <2> QED
    BY <1>2, <1>3, <2>1, <2>2 DEF ReleasedIsLive
<1>7. \A u \in Threads : u # t => at'[u] = at[u]
  BY <1>2, <1>3 DEF CallTypes
<1>8. Carries(t, r) /\ Own(t) = {r}
  BY <1>1, <1>2, <1>3 DEF Stage, Carries, LooseAreLive, OfFrame
<1>9. LooseAreLive'
  <2>1. \A q \in bare : q \in Refs /\ refs[q].kind = "local" /\ q \notin args /\ refs[q].env \in Threads
    BY <1>3, LiveRefs DEF LooseAreLive, TypeOK
  <2>2. \A q \in bare' : refs[q].env # t
    BY <1>1, <1>8, <2>1 DEF OfFrame
  <2> QED
    BY <1>1, <1>2, <1>3, <1>7, <2>1, <2>2 DEF LooseAreLive
<1>10. Apart(t)
  <2>1. \A u \in Threads \ {t} : JResult(u) # JResult(t) /\ Ret(u) # JResult(t)
    BY DEF JResult, Ret
  <2>2. \A u \in Threads \ {t} : h'[JResult(u)] = h[JResult(u)] /\ h'[Ret(u)] = h[Ret(u)]
    BY <1>5, <2>1, StackHandles
  <2> QED
    BY <1>1, <1>2, <1>7, <2>2 DEF Apart, OfFrame
<1>11. Stage(t)'
  <2>1. Carries(t, r)'
    BY <1>2, <1>8, SameCarries
  <2>2. h'[JResult(t)].obj_ = r
    BY <1>4, <1>5 DEF Handle
  <2>3. at'[t] \in {"set", "return"}
    BY <1>2, <1>3 DEF CallTypes
  <2> HIDE DEF Own
  <2> QED
    BY <2>1, <2>2, <2>3 DEF Stage
<1>12. \A u \in Threads : MemberHolds(u)'
  <2>1. \A u \in Threads : Member(u) # JResult(t)
    BY DEF JResult, Member
  <2>2. \A u \in Threads : h'[Member(u)] = h[Member(u)]
    BY <1>5, <2>1, StackHandles
  <2> QED
    BY <1>2, <1>3, <2>2, MembersKept
<1> QED
  BY <1>6, <1>9, <1>10, <1>11, <1>12, Together

\* The member gets a global reference of its own.
LEMMA SetJTransportKeeps ==
  ASSUME ResultInv, NEW t \in Threads, SetJTransport(t)
  PROVE  ResultInv'
<1>1. TypeOK /\ CallTypes /\ LooseAreLive /\ Stage(t) /\ ReleasedIsLive /\ \A u \in Threads : MemberHolds(u)
  BY DEF ResultInv
<1>2. /\ UNCHANGED <<bare, args, fn, made, out, got>> /\ at[t] = "set"
      /\ at' = [at EXCEPT ![t] = "return"] /\ IsFree(Member(t))
      /\ SetNewRef(Member(t), obj(JResult(t)), "global", NoEnv, NoEnv)
  BY DEF SetJTransport, ConvertToGlobal, SetNewGlobalRef, Goto
<1>3. Carries(t, obj(JResult(t))) /\ obj(JResult(t)) \in Refs /\ obj(JResult(t)) # NoRef
  BY <1>1, <1>2, NoRefAssumption DEF Stage, Carries
<1>4. obj(Member(t)) = NoRef
  BY <1>1, <1>2 DEF MemberHolds
<1> DEFINE o == refs[obj(JResult(t))].obj
<1>5. o \in Objects
  <2>1. obj(JResult(t)) \in OfFrame(t)
    BY <1>3 DEF Carries
  <2> QED
    BY <1>1, <1>3, <2>1, LiveRefs DEF OfFrame
<1> HIDE DEF o
<1>6. PICK n \in Refs : /\ refs[n] = Dead /\ refs' = [refs EXCEPT ![n] = Ref("global", o, NoEnv)]
                        /\ h' = [h EXCEPT ![Member(t)] = Handle("global", n, NoEnv, NoEnv)]
  BY <1>2, <1>3, <1>4 DEF SetNewRef, Delete, o
<1>7. \A r \in Refs : refs'[r] = IF r = n THEN Ref("global", o, NoEnv) ELSE refs[r]
  BY <1>1, <1>6 DEF TypeOK
<1>8. \A x \in Handles : h'[x] = IF x = Member(t) THEN Handle("global", n, NoEnv, NoEnv) ELSE h[x]
  BY <1>1, <1>6 DEF TypeOK
<1>9. TypeOK' /\ CallTypes' /\ ReleasedIsLive'
  <2>1. Ref("global", o, NoEnv) \in [kind : {"global"}, obj : Objects, env : {NoEnv}]
    BY <1>5 DEF Ref
  <2>2. TypeOK'
    BY <1>1, <1>2, <1>6, <2>1 DEF TypeOK, Handle
  <2>3. CallTypes'
    BY <1>1, <1>2 DEF CallTypes
  <2> QED
    BY <1>1, <1>2, <2>2, <2>3 DEF ReleasedIsLive
<1>10. \A u \in Threads : at'[u] = (IF u = t THEN "return" ELSE at[u])
  BY <1>1, <1>2 DEF CallTypes
<1>11. Dead.kind = "none" /\ Ref("global", o, NoEnv).kind = "global"
  BY DEF Dead, Ref
<1>12. \A u \in Threads : OfFrame(u)' = OfFrame(u) /\ n \notin OfFrame(u)
  BY <1>6, <1>7, <1>11 DEF OfFrame
<1>13. LooseAreLive'
  <2>1. \A q \in bare \cup args : q \in Refs /\ refs[q].kind = "local" /\ q # n
    BY <1>1, <1>6, <1>11 DEF LooseAreLive, TypeOK
  <2>2. \A q \in bare : refs[q].env \in Threads /\ refs[q].env # t
    BY <1>1, <1>2, <2>1, LiveRefs DEF LooseAreLive
  <2> QED
    BY <1>1, <1>2, <1>7, <1>10, <2>1, <2>2 DEF LooseAreLive
<1>14. \A u \in Threads : h'[JResult(u)] = h[JResult(u)] /\ h'[Ret(u)] = h[Ret(u)]
  <2>1. \A u \in Threads : JResult(u) # Member(t) /\ Ret(u) # Member(t)
    BY DEF JResult, Ret, Member
  <2> QED
    BY <1>8, <2>1, StackHandles
<1>15. Apart(t)
  <2>1. \A u \in Threads : \A r \in OfFrame(u) : refs'[r] = refs[r]
    BY <1>7, <1>12 DEF OfFrame
  <2> QED
    BY <1>2, <1>10, <1>12, <1>14, <2>1 DEF Apart
<1>16. Stage(t)'
  <2>1. Own(t)' = Own(t) /\ obj(JResult(t))' = obj(JResult(t))
    BY <1>2, <1>12, <1>14
  <2>2. refs'[obj(JResult(t))] = refs[obj(JResult(t))]
    BY <1>3, <1>7, <1>12 DEF Carries
  <2> HIDE DEF Own
  <2>3. Carries(t, obj(JResult(t)))'
    BY <1>2, <1>3, <2>1, <2>2 DEF Carries
  <2> QED
    BY <1>10, <2>3 DEF Stage
<1>17. \A u \in Threads : MemberHolds(u)'
  <2>1. \A u \in Threads : u # t => Member(u) # Member(t)
    BY DEF Member
  <2>2. \A u \in Threads : u # t => h'[Member(u)] = h[Member(u)]
    BY <1>8, <2>1, StackHandles
  <2>3. h'[Member(t)].cls = "global" /\ h'[Member(t)].obj_ = n
    BY <1>8, StackHandles DEF Handle
  <2>4. \A u \in Threads : obj(Member(u)) # n
    BY <1>1, <1>6, <1>11, NoRefAssumption DEF MemberHolds
  <2>5. \A u \in Threads : u # t => MemberHolds(u)'
    BY <1>1, <1>7, <2>2, <2>3, <2>4 DEF MemberHolds
  <2>6. MemberHolds(t)'
    BY <1>7, <1>11, <2>2, <2>3, <2>4 DEF MemberHolds
  <2> QED
    BY <2>5, <2>6
<1> QED
  BY <1>9, <1>13, <1>15, <1>16, <1>17, Together
\* j_result is destroyed: it is null, or it deletes the result.
LEMMA UnwindKeeps ==
  ASSUME ResultInv, NEW t \in Threads, Unwind(t)
  PROVE  ResultInv'
<1>1. TypeOK /\ CallTypes /\ LooseAreLive /\ Stage(t) /\ ReleasedIsLive /\ \A u \in Threads : MemberHolds(u)
  BY DEF ResultInv
<1>2. /\ UNCHANGED <<bare, args, fn, made, out, got>> /\ at[t] = "unwind"
      /\ at' = [at EXCEPT ![t] = "release"]
      /\ h' = [h EXCEPT ![JResult(t)] = NoHandle] /\ refs' = Delete(refs, obj(JResult(t)))
  BY DEF Unwind, DestructLocal, Goto
<1> DEFINE d == obj(JResult(t))
<1>3. \/ fn[t] \in ByRelease /\ d = NoRef /\ Carries(t, obj(Ret(t)))
      \/ fn[t] \in ByObj /\ Carries(t, d)
  BY <1>1, <1>2 DEF Stage
<1>4. d = NoRef \/ d \in OfFrame(t) \ args
  BY <1>3 DEF Carries
<1>5. refs' = Delete(refs, d)
  BY <1>2
<1> HIDE DEF d
<1>6. /\ \A r \in Refs : refs'[r] = IF r = d THEN Dead ELSE refs[r]
      /\ OfFrame(t)' = OfFrame(t) \ {d}
      /\ \A u \in Threads : u # t => OfFrame(u)' = OfFrame(u) /\ d \notin OfFrame(u)
      /\ refs' \in [Refs -> {Dead} \cup [kind : {"local"}, obj : Objects, env : Threads]
                            \cup [kind : {"global"}, obj : Objects, env : {NoEnv}]]
  BY <1>1, <1>4, <1>5, DeletedLocal
<1>7. \A x \in Handles : h'[x] = IF x = JResult(t) THEN NoHandle ELSE h[x]
  BY <1>1, <1>2 DEF TypeOK
<1>8. TypeOK' /\ CallTypes' /\ ReleasedIsLive'
  <2>1. TypeOK'
    BY <1>1, <1>2, <1>6 DEF TypeOK, NoHandle
  <2>2. CallTypes'
    BY <1>1, <1>2 DEF CallTypes
  <2> QED
    BY <1>1, <1>2, <2>1, <2>2 DEF ReleasedIsLive
<1>9. \A u \in Threads : at'[u] = (IF u = t THEN "release" ELSE at[u])
  BY <1>1, <1>2 DEF CallTypes
<1>10. LooseAreLive'
  <2>1. \A q \in bare \cup args : q \in Refs /\ refs[q].kind = "local"
    BY <1>1 DEF LooseAreLive, TypeOK
  <2>2. \A q \in bare : refs[q].env \in Threads /\ refs[q].env # t
    BY <1>1, <1>2, <2>1, LiveRefs DEF LooseAreLive
  <2>3. d \notin args /\ d \notin bare
    BY <1>4, <2>1, <2>2, NoRefAssumption DEF OfFrame
  <2> QED
    BY <1>1, <1>2, <1>6, <1>9, <2>1, <2>2, <2>3 DEF LooseAreLive
<1>11. \A u \in Threads : (u # t => h'[JResult(u)] = h[JResult(u)]) /\ h'[Ret(u)] = h[Ret(u)]
  <2>1. \A u \in Threads : (u # t => JResult(u) # JResult(t)) /\ Ret(u) # JResult(t)
    BY DEF JResult, Ret
  <2> QED
    BY <1>7, <2>1, StackHandles
<1>12. Apart(t)
  <2>1. \A u \in Threads : u # t => \A r \in OfFrame(u) : refs'[r] = refs[r]
    BY <1>6 DEF OfFrame
  <2> QED
    BY <1>2, <1>6, <1>9, <1>11, <2>1 DEF Apart
<1>13. Stage(t)'
  <2>1. CASE fn[t] \in ByObj
    <3>1. fn'[t] \notin ByRelease
      BY <1>2, <2>1 DEF ByObj, ByRelease
    <3> QED
      BY <1>9, <3>1 DEF Stage
  <2>2. CASE fn[t] \notin ByObj
    <3>1. d = NoRef /\ Carries(t, obj(Ret(t)))
      BY <1>3, <2>2
    <3>2. obj(Ret(t)) \in Refs /\ obj(Ret(t)) \in OfFrame(t) /\ d \notin Refs
      BY <3>1, NoRefAssumption DEF Carries
    <3>3. refs'[obj(Ret(t))] = refs[obj(Ret(t))] /\ Own(t)' = Own(t)
      BY <1>2, <1>6, <3>2 DEF OfFrame
    <3>4. made[t] \in Objects /\ made[t] # Nil
      BY <1>1, <3>1, <3>2, LiveRefs, NilAssumption DEF Carries, OfFrame
    <3> HIDE DEF Own
    <3>5. Ends(t, obj(Ret(t)))'
      BY <1>2, <1>11, <3>1, <3>2, <3>3, <3>4 DEF Ends, Carries
    <3> QED
      BY <1>9, <3>5 DEF Stage
  <2> QED
    BY <2>1, <2>2
<1>14. \A u \in Threads : MemberHolds(u)'
  <2>1. \A u \in Threads : Member(u) # JResult(t)
    BY DEF JResult, Member
  <2>2. \A u \in Threads : h'[Member(u)] = h[Member(u)]
    BY <1>7, <2>1, StackHandles
  <2>3. \A r \in Refs : refs[r].kind = "global" => refs'[r] = refs[r]
    BY <1>4, <1>6, NoRefAssumption DEF OfFrame
  <2> QED
    BY <1>1, <2>2, <2>3, MembersKept
<1> QED
  BY <1>8, <1>10, <1>12, <1>13, <1>14, Together

\* The JVM reads the result and frees the frame: Java gets the object the method made.
LEMMA LeaveKeeps ==
  ASSUME ResultInv, NEW t \in Threads, Leave(t)
  PROVE  ResultInv'
<1>1. TypeOK /\ CallTypes /\ LooseAreLive /\ Stage(t) /\ ReleasedIsLive /\ \A u \in Threads : MemberHolds(u)
  BY DEF ResultInv
<1> DEFINE read == IF out[t] = NoRef THEN Nil ELSE refs[out[t]].obj
<1>2. /\ UNCHANGED <<h, bare>> /\ at[t] = "leave" /\ at' = [at EXCEPT ![t] = "java"]
      /\ got' = [got EXCEPT ![t] = <<fn[t], made[t], read>>]
      /\ fn' = [fn EXCEPT ![t] = "none"] /\ out' = [out EXCEPT ![t] = NoRef]
      /\ made' = [made EXCEPT ![t] = Nil]
      /\ refs' = [r \in Refs |-> IF r \in OfFrame(t) THEN Dead ELSE refs[r]]
      /\ args' = args \ OfFrame(t)
  BY DEF Leave, Goto
<1>3. read \in Objects \cup {Nil}
  BY <1>1, LiveRefs DEF CallTypes
<1>4. fn[t] \in ByRelease => read = made[t]
  <2>1. fn[t] \in ByRelease => Ends(t, out[t])
    BY <1>1, <1>2 DEF Stage
  <2> QED
    BY <2>1, NoRefAssumption DEF Ends, Carries
<1> HIDE DEF read
<1>5. \A r \in Refs : refs'[r] = IF r \in OfFrame(t) THEN Dead ELSE refs[r]
  BY <1>2
<1>6. CallTypes'
  BY <1>1, <1>2, <1>3 DEF CallTypes
<1>7. TypeOK'
  BY <1>1, <1>2 DEF TypeOK
<1>8. ReleasedIsLive'
  <2>1. \A u \in Threads : got'[u] = IF u = t THEN <<fn[t], made[t], read>> ELSE got[u]
    BY <1>1, <1>2 DEF CallTypes
  <2> QED
    BY <1>1, <1>4, <2>1 DEF ReleasedIsLive
<1>9. \A u \in Threads : /\ at'[u] = (IF u = t THEN "java" ELSE at[u])
                         /\ u # t => fn'[u] = fn[u] /\ made'[u] = made[u] /\ out'[u] = out[u]
  BY <1>1, <1>2 DEF CallTypes
<1>10. Dead.kind = "none"
  BY DEF Dead
<1>11. LooseAreLive'
  <2>1. \A q \in bare \cup args : q \in Refs /\ refs[q].kind = "local"
    BY <1>1 DEF LooseAreLive, TypeOK
  <2>2. \A q \in bare : refs[q].env \in Threads /\ refs[q].env # t /\ q \notin OfFrame(t)
    BY <1>1, <1>2, <2>1, LiveRefs DEF LooseAreLive, OfFrame
  <2> QED
    BY <1>1, <1>2, <1>5, <1>9, <2>1, <2>2 DEF LooseAreLive
<1>12. OfFrame(t)' = {} /\ \A u \in Threads : u # t => OfFrame(u)' = OfFrame(u)
  BY <1>5, <1>10 DEF OfFrame
<1>13. Apart(t)
  <2>1. \A u \in Threads : u # t => \A r \in OfFrame(u) : r \notin OfFrame(t) /\ r \in Refs
    BY DEF OfFrame
  <2> QED
    BY <1>2, <1>5, <1>9, <1>12, <2>1 DEF Apart
<1>14. Stage(t)'
  <2>1. Own(t)' = {}
    BY <1>12
  <2> HIDE DEF Own
  <2> QED
    BY <1>9, <2>1 DEF Stage
<1>15. \A u \in Threads : MemberHolds(u)'
  <2>1. \A r \in Refs : refs[r].kind = "global" => refs'[r] = refs[r]
    BY <1>5 DEF OfFrame
  <2> QED
    BY <1>1, <1>2, <2>1, MembersKept
<1> QED
  BY <1>6, <1>7, <1>8, <1>11, <1>13, <1>14, <1>15, Together

\* A listener dies with its member, whose reference no other member has.
LEMMA FreeListenerKeeps ==
  ASSUME ResultInv, NEW t \in Threads, FreeListener(t)
  PROVE  ResultInv'
<1>1. TypeOK /\ CallTypes /\ LooseAreLive /\ Stage(t) /\ ReleasedIsLive /\ \A u \in Threads : MemberHolds(u)
  BY DEF ResultInv
<1>2. /\ UNCHANGED <<bare, args, fn, at, made, out, got>> /\ at[t] = "java"
      /\ h[Member(t)].cls = "global" /\ h' = [h EXCEPT ![Member(t)] = NoHandle]
      /\ refs' = Delete(refs, obj(Member(t)))
  BY DEF FreeListener, DestructGlobal, IsGlobal, callVars
<1> DEFINE d == obj(Member(t))
<1>3. d \in Refs /\ refs[d].kind = "global"
  BY <1>1, <1>2 DEF MemberHolds
<1>4. \A u \in Threads : u # t => obj(Member(u)) # d
  BY <1>1, <1>2 DEF MemberHolds
<1>5. refs' = Delete(refs, d)
  BY <1>2
<1> HIDE DEF d
<1>6. \A r \in Refs : refs'[r] = IF r = d THEN Dead ELSE refs[r]
  BY <1>1, <1>3, <1>5, NoRefAssumption DEF TypeOK, Delete
<1>7. \A x \in Handles : h'[x] = IF x = Member(t) THEN NoHandle ELSE h[x]
  BY <1>1, <1>2 DEF TypeOK
<1>8. TypeOK' /\ CallTypes' /\ ReleasedIsLive'
  <2>1. TypeOK'
    BY <1>1, <1>2, <1>3, <1>5 DEF TypeOK, NoHandle, Delete
  <2>2. CallTypes'
    BY <1>1, <1>2 DEF CallTypes
  <2> QED
    BY <1>1, <1>2, <2>1, <2>2 DEF ReleasedIsLive
<1>9. Dead.kind = "none"
  BY DEF Dead
<1>10. \A u \in Threads : OfFrame(u)' = OfFrame(u) /\ d \notin OfFrame(u)
  BY <1>3, <1>6, <1>9 DEF OfFrame
<1>11. LooseAreLive'
  <2>1. \A q \in bare \cup args : q \in Refs /\ refs[q].kind = "local" /\ q # d
    BY <1>1, <1>3 DEF LooseAreLive, TypeOK
  <2> QED
    BY <1>1, <1>2, <1>6, <2>1 DEF LooseAreLive
<1>12. Apart(t)
  <2>1. \A u \in Threads : JResult(u) # Member(t) /\ Ret(u) # Member(t)
    BY DEF JResult, Ret, Member
  <2>2. \A u \in Threads : h'[JResult(u)] = h[JResult(u)] /\ h'[Ret(u)] = h[Ret(u)]
    BY <1>7, <2>1, StackHandles
  <2>3. \A u \in Threads : \A r \in OfFrame(u) : refs'[r] = refs[r]
    BY <1>6, <1>10 DEF OfFrame
  <2> QED
    BY <1>2, <1>10, <2>2, <2>3 DEF Apart
<1>13. Stage(t)'
  <2>1. Own(t)' = {}
    BY <1>1, <1>2, <1>10 DEF Stage
  <2> HIDE DEF Own
  <2> QED
    BY <1>2, <2>1 DEF Stage
<1>14. \A u \in Threads : MemberHolds(u)'
  <2>1. \A u \in Threads : u # t => Member(u) # Member(t)
    BY DEF Member
  <2>2. \A u \in Threads : u # t => h'[Member(u)] = h[Member(u)]
    BY <1>7, <2>1, StackHandles
  <2>3. h'[Member(t)].cls = "none" /\ h'[Member(t)].obj_ = NoRef
    BY <1>7, StackHandles DEF NoHandle
  <2>4. MemberHolds(t)'
    BY <2>3 DEF MemberHolds
  <2>5. ASSUME NEW u \in Threads, u # t PROVE MemberHolds(u)'
    <3>1. MemberHolds(u) /\ h'[Member(u)] = h[Member(u)] /\ obj(Member(u)) # d
      BY <1>1, <1>4, <2>2, <2>5
    <3>2. obj(Member(u)) \in Refs => refs'[obj(Member(u))] = refs[obj(Member(u))]
      BY <1>6, <3>1
    <3> QED
      BY <2>2, <2>3, <3>1, <3>2, NoRefAssumption DEF MemberHolds
  <2> QED
    BY <2>4, <2>5
<1> QED
  BY <1>8, <1>11, <1>12, <1>13, <1>14, Together

\* The invariant of the native methods is inductive.
LEMMA ResultInductive == ResultInv /\ [ResultNext]_allVars => ResultInv'
<1> SUFFICES ASSUME ResultInv, [ResultNext]_allVars PROVE ResultInv'
  OBVIOUS
<1>1. CASE UNCHANGED allVars
  <2>1. UNCHANGED <<refs, h, bare, args, fn, at, made, out, got>>
    BY <1>1 DEF allVars, vars, callVars
  <2>2. TypeOK' /\ CallTypes' /\ LooseAreLive' /\ ReleasedIsLive'
    BY <2>1 DEF ResultInv, TypeOK, CallTypes, LooseAreLive, ReleasedIsLive
  <2>3. \A u \in Threads : MemberHolds(u)'
    BY <2>1 DEF ResultInv, MemberHolds
  <2>4. ASSUME NEW u \in Threads PROVE Stage(u)'
    <3>1. Stage(u)
      BY DEF ResultInv
    <3>2. /\ Own(u)' = Own(u)
          /\ \A r : Carries(u, r)' <=> Carries(u, r)
          /\ \A r : Ends(u, r)' <=> Ends(u, r)
      BY <2>1, SameCarries
    <3> HIDE DEF Own
    <3> QED
      BY <2>1, <3>1, <3>2 DEF Stage
  <2> QED
    BY <2>2, <2>3, <2>4 DEF ResultInv
<1>2. ASSUME NEW t \in Threads, Step(t) PROVE ResultInv'
  BY <1>2, CallKeeps, StubKeeps, NativeToJavaKeeps, JResultAdoptsKeeps, SetJTransportKeeps, ReturnReleasedKeeps,
     ReturnObjKeeps, ReturnNullKeeps, UnwindKeeps, StubReleasesKeeps, LeaveKeeps, FreeListenerKeeps DEF Step
<1> QED
  BY <1>1, <1>2 DEF ResultNext

\* At first no method runs and every handle is free.
LEMMA ResultInitInv == ResultInit => ResultInv
<1> SUFFICES ASSUME ResultInit PROVE ResultInv
  OBVIOUS
<1>1. Init /\ TypeOK
  BY InitInv DEF ResultInit, Inv
<1>2. CallTypes /\ LooseAreLive /\ ReleasedIsLive
  BY <1>1 DEF ResultInit, Init, CallTypes, LooseAreLive, ReleasedIsLive
<1>3. \A t \in Threads : OfFrame(t) = {}
  BY <1>1 DEF Init, OfFrame, Dead
<1>4. \A t \in Threads : Stage(t)
  BY <1>3 DEF ResultInit, Stage
<1>5. \A t \in Threads : MemberHolds(t)
  BY <1>1, StackHandles DEF Init, MemberHolds, NoHandle
<1> QED
  BY <1>1, <1>2, <1>4, <1>5 DEF ResultInv

\* ResultInv at all times.
LEMMA ResultInvHolds == ResultSpec => []ResultInv
BY ResultInitInv, ResultInductive, PTL DEF ResultSpec

\* What a method returns by Release() reaches Java: the reference the stub hands over is still
\* the made object's when the JVM reads it (the generated stubs, ScopedJavaLocalRef::Release).
THEOREM ReleasedReachesJava == ResultSpec => []ReleasedIsLive
<1>1. ResultInv => ReleasedIsLive
  BY DEF ResultInv
<1> QED
  BY <1>1, ResultInvHolds, PTL

\* A method that returns by Release() leaves its argument and its result in the frame and
\* nothing else (the destructors of the function's handles).
THEOREM FramesAreClean == ResultSpec => []FrameIsClean
<1>1. ResultInv => FrameIsClean
  <2> SUFFICES ASSUME ResultInv, NEW t \in Threads, at[t] = "leave", fn[t] \in ByRelease
               PROVE  Cardinality(OfFrame(t) \ args) = (IF made[t] = Nil THEN 0 ELSE 1)
    BY DEF FrameIsClean
  <2>1. Ends(t, out[t])
    BY DEF ResultInv, Stage
  <2>2. CASE made[t] = Nil
    BY <2>1, <2>2, FS_EmptySet DEF Ends
  <2>3. CASE made[t] # Nil
    BY <2>1, <2>3, FS_Singleton DEF Ends, Carries
  <2> QED
    BY <2>2, <2>3
<1> QED
  BY <1>1, ResultInvHolds, PTL

\* A listener's j_transport_ designates an object until the listener is deleted, whatever frames
\* end in between (SetJTransport makes a global reference).
THEOREM MembersOutliveFrames == ResultSpec => []MembersAreLive
<1>1. ResultInv => MembersAreLive
  <2> SUFFICES ASSUME ResultInv, NEW t \in Threads, ~IsFree(Member(t))
               PROVE  Designates(Member(t)) \in Objects
    BY DEF MembersAreLive
  <2>1. obj(Member(t)) \in Refs /\ refs[obj(Member(t))].kind = "global" /\ TypeOK
    BY DEF ResultInv, MemberHolds
  <2> QED
    BY <2>1, LiveRefs, NoRefAssumption DEF Designates
<1> QED
  BY <1>1, ResultInvHolds, PTL
=============================================================================
