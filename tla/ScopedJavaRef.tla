--------------------------- MODULE ScopedJavaRef ---------------------------
(***************************************************************************)
(* The reference classes of the JNI layer over the JVM's reference table.   *)
(* A slot of the table is dead, a local reference of one thread or a global *)
(* reference. JavaParamRef looks at a reference Java owns; ScopedJavaLocal- *)
(* Ref and ScopedJavaGlobalRef own theirs. Between them, C++ holds the bare *)
(* references JNI functions return and Release() hands out.                 *)
(*                                                                          *)
(* Slots are used again, as the JVM does. A handle on the stack belongs to  *)
(* the thread `on`; a global handle may be used by every thread.            *)
(***************************************************************************)
EXTENDS FiniteSets

CONSTANTS
  Threads,
  Handles,      \* the C++ variables
  Objects,      \* Java objects
  Refs,         \* bound: slots of the reference table
  NoRef,        \* nullptr
  NoEnv,        \* a null JNIEnv*, or no thread
  Nil,          \* Java null
  OutOfScope    \* what a variable that does not exist designates

ASSUME NoRefAssumption == NoRef \notin Refs
ASSUME NoEnvAssumption == NoEnv \notin Threads
ASSUME NilAssumption == Nil \notin Objects
ASSUME OutOfScopeAssumption == OutOfScope \notin Objects \cup {Nil}

VARIABLES
  refs,     \* slot -> the reference in it
  h,        \* handle -> its class, obj_, env_ and thread
  bare,     \* references held by C++ code outside a handle
  args      \* references Java passed as parameters

vars == <<refs, h, bare, args>>

Dead == [kind |-> "none", obj |-> Nil, env |-> NoEnv]
Ref(c, o, e) == [kind |-> c, obj |-> o, env |-> e]

NoHandle  == [cls |-> "none", obj_ |-> NoRef, env_ |-> NoEnv, on |-> NoEnv]
Handle(c, r, e, t) == [cls |-> c, obj_ |-> r, env_ |-> e, on |-> t]

Init ==
  /\ refs = [r \in Refs |-> Dead]
  /\ h = [x \in Handles |-> NoHandle]
  /\ bare = {} /\ args = {}

-----------------------------------------------------------------------------
(***************************************************************************)
(* JavaRef<jobject>, the base of the three classes.                         *)
(***************************************************************************)
IsFree(x) == h[x].cls = "none"

obj(x) == h[x].obj_

\* Thread t can name x: it is on t's stack, or global.
Names(t, x) == ~IsFree(x) /\ (h[x].on = t \/ h[x].cls = "global")

Delete(table, r) == IF r = NoRef THEN table ELSE [table EXCEPT ![r] = Dead]

\* x becomes a handle of class c to a new reference, or null when r is; what it referred
\* to is deleted. The new reference is made first, so r may be the one that is deleted.
SetNewRef(x, r, c, e, t) ==
  \/ /\ r # NoRef
     /\ \E n \in Refs : /\ refs[n] = Dead
                        /\ refs' = Delete([refs EXCEPT ![n] = Ref(c, refs[r].obj, e)], obj(x))
                        /\ h' = [h EXCEPT ![x] = Handle(c, n, e, t)]
  \/ r = NoRef /\ refs' = Delete(refs, obj(x)) /\ h' = [h EXCEPT ![x] = Handle(c, NoRef, e, t)]

\* A null env is replaced by the calling thread's.
SetNewLocalRef(t, x, env, r) ==
  SetNewRef(x, r, "local", IF env = NoEnv THEN t ELSE env, t)

\* Mutant: a local reference is made for the global handle.
SetNewLocalForGlobal(t, x, r) ==
  /\ r # NoRef
  /\ \E n \in Refs : /\ refs[n] = Dead
                     /\ refs' = Delete([refs EXCEPT ![n] = Ref("local", refs[r].obj, t)], obj(x))
                     /\ h' = [h EXCEPT ![x] = Handle("global", n, NoEnv, NoEnv)]
SetNewGlobalRef(t, x, r) == SetNewRef(x, r, "global", NoEnv, NoEnv)

\* Mutant: the reference is dropped and not deleted.
DropLocalRef(x) == h' = [h EXCEPT ![x].obj_ = NoRef] /\ UNCHANGED refs
ResetLocalRef(x) == h' = [h EXCEPT ![x].obj_ = NoRef] /\ refs' = Delete(refs, obj(x))

ResetGlobalRef(x) == h' = [h EXCEPT ![x].obj_ = NoRef] /\ refs' = Delete(refs, obj(x))

\* x takes what y holds, and y becomes null.
\* Mutant: y keeps it.
StealAndKeep(x, handle, y) == h' = [h EXCEPT ![x] = [handle EXCEPT !.obj_ = obj(y)]] /\ UNCHANGED refs
Steal(x, handle, y) ==
  /\ h' = [h EXCEPT ![x] = [handle EXCEPT !.obj_ = obj(y)], ![y].obj_ = NoRef]
  /\ UNCHANGED refs

\* The caller gets the reference and x becomes null.
ReleaseInternal(x) ==
  /\ bare' = bare \cup ({obj(x)} \ {NoRef})
  /\ h' = [h EXCEPT ![x].obj_ = NoRef]
  /\ UNCHANGED <<refs, args>>

-----------------------------------------------------------------------------
(***************************************************************************)
(* JavaParamRef: a view of a parameter. It never deletes.                   *)
(***************************************************************************)
ConstructParam(t, x) ==
  /\ IsFree(x)
  /\ \E r \in {a \in args : refs[a].env = t} \cup {NoRef} :
       h' = [h EXCEPT ![x] = Handle("param", r, NoEnv, t)]
  /\ UNCHANGED <<refs, bare, args>>

\* Mutant: a parameter is deleted like a local reference.
DestructParamDeleting(t, x) ==
  /\ h[x].cls = "param" /\ h[x].on = t
  /\ h' = [h EXCEPT ![x] = NoHandle] /\ refs' = Delete(refs, obj(x))
  /\ UNCHANGED <<bare, args>>
DestructParam(t, x) ==
  /\ h[x].cls = "param" /\ h[x].on = t
  /\ h' = [h EXCEPT ![x] = NoHandle]
  /\ UNCHANGED <<refs, bare, args>>

-----------------------------------------------------------------------------
(***************************************************************************)
(* ScopedJavaLocalRef                                                       *)
(***************************************************************************)
IsLocal(t, x) == h[x].cls = "local" /\ h[x].on = t

ConstructLocalNull(t, x) ==
  /\ IsFree(x)
  /\ h' = [h EXCEPT ![x] = Handle("local", NoRef, NoEnv, t)]
  /\ UNCHANGED <<refs, bare, args>>

\* Takes ownership of a bare local reference of this thread.
ConstructLocalOwning(t, x, r) ==
  /\ IsFree(x) /\ r \in bare /\ refs[r].kind = "local" /\ refs[r].env = t
  /\ h' = [h EXCEPT ![x] = Handle("local", r, t, t)]
  /\ bare' = bare \ {r}
  /\ UNCHANGED <<refs, args>>

Adopt(t, x, r) == ConstructLocalOwning(t, x, r)

\* env_ is the other's, which is null only for a null handle.
CopyLocal(t, x, y) ==
  /\ IsFree(x) /\ IsLocal(t, y)
  /\ SetNewRef(x, obj(y), "local", h[y].env_, t)
  /\ UNCHANGED <<bare, args>>

MoveLocal(t, x, y) ==
  /\ IsFree(x) /\ IsLocal(t, y)
  /\ Steal(x, Handle("local", NoRef, h[y].env_, t), y)
  /\ UNCHANGED <<bare, args>>

\* From a JavaRef of another class.
ConvertToLocal(t, x, y) ==
  /\ IsFree(x) /\ Names(t, y)
  /\ SetNewLocalRef(t, x, NoEnv, obj(y))
  /\ UNCHANGED <<bare, args>>

ResetLocal(t, x) == IsLocal(t, x) /\ ResetLocalRef(x) /\ UNCHANGED <<bare, args>>

DestructLocal(t, x) ==
  /\ IsLocal(t, x)
  /\ h' = [h EXCEPT ![x] = NoHandle] /\ refs' = Delete(refs, obj(x))
  /\ UNCHANGED <<bare, args>>

AssignNullToLocal(t, x) == ResetLocal(t, x)

ResetLocalTo(t, x, y) ==
  /\ IsLocal(t, x) /\ Names(t, y)
  /\ SetNewLocalRef(t, x, h[x].env_, obj(y))
  /\ UNCHANGED <<bare, args>>

AssignToLocal(t, x, y) == ResetLocalTo(t, x, y)

ReleaseLocal(t, x) == IsLocal(t, x) /\ ReleaseInternal(x)

-----------------------------------------------------------------------------
(***************************************************************************)
(* ScopedJavaGlobalRef                                                      *)
(***************************************************************************)
IsGlobal(x) == h[x].cls = "global"

ConstructGlobalNull(x) ==
  /\ IsFree(x)
  /\ h' = [h EXCEPT ![x] = Handle("global", NoRef, NoEnv, NoEnv)]
  /\ UNCHANGED <<refs, bare, args>>

CopyGlobal(t, x, y) ==
  /\ IsFree(x) /\ IsGlobal(y)
  /\ SetNewGlobalRef(t, x, obj(y))
  /\ UNCHANGED <<bare, args>>

MoveGlobal(x, y) ==
  /\ IsFree(x) /\ IsGlobal(y)
  /\ Steal(x, Handle("global", NoRef, NoEnv, NoEnv), y)
  /\ UNCHANGED <<bare, args>>

ConvertToGlobal(t, x, y) ==
  /\ IsFree(x) /\ Names(t, y)
  /\ SetNewGlobalRef(t, x, obj(y))
  /\ UNCHANGED <<bare, args>>

\* From a bare reference, which stays the caller's.
ConstructGlobal(t, x, r) ==
  /\ IsFree(x) /\ r \in bare /\ refs[r].env \in {t, NoEnv}
  /\ SetNewGlobalRef(t, x, r)
  /\ UNCHANGED <<bare, args>>

ResetGlobal(x) == IsGlobal(x) /\ ResetGlobalRef(x) /\ UNCHANGED <<bare, args>>

DestructGlobal(x) ==
  /\ IsGlobal(x)
  /\ h' = [h EXCEPT ![x] = NoHandle] /\ refs' = Delete(refs, obj(x))
  /\ UNCHANGED <<bare, args>>

AssignNullToGlobal(x) == ResetGlobal(x)

ResetGlobalTo(t, x, y) ==
  /\ IsGlobal(x) /\ Names(t, y)
  /\ SetNewGlobalRef(t, x, obj(y))
  /\ UNCHANGED <<bare, args>>

AssignToGlobal(t, x, y) == ResetGlobalTo(t, x, y)

ReleaseGlobal(x) == IsGlobal(x) /\ ReleaseInternal(x)

-----------------------------------------------------------------------------
(***************************************************************************)
(* The JVM and the code around the classes.                                 *)
(***************************************************************************)
\* A JNI function returns a new local reference.
JniResult(t, o) ==
  /\ \E n \in Refs : refs[n] = Dead /\ refs' = [refs EXCEPT ![n] = Ref("local", o, t)] /\ bare' = bare \cup {n}
  /\ UNCHANGED <<h, args>>

\* Java calls a native method with a parameter.
EnterNative(t, o) ==
  /\ \E n \in Refs : refs[n] = Dead /\ refs' = [refs EXCEPT ![n] = Ref("local", o, t)] /\ args' = args \cup {n}
  /\ UNCHANGED <<h, bare>>

OfFrame(t) == {r \in Refs : refs[r].kind = "local" /\ refs[r].env = t}

\* The native method returns, its variables gone: the JVM frees the thread's local references.
LeaveNative(t) ==
  /\ \A x \in Handles : h[x].on # t
  /\ OfFrame(t) # {}
  /\ refs' = [r \in Refs |-> IF r \in OfFrame(t) THEN Dead ELSE refs[r]]
  /\ bare' = bare \ OfFrame(t) /\ args' = args \ OfFrame(t)
  /\ UNCHANGED h

\* "The caller *must* delete the reference when it is done with it."
DeleteBare(t, r) ==
  /\ r \in bare /\ refs[r].env \in {t, NoEnv}
  /\ refs' = Delete(refs, r) /\ bare' = bare \ {r}
  /\ UNCHANGED <<h, args>>

-----------------------------------------------------------------------------
Jvm(t) ==
  \/ \E o \in Objects : JniResult(t, o) \/ EnterNative(t, o)
  \/ \E r \in Refs : DeleteBare(t, r)
  \/ LeaveNative(t)

Construct(t, x) ==
  \/ ConstructParam(t, x) \/ ConstructLocalNull(t, x) \/ ConstructGlobalNull(x)
  \/ \E r \in Refs : Adopt(t, x, r) \/ ConstructGlobal(t, x, r)
  \/ \E y \in Handles :
       \/ CopyLocal(t, x, y) \/ MoveLocal(t, x, y) \/ ConvertToLocal(t, x, y)
       \/ CopyGlobal(t, x, y) \/ MoveGlobal(x, y) \/ ConvertToGlobal(t, x, y)

Use(t, x) ==
  \/ AssignNullToLocal(t, x) \/ ReleaseLocal(t, x) \/ DestructLocal(t, x)
  \/ AssignNullToGlobal(x) \/ ReleaseGlobal(x) \/ DestructGlobal(x)
  \/ DestructParam(t, x)
  \/ \E y \in Handles : AssignToLocal(t, x, y) \/ AssignToGlobal(t, x, y)

Next == \E t \in Threads : Jvm(t) \/ \E x \in Handles : Construct(t, x) \/ Use(t, x)

Spec == Init /\ [][Next]_vars

-----------------------------------------------------------------------------
(***************************************************************************)
(* Properties                                                               *)
(***************************************************************************)
\* Type correctness.
TypeOK ==
  /\ refs \in [Refs -> {Dead} \cup [kind : {"local"}, obj : Objects, env : Threads]
                              \cup [kind : {"global"}, obj : Objects, env : {NoEnv}]]
  /\ h \in [Handles -> [cls : {"none", "param", "local", "global"}, obj_ : Refs \cup {NoRef},
                        env_ : Threads \cup {NoEnv}, on : Threads \cup {NoEnv}]]
  /\ bare \subseteq Refs /\ args \subseteq Refs

Owns(x, r) == h[x].cls \in {"local", "global"} /\ obj(x) = r

\* A reference has one owner: no two handles would delete it, and none that the caller or
\* Java will delete is owned by a handle (steal, Adopt, Release and their nulling of obj_).
OneOwner ==
  \A r \in Refs :
    /\ \A x, y \in Handles : Owns(x, r) /\ Owns(y, r) => x = y
    /\ r \in bare => r \notin args
    /\ (\E x \in Handles : Owns(x, r)) => r \notin bare \cup args

\* Every live reference has an owner and every owned one is live: nothing leaks, and no
\* handle, caller or parameter dangles (SetNew*Ref, Reset*Ref, the destructors).
LiveIffHeld ==
  \A r \in Refs : refs[r] # Dead <=> r \in bare \cup args \/ \E x \in Handles : Owns(x, r)

\* env_ of a local handle is its own thread's, or not set yet.
KeepsItsThread == \A x \in Handles : h[x].cls = "local" => h[x].env_ \in {h[x].on, NoEnv}

\* What a handle owns is of its class, so it is deleted by the right JNI function, and a
\* local one belongs to the thread and env_ the handle uses; a parameter's is still Java's.
OwnsItsKind ==
  /\ KeepsItsThread
  /\ \A x \in Handles : obj(x) # NoRef =>
       \/ h[x].cls = "global" /\ refs[obj(x)].kind = "global"
       \/ h[x].cls = "local" /\ refs[obj(x)].kind = "local"
          /\ refs[obj(x)].env = h[x].on /\ h[x].env_ = h[x].on
       \/ h[x].cls = "param" /\ obj(x) \in args /\ refs[obj(x)].env = h[x].on

\* The handles are variables that hold Java objects: an operation on one never changes
\* what another designates, except that a move nulls its source.
Designates(x) ==
  IF IsFree(x) THEN OutOfScope ELSE IF obj(x) = NoRef THEN Nil ELSE refs[obj(x)].obj

Values == INSTANCE JavaValues
            WITH val <- [x \in Handles |-> Designates(x)],
                 loose <- {refs[r].obj : r \in bare \cup args}

HandlesAreVariables == Values!Spec
=============================================================================
