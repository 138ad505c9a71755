----------------------------- MODULE JniResults -----------------------------
(***************************************************************************)
(* How a native method hands a Java object to Java, with the reference      *)
(* classes of ScopedJavaRef. The generated stub wraps its arguments and     *)
(* calls the JNI_ function, which gets a local reference in j_result and    *)
(* returns another handle: most functions build it from j_result.Release(), *)
(* four functions of the PeerConnection from j_result.obj(). The stub       *)
(* Release()s the returned handle and the JVM reads the bare reference.     *)
(***************************************************************************)
EXTENDS ScopedJavaRef

VARIABLES
  fn,      \* thread -> the native method it is in
  at,      \* thread -> what it does next
  made,    \* thread -> the object the method is to return, or Nil
  out,     \* thread -> the bare reference the stub returns
  got      \* thread -> what Java received, and from which method

callVars == <<fn, at, made, out, got>>
allVars  == <<vars, callVars>>

ByRelease == {"NativeToJavaString", "NativeToJavaTransport"}
ByObj     == {"GetSenders", "GetTransceivers", "AddTransceiver"}

\* The stack variables of a method, and the member of the listener it fills.
Caller(t)  == <<t, "jcaller">>
JResult(t) == <<t, "j_result">>
Ret(t)     == <<t, "ret">>
Member(t)  == <<t, "j_transport_">>

ASSUME HandlesAssumption ==
  Handles = Threads \X {"jcaller", "j_result", "ret", "j_transport_"}

ResultInit ==
  /\ Init
  /\ fn = [t \in Threads |-> "none"] /\ at = [t \in Threads |-> "java"]
  /\ made = [t \in Threads |-> Nil] /\ out = [t \in Threads |-> NoRef]
  /\ got = [t \in Threads |-> <<"none", Nil, Nil>>]

Goto(t, l) == at' = [at EXCEPT ![t] = l]

-----------------------------------------------------------------------------
(***************************************************************************)
(* The stub and the JNI_ function                                           *)
(***************************************************************************)
\* Java calls the method on o.
Call(t, f, o) ==
  /\ at[t] = "java" /\ (f = "NativeToJavaTransport" => IsFree(Member(t)))
  /\ fn' = [fn EXCEPT ![t] = f] /\ Goto(t, "stub")
  /\ EnterNative(t, o)
  /\ UNCHANGED <<made, out, got>>

Stub(t) ==
  /\ at[t] = "stub" /\ Goto(t, "body")
  /\ ConstructParam(t, Caller(t)) /\ h'[Caller(t)].obj_ # NoRef
  /\ UNCHANGED <<fn, made, out, got>>

\* webrtc::NativeToJava*, or a Java constructor: a new local reference to o.
NativeToJava(t, o) ==
  /\ at[t] = "body" /\ Goto(t, "adopt")
  /\ JniResult(t, o)
  /\ made' = [made EXCEPT ![t] = o]
  /\ UNCHANGED <<fn, out, got>>

JResultAdopts(t) ==
  /\ at[t] = "adopt" /\ Goto(t, IF fn[t] = "NativeToJavaTransport" THEN "set" ELSE "return")
  /\ \E r \in Refs : Adopt(t, JResult(t), r)
  /\ UNCHANGED <<fn, made, out, got>>

\* listener->SetJTransport(env, j_transport): the member, null since the listener was made, is
\* Reset to a new global reference.
SetJTransport(t) ==
  /\ at[t] = "set" /\ Goto(t, "return")
  /\ ConvertToGlobal(t, Member(t), JResult(t))
  /\ UNCHANGED <<fn, made, out, got>>

\* return ScopedJavaLocalRef<T>(env, j_result.Release())
\* Mutant: j_result is not released.
ReturnWithoutRelease(t) ==
  /\ at[t] = "return" /\ fn[t] \in ByRelease /\ Goto(t, "unwind")
  /\ h' = [h EXCEPT ![Ret(t)] = Handle("local", obj(JResult(t)), t, t)]
  /\ UNCHANGED <<refs, bare, args, fn, made, out, got>>
ReturnReleased(t) ==
  /\ at[t] = "return" /\ fn[t] \in ByRelease /\ Goto(t, "unwind")
  /\ h' = [h EXCEPT ![Ret(t)] = Handle("local", obj(JResult(t)), t, t),
                    ![JResult(t)].obj_ = NoRef]
  /\ UNCHANGED <<refs, bare, args, fn, made, out, got>>

\* return ScopedJavaLocalRef<jobject>(env, j_result.obj())
ReturnObj(t) ==
  /\ at[t] = "return" /\ fn[t] \in ByObj /\ Goto(t, "unwind")
  /\ h' = [h EXCEPT ![Ret(t)] = Handle("local", obj(JResult(t)), t, t)]
  /\ UNCHANGED <<refs, bare, args, fn, made, out, got>>

\* The native call failed: return nullptr.
ReturnNull(t) ==
  /\ at[t] = "body" /\ fn[t] \in {"AddTransceiver", "NativeToJavaString"} /\ Goto(t, "release")
  /\ ConstructLocalNull(t, Ret(t))
  /\ made' = [made EXCEPT ![t] = Nil]
  /\ UNCHANGED <<fn, out, got>>

\* The function's variables are destroyed.
Unwind(t) ==
  /\ at[t] = "unwind" /\ Goto(t, "release")
  /\ DestructLocal(t, JResult(t))
  /\ UNCHANGED <<fn, made, out, got>>

\* The stub's .Release() of the returned handle, which is then destroyed with the wrapped
\* arguments.
\* Mutant: the handle is destroyed with its reference and obj() is returned.
StubReturnsObj(t) ==
  /\ at[t] = "release" /\ Goto(t, "leave")
  /\ out' = [out EXCEPT ![t] = obj(Ret(t))]
  /\ refs' = Delete(refs, obj(Ret(t)))
  /\ h' = [h EXCEPT ![Ret(t)] = NoHandle, ![Caller(t)] = NoHandle]
  /\ UNCHANGED <<bare, args, fn, made, got>>
StubReleases(t) ==
  /\ at[t] = "release" /\ Goto(t, "leave")
  /\ out' = [out EXCEPT ![t] = obj(Ret(t))]
  /\ h' = [h EXCEPT ![Ret(t)] = NoHandle, ![Caller(t)] = NoHandle]
  /\ UNCHANGED <<refs, bare, args, fn, made, got>>

\* The JVM reads the returned reference and frees the frame's local references.
Leave(t) ==
  /\ at[t] = "leave" /\ Goto(t, "java")
  /\ got' = [got EXCEPT ![t] =
       <<fn[t], made[t], IF out[t] = NoRef THEN Nil ELSE refs[out[t]].obj>>]
  /\ fn' = [fn EXCEPT ![t] = "none"] /\ out' = [out EXCEPT ![t] = NoRef]
  /\ made' = [made EXCEPT ![t] = Nil]
  /\ refs' = [r \in Refs |-> IF r \in OfFrame(t) THEN Dead ELSE refs[r]]
  /\ args' = args \ OfFrame(t)
  /\ UNCHANGED <<h, bare>>

\* The listener is deleted, and its member with it.
FreeListener(t) ==
  /\ at[t] = "java" /\ DestructGlobal(Member(t))
  /\ UNCHANGED callVars

-----------------------------------------------------------------------------
Step(t) ==
  \/ \E f \in ByRelease \cup ByObj, o \in Objects : Call(t, f, o)
  \/ Stub(t)
  \/ \E o \in Objects : NativeToJava(t, o)
  \/ JResultAdopts(t) \/ SetJTransport(t)
  \/ ReturnReleased(t) \/ ReturnObj(t) \/ ReturnNull(t)
  \/ Unwind(t) \/ StubReleases(t) \/ Leave(t) \/ FreeListener(t)

ResultNext == \E t \in Threads : Step(t)

ResultSpec == ResultInit /\ [][ResultNext]_allVars

-----------------------------------------------------------------------------
(***************************************************************************)
(* Properties                                                               *)
(***************************************************************************)
\* Java receives the object the method made: the reference it is given is still that
\* object's when the JVM reads it (the comments of ScopedJavaLocalRef on ownership).
ReturnedIsLive == \A t \in Threads : got[t][3] = got[t][2]

\* The same of the methods that Release() what they return, whatever the others free.
ReleasedIsLive == \A t \in Threads : got[t][1] \in ByRelease => got[t][3] = got[t][2]

\* When such a method returns, the frame holds its argument and its result and nothing else:
\* every other local reference was deleted by a handle.
FrameIsClean ==
  \A t \in Threads : at[t] = "leave" /\ fn[t] \in ByRelease =>
    Cardinality(OfFrame(t) \ args) = (IF made[t] = Nil THEN 0 ELSE 1)

\* A listener's member outlives the frame: it designates an object until the listener dies.
MembersAreLive == \A t \in Threads : ~IsFree(Member(t)) => Designates(Member(t)) \in Objects
=============================================================================
