------------------------------ MODULE LazyIds ------------------------------
(***************************************************************************)
(* A call from C++ to Java, as the generated headers make it: the class and *)
(* the method id are looked up on first use and kept in atomic cells that   *)
(* every thread reads, the method is called, and the destructor of the call *)
(* context ends the process if Java threw.                                  *)
(*                                                                          *)
(* The class is kept as a global reference. Two threads may both look it up *)
(* and each makes a reference of its own, named here by its thread; only    *)
(* one is stored.                                                           *)
(***************************************************************************)
EXTENDS FiniteSets

CONSTANTS
  Threads,
  Methods,       \* the Java methods called from C++
  Classes,
  ClassOf,       \* method -> its class
  Unset          \* nullptr

ASSUME ClassOfAssumption == ClassOf \in [Methods -> Classes]
ASSUME UnsetAssumption == Unset \notin Threads \cup Methods

VARIABLES
  atomic_class_id,     \* class -> Unset, or the thread whose global reference it holds
  atomic_method_id,    \* method -> has its id been stored
  globals,             \* the global references to classes that exist
  at,                  \* thread -> where it is
  method,              \* thread -> the method it calls
  clazz,               \* thread -> the class reference LazyGetClass returned
  pending,             \* threads with a Java exception pending
  aborted              \* a RTC_CHECK failed: the process is gone

cells == <<atomic_class_id, atomic_method_id>>
vars  == <<cells, globals, at, method, clazz, pending, aborted>>

Init ==
  /\ atomic_class_id = [c \in Classes |-> Unset]
  /\ atomic_method_id = [m \in Methods |-> FALSE]
  /\ globals = {}
  /\ at = [t \in Threads |-> "idle"]
  /\ method = [t \in Threads |-> Unset]
  /\ clazz = [t \in Threads |-> Unset]
  /\ pending = {} /\ aborted = FALSE

Cls(t) == ClassOf[method[t]]

\* Thread t is at l, the process exists, and t goes to n.
Step(t, l, n) == ~aborted /\ at[t] = l /\ at' = [at EXCEPT ![t] = n]

\* A failed RTC_CHECK.
Abort(t, l) ==
  /\ ~aborted /\ at[t] = l /\ aborted' = TRUE
  /\ UNCHANGED <<cells, globals, at, method, clazz, pending>>

-----------------------------------------------------------------------------
(***************************************************************************)
(* LazyGetClass                                                             *)
(***************************************************************************)
Begin(t, m) ==
  /\ Step(t, "idle", "load")
  /\ method' = [method EXCEPT ![t] = m]
  /\ UNCHANGED <<cells, globals, clazz, pending, aborted>>

LoadClass(t) ==
  /\ at[t] = "load"
  /\ IF atomic_class_id[Cls(t)] # Unset
     THEN Step(t, "load", "id") /\ clazz' = [clazz EXCEPT ![t] = atomic_class_id[Cls(t)]]
     ELSE Step(t, "load", "lookup") /\ UNCHANGED clazz
  /\ UNCHANGED <<cells, globals, method, pending, aborted>>

\* GetClass and a ScopedJavaGlobalRef of it; a class that is not found fails the check.
GetClass(t) ==
  /\ Step(t, "lookup", "exchange")
  /\ globals' = globals \cup {<<Cls(t), t>>}
  /\ UNCHANGED <<cells, method, clazz, pending, aborted>>

GetClassFails(t) == Abort(t, "lookup")

\* The reference is stored and released, or another thread's is there already and ours is
\* deleted when clazz goes out of scope.
\* Mutant: a plain store, as if no other thread could have come first.
Store(t) ==
  /\ Step(t, "exchange", "id")
  /\ atomic_class_id' = [atomic_class_id EXCEPT ![Cls(t)] = t]
  /\ clazz' = [clazz EXCEPT ![t] = t]
  /\ UNCHANGED <<atomic_method_id, globals, method, pending, aborted>>
\* Mutant: the loser's reference is released and not deleted.
CompareExchangeLeaking(t) ==
  /\ at[t] = "exchange"
  /\ \/ /\ atomic_class_id[Cls(t)] = Unset
        /\ Step(t, "exchange", "id")
        /\ atomic_class_id' = [atomic_class_id EXCEPT ![Cls(t)] = t]
        /\ clazz' = [clazz EXCEPT ![t] = t]
     \/ /\ atomic_class_id[Cls(t)] # Unset
        /\ Step(t, "exchange", "id")
        /\ clazz' = [clazz EXCEPT ![t] = atomic_class_id[Cls(t)]]
        /\ UNCHANGED atomic_class_id
  /\ UNCHANGED <<atomic_method_id, globals, method, pending, aborted>>
\* Mutant: the winner's reference is deleted too, by a missing Release().
CompareExchangeDropping(t) ==
  /\ Step(t, "exchange", "drop")
  /\ IF atomic_class_id[Cls(t)] = Unset
     THEN /\ atomic_class_id' = [atomic_class_id EXCEPT ![Cls(t)] = t]
          /\ clazz' = [clazz EXCEPT ![t] = t]
     ELSE clazz' = [clazz EXCEPT ![t] = atomic_class_id[Cls(t)]] /\ UNCHANGED atomic_class_id
  /\ UNCHANGED <<atomic_method_id, globals, method, pending, aborted>>
CompareExchange(t) ==
  /\ at[t] = "exchange"
  /\ \/ /\ atomic_class_id[Cls(t)] = Unset
        /\ Step(t, "exchange", "id")
        /\ atomic_class_id' = [atomic_class_id EXCEPT ![Cls(t)] = t]
        /\ clazz' = [clazz EXCEPT ![t] = t]
     \/ /\ atomic_class_id[Cls(t)] # Unset
        /\ Step(t, "exchange", "drop")
        /\ clazz' = [clazz EXCEPT ![t] = atomic_class_id[Cls(t)]]
        /\ UNCHANGED atomic_class_id
  /\ UNCHANGED <<atomic_method_id, globals, method, pending, aborted>>

Drop(t) ==
  /\ Step(t, "drop", "id")
  /\ globals' = globals \ {<<Cls(t), t>>}
  /\ UNCHANGED <<cells, method, clazz, pending, aborted>>

-----------------------------------------------------------------------------
(***************************************************************************)
(* MethodID::LazyGet: the ids are equal, so the cell is simply stored.      *)
(***************************************************************************)
\* Mutant: a thread that finds no id waits for another to store it.
LoadIdWaiting(t) ==
  /\ Step(t, "id", IF atomic_method_id[method[t]] THEN "call" ELSE "id")
  /\ UNCHANGED <<cells, globals, method, clazz, pending, aborted>>
LoadId(t) ==
  /\ Step(t, "id", IF atomic_method_id[method[t]] THEN "call" ELSE "getid")
  /\ UNCHANGED <<cells, globals, method, clazz, pending, aborted>>

GetId(t) ==
  /\ Step(t, "getid", "call")
  /\ atomic_method_id' = [atomic_method_id EXCEPT ![method[t]] = TRUE]
  /\ UNCHANGED <<atomic_class_id, globals, method, clazz, pending, aborted>>

GetIdFails(t) == Abort(t, "getid")

-----------------------------------------------------------------------------
(***************************************************************************)
(* The call, and the destructor of JniJavaCallContextChecked.               *)
(***************************************************************************)
JavaReturns(t) ==
  /\ Step(t, "call", "context")
  /\ UNCHANGED <<cells, globals, method, clazz, pending, aborted>>

JavaThrows(t) ==
  /\ Step(t, "call", "context") /\ pending' = pending \cup {t}
  /\ UNCHANGED <<cells, globals, method, clazz, aborted>>

\* Mutant: JniJavaCallContextUnchecked.
LeaveUnchecked(t) ==
  /\ Step(t, "context", "idle")
  /\ method' = [method EXCEPT ![t] = Unset] /\ clazz' = [clazz EXCEPT ![t] = Unset]
  /\ UNCHANGED <<cells, globals, pending, aborted>>
CheckException(t) ==
  /\ t \notin pending /\ Step(t, "context", "idle")
  /\ method' = [method EXCEPT ![t] = Unset] /\ clazz' = [clazz EXCEPT ![t] = Unset]
  /\ UNCHANGED <<cells, globals, pending, aborted>>

CheckExceptionFails(t) == t \in pending /\ Abort(t, "context")

-----------------------------------------------------------------------------
Proceed(t) ==
  \/ LoadClass(t) \/ GetClass(t) \/ GetClassFails(t) \/ CompareExchange(t) \/ Drop(t)
  \/ LoadId(t) \/ GetId(t) \/ GetIdFails(t)
  \/ JavaReturns(t) \/ JavaThrows(t) \/ CheckException(t) \/ CheckExceptionFails(t)

Next == \E t \in Threads : Proceed(t) \/ \E m \in Methods : Begin(t, m)

\* A thread inside a call goes on; the callbacks of the engine return.
Fairness == \A t \in Threads : WF_vars(Proceed(t))

Spec == Init /\ [][Next]_vars /\ Fairness

-----------------------------------------------------------------------------
(***************************************************************************)
(* Properties                                                               *)
(***************************************************************************)
\* Type correctness.
TypeOK ==
  /\ atomic_class_id \in [Classes -> Threads \cup {Unset}]
  /\ atomic_method_id \in [Methods -> BOOLEAN]
  /\ globals \subseteq Classes \X Threads
  /\ at \in [Threads -> {"idle", "load", "lookup", "exchange", "drop", "id", "getid", "call", "context"}]
  /\ method \in [Threads -> Methods \cup {Unset}]
  /\ \A t \in Threads : at[t] # "idle" => method[t] \in Methods
  /\ clazz \in [Threads -> Threads \cup {Unset}]
  /\ pending \subseteq Threads /\ aborted \in BOOLEAN

HasClass == {"drop", "id", "getid", "call", "context"}

\* Whatever races the lookup lost, a thread that has its class holds the stored one, and
\* nobody has deleted that reference.
ClassIsStored ==
  \A t \in Threads : at[t] \in HasClass =>
    /\ clazz[t] = atomic_class_id[Cls(t)]
    /\ <<Cls(t), clazz[t]>> \in globals

\* "we take care to only store one global reference": besides the stored one, only threads
\* still in LazyGetClass hold a reference, so that none leaks.
OneReferenceIsKept ==
  \A c \in Classes, t \in Threads : <<c, t>> \in globals =>
    atomic_class_id[c] = t \/ (at[t] \in {"exchange", "drop"} /\ Cls(t) = c)

\* Native code never goes on with a Java exception pending: it would be thrown at some later,
\* unrelated JNI call (the destructor of JniJavaCallContextChecked).
NoExceptionEscapes == \A t \in pending : at[t] = "context"

\* The class cells are written once and all threads agree on their value.
ClassCells == INSTANCE OnceCells
                WITH Cells <- Classes, Readers <- Threads, value <- atomic_class_id, read <- clazz

ImplementsOnceCells == ClassCells!Spec

\* Every call into Java ends, or the process does.
CallsEnd == \A t \in Threads : at[t] # "idle" ~> at[t] = "idle" \/ aborted
=============================================================================
