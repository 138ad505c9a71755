--------------------------- MODULE LazyIdsProofs ---------------------------
(***************************************************************************)
(* Proofs about LazyIds, for every set of threads, methods and classes. The *)
(* properties are inductive together with Races, which says that a thread   *)
(* in LazyGetClass is never the one whose reference is stored, and holds    *)
(* the reference it made.                                                   *)
(***************************************************************************)
EXTENDS LazyIds, TLAPS

Races ==
  /\ \A c \in Classes : atomic_class_id[c] # Unset => <<c, atomic_class_id[c]>> \in globals
  /\ \A t \in Threads :
       /\ at[t] \in {"lookup", "exchange", "drop"} => atomic_class_id[Cls(t)] # t
       /\ at[t] \in {"exchange", "drop"} => <<Cls(t), t>> \in globals
       /\ at[t] = "drop" => atomic_class_id[Cls(t)] # Unset

Inv == TypeOK /\ ClassIsStored /\ OneReferenceIsKept /\ NoExceptionEscapes /\ Races

\* A thread inside a call knows its class.
LEMMA ClassOfCall ==
  ASSUME TypeOK, NEW t \in Threads, at[t] # "idle"
  PROVE  method[t] \in Methods /\ Cls(t) \in Classes
  BY ClassOfAssumption DEF TypeOK, Cls

-----------------------------------------------------------------------------
(***************************************************************************)
(* Each step preserves the invariant                                        *)
(***************************************************************************)
\* A call begins.
LEMMA BeginInv == ASSUME Inv, NEW t \in Threads, NEW m \in Methods, Begin(t, m) PROVE Inv'
<1>1. \A u \in Threads : u # t => Cls(u)' = Cls(u)
  BY DEF Begin, Cls, Inv, TypeOK
<1>2. at' \in [Threads -> {"idle", "load", "lookup", "exchange", "drop", "id", "getid", "call", "context"}]
      /\ at'[t] = "load" /\ at[t] = "idle" /\ \A u \in Threads : u # t => at'[u] = at[u]
  BY DEF Begin, Step, Inv, TypeOK
<1>3. TypeOK'
  BY <1>2 DEF Begin, cells, Inv, TypeOK
<1>4. ClassIsStored' /\ Races'
  BY <1>1, <1>2 DEF Begin, cells, Inv, ClassIsStored, Races, HasClass
<1>5. OneReferenceIsKept'
  BY <1>1, <1>2 DEF Begin, cells, Inv, OneReferenceIsKept
<1>6. NoExceptionEscapes'
  BY <1>2 DEF Begin, Inv, NoExceptionEscapes, TypeOK
<1> QED
  BY <1>3, <1>4, <1>5, <1>6 DEF Inv

\* A step that leaves the cells and the references alone and gets no class.
LEMMA MoveInv ==
  ASSUME Inv, NEW t \in Threads, NEW l, NEW n \in {"lookup", "id", "getid", "call", "context"}, Step(t, l, n),
         UNCHANGED <<atomic_class_id, globals, method, clazz, aborted>>,
         atomic_method_id' \in [Methods -> BOOLEAN],
         l # "idle", l # "context", l \in HasClass <=> n \in HasClass,
         n = "lookup" => atomic_class_id[Cls(t)] # t,
         l \notin {"exchange", "drop"},
         pending' = pending \/ (n = "context" /\ pending' = pending \cup {t})
  PROVE  Inv'
<1>1. \A u \in Threads : Cls(u)' = Cls(u)
  BY DEF Cls
<1>2. at' \in [Threads -> {"idle", "load", "lookup", "exchange", "drop", "id", "getid", "call", "context"}]
      /\ at'[t] = n /\ at[t] = l /\ \A u \in Threads : u # t => at'[u] = at[u]
  BY DEF Step, Inv, TypeOK
<1>3. TypeOK'
  BY <1>2 DEF Inv, TypeOK
<1>4. ClassIsStored'
  BY <1>1, <1>2 DEF Inv, ClassIsStored
<1>5. Races'
  BY <1>1, <1>2 DEF Inv, Races
<1>6. OneReferenceIsKept'
  BY <1>1, <1>2 DEF Inv, OneReferenceIsKept
<1>7. NoExceptionEscapes'
  BY <1>2 DEF Inv, NoExceptionEscapes, TypeOK
<1> QED
  BY <1>3, <1>4, <1>5, <1>6, <1>7 DEF Inv

\* The process ends.
LEMMA AbortInv == ASSUME Inv, NEW t \in Threads, NEW l, Abort(t, l) PROVE Inv'
<1>1. \A u \in Threads : Cls(u)' = Cls(u)
  BY DEF Abort, Cls
<1>2. TypeOK'
  BY DEF Abort, cells, Inv, TypeOK
<1> QED
  BY <1>1, <1>2 DEF Abort, cells, Inv, ClassIsStored, OneReferenceIsKept, NoExceptionEscapes, Races

\* The class is read from its cell, by LoadClass or by the thread that lost the exchange.
LEMMA LearnInv ==
  ASSUME Inv, NEW t \in Threads, NEW l \in {"load", "exchange"}, NEW n \in {"id", "drop"}, Step(t, l, n),
         l = "load" <=> n = "id",
         atomic_class_id[Cls(t)] # Unset, clazz' = [clazz EXCEPT ![t] = atomic_class_id[Cls(t)]],
         UNCHANGED <<cells, globals, method, pending, aborted>>
  PROVE  Inv'
<1>1. \A u \in Threads : Cls(u)' = Cls(u)
  BY DEF Cls
<1>2. at' \in [Threads -> {"idle", "load", "lookup", "exchange", "drop", "id", "getid", "call", "context"}]
      /\ at'[t] = n /\ at[t] = l /\ \A u \in Threads : u # t => at'[u] = at[u]
  BY DEF Step, Inv, TypeOK
<1>3. Cls(t) \in Classes
  BY <1>2, ClassOfCall DEF Inv
<1>4. clazz'[t] = atomic_class_id[Cls(t)] /\ \A u \in Threads : u # t => clazz'[u] = clazz[u]
  BY DEF Inv, TypeOK
<1>5. TypeOK'
  BY <1>2, <1>3 DEF cells, Inv, TypeOK
<1>6. ClassIsStored'
  BY <1>1, <1>2, <1>3, <1>4 DEF cells, Inv, ClassIsStored, Races
<1>7. Races'
  BY <1>1, <1>2 DEF cells, Inv, Races
<1>8. OneReferenceIsKept'
  BY <1>1, <1>2 DEF cells, Inv, OneReferenceIsKept
<1>9. NoExceptionEscapes'
  BY <1>2 DEF Inv, NoExceptionEscapes, TypeOK
<1> QED
  BY <1>5, <1>6, <1>7, <1>8, <1>9 DEF Inv

\* A thread makes a reference of its own.
LEMMA GetClassInv == ASSUME Inv, NEW t \in Threads, GetClass(t) PROVE Inv'
<1>1. \A u \in Threads : Cls(u)' = Cls(u)
  BY DEF GetClass, Cls
<1>2. at' \in [Threads -> {"idle", "load", "lookup", "exchange", "drop", "id", "getid", "call", "context"}]
      /\ at'[t] = "exchange" /\ at[t] = "lookup" /\ \A u \in Threads : u # t => at'[u] = at[u]
  BY DEF GetClass, Step, Inv, TypeOK
<1>3. Cls(t) \in Classes
  BY <1>2, ClassOfCall DEF Inv
<1>5. TypeOK'
  BY <1>2, <1>3 DEF GetClass, cells, Inv, TypeOK
<1>6. ClassIsStored'
  BY <1>1, <1>2 DEF GetClass, cells, Inv, ClassIsStored, HasClass
<1>7. Races'
  BY <1>1, <1>2 DEF GetClass, cells, Inv, Races
<1>8. OneReferenceIsKept'
  <2> SUFFICES ASSUME NEW c \in Classes, NEW u \in Threads, <<c, u>> \in globals'
               PROVE  atomic_class_id[c] = u \/ (at'[u] \in {"exchange", "drop"} /\ Cls(u)' = c)
    BY DEF GetClass, cells, OneReferenceIsKept
  <2>1. CASE <<c, u>> \in globals
    BY <1>1, <1>2, <2>1 DEF Inv, OneReferenceIsKept
  <2>2. CASE c = Cls(t) /\ u = t
    BY <1>1, <1>2, <2>2
  <2> QED
    BY <2>1, <2>2 DEF GetClass
<1>9. NoExceptionEscapes'
  BY <1>2 DEF GetClass, Inv, NoExceptionEscapes, TypeOK
<1> QED
  BY <1>5, <1>6, <1>7, <1>8, <1>9 DEF Inv

\* The first thread stores its reference.
LEMMA DecideInv ==
  ASSUME Inv, NEW t \in Threads, Step(t, "exchange", "id"),
         atomic_class_id[Cls(t)] = Unset,
         atomic_class_id' = [atomic_class_id EXCEPT ![Cls(t)] = t],
         clazz' = [clazz EXCEPT ![t] = t],
         UNCHANGED <<atomic_method_id, globals, method, pending, aborted>>
  PROVE  Inv'
<1>1. \A u \in Threads : Cls(u)' = Cls(u)
  BY DEF Cls
<1>2. at' \in [Threads -> {"idle", "load", "lookup", "exchange", "drop", "id", "getid", "call", "context"}]
      /\ at'[t] = "id" /\ at[t] = "exchange" /\ \A u \in Threads : u # t => at'[u] = at[u]
  BY DEF Step, Inv, TypeOK
<1>3. Cls(t) \in Classes /\ \A u \in Threads : at[u] # "idle" => Cls(u) \in Classes
  BY <1>2, ClassOfCall DEF Inv
<1>4. clazz'[t] = t /\ \A u \in Threads : u # t => clazz'[u] = clazz[u]
  BY DEF Inv, TypeOK
<1>5. \A c \in Classes : atomic_class_id'[c] = IF c = Cls(t) THEN t ELSE atomic_class_id[c]
  BY <1>3 DEF Inv, TypeOK
<1>6. TypeOK'
  BY <1>2, <1>3 DEF Inv, TypeOK
<1>7. \A u \in Threads : at[u] \in HasClass => Cls(u) # Cls(t)
  <2> SUFFICES ASSUME NEW u \in Threads, at[u] \in HasClass, Cls(u) = Cls(t) PROVE FALSE
    OBVIOUS
  <2>1. clazz[u] = Unset /\ <<Cls(u), clazz[u]>> \in globals
    BY DEF Inv, ClassIsStored
  <2> QED
    BY <2>1, UnsetAssumption DEF Inv, TypeOK
<1>8. ClassIsStored'
  <2> SUFFICES ASSUME NEW u \in Threads, at'[u] \in HasClass
               PROVE  clazz'[u] = atomic_class_id'[Cls(u)] /\ <<Cls(u), clazz'[u]>> \in globals
    BY <1>1 DEF ClassIsStored
  <2>1. CASE u = t
    BY <1>2, <1>3, <1>4, <1>5, <2>1 DEF Inv, Races
  <2>2. CASE u # t
    <3>1. at[u] \in HasClass /\ Cls(u) \in Classes
      BY <1>2, <1>3, <2>2 DEF HasClass
    <3> QED
      BY <1>4, <1>5, <1>7, <2>2, <3>1 DEF Inv, ClassIsStored
  <2> QED
    BY <2>1, <2>2
<1>9. Races'
  <2>1. \A c \in Classes : atomic_class_id'[c] # Unset => <<c, atomic_class_id'[c]>> \in globals
    BY <1>2, <1>5 DEF Inv, Races
  <2>2. ASSUME NEW u \in Threads, at'[u] \in {"lookup", "exchange", "drop"}
        PROVE  /\ atomic_class_id'[Cls(u)] # u
               /\ at'[u] \in {"exchange", "drop"} => <<Cls(u), u>> \in globals
               /\ at'[u] = "drop" => atomic_class_id'[Cls(u)] # Unset
    <3>1. u # t /\ at[u] = at'[u] /\ Cls(u) \in Classes
      BY <1>2, <1>3, <2>2
    <3> QED
      BY <1>5, <2>2, <3>1, UnsetAssumption DEF Inv, Races
  <2> QED
    BY <1>1, <2>1, <2>2 DEF Races
<1>10. OneReferenceIsKept'
  <2> SUFFICES ASSUME NEW c \in Classes, NEW u \in Threads, <<c, u>> \in globals
               PROVE  atomic_class_id'[c] = u \/ (at'[u] \in {"exchange", "drop"} /\ Cls(u) = c)
    BY <1>1 DEF OneReferenceIsKept
  <2>1. atomic_class_id[c] = u \/ (at[u] \in {"exchange", "drop"} /\ Cls(u) = c)
    BY DEF Inv, OneReferenceIsKept
  <2>2. CASE u = t
    BY <1>2, <1>5, <2>1, <2>2, UnsetAssumption
  <2>3. CASE u # t
    BY <1>2, <1>5, <2>1, <2>3, UnsetAssumption
  <2> QED
    BY <2>2, <2>3
<1>11. NoExceptionEscapes'
  BY <1>2 DEF Inv, NoExceptionEscapes, TypeOK
<1> QED
  BY <1>6, <1>8, <1>9, <1>10, <1>11 DEF Inv

\* The thread that lost the exchange deletes its reference, which is not the stored one.
LEMMA DropInv == ASSUME Inv, NEW t \in Threads, Drop(t) PROVE Inv'
<1>1. \A u \in Threads : Cls(u)' = Cls(u)
  BY DEF Drop, Cls
<1>2. at' \in [Threads -> {"idle", "load", "lookup", "exchange", "drop", "id", "getid", "call", "context"}]
      /\ at'[t] = "id" /\ at[t] = "drop" /\ \A u \in Threads : u # t => at'[u] = at[u]
  BY DEF Drop, Step, Inv, TypeOK
<1>3. atomic_class_id[Cls(t)] # t
  BY <1>2 DEF Inv, Races
<1>4. \A c, u : <<c, u>> \in globals' <=> <<c, u>> \in globals /\ ~(c = Cls(t) /\ u = t)
  BY DEF Drop
<1>5. TypeOK'
  BY <1>2 DEF Drop, cells, Inv, TypeOK
<1>6. ClassIsStored'
  <2> SUFFICES ASSUME NEW u \in Threads, at'[u] \in HasClass
               PROVE  clazz[u] = atomic_class_id[Cls(u)] /\ <<Cls(u), clazz[u]>> \in globals'
    BY <1>1 DEF Drop, cells, ClassIsStored
  <2>1. at[u] \in HasClass
    BY <1>2 DEF HasClass
  <2> QED
    BY <1>3, <1>4, <2>1 DEF Inv, ClassIsStored
<1>7. Races'
  <2>1. \A c \in Classes : atomic_class_id[c] # Unset => <<c, atomic_class_id[c]>> \in globals'
    BY <1>3, <1>4 DEF Inv, Races
  <2>2. ASSUME NEW u \in Threads, at'[u] \in {"lookup", "exchange", "drop"}
        PROVE  u # t /\ at'[u] = at[u]
    BY <1>2, <2>2
  <2>3. \A u \in Threads : at'[u] \in {"exchange", "drop"} => <<Cls(u), u>> \in globals'
    BY <1>4, <2>2 DEF Inv, Races
  <2> QED
    BY <1>1, <2>1, <2>2, <2>3 DEF Drop, cells, Inv, Races
<1>8. OneReferenceIsKept'
  BY <1>1, <1>2, <1>4 DEF Drop, cells, Inv, OneReferenceIsKept
<1>9. NoExceptionEscapes'
  BY <1>2 DEF Drop, Inv, NoExceptionEscapes, TypeOK
<1> QED
  BY <1>5, <1>6, <1>7, <1>8, <1>9 DEF Inv

\* A call is over and no exception is pending.
LEMMA CheckExceptionInv == ASSUME Inv, NEW t \in Threads, CheckException(t) PROVE Inv'
<1>1. \A u \in Threads : u # t => Cls(u)' = Cls(u)
  BY DEF CheckException, Cls, Inv, TypeOK
<1>2. at' \in [Threads -> {"idle", "load", "lookup", "exchange", "drop", "id", "getid", "call", "context"}]
      /\ at'[t] = "idle" /\ at[t] = "context" /\ \A u \in Threads : u # t => at'[u] = at[u]
  BY DEF CheckException, Step, Inv, TypeOK
<1>3. TypeOK'
  BY <1>2 DEF CheckException, cells, Inv, TypeOK
<1>4. \A u \in Threads : u # t => clazz'[u] = clazz[u]
  BY DEF CheckException, Inv, TypeOK
<1>5. ClassIsStored'
  BY <1>1, <1>2, <1>4 DEF CheckException, cells, Inv, ClassIsStored, HasClass
<1>6. Races'
  BY <1>1, <1>2 DEF CheckException, cells, Inv, Races
<1>7. OneReferenceIsKept'
  BY <1>1, <1>2 DEF CheckException, cells, Inv, OneReferenceIsKept
<1>8. NoExceptionEscapes'
  BY <1>2 DEF CheckException, Inv, NoExceptionEscapes, TypeOK
<1> QED
  BY <1>3, <1>5, <1>6, <1>7, <1>8 DEF Inv

-----------------------------------------------------------------------------
\* Every step preserves the invariant.
LEMMA NextInv == ASSUME Inv, [Next]_vars PROVE Inv'
<1>1. CASE UNCHANGED vars
  BY <1>1 DEF vars, cells, Inv, TypeOK, ClassIsStored, OneReferenceIsKept, NoExceptionEscapes, Races, Cls
<1>2. ASSUME NEW t \in Threads, Proceed(t) PROVE Inv'
  <2>1. CASE LoadClass(t)
    <3>1. CASE atomic_class_id[Cls(t)] # Unset
      BY <2>1, <3>1, LearnInv DEF LoadClass
    <3>2. CASE atomic_class_id[Cls(t)] = Unset
      BY <2>1, <3>2, MoveInv, UnsetAssumption DEF LoadClass, cells, HasClass, Inv, TypeOK
    <3> QED
      BY <3>1, <3>2
  <2>2. CASE GetClass(t)
    BY <2>2, GetClassInv
  <2>3. CASE CompareExchange(t)
    BY <2>3, DecideInv, LearnInv DEF CompareExchange, cells
  <2>4. CASE Drop(t)
    BY <2>4, DropInv
  <2>5. CASE LoadId(t)
    BY <2>5, MoveInv DEF LoadId, cells, HasClass, Inv, TypeOK
  <2>6. CASE GetId(t)
    BY <2>6, MoveInv DEF GetId, HasClass, Inv, TypeOK
  <2>7. CASE JavaReturns(t)
    BY <2>7, MoveInv DEF JavaReturns, cells, HasClass, Inv, TypeOK
  <2>8. CASE JavaThrows(t)
    BY <2>8, MoveInv DEF JavaThrows, cells, HasClass, Inv, TypeOK
  <2>9. CASE CheckException(t)
    BY <2>9, CheckExceptionInv
  <2>10. CASE GetClassFails(t) \/ GetIdFails(t) \/ CheckExceptionFails(t)
    BY <2>10, AbortInv DEF GetClassFails, GetIdFails, CheckExceptionFails
  <2> QED
    BY <1>2, <2>1, <2>2, <2>3, <2>4, <2>5, <2>6, <2>7, <2>8, <2>9, <2>10 DEF Proceed
<1> QED
  BY <1>1, <1>2, BeginInv DEF Next

\* However many threads look a class up at once, one reference is stored and never deleted, no
\* other is kept, and no call leaves an exception pending (LazyGetClass, the call context).
THEOREM LazyIdsHold == Spec => [](TypeOK /\ ClassIsStored /\ OneReferenceIsKept /\ NoExceptionEscapes)
<1>1. Init => Inv
  BY ClassOfAssumption DEF Init, Inv, TypeOK, ClassIsStored, OneReferenceIsKept, NoExceptionEscapes, Races, HasClass
<1>2. Inv /\ [Next]_vars => Inv'
  BY NextInv
<1>3. Inv => TypeOK /\ ClassIsStored /\ OneReferenceIsKept /\ NoExceptionEscapes
  BY DEF Inv
<1> QED
  BY <1>1, <1>2, <1>3, PTL DEF Spec

\* A thread that goes on with a class has the reference the cell keeps, and that one is never
\* deleted, also when the thread lost the race to store its own (LazyGetClass).
THEOREM StoredClassIsUsed == Spec => []ClassIsStored
BY LazyIdsHold, PTL

\* A Java exception is pending only until the call context that made the call checks it
\* (the destructor of JniJavaCallContextChecked), so no other JNI call meets it.
THEOREM ExceptionsAreChecked == Spec => []NoExceptionEscapes
BY LazyIdsHold, PTL

\* The class cells are once-written cells that all threads agree on: LazyGetClass implements OnceCells.
THEOREM LazyIdsImplementOnceCells == Spec => ImplementsOnceCells
<1>1. Init => ClassCells!Init
  BY DEF Init, ClassCells!Init
<1>2. Inv /\ [Next]_vars => [ClassCells!Next]_(ClassCells!vars)
  <2> SUFFICES ASSUME Inv, [Next]_vars, ~UNCHANGED <<atomic_class_id, clazz>> PROVE ClassCells!Next
    BY DEF ClassCells!vars
  <2>1. PICK t \in Threads : LoadClass(t) \/ CompareExchange(t) \/ CheckException(t)
    BY DEF vars, cells, Next, Proceed, Begin, GetClass, GetClassFails, Drop, LoadId, GetId, GetIdFails,
           JavaReturns, JavaThrows, CheckExceptionFails, Abort
  <2>2. CASE LoadClass(t)
    <3>1. Cls(t) \in Classes
      BY <2>2, ClassOfCall DEF LoadClass, Inv
    <3>2. ClassCells!Learn(Cls(t), t)
      BY <2>2 DEF LoadClass, cells, ClassCells!Learn
    <3> QED
      BY <3>1, <3>2 DEF ClassCells!Next
  <2>3. CASE CompareExchange(t)
    <3>1. Cls(t) \in Classes
      BY <2>3, ClassOfCall DEF CompareExchange, Inv
    <3>2. ClassCells!Learn(Cls(t), t) \/ ClassCells!Decide(Cls(t), t)
      BY <2>3 DEF CompareExchange, ClassCells!Learn, ClassCells!Decide
    <3> QED
      BY <3>1, <3>2 DEF ClassCells!Next
  <2>4. CASE CheckException(t)
    BY <2>4 DEF CheckException, cells, ClassCells!Next, ClassCells!Done
  <2> QED
    BY <2>1, <2>2, <2>3, <2>4
<1>3. Spec => []Inv
  <2>1. Init => Inv
    BY ClassOfAssumption DEF Init, Inv, TypeOK, ClassIsStored, OneReferenceIsKept, NoExceptionEscapes, Races, HasClass
  <2> QED
    BY <2>1, NextInv, PTL DEF Spec
<1> QED
  BY <1>1, <1>2, <1>3, PTL DEF Spec, ImplementsOnceCells, ClassCells!Spec
=============================================================================
