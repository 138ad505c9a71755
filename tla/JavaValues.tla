----------------------------- MODULE JavaValues -----------------------------
(***************************************************************************)
(* What the reference classes of the JNI layer promise a caller: a handle   *)
(* is a variable that holds a Java object or null. Declaring, assigning,    *)
(* moving or destroying a handle changes that handle, and a move nulls its  *)
(* source; whatever is done to one handle, the others keep their objects.   *)
(***************************************************************************)
CONSTANTS Handles, Objects, Nil, OutOfScope

VARIABLES
  val,     \* handle -> the object it holds, Nil, or OutOfScope
  loose    \* the objects the caller holds as bare references

vars == <<val, loose>>

Init == val = [x \in Handles |-> OutOfScope] /\ loose = {}

Set(x, v) == val' = [val EXCEPT ![x] = v]

InScope(x) == val[x] # OutOfScope

\* A new handle is null, or holds a bare reference's object or another handle's.
Declare(x) ==
  /\ ~InScope(x)
  /\ \E v \in {Nil} \cup loose \cup {val[y] : y \in {z \in Handles : InScope(z)}} : Set(x, v)

MoveInto(x, y) ==
  /\ ~InScope(x) /\ InScope(y)
  /\ val' = [val EXCEPT ![x] = val[y], ![y] = Nil]

Assign(x, y) == InScope(x) /\ InScope(y) /\ Set(x, val[y])

Clear(x) == InScope(x) /\ Set(x, Nil)

Destroy(x) == InScope(x) /\ Set(x, OutOfScope)

Next ==
  \/ \E x \in Handles : Declare(x) \/ Clear(x) \/ Destroy(x)
  \/ \E x, y \in Handles : MoveInto(x, y) \/ Assign(x, y)
  \/ UNCHANGED val

Spec == Init /\ [][Next /\ loose' \subseteq Objects]_vars
=============================================================================
