----------------------------- MODULE OnceCells -----------------------------
(***************************************************************************)
(* Cells that are written once. A reader that asks for a cell's value gets  *)
(* the one value the cell ever has, its own or another reader's proposal,   *)
(* and keeps it until it is done.                                           *)
(***************************************************************************)
CONSTANTS Cells, Readers, Unset

VARIABLES
  value,    \* cell -> Unset, or the reader whose proposal it holds
  read      \* reader -> Unset, or the value it was given

vars == <<value, read>>

Init == value = [c \in Cells |-> Unset] /\ read = [t \in Readers |-> Unset]

Decide(c, t) ==
  /\ value[c] = Unset
  /\ value' = [value EXCEPT ![c] = t]
  /\ read' = [read EXCEPT ![t] = t]

Learn(c, t) ==
  /\ value[c] # Unset
  /\ read' = [read EXCEPT ![t] = value[c]]
  /\ UNCHANGED value

Done(t) == read' = [read EXCEPT ![t] = Unset] /\ UNCHANGED value

Next == \E t \in Readers : Done(t) \/ \E c \in Cells : Decide(c, t) \/ Learn(c, t)

Spec == Init /\ [][Next]_vars
=============================================================================
