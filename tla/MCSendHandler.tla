--------------------------- MODULE MCSendHandler ---------------------------
(***************************************************************************)
(* SendHandler with four calls of produce, whose transceivers have numbers. *)
(***************************************************************************)
EXTENDS SendHandler

FourProducers == 1..4
Numbered      == [p \in FourProducers |-> p]
=============================================================================
