--------------------------- MODULE MCRecvHandler ---------------------------
(***************************************************************************)
(* RecvHandler with four consumers, two of them video, numbered by the      *)
(* server from 0 when it gives mids.                                        *)
(***************************************************************************)
EXTENDS RecvHandler

FourConsumers == 1..4
TwoVideo      == {2, 4}
ServerMids    == [c \in FourConsumers |-> c - 1]
=============================================================================
