--------------------------- MODULE MCRemoteMedia ---------------------------
(***************************************************************************)
(* RemoteMedia with two users: the first may have a media consumer, the     *)
(* second a data consumer.                                                  *)
(***************************************************************************)
EXTENDS RemoteMedia

CONSTANTS u1, u2, m1, d1

TwoUsers == {u1, u2}
OneMedia == {m1}
OneData  == {d1}
Owners   == [c \in {m1, d1} |-> IF c = m1 THEN u1 ELSE u2]
=============================================================================
