---------------------------- MODULE MCJniObjects ----------------------------
(***************************************************************************)
(* JniObjects with the objects of a sending session (a device, its send     *)
(* transport, two producers, a data producer), and with an object of every  *)
(* class.                                                                   *)
(***************************************************************************)
EXTENDS JniObjects, TLC

SendKind == [dev |-> "Device", snd |-> "SendTransport", mic |-> "Producer", cam |-> "Producer",
             chat |-> "DataProducer"]
SendParent == [dev |-> NoObj, snd |-> "dev", mic |-> "snd", cam |-> "snd", chat |-> "snd"]
SendObjs == DOMAIN SendKind

AllKind == [dev |-> "Device", snd |-> "SendTransport", mic |-> "Producer", chat |-> "DataProducer",
            rcv |-> "RecvTransport", voice |-> "Consumer", text |-> "DataConsumer",
            pc |-> "PeerConnection"]
AllParent == [dev |-> NoObj, snd |-> "dev", mic |-> "snd", chat |-> "snd",
              rcv |-> "dev", voice |-> "rcv", text |-> "rcv", pc |-> NoObj]
AllObjs == DOMAIN AllKind

\* Threads are interchangeable.
ThreadSymmetry == Permutations(Threads)
=============================================================================
