---------------------------- MODULE SectionSlots ----------------------------
(***************************************************************************)
(* What one side of a session must do with its media sections, without      *)
(* mids, maps or recycling: a consumer (or a producer) that starts gets a   *)
(* section that no running one has, keeps that very section while it runs,  *)
(* and gives it up when it stops.                                           *)
(***************************************************************************)
EXTENDS Naturals

CONSTANT Consumers
VARIABLE slot      \* the section of every consumer, or 0

Init == slot = [c \in Consumers |-> 0]

Start(c) ==
  /\ slot[c] = 0 /\ slot'[c] \in Nat \ {0}
  /\ \A d \in Consumers : slot[d] # slot'[c]
  /\ slot' = [slot EXCEPT ![c] = slot'[c]]

Stop(c) == slot[c] # 0 /\ slot' = [slot EXCEPT ![c] = 0]

Next == \E c \in Consumers : Start(c) \/ Stop(c)

Spec == Init /\ [][Next]_slot
=============================================================================
