---------------------------- MODULE MCJniResults ----------------------------
(***************************************************************************)
(* JniResults with a thread that calls one method after the other. Three    *)
(* slots are in use at once: the argument, the result and the member; the   *)
(* fourth lets a deleted one be used again or not.                          *)
(***************************************************************************)
EXTENDS JniResults, TLC

StackAndMember == Threads \X {"jcaller", "j_result", "ret", "j_transport_"}

Symmetry == Permutations(Refs) \cup Permutations(Objects)
=============================================================================
