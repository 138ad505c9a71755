-------------------------- MODULE MCScopedJavaRef --------------------------
(***************************************************************************)
(* ScopedJavaRef with interchangeable slots, variables, objects, threads.   *)
(***************************************************************************)
EXTENDS ScopedJavaRef, TLC

Symmetry == Permutations(Refs) \cup Permutations(Handles)
              \cup Permutations(Objects) \cup Permutations(Threads)
=============================================================================
