----------------------------- MODULE MCLazyIds -----------------------------
(***************************************************************************)
(* LazyIds with a method of a wrapper and one of its listener: three        *)
(* threads race for one class, or for both.                                 *)
(***************************************************************************)
EXTENDS LazyIds

TwoClasses == {"Transport", "Listener"}
MethodClass == [m \in {"getNativeTransport", "onConnect"} |->
                  IF m = "getNativeTransport" THEN "Transport" ELSE "Listener"]
CalledMethods == DOMAIN MethodClass
=============================================================================
