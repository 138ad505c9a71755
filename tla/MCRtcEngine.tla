---------------------------- MODULE MCRtcEngine ----------------------------
(***************************************************************************)
(* RtcEngine with the constants of the .cfg files.                          *)
(***************************************************************************)
EXTENDS RtcEngine

BothKinds == {"video", "audio"}
=============================================================================
