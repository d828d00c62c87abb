---------------------------- MODULE MCLiveCalls ----------------------------
(* Small instances of LiveCalls. *)
EXTENDS LiveCalls
=============================================================================
