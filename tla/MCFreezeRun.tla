---------------------------- MODULE MCFreezeRun ----------------------------
(* Small instances of FreezeRun. *)
EXTENDS FreezeRun

(* A case of two requests may be reported on without a call, one of one    *)
(* request may run out of turns without a report: smoke_checks fails both. *)
MCPassing ==
  {responses \in [1 .. Turns -> Texts] :
     responses[Turns] = "report" /\ \E k \in 1 .. Turns : responses[k] = "calls"}
=============================================================================
