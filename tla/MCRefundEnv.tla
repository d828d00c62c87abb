---------------------------- MODULE MCRefundEnv ----------------------------
(* Small instances of RefundEnv: constants that a .cfg cannot write. *)
EXTENDS RefundEnv

MCOrderAmount == [o \in Orders |-> 3]

MCDriftCents == -1

(* No fault, or one fault at the first or second issue_refund call. *)
NoFaults == [n \in 1..MaxCalls |-> NoFault]
MCFaultPlans ==
  {NoFaults} \cup {[NoFaults EXCEPT ![n] = kind] : n \in 1..2, kind \in FaultKinds}
=============================================================================
