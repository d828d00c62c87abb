--------------------------- MODULE MCRefundAgent ---------------------------
(* Small instances of RefundAgent: constants that a .cfg cannot write. *)
EXTENDS WireFormat

MCOrderAmount == [o \in Orders |-> 3]
MCDriftCents == -1
MCRequests == <<"i1", "i2">>

(* No fault, or one fault at the first or second issue_refund call. *)
NoFaults == [n \in 1..MaxCalls |-> NoFault]
MCFaultPlans ==
  {NoFaults} \cup {[NoFaults EXCEPT ![n] = kind] : n \in 1..2, kind \in FaultKinds}
=============================================================================
