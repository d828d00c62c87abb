---------------------- MODULE MCRefundImplementation ----------------------
(* Small instances of RefundImplementation: constants that a .cfg cannot   *)
(* write.                                                                  *)
EXTENDS RefundImplementation, LedgerAudit

MCOrderAmount == [o \in Orders |-> 3]

MCDriftCents == -1

Timeouts == {"timeout_after_commit", "timeout_before_commit"}

(* Every schedule of timeouts, and every fault at each of the first two    *)
(* refund calls.                                                           *)
MCFaultPlans ==
  [1..MaxCalls -> Timeouts \cup {NoFault}]
    \cup {[[n \in 1..MaxCalls |-> NoFault] EXCEPT ![1] = first, ![2] = second] :
            first \in FaultKinds \cup {NoFault}, second \in FaultKinds \cup {NoFault}}
=============================================================================
