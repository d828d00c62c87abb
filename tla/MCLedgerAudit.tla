---------------------------- MODULE MCLedgerAudit ----------------------------
(* Small instances of ClaimAudit and LedgerAudit: constants that a .cfg cannot write. *)
EXTENDS ClaimAudit

MCOrderAmount == [o \in Orders |-> 3]
MCDriftCents == -1

(* No fault, or one fault at the first or second issue_refund call. *)
NoFaults == [n \in 1..MaxCalls |-> NoFault]
MCFaultPlans ==
  {NoFaults} \cup {[NoFaults EXCEPT ![n] = kind] : n \in 1..2, kind \in FaultKinds}

(* One request names its order, in its text or by looking it up; the other *)
(* names none.                                                             *)
MCMentions == [i \in Intents |-> IF i = "i1" THEN {"A"} ELSE {}]
=============================================================================
