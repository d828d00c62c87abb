----------------------------- MODULE MCReview -----------------------------
(* Small instances of Review. *)
EXTENDS Review, TLC

MCLedgerSeqs == [k \in Recordings |-> IF k = 1 THEN 0 .. 2 ELSE 0 .. 1]

MCProposed ==
  [k \in Recordings |->
     IF k = 1 THEN [verdict |-> "CONTRADICTED", first_bad |-> 1]
              ELSE [verdict |-> "SUPPORTED", first_bad |-> NoBadEvent]]

Claim(status, evidence) == [status |-> status, evidence |-> evidence]
Amend(verdict, first_bad, claims) ==
  [verdict |-> verdict, first_bad |-> first_bad, claims |-> claims]

TwoBadEvents == {Claim("SUPPORTED", {0}), Claim("CONTRADICTED", {1, 2})}

(* An amendment that fits the longer ledger only, one that names the wrong *)
(* event, and one that does not aggregate.                                 *)
MCAmendments ==
  {Amend("CONTRADICTED", 1, TwoBadEvents), Amend("CONTRADICTED", 2, TwoBadEvents),
   Amend("SUPPORTED", NoBadEvent, {Claim("SUPPORTED", {0}), Claim("UNVERIFIABLE", {})})}

Symmetry == Permutations(Cases) \cup Permutations(Reviewers)
=============================================================================
