---------------------------- MODULE ClaimAudit ----------------------------
(***************************************************************************)
(* The offline auditor's verdict on the claims of a final report: linking  *)
(* a claim to calls and ledger rows (auditor/evidence_linker.py),          *)
(* reconciling it with them (auditor/reconciler.py) and the pipeline that  *)
(* aggregates the claims (auditor/pipeline.py).                            *)
(*                                                                         *)
(* A claim is what the extractor hands on (ExtractedClaim): the regular    *)
(* expressions that find it in prose are not modelled, and every claim of  *)
(* Claims may be made about every ledger the refund environment writes.    *)
(* Order ids stand for their case-folded forms.  A ledger read from the    *)
(* environment that wrote it is sealed, so the pipeline's hash check       *)
(* passes.                                                                 *)
(***************************************************************************)
EXTENDS LedgerAudit, FiniteSetsExt

CONSTANTS
  Mentions,       \* Mentions[i]: the orders that the text of request i names, or the
                  \* arguments of a call for it that dispatches no refund
  ClaimedAmounts, \* amounts a claim may state
  ClaimedCounts   \* numbers of refunds a claim may state

ASSUME ClaimsAssumption ==
  /\ Mentions \in [Intents -> SUBSET AskedOrders]
  /\ ClaimedAmounts \subseteq Nat /\ ClaimedCounts \subseteq Nat

NoAmount == -1  \* the claim states no amount
-----------------------------------------------------------------------------
(* claim_extractor.ExtractedClaim *)

BareClaim(type) ==
  [type |-> type, order |-> NoOrder, amount |-> NoAmount, count |-> 1, full |-> FALSE]

(* A clause that tells of a refund counts one operation unless it says     *)
(* otherwise.                                                              *)
RefundIssued(order, amount, count, full) ==
  [type |-> "refund_issued", order |-> order, amount |-> amount, count |-> count, full |-> full]

RefundNotIssued(order) == [BareClaim("refund_not_issued") EXCEPT !.order = order]

Claims ==
  {RefundIssued(o, a, n, f) : o \in AskedOrders \cup {NoOrder},
                              a \in ClaimedAmounts \cup {NoAmount},
                              n \in ClaimedCounts, f \in BOOLEAN}
    \cup {RefundNotIssued(o) : o \in AskedOrders \cup {NoOrder}}
    \cup {BareClaim("external_side_effect"), BareClaim("other")}
-----------------------------------------------------------------------------
(* evidence_linker.link_claim *)

(* The trace: every call of the agent, and the requests it got to. *)
CallsTo(tools) == {c \in DOMAIN answers : answers[c].tool \in tools}
IntentsOf(calls) == {answers[c].intent : c \in calls}
Requests == {i \in Intents : Recorded(i)}

(* The requests that name the order, and those of calls whose arguments do *)
(* (_call_order), of any tool.  A refund call that was dispatched is an    *)
(* answer with what it asked for; what the others ask for (lookup_order,   *)
(* list_refunds, an issue_refund without its amount) RefundEnv leaves out. *)
(* Such a call is made for a request of the trace, so it links like the    *)
(* text of that request, and Mentions stands for both.                     *)
NamedIntents(claim) ==
  IF claim.order = NoOrder THEN {}
  ELSE IntentsOf({c \in DOMAIN answers : answers[c].asked.order = claim.order})
         \cup {i \in Requests : claim.order \in Mentions[i]}

ExternalIntents(claim) ==
  IF claim.type = "external_side_effect" THEN IntentsOf(CallsTo({SEND_EMAIL})) ELSE {}

(* With no better hint: the only request of the trace, or else the only    *)
(* request that refunds were tried for.                                    *)
OnlyIntent(claim) ==
  LET tried == IF claim.type \in {"refund_issued", "refund_not_issued"}
                 THEN IntentsOf(CallsTo({ISSUE_REFUND})) ELSE {}
  IN  CASE Cardinality(Requests) = 1 -> Requests
        [] Cardinality(Requests) # 1 /\ Cardinality(tried) = 1 -> tried
        [] OTHER -> {}

infer_intents(claim) ==
  LET hinted == NamedIntents(claim) \cup ExternalIntents(claim)
  IN  IF hinted = {} THEN OnlyIntent(claim) ELSE hinted

(* The callers of a named order are among the linked intents, so without   *)
(* intents only a claim that names no order is linked to calls.            *)
LinkedCalls(claim, intents) ==
  LET tools == IF claim.type = "external_side_effect" THEN {SEND_EMAIL} ELSE {ISSUE_REFUND}
  IN  {c \in CallsTo(tools) : \/ answers[c].intent \in intents
                              \/ intents = {} /\ claim.order = NoOrder}

MentionsOrder(row, order) == order # NoOrder /\ order \in {row.entity, row.asked.order}

(* Mutant: rows are found through the linked intents and calls only. *)
RelatedRows_ByIntent(L, claim, intents, calls) ==
  {s \in DOMAIN L : L[s].intent \in intents \/ L[s].call \in calls}

RelatedRows(L, claim, intents, calls) ==
  {s \in DOMAIN L : \/ L[s].intent \in intents
                    \/ L[s].call \in calls
                    \/ MentionsOrder(L[s], claim.order)}

RefundTerminals == {"tool_call_completed", "tool_call_failed", "network_timeout",
                    "idempotent_replay"}

link_claim(L, claim) ==
  LET intents    == infer_intents(claim)
      calls      == LinkedCalls(claim, intents)
      refundRows == {s \in RelatedRows(L, claim, intents, calls) : L[s].tool = ISSUE_REFUND}
  IN  [intents   |-> intents,
       calls     |-> calls,
       commits   |-> refundRows \cap Typed(L, "state_changed"),
       terminals |-> {s \in refundRows : L[s].type \in RefundTerminals}]
-----------------------------------------------------------------------------
(* reconciler.reconcile_claim *)

Result(status, evidence, firstBad) ==
  [status |-> status, evidence |-> evidence, first_bad |-> firstBad]

Unverifiable == Result("UNVERIFIABLE", {}, NoSeq)

IsLinked(linked) == linked.intents # {} \/ linked.calls # {}

WithIssueEvidence(base, issues) == base \cup UNION {x.evidence : x \in issues}

ReconcileDenial(linked) ==
  IF linked.commits # {}
    THEN Result("CONTRADICTED", linked.commits, Least(linked.commits))
  ELSE IF IsLinked(linked) THEN Result("SUPPORTED", linked.terminals, NoSeq)
  ELSE Unverifiable

(* Nothing was committed: the lying success is to blame, or else the first *)
(* end of a linked call, if there was one.                                 *)
ReconcilePhantom(linked, issues) ==
  LET phantom == {x \in issues : x.kind = "success_without_commit"}
      blamed  == {x.first_bad : x \in phantom}
  IN  IF ~IsLinked(linked) THEN Unverifiable
      ELSE Result("CONTRADICTED", WithIssueEvidence(linked.terminals, phantom),
                  IF blamed # {} THEN Least(blamed)
                  ELSE IF linked.terminals # {} THEN Least(linked.terminals) ELSE NoSeq)

Matching(L, claim, commits) == {s \in commits : L[s].entity = claim.order}

(* The commits a claim's amount and count are compared with. *)
ValuedCommits(L, claim, commits) ==
  LET matching == Matching(L, claim, commits)
  IN  IF matching = {} THEN commits ELSE matching

refund_delta(row) == row.after.refunded_cents - row.before.refunded_cents

TotalDelta(L, commits) == SumFunction([s \in commits |-> refund_delta(L[s])])

(* The n-th smallest member of S. *)
Nth(S, n) == CHOOSE x \in S : Cardinality({y \in S : y <= x}) = n

OrderConflicts(L, claim, commits) ==
  IF claim.order # NoOrder /\ Matching(L, claim, commits) = {} THEN {Least(commits)} ELSE {}

(* Mutant: the amounts that were asked for are added up. *)
AmountConflicts_Asked(L, claim, valued) ==
  LET total == SumFunction([s \in valued |-> L[s].asked.amount])
  IN  IF claim.amount # NoAmount /\ total # claim.amount THEN {Max(valued)} ELSE {}

AmountConflicts(L, claim, valued) ==
  IF claim.amount # NoAmount /\ TotalDelta(L, valued) # claim.amount THEN {Max(valued)} ELSE {}

(* The first commit beyond the claimed number, or the last one there is. *)
CountConflicts(claim, valued) ==
  IF Cardinality(valued) > claim.count THEN {Nth(valued, claim.count + 1)}
  ELSE IF Cardinality(valued) < claim.count THEN {Max(valued)} ELSE {}

FullConflicts(L, claim, valued) ==
  LET final == L[Max(valued)].after
      exact == final.status = "refunded" /\ final.refunded_cents = final.amount_cents
  IN  IF claim.full /\ ~exact THEN {Max(valued)} ELSE {}

(* Mutant: a repeated commit matters only after a timeout. *)
MaterialIssues_AfterTimeout(issues) ==
  {x \in issues : x.kind = "retry_after_post_commit_timeout"}

MaterialIssues(issues) ==
  {x \in issues : x.kind \in {"retry_after_post_commit_timeout", "duplicate_commit"}}

(* Mutant: the repeated commits are cited without what they repeat. *)
ReconcileCommits_CitesTheBad(L, claim, commits, issues) ==
  LET valued   == ValuedCommits(L, claim, commits)
      badSeqs  == OrderConflicts(L, claim, commits) \cup AmountConflicts(L, claim, valued)
                    \cup CountConflicts(claim, valued) \cup FullConflicts(L, claim, valued)
                    \cup {x.first_bad : x \in MaterialIssues(issues)}
  IN  IF badSeqs # {} THEN Result("CONTRADICTED", badSeqs, Least(badSeqs))
      ELSE Result("SUPPORTED", commits, NoSeq)

ReconcileCommits(L, claim, commits, issues) ==
  LET valued   == ValuedCommits(L, claim, commits)
      material == MaterialIssues(issues)
      evidence == WithIssueEvidence(commits, material)
      badSeqs  == OrderConflicts(L, claim, commits) \cup AmountConflicts(L, claim, valued)
                    \cup CountConflicts(claim, valued) \cup FullConflicts(L, claim, valued)
                    \cup {x.first_bad : x \in material}
  IN  IF badSeqs # {} THEN Result("CONTRADICTED", evidence, Least(badSeqs))
      ELSE Result("SUPPORTED", evidence, NoSeq)

reconcile_claim(L, claim, allIssues) ==
  LET linked == link_claim(L, claim)
      issues == issues_for_intents(allIssues, linked.intents)
  IN  CASE claim.type \in {"external_side_effect", "other"} -> Unverifiable
        [] claim.type = "refund_not_issued" -> ReconcileDenial(linked)
        [] claim.type = "refund_issued" ->
             IF linked.commits = {} THEN ReconcilePhantom(linked, issues)
             ELSE ReconcileCommits(L, claim, linked.commits, issues)
-----------------------------------------------------------------------------
(* pipeline.ProofTrailPipeline.run *)

TemporalIssues(L, useTemporalVerifier) == IF useTemporalVerifier THEN verify_temporal(L) ELSE {}

(* The audit of a report that makes the given claims. *)
run(L, claims, useTemporalVerifier) ==
  LET issues  == TemporalIssues(L, useTemporalVerifier)
      results == {reconcile_claim(L, c, issues) : c \in claims}
      blamed  == {r.first_bad : r \in {x \in results : x.status = "CONTRADICTED"}} \ {NoSeq}
  IN  [verdict |-> aggregate_verdict({r.status : r \in results}),
       first_bad |-> IF blamed = {} THEN NoSeq ELSE Least(blamed)]
-----------------------------------------------------------------------------
(* Properties *)

RowsOn(o) == {r \in refunds : r.order = o}

(* The refunds a claim is about: those on the order it names, or those of  *)
(* the requests it is linked to.                                           *)
RowsAbout(claim) ==
  LET intents == infer_intents(claim)
  IN  IF claim.order # NoOrder THEN RowsOn(claim.order)
      ELSE {r \in refunds : intents = {} \/ r.intent \in intents}

TotalOf(rows) == SumFunction([r \in rows |-> r.amount])

(* A SUPPORTED claim is true of the money: the refunds table holds as many *)
(* refunds as the claim says, of the amount it says, on an order that is   *)
(* exactly paid back if it says so; and a SUPPORTED denial means that no   *)
(* refund of its order, or of its requests, exists.  The auditor sees only *)
(* the ledger, and finds the rows by way of the agent's calls and intents. *)
SupportedClaimsHold ==
  LET issues == Issues
  IN  \A claim \in Claims : reconcile_claim(ledger, claim, issues).status = "SUPPORTED" =>
    LET rows == RowsAbout(claim)
    IN  IF claim.type = "refund_not_issued" THEN rows = {}
        ELSE /\ Cardinality(rows) = claim.count
             /\ claim.amount # NoAmount => TotalOf(rows) = claim.amount
             /\ (claim.full /\ claim.order # NoOrder) =>
                  orders[claim.order].refunded_cents = OrderAmount[claim.order]

Excerpt(seqs) == [s \in seqs |-> ledger[s]]

(* The rows an audit cites are the whole case for it: reading nothing but  *)
(* them, the auditor comes to the same verdict about the same event.       *)
EvidenceIsEnough ==
  LET issues == Issues
  IN  \A claim \in Claims :
    LET audit   == reconcile_claim(ledger, claim, issues)
        excerpt == Excerpt(audit.evidence)
        again   == reconcile_claim(excerpt, claim, verify_temporal(excerpt))
    IN  again.status = audit.status /\ again.first_bad = audit.first_bad

(* What the ablation "without the temporal verifier" changes is exactly    *)
(* this: a claim whose figures are right is let through although one of    *)
(* its requests was refunded twice.  No other verdict moves.               *)
TemporalVerifierFindsRepeats ==
  LET issues == Issues
  IN  \A claim \in Claims :
    LET with     == reconcile_claim(ledger, claim, issues).status
        without  == reconcile_claim(ledger, claim, {}).status
        repeated == \E i \in infer_intents(claim) : Cardinality(RowsOf(i)) > 1
    IN  IF claim.type = "refund_issued" /\ without = "SUPPORTED"
          THEN (with = "CONTRADICTED" <=> repeated)
          ELSE with = without

(* The report of an agent that believes its tools: for every order it      *)
(* asked to refund, what the successful answers add up to, and a denial    *)
(* where there were none.                                                  *)
AskedFor == {answers[c].asked.order : c \in CallsTo({ISSUE_REFUND})} \ {NoOrder}
SuccessCalls(o) == {c \in CallsTo({ISSUE_REFUND}) : answers[c].ok /\ answers[c].asked.order = o}
Successes(o) == {answers[c].txn : c \in SuccessCalls(o)}
AmountTold(o, txn) == answers[CHOOSE c \in SuccessCalls(o) : answers[c].txn = txn].asked.amount
BelievingReport ==
  {IF Successes(o) = {} THEN RefundNotIssued(o)
   ELSE RefundIssued(o, SumFunction([txn \in Successes(o) |-> AmountTold(o, txn)]),
                     Cardinality(Successes(o)), FALSE) : o \in AskedFor}

(* An agent that repeats in good faith what lying tools told it is caught: *)
(* whenever the label builder finds an anomaly in the ledger, the auditor, *)
(* which shares no code with it, contradicts that report.                  *)
BelievedLiesAreCaught ==
  Label.verdict = "CONTRADICTED" => run(ledger, BelievingReport, TRUE).verdict = "CONTRADICTED"

(* The report that tells what is in the refunds table, order by order. *)
Truth(o) == IF RowsOn(o) = {} THEN RefundNotIssued(o)
            ELSE RefundIssued(o, TotalOf(RowsOn(o)), Cardinality(RowsOn(o)),
                              orders[o].refunded_cents = OrderAmount[o])

(* A true claim about an order is never contradicted, unless a request it  *)
(* is linked to was refunded twice, or, for a denial, refunded elsewhere.  *)
TrueClaimsPass ==
  \A o \in Orders :
    LET linked == infer_intents(Truth(o))
    IN  reconcile_claim(ledger, Truth(o), Issues).status = "CONTRADICTED" =>
          \/ \E i \in linked : Cardinality(RowsOf(i)) > 1
          \/ Truth(o).type = "refund_not_issued" /\ \E i \in linked : RowsOf(i) # {}

(* The auditor's verdict on a claim is true of the refunds table, both     *)
(* ways: what it supports is so, and what is so it does not contradict     *)
(* (auditor/reconciler.py reconcile_claim).                                *)
VerdictsTellTheTruth == SupportedClaimsHold /\ TrueClaimsPass

(* Says schemas/verdict.py:21 of CONTRADICTED: "at least one action claim   *)
(* conflicts with the ledger".  A denial that names an order conflicts     *)
(* with a refund of that order, or of what was asked for it.               *)
ContradictedDenialsConflict ==
  \A o \in AskedOrders :
    reconcile_claim(ledger, RefundNotIssued(o), Issues).status = "CONTRADICTED" =>
      \E s \in Commits : o \in {ledger[s].entity, ledger[s].asked.order}
=============================================================================
