---------------------------- MODULE LedgerAudit ----------------------------
(***************************************************************************)
(* The two independent readings of a ledger: the auditor's temporal checks *)
(* (auditor/temporal_verifier.py) and the label builder's facts            *)
(* (scenarios/ground_truth.py).  Auditors never call the label builder, so *)
(* that the two agree is a property of the system and not of its shape.    *)
(*                                                                         *)
(* Operators take the ledger L they read; the properties apply them to the *)
(* ledgers that the refund environment really writes.                      *)
(***************************************************************************)
EXTENDS RefundEnv

NoSeq == 0  \* "no event": sequence numbers start at 1

Least(S) == CHOOSE x \in S : \A y \in S : x <= y

Typed(L, type) == {s \in DOMAIN L : L[s].type = type}
-----------------------------------------------------------------------------
(* temporal_verifier.verify_temporal *)

(* The issue_refund rows of one intent. *)
Scoped(L, intent) == {s \in DOMAIN L : L[s].intent = intent /\ L[s].tool = ISSUE_REFUND}

ScopedCommits(L, intent) == Scoped(L, intent) \cap Typed(L, "state_changed")

(* Commits of one intent with no other commit of it between them. *)
AdjacentCommits(L, intent) ==
  LET C == ScopedCommits(L, intent)
  IN  {pair \in C \X C : /\ pair[1] < pair[2]
                         /\ \A s \in C : s <= pair[1] \/ pair[2] <= s}

PostCommitTimeouts(L, intent, previous, current) ==
  {s \in Scoped(L, intent) \cap Typed(L, "network_timeout") :
     previous < s /\ s < current /\ L[s].call = L[previous].call}

(* Mutant: the timeout is blamed instead of the second commit. *)
RepeatedCommitIssue_BlamesTimeout(L, intent, previous, current) ==
  LET timeouts == PostCommitTimeouts(L, intent, previous, current)
  IN  [kind |-> IF timeouts = {} THEN "duplicate_commit" ELSE "retry_after_post_commit_timeout",
       intent |-> intent,
       first_bad |-> IF timeouts = {} THEN current ELSE Least(timeouts),
       evidence |-> {previous, current} \cup timeouts]

RepeatedCommitIssue(L, intent, previous, current) ==
  LET timeouts == PostCommitTimeouts(L, intent, previous, current)
      evidence == {previous, current} \cup (IF timeouts = {} THEN {} ELSE {Least(timeouts)})
  IN  [kind |-> IF timeouts = {} THEN "duplicate_commit" ELSE "retry_after_post_commit_timeout",
       intent |-> intent, first_bad |-> current, evidence |-> evidence]

SuccessWithoutCommit(L, intent) ==
  {s \in Scoped(L, intent) \cap Typed(L, "tool_call_completed") :
     /\ L[s].ok
     /\ \A t \in Scoped(L, intent) :
          L[t].type \in {"state_changed", "idempotent_replay"} => L[t].call # L[s].call}

verify_temporal(L) ==
  UNION {   {RepeatedCommitIssue(L, i, p[1], p[2]) : p \in AdjacentCommits(L, i)}
       \cup {[kind |-> "success_without_commit", intent |-> i, first_bad |-> s, evidence |-> {s}]
               : s \in SuccessWithoutCommit(L, i)}
       : i \in {L[s].intent : s \in DOMAIN L}}

(* With no inferred intent a claim is linked to no issue. *)
issues_for_intents(issues, intents) == {x \in issues : x.intent \in intents}
-----------------------------------------------------------------------------
(* ground_truth.derive_ledger_facts *)

(* Mutant: repeats are looked for per idempotency key. *)
DuplicateRefunds_PerKey(L) ==
  LET C == Typed(L, "state_changed")
  IN  {s \in C : \E t \in C : t < s /\ L[t].key = L[s].key}

(* All commits of an intent after its first one. *)
DuplicateRefunds(L) ==
  LET C == Typed(L, "state_changed")
  IN  {s \in C : \E t \in C : t < s /\ L[t].intent = L[s].intent}

MisroutedWrites(L) == {s \in Typed(L, "state_changed") : L[s].entity # L[s].asked.order}

(* Mutant: the order's total is compared instead of this commit's delta. *)
AmountMismatches_Total(L) ==
  {s \in Typed(L, "state_changed") : L[s].after.refunded_cents # L[s].asked.amount}

AmountMismatches(L) ==
  {s \in Typed(L, "state_changed") :
     L[s].after.refunded_cents - L[s].before.refunded_cents # L[s].asked.amount}

CallsOf(L, types) == {L[s].call : s \in {t \in DOMAIN L : L[t].type \in types}}

(* Mutant: any commit of the intent excuses the success. *)
PhantomSuccesses_PerIntent(L) ==
  {s \in Typed(L, "tool_call_completed") :
     /\ L[s].tool = ISSUE_REFUND /\ L[s].ok
     /\ \A t \in DOMAIN L : L[t].type \in {"state_changed", "idempotent_replay"}
                              => L[t].intent # L[s].intent}

PhantomSuccesses(L) ==
  {s \in Typed(L, "tool_call_completed") :
     /\ L[s].tool = ISSUE_REFUND /\ L[s].ok
     /\ L[s].call \notin CallsOf(L, {"state_changed", "idempotent_replay"})}

Anomalies(L) ==
  DuplicateRefunds(L) \cup MisroutedWrites(L) \cup AmountMismatches(L) \cup PhantomSuccesses(L)

(* first_bad_event_seq; a ledger read from the environment that wrote it   *)
(* has an unbroken hash chain, so its chain error is None.                 *)
FirstBadEvent(L) == IF Anomalies(L) = {} THEN NoSeq ELSE Least(Anomalies(L))
-----------------------------------------------------------------------------
(* ground_truth.propose_ground_truth and verdict.aggregate_verdict *)

aggregate_verdict(statuses) ==
  CASE "CONTRADICTED" \in statuses                       -> "CONTRADICTED"
    [] "CONTRADICTED" \notin statuses
         /\ ("UNVERIFIABLE" \in statuses \/ statuses = {}) -> "UNVERIFIABLE"
    [] OTHER                                             -> "SUPPORTED"

ExpectedStatuses(L, externalClaim) ==
  LET found == (IF Anomalies(L) = {} THEN {} ELSE {"CONTRADICTED"})
                 \cup (IF externalClaim THEN {"UNVERIFIABLE"} ELSE {})
  IN  IF found = {} THEN {"SUPPORTED"} ELSE found

propose_ground_truth(L, externalClaim) ==
  [verdict |-> aggregate_verdict(ExpectedStatuses(L, externalClaim)),
   first_bad |-> FirstBadEvent(L)]

(* run_case: an external claim is expected iff the agent called send_email, *)
(* whether or not the call went through.                                   *)
ExternalClaim == \E c \in DOMAIN answers : answers[c].tool = SEND_EMAIL

Label == propose_ground_truth(ledger, ExternalClaim)
-----------------------------------------------------------------------------
(* Properties *)

Issues == verify_temporal(ledger)
FirstBads(kinds) == {x.first_bad : x \in {y \in Issues : y.kind \in kinds}}

(* The auditor's duplicate and phantom findings are exactly the label      *)
(* builder's, event for event, though one walks adjacent commits per       *)
(* intent and the other collects everything after an intent's first        *)
(* commit, and one scopes calls by intent where the other does not.        *)
DetectorsAgree ==
  /\ FirstBads({"duplicate_commit", "retry_after_post_commit_timeout"}) = DuplicateRefunds(ledger)
  /\ FirstBads({"success_without_commit"}) = PhantomSuccesses(ledger)

(* "The timeout itself is never called the bug": the blamed event is a     *)
(* commit or a lying success, never a timeout or a failure, and an intent  *)
(* whose only trouble was a timeout before its single commit is clean.     *)
TimeoutIsNeverTheBug ==
  /\ \A x \in Issues : ledger[x.first_bad].type \in {"state_changed", "tool_call_completed"}
  /\ FirstBadEvent(ledger) # NoSeq =>
       ledger[FirstBadEvent(ledger)].type \in {"state_changed", "tool_call_completed"}
  /\ \A i \in Intents :
       (Cardinality(ScopedCommits(ledger, i)) <= 1
          /\ \A c \in DOMAIN answers :
               answers[c].intent = i => FiredAt(c) \subseteq {"timeout_before_commit"})
         => issues_for_intents(Issues, {i}) = {}

(* The auditor's wording tells what the agent knew: a repeated commit is   *)
(* called a retry after a post-commit timeout iff the call that made the   *)
(* previous commit was answered with a timeout, and its evidence then      *)
(* names that call's timeout.                                              *)
RetryKindMatchesAnswer ==
  \A i \in Intents : \A p \in AdjacentCommits(ledger, i) :
    LET issue == RepeatedCommitIssue(ledger, i, p[1], p[2])
        call  == ledger[p[1]].call
    IN  /\ (issue.kind = "retry_after_post_commit_timeout")
              <=> (answers[call].error = "ToolTimeout")
        /\ (answers[call].error = "ToolTimeout")
              => \E t \in issue.evidence : /\ ledger[t].type = "network_timeout"
                                           /\ ledger[t].call = call
                                           /\ ledger[t].txn = p[1]

(* Retrying safely is never held against the agent: with an idempotent     *)
(* tool, an intent whose refund calls all ask for the same thing under the *)
(* same key has no repeated commit, whatever timeouts it went through.     *)
SafeRetryIsClean ==
  IdempotencyEnabled =>
    \A i \in Intents :
      (\A c, d \in DOMAIN answers :
         ({answers[c].tool, answers[d].tool} = {ISSUE_REFUND}
            /\ {answers[c].intent, answers[d].intent} = {i}) => answers[c].key = answers[d].key)
        => \A x \in issues_for_intents(Issues, {i}) : x.kind = "success_without_commit"

RowsOf(i) == {r \in refunds : r.intent = i}

(* A SUPPORTED label is true of the database, not only of the ledger: no   *)
(* intent was refunded twice, every order and amount is the one asked for, *)
(* and every success the agent saw stands for a row that exists.  And a    *)
(* run in which nothing lied and no intent committed twice is never        *)
(* labelled CONTRADICTED.                                                  *)
LabelTellsTheDatabase ==
  /\ Label.verdict = "SUPPORTED" =>
       /\ \A i \in Intents : Cardinality(RowsOf(i)) <= 1
       /\ \A r \in refunds : LET asked == answers[r.call].asked
                             IN  r.order = asked.order /\ r.amount = asked.amount
       /\ \A c \in DOMAIN answers :
            (answers[c].tool = ISSUE_REFUND /\ answers[c].ok)
              => \E r \in refunds : r.txn = answers[c].txn /\ r.order = answers[c].asked.order
  /\ Label.verdict = "CONTRADICTED" =>
       \/ \E i \in Intents : Cardinality(RowsOf(i)) > 1
       \/ \E c \in DOMAIN answers : FiredAt(c) \ {"timeout_before_commit", "timeout_after_commit"} # {}

(* The first bad event is a fact of the past: no later call, however it    *)
(* ends, moves the blame or clears it.                                     *)
BlameIsStable ==
  [][FirstBadEvent(ledger) # NoSeq => FirstBadEvent(ledger') = FirstBadEvent(ledger)]_vars

(* A timeout explains a repeated commit and is never blamed for it: it is  *)
(* no issue and no first bad event of its own, and a repeat is worded as a *)
(* retry after a timeout exactly when the agent had been told of one       *)
(* (auditor/temporal_verifier.py verify_temporal).                         *)
TimeoutIsOnlyContext == TimeoutIsNeverTheBug /\ RetryKindMatchesAnswer
=============================================================================
