----------------------- MODULE RefundImplementation -----------------------
(* The refund environment implements the promise of RefundContract: the    *)
(* payments are the rows of the refunds table, the answers are those of    *)
(* the issue_refund calls that reached the handler.                        *)
EXTENDS RefundEnv

LyingFaults == FaultKinds \ {"timeout_after_commit", "timeout_before_commit"}

RefundAnswers == {c \in DOMAIN answers : answers[c].tool = ISSUE_REFUND /\ answers[c].key # NoKey}

PaidRefunds ==
  {[id |-> r.txn, key |-> r.key, order |-> r.order, amount |-> r.amount] : r \in refunds}

ToldAnswers ==
  {[call |-> c, key |-> answers[c].key, order |-> answers[c].asked.order,
    amount |-> answers[c].asked.amount, ok |-> answers[c].ok, ref |-> answers[c].txn]
   : c \in RefundAnswers}

Contract == INSTANCE RefundContract
  WITH paid <- PaidRefunds, told <- ToldAnswers, Idempotent <- IdempotencyEnabled,
       lies <- \E n \in 1..MaxCalls : plan[n] \in LyingFaults

(* Through timeouts before and after the commit, rollbacks, refusals and   *)
(* retries in any order, the handler of issue_refund does what the         *)
(* contract promises: every step is one of its steps or invisible to it.   *)
ImplementsContract == Contract!ContractSpec
=============================================================================
