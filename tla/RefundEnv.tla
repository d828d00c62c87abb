----------------------------- MODULE RefundEnv -----------------------------
(***************************************************************************)
(* The refund environment of one ProofTrail case: the SQLite business      *)
(* state (env/database.py), the append-only event ledger (env/ledger.py),  *)
(* the fault injector (env/faults.py) and the tool suite that writes to    *)
(* all three (env/tools.py).                                               *)
(*                                                                         *)
(* A case is served by one thread on one in-memory database, so a tool     *)
(* handler runs to its end before the next call: one action per outcome of *)
(* a handler, each standing for the whole handler, the ledger rows it      *)
(* appends in their order and the answer it gives to the agent.            *)
(*                                                                         *)
(* The n-th tool call of the case has id n (ids.tool_call_id digests the   *)
(* attempt ordinal).  A ledger row's seq is its position.  Identifiers     *)
(* that the code derives by hashing different inputs are different values. *)
(***************************************************************************)
EXTENDS Integers, Sequences, FiniteSets

CONSTANTS
  Orders,             \* orders seeded for the case's customer
  OrderAmount,        \* OrderAmount[o]: the price of o in cents
  Intents,            \* ids of the user requests of the case
  AskedOrders,        \* order ids a call may name; those outside Orders do not exist
  AskedAmounts,       \* amounts a call may ask for; the code refuses those <= 0
  ExplicitKeys,       \* idempotency keys a direct caller may choose itself
  IdempotencyEnabled, \* RefundTool(idempotency_enabled=...)
  FaultPlans,         \* the fault plans to explore: [1..MaxCalls -> FaultKinds \cup {NoFault}]
  DriftCents,         \* params["delta_cents"] of an amount drift
  StoreMayFail,       \* whether writing STATE_CHANGED may raise inside the transaction
  MaxCalls,           \* bound: tool calls in one case
  ReadTools,          \* the ledgered read-only tools
  NoOrder, NoKey      \* absent values (None in the code)

FaultKinds == {"timeout_after_commit", "timeout_before_commit", "phantom_success",
               "amount_drift", "misrouted_write", "partial_commit"}
NoFault == "none"

ISSUE_REFUND == "issue_refund"
SEND_EMAIL == "send_email"

AnyOrder == Orders \cup AskedOrders
DerivedKeys == Intents \X AskedOrders \X AskedAmounts
Keys == DerivedKeys \cup ExplicitKeys

ASSUME OrdersAssumption ==
  /\ Orders # {} /\ NoOrder \notin AnyOrder
  /\ OrderAmount \in [Orders -> Nat]
ASSUME CallsAssumption ==
  /\ AskedAmounts \subseteq Int
  /\ NoKey \notin Keys
  /\ ReadTools \subseteq {"lookup_customer", "lookup_order", "list_refunds"}
  /\ IdempotencyEnabled \in BOOLEAN /\ StoreMayFail \in BOOLEAN
ASSUME FaultsAssumption ==
  /\ MaxCalls \in Nat
  /\ DriftCents \in Int
  /\ FaultPlans \subseteq [1..MaxCalls -> FaultKinds \cup {NoFault}]

VARIABLES
  orders,      \* orders table: [Orders -> [status, refunded_cents]]
  refunds,     \* refunds table: a set of rows
  ledger,      \* ledger table: the sequence of events
  plan,        \* plan[n]: the fault whose nth_call is n (FaultInjector.specs)
  refundCalls, \* FaultInjector._calls["issue_refund"]
  fired,       \* FaultInjector.fired
  sentEmails,  \* RefundTool.sent_emails: the calls that sent one
  answers      \* answers[c]: what call c gave back to the agent

db == <<orders, refunds>>
vars == <<orders, refunds, ledger, plan, refundCalls, fired, sentEmails, answers>>
-----------------------------------------------------------------------------
(* Identifiers *)

(* ids.transaction_id digests the ledger position the commit will occupy;  *)
(* a phantom success invents one out of the call id.  The two digests      *)
(* never meet, so positions are positive and phantoms negative.            *)
NoTxn == 0
PhantomTxn(call) == -call
next_transaction_id(position) == position

(* ids.idempotency_key: same intent and same arguments, same key. *)
MakeKey(intent, ask) == <<intent, ask.order, ask.amount>>
-----------------------------------------------------------------------------
(* Rows *)

Statuses == {"paid", "partially_refunded", "refunded"}
EventTypes == {"user_intent", "tool_call_started", "state_changed", "tool_call_completed",
               "tool_call_failed", "network_timeout", "idempotent_replay"}
Errors == {"none", "ValueError", "KeyError", "TypeError", "IdempotencyConflict",
           "StorageError", "ToolTimeout"}

Ask == [order : AskedOrders, amount : AskedAmounts]
NoAsk == [order |-> NoOrder, amount |-> 0]

OrderRow == [status : Statuses, refunded_cents : Nat]
RefundRow == [order : Orders, amount : Nat \ {0}, txn : Nat \ {0}, intent : Intents,
              key : Keys, call : Nat \ {0}]

Snapshot == [status : Statuses, amount_cents : Nat, refunded_cents : Nat, refund_count : Nat]
NoSnapshot == [status |-> "none", amount_cents |-> 0, refunded_cents |-> 0, refund_count |-> 0]

Event == [type : EventTypes, tool : ReadTools \cup {ISSUE_REFUND, "none"},
          intent : Intents, call : Nat, txn : Int, key : Keys \cup {NoKey},
          entity : AnyOrder \cup {NoOrder},
          before : Snapshot \cup {NoSnapshot}, after : Snapshot \cup {NoSnapshot},
          asked : Ask \cup {NoAsk}, committed : Nat, ok : BOOLEAN, error : Errors]

(* An event with only its type and correlation ids filled in. *)
BlankEvent(type, tool, intent, call) ==
  [type |-> type, tool |-> tool, intent |-> intent, call |-> call, txn |-> NoTxn,
   key |-> NoKey, entity |-> NoOrder, before |-> NoSnapshot, after |-> NoSnapshot,
   asked |-> NoAsk, committed |-> 0, ok |-> FALSE, error |-> "none"]

Answer == [tool : ReadTools \cup {ISSUE_REFUND, SEND_EMAIL, "unknown"},
           intent : Intents, asked : Ask \cup {NoAsk}, key : Keys \cup {NoKey},
           ok : BOOLEAN, error : Errors, txn : Int]
-----------------------------------------------------------------------------
(* The database *)

SnapshotIn(orderTable, refundTable, o) ==
  [status |-> orderTable[o].status,
   amount_cents |-> OrderAmount[o],
   refunded_cents |-> orderTable[o].refunded_cents,
   refund_count |-> Cardinality({r \in refundTable : r.order = o})]

snapshot_order(o) == SnapshotIn(orders, refunds, o)

SeedSnapshot(o) == [status |-> "paid", amount_cents |-> OrderAmount[o],
                    refunded_cents |-> 0, refund_count |-> 0]

(* Mutant: a refund whose answer never reached the caller is not found. *)
Existing_AnsweredOnly(key) ==
  {r \in refunds : IdempotencyEnabled /\ r.key = key /\ answers[r.call].ok}

(* find_refund_by_idempotency_key, consulted only by an idempotent tool. *)
Existing(key) == {r \in refunds : IdempotencyEnabled /\ r.key = key}

(* Mutants: the refund is taken off the total; it replaces the total. *)
OrderAfter_Subtracts(o, amount) ==
  [status |-> "partially_refunded", refunded_cents |-> orders[o].refunded_cents - amount]
OrderAfter_Overwrites(o, amount) ==
  [status |-> IF amount >= OrderAmount[o] THEN "refunded" ELSE "partially_refunded",
   refunded_cents |-> amount]

(* apply_refund: no over-refund check, by design. *)
OrderAfter(o, amount) ==
  LET total == orders[o].refunded_cents + amount
  IN  [status |-> IF total >= OrderAmount[o] THEN "refunded" ELSE "partially_refunded",
       refunded_cents |-> total]

OrdersAfter(o, amount) == [orders EXCEPT ![o] = OrderAfter(o, amount)]
-----------------------------------------------------------------------------
(* What every call does first *)

Call == Len(answers) + 1           \* id of the call being served
CallIndex == refundCalls + 1       \* record_call
Fault == plan[CallIndex]           \* active: at most one fault per call index

Served == Len(answers) < MaxCalls  \* bound

Reply(tool, intent, asked, key, ok, error, txn) ==
  answers' = Append(answers, [tool |-> tool, intent |-> intent, asked |-> asked, key |-> key,
                              ok |-> ok, error |-> error, txn |-> txn])

Recorded(intent) == \E s \in DOMAIN ledger :
                       ledger[s].type = "user_intent" /\ ledger[s].intent = intent

RefundEvent(type, intent, ask, key) ==
  [BlankEvent(type, ISSUE_REFUND, intent, Call) EXCEPT !.asked = ask, !.key = key]

LedgerStarted(intent, ask, key) ==
  Append(ledger, RefundEvent("tool_call_started", intent, ask, key))

(* STARTED is ledgered, then the injector counts the call and logs the     *)
(* fault it selects, before any argument is looked at.                     *)
EnterRefund(intent) ==
  /\ Served
  /\ Recorded(intent)
  /\ refundCalls' = CallIndex
  /\ fired' = IF Fault = NoFault THEN fired
              ELSE Append(fired, [kind |-> Fault, call |-> Call, index |-> CallIndex])
  /\ UNCHANGED <<plan, sentEmails>>

(* _refund_error: FAILED, then the exception reaches the caller. *)
FailWith(intent, ask, key, error) ==
  /\ ledger' = Append(LedgerStarted(intent, ask, key),
                      [RefundEvent("tool_call_failed", intent, ask, key) EXCEPT !.error = error])
  /\ Reply(ISSUE_REFUND, intent, ask, key, FALSE, error, NoTxn)
  /\ UNCHANGED db
-----------------------------------------------------------------------------
(* issue_refund: one action per way through the handler *)

Invalid(ask) == ask.amount <= 0 \/ ask.order \notin Orders

RefuseInvalid(intent, ask, key) ==
  /\ EnterRefund(intent)
  /\ Invalid(ask)
  /\ FailWith(intent, ask, key, IF ask.amount <= 0 THEN "ValueError" ELSE "KeyError")

(* Mutants: only the order is compared; nothing is. *)
Conflicts_OrderOnly(row, ask) == row.order # ask.order
(* The key names a refund that was committed for another order or amount   *)
(* than this call asks for.                                                *)
Conflicts(row, ask) == row.order # ask.order \/ row.amount # ask.amount

RefuseConflict(intent, ask, key) ==
  /\ EnterRefund(intent)
  /\ ~Invalid(ask)
  /\ \E row \in Existing(key) : Conflicts(row, ask)
  /\ FailWith(intent, ask, key, "IdempotencyConflict")

(* A safe retry: the original transaction is returned, nothing commits. *)
Replay(intent, ask, key) ==
  /\ EnterRefund(intent)
  /\ ~Invalid(ask)
  /\ \E row \in Existing(key) :
       /\ ~Conflicts(row, ask)
       /\ LET snap == snapshot_order(ask.order)
              replayed == [RefundEvent("idempotent_replay", intent, ask, key) EXCEPT
                             !.txn = row.txn, !.entity = ask.order,
                             !.before = snap, !.after = snap, !.ok = TRUE]
              completed == [RefundEvent("tool_call_completed", intent, ask, key) EXCEPT
                              !.txn = row.txn, !.ok = TRUE]
          IN  ledger' = Append(Append(LedgerStarted(intent, ask, key), replayed), completed)
       /\ Reply(ISSUE_REFUND, intent, ask, key, TRUE, "none", row.txn)
  /\ UNCHANGED db

(* The call is valid and no earlier refund answers it. *)
Fresh(ask, key) == ~Invalid(ask) /\ Existing(key) = {}

TimeoutEvent(intent, ask, key, txn) ==
  [RefundEvent("network_timeout", intent, ask, key) EXCEPT !.txn = txn, !.entity = ask.order,
                                                           !.error = "ToolTimeout"]

TimeoutBeforeCommit(intent, ask, key) ==
  /\ EnterRefund(intent)
  /\ Fresh(ask, key)
  /\ Fault = "timeout_before_commit"
  /\ ledger' = Append(LedgerStarted(intent, ask, key), TimeoutEvent(intent, ask, key, NoTxn))
  /\ Reply(ISSUE_REFUND, intent, ask, key, FALSE, "ToolTimeout", NoTxn)
  /\ UNCHANGED db

CompletedEvent(intent, ask, key, txn) ==
  [RefundEvent("tool_call_completed", intent, ask, key) EXCEPT !.txn = txn, !.ok = TRUE]

PhantomSuccess(intent, ask, key) ==
  /\ EnterRefund(intent)
  /\ Fresh(ask, key)
  /\ Fault = "phantom_success"
  /\ ledger' = Append(LedgerStarted(intent, ask, key),
                      CompletedEvent(intent, ask, key, PhantomTxn(Call)))
  /\ Reply(ISSUE_REFUND, intent, ask, key, TRUE, "none", PhantomTxn(Call))
  /\ UNCHANGED db

(* Past the two faults that return before touching state. *)
Proceeds(ask, key) ==
  Fresh(ask, key) /\ Fault \notin {"timeout_before_commit", "phantom_success"}

(* _other_order_id.  The seeder has prices for two orders at most, so the  *)
(* customer has at most one other order and "the first" is that one.       *)
OtherOrders(o) == Orders \ {o}

(* The lookup raises outside the handler's try block: the call leaves a    *)
(* STARTED row and nothing else.                                           *)
MisrouteWithoutTarget(intent, ask, key) ==
  /\ EnterRefund(intent)
  /\ Proceeds(ask, key)
  /\ Fault = "misrouted_write"
  /\ OtherOrders(ask.order) = {}
  /\ ledger' = LedgerStarted(intent, ask, key)
  /\ Reply(ISSUE_REFUND, intent, ask, key, FALSE, "KeyError", NoTxn)
  /\ UNCHANGED db

ActualOrders(ask) == IF Fault = "misrouted_write" THEN OtherOrders(ask.order) ELSE {ask.order}

(* int(round(amount * 0.5)): Python rounds a half to the even neighbour. *)
HalfRounded(n) == IF n % 4 = 3 THEN (n \div 2) + 1 ELSE n \div 2

ActualAmount(ask) ==
  CASE Fault = "amount_drift"   -> ask.amount + DriftCents
    [] Fault = "partial_commit" -> HalfRounded(ask.amount)
    [] OTHER                    -> ask.amount

RefuseNonPositive(intent, ask, key) ==
  /\ EnterRefund(intent)
  /\ Proceeds(ask, key)
  /\ ActualOrders(ask) # {}
  /\ ActualAmount(ask) <= 0
  /\ FailWith(intent, ask, key, "ValueError")

(* STARTED is the next ledger row, STATE_CHANGED the one after. *)
CommitPosition == Len(ledger) + 2

NewRow(intent, ask, key, o) ==
  [order |-> o, amount |-> ActualAmount(ask), txn |-> next_transaction_id(CommitPosition),
   intent |-> intent, key |-> key, call |-> Call]

(* Mutant: state_before is the requested order's snapshot. *)
CommitEvent_BeforeOfRequested(intent, ask, key, o) ==
  [RefundEvent("state_changed", intent, ask, key) EXCEPT
     !.txn = next_transaction_id(CommitPosition),
     !.entity = o,
     !.before = snapshot_order(ask.order),
     !.after = SnapshotIn(orders', refunds', o),
     !.committed = ActualAmount(ask)]

CommitEvent(intent, ask, key, o) ==
  [RefundEvent("state_changed", intent, ask, key) EXCEPT
     !.txn = next_transaction_id(CommitPosition),
     !.entity = o,
     !.before = snapshot_order(o),
     !.after = SnapshotIn(orders', refunds', o),
     !.committed = ActualAmount(ask)]

(* The business rows and STATE_CHANGED go into one transaction; then the   *)
(* injected timeout raises or the call reports what was *requested*.       *)
Commit(intent, ask, key) ==
  /\ EnterRefund(intent)
  /\ Proceeds(ask, key)
  /\ ActualAmount(ask) > 0
  /\ \E o \in ActualOrders(ask) :
       LET txn      == next_transaction_id(CommitPosition)
           timedOut == Fault = "timeout_after_commit"
           lastRow  == IF timedOut THEN TimeoutEvent(intent, ask, key, txn)
                                   ELSE CompletedEvent(intent, ask, key, txn)
       IN  /\ orders' = OrdersAfter(o, ActualAmount(ask))
           /\ refunds' = refunds \cup {NewRow(intent, ask, key, o)}
           /\ ledger' = Append(Append(LedgerStarted(intent, ask, key),
                                      CommitEvent(intent, ask, key, o)), lastRow)
           /\ IF timedOut
                THEN Reply(ISSUE_REFUND, intent, ask, key, FALSE, "ToolTimeout", NoTxn)
                ELSE Reply(ISSUE_REFUND, intent, ask, key, TRUE, "none", txn)

(* Mutant: the exception is ledgered but the transaction is committed. *)
RollBack_Forgotten(intent, ask, key) ==
  /\ StoreMayFail
  /\ EnterRefund(intent)
  /\ Proceeds(ask, key)
  /\ ActualAmount(ask) > 0
  /\ \E o \in ActualOrders(ask) :
       /\ orders' = OrdersAfter(o, ActualAmount(ask))
       /\ refunds' = refunds \cup {NewRow(intent, ask, key, o)}
  /\ ledger' = Append(LedgerStarted(intent, ask, key),
                      [RefundEvent("tool_call_failed", intent, ask, key) EXCEPT
                         !.error = "StorageError"])
  /\ Reply(ISSUE_REFUND, intent, ask, key, FALSE, "StorageError", NoTxn)

(* A write inside the transaction raises: ROLLBACK, then FAILED. *)
RollBack(intent, ask, key) ==
  /\ StoreMayFail
  /\ EnterRefund(intent)
  /\ Proceeds(ask, key)
  /\ ActualOrders(ask) # {}
  /\ ActualAmount(ask) > 0
  /\ FailWith(intent, ask, key, "StorageError")

IssueRefund(intent, ask, key) ==
  \/ RefuseInvalid(intent, ask, key)
  \/ RefuseConflict(intent, ask, key)
  \/ Replay(intent, ask, key)
  \/ TimeoutBeforeCommit(intent, ask, key)
  \/ PhantomSuccess(intent, ask, key)
  \/ MisrouteWithoutTarget(intent, ask, key)
  \/ RefuseNonPositive(intent, ask, key)
  \/ Commit(intent, ask, key)
  \/ RollBack(intent, ask, key)
-----------------------------------------------------------------------------
(* The other tools *)

(* record_user_intent: once per request, in the order of the requests'     *)
(* arrival.                                                                *)
RecordUserIntent(intent) ==
  /\ ~Recorded(intent)
  /\ ledger' = Append(ledger, BlankEvent("user_intent", "none", intent, 0))
  /\ UNCHANGED <<db, plan, refundCalls, fired, sentEmails, answers>>

(* lookup_customer, lookup_order, list_refunds: the row that was read or   *)
(* its absence is a completed call either way.                             *)
ReadTool(tool, intent, found) ==
  /\ Served
  /\ Recorded(intent)
  /\ ledger' = Append(Append(ledger, BlankEvent("tool_call_started", tool, intent, Call)),
                      [BlankEvent("tool_call_completed", tool, intent, Call) EXCEPT !.ok = found])
  /\ Reply(tool, intent, NoAsk, NoKey, found, "none", NoTxn)
  /\ UNCHANGED <<db, plan, refundCalls, fired, sentEmails>>

(* send_email: an external effect the ledger never sees. *)
SendEmail(intent) ==
  /\ Served
  /\ Recorded(intent)
  /\ sentEmails' = Append(sentEmails, Call)
  /\ Reply(SEND_EMAIL, intent, NoAsk, NoKey, TRUE, "none", NoTxn)
  /\ UNCHANGED <<db, ledger, plan, refundCalls, fired>>

(* call with an unknown tool name (KeyError), or a handler whose required  *)
(* arguments are missing (TypeError): it raises before its first line.     *)
RejectedDispatch(tool, intent) ==
  /\ Served
  /\ Recorded(intent)
  /\ Reply(tool, intent, NoAsk, NoKey, FALSE,
           IF tool = "unknown" THEN "KeyError" ELSE "TypeError", NoTxn)
  /\ UNCHANGED <<db, ledger, plan, refundCalls, fired, sentEmails>>
-----------------------------------------------------------------------------
Init ==
  /\ orders = [o \in Orders |-> [status |-> "paid", refunded_cents |-> 0]]
  /\ refunds = {}
  /\ ledger = <<>>
  /\ plan \in FaultPlans
  /\ refundCalls = 0
  /\ fired = <<>>
  /\ sentEmails = <<>>
  /\ answers = <<>>

RefundStep ==
  \E intent \in Intents, ask \in Ask : \E key \in {MakeKey(intent, ask)} \cup ExplicitKeys :
    IssueRefund(intent, ask, key)

OtherStep ==
  \E intent \in Intents :
    \/ RecordUserIntent(intent)
    \/ \E tool \in ReadTools, found \in BOOLEAN : ReadTool(tool, intent, found)
    \/ SendEmail(intent)
    \/ \E tool \in ReadTools \cup {ISSUE_REFUND, SEND_EMAIL, "unknown"} :
         RejectedDispatch(tool, intent)

Next == RefundStep \/ OtherStep

Spec == Init /\ [][Next]_vars
-----------------------------------------------------------------------------
(* Properties *)

TypeOK ==
  /\ orders \in [Orders -> OrderRow]
  /\ refunds \subseteq RefundRow /\ IsFiniteSet(refunds)
  /\ ledger \in Seq(Event)
  /\ plan \in FaultPlans
  /\ refundCalls \in Nat
  /\ fired \in Seq([kind : FaultKinds, call : Nat, index : Nat])
  /\ sentEmails \in Seq(Nat)
  /\ answers \in Seq(Answer)

EventsOf(type) == {s \in DOMAIN ledger : ledger[s].type = type}
Commits == EventsOf("state_changed")

RowAt(s) == [order |-> ledger[s].entity, amount |-> ledger[s].committed, txn |-> s,
             intent |-> ledger[s].intent, key |-> ledger[s].key, call |-> ledger[s].call]

(* The refunds table and the STATE_CHANGED rows are the same set of        *)
(* transactions, each bound to the ledger position it occupies: neither    *)
(* side of the shared SQLite transaction (env/tools.py issue_refund) ever  *)
(* has a row the other lacks, whatever faults and rollbacks happened.      *)
LedgerMirrorsRefunds ==
  /\ refunds = {RowAt(s) : s \in Commits}
  /\ \A s \in Commits : ledger[s].txn = s

(* The commits on order o among the first n ledger rows. *)
CommitsOn(o, n) == {s \in Commits : s <= n /\ ledger[s].entity = o}

(* The snapshot of o that the first n ledger rows tell: the state_after of *)
(* its last commit, or the seeded row.                                     *)
IsSnapshotAt(snap, o, n) ==
  /\ CommitsOn(o, n) = {} => snap = SeedSnapshot(o)
  /\ \A s \in CommitsOn(o, n) :
       (\A t \in CommitsOn(o, n) : t <= s) => snap = ledger[s].after

(* The ledger alone tells every balance: each commit's state_before is     *)
(* what the ledger said just before it, its state_after adds exactly the   *)
(* committed amount and one refund, and the last one is the database's     *)
(* row.  The auditor reads balances from these snapshots only.             *)
SnapshotsChain ==
  /\ \A s \in Commits :
       /\ IsSnapshotAt(ledger[s].before, ledger[s].entity, s - 1)
       /\ ledger[s].after.refunded_cents = ledger[s].before.refunded_cents + ledger[s].committed
       /\ ledger[s].after.refund_count = ledger[s].before.refund_count + 1
  /\ \A o \in Orders : IsSnapshotAt(snapshot_order(o), o, Len(ledger))

(* An idempotent tool commits at most one transaction per idempotency key, *)
(* however often a call is retried and wherever the first attempt's answer *)
(* was lost (env/tools.py, "a safe retry").                                *)
AtMostOncePerKey ==
  IdempotencyEnabled => \A s, t \in Commits : ledger[s].key = ledger[t].key => s = t

Terminal == {"tool_call_completed", "tool_call_failed", "network_timeout"}

FiredAt(call) == {fired[j].kind : j \in {x \in DOMAIN fired : fired[x].call = call}}

(* A ledgered STARTED is closed by exactly one COMPLETED, FAILED or        *)
(* TIMEOUT row of the same call before anything of another call is         *)
(* ledgered (schemas/events.py: "at least a STARTED and a ..."), unless a  *)
(* misrouted write had no other order to go to.                            *)
EveryStartedCallCloses ==
  \A s \in EventsOf("tool_call_started") :
    \/ "misrouted_write" \in FiredAt(ledger[s].call) /\ Cardinality(Orders) = 1
    \/ \E e \in s+1 .. s+2 :
         /\ e \in DOMAIN ledger
         /\ {t \in DOMAIN ledger : ledger[t].call = ledger[s].call
                                     /\ ledger[t].type \in Terminal} = {e}
         /\ \A t \in s .. e : ledger[t].call = ledger[s].call

Backs(s, asked) == ledger[s].entity = asked.order /\ ledger[s].committed = asked.amount

(* The tools lie only where a fault was injected: an issue_refund answered *)
(* ok names a transaction that moved exactly the asked amount on exactly   *)
(* the asked order, unless a phantom, drift, misroute or partial fault     *)
(* fired on that very call.  In particular a replay never launders an      *)
(* earlier faulty commit into a truthful-looking success.                  *)
OkAnswersAreBacked ==
  \A c \in DOMAIN answers :
    (answers[c].tool = ISSUE_REFUND /\ answers[c].ok) =>
      \/ \E s \in Commits : answers[c].txn = s /\ Backs(s, answers[c].asked)
      \/ /\ FiredAt(c) = {"phantom_success"}
         /\ \A s \in Commits : ledger[s].call # c
      \/ /\ FiredAt(c) \cap {"amount_drift", "misrouted_write", "partial_commit"} # {}
         /\ \E s \in Commits : ledger[s].call = c /\ answers[c].txn = s

RefundStarts == {s \in EventsOf("tool_call_started") : ledger[s].tool = ISSUE_REFUND}

(* The injector's log names the exact calls the plan singled out: the k-th *)
(* ledgered issue_refund attempt is the k-th call the injector counted,    *)
(* and it is logged as fired iff the plan has a fault for it               *)
(* (env/faults.py: "point at the exact call").                             *)
FaultsFireOnSchedule ==
  /\ refundCalls = Cardinality(RefundStarts)
  /\ \A s \in RefundStarts :
       LET k == Cardinality({t \in RefundStarts : t <= s})
       IN  FiredAt(ledger[s].call) = {plan[k]} \ {NoFault}
  /\ \A i, j \in DOMAIN fired : i < j => fired[i].index < fired[j].index

(* An IDEMPOTENT_REPLAY row cites an earlier commit under the same key     *)
(* that did exactly what this call asks, and shows the order as the ledger *)
(* left it: the auditor may count the replayed call as done.               *)
ReplayCitesOriginal ==
  \A s \in EventsOf("idempotent_replay") :
    /\ IdempotencyEnabled
    /\ \E t \in Commits : /\ t < s /\ ledger[s].txn = t
                          /\ ledger[t].key = ledger[s].key
                          /\ Backs(t, ledger[s].asked)
    /\ IsSnapshotAt(ledger[s].before, ledger[s].entity, s)
    /\ ledger[s].after = ledger[s].before

(* What a step may do to the system of record: extend the ledger and the   *)
(* refunds table, never rewrite them; move an order's row only together    *)
(* with the one commit it ledgers; and never lower a refunded total.       *)
HistoryIsNeverRewritten ==
  [][/\ Len(ledger') >= Len(ledger)
     /\ \A s \in DOMAIN ledger : ledger'[s] = ledger[s]
     /\ refunds \subseteq refunds'
     /\ \A o \in Orders :
          orders'[o] # orders[o] =>
            /\ orders'[o].refunded_cents > orders[o].refunded_cents
            /\ \E s \in DOMAIN ledger' : /\ s > Len(ledger)
                                         /\ ledger'[s].type = "state_changed"
                                         /\ ledger'[s].entity = o]_vars

(* What the agent was told, what the ledger says and what the injector     *)
(* logged are one story: every started call is closed before the next, an  *)
(* ok answer is backed unless a fault fired on that very call, a replay    *)
(* cites a commit that did what is asked, and faults fire on the calls the *)
(* plan singled out (env/tools.py issue_refund, env/faults.py).            *)
AnswersMatchTheLedger ==
  /\ EveryStartedCallCloses
  /\ OkAnswersAreBacked
  /\ ReplayCitesOriginal
  /\ FaultsFireOnSchedule
=============================================================================
