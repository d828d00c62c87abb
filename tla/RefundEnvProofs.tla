-------------------------- MODULE RefundEnvProofs --------------------------
(* Why the refund environment keeps its promises, for any orders,          *)
(* requests, keys, fault plans and number of calls: first its stores and   *)
(* the rows of its ledger, then what it tells its caller (it implements    *)
(* RefundContract) and the reader of its ledger (AnswersMatchTheLedger).   *)
EXTENDS RefundImplementation, FiniteSetTheorems, WellFoundedInduction, TLAPS

(* A set of numbers that is not empty has a smallest member. *)
LEMMA HasLeast ==
  ASSUME NEW S, S \subseteq Nat, S # {}
  PROVE  \E x \in S : \A y \in S : x <= y
<1>. DEFINE Before == {pair \in Nat \X Nat : pair[1] < pair[2]}
<1>1. IsWellFoundedOn(Before, Nat)
  BY NatLessThanWellFounded DEF OpToRel
<1>2. \E x \in S : \A y \in S : ~ (<<y, x>> \in Before)
  <2>. HIDE DEF Before
  <2>. QED
    BY <1>1, WFMin, Zenon
<1>3. PICK x \in S : \A y \in S : ~ (<<y, x>> \in Before)
  BY <1>2, Zenon
<1>4. \A y \in S : ~ (y < x)
  <2>. TAKE y \in S
  <2>1. x \in Nat /\ y \in Nat
    BY <1>3
  <2>2. y < x => <<y, x>> \in Before
    BY <2>1
  <2>. QED
    BY <1>3, <2>2
<1>5. \A y \in S : x <= y
  <2>. HIDE DEF Before
  <2>. QED
    BY <1>3, <1>4
<1>. QED
  BY <1>3, <1>5, Zenon

(* What appending one row to a sequence of rows does. *)
LEMMA AppendRow ==
  ASSUME NEW S, NEW seq \in Seq(S), NEW e \in S
  PROVE  /\ Append(seq, e) \in Seq(S)
         /\ Len(Append(seq, e)) = Len(seq) + 1
         /\ Len(seq) \in Nat
         /\ Append(seq, e)[Len(seq) + 1] = e
         /\ \A s \in 1 .. Len(seq) : Append(seq, e)[s] = seq[s]
  OBVIOUS

(* The rows the environment writes are ledger events. *)
LEMMA BlankEventType ==
  ASSUME NEW type \in EventTypes, NEW tool \in ReadTools \cup {ISSUE_REFUND, "none"},
         NEW intent \in Intents, NEW call \in Nat
  PROVE  BlankEvent(type, tool, intent, call) \in Event
  BY DEF BlankEvent, Event, NoTxn, Errors

LEMMA RefundEventType ==
  ASSUME TypeOK, NEW type \in EventTypes, NEW intent \in Intents, NEW ask \in Ask,
         NEW key \in Keys
  PROVE  RefundEvent(type, intent, ask, key) \in Event
<1>1. Call \in Nat
  BY DEF TypeOK, Call
<1>2. BlankEvent(type, ISSUE_REFUND, intent, Call) \in Event
  BY <1>1, BlankEventType
<1>3. ASSUME NEW e \in Event
      PROVE  [e EXCEPT !.asked = ask, !.key = key] \in Event
  BY DEF Event
<1> QED
  BY <1>2, <1>3 DEF RefundEvent

LEMMA RefundEventFields ==
  ASSUME NEW type, NEW intent, NEW ask, NEW key
  PROVE  LET e == RefundEvent(type, intent, ask, key)
         IN  /\ e.type = type /\ e.intent = intent /\ e.key = key /\ e.call = Call
             /\ e.tool = ISSUE_REFUND /\ e.asked = ask
  BY DEF RefundEvent, BlankEvent

(* Filling in the fields of an outcome keeps the row well typed and keeps  *)
(* its type and correlation ids.                                           *)
LEMMA FailedRow ==
  ASSUME NEW e \in Event, NEW error \in Errors
  PROVE  LET r == [e EXCEPT !.error = error] IN r \in Event /\ r.type = e.type
  BY DEF Event

LEMMA ReadRow ==
  ASSUME NEW e \in Event, NEW ok \in BOOLEAN
  PROVE  LET r == [e EXCEPT !.ok = ok] IN r \in Event /\ r.type = e.type
  BY DEF Event

LEMMA CompletedRow ==
  ASSUME NEW e \in Event, NEW txn \in Int
  PROVE  LET r == [e EXCEPT !.txn = txn, !.ok = TRUE] IN r \in Event /\ r.type = e.type
  BY DEF Event

LEMMA TimeoutRow ==
  ASSUME NEW e \in Event, NEW txn \in Int, NEW o \in AskedOrders
  PROVE  LET r == [e EXCEPT !.txn = txn, !.entity = o, !.error = "ToolTimeout"]
         IN  r \in Event /\ r.type = e.type
  BY DEF Event, AnyOrder, Errors

LEMMA SnapshotType ==
  ASSUME NEW orderTable \in [Orders -> OrderRow], NEW refundTable, IsFiniteSet(refundTable),
         NEW o \in Orders
  PROVE  SnapshotIn(orderTable, refundTable, o) \in Snapshot
<1>1. Cardinality({r \in refundTable : r.order = o}) \in Nat
  BY FS_Subset, FS_CardinalityType
<1> QED
  BY <1>1, OrdersAssumption DEF SnapshotIn, Snapshot, OrderRow

LEMMA OrdersAfterType ==
  ASSUME orders \in [Orders -> OrderRow], NEW o \in Orders, NEW amount \in Nat
  PROVE  OrdersAfter(o, amount) \in [Orders -> OrderRow]
  BY DEF OrdersAfter, OrderAfter, OrderRow, Statuses

LEMMA ActualAmountType ==
  ASSUME NEW ask \in Ask
  PROVE  ActualAmount(ask) \in Int
<1>1. ask.amount \in Int /\ DriftCents \in Int
  BY CallsAssumption, FaultsAssumption DEF Ask
<1>2. HalfRounded(ask.amount) \in Int
  BY <1>1 DEF HalfRounded
<1> QED
  BY <1>1, <1>2 DEF ActualAmount
-----------------------------------------------------------------------------
(* What a step does to the system of record: nothing, or one commit. *)

QuietStep ==
  /\ UNCHANGED db
  /\ ledger' \in Seq(Event)
  /\ Len(ledger') >= Len(ledger)
  /\ \A s \in 1 .. Len(ledger) : ledger'[s] = ledger[s]
  /\ \A s \in 1 .. Len(ledger') : s > Len(ledger) => ledger'[s].type # "state_changed"

CommitOf(o, amount, intent, key, at) ==
  /\ Existing(key) = {}
  /\ orders' = OrdersAfter(o, amount)
  /\ refunds' = refunds \cup {[order |-> o, amount |-> amount, txn |-> at,
                               intent |-> intent, key |-> key, call |-> Call]}
  /\ ledger' \in Seq(Event)
  /\ at = Len(ledger) + 2
  /\ Len(ledger') = Len(ledger) + 3
  /\ \A s \in 1 .. Len(ledger) : ledger'[s] = ledger[s]
  /\ \A s \in 1 .. Len(ledger') : s > Len(ledger) =>
       (ledger'[s].type = "state_changed" <=> s = at)
  /\ LET e == ledger'[at]
     IN  /\ e.entity = o /\ e.committed = amount /\ e.txn = at
         /\ e.intent = intent /\ e.key = key /\ e.call = Call
         /\ e.before = snapshot_order(o)
         /\ e.after = SnapshotIn(orders', refunds', o)

CommitStep ==
  \E o \in Orders, amount \in Nat \ {0}, intent \in Intents, key \in Keys, at \in Nat \ {0} :
    CommitOf(o, amount, intent, key, at)

LEMMA QuietOne ==
  ASSUME ledger \in Seq(Event), UNCHANGED db,
         NEW a \in Event, a.type # "state_changed", ledger' = Append(ledger, a)
  PROVE  QuietStep
  BY AppendRow DEF QuietStep

LEMMA QuietTwo ==
  ASSUME ledger \in Seq(Event), UNCHANGED db,
         NEW a \in Event, a.type # "state_changed", NEW b \in Event, b.type # "state_changed",
         ledger' = Append(Append(ledger, a), b)
  PROVE  QuietStep
<1> DEFINE L1 == Append(ledger, a)
<1>1. /\ L1 \in Seq(Event) /\ Len(L1) = Len(ledger) + 1 /\ Len(ledger) \in Nat
      /\ L1[Len(ledger) + 1] = a /\ \A s \in 1 .. Len(ledger) : L1[s] = ledger[s]
  BY AppendRow
<1> HIDE DEF L1
<1>2. /\ Append(L1, b) \in Seq(Event) /\ Len(Append(L1, b)) = Len(L1) + 1
      /\ Append(L1, b)[Len(L1) + 1] = b /\ \A s \in 1 .. Len(L1) : Append(L1, b)[s] = L1[s]
  BY <1>1, AppendRow
<1>3. ledger' = Append(L1, b)
  BY DEF L1
<1> QED
  BY <1>1, <1>2, <1>3 DEF QuietStep

LEMMA AppendThree ==
  ASSUME ledger \in Seq(Event), NEW a \in Event, NEW b \in Event, NEW c \in Event,
         ledger' = Append(Append(Append(ledger, a), b), c)
  PROVE  /\ ledger' \in Seq(Event) /\ Len(ledger) \in Nat /\ Len(ledger') = Len(ledger) + 3
         /\ \A s \in 1 .. Len(ledger) : ledger'[s] = ledger[s]
         /\ ledger'[Len(ledger) + 1] = a /\ ledger'[Len(ledger) + 2] = b
         /\ ledger'[Len(ledger) + 3] = c
<1> DEFINE L1 == Append(ledger, a)
           L2 == Append(L1, b)
<1>1. /\ L1 \in Seq(Event) /\ Len(L1) = Len(ledger) + 1 /\ Len(ledger) \in Nat
      /\ L1[Len(ledger) + 1] = a /\ \A s \in 1 .. Len(ledger) : L1[s] = ledger[s]
  BY AppendRow
<1> HIDE DEF L1
<1>2. /\ L2 \in Seq(Event) /\ Len(L2) = Len(L1) + 1
      /\ L2[Len(L1) + 1] = b /\ \A s \in 1 .. Len(L1) : L2[s] = L1[s]
  BY <1>1, AppendRow
<1> HIDE DEF L2
<1>3. /\ Append(L2, c) \in Seq(Event) /\ Len(Append(L2, c)) = Len(L2) + 1
      /\ Append(L2, c)[Len(L2) + 1] = c /\ \A s \in 1 .. Len(L2) : Append(L2, c)[s] = L2[s]
  BY <1>2, AppendRow
<1>4. ledger' = Append(L2, c)
  BY DEF L1, L2
<1> QED
  BY <1>1, <1>2, <1>3, <1>4
-----------------------------------------------------------------------------
(* Type correctness.  The fault of a call is looked up at its index, so    *)
(* the bound on the index is part of the induction.                        *)
TypeInv == TypeOK /\ refundCalls <= Len(answers)

LEMMA EnterRefundType ==
  ASSUME TypeInv, NEW intent \in Intents, EnterRefund(intent)
  PROVE  /\ Call \in Nat \ {0} /\ CallIndex \in 1 .. MaxCalls
         /\ refundCalls' \in Nat /\ refundCalls' <= Len(answers) + 1
         /\ plan' \in FaultPlans
         /\ fired' \in Seq([kind : FaultKinds, call : Nat, index : Nat])
         /\ sentEmails' \in Seq(Nat)
<1> USE DEF TypeInv, TypeOK
<1>1. /\ Call \in Nat \ {0} /\ CallIndex \in 1 .. MaxCalls
      /\ refundCalls' = refundCalls + 1
  BY FaultsAssumption DEF EnterRefund, Served, Call, CallIndex
<1>2. Fault \in FaultKinds \cup {NoFault}
  BY <1>1, FaultsAssumption DEF Fault
<1>3. fired' \in Seq([kind : FaultKinds, call : Nat, index : Nat])
  <2>1. CASE Fault = NoFault
    BY <2>1 DEF EnterRefund
  <2>2. CASE Fault # NoFault
    <3>1. [kind |-> Fault, call |-> Call, index |-> CallIndex]
            \in [kind : FaultKinds, call : Nat, index : Nat]
      BY <1>1, <1>2, <2>2
    <3> QED
      BY <2>2, <3>1, AppendRow DEF EnterRefund
  <2> QED
    BY <2>1, <2>2
<1> QED
  BY <1>1, <1>3 DEF EnterRefund

LEMMA ReplyType ==
  ASSUME TypeInv, NEW tool \in ReadTools \cup {ISSUE_REFUND, SEND_EMAIL, "unknown"},
         NEW intent \in Intents, NEW asked \in Ask \cup {NoAsk}, NEW key \in Keys \cup {NoKey},
         NEW ok \in BOOLEAN, NEW error \in Errors, NEW txn \in Int,
         Reply(tool, intent, asked, key, ok, error, txn)
  PROVE  answers' \in Seq(Answer) /\ Len(answers') = Len(answers) + 1
<1>1. [tool |-> tool, intent |-> intent, asked |-> asked, key |-> key,
       ok |-> ok, error |-> error, txn |-> txn] \in Answer
  BY DEF Answer
<1> QED
  BY <1>1, AppendRow DEF Reply, TypeInv, TypeOK

(* Every way through issue_refund that answers and leaves a typed record. *)
LEMMA RefundCallType ==
  ASSUME TypeInv, NEW intent \in Intents, NEW ask \in Ask, NEW key \in Keys,
         NEW ok \in BOOLEAN, NEW error \in Errors, NEW txn \in Int,
         EnterRefund(intent), Reply(ISSUE_REFUND, intent, ask, key, ok, error, txn),
         ledger' \in Seq(Event), orders' \in [Orders -> OrderRow],
         refunds' \subseteq RefundRow, IsFiniteSet(refunds')
  PROVE  TypeInv'
<1>1. answers' \in Seq(Answer) /\ Len(answers') = Len(answers) + 1
  BY ReplyType
<1>2. Len(answers) \in Nat
  BY DEF TypeInv, TypeOK
<1> QED
  BY <1>1, <1>2, EnterRefundType DEF TypeInv, TypeOK

LEMMA QuietCallType ==
  ASSUME TypeInv, NEW intent \in Intents, NEW ask \in Ask, NEW key \in Keys,
         NEW ok \in BOOLEAN, NEW error \in Errors, NEW txn \in Int,
         EnterRefund(intent), Reply(ISSUE_REFUND, intent, ask, key, ok, error, txn), QuietStep
  PROVE  TypeInv'
  BY RefundCallType DEF QuietStep, TypeInv, TypeOK, db

LEMMA FailWithStep ==
  ASSUME TypeInv, NEW intent \in Intents, NEW ask \in Ask, NEW key \in Keys,
         NEW error \in Errors, EnterRefund(intent), FailWith(intent, ask, key, error)
  PROVE  TypeInv' /\ QuietStep
<1>1. /\ RefundEvent("tool_call_started", intent, ask, key) \in Event
      /\ RefundEvent("tool_call_started", intent, ask, key).type = "tool_call_started"
      /\ RefundEvent("tool_call_failed", intent, ask, key) \in Event
      /\ RefundEvent("tool_call_failed", intent, ask, key).type = "tool_call_failed"
  BY RefundEventType, RefundEventFields DEF EventTypes, TypeInv
<1>2. QuietStep
  BY <1>1, FailedRow, QuietTwo DEF FailWith, LedgerStarted, TypeInv, TypeOK
<1>3. Reply(ISSUE_REFUND, intent, ask, key, FALSE, error, NoTxn)
  BY Zenon DEF FailWith
<1>4. FALSE \in BOOLEAN /\ NoTxn \in Int
  BY DEF NoTxn
<1>5. TypeInv'
  BY <1>2, <1>3, <1>4, QuietCallType, Zenon
<1> QED
  BY <1>2, <1>5

(* The rows of a refund call. *)
LEMMA CallRows ==
  ASSUME TypeInv, NEW type \in EventTypes, NEW intent \in Intents, NEW ask \in Ask,
         NEW key \in Keys
  PROVE  RefundEvent(type, intent, ask, key) \in Event
         /\ RefundEvent(type, intent, ask, key).type = type
  BY RefundEventType, RefundEventFields DEF TypeInv

LEMMA TimeoutEventRow ==
  ASSUME TypeInv, NEW intent \in Intents, NEW ask \in Ask, NEW key \in Keys, NEW txn \in Int
  PROVE  TimeoutEvent(intent, ask, key, txn) \in Event
         /\ TimeoutEvent(intent, ask, key, txn).type = "network_timeout"
<1>1. RefundEvent("network_timeout", intent, ask, key) \in Event
      /\ RefundEvent("network_timeout", intent, ask, key).type = "network_timeout"
  BY CallRows DEF EventTypes
<1>2. ask.order \in AskedOrders
  BY DEF Ask
<1> QED
  BY <1>1, <1>2, TimeoutRow DEF TimeoutEvent

LEMMA CompletedEventRow ==
  ASSUME TypeInv, NEW intent \in Intents, NEW ask \in Ask, NEW key \in Keys, NEW txn \in Int
  PROVE  CompletedEvent(intent, ask, key, txn) \in Event
         /\ CompletedEvent(intent, ask, key, txn).type = "tool_call_completed"
<1>1. RefundEvent("tool_call_completed", intent, ask, key) \in Event
      /\ RefundEvent("tool_call_completed", intent, ask, key).type = "tool_call_completed"
  BY CallRows DEF EventTypes
<1> QED
  BY <1>1, CompletedRow DEF CompletedEvent

LEMMA RefuseInvalidStep ==
  ASSUME TypeInv, NEW intent \in Intents, NEW ask \in Ask, NEW key \in Keys,
         RefuseInvalid(intent, ask, key)
  PROVE  TypeInv' /\ QuietStep
<1> DEFINE error == IF ask.amount <= 0 THEN "ValueError" ELSE "KeyError"
<1>1. error \in Errors
  BY DEF Errors
<1>2. EnterRefund(intent) /\ FailWith(intent, ask, key, error)
  BY DEF RefuseInvalid
<1> QED
  BY <1>1, <1>2, FailWithStep

LEMMA RefuseConflictStep ==
  ASSUME TypeInv, NEW intent \in Intents, NEW ask \in Ask, NEW key \in Keys,
         RefuseConflict(intent, ask, key)
  PROVE  TypeInv' /\ QuietStep
<1>1. "IdempotencyConflict" \in Errors
  BY DEF Errors
<1>2. EnterRefund(intent) /\ FailWith(intent, ask, key, "IdempotencyConflict")
  BY DEF RefuseConflict
<1> QED
  BY <1>1, <1>2, FailWithStep

LEMMA QuietThree ==
  ASSUME ledger \in Seq(Event), UNCHANGED db,
         NEW a \in Event, a.type # "state_changed", NEW b \in Event, b.type # "state_changed",
         NEW c \in Event, c.type # "state_changed",
         ledger' = Append(Append(Append(ledger, a), b), c)
  PROVE  QuietStep
  BY AppendThree DEF QuietStep

LEMMA ReplayStep ==
  ASSUME TypeInv, NEW intent \in Intents, NEW ask \in Ask, NEW key \in Keys,
         Replay(intent, ask, key)
  PROVE  TypeInv' /\ QuietStep
<1> DEFINE Started   == RefundEvent("tool_call_started", intent, ask, key)
           Replayed  == RefundEvent("idempotent_replay", intent, ask, key)
           Completed == RefundEvent("tool_call_completed", intent, ask, key)
           snap      == snapshot_order(ask.order)
<1>1. PICK row \in Existing(key) :
        /\ ledger' = Append(Append(LedgerStarted(intent, ask, key),
             [Replayed EXCEPT !.txn = row.txn, !.entity = ask.order, !.before = snap,
                              !.after = snap, !.ok = TRUE]),
             [Completed EXCEPT !.txn = row.txn, !.ok = TRUE])
        /\ Reply(ISSUE_REFUND, intent, ask, key, TRUE, "none", row.txn)
  BY DEF Replay
<1>2. row.txn \in Int
  BY DEF Existing, TypeInv, TypeOK, RefundRow
<1>3. ask.order \in AskedOrders /\ ask.order \in Orders
  BY DEF Replay, Invalid, Ask
<1>4. snap \in Snapshot
  BY <1>3, SnapshotType DEF snapshot_order, TypeInv, TypeOK
<1>5. /\ Started \in Event /\ Started.type = "tool_call_started"
      /\ Replayed \in Event /\ Replayed.type = "idempotent_replay"
      /\ Completed \in Event /\ Completed.type = "tool_call_completed"
  BY CallRows DEF EventTypes
<1> DEFINE replayed == [Replayed EXCEPT !.txn = row.txn, !.entity = ask.order, !.before = snap,
                                        !.after = snap, !.ok = TRUE]
           completed == [Completed EXCEPT !.txn = row.txn, !.ok = TRUE]
<1>6. ledger' = Append(Append(Append(ledger, Started), replayed), completed)
  BY <1>1, Zenon DEF LedgerStarted
<1> HIDE DEF Started, Replayed, Completed, snap
<1>7. replayed \in Event /\ replayed.type = "idempotent_replay"
  <2>1. replayed \in Event /\ replayed.type = Replayed.type
    BY <1>2, <1>3, <1>4, <1>5 DEF Event, AnyOrder
  <2> QED
    BY <1>5, <2>1
<1>8. completed \in Event /\ completed.type = "tool_call_completed"
  BY <1>2, <1>5, CompletedRow
<1> HIDE DEF replayed, completed
<1>9. QuietStep
  BY <1>5, <1>6, <1>7, <1>8, QuietThree DEF Replay, TypeInv, TypeOK
<1>10. TRUE \in BOOLEAN /\ "none" \in Errors /\ EnterRefund(intent)
  BY DEF Errors, Replay
<1>11. TypeInv'
  BY <1>1, <1>2, <1>9, <1>10, QuietCallType, Zenon
<1> QED
  BY <1>9, <1>11

LEMMA TimeoutBeforeCommitStep ==
  ASSUME TypeInv, NEW intent \in Intents, NEW ask \in Ask, NEW key \in Keys,
         TimeoutBeforeCommit(intent, ask, key)
  PROVE  TypeInv' /\ QuietStep
<1> DEFINE Started == RefundEvent("tool_call_started", intent, ask, key)
           TimedOut == TimeoutEvent(intent, ask, key, NoTxn)
<1>1. NoTxn \in Int
  BY DEF NoTxn
<1>2. /\ Started \in Event /\ Started.type = "tool_call_started"
      /\ TimedOut \in Event /\ TimedOut.type = "network_timeout"
  BY <1>1, CallRows, TimeoutEventRow DEF EventTypes
<1>3. ledger' = Append(Append(ledger, Started), TimedOut)
  BY DEF TimeoutBeforeCommit, LedgerStarted
<1> HIDE DEF Started, TimedOut
<1>4. QuietStep
  BY <1>2, <1>3, QuietTwo DEF TimeoutBeforeCommit, TypeInv, TypeOK
<1>5. FALSE \in BOOLEAN /\ "ToolTimeout" \in Errors
  BY DEF Errors
<1>6. TypeInv'
  BY <1>1, <1>4, <1>5, QuietCallType, Zenon DEF TimeoutBeforeCommit
<1> QED
  BY <1>4, <1>6

LEMMA PhantomSuccessStep ==
  ASSUME TypeInv, NEW intent \in Intents, NEW ask \in Ask, NEW key \in Keys,
         PhantomSuccess(intent, ask, key)
  PROVE  TypeInv' /\ QuietStep
<1> DEFINE Started == RefundEvent("tool_call_started", intent, ask, key)
           txn == PhantomTxn(Call)
           Completed == CompletedEvent(intent, ask, key, txn)
<1>1. txn \in Int
  BY DEF PhantomTxn, Call, TypeInv, TypeOK
<1> HIDE DEF txn
<1>2. /\ Started \in Event /\ Started.type = "tool_call_started"
      /\ Completed \in Event /\ Completed.type = "tool_call_completed"
  BY <1>1, CallRows, CompletedEventRow DEF EventTypes
<1>3. /\ ledger' = Append(Append(ledger, Started), Completed)
      /\ Reply(ISSUE_REFUND, intent, ask, key, TRUE, "none", txn)
      /\ EnterRefund(intent) /\ UNCHANGED db
  BY Zenon DEF PhantomSuccess, LedgerStarted, txn
<1> HIDE DEF Started, Completed
<1>4. QuietStep
  BY <1>2, <1>3, QuietTwo DEF TypeInv, TypeOK
<1>5. TRUE \in BOOLEAN /\ "none" \in Errors
  BY DEF Errors
<1>6. TypeInv'
  BY <1>1, <1>3, <1>4, <1>5, QuietCallType, Zenon
<1> QED
  BY <1>4, <1>6

LEMMA MisrouteWithoutTargetStep ==
  ASSUME TypeInv, NEW intent \in Intents, NEW ask \in Ask, NEW key \in Keys,
         MisrouteWithoutTarget(intent, ask, key)
  PROVE  TypeInv' /\ QuietStep
<1> DEFINE Started == RefundEvent("tool_call_started", intent, ask, key)
<1>1. Started \in Event /\ Started.type = "tool_call_started"
  BY CallRows DEF EventTypes
<1>2. ledger' = Append(ledger, Started)
  BY DEF MisrouteWithoutTarget, LedgerStarted
<1> HIDE DEF Started
<1>3. QuietStep
  BY <1>1, <1>2, QuietOne DEF MisrouteWithoutTarget, TypeInv, TypeOK
<1>4. FALSE \in BOOLEAN /\ "KeyError" \in Errors /\ NoTxn \in Int
  BY DEF Errors, NoTxn
<1>5. TypeInv'
  BY <1>3, <1>4, QuietCallType, Zenon DEF MisrouteWithoutTarget
<1> QED
  BY <1>3, <1>5

LEMMA RefuseNonPositiveStep ==
  ASSUME TypeInv, NEW intent \in Intents, NEW ask \in Ask, NEW key \in Keys,
         RefuseNonPositive(intent, ask, key)
  PROVE  TypeInv' /\ QuietStep
<1>1. "ValueError" \in Errors
  BY DEF Errors
<1>2. EnterRefund(intent) /\ FailWith(intent, ask, key, "ValueError")
  BY DEF RefuseNonPositive
<1> QED
  BY <1>1, <1>2, FailWithStep

LEMMA RollBackStep ==
  ASSUME TypeInv, NEW intent \in Intents, NEW ask \in Ask, NEW key \in Keys,
         RollBack(intent, ask, key)
  PROVE  TypeInv' /\ QuietStep
<1>1. "StorageError" \in Errors
  BY DEF Errors
<1>2. EnterRefund(intent) /\ FailWith(intent, ask, key, "StorageError")
  BY DEF RollBack
<1> QED
  BY <1>1, <1>2, FailWithStep

(* The one action that moves money. *)
LEMMA CommitActionOf ==
  ASSUME TypeInv, NEW intent \in Intents, NEW ask \in Ask, NEW key \in Keys,
         Commit(intent, ask, key)
  PROVE  /\ TypeInv'
         /\ ActualAmount(ask) \in Nat \ {0} /\ CommitPosition \in Nat \ {0}
         /\ \E o \in ActualOrders(ask) :
              o \in Orders /\ CommitOf(o, ActualAmount(ask), intent, key, CommitPosition)
<1> DEFINE amount == ActualAmount(ask)
           Started == RefundEvent("tool_call_started", intent, ask, key)
           at == CommitPosition
           timedOut == Fault = "timeout_after_commit"
           lastRow == IF timedOut THEN TimeoutEvent(intent, ask, key, at)
                                  ELSE CompletedEvent(intent, ask, key, at)
<1>1. PICK o \in ActualOrders(ask) :
        /\ orders' = OrdersAfter(o, amount)
        /\ refunds' = refunds \cup {NewRow(intent, ask, key, o)}
        /\ ledger' = Append(Append(Append(ledger, Started), CommitEvent(intent, ask, key, o)),
                            lastRow)
        /\ IF timedOut THEN Reply(ISSUE_REFUND, intent, ask, key, FALSE, "ToolTimeout", NoTxn)
                       ELSE Reply(ISSUE_REFUND, intent, ask, key, TRUE, "none", at)
  BY Zenon DEF Commit, LedgerStarted, next_transaction_id
<1>2. o \in Orders
  BY DEF Commit, Proceeds, Fresh, Invalid, ActualOrders, OtherOrders
<1>3. amount \in Nat \ {0}
  BY ActualAmountType DEF Commit
<1>4. at \in Nat \ {0} /\ at = Len(ledger) + 2 /\ Call \in Nat \ {0}
  BY EnterRefundType DEF CommitPosition, TypeInv, TypeOK, Commit
<1>5. NewRow(intent, ask, key, o) = [order |-> o, amount |-> amount, txn |-> at,
                                     intent |-> intent, key |-> key, call |-> Call]
  BY DEF NewRow, next_transaction_id
<1> HIDE DEF amount, at
<1>6. orders' \in [Orders -> OrderRow]
  BY <1>1, <1>2, <1>3, OrdersAfterType DEF TypeInv, TypeOK
<1>7. refunds' \subseteq RefundRow /\ IsFiniteSet(refunds')
  <2>1. NewRow(intent, ask, key, o) \in RefundRow
    BY <1>2, <1>3, <1>4, <1>5 DEF RefundRow
  <2> QED
    BY <1>1, <2>1, FS_AddElement DEF TypeInv, TypeOK
<1>8. snapshot_order(o) \in Snapshot /\ SnapshotIn(orders', refunds', o) \in Snapshot
  BY <1>2, <1>6, <1>7, SnapshotType DEF snapshot_order, TypeInv, TypeOK
<1> DEFINE Changed == RefundEvent("state_changed", intent, ask, key)
           Committed == CommitEvent(intent, ask, key, o)
<1>9. /\ Started \in Event /\ Started.type = "tool_call_started"
      /\ Changed \in Event /\ Changed.type = "state_changed"
      /\ Changed.intent = intent /\ Changed.key = key /\ Changed.call = Call
  BY CallRows, RefundEventFields DEF EventTypes
<1>10. Committed = [Changed EXCEPT !.txn = at, !.entity = o, !.before = snapshot_order(o),
                                   !.after = SnapshotIn(orders', refunds', o),
                                   !.committed = amount]
  BY DEF CommitEvent, next_transaction_id, at, amount
<1> HIDE DEF Started, Changed, Committed
<1>11. /\ Committed \in Event /\ Committed.type = "state_changed"
       /\ Committed.entity = o /\ Committed.committed = amount /\ Committed.txn = at
       /\ Committed.intent = intent /\ Committed.key = key /\ Committed.call = Call
       /\ Committed.before = snapshot_order(o)
       /\ Committed.after = SnapshotIn(orders', refunds', o)
  <2> DEFINE before == snapshot_order(o)
             after == SnapshotIn(orders', refunds', o)
  <2>1. before \in Snapshot /\ after \in Snapshot
    BY <1>8
  <2>2. Committed = [Changed EXCEPT !.txn = at, !.entity = o, !.before = before,
                                    !.after = after, !.committed = amount]
    BY <1>10
  <2> HIDE DEF before, after
  <2>3. /\ Committed \in Event /\ Committed.type = Changed.type
        /\ Committed.entity = o /\ Committed.committed = amount /\ Committed.txn = at
        /\ Committed.intent = Changed.intent /\ Committed.key = Changed.key
        /\ Committed.call = Changed.call
        /\ Committed.before = before /\ Committed.after = after
    <3>1. Changed \in Event /\ at \in Int /\ amount \in Nat
      BY <1>3, <1>4, <1>9
    <3> QED
      BY <1>2, <2>1, <2>2, <3>1 DEF Event, AnyOrder
  <2> QED
    BY <1>9, <2>3 DEF before, after
<1>12. lastRow \in Event /\ lastRow.type # "state_changed"
  BY <1>4, TimeoutEventRow, CompletedEventRow
<1> HIDE DEF lastRow
<1>13. /\ ledger' \in Seq(Event) /\ Len(ledger) \in Nat /\ Len(ledger') = Len(ledger) + 3
       /\ \A s \in 1 .. Len(ledger) : ledger'[s] = ledger[s]
       /\ ledger'[Len(ledger) + 1] = Started /\ ledger'[Len(ledger) + 2] = Committed
       /\ ledger'[Len(ledger) + 3] = lastRow
  <2>1. ledger' = Append(Append(Append(ledger, Started), Committed), lastRow)
    BY <1>1 DEF Committed
  <2> QED
    BY <1>9, <1>11, <1>12, <2>1, AppendThree DEF TypeInv, TypeOK
<1>14. CommitOf(o, amount, intent, key, at)
  <2>1. \A s \in 1 .. Len(ledger') : s > Len(ledger) =>
          (ledger'[s].type = "state_changed" <=> s = at)
    BY <1>4, <1>9, <1>11, <1>12, <1>13
  <2>2. Existing(key) = {}
    BY DEF Commit, Proceeds, Fresh
  <2> QED
    BY <1>1, <1>4, <1>5, <1>11, <1>13, <2>1, <2>2 DEF CommitOf
<1>15. TypeInv'
  <2>1. /\ FALSE \in BOOLEAN /\ TRUE \in BOOLEAN /\ {"ToolTimeout", "none"} \subseteq Errors
        /\ NoTxn \in Int /\ at \in Int
    BY <1>4 DEF Errors, NoTxn
  <2>2. \E ok \in BOOLEAN, error \in Errors, txn \in Int :
          Reply(ISSUE_REFUND, intent, ask, key, ok, error, txn)
    <3>1. CASE timedOut
      BY <1>1, <2>1, <3>1, Zenon
    <3>2. CASE ~timedOut
      BY <1>1, <2>1, <3>2, Zenon
    <3> QED
      BY <3>1, <3>2
  <2>3. EnterRefund(intent)
    BY DEF Commit
  <2> QED
    BY <1>6, <1>7, <1>13, <2>2, <2>3, RefundCallType, Zenon
<1> QED
  BY <1>2, <1>3, <1>4, <1>14, <1>15 DEF amount, at

LEMMA CommitActionStep ==
  ASSUME TypeInv, NEW intent \in Intents, NEW ask \in Ask, NEW key \in Keys,
         Commit(intent, ask, key)
  PROVE  TypeInv' /\ CommitStep
  BY CommitActionOf DEF CommitStep

LEMMA IssueRefundStep ==
  ASSUME TypeInv, NEW intent \in Intents, NEW ask \in Ask, NEW key \in Keys,
         IssueRefund(intent, ask, key)
  PROVE  TypeInv' /\ (QuietStep \/ CommitStep)
<1>1. CASE RefuseInvalid(intent, ask, key)
  BY <1>1, RefuseInvalidStep
<1>2. CASE RefuseConflict(intent, ask, key)
  BY <1>2, RefuseConflictStep
<1>3. CASE Replay(intent, ask, key)
  BY <1>3, ReplayStep
<1>4. CASE TimeoutBeforeCommit(intent, ask, key)
  BY <1>4, TimeoutBeforeCommitStep
<1>5. CASE PhantomSuccess(intent, ask, key)
  BY <1>5, PhantomSuccessStep
<1>6. CASE MisrouteWithoutTarget(intent, ask, key)
  BY <1>6, MisrouteWithoutTargetStep
<1>7. CASE RefuseNonPositive(intent, ask, key)
  BY <1>7, RefuseNonPositiveStep
<1>8. CASE Commit(intent, ask, key)
  BY <1>8, CommitActionStep
<1>9. CASE RollBack(intent, ask, key)
  BY <1>9, RollBackStep
<1> QED
  BY <1>1, <1>2, <1>3, <1>4, <1>5, <1>6, <1>7, <1>8, <1>9 DEF IssueRefund

(* The calls that never touch an order or a refund. *)
LEMMA OtherStepStep ==
  ASSUME TypeInv, OtherStep
  PROVE  TypeInv' /\ QuietStep
<1> SUFFICES ASSUME NEW intent \in Intents,
                    \/ RecordUserIntent(intent)
                    \/ \E tool \in ReadTools, found \in BOOLEAN : ReadTool(tool, intent, found)
                    \/ SendEmail(intent)
                    \/ \E tool \in ReadTools \cup {ISSUE_REFUND, SEND_EMAIL, "unknown"} :
                         RejectedDispatch(tool, intent)
             PROVE  TypeInv' /\ QuietStep
  BY DEF OtherStep
<1>1. /\ ledger \in Seq(Event) /\ Len(answers) \in Nat /\ refundCalls \in Nat
      /\ Call \in Nat /\ Call = Len(answers) + 1
  BY DEF TypeInv, TypeOK, Call
<1>2. NoTxn \in Int /\ NoAsk \in Ask \cup {NoAsk} /\ NoKey \in Keys \cup {NoKey}
      /\ {"none", "KeyError", "TypeError"} \subseteq Errors
  BY DEF NoTxn, Errors
<1>3. CASE RecordUserIntent(intent)
  <2> DEFINE e == BlankEvent("user_intent", "none", intent, 0)
  <2>1. e \in Event
    BY BlankEventType DEF EventTypes
  <2>2. e.type = "user_intent"
    BY DEF BlankEvent
  <2>3. ledger' = Append(ledger, e) /\ UNCHANGED db
    BY <1>3 DEF RecordUserIntent
  <2> HIDE DEF e
  <2>4. QuietStep
    BY <1>1, <2>1, <2>2, <2>3, QuietOne
  <2> QED
    BY <1>3, <2>4 DEF QuietStep, RecordUserIntent, TypeInv, TypeOK, db
<1>4. ASSUME NEW tool \in ReadTools, NEW found \in BOOLEAN, ReadTool(tool, intent, found)
      PROVE  TypeInv' /\ QuietStep
  <2> DEFINE started == BlankEvent("tool_call_started", tool, intent, Call)
             blank   == BlankEvent("tool_call_completed", tool, intent, Call)
             completed == [blank EXCEPT !.ok = found]
  <2>1. started \in Event /\ blank \in Event
    BY <1>1, BlankEventType DEF EventTypes
  <2>2. started.type = "tool_call_started" /\ blank.type = "tool_call_completed"
    BY DEF BlankEvent
  <2>3. ledger' = Append(Append(ledger, started), completed) /\ UNCHANGED db
    BY <1>4, Zenon DEF ReadTool
  <2> HIDE DEF started, blank
  <2>4. completed \in Event /\ completed.type # "state_changed"
    BY <2>1, <2>2 DEF Event
  <2> HIDE DEF completed
  <2>5. QuietStep
    BY <1>1, <2>1, <2>2, <2>3, <2>4, QuietTwo
  <2>6. answers' \in Seq(Answer) /\ Len(answers') = Len(answers) + 1
    BY <1>2, <1>4, ReplyType, Zenon DEF ReadTool
  <2> QED
    BY <1>1, <1>4, <2>5, <2>6 DEF QuietStep, ReadTool, TypeInv, TypeOK, db
<1>5. CASE SendEmail(intent)
  <2>1. QuietStep
    BY <1>1, <1>5 DEF QuietStep, SendEmail
  <2>2. TRUE \in BOOLEAN /\ SEND_EMAIL \in ReadTools \cup {ISSUE_REFUND, SEND_EMAIL, "unknown"}
    OBVIOUS
  <2>3. answers' \in Seq(Answer) /\ Len(answers') = Len(answers) + 1
    BY <1>2, <1>5, <2>2, ReplyType, Zenon DEF SendEmail
  <2> QED
    BY <1>1, <1>5, <2>1, <2>3 DEF SendEmail, TypeInv, TypeOK, db
<1>6. ASSUME NEW tool \in ReadTools \cup {ISSUE_REFUND, SEND_EMAIL, "unknown"},
             RejectedDispatch(tool, intent)
      PROVE  TypeInv' /\ QuietStep
  <2> DEFINE error == IF tool = "unknown" THEN "KeyError" ELSE "TypeError"
  <2>1. QuietStep
    BY <1>1, <1>6 DEF QuietStep, RejectedDispatch
  <2>2. FALSE \in BOOLEAN /\ error \in Errors
    BY <1>2
  <2>3. answers' \in Seq(Answer) /\ Len(answers') = Len(answers) + 1
    BY <1>2, <1>6, <2>2, ReplyType, Zenon DEF RejectedDispatch
  <2> QED
    BY <1>1, <1>6, <2>1, <2>3 DEF RejectedDispatch, TypeInv, TypeOK, db
<1> QED
  BY <1>3, <1>4, <1>5, <1>6

LEMMA NextStep ==
  ASSUME TypeInv, Next
  PROVE  TypeInv' /\ (QuietStep \/ CommitStep)
<1>1. CASE RefundStep
  <2>1. PICK intent \in Intents, ask \in Ask : \E key \in {MakeKey(intent, ask)} \cup ExplicitKeys :
          IssueRefund(intent, ask, key)
    BY <1>1 DEF RefundStep
  <2>2. MakeKey(intent, ask) \in Keys
    BY DEF MakeKey, Keys, DerivedKeys, Ask
  <2>3. PICK key \in Keys : IssueRefund(intent, ask, key)
    BY <2>1, <2>2 DEF Keys
  <2> QED
    BY <2>3, IssueRefundStep
<1>2. CASE OtherStep
  BY <1>2, OtherStepStep
<1> QED
  BY <1>1, <1>2 DEF Next

LEMMA InitType ==
  ASSUME Init
  PROVE  TypeInv
  BY FS_EmptySet DEF Init, TypeInv, TypeOK, OrderRow, Statuses

(* Every state of every case is well typed: no order's total goes negative, *)
(* no row names an unknown order, and every fault lookup is within the     *)
(* plan, whatever faults are injected into the tools (env/tools.py).       *)
THEOREM TypeCorrect == Spec => []TypeOK
<1>1. Init => TypeInv
  BY InitType
<1>2. TypeInv /\ [Next]_vars => TypeInv'
  <2>1. ASSUME TypeInv, Next PROVE TypeInv'
    BY <2>1, NextStep
  <2>2. ASSUME TypeInv, UNCHANGED vars PROVE TypeInv'
    BY <2>2 DEF TypeInv, TypeOK, vars
  <2> QED
    BY <2>1, <2>2
<1>3. TypeInv => TypeOK
  BY DEF TypeInv
<1> QED
  BY <1>1, <1>2, <1>3, PTL DEF Spec
-----------------------------------------------------------------------------
(* The system of record: the refunds table and the ledger. *)

LEMMA LedgerDomain ==
  ASSUME TypeInv
  PROVE  DOMAIN ledger = 1 .. Len(ledger) /\ Len(ledger) \in Nat
  BY DEF TypeInv, TypeOK

LEMMA CommitsType ==
  ASSUME TypeInv
  PROVE  /\ Commits \subseteq 1 .. Len(ledger)
         /\ \A s \in 1 .. Len(ledger) : s \in Commits <=> ledger[s].type = "state_changed"
  BY LedgerDomain DEF Commits, EventsOf

(* A quiet step ledgers no commit and disturbs none. *)
LEMMA QuietCommits ==
  ASSUME TypeInv, TypeInv', QuietStep
  PROVE  Commits' = Commits /\ \A s \in Commits : ledger'[s] = ledger[s]
<1>1. /\ Commits' \subseteq 1 .. Len(ledger')
      /\ \A s \in 1 .. Len(ledger') : s \in Commits' <=> ledger'[s].type = "state_changed"
  BY DEF Commits, EventsOf, TypeInv, TypeOK
<1>2. Len(ledger) \in Nat /\ Len(ledger') \in Nat
  BY DEF TypeInv, TypeOK
<1>3. /\ Len(ledger') >= Len(ledger)
      /\ \A s \in 1 .. Len(ledger) : ledger'[s] = ledger[s]
      /\ \A s \in 1 .. Len(ledger') : s > Len(ledger) => ledger'[s].type # "state_changed"
  BY DEF QuietStep
<1>4. ASSUME NEW s \in Commits PROVE s \in Commits'
  BY <1>1, <1>2, <1>3, CommitsType
<1>5. ASSUME NEW s \in Commits' PROVE s \in Commits
  BY <1>1, <1>2, <1>3, CommitsType
<1> QED
  BY <1>3, <1>4, <1>5, CommitsType

(* A commit adds exactly one, at the position it was given. *)
LEMMA CommitCommits ==
  ASSUME TypeInv, TypeInv', NEW o, NEW amount, NEW intent, NEW key, NEW at \in Nat \ {0},
         CommitOf(o, amount, intent, key, at)
  PROVE  /\ Commits' = Commits \cup {at}
         /\ \A s \in Commits : s < at - 1 /\ ledger'[s] = ledger[s]
<1>1. /\ Commits' \subseteq 1 .. Len(ledger')
      /\ \A s \in 1 .. Len(ledger') : s \in Commits' <=> ledger'[s].type = "state_changed"
  BY DEF Commits, EventsOf, TypeInv, TypeOK
<1>2. Len(ledger) \in Nat /\ Len(ledger') \in Nat
  BY DEF TypeInv, TypeOK
<1>3. /\ at = Len(ledger) + 2 /\ Len(ledger') = Len(ledger) + 3
      /\ \A s \in 1 .. Len(ledger) : ledger'[s] = ledger[s]
      /\ \A s \in 1 .. Len(ledger') : s > Len(ledger) =>
           (ledger'[s].type = "state_changed" <=> s = at)
  BY DEF CommitOf
<1>4. ASSUME NEW s \in Commits PROVE s \in Commits' /\ s < at - 1
  BY <1>1, <1>2, <1>3, CommitsType
<1>5. at \in Commits'
  BY <1>1, <1>2, <1>3
<1>6. ASSUME NEW s \in Commits', s # at PROVE s \in Commits
  BY <1>1, <1>2, <1>3, <1>6, CommitsType
<1> QED
  BY <1>3, <1>4, <1>5, <1>6, CommitsType

RecordInv == TypeInv /\ LedgerMirrorsRefunds /\ AtMostOncePerKey

LEMMA MirrorQuiet ==
  ASSUME TypeInv, TypeInv', LedgerMirrorsRefunds, QuietStep
  PROVE  LedgerMirrorsRefunds'
<1>1. Commits' = Commits /\ \A s \in Commits : ledger'[s] = ledger[s]
  BY QuietCommits
<1>2. \A s \in Commits : RowAt(s)' = RowAt(s)
  BY <1>1 DEF RowAt
<1>3. refunds' = {RowAt(s)' : s \in Commits'}
  BY <1>1, <1>2 DEF LedgerMirrorsRefunds, QuietStep, db
<1> QED
  BY <1>1, <1>3 DEF LedgerMirrorsRefunds

LEMMA MirrorCommit ==
  ASSUME TypeInv, TypeInv', LedgerMirrorsRefunds,
         NEW o, NEW amount, NEW intent, NEW key, NEW at \in Nat \ {0},
         CommitOf(o, amount, intent, key, at)
  PROVE  LedgerMirrorsRefunds'
<1>1. Commits' = Commits \cup {at} /\ \A s \in Commits : ledger'[s] = ledger[s]
  BY CommitCommits
<1>2. \A s \in Commits : RowAt(s)' = RowAt(s)
  BY <1>1 DEF RowAt
<1>3. RowAt(at)' = [order |-> o, amount |-> amount, txn |-> at,
                    intent |-> intent, key |-> key, call |-> Call]
  BY DEF RowAt, CommitOf
<1>4. refunds' = {RowAt(s)' : s \in Commits'}
  BY <1>1, <1>2, <1>3 DEF LedgerMirrorsRefunds, CommitOf
<1>5. ledger'[at].txn = at
  BY DEF CommitOf
<1> QED
  BY <1>1, <1>4, <1>5 DEF LedgerMirrorsRefunds

(* An idempotent tool looks the key up in the refunds table; as the table  *)
(* mirrors the ledger, a key with a ledgered commit is always found.       *)
LEMMA OnceCommit ==
  ASSUME TypeInv, TypeInv', LedgerMirrorsRefunds, AtMostOncePerKey,
         NEW o, NEW amount, NEW intent, NEW key, NEW at \in Nat \ {0},
         CommitOf(o, amount, intent, key, at)
  PROVE  AtMostOncePerKey'
<1> SUFFICES ASSUME IdempotencyEnabled
             PROVE  \A s, t \in Commits' : ledger'[s].key = ledger'[t].key => s = t
  BY DEF AtMostOncePerKey
<1>1. Commits' = Commits \cup {at} /\ \A s \in Commits : ledger'[s] = ledger[s]
  BY CommitCommits
<1>2. ledger'[at].key = key
  BY DEF CommitOf
<1>3. ASSUME NEW s \in Commits PROVE ledger[s].key # key
  <2>1. RowAt(s) \in refunds /\ RowAt(s).key = ledger[s].key
    BY DEF LedgerMirrorsRefunds, RowAt
  <2> QED
    BY <2>1 DEF CommitOf, Existing
<1> QED
  BY <1>1, <1>2, <1>3 DEF AtMostOncePerKey

LEMMA RecordStep ==
  ASSUME RecordInv, [Next]_vars
  PROVE  RecordInv'
<1>1. CASE UNCHANGED vars
  BY <1>1 DEF RecordInv, TypeInv, TypeOK, LedgerMirrorsRefunds, AtMostOncePerKey, RowAt,
              Commits, EventsOf, vars
<1>2. CASE Next
  <2>1. TypeInv' /\ (QuietStep \/ CommitStep)
    BY <1>2, NextStep DEF RecordInv
  <2>2. CASE QuietStep
    <3>1. LedgerMirrorsRefunds'
      BY <2>1, <2>2, MirrorQuiet DEF RecordInv
    <3>2. AtMostOncePerKey'
      BY <2>1, <2>2, QuietCommits DEF RecordInv, AtMostOncePerKey
    <3> QED
      BY <2>1, <3>1, <3>2 DEF RecordInv
  <2>3. CASE CommitStep
    <3>1. PICK o \in Orders, amount \in Nat \ {0}, intent \in Intents, key \in Keys,
               at \in Nat \ {0} :
            CommitOf(o, amount, intent, key, at)
      BY <2>3 DEF CommitStep
    <3>2. LedgerMirrorsRefunds'
      BY <2>1, <3>1, MirrorCommit DEF RecordInv
    <3>3. AtMostOncePerKey'
      BY <2>1, <3>1, OnceCommit DEF RecordInv
    <3> QED
      BY <2>1, <3>2, <3>3 DEF RecordInv
  <2> QED
    BY <2>1, <2>2, <2>3
<1> QED
  BY <1>1, <1>2

LEMMA RecordInit ==
  ASSUME Init
  PROVE  RecordInv
<1>1. TypeInv
  BY InitType
<1>2. Commits = {} /\ refunds = {}
  BY DEF Init, Commits, EventsOf
<1> QED
  BY <1>1, <1>2 DEF RecordInv, LedgerMirrorsRefunds, AtMostOncePerKey

LEMMA RecordInvariant == Spec => []RecordInv
<1>1. Init => RecordInv
  BY RecordInit
<1>2. RecordInv /\ [Next]_vars => RecordInv'
  BY RecordStep
<1> QED
  BY <1>1, <1>2, PTL DEF Spec

(* The refunds table and the ledger's STATE_CHANGED rows are the same      *)
(* transactions in every reachable state, through every fault and rollback *)
(* (the shared transaction of env/tools.py issue_refund).                  *)
THEOREM LedgerAndDatabaseAgree == Spec => []LedgerMirrorsRefunds
<1>1. RecordInv => LedgerMirrorsRefunds
  BY DEF RecordInv
<1> QED
  BY <1>1, RecordInvariant, PTL

(* No key is ever committed twice by an idempotent tool, for any number of *)
(* retries and any fault plan (env/tools.py, the idempotent branch).       *)
THEOREM OneCommitPerKey == Spec => []AtMostOncePerKey
<1>1. RecordInv => AtMostOncePerKey
  BY DEF RecordInv
<1> QED
  BY <1>1, RecordInvariant, PTL

(* No step rewrites the ledger or the refunds table, and an order's row    *)
(* moves only upwards and only with the commit ledgered in the same step.  *)
THEOREM HistoryIsKept == Spec => HistoryIsNeverRewritten
<1> DEFINE Kept ==
      /\ Len(ledger') >= Len(ledger)
      /\ \A s \in DOMAIN ledger : ledger'[s] = ledger[s]
      /\ refunds \subseteq refunds'
      /\ \A o \in Orders :
           orders'[o] # orders[o] =>
             /\ orders'[o].refunded_cents > orders[o].refunded_cents
             /\ \E s \in DOMAIN ledger' : /\ s > Len(ledger)
                                          /\ ledger'[s].type = "state_changed"
                                          /\ ledger'[s].entity = o
<1>1. ASSUME TypeInv, Next PROVE Kept
  <2>1. TypeInv' /\ (QuietStep \/ CommitStep)
    BY <1>1, NextStep
  <2>2. DOMAIN ledger = 1 .. Len(ledger) /\ DOMAIN ledger' = 1 .. Len(ledger')
        /\ Len(ledger) \in Nat
    BY <1>1, <2>1 DEF TypeInv, TypeOK
  <2>3. CASE QuietStep
    BY <2>2, <2>3 DEF QuietStep, db
  <2>4. CASE CommitStep
    <3>1. PICK o \in Orders, amount \in Nat \ {0}, intent \in Intents, key \in Keys,
               at \in Nat \ {0} :
            CommitOf(o, amount, intent, key, at)
      BY <2>4 DEF CommitStep
    <3>2. /\ at \in DOMAIN ledger' /\ at > Len(ledger)
          /\ ledger'[at].type = "state_changed" /\ ledger'[at].entity = o
      BY <2>2, <3>1 DEF CommitOf
    <3>3. /\ orders' = OrdersAfter(o, amount) /\ refunds \subseteq refunds'
          /\ Len(ledger') = Len(ledger) + 3
          /\ \A s \in 1 .. Len(ledger) : ledger'[s] = ledger[s]
      BY <3>1 DEF CommitOf
    <3>4. ASSUME NEW p \in Orders, orders'[p] # orders[p]
          PROVE  p = o /\ orders'[p].refunded_cents > orders[p].refunded_cents
      BY <1>1, <3>3, <3>4 DEF OrdersAfter, OrderAfter, TypeInv, TypeOK, OrderRow
    <3> QED
      BY <2>2, <3>2, <3>3, <3>4
  <2> QED
    BY <2>1, <2>3, <2>4
<1>2. TypeInv /\ [Next]_vars => [Kept]_vars
  BY <1>1
<1>3. RecordInv => TypeInv
  BY DEF RecordInv
<1> QED
  BY <1>2, <1>3, RecordInvariant, PTL DEF Spec, HistoryIsNeverRewritten
-----------------------------------------------------------------------------
(* Balances are told by the ledger alone. *)

(* The first half of SnapshotsChain speaks of past commits only. *)
ChainAt(s) ==
  /\ IsSnapshotAt(ledger[s].before, ledger[s].entity, s - 1)
  /\ ledger[s].after.refunded_cents = ledger[s].before.refunded_cents + ledger[s].committed
  /\ ledger[s].after.refund_count = ledger[s].before.refund_count + 1

(* What later rows cannot change: commits up to a position. *)
LEMMA PastCommits ==
  ASSUME NEW n, NEW o, Commits \subseteq Commits',
         \A s \in Commits' : s <= n => s \in Commits,
         \A s \in Commits : ledger'[s] = ledger[s]
  PROVE  CommitsOn(o, n)' = CommitsOn(o, n)
  BY DEF CommitsOn

LEMMA PastSnapshot ==
  ASSUME NEW n, NEW o, NEW snap, Commits \subseteq Commits',
         \A s \in Commits' : s <= n => s \in Commits,
         \A s \in Commits : ledger'[s] = ledger[s],
         IsSnapshotAt(snap, o, n)
  PROVE  IsSnapshotAt(snap, o, n)'
<1>1. CommitsOn(o, n)' = CommitsOn(o, n)
  BY PastCommits
<1>2. \A s \in CommitsOn(o, n) : ledger'[s].after = ledger[s].after
  BY DEF CommitsOn
<1> QED
  BY <1>1, <1>2 DEF IsSnapshotAt, SeedSnapshot

LEMMA PastChain ==
  ASSUME TypeInv, TypeInv', NEW s \in Commits, Commits \subseteq Commits',
         \A t \in Commits' : t <= Len(ledger) => t \in Commits,
         \A t \in Commits : ledger'[t] = ledger[t],
         ChainAt(s)
  PROVE  ChainAt(s)'
<1>1. s \in 1 .. Len(ledger) /\ Len(ledger) \in Nat
  BY CommitsType, LedgerDomain
<1>2. \A t \in Commits' : t <= s - 1 => t \in Commits
  <2>1. \A t \in Commits' : t \in Int
    BY DEF Commits, EventsOf, TypeInv, TypeOK
  <2> QED
    BY <1>1, <2>1
<1>3. ledger'[s] = ledger[s]
  OBVIOUS
<1>4. \A snap, o : IsSnapshotAt(snap, o, s - 1) => IsSnapshotAt(snap, o, s - 1)'
  BY <1>2, PastSnapshot
<1> QED
  BY <1>3, <1>4 DEF ChainAt

(* The second half: the last commit on an order told its present row. *)
PresentAt(o) == IsSnapshotAt(snapshot_order(o), o, Len(ledger))

LEMMA ChainHalves ==
  ASSUME TypeInv
  PROVE  SnapshotsChain <=> (\A s \in Commits : ChainAt(s)) /\ (\A o \in Orders : PresentAt(o))
  BY DEF SnapshotsChain, ChainAt, PresentAt

LEMMA PresentQuiet ==
  ASSUME TypeInv, TypeInv', QuietStep, NEW o \in Orders, PresentAt(o)
  PROVE  PresentAt(o)'
<1>1. Commits' = Commits /\ \A s \in Commits : ledger'[s] = ledger[s]
  BY QuietCommits
<1>2. Commits \subseteq 1 .. Len(ledger) /\ Len(ledger) \in Nat /\ Len(ledger') \in Nat
  BY CommitsType DEF TypeInv, TypeOK
<1>3. CommitsOn(o, Len(ledger))' = CommitsOn(o, Len(ledger))
  <2>1. Len(ledger') >= Len(ledger)
    BY DEF QuietStep
  <2>2. \A s \in Commits : s <= Len(ledger) /\ s <= Len(ledger')
    BY <1>2, <2>1
  <2> QED
    BY <1>1, <2>2 DEF CommitsOn
<1>4. snapshot_order(o)' = snapshot_order(o)
  BY DEF QuietStep, db, snapshot_order, SnapshotIn
<1>5. \A s \in CommitsOn(o, Len(ledger)) : ledger'[s].after = ledger[s].after
  BY <1>1 DEF CommitsOn
<1> QED
  BY <1>3, <1>4, <1>5 DEF PresentAt, IsSnapshotAt, SeedSnapshot

(* A commit on o leaves every other order's row and history alone. *)
LEMMA PresentOther ==
  ASSUME TypeInv, TypeInv', NEW o \in Orders, NEW amount \in Nat \ {0}, NEW intent, NEW key,
         NEW at \in Nat \ {0}, CommitOf(o, amount, intent, key, at),
         NEW p \in Orders, p # o, PresentAt(p)
  PROVE  PresentAt(p)'
<1>1. Commits' = Commits \cup {at} /\ \A s \in Commits : ledger'[s] = ledger[s]
  BY CommitCommits
<1>2. Commits \subseteq 1 .. Len(ledger) /\ Len(ledger) \in Nat /\ Len(ledger') \in Nat
  BY CommitsType DEF TypeInv, TypeOK
<1>3. ledger'[at].entity = o /\ Len(ledger') = Len(ledger) + 3
  BY DEF CommitOf
<1>4. CommitsOn(p, Len(ledger))' = CommitsOn(p, Len(ledger))
  BY <1>1, <1>2, <1>3 DEF CommitsOn
<1>5. orders'[p] = orders[p]
  BY DEF CommitOf, OrdersAfter, TypeInv, TypeOK
<1>6. {r \in refunds' : r.order = p} = {r \in refunds : r.order = p}
  BY DEF CommitOf
<1>7. snapshot_order(p)' = snapshot_order(p)
  BY <1>5, <1>6 DEF snapshot_order, SnapshotIn
<1>8. \A s \in CommitsOn(p, Len(ledger)) : ledger'[s].after = ledger[s].after
  BY <1>1 DEF CommitsOn
<1> QED
  BY <1>4, <1>7, <1>8 DEF PresentAt, IsSnapshotAt, SeedSnapshot

LEMMA PresentCommitted ==
  ASSUME TypeInv, TypeInv', NEW o \in Orders, NEW amount \in Nat \ {0}, NEW intent, NEW key,
         NEW at \in Nat \ {0}, CommitOf(o, amount, intent, key, at)
  PROVE  PresentAt(o)'
<1>1. Commits' = Commits \cup {at} /\ \A s \in Commits : s < at - 1
  BY CommitCommits
<1>2. Commits \subseteq 1 .. Len(ledger) /\ Len(ledger) \in Nat /\ Len(ledger') \in Nat
  BY CommitsType DEF TypeInv, TypeOK
<1>3. /\ ledger'[at].entity = o /\ at = Len(ledger) + 2 /\ Len(ledger') = Len(ledger) + 3
      /\ ledger'[at].after = snapshot_order(o)'
  BY DEF CommitOf, snapshot_order
<1>4. at \in CommitsOn(o, Len(ledger))'
  BY <1>1, <1>2, <1>3 DEF CommitsOn
<1>5. \A s \in CommitsOn(o, Len(ledger))' : s \in Int /\ s <= at
  BY <1>1, <1>2, <1>3 DEF CommitsOn
<1>6. ASSUME NEW s \in CommitsOn(o, Len(ledger))',
             \A t \in CommitsOn(o, Len(ledger))' : t <= s
      PROVE  snapshot_order(o)' = ledger'[s].after
  BY <1>3, <1>4, <1>5, <1>6
<1> QED
  BY <1>4, <1>6 DEF PresentAt, IsSnapshotAt

(* The new commit starts from the present row and adds one refund to it:   *)
(* its row is new, because its transaction is a later ledger position than *)
(* any refund's.                                                           *)
LEMMA ChainCommitted ==
  ASSUME TypeInv, TypeInv', LedgerMirrorsRefunds,
         NEW o \in Orders, NEW amount \in Nat \ {0}, NEW intent, NEW key,
         NEW at \in Nat \ {0}, CommitOf(o, amount, intent, key, at), PresentAt(o)
  PROVE  ChainAt(at)'
<1> DEFINE row == [order |-> o, amount |-> amount, txn |-> at,
                   intent |-> intent, key |-> key, call |-> Call]
           Of(table) == {r \in table : r.order = o}
<1>1. Commits' = Commits \cup {at} /\ \A s \in Commits : s < at - 1 /\ ledger'[s] = ledger[s]
  BY CommitCommits
<1>2. Commits \subseteq 1 .. Len(ledger) /\ Len(ledger) \in Nat
  BY CommitsType DEF TypeInv, TypeOK
<1>3. /\ at = Len(ledger) + 2 /\ ledger'[at].entity = o /\ ledger'[at].committed = amount
      /\ ledger'[at].before = snapshot_order(o)
      /\ ledger'[at].after = SnapshotIn(orders', refunds', o)
      /\ orders' = OrdersAfter(o, amount) /\ refunds' = refunds \cup {row}
  BY DEF CommitOf
<1>4. SnapshotIn(orders', refunds', o).refunded_cents
        = snapshot_order(o).refunded_cents + amount
  BY <1>3 DEF SnapshotIn, snapshot_order, OrdersAfter, OrderAfter, TypeInv, TypeOK
<1>5. SnapshotIn(orders', refunds', o).refund_count = snapshot_order(o).refund_count + 1
  <2>1. row \notin refunds
    <3>1. \A r \in refunds : r.txn \in Commits
      BY DEF LedgerMirrorsRefunds, RowAt
    <3>2. row.txn = at /\ at \notin Commits
      BY <1>2, <1>3
    <3> QED
      BY <3>1, <3>2
  <2>2. Of(refunds') = Of(refunds) \cup {row} /\ row \notin Of(refunds)
    BY <1>3, <2>1
  <2>3. IsFiniteSet(Of(refunds))
    BY FS_Subset DEF TypeInv, TypeOK
  <2>4. Cardinality(Of(refunds')) = Cardinality(Of(refunds)) + 1
    <3> HIDE DEF row, Of
    <3>1. Cardinality(Of(refunds) \cup {row}) = Cardinality(Of(refunds)) + 1
      BY <2>2, <2>3, FS_AddElement
    <3> QED
      BY <2>2, <3>1
  <2> QED
    BY <2>4 DEF SnapshotIn, snapshot_order
<1>6. IsSnapshotAt(ledger[at].before, ledger[at].entity, at - 1)'
  <2>1. {s \in Commits' : s <= at - 1 /\ ledger'[s].entity = o} = CommitsOn(o, Len(ledger))
    <3>1. \A s \in Commits : s <= at - 1 /\ s <= Len(ledger) /\ s \in Int
      BY <1>2, <1>3
    <3>2. ~(at <= at - 1)
      BY <1>3
    <3> QED
      BY <1>1, <3>1, <3>2 DEF CommitsOn
  <2>2. \A s \in CommitsOn(o, Len(ledger)) : ledger'[s].after = ledger[s].after
    BY <1>1 DEF CommitsOn
  <2> QED
    BY <1>3, <2>1, <2>2 DEF PresentAt, IsSnapshotAt, CommitsOn, SeedSnapshot
<1> QED
  BY <1>3, <1>4, <1>5, <1>6 DEF ChainAt

LEMMA ChainStep ==
  ASSUME RecordInv, RecordInv', SnapshotsChain, [Next]_vars
  PROVE  SnapshotsChain'
<1>1. TypeInv /\ TypeInv' /\ LedgerMirrorsRefunds
  BY DEF RecordInv
<1>2. SUFFICES ASSUME Next
               PROVE  (\A s \in Commits : ChainAt(s))' /\ (\A o \in Orders : PresentAt(o))'
  <2>1. CASE UNCHANGED vars
    BY <2>1 DEF SnapshotsChain, IsSnapshotAt, CommitsOn, snapshot_order, SnapshotIn,
                SeedSnapshot, Commits, EventsOf, vars
  <2>2. CASE (\A s \in Commits : ChainAt(s))' /\ (\A o \in Orders : PresentAt(o))'
    BY <2>2, Zenon DEF SnapshotsChain, ChainAt, PresentAt
  <2> QED
    BY <2>1, <2>2
<1>3. (\A s \in Commits : ChainAt(s)) /\ (\A o \in Orders : PresentAt(o))
  BY <1>1, ChainHalves
<1>4. QuietStep \/ CommitStep
  BY <1>1, <1>2, NextStep
<1>5. CASE QuietStep
  <2>1. Commits' = Commits /\ \A s \in Commits : ledger'[s] = ledger[s]
    BY <1>1, <1>5, QuietCommits
  <2>2. ASSUME NEW s \in Commits PROVE ChainAt(s)'
    BY <1>1, <1>3, <2>1, PastChain
  <2>3. ASSUME NEW o \in Orders PROVE PresentAt(o)'
    BY <1>1, <1>3, <1>5, PresentQuiet
  <2> QED
    BY <2>1, <2>2, <2>3
<1>6. CASE CommitStep
  <2>1. PICK o \in Orders, amount \in Nat \ {0}, intent \in Intents, key \in Keys,
             at \in Nat \ {0} :
          CommitOf(o, amount, intent, key, at)
    BY <1>6 DEF CommitStep
  <2>2. Commits' = Commits \cup {at} /\ \A s \in Commits : ledger'[s] = ledger[s]
    BY <1>1, <2>1, CommitCommits
  <2>3. \A t \in Commits' : t <= Len(ledger) => t \in Commits
    BY <1>1, <2>1, <2>2, LedgerDomain DEF CommitOf
  <2>4. ASSUME NEW s \in Commits PROVE ChainAt(s)'
    BY <1>1, <1>3, <2>2, <2>3, PastChain
  <2>5. ChainAt(at)'
    BY <1>1, <1>3, <2>1, ChainCommitted
  <2>6. ASSUME NEW p \in Orders PROVE PresentAt(p)'
    <3>1. CASE p = o
      BY <1>1, <2>1, <3>1, PresentCommitted
    <3>2. CASE p # o
      BY <1>1, <1>3, <2>1, <3>2, PresentOther
    <3> QED
      BY <3>1, <3>2
  <2> QED
    BY <2>2, <2>4, <2>5, <2>6
<1> QED
  BY <1>4, <1>5, <1>6

LEMMA ChainInit ==
  ASSUME Init
  PROVE  SnapshotsChain
<1>1. Commits = {}
  BY DEF Init, Commits, EventsOf
<1>2. ASSUME NEW o \in Orders PROVE snapshot_order(o) = SeedSnapshot(o)
  <2>1. {r \in refunds : r.order = o} = {}
    BY DEF Init
  <2> QED
    BY <2>1, FS_EmptySet DEF Init, snapshot_order, SnapshotIn, SeedSnapshot
<1> QED
  BY <1>1, <1>2 DEF SnapshotsChain, IsSnapshotAt, CommitsOn

(* The ledger's snapshots chain without a gap from the seeded row to the   *)
(* database's present row, for any number of commits, misrouted ones       *)
(* included: balances can be read off the ledger alone                     *)
(* (env/database.py snapshot_order, env/tools.py state_before/after).      *)
THEOREM BalancesAreInTheLedger == Spec => []SnapshotsChain
<1>1. Init => SnapshotsChain
  BY ChainInit
<1>2. RecordInv /\ RecordInv' /\ SnapshotsChain /\ [Next]_vars => SnapshotsChain'
  BY ChainStep
<1> QED
  BY <1>1, <1>2, RecordInvariant, PTL DEF Spec

-----------------------------------------------------------------------------
(* The service: calls as their caller sees them and as the ledger tells    *)
(* them.                                                                   *)

(* The ways an issue_refund call ends, by the rows it ledgers and what it  *)
(* answers. *)

Extends(k) ==
  /\ ledger' \in Seq(Event) /\ Len(ledger') = Len(ledger) + k
  /\ \A s \in 1 .. Len(ledger) : ledger'[s] = ledger[s]

RowOf(e, call, intent, ask, key) ==
  /\ e.tool = ISSUE_REFUND /\ e.call = call
  /\ e.intent = intent /\ e.asked = ask /\ e.key = key

Serves(intent, ask, key, k) ==
  /\ EnterRefund(intent) /\ Extends(k)
  /\ \A s \in 1 .. k : RowOf(ledger'[Len(ledger) + s], Call, intent, ask, key)
  /\ ledger'[Len(ledger) + 1].type = "tool_call_started"

Answers(intent, ask, key, ok, error, txn) ==
  Reply(ISSUE_REFUND, intent, ask, key, ok, error, txn)

Refused(intent, ask, key) ==
  /\ Serves(intent, ask, key, 2) /\ UNCHANGED db
  /\ ledger'[Len(ledger) + 2].type = "tool_call_failed"
  /\ \E error \in Errors \ {"ToolTimeout"} : Answers(intent, ask, key, FALSE, error, NoTxn)

LostBefore(intent, ask, key) ==
  /\ Serves(intent, ask, key, 2) /\ UNCHANGED db
  /\ ledger'[Len(ledger) + 2].type = "network_timeout" /\ Fault = "timeout_before_commit"
  /\ Answers(intent, ask, key, FALSE, "ToolTimeout", NoTxn)

Invented(intent, ask, key) ==
  /\ Serves(intent, ask, key, 2) /\ UNCHANGED db
  /\ LET last == ledger'[Len(ledger) + 2]
     IN  last.type = "tool_call_completed" /\ last.ok /\ last.txn = PhantomTxn(Call)
  /\ Fault = "phantom_success"
  /\ Answers(intent, ask, key, TRUE, "none", PhantomTxn(Call))

Abandoned(intent, ask, key) ==
  /\ Serves(intent, ask, key, 1) /\ UNCHANGED db
  /\ Fault = "misrouted_write" /\ \E o : Orders = {o}
  /\ Answers(intent, ask, key, FALSE, "KeyError", NoTxn)

Confirmed(intent, ask, key) ==
  /\ Serves(intent, ask, key, 3) /\ UNCHANGED db
  /\ \E row \in Existing(key) :
       LET cited == ledger'[Len(ledger) + 2]  last == ledger'[Len(ledger) + 3]
       IN  /\ ~Conflicts(row, ask)
           /\ cited.type = "idempotent_replay" /\ cited.txn = row.txn
           /\ cited.entity = ask.order /\ cited.before = snapshot_order(ask.order)
           /\ cited.after = cited.before
           /\ last.type = "tool_call_completed" /\ last.ok /\ last.txn = row.txn
           /\ Answers(intent, ask, key, TRUE, "none", row.txn)

Committed(intent, ask, key) ==
  /\ Serves(intent, ask, key, 3)
  /\ \E o \in ActualOrders(ask) :
       /\ o \in Orders /\ ActualAmount(ask) \in Nat \ {0}
       /\ CommitOf(o, ActualAmount(ask), intent, key, Len(ledger) + 2)
  /\ LET last == ledger'[Len(ledger) + 3] IN
       /\ last.txn = Len(ledger) + 2
       /\ IF Fault = "timeout_after_commit"
            THEN /\ last.type = "network_timeout"
                 /\ Answers(intent, ask, key, FALSE, "ToolTimeout", NoTxn)
            ELSE /\ last.type = "tool_call_completed" /\ last.ok
                 /\ Answers(intent, ask, key, TRUE, "none", Len(ledger) + 2)
-----------------------------------------------------------------------------
(* Filling in an outcome keeps what tells whose row it is. *)
LEMMA FilledRow ==
  ASSUME NEW e \in Event, NEW error, NEW txn, NEW entity, NEW before, NEW after, NEW committed
  PROVE  LET failed    == [e EXCEPT !.error = error]
             timedOut  == [e EXCEPT !.txn = txn, !.entity = entity, !.error = error]
             completed == [e EXCEPT !.txn = txn, !.ok = TRUE]
             replayed  == [e EXCEPT !.txn = txn, !.entity = entity, !.before = before,
                                    !.after = after, !.ok = TRUE]
             changed   == [e EXCEPT !.txn = txn, !.entity = entity, !.before = before,
                                    !.after = after, !.committed = committed]
         IN  /\ \A r \in {failed, timedOut, completed, replayed, changed} :
                  /\ r.type = e.type /\ r.tool = e.tool /\ r.call = e.call
                  /\ r.intent = e.intent /\ r.asked = e.asked /\ r.key = e.key
             /\ timedOut.txn = txn /\ completed.txn = txn /\ completed.ok
             /\ replayed.txn = txn /\ replayed.entity = entity
             /\ replayed.before = before /\ replayed.after = after
  BY DEF Event

(* What a call does to the ledger: rows appended one behind the other. *)
LEMMA OneRow ==
  ASSUME TypeInv, NEW intent \in Intents, NEW ask, NEW key, EnterRefund(intent),
         NEW a \in Event, a.type = "tool_call_started",
         RowOf(a, Call, intent, ask, key), ledger' = Append(ledger, a)
  PROVE  Serves(intent, ask, key, 1)
<1>1. ledger \in Seq(Event)
  BY DEF TypeInv, TypeOK
<1>2. /\ ledger' \in Seq(Event) /\ Len(ledger') = Len(ledger) + 1
      /\ ledger'[Len(ledger) + 1] = a /\ \A s \in 1 .. Len(ledger) : ledger'[s] = ledger[s]
  BY <1>1, AppendRow
<1>. QED
  BY <1>2 DEF Serves, Extends

LEMMA TwoRows ==
  ASSUME TypeInv, NEW intent \in Intents, NEW ask, NEW key, EnterRefund(intent),
         NEW a \in Event, a.type = "tool_call_started", NEW b \in Event,
         RowOf(a, Call, intent, ask, key), RowOf(b, Call, intent, ask, key),
         ledger' = Append(Append(ledger, a), b)
  PROVE  Serves(intent, ask, key, 2) /\ ledger'[Len(ledger) + 2] = b
<1>. DEFINE L1 == Append(ledger, a)
<1>1. ledger \in Seq(Event)
  BY DEF TypeInv, TypeOK
<1>2. /\ L1 \in Seq(Event) /\ Len(L1) = Len(ledger) + 1 /\ Len(ledger) \in Nat
      /\ L1[Len(ledger) + 1] = a /\ \A s \in 1 .. Len(ledger) : L1[s] = ledger[s]
  BY <1>1, AppendRow
<1>. HIDE DEF L1
<1>3. /\ Append(L1, b) \in Seq(Event) /\ Len(Append(L1, b)) = Len(L1) + 1
      /\ Append(L1, b)[Len(L1) + 1] = b /\ \A s \in 1 .. Len(L1) : Append(L1, b)[s] = L1[s]
  BY <1>2, AppendRow
<1>4. ledger' = Append(L1, b)
  BY DEF L1
<1>5. /\ ledger' \in Seq(Event) /\ Len(ledger') = Len(ledger) + 2
      /\ \A s \in 1 .. Len(ledger) : ledger'[s] = ledger[s]
      /\ ledger'[Len(ledger) + 1] = a /\ ledger'[Len(ledger) + 2] = b
  BY <1>2, <1>3, <1>4
<1>6. \A s \in 1 .. 2 : s = 1 \/ s = 2
  OBVIOUS
<1>. QED
  BY <1>5, <1>6 DEF Serves, Extends

LEMMA ThreeRows ==
  ASSUME TypeInv, NEW intent \in Intents, NEW ask, NEW key, EnterRefund(intent),
         NEW a \in Event, a.type = "tool_call_started", NEW b \in Event, NEW c \in Event,
         RowOf(a, Call, intent, ask, key), RowOf(b, Call, intent, ask, key),
         RowOf(c, Call, intent, ask, key),
         ledger' = Append(Append(Append(ledger, a), b), c)
  PROVE  /\ Serves(intent, ask, key, 3)
         /\ ledger'[Len(ledger) + 2] = b /\ ledger'[Len(ledger) + 3] = c
<1>1. /\ ledger' \in Seq(Event) /\ Len(ledger') = Len(ledger) + 3
      /\ \A s \in 1 .. Len(ledger) : ledger'[s] = ledger[s]
      /\ ledger'[Len(ledger) + 1] = a /\ ledger'[Len(ledger) + 2] = b
      /\ ledger'[Len(ledger) + 3] = c
  BY AppendThree DEF TypeInv, TypeOK
<1>2. \A s \in 1 .. 3 : s = 1 \/ s = 2 \/ s = 3
  OBVIOUS
<1>. QED
  BY <1>1, <1>2 DEF Serves, Extends

LEMMA CallRow ==
  ASSUME TypeInv, NEW type \in EventTypes, NEW intent \in Intents, NEW ask \in Ask,
         NEW key \in Keys
  PROVE  LET e == RefundEvent(type, intent, ask, key)
         IN  e \in Event /\ e.type = type /\ RowOf(e, Call, intent, ask, key)
  BY CallRows, RefundEventFields DEF RowOf

-----------------------------------------------------------------------------
(* Each way through the handler is one of these outcomes. *)
LEMMA FailWithOutcome ==
  ASSUME TypeInv, NEW intent \in Intents, NEW ask \in Ask, NEW key \in Keys,
         NEW error \in Errors \ {"ToolTimeout"}, EnterRefund(intent),
         FailWith(intent, ask, key, error)
  PROVE  Refused(intent, ask, key)
<1>. DEFINE started == RefundEvent("tool_call_started", intent, ask, key)
            blank == RefundEvent("tool_call_failed", intent, ask, key)
            failed == [blank EXCEPT !.error = error]
<1>1. /\ started \in Event /\ started.type = "tool_call_started"
      /\ RowOf(started, Call, intent, ask, key)
      /\ blank \in Event /\ blank.type = "tool_call_failed"
      /\ RowOf(blank, Call, intent, ask, key)
  BY CallRow DEF EventTypes
<1>2. ledger' = Append(Append(ledger, started), failed) /\ UNCHANGED db
      /\ Answers(intent, ask, key, FALSE, error, NoTxn)
  BY Zenon DEF FailWith, LedgerStarted, Answers
<1>. HIDE DEF started, blank
<1>3. failed \in Event /\ failed.type = "tool_call_failed"
      /\ RowOf(failed, Call, intent, ask, key)
  BY <1>1, FailedRow, FilledRow DEF RowOf
<1>. HIDE DEF failed
<1>4. Serves(intent, ask, key, 2) /\ ledger'[Len(ledger) + 2] = failed
  BY <1>1, <1>2, <1>3, TwoRows
<1>. QED
  BY <1>2, <1>3, <1>4 DEF Refused

LEMMA TimeoutOutcome ==
  ASSUME TypeInv, NEW intent \in Intents, NEW ask \in Ask, NEW key \in Keys,
         TimeoutBeforeCommit(intent, ask, key)
  PROVE  LostBefore(intent, ask, key)
<1>. DEFINE started == RefundEvent("tool_call_started", intent, ask, key)
            blank == RefundEvent("network_timeout", intent, ask, key)
            last == TimeoutEvent(intent, ask, key, NoTxn)
<1>1. /\ started \in Event /\ started.type = "tool_call_started"
      /\ RowOf(started, Call, intent, ask, key)
      /\ blank \in Event /\ blank.type = "network_timeout"
      /\ RowOf(blank, Call, intent, ask, key)
  BY CallRow DEF EventTypes
<1>2. /\ ledger' = Append(Append(ledger, started), last) /\ UNCHANGED db
      /\ EnterRefund(intent) /\ Fault = "timeout_before_commit"
      /\ Answers(intent, ask, key, FALSE, "ToolTimeout", NoTxn)
  BY DEF TimeoutBeforeCommit, LedgerStarted, Answers
<1>3. last = [blank EXCEPT !.txn = NoTxn, !.entity = ask.order, !.error = "ToolTimeout"]
  BY DEF TimeoutEvent
<1>4. last \in Event
  BY TimeoutEventRow DEF NoTxn
<1>. HIDE DEF started, blank, last
<1>5. last.type = "network_timeout" /\ RowOf(last, Call, intent, ask, key)
  BY <1>1, <1>3, FilledRow DEF RowOf
<1>6. Serves(intent, ask, key, 2) /\ ledger'[Len(ledger) + 2] = last
  BY <1>1, <1>2, <1>4, <1>5, TwoRows
<1>. QED
  BY <1>2, <1>5, <1>6 DEF LostBefore

LEMMA CompletedFields ==
  ASSUME TypeInv, NEW intent \in Intents, NEW ask \in Ask, NEW key \in Keys, NEW txn \in Int
  PROVE  LET e == CompletedEvent(intent, ask, key, txn)
         IN  /\ e \in Event /\ e.type = "tool_call_completed" /\ e.ok /\ e.txn = txn
             /\ RowOf(e, Call, intent, ask, key)
<1>. DEFINE blank == RefundEvent("tool_call_completed", intent, ask, key)
<1>1. /\ blank \in Event /\ blank.type = "tool_call_completed"
      /\ RowOf(blank, Call, intent, ask, key)
  BY CallRow DEF EventTypes
<1>2. CompletedEvent(intent, ask, key, txn) = [blank EXCEPT !.txn = txn, !.ok = TRUE]
  BY DEF CompletedEvent
<1>. HIDE DEF blank
<1>. QED
  BY <1>1, <1>2, FilledRow, CompletedEventRow DEF RowOf

LEMMA PhantomOutcome ==
  ASSUME TypeInv, NEW intent \in Intents, NEW ask \in Ask, NEW key \in Keys,
         PhantomSuccess(intent, ask, key)
  PROVE  Invented(intent, ask, key)
<1>. DEFINE started == RefundEvent("tool_call_started", intent, ask, key)
            txn == PhantomTxn(Call)
            last == CompletedEvent(intent, ask, key, txn)
<1>1. /\ started \in Event /\ started.type = "tool_call_started"
      /\ RowOf(started, Call, intent, ask, key)
  BY CallRow DEF EventTypes
<1>2. txn \in Int
  BY DEF PhantomTxn, Call, TypeInv, TypeOK
<1>3. /\ ledger' = Append(Append(ledger, started), last) /\ UNCHANGED db
      /\ EnterRefund(intent) /\ Fault = "phantom_success"
      /\ Answers(intent, ask, key, TRUE, "none", txn)
  BY Zenon DEF PhantomSuccess, LedgerStarted, Answers
<1>4. /\ last \in Event /\ last.type = "tool_call_completed" /\ last.ok /\ last.txn = txn
      /\ RowOf(last, Call, intent, ask, key)
  BY <1>2, CompletedFields
<1>. HIDE DEF started, last, txn
<1>5. Serves(intent, ask, key, 2) /\ ledger'[Len(ledger) + 2] = last
  BY <1>1, <1>3, <1>4, TwoRows
<1>. USE DEF txn
<1>. QED
  BY <1>3, <1>4, <1>5 DEF Invented

LEMMA MisrouteOutcome ==
  ASSUME TypeInv, NEW intent \in Intents, NEW ask \in Ask, NEW key \in Keys,
         MisrouteWithoutTarget(intent, ask, key)
  PROVE  Abandoned(intent, ask, key)
<1>. DEFINE started == RefundEvent("tool_call_started", intent, ask, key)
<1>1. /\ started \in Event /\ started.type = "tool_call_started"
      /\ RowOf(started, Call, intent, ask, key)
  BY CallRow DEF EventTypes
<1>2. /\ ledger' = Append(ledger, started) /\ UNCHANGED db /\ EnterRefund(intent)
      /\ Fault = "misrouted_write" /\ Answers(intent, ask, key, FALSE, "KeyError", NoTxn)
  BY DEF MisrouteWithoutTarget, LedgerStarted, Answers
<1>3. Orders = {ask.order}
  BY DEF MisrouteWithoutTarget, OtherOrders, Proceeds, Fresh, Invalid
<1>. HIDE DEF started
<1>. QED
  BY <1>1, <1>2, <1>3, OneRow DEF Abandoned

LEMMA ReplayOutcome ==
  ASSUME TypeInv, NEW intent \in Intents, NEW ask \in Ask, NEW key \in Keys,
         Replay(intent, ask, key)
  PROVE  Confirmed(intent, ask, key)
<1>. DEFINE started == RefundEvent("tool_call_started", intent, ask, key)
            blank == RefundEvent("idempotent_replay", intent, ask, key)
            snap == snapshot_order(ask.order)
            cited(row) == [blank EXCEPT !.txn = row.txn, !.entity = ask.order,
                                        !.before = snap, !.after = snap, !.ok = TRUE]
            last(row) == CompletedEvent(intent, ask, key, row.txn)
<1>1. /\ started \in Event /\ started.type = "tool_call_started"
      /\ RowOf(started, Call, intent, ask, key)
      /\ blank \in Event /\ blank.type = "idempotent_replay"
      /\ RowOf(blank, Call, intent, ask, key)
  BY CallRow DEF EventTypes
<1>2. PICK row \in Existing(key) :
        /\ ~Conflicts(row, ask)
        /\ ledger' = Append(Append(Append(ledger, started), cited(row)), last(row))
        /\ Answers(intent, ask, key, TRUE, "none", row.txn)
  BY Zenon DEF Replay, LedgerStarted, CompletedEvent, Answers
<1>3. row.txn \in Int
  BY DEF Existing, TypeInv, TypeOK, RefundRow
<1>4. ask.order \in AskedOrders /\ ask.order \in Orders
  BY DEF Replay, Invalid, Ask
<1>5. snap \in Snapshot
  BY <1>4, SnapshotType DEF snapshot_order, TypeInv, TypeOK
<1>6. /\ last(row) \in Event /\ last(row).type = "tool_call_completed"
      /\ last(row).ok /\ last(row).txn = row.txn /\ RowOf(last(row), Call, intent, ask, key)
  BY <1>3, CompletedFields
<1>. HIDE DEF started, blank, snap, last
<1>7. /\ cited(row) \in Event /\ cited(row).type = "idempotent_replay"
      /\ cited(row).txn = row.txn /\ cited(row).entity = ask.order
      /\ cited(row).before = snap /\ cited(row).after = snap
      /\ RowOf(cited(row), Call, intent, ask, key)
  BY <1>1, <1>3, <1>4, <1>5, FilledRow DEF Event, AnyOrder, RowOf
<1>. HIDE DEF cited
<1>8. /\ Serves(intent, ask, key, 3)
      /\ ledger'[Len(ledger) + 2] = cited(row) /\ ledger'[Len(ledger) + 3] = last(row)
  BY <1>1, <1>2, <1>6, <1>7, ThreeRows DEF Replay
<1>. USE DEF snap
<1>. QED
  BY <1>2, <1>6, <1>7, <1>8 DEF Confirmed, Replay

LEMMA CommitOutcome ==
  ASSUME TypeInv, NEW intent \in Intents, NEW ask \in Ask, NEW key \in Keys,
         Commit(intent, ask, key)
  PROVE  Committed(intent, ask, key)
<1>. DEFINE at == CommitPosition
            started == RefundEvent("tool_call_started", intent, ask, key)
            blank == RefundEvent("state_changed", intent, ask, key)
            timedOut == Fault = "timeout_after_commit"
            timeout == TimeoutEvent(intent, ask, key, at)
            completed == CompletedEvent(intent, ask, key, at)
            last == IF timedOut THEN timeout ELSE completed
<1>1. PICK o \in ActualOrders(ask) :
        /\ ledger' = Append(Append(Append(ledger, started), CommitEvent(intent, ask, key, o)),
                            last)
        /\ IF timedOut THEN Answers(intent, ask, key, FALSE, "ToolTimeout", NoTxn)
                       ELSE Answers(intent, ask, key, TRUE, "none", at)
  BY Zenon DEF Commit, LedgerStarted, next_transaction_id, Answers
<1>2. at = Len(ledger) + 2 /\ at \in Int /\ EnterRefund(intent)
  BY DEF CommitPosition, TypeInv, TypeOK, Commit
<1>3. /\ started \in Event /\ started.type = "tool_call_started"
      /\ RowOf(started, Call, intent, ask, key)
      /\ blank \in Event /\ RowOf(blank, Call, intent, ask, key)
  BY CallRow DEF EventTypes
<1>4. /\ completed \in Event /\ completed.type = "tool_call_completed" /\ completed.ok
      /\ completed.txn = at /\ RowOf(completed, Call, intent, ask, key)
  BY <1>2, CompletedFields
<1>5. /\ timeout \in Event /\ timeout.type = "network_timeout"
      /\ timeout.txn = at /\ RowOf(timeout, Call, intent, ask, key)
  <2>. DEFINE lost == RefundEvent("network_timeout", intent, ask, key)
  <2>1. lost \in Event /\ RowOf(lost, Call, intent, ask, key)
    BY CallRow DEF EventTypes
  <2>2. timeout = [lost EXCEPT !.txn = at, !.entity = ask.order, !.error = "ToolTimeout"]
    BY DEF TimeoutEvent
  <2>3. timeout \in Event /\ timeout.type = "network_timeout"
    BY <1>2, TimeoutEventRow
  <2>. HIDE DEF lost, timeout, at
  <2>. QED
    BY <2>1, <2>2, <2>3, FilledRow DEF RowOf
<1>6. /\ ActualAmount(ask) \in Nat \ {0}
      /\ \E p \in ActualOrders(ask) :
           p \in Orders /\ CommitOf(p, ActualAmount(ask), intent, key, at)
  BY CommitActionOf
<1>7. CommitEvent(intent, ask, key, o)
        = [blank EXCEPT !.txn = at, !.entity = o, !.before = snapshot_order(o),
                        !.after = SnapshotIn(orders', refunds', o),
                        !.committed = ActualAmount(ask)]
  BY DEF CommitEvent, next_transaction_id
<1>. HIDE DEF at, started, blank, timeout, completed
<1>8. RowOf(CommitEvent(intent, ask, key, o), Call, intent, ask, key)
  <2>. DEFINE before == snapshot_order(o)
              after == SnapshotIn(orders', refunds', o)
              amount == ActualAmount(ask)
              row == [blank EXCEPT !.txn = at, !.entity = o, !.before = before,
                                   !.after = after, !.committed = amount]
  <2>1. CommitEvent(intent, ask, key, o) = row
    BY <1>7
  <2>. HIDE DEF before, after, amount
  <2>2. RowOf(row, Call, intent, ask, key)
    BY <1>3, FilledRow DEF RowOf
  <2>. QED
    BY <2>1, <2>2
<1>. DEFINE committed == CommitEvent(intent, ask, key, o)
<1>9. committed = ledger'[Len(ledger) + 2] /\ committed \in Event
  <2>1. ledger' \in Seq(Event) /\ ledger \in Seq(Event) /\ Len(ledger') = Len(ledger) + 3
    BY <1>6 DEF CommitOf, TypeInv, TypeOK
  <2>. HIDE DEF committed, last
  <2>2. ledger' = Append(Append(Append(ledger, started), committed), last)
    BY <1>1 DEF committed
  <2>3. committed = ledger'[Len(ledger) + 2]
    BY <2>1, <2>2
  <2>. QED
    BY <2>1, <2>3
<1>10. last \in Event /\ RowOf(last, Call, intent, ask, key)
  BY <1>4, <1>5
<1>11. ledger' = Append(Append(Append(ledger, started), committed), last)
  BY <1>1
<1>. HIDE DEF committed, last
<1>12. Serves(intent, ask, key, 3) /\ ledger'[Len(ledger) + 3] = last
  BY <1>2, <1>3, <1>8, <1>9, <1>10, <1>11, ThreeRows DEF committed
<1>. QED
  BY <1>1, <1>2, <1>4, <1>5, <1>6, <1>12 DEF Committed, last

(* One of the six outcomes. *)
Outcome(intent, ask, key) ==
  \/ Refused(intent, ask, key) \/ LostBefore(intent, ask, key) \/ Invented(intent, ask, key)
  \/ Abandoned(intent, ask, key) \/ Confirmed(intent, ask, key) \/ Committed(intent, ask, key)

LEMMA IssueRefundOutcome ==
  ASSUME TypeInv, NEW intent \in Intents, NEW ask \in Ask, NEW key \in Keys,
         IssueRefund(intent, ask, key)
  PROVE  Outcome(intent, ask, key)
<1>1. {"ValueError", "KeyError", "IdempotencyConflict", "StorageError"}
        \subseteq Errors \ {"ToolTimeout"}
  BY DEF Errors
<1>2. CASE RefuseInvalid(intent, ask, key)
  <2>. DEFINE error == IF ask.amount <= 0 THEN "ValueError" ELSE "KeyError"
  <2>1. error \in Errors \ {"ToolTimeout"}
    BY <1>1
  <2>2. EnterRefund(intent) /\ FailWith(intent, ask, key, error)
    BY <1>2 DEF RefuseInvalid
  <2>. QED
    BY <2>1, <2>2, FailWithOutcome DEF Outcome
<1>3. CASE RefuseConflict(intent, ask, key)
  BY <1>1, <1>3, FailWithOutcome DEF RefuseConflict, Outcome
<1>4. CASE RefuseNonPositive(intent, ask, key)
  BY <1>1, <1>4, FailWithOutcome DEF RefuseNonPositive, Outcome
<1>5. CASE RollBack(intent, ask, key)
  BY <1>1, <1>5, FailWithOutcome DEF RollBack, Outcome
<1>6. CASE \/ Replay(intent, ask, key) \/ TimeoutBeforeCommit(intent, ask, key)
           \/ PhantomSuccess(intent, ask, key) \/ MisrouteWithoutTarget(intent, ask, key)
           \/ Commit(intent, ask, key)
  BY <1>6, ReplayOutcome, TimeoutOutcome, PhantomOutcome, MisrouteOutcome, CommitOutcome
     DEF Outcome
<1>. QED
  BY <1>2, <1>3, <1>4, <1>5, <1>6 DEF IssueRefund

LEMMA RefundStepOutcome ==
  ASSUME TypeInv, RefundStep
  PROVE  \E intent \in Intents, ask \in Ask, key \in Keys : Outcome(intent, ask, key)
<1>1. PICK intent \in Intents, ask \in Ask : \E key \in {MakeKey(intent, ask)} \cup ExplicitKeys :
        IssueRefund(intent, ask, key)
  BY DEF RefundStep
<1>2. PICK key \in Keys : IssueRefund(intent, ask, key)
  BY <1>1 DEF MakeKey, Keys, DerivedKeys, Ask
<1>. QED
  BY <1>2, IssueRefundOutcome
-----------------------------------------------------------------------------
(* The environment implements RefundContract. *)
ToldBy(a, c) ==
  [call |-> c, key |-> a.key, order |-> a.asked.order, amount |-> a.asked.amount,
   ok |-> a.ok, ref |-> a.txn]

Lies == \E n \in 1..MaxCalls : plan[n] \in LyingFaults

LEMMA ContractSteps ==
  /\ Contract!ContractInit <=> PaidRefunds = {} /\ ToldAnswers = {} /\ Lies \in BOOLEAN
  /\ UNCHANGED <<PaidRefunds, ToldAnswers, Lies>> <=> UNCHANGED Contract!contractVars
  /\ Contract!ContractNext <=>
       /\ UNCHANGED Lies
       /\ \E r \in ToldAnswers' \ ToldAnswers :
            \/ Contract!Confirm(r)
            \/ Contract!Refuse(r)
            \/ Contract!Lie(r)
            \/ \E p \in PaidRefunds' \ PaidRefunds : Contract!Pay(r, p)
  /\ \A r : Contract!Answered(r) <=>
       /\ r \in [call : Nat \ {0}, key : Keys, order : AskedOrders, amount : AskedAmounts,
                 ok : BOOLEAN, ref : Int]
       /\ \A q \in ToldAnswers : q.call < r.call
       /\ ToldAnswers' = ToldAnswers \cup {r}
  /\ \A r : Contract!Refuse(r) <=> Contract!Answered(r) /\ ~r.ok /\ UNCHANGED PaidRefunds
  /\ \A r : Contract!Confirm(r) <=>
       /\ IdempotencyEnabled /\ Contract!Answered(r) /\ r.ok
       /\ \E p \in PaidRefunds : Contract!AsAsked(p, r) /\ r.ref = p.id
       /\ UNCHANGED PaidRefunds
  /\ \A r : Contract!Lie(r) <=>
       /\ Lies /\ Contract!Answered(r) /\ r.ok
       /\ \A p \in PaidRefunds : p.id # r.ref
       /\ UNCHANGED PaidRefunds
  /\ \A r, p : Contract!Pay(r, p) <=>
       /\ Contract!Answered(r)
       /\ p \in [id : Nat \ {0}, key : Keys, order : Orders, amount : Nat \ {0}]
       /\ p.key = r.key
       /\ \A q \in PaidRefunds : q.id < p.id
       /\ IdempotencyEnabled => \A q \in PaidRefunds : q.key # r.key
       /\ ~Lies => Contract!AsAsked(p, r)
       /\ r.ok => r.ref = p.id
       /\ PaidRefunds' = PaidRefunds \cup {p}
<1>. USE DEF Lies
<1>1. Contract!ContractInit <=> PaidRefunds = {} /\ ToldAnswers = {} /\ Lies \in BOOLEAN
  BY DEF Contract!ContractInit
<1>2. UNCHANGED <<PaidRefunds, ToldAnswers, Lies>> <=> UNCHANGED Contract!contractVars
  BY DEF Contract!contractVars
<1>3. Contract!ContractNext <=>
        /\ UNCHANGED Lies
        /\ \E r \in ToldAnswers' \ ToldAnswers :
             \/ Contract!Confirm(r)
             \/ Contract!Refuse(r)
             \/ Contract!Lie(r)
             \/ \E p \in PaidRefunds' \ PaidRefunds : Contract!Pay(r, p)
  BY DEF Contract!ContractNext
<1>4. ASSUME NEW r
      PROVE  Contract!Answered(r) <=>
               /\ r \in [call : Nat \ {0}, key : Keys, order : AskedOrders,
                         amount : AskedAmounts, ok : BOOLEAN, ref : Int]
               /\ \A q \in ToldAnswers : q.call < r.call
               /\ ToldAnswers' = ToldAnswers \cup {r}
  BY DEF Contract!Answered, Contract!Told
<1>5. ASSUME NEW r
      PROVE  Contract!Refuse(r) <=> Contract!Answered(r) /\ ~r.ok /\ UNCHANGED PaidRefunds
  BY DEF Contract!Refuse
<1>6. ASSUME NEW r
      PROVE  Contract!Confirm(r) <=>
               /\ IdempotencyEnabled /\ Contract!Answered(r) /\ r.ok
               /\ \E p \in PaidRefunds : Contract!AsAsked(p, r) /\ r.ref = p.id
               /\ UNCHANGED PaidRefunds
  BY DEF Contract!Confirm
<1>7. ASSUME NEW r
      PROVE  Contract!Lie(r) <=>
               /\ Lies /\ Contract!Answered(r) /\ r.ok
               /\ \A p \in PaidRefunds : p.id # r.ref
               /\ UNCHANGED PaidRefunds
  BY DEF Contract!Lie
<1>8. ASSUME NEW r, NEW p
      PROVE  Contract!Pay(r, p) <=>
               /\ Contract!Answered(r)
               /\ p \in [id : Nat \ {0}, key : Keys, order : Orders, amount : Nat \ {0}]
               /\ p.key = r.key
               /\ \A q \in PaidRefunds : q.id < p.id
               /\ IdempotencyEnabled => \A q \in PaidRefunds : q.key # r.key
               /\ ~Lies => Contract!AsAsked(p, r)
               /\ r.ok => r.ref = p.id
               /\ PaidRefunds' = PaidRefunds \cup {p}
  BY DEF Contract!Pay, Contract!Payment
<1>. HIDE DEF Lies
<1>. QED
  BY <1>1, <1>2, <1>3, <1>4, <1>5, <1>6, <1>7, <1>8, Zenon

(* An answer is one more, and the earlier ones stay. *)
LEMMA NewAnswer ==
  ASSUME TypeInv, NEW a, answers' = Append(answers, a)
  PROVE  /\ DOMAIN answers = 1 .. Len(answers) /\ Len(answers) \in Nat
         /\ Call = Len(answers) + 1 /\ Call \in Nat \ {0} /\ Call \notin DOMAIN answers
         /\ Len(answers') = Call /\ DOMAIN answers' = DOMAIN answers \cup {Call}
         /\ \A c \in DOMAIN answers : answers'[c] = answers[c] /\ c < Call
         /\ answers'[Call] = a
<1>1. answers \in Seq(Answer) /\ Call = Len(answers) + 1
  BY DEF TypeInv, TypeOK, Call
<1>2. /\ DOMAIN answers = 1 .. Len(answers) /\ Len(answers) \in Nat
      /\ Len(answers') = Call /\ DOMAIN answers' = 1 .. Call
      /\ \A c \in 1 .. Len(answers) : answers'[c] = answers[c]
      /\ answers'[Call] = a
  BY <1>1
<1>. QED
  BY <1>1, <1>2

LEMMA ToldSame ==
  ASSUME TypeInv, NEW a, answers' = Append(answers, a), a.key = NoKey
  PROVE  ToldAnswers' = ToldAnswers
<1>1. /\ DOMAIN answers' = DOMAIN answers \cup {Call} /\ answers'[Call].key = NoKey
      /\ \A c \in DOMAIN answers : answers'[c] = answers[c]
  BY NewAnswer
<1>2. RefundAnswers' = RefundAnswers
  BY <1>1 DEF RefundAnswers
<1>3. \A c \in RefundAnswers : answers'[c] = answers[c]
  BY <1>1 DEF RefundAnswers
<1>. QED
  BY <1>2, <1>3 DEF ToldAnswers

LEMMA ToldMore ==
  ASSUME TypeInv, NEW a, answers' = Append(answers, a), a.tool = ISSUE_REFUND,
         a.asked \in Ask, a.key \in Keys, a.ok \in BOOLEAN, a.txn \in Int
  PROVE  /\ Contract!Answered(ToldBy(a, Call))
         /\ ToldBy(a, Call) \in ToldAnswers' \ ToldAnswers
<1>. DEFINE r == ToldBy(a, Call)
<1>1. /\ DOMAIN answers' = DOMAIN answers \cup {Call} /\ Call \in Nat \ {0}
      /\ \A c \in DOMAIN answers : answers'[c] = answers[c] /\ c < Call
      /\ answers'[Call] = a
  BY NewAnswer
<1>2. a.key # NoKey
  BY CallsAssumption
<1>3. RefundAnswers' = RefundAnswers \cup {Call}
  BY <1>1, <1>2 DEF RefundAnswers
<1>4. \A c \in RefundAnswers : c < Call /\ answers'[c] = answers[c]
  BY <1>1 DEF RefundAnswers
<1>5. ToldAnswers = {ToldBy(answers[c], c) : c \in RefundAnswers}
      /\ ToldAnswers' = {ToldBy(answers'[c], c) : c \in RefundAnswers'}
  BY DEF ToldAnswers, ToldBy
<1>6. \A q \in ToldAnswers : q.call < Call
  BY <1>4, <1>5 DEF ToldBy
<1>7. r \in [call : Nat \ {0}, key : Keys, order : AskedOrders, amount : AskedAmounts,
             ok : BOOLEAN, ref : Int] /\ r.call = Call
  BY <1>1 DEF Ask, ToldBy
<1>. HIDE DEF r
<1>8. ToldAnswers' = ToldAnswers \cup {r}
  BY <1>1, <1>3, <1>4, <1>5 DEF r
<1>9. r \notin ToldAnswers
  BY <1>1, <1>6, <1>7
<1>10. Contract!Answered(r)
  BY <1>6, <1>7, <1>8, ContractSteps
<1>. QED
  BY <1>8, <1>9, <1>10 DEF r

LEMMA PaidSame == ASSUME UNCHANGED db PROVE PaidRefunds' = PaidRefunds
  BY DEF db, PaidRefunds

(* Payments are found where the ledger has them. *)
LEMMA PaidIds ==
  ASSUME RecordInv
  PROVE  /\ \A p \in PaidRefunds : p.id \in 1 .. Len(ledger)
         /\ \A row \in refunds : row.txn \in Commits /\ RowAt(row.txn) = row
<1>1. \A row \in refunds : row.txn \in Commits /\ RowAt(row.txn) = row
  BY DEF RecordInv, LedgerMirrorsRefunds, RowAt
<1>2. Commits \subseteq 1 .. Len(ledger)
  BY CommitsType DEF RecordInv
<1>3. \A row \in refunds : row.txn \in 1 .. Len(ledger)
  BY <1>1, <1>2
<1>4. \A p \in PaidRefunds : p.id \in 1 .. Len(ledger)
  BY <1>3 DEF PaidRefunds
<1>. QED
  BY <1>1, <1>4

LEMMA LiesOfFault ==
  ASSUME TypeInv, NEW intent \in Intents, EnterRefund(intent), Fault \in LyingFaults
  PROVE  Lies
  BY EnterRefundType DEF Lies, Fault

(* Every answer of issue_refund is a step of the contract. *)
LEMMA RefundRefines ==
  ASSUME RecordInv, NEW intent \in Intents, NEW ask \in Ask, NEW key \in Keys,
         Outcome(intent, ask, key)
  PROVE  Contract!ContractNext
<1>0. TypeInv /\ Call \in Nat \ {0} /\ Len(ledger) \in Nat
  BY DEF RecordInv, TypeInv, TypeOK, Call
<1>1. UNCHANGED Lies
  <2>1. UNCHANGED plan
    BY DEF Outcome, Refused, LostBefore, Invented, Abandoned, Confirmed, Committed, Serves,
           EnterRefund
  <2>. QED
    BY <2>1 DEF Lies
<1>. DEFINE a(ok, error, txn) == [tool |-> ISSUE_REFUND, intent |-> intent, asked |-> ask,
                                  key |-> key, ok |-> ok, error |-> error, txn |-> txn]
<1>2. ASSUME NEW b, answers' = Append(answers, b), b.tool = ISSUE_REFUND,
             b.asked = ask, b.key = key, b.ok \in BOOLEAN, b.txn \in Int
      PROVE  /\ Contract!Answered(ToldBy(b, Call))
             /\ ToldBy(b, Call) \in ToldAnswers' \ ToldAnswers
             /\ ToldBy(b, Call).ok = b.ok /\ ToldBy(b, Call).ref = b.txn
             /\ ToldBy(b, Call).key = key /\ ToldBy(b, Call).order = ask.order
             /\ ToldBy(b, Call).amount = ask.amount
  <2>1. Contract!Answered(ToldBy(b, Call)) /\ ToldBy(b, Call) \in ToldAnswers' \ ToldAnswers
    BY <1>0, <1>2, ToldMore
  <2>. QED
    BY <1>2, <2>1 DEF ToldBy
<1>3. ASSUME UNCHANGED db, NEW error, answers' = Append(answers, a(FALSE, error, NoTxn))
      PROVE  Contract!ContractNext
  <2>. DEFINE b == a(FALSE, error, NoTxn)
              r == ToldBy(b, Call)
  <2>1. b.tool = ISSUE_REFUND /\ b.asked = ask /\ b.key = key /\ b.ok = FALSE /\ b.txn \in Int
    BY DEF NoTxn
  <2>. HIDE DEF b
  <2>2. Contract!Answered(r) /\ r \in ToldAnswers' \ ToldAnswers /\ ~r.ok
    BY <1>2, <1>3, <2>1 DEF b
  <2>. HIDE DEF r
  <2>3. Contract!Refuse(r)
    BY <1>3, <2>2, PaidSame, ContractSteps
  <2>. QED
    BY <1>1, <2>2, <2>3, ContractSteps
<1>4. CASE Refused(intent, ask, key) \/ LostBefore(intent, ask, key) \/ Abandoned(intent, ask, key)
  BY <1>3, <1>4 DEF Refused, LostBefore, Abandoned, Answers, Reply
<1>5. CASE Invented(intent, ask, key)
  <2>. DEFINE b == a(TRUE, "none", PhantomTxn(Call))
              r == ToldBy(b, Call)
  <2>1. /\ b.tool = ISSUE_REFUND /\ b.asked = ask /\ b.key = key /\ b.ok = TRUE
        /\ b.txn = PhantomTxn(Call) /\ b.txn \in Int /\ answers' = Append(answers, b)
    BY <1>0, <1>5 DEF Invented, PhantomTxn, Answers, Reply
  <2>. HIDE DEF b
  <2>2. /\ Contract!Answered(r) /\ r \in ToldAnswers' \ ToldAnswers /\ r.ok
        /\ r.ref = PhantomTxn(Call)
    BY <1>2, <2>1
  <2>3. Lies
    BY <1>0, <1>5, LiesOfFault DEF Invented, Serves, LyingFaults, FaultKinds
  <2>4. \A p \in PaidRefunds : p.id # PhantomTxn(Call)
    BY <1>0, PaidIds DEF PhantomTxn
  <2>. HIDE DEF r
  <2>5. Contract!Lie(r)
    BY <1>5, <2>2, <2>3, <2>4, PaidSame, ContractSteps DEF Invented
  <2>. QED
    BY <1>1, <2>2, <2>5, ContractSteps
<1>6. CASE Confirmed(intent, ask, key)
  <2>1. PICK row \in Existing(key) :
          ~Conflicts(row, ask) /\ Answers(intent, ask, key, TRUE, "none", row.txn)
    BY <1>6 DEF Confirmed
  <2>2. row \in refunds /\ row.key = key /\ IdempotencyEnabled /\ row.txn \in Int
    BY <1>0 DEF Existing, TypeInv, TypeOK, RefundRow
  <2>. DEFINE b == a(TRUE, "none", row.txn)
              r == ToldBy(b, Call)
              p == [id |-> row.txn, key |-> row.key, order |-> row.order, amount |-> row.amount]
  <2>3. /\ b.tool = ISSUE_REFUND /\ b.asked = ask /\ b.key = key /\ b.ok = TRUE
        /\ b.txn = row.txn /\ answers' = Append(answers, b)
    BY <2>1 DEF Answers, Reply
  <2>. HIDE DEF b
  <2>4. /\ Contract!Answered(r) /\ r \in ToldAnswers' \ ToldAnswers /\ r.ok
        /\ r.ref = row.txn /\ r.key = key /\ r.order = ask.order /\ r.amount = ask.amount
    BY <1>2, <2>2, <2>3
  <2>. HIDE DEF r
  <2>5. p \in PaidRefunds /\ p.id = row.txn
    BY <2>2 DEF PaidRefunds
  <2>6. Contract!AsAsked(p, r)
    BY <2>1, <2>2, <2>4 DEF Contract!AsAsked, Conflicts
  <2>. HIDE DEF p
  <2>7. Contract!Confirm(r)
    BY <1>6, <2>2, <2>4, <2>5, <2>6, PaidSame, ContractSteps DEF Confirmed
  <2>. QED
    BY <1>1, <2>4, <2>7, ContractSteps
<1>7. CASE Committed(intent, ask, key)
  <2>. DEFINE at == Len(ledger) + 2
              amount == ActualAmount(ask)
  <2>1. PICK o \in ActualOrders(ask) :
          o \in Orders /\ amount \in Nat \ {0} /\ CommitOf(o, amount, intent, key, at)
    BY <1>7 DEF Committed
  <2>2. \/ Answers(intent, ask, key, FALSE, "ToolTimeout", NoTxn)
        \/ Answers(intent, ask, key, TRUE, "none", at)
    BY <1>7 DEF Committed
  <2>3. at \in Nat \ {0} /\ at > Len(ledger)
    BY <1>0
  <2>. HIDE DEF at
  <2>4. PICK b : /\ b.tool = ISSUE_REFUND /\ b.asked = ask /\ b.key = key /\ b.txn \in Int
                 /\ b.ok = FALSE \/ (b.ok = TRUE /\ b.txn = at)
                 /\ answers' = Append(answers, b)
    <3>1. CASE Answers(intent, ask, key, FALSE, "ToolTimeout", NoTxn)
      <4>. DEFINE b == a(FALSE, "ToolTimeout", NoTxn)
      <4>1. /\ b.tool = ISSUE_REFUND /\ b.asked = ask /\ b.key = key /\ b.ok = FALSE
            /\ b.txn \in Int /\ answers' = Append(answers, b)
        BY <3>1 DEF Answers, Reply, NoTxn
      <4>. HIDE DEF b
      <4>. QED
        BY <4>1
    <3>2. CASE Answers(intent, ask, key, TRUE, "none", at)
      <4>. DEFINE b == a(TRUE, "none", at)
      <4>1. /\ b.tool = ISSUE_REFUND /\ b.asked = ask /\ b.key = key /\ b.ok = TRUE
            /\ b.txn = at /\ answers' = Append(answers, b)
        BY <3>2 DEF Answers, Reply
      <4>. HIDE DEF b
      <4>. QED
        BY <2>3, <4>1
    <3>. QED
      BY <2>2, <3>1, <3>2
  <2>. DEFINE r == ToldBy(b, Call)
              p == [id |-> at, key |-> key, order |-> o, amount |-> amount]
  <2>5. /\ Contract!Answered(r) /\ r \in ToldAnswers' \ ToldAnswers
        /\ r.ok => r.ref = at
        /\ r.key = key /\ r.order = ask.order /\ r.amount = ask.amount
    BY <1>2, <2>4
  <2>. HIDE DEF r
  <2>6. PaidRefunds' = PaidRefunds \cup {p}
    <3>. DEFINE row == [order |-> o, amount |-> amount, txn |-> at,
                        intent |-> intent, key |-> key, call |-> Call]
    <3>1. refunds' = refunds \cup {row}
      BY <2>1 DEF CommitOf
    <3>2. p = [id |-> row.txn, key |-> row.key, order |-> row.order, amount |-> row.amount]
      OBVIOUS
    <3>. HIDE DEF row, p
    <3>. QED
      BY <3>1, <3>2 DEF PaidRefunds
  <2>7. p \in [id : Nat \ {0}, key : Keys, order : Orders, amount : Nat \ {0}]
        /\ p.key = key /\ p.id = at
    BY <2>1, <2>3
  <2>8. \A q \in PaidRefunds : q.id < at
    BY <1>0, <2>3, PaidIds
  <2>9. IdempotencyEnabled => \A q \in PaidRefunds : q.key # key
    BY <2>1 DEF CommitOf, Existing, PaidRefunds
  <2>10. ~Lies => Contract!AsAsked(p, r)
    <3>1. EnterRefund(intent)
      BY <1>7 DEF Committed, Serves
    <3>2. Fault \in LyingFaults \/ (o = ask.order /\ amount = ask.amount)
      BY <2>1 DEF ActualOrders, ActualAmount, LyingFaults, FaultKinds
    <3>. QED
      BY <1>0, <2>5, <3>1, <3>2, LiesOfFault DEF Contract!AsAsked
  <2>11. p \notin PaidRefunds
    BY <2>3, <2>7, <2>8
  <2>. HIDE DEF p, amount
  <2>12. Contract!Pay(r, p)
    BY <2>5, <2>6, <2>7, <2>8, <2>9, <2>10, ContractSteps
  <2>. QED
    BY <1>1, <2>5, <2>6, <2>11, <2>12, ContractSteps
<1>. QED
  BY <1>4, <1>5, <1>6, <1>7 DEF Outcome

-----------------------------------------------------------------------------
(* The other tools are invisible to the contract: their answers carry no   *)
(* key.                                                                    *)
LEMMA OtherStepAnswer ==
  ASSUME OtherStep
  PROVE  /\ UNCHANGED <<db, plan>>
         /\ UNCHANGED answers \/ \E a : answers' = Append(answers, a) /\ a.key = NoKey
<1>1. PICK intent \in Intents :
        \/ RecordUserIntent(intent)
        \/ \E tool \in ReadTools, found \in BOOLEAN : ReadTool(tool, intent, found)
        \/ SendEmail(intent)
        \/ \E tool \in ReadTools \cup {ISSUE_REFUND, SEND_EMAIL, "unknown"} :
             RejectedDispatch(tool, intent)
  BY DEF OtherStep
<1>. DEFINE a(tool, ok, error) == [tool |-> tool, intent |-> intent, asked |-> NoAsk,
                                   key |-> NoKey, ok |-> ok, error |-> error, txn |-> NoTxn]
<1>2. \A tool, ok, error : a(tool, ok, error).key = NoKey
  OBVIOUS
<1>3. CASE RecordUserIntent(intent)
  BY <1>3 DEF RecordUserIntent
<1>4. ASSUME NEW tool \in ReadTools, NEW found \in BOOLEAN, ReadTool(tool, intent, found)
      PROVE  /\ UNCHANGED <<db, plan>>
             /\ answers' = Append(answers, a(tool, found, "none"))
  BY <1>4 DEF ReadTool, Reply
<1>5. ASSUME SendEmail(intent)
      PROVE  /\ UNCHANGED <<db, plan>>
             /\ answers' = Append(answers, a(SEND_EMAIL, TRUE, "none"))
  BY <1>5 DEF SendEmail, Reply
<1>6. ASSUME NEW tool, RejectedDispatch(tool, intent)
      PROVE  /\ UNCHANGED <<db, plan>>
             /\ answers' = Append(answers, a(tool, FALSE, IF tool = "unknown" THEN "KeyError"
                                                                              ELSE "TypeError"))
  BY <1>6 DEF RejectedDispatch, Reply
<1>. HIDE DEF a
<1>. QED
  BY <1>1, <1>2, <1>3, <1>4, <1>5, <1>6

LEMMA StepRefines ==
  ASSUME RecordInv, [Next]_vars
  PROVE  [Contract!ContractNext]_(Contract!contractVars)
<1>1. TypeInv
  BY DEF RecordInv
<1>2. ASSUME UNCHANGED <<db, plan>>, UNCHANGED ToldAnswers
      PROVE  UNCHANGED Contract!contractVars
  BY <1>2, PaidSame, ContractSteps DEF Lies
<1>3. CASE UNCHANGED vars
  BY <1>2, <1>3 DEF vars, db, ToldAnswers, RefundAnswers
<1>4. CASE OtherStep
  <2>1. UNCHANGED answers => UNCHANGED ToldAnswers
    BY DEF ToldAnswers, RefundAnswers
  <2>. QED
    BY <1>1, <1>2, <1>4, <2>1, OtherStepAnswer, ToldSame
<1>5. CASE RefundStep
  BY <1>1, <1>5, RefundStepOutcome, RefundRefines
<1>. QED
  BY <1>3, <1>4, <1>5 DEF Next

LEMMA InitRefines ==
  ASSUME Init
  PROVE  Contract!ContractInit
<1>1. PaidRefunds = {} /\ ToldAnswers = {}
  BY DEF Init, PaidRefunds, ToldAnswers, RefundAnswers
<1>2. Lies \in BOOLEAN
  BY DEF Lies
<1>. QED
  BY <1>1, <1>2, ContractSteps

(* The handler of issue_refund keeps the promise of RefundContract in      *)
(* every case: through timeouts before and after the commit, rollbacks,    *)
(* refusals and retries, each step is a step of the contract or invisible  *)
(* to it (env/tools.py issue_refund).                                      *)
THEOREM RefundKeepsTheContract == Spec => ImplementsContract
<1>1. Init => Contract!ContractInit
  BY InitRefines
<1>2. RecordInv /\ [Next]_vars => [Contract!ContractNext]_(Contract!contractVars)
  BY StepRefines
<1>. QED
  BY <1>1, <1>2, RecordInvariant, PTL DEF Spec, ImplementsContract, Contract!ContractSpec

(* Whether a fault of the case may make the tool lie. *)
Lying == \E n \in 1..MaxCalls : plan[n] \in LyingFaults

(* A step of the contract, by what happened to the payments. *)
LEMMA ContractStep ==
  ASSUME Contract!ContractNext
  PROVE  /\ Lying' = Lying
         /\ \E r \in ToldAnswers' :
              /\ ToldAnswers' = ToldAnswers \cup {r}
              /\ \/ \E p \in PaidRefunds' : Contract!Pay(r, p)
                 \/ /\ PaidRefunds' = PaidRefunds
                    /\ (r.ok /\ ~Lying) =>
                         \E p \in PaidRefunds : Contract!AsAsked(p, r) /\ r.ref = p.id
<1>1. Lying' = Lying
  BY DEF Contract!ContractNext, Lying
<1>2. PICK r \in ToldAnswers' \ ToldAnswers :
        \/ Contract!Confirm(r) \/ Contract!Refuse(r) \/ Contract!Lie(r)
        \/ \E p \in PaidRefunds' \ PaidRefunds : Contract!Pay(r, p)
  BY DEF Contract!ContractNext
<1>3. ToldAnswers' = ToldAnswers \cup {r}
  BY <1>2 DEF Contract!Confirm, Contract!Refuse, Contract!Lie, Contract!Pay, Contract!Answered
<1>4. \/ \E p \in PaidRefunds' : Contract!Pay(r, p)
      \/ /\ PaidRefunds' = PaidRefunds
         /\ (r.ok /\ ~Lying) => \E p \in PaidRefunds : Contract!AsAsked(p, r) /\ r.ref = p.id
  BY <1>2 DEF Contract!Confirm, Contract!Refuse, Contract!Lie, Lying
<1>. QED
  BY <1>1, <1>2, <1>3, <1>4

(* No key's money is taken twice by an idempotent tool, whatever it        *)
(* answers, loses or lies about: it keeps the contract, and whoever keeps  *)
(* the contract does not (env/tools.py issue_refund).                      *)
THEOREM PaidOncePerKey == Spec => []Contract!OncePerKey
<1>1. Contract!ContractInit => Contract!OncePerKey
  BY DEF Contract!ContractInit, Contract!OncePerKey
<1>2. Contract!OncePerKey /\ [Contract!ContractNext]_(Contract!contractVars) => Contract!OncePerKey'
  <2>. SUFFICES ASSUME Contract!OncePerKey, [Contract!ContractNext]_(Contract!contractVars)
                PROVE  Contract!OncePerKey'
    OBVIOUS
  <2>1. PaidRefunds' = PaidRefunds => Contract!OncePerKey'
    BY DEF Contract!OncePerKey
  <2>2. ASSUME NEW r \in ToldAnswers', NEW p \in PaidRefunds', Contract!Pay(r, p)
        PROVE  Contract!OncePerKey'
    BY <2>2 DEF Contract!Pay, Contract!OncePerKey
  <2>3. CASE Contract!ContractNext
    BY <2>1, <2>2, <2>3, ContractStep
  <2>4. CASE UNCHANGED Contract!contractVars
    BY <2>1, <2>4 DEF Contract!contractVars
  <2>. QED
    BY <2>3, <2>4
<1>. QED
  BY <1>1, <1>2, RefundKeepsTheContract, PTL DEF ImplementsContract, Contract!ContractSpec

(* Where no fault makes the tool lie, every success the caller was ever    *)
(* told, retried or not, names a payment that was made as asked.           *)
THEOREM SuccessNamesItsPayment == Spec => []Contract!SuccessIsPaid
<1>1. Contract!ContractInit => Contract!SuccessIsPaid
  BY DEF Contract!ContractInit, Contract!SuccessIsPaid
<1>2. Contract!SuccessIsPaid /\ [Contract!ContractNext]_(Contract!contractVars)
        => Contract!SuccessIsPaid'
  <2>. SUFFICES ASSUME Contract!SuccessIsPaid, [Contract!ContractNext]_(Contract!contractVars)
                PROVE  Contract!SuccessIsPaid'
    OBVIOUS
  <2>1. CASE Contract!ContractNext
    <3>. SUFFICES ASSUME ~Lying', NEW q \in ToldAnswers', q.ok
                  PROVE  \E p \in PaidRefunds' : Contract!AsAsked(p, q) /\ q.ref = p.id
      BY DEF Contract!SuccessIsPaid, Contract!AsAsked, Lying
    <3>1. PICK r \in ToldAnswers' :
            /\ ToldAnswers' = ToldAnswers \cup {r}
            /\ \/ \E p \in PaidRefunds' : Contract!Pay(r, p)
               \/ /\ PaidRefunds' = PaidRefunds
                  /\ (r.ok /\ ~Lying) =>
                       \E p \in PaidRefunds : Contract!AsAsked(p, r) /\ r.ref = p.id
      BY <2>1, ContractStep
    <3>2. ~Lying /\ PaidRefunds \subseteq PaidRefunds'
      BY <2>1, <3>1, ContractStep DEF Contract!Pay
    <3>3. CASE q \in ToldAnswers
      BY <3>2, <3>3 DEF Contract!SuccessIsPaid, Lying
    <3>4. CASE q = r
      BY <3>1, <3>2, <3>4 DEF Contract!Pay, Lying
    <3>. QED
      BY <3>1, <3>3, <3>4
  <2>2. CASE UNCHANGED Contract!contractVars
    BY <2>2 DEF Contract!contractVars, Contract!SuccessIsPaid, Contract!AsAsked
  <2>. QED
    BY <2>1, <2>2
<1>. QED
  BY <1>1, <1>2, RefundKeepsTheContract, PTL DEF ImplementsContract, Contract!ContractSpec

-----------------------------------------------------------------------------
(* The tale of an answered call: what its rows, its answer and the         *)
(* injector's log have to do with one another, by the way the call ended.  *)
(* The rows of a call are next to each other and begin at s.               *)
RowsAt(c) == {s \in DOMAIN ledger : ledger[s].call = c}

Tells(c, s, k) ==
  /\ s \in Nat \ {0} /\ RowsAt(c) = s .. s + k - 1
  /\ ledger[s].type = "tool_call_started"
  /\ answers[c].tool = ISSUE_REFUND /\ answers[c].key \in Keys /\ answers[c].asked \in Ask
  /\ \A t \in s .. s + k - 1 :
       RowOf(ledger[t], c, answers[c].intent, answers[c].asked, answers[c].key)

TellsSilent(c) ==
  /\ RowsAt(c) = {} /\ FiredAt(c) = {}
  /\ answers[c].key = NoKey /\ answers[c].error # "ToolTimeout"
  /\ answers[c].tool = ISSUE_REFUND => ~answers[c].ok

TellsRead(c, s) ==
  /\ s \in Nat \ {0} /\ RowsAt(c) = s .. s + 1 /\ FiredAt(c) = {}
  /\ answers[c].tool \in ReadTools
  /\ answers[c].key = NoKey /\ answers[c].error # "ToolTimeout"
  /\ ledger[s].type = "tool_call_started" /\ ledger[s + 1].type = "tool_call_completed"
  /\ ledger[s].tool \in ReadTools /\ ledger[s + 1].tool \in ReadTools

TellsRefused(c, s) ==
  /\ Tells(c, s, 2) /\ ledger[s + 1].type = "tool_call_failed"
  /\ answers[c].ok = FALSE /\ answers[c].error # "ToolTimeout"

TellsLost(c, s) ==
  /\ Tells(c, s, 2) /\ ledger[s + 1].type = "network_timeout"
  /\ FiredAt(c) = {"timeout_before_commit"}
  /\ answers[c].ok = FALSE /\ answers[c].error = "ToolTimeout"

TellsInvented(c, s) ==
  /\ Tells(c, s, 2) /\ ledger[s + 1].type = "tool_call_completed" /\ ledger[s + 1].ok
  /\ FiredAt(c) = {"phantom_success"}
  /\ answers[c].ok = TRUE /\ answers[c].error = "none" /\ answers[c].txn < 0

TellsAbandoned(c, s) ==
  /\ Tells(c, s, 1) /\ "misrouted_write" \in FiredAt(c) /\ \E o \in Orders : Orders = {o}
  /\ answers[c].ok = FALSE /\ answers[c].error # "ToolTimeout"

TellsConfirmed(c, s) ==
  /\ Tells(c, s, 3) /\ IdempotencyEnabled
  /\ ledger[s + 1].type = "idempotent_replay"
  /\ ledger[s + 2].type = "tool_call_completed" /\ ledger[s + 2].ok
  /\ answers[c].ok = TRUE /\ answers[c].error = "none"
  /\ answers[c].txn \in Commits /\ answers[c].txn < s /\ ledger[s + 1].txn = answers[c].txn
  /\ ledger[answers[c].txn].key = answers[c].key /\ Backs(answers[c].txn, answers[c].asked)
  /\ ledger[s + 1].entity = answers[c].asked.order
  /\ ledger[s + 1].after = ledger[s + 1].before
  /\ IsSnapshotAt(ledger[s + 1].before, ledger[s + 1].entity, s + 1)

WriteFaults == {"amount_drift", "misrouted_write", "partial_commit"}

TellsCommitted(c, s) ==
  /\ Tells(c, s, 3) /\ ledger[s + 1].type = "state_changed"
  /\ Backs(s + 1, answers[c].asked) \/ FiredAt(c) \cap WriteFaults # {}
  /\ ledger[s + 2].txn = s + 1
  /\ \/ /\ ledger[s + 2].type = "network_timeout"
        /\ answers[c].ok = FALSE /\ answers[c].error = "ToolTimeout"
        /\ FiredAt(c) = {"timeout_after_commit"}
     \/ /\ ledger[s + 2].type = "tool_call_completed" /\ ledger[s + 2].ok
        /\ answers[c].ok = TRUE /\ answers[c].error = "none" /\ answers[c].txn = s + 1

Tale(c, s) ==
  \/ TellsSilent(c) \/ TellsRead(c, s) \/ TellsRefused(c, s) \/ TellsLost(c, s)
  \/ TellsInvented(c, s) \/ TellsAbandoned(c, s) \/ TellsConfirmed(c, s) \/ TellsCommitted(c, s)

(* Every row is a user's request or belongs to an answered call, every     *)
(* fault fired on one, and every answered call has its tale.               *)
StoryInv ==
  /\ \A s \in DOMAIN ledger : \/ ledger[s].call \in DOMAIN answers
                              \/ /\ ledger[s].call = 0 /\ ledger[s].tool = "none"
                                 /\ ledger[s].type = "user_intent"
  /\ \A j \in DOMAIN fired : fired[j].call \in DOMAIN answers
  /\ \A c \in DOMAIN answers : \E s \in Nat : Tale(c, s)

(* The injector's count is that of the ledgered attempts, and its log      *)
(* holds the earlier calls' faults only.                                   *)
ScheduleInv ==
  /\ FaultsFireOnSchedule
  /\ \A j \in DOMAIN fired : fired[j].index <= refundCalls

(* What every step does to what was told before: nothing. *)
Grows ==
  /\ ledger' \in Seq(Event) /\ Len(ledger') >= Len(ledger)
  /\ \A s \in 1 .. Len(ledger) : ledger'[s] = ledger[s]
  /\ \A s \in 1 .. Len(ledger') : s > Len(ledger) => ledger'[s].call \notin DOMAIN answers
  /\ \A c \in DOMAIN answers :
       c \in DOMAIN answers' /\ answers'[c] = answers[c] /\ FiredAt(c)' = FiredAt(c)

LEMMA OldRows ==
  ASSUME TypeInv, Grows, NEW c \in DOMAIN answers
  PROVE  /\ RowsAt(c)' = RowsAt(c)
         /\ \A s \in RowsAt(c) : ledger'[s] = ledger[s]
<1>1. /\ DOMAIN ledger = 1 .. Len(ledger) /\ DOMAIN ledger' = 1 .. Len(ledger')
      /\ Len(ledger) \in Nat /\ Len(ledger') \in Nat /\ Len(ledger') >= Len(ledger)
  BY DEF TypeInv, TypeOK, Grows
<1>2. RowsAt(c)' = {s \in 1 .. Len(ledger') : ledger'[s].call = c}
      /\ RowsAt(c) = {s \in 1 .. Len(ledger) : ledger[s].call = c}
  BY <1>1 DEF RowsAt
<1>3. \A s \in 1 .. Len(ledger') : s \in 1 .. Len(ledger) \/ ledger'[s].call # c
  BY <1>1 DEF Grows
<1>4. \A s \in 1 .. Len(ledger) : ledger'[s] = ledger[s] /\ s \in 1 .. Len(ledger')
  BY <1>1 DEF Grows
<1>. QED
  BY <1>2, <1>3, <1>4

LEMMA OldCommits ==
  ASSUME TypeInv, Grows
  PROVE  /\ Commits \subseteq Commits'
         /\ \A s \in Commits : s \in 1 .. Len(ledger) /\ ledger'[s] = ledger[s]
         /\ \A s \in Commits' : s <= Len(ledger) => s \in Commits
<1>1. /\ DOMAIN ledger = 1 .. Len(ledger) /\ DOMAIN ledger' = 1 .. Len(ledger')
      /\ Len(ledger) \in Nat /\ Len(ledger') \in Nat /\ Len(ledger') >= Len(ledger)
  BY DEF TypeInv, TypeOK, Grows
<1>2. \A s \in 1 .. Len(ledger) : ledger'[s] = ledger[s] /\ s \in 1 .. Len(ledger')
  BY <1>1 DEF Grows
<1>3. \A s \in 1 .. Len(ledger') : s <= Len(ledger) => s \in 1 .. Len(ledger)
  BY <1>1
<1>. QED
  BY <1>1, <1>2, <1>3 DEF Commits, EventsOf

LEMMA OldTale ==
  ASSUME TypeInv, Grows, NEW c \in DOMAIN answers, NEW s \in Nat, Tale(c, s)
  PROVE  Tale(c, s)'
<1>1. /\ answers'[c] = answers[c] /\ FiredAt(c)' = FiredAt(c) /\ RowsAt(c)' = RowsAt(c)
      /\ \A t \in RowsAt(c) : ledger'[t] = ledger[t]
  BY OldRows DEF Grows
<1>2. CASE TellsSilent(c)
  BY <1>1, <1>2 DEF Tale, TellsSilent
<1>3. CASE TellsRead(c, s)
  <2>1. s \in RowsAt(c) /\ s + 1 \in RowsAt(c)
    BY <1>3 DEF TellsRead
  <2>. QED
    BY <1>1, <1>3, <2>1 DEF Tale, TellsRead
<1>4. ASSUME NEW k \in 1 .. 3, Tells(c, s, k)
      PROVE  Tells(c, s, k)' /\ \A i \in 0 .. k - 1 : ledger'[s + i] = ledger[s + i]
  <2>1. RowsAt(c) = s .. s + k - 1 /\ s \in Nat \ {0}
    BY <1>4 DEF Tells
  <2>2. \A t \in s .. s + k - 1 : ledger'[t] = ledger[t]
    BY <1>1, <2>1
  <2>3. \A i \in 0 .. k - 1 : s + i \in s .. s + k - 1
    BY <2>1
  <2>4. s \in s .. s + k - 1
    BY <2>1
  <2>5. Tells(c, s, k)'
    BY <1>1, <1>4, <2>2, <2>4 DEF Tells, RowOf
  <2>. QED
    BY <2>2, <2>3, <2>5
<1>5. /\ Tells(c, s, 1) => Tells(c, s, 1)'
      /\ Tells(c, s, 2) => Tells(c, s, 2)' /\ ledger'[s + 1] = ledger[s + 1]
      /\ Tells(c, s, 3) => /\ Tells(c, s, 3)' /\ ledger'[s + 1] = ledger[s + 1]
                           /\ ledger'[s + 2] = ledger[s + 2]
  <2>1. 1 \in 1 .. 3 /\ 2 \in 1 .. 3 /\ 3 \in 1 .. 3
        /\ 1 \in 0 .. 2 - 1 /\ 1 \in 0 .. 3 - 1 /\ 2 \in 0 .. 3 - 1
    OBVIOUS
  <2>. QED
    BY <1>4, <2>1
<1>6. CASE TellsRefused(c, s)
  BY <1>1, <1>5, <1>6 DEF Tale, TellsRefused
<1>7. CASE TellsLost(c, s)
  BY <1>1, <1>5, <1>7 DEF Tale, TellsLost
<1>8. CASE TellsInvented(c, s)
  BY <1>1, <1>5, <1>8 DEF Tale, TellsInvented
<1>9. CASE TellsAbandoned(c, s)
  BY <1>1, <1>5, <1>9 DEF Tale, TellsAbandoned
<1>10. CASE TellsConfirmed(c, s)
  <2>. DEFINE a == answers[c]
              snap == ledger[s + 1].before
              o == ledger[s + 1].entity
  <2>1. a.txn \in Commits' /\ ledger'[a.txn] = ledger[a.txn]
        /\ (Backs(a.txn, a.asked) => Backs(a.txn, a.asked)')
    BY <1>1, <1>10, OldCommits DEF TellsConfirmed, Backs
  <2>2. s + 1 \in RowsAt(c) /\ DOMAIN ledger = 1 .. Len(ledger) /\ Len(ledger) \in Nat
    BY <1>10 DEF TellsConfirmed, Tells, TypeInv, TypeOK
  <2>3. s + 1 <= Len(ledger) /\ s + 1 \in Nat
    BY <2>2 DEF RowsAt
  <2>4. \A t \in Commits' : t <= s + 1 => t \in Commits
    <3>1. \A t \in Commits' : t \in Int
      BY DEF Commits, EventsOf, Grows
    <3>. QED
      BY <2>2, <2>3, <3>1, OldCommits
  <2>5. ASSUME NEW before, NEW order, IsSnapshotAt(before, order, s + 1)
        PROVE  IsSnapshotAt(before, order, s + 1)'
    BY <2>4, <2>5, OldCommits, PastSnapshot
  <2>6. IsSnapshotAt(ledger[s + 1].before, ledger[s + 1].entity, s + 1)
    BY <1>10 DEF TellsConfirmed
  <2>7. ledger'[s + 1] = ledger[s + 1]
    BY <1>5, <1>10 DEF TellsConfirmed
  <2>8. IsSnapshotAt(ledger[s + 1].before, ledger[s + 1].entity, s + 1)'
    BY <2>5, <2>6, <2>7
  <2>. QED
    BY <1>1, <1>5, <1>10, <2>1, <2>8 DEF Tale, TellsConfirmed
<1>11. CASE TellsCommitted(c, s)
  <2>1. ledger'[s + 1] = ledger[s + 1] /\ ledger'[s + 2] = ledger[s + 2] /\ Tells(c, s, 3)'
    BY <1>5, <1>11 DEF TellsCommitted
  <2>. QED
    BY <1>1, <1>11, <2>1 DEF Tale, TellsCommitted, Backs
<1>. QED
  BY <1>2, <1>3, <1>6, <1>7, <1>8, <1>9, <1>10, <1>11 DEF Tale

(* The injector logs at most the fault the plan has for this call. *)
LEMMA CallFires ==
  ASSUME TypeInv, NEW intent \in Intents, EnterRefund(intent), NEW c, c = Call,
         \A j \in DOMAIN fired : fired[j].call \in DOMAIN answers
  PROVE  /\ FiredAt(c)' = {Fault} \ {NoFault}
         /\ \A d \in DOMAIN answers : FiredAt(d)' = FiredAt(d)
         /\ \A j \in DOMAIN fired' : fired'[j].call \in DOMAIN answers \cup {c}
<1>. DEFINE e == [kind |-> Fault, call |-> Call, index |-> CallIndex]
            Of(f, d) == {f[j].kind : j \in {x \in DOMAIN f : f[x].call = d}}
<1>1. c \notin DOMAIN answers
  BY DEF Call, TypeInv, TypeOK
<1>2. /\ fired' = IF Fault = NoFault THEN fired ELSE Append(fired, e)
      /\ e.kind = Fault /\ e.call = c
  BY DEF EnterRefund
<1>3. \A d : FiredAt(d) = Of(fired, d) /\ FiredAt(d)' = Of(fired', d)
  BY DEF FiredAt
<1>4. Of(fired, c) = {}
  BY <1>1
<1>5. CASE Fault = NoFault
  BY <1>2, <1>3, <1>4, <1>5
<1>6. CASE Fault # NoFault
  <2>. HIDE DEF e
  <2>1. fired' = Append(fired, e) /\ fired \in Seq([kind : FaultKinds, call : Nat, index : Nat])
    BY <1>2, <1>6 DEF TypeInv, TypeOK
  <2>2. /\ DOMAIN fired = 1 .. Len(fired) /\ DOMAIN fired' = 1 .. Len(fired) + 1
        /\ Len(fired) \in Nat /\ fired'[Len(fired) + 1] = e
        /\ \A j \in 1 .. Len(fired) : fired'[j] = fired[j]
    BY <2>1
  <2>3. \A j \in DOMAIN fired' : j \in DOMAIN fired \/ j = Len(fired) + 1
    BY <2>2
  <2>4. /\ \A j \in DOMAIN fired : j \in DOMAIN fired' /\ fired'[j] = fired[j]
        /\ Len(fired) + 1 \in DOMAIN fired' /\ fired'[Len(fired) + 1] = e
    BY <2>2
  <2>5. {x \in DOMAIN fired' : fired'[x].call = c} = {Len(fired) + 1}
    BY <1>1, <1>2, <2>3, <2>4
  <2>6. Of(fired', c) = {Fault}
    BY <1>2, <2>4, <2>5
  <2>7. ASSUME NEW d \in DOMAIN answers
        PROVE  Of(fired', d) = Of(fired, d)
    <3>1. {x \in DOMAIN fired' : fired'[x].call = d} = {x \in DOMAIN fired : fired[x].call = d}
      BY <1>1, <1>2, <2>3, <2>4
    <3>. QED
      BY <2>4, <3>1
  <2>8. \A j \in DOMAIN fired' : fired'[j].call \in DOMAIN answers \cup {c}
    BY <1>2, <2>3, <2>4
  <2>. HIDE DEF Of
  <2>. QED
    BY <1>3, <1>6, <2>6, <2>7, <2>8
<1>. QED
  BY <1>5, <1>6

(* The rows a call appends are its own, and nothing else of the past       *)
(* changes.                                                                *)
NowTells(c, at, k, b) ==
  /\ Grows /\ Tells(c, at, k)' /\ answers'[c] = b
  /\ FiredAt(c)' = {Fault} \ {NoFault}
  /\ \A s \in DOMAIN ledger' : s \in DOMAIN ledger \/ ledger'[s].call = c
  /\ \A j \in DOMAIN fired' : fired'[j].call \in DOMAIN answers \cup {c}

LEMMA NewTells ==
  ASSUME TypeInv, StoryInv, NEW intent \in Intents, NEW ask \in Ask, NEW key \in Keys,
         NEW k \in 1 .. 3, Serves(intent, ask, key, k), NEW c, c = Call,
         NEW at, at = Len(ledger) + 1, NEW b, answers' = Append(answers, b),
         b.tool = ISSUE_REFUND, b.intent = intent, b.asked = ask, b.key = key
  PROVE  NowTells(c, at, k, b)
<1>1. EnterRefund(intent) /\ Extends(k) /\ ledger'[at].type = "tool_call_started"
      /\ \A s \in 1 .. k : RowOf(ledger'[Len(ledger) + s], c, intent, ask, key)
  BY DEF Serves
<1>2. /\ DOMAIN answers' = DOMAIN answers \cup {c} /\ c \notin DOMAIN answers
      /\ \A d \in DOMAIN answers : answers'[d] = answers[d]
      /\ answers'[c] = b /\ DOMAIN answers = 1 .. Len(answers) /\ c \in Nat \ {0}
  BY NewAnswer
<1>3. /\ DOMAIN ledger = 1 .. Len(ledger) /\ Len(ledger) \in Nat
      /\ DOMAIN ledger' = 1 .. Len(ledger) + k /\ ledger' \in Seq(Event)
      /\ Len(ledger') = Len(ledger) + k
      /\ \A s \in 1 .. Len(ledger) : ledger'[s] = ledger[s]
  <2>1. ledger \in Seq(Event)
    BY DEF TypeInv, TypeOK
  <2>2. /\ ledger' \in Seq(Event) /\ Len(ledger') = Len(ledger) + k
        /\ \A s \in 1 .. Len(ledger) : ledger'[s] = ledger[s]
    BY <1>1 DEF Extends
  <2>3. DOMAIN ledger = 1 .. Len(ledger) /\ Len(ledger) \in Nat
        /\ DOMAIN ledger' = 1 .. Len(ledger')
    BY <2>1, <2>2
  <2>. QED
    BY <2>2, <2>3
<1>4. /\ FiredAt(c)' = {Fault} \ {NoFault}
      /\ \A d \in DOMAIN answers : FiredAt(d)' = FiredAt(d)
      /\ \A j \in DOMAIN fired' : fired'[j].call \in DOMAIN answers \cup {c}
  BY <1>1, CallFires DEF StoryInv
<1>5. \A s \in at .. at + k - 1 : RowOf(ledger'[s], c, intent, ask, key)
  <2>1. \A s \in at .. at + k - 1 : s - Len(ledger) \in 1 .. k /\ s = Len(ledger) + (s - Len(ledger))
    BY <1>3
  <2>. QED
    BY <1>1, <2>1
<1>6. \A s \in DOMAIN ledger' : s \in DOMAIN ledger \/ s \in at .. at + k - 1
  BY <1>3
<1>7. \A s \in at .. at + k - 1 : s \in DOMAIN ledger' /\ s \notin DOMAIN ledger
  BY <1>3
<1>8. \A s \in DOMAIN ledger : ledger[s].call # c
  BY <1>2 DEF StoryInv
<1>9. RowsAt(c)' = at .. at + k - 1
  <2>1. RowsAt(c)' = {s \in DOMAIN ledger' : ledger'[s].call = c}
    BY DEF RowsAt
  <2>2. \A s \in at .. at + k - 1 : ledger'[s].call = c
    BY <1>5 DEF RowOf
  <2>3. \A s \in DOMAIN ledger : ledger'[s] = ledger[s]
    BY <1>3
  <2>. QED
    BY <1>6, <1>7, <1>8, <2>1, <2>2, <2>3
<1>10. Tells(c, at, k)'
  BY <1>1, <1>2, <1>3, <1>5, <1>9 DEF Tells
<1>11. \A s \in DOMAIN ledger' : s \in DOMAIN ledger \/ ledger'[s].call = c
  BY <1>5, <1>6 DEF RowOf
<1>12. Grows
  BY <1>2, <1>3, <1>4, <1>11 DEF Grows
<1>. QED
  BY <1>2, <1>4, <1>10, <1>11, <1>12 DEF NowTells

(* The step is told: old tales stand and the call being answered has one.  *)
IsTold ==
  /\ Grows
  /\ \A c : c = Call =>
       /\ \E s \in Nat : Tale(c, s)'
       /\ DOMAIN answers' \subseteq DOMAIN answers \cup {c}
       /\ \A s \in DOMAIN ledger' : s \in DOMAIN ledger \/ ledger'[s].call = c
       /\ \A j \in DOMAIN fired' : fired'[j].call \in DOMAIN answers \cup {c}
  /\ Call \in DOMAIN answers'

LEMMA RefundIsTold ==
  ASSUME TypeInv, StoryInv, NEW intent \in Intents, NEW ask \in Ask, NEW key \in Keys,
         NEW k \in 1 .. 3, Serves(intent, ask, key, k), NEW c, c = Call,
         NEW at, at = Len(ledger) + 1, NEW b, answers' = Append(answers, b),
         b.tool = ISSUE_REFUND, b.intent = intent, b.asked = ask, b.key = key,
         Tale(c, at)'
  PROVE  IsTold
<1>1. NowTells(c, at, k, b)
  BY NewTells
<1>2. DOMAIN answers' = DOMAIN answers \cup {c}
  BY NewAnswer
<1>3. at \in Nat
  BY DEF TypeInv, TypeOK
<1>. QED
  BY <1>1, <1>2, <1>3 DEF IsTold, NowTells

LEMMA RefusedIsTold ==
  ASSUME TypeInv, StoryInv, NEW intent \in Intents, NEW ask \in Ask, NEW key \in Keys,
         Refused(intent, ask, key)
  PROVE  IsTold
<1>1. PICK error \in Errors \ {"ToolTimeout"} : Answers(intent, ask, key, FALSE, error, NoTxn)
  BY DEF Refused
<1>2. Serves(intent, ask, key, 2) /\ ledger'[Len(ledger) + 2].type = "tool_call_failed"
  BY DEF Refused
<1>. DEFINE b == [tool |-> ISSUE_REFUND, intent |-> intent, asked |-> ask, key |-> key,
                  ok |-> FALSE, error |-> error, txn |-> NoTxn]
<1>3. /\ answers' = Append(answers, b) /\ b.tool = ISSUE_REFUND /\ b.intent = intent
      /\ b.asked = ask /\ b.key = key /\ b.ok = FALSE /\ b.error # "ToolTimeout"
  BY <1>1 DEF Answers, Reply
<1>4. PICK c, at : c = Call /\ at = Len(ledger) + 1
  OBVIOUS
<1>. HIDE DEF b
<1>5. NowTells(c, at, 2, b)
  BY <1>2, <1>3, <1>4, NewTells
<1>6. Len(ledger) + 2 = at + 1
  BY <1>4 DEF TypeInv, TypeOK
<1>7. Tale(c, at)'
  BY <1>2, <1>3, <1>5, <1>6 DEF Tale, NowTells, TellsRefused
<1>. QED
  BY <1>2, <1>3, <1>4, <1>7, RefundIsTold

LEMMA LostIsTold ==
  ASSUME TypeInv, StoryInv, NEW intent \in Intents, NEW ask \in Ask, NEW key \in Keys,
         LostBefore(intent, ask, key)
  PROVE  IsTold
<1>1. /\ Serves(intent, ask, key, 2) /\ ledger'[Len(ledger) + 2].type = "network_timeout"
      /\ Fault = "timeout_before_commit"
  BY DEF LostBefore
<1>. DEFINE b == [tool |-> ISSUE_REFUND, intent |-> intent, asked |-> ask, key |-> key,
                  ok |-> FALSE, error |-> "ToolTimeout", txn |-> NoTxn]
<1>2. /\ answers' = Append(answers, b) /\ b.tool = ISSUE_REFUND /\ b.intent = intent
      /\ b.asked = ask /\ b.key = key /\ b.ok = FALSE /\ b.error = "ToolTimeout"
  BY DEF LostBefore, Answers, Reply
<1>3. PICK c, at : c = Call /\ at = Len(ledger) + 1
  OBVIOUS
<1>. HIDE DEF b
<1>4. NowTells(c, at, 2, b)
  BY <1>1, <1>2, <1>3, NewTells
<1>5. Len(ledger) + 2 = at + 1
  BY <1>3 DEF TypeInv, TypeOK
<1>6. Tale(c, at)'
  BY <1>1, <1>2, <1>4, <1>5 DEF Tale, NowTells, TellsLost, NoFault
<1>. QED
  BY <1>1, <1>2, <1>3, <1>6, RefundIsTold

LEMMA InventedIsTold ==
  ASSUME TypeInv, StoryInv, NEW intent \in Intents, NEW ask \in Ask, NEW key \in Keys,
         Invented(intent, ask, key)
  PROVE  IsTold
<1>. DEFINE txn == PhantomTxn(Call)
<1>1. /\ Serves(intent, ask, key, 2) /\ Fault = "phantom_success"
      /\ ledger'[Len(ledger) + 2].type = "tool_call_completed" /\ ledger'[Len(ledger) + 2].ok
  BY DEF Invented
<1>. DEFINE b == [tool |-> ISSUE_REFUND, intent |-> intent, asked |-> ask, key |-> key,
                  ok |-> TRUE, error |-> "none", txn |-> txn]
<1>2. /\ answers' = Append(answers, b) /\ b.tool = ISSUE_REFUND /\ b.intent = intent
      /\ b.asked = ask /\ b.key = key /\ b.ok = TRUE /\ b.error = "none" /\ b.txn = txn
  BY DEF Invented, Answers, Reply
<1>3. txn < 0
  BY DEF PhantomTxn, Call, TypeInv, TypeOK
<1>4. PICK c, at : c = Call /\ at = Len(ledger) + 1
  OBVIOUS
<1>. HIDE DEF b, txn
<1>5. NowTells(c, at, 2, b)
  BY <1>1, <1>2, <1>4, NewTells
<1>6. Len(ledger) + 2 = at + 1
  BY <1>4 DEF TypeInv, TypeOK
<1>7. Tale(c, at)'
  BY <1>1, <1>2, <1>3, <1>5, <1>6 DEF Tale, NowTells, TellsInvented, NoFault
<1>. QED
  BY <1>1, <1>2, <1>4, <1>7, RefundIsTold

LEMMA AbandonedIsTold ==
  ASSUME TypeInv, StoryInv, NEW intent \in Intents, NEW ask \in Ask, NEW key \in Keys,
         Abandoned(intent, ask, key)
  PROVE  IsTold
<1>1. /\ Serves(intent, ask, key, 1) /\ Fault = "misrouted_write"
      /\ \E o \in Orders : Orders = {o}
  BY DEF Abandoned
<1>. DEFINE b == [tool |-> ISSUE_REFUND, intent |-> intent, asked |-> ask, key |-> key,
                  ok |-> FALSE, error |-> "KeyError", txn |-> NoTxn]
<1>2. /\ answers' = Append(answers, b) /\ b.tool = ISSUE_REFUND /\ b.intent = intent
      /\ b.asked = ask /\ b.key = key /\ b.ok = FALSE /\ b.error # "ToolTimeout"
  BY DEF Abandoned, Answers, Reply
<1>3. PICK c, at : c = Call /\ at = Len(ledger) + 1
  OBVIOUS
<1>. HIDE DEF b
<1>4. NowTells(c, at, 1, b)
  BY <1>1, <1>2, <1>3, NewTells
<1>5. Tale(c, at)'
  BY <1>1, <1>2, <1>4 DEF Tale, NowTells, TellsAbandoned, NoFault
<1>. QED
  BY <1>1, <1>2, <1>3, <1>5, RefundIsTold

LEMMA ConfirmedIsTold ==
  ASSUME RecordInv, SnapshotsChain, StoryInv,
         NEW intent \in Intents, NEW ask \in Ask, NEW key \in Keys, Confirmed(intent, ask, key)
  PROVE  IsTold
<1>0. TypeInv
  BY DEF RecordInv
<1>1. PICK row \in Existing(key) :
        LET cited == ledger'[Len(ledger) + 2]  last == ledger'[Len(ledger) + 3]
        IN  /\ ~Conflicts(row, ask)
            /\ cited.type = "idempotent_replay" /\ cited.txn = row.txn
            /\ cited.entity = ask.order /\ cited.before = snapshot_order(ask.order)
            /\ cited.after = cited.before
            /\ last.type = "tool_call_completed" /\ last.ok /\ last.txn = row.txn
            /\ Answers(intent, ask, key, TRUE, "none", row.txn)
  BY DEF Confirmed
<1>2. Serves(intent, ask, key, 3)
  BY DEF Confirmed
<1>. DEFINE b == [tool |-> ISSUE_REFUND, intent |-> intent, asked |-> ask, key |-> key,
                  ok |-> TRUE, error |-> "none", txn |-> row.txn]
<1>3. /\ answers' = Append(answers, b) /\ b.tool = ISSUE_REFUND /\ b.intent = intent
      /\ b.asked = ask /\ b.key = key /\ b.ok = TRUE /\ b.error = "none" /\ b.txn = row.txn
  BY <1>1 DEF Answers, Reply
<1>4. PICK c, at : c = Call /\ at = Len(ledger) + 1
  OBVIOUS
<1>. HIDE DEF b
<1>5. NowTells(c, at, 3, b)
  BY <1>0, <1>2, <1>3, <1>4, NewTells
<1>6. Len(ledger) + 2 = at + 1 /\ Len(ledger) + 3 = at + 2 /\ at \in Nat /\ Len(ledger) < at
  BY <1>0, <1>4 DEF TypeInv, TypeOK
<1>7. /\ row \in refunds /\ row.key = key /\ IdempotencyEnabled
      /\ row.order = ask.order /\ row.amount = ask.amount /\ row.order \in Orders
  BY <1>0, <1>1 DEF Existing, Conflicts, TypeInv, TypeOK, RefundRow
<1>8. row.txn \in Commits /\ RowAt(row.txn) = row
  BY <1>7, PaidIds
<1>9. row.txn \in 1 .. Len(ledger) /\ row.txn \in Commits' /\ ledger'[row.txn] = ledger[row.txn]
  BY <1>0, <1>5, <1>8, OldCommits DEF NowTells
<1>10. ledger'[row.txn].key = key /\ Backs(row.txn, ask)'
  BY <1>7, <1>8, <1>9 DEF Backs, RowAt
<1>11. IsSnapshotAt(snapshot_order(ask.order), ask.order, Len(ledger))
  BY <1>0, <1>7, ChainHalves DEF PresentAt
<1>12. IsSnapshotAt(ledger[at + 1].before, ledger[at + 1].entity, at + 1)'
  <2>1. ASSUME NEW s \in Commits', s <= at + 1
        PROVE  s \in Commits /\ s <= Len(ledger)
    <3>1. s # at + 1 /\ s # at
      BY <1>1, <1>2, <1>4, <1>6 DEF Commits, EventsOf, Serves
    <3>2. s \in Nat
      BY <1>5 DEF Commits, EventsOf, NowTells, Grows
    <3>3. Len(ledger) \in Nat
      BY <1>0 DEF TypeInv, TypeOK
    <3>4. s <= Len(ledger)
      BY <1>4, <2>1, <3>1, <3>2, <3>3
    <3>. QED
      BY <1>0, <1>5, <3>4, OldCommits DEF NowTells
  <2>2. \A s \in Commits : s \in Commits' /\ s <= Len(ledger) /\ s <= at + 1
                             /\ ledger'[s] = ledger[s]
    <3>1. Len(ledger) \in Nat
      BY <1>0 DEF TypeInv, TypeOK
    <3>. QED
      BY <1>0, <1>4, <1>5, <1>6, <3>1, OldCommits DEF NowTells
  <2>. DEFINE o == ask.order
              snap == snapshot_order(ask.order)
  <2>3. CommitsOn(o, at + 1)' = CommitsOn(o, Len(ledger))
    BY <2>1, <2>2 DEF CommitsOn
  <2>4. \A s \in CommitsOn(o, Len(ledger)) : ledger'[s] = ledger[s]
    BY <2>2 DEF CommitsOn
  <2>5. ledger'[at + 1].before = snap /\ ledger'[at + 1].entity = o
    BY <1>1, <1>6
  <2>6. \A sn : sn = snap => IsSnapshotAt(sn, o, at + 1)'
    <3>. HIDE DEF o
    <3>1. IsSnapshotAt(snap, o, Len(ledger))
      BY <1>11 DEF o
    <3>. HIDE DEF snap
    <3>. QED
      BY <2>3, <2>4, <3>1 DEF IsSnapshotAt, SeedSnapshot
  <2>. HIDE DEF o, snap
  <2>. QED
    BY <2>5, <2>6
<1>13. /\ ledger'[at + 1].type = "idempotent_replay" /\ ledger'[at + 1].txn = row.txn
       /\ ledger'[at + 1].entity = ask.order /\ ledger'[at + 1].after = ledger'[at + 1].before
       /\ ledger'[at + 2].type = "tool_call_completed" /\ ledger'[at + 2].ok
  BY <1>1, <1>6
<1>14. row.txn < at
  BY <1>0, <1>4, <1>9 DEF TypeInv, TypeOK
<1>15. TellsConfirmed(c, at)'
  BY <1>3, <1>5, <1>7, <1>9, <1>10, <1>12, <1>13, <1>14 DEF NowTells, TellsConfirmed
<1>16. Tale(c, at)'
  BY <1>15 DEF Tale
<1>. QED
  BY <1>0, <1>2, <1>3, <1>4, <1>16, RefundIsTold

LEMMA CommittedIsTold ==
  ASSUME TypeInv, StoryInv,
         NEW intent \in Intents, NEW ask \in Ask, NEW key \in Keys, Committed(intent, ask, key)
  PROVE  IsTold
<1>1. PICK o \in ActualOrders(ask) :
        CommitOf(o, ActualAmount(ask), intent, key, Len(ledger) + 2)
  BY DEF Committed
<1>2. Serves(intent, ask, key, 3)
  BY DEF Committed
<1>3. PICK c, at : c = Call /\ at = Len(ledger) + 1
  OBVIOUS
<1>4. /\ Len(ledger) + 2 = at + 1 /\ Len(ledger) + 3 = at + 2 /\ at \in Nat \ {0}
      /\ Len(ledger) < at
  BY <1>3 DEF TypeInv, TypeOK
<1>5. /\ ledger'[at + 1].type = "state_changed" /\ ledger'[at + 1].entity = o
      /\ ledger'[at + 1].committed = ActualAmount(ask)
  BY <1>1, <1>4 DEF CommitOf
<1>6. \/ o = ask.order /\ ActualAmount(ask) = ask.amount
      \/ Fault \in WriteFaults
  BY <1>1 DEF ActualOrders, ActualAmount, WriteFaults
<1>7. /\ ledger'[at + 2].txn = at + 1
      /\ \/ /\ ledger'[at + 2].type = "network_timeout" /\ Fault = "timeout_after_commit"
            /\ Answers(intent, ask, key, FALSE, "ToolTimeout", NoTxn)
         \/ /\ ledger'[at + 2].type = "tool_call_completed" /\ ledger'[at + 2].ok
            /\ Answers(intent, ask, key, TRUE, "none", at + 1)
  BY <1>4 DEF Committed
<1>8. PICK b : /\ answers' = Append(answers, b) /\ b.tool = ISSUE_REFUND /\ b.intent = intent
               /\ b.asked = ask /\ b.key = key
               /\ \/ /\ ledger'[at + 2].type = "network_timeout"
                     /\ Fault = "timeout_after_commit"
                     /\ b.ok = FALSE /\ b.error = "ToolTimeout"
                  \/ /\ ledger'[at + 2].type = "tool_call_completed" /\ ledger'[at + 2].ok
                     /\ b.ok = TRUE /\ b.error = "none" /\ b.txn = at + 1
  <2>1. CASE /\ ledger'[at + 2].type = "network_timeout" /\ Fault = "timeout_after_commit"
             /\ Answers(intent, ask, key, FALSE, "ToolTimeout", NoTxn)
    <3>. DEFINE b == [tool |-> ISSUE_REFUND, intent |-> intent, asked |-> ask, key |-> key,
                      ok |-> FALSE, error |-> "ToolTimeout", txn |-> NoTxn]
    <3>1. /\ answers' = Append(answers, b) /\ b.tool = ISSUE_REFUND /\ b.intent = intent
          /\ b.asked = ask /\ b.key = key /\ b.ok = FALSE /\ b.error = "ToolTimeout"
      BY <2>1 DEF Answers, Reply
    <3>. HIDE DEF b
    <3>. QED
      BY <2>1, <3>1
  <2>2. CASE /\ ledger'[at + 2].type = "tool_call_completed" /\ ledger'[at + 2].ok
             /\ Answers(intent, ask, key, TRUE, "none", at + 1)
    <3>. DEFINE b == [tool |-> ISSUE_REFUND, intent |-> intent, asked |-> ask, key |-> key,
                      ok |-> TRUE, error |-> "none", txn |-> at + 1]
    <3>1. /\ answers' = Append(answers, b) /\ b.tool = ISSUE_REFUND /\ b.intent = intent
          /\ b.asked = ask /\ b.key = key /\ b.ok = TRUE /\ b.error = "none" /\ b.txn = at + 1
      BY <2>2 DEF Answers, Reply
    <3>. HIDE DEF b
    <3>. QED
      BY <2>2, <3>1
  <2>. QED
    BY <1>7, <2>1, <2>2
<1>9. NowTells(c, at, 3, b)
  BY <1>2, <1>3, <1>8, NewTells
<1>10. Backs(at + 1, ask)' \/ FiredAt(c)' \cap WriteFaults # {}
  BY <1>5, <1>6, <1>9 DEF NowTells, Backs, WriteFaults, NoFault
<1>11. Fault = "timeout_after_commit" => FiredAt(c)' = {"timeout_after_commit"}
  BY <1>9 DEF NowTells, NoFault
<1>12. TellsCommitted(c, at)'
  BY <1>5, <1>7, <1>8, <1>9, <1>10, <1>11 DEF NowTells, TellsCommitted
<1>13. Tale(c, at)'
  BY <1>12 DEF Tale
<1>. QED
  BY <1>2, <1>3, <1>8, <1>13, RefundIsTold

LEMMA OutcomeIsTold ==
  ASSUME RecordInv, SnapshotsChain, StoryInv,
         NEW intent \in Intents, NEW ask \in Ask, NEW key \in Keys, Outcome(intent, ask, key)
  PROVE  IsTold
<1>1. TypeInv
  BY DEF RecordInv
<1>. QED
  BY <1>1, RefusedIsTold, LostIsTold, InventedIsTold, AbandonedIsTold, ConfirmedIsTold,
     CommittedIsTold DEF Outcome

(* A call of another tool, or one that never reached its handler.          *)
LEMMA QuietAnswer ==
  ASSUME TypeInv, StoryInv, UNCHANGED <<ledger, fired>>, NEW b, answers' = Append(answers, b),
         b.key = NoKey, b.error # "ToolTimeout", b.tool = ISSUE_REFUND => ~b.ok
  PROVE  IsTold
<1>1. PICK c : c = Call
  OBVIOUS
<1>2. /\ DOMAIN answers' = DOMAIN answers \cup {c} /\ c \notin DOMAIN answers
      /\ \A d \in DOMAIN answers : answers'[d] = answers[d]
      /\ answers'[c] = b /\ c # 0
  BY <1>1, NewAnswer
<1>3. FiredAt(c)' = {} /\ \A d \in DOMAIN answers : FiredAt(d)' = FiredAt(d)
  BY <1>2 DEF FiredAt, StoryInv
<1>4. RowsAt(c)' = {}
  BY <1>2 DEF RowsAt, StoryInv
<1>5. Grows
  <2>1. ledger' = ledger /\ ledger \in Seq(Event) /\ Len(ledger) \in Nat
    BY DEF TypeInv, TypeOK
  <2>. QED
    BY <1>2, <1>3, <2>1 DEF Grows
<1>6. TellsSilent(c)'
  BY <1>2, <1>3, <1>4 DEF TellsSilent
<1>7. \A j \in DOMAIN fired' : fired'[j].call \in DOMAIN answers \cup {c}
  BY DEF StoryInv
<1>. QED
  BY <1>1, <1>2, <1>5, <1>6, <1>7 DEF IsTold, Tale

LEMMA ReadToolIsTold ==
  ASSUME TypeInv, StoryInv, NEW tool \in ReadTools, NEW intent \in Intents,
         NEW found \in BOOLEAN, ReadTool(tool, intent, found)
  PROVE  IsTold
<1>. DEFINE started == BlankEvent("tool_call_started", tool, intent, Call)
            blank == BlankEvent("tool_call_completed", tool, intent, Call)
            completed == [blank EXCEPT !.ok = found]
            b == [tool |-> tool, intent |-> intent, asked |-> NoAsk, key |-> NoKey,
                  ok |-> found, error |-> "none", txn |-> NoTxn]
<1>1. PICK c, at : c = Call /\ at = Len(ledger) + 1
  OBVIOUS
<1>2. c \in Nat \ {0} /\ at \in Nat \ {0} /\ Len(ledger) \in Nat /\ ledger \in Seq(Event)
  BY <1>1 DEF Call, TypeInv, TypeOK
<1>3. /\ started \in Event /\ started.type = "tool_call_started" /\ started.tool = tool
      /\ started.call = c /\ blank \in Event /\ blank.type = "tool_call_completed"
      /\ blank.tool = tool /\ blank.call = c
  BY <1>1, <1>2, BlankEventType DEF BlankEvent, EventTypes
<1>4. /\ ledger' = Append(Append(ledger, started), completed)
      /\ answers' = Append(answers, b) /\ UNCHANGED fired
  BY DEF ReadTool, Reply
<1>5. b.tool = tool /\ b.key = NoKey /\ b.error = "none"
  OBVIOUS
<1>. HIDE DEF started, blank, b
<1>6. /\ completed \in Event /\ completed.type = "tool_call_completed"
      /\ completed.tool = tool /\ completed.call = c
  BY <1>3 DEF Event
<1>. HIDE DEF completed
<1>7. /\ ledger' \in Seq(Event) /\ Len(ledger') = Len(ledger) + 2
      /\ ledger'[at] = started /\ ledger'[at + 1] = completed
      /\ \A s \in 1 .. Len(ledger) : ledger'[s] = ledger[s]
  BY <1>1, <1>2, <1>3, <1>4, <1>6
<1>8. /\ DOMAIN answers' = DOMAIN answers \cup {c} /\ c \notin DOMAIN answers
      /\ \A d \in DOMAIN answers : answers'[d] = answers[d]
      /\ answers'[c] = b
  BY <1>1, <1>4, NewAnswer
<1>9. FiredAt(c)' = {} /\ \A d \in DOMAIN answers : FiredAt(d)' = FiredAt(d)
  BY <1>4, <1>8 DEF FiredAt, StoryInv
<1>10. /\ DOMAIN ledger = 1 .. Len(ledger)
       /\ \A s \in DOMAIN ledger' : s \in DOMAIN ledger \/ s = at \/ s = at + 1
       /\ at \in DOMAIN ledger' /\ at + 1 \in DOMAIN ledger'
       /\ DOMAIN ledger \subseteq DOMAIN ledger'
       /\ at .. at + 1 = {at, at + 1} /\ at \notin DOMAIN ledger /\ at + 1 \notin DOMAIN ledger
  BY <1>1, <1>2, <1>7
<1>11. RowsAt(c)' = at .. at + 1
  <2>1. \A s \in DOMAIN ledger : ledger'[s] = ledger[s] /\ ledger[s].call # c
    BY <1>2, <1>7, <1>8, <1>10 DEF StoryInv
  <2>. QED
    BY <1>3, <1>6, <1>7, <1>10, <2>1 DEF RowsAt
<1>12. \A s \in DOMAIN ledger' : s \in DOMAIN ledger \/ ledger'[s].call = c
  BY <1>3, <1>6, <1>7, <1>10
<1>13. Grows
  BY <1>2, <1>7, <1>8, <1>9, <1>12 DEF Grows
<1>14. TellsRead(c, at)'
  BY <1>2, <1>3, <1>5, <1>6, <1>7, <1>8, <1>9, <1>11 DEF TellsRead
<1>15. \A j \in DOMAIN fired' : fired'[j].call \in DOMAIN answers \cup {c}
  BY <1>4 DEF StoryInv
<1>16. Tale(c, at)'
  BY <1>14 DEF Tale
<1>. QED
  BY <1>1, <1>2, <1>8, <1>12, <1>13, <1>15, <1>16 DEF IsTold

(* One more answered call, one more tale. *)
LEMMA StoryGrows ==
  ASSUME TypeInv, StoryInv, IsTold
  PROVE  Grows /\ StoryInv'
<1>1. PICK c : c = Call
  OBVIOUS
<1>2. Grows /\ c \in DOMAIN answers' /\ DOMAIN answers' = DOMAIN answers \cup {c}
  <2>1. Grows /\ c \in DOMAIN answers' /\ DOMAIN answers' \subseteq DOMAIN answers \cup {c}
    BY <1>1, Zenon DEF IsTold
  <2>2. DOMAIN answers \subseteq DOMAIN answers'
    BY <2>1, Zenon DEF Grows
  <2>. QED
    BY <2>1, <2>2
<1>3. \A d \in DOMAIN answers' : \E s \in Nat : Tale(d, s)'
  <2>1. ASSUME NEW d \in DOMAIN answers
        PROVE  \E s \in Nat : Tale(d, s)'
    BY <1>2, OldTale DEF StoryInv
  <2>2. \E s \in Nat : Tale(c, s)'
    BY <1>1 DEF IsTold
  <2>. QED
    BY <1>2, <2>1, <2>2
<1>4. ASSUME NEW s \in DOMAIN ledger'
      PROVE  \/ ledger'[s].call \in DOMAIN answers'
             \/ /\ ledger'[s].call = 0 /\ ledger'[s].tool = "none"
                /\ ledger'[s].type = "user_intent"
  <2>1. s \in DOMAIN ledger \/ ledger'[s].call = c
    BY <1>1 DEF IsTold
  <2>2. \A t \in DOMAIN ledger : ledger'[t] = ledger[t]
    BY <1>2 DEF Grows, TypeInv, TypeOK
  <2>. QED
    BY <1>2, <2>1, <2>2 DEF StoryInv
<1>5. \A j \in DOMAIN fired' : fired'[j].call \in DOMAIN answers'
  BY <1>1, <1>2 DEF IsTold
<1>. QED
  BY <1>2, <1>3, <1>4, <1>5 DEF StoryInv

(* A user's request is a row of no call. *)
LEMMA StoryRequest ==
  ASSUME TypeInv, StoryInv, NEW intent \in Intents, RecordUserIntent(intent)
  PROVE  Grows /\ StoryInv'
<1>. DEFINE e == BlankEvent("user_intent", "none", intent, 0)
<1>1. e \in Event /\ e.call = 0 /\ e.tool = "none" /\ e.type = "user_intent"
  BY BlankEventType DEF BlankEvent, EventTypes
<1>2. ledger' = Append(ledger, e) /\ UNCHANGED <<answers, fired>>
  BY DEF RecordUserIntent
<1>. HIDE DEF e
<1>3. ledger \in Seq(Event) /\ Len(ledger) \in Nat /\ 0 \notin DOMAIN answers
  BY DEF TypeInv, TypeOK
<1>4. /\ ledger' \in Seq(Event) /\ Len(ledger') = Len(ledger) + 1
      /\ ledger'[Len(ledger) + 1] = e /\ \A s \in 1 .. Len(ledger) : ledger'[s] = ledger[s]
  BY <1>2, <1>1, <1>3, AppendRow
<1>5. \A s \in DOMAIN ledger' : (s \in DOMAIN ledger /\ ledger'[s] = ledger[s]) \/ ledger'[s] = e
  BY <1>3, <1>4
<1>6. \A d : FiredAt(d)' = FiredAt(d)
  BY <1>2 DEF FiredAt
<1>7. Grows
  BY <1>1, <1>2, <1>3, <1>4, <1>6 DEF Grows
<1>8. \A c \in DOMAIN answers : \E s \in Nat : Tale(c, s)'
  BY <1>7, OldTale DEF StoryInv
<1>. QED
  BY <1>1, <1>2, <1>5, <1>7, <1>8 DEF StoryInv

LEMMA OtherStepStory ==
  ASSUME TypeInv, StoryInv, OtherStep
  PROVE  Grows /\ StoryInv'
<1>1. PICK intent \in Intents :
        \/ RecordUserIntent(intent)
        \/ \E tool \in ReadTools, found \in BOOLEAN : ReadTool(tool, intent, found)
        \/ SendEmail(intent)
        \/ \E tool \in ReadTools \cup {ISSUE_REFUND, SEND_EMAIL, "unknown"} :
             RejectedDispatch(tool, intent)
  BY DEF OtherStep
<1>2. CASE RecordUserIntent(intent)
  BY <1>2, StoryRequest
<1>3. CASE \E tool \in ReadTools, found \in BOOLEAN : ReadTool(tool, intent, found)
  BY <1>3, ReadToolIsTold, StoryGrows
<1>4. CASE SendEmail(intent)
  <2>. DEFINE b == [tool |-> SEND_EMAIL, intent |-> intent, asked |-> NoAsk, key |-> NoKey,
                    ok |-> TRUE, error |-> "none", txn |-> NoTxn]
  <2>1. answers' = Append(answers, b) /\ UNCHANGED <<ledger, fired>>
    BY <1>4 DEF SendEmail, Reply
  <2>2. b.key = NoKey /\ b.error # "ToolTimeout" /\ b.tool # ISSUE_REFUND
    BY DEF SEND_EMAIL, ISSUE_REFUND
  <2>. HIDE DEF b
  <2>. QED
    BY <2>1, <2>2, QuietAnswer, StoryGrows
<1>5. ASSUME NEW tool, RejectedDispatch(tool, intent)
      PROVE  Grows /\ StoryInv'
  <2>. DEFINE b == [tool |-> tool, intent |-> intent, asked |-> NoAsk, key |-> NoKey, ok |-> FALSE,
                    error |-> IF tool = "unknown" THEN "KeyError" ELSE "TypeError",
                    txn |-> NoTxn]
  <2>1. answers' = Append(answers, b) /\ UNCHANGED <<ledger, fired>>
    BY <1>5 DEF RejectedDispatch, Reply
  <2>2. b.key = NoKey /\ b.error # "ToolTimeout" /\ b.ok = FALSE
    OBVIOUS
  <2>. HIDE DEF b
  <2>. QED
    BY <2>1, <2>2, QuietAnswer, StoryGrows
<1>. QED
  BY <1>1, <1>2, <1>3, <1>4, <1>5

LEMMA StoryStep ==
  ASSUME RecordInv, SnapshotsChain, StoryInv, [Next]_vars
  PROVE  Grows /\ StoryInv'
<1>1. TypeInv
  BY DEF RecordInv
<1>2. CASE RefundStep
  BY <1>1, <1>2, RefundStepOutcome, OutcomeIsTold, StoryGrows
<1>3. CASE OtherStep
  BY <1>1, <1>3, OtherStepStory
<1>4. CASE UNCHANGED vars
  <2>1. UNCHANGED <<ledger, answers, fired>>
    BY <1>4 DEF vars
  <2>2. \A d : FiredAt(d)' = FiredAt(d)
    BY <2>1 DEF FiredAt
  <2>3. ledger \in Seq(Event) /\ Len(ledger) \in Nat
    BY <1>1 DEF TypeInv, TypeOK
  <2>4. Grows
    BY <2>1, <2>2, <2>3 DEF Grows
  <2>5. \A c \in DOMAIN answers : \E s \in Nat : Tale(c, s)'
    BY <1>1, <2>4, OldTale DEF StoryInv
  <2>. QED
    BY <2>1, <2>4, <2>5 DEF StoryInv
<1>. QED
  BY <1>2, <1>3, <1>4 DEF Next

LEMMA StoryInvariant == Spec => [](RecordInv /\ SnapshotsChain /\ StoryInv)
<1>1. Init => StoryInv
  BY DEF Init, StoryInv
<1>2. RecordInv /\ SnapshotsChain /\ StoryInv /\ [Next]_vars => StoryInv'
  BY StoryStep
<1>. QED
  BY <1>1, <1>2, RecordInvariant, BalancesAreInTheLedger, PTL DEF Spec

-----------------------------------------------------------------------------
(* What a row's type says about the call it belongs to. *)
RowTells(c, t, s) ==
  /\ ledger[s].type # "user_intent"
  /\ ledger[s].type = "tool_call_started" => s = t
  /\ ledger[s].type = "state_changed" => TellsCommitted(c, t) /\ s = t + 1
  /\ ledger[s].type = "idempotent_replay" => TellsConfirmed(c, t) /\ s = t + 1
  /\ ledger[s].type = "network_timeout" =>
       \/ TellsLost(c, t) /\ s = t + 1
       \/ TellsCommitted(c, t) /\ s = t + 2
  /\ ledger[s].type = "tool_call_completed" =>
       \/ TellsRead(c, t) /\ s = t + 1
       \/ TellsInvented(c, t) /\ s = t + 1
       \/ TellsConfirmed(c, t) /\ s = t + 2
       \/ TellsCommitted(c, t) /\ s = t + 2

LEMMA RowInTale ==
  ASSUME NEW c, NEW t \in Nat, Tale(c, t), NEW s \in RowsAt(c)
  PROVE  RowTells(c, t, s)
<1>1. \A x \in t .. t + 1 : x = t \/ x = t + 1
  OBVIOUS
<1>2. \A x \in t .. t + 1 - 1 : x = t
  OBVIOUS
<1>3. \A x \in t .. t + 2 - 1 : x = t \/ x = t + 1
  OBVIOUS
<1>4. \A x \in t .. t + 3 - 1 : x = t \/ x = t + 1 \/ x = t + 2
  OBVIOUS
<1>5. CASE TellsSilent(c)
  BY <1>5 DEF TellsSilent
<1>6. CASE TellsRead(c, t)
  BY <1>1, <1>6 DEF TellsRead, RowTells
<1>7. CASE TellsRefused(c, t)
  BY <1>3, <1>7 DEF TellsRefused, Tells, RowTells
<1>8. CASE TellsLost(c, t)
  BY <1>3, <1>8 DEF TellsLost, Tells, RowTells
<1>9. CASE TellsInvented(c, t)
  BY <1>3, <1>9 DEF TellsInvented, Tells, RowTells
<1>10. CASE TellsAbandoned(c, t)
  BY <1>2, <1>10 DEF TellsAbandoned, Tells, RowTells
<1>11. CASE TellsConfirmed(c, t)
  BY <1>4, <1>11 DEF TellsConfirmed, Tells, RowTells
<1>12. CASE TellsCommitted(c, t)
  BY <1>4, <1>12 DEF TellsCommitted, Tells, RowTells
<1>. QED
  BY <1>5, <1>6, <1>7, <1>8, <1>9, <1>10, <1>11, <1>12 DEF Tale

(* Every row but a user's request belongs to an answered call. *)
LEMMA RowHasTale ==
  ASSUME StoryInv, NEW s \in DOMAIN ledger, ledger[s].type # "user_intent"
  PROVE  /\ ledger[s].call \in DOMAIN answers /\ s \in RowsAt(ledger[s].call)
         /\ \E t \in Nat : Tale(ledger[s].call, t) /\ RowTells(ledger[s].call, t, s)
<1>1. ledger[s].call \in DOMAIN answers
  BY DEF StoryInv
<1>2. s \in RowsAt(ledger[s].call)
  BY DEF RowsAt
<1>3. PICK t \in Nat : Tale(ledger[s].call, t)
  BY <1>1 DEF StoryInv
<1>. QED
  BY <1>1, <1>2, <1>3, RowInTale

LEMMA Closes ==
  ASSUME NEW c, NEW t \in Nat \ {0}, NEW k \in {2, 3}, RowsAt(c) = t .. t + k - 1,
         ledger[t].type = "tool_call_started", ledger[t + k - 1].type \in Terminal,
         k = 3 => ledger[t + 1].type \in {"state_changed", "idempotent_replay"}
  PROVE  \E e \in t + 1 .. t + 2 :
           /\ e \in DOMAIN ledger
           /\ {x \in DOMAIN ledger : ledger[x].call = c /\ ledger[x].type \in Terminal} = {e}
           /\ \A x \in t .. e : ledger[x].call = c
<1>. DEFINE e == t + k - 1
<1>1. e \in t + 1 .. t + 2 /\ e \in RowsAt(c) /\ RowsAt(c) = t .. e
  OBVIOUS
<1>2. \A x \in RowsAt(c) : x \in DOMAIN ledger /\ ledger[x].call = c
  BY DEF RowsAt
<1>3. \A x \in RowsAt(c) : x = e \/ x = t \/ (k = 3 /\ x = t + 1)
  OBVIOUS
<1>4. \A x \in RowsAt(c) : ledger[x].type \in Terminal => x = e
  BY <1>3 DEF Terminal
<1>5. \A x \in DOMAIN ledger : ledger[x].call = c => x \in RowsAt(c)
  BY DEF RowsAt
<1>6. ledger[e].type \in Terminal
  OBVIOUS
<1>. HIDE DEF e
<1>7. {x \in DOMAIN ledger : ledger[x].call = c /\ ledger[x].type \in Terminal} = {e}
  BY <1>1, <1>2, <1>4, <1>5, <1>6
<1>. QED
  BY <1>1, <1>2, <1>7

LEMMA StartedCloses ==
  ASSUME StoryInv
  PROVE  EveryStartedCallCloses
<1>1. SUFFICES ASSUME NEW s \in EventsOf("tool_call_started")
               PROVE  \/ "misrouted_write" \in FiredAt(ledger[s].call) /\ Cardinality(Orders) = 1
                      \/ \E e \in s+1 .. s+2 :
                           /\ e \in DOMAIN ledger
                           /\ {t \in DOMAIN ledger : ledger[t].call = ledger[s].call
                                                       /\ ledger[t].type \in Terminal} = {e}
                           /\ \A t \in s .. e : ledger[t].call = ledger[s].call
  BY DEF EveryStartedCallCloses
<1>. DEFINE c == ledger[s].call
<1>2. s \in DOMAIN ledger /\ ledger[s].type = "tool_call_started"
  BY DEF EventsOf
<1>3. PICK t \in Nat : Tale(c, t) /\ RowTells(c, t, s)
  BY <1>2, RowHasTale
<1>4. s = t
  BY <1>2, <1>3 DEF RowTells
<1>5. s \in RowsAt(c)
  BY <1>2 DEF RowsAt
<1>. HIDE DEF c
<1>6. CASE TellsAbandoned(c, t)
  BY <1>6, FS_Singleton DEF TellsAbandoned, c
<1>7. ASSUME t # 0, NEW k \in {2, 3}, RowsAt(c) = t .. t + k - 1,
             ledger[t].type = "tool_call_started", ledger[t + k - 1].type \in Terminal,
             k = 3 => ledger[t + 1].type \in {"state_changed", "idempotent_replay"}
      PROVE  \E e \in s+1 .. s+2 :
               /\ e \in DOMAIN ledger
               /\ {x \in DOMAIN ledger : ledger[x].call = c /\ ledger[x].type \in Terminal} = {e}
               /\ \A x \in s .. e : ledger[x].call = c
  BY <1>4, <1>7, Closes
<1>8. CASE TellsSilent(c)
  BY <1>5, <1>8 DEF TellsSilent
<1>9. CASE \/ TellsRead(c, t) \/ TellsRefused(c, t) \/ TellsLost(c, t) \/ TellsInvented(c, t)
  <2>1. t # 0 /\ RowsAt(c) = t .. t + 2 - 1 /\ ledger[t].type = "tool_call_started"
        /\ ledger[t + 2 - 1].type \in Terminal
    BY <1>9 DEF TellsRead, TellsRefused, TellsLost, TellsInvented, Tells, Terminal
  <2>. QED
    BY <1>7, <2>1 DEF c
<1>10. CASE TellsConfirmed(c, t) \/ TellsCommitted(c, t)
  <2>1. t # 0 /\ RowsAt(c) = t .. t + 3 - 1 /\ ledger[t].type = "tool_call_started"
        /\ ledger[t + 3 - 1].type \in Terminal
        /\ ledger[t + 1].type \in {"state_changed", "idempotent_replay"}
    BY <1>10 DEF TellsConfirmed, TellsCommitted, Tells, Terminal
  <2>. QED
    BY <1>7, <2>1 DEF c
<1>. QED
  BY <1>3, <1>6, <1>8, <1>9, <1>10 DEF Tale

LEMMA AnswersBacked ==
  ASSUME StoryInv
  PROVE  OkAnswersAreBacked
<1>1. SUFFICES ASSUME NEW c \in DOMAIN answers, answers[c].tool = ISSUE_REFUND, answers[c].ok
               PROVE  \/ \E s \in Commits : answers[c].txn = s /\ Backs(s, answers[c].asked)
                      \/ /\ FiredAt(c) = {"phantom_success"}
                         /\ \A s \in Commits : ledger[s].call # c
                      \/ /\ FiredAt(c) \cap WriteFaults # {}
                         /\ \E s \in Commits : ledger[s].call = c /\ answers[c].txn = s
  BY DEF OkAnswersAreBacked, WriteFaults
<1>2. PICK t \in Nat : Tale(c, t)
  BY DEF StoryInv
<1>3. ~TellsSilent(c) /\ ~TellsRefused(c, t) /\ ~TellsLost(c, t) /\ ~TellsAbandoned(c, t)
  BY <1>1 DEF TellsSilent, TellsRefused, TellsLost, TellsAbandoned
<1>4. ~TellsRead(c, t)
  BY <1>1, CallsAssumption DEF TellsRead, ISSUE_REFUND
<1>5. CASE TellsInvented(c, t)
  <2>1. \A s \in Commits : ledger[s].call = c => s \in RowsAt(c) /\ ledger[s].type = "state_changed"
    BY DEF Commits, EventsOf, RowsAt
  <2>2. \A s \in RowsAt(c) : ledger[s].type # "state_changed"
    <3>1. \A s \in t .. t + 2 - 1 : s = t \/ s = t + 1
      OBVIOUS
    <3>. QED
      BY <1>5, <3>1 DEF TellsInvented, Tells
  <2>. QED
    BY <1>5, <2>1, <2>2 DEF TellsInvented
<1>6. CASE TellsConfirmed(c, t)
  BY <1>6 DEF TellsConfirmed
<1>7. CASE TellsCommitted(c, t)
  <2>1. t + 1 \in RowsAt(c) /\ ledger[t + 1].type = "state_changed" /\ answers[c].txn = t + 1
    BY <1>1, <1>7 DEF TellsCommitted, Tells
  <2>2. t + 1 \in Commits /\ ledger[t + 1].call = c
    BY <2>1 DEF RowsAt, Commits, EventsOf
  <2>. QED
    BY <1>7, <2>1, <2>2 DEF TellsCommitted
<1>. QED
  BY <1>2, <1>3, <1>4, <1>5, <1>6, <1>7 DEF Tale

LEMMA ReplayCites ==
  ASSUME RecordInv, StoryInv
  PROVE  ReplayCitesOriginal
<1>1. SUFFICES ASSUME NEW s \in EventsOf("idempotent_replay")
               PROVE  /\ IdempotencyEnabled
                      /\ \E t \in Commits : /\ t < s /\ ledger[s].txn = t
                                            /\ ledger[t].key = ledger[s].key
                                            /\ Backs(t, ledger[s].asked)
                      /\ IsSnapshotAt(ledger[s].before, ledger[s].entity, s)
                      /\ ledger[s].after = ledger[s].before
  BY DEF ReplayCitesOriginal
<1>. DEFINE c == ledger[s].call
<1>2. s \in DOMAIN ledger /\ ledger[s].type = "idempotent_replay"
  BY DEF EventsOf
<1>3. PICK t \in Nat : TellsConfirmed(c, t) /\ s = t + 1
  BY <1>2, RowHasTale DEF RowTells
<1>4. s \in t .. t + 3 - 1
  BY <1>3
<1>5. ledger[s].key = answers[c].key /\ ledger[s].asked = answers[c].asked
  BY <1>3, <1>4 DEF TellsConfirmed, Tells, RowOf
<1>6. answers[c].txn < s
  <2>1. answers[c].txn \in Int
    BY <1>3 DEF TellsConfirmed, Commits, EventsOf, RecordInv, TypeInv, TypeOK
  <2>. QED
    BY <1>3, <2>1 DEF TellsConfirmed
<1>. HIDE DEF c
<1>. QED
  BY <1>3, <1>5, <1>6 DEF TellsConfirmed

-----------------------------------------------------------------------------
(* The injector's schedule. *)
Upto(S, s) == {t \in S : t <= s}

LEMMA StartsAreFinite ==
  ASSUME TypeInv
  PROVE  /\ IsFiniteSet(RefundStarts) /\ Cardinality(RefundStarts) \in Nat
         /\ RefundStarts \subseteq 1 .. Len(ledger)
<1>1. ledger \in Seq(Event) /\ Len(ledger) \in Nat
  BY DEF TypeInv, TypeOK
<1>2. RefundStarts \subseteq 1 .. Len(ledger)
  BY <1>1 DEF RefundStarts, EventsOf
<1>3. IsFiniteSet(1 .. Len(ledger))
  BY <1>1, FS_Interval
<1>4. IsFiniteSet(RefundStarts)
  BY <1>2, <1>3, FS_Subset
<1>. QED
  BY <1>2, <1>4, FS_CardinalityType

(* An attempt at the tool ledgers one start, first. *)
LEMMA OutcomeStarts ==
  ASSUME TypeInv, NEW intent \in Intents, NEW ask \in Ask, NEW key \in Keys,
         Outcome(intent, ask, key), NEW at, at = Len(ledger) + 1
  PROVE  /\ EnterRefund(intent)
         /\ RefundStarts' = RefundStarts \cup {at}
         /\ ledger'[at].call = Call
         /\ \A s \in DOMAIN ledger : ledger'[s] = ledger[s]
<1>1. ledger \in Seq(Event) /\ DOMAIN ledger = 1 .. Len(ledger) /\ Len(ledger) \in Nat
  BY DEF TypeInv, TypeOK
<1>2. PICK k \in 1 .. 3 : Serves(intent, ask, key, k)
                            /\ \A s \in 2 .. k : ledger'[Len(ledger) + s].type # "tool_call_started"
  <2>1. \A s \in 2 .. 2 : s = 2
    OBVIOUS
  <2>2. \A s \in 2 .. 3 : s = 2 \/ s = 3
    OBVIOUS
  <2>3. CASE Refused(intent, ask, key) \/ LostBefore(intent, ask, key)
                 \/ Invented(intent, ask, key)
    <3>1. /\ Serves(intent, ask, key, 2)
          /\ ledger'[Len(ledger) + 2].type \in {"tool_call_failed", "network_timeout",
                                               "tool_call_completed"}
      BY <2>3 DEF Refused, LostBefore, Invented
    <3>. QED
      BY <2>1, <3>1
  <2>4. CASE Abandoned(intent, ask, key)
    <3>1. \A s \in 2 .. 1 : FALSE
      OBVIOUS
    <3>. QED
      BY <2>4, <3>1 DEF Abandoned
  <2>5. CASE Confirmed(intent, ask, key)
    <3>1. /\ Serves(intent, ask, key, 3)
          /\ ledger'[Len(ledger) + 2].type = "idempotent_replay"
          /\ ledger'[Len(ledger) + 3].type = "tool_call_completed"
      BY <2>5 DEF Confirmed
    <3>. QED
      BY <2>2, <3>1
  <2>6. CASE Committed(intent, ask, key)
    <3>1. /\ Serves(intent, ask, key, 3)
          /\ ledger'[Len(ledger) + 2].type = "state_changed"
      <4>1. PICK o : CommitOf(o, ActualAmount(ask), intent, key, Len(ledger) + 2)
        BY <2>6 DEF Committed
      <4>. QED
        BY <1>1, <2>6, <4>1 DEF CommitOf, Committed
    <3>2. ledger'[Len(ledger) + 3].type \in {"network_timeout", "tool_call_completed"}
      BY <2>6 DEF Committed
    <3>. QED
      BY <2>2, <3>1, <3>2
  <2>. QED
    BY <2>3, <2>4, <2>5, <2>6 DEF Outcome
<1>3. /\ EnterRefund(intent) /\ Extends(k) /\ ledger'[at].type = "tool_call_started"
      /\ \A s \in 1 .. k : RowOf(ledger'[Len(ledger) + s], Call, intent, ask, key)
  BY <1>2 DEF Serves
<1>4. /\ ledger' \in Seq(Event) /\ Len(ledger') = Len(ledger) + k
      /\ \A s \in 1 .. Len(ledger) : ledger'[s] = ledger[s]
  BY <1>3 DEF Extends
<1>5. /\ DOMAIN ledger' = 1 .. Len(ledger) + k /\ at \in DOMAIN ledger'
      /\ DOMAIN ledger \subseteq DOMAIN ledger'
  BY <1>1, <1>4
<1>6. ledger'[at].call = Call /\ ledger'[at].tool = ISSUE_REFUND
  BY <1>3 DEF RowOf
<1>7. ASSUME NEW s \in DOMAIN ledger', s \notin DOMAIN ledger
      PROVE  s = at \/ ledger'[s].type # "tool_call_started"
  <2>1. s = at \/ (s - Len(ledger) \in 2 .. k /\ s = Len(ledger) + (s - Len(ledger)))
    BY <1>1, <1>5, <1>7
  <2>. QED
    BY <1>2, <2>1
<1>8. RefundStarts' = RefundStarts \cup {at}
  <2>1. RefundStarts' = {s \in DOMAIN ledger' : ledger'[s].type = "tool_call_started"
                                                  /\ ledger'[s].tool = ISSUE_REFUND}
    BY DEF RefundStarts, EventsOf
  <2>2. RefundStarts = {s \in DOMAIN ledger : ledger[s].type = "tool_call_started"
                                                /\ ledger[s].tool = ISSUE_REFUND}
    BY DEF RefundStarts, EventsOf
  <2>. QED
    BY <1>1, <1>3, <1>4, <1>5, <1>6, <1>7, <2>1, <2>2
<1>. QED
  BY <1>1, <1>3, <1>4, <1>6, <1>8

LEMMA StartHasCall ==
  ASSUME StoryInv, NEW s \in RefundStarts
  PROVE  s \in DOMAIN ledger /\ ledger[s].call \in DOMAIN answers
  BY RowHasTale DEF RefundStarts, EventsOf

LEMMA ScheduleGrows ==
  ASSUME TypeInv, StoryInv, ScheduleInv,
         NEW intent \in Intents, NEW ask \in Ask, NEW key \in Keys, Outcome(intent, ask, key)
  PROVE  ScheduleInv'
<1>1. PICK c, at : c = Call /\ at = Len(ledger) + 1
  OBVIOUS
<1>2. /\ EnterRefund(intent) /\ RefundStarts' = RefundStarts \cup {at} /\ ledger'[at].call = c
      /\ \A s \in DOMAIN ledger : ledger'[s] = ledger[s]
  BY <1>1, OutcomeStarts
<1>3. /\ FiredAt(c)' = {Fault} \ {NoFault}
      /\ \A d \in DOMAIN answers : FiredAt(d)' = FiredAt(d)
  BY <1>1, <1>2, CallFires DEF StoryInv
<1>4. at \in Nat /\ \A s \in RefundStarts : s \in Nat /\ s < at
  BY <1>1, StartsAreFinite DEF TypeInv, TypeOK
<1>5. /\ refundCalls = Cardinality(RefundStarts) /\ refundCalls \in Nat
      /\ IsFiniteSet(RefundStarts) /\ at \notin RefundStarts
  BY <1>4, StartsAreFinite DEF ScheduleInv, FaultsFireOnSchedule, TypeInv, TypeOK
<1>6. Cardinality(RefundStarts') = refundCalls + 1
  BY <1>2, <1>5, FS_AddElement
<1>7. refundCalls' = refundCalls + 1 /\ plan' = plan
  BY <1>2 DEF EnterRefund, CallIndex
<1>8. ASSUME NEW s \in RefundStarts'
      PROVE  FiredAt(ledger[s].call)' = {plan'[Cardinality(Upto(RefundStarts', s))]} \ {NoFault}
  <2>1. CASE s = at
    <3>1. Upto(RefundStarts', s) = RefundStarts'
      BY <1>2, <1>4, <2>1 DEF Upto
    <3>2. FiredAt(c)' = {plan'[refundCalls + 1]} \ {NoFault}
      BY <1>3, <1>7 DEF Fault, CallIndex
    <3>3. \A d : d = ledger'[s].call => d = c
      BY <1>2, <2>1
    <3>. QED
      BY <1>6, <3>1, <3>2, <3>3 DEF FiredAt
  <2>2. CASE s \in RefundStarts
    <3>1. Upto(RefundStarts', s) = Upto(RefundStarts, s)
      BY <1>2, <1>4, <2>2 DEF Upto
    <3>2. FiredAt(ledger[s].call) = {plan[Cardinality(Upto(RefundStarts, s))]} \ {NoFault}
      BY <2>2 DEF ScheduleInv, FaultsFireOnSchedule, Upto
    <3>3. PICK d : d = ledger[s].call
      OBVIOUS
    <3>4. d \in DOMAIN answers /\ ledger'[s].call = d
      BY <1>2, <2>2, <3>3, StartHasCall
    <3>5. FiredAt(d)' = FiredAt(ledger[s].call)
      BY <1>3, <3>3, <3>4
    <3>6. FiredAt(ledger[s].call)' = FiredAt(d)'
      BY <3>4 DEF FiredAt
    <3>. QED
      BY <1>7, <3>1, <3>2, <3>5, <3>6
  <2>. QED
    BY <1>2, <2>1, <2>2
<1>9. /\ \A i, j \in DOMAIN fired' : i < j => fired'[i].index < fired'[j].index
      /\ \A j \in DOMAIN fired' : fired'[j].index <= refundCalls'
  <2>. DEFINE e == [kind |-> Fault, call |-> Call, index |-> CallIndex]
              T == [kind : FaultKinds, call : Nat, index : Nat]
  <2>1. /\ fired' = IF Fault = NoFault THEN fired ELSE Append(fired, e)
        /\ e.index = refundCalls + 1
    BY <1>2 DEF EnterRefund, CallIndex
  <2>2. /\ \A i, j \in DOMAIN fired : i < j => fired[i].index < fired[j].index
        /\ \A j \in DOMAIN fired : fired[j].index <= refundCalls
    BY DEF ScheduleInv, FaultsFireOnSchedule
  <2>. HIDE DEF e
  <2>3. fired \in Seq(T)
    BY DEF TypeInv, TypeOK
  <2>4. \A j \in DOMAIN fired : fired[j].index \in Nat
    <3>1. \A f \in T : f.index \in Nat
      OBVIOUS
    <3>. HIDE DEF T
    <3>2. \A j \in DOMAIN fired : fired[j] \in T
      BY <2>3
    <3>. QED
      BY <3>1, <3>2
  <2>. HIDE DEF T
  <2>5. CASE Fault = NoFault
    BY <1>5, <1>7, <2>1, <2>2, <2>4, <2>5
  <2>6. CASE Fault # NoFault
    <3>1. fired' = Append(fired, e)
      BY <2>1, <2>6
    <3>2. /\ DOMAIN fired = 1 .. Len(fired) /\ Len(fired) \in Nat
          /\ DOMAIN fired' = 1 .. Len(fired) + 1 /\ fired'[Len(fired) + 1] = e
          /\ \A j \in 1 .. Len(fired) : fired'[j] = fired[j]
      BY <2>3, <3>1
    <3>3. \A j \in DOMAIN fired' : \/ j \in DOMAIN fired /\ fired'[j] = fired[j]
                                   \/ j = Len(fired) + 1 /\ fired'[j] = e
      <4>1. \A j \in 1 .. Len(fired) + 1 : j \in 1 .. Len(fired) \/ j = Len(fired) + 1
        BY <3>2
      <4>. QED
        BY <3>2, <4>1
    <3>4. \A j \in DOMAIN fired' : fired'[j].index <= refundCalls + 1
      BY <1>5, <2>1, <2>2, <2>4, <3>3
    <3>5. ASSUME NEW i \in DOMAIN fired', NEW j \in DOMAIN fired', i < j
          PROVE  fired'[i].index < fired'[j].index
      <4>1. i \in DOMAIN fired /\ fired'[i] = fired[i]
        BY <3>2, <3>5
      <4>2. CASE j \in DOMAIN fired /\ fired'[j] = fired[j]
        BY <2>2, <3>5, <4>1, <4>2
      <4>3. CASE fired'[j] = e
        BY <1>5, <2>1, <2>2, <2>4, <4>1, <4>3
      <4>. QED
        BY <3>3, <4>2, <4>3
    <3>. QED
      BY <1>7, <3>4, <3>5
  <2>. QED
    BY <2>5, <2>6
<1>. QED
  BY <1>5, <1>6, <1>7, <1>8, <1>9 DEF ScheduleInv, FaultsFireOnSchedule, Upto

(* No other step ledgers a row of issue_refund. *)
KeepsRefundRows ==
  /\ \A s \in DOMAIN ledger : s \in DOMAIN ledger' /\ ledger'[s] = ledger[s]
  /\ \A s \in DOMAIN ledger' : s \in DOMAIN ledger \/ ledger'[s].tool # ISSUE_REFUND

LEMMA OtherStepRows ==
  ASSUME TypeInv, OtherStep
  PROVE  UNCHANGED <<db, plan, refundCalls, fired>> /\ KeepsRefundRows
<1>1. PICK intent \in Intents :
        \/ RecordUserIntent(intent)
        \/ \E tool \in ReadTools, found \in BOOLEAN : ReadTool(tool, intent, found)
        \/ SendEmail(intent)
        \/ \E tool \in ReadTools \cup {ISSUE_REFUND, SEND_EMAIL, "unknown"} :
             RejectedDispatch(tool, intent)
  BY DEF OtherStep
<1>2. ledger \in Seq(Event) /\ Len(ledger) \in Nat /\ DOMAIN ledger = 1 .. Len(ledger)
      /\ Call \in Nat
  BY DEF TypeInv, TypeOK, Call
<1>3. CASE RecordUserIntent(intent)
  <2>. DEFINE e == BlankEvent("user_intent", "none", intent, 0)
  <2>1. e \in Event /\ e.tool # ISSUE_REFUND
    BY BlankEventType DEF BlankEvent, EventTypes, ISSUE_REFUND
  <2>2. ledger' = Append(ledger, e) /\ UNCHANGED <<db, plan, refundCalls, fired>>
    BY <1>3 DEF RecordUserIntent
  <2>. HIDE DEF e
  <2>3. /\ DOMAIN ledger' = 1 .. Len(ledger) + 1 /\ ledger'[Len(ledger) + 1] = e
        /\ \A s \in 1 .. Len(ledger) : ledger'[s] = ledger[s]
    BY <1>2, <2>1, <2>2
  <2>4. \A s \in 1 .. Len(ledger) + 1 : s \in 1 .. Len(ledger) \/ s = Len(ledger) + 1
    BY <1>2
  <2>5. \A s \in 1 .. Len(ledger) : s \in 1 .. Len(ledger) + 1
    BY <1>2
  <2>. QED
    BY <1>2, <2>1, <2>2, <2>3, <2>4, <2>5 DEF KeepsRefundRows
<1>4. ASSUME NEW tool \in ReadTools, NEW found \in BOOLEAN, ReadTool(tool, intent, found)
      PROVE  UNCHANGED <<db, plan, refundCalls, fired>> /\ KeepsRefundRows
  <2>. DEFINE a == BlankEvent("tool_call_started", tool, intent, Call)
              blank == BlankEvent("tool_call_completed", tool, intent, Call)
              b == [blank EXCEPT !.ok = found]
  <2>0. tool # ISSUE_REFUND
    BY CallsAssumption DEF ISSUE_REFUND
  <2>1. a \in Event /\ a.tool # ISSUE_REFUND /\ blank \in Event /\ blank.tool # ISSUE_REFUND
    BY <1>2, <2>0, BlankEventType DEF BlankEvent, EventTypes
  <2>2. /\ ledger' = Append(Append(ledger, a), b)
        /\ UNCHANGED <<db, plan, refundCalls, fired>>
    BY <1>4 DEF ReadTool
  <2>. HIDE DEF a, blank
  <2>3. b \in Event /\ b.tool # ISSUE_REFUND
    BY <2>1 DEF Event
  <2>. HIDE DEF b
  <2>4. /\ DOMAIN ledger' = 1 .. Len(ledger) + 2
        /\ ledger'[Len(ledger) + 1] = a /\ ledger'[Len(ledger) + 2] = b
        /\ \A s \in 1 .. Len(ledger) : ledger'[s] = ledger[s]
    BY <1>2, <2>1, <2>2, <2>3
  <2>5. \A s \in 1 .. Len(ledger) + 2 :
          s \in 1 .. Len(ledger) \/ s = Len(ledger) + 1 \/ s = Len(ledger) + 2
    BY <1>2
  <2>6. \A s \in 1 .. Len(ledger) : s \in 1 .. Len(ledger) + 2
    BY <1>2
  <2>. QED
    BY <1>2, <2>1, <2>2, <2>3, <2>4, <2>5, <2>6 DEF KeepsRefundRows
<1>5. CASE SendEmail(intent)
  BY <1>5 DEF KeepsRefundRows, SendEmail
<1>6. ASSUME NEW tool, RejectedDispatch(tool, intent)
      PROVE  UNCHANGED <<db, plan, refundCalls, fired>> /\ KeepsRefundRows
  BY <1>6 DEF KeepsRefundRows, RejectedDispatch
<1>. QED
  BY <1>1, <1>3, <1>4, <1>5, <1>6

LEMMA ScheduleKept ==
  ASSUME TypeInv, StoryInv, ScheduleInv, UNCHANGED <<plan, refundCalls, fired>>, KeepsRefundRows
  PROVE  ScheduleInv'
<1>1. RefundStarts' = RefundStarts
  BY DEF RefundStarts, EventsOf, KeepsRefundRows
<1>2. \A s \in RefundStarts : ledger'[s] = ledger[s]
  BY DEF RefundStarts, EventsOf, KeepsRefundRows
<1>. QED
  BY <1>1, <1>2 DEF ScheduleInv, FaultsFireOnSchedule, FiredAt

LEMMA ScheduleStep ==
  ASSUME RecordInv, StoryInv, ScheduleInv, [Next]_vars
  PROVE  ScheduleInv'
<1>1. TypeInv
  BY DEF RecordInv
<1>2. CASE RefundStep
  BY <1>1, <1>2, RefundStepOutcome, ScheduleGrows
<1>3. CASE OtherStep
  BY <1>1, <1>3, OtherStepRows, ScheduleKept
<1>4. CASE UNCHANGED vars
  BY <1>1, <1>4, ScheduleKept DEF vars, KeepsRefundRows
<1>. QED
  BY <1>2, <1>3, <1>4 DEF Next

LEMMA ScheduleInit ==
  ASSUME Init
  PROVE  ScheduleInv
<1>1. RefundStarts = {}
  BY DEF Init, RefundStarts, EventsOf
<1>. QED
  BY <1>1, FS_EmptySet DEF Init, ScheduleInv, FaultsFireOnSchedule

LEMMA StoryIsOne ==
  ASSUME RecordInv, StoryInv, ScheduleInv
  PROVE  AnswersMatchTheLedger
  BY StartedCloses, AnswersBacked, ReplayCites DEF AnswersMatchTheLedger, ScheduleInv

(* The agent's answers, the ledger and the injector's log are one story in *)
(* every case, for any number of calls and any fault plan: a started call  *)
(* closes before the next, an ok answer is backed unless a fault fired on  *)
(* that call, a replay cites a commit that did what is asked and faults    *)
(* fire on the planned calls (env/tools.py issue_refund, env/faults.py).   *)
THEOREM AnswersAreOneStory == Spec => []AnswersMatchTheLedger
<1>1. Init => ScheduleInv
  BY ScheduleInit
<1>2. RecordInv /\ StoryInv /\ ScheduleInv /\ [Next]_vars => ScheduleInv'
  BY ScheduleStep
<1>3. RecordInv /\ StoryInv /\ ScheduleInv => AnswersMatchTheLedger
  BY StoryIsOne
<1>. QED
  BY <1>1, <1>2, <1>3, StoryInvariant, PTL DEF Spec
=============================================================================
