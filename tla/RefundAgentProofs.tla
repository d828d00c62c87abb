------------------------- MODULE RefundAgentProofs -------------------------
(* The agent loop drives the refund environment and nothing else, so what  *)
(* is proved of the environment holds of every run; and the trace the loop *)
(* leaves behind tells that run, for every model, every list of requests   *)
(* and every fault plan; and what the provider clients make of the         *)
(* conversation answers every call of the model.                           *)
EXTENDS WireFormat, RefundEnvProofs, SequenceTheorems

(* Where the loop is: what is left of a response, how many requests were   *)
(* taken and reported on, and why it stopped.                              *)
LoopInv ==
  /\ phase \in Phases
  /\ ordinal \in 0 .. Len(Requests)
  /\ turn \in 0 .. MaxTurns
  /\ pending \in Seq(Invocations)
  /\ phase = "tools" <=> pending # <<>>
  /\ phase = "request" => ordinal < Len(Requests) /\ reports = ordinal
  /\ phase \in {"model", "tools", "aborted"} => ordinal > 0 /\ reports = ordinal - 1
  /\ phase = "done" =>
       \/ stopped \in StopReasons /\ ordinal = Len(Requests) /\ reports = ordinal
       \/ stopped = "max_turns" /\ ordinal > 0 /\ reports = ordinal - 1
  /\ stopped \in StopReasons \cup {"none", "max_turns"}

LEMMA RequestsType ==
  /\ Len(Requests) \in Nat \ {0} /\ DOMAIN Requests = 1 .. Len(Requests)
  /\ \A i \in 1 .. Len(Requests) : Requests[i] \in Intents
  BY RequestsAssumption

LEMMA LoopInit == AgentInit => LoopInv
  BY RequestsType, TurnsAssumption DEF AgentInit, LoopInv, Phases

LEMMA NextRequestLoop ==
  ASSUME LoopInv, NextRequest
  PROVE  LoopInv'
  BY RequestsType, TurnsAssumption DEF LoopInv, NextRequest, Phases

LEMMA FinalReportLoop ==
  ASSUME LoopInv, FinalReport(<<>>)
  PROVE  LoopInv'
<1>1. /\ phase = "model" /\ turn < MaxTurns /\ pending = <<>>
      /\ reports' = reports + 1 /\ stopped' \in StopReasons /\ turn' = turn + 1
      /\ phase' = IF ordinal = Len(Requests) THEN "done" ELSE "request"
      /\ ordinal' = ordinal /\ pending' = pending
  BY DEF FinalReport, LoopInv
<1>2. /\ ordinal \in 0 .. Len(Requests) /\ turn \in 0 .. MaxTurns
      /\ ordinal > 0 /\ reports = ordinal - 1 /\ pending \in Seq(Invocations)
  BY <1>1 DEF LoopInv
<1>3. turn' \in 0 .. MaxTurns /\ reports' = ordinal
  BY <1>1, <1>2, TurnsAssumption
<1>4. CASE ordinal = Len(Requests)
  BY <1>1, <1>2, <1>3, <1>4 DEF LoopInv, Phases
<1>5. CASE ordinal # Len(Requests)
  <2>. DEFINE n == Len(Requests)
  <2>0. n \in Nat /\ ordinal \in 0 .. n /\ ordinal # n
    BY <1>2, <1>5, RequestsType
  <2>1. ordinal < n
    <3>. HIDE DEF n
    <3>. QED
      BY <2>0
  <2>2. phase' = "request" /\ ordinal' = ordinal /\ pending' = <<>> /\ stopped' \in StopReasons
    BY <1>1, <1>5
  <2>. QED
    BY <1>2, <1>3, <2>1, <2>2 DEF LoopInv, Phases
<1>. QED
  BY <1>4, <1>5

LEMMA ResponseType ==
  ASSUME NEW calls \in Responses
  PROVE  calls \in Seq(Invocations)
<1>1. PICK n \in 0 .. MaxCallsPerTurn : calls \in [1 .. n -> Invocations]
  BY DEF Responses
<1>. QED
  BY <1>1, TurnsAssumption

LEMMA CallToolsLoop ==
  ASSUME LoopInv, NEW calls \in Responses, CallTools(calls)
  PROVE  LoopInv'
  BY ResponseType, RequestsType, TurnsAssumption DEF LoopInv, CallTools, Phases

LEMMA OutOfTurnsLoop ==
  ASSUME LoopInv, OutOfTurns
  PROVE  LoopInv'
  BY DEF LoopInv, OutOfTurns, Phases

LEMMA ModelRaisesLoop ==
  ASSUME LoopInv, ModelRaises
  PROVE  LoopInv'
  BY DEF LoopInv, ModelRaises, Phases

LEMMA ExecuteCallLoop ==
  ASSUME LoopInv, ExecuteCall
  PROVE  LoopInv'
<1>1. /\ phase = "tools" /\ pending' = Tail(pending)
      /\ phase' = IF Len(pending) = 1 THEN "model" ELSE "tools"
      /\ UNCHANGED <<ordinal, turn, reports, stopped>>
  BY DEF ExecuteCall
<1>2. pending \in Seq(Invocations) /\ pending # <<>>
  BY <1>1 DEF LoopInv
<1>3. Tail(pending) \in Seq(Invocations) /\ Len(Tail(pending)) = Len(pending) - 1
  BY <1>2, HeadTailProperties
<1>4. Len(pending) \in Nat /\ (Tail(pending) = <<>> <=> Len(Tail(pending)) = 0)
  BY <1>2, <1>3, EmptySeq
<1>5. Len(pending) = 1 <=> Tail(pending) = <<>>
  BY <1>3, <1>4
<1>. QED
  BY <1>1, <1>3, <1>5 DEF LoopInv, Phases

LEMMA LoopStep ==
  ASSUME LoopInv, [AgentNext]_<<vars, agentVars>>
  PROVE  LoopInv'
<1>1. CASE NextRequest
  BY <1>1, NextRequestLoop
<1>2. ASSUME NEW calls \in Responses, FinalReport(calls) \/ CallTools(calls)
      PROVE  LoopInv'
  <2>1. FinalReport(calls) => calls = <<>>
    BY DEF FinalReport
  <2>. QED
    BY <1>2, <2>1, FinalReportLoop, CallToolsLoop
<1>3. CASE OutOfTurns
  BY <1>3, OutOfTurnsLoop
<1>4. CASE ModelRaises
  BY <1>4, ModelRaisesLoop
<1>5. CASE ExecuteCall
  BY <1>5, ExecuteCallLoop
<1>6. CASE UNCHANGED <<vars, agentVars>>
  BY <1>6 DEF LoopInv, agentVars
<1>. QED
  BY <1>1, <1>2, <1>3, <1>4, <1>5, <1>6 DEF AgentNext, ModelTurn

LEMMA LoopInvariant == AgentSpec => []LoopInv
  BY LoopInit, LoopStep, PTL DEF AgentSpec

-----------------------------------------------------------------------------
(* The call being run, and the steps of the environment it can be. *)
LEMMA RunningCall ==
  ASSUME LoopInv, ExecuteCall
  PROVE  /\ Head(pending) \in Invocations /\ Dispatch(Head(pending), CurrentIntent)
         /\ CurrentIntent \in Intents /\ ordinal \in 1 .. Len(Requests)
<1>1. pending \in Seq(Invocations) /\ pending # <<>>
  BY DEF LoopInv, ExecuteCall
<1>2. Head(pending) \in Invocations
  BY <1>1
<1>3. ordinal \in 1 .. Len(Requests)
  BY RequestsType DEF LoopInv, ExecuteCall
<1>. QED
  BY <1>2, <1>3, RequestsType DEF ExecuteCall, CurrentIntent

LEMMA DispatchIs ==
  ASSUME NEW c \in Invocations, NEW intent \in Intents, Dispatch(c, intent)
  PROVE  \/ /\ c.tool = ISSUE_REFUND /\ c.asked \in Ask
            /\ IssueRefund(intent, c.asked, MakeKey(intent, c.asked))
         \/ c.tool \in ReadTools /\ \E found \in BOOLEAN : ReadTool(c.tool, intent, found)
         \/ SendEmail(intent) /\ c.tool = SEND_EMAIL
         \/ /\ RejectedDispatch(c.tool, intent)
            /\ c.tool \in ReadTools \cup {ISSUE_REFUND, SEND_EMAIL, "unknown"}
  BY DEF Dispatch, Invocations, Invocation

LEMMA DispatchSteps ==
  ASSUME NEW c \in Invocations, NEW intent \in Intents, Dispatch(c, intent)
  PROVE  Next
<1>1. CASE c.asked \in Ask /\ IssueRefund(intent, c.asked, MakeKey(intent, c.asked))
  <2>1. MakeKey(intent, c.asked) \in {MakeKey(intent, c.asked)} \cup ExplicitKeys
    OBVIOUS
  <2>. QED
    BY <1>1, <2>1, Zenon DEF Next, RefundStep
<1>2. CASE c.tool \in ReadTools /\ \E found \in BOOLEAN : ReadTool(c.tool, intent, found)
  BY <1>2, Zenon DEF Next, OtherStep
<1>3. CASE SendEmail(intent)
  BY <1>3, Zenon DEF Next, OtherStep
<1>4. CASE /\ RejectedDispatch(c.tool, intent)
           /\ c.tool \in ReadTools \cup {ISSUE_REFUND, SEND_EMAIL, "unknown"}
  BY <1>4, Zenon DEF Next, OtherStep
<1>. QED
  BY <1>1, <1>2, <1>3, <1>4, DispatchIs

LEMMA AgentStepSteps ==
  ASSUME LoopInv, [AgentNext]_<<vars, agentVars>>
  PROVE  [Next]_vars
<1>1. CASE NextRequest
  <2>1. Requests[ordinal + 1] \in Intents /\ RecordUserIntent(Requests[ordinal + 1])
    BY <1>1, RequestsType DEF LoopInv, NextRequest
  <2>. QED
    BY <2>1, Zenon DEF Next, OtherStep
<1>2. CASE ExecuteCall
  BY <1>2, RunningCall, DispatchSteps
<1>3. CASE ModelTurn \/ OutOfTurns \/ ModelRaises \/ UNCHANGED <<vars, agentVars>>
  BY <1>3 DEF ModelTurn, FinalReport, CallTools, OutOfTurns, ModelRaises
<1>. QED
  BY <1>1, <1>2, <1>3 DEF AgentNext

(* Whatever the model behind the loop asks for, the environment sees only  *)
(* calls it would allow any caller, for a request that is on the ledger    *)
(* and under that request's own key (agent/adapters.py, refund_agent.py).  *)
(* Everything proved of the environment therefore holds of agent runs.     *)
THEOREM AgentKeepsToEnv == AgentSpec => AgentDrivesEnv
<1>1. AgentInit => Init
  BY DEF AgentInit
<1>. QED
  BY <1>1, LoopInvariant, AgentStepSteps, PTL DEF AgentSpec, AgentDrivesEnv, Spec

-----------------------------------------------------------------------------
(* What a call adds to the ledger: n rows of its own, of no user's request. *)
CallAdds(intent, n) ==
  /\ Extends(n)
  /\ \A s \in 1 .. n : /\ ledger'[Len(ledger) + s].call = Call
                       /\ ledger'[Len(ledger) + s].intent = intent
                       /\ ledger'[Len(ledger) + s].type # "user_intent"
  /\ \E a : answers' = Append(answers, a)

(* The ledger, cut into requests and calls.  Each request has one row, and *)
(* a later row is filed under the last request before it.                  *)
Span == [started : Nat, ended : Nat]

FramedRows ==
  /\ Cardinality(IntentRows) = ordinal
  /\ \A s \in DOMAIN ledger :
       ledger[s].intent = Requests[Cardinality({t \in IntentRows : t <= s})]

RowsInv == spans \in Seq(Span) /\ SpansPartitionLedger /\ FramedRows

(* The conversation: an assigned id up to the number of answers has its    *)
(* tool message in its place, a later one will be answered in its turn,    *)
(* and no tool message answers for another.                                *)
CallInv(m, k) ==
  LET c == messages[m].calls[k]
  IN  /\ c \in 1 .. Len(answers) + Len(pending)
      /\ c <= Len(answers) => /\ m + k \in DOMAIN messages
                              /\ messages[m + k] = [role |-> "tool", calls |-> <<c>>]
      /\ c > Len(answers) => m + k = Len(messages) + (c - Len(answers))

CallsInv == \A m \in MessagesOf("assistant") : \A k \in DOMAIN messages[m].calls : CallInv(m, k)

ToolsInv ==
  /\ \A n \in MessagesOf("tool") : \E c \in 1 .. Len(answers) : messages[n].calls = <<c>>
  /\ \A n, p \in MessagesOf("tool") : messages[n].calls = messages[p].calls => n = p

TalkInv ==
  /\ messages \in Seq(Message)
  /\ Cardinality(MessagesOf("user")) = ordinal
  /\ CallsInv
  /\ ToolsInv

LEMMA ServedRows ==
  ASSUME NEW intent, NEW ask, NEW key, NEW k \in 1 .. 3, Serves(intent, ask, key, k),
         \A s \in 2 .. k : ledger'[Len(ledger) + s].type # "user_intent",
         NEW a, answers' = Append(answers, a)
  PROVE  CallAdds(intent, k)
<1>1. \A s \in 1 .. k : s = 1 \/ s \in 2 .. k
  OBVIOUS
<1>2. \A s \in 1 .. k : /\ ledger'[Len(ledger) + s].call = Call
                        /\ ledger'[Len(ledger) + s].intent = intent
  BY DEF Serves, RowOf
<1>3. ledger'[Len(ledger) + 1].type # "user_intent"
  BY DEF Serves
<1>. QED
  BY <1>1, <1>2, <1>3 DEF Serves, CallAdds

LEMMA RefundAdds ==
  ASSUME TypeInv, NEW intent \in Intents, NEW ask \in Ask, NEW key \in Keys,
         IssueRefund(intent, ask, key)
  PROVE  \E n \in 0 .. 3 : CallAdds(intent, n)
<1>1. Outcome(intent, ask, key)
  BY IssueRefundOutcome
<1>2. \A s \in 2 .. 2 : s = 2
  OBVIOUS
<1>3. \A s \in 2 .. 3 : s = 2 \/ s = 3
  OBVIOUS
<1>4. 1 \in 0 .. 3 /\ 2 \in 0 .. 3 /\ 3 \in 0 .. 3 /\ 1 \in 1 .. 3 /\ 2 \in 1 .. 3 /\ 3 \in 1 .. 3
  OBVIOUS
<1>5. CASE Refused(intent, ask, key)
  <2>1. Serves(intent, ask, key, 2) /\ \E a : answers' = Append(answers, a)
    BY <1>5 DEF Refused, Answers, Reply
  <2>2. \A s \in 2 .. 2 : ledger'[Len(ledger) + s].type # "user_intent"
    BY <1>2, <1>5 DEF Refused
  <2>. QED
    BY <1>4, <2>1, <2>2, ServedRows
<1>6. CASE LostBefore(intent, ask, key)
  <2>1. Serves(intent, ask, key, 2) /\ \E a : answers' = Append(answers, a)
    BY <1>6 DEF LostBefore, Answers, Reply
  <2>2. \A s \in 2 .. 2 : ledger'[Len(ledger) + s].type # "user_intent"
    BY <1>2, <1>6 DEF LostBefore
  <2>. QED
    BY <1>4, <2>1, <2>2, ServedRows
<1>7. CASE Invented(intent, ask, key)
  <2>1. Serves(intent, ask, key, 2) /\ \E a : answers' = Append(answers, a)
    BY <1>7 DEF Invented, Answers, Reply
  <2>2. \A s \in 2 .. 2 : ledger'[Len(ledger) + s].type # "user_intent"
    BY <1>2, <1>7 DEF Invented
  <2>. QED
    BY <1>4, <2>1, <2>2, ServedRows
<1>8. CASE Abandoned(intent, ask, key)
  <2>1. Serves(intent, ask, key, 1) /\ \E a : answers' = Append(answers, a)
    BY <1>8 DEF Abandoned, Answers, Reply
  <2>2. \A s \in 2 .. 1 : ledger'[Len(ledger) + s].type # "user_intent"
    OBVIOUS
  <2>. QED
    BY <1>4, <2>1, <2>2, ServedRows
<1>9. CASE Confirmed(intent, ask, key)
  <2>1. Serves(intent, ask, key, 3) /\ \E a : answers' = Append(answers, a)
    BY <1>9 DEF Confirmed, Answers, Reply
  <2>2. \A s \in 2 .. 3 : ledger'[Len(ledger) + s].type # "user_intent"
    BY <1>3, <1>9 DEF Confirmed
  <2>. QED
    BY <1>4, <2>1, <2>2, ServedRows
<1>10. CASE Committed(intent, ask, key)
  <2>1. Serves(intent, ask, key, 3) /\ \E a : answers' = Append(answers, a)
    BY <1>10 DEF Committed, Answers, Reply
  <2>2. ledger'[Len(ledger) + 2].type = "state_changed"
    BY <1>10 DEF Committed, CommitOf
  <2>3. ledger'[Len(ledger) + 3].type # "user_intent"
    BY <1>10 DEF Committed
  <2>4. \A s \in 2 .. 3 : ledger'[Len(ledger) + s].type # "user_intent"
    BY <1>3, <2>2, <2>3
  <2>. QED
    BY <1>4, <2>1, <2>4, ServedRows
<1>. QED
  BY <1>1, <1>5, <1>6, <1>7, <1>8, <1>9, <1>10 DEF Outcome

LEMMA ReadAdds ==
  ASSUME TypeInv, NEW tool \in ReadTools, NEW intent \in Intents,
         NEW found \in BOOLEAN, ReadTool(tool, intent, found)
  PROVE  CallAdds(intent, 2)
<1>. DEFINE started == BlankEvent("tool_call_started", tool, intent, Call)
            blank == BlankEvent("tool_call_completed", tool, intent, Call)
            completed == [blank EXCEPT !.ok = found]
<1>1. Call \in Nat /\ ledger \in Seq(Event) /\ Len(ledger) \in Nat
  BY DEF Call, TypeInv, TypeOK
<1>2. /\ started \in Event /\ started.type = "tool_call_started"
      /\ started.call = Call /\ started.intent = intent
      /\ blank \in Event /\ blank.type = "tool_call_completed"
      /\ blank.call = Call /\ blank.intent = intent
  BY <1>1, BlankEventType DEF BlankEvent, EventTypes
<1>3. /\ ledger' = Append(Append(ledger, started), completed)
      /\ \E a : answers' = Append(answers, a)
  BY DEF ReadTool, Reply
<1>. HIDE DEF started, blank
<1>4. /\ completed \in Event /\ completed.type = "tool_call_completed"
      /\ completed.call = Call /\ completed.intent = intent
  BY <1>2 DEF Event
<1>. HIDE DEF completed
<1>5. /\ ledger' \in Seq(Event) /\ Len(ledger') = Len(ledger) + 2
      /\ ledger'[Len(ledger) + 1] = started /\ ledger'[Len(ledger) + 2] = completed
      /\ \A s \in 1 .. Len(ledger) : ledger'[s] = ledger[s]
  BY <1>1, <1>2, <1>3, <1>4
<1>6. \A s \in 1 .. 2 : s = 1 \/ s = 2
  OBVIOUS
<1>. QED
  BY <1>2, <1>3, <1>4, <1>5, <1>6 DEF CallAdds, Extends

LEMMA NothingAdds ==
  ASSUME TypeInv, ledger' = ledger, NEW a, answers' = Append(answers, a), NEW intent
  PROVE  CallAdds(intent, 0)
<1>1. ledger \in Seq(Event) /\ Len(ledger) \in Nat
  BY DEF TypeInv, TypeOK
<1>. QED
  BY <1>1 DEF CallAdds, Extends

LEMMA DispatchAdds ==
  ASSUME TypeInv, NEW c \in Invocations, NEW intent \in Intents, Dispatch(c, intent)
  PROVE  \E n \in 0 .. 3 : CallAdds(intent, n) /\ (HasReader(c) \/ n = 0)
<1>1. CASE /\ c.tool = ISSUE_REFUND /\ c.asked \in Ask
           /\ IssueRefund(intent, c.asked, MakeKey(intent, c.asked))
  <2>1. MakeKey(intent, c.asked) \in Keys
    BY <1>1 DEF MakeKey, Keys, DerivedKeys, Ask
  <2>2. HasReader(c)
    BY <1>1 DEF HasReader
  <2>. QED
    BY <1>1, <2>1, <2>2, RefundAdds
<1>2. CASE c.tool \in ReadTools /\ \E found \in BOOLEAN : ReadTool(c.tool, intent, found)
  <2>1. CallAdds(intent, 2) /\ HasReader(c)
    BY <1>2, ReadAdds DEF HasReader
  <2>2. 2 \in 0 .. 3
    OBVIOUS
  <2>. QED
    BY <2>1, <2>2
<1>3. CASE SendEmail(intent) \/ \E tool : RejectedDispatch(tool, intent)
  <2>1. ledger' = ledger /\ \E a : answers' = Append(answers, a)
    BY <1>3 DEF SendEmail, RejectedDispatch, Reply
  <2>2. CallAdds(intent, 0) /\ 0 \in 0 .. 3
    BY <2>1, NothingAdds
  <2>. QED
    BY <2>2
<1>. QED
  BY <1>1, <1>2, <1>3, DispatchIs

-----------------------------------------------------------------------------
(* The rows: a call's span is where its rows are, and no other call's. *)
LEMMA AnswersGrow ==
  ASSUME TypeInv, NEW a, answers' = Append(answers, a)
  PROVE  Len(answers') = Len(answers) + 1
<1>1. answers \in Seq(Answer \cup {a})
  BY SeqMonotonic DEF TypeInv, TypeOK
<1>. QED
  BY <1>1, AppendProperties

LEMMA CallSpans ==
  ASSUME TypeInv, StoryInv, spans \in Seq(Span), SpansPartitionLedger,
         NEW c, NEW intent, NEW n \in 0 .. 3, CallAdds(intent, n), HasReader(c) \/ n = 0,
         spans' = Append(spans, SpanOf(c, Len(ledger), Len(ledger')))
  PROVE  spans' \in Seq(Span) /\ SpansPartitionLedger'
<1>. DEFINE L == Len(ledger)
            sp == SpanOf(c, L, L + n)
<1>0. PICK k : k = Call
  OBVIOUS
<1>1. /\ L \in Nat /\ DOMAIN ledger = 1 .. L /\ Len(answers) \in Nat
      /\ answers \in Seq(Answer) /\ DOMAIN answers = 1 .. Len(answers)
  BY DEF TypeInv, TypeOK
<1>2. /\ Len(ledger') = L + n /\ DOMAIN ledger' = 1 .. L + n
      /\ \A s \in 1 .. L : ledger'[s] = ledger[s]
      /\ \A s \in 1 .. n : /\ ledger'[L + s].call = k
                           /\ ledger'[L + s].type # "user_intent"
      /\ Len(answers') = k
  <2>1. Extends(n) /\ \A s \in 1 .. n : /\ ledger'[L + s].call = k
                                       /\ ledger'[L + s].type # "user_intent"
    BY <1>0 DEF CallAdds
  <2>2. PICK a : answers' = Append(answers, a)
    BY DEF CallAdds
  <2>3. Len(answers') = k
    BY <1>0, <1>1, <2>2, AnswersGrow DEF Call
  <2>. QED
    BY <1>1, <2>1, <2>3 DEF Extends
<1>3. \A s \in 1 .. L + n : s > L => /\ s - L \in 1 .. n /\ L + (s - L) = s
                                     /\ ledger'[s].call = k
                                     /\ ledger'[s].type # "user_intent"
  <2>1. \A s \in 1 .. L + n : s > L => s - L \in 1 .. n /\ L + (s - L) = s
    BY <1>1
  <2>. QED
    BY <1>2, <2>1
<1>4. Len(spans) = Len(answers) /\ k = Len(answers) + 1 /\ k \in Nat \ {0}
  BY <1>0, <1>1 DEF SpansPartitionLedger, Call
<1>5. /\ sp \in Span
      /\ sp.started = IF n > 0 THEN L + 1 ELSE NoneSeq
      /\ n > 0 => sp.ended = L + n
  BY <1>1 DEF SpanOf, Span, NoneSeq
<1>6. spans' = Append(spans, sp)
  BY <1>2
<1>. HIDE DEF sp, L
<1>7. /\ spans' \in Seq(Span) /\ Len(spans') = k /\ DOMAIN spans' = 1 .. k
      /\ spans'[k] = sp /\ \A d \in 1 .. Len(answers) : spans'[d] = spans[d]
      /\ DOMAIN spans = 1 .. Len(answers)
  BY <1>4, <1>5, <1>6
<1>8. \A d \in 1 .. Len(answers) : RowsOfCall(d)' = RowsOfCall(d)
  <2>. SUFFICES ASSUME NEW d \in 1 .. Len(answers)
                PROVE  \A s : s \in RowsOfCall(d)' <=> s \in RowsOfCall(d)
    OBVIOUS
  <2>1. d # k
    BY <1>1, <1>4
  <2>2. \A s \in 1 .. L + n : s \in 1 .. L \/ s > L
    BY <1>1
  <2>3. \A s \in 1 .. L : s \in 1 .. L + n /\ ledger'[s] = ledger[s]
    BY <1>1, <1>2
  <2>. QED
    BY <1>1, <1>2, <1>3, <2>1, <2>2, <2>3 DEF RowsOfCall
<1>9. \A s \in 1 .. L : ledger[s].call # k
  BY <1>1, <1>4 DEF StoryInv
<1>10. RowsOfCall(k)' = L + 1 .. L + n
  <2>1. \A s \in 1 .. L + n : s \in 1 .. L \/ s > L
    BY <1>1
  <2>2. \A s : s \in {t \in 1 .. L + n : ledger'[t].call = k} <=> s \in L + 1 .. L + n
    BY <1>1, <1>2, <1>3, <1>9, <2>1
  <2>. QED
    BY <1>2, <2>2 DEF RowsOfCall
<1>11. ASSUME NEW d \in 1 .. k
       PROVE  IF spans'[d].started = NoneSeq THEN RowsOfCall(d)' = {}
              ELSE /\ spans'[d].started \in RowsOfCall(d)'
                   /\ RowsOfCall(d)' = spans'[d].started .. spans'[d].ended
  <2>1. CASE d \in 1 .. Len(answers)
    BY <1>7, <1>8, <2>1 DEF SpansPartitionLedger
  <2>2. CASE d = k
    <3>1. n > 0 => L + 1 # NoneSeq /\ L + 1 \in L + 1 .. L + n
      BY <1>1 DEF NoneSeq
    <3>2. n = 0 => L + 1 .. L + n = {}
      BY <1>1
    <3>3. n > 0 \/ n = 0
      OBVIOUS
    <3>. QED
      BY <1>5, <1>7, <1>10, <2>2, <3>1, <3>2, <3>3
  <2>3. d \in 1 .. Len(answers) \/ d = k
    BY <1>1, <1>4
  <2>. QED
    BY <2>1, <2>2, <2>3
<1>12. ASSUME NEW s \in 1 .. L + n
       PROVE  \/ ledger'[s].type = "user_intent"
              \/ \E d \in 1 .. k : /\ spans'[d].started # NoneSeq
                                   /\ s \in spans'[d].started .. spans'[d].ended
  <2>1. CASE s \in 1 .. L
    <3>1. \/ ledger[s].type = "user_intent"
          \/ \E d \in 1 .. Len(answers) : /\ spans[d].started # NoneSeq
                                          /\ s \in spans[d].started .. spans[d].ended
      BY <1>1, <1>7, <2>1 DEF SpansPartitionLedger
    <3>2. \A d \in 1 .. Len(answers) : d \in 1 .. k
      BY <1>1, <1>4
    <3>. QED
      BY <1>2, <1>7, <2>1, <3>1, <3>2
  <2>2. CASE s > L
    <3>1. n > 0 /\ s \in L + 1 .. L + n /\ k \in 1 .. k /\ L + 1 # NoneSeq
      BY <1>1, <1>4, <2>2 DEF NoneSeq
    <3>. QED
      BY <1>5, <1>7, <3>1
  <2>3. s \in 1 .. L \/ s > L
    BY <1>1
  <2>. QED
    BY <2>1, <2>2, <2>3
<1>. QED
  BY <1>2, <1>7, <1>11, <1>12 DEF SpansPartitionLedger

(* The requests. *)
LEMMA IntentRowsFinite ==
  ASSUME TypeInv
  PROVE  IntentRows \subseteq 1 .. Len(ledger) /\ IsFiniteSet(IntentRows)
<1>1. Len(ledger) \in Nat /\ DOMAIN ledger = 1 .. Len(ledger)
  BY DEF TypeInv, TypeOK
<1>2. IntentRows \subseteq 1 .. Len(ledger)
  BY <1>1 DEF IntentRows
<1>3. IsFiniteSet(1 .. Len(ledger))
  BY <1>1, FS_Interval
<1>. QED
  BY <1>2, <1>3, FS_Subset

LEMMA CallFrames ==
  ASSUME TypeInv, FramedRows, NEW n \in 0 .. 3, CallAdds(CurrentIntent, n), ordinal' = ordinal
  PROVE  FramedRows'
<1>0. PICK L : L = Len(ledger)
  OBVIOUS
<1>1. L \in Nat /\ DOMAIN ledger = 1 .. L
  BY <1>0 DEF TypeInv, TypeOK
<1>2. /\ DOMAIN ledger' = 1 .. L + n /\ \A s \in 1 .. L : ledger'[s] = ledger[s]
      /\ \A s \in 1 .. n : /\ ledger'[L + s].intent = CurrentIntent
                           /\ ledger'[L + s].type # "user_intent"
  BY <1>0, <1>1 DEF CallAdds, Extends
<1>3. \A s \in 1 .. L + n : s > L => /\ ledger'[s].intent = CurrentIntent
                                     /\ ledger'[s].type # "user_intent"
  <2>1. \A s \in 1 .. L + n : s > L => s - L \in 1 .. n /\ L + (s - L) = s
    BY <1>1
  <2>. QED
    BY <1>2, <2>1
<1>4. /\ \A s \in 1 .. L : s \in 1 .. L + n
      /\ \A s \in 1 .. L + n : s \in 1 .. L \/ s > L
  BY <1>1
<1>5. IntentRows' = IntentRows
  <2>1. \A s : s \in IntentRows' <=> s \in IntentRows
    BY <1>1, <1>2, <1>3, <1>4 DEF IntentRows
  <2>. QED
    BY <2>1 DEF IntentRows
<1>6. ASSUME NEW s \in 1 .. L + n
      PROVE  ledger'[s].intent = Requests[Cardinality({t \in IntentRows : t <= s})]
  <2>1. CASE s \in 1 .. L
    BY <1>1, <1>2, <2>1 DEF FramedRows
  <2>2. CASE s > L
    <3>1. \A t \in IntentRows : t <= s
      BY <1>0, <1>1, <2>2, IntentRowsFinite
    <3>2. {t \in IntentRows : t <= s} = IntentRows
      BY <3>1
    <3>. QED
      BY <1>3, <2>2, <3>2 DEF FramedRows, CurrentIntent
  <2>. QED
    BY <1>4, <2>1, <2>2
<1>. QED
  BY <1>2, <1>5, <1>6 DEF FramedRows

LEMMA RequestAddsRow ==
  ASSUME TypeInv, NEW intent \in Intents, RecordUserIntent(intent)
  PROVE  /\ DOMAIN ledger' = 1 .. Len(ledger) + 1
         /\ \A s \in 1 .. Len(ledger) : ledger'[s] = ledger[s]
         /\ LET row == ledger'[Len(ledger) + 1]
            IN  row.type = "user_intent" /\ row.intent = intent /\ row.call = 0
<1>. DEFINE row == BlankEvent("user_intent", "none", intent, 0)
<1>1. ledger \in Seq(Event) /\ Len(ledger) \in Nat
  BY DEF TypeInv, TypeOK
<1>2. row \in Event /\ row.type = "user_intent" /\ row.intent = intent /\ row.call = 0
  BY BlankEventType DEF BlankEvent, EventTypes
<1>3. ledger' = Append(ledger, row)
  BY DEF RecordUserIntent
<1>. HIDE DEF row
<1>4. /\ Len(ledger') = Len(ledger) + 1 /\ DOMAIN ledger' = 1 .. Len(ledger')
      /\ ledger'[Len(ledger) + 1] = row
      /\ \A s \in 1 .. Len(ledger) : ledger'[s] = ledger[s]
  BY <1>1, <1>2, <1>3
<1>. QED
  BY <1>2, <1>4

LEMMA RequestFrames ==
  ASSUME TypeInv, FramedRows, ordinal \in Nat, ordinal' = ordinal + 1,
         Requests[ordinal + 1] \in Intents, RecordUserIntent(Requests[ordinal + 1])
  PROVE  FramedRows'
<1>0. PICK L : L = Len(ledger)
  OBVIOUS
<1>1. L \in Nat /\ DOMAIN ledger = 1 .. L
  BY <1>0 DEF TypeInv, TypeOK
<1>2. /\ DOMAIN ledger' = 1 .. L + 1
      /\ \A s \in 1 .. L : ledger'[s] = ledger[s]
      /\ ledger'[L + 1].type = "user_intent"
      /\ ledger'[L + 1].intent = Requests[ordinal + 1]
  BY <1>0, RequestAddsRow
<1>3. /\ \A s \in 1 .. L : s \in 1 .. L + 1 /\ s # L + 1 /\ ~(L + 1 <= s)
      /\ \A s \in 1 .. L + 1 : s \in 1 .. L \/ s = L + 1
      /\ L + 1 \in 1 .. L + 1 /\ L + 1 \notin 1 .. L
  BY <1>1
<1>4. IntentRows' = IntentRows \cup {L + 1}
  <2>1. \A s : s \in IntentRows' <=> s \in IntentRows \/ s = L + 1
    BY <1>1, <1>2, <1>3 DEF IntentRows
  <2>. QED
    BY <2>1 DEF IntentRows
<1>5. IntentRows \subseteq 1 .. L /\ IsFiniteSet(IntentRows)
  BY <1>0, IntentRowsFinite
<1>6. Cardinality(IntentRows \cup {L + 1}) = ordinal + 1
  BY <1>3, <1>5, FS_AddElement DEF FramedRows
<1>7. ASSUME NEW s \in 1 .. L + 1
      PROVE  ledger'[s].intent = Requests[Cardinality({t \in IntentRows \cup {L + 1} : t <= s})]
  <2>1. CASE s \in 1 .. L
    <3>1. {t \in IntentRows \cup {L + 1} : t <= s} = {t \in IntentRows : t <= s}
      BY <1>3, <2>1
    <3>. QED
      BY <1>1, <1>2, <2>1, <3>1 DEF FramedRows
  <2>2. CASE s = L + 1
    <3>1. \A t \in IntentRows \cup {L + 1} : t <= s
      BY <1>1, <1>5, <2>2
    <3>2. {t \in IntentRows \cup {L + 1} : t <= s} = IntentRows \cup {L + 1}
      BY <3>1
    <3>. QED
      BY <1>2, <1>6, <2>2, <3>2
  <2>. QED
    BY <1>3, <2>1, <2>2
<1>. QED
  BY <1>2, <1>4, <1>6, <1>7 DEF FramedRows

LEMMA RequestSpans ==
  ASSUME TypeInv, spans \in Seq(Span), SpansPartitionLedger,
         NEW intent \in Intents, RecordUserIntent(intent), spans' = spans
  PROVE  SpansPartitionLedger'
<1>0. PICK L : L = Len(ledger)
  OBVIOUS
<1>1. /\ L \in Nat /\ DOMAIN ledger = 1 .. L /\ answers' = answers
      /\ Len(spans) \in Nat /\ DOMAIN spans = 1 .. Len(spans)
  BY <1>0 DEF TypeInv, TypeOK, RecordUserIntent
<1>2. /\ DOMAIN ledger' = 1 .. L + 1
      /\ \A s \in 1 .. L : ledger'[s] = ledger[s]
      /\ ledger'[L + 1].type = "user_intent" /\ ledger'[L + 1].call = 0
  BY <1>0, RequestAddsRow
<1>3. /\ \A s \in 1 .. L : s \in 1 .. L + 1
      /\ \A s \in 1 .. L + 1 : s \in 1 .. L \/ s = L + 1
  BY <1>1
<1>4. ASSUME NEW c \in 1 .. Len(spans)
      PROVE  RowsOfCall(c)' = RowsOfCall(c)
  <2>1. c # 0
    BY <1>1
  <2>2. \A s : s \in RowsOfCall(c)' <=> s \in RowsOfCall(c)
    BY <1>1, <1>2, <1>3, <2>1 DEF RowsOfCall
  <2>. QED
    BY <2>2 DEF RowsOfCall
<1>5. ASSUME NEW s \in 1 .. L + 1
      PROVE  \/ ledger'[s].type = "user_intent"
             \/ \E c \in 1 .. Len(spans) : /\ spans[c].started # NoneSeq
                                           /\ s \in spans[c].started .. spans[c].ended
  <2>1. CASE s = L + 1
    BY <1>2, <2>1
  <2>2. CASE s \in 1 .. L
    BY <1>1, <1>2, <2>2 DEF SpansPartitionLedger
  <2>. QED
    BY <1>3, <2>1, <2>2
<1>. QED
  BY <1>1, <1>2, <1>4, <1>5 DEF SpansPartitionLedger

LEMMA RowsInit == AgentInit => RowsInv
<1>. SUFFICES ASSUME AgentInit PROVE RowsInv
  OBVIOUS
<1>1. /\ ledger = <<>> /\ spans = <<>> /\ answers = <<>> /\ ordinal = 0
  BY DEF AgentInit, Init
<1>2. DOMAIN ledger = {} /\ DOMAIN spans = {} /\ Len(spans) = Len(answers) /\ spans \in Seq(Span)
  BY <1>1, EmptySeq
<1>3. IntentRows = {}
  BY <1>2 DEF IntentRows
<1>. QED
  BY <1>1, <1>2, <1>3, FS_EmptySet DEF RowsInv, SpansPartitionLedger, FramedRows

LEMMA RowsStep ==
  ASSUME TypeInv, StoryInv, LoopInv, RowsInv, [AgentNext]_<<vars, agentVars>>
  PROVE  RowsInv'
<1>1. CASE NextRequest
  <2>1. /\ ordinal \in Nat /\ ordinal' = ordinal + 1 /\ spans' = spans
        /\ Requests[ordinal + 1] \in Intents /\ RecordUserIntent(Requests[ordinal + 1])
    BY <1>1, RequestsType DEF LoopInv, NextRequest
  <2>. QED
    BY <2>1, RequestFrames, RequestSpans DEF RowsInv
<1>2. CASE ExecuteCall
  <2>1. PICK c : c = Head(pending)
    OBVIOUS
  <2>2. PICK intent : intent = CurrentIntent
    OBVIOUS
  <2>3. /\ ordinal' = ordinal /\ spans' = Append(spans, SpanOf(c, Len(ledger), Len(ledger')))
    BY <1>2, <2>1 DEF ExecuteCall
  <2>4. c \in Invocations /\ Dispatch(c, intent) /\ intent \in Intents
    BY <1>2, <2>1, <2>2, RunningCall
  <2>5. PICK n \in 0 .. 3 : CallAdds(intent, n) /\ (HasReader(c) \/ n = 0)
    BY <2>4, DispatchAdds
  <2>6. spans' \in Seq(Span) /\ SpansPartitionLedger'
    BY <2>3, <2>5, CallSpans DEF RowsInv
  <2>7. FramedRows'
    BY <2>2, <2>3, <2>5, CallFrames DEF RowsInv
  <2>. QED
    BY <2>6, <2>7 DEF RowsInv
<1>3. CASE ModelTurn \/ OutOfTurns \/ ModelRaises \/ UNCHANGED <<vars, agentVars>>
  <2>1. UNCHANGED <<ledger, answers, spans, ordinal>>
    BY <1>3 DEF ModelTurn, FinalReport, CallTools, OutOfTurns, ModelRaises, vars, agentVars
  <2>2. IntentRows' = IntentRows
    BY <2>1 DEF IntentRows
  <2>3. \A d : RowsOfCall(d)' = RowsOfCall(d)
    BY <2>1 DEF RowsOfCall
  <2>4. FramedRows'
    BY <2>1, <2>2 DEF RowsInv, FramedRows
  <2>5. SpansPartitionLedger'
    BY <2>1, <2>3 DEF RowsInv, SpansPartitionLedger
  <2>. QED
    BY <2>1, <2>4, <2>5 DEF RowsInv
<1>. QED
  BY <1>1, <1>2, <1>3 DEF AgentNext

-----------------------------------------------------------------------------
(* The conversation grows by one message at a time. *)
LEMMA SaidRow ==
  ASSUME messages \in Seq(Message), NEW x \in Message, messages' = Append(messages, x)
  PROVE  /\ messages' \in Seq(Message) /\ Len(messages) \in Nat
         /\ DOMAIN messages = 1 .. Len(messages)
         /\ Len(messages') = Len(messages) + 1 /\ DOMAIN messages' = 1 .. Len(messages) + 1
         /\ messages'[Len(messages) + 1] = x
         /\ \A i \in 1 .. Len(messages) : messages'[i] = messages[i]
  OBVIOUS

LEMMA SaidBy ==
  ASSUME messages \in Seq(Message), NEW x \in Message, messages' = Append(messages, x), NEW role
  PROVE  /\ x.role = role => MessagesOf(role)' = MessagesOf(role) \cup {Len(messages) + 1}
         /\ x.role # role => MessagesOf(role)' = MessagesOf(role)
         /\ MessagesOf(role) \subseteq 1 .. Len(messages) /\ IsFiniteSet(MessagesOf(role))
<1>0. PICK M : M = Len(messages)
  OBVIOUS
<1>1. /\ M \in Nat /\ DOMAIN messages = 1 .. M /\ DOMAIN messages' = 1 .. M + 1
      /\ messages'[M + 1] = x /\ \A i \in 1 .. M : messages'[i] = messages[i]
  BY <1>0, SaidRow
<1>2. /\ \A i \in 1 .. M : i \in 1 .. M + 1
      /\ \A i \in 1 .. M + 1 : i \in 1 .. M \/ i = M + 1
      /\ M + 1 \in 1 .. M + 1 /\ M + 1 \notin 1 .. M
  BY <1>1
<1>3. MessagesOf(role) \subseteq 1 .. M
  BY <1>1 DEF MessagesOf
<1>4. IsFiniteSet(1 .. M)
  BY <1>1, FS_Interval
<1>5. IsFiniteSet(MessagesOf(role))
  BY <1>3, <1>4, FS_Subset
<1>6. ASSUME x.role = role
      PROVE  MessagesOf(role)' = MessagesOf(role) \cup {M + 1}
  <2>1. \A i : i \in MessagesOf(role)' <=> i \in MessagesOf(role) \/ i = M + 1
    BY <1>1, <1>2, <1>6 DEF MessagesOf
  <2>. QED
    BY <2>1 DEF MessagesOf
<1>7. ASSUME x.role # role
      PROVE  MessagesOf(role)' = MessagesOf(role)
  <2>1. \A i : i \in MessagesOf(role)' <=> i \in MessagesOf(role)
    BY <1>1, <1>2, <1>7 DEF MessagesOf
  <2>. QED
    BY <2>1 DEF MessagesOf
<1>. QED
  BY <1>0, <1>3, <1>5, <1>6, <1>7

LEMMA UsersCounted ==
  ASSUME messages \in Seq(Message), Cardinality(MessagesOf("user")) = ordinal,
         NEW x \in Message, messages' = Append(messages, x)
  PROVE  Cardinality(MessagesOf("user")') = IF x.role = "user" THEN ordinal + 1 ELSE ordinal
<1>1. /\ x.role = "user" => MessagesOf("user")' = MessagesOf("user") \cup {Len(messages) + 1}
      /\ x.role # "user" => MessagesOf("user")' = MessagesOf("user")
      /\ MessagesOf("user") \subseteq 1 .. Len(messages) /\ IsFiniteSet(MessagesOf("user"))
      /\ Len(messages) \in Nat
  BY SaidBy
<1>2. Len(messages) + 1 \notin MessagesOf("user")
  BY <1>1
<1>. QED
  BY <1>1, <1>2, FS_AddElement

(* A message that answers no call, said when no call is waiting. *)
LEMMA SaidAside ==
  ASSUME TypeInv, TalkInv, pending = <<>>, answers' = answers, pending' \in Seq(Invocations),
         NEW x \in Message, x.role # "tool", messages' = Append(messages, x)
  PROVE  /\ messages' \in Seq(Message) /\ ToolsInv'
         /\ \A m \in MessagesOf("assistant") : \A k \in DOMAIN messages'[m].calls : CallInv(m, k)'
<1>0. PICK M : M = Len(messages)
  OBVIOUS
<1>1. /\ M \in Nat /\ DOMAIN messages = 1 .. M /\ DOMAIN messages' = 1 .. M + 1
      /\ \A i \in 1 .. M : messages'[i] = messages[i]
      /\ messages' \in Seq(Message)
  BY <1>0, SaidRow DEF TalkInv
<1>2. /\ MessagesOf("tool")' = MessagesOf("tool") /\ MessagesOf("tool") \subseteq 1 .. M
      /\ MessagesOf("assistant") \subseteq 1 .. M
  BY <1>0, SaidBy DEF TalkInv
<1>3. ToolsInv'
  BY <1>1, <1>2 DEF TalkInv, ToolsInv
<1>4. Len(answers) \in Nat /\ Len(pending) = 0 /\ Len(pending') \in Nat
  BY DEF TypeInv, TypeOK
<1>5. \A i \in 1 .. M : i \in 1 .. M + 1
  BY <1>1
<1>6. ASSUME NEW m \in MessagesOf("assistant"), NEW k \in DOMAIN messages'[m].calls
      PROVE  CallInv(m, k)'
  <2>1. messages'[m] = messages[m]
    BY <1>1, <1>2
  <2>2. CallInv(m, k)
    BY <2>1 DEF TalkInv, CallsInv
  <2>. DEFINE c == messages[m].calls[k]
  <2>3. c \in 1 .. Len(answers)
    BY <1>4, <2>2 DEF CallInv
  <2>4. /\ m + k \in DOMAIN messages /\ messages[m + k] = [role |-> "tool", calls |-> <<c>>]
    BY <1>4, <2>2, <2>3 DEF CallInv
  <2>5. c \in 1 .. Len(answers) + Len(pending') /\ ~(c > Len(answers)) /\ c <= Len(answers)
    BY <1>4, <2>3
  <2>6. /\ m + k \in DOMAIN messages' /\ messages'[m + k] = [role |-> "tool", calls |-> <<c>>]
    BY <1>1, <1>5, <2>4
  <2>7. messages'[m].calls[k] = c
    BY <2>1
  <2>. HIDE DEF c
  <2>. QED
    BY <2>5, <2>6, <2>7 DEF CallInv
<1>7. \A m \in MessagesOf("assistant") : \A k \in DOMAIN messages'[m].calls : CallInv(m, k)'
  BY <1>6, Zenon
<1>. QED
  BY <1>1, <1>3, <1>7, Zenon

LEMMA TalkRequest ==
  ASSUME TypeInv, LoopInv, TalkInv, NextRequest
  PROVE  TalkInv'
<1>. DEFINE x == [role |-> "user", calls |-> <<>>]
<1>1. x \in Message /\ x.role = "user" /\ x.role # "tool" /\ x.role # "assistant"
  BY EmptySeq DEF Message
<1>2. /\ messages' = Append(messages, x) /\ pending' = pending /\ pending = <<>>
      /\ pending \in Seq(Invocations) /\ answers' = answers /\ ordinal' = ordinal + 1
  BY DEF NextRequest, RecordUserIntent, LoopInv
<1>. HIDE DEF x
<1>3. MessagesOf("assistant")' = MessagesOf("assistant")
  BY <1>1, <1>2, SaidBy DEF TalkInv
<1>4. Cardinality(MessagesOf("user")') = ordinal'
  BY <1>1, <1>2, UsersCounted DEF TalkInv
<1>5. /\ messages' \in Seq(Message) /\ ToolsInv'
      /\ \A m \in MessagesOf("assistant") : \A k \in DOMAIN messages'[m].calls : CallInv(m, k)'
  BY <1>1, <1>2, SaidAside
<1>6. CallsInv'
  BY <1>3, <1>5, Zenon DEF CallsInv
<1>. QED
  BY <1>4, <1>5, <1>6 DEF TalkInv

LEMMA TalkResponse ==
  ASSUME TypeInv, LoopInv, TalkInv, pending = <<>>, NEW calls \in Seq(Invocations),
         RecordAssistant(calls), pending' = calls, answers' = answers, ordinal' = ordinal
  PROVE  TalkInv'
<1>. DEFINE ids == AssignedIds(calls)
            x == [role |-> "assistant", calls |-> ids]
<1>0. PICK M : M = Len(messages)
  OBVIOUS
<1>1. /\ Len(answers) \in Nat /\ Len(calls) \in Nat /\ DOMAIN calls = 1 .. Len(calls)
  BY DEF TypeInv, TypeOK
<1>2. /\ ids \in Seq(Nat) /\ DOMAIN ids = 1 .. Len(calls)
      /\ \A k \in 1 .. Len(calls) : ids[k] = Len(answers) + k
  <2>1. ids = [k \in 1 .. Len(calls) |-> Len(answers) + k]
    BY <1>1 DEF AssignedIds
  <2>2. \A k \in 1 .. Len(calls) : Len(answers) + k \in Nat
    BY <1>1
  <2>. QED
    BY <1>1, <2>1, <2>2, IsASeq
<1>. HIDE DEF ids
<1>3. x \in Message /\ x.role = "assistant" /\ x.role # "tool" /\ x.role # "user" /\ x.calls = ids
  BY <1>2 DEF Message
<1>4. messages' = Append(messages, x)
  BY DEF RecordAssistant, x, ids
<1>. HIDE DEF x
<1>5. /\ M \in Nat /\ Len(messages') = M + 1 /\ messages'[M + 1] = x
  BY <1>0, <1>3, <1>4, SaidRow DEF TalkInv
<1>6. MessagesOf("assistant")' = MessagesOf("assistant") \cup {M + 1}
  BY <1>0, <1>3, <1>4, SaidBy DEF TalkInv
<1>7. Cardinality(MessagesOf("user")') = ordinal'
  BY <1>3, <1>4, UsersCounted DEF TalkInv
<1>8. /\ messages' \in Seq(Message) /\ ToolsInv'
      /\ \A m \in MessagesOf("assistant") : \A k \in DOMAIN messages'[m].calls : CallInv(m, k)'
  BY <1>3, <1>4, SaidAside
<1>9. ASSUME NEW k \in 1 .. Len(calls)
      PROVE  CallInv(M + 1, k)'
  <2>1. messages'[M + 1].calls[k] = Len(answers) + k
    BY <1>2, <1>3, <1>5
  <2>2. /\ Len(answers) + k \in 1 .. Len(answers) + Len(calls)
        /\ ~(Len(answers) + k <= Len(answers))
        /\ M + 1 + k = (M + 1) + ((Len(answers) + k) - Len(answers))
    BY <1>1, <1>5
  <2>. QED
    BY <1>5, <2>1, <2>2 DEF CallInv
<1>10. \A m \in MessagesOf("assistant")' : \A k \in DOMAIN messages'[m].calls : CallInv(m, k)'
  <2>1. DOMAIN messages'[M + 1].calls = 1 .. Len(calls)
    BY <1>2, <1>3, <1>5
  <2>. QED
    BY <1>6, <1>8, <1>9, <2>1, Zenon
<1>11. CallsInv'
  BY <1>10, Zenon DEF CallsInv
<1>. QED
  BY <1>7, <1>8, <1>11 DEF TalkInv

(* The next call in line is answered. *)
LEMMA TalkAnswer ==
  ASSUME TypeInv, LoopInv, TalkInv, ExecuteCall
  PROVE  TalkInv'
<1>0. PICK M, A, P, x : /\ M = Len(messages) /\ A = Len(answers) /\ P = Len(pending)
                        /\ x = [role |-> "tool", calls |-> <<A + 1>>]
  OBVIOUS
<1>1. A \in Nat /\ DOMAIN answers = 1 .. A
  BY <1>0 DEF TypeInv, TypeOK
<1>2. /\ messages' = Append(messages, x) /\ ordinal' = ordinal
      /\ pending' = Tail(pending) /\ pending \in Seq(Invocations) /\ pending # <<>>
  BY <1>0 DEF ExecuteCall, Call, LoopInv
<1>3. Len(answers') = A + 1
  <2>1. PICK n \in 0 .. 3 : CallAdds(CurrentIntent, n)
    BY RunningCall, DispatchAdds
  <2>2. PICK a : answers' = Append(answers, a)
    BY <2>1 DEF CallAdds
  <2>. QED
    BY <1>0, <2>2, AnswersGrow
<1>4. P \in Nat \ {0} /\ Len(pending') = P - 1
  <2>1. Len(pending) \in Nat /\ Len(Tail(pending)) = Len(pending) - 1 /\ Len(pending) # 0
    BY <1>2, HeadTailProperties, EmptySeq
  <2>. QED
    BY <1>0, <1>2, <2>1
<1>5. x \in Message /\ x.role = "tool" /\ x.calls = <<A + 1>>
  <2>1. <<A + 1>> \in Seq(Nat)
    BY <1>1
  <2>. QED
    BY <1>0, <2>1 DEF Message
<1>6. /\ messages' \in Seq(Message)
      /\ M \in Nat /\ DOMAIN messages = 1 .. M
      /\ Len(messages') = M + 1 /\ DOMAIN messages' = 1 .. M + 1
      /\ messages'[M + 1] = x
      /\ \A i \in 1 .. M : messages'[i] = messages[i]
  BY <1>0, <1>2, <1>5, SaidRow DEF TalkInv
<1>7. /\ MessagesOf("tool")' = MessagesOf("tool") \cup {M + 1}
      /\ MessagesOf("tool") \subseteq 1 .. M
      /\ MessagesOf("assistant")' = MessagesOf("assistant")
      /\ MessagesOf("assistant") \subseteq 1 .. M
  BY <1>0, <1>2, <1>5, SaidBy DEF TalkInv
<1>8. Cardinality(MessagesOf("user")') = ordinal'
  BY <1>2, <1>5, UsersCounted DEF TalkInv
<1>9. ASSUME NEW m \in MessagesOf("assistant"), NEW k \in DOMAIN messages'[m].calls
      PROVE  CallInv(m, k)'
  <2>1. messages'[m] = messages[m]
    BY <1>6, <1>7
  <2>2. PICK c : c = messages[m].calls[k]
    OBVIOUS
  <2>3. CallInv(m, k)
    BY <2>1 DEF TalkInv, CallsInv
  <2>4. /\ c \in 1 .. A + P
        /\ c <= A => m + k \in 1 .. M /\ messages[m + k] = [role |-> "tool", calls |-> <<c>>]
        /\ c > A => m + k = M + (c - A)
    BY <1>0, <1>6, <2>2, <2>3 DEF CallInv
  <2>5. messages'[m].calls[k] = c /\ c \in 1 .. (A + 1) + (P - 1)
    BY <1>1, <1>4, <2>1, <2>2, <2>4
  <2>6. ASSUME c <= A + 1
        PROVE  m + k \in 1 .. M + 1 /\ messages'[m + k] = [role |-> "tool", calls |-> <<c>>]
    <3>1. CASE c <= A
      BY <1>6, <2>4, <3>1
    <3>2. CASE c = A + 1
      <4>1. m + k = M + 1
        BY <1>1, <1>6, <2>4, <3>2
      <4>. QED
        BY <1>0, <1>6, <3>2, <4>1
    <3>3. c <= A \/ c = A + 1
      BY <1>1, <1>4, <2>4, <2>6
    <3>. QED
      BY <3>1, <3>2, <3>3
  <2>7. c > A + 1 => m + k = (M + 1) + (c - (A + 1))
    BY <1>1, <1>4, <1>6, <2>4
  <2>. QED
    BY <1>3, <1>4, <1>6, <2>5, <2>6, <2>7 DEF CallInv
<1>10. \A m \in MessagesOf("assistant")' : \A k \in DOMAIN messages'[m].calls : CallInv(m, k)'
  BY <1>7, <1>9, Zenon
<1>11. CallsInv'
  BY <1>10, Zenon DEF CallsInv
<1>12. /\ \A n \in MessagesOf("tool") : \E c \in 1 .. A : messages'[n].calls = <<c>>
       /\ \A n, p \in MessagesOf("tool") : messages'[n].calls = messages'[p].calls => n = p
       /\ messages'[M + 1].calls = <<A + 1>>
  BY <1>0, <1>5, <1>6, <1>7 DEF TalkInv, ToolsInv
<1>13. \A c \in 1 .. A : c \in 1 .. A + 1 /\ <<c>> # <<A + 1>>
  BY <1>1
<1>14. A + 1 \in 1 .. A + 1
  BY <1>1
<1>15. ToolsInv'
  BY <1>3, <1>7, <1>12, <1>13, <1>14 DEF ToolsInv
<1>. QED
  BY <1>6, <1>8, <1>11, <1>15 DEF TalkInv

LEMMA TalkInit == AgentInit => TalkInv
<1>. SUFFICES ASSUME AgentInit PROVE TalkInv
  OBVIOUS
<1>1. messages = <<>> /\ ordinal = 0
  BY DEF AgentInit
<1>2. messages \in Seq(Message) /\ DOMAIN messages = {}
  BY <1>1, EmptySeq
<1>3. \A role : MessagesOf(role) = {}
  BY <1>2 DEF MessagesOf
<1>. QED
  BY <1>1, <1>2, <1>3, FS_EmptySet DEF TalkInv, CallsInv, ToolsInv

LEMMA TalkStep ==
  ASSUME TypeInv, LoopInv, TalkInv, [AgentNext]_<<vars, agentVars>>
  PROVE  TalkInv'
<1>1. CASE NextRequest
  BY <1>1, TalkRequest
<1>2. ASSUME NEW calls \in Responses, FinalReport(calls) \/ CallTools(calls)
      PROVE  TalkInv'
  <2>1. /\ calls \in Seq(Invocations) /\ RecordAssistant(calls) /\ pending = <<>>
        /\ answers' = answers /\ ordinal' = ordinal
    BY <1>2, ResponseType DEF FinalReport, CallTools, LoopInv, vars
  <2>2. pending' = calls
    BY <1>2, <2>1 DEF FinalReport, CallTools
  <2>. QED
    BY <2>1, <2>2, TalkResponse
<1>3. CASE ExecuteCall
  BY <1>3, TalkAnswer
<1>4. CASE OutOfTurns \/ ModelRaises \/ UNCHANGED <<vars, agentVars>>
  <2>1. UNCHANGED <<answers, pending, messages, ordinal>>
    BY <1>4 DEF OutOfTurns, ModelRaises, vars, agentVars
  <2>2. \A role : MessagesOf(role)' = MessagesOf(role)
    BY <2>1 DEF MessagesOf
  <2>3. \A m, k : CallInv(m, k)' <=> CallInv(m, k)
    BY <2>1 DEF CallInv
  <2>4. CallsInv'
    BY <2>1, <2>2, <2>3 DEF TalkInv, CallsInv
  <2>5. ToolsInv'
    BY <2>1, <2>2 DEF TalkInv, ToolsInv
  <2>. QED
    BY <2>1, <2>2, <2>4, <2>5 DEF TalkInv
<1>. QED
  BY <1>1, <1>2, <1>3, <1>4 DEF AgentNext, ModelTurn

-----------------------------------------------------------------------------
(* The trace and the run, read off the three invariants. *)
LEMMA TraceTypes ==
  ASSUME LoopInv, TalkInv, RowsInv
  PROVE  AgentTypeOK
<1>. DEFINE n == Len(Requests)
<1>1. n \in Nat \ {0}
  BY RequestsType
<1>2. ordinal \in 0 .. n
  BY DEF LoopInv
<1>3. reports = ordinal \/ (reports = ordinal - 1 /\ ordinal > 0)
  BY DEF LoopInv, Phases
<1>4. reports \in 0 .. n
  <2>. HIDE DEF n
  <2>. QED
    BY <1>1, <1>2, <1>3
<1>. QED
  BY <1>4 DEF LoopInv, TalkInv, RowsInv, Span, AgentTypeOK

LEMMA Answered ==
  ASSUME TypeInv, LoopInv, TalkInv
  PROVE  ConversationIsAnswered
<1>0. PICK M, A : M = Len(messages) /\ A = Len(answers)
  OBVIOUS
<1>1. A \in Nat /\ M \in Nat /\ DOMAIN messages = 1 .. M
  BY <1>0 DEF TypeInv, TypeOK, TalkInv
<1>. SUFFICES ASSUME NEW m \in MessagesOf("assistant"), NEW k \in DOMAIN messages[m].calls
              PROVE  LET c == messages[m].calls[k]
                     IN  /\ m + k \in DOMAIN messages =>
                              messages[m + k] = [role |-> "tool", calls |-> <<c>>]
                         /\ phase \in {"request", "model", "done"} => m + k \in DOMAIN messages
                         /\ \A n \in MessagesOf("tool") : messages[n].calls = <<c>> => n = m + k
  BY DEF ConversationIsAnswered
<1>2. PICK c : c = messages[m].calls[k]
  OBVIOUS
<1>3. Len(pending) \in Nat /\ (phase # "tools" => Len(pending) = 0)
  BY DEF LoopInv
<1>4. CallInv(m, k)
  BY DEF TalkInv, CallsInv
<1>5. /\ c \in 1 .. A + Len(pending)
      /\ c <= A => m + k \in 1 .. M /\ messages[m + k] = [role |-> "tool", calls |-> <<c>>]
      /\ c > A => m + k = M + (c - A)
  BY <1>0, <1>1, <1>2, <1>4 DEF CallInv
<1>6. m + k \in 1 .. M => c <= A
  BY <1>1, <1>3, <1>5
<1>7. phase \in {"request", "model", "done"} => c <= A
  BY <1>1, <1>3, <1>5
<1>8. ASSUME NEW n \in MessagesOf("tool"), messages[n].calls = <<c>>
      PROVE  n = m + k
  <2>1. PICK d \in 1 .. A : messages[n].calls = <<d>>
    BY <1>0 DEF TalkInv, ToolsInv
  <2>2. c = d
    BY <1>8, <2>1
  <2>3. c <= A
    BY <1>1, <2>1, <2>2
  <2>4. m + k \in MessagesOf("tool") /\ messages[m + k].calls = <<c>>
    BY <1>1, <1>5, <2>3 DEF MessagesOf
  <2>. QED
    BY <1>8, <2>4 DEF TalkInv, ToolsInv
<1>. QED
  BY <1>1, <1>2, <1>5, <1>6, <1>7, <1>8

LEMMA LaterRequestsAreNotRecorded ==
  ASSUME TypeInv, LoopInv, FramedRows, NEW i \in ordinal + 1 .. Len(Requests)
  PROVE  ~Recorded(Requests[i])
<1>. DEFINE n == Len(Requests)
<1>1. n \in Nat \ {0} /\ DOMAIN Requests = 1 .. n /\ ordinal \in 0 .. n /\ i \in ordinal + 1 .. n
  BY RequestsType DEF LoopInv
<1>2. \A j, k \in DOMAIN Requests : Requests[j] = Requests[k] => j = k
  BY RequestsAssumption
<1>. HIDE DEF n
<1>. SUFFICES ASSUME NEW s \in DOMAIN ledger, ledger[s].type = "user_intent",
                     ledger[s].intent = Requests[i]
              PROVE  FALSE
  BY DEF Recorded
<1>. DEFINE upto == {t \in IntentRows : t <= s}
<1>3. IsFiniteSet(IntentRows) /\ IntentRows \subseteq 1 .. Len(ledger) /\ Len(ledger) \in Nat
  BY IntentRowsFinite DEF TypeInv, TypeOK
<1>4. IsFiniteSet(upto) /\ Cardinality(upto) <= Cardinality(IntentRows)
  BY <1>3, FS_Subset
<1>5. s \in upto
  <2>1. s \in IntentRows
    BY DEF IntentRows
  <2>2. s <= s
    BY <1>3, <2>1
  <2>. QED
    BY <2>1, <2>2
<1>6. Cardinality(upto) \in Nat /\ Cardinality(upto) # 0
  BY <1>4, <1>5, FS_CardinalityType, FS_EmptySet
<1>7. Requests[i] = Requests[Cardinality(upto)] /\ Cardinality(IntentRows) = ordinal
  BY DEF FramedRows
<1>. HIDE DEF upto
<1>8. Cardinality(upto) \in 1 .. n /\ i \in 1 .. n /\ Cardinality(upto) # i
  BY <1>1, <1>4, <1>6, <1>7
<1>. QED
  BY <1>1, <1>2, <1>7, <1>8

LEMMA TraceIsTold ==
  ASSUME TypeInv, LoopInv, TalkInv, RowsInv
  PROVE  TraceTellsTheRun
<1>1. StopReasonIsHonest
  <2>1. \A i \in ordinal + 1 .. Len(Requests) : ~Recorded(Requests[i])
    BY LaterRequestsAreNotRecorded DEF RowsInv
  <2>. QED
    BY <2>1, ReasonsAssumption DEF LoopInv, StopReasonIsHonest
<1>2. IntentsFrameTheLedger
  BY DEF TalkInv, RowsInv, FramedRows, IntentsFrameTheLedger
<1>. QED
  BY <1>1, <1>2, TraceTypes, Answered DEF RowsInv, TraceTellsTheRun

(* In every run, for any model, any requests and any faults: the trace's   *)
(* spans cut the ledger into the calls, the conversation answers each call *)
(* in its place, every row is filed under the request being worked on, and *)
(* the stop reason tells what was left out (agent/refund_agent.py run,     *)
(* agent/recorder.py, agent/adapters.py).                                  *)
THEOREM TraceIsTheRun == AgentSpec => []TraceTellsTheRun
<1>1. AgentInit => TalkInv /\ RowsInv
  BY TalkInit, RowsInit
<1>2. /\ RecordInv /\ StoryInv /\ LoopInv /\ TalkInv /\ RowsInv
      /\ [AgentNext]_<<vars, agentVars>>
      => TalkInv' /\ RowsInv'
  BY TalkStep, RowsStep DEF RecordInv
<1>3. RecordInv /\ LoopInv /\ TalkInv /\ RowsInv => TraceTellsTheRun
  BY TraceIsTold DEF RecordInv
<1>4. AgentSpec => Spec
  BY AgentKeepsToEnv DEF AgentDrivesEnv
<1>. QED
  BY <1>1, <1>2, <1>3, <1>4, StoryInvariant, LoopInvariant, PTL DEF AgentSpec

-----------------------------------------------------------------------------
(* The order of the conversation: a response follows a request or results, *)
(* a result belongs to a response before it, and while calls are run the   *)
(* last of them will fill the last place of the response they belong to.   *)
CallsIn(m) == Len(messages[m].calls)
HasRequest(n) == messages[n].role = "assistant" => n > 1 /\ messages[n - 1].role # "assistant"
HasCaller(n) ==
  messages[n].role = "tool" => \E m \in MessagesOf("assistant") : n \in m + 1 .. m + CallsIn(m)

ThreadInv ==
  /\ \A n \in 1 .. Len(messages) : HasRequest(n) /\ HasCaller(n)
  /\ phase = "tools" =>
       \E m \in MessagesOf("assistant") : Len(messages) + Len(pending) = m + CallsIn(m)
  /\ phase = "model" => messages # <<>> /\ messages[Len(messages)].role # "assistant"

LEMMA ThreadKeeps ==
  ASSUME messages \in Seq(Message), ThreadInv, NEW x \in Message, messages' = Append(messages, x)
  PROVE  /\ \A n \in 1 .. Len(messages) : HasRequest(n)' /\ HasCaller(n)'
         /\ \A m \in MessagesOf("assistant") :
              m \in MessagesOf("assistant")' /\ CallsIn(m)' = CallsIn(m)
<1>0. PICK M : M = Len(messages)
  OBVIOUS
<1>1. /\ M \in Nat /\ DOMAIN messages = 1 .. M /\ DOMAIN messages' = 1 .. M + 1
      /\ \A i \in 1 .. M : messages'[i] = messages[i]
  BY <1>0, SaidRow
<1>2. /\ \A i \in 1 .. M : i \in 1 .. M + 1 /\ (i > 1 => i - 1 \in 1 .. M)
  BY <1>1
<1>3. \A m \in MessagesOf("assistant") : m \in MessagesOf("assistant")' /\ CallsIn(m)' = CallsIn(m)
  BY <1>1, <1>2 DEF MessagesOf, CallsIn
<1>4. ASSUME NEW n \in 1 .. M
      PROVE  HasRequest(n)' /\ HasCaller(n)'
  <2>1. HasRequest(n) /\ HasCaller(n)
    BY <1>0, <1>4 DEF ThreadInv
  <2>2. HasRequest(n)'
    BY <1>1, <1>2, <2>1 DEF HasRequest
  <2>3. HasCaller(n)'
    <3>. SUFFICES ASSUME messages[n].role = "tool"
                  PROVE  \E m \in MessagesOf("assistant")' : n \in m + 1 .. m + CallsIn(m)'
      BY <1>1 DEF HasCaller
    <3>1. PICK m \in MessagesOf("assistant") : n \in m + 1 .. m + CallsIn(m)
      BY <2>1 DEF HasCaller
    <3>. QED
      BY <1>3, <3>1
  <2>. QED
    BY <2>2, <2>3
<1>. QED
  BY <1>0, <1>3, <1>4

LEMMA ThreadRequest ==
  ASSUME messages \in Seq(Message), ThreadInv, NextRequest
  PROVE  ThreadInv'
<1>. DEFINE x == [role |-> "user", calls |-> <<>>]
<1>0. PICK M : M = Len(messages)
  OBVIOUS
<1>1. x \in Message /\ x.role = "user"
  BY EmptySeq DEF Message
<1>2. messages' = Append(messages, x) /\ phase' = "model"
  BY DEF NextRequest
<1>. HIDE DEF x
<1>3. /\ M \in Nat /\ Len(messages') = M + 1 /\ messages'[M + 1] = x /\ messages' # <<>>
  BY <1>0, <1>1, <1>2, SaidRow
<1>4. \A n \in 1 .. M : HasRequest(n)' /\ HasCaller(n)'
  BY <1>0, <1>1, <1>2, ThreadKeeps
<1>5. HasRequest(M + 1)' /\ HasCaller(M + 1)'
  BY <1>1, <1>3 DEF HasRequest, HasCaller
<1>6. \A n \in 1 .. M + 1 : n \in 1 .. M \/ n = M + 1
  BY <1>3
<1>. QED
  BY <1>1, <1>2, <1>3, <1>4, <1>5, <1>6 DEF ThreadInv

LEMMA ThreadResponse ==
  ASSUME messages \in Seq(Message), ThreadInv, phase = "model", NEW calls \in Seq(Invocations),
         Len(answers) \in Nat, RecordAssistant(calls), phase' # "model",
         phase' = "tools" => pending' = calls
  PROVE  ThreadInv'
<1>. DEFINE ids == AssignedIds(calls)
            x == [role |-> "assistant", calls |-> ids]
<1>0. PICK M : M = Len(messages)
  OBVIOUS
<1>1. Len(calls) \in Nat /\ DOMAIN calls = 1 .. Len(calls)
  OBVIOUS
<1>2. ids \in Seq(Nat) /\ Len(ids) = Len(calls)
  <2>1. ids = [k \in 1 .. Len(calls) |-> Len(answers) + k]
    BY <1>1 DEF AssignedIds
  <2>2. \A k \in 1 .. Len(calls) : Len(answers) + k \in Nat
    BY <1>1
  <2>. QED
    BY <1>1, <2>1, <2>2, IsASeq
<1>. HIDE DEF ids
<1>3. x \in Message /\ x.role = "assistant" /\ x.calls = ids
  BY <1>2 DEF Message
<1>4. messages' = Append(messages, x)
  BY DEF RecordAssistant, x, ids
<1>. HIDE DEF x
<1>5. /\ M \in Nat /\ Len(messages') = M + 1 /\ messages'[M + 1] = x
      /\ DOMAIN messages' = 1 .. M + 1
      /\ \A i \in 1 .. M : messages'[i] = messages[i]
  BY <1>0, <1>3, <1>4, SaidRow
<1>6. \A n \in 1 .. M : HasRequest(n)' /\ HasCaller(n)'
  BY <1>0, <1>3, <1>4, ThreadKeeps
<1>7. M # 0 /\ messages[M].role # "assistant"
  BY <1>0, EmptySeq DEF ThreadInv
<1>8. HasRequest(M + 1)' /\ HasCaller(M + 1)'
  <2>1. (M + 1) - 1 = M /\ M \in 1 .. M /\ M + 1 > 1
    BY <1>5, <1>7
  <2>. QED
    BY <1>3, <1>5, <1>7, <2>1 DEF HasRequest, HasCaller
<1>9. \A n \in 1 .. M + 1 : n \in 1 .. M \/ n = M + 1
  BY <1>5
<1>10. M + 1 \in MessagesOf("assistant")' /\ CallsIn(M + 1)' = Len(calls)
  BY <1>2, <1>3, <1>5 DEF MessagesOf, CallsIn
<1>. QED
  BY <1>5, <1>6, <1>8, <1>9, <1>10 DEF ThreadInv

LEMMA ThreadAnswer ==
  ASSUME TypeInv, LoopInv, messages \in Seq(Message), ThreadInv, ExecuteCall
  PROVE  ThreadInv'
<1>0. PICK M, P, x : /\ M = Len(messages) /\ P = Len(pending)
                     /\ x = [role |-> "tool", calls |-> <<Call>>]
  OBVIOUS
<1>1. x \in Message /\ x.role = "tool"
  <2>1. Call \in Nat
    BY DEF TypeInv, TypeOK, Call
  <2>2. <<Call>> \in Seq(Nat)
    BY <2>1
  <2>. QED
    BY <1>0, <2>2 DEF Message
<1>2. /\ messages' = Append(messages, x) /\ phase = "tools"
      /\ pending' = Tail(pending) /\ pending \in Seq(Invocations) /\ pending # <<>>
      /\ phase' = "tools" \/ phase' = "model"
  BY <1>0 DEF ExecuteCall, LoopInv
<1>3. P \in Nat \ {0} /\ Len(pending') = P - 1
  <2>1. Len(pending) \in Nat /\ Len(Tail(pending)) = Len(pending) - 1 /\ Len(pending) # 0
    BY <1>2, HeadTailProperties, EmptySeq
  <2>. QED
    BY <1>0, <1>2, <2>1
<1>4. /\ M \in Nat /\ Len(messages') = M + 1 /\ messages'[M + 1] = x /\ messages' # <<>>
  BY <1>0, <1>1, <1>2, SaidRow
<1>5. /\ \A n \in 1 .. M : HasRequest(n)' /\ HasCaller(n)'
      /\ \A m \in MessagesOf("assistant") :
           m \in MessagesOf("assistant")' /\ CallsIn(m)' = CallsIn(m)
  BY <1>0, <1>1, <1>2, ThreadKeeps
<1>6. PICK m \in MessagesOf("assistant") : M + P = m + CallsIn(m)
  BY <1>0, <1>2 DEF ThreadInv
<1>7. m \in 1 .. M /\ CallsIn(m) \in Nat
  BY <1>0 DEF MessagesOf, CallsIn, Message
<1>8. M + 1 \in m + 1 .. m + CallsIn(m) /\ (M + 1) + (P - 1) = m + CallsIn(m)
  BY <1>3, <1>4, <1>6, <1>7
<1>9. HasRequest(M + 1)' /\ HasCaller(M + 1)'
  BY <1>1, <1>4, <1>5, <1>8 DEF HasRequest, HasCaller
<1>10. \A n \in 1 .. M + 1 : n \in 1 .. M \/ n = M + 1
  BY <1>4
<1>. QED
  BY <1>1, <1>3, <1>4, <1>5, <1>8, <1>9, <1>10 DEF ThreadInv

LEMMA ThreadStep ==
  ASSUME TypeInv, LoopInv, TalkInv, ThreadInv, [AgentNext]_<<vars, agentVars>>
  PROVE  ThreadInv'
<1>0. messages \in Seq(Message) /\ Len(answers) \in Nat
  BY DEF TalkInv, TypeInv, TypeOK
<1>1. CASE NextRequest
  BY <1>0, <1>1, ThreadRequest
<1>2. ASSUME NEW calls \in Responses, FinalReport(calls) \/ CallTools(calls)
      PROVE  ThreadInv'
  <2>1. /\ calls \in Seq(Invocations) /\ RecordAssistant(calls) /\ phase = "model"
    BY <1>2, ResponseType DEF FinalReport, CallTools
  <2>2. phase' # "model" /\ (phase' = "tools" => pending' = calls)
    BY <1>2 DEF FinalReport, CallTools
  <2>. QED
    BY <1>0, <2>1, <2>2, ThreadResponse
<1>3. CASE ExecuteCall
  BY <1>0, <1>3, ThreadAnswer
<1>4. CASE OutOfTurns \/ ModelRaises \/ UNCHANGED <<vars, agentVars>>
  <2>1. /\ UNCHANGED <<pending, messages>>
        /\ phase' = phase \/ phase' \in {"done", "aborted"}
    BY <1>4 DEF OutOfTurns, ModelRaises, vars, agentVars
  <2>2. \A role : MessagesOf(role)' = MessagesOf(role)
    BY <2>1 DEF MessagesOf
  <2>3. \A n : CallsIn(n)' = CallsIn(n) /\ HasRequest(n)' = HasRequest(n)
    BY <2>1 DEF CallsIn, HasRequest
  <2>4. \A n : HasCaller(n)' = HasCaller(n)
    BY <2>1, <2>2, <2>3 DEF HasCaller
  <2>. QED
    BY <2>1, <2>2, <2>3, <2>4 DEF ThreadInv
<1>. QED
  BY <1>1, <1>2, <1>3, <1>4 DEF AgentNext, ModelTurn

-----------------------------------------------------------------------------
(* The fold of to_contents, unfolded: it takes the messages in their order. *)
Begun == [contents |-> <<>>, pending |-> <<>>]
Numbers == [m \in DOMAIN messages |-> m]
Follow(s, x, blank, ids) == Convert(s, messages[Numbers[x]], Numbers[x] \in blank, ids)

IsTalk(g, blank, ids) ==
  g = [s \in SUBSET DOMAIN Numbers |->
         IF s = {} THEN Begun ELSE Follow(g[s \ {Max(s)}], Max(s), blank, ids)]

(* The library folds a sequence over the set of its positions. *)
LEMMA ContentsAre ==
  ASSUME NEW blank, NEW ids
  PROVE  to_contents(blank, ids)
           = flush_results((CHOOSE g : IsTalk(g, blank, ids))[DOMAIN Numbers]).contents
  BY Zenon DEF to_contents, FoldLeft, MapThenFoldSet, IsTalk, Begun, Numbers, Follow

(* g folds the sets of messages up to the n-th. *)
TalksUpTo(g, n, blank, ids) ==
  /\ g = [s \in SUBSET DOMAIN Numbers |-> g[s]]
  /\ \A s \in SUBSET DOMAIN Numbers : s \subseteq 1 .. n =>
       g[s] = IF s = {} THEN Begun ELSE Follow(g[s \ {Max(s)}], Max(s), blank, ids)

LEMMA LastIsMax ==
  ASSUME NEW n \in Nat, NEW s \in SUBSET (1 .. n + 1), n + 1 \in s
  PROVE  Max(s) = n + 1 /\ s \ {n + 1} \subseteq 1 .. n
<1>1. \A x \in s : x \in 1 .. n + 1 /\ n + 1 >= x
  OBVIOUS
<1>2. \A x \in s : (\A y \in s : x >= y) => x = n + 1
  BY <1>1
<1>3. Max(s) = n + 1
  BY <1>1, <1>2 DEF Max
<1>4. \A x \in s : x # n + 1 => x \in 1 .. n
  BY <1>1
<1>. QED
  BY <1>3, <1>4

LEMMA TalkGrows ==
  ASSUME NEW blank, NEW ids, NEW n \in Nat, NEW g, TalksUpTo(g, n, blank, ids)
  PROVE  \E h : TalksUpTo(h, n + 1, blank, ids)
<1>. DEFINE Rest(s) == IF s = {} THEN Begun ELSE Follow(g[s \ {Max(s)}], Max(s), blank, ids)
            h == [s \in SUBSET DOMAIN Numbers |-> IF s \subseteq 1 .. n THEN g[s] ELSE Rest(s)]
<1>1. ASSUME NEW s \in SUBSET DOMAIN Numbers, s \subseteq 1 .. n + 1
      PROVE  h[s] = IF s = {} THEN Begun ELSE Follow(h[s \ {Max(s)}], Max(s), blank, ids)
  <2>1. h[s] = Rest(s)
    BY DEF TalksUpTo
  <2>2. s \ {Max(s)} \subseteq 1 .. n
    <3>1. CASE n + 1 \in s
      BY <1>1, <3>1, LastIsMax
    <3>2. CASE n + 1 \notin s
      <4>1. \A x \in 1 .. n + 1 : x = n + 1 \/ x \in 1 .. n
        OBVIOUS
      <4>. QED
        BY <1>1, <3>2, <4>1
    <3>. QED
      BY <3>1, <3>2
  <2>3. s \ {Max(s)} \in SUBSET DOMAIN Numbers
    OBVIOUS
  <2>4. h[s \ {Max(s)}] = g[s \ {Max(s)}]
    BY <2>2, <2>3
  <2>. QED
    BY <2>1, <2>4, Zenon
<1>2. h = [s \in SUBSET DOMAIN Numbers |-> h[s]]
  OBVIOUS
<1>. HIDE DEF h
<1>. QED
  BY <1>1, <1>2 DEF TalksUpTo

LEMMA TalkExists ==
  ASSUME NEW blank, NEW ids, messages \in Seq(Message)
  PROVE  \E g : IsTalk(g, blank, ids)
<1>. DEFINE Bad == {n \in Nat : ~ \E g : TalksUpTo(g, n, blank, ids)}
<1>1. \E g : TalksUpTo(g, 0, blank, ids)
  <2>. DEFINE g == [s \in SUBSET DOMAIN Numbers |-> Begun]
  <2>1. \A s : s \subseteq 1 .. 0 => s = {}
    OBVIOUS
  <2>2. TalksUpTo(g, 0, blank, ids)
    BY <2>1 DEF TalksUpTo
  <2>. QED
    BY <2>2
<1>2. Bad = {}
  <2>. SUFFICES ASSUME Bad # {} PROVE FALSE
    OBVIOUS
  <2>1. PICK n \in Bad : \A m \in Bad : n <= m
    BY HasLeast
  <2>2. n \in Nat /\ n # 0
    BY <1>1, <2>1
  <2>3. n - 1 \in Nat /\ n - 1 \notin Bad /\ (n - 1) + 1 = n
    <3>1. n - 1 \in Bad => n <= n - 1
      BY <2>1
    <3>. HIDE DEF Bad
    <3>. QED
      BY <2>2, <3>1
  <2>4. PICK g : TalksUpTo(g, n - 1, blank, ids)
    BY <2>3
  <2>5. \E h : TalksUpTo(h, (n - 1) + 1, blank, ids)
    BY <2>3, <2>4, TalkGrows
  <2>. QED
    BY <2>1, <2>3, <2>5
<1>3. Len(messages) \in Nat /\ DOMAIN Numbers = 1 .. Len(messages)
  BY DEF Numbers
<1>4. PICK g : TalksUpTo(g, Len(messages), blank, ids)
  BY <1>2, <1>3
<1>5. IsTalk(g, blank, ids)
  BY <1>3, <1>4 DEF TalksUpTo, IsTalk
<1>. QED
  BY <1>5

(* What is sent, built up message by message. *)
LEMMA ContentsBuildUp ==
  ASSUME NEW blank, NEW ids, messages \in Seq(Message)
  PROVE  \E h : /\ h[0] = Begun
                /\ \A n \in 1 .. Len(messages) :
                     h[n] = Convert(h[n - 1], messages[n], n \in blank, ids)
                /\ to_contents(blank, ids) = flush_results(h[Len(messages)]).contents
<1>0. PICK M : M = Len(messages)
  OBVIOUS
<1>1. M \in Nat /\ DOMAIN Numbers = 1 .. M /\ \A n \in 1 .. M : Numbers[n] = n
  BY <1>0 DEF Numbers
<1>2. PICK g : IsTalk(g, blank, ids) /\ to_contents(blank, ids) = flush_results(g[1 .. M]).contents
  BY <1>1, TalkExists, ContentsAre
<1>. DEFINE h == [n \in 0 .. M |-> g[1 .. n]]
<1>3. h[0] = Begun
  <2>1. 1 .. 0 = {} /\ {} \in SUBSET (1 .. M) /\ 0 \in 0 .. M
    BY <1>1
  <2>. QED
    BY <1>1, <1>2, <2>1 DEF IsTalk
<1>4. ASSUME NEW n \in 1 .. M
      PROVE  h[n] = Convert(h[n - 1], messages[n], n \in blank, ids)
  <2>1. /\ n - 1 \in Nat /\ n = (n - 1) + 1 /\ n \in 0 .. M /\ n - 1 \in 0 .. M
        /\ 1 .. n \in SUBSET (1 .. M) /\ n \in 1 .. n /\ (1 .. n) \ {n} = 1 .. n - 1
    BY <1>1
  <2>2. Max(1 .. n) = n
    BY <2>1, LastIsMax
  <2>3. g[1 .. n] = Follow(g[(1 .. n) \ {n}], n, blank, ids)
    BY <1>1, <1>2, <2>1, <2>2 DEF IsTalk
  <2>4. g[1 .. n] = Convert(g[1 .. n - 1], messages[n], n \in blank, ids)
    BY <1>1, <2>1, <2>3, Zenon DEF Follow
  <2>. QED
    BY <2>1, <2>4
<1>5. h[M] = g[1 .. M]
  BY <1>1
<1>. QED
  BY <1>0, <1>2, <1>3, <1>4, <1>5

-----------------------------------------------------------------------------
(* What the provider reads: items of parts. *)
WirePart(ids) ==
  [kind : {"text", "call", "result"}, id : {NoId} \cup {ids[c] : c \in Nat}, call : Nat]
WireItem(ids) == [role : {"user", "model"}, parts : Seq(WirePart(ids))]

(* The item of a response, and the one that answers its first j calls. *)
Texts(m, blank) == IF m \in blank THEN <<>> ELSE <<TextPart>>
UsesIn(m, ids) ==
  [k \in DOMAIN messages[m].calls |-> Part("call", ids[messages[m].calls[k]], messages[m].calls[k])]
Response(m, blank, ids) == Item("model", Texts(m, blank) \o UsesIn(m, ids))
ResultsTo(m, j, ids) ==
  [k \in 1 .. j |-> Part("result", ids[messages[m].calls[k]], messages[m].calls[k])]
TextItem == Item("user", <<TextPart>>)

LEMMA WireTypes ==
  ASSUME NEW ids
  PROVE  /\ TextPart \in WirePart(ids) /\ TextPart.kind = "text"
         /\ \A c \in Nat, kind \in {"call", "result"} :
              Part(kind, ids[c], c) \in WirePart(ids) /\ Part(kind, ids[c], c).kind = kind
         /\ TextItem \in WireItem(ids) /\ TextItem.role = "user" /\ Results(TextItem) = {}
<1>1. TextPart \in WirePart(ids) /\ TextPart.kind = "text"
  BY DEF TextPart, WirePart
<1>2. \A c \in Nat, kind \in {"call", "result"} :
              Part(kind, ids[c], c) \in WirePart(ids) /\ Part(kind, ids[c], c).kind = kind
  BY DEF Part, WirePart
<1>3. TextItem = [role |-> "user", parts |-> <<TextPart>>]
  BY DEF TextItem, Item
<1>4. /\ <<TextPart>> \in Seq(WirePart(ids)) /\ DOMAIN <<TextPart>> = 1 .. 1
      /\ <<TextPart>>[1] = TextPart
  BY <1>1
<1>5. TextItem \in WireItem(ids)
  BY <1>3, <1>4 DEF WireItem
<1>6. Results(TextItem) = {}
  <2>1. \A k \in 1 .. 1 : k = 1
    OBVIOUS
  <2>. QED
    BY <1>1, <1>3, <1>4, <2>1 DEF Results
<1>. QED
  BY <1>1, <1>2, <1>3, <1>5, <1>6

LEMMA CallsType ==
  ASSUME messages \in Seq(Message), NEW m \in DOMAIN messages
  PROVE  /\ CallsIn(m) \in Nat /\ DOMAIN messages[m].calls = 1 .. CallsIn(m)
         /\ \A k \in 1 .. CallsIn(m) : messages[m].calls[k] \in Nat
<1>0. messages[m] \in Message
  <2>1. DOMAIN messages = 1 .. Len(messages)
    OBVIOUS
  <2>. QED
    BY <2>1
<1>1. PICK calls : calls = messages[m].calls /\ calls \in Seq(Nat)
  BY <1>0 DEF Message
<1>2. /\ Len(calls) \in Nat /\ DOMAIN calls = 1 .. Len(calls)
      /\ \A k \in 1 .. Len(calls) : calls[k] \in Nat
  BY <1>1
<1>3. CallsIn(m) = Len(calls)
  BY <1>1 DEF CallsIn
<1>. QED
  BY <1>1, <1>2, <1>3, Zenon

LEMMA ResultsType ==
  ASSUME messages \in Seq(Message), NEW m \in DOMAIN messages, NEW ids, NEW j \in 0 .. CallsIn(m)
  PROVE  /\ ResultsTo(m, j, ids) \in Seq(WirePart(ids)) /\ Len(ResultsTo(m, j, ids)) = j
         /\ \A k \in 1 .. j : ResultsTo(m, j, ids)[k].kind = "result"
<1>1. /\ CallsIn(m) \in Nat /\ \A k \in 1 .. CallsIn(m) : messages[m].calls[k] \in Nat
  BY CallsType
<1>2. \A k \in 1 .. j : messages[m].calls[k] \in Nat
  BY <1>1
<1>3. \A k \in 1 .. j :
        LET part == Part("result", ids[messages[m].calls[k]], messages[m].calls[k])
        IN  part \in WirePart(ids) /\ part.kind = "result"
  BY <1>2, WireTypes
<1>. QED
  BY <1>1, <1>3, IsASeq DEF ResultsTo

(* A response's tool uses come after its text, in the order of its calls. *)
LEMMA ResponseItem ==
  ASSUME messages \in Seq(Message), NEW m \in DOMAIN messages, NEW ids, NEW blank
  PROVE  /\ Response(m, blank, ids) \in WireItem(ids) /\ Response(m, blank, ids).role = "model"
         /\ Results(Response(m, blank, ids)) = {}
         /\ \E texts \in 0 .. 1 :
              /\ Uses(Response(m, blank, ids)) = {texts + k : k \in 1 .. CallsIn(m)}
              /\ \A k \in 1 .. CallsIn(m) :
                   Response(m, blank, ids).parts[texts + k]
                     = Part("call", ids[messages[m].calls[k]], messages[m].calls[k])
         /\ Response(m, blank, ids).parts = <<>> <=> m \in blank /\ CallsIn(m) = 0
<1>. DEFINE head == Texts(m, blank)
            uses == UsesIn(m, ids)
            parts == head \o uses
<1>1. PICK n : n = CallsIn(m)
  OBVIOUS
<1>2. /\ n \in Nat /\ DOMAIN messages[m].calls = 1 .. n
      /\ \A k \in 1 .. n : messages[m].calls[k] \in Nat
  BY <1>1, CallsType
<1>3. \A k \in 1 .. n :
        LET part == Part("call", ids[messages[m].calls[k]], messages[m].calls[k])
        IN  part \in WirePart(ids) /\ part.kind = "call"
  BY <1>2, WireTypes
<1>4. PICK W : W = WirePart(ids)
  OBVIOUS
<1>5. /\ uses \in Seq(W) /\ Len(uses) = n
      /\ \A k \in 1 .. n :
           /\ uses[k] = Part("call", ids[messages[m].calls[k]], messages[m].calls[k])
           /\ uses[k].kind = "call"
  BY <1>2, <1>3, <1>4, IsASeq DEF UsesIn
<1>6. PICK t \in 0 .. 1 :
        /\ head \in Seq(W) /\ Len(head) = t /\ \A k \in 1 .. t : head[k].kind = "text"
        /\ t = 0 <=> m \in blank
  <2>1. TextPart \in W /\ TextPart.kind = "text"
    BY <1>4, WireTypes
  <2>2. CASE m \in blank
    <3>1. head = <<>> /\ <<>> \in Seq(W) /\ Len(<<>>) = 0
      BY <2>2, EmptySeq DEF Texts
    <3>. QED
      BY <2>2, <3>1
  <2>3. CASE m \notin blank
    <3>1. head = <<TextPart>> /\ head \in Seq(W) /\ Len(head) = 1 /\ head[1] = TextPart
      BY <2>1, <2>3 DEF Texts
    <3>2. \A k \in 1 .. 1 : k = 1
      OBVIOUS
    <3>. QED
      BY <2>1, <2>3, <3>1, <3>2
  <2>. QED
    BY <2>2, <2>3
<1>. HIDE DEF head, uses
<1>7. /\ parts \in Seq(W) /\ Len(parts) = t + n /\ DOMAIN parts = 1 .. t + n
      /\ \A k \in 1 .. t : parts[k] = head[k]
      /\ \A k \in 1 .. n : parts[t + k] = uses[k]
  <2>1. /\ parts \in Seq(W) /\ Len(parts) = t + n
        /\ \A i \in 1 .. t + n : parts[i] = IF i <= t THEN head[i] ELSE uses[i - t]
    BY <1>5, <1>6, ConcatProperties
  <2>2. \A k \in 1 .. t : k \in 1 .. t + n /\ k <= t
    BY <1>2, <1>6
  <2>3. \A k \in 1 .. n : t + k \in 1 .. t + n /\ ~(t + k <= t) /\ (t + k) - t = k
    BY <1>2, <1>6
  <2>. QED
    BY <2>1, <2>2, <2>3
<1>. HIDE DEF parts
<1>8. Response(m, blank, ids) = [role |-> "model", parts |-> parts]
  BY DEF Response, Item, parts, head, uses
<1>9. \A k \in 1 .. t + n : k \in 1 .. t \/ (k - t \in 1 .. n /\ k = t + (k - t))
  BY <1>2, <1>6
<1>10. \A k \in 1 .. t + n : IF k \in 1 .. t THEN parts[k].kind = "text" ELSE parts[k].kind = "call"
  BY <1>5, <1>6, <1>7, <1>9
<1>11. \A k \in 1 .. n : t + k \in 1 .. t + n /\ t + k \notin 1 .. t
  BY <1>2, <1>6
<1>12. PICK item : item = Response(m, blank, ids)
  OBVIOUS
<1>13. item.role = "model" /\ item.parts = parts /\ item \in WireItem(ids)
  BY <1>4, <1>7, <1>8, <1>12 DEF WireItem
<1>14. Results(item) = {}
  BY <1>7, <1>10, <1>13 DEF Results
<1>15. Uses(item) = {t + k : k \in 1 .. n}
  <2>1. \A k : k \in Uses(item) <=> k \in {t + i : i \in 1 .. n}
    BY <1>7, <1>9, <1>10, <1>11, <1>13 DEF Uses
  <2>. QED
    BY <2>1 DEF Uses
<1>16. parts = <<>> <=> t + n = 0
  BY <1>7, EmptySeq
<1>17. t + n = 0 <=> t = 0 /\ n = 0
  BY <1>2, <1>6
<1>18. item.parts = <<>> <=> (m \in blank /\ n = 0)
  BY <1>6, <1>13, <1>16, <1>17
<1>19. \A k \in 1 .. n :
         item.parts[t + k] = Part("call", ids[messages[m].calls[k]], messages[m].calls[k])
  BY <1>5, <1>7, <1>13
<1>. QED
  BY <1>1, <1>12, <1>13, <1>14, <1>15, <1>18, <1>19

(* The collected results answer it, and so does a text if it has no calls. *)
LEMMA ResponseIsAnswered ==
  ASSUME messages \in Seq(Message), NEW m \in DOMAIN messages, NEW ids, NEW blank,
         NEW reply, reply = Item("user", ResultsTo(m, CallsIn(m), ids))
  PROVE  /\ reply \in WireItem(ids) /\ reply.role = "user" /\ Results(reply) = DOMAIN reply.parts
         /\ Replies(Response(m, blank, ids), reply)
<1>0. PICK item, n, W : item = Response(m, blank, ids) /\ n = CallsIn(m) /\ W = WirePart(ids)
  OBVIOUS
<1>1. /\ n \in Nat /\ \A k \in 1 .. n : messages[m].calls[k] \in Nat
  BY <1>0, CallsType
<1>2. /\ reply = [role |-> "user", parts |-> ResultsTo(m, n, ids)]
      /\ n \in 0 .. n
  BY <1>0, <1>1 DEF Item
<1>3. /\ reply.parts \in Seq(W) /\ DOMAIN reply.parts = 1 .. n
      /\ \A k \in 1 .. n : reply.parts[k].kind = "result"
  BY <1>0, <1>1, <1>2, ResultsType
<1>4. \A k \in 1 .. n :
        reply.parts[k] = Part("result", ids[messages[m].calls[k]], messages[m].calls[k])
  BY <1>2 DEF ResultsTo
<1>5. reply \in WireItem(ids) /\ reply.role = "user" /\ Results(reply) = 1 .. n
  <2>1. \A k : k \in Results(reply) <=> k \in 1 .. n
    BY <1>3 DEF Results
  <2>. QED
    BY <1>0, <1>2, <1>3, <2>1 DEF WireItem, Results
<1>6. PICK t \in 0 .. 1 :
        /\ Uses(item) = {t + k : k \in 1 .. n}
        /\ \A k \in 1 .. n :
             item.parts[t + k] = Part("call", ids[messages[m].calls[k]], messages[m].calls[k])
  BY <1>0, ResponseItem
<1>7. \A k \in 1 .. n : (t + k) - t = k
  BY <1>1, <1>6
<1>8. 1 .. n = {k - t : k \in Uses(item)}
  <2>1. \A k : k \in 1 .. n <=> k \in {i - t : i \in Uses(item)}
    BY <1>6, <1>7
  <2>. QED
    BY <2>1
<1>9. ASSUME NEW k \in Uses(item)
      PROVE  reply.parts[k - t] = [item.parts[k] EXCEPT !.kind = "result"]
  <2>1. PICK i \in 1 .. n : k = t + i /\ k - t = i
    BY <1>6, <1>7
  <2>2. \A id, call : Part("result", id, call) = [Part("call", id, call) EXCEPT !.kind = "result"]
    BY DEF Part
  <2>. QED
    BY <1>4, <1>6, <2>1, <2>2
<1>10. Replies(item, reply)
  BY <1>5, <1>6, <1>8, <1>9 DEF Replies
<1>. QED
  BY <1>0, <1>3, <1>5, <1>10

LEMMA ReportIsFollowed ==
  ASSUME messages \in Seq(Message), NEW m \in DOMAIN messages, NEW ids, NEW blank, CallsIn(m) = 0
  PROVE  Replies(Response(m, blank, ids), TextItem)
<1>1. Uses(Response(m, blank, ids)) = {}
  <2>1. \E t \in 0 .. 1 : Uses(Response(m, blank, ids)) = {t + k : k \in 1 .. 0}
    BY ResponseItem
  <2>2. 1 .. 0 = {}
    OBVIOUS
  <2>. QED
    BY <2>1, <2>2
<1>2. Results(TextItem) = {} /\ TextItem.role = "user" /\ 0 \in 0 .. 1
  BY WireTypes
<1>. QED
  BY <1>1, <1>2 DEF Replies

-----------------------------------------------------------------------------
(* An acceptable conversation goes on acceptably. *)
LEMMA TextIsAcceptable ==
  ASSUME NEW ids, NEW c \in Seq(WireItem(ids)), c = <<>> \/ Acceptable(c)
  PROVE  Append(c, TextItem) \in Seq(WireItem(ids)) /\ Acceptable(Append(c, TextItem))
<1>0. PICK I, d, N, x : I = WireItem(ids) /\ d = Append(c, x) /\ N = Len(c) /\ x = TextItem
  OBVIOUS
<1>1. x \in I /\ x.role = "user" /\ x.role # "model" /\ Results(x) = {}
  BY <1>0, WireTypes
<1>2. /\ N \in Nat /\ DOMAIN c = 1 .. N /\ d \in Seq(I) /\ Len(d) = N + 1 /\ DOMAIN d = 1 .. N + 1
      /\ d[N + 1] = x /\ \A p \in 1 .. N : d[p] = c[p]
  BY <1>0, <1>1
<1>3. c = <<>> <=> N = 0
  BY <1>0, EmptySeq
<1>4. d[1].role = "user"
  <2>1. N = 0 \/ (1 \in 1 .. N /\ N # 0)
    BY <1>2
  <2>2. N # 0 => c[1].role = "user"
    BY <1>3 DEF Acceptable
  <2>. QED
    BY <1>1, <1>2, <2>1, <2>2
<1>5. ASSUME NEW p \in 1 .. N + 1
      PROVE  /\ d[p].role = "model" => Replies(d[p], d[p + 1])
             /\ Results(d[p]) # {} => /\ p > 1 /\ d[p - 1].role = "model"
                                      /\ Results(d[p]) = DOMAIN d[p].parts
  <2>1. CASE p = N + 1
    BY <1>1, <1>2, <2>1
  <2>2. CASE p \in 1 .. N
    <3>1. N # 0 /\ Acceptable(c)
      BY <1>2, <1>3, <2>2
    <3>2. /\ c[p].role = "model" => Replies(c[p], c[p + 1]) /\ p # N
          /\ Results(c[p]) # {} => /\ c[p - 1].role = "model" /\ p > 1
                                   /\ Results(c[p]) = DOMAIN c[p].parts
      <4>1. c[N].role = "user"
        BY <1>0, <3>1 DEF Acceptable
      <4>. QED
        BY <1>2, <2>2, <3>1, <4>1 DEF Acceptable
    <3>3. (p # N => p + 1 \in 1 .. N) /\ (p > 1 => p - 1 \in 1 .. N)
      BY <1>2, <2>2
    <3>. QED
      BY <1>2, <2>2, <3>2, <3>3
  <2>. QED
    BY <1>2, <2>1, <2>2
<1>6. Acceptable(d)
  BY <1>1, <1>2, <1>4, <1>5 DEF Acceptable
<1>. QED
  BY <1>0, <1>2, <1>6

LEMMA RoundIsAcceptable ==
  ASSUME NEW ids, NEW c \in Seq(WireItem(ids)), c # <<>>, Acceptable(c),
         NEW item \in WireItem(ids), item.role = "model", Results(item) = {},
         NEW reply \in WireItem(ids), Replies(item, reply),
         Results(reply) = {} \/ Results(reply) = DOMAIN reply.parts,
         NEW d, d = Append(Append(c, item), reply)
  PROVE  d \in Seq(WireItem(ids)) /\ d # <<>> /\ Acceptable(d)
<1>0. PICK I, N : I = WireItem(ids) /\ N = Len(c)
  OBVIOUS
<1>1. /\ N \in Nat /\ DOMAIN c = 1 .. N
      /\ d \in Seq(I) /\ Len(d) = N + 2 /\ DOMAIN d = 1 .. N + 2
      /\ d[N + 1] = item /\ d[N + 2] = reply /\ \A p \in 1 .. N : d[p] = c[p]
  <2>1. PICK e : e = Append(c, item)
    OBVIOUS
  <2>2. /\ N \in Nat /\ DOMAIN c = 1 .. N /\ e \in Seq(I) /\ Len(e) = N + 1
        /\ e[N + 1] = item /\ \A p \in 1 .. N : e[p] = c[p]
    BY <1>0, <2>1
  <2>3. /\ d \in Seq(I) /\ Len(d) = (N + 1) + 1 /\ DOMAIN d = 1 .. (N + 1) + 1
        /\ d[(N + 1) + 1] = reply /\ \A p \in 1 .. N + 1 : d[p] = e[p]
    BY <1>0, <2>1, <2>2
  <2>4. (N + 1) + 1 = N + 2 /\ N + 1 \in 1 .. N + 1 /\ \A p \in 1 .. N : p \in 1 .. N + 1
    BY <2>2
  <2>. QED
    BY <2>2, <2>3, <2>4
<1>2. N # 0 /\ 1 \in 1 .. N /\ N \in 1 .. N
  BY <1>0, <1>1, EmptySeq
<1>3. d[1].role = "user" /\ d[N + 2].role = "user"
  BY <1>1, <1>2 DEF Acceptable, Replies
<1>4. ASSUME NEW p \in 1 .. N + 2
      PROVE  /\ d[p].role = "model" => Replies(d[p], d[p + 1])
             /\ Results(d[p]) # {} => /\ p > 1 /\ d[p - 1].role = "model"
                                      /\ Results(d[p]) = DOMAIN d[p].parts
  <2>1. CASE p = N + 2
    <3>1. p > 1 /\ p - 1 = N + 1
      BY <1>1, <2>1
    <3>2. d[p].role = "user"
      BY <1>3, <2>1
    <3>. QED
      BY <1>1, <2>1, <3>1, <3>2
  <2>2. CASE p = N + 1
    <3>1. p + 1 = N + 2
      BY <1>1, <2>2
    <3>. QED
      BY <1>1, <2>2, <3>1
  <2>3. CASE p \in 1 .. N
    <3>1. c[N].role = "user"
      BY <1>0 DEF Acceptable
    <3>2. /\ c[p].role = "model" => Replies(c[p], c[p + 1]) /\ p # N
          /\ Results(c[p]) # {} => /\ c[p - 1].role = "model" /\ p > 1
                                   /\ Results(c[p]) = DOMAIN c[p].parts
      BY <1>1, <2>3, <3>1 DEF Acceptable
    <3>3. (p # N => p + 1 \in 1 .. N) /\ (p > 1 => p - 1 \in 1 .. N)
      BY <1>1, <2>3
    <3>. QED
      BY <1>1, <2>3, <3>2, <3>3
  <2>4. p \in 1 .. N \/ p = N + 1 \/ p = N + 2
    BY <1>1
  <2>. QED
    BY <2>1, <2>2, <2>3, <2>4
<1>5. Acceptable(d)
  BY <1>1, <1>3, <1>4 DEF Acceptable
<1>6. d # <<>>
  BY <1>1, EmptySeq
<1>. QED
  BY <1>0, <1>1, <1>5, <1>6

-----------------------------------------------------------------------------
(* Where the conversion stands after a message: everything sent so far is  *)
(* acceptable, or it is up to a response whose first j calls are answered. *)
WireState(ids) == [contents : Seq(WireItem(ids)), pending : Seq(WirePart(ids))]

Closed(s, ids) ==
  s \in WireState(ids) /\ s.contents # <<>> /\ Acceptable(s.contents) /\ s.pending = <<>>

Opened(s, m, j, blank, ids) ==
  /\ s \in WireState(ids)
  /\ \E c \in Seq(WireItem(ids)) :
       c # <<>> /\ Acceptable(c) /\ s.contents = Append(c, Response(m, blank, ids))
  /\ s.pending = ResultsTo(m, j, ids)

LEMMA ClosedFlushes ==
  ASSUME NEW ids, NEW s, Closed(s, ids)
  PROVE  flush_results(s) = s
  BY DEF Closed, flush_results

LEMMA AnsweredFlushes ==
  ASSUME messages \in Seq(Message), NEW m \in DOMAIN messages, NEW blank, NEW ids, NEW s,
         CallsIn(m) # 0, Opened(s, m, CallsIn(m), blank, ids)
  PROVE  Closed(flush_results(s), ids)
<1>0. PICK reply, item, n : /\ reply = Item("user", ResultsTo(m, CallsIn(m), ids))
                            /\ item = Response(m, blank, ids) /\ n = CallsIn(m)
  OBVIOUS
<1>1. n \in Nat \ {0} /\ n \in 0 .. n
  BY <1>0, CallsType
<1>2. s.pending # <<>> /\ reply = Item("user", s.pending)
  <2>1. Len(s.pending) = n
    BY <1>0, <1>1, ResultsType DEF Opened
  <2>. QED
    BY <1>0, <1>1, <2>1, EmptySeq DEF Opened
<1>3. PICK c \in Seq(WireItem(ids)) : c # <<>> /\ Acceptable(c) /\ s.contents = Append(c, item)
  BY <1>0 DEF Opened
<1>4. /\ item \in WireItem(ids) /\ item.role = "model" /\ Results(item) = {}
      /\ reply \in WireItem(ids) /\ Replies(item, reply) /\ Results(reply) = DOMAIN reply.parts
  BY <1>0, ResponseItem, ResponseIsAnswered
<1>5. PICK d : d = Append(Append(c, item), reply)
  OBVIOUS
<1>6. d \in Seq(WireItem(ids)) /\ d # <<>> /\ Acceptable(d)
  BY <1>3, <1>4, <1>5, RoundIsAcceptable
<1>7. flush_results(s) = [contents |-> d, pending |-> <<>>]
  BY <1>2, <1>3, <1>5 DEF flush_results
<1>8. <<>> \in Seq(WirePart(ids))
  BY EmptySeq
<1>. QED
  BY <1>6, <1>7, <1>8 DEF Closed, WireState

(* What a flushed state becomes when something is said. *)
LEMMA SaysText ==
  ASSUME NEW ids, NEW s, NEW f, f = flush_results(s), f = Begun \/ Closed(f, ids)
  PROVE  Closed(Say(s, "user", <<TextPart>>), ids)
<1>1. f \in WireState(ids) /\ f.pending = <<>> /\ (f.contents = <<>> \/ Acceptable(f.contents))
  <2>1. CASE f = Begun
    <3>1. <<>> \in Seq(WirePart(ids)) /\ <<>> \in Seq(WireItem(ids))
      BY EmptySeq
    <3>. QED
      BY <2>1, <3>1 DEF Begun, WireState
  <2>. QED
    BY <2>1 DEF Closed
<1>2. f.contents \in Seq(WireItem(ids))
  BY <1>1 DEF WireState
<1>3. PICK d : d = Append(f.contents, TextItem)
  OBVIOUS
<1>4. d \in Seq(WireItem(ids)) /\ Acceptable(d)
  BY <1>1, <1>2, <1>3, TextIsAcceptable
<1>5. d # <<>>
  <2>1. Len(d) = Len(f.contents) + 1 /\ Len(f.contents) \in Nat
    BY <1>2, <1>3, WireTypes
  <2>. QED
    BY <1>4, <2>1, EmptySeq
<1>6. Say(s, "user", <<TextPart>>) = [f EXCEPT !.contents = d]
  <2>1. <<TextPart>> # <<>>
    OBVIOUS
  <2>. QED
    BY <1>3, <2>1 DEF Say, TextItem
<1>. QED
  BY <1>1, <1>4, <1>5, <1>6 DEF Closed, WireState

LEMMA ReportThenText ==
  ASSUME messages \in Seq(Message), NEW m \in DOMAIN messages, NEW blank, NEW ids, NEW s,
         CallsIn(m) = 0, Opened(s, m, 0, blank, ids)
  PROVE  Closed(Say(s, "user", <<TextPart>>), ids)
<1>0. PICK item : item = Response(m, blank, ids)
  OBVIOUS
<1>1. s.pending = <<>>
  <2>1. s.pending \in Seq(WirePart(ids)) /\ Len(s.pending) = 0
    BY ResultsType DEF Opened
  <2>. QED
    BY <2>1, EmptySeq
<1>2. PICK c \in Seq(WireItem(ids)) : c # <<>> /\ Acceptable(c) /\ s.contents = Append(c, item)
  BY <1>0 DEF Opened
<1>3. /\ item \in WireItem(ids) /\ item.role = "model" /\ Results(item) = {}
      /\ Replies(item, TextItem)
  BY <1>0, ResponseItem, ReportIsFollowed
<1>4. PICK d : d = Append(Append(c, item), TextItem)
  OBVIOUS
<1>5. d \in Seq(WireItem(ids)) /\ d # <<>> /\ Acceptable(d)
  BY <1>2, <1>3, <1>4, RoundIsAcceptable, WireTypes
<1>6. Say(s, "user", <<TextPart>>) = [s EXCEPT !.contents = d]
  <2>1. <<TextPart>> # <<>> /\ flush_results(s) = s
    BY <1>1 DEF flush_results
  <2>. QED
    BY <1>2, <1>4, <2>1 DEF Say, TextItem
<1>. QED
  BY <1>1, <1>5, <1>6 DEF Closed, Opened, WireState

LEMMA SaysResponse ==
  ASSUME messages \in Seq(Message), NEW m \in DOMAIN messages, NEW blank, NEW ids,
         NEW s, NEW f, f = flush_results(s), Closed(f, ids),
         NEW t, t = Say(s, "model", Response(m, blank, ids).parts)
  PROVE  \/ CallsIn(m) = 0 /\ Closed(t, ids)
         \/ Opened(t, m, 0, blank, ids)
<1>0. PICK item : item = Response(m, blank, ids)
  OBVIOUS
<1>1. /\ item \in WireItem(ids) /\ (item.parts = <<>> => CallsIn(m) = 0)
  BY <1>0, ResponseItem
<1>2. CASE item.parts = <<>>
  BY <1>0, <1>1, <1>2 DEF Say
<1>3. CASE item.parts # <<>>
  <2>1. t = [f EXCEPT !.contents = Append(f.contents, item)]
    BY <1>0, <1>3 DEF Say, Response, Item
  <2>2. f \in WireState(ids) /\ f.contents \in Seq(WireItem(ids))
    BY DEF Closed, WireState
  <2>3. Append(f.contents, item) \in Seq(WireItem(ids))
    BY <1>1, <2>2
  <2>4. t \in WireState(ids) /\ t.contents = Append(f.contents, item) /\ t.pending = f.pending
    BY <2>1, <2>2, <2>3 DEF WireState
  <2>5. CallsIn(m) \in Nat
    BY CallsType
  <2>6. ResultsTo(m, 0, ids) = <<>>
    <3>1. 0 \in 0 .. CallsIn(m)
      BY <2>5
    <3>2. ResultsTo(m, 0, ids) \in Seq(WirePart(ids)) /\ Len(ResultsTo(m, 0, ids)) = 0
      BY <3>1, ResultsType
    <3>. QED
      BY <3>2, EmptySeq
  <2>. QED
    BY <1>0, <2>2, <2>4, <2>6 DEF Opened, Closed
<1>. QED
  BY <1>2, <1>3

LEMMA TakesResult ==
  ASSUME messages \in Seq(Message), NEW m \in DOMAIN messages, NEW blank, NEW ids, NEW s,
         NEW j \in Nat, j < CallsIn(m), Opened(s, m, j, blank, ids),
         NEW c, c = messages[m].calls[j + 1],
         NEW t, t = [s EXCEPT !.pending = Append(@, Part("result", ids[c], c))]
  PROVE  Opened(t, m, j + 1, blank, ids)
<1>0. PICK x, old, new, W : /\ x = Part("result", ids[c], c) /\ W = WirePart(ids)
                            /\ old = ResultsTo(m, j, ids) /\ new = ResultsTo(m, j + 1, ids)
  OBVIOUS
<1>1. CallsIn(m) \in Nat
  BY CallsType
<1>2. j \in 0 .. CallsIn(m) /\ j + 1 \in 0 .. CallsIn(m)
  BY <1>1
<1>3. /\ old \in Seq(W) /\ Len(old) = j /\ new \in Seq(W) /\ Len(new) = j + 1
  BY <1>0, <1>2, ResultsType
<1>4. new[j + 1] = x /\ x \in W
  <2>1. j + 1 \in 1 .. j + 1
    OBVIOUS
  <2>2. new[j + 1] = x
    BY <1>0, <2>1 DEF ResultsTo
  <2>. QED
    BY <1>3, <2>1, <2>2
<1>5. \A k \in 1 .. j : new[k] = old[k]
  <2>1. \A k \in 1 .. j : k \in 1 .. j + 1
    OBVIOUS
  <2>. QED
    BY <1>0, <2>1 DEF ResultsTo
<1>6. Append(old, x) = new
  <2>1. PICK e : e = Append(old, x)
    OBVIOUS
  <2>2. e \in Seq(W) /\ Len(e) = j + 1 /\ e[j + 1] = x /\ \A k \in 1 .. j : e[k] = old[k]
    BY <1>3, <1>4, <2>1
  <2>3. \A k \in 1 .. j + 1 : k \in 1 .. j \/ k = j + 1
    OBVIOUS
  <2>4. \A k \in 1 .. j + 1 : e[k] = new[k]
    BY <1>4, <1>5, <2>2, <2>3
  <2>. QED
    BY <1>3, <2>1, <2>2, <2>4, SeqEqual
<1>7. s.pending = old /\ s \in WireState(ids)
  BY <1>0 DEF Opened
<1>8. t = [s EXCEPT !.pending = new]
  BY <1>0, <1>6, <1>7
<1>9. t \in WireState(ids) /\ t.contents = s.contents /\ t.pending = new
  BY <1>0, <1>3, <1>7, <1>8 DEF WireState
<1>. QED
  BY <1>0, <1>9 DEF Opened

-----------------------------------------------------------------------------
(* What the conversation of a run guarantees, when the model is asked. *)
Replied ==
  \A m \in MessagesOf("assistant") : \A k \in 1 .. CallsIn(m) :
    /\ m + k \in 1 .. Len(messages)
    /\ messages[m + k] = [role |-> "tool", calls |-> <<messages[m].calls[k]>>]

Ordered ==
  /\ messages \in Seq(Message) /\ Replied
  /\ \A n \in 1 .. Len(messages) : HasRequest(n) /\ HasCaller(n)

(* Where the conversion stands after the n-th message. *)
Told(s, n, blank, ids) ==
  \/ Closed(s, ids) /\ messages[n].role = "user"
  \/ Closed(s, ids) /\ messages[n].role = "assistant" /\ CallsIn(n) = 0
  \/ \E m \in MessagesOf("assistant") :
       n \in m .. m + CallsIn(m) /\ Opened(s, m, n - m, blank, ids)

LEMMA OrderedTypes ==
  ASSUME Ordered
  PROVE  /\ Len(messages) \in Nat /\ DOMAIN messages = 1 .. Len(messages)
         /\ \A n \in 1 .. Len(messages) : messages[n].role \in {"user", "assistant", "tool"}
         /\ \A m \in MessagesOf("assistant") :
              m \in 1 .. Len(messages) /\ messages[m].role = "assistant" /\ CallsIn(m) \in Nat
<1>1. messages \in Seq(Message)
  BY DEF Ordered
<1>2. Len(messages) \in Nat /\ DOMAIN messages = 1 .. Len(messages)
  BY <1>1
<1>3. \A n \in 1 .. Len(messages) : messages[n] \in Message
  BY <1>1, <1>2
<1>4. \A n \in 1 .. Len(messages) : messages[n].role \in {"user", "assistant", "tool"}
  BY <1>3 DEF Message
<1>. QED
  BY <1>1, <1>2, <1>4, CallsType DEF MessagesOf

(* Behind a response stand the messages of its calls. *)
LEMMA Waits ==
  ASSUME Ordered, NEW m \in MessagesOf("assistant"), NEW p \in m + 1 .. m + CallsIn(m)
  PROVE  messages[p] = [role |-> "tool", calls |-> <<messages[m].calls[p - m]>>]
<1>1. m \in Nat /\ CallsIn(m) \in Nat
  BY OrderedTypes
<1>2. p - m \in 1 .. CallsIn(m) /\ m + (p - m) = p
  BY <1>1
<1>. QED
  BY <1>2 DEF Ordered, Replied

LEMMA OnlyToolsWait ==
  ASSUME Ordered
  PROVE  \A m \in MessagesOf("assistant") : \A p \in m + 1 .. m + CallsIn(m) :
           messages[p].role = "tool"
<1>. TAKE m \in MessagesOf("assistant")
<1>. TAKE p \in m + 1 .. m + CallsIn(m)
<1>1. messages[p] = [role |-> "tool", calls |-> <<messages[m].calls[p - m]>>]
  BY Waits
<1>. QED
  BY <1>1

(* No two responses share a place. *)
LEMMA OneCaller ==
  ASSUME Ordered, NEW m \in MessagesOf("assistant"), NEW o \in MessagesOf("assistant"),
         NEW n \in m .. m + CallsIn(m), n \in o .. o + CallsIn(o)
  PROVE  m = o
<1>1. m \in Nat /\ CallsIn(m) \in Nat /\ o \in Nat /\ CallsIn(o) \in Nat
  BY OrderedTypes
<1>2. messages[m].role # "tool" /\ messages[o].role # "tool"
  BY OrderedTypes
<1>3. ~(m < o)
  <2>1. m < o => o \in m + 1 .. m + CallsIn(m)
    BY <1>1
  <2>. QED
    BY <1>2, <2>1, OnlyToolsWait
<1>4. ~(o < m)
  <2>1. o < m => m \in o + 1 .. o + CallsIn(o)
    BY <1>1
  <2>. QED
    BY <1>2, <2>1, OnlyToolsWait
<1>. QED
  BY <1>1, <1>3, <1>4

(* A message that is no answer comes when every call is answered. *)
LEMMA AllAnswered ==
  ASSUME Ordered, NEW m \in MessagesOf("assistant"), NEW n \in m .. m + CallsIn(m),
         messages[n + 1].role # "tool"
  PROVE  n - m = CallsIn(m)
<1>1. m \in Nat /\ CallsIn(m) \in Nat
  BY OrderedTypes
<1>2. n # m + CallsIn(m) => n + 1 \in m + 1 .. m + CallsIn(m)
  BY <1>1
<1>3. n = m + CallsIn(m)
  BY <1>2, OnlyToolsWait
<1>. QED
  BY <1>1, <1>3

(* One message more. *)
LEMMA TellsUser ==
  ASSUME Ordered, NEW n \in 1 .. Len(messages), n + 1 \in 1 .. Len(messages),
         NEW blank, NEW ids, NEW s, Told(s, n, blank, ids), messages[n + 1].role = "user",
         NEW t, t = Convert(s, messages[n + 1], n + 1 \in blank, ids)
  PROVE  Told(t, n + 1, blank, ids)
<1>1. t = Say(s, "user", <<TextPart>>)
  BY DEF Convert
<1>2. Closed(t, ids)
  <2>1. CASE Closed(s, ids)
    BY <1>1, <2>1, ClosedFlushes, SaysText
  <2>2. ASSUME NEW m \in MessagesOf("assistant"), n \in m .. m + CallsIn(m),
               Opened(s, m, n - m, blank, ids)
        PROVE  Closed(t, ids)
    <3>1. n - m = CallsIn(m)
      BY <2>2, AllAnswered
    <3>2. m \in DOMAIN messages /\ messages \in Seq(Message)
      BY OrderedTypes DEF Ordered
    <3>3. CASE CallsIn(m) = 0
      BY <1>1, <2>2, <3>1, <3>2, <3>3, ReportThenText
    <3>4. CASE CallsIn(m) # 0
      BY <1>1, <2>2, <3>1, <3>2, <3>4, AnsweredFlushes, SaysText
    <3>. QED
      BY <3>3, <3>4
  <2>. QED
    BY <2>1, <2>2 DEF Told
<1>. QED
  BY <1>2 DEF Told

LEMMA TellsResponse ==
  ASSUME Ordered, NEW n \in 1 .. Len(messages), n + 1 \in 1 .. Len(messages),
         NEW blank, NEW ids, NEW s, Told(s, n, blank, ids), messages[n + 1].role = "assistant",
         NEW t, t = Convert(s, messages[n + 1], n + 1 \in blank, ids)
  PROVE  Told(t, n + 1, blank, ids)
<1>0. messages \in Seq(Message) /\ Len(messages) \in Nat /\ DOMAIN messages = 1 .. Len(messages)
  BY OrderedTypes DEF Ordered
<1>1. t = Say(s, "model", Response(n + 1, blank, ids).parts)
  BY DEF Convert, Response, Item, Texts, UsesIn
<1>2. messages[n].role # "assistant"
  <2>1. (n + 1) - 1 = n /\ HasRequest(n + 1)
    BY <1>0 DEF Ordered
  <2>. QED
    BY <2>1 DEF HasRequest
<1>3. Closed(flush_results(s), ids)
  <2>1. CASE Closed(s, ids)
    BY <2>1, ClosedFlushes
  <2>2. ASSUME NEW m \in MessagesOf("assistant"), n \in m .. m + CallsIn(m),
               Opened(s, m, n - m, blank, ids)
        PROVE  Closed(flush_results(s), ids)
    <3>1. n - m = CallsIn(m)
      BY <2>2, AllAnswered
    <3>2. m \in DOMAIN messages /\ m \in Nat /\ messages[m].role = "assistant"
      BY OrderedTypes
    <3>3. n - m # 0
      BY <1>2, <3>2
    <3>. QED
      BY <1>0, <2>2, <3>1, <3>2, <3>3, AnsweredFlushes
  <2>. QED
    BY <2>1, <2>2 DEF Told
<1>4. \/ CallsIn(n + 1) = 0 /\ Closed(t, ids)
      \/ Opened(t, n + 1, 0, blank, ids)
  BY <1>0, <1>1, <1>3, SaysResponse
<1>5. /\ n + 1 \in MessagesOf("assistant") /\ (n + 1) - (n + 1) = 0
      /\ n + 1 \in n + 1 .. (n + 1) + CallsIn(n + 1)
  <2>1. n + 1 \in MessagesOf("assistant")
    BY <1>0 DEF MessagesOf
  <2>2. CallsIn(n + 1) \in Nat
    BY <2>1, OrderedTypes
  <2>. QED
    BY <1>0, <2>1, <2>2
<1>. QED
  BY <1>4, <1>5 DEF Told

LEMMA TellsResult ==
  ASSUME Ordered, NEW n \in 1 .. Len(messages), n + 1 \in 1 .. Len(messages),
         NEW blank, NEW ids, NEW s, Told(s, n, blank, ids), messages[n + 1].role = "tool",
         NEW t, t = Convert(s, messages[n + 1], n + 1 \in blank, ids)
  PROVE  Told(t, n + 1, blank, ids)
<1>0. messages \in Seq(Message) /\ Len(messages) \in Nat /\ DOMAIN messages = 1 .. Len(messages)
  BY OrderedTypes DEF Ordered
<1>1. PICK m \in MessagesOf("assistant") : n + 1 \in m + 1 .. m + CallsIn(m)
  BY DEF Ordered, HasCaller
<1>2. m \in DOMAIN messages /\ m \in Nat /\ CallsIn(m) \in Nat
  BY OrderedTypes
<1>3. PICK j : j = n - m
  OBVIOUS
<1>4. /\ j \in Nat /\ j < CallsIn(m) /\ n \in m .. m + CallsIn(m)
      /\ (n + 1) - m = j + 1 /\ n + 1 \in m .. m + CallsIn(m)
      /\ n = m \/ n \in m + 1 .. m + CallsIn(m)
  BY <1>0, <1>1, <1>2, <1>3
<1>5. PICK c : c = messages[m].calls[j + 1]
  OBVIOUS
<1>6. messages[n + 1] = [role |-> "tool", calls |-> <<c>>]
  BY <1>1, <1>4, <1>5, Waits
<1>7. t = [s EXCEPT !.pending = Append(@, Part("result", ids[c], c))]
  <2>1. messages[n + 1].calls = <<c>> /\ Head(<<c>>) = c
    BY <1>6
  <2>. QED
    BY <2>1 DEF Convert
<1>8. Opened(s, m, j, blank, ids)
  <2>1. messages[n].role # "user"
    <3>1. messages[n].role \in {"assistant", "tool"}
      BY <1>4, OnlyToolsWait, OrderedTypes
    <3>. QED
      BY <3>1
  <2>2. messages[n].role = "assistant" => CallsIn(n) # 0
    <3>1. n \in m + 1 .. m + CallsIn(m) => messages[n].role = "tool"
      BY OnlyToolsWait
    <3>. QED
      BY <1>2, <1>4, <3>1
  <2>3. PICK o \in MessagesOf("assistant") :
          n \in o .. o + CallsIn(o) /\ Opened(s, o, n - o, blank, ids)
    BY <2>1, <2>2 DEF Told
  <2>4. o = m
    BY <1>4, <2>3, OneCaller
  <2>. QED
    BY <1>3, <2>3, <2>4
<1>9. Opened(t, m, j + 1, blank, ids)
  BY <1>0, <1>2, <1>4, <1>5, <1>7, <1>8, TakesResult
<1>. QED
  BY <1>4, <1>9 DEF Told

LEMMA TellsOn ==
  ASSUME Ordered, NEW blank, NEW ids, NEW h, h[0] = Begun,
         \A n \in 1 .. Len(messages) : h[n] = Convert(h[n - 1], messages[n], n \in blank, ids)
  PROVE  \A n \in 1 .. Len(messages) : Told(h[n], n, blank, ids)
<1>0. PICK M : M = Len(messages)
  OBVIOUS
<1>1. M \in Nat /\ \A n \in 1 .. M : messages[n].role \in {"user", "assistant", "tool"}
  BY <1>0, OrderedTypes
<1>2. ASSUME 1 \in 1 .. M
      PROVE  Told(h[1], 1, blank, ids)
  <2>1. messages[1].role # "assistant"
    BY <1>0, <1>2 DEF Ordered, HasRequest
  <2>2. messages[1].role # "tool"
    <3>1. \A m \in MessagesOf("assistant") : 1 \notin m + 1 .. m + CallsIn(m)
      BY OrderedTypes
    <3>. QED
      BY <1>0, <1>2, <3>1 DEF Ordered, HasCaller
  <2>3. messages[1].role = "user"
    BY <1>1, <1>2, <2>1, <2>2
  <2>4. h[1] = Say(Begun, "user", <<TextPart>>)
    <3>1. 1 - 1 = 0
      OBVIOUS
    <3>2. h[1] = Convert(Begun, messages[1], 1 \in blank, ids)
      BY <1>0, <1>2, <3>1
    <3>. QED
      BY <2>3, <3>2 DEF Convert
  <2>5. flush_results(Begun) = Begun
    BY DEF flush_results, Begun
  <2>. QED
    BY <2>3, <2>4, <2>5, SaysText DEF Told
<1>. DEFINE Bad == {n \in 1 .. M : ~Told(h[n], n, blank, ids)}
<1>3. Bad = {}
  <2>. SUFFICES ASSUME Bad # {} PROVE FALSE
    OBVIOUS
  <2>1. Bad \subseteq Nat
    BY <1>1
  <2>2. PICK p \in Bad : \A q \in Bad : p <= q
    BY <2>1, HasLeast
  <2>3. p \in 1 .. M /\ ~Told(h[p], p, blank, ids)
    BY <2>2
  <2>4. p # 1
    BY <1>2, <2>3
  <2>5. PICK n : n = p - 1
    OBVIOUS
  <2>6. n \in 1 .. M /\ n + 1 = p /\ n \in Nat /\ ~(p <= n)
    <3>. HIDE DEF Bad
    <3>. QED
      BY <1>1, <2>3, <2>4, <2>5
  <2>7. n \notin Bad
    <3>. HIDE DEF Bad
    <3>. QED
      BY <2>2, <2>6
  <2>8. Told(h[n], n, blank, ids)
    BY <2>6, <2>7
  <2>9. h[p] = Convert(h[n], messages[p], p \in blank, ids)
    BY <1>0, <2>3, <2>5
  <2>. HIDE DEF Bad
  <2>10. Told(h[n + 1], n + 1, blank, ids)
    BY <1>0, <1>1, <2>3, <2>6, <2>8, <2>9, TellsUser, TellsResponse, TellsResult
  <2>. QED
    BY <2>3, <2>6, <2>10
<1>. QED
  BY <1>0, <1>3

LEMMA WhatIsSent ==
  ASSUME Ordered, messages # <<>>, messages[Len(messages)].role # "assistant",
         NEW blank, NEW ids
  PROVE  Acceptable(to_contents(blank, ids))
<1>0. PICK M : M = Len(messages)
  OBVIOUS
<1>1. messages \in Seq(Message) /\ M \in 1 .. M
  BY <1>0, OrderedTypes, EmptySeq DEF Ordered
<1>2. PICK h : /\ h[0] = Begun
               /\ \A n \in 1 .. M : h[n] = Convert(h[n - 1], messages[n], n \in blank, ids)
               /\ to_contents(blank, ids) = flush_results(h[M]).contents
  BY <1>0, <1>1, ContentsBuildUp
<1>3. Told(h[M], M, blank, ids)
  BY <1>0, <1>1, <1>2, TellsOn
<1>4. Closed(flush_results(h[M]), ids)
  <2>1. CASE Closed(h[M], ids)
    BY <2>1, ClosedFlushes
  <2>2. ASSUME NEW m \in MessagesOf("assistant"), M \in m .. m + CallsIn(m),
               Opened(h[M], m, M - m, blank, ids)
        PROVE  Closed(flush_results(h[M]), ids)
    <3>1. /\ m \in DOMAIN messages /\ m \in 1 .. M
          /\ messages[m].role = "assistant" /\ CallsIn(m) \in Nat
      BY <1>0, OrderedTypes
    <3>2. \A k \in 1 .. CallsIn(m) : m + k \in 1 .. M
      BY <1>0 DEF Ordered, Replied
    <3>3. M # m
      BY <1>0, <3>1
    <3>4. M - m = CallsIn(m) /\ CallsIn(m) # 0
      <4>1. CallsIn(m) # 0
        BY <2>2, <3>1, <3>3
      <4>2. CallsIn(m) \in 1 .. CallsIn(m)
        BY <3>1, <4>1
      <4>3. m + CallsIn(m) \in 1 .. M
        BY <3>2, <4>2
      <4>. QED
        BY <2>2, <3>1, <4>1, <4>3
    <3>. QED
      BY <1>1, <2>2, <3>1, <3>4, AnsweredFlushes
  <2>. QED
    BY <1>3, <2>1, <2>2 DEF Told
<1>. QED
  BY <1>2, <1>4 DEF Closed

LEMMA SentIsAcceptable ==
  ASSUME TypeInv, LoopInv, TalkInv, ThreadInv
  PROVE  SentConversationIsAcceptable
<1>. SUFFICES ASSUME phase = "model"
              PROVE  \A blank, ids : Acceptable(to_contents(blank, ids))
  BY DEF SentConversationIsAcceptable
<1>1. messages \in Seq(Message) /\ DOMAIN messages = 1 .. Len(messages)
  BY DEF TalkInv
<1>2. Replied
  <2>. SUFFICES ASSUME NEW m \in MessagesOf("assistant"), NEW k \in 1 .. CallsIn(m)
                PROVE  /\ m + k \in 1 .. Len(messages)
                       /\ messages[m + k] = [role |-> "tool", calls |-> <<messages[m].calls[k]>>]
    BY DEF Replied
  <2>1. m \in DOMAIN messages
    BY DEF MessagesOf
  <2>2. k \in DOMAIN messages[m].calls
    BY <1>1, <2>1, CallsType
  <2>3. /\ m + k \in DOMAIN messages =>
               messages[m + k] = [role |-> "tool", calls |-> <<messages[m].calls[k]>>]
        /\ m + k \in DOMAIN messages
    BY <2>2, Answered DEF ConversationIsAnswered
  <2>. QED
    BY <1>1, <2>3
<1>3. Ordered
  BY <1>1, <1>2 DEF Ordered, ThreadInv
<1>. QED
  BY <1>3, WhatIsSent DEF ThreadInv

LEMMA ThreadInit == AgentInit => ThreadInv
<1>. SUFFICES ASSUME AgentInit PROVE ThreadInv
  OBVIOUS
<1>1. messages = <<>> /\ phase = "request"
  BY DEF AgentInit
<1>2. Len(messages) = 0 /\ 1 .. 0 = {}
  BY <1>1, EmptySeq
<1>. QED
  BY <1>1, <1>2 DEF ThreadInv

(* In every request to the model, for any conversation a run can have, any *)
(* responses without text and any ids the provider gave: each item of the  *)
(* model is followed by one of the user that answers exactly its tool      *)
(* uses, in order (agent/anthropic_client.py to_anthropic_messages,        *)
(* agent/gemini_client.py to_gemini_contents).                             *)
THEOREM SentIsAnswered == AgentSpec => []SentConversationIsAcceptable
<1>1. AgentInit => TalkInv /\ ThreadInv
  BY TalkInit, ThreadInit
<1>2. /\ RecordInv /\ LoopInv /\ TalkInv /\ ThreadInv
      /\ [AgentNext]_<<vars, agentVars>>
      => TalkInv' /\ ThreadInv'
  BY TalkStep, ThreadStep DEF RecordInv
<1>3. RecordInv /\ LoopInv /\ TalkInv /\ ThreadInv => SentConversationIsAcceptable
  BY SentIsAcceptable DEF RecordInv
<1>4. AgentSpec => Spec
  BY AgentKeepsToEnv DEF AgentDrivesEnv
<1>. QED
  BY <1>1, <1>2, <1>3, <1>4, StoryInvariant, LoopInvariant, PTL DEF AgentSpec

-----------------------------------------------------------------------------
(* The budget of steps that the limits of the loop give a run. *)
LEMMA StepCosts ==
  /\ MaxTurns \in Nat \ {0} /\ MaxCallsPerTurn \in Nat
  /\ TurnSteps \in Nat \ {0} /\ RequestSteps \in Nat \ {0}
<1>1. TurnSteps \in Nat \ {0}
  BY TurnsAssumption DEF TurnSteps
<1>2. \A n, k \in Nat : n * k \in Nat
  OBVIOUS
<1>3. MaxTurns * TurnSteps \in Nat
  BY <1>1, <1>2, TurnsAssumption
<1>. QED
  BY <1>1, <1>3, TurnsAssumption DEF RequestSteps

LEMMA OneFewer ==
  ASSUME NEW n \in Int, NEW k \in Int
  PROVE  (n - 1) * k = n * k - k
  OBVIOUS

(* The requests and turns ahead, for a count of each. *)
LEMMA AheadType ==
  ASSUME LoopInv
  PROVE  /\ Len(Requests) - ordinal \in Nat /\ (Len(Requests) - ordinal) * RequestSteps \in Nat
         /\ MaxTurns - turn \in Nat /\ (MaxTurns - turn) * TurnSteps \in Nat
         /\ Len(pending) \in Nat
<1>1. \A n, k \in Nat : n * k \in Nat
  OBVIOUS
<1>2. ordinal \in 0 .. Len(Requests) /\ turn \in 0 .. MaxTurns /\ Len(pending) \in Nat
  BY LenProperties DEF LoopInv
<1>3. Len(Requests) - ordinal \in Nat /\ MaxTurns - turn \in Nat
  BY <1>2, RequestsType, TurnsAssumption
<1>. QED
  BY <1>1, <1>2, <1>3, StepCosts

LEMMA StepsLeftType == LoopInv => StepsLeft \in Nat
<1>. SUFFICES ASSUME LoopInv PROVE StepsLeft \in Nat
  OBVIOUS
<1>. DEFINE a == (Len(Requests) - ordinal) * RequestSteps
            b == (MaxTurns - turn) * TurnSteps
            n == Len(pending)
<1>1. a \in Nat /\ b \in Nat /\ n \in Nat
  BY AheadType
<1>2. StepsLeft = 0 \/ StepsLeft = a \/ StepsLeft = a + b + n + 1
  BY DEF StepsLeft
<1>. HIDE DEF a, b, n
<1>. QED
  BY <1>1, <1>2

LEMMA ShortResponse ==
  ASSUME NEW calls \in Responses
  PROVE  Len(calls) \in 0 .. MaxCallsPerTurn
<1>1. PICK n \in 0 .. MaxCallsPerTurn : calls \in [1 .. n -> Invocations]
  BY DEF Responses
<1>2. n \in Nat /\ calls \in Seq(Invocations) /\ Len(calls) = n
  BY <1>1, TurnsAssumption
<1>. QED
  BY <1>1, <1>2

LEMMA NextRequestSpends ==
  ASSUME LoopInv, NextRequest
  PROVE  StepsLeft' < StepsLeft
<1>. DEFINE n == Len(Requests) - ordinal
            m == Len(Requests) - (ordinal + 1)
<1>1. /\ phase = "request" /\ phase' = "model" /\ ordinal' = ordinal + 1
      /\ turn' = 0 /\ pending' = <<>>
  BY DEF NextRequest, LoopInv
<1>2. m = n - 1 /\ n \in Int /\ RequestSteps \in Int
  <2>1. ordinal \in 0 .. Len(Requests)
    BY DEF LoopInv
  <2>. QED
    BY <2>1, RequestsType, StepCosts
<1>3. m * RequestSteps = n * RequestSteps - RequestSteps
  BY <1>2, OneFewer
<1>4. StepsLeft = n * RequestSteps
  BY <1>1 DEF StepsLeft
<1>5. StepsLeft' = m * RequestSteps + (MaxTurns - 0) * TurnSteps + 0 + 1
  BY <1>1, EmptySeq DEF StepsLeft
<1>6. n * RequestSteps \in Nat /\ MaxTurns * TurnSteps \in Nat /\ MaxTurns - 0 = MaxTurns
      /\ RequestSteps = MaxTurns * TurnSteps + 2
  BY AheadType, StepCosts DEF RequestSteps
<1>. DEFINE a == n * RequestSteps
            b == m * RequestSteps
            t == MaxTurns * TurnSteps
<1>7. StepsLeft = a /\ StepsLeft' = b + t + 0 + 1 /\ b = a - (t + 2) /\ a \in Nat /\ t \in Nat
  BY <1>3, <1>4, <1>5, <1>6
<1>. HIDE DEF a, b, t
<1>. QED
  BY <1>7

(* The rest of the loop stays with its request. *)
LEMMA WithinRequest ==
  ASSUME LoopInv, ordinal' = ordinal, phase \in {"model", "tools"}, phase' \in Phases,
         phase' \in {"model", "tools"} =>
           (MaxTurns - turn') * TurnSteps + Len(pending')
             < (MaxTurns - turn) * TurnSteps + Len(pending),
         (MaxTurns - turn') * TurnSteps \in Int, Len(pending') \in Nat
  PROVE  StepsLeft' < StepsLeft
<1>. DEFINE a == (Len(Requests) - ordinal) * RequestSteps
            b == (MaxTurns - turn) * TurnSteps
            n == Len(pending)
            c == (MaxTurns - turn') * TurnSteps
            k == Len(pending')
<1>1. a \in Nat /\ b \in Nat /\ n \in Nat /\ c \in Int /\ k \in Nat
  BY AheadType
<1>2. StepsLeft = a + b + n + 1
  BY DEF StepsLeft
<1>3. phase' \in {"model", "tools"} => StepsLeft' = a + c + k + 1 /\ c + k < b + n
  BY DEF StepsLeft
<1>4. phase' \notin {"model", "tools"} => StepsLeft' \in {0, a}
  BY DEF StepsLeft, Phases
<1>. HIDE DEF a, b, n, c, k
<1>. QED
  BY <1>1, <1>2, <1>3, <1>4

LEMMA ModelTurnSpends ==
  ASSUME LoopInv, NEW calls \in Responses, FinalReport(calls) \/ CallTools(calls)
  PROVE  StepsLeft' < StepsLeft
<1>1. /\ phase = "model" /\ turn < MaxTurns /\ turn' = turn + 1 /\ ordinal' = ordinal
      /\ pending = <<>> /\ phase' \in {"done", "request", "tools"}
      /\ pending' = calls /\ phase' \in Phases
  BY DEF FinalReport, CallTools, LoopInv, Phases
<1>2. Len(calls) \in 0 .. MaxCallsPerTurn /\ Len(pending) = 0
  BY <1>1, ShortResponse, EmptySeq
<1>. DEFINE n == MaxTurns - turn
            m == MaxTurns - turn'
<1>3. m = n - 1 /\ n \in Int /\ TurnSteps \in Int
  BY <1>1, StepCosts DEF LoopInv
<1>4. m * TurnSteps = n * TurnSteps - TurnSteps /\ n * TurnSteps \in Nat
  BY <1>3, OneFewer, AheadType
<1>. DEFINE b == n * TurnSteps
            c == m * TurnSteps
            k == Len(calls)
<1>5. c = b - (MaxCallsPerTurn + 1) /\ b \in Nat /\ k \in 0 .. MaxCallsPerTurn
  BY <1>2, <1>4 DEF TurnSteps
<1>6. c + k < b + 0 /\ c \in Int /\ k \in Nat
  <2>. HIDE DEF b, c, k
  <2>. QED
    BY <1>5, StepCosts
<1>. QED
  BY <1>1, <1>2, <1>6, WithinRequest

LEMMA ExecuteCallSpends ==
  ASSUME LoopInv, ExecuteCall
  PROVE  StepsLeft' < StepsLeft
<1>1. /\ phase = "tools" /\ pending' = Tail(pending) /\ phase' \in {"model", "tools"}
      /\ turn' = turn /\ ordinal' = ordinal
  BY DEF ExecuteCall
<1>2. pending \in Seq(Invocations) /\ pending # <<>>
  BY <1>1 DEF LoopInv
<1>3. Len(Tail(pending)) = Len(pending) - 1 /\ Len(Tail(pending)) \in Nat
  BY <1>2, HeadTailProperties, LenProperties
<1>. DEFINE b == (MaxTurns - turn) * TurnSteps
            n == Len(pending)
<1>4. b \in Nat /\ n \in Nat
  BY AheadType
<1>5. b + (n - 1) < b + n
  <2>. HIDE DEF b, n
  <2>. QED
    BY <1>4
<1>6. /\ (MaxTurns - turn') * TurnSteps = b /\ b \in Int
      /\ Len(pending') = n - 1 /\ Len(pending') \in Nat
  BY <1>1, <1>3, <1>4
<1>7. (MaxTurns - turn') * TurnSteps + Len(pending') < (MaxTurns - turn) * TurnSteps + Len(pending)
  BY <1>5, <1>6
<1>8. phase \in {"model", "tools"} /\ phase' \in Phases
  BY <1>1 DEF Phases
<1>. QED
  BY <1>1, <1>6, <1>7, <1>8, WithinRequest

LEMMA ExitSpends ==
  ASSUME LoopInv, OutOfTurns \/ ModelRaises
  PROVE  StepsLeft' < StepsLeft
<1>1. /\ phase = "model" /\ phase' \in {"done", "aborted"} /\ phase' \in Phases
      /\ turn' = turn /\ ordinal' = ordinal /\ pending' = pending
      /\ phase' \notin {"model", "tools"}
  BY DEF OutOfTurns, ModelRaises, Phases
<1>2. (MaxTurns - turn') * TurnSteps \in Int /\ Len(pending') \in Nat
  BY <1>1, AheadType
<1>. QED
  BY <1>1, <1>2, WithinRequest

LEMMA AgentStepSpends ==
  ASSUME LoopInv, AgentNext
  PROVE  StepsLeft' < StepsLeft
<1>1. CASE NextRequest
  BY <1>1, NextRequestSpends
<1>2. CASE ModelTurn
  BY <1>2, ModelTurnSpends DEF ModelTurn
<1>3. CASE OutOfTurns \/ ModelRaises
  BY <1>3, ExitSpends
<1>4. CASE ExecuteCall
  BY <1>4, ExecuteCallSpends
<1>. QED
  BY <1>1, <1>2, <1>3, <1>4 DEF AgentNext

(* A run of the agent has a bounded number of steps, fixed by the requests *)
(* and the limits: no model, tool or fault can keep it going.              *)
THEOREM AgentRunsAreBounded ==
  AgentSpec => /\ StepsLeft = Len(Requests) * RequestSteps
               /\ RunsAreBounded
<1>1. AgentInit => StepsLeft = Len(Requests) * RequestSteps
  <2>. SUFFICES ASSUME AgentInit PROVE StepsLeft = Len(Requests) * RequestSteps
    OBVIOUS
  <2>1. phase = "request" /\ Len(Requests) - ordinal = Len(Requests)
    BY RequestsType DEF AgentInit
  <2>. QED
    BY <2>1 DEF StepsLeft
<1>2. LoopInv /\ [AgentNext]_<<vars, agentVars>> => [StepsLeft' < StepsLeft]_<<vars, agentVars>>
  BY AgentStepSpends
<1>. QED
  BY <1>1, <1>2, StepsLeftType, LoopInvariant, PTL DEF AgentSpec, RunsAreBounded
=============================================================================
