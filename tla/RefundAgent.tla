---------------------------- MODULE RefundAgent ----------------------------
(***************************************************************************)
(* The tool-use loop of one case (agent/refund_agent.py) driving the       *)
(* refund environment through the adapters of agent/adapters.py and        *)
(* recording both sides in a trace (agent/recorder.py).                    *)
(*                                                                         *)
(* The model behind the ModelClient is anything: it may ask for any tool,  *)
(* known or not, with or without its required arguments, several at once,  *)
(* or stop; and it may raise, which ends the case without a trace.         *)
(***************************************************************************)
EXTENDS RefundEnv, SequencesExt

CONSTANTS
  Requests,        \* the user requests of the case: a sequence of intents
  StopReasons,     \* what a provider may say of a response that calls no tool
  MaxTurns,        \* AgentLimits.max_turns
  MaxCallsPerTurn  \* bound: tool calls in one model response

ASSUME RequestsAssumption ==
  /\ Requests \in Seq(Intents) /\ Requests # <<>>
  /\ \A i, j \in DOMAIN Requests : Requests[i] = Requests[j] => i = j
ASSUME TurnsAssumption ==
  /\ MaxTurns \in Nat \ {0}
  /\ MaxCallsPerTurn \in Nat

(* A client names what the provider named, or "end_turn" if it named       *)
(* nothing (anthropic_client.py, gemini_client.py); the loop's own reason  *)
(* and the absence of one are neither.                                     *)
ASSUME ReasonsAssumption == StopReasons \cap {"none", "max_turns"} = {}

VARIABLES
  phase,    \* what the loop does next
  ordinal,  \* requests taken so far
  turn,     \* model turns spent on the current request
  pending,  \* calls of the current response that have not run yet
  spans,    \* spans[c]: started_seq and ended_seq of the c-th ToolCallRecord
  messages, \* AgentRecorder.messages, after the system prompt
  reports,  \* requests whose final report was collected
  stopped   \* AgentTrace.stop_reason

agentVars == <<phase, ordinal, turn, pending, spans, messages, reports, stopped>>

Phases == {"request", "model", "tools", "done", "aborted"}

NoneSeq == 0 \* a ToolCallRecord without a ledger position

(* What a model may ask for.  A call without its required arguments, or    *)
(* of a tool that does not exist, is answered with an error.               *)
Invocation ==
  [tool : ReadTools \cup {ISSUE_REFUND, SEND_EMAIL, "unknown"}, asked : Ask \cup {NoAsk},
   complete : BOOLEAN]

Invocations == {c \in Invocation : /\ c.asked \in Ask <=> c.tool = ISSUE_REFUND /\ c.complete
                                   /\ c.tool = "unknown" => ~c.complete}

Responses == UNION {[1..n -> Invocations] : n \in 0..MaxCallsPerTurn}

Message == [role : {"user", "assistant", "tool"}, calls : Seq(Nat)]

CurrentIntent == Requests[ordinal]
-----------------------------------------------------------------------------
(* on_request puts USER_INTENT on the ledger, then the request is recorded *)
NextRequest ==
  /\ phase = "request"
  /\ phase' = "model"
  /\ ordinal' = ordinal + 1
  /\ turn' = 0
  /\ RecordUserIntent(Requests[ordinal + 1])
  /\ messages' = Append(messages, [role |-> "user", calls |-> <<>>])
  /\ UNCHANGED <<pending, spans, reports, stopped>>

(* Ids are assigned to all calls of a response before any of them runs. *)
AssignedIds(calls) == [k \in DOMAIN calls |-> Len(answers) + k]

RecordAssistant(calls) ==
  messages' = Append(messages, [role |-> "assistant", calls |-> AssignedIds(calls)])

(* A response without calls is the report on the current request, whatever *)
(* the provider says it stopped for ("max_tokens" and "safety" too); the   *)
(* trace keeps the reason of the last one.                                 *)
FinalReport(calls) ==
  /\ phase = "model" /\ turn < MaxTurns
  /\ calls = <<>>
  /\ RecordAssistant(calls)
  /\ reports' = reports + 1
  /\ stopped' \in StopReasons
  /\ turn' = turn + 1
  /\ phase' = IF ordinal = Len(Requests) THEN "done" ELSE "request"
  /\ UNCHANGED <<vars, ordinal, pending, spans>>

CallTools(calls) ==
  /\ phase = "model" /\ turn < MaxTurns
  /\ calls # <<>>
  /\ Len(answers) + Len(calls) <= MaxCalls
  /\ RecordAssistant(calls)
  /\ pending' = calls
  /\ turn' = turn + 1
  /\ phase' = "tools"
  /\ UNCHANGED <<vars, ordinal, spans, reports, stopped>>

(* Mutant: the exhausted loop is noticed one turn too late. *)
OutOfTurns_Late ==
  /\ phase = "model" /\ turn > MaxTurns
  /\ phase' = "done"
  /\ stopped' = "max_turns"
  /\ UNCHANGED <<vars, ordinal, turn, pending, spans, messages, reports>>

(* The for-else of the turn loop: remaining requests are never taken. *)
OutOfTurns ==
  /\ phase = "model" /\ turn = MaxTurns
  /\ phase' = "done"
  /\ stopped' = "max_turns"
  /\ UNCHANGED <<vars, ordinal, turn, pending, spans, messages, reports>>

(* ModelClient.complete raises: nothing in run or run_case catches it. *)
ModelRaises ==
  /\ phase = "model" /\ turn < MaxTurns
  /\ phase' = "aborted"
  /\ UNCHANGED <<vars, ordinal, turn, pending, spans, messages, reports, stopped>>

(* Mutant: the key is derived from the first request, not the current one. *)
Dispatch_ForeignKey(c, intent) ==
  \/ /\ c.tool = ISSUE_REFUND /\ c.complete
     /\ IssueRefund(intent, c.asked, MakeKey(Requests[1], c.asked))
  \/ /\ c.tool \in ReadTools /\ c.complete
     /\ \E found \in BOOLEAN : ReadTool(c.tool, intent, found)
  \/ c.tool = SEND_EMAIL /\ c.complete /\ SendEmail(intent)
  \/ ~c.complete /\ RejectedDispatch(c.tool, intent)

(* The suite's handler for one call.  The agent derives the key itself and *)
(* drops any correlation id the model sent; an unknown tool is refused     *)
(* before the suite is reached.                                            *)
Dispatch(c, intent) ==
  \/ /\ c.tool = ISSUE_REFUND /\ c.complete
     /\ IssueRefund(intent, c.asked, MakeKey(intent, c.asked))
  \/ /\ c.tool \in ReadTools /\ c.complete
     /\ \E found \in BOOLEAN : ReadTool(c.tool, intent, found)
  \/ c.tool = SEND_EMAIL /\ c.complete /\ SendEmail(intent)
  \/ ~c.complete /\ RejectedDispatch(c.tool, intent)

(* send_email has no sequence_reader, an unknown tool no adapter. *)
HasReader(c) == c.tool \in ReadTools \cup {ISSUE_REFUND}

(* Mutant: a call that ledgered nothing spans the next row. *)
SpanOf_AssumesRow(c, before, after) ==
  IF HasReader(c) THEN [started |-> before + 1, ended |-> after]
  ELSE [started |-> NoneSeq, ended |-> NoneSeq]

(* The adapter reads the last ledger position before and after the call. *)
SpanOf(c, before, after) ==
  IF HasReader(c)
    THEN [started |-> IF after > before THEN before + 1 ELSE NoneSeq, ended |-> after]
    ELSE [started |-> NoneSeq, ended |-> NoneSeq]

(* One call of the response runs to its end and is recorded. *)
ExecuteCall ==
  /\ phase = "tools"
  /\ LET c == Head(pending)
     IN  /\ Dispatch(c, CurrentIntent)
         /\ spans' = Append(spans, SpanOf(c, Len(ledger), Len(ledger')))
         /\ messages' = Append(messages, [role |-> "tool", calls |-> <<Call>>])
  /\ pending' = Tail(pending)
  /\ phase' = IF Len(pending) = 1 THEN "model" ELSE "tools"
  /\ UNCHANGED <<ordinal, turn, reports, stopped>>
-----------------------------------------------------------------------------
AgentInit ==
  /\ Init
  /\ phase = "request" /\ ordinal = 0 /\ turn = 0
  /\ pending = <<>> /\ spans = <<>> /\ messages = <<>>
  /\ reports = 0 /\ stopped = "none"

ModelTurn == \E calls \in Responses : FinalReport(calls) \/ CallTools(calls)

AgentNext == NextRequest \/ ModelTurn \/ OutOfTurns \/ ModelRaises \/ ExecuteCall

(* The loop is one thread that is always runnable, and a model client      *)
(* either returns or raises (its requests carry a timeout).                *)
AgentSpec == AgentInit /\ [][AgentNext]_<<vars, agentVars>> /\ WF_<<vars, agentVars>>(AgentNext)
-----------------------------------------------------------------------------
(* Properties *)

AgentTypeOK ==
  /\ phase \in Phases
  /\ ordinal \in 0 .. Len(Requests)
  /\ turn \in 0 .. MaxTurns
  /\ pending \in Seq(Invocations)
  /\ spans \in Seq([started : Nat, ended : Nat])
  /\ messages \in Seq(Message)
  /\ reports \in 0 .. Len(Requests)
  /\ stopped \in StopReasons \cup {"none", "max_turns"}

RowsOfCall(c) == {s \in DOMAIN ledger : ledger[s].call = c}

(* The trace and the ledger are bound call by call: a record with a        *)
(* started_seq spans exactly the rows its call ledgered, one without has   *)
(* none, and apart from the USER_INTENT rows the spans leave nothing out,  *)
(* whatever the call raised (agent/adapters.py: "the complete event range  *)
(* even if the suite raises a timeout after committing").                  *)
SpansPartitionLedger ==
  /\ Len(spans) = Len(answers)
  /\ \A c \in DOMAIN spans :
       IF spans[c].started = NoneSeq THEN RowsOfCall(c) = {}
       ELSE /\ spans[c].started \in RowsOfCall(c)
            /\ RowsOfCall(c) = spans[c].started .. spans[c].ended
  /\ \A s \in DOMAIN ledger :
       \/ ledger[s].type = "user_intent"
       \/ \E c \in DOMAIN spans : /\ spans[c].started # NoneSeq
                                  /\ s \in spans[c].started .. spans[c].ended

MessagesOf(role) == {m \in DOMAIN messages : messages[m].role = role}

(* What a provider requires of the conversation: when the model is asked   *)
(* again, every call of every earlier response has exactly one tool        *)
(* message, in the order of the calls and right behind the response.       *)
ConversationIsAnswered ==
  \A m \in MessagesOf("assistant") :
    LET calls == messages[m].calls
    IN  \A k \in DOMAIN calls :
          /\ m + k \in DOMAIN messages =>
               messages[m + k] = [role |-> "tool", calls |-> <<calls[k]>>]
          /\ phase \in {"request", "model", "done"} => m + k \in DOMAIN messages
          /\ \A n \in MessagesOf("tool") : messages[n].calls = <<calls[k]>> => n = m + k

IntentRows == {s \in DOMAIN ledger : ledger[s].type = "user_intent"}

(* Each request is ledgered when the agent receives it, in order, and      *)
(* every later row until the next one is on behalf of that request         *)
(* (refund_agent.py: "multi-intent cases keep a faithful event order").    *)
IntentsFrameTheLedger ==
  /\ Cardinality(IntentRows) = ordinal
  /\ Cardinality(MessagesOf("user")) = ordinal
  /\ \A s \in DOMAIN ledger :
       ledger[s].intent = Requests[Cardinality({t \in IntentRows : t <= s})]

(* The stop reason is honest: a run with a provider's reason reported on   *)
(* every request, and one out of turns left exactly its last taken request *)
(* without a report and nothing of the later ones on the ledger.           *)
StopReasonIsHonest ==
  /\ (phase = "done" /\ stopped \in StopReasons) =>
       reports = Len(Requests) /\ ordinal = Len(Requests)
  /\ (phase = "done" /\ stopped = "max_turns") =>
       /\ reports = ordinal - 1
       /\ \A i \in ordinal + 1 .. Len(Requests) : ~Recorded(Requests[i])
  /\ phase = "done" => stopped \in StopReasons \cup {"max_turns"}

(* Whatever the model does, the environment only sees what RefundEnv       *)
(* allows: calls on behalf of a recorded request, with that request's own  *)
(* key.  So everything shown of RefundEnv holds of the cases of an agent.  *)
AgentDrivesEnv == Spec

(* Every run ends, whatever the model asks for and however tools fail. *)
RunEnds == <>(phase \in {"done", "aborted"})

(* What a run can still do: a response is a turn and at most               *)
(* MaxCallsPerTurn calls, a request is MaxTurns responses, its row on the  *)
(* ledger and the loop's exit.                                             *)
TurnSteps == MaxCallsPerTurn + 1
RequestSteps == MaxTurns * TurnSteps + 2

StepsLeft ==
  CASE phase \in {"done", "aborted"} -> 0
    [] phase = "request" -> (Len(Requests) - ordinal) * RequestSteps
    [] OTHER -> (Len(Requests) - ordinal) * RequestSteps
                  + (MaxTurns - turn) * TurnSteps + Len(pending) + 1

(* However many tools the model asks for and however they fail, each step  *)
(* of a run uses up what the limits of the loop leave it: there are at     *)
(* most Len(Requests) * RequestSteps of them, whatever the scheduling      *)
(* (agent/refund_agent.py run, AgentLimits.max_turns).                     *)
RunsAreBounded ==
  [](StepsLeft \in Nat) /\ [][StepsLeft' < StepsLeft]_<<vars, agentVars>>

(* What a run leaves behind agrees: the trace's spans cover the ledger,    *)
(* the conversation answers every call, every row is filed under the       *)
(* request being worked on, and the stop reason tells what was left out    *)
(* (agent/refund_agent.py run, agent/recorder.py, agent/adapters.py).      *)
TraceTellsTheRun ==
  /\ AgentTypeOK
  /\ SpansPartitionLedger
  /\ ConversationIsAnswered
  /\ IntentsFrameTheLedger
  /\ StopReasonIsHonest
=============================================================================
