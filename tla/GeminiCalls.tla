---------------------------- MODULE GeminiCalls ----------------------------
(* The free-tier Gemini client (agent/gemini_client.py) and the two        *)
(* commands that drive it: freeze builds a client for each case, benchmark *)
(* b1 shares one.  What a prompt says and an answer means is left out;     *)
(* time, retries and what ends what are kept.                              *)
EXTENDS Integers, Sequences

CONSTANTS
  LastCase,     \* cases 1 .. LastCase are asked about
  Turns,        \* prompts of a frozen case; b1 has one
  MaxRetries, MinInterval, BaseDelay, MaxDelay,
  MaxLatency,   \* bound: how long a request takes
  RetryAfters,  \* bound: what a Retry-After header asks for; 0 when there is none
  MaxClock,     \* bound: no behaviour gets there
  Never

ASSUME GeminiAssumption ==
  /\ LastCase \in Nat \ {0} /\ Turns \in Nat \ {0} /\ MaxRetries \in Nat
  /\ MinInterval \in Nat /\ BaseDelay \in Nat /\ MaxDelay \in Nat
  /\ MaxLatency \in Nat /\ MaxClock \in Nat /\ RetryAfters \subseteq Nat
  /\ Never \notin Nat \cup [client : Nat, end : Nat, retry_after : Nat]

VARIABLES
  command,   \* "freeze" or "b1"
  case, turn,
  last,      \* _last_request_at of the current client
  attempts,
  pc,        \* "prompt", "attempt", "sent", "received" or "ended"
  clock,
  log,       \* the client's list of calls, as their numbers of attempts
  began,     \* history: when the current call began
  previous,  \* history: the last request that returned, [client, end, retry_after]
  answered   \* history: prompts the provider has answered

clientVars == <<last, attempts, log>>
historyVars == <<began, previous, answered>>
vars == <<command, case, turn, pc, clock, clientVars, historyVars>>

Bigger(a, b) == IF a >= b THEN a ELSE b
Smaller(a, b) == IF a <= b THEN a ELSE b

Client == IF command = "freeze" THEN case ELSE 0
Prompts == IF command = "freeze" THEN Turns ELSE 1
Prompt == <<case, turn>>
-----------------------------------------------------------------------------
(* complete, on a prompt no cache answers; the client is built before its  *)
(* first prompt.                                                           *)
Begin ==
  /\ pc = "prompt"
  /\ attempts' = 0 /\ began' = clock
  /\ pc' = "attempt"
  /\ UNCHANGED <<command, case, turn, clock, last, log, previous, answered>>

(* Mutant: only the first attempt of a call waits. *)
PacedUntil_FirstAttempt ==
  IF last = Never \/ attempts > 0 THEN clock ELSE Bigger(clock, last + MinInterval)

(* _pace: when the next request may start. *)
PacedUntil == IF last = Never THEN clock ELSE Bigger(clock, last + MinInterval)

Send ==
  /\ pc = "attempt" /\ clock < MaxClock
  /\ attempts' = attempts + 1
  /\ clock' = PacedUntil
  /\ pc' = "sent"
  /\ UNCHANGED <<command, case, turn, last, log, historyVars>>

(* The request in flight returns after a while: its end is remembered by   *)
(* the client and, with what the provider asked for, as history.           *)
Returns(latency, retryAfter) ==
  /\ pc = "sent"
  /\ last' = clock + latency
  /\ previous' = [client |-> Client, end |-> clock + latency, retry_after |-> retryAfter]

Receive(latency) ==
  /\ Returns(latency, 0)
  /\ clock' = clock + latency
  /\ answered' = answered \cup {Prompt}
  /\ pc' = "received"
  /\ UNCHANGED <<command, case, turn, attempts, log, began>>

Backoff(retryAfter) == Smaller(MaxDelay, Bigger(BaseDelay * 2 ^ (attempts - 1), retryAfter))

(* Mutant: the bound is compared with the retries so far. *)
Exhausted_OneMore == attempts - 1 > MaxRetries

Exhausted == attempts > MaxRetries

(* No status, or one of TRANSIENT_STATUS_CODES, with attempts left: sleep  *)
(* and try again.                                                          *)
Retry(latency, retryAfter) ==
  /\ Returns(latency, retryAfter)
  /\ ~Exhausted
  /\ clock' = clock + latency + Backoff(retryAfter)
  /\ pc' = "attempt"
  /\ UNCHANGED <<command, case, turn, attempts, log, began, answered>>

(* freeze stops at a provider failure and writes the manifest; b1 goes on  *)
(* with the next case.                                                     *)
AfterFailure ==
  IF command = "b1" /\ case < LastCase
    THEN case' = case + 1 /\ turn' = 1 /\ pc' = "prompt"
    ELSE pc' = "ended" /\ UNCHANGED <<case, turn>>

(* A status that is not transient, or no attempts left. *)
GiveUp(latency, transient, retryAfter) ==
  /\ Returns(latency, retryAfter)
  /\ transient => Exhausted
  /\ clock' = clock + latency
  /\ AfterFailure
  /\ UNCHANGED <<command, attempts, log, began, answered>>

(* Another exception (a reply cut short) ends the command. *)
Break(latency) ==
  /\ pc = "sent"
  /\ clock' = clock + latency
  /\ pc' = "ended"
  /\ UNCHANGED <<command, case, turn, clientVars, historyVars>>

(* GeminiResponseError: the answer has no candidate. *)
RejectAnswer ==
  /\ pc = "received"
  /\ AfterFailure
  /\ UNCHANGED <<command, clock, clientVars, historyVars>>

(* The answer is logged; on to the next prompt, or to the next case.       *)
TakeAnswer ==
  /\ pc = "received"
  /\ CASE turn < Prompts ->
            /\ turn' = turn + 1 /\ pc' = "prompt" /\ log' = Append(log, attempts)
            /\ UNCHANGED <<case, last>>
       [] turn = Prompts /\ case < LastCase ->
            /\ case' = case + 1 /\ turn' = 1 /\ pc' = "prompt"
            /\ IF command = "freeze" THEN last' = Never /\ log' = <<>>
                                     ELSE log' = Append(log, attempts) /\ UNCHANGED last
       [] OTHER ->
            /\ pc' = "ended" /\ log' = Append(log, attempts)
            /\ UNCHANGED <<case, turn, last>>
  /\ UNCHANGED <<command, clock, attempts, historyVars>>
-----------------------------------------------------------------------------
Init ==
  /\ command \in {"freeze", "b1"}
  /\ case = 1 /\ turn = 1 /\ pc = "prompt" /\ clock = 0
  /\ last = Never /\ attempts = 0 /\ log = <<>>
  /\ began = 0 /\ previous = Never /\ answered = {}

Next ==
  \/ Begin \/ Send
  \/ \E latency \in 0 .. MaxLatency :
       \/ Receive(latency) \/ Break(latency)
       \/ \E retryAfter \in RetryAfters :
            \/ Retry(latency, retryAfter)
            \/ \E transient \in BOOLEAN : GiveUp(latency, transient, retryAfter)
  \/ RejectAnswer \/ TakeAnswer

Spec == Init /\ [][Next]_vars
-----------------------------------------------------------------------------
(* Properties *)

(* Counters stay in their ranges; the client knows no request that has not *)
(* returned, and has logged no more calls than were answered.              *)
TypeOK ==
  /\ case \in 1 .. LastCase /\ turn \in 1 .. Turns
  /\ attempts \in 0 .. MaxRetries + 1
  /\ clock \in Nat
  /\ last # Never => last = previous.end /\ previous.client = Client
  /\ Len(log) <= LastCase * Turns

(* "Requests are paced" (gemini_client.py:16): a request starts at least   *)
(* MinInterval after the previous one of its client returned, be that a    *)
(* failure, a retry or the answer to another prompt.                       *)
PacedPerClient ==
  pc = "sent" /\ previous # Never /\ previous.client = Client =>
    clock - previous.end >= MinInterval

(* A retry leaves the provider the time it asked for, up to the cap. *)
RetryAfterHonoured ==
  pc = "sent" /\ attempts > 1 => clock - previous.end >= Smaller(MaxDelay, previous.retry_after)

(* "bounded backoff": a call takes at most what its attempts and waits add *)
(* up to in the worst case.                                                *)
CallIsBounded ==
  clock - began <=
    (MaxRetries + 1) * (MinInterval + MaxLatency) + MaxRetries * Bigger(0, MaxDelay - MinInterval)

(* A provider retry never repeats what was answered: no request is sent    *)
(* for a prompt the provider has answered, not even when the answer is of  *)
(* no use.                                                                 *)
AnsweredIsNotAskedAgain == pc = "sent" => Prompt \notin answered

(* The free tier is asked no faster than it allows: after any answer, also *)
(* a failed one, the client waits its interval, and longer where a         *)
(* Retry-After asks for it (gemini_client.py _pace, _call_with_retry).     *)
RequestsArePaced ==
  /\ TypeOK
  /\ PacedPerClient
  /\ RetryAfterHonoured

(* A prompt costs a bounded number of requests in a bounded time, and none *)
(* once it was answered (gemini_client.py _call_with_retry, complete).     *)
CallsAreBounded == CallIsBounded /\ AnsweredIsNotAskedAgain
=============================================================================
