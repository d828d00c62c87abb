---------------------------- MODULE GeminiProofs ----------------------------
(* Theorems of GeminiCalls for every number of cases, prompts and retries, *)
(* and for all delays, latencies and Retry-After headers.                  *)
EXTENDS GeminiCalls, FiniteSetTheorems, TLAPS

Request == [client : Nat, end : Nat, retry_after : Nat]

TypeInv ==
  /\ command \in {"freeze", "b1"}
  /\ case \in 1 .. LastCase /\ turn \in 1 .. Prompts
  /\ pc \in {"prompt", "attempt", "sent", "received", "ended"}
  /\ attempts \in 0 .. MaxRetries + 1
  /\ clock \in Nat /\ began \in 0 .. clock
  /\ last \in Nat \cup {Never} /\ previous \in Request \cup {Never}
  /\ log \in Seq(Nat)
  /\ answered \subseteq (1 .. LastCase) \X (1 .. Turns)

(* The attempts of a call in progress are within its retries. *)
AttemptsInv ==
  /\ pc = "attempt" => attempts <= MaxRetries
  /\ pc = "sent" => attempts >= 1

(* The client remembers the last request, unless another client made it. *)
LastInv ==
  /\ last # Never => previous # Never /\ last = previous.end /\ previous.client = Client
  /\ previous # Never =>
       /\ previous.end <= clock
       /\ previous.client <= Client
       /\ previous.client = Client => last = previous.end

(* The calls of the current client so far. *)
LogInv ==
  /\ pc # "ended" => Len(log) <= (IF command = "freeze" THEN turn ELSE case) - 1
  /\ Len(log) <= (IF command = "freeze" THEN Turns ELSE LastCase)

(* A retry waits for the provider's wish to be over. *)
WaitInv ==
  pc = "attempt" /\ attempts >= 1 =>
    /\ last # Never
    /\ clock - last >= Smaller(MaxDelay, previous.retry_after)

(* How far from its beginning a call can be when n attempts have returned. *)
Excess == Bigger(0, MaxDelay - MinInterval)
Spell(n) == n * (MinInterval + MaxLatency) + (n - 1) * Excess
WholeCall == (MaxRetries + 1) * (MinInterval + MaxLatency) + MaxRetries * Excess

TimeInv ==
  /\ pc = "attempt" /\ attempts = 0 => clock = began
  /\ pc = "attempt" /\ attempts >= 1 =>
       clock - last <= MaxDelay /\ last - began <= Spell(attempts)
  /\ pc = "sent" => clock - began <= Spell(attempts) - MaxLatency
  /\ clock - began <= WholeCall

(* The prompts answered are those before the one that is asked. *)
AnsweredInv ==
  \A p \in answered :
    \/ p[1] < case
    \/ p[1] = case /\ p[2] < turn
    \/ p = Prompt /\ pc \in {"received", "ended"}

IInv ==
  /\ TypeInv /\ AttemptsInv /\ LastInv /\ LogInv
  /\ PacedPerClient /\ WaitInv /\ RetryAfterHonoured /\ TimeInv /\ AnsweredInv

(* Powers of two and the arithmetic of the bound. *)
LEMMA PowerIsNat == ASSUME NEW n \in Nat PROVE 2 ^ n \in Nat
<1>1. IsFiniteSet(1 .. n) /\ Cardinality(1 .. n) = n
  BY FS_Interval, SMT
<1>2. IsFiniteSet(SUBSET (1 .. n)) /\ Cardinality(SUBSET (1 .. n)) = 2 ^ n
  BY <1>1, FS_SUBSET
<1>. QED
  BY <1>2, FS_CardinalityType

LEMMA ExcessType == Excess \in Nat /\ MaxDelay <= MinInterval + Excess
  BY GeminiAssumption DEF Excess, Bigger

LEMMA SpellStep == ASSUME NEW n \in Nat \ {0}
                   PROVE  /\ Spell(n) \in Nat
                          /\ Spell(n + 1) = Spell(n) + MinInterval + MaxLatency + Excess
<1>. DEFINE P == MinInterval + MaxLatency
<1>1. P \in Nat /\ Excess \in Nat
  BY ExcessType, GeminiAssumption
<1>. HIDE DEF P
<1>2. (n + 1) * P = n * P + P /\ (n + 1 - 1) * Excess = (n - 1) * Excess + Excess
  BY <1>1
<1>3. n * P \in Nat /\ (n - 1) * Excess \in Nat
  BY <1>1
<1>4. Spell(n) = n * P + (n - 1) * Excess /\ Spell(n + 1) = (n + 1) * P + (n + 1 - 1) * Excess
  BY DEF Spell, P
<1>5. Spell(n) \in Nat /\ Spell(n + 1) = Spell(n) + P + Excess
  BY <1>1, <1>2, <1>3, <1>4
<1>. QED
  BY <1>5, <1>1, GeminiAssumption DEF P

LEMMA SpellFirst == Spell(1) = MinInterval + MaxLatency
  BY ExcessType, GeminiAssumption DEF Spell

LEMMA SpellBound == ASSUME NEW n \in 1 .. MaxRetries + 1
                    PROVE  Spell(n) <= WholeCall /\ WholeCall \in Nat
<1>. DEFINE P == MinInterval + MaxLatency
            N == MaxRetries + 1
<1>1. P \in Nat /\ Excess \in Nat /\ N \in Nat /\ n \in Nat /\ n <= N /\ n >= 1
  BY ExcessType, GeminiAssumption
<1>2. Spell(n) = n * P + (n - 1) * Excess /\ WholeCall = N * P + (N - 1) * Excess
  BY GeminiAssumption DEF Spell, WholeCall
<1>. HIDE DEF P, N
<1>3. n * P <= N * P /\ (n - 1) * Excess <= (N - 1) * Excess
  BY <1>1
<1>4. n * P \in Nat /\ N * P \in Nat /\ (n - 1) * Excess \in Nat /\ (N - 1) * Excess \in Nat
  BY <1>1
<1>. QED
  BY <1>2, <1>3, <1>4

LEMMA BackoffType == ASSUME NEW retryAfter \in RetryAfters, attempts \in Nat \ {0}
                     PROVE  /\ Backoff(retryAfter) \in 0 .. MaxDelay
                            /\ Backoff(retryAfter) >= Smaller(MaxDelay, retryAfter)
<1>1. attempts - 1 \in Nat
  OBVIOUS
<1>2. 2 ^ (attempts - 1) \in Nat
  BY <1>1, PowerIsNat
<1>3. BaseDelay * 2 ^ (attempts - 1) \in Nat
  BY <1>2, GeminiAssumption
<1>4. retryAfter \in Nat /\ MaxDelay \in Nat
  BY GeminiAssumption
<1>5. ASSUME NEW b \in Nat
      PROVE  /\ Smaller(MaxDelay, Bigger(b, retryAfter)) \in 0 .. MaxDelay
             /\ Smaller(MaxDelay, Bigger(b, retryAfter)) >= Smaller(MaxDelay, retryAfter)
  BY <1>4 DEF Smaller, Bigger
<1>. QED
  BY <1>3, <1>5 DEF Backoff

-----------------------------------------------------------------------------
(* The invariant holds initially, and every action keeps it. *)
LEMMA InitKeeps == Init => IInv
<1>. SUFFICES ASSUME Init PROVE IInv
  OBVIOUS
<1>. USE GeminiAssumption DEF Init
<1>1. TypeInv
  BY DEF TypeInv, Prompts
<1>2. AttemptsInv /\ LastInv /\ WaitInv /\ AnsweredInv
  BY DEF AttemptsInv, LastInv, WaitInv, AnsweredInv
<1>3. LogInv
  BY DEF LogInv
<1>4. PacedPerClient /\ RetryAfterHonoured
  BY DEF PacedPerClient, RetryAfterHonoured
<1>5. TimeInv
  BY SpellBound DEF TimeInv
<1>. QED
  BY <1>1, <1>2, <1>3, <1>4, <1>5 DEF IInv

LEMMA BeginKeeps == IInv /\ Begin => IInv'
<1>. SUFFICES ASSUME IInv, Begin PROVE IInv'
  OBVIOUS
<1>. USE GeminiAssumption DEF Begin, IInv, Client, Prompts
<1>1. TypeInv'
  BY DEF TypeInv
<1>2. AttemptsInv' /\ LastInv' /\ WaitInv'
  BY DEF TypeInv, AttemptsInv, LastInv, WaitInv
<1>3. LogInv'
  BY DEF LogInv
<1>4. PacedPerClient' /\ RetryAfterHonoured'
  BY DEF PacedPerClient, RetryAfterHonoured
<1>5. TimeInv'
  BY SpellBound DEF TimeInv, TypeInv
<1>6. AnsweredInv'
  BY DEF AnsweredInv, TypeInv, Prompt
<1>. QED
  BY <1>1, <1>2, <1>3, <1>4, <1>5, <1>6

LEMMA SendKeeps == IInv /\ Send => IInv'
<1>. SUFFICES ASSUME IInv, Send PROVE IInv'
  OBVIOUS
<1>. USE GeminiAssumption DEF Send, IInv, Client, Prompts, historyVars
<1>1. clock' \in Nat /\ clock' >= clock /\ (last # Never => clock' >= last + MinInterval)
  BY DEF PacedUntil, Bigger, TypeInv
<1>2. TypeInv'
  BY <1>1 DEF TypeInv, AttemptsInv
<1>3. AttemptsInv' /\ WaitInv'
  BY DEF TypeInv, AttemptsInv, WaitInv
<1>4. LastInv'
  BY <1>1 DEF LastInv, TypeInv, Request
<1>5. LogInv'
  BY DEF LogInv
<1>6. PacedPerClient'
  BY <1>1 DEF PacedPerClient, LastInv, TypeInv, Request
<1>7. RetryAfterHonoured'
  <2>1. attempts >= 1 => clock - last >= Smaller(MaxDelay, previous.retry_after)
                         /\ last \in Nat /\ last = previous.end /\ previous \in Request
    BY DEF WaitInv, LastInv, TypeInv
  <2>2. attempts >= 1 => Smaller(MaxDelay, previous.retry_after) \in Nat
    BY <2>1 DEF Smaller, Request
  <2>. QED
    BY <1>1, <2>1, <2>2 DEF RetryAfterHonoured, TypeInv
<1>8. TimeInv'
  <2>1. CASE attempts = 0
    <3>1. clock' - began <= MinInterval
      BY <2>1 DEF TimeInv, PacedUntil, Bigger, LastInv, TypeInv
    <3>2. 1 \in 1 .. MaxRetries + 1
      OBVIOUS
    <3>. QED
      BY <1>1, <2>1, <3>1, <3>2, SpellFirst, SpellBound DEF TimeInv, TypeInv
  <2>2. CASE attempts >= 1
    <3>1. attempts \in Nat \ {0} /\ attempts + 1 \in 1 .. MaxRetries + 1
      BY <2>2 DEF TypeInv, AttemptsInv
    <3>2. last \in Nat /\ clock - last <= MaxDelay /\ last - began <= Spell(attempts)
      BY <2>2 DEF TimeInv, TypeInv, WaitInv
    <3>3. clock' - last <= MinInterval + Excess
      BY <3>2, ExcessType DEF PacedUntil, Bigger, TypeInv
    <3>4. /\ Spell(attempts) \in Nat
          /\ Spell(attempts + 1) = Spell(attempts) + MinInterval + MaxLatency + Excess
          /\ Spell(attempts + 1) <= WholeCall /\ WholeCall \in Nat
      BY <3>1, SpellStep, SpellBound
    <3>5. clock' - began <= Spell(attempts + 1) - MaxLatency
      BY <1>1, <3>2, <3>3, <3>4, ExcessType DEF TypeInv
    <3>6. clock' - began' <= Spell(attempts') - MaxLatency
      BY <3>5
    <3>7. clock' - began' <= WholeCall
      BY <1>1, <3>4, <3>5, ExcessType DEF TypeInv
    <3>. QED
      BY <3>6, <3>7 DEF TimeInv
  <2>. QED
    BY <2>1, <2>2 DEF TypeInv
<1>9. AnsweredInv'
  BY DEF AnsweredInv, TypeInv, Prompt
<1>. QED
  BY <1>2, <1>3, <1>4, <1>5, <1>6, <1>7, <1>8, <1>9

LEMMA RequestIsNotNever ==
  ASSUME NEW r \in Request
  PROVE  r # Never /\ r.client \in Nat /\ r.end \in Nat /\ r.retry_after \in Nat
  BY GeminiAssumption DEF Request

(* A request that returns, whatever comes of it. *)
LEMMA ReturnsKeeps ==
  ASSUME IInv, NEW latency \in 0 .. MaxLatency, NEW retryAfter \in Nat,
         Returns(latency, retryAfter),
         UNCHANGED <<command, attempts, began>>, clock' \in Nat, clock' >= clock + latency
  PROVE  /\ last' \in Nat /\ previous' \in Request /\ last' = previous'.end
         /\ last' >= clock /\ last' <= clock' /\ last' - began <= Spell(attempts)
         /\ last' - began <= WholeCall /\ WholeCall \in Nat
         /\ previous'.client = Client /\ previous'.retry_after = retryAfter
         /\ attempts \in 1 .. MaxRetries + 1
<1>. USE GeminiAssumption DEF IInv, TypeInv, Returns
<1>1. attempts \in 1 .. MaxRetries + 1
  BY DEF AttemptsInv
<1>2. Spell(attempts) \in Nat
  <2>1. attempts \in Nat \ {0}
    BY <1>1
  <2>. QED
    BY <2>1, SpellStep
<1>3. last' - began <= Spell(attempts)
  BY <1>2 DEF TimeInv
<1>4. last' - began <= WholeCall /\ WholeCall \in Nat
  BY <1>1, <1>2, <1>3, SpellBound
<1>. QED
  BY <1>1, <1>3, <1>4 DEF Request, Client

LEMMA ReceiveKeeps ==
  ASSUME IInv, NEW latency \in 0 .. MaxLatency, Receive(latency) PROVE IInv'
<1>. USE GeminiAssumption DEF Receive, IInv, Client, Prompts
<1>1. clock' \in Nat /\ clock' = clock + latency
  BY DEF TypeInv
<1>2. /\ last' \in Nat /\ previous' \in Request /\ last' = previous'.end
      /\ last' = clock' /\ last' - began <= WholeCall
      /\ previous'.client = Client /\ attempts \in 1 .. MaxRetries + 1
  BY <1>1, ReturnsKeeps DEF Returns
<1>3. TypeInv'
  BY <1>1, <1>2 DEF TypeInv, Returns, Prompt
<1>4. AttemptsInv' /\ WaitInv' /\ PacedPerClient' /\ RetryAfterHonoured'
  BY DEF AttemptsInv, WaitInv, PacedPerClient, RetryAfterHonoured
<1>5. LastInv'
  BY <1>1, <1>2, RequestIsNotNever DEF LastInv, TypeInv
<1>6. LogInv'
  BY DEF LogInv, Returns
<1>7. TimeInv'
  BY <1>2 DEF TimeInv
<1>8. AnsweredInv'
  BY DEF AnsweredInv, TypeInv, Prompt, Returns
<1>. QED
  BY <1>3, <1>4, <1>5, <1>6, <1>7, <1>8

LEMMA RetryKeeps ==
  ASSUME IInv, NEW latency \in 0 .. MaxLatency, NEW retryAfter \in RetryAfters,
         Retry(latency, retryAfter)
  PROVE  IInv'
<1>. USE GeminiAssumption DEF Retry, IInv, Client, Prompts
<1>0. attempts \in Nat \ {0} /\ attempts <= MaxRetries
  BY DEF TypeInv, AttemptsInv, Returns, Exhausted
<1>. DEFINE b == Backoff(retryAfter)
<1>a. b \in 0 .. MaxDelay /\ b >= Smaller(MaxDelay, retryAfter)
  BY <1>0, BackoffType
<1>. HIDE DEF b
<1>1. clock' \in Nat /\ clock' = clock + latency + b /\ clock' >= clock + latency
  BY <1>a DEF b, TypeInv
<1>2. /\ last' \in Nat /\ previous' \in Request /\ last' = previous'.end
      /\ last' = clock + latency /\ last' - began <= Spell(attempts)
      /\ previous'.client = Client /\ previous'.retry_after = retryAfter
  BY <1>1, ReturnsKeeps DEF Returns
<1>3. TypeInv'
  BY <1>1, <1>2 DEF TypeInv
<1>4. AttemptsInv' /\ PacedPerClient' /\ RetryAfterHonoured'
  BY <1>0 DEF AttemptsInv, PacedPerClient, RetryAfterHonoured
<1>5. WaitInv'
  BY <1>a, <1>1, <1>2 DEF WaitInv, TypeInv
<1>6. LastInv'
  BY <1>1, <1>2, <1>a, RequestIsNotNever DEF LastInv, TypeInv
<1>7. LogInv'
  BY DEF LogInv, Returns
<1>8. TimeInv'
  <2>1. /\ Spell(attempts) \in Nat
        /\ Spell(attempts + 1) = Spell(attempts) + MinInterval + MaxLatency + Excess
        /\ Spell(attempts + 1) <= WholeCall /\ WholeCall \in Nat
    BY <1>0, SpellStep, SpellBound
  <2>2. clock' - last' <= MaxDelay
    BY <1>1, <1>2, <1>a DEF TypeInv
  <2>3. began \in Nat /\ began' = began
    BY DEF TypeInv
  <2>4. clock' - began' <= WholeCall
    <3>. HIDE DEF Retry, IInv
    <3>. QED
      BY <1>1, <1>2, <2>1, <2>2, <2>3, ExcessType
  <2>. QED
    BY <1>0, <1>2, <2>2, <2>4 DEF TimeInv
<1>9. AnsweredInv'
  BY DEF AnsweredInv, TypeInv, Prompt, Returns
<1>. QED
  BY <1>3, <1>4, <1>5, <1>6, <1>7, <1>8, <1>9

(* A failed or useless prompt is left behind for good. *)
LEMMA AfterFailureKeeps ==
  ASSUME IInv, pc \in {"sent", "received"}, AfterFailure,
         UNCHANGED <<command, log, answered>>
  PROVE  /\ case' \in 1 .. LastCase /\ turn' \in 1 .. Prompts'
         /\ pc' \in {"prompt", "ended"}
         /\ Client <= Client' /\ (Client' # Client => Client < Client')
         /\ LogInv' /\ AnsweredInv'
<1>. USE GeminiAssumption DEF AfterFailure, IInv, TypeInv, Client, Prompts
<1>1. LogInv'
  BY DEF LogInv
<1>2. AnsweredInv'
  BY DEF AnsweredInv, Prompt
<1>. QED
  BY <1>1, <1>2

LEMMA GiveUpKeeps ==
  ASSUME IInv, NEW latency \in 0 .. MaxLatency, NEW retryAfter \in RetryAfters,
         NEW transient \in BOOLEAN, GiveUp(latency, transient, retryAfter)
  PROVE  IInv'
<1>. USE GeminiAssumption DEF GiveUp, IInv
<1>1. clock' \in Nat /\ clock' = clock + latency
  BY DEF TypeInv
<1>2. /\ last' \in Nat /\ previous' \in Request /\ last' = previous'.end
      /\ last' = clock' /\ last' - began <= WholeCall
      /\ previous'.client = Client /\ attempts \in 1 .. MaxRetries + 1
  BY <1>1, ReturnsKeeps DEF Returns
<1>3. /\ case' \in 1 .. LastCase /\ turn' \in 1 .. Prompts'
      /\ pc' \in {"prompt", "ended"} /\ LogInv' /\ AnsweredInv'
  BY AfterFailureKeeps DEF Returns
<1>4. Client' = Client
  BY DEF AfterFailure, Client
<1>5. TypeInv'
  BY <1>1, <1>2, <1>3 DEF TypeInv
<1>6. AttemptsInv' /\ WaitInv' /\ PacedPerClient' /\ RetryAfterHonoured'
  BY <1>3 DEF AttemptsInv, WaitInv, PacedPerClient, RetryAfterHonoured
<1>7. LastInv'
  BY <1>1, <1>2, <1>4, RequestIsNotNever DEF LastInv, Client, TypeInv
<1>8. TimeInv'
  BY <1>2, <1>3 DEF TimeInv
<1>. QED
  BY <1>3, <1>5, <1>6, <1>7, <1>8

LEMMA BreakKeeps ==
  ASSUME IInv, NEW latency \in 0 .. MaxLatency, Break(latency) PROVE IInv'
<1>. USE GeminiAssumption DEF Break, IInv, clientVars, historyVars, Client, Prompts
<1>1. attempts \in 1 .. MaxRetries + 1
  BY DEF TypeInv, AttemptsInv
<1>2. TypeInv'
  BY DEF TypeInv
<1>3. AttemptsInv' /\ WaitInv' /\ PacedPerClient' /\ RetryAfterHonoured'
  BY DEF AttemptsInv, WaitInv, PacedPerClient, RetryAfterHonoured
<1>4. LastInv'
  BY RequestIsNotNever DEF LastInv, TypeInv
<1>5. LogInv'
  BY DEF LogInv
<1>6. TimeInv'
  <2>1. attempts \in Nat \ {0}
    BY <1>1
  <2>2. Spell(attempts) \in Nat /\ Spell(attempts) <= WholeCall /\ WholeCall \in Nat
    BY <1>1, <2>1, SpellStep, SpellBound
  <2>3. clock' - began' <= WholeCall
    BY <2>2 DEF TimeInv, TypeInv
  <2>. QED
    BY <2>3 DEF TimeInv
<1>7. AnsweredInv'
  BY DEF AnsweredInv, Prompt
<1>. QED
  BY <1>2, <1>3, <1>4, <1>5, <1>6, <1>7

LEMMA RejectAnswerKeeps == IInv /\ RejectAnswer => IInv'
<1>. SUFFICES ASSUME IInv, RejectAnswer PROVE IInv'
  OBVIOUS
<1>. USE GeminiAssumption DEF RejectAnswer, IInv, clientVars, historyVars
<1>1. /\ case' \in 1 .. LastCase /\ turn' \in 1 .. Prompts'
      /\ pc' \in {"prompt", "ended"} /\ LogInv' /\ AnsweredInv'
  BY AfterFailureKeeps
<1>2. Client' = Client
  BY DEF AfterFailure, Client
<1>3. TypeInv'
  BY <1>1 DEF TypeInv
<1>4. AttemptsInv' /\ WaitInv' /\ PacedPerClient' /\ RetryAfterHonoured'
  BY <1>1 DEF AttemptsInv, WaitInv, PacedPerClient, RetryAfterHonoured
<1>5. LastInv'
  BY <1>2 DEF LastInv
<1>6. TimeInv'
  BY <1>1 DEF TimeInv
<1>. QED
  BY <1>1, <1>3, <1>4, <1>5, <1>6

LEMMA TakeAnswerKeeps == IInv /\ TakeAnswer => IInv'
<1>. SUFFICES ASSUME IInv, TakeAnswer PROVE IInv'
  OBVIOUS
<1>. USE DEF IInv
<1>a. /\ Append(log, attempts) \in Seq(Nat) /\ Len(log) \in Nat
      /\ Len(Append(log, attempts)) = Len(log) + 1
  BY GeminiAssumption DEF TypeInv
<1>b. /\ turn \in 1 .. Prompts /\ case \in 1 .. LastCase /\ command \in {"freeze", "b1"}
      /\ LastCase \in Nat /\ Turns \in Nat /\ Prompts \in Nat
  BY GeminiAssumption DEF TypeInv, Prompts
<1>1. CASE turn < Prompts
  <2>. USE <1>1
  <2>1. /\ turn' = turn + 1 /\ pc' = "prompt" /\ log' = Append(log, attempts)
        /\ pc = "received"
        /\ UNCHANGED <<command, case, last, clock, attempts, began, previous, answered>>
    BY <1>b DEF TakeAnswer, historyVars
  <2>. HIDE DEF TakeAnswer, historyVars
  <2>. USE <2>1
  <2>2. TypeInv'
    BY <1>a, GeminiAssumption DEF TypeInv, Prompts
  <2>3. AttemptsInv' /\ WaitInv' /\ PacedPerClient' /\ RetryAfterHonoured' /\ TimeInv'
    BY DEF AttemptsInv, WaitInv, PacedPerClient, RetryAfterHonoured, TimeInv
  <2>4. LastInv'
    BY DEF LastInv, Client, TypeInv
  <2>5. LogInv'
    BY <1>a, <1>b DEF LogInv, Prompts
  <2>6. AnsweredInv'
    BY DEF AnsweredInv, TypeInv, Prompts, Prompt
  <2>. QED
    BY <2>2, <2>3, <2>4, <2>5, <2>6
<1>2. CASE turn = Prompts /\ case < LastCase /\ command = "freeze"
  <2>. USE <1>2
  <2>1. /\ case' = case + 1 /\ turn' = 1 /\ pc' = "prompt" /\ last' = Never /\ log' = <<>>
        /\ pc = "received"
        /\ UNCHANGED <<command, clock, attempts, began, previous, answered>>
    BY <1>b DEF TakeAnswer, historyVars
  <2>. HIDE DEF TakeAnswer, historyVars
  <2>. USE <2>1
  <2>2. TypeInv'
    BY <1>a, GeminiAssumption DEF TypeInv, Prompts
  <2>3. AttemptsInv' /\ WaitInv' /\ PacedPerClient' /\ RetryAfterHonoured' /\ TimeInv'
    BY DEF AttemptsInv, WaitInv, PacedPerClient, RetryAfterHonoured, TimeInv
  <2>4. LastInv'
    BY GeminiAssumption, RequestIsNotNever DEF LastInv, Client, TypeInv
  <2>5. LogInv'
    BY <1>a, <1>b DEF LogInv, Prompts
  <2>6. AnsweredInv'
    BY DEF AnsweredInv, TypeInv, Prompts, Prompt
  <2>. QED
    BY <2>2, <2>3, <2>4, <2>5, <2>6
<1>3. CASE turn = Prompts /\ case < LastCase /\ command = "b1"
  <2>. USE <1>3
  <2>1. /\ case' = case + 1 /\ turn' = 1 /\ pc' = "prompt" /\ log' = Append(log, attempts)
        /\ pc = "received"
        /\ UNCHANGED <<command, last, clock, attempts, began, previous, answered>>
    BY <1>b DEF TakeAnswer, historyVars
  <2>. HIDE DEF TakeAnswer, historyVars
  <2>. USE <2>1
  <2>2. TypeInv'
    BY <1>a, GeminiAssumption DEF TypeInv, Prompts
  <2>3. AttemptsInv' /\ WaitInv' /\ PacedPerClient' /\ RetryAfterHonoured' /\ TimeInv'
    BY DEF AttemptsInv, WaitInv, PacedPerClient, RetryAfterHonoured, TimeInv
  <2>4. LastInv'
    BY DEF LastInv, Client, TypeInv
  <2>5. LogInv'
    BY <1>a, <1>b DEF LogInv, Prompts
  <2>6. AnsweredInv'
    BY DEF AnsweredInv, TypeInv, Prompts, Prompt
  <2>. QED
    BY <2>2, <2>3, <2>4, <2>5, <2>6
<1>4. CASE turn = Prompts /\ ~(case < LastCase)
  <2>. USE <1>4
  <2>1. /\ pc' = "ended" /\ log' = Append(log, attempts)
        /\ pc = "received"
        /\ UNCHANGED <<command, case, turn, last, clock, attempts, began, previous, answered>>
    BY <1>b DEF TakeAnswer, historyVars
  <2>. HIDE DEF TakeAnswer, historyVars
  <2>. USE <2>1
  <2>2. TypeInv'
    BY <1>a, GeminiAssumption DEF TypeInv, Prompts
  <2>3. AttemptsInv' /\ WaitInv' /\ PacedPerClient' /\ RetryAfterHonoured' /\ TimeInv'
    BY DEF AttemptsInv, WaitInv, PacedPerClient, RetryAfterHonoured, TimeInv
  <2>4. LastInv'
    BY DEF LastInv, Client, TypeInv
  <2>5. LogInv'
    BY <1>a, <1>b DEF LogInv, Prompts
  <2>6. AnsweredInv'
    BY DEF AnsweredInv, TypeInv, Prompts, Prompt
  <2>. QED
    BY <2>2, <2>3, <2>4, <2>5, <2>6
<1>. QED
  BY <1>1, <1>2, <1>3, <1>4, <1>b

LEMMA StepKeeps == IInv /\ [Next]_vars => IInv'
<1>. SUFFICES ASSUME IInv, [Next]_vars PROVE IInv'
  OBVIOUS
<1>1. CASE Begin
  BY <1>1, BeginKeeps
<1>2. CASE Send
  BY <1>2, SendKeeps
<1>3. ASSUME NEW latency \in 0 .. MaxLatency, Receive(latency) PROVE IInv'
  BY <1>3, ReceiveKeeps
<1>4. ASSUME NEW latency \in 0 .. MaxLatency, Break(latency) PROVE IInv'
  BY <1>4, BreakKeeps
<1>5. ASSUME NEW latency \in 0 .. MaxLatency, NEW retryAfter \in RetryAfters,
             Retry(latency, retryAfter)
      PROVE  IInv'
  BY <1>5, RetryKeeps
<1>6. ASSUME NEW latency \in 0 .. MaxLatency, NEW retryAfter \in RetryAfters,
             NEW transient \in BOOLEAN, GiveUp(latency, transient, retryAfter)
      PROVE  IInv'
  BY <1>6, GiveUpKeeps
<1>7. CASE RejectAnswer
  BY <1>7, RejectAnswerKeeps
<1>8. CASE TakeAnswer
  BY <1>8, TakeAnswerKeeps
<1>9. CASE UNCHANGED vars
  BY <1>9 DEF vars, clientVars, historyVars, IInv, TypeInv, AttemptsInv, LastInv, LogInv,
     PacedPerClient, WaitInv, RetryAfterHonoured, TimeInv, AnsweredInv, Client, Prompts, Prompt
<1>. QED
  BY <1>1, <1>2, <1>3, <1>4, <1>5, <1>6, <1>7, <1>8, <1>9 DEF Next

LEMMA Invariance == Spec => []IInv
  BY InitKeeps, StepKeeps, PTL DEF Spec
-----------------------------------------------------------------------------
(* Theorems *)

(* No client of a freeze or of the benchmark sends a request within        *)
(* MinInterval of the return of its last one, and none before the time a   *)
(* Retry-After asked for is over, whatever the intervals, the caps and the *)
(* provider's delays are (gemini_client.py _pace, _call_with_retry).       *)
THEOREM PacingHolds == Spec => []RequestsArePaced
<1>1. ASSUME IInv PROVE TypeOK
  <2>. USE GeminiAssumption, <1>1 DEF IInv, TypeInv
  <2>1. Prompts \in 1 .. Turns
    BY DEF Prompts
  <2>2. Len(log) <= LastCase * Turns
    <3>1. Len(log) \in Nat /\ (Len(log) <= Turns \/ Len(log) <= LastCase)
      BY DEF LogInv
    <3>2. Turns <= LastCase * Turns /\ LastCase <= LastCase * Turns /\ LastCase * Turns \in Nat
      OBVIOUS
    <3>. QED
      BY <3>1, <3>2
  <2>. QED
    BY <2>1, <2>2 DEF TypeOK, LastInv
<1>2. IInv => RequestsArePaced
  BY <1>1 DEF IInv, RequestsArePaced
<1>. QED
  BY Invariance, <1>2, PTL

(* A prompt costs a bounded time, and none of its requests follows its     *)
(* answer, whatever numbers of retries, cases and prompts are configured   *)
(* (gemini_client.py _call_with_retry, complete).                          *)
THEOREM CallsEnd == Spec => []CallsAreBounded
<1>1. IInv => CallIsBounded
  BY DEF IInv, TimeInv, WholeCall, Excess, CallIsBounded
<1>2. IInv => AnsweredIsNotAskedAgain
  BY GeminiAssumption DEF IInv, AnsweredInv, AnsweredIsNotAskedAgain, Prompt, TypeInv
<1>. QED
  BY Invariance, <1>1, <1>2, PTL DEF CallsAreBounded
=============================================================================
