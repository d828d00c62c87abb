----------------------------- MODULE LiveCalls -----------------------------
(***************************************************************************)
(* Paid model calls of recording sessions: the replay cache                *)
(* (agent/cache.py), the provider client with its retries                  *)
(* (agent/anthropic_client.py) and the spend ceiling over the cost ledger  *)
(* file (agent/budget.py), as freeze_case composes them.                   *)
(*                                                                         *)
(* A session is one run of the command for one case.  Sessions of          *)
(* different cases have caches of their own and share the cost ledger      *)
(* file; any of them may be killed at any step and run again later.        *)
(*                                                                         *)
(* A prompt carries the whole conversation and the model, so its hash is   *)
(* modelled by the sequence of responses received so far (a session and    *)
(* the cache it reads have one model).  Of the cost ledger file only the   *)
(* sum of its rows, its last row's cumulative_usd and whether the file     *)
(* ends in a whole row are kept.                                           *)
(***************************************************************************)
EXTENDS Integers, Sequences

CONSTANTS
  Sessions,     \* one per case being recorded
  Models,       \* models a session may be asked to record with
  Texts,        \* what a model may answer
  Turns,        \* prompts in a case's conversation
  MaxRetries,   \* AnthropicModelClient.max_retries
  AttemptCost,  \* worst-case cost of one attempt
  LimitUsd,     \* BudgetGuard.limit_usd
  MaxStarts,    \* bound: runs of the command per session
  NoModel, NoRecording

ASSUME CostsAssumption ==
  /\ AttemptCost \in Nat /\ LimitUsd \in Nat /\ MaxRetries \in Nat
ASSUME RunsAssumption ==
  /\ Turns \in Nat /\ MaxStarts \in Nat
  /\ NoModel \notin Models

VARIABLES
  spent,      \* CostLedger.total_spent(): the sum over the file's rows
  cumulative, \* cumulative_usd of the file's last row
  tail,       \* how the file ends, see Tails
  cacheFile,  \* cacheFile[s]: the case's replay.json
  pc,         \* what session s does next
  model,      \* the model session s records with
  mem,        \* the ReplayCache object of session s
  conv,       \* responses received so far in the conversation
  attempts,   \* attempts of the call in flight
  billed,     \* what the provider billed for the call in flight
  answer,     \* the response of the call in flight and its cost
  newTotal,   \* cumulative_usd of the row about to be appended
  recording,  \* the conversation a finished session last wrote to its bundle
  discarded,  \* history: --fresh deleted the cache that bundle was written from
  starts      \* runs so far

fileVars == <<spent, cumulative, tail, cacheFile>>
callVars == <<attempts, billed, answer, newTotal>>
runVars == <<recording, discarded, starts>>
vars == <<fileVars, pc, model, mem, conv, callVars, runVars>>
-----------------------------------------------------------------------------
Response == [model : Models, text : Texts]
Key == UNION {[1..n -> Response] : n \in 0..Turns}

NoCache == [model |-> NoModel, entries |-> <<>>]

Idle == {"closed", "crashed"}
Calling == {"sending", "answered", "appending", "recorded"}

(* The cost ledger ends in a whole row, in one whose newline is missing,   *)
(* or somewhere has a line that json.loads does not take.  entries() then  *)
(* raises, whoever reads it, and no code repairs the file.                 *)
Tails == {"whole", "unterminated", "torn"}

Readable == tail # "torn"

Set(f, s, value) == [f EXCEPT ![s] = value]

(* estimate_call_cost: every attempt of the retry policy at its worst. *)
Estimate == AttemptCost * (MaxRetries + 1)

Known(s) == conv[s] \in DOMAIN mem[s].entries

Cached(cache, key, response, m) ==
  [model |-> m,
   entries |-> [k \in DOMAIN cache.entries \cup {key} |->
                  IF k = key THEN response ELSE cache.entries[k]]]
-----------------------------------------------------------------------------
(* Mutant: a resumed session starts from an empty cache object. *)
Open_ForgetsEntries(s, m, fresh) ==
  /\ pc[s] \in Idle /\ starts[s] < MaxStarts
  /\ fresh \/ cacheFile[s].model \in {NoModel, m}
  /\ cacheFile' = IF fresh THEN Set(cacheFile, s, NoCache) ELSE cacheFile
  /\ mem' = Set(mem, s, NoCache)
  /\ discarded' = IF fresh THEN Set(discarded, s, TRUE) ELSE discarded
  /\ model' = Set(model, s, m)
  /\ conv' = Set(conv, s, <<>>)
  /\ pc' = Set(pc, s, "prompt")
  /\ starts' = Set(starts, s, starts[s] + 1)
  /\ UNCHANGED <<spent, cumulative, tail, callVars, recording>>

(* Mutant: the recorded model is not compared with the requested one. *)
Open_AnyModel(s, m, fresh) ==
  /\ pc[s] \in Idle /\ starts[s] < MaxStarts
  /\ cacheFile' = IF fresh THEN Set(cacheFile, s, NoCache) ELSE cacheFile
  /\ mem' = Set(mem, s, cacheFile'[s])
  /\ discarded' = IF fresh THEN Set(discarded, s, TRUE) ELSE discarded
  /\ model' = Set(model, s, m)
  /\ conv' = Set(conv, s, <<>>)
  /\ pc' = Set(pc, s, "prompt")
  /\ starts' = Set(starts, s, starts[s] + 1)
  /\ UNCHANGED <<spent, cumulative, tail, callVars, recording>>

(* freeze_case: load the cache or, with --fresh, delete it; a cache of     *)
(* another model is refused before any call.                               *)
Open(s, m, fresh) ==
  /\ pc[s] \in Idle /\ starts[s] < MaxStarts
  /\ fresh \/ cacheFile[s].model \in {NoModel, m}
  /\ cacheFile' = IF fresh THEN Set(cacheFile, s, NoCache) ELSE cacheFile
  /\ mem' = Set(mem, s, cacheFile'[s])
  /\ discarded' = IF fresh THEN Set(discarded, s, TRUE) ELSE discarded
  /\ model' = Set(model, s, m)
  /\ conv' = Set(conv, s, <<>>)
  /\ pc' = Set(pc, s, "prompt")
  /\ starts' = Set(starts, s, starts[s] + 1)
  /\ UNCHANGED <<spent, cumulative, tail, callVars, recording>>

(* A recorded prompt is answered from the cache; no client is touched. *)
Hit(s) ==
  /\ pc[s] = "prompt" /\ Len(conv[s]) < Turns
  /\ Known(s)
  /\ conv' = Set(conv, s, Append(conv[s], mem[s].entries[conv[s]]))
  /\ UNCHANGED <<fileVars, pc, model, mem, callVars, runVars>>

(* Mutant: the projection leaves out what was already spent. *)
Affordable_ThisCallOnly == Estimate <= LimitUsd

Affordable == spent + Estimate <= LimitUsd

(* authorize reads the whole ledger file and compares; the request is sent *)
(* later, and nothing is reserved for it meanwhile.                        *)
Authorize(s) ==
  /\ pc[s] = "prompt" /\ Len(conv[s]) < Turns
  /\ ~Known(s)
  /\ Readable /\ Affordable
  /\ pc' = Set(pc, s, "sending")
  /\ attempts' = Set(attempts, s, 0)
  /\ billed' = Set(billed, s, 0)
  /\ UNCHANGED <<fileVars, model, mem, conv, answer, newTotal, runVars>>

(* BudgetExceededError, or the JSONDecodeError of a torn ledger, ends the  *)
(* command before anything is sent.                                        *)
RefuseCall(s) ==
  /\ pc[s] = "prompt" /\ Len(conv[s]) < Turns
  /\ ~Known(s)
  /\ ~(Readable /\ Affordable)
  /\ pc' = Set(pc, s, "closed")
  /\ UNCHANGED <<fileVars, model, mem, conv, callVars, runVars>>

Succeed(s, text, cost) ==
  /\ pc[s] = "sending"
  /\ attempts' = Set(attempts, s, attempts[s] + 1)
  /\ billed' = Set(billed, s, billed[s] + cost)
  /\ answer' = Set(answer, s, [response |-> [model |-> model[s], text |-> text], cost |-> cost])
  /\ pc' = Set(pc, s, "answered")
  /\ UNCHANGED <<fileVars, model, mem, conv, newTotal, runVars>>

(* Mutant: a transient failure starts the call over. *)
Fail_StartsOver(s, transient, cost) ==
  /\ pc[s] = "sending"
  /\ attempts' = Set(attempts, s, 0)
  /\ billed' = Set(billed, s, cost)
  /\ pc' = IF transient THEN pc ELSE Set(pc, s, "closed")
  /\ UNCHANGED <<fileVars, model, mem, conv, answer, newTotal, runVars>>

(* A failed attempt may be billed; it is retried when it is transient and  *)
(* attempts are left, otherwise it ends the command unrecorded.            *)
Fail(s, transient, cost) ==
  /\ pc[s] = "sending"
  /\ attempts' = Set(attempts, s, attempts[s] + 1)
  /\ billed' = Set(billed, s, billed[s] + cost)
  /\ pc' = IF transient /\ attempts[s] + 1 <= MaxRetries THEN pc ELSE Set(pc, s, "closed")
  /\ UNCHANGED <<fileVars, model, mem, conv, answer, newTotal, runVars>>

(* CostLedger.append reads the file's total for the new row.  If another   *)
(* session has torn the file since this one was authorised, that raises    *)
(* and the paid answer is dropped with its cost.                           *)
ReadTotal(s) ==
  /\ pc[s] = "answered"
  /\ IF Readable
       THEN /\ newTotal' = Set(newTotal, s, spent + answer[s].cost)
            /\ pc' = Set(pc, s, "appending")
       ELSE pc' = Set(pc, s, "closed") /\ UNCHANGED newTotal
  /\ UNCHANGED <<fileVars, model, mem, conv, attempts, billed, answer, runVars>>

(* A row is one only at the start of a line: behind an unterminated one it *)
(* spoils both.                                                            *)
PutRow(s, end) ==
  IF tail = "whole"
    THEN spent' = spent + answer[s].cost /\ cumulative' = newTotal[s] /\ tail' = end
    ELSE tail' = "torn" /\ UNCHANGED <<spent, cumulative>>

(* Then it appends the row to the file. *)
AppendRow(s) ==
  /\ pc[s] = "appending"
  /\ PutRow(s, "whole")
  /\ pc' = Set(pc, s, "recorded")
  /\ UNCHANGED <<cacheFile, model, mem, conv, callVars, runVars>>

(* Mutant: the file is rewritten with the newest response alone. *)
Put_LastOnly(s) ==
  /\ pc[s] = "recorded"
  /\ mem' = Set(mem, s, Cached(mem[s], conv[s], answer[s].response, model[s]))
  /\ cacheFile' = Set(cacheFile, s, Cached(NoCache, conv[s], answer[s].response, model[s]))
  /\ conv' = Set(conv, s, Append(conv[s], answer[s].response))
  /\ pc' = Set(pc, s, "prompt")
  /\ UNCHANGED <<spent, cumulative, tail, model, callVars, runVars>>

(* ReplayCache.put: the whole cache object replaces the file atomically;   *)
(* an object of another model raises first.                                *)
Put(s) ==
  /\ pc[s] = "recorded"
  /\ IF mem[s].model \in {NoModel, model[s]}
       THEN /\ mem' = Set(mem, s, Cached(mem[s], conv[s], answer[s].response, model[s]))
            /\ cacheFile' = Set(cacheFile, s, mem'[s])
            /\ conv' = Set(conv, s, Append(conv[s], answer[s].response))
            /\ pc' = Set(pc, s, "prompt")
       ELSE pc' = Set(pc, s, "closed") /\ UNCHANGED <<mem, cacheFile, conv>>
  /\ UNCHANGED <<spent, cumulative, tail, model, callVars, runVars>>

(* The case's bundle is written; the next run serves it from the cache. *)
Finish(s) ==
  /\ pc[s] = "prompt" /\ Len(conv[s]) = Turns
  /\ recording' = Set(recording, s, conv[s])
  /\ discarded' = Set(discarded, s, FALSE)
  /\ pc' = Set(pc, s, "closed")
  /\ UNCHANGED <<fileVars, model, mem, conv, callVars, starts>>

Crash(s) ==
  /\ pc[s] \notin Idle
  /\ pc' = Set(pc, s, "crashed")
  /\ UNCHANGED <<fileVars, model, mem, conv, callVars, runVars>>

(* The kill comes while the row is being written: of its text all but the  *)
(* newline is in the file, or less.                                        *)
CrashInAppend(s) ==
  /\ pc[s] = "appending"
  /\ \/ PutRow(s, "unterminated")
     \/ tail' = "torn" /\ UNCHANGED <<spent, cumulative>>
  /\ pc' = Set(pc, s, "crashed")
  /\ UNCHANGED <<cacheFile, model, mem, conv, callVars, runVars>>
-----------------------------------------------------------------------------
Init ==
  /\ spent = 0 /\ cumulative = 0 /\ tail = "whole"
  /\ cacheFile = [s \in Sessions |-> NoCache]
  /\ pc = [s \in Sessions |-> "closed"]
  /\ model = [s \in Sessions |-> NoModel]
  /\ mem = [s \in Sessions |-> NoCache]
  /\ conv = [s \in Sessions |-> <<>>]
  /\ attempts = [s \in Sessions |-> 0]
  /\ billed = [s \in Sessions |-> 0]
  /\ answer = [s \in Sessions |-> [response |-> NoModel, cost |-> 0]]
  /\ newTotal = [s \in Sessions |-> 0]
  /\ recording = [s \in Sessions |-> NoRecording]
  /\ discarded = [s \in Sessions |-> FALSE]
  /\ starts = [s \in Sessions |-> 0]

(* What an open session does by itself. *)
Proceed(s) ==
  \/ Hit(s) \/ Authorize(s) \/ RefuseCall(s)
  \/ \E cost \in 0 .. AttemptCost :
       \/ \E text \in Texts : Succeed(s, text, cost)
       \/ \E transient \in BOOLEAN : Fail(s, transient, cost)
  \/ ReadTotal(s) \/ AppendRow(s) \/ Put(s) \/ Finish(s)

Next ==
  \E s \in Sessions :
    \/ \E m \in Models, fresh \in BOOLEAN : Open(s, m, fresh)
    \/ Proceed(s)
    \/ Crash(s) \/ CrashInAppend(s)

(* An open session is a running process; a request returns or times out. *)
Spec == Init /\ [][Next]_vars /\ \A s \in Sessions : WF_vars(Proceed(s))
-----------------------------------------------------------------------------
(* Properties *)

TypeOK ==
  /\ spent \in Nat /\ cumulative \in Nat /\ tail \in Tails
  /\ \A s \in Sessions :
       /\ cacheFile[s].model \in Models \cup {NoModel} /\ mem[s].model \in Models \cup {NoModel}
       /\ pc[s] \in Idle \cup Calling \cup {"prompt"}
       /\ conv[s] \in Key
       /\ attempts[s] \in 0 .. MaxRetries + 1
       /\ billed[s] \in 0 .. Estimate

(* A call in flight, with every retry that was billed, fits under the      *)
(* ceiling together with everything on the ledger, for a session that has  *)
(* the ledger to itself (budget.py: "worst-case cost ... including every   *)
(* retry attempt").                                                        *)
InFlightIsCovered ==
  \A s \in Sessions :
    pc[s] \in {"sending", "answered", "appending"} => spent + billed[s] <= LimitUsd

(* cumulative_usd of the last row is the sum of all rows, of a torn ledger *)
(* those it had when it could still be read.                               *)
LedgerAddsUp == cumulative = spent

(* A response that is on disk is never paid for again: no session is in a  *)
(* call for a prompt that its case's cache file answers.                   *)
SavedIsNeverPaidAgain ==
  \A s \in Sessions : pc[s] \in Calling => conv[s] \notin DOMAIN cacheFile[s].entries

(* The cache file alone replays the conversation that the case's bundle    *)
(* was written from, as replay_case does: later runs, finished or killed,  *)
(* only add to it, unless one of them was told to discard it.              *)
RecordingIsReplayable ==
  \A s \in Sessions :
    recording[s] # NoRecording /\ ~discarded[s] =>
      \A n \in 1 .. Turns :
        LET key == SubSeq(recording[s], 1, n - 1)
        IN  key \in DOMAIN cacheFile[s].entries
            /\ cacheFile[s].entries[key] = recording[s][n]

(* A cache never mixes models: every response in it is by the model that   *)
(* the file names.                                                         *)
OneModelPerCache ==
  \A s \in Sessions : \A k \in DOMAIN cacheFile[s].entries :
    cacheFile[s].entries[k].model = cacheFile[s].model

(* Once its cost is recorded only a crash can lose a paid answer: the      *)
(* session either is killed or has the response on disk next.              *)
PaidIsSaved ==
  [][\A s \in Sessions :
       (pc[s] = "recorded" /\ pc'[s] \notin {"recorded", "crashed"})
         => conv[s] \in DOMAIN cacheFile'[s].entries]_vars

(* Every run of the command ends: retries are bounded and a conversation   *)
(* has finitely many turns.                                                *)
SessionEnds == \A s \in Sessions : pc[s] \notin Idle ~> pc[s] \in Idle

(* What an open session can still do: for each turn that is left one       *)
(* authorization, every attempt, the two steps of the ledger and the       *)
(* cache, and the bundle at the end; CallStage counts what the call in     *)
(* flight has used of its turn.                                            *)
CallSteps == MaxRetries + 5

CallStage(s) ==
  CASE pc[s] = "sending" -> attempts[s] + 1
    [] pc[s] = "answered" -> MaxRetries + 2
    [] pc[s] = "appending" -> MaxRetries + 3
    [] pc[s] = "recorded" -> MaxRetries + 4
    [] OTHER -> 0

StepsLeft(s) ==
  IF pc[s] \in Idle THEN 0
  ELSE (Turns - Len(conv[s])) * CallSteps + 1 - CallStage(s)

(* Whatever the provider answers, each step of a running command uses up   *)
(* one of at most Turns * CallSteps + 1, and no other session gives it     *)
(* more: retries and turns cannot go on for ever (anthropic_client.py      *)
(* complete, refund_agent.py run).                                         *)
SessionsAreBounded ==
  /\ [](\A s \in Sessions : StepsLeft(s) \in 0 .. Turns * CallSteps + 1)
  /\ [][\E s \in Sessions :
          /\ pc[s] \in Idle \/ StepsLeft(s)' < StepsLeft(s)
          /\ \A t \in Sessions \ {s} : UNCHANGED StepsLeft(t)]_vars

(* Says agent/budget.py:5: spend is persisted "so the ceiling holds across *)
(* processes and sessions, not just within one run".                       *)
CeilingHolds == spent <= LimitUsd

(* What a kill or a second run finds on disk is sound: the cost ledger     *)
(* adds up, no cache mixes models, and a recording replays from its cache, *)
(* with every counter of the running call in its range (agent/budget.py    *)
(* append, agent/cache.py, freeze.py freeze_case).                         *)
RecordsAreSound ==
  /\ TypeOK
  /\ LedgerAddsUp
  /\ OneModelPerCache
  /\ RecordingIsReplayable
=============================================================================
