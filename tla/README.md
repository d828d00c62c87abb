# ProofTrail in TLA+

ProofTrail runs a customer-service agent that issues refunds through a tool
suite which injects faults, keeps a hash-chained event ledger of what really
happened, and audits the agent's final report against that ledger.  It freezes
the runs into a dataset, lets humans review the labels, and compares its auditor
with an LLM baseline.  This directory holds TLA+ models of the parts that have
state and order, TLC runs over small instances, and TLAPS proofs.

`tlc -config X.cfg M` checks a run, `tlapm M.tla` the proofs of each of the eight
modules `...Proofs`.
`PROJECT.json` says for every definition which lines of the source it models.

## Inventory of the system

| component | source (under `prooftrail/`) | state | operations |
|---|---|---|---|
| refund environment | `env/`, `ids.py`, `schemas/events.py` | SQLite tables `orders`, `refunds`, ledger rows; call counter and `fired` log of the fault injector; `sent_emails` | `RefundTool.call` and its five tools, `Ledger.user_intent` |
| label builder | `scenarios/ground_truth.py` | none (pure over a ledger) | `derive_ledger_facts`, `propose_ground_truth` |
| auditor | `auditor/` | none | `extract_claims`, `link_claim`, `verify_temporal`, `reconcile`, `audit`, certificates |
| agent loop | `agent/refund_agent.py`, `recorder.py`, `adapters.py`, `tool_defs.py`, `runner.py` | messages, tool call records, reports, attempt ordinal, stop reason | `RefundAgent.run`, `ToolSuiteAction.execute`, `run_case`, `write_case_artifacts` |
| live calls | `agent/cache.py`, `budget.py`, `anthropic_client.py`, `gemini_client.py` | the case's `replay.json` and its object in memory; `cost_ledger.jsonl`; attempts, pacing clock | `complete`, `put`, `clear`, `authorize`, `record`, retries |
| frozen dataset | `freeze.py`, `agent/replay.py`, `cli.py` | a directory of six files per case, a manifest, the replay caches | `freeze_case`, `replay_case`, `build_manifest`, `--skip-frozen`, `--fresh` |
| human review | `review.py`, `schemas/review.py` | a decision file per case, a review manifest | `create_decision`, `validate_decision`, `write_decision`, `resolve_reviewed_truth`, `build_review_manifest` |
| benchmark | `benchmark.py`, `benchmark_report.py`, `baselines/`, `eval/` | run artifacts, baseline caches | `run_b1_benchmark`, `build_comparison_report`, `evaluate_outputs` |
| scenarios | `scenarios/families.py`, `generator.py`, `env/seed_data.py` | none | the catalogue of ten families, seeded customers and orders |
| presentation | `cli.py`, `ui/`, `demo.py` | none | argument parsing, printing, HTML |

How they interact.  The agent loop calls the tool suite synchronously through
an adapter that reads the last ledger sequence before and after each call.
`run_case` hands the finished ledger and trace to the auditor and to the label
builder, which must not see each other's results.  `freeze_case` puts a replay
cache between the agent loop and the provider client; the provider client asks
the budget guard, whose cost ledger is a file shared by every process.  Review
and benchmark read the frozen files and bind what they write to their hashes.

What is hard.  Nothing in a case is concurrent: one thread, one in-memory
database.  The difficulty there is *order*: retries after timeouts that did or
did not commit, faults that answer something other than what was done, requests
that span turns, a transaction over two stores that may fail half way.  Around
the cases there are *processes and files*: commands that are killed and run
again, two commands on one cost ledger, caches that are cleared and rebuilt,
bundles written file by file, decisions that go stale.  The list, each at its
line, is `hazards` in `PROJECT.json`.

What makes each part correct:

- environment: ledger and database tell the same story whatever fails; no key
  commits twice; the balances of an order chain through the ledger; an answer
  of success is backed by the rows, except where a fault is meant to lie; a
  fault fires exactly at its call; history is never rewritten.
- label builder and auditor: they agree; they never blame a timeout; they never
  change their mind about the first bad event; a clean label is true of the money.
- agent loop: trace, conversation and ledger are bound to one another; the run
  ends; the stop reason says why.
- live calls: a paid answer is saved and not bought again; the ceiling covers
  every retry; a recording can be replayed; a cache holds one model.
- dataset, review, benchmark: nothing stale or half-written passes for valid.

## Modules

| module | models | kind |
|---|---|---|
| `RefundEnv` | database, ledger, fault injector, tool suite | component |
| `LedgerAudit` | `verify_temporal`, `derive_ledger_facts`, `propose_ground_truth` over the ledgers `RefundEnv` writes | pure operators composed with the component |
| `RefundContract` | what an at-most-once refund service promises | abstract specification |
| `RefundImplementation` | `RefundEnv` as an implementation of `RefundContract` | refinement |
| `RefundAgent` | the agent loop over `RefundEnv` | composition |
| `LiveCalls` | replay cache, spend ceiling, provider retries, `freeze_case` | component |
| `WireFormat` | the conversation of `RefundAgent` as the provider clients send it | pure operators composed with the component |
| `FreezeRun` | the freeze and manifest commands over all cases, bundles, manifest, replay | component |
| `GeminiCalls` | the free-tier client's pacing and retries, under the two commands that drive it | component |
| `ClaimAudit` | claims, evidence linker, reconciler, pipeline over the ledgers `RefundEnv` writes | pure operators composed with the component |
| `Review` | human review: packs, decisions, their files, the review manifest | component |
| `ReviewContract` | what review promises whoever uses its labels | abstract specification |
| `ComparisonReport` | metrics and the numbers of the comparison report | pure operators |
| `Benchmark` | the baseline command, its caches and artifacts, and the report, over `ReviewContract` | composition |
| `RefundEnvProofs` | theorems about `RefundEnv`, and that it implements `RefundContract` | proofs |
| `LedgerAuditProofs` | theorems about `LedgerAudit` and `ClaimAudit` on the ledgers of `RefundEnv` | proofs |
| `RefundAgentProofs` | theorems about `RefundAgent`, and that it drives `RefundEnv` | proofs |
| `LiveCallsProofs`, `GeminiProofs`, `FreezeRunProofs`, `BenchmarkProofs` | theorems about `LiveCalls`, `GeminiCalls`, `FreezeRun`, `Benchmark` | proofs |
| `ReviewProofs` | theorems about `Review`, and that it implements `ReviewContract` | proofs |
| `MC...` | constants of the runs | model checking |

### RefundEnv

`orders` and `refunds` are the tables, `ledger` the rows in order (a row's seq
is its position), `refundCalls` the fault injector's counter, `fired` its log,
`plan` the fault of each call index, `answers` what the caller was told.
`OtherStep` groups the steps that change no business state: `RecordUserIntent`, `ReadTool`,
`SendEmail`, `RejectedDispatch`.  A handler runs to its end before the next, so each
action is one whole outcome of `RefundTool.issue_refund`, in the order of its
early returns: invalid amount or order, conflict, replay, timeout before the
commit, phantom success, misroute without a target, non-positive amount, storage
failure with rollback, commit (answered, or timed out after it).  Each appends
all of its rows.  Cents are integers; `PARTIAL_COMMIT` rounds half to even as
Python does.  The four kinds of id stay apart: the call id is the ordinal of the
call, the transaction id the row it will occupy, a derived key the triple it is
a digest of.  A collision of digests is not modelled; neither are row times,
texts and row hashes.

### LedgerAudit

Operators with the code's names (`verify_temporal`, `derive_ledger_facts`,
`propose_ground_truth`) that take a ledger; the properties apply them to the
ledgers the environment really writes, together with the answers and the
database the auditor does not see.

### ClaimAudit

The auditor's side of a claim: `infer_intents` and `link_claim` find the requests
and rows a claim is about, `reconcile_claim` judges it, `run` is the pipeline with
or without the temporal verifier.  A claim is a record of order, amount, count and
kind; `Claims` holds every one over small sets.  An order leads to the requests whose
refund calls name it and to those that `Mentions` lists: by their text, or by the
arguments of a call that is no refund (`lookup_order`, `list_refunds`, an `issue_refund`
that lacks an argument), which `RefundEnv` makes without arguments.  Both auditor modules are checked on the
same ledgers, in the same run, against what the auditor never sees: the refunds
table and the answers the agent was given.

### RefundContract, RefundImplementation

`RefundContract` knows only keys, payments and what the caller was told: `Pay`
(with or without an answer), `Confirm`, `Refuse`, `Lie`.  A success that was told
names the payment.  `RefundImplementation` maps `refunds` to payments, the refund
answers to what was told and the case's fault plan to `lies`, and every
environment step is a step of the contract or a stutter, checked and proved.

### RefundAgent

Extends `RefundEnv` with the recorder's `messages`, the trace's records, the
reports, the responses still to execute and the stop reason.  A model response
is any sequence of calls up to a bound, well-formed or with arguments missing.  A
final report keeps the reason the provider stopped for (`StopReasons`), which is never
the loop's own `max_turns`.
Executing a call takes one `RefundEnv` step and records it with the span the
adapter reads off the ledger, in one action.  `AgentDrivesEnv` says that the
composed system only does what `RefundEnv` allows, so that every property proved
of `RefundEnv` holds of agent runs; it is proved as well.

### WireFormat

`to_contents` folds the recorded messages into what is sent, as both clients do
(they differ in ids and in the name of a role).  The property holds whenever the
model is asked, for every choice of blank responses.

### LiveCalls

A session is one run of `freeze_case`: it opens or clears the cache, answers
recorded prompts from it, asks the guard, sends, retries, reads the cost
ledger's total, appends its row, saves the answer, and finishes by writing the
bundle.  The points where another process can act or the process can be killed
are separate steps.  A prompt is the conversation so far.  An attempt's cost is
any amount up to the worst case, failed attempts included.  `discarded` is the
only history variable.

A row is appended in place, so a kill may leave part of a line (`CrashInAppend`).
`tail` says how the file ends: in a whole row, in one that only lacks its newline
(which the next row then runs into), or *torn*.  From then on `entries` raises, nothing
in the code repairs the file, and every later call that is not in the cache is
refused (`Readable`); a paid answer whose row finds the file torn by someone else is lost.

### FreezeRun

A run of a case is a function of the model's responses, so `Recording` (the model
and its responses) stands for everything derived from one: `case.json`, the
labels, the audit with its certificates, the summary.  Which recordings pass
`smoke_checks` depends on all of their responses (a check is that tools were called,
which an answer before the last one does), so `Passing` is any set of them; the
run's has an early call and a late report.  `bundle[c][f]` is the
recording file `f` was derived from, absent, or torn.  A command (`cmd`) works
through the selected cases (`todo`): it loads or discards the cache, checks the
model, receives its turns (`RecordTurn` saves each one before it goes on), writes
the bundle file by file and rebuilds the manifest.  Each early return of `_freeze`
is an action of its own, and `Return` is what they share.  A command may be killed
at any step, with the file it was writing left torn; the cache is replaced
atomically by the code and is never torn.  `LiveCalls` looks inside the turn that
is one step here; the two meet in the cache file.  The module runs one command at
a time.  An exception that `_freeze` does not catch, as from a torn cost ledger
(`cli.py:582`), ends a command like a kill that tears nothing (`Kill`).  `discarded` is the only history variable.

### GeminiCalls

One client's life under `freeze` (a client per case) or `benchmark b1` (one for all
cases).  `clock` moves with every request and every sleep, so pacing is a property
of times and not of a counter.  A request returns (`Receive`, `Retry`, `GiveUp`) or
raises something the client does not catch (`Break`); an answer of no use
(`RejectAnswer`) comes after the retry loop.  `began`, `previous` and `answered`
are history.

### Review, ReviewContract

Each reviewer's command reads a pack, looks for an existing decision, creates one
(the source hashes are taken from disk at that moment), looks again, opens the file
and fills it; the dataset may be frozen again, files edited or removed by hand and
the command killed at any of these points, and two commands may overlap.  A hash
stands for what it is computed from; `intact` says that a decision still has the
hash it was made with.  `ReviewContract` keeps only what a user of the labels needs:
attestations, the one that stands for a case, and whether it counts now.  `Review`
implements it, and accepts exactly what it accepts.  `attested`, `lastOf` and
`overlapped` are history.

### Benchmark, ComparisonReport

`Benchmark` extends `ReviewContract`, so it sees labels as review promises them and
not how decision files behave: a decision is made, checked and written in one step here
(`Review`), where the module `Review` takes the same command apart and implements the
contract.  A B1 command takes its spec from the manifest,
clears (`--fresh`), answers from the caches or asks the provider, scores each
completion as it is, and writes four files one after the other.  The report is
a function of what is on disk and checked in every state.  `ComparisonReport` holds
its numbers as exact fractions.  `finished` and `replayable` are history.

## Runs

| run | instance | shows |
|---|---|---|
| `RefundEnvIdempotent` | 2 orders, 2 intents, an unknown order, amounts 0, 1 and 3, every single fault at call 1 or 2, storage failure any time | the environment's invariants and that history is kept |
| `LedgerAuditUnsafe` | idempotency off, 2 requests, 3 calls, every single fault, every claim over 2 orders, 1 amount and 2 counts | auditor and label builder agree, blame is right and stable, labels and supported claims are true of the database, cited rows suffice, an agent repeating its tools' lies is caught, a true report passes, and what the temporal verifier adds is exactly the repeats |
| `RefundImplementation` | 1 order, 1 request retried up to 4 times, its own and an explicit key, every schedule of timeouts, any two faults at the first two calls, storage failures | the environment implements the contract; retrying safely is never held against the agent |
| `RefundAgentRun` | 2 requests, 2 turns, 2 calls per response, 2 stop reasons of the provider, every single fault | the bindings of the trace, that what is sent is a conversation a provider accepts, and that runs end |
| `LiveCallsAlone` | 1 session run up to 3 times, 2 models, 2 texts, 2 turns, 1 retry, ceiling reachable, kills anywhere, also in the middle of a row | the spend and cache invariants and that runs end |
| `FreezeRunCommands` | 2 cases of 2 turns, 2 models, any 2 commands | exit status, manifest and `--skip-frozen` mean what they say; a frozen case replays from its cache; commands end |
| `GeminiPacing` | 2 cases of 2 prompts, 2 retries, delays in the proportions of the defaults, Retry-After below and above the cap | requests are paced, waits honoured, a call is bounded in requests and time, and no answered prompt is asked again |
| `ReviewDecisions` | 2 cases, 2 reviewers, any 2 decisions, 1 case frozen again | only what was attested for what is on disk counts; review implements its contract |
| `BenchmarkReport` | 2 cases of different families, 2 runs, any 2 commands for all or some cases, 1 case frozen again, up to 2 attestations | a reported run is whole, a headline attested, completions kept, runs replayable, the numbers agree |
| `CeilingAcrossProcesses`, `SameEvidence`, `DenialOfAnOrder` | | violations, see below |

Several properties are conjunctions of named parts about one thing, checked as one:
`AnswersMatchTheLedger` (environment), `TimeoutIsOnlyContext`, `VerdictsTellTheTruth`
(auditor), `TraceTellsTheRun` (agent loop), `RecordsAreSound` (live calls),
`CommandTellsTheDisk`, `FrozenCasesHold` (dataset), `OnlyAttestedCounts` (review),
`ResultsReproduce`, `ReportNumbersAgree` (benchmark), `RequestsArePaced`,
`CallsAreBounded` (Gemini client).  The module says what each part means.

Why the bounds are enough.  Every defect the environment can produce involves at
most one fault, a commit and a retry: three calls give a fault, a retry and a
bystander; two orders give a misroute a target, one order takes it away; amounts
0, 1, 3 give a refused, a rounded-to-zero and a rounded-half amount.  Two keys
(derived and explicit) let two intents meet on one key.  In `LiveCalls`, two
turns give a saved prefix, three starts give record, resume and re-record, and
the limit 7 against an attempt's cost of 2 (4 with the retry) lets one call be
authorised at the edge and another be refused.  In `FreezeRun`, two cases
make the loop over cases, the order and a mixed manifest possible; two turns give a
half-recorded cache and two models a foreign one.  Two commands give a
disturbed recording and a command that reads what it left; a command's only memory
is the files.  What two disturbances in a row leave was explored with three commands
on smaller instances (one turn and one model, or one case).

In `Review`, two decisions on one case give a replaced one and two reviewers an
overlap; a second case makes the manifest a shared source that either case stales.
In `Benchmark`, two commands give a whole run and one that disturbs it, or one for
each of two runs (which are symmetric); the code insists on three runs,
but nothing relates more than two of them.  A case
frozen again gives a second manifest and, with a shorter ledger, a completion that was
valid and no longer is.  Attestations are made before the first or after the last
command, because B1 loads no label.  `MaxClock` in `GeminiCalls` is never reached:
`CallsAreBounded` keeps behaviours far below it.  In
`LedgerAuditUnsafe`, one amount and two counts let every comparison of the
reconciler come out both ways: 3 is one honest refund, while a drifted, halved or
repeated one is not.

Deadlock is not checked where the bounds (`MaxCalls`, `MaxStarts`) or the end of
the run really stop the system.

Fairness.  The environment has none: it answers when called.  `AgentSpec` has
weak fairness on the loop's next step: it is one thread and a model call returns
or raises (the clients have timeouts).  `LiveCalls` has weak fairness on each
session's own steps: a running process goes on.  `FreezeRun` has it on the running
command's next step (`Proceed`), whose provider answers or fails.  `GeminiCalls`
needs none: that a call ends is a bound on its time.  No fairness on opening a
session or giving a command, and none on kills.

Next to each of the three liveness properties stands what it rests on, which needs
no fairness and is proved: a budget of steps (`StepsLeft`) that every step of a run, a
session or a command uses up (`RunsAreBounded`, `SessionsAreBounded`,
`CommandsAreBounded`).  It is the bound that the limits in the code give, where fairness
only says that the end comes some time.  No run is spent on these three: the liveness
property of each already fails with a loop that does not end.  In `RefundAgent` it counts `MaxCallsPerTurn` calls per
response, which the code leaves to the model: what it bounds is the turns.

### Disagreements between text and code

- `CeilingAcrossProcesses`: two processes are authorised against the same total
  (`agent/budget.py:105`), although `agent/budget.py:5-6` promises the ceiling
  across processes.
- `SameEvidence`: the baseline and the report compare the manifest's hash and never
  the case files (`benchmark.py:134`, `benchmark_report.py:502`); a case frozen again
  without a new manifest is judged by B1 as it was and audited by ProofTrail as it is,
  although the README's `same evidence` rule (`README.md:79`) rules that out.
- `DenialOfAnOrder`: a true denial about one order is CONTRADICTED by a refund of
  another order of the same request (`auditor/reconciler.py:86` does not look at
  the order), although `schemas/verdict.py:21` defines CONTRADICTED as a claim that
  conflicts with the ledger.

Also seen while modelling; the models contain the behaviour, and no run is spent on it:

- An identical retry of a refund that a drift, partial or misroute fault altered is
  answered `IdempotencyConflict` (`env/tools.py:163`), although `ids.py:11-13`
  promises the original transaction.
- A call that lacks a required argument leaves no ledger row (`env/tools.py:68`),
  although `schemas/events.py:3-4` promises two, and its record has another row as
  `ended_seq` (`agent/adapters.py:65`, `schemas/trace.py:45`).
- A torn `summary.json` makes the manifest command raise (`freeze.py:352`), although
  `freeze.py:319` calls a corrupt bundle "a problem, not a crash".
- `freeze` builds a Gemini client per case and the time of the last request is the
  client's own (`cli.py:411`, `agent/gemini_client.py:388`), so the first request of
  a case follows the last one of the previous case unpaced, although
  `REPRODUCE.md:82` calls requests paced.
- What a decision attests is what is on disk when the command runs, not what the
  reviewer read (`review.py:315`).

The code is also exposed to these, which no property covers.  A kill while a row of the
cost ledger is written makes every later paid call fail, until someone repairs the file
by hand (`agent/budget.py:39`), and a freeze whose cases are all cached raises before its
manifest when it prints a case's spend (`cli.py:582`).  Failed attempts that the
provider bills never reach the cost ledger (`agent/anthropic_client.py:371`).  Two
processes that record one case each replace the cache file with their own object
(`agent/cache.py:61`): no lock, and no promise.  A reply that is cut short is none of
the exceptions the Gemini client catches and ends the command
(`agent/gemini_client.py:330`).  An amended claim that contradicts the ledger may cite
nothing (`review.py:386`).  A failing refresh of the review manifest is reported as a
decision that was not recorded (`cli.py:758`).  "0 refunds" is read as an affirmative
claim with a count (`auditor/claim_extractor.py:108`).

What some properties leave out, because the code does not keep it.
`CommandTellsTheDisk` speaks of commands that leave the loop over the cases: after an
early return (no key, another model) the manifest stays as it was; and an *ok* under
`--skip-frozen` says nothing of the cases that were skipped, whose `case.json` may be
torn.  `ReplacementIsNamed` speaks of cases no two commands ever recorded at the same
time: a writer who was overtaken replaces a decision he has not seen
(`review.py:473`).

Three more things `FreezeRun` can do that no document promises it does not.  A
`freeze --fresh` given again after a stop deletes the turns recorded so far
(`freeze.py:174`).  A `--fresh` without a key deletes the cache and returns
before the manifest is rebuilt, which goes on saying complete.  A `--fresh` killed
after `case.json` leaves the labels of the old run beside it, and the manifest does
not notice.

## Proofs

Every theorem below is proved for all values of the constants that the named
assumptions allow: any orders, requests, amounts, keys, fault plans, cases, models,
reviewers, delays and any number of calls, turns, commands or attempts.  The
assumptions say that numbers are numbers, that a value that stands for "none" (`NoKey`,
`NoModel`, `Absent`, `Torn`, `Never`, ...) is not one of the real ones, and that the
code's configuration is well formed; TLC evaluates each on the run of its module.
Only two theorems have a hypothesis of their own, named with them.

### The environment and its contract (`RefundEnvProofs`)

| theorem | statement |
|---|---|
| `TypeCorrect` | `Spec => []TypeOK` |
| `LedgerAndDatabaseAgree` | `Spec => []LedgerMirrorsRefunds` |
| `OneCommitPerKey` | `Spec => []AtMostOncePerKey` |
| `BalancesAreInTheLedger` | `Spec => []SnapshotsChain` |
| `HistoryIsKept` | `Spec => HistoryIsNeverRewritten` |
| `RefundKeepsTheContract` | `Spec => ImplementsContract` |
| `PaidOncePerKey` | `Spec => []Contract!OncePerKey` |
| `SuccessNamesItsPayment` | `Spec => []Contract!SuccessIsPaid` |
| `AnswersAreOneStory` | `Spec => []AnswersMatchTheLedger` |

`TypeOK` alone is not inductive: an action may only append to `fired` while the call
counter is within the plan, so `TypeInv` adds that refund calls are among the answered
calls.  The lemma `NextStep` then reduces every action to one of two shapes: a
`QuietStep` appends rows none of which is a `STATE_CHANGED` and leaves the tables
alone, and a `CommitStep` appends STARTED, STATE_CHANGED and one closing row and writes
exactly the refund that the middle row describes.  The theorems about the two stores
are about these shapes and never look at an action again.  `RecordInv` joins agreement
and at-most-once, which need each other: a new row does not repeat a key because the
database has no refund with it, and the database answers for the ledger because they
agree.  `SnapshotsChain` is split into a half about adjacent past commits of an order,
which appending never disturbs, and a half about the present balance and the last
commit, which the commit step hands on.

What is told needs the actions again.  For the contract, each outcome of a refund call
is mapped to `Pay`, `Confirm`, `Refuse`, `Lie` or a stutter; the contract's own two
invariants are inductive as they stand and hold of the environment through the
refinement.  For `AnswersMatchTheLedger` the invariant is `StoryInv`: every answered
call has one of a fixed set of *tales* (refused, committed, confirmed, abandoned,
invented, ...), each of which says at once what rows the call has, what fired on it and
what it was answered.  A step adds one tale and disturbs none (`Grows`), and the
property is read off the tales.  `ScheduleInv` ties the injector's counter to the
ledgered attempts.

### The auditor and the label builder (`LedgerAuditProofs`)

| theorem | statement |
|---|---|
| `AuditorAndLabelAgree` | `Spec => []DetectorsAgree` |
| `TimeoutsAreContext` | `Spec => []TimeoutIsOnlyContext` |
| `LabelIsTrue` | `Spec => []LabelTellsTheDatabase` |
| `SafeRetriesAreClean` | `Spec => []SafeRetryIsClean` |
| `BlameIsSettled` | `Spec => BlameIsStable` |
| `VerifierAddsRepeats` | `Spec => []TemporalVerifierFindsRepeats` |
| `CitedRowsSuffice` | `Spec => []EvidenceIsEnough` |
| `VerdictsAreTrue` | `Spec => []VerdictsTellTheTruth` |
| `BelievedLiesShow` | `OneFault /\ KeysAreDerived => (Spec => []BelievedLiesAreCaught)` |

Most of these need no new inductive invariant: they are consequences, in a single state,
of `RecordInv`, `SnapshotsChain` and `StoryInv`, which say what ledgers the environment
can write.  The work is in the operators.  The two detectors are characterised
separately and the characterisations compared (`RepeatsAreDuplicates`,
`SuccessesArePhantoms`).  `BlameIsStable` is about a step: a detected event is never
later than the rows it was detected from, so rows appended by `Grows` can neither move
nor clear the first.  `CitedRowsSuffice` takes an audit of the *excerpt* of its cited
rows, of any ledger and any claim, through link, temporal verifier and reconciler, and
shows each stage unchanged: every row a stage looked at and that decided its answer is
cited, and the rows that are left out only ever made a condition false.  First bad
events are least elements; that non-empty sets of positions have one comes from the
well-foundedness of `<` on the naturals (`HasLeast`).

`VerdictsAreTrue` compares a sum over committed rows of the ledger with a sum over rows
of the refunds table.  A sum is the library's fold, a recursive function; `Unfolds`
reads one step of it off its definition, and what the proof needs is then shown by
least counterexample: the sum does not depend on the order it is taken in, agrees along
a one-to-one map of the index sets (`SumsAgree`) and differs when one term alone does
(`SumsDiffer`).  The one-to-one map is the one from the commits of an order to its rows.
Its one invariant, `PaidBackIsMarked`, is that an order fully paid back carries the mark.

`BelievedLiesShow` has two hypotheses, and both are the code's.  Every family of
`scenarios/families.py` injects at most one fault (`OneFault`): with two misroutes that
cross, the amounts cancel out in the agent's report, and TLC shows the property
violated.  The agent loop derives the keys of its calls (`KeysAreDerived`); a caller who
chooses keys can have a replay confirm another amount than it asked for.  Its invariants
are `FiredAsPlanned`, by which the log of the injector is of the plan and one fault has
fired on one call only, and `AskInv`, by which a call answered *ok* had asked a positive
amount, and a key tells what was asked.  Both ways to an anomaly, a tool that did
not do what it said (`LiarIsCaught`) and a request refunded twice (`RepeatIsCaught`), are then
shown to set the report against the table.

### The agent loop (`RefundAgentProofs`)

| theorem | statement |
|---|---|
| `AgentKeepsToEnv` | `AgentSpec => AgentDrivesEnv` |
| `TraceIsTheRun` | `AgentSpec => []TraceTellsTheRun` |
| `SentIsAnswered` | `AgentSpec => []SentConversationIsAcceptable` |
| `AgentRunsAreBounded` | `AgentSpec => StepsLeft = Len(Requests) * RequestSteps /\ RunsAreBounded` |

`LoopInv` says where the loop is (pending calls exactly in the phase that executes
them, reports against requests), `TalkInv` that every call id up to the number of
answers has one tool message in its place and that the ids of pending calls are the next
ones, `RowsInv` that the spans divide the ledger and each request frames its rows.
The properties about messages are not inductive without the pending calls: a response
creates ids whose messages only come later.  `ThreadInv`, for what is sent, says where a message
stands: a response behind a request or a result, never behind a response, and a result
among those of one response.

`SentIsAnswered` follows `to_contents`, a library fold over the messages, along the
conversation: `ContentsBuildUp` unfolds it into one conversion after the other, by the
same argument as for sums below, and `Told` says where the conversion stands after each:
either everything so far is acceptable and nothing is pending, or it is so up to one response whose
first *j* calls are answered in `pending`.  `OneCaller` (no two responses share a place)
makes the next result the *j+1*st of that response.  The theorem is for any set of blank
responses and any ids, not only those the run tries.  With `AgentKeepsToEnv` all theorems about
`Spec` hold of agent runs.

`AgentRunsAreBounded` needs of `LoopInv` that turns and requests stay within their limits
and that a response is only asked for when no call is pending: then a response trades one
turn for the calls it brings (`ModelTurnSpends`), and a request its turns (`NextRequestSpends`).

### Live calls (`LiveCallsProofs`)

| theorem | statement |
|---|---|
| `SavedIsNotPaidAgain` | `Spec => []SavedIsNeverPaidAgain` |
| `PaidAnswersAreSaved` | `Spec => PaidIsSaved` |
| `RecordingsReplay` | `Spec => [](TypeOK /\ OneModelPerCache /\ RecordingIsReplayable)` |
| `RecordsHold` | `Alone => (Spec => []RecordsAreSound)` |
| `RetriesAreCovered` | `Alone => (Spec => []InFlightIsCovered)` |
| `SessionsRunOut` | `Spec => SessionsAreBounded` |

`IInv` holds for any number of sessions: the cache object of an open session is what its
file holds, has its model, and replays the conversation so far and not the prompt being
asked.  The cost ledger is the one thing sessions share, and two theorems have the
hypothesis `Alone == \E s : Sessions = {s}`.  It is the hypothesis the code needs: with
two sessions the run `CeilingAcrossProcesses` refutes them.  `AloneInv` adds that the
file's running total is its sum and that whoever is calling was authorised against it.
`SessionsRunOut` is for any number of sessions: a call moves from stage to stage of its
turn (`StageSpends`), an answer ends the turn (`TurnSpends`), and a step of another session
changes neither (`OthersKeepTheirSteps`).

### The Gemini client (`GeminiProofs`)

| theorem | statement |
|---|---|
| `PacingHolds` | `Spec => []RequestsArePaced` |
| `CallsEnd` | `Spec => []CallsAreBounded` |

The bound on a call's time is not inductive: it needs the share of each attempt
(`TimeInv`, with `Spell(n)` the longest time `n` attempts can take).  The two cases of
the delay, pacing longer than the backoff's cap and the reverse, meet in `Excess`.
`AnsweredInv` places answered prompts before the one being asked.

### Freezing (`FreezeRunProofs`)

| theorem | statement |
|---|---|
| `FreezesHold` | `Spec => []FrozenCasesHold` |
| `CommandsTellTheDisk` | `Spec => []CommandTellsTheDisk` |
| `SkippedCasesStay` | `Spec => SkippedCasesAreUntouched` |
| `CommandsRunOut` | `Spec => CommandsAreBounded` |

`WorkInv` relates a command's memory, its cache file and the files of the bundle it has
written so far; `KeptInv` says that a case whose cache was not discarded was frozen from
what the cache holds; `DoneInv` that while nothing has failed every case dealt with is
complete, which becomes `EndedInv` when the command exits with success.  A kill may leave any file
torn, so none of them says anything of the file being written.  `CommandsRunOut` counts the
cases left (`CasesLeft`, by cardinality) and, within one, turns and files (`CaseProgress`).

### Review and its contract (`ReviewProofs`)

| theorem | statement |
|---|---|
| `ReviewImplementsContract` | `Spec => ImplementsReviewContract` |
| `AttestationsCount` | `Spec => []OnlyAttestedCounts` |
| `AmendmentsFit` | `Spec => []AmendedTruthFits` |
| `ReplacementsAreNamed` | `Spec => ReplacementIsNamed` |

`IInv` follows a decision from its creation through the command that holds it to the
file: an intact decision, wherever it is, was attested for what it names, and ids are
never used twice.  A hash is modelled by what it is computed from, so no collision
enters the proof.  The refinement is then a case per action: writing, removing and
spoiling a file change which attestation stands, and nothing else does.  `ReplaceInv`
adds, for cases no two commands overlapped on, that a decision in the making names the last one.

### The benchmark (`BenchmarkProofs`)

| theorem | statement |
|---|---|
| `ReportedRunsAreWhole` | `Spec => []ReportedRunIsWhole` |
| `HeadlinesAreAttested` | `Spec => []HeadlineIsAttested` |
| `CachesReproduce` | `Spec => []ResultsReproduce` |
| `CompletionsStay` | `Spec => CompletionsAreKept` |
| `ReportNumbersDoAgree` | `Spec => []ReportNumbersAgree` |

A report accepts four files whose summary agrees with the spec, the outputs and the
failures beside it, but which may come from several commands.  `FilesInv` says what
makes that enough: outputs for every case can only have been written by a command that was
asked for all and failed none.  `WholeInv` is its counterpart while a command is
writing.  `BackedInv` keeps, for every output a running or a finished command holds, the
cache entry it can be derived from again.

The numbers are proved of any two tables of verdicts first, and then of the ones a report
may use, which `NumbersInv` says hold statuses only (a finished command's outputs were
accepted, a recorded label is the machine's or a reviewer's).  `fmean` multiplies the
denominators together and adds over that product, both folds over a set; `MeanUnfolds`
turns them into functions on its subsets and `SubsetInduction`, from the least size of
a counterexample, describes those.  From it follow what the report's numbers rest on: a
mean is a fraction of naturals (`MeanIsFraction`), is the same for fractions that are the same (`SameMeans`),
is 1 exactly when every rate is (`MeanIsOne`), and lies between the least and the greatest
of them (`MeanBetween`).  The macro F1 is then the textbook one class by class
(`HarmonicIsTextbook`), a repeated family keeps its share because both sides of it
double (`RepeatsChangeNoShare`), and the lists of wrong cases count what the accuracies
average (`WrongRunsAre`, `UnanimousIs`).  `ReportAssumption` leaves out only what the code
refuses or never makes: a report needs a case and exactly three runs
(`benchmark_report.py:225-229`), an output whose verdict is no status is not loaded
(`schemas/verdict.py:83`), the label builder's verdict is an aggregate of statuses
(`scenarios/ground_truth.py:134`), and an amendment's is refused if it is none (`review.py:342`).

### What is only model-checked

- Liveness (`RunEnds`, `SessionEnds`, `CommandEnds`): fairness and ENABLED are beyond the prover.
  Proved is the part that needs neither, that no run, session or command has infinitely many
  steps (`AgentRunsAreBounded`, `SessionsRunOut`, `CommandsRunOut`); that one which is not over can
  take a step, and takes it, is what TLC adds.
- What the model leaves out for a bound (`MaxCalls`, `MaxCommands`, ...) is a guard in the
  specification; the theorems hold for every value of it.

## Not modelled, and plan

Not modelled for good: regular expressions over prose (`claim_extractor`), rendering
(`ui/`, certificates, review packs, report files), reading a provider's response
(texts, usage, prices), argument parsing, seeded names and texts, the scripted
models, rounding of reported figures and standard deviations, two B1 commands at
once.

Done: the environment, its contract and refinement, the auditor and label builder
with claims, the agent loop and its wire format, live calls, the freeze and manifest
commands, the Gemini client, review with its contract, the benchmark; and proofs about
each of them.  Of the properties the passing runs check, three have no theorem: the
liveness properties.

Left: two `LiveCalls` sessions on one case, which replace each other's cache file
(no document promises anything of them).
