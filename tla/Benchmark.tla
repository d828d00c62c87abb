----------------------------- MODULE Benchmark -----------------------------
(* The baseline benchmark and the comparison report (benchmark.py,         *)
(* eval/spec.py, baselines/, benchmark_report.py) over a dataset that may  *)
(* be frozen again meanwhile and the labels that human review accepts, as  *)
(* ReviewContract promises them (Review implements it).                    *)
(*                                                                         *)
(* A hash stands for what it is computed from: a spec is the manifest it   *)
(* was built from and its run index, a prompt the case file it shows.      *)
(* One command runs at a time and may be killed between any two steps.     *)
EXTENDS ReviewContract, ComparisonReport, TLC

CONSTANTS
  RunIndices,
  Recordings, FirstRecording,  \* what a case may be frozen from, and first was
  LedgerSeqs,   \* LedgerSeqs[k]: sequence numbers of the ledger of k
  Proposed,     \* Proposed[k]: the machine's label for k, [verdict, first_bad]
  Full, NoTemporal,  \* Full[k], NoTemporal[k]: ProofTrail's outputs for k
  Family,       \* Family[c]
  Completions,  \* what the provider may answer
  Requests,     \* bound: the cases a command may be asked for
  MaxStarts,    \* bound: B1 commands
  Refrozen, MaxRewrites,  \* bound: the cases frozen again, and how often
  MaxAttested,  \* bound: attestations
  Nothing, Torn

ASSUME BenchmarkAssumption ==
  /\ MaxStarts \in Nat /\ MaxRewrites \in Nat /\ MaxAttested \in Nat
  /\ Cases \subseteq Nat
  /\ Contents = [case : Recordings, labels : Recordings]
  /\ Nothing # Torn /\ FirstRecording \in Recordings
  /\ \A requested \in Requests : requested # {} /\ requested \subseteq Cases

(* A report needs a case and three runs; outputs and amendments are        *)
(* refused unless their verdict is a status, and the label builder's is.   *)
ASSUME ReportAssumption ==
  /\ IsFiniteSet(Cases) /\ Cases # {} /\ IsFiniteSet(RunIndices) /\ RunIndices # {}
  /\ \A k \in Recordings : Proposed[k].verdict \in STATUSES /\ Full[k].verdict \in STATUSES
  /\ \A label \in Labels \ {Nobody} : label.verdict \in STATUSES

VARIABLES
  rewrites,
  cache,     \* entries of the replay caches: [spec, case, prompt, response]
  artifact,  \* artifact[spec][f]: the files of a run's output directory
  job,       \* the B1 command that is running, or Nothing
  starts,
  finished,  \* history: outputs of commands that finished every case
  replayable \* history: those of them no --fresh command has discarded since

reviewVars == <<attested, standing>>
benchVars == <<cache, artifact, job, starts, finished, replayable>>
vars == <<bundle, rows, rewrites, reviewVars, benchVars>>

MODE_LIVE == "live-record-or-resume"
MODE_REPLAY == "replay-no-network"
-----------------------------------------------------------------------------
(* The mapping f with v at x. *)
Put(f, x, v) == [y \in DOMAIN f \cup {x} |-> IF y = x THEN v ELSE f[y]]

build_b1_spec(run_index) == [manifest |-> rows, run_index |-> run_index]

(* A completion is a tool call, no JSON object, or an object with claims   *)
(* [status, evidence].                                                     *)
aggregate_verdict(statuses) ==
  IF "CONTRADICTED" \in statuses THEN "CONTRADICTED"
  ELSE IF statuses = {} \/ "UNVERIFIABLE" \in statuses THEN "UNVERIFIABLE"
  ELSE "SUPPORTED"

validate_audit_output(raw) ==
  /\ raw.verdict \in STATUSES
  /\ raw.verdict = aggregate_verdict({claim.status : claim \in raw.claims})

(* complete_json and B1Auditor.audit take the completion for a case file   *)
(* frozen from k.                                                          *)
Accepted(raw, k) ==
  /\ raw.kind = "object"
  /\ validate_audit_output(raw)
  /\ \A claim \in raw.claims : claim.evidence \subseteq LedgerSeqs[k]
  /\ raw.first_bad \in LedgerSeqs[k] \cup {NoBadEvent}

(* The output, and as history the recording it judges. *)
AuditOutput(raw, k) ==
  [verdict |-> raw.verdict, first_bad |-> raw.first_bad,
   cited |-> Quantify(raw.claims, LAMBDA claim : claim.evidence # {}),
   claims |-> Cardinality(raw.claims), judged |-> k]

(* summary(), without mode, hits and misses, which nothing compares; usage *)
(* is a function of the outputs.                                           *)
summary(spec, requested, outputs, failures) ==
  [spec |-> spec, requested_cases |-> Cardinality(requested),
   completed_cases |-> Cardinality(DOMAIN outputs), failure_count |-> Cardinality(failures),
   complete |-> failures = {} /\ Cardinality(DOMAIN outputs) = Cardinality(requested),
   verdicts |-> [v \in STATUSES |-> Quantify(DOMAIN outputs, LAMBDA c : outputs[c].verdict = v)]]
-----------------------------------------------------------------------------
(* The dataset is frozen again, as in Review. *)
RewriteCase(c, k) ==
  /\ c \in Refrozen /\ rewrites < MaxRewrites /\ bundle[c].case # k
  /\ Rewrite(c, [bundle[c] EXCEPT !.case = k])
  /\ rewrites' = rewrites + 1
  /\ UNCHANGED benchVars

RewriteLabels(c) ==
  /\ bundle[c].labels # bundle[c].case
  /\ Rewrite(c, [bundle[c] EXCEPT !.labels = bundle[c].case])
  /\ UNCHANGED <<rewrites, benchVars>>

WriteDatasetManifest ==
  /\ rows # bundle
  /\ WriteManifest
  /\ UNCHANGED <<rewrites, benchVars>>

(* A label is attested and recorded: create_decision and write_decision in *)
(* one step, as ReviewContract has it.  Review takes the command apart,    *)
(* with what can come in between, and implements that contract.  Bound:    *)
(* before the first or after the last command, as B1 loads no label.       *)
Review(c, label) ==
  /\ job = Nothing /\ starts \in {0, MaxStarts} /\ Cardinality(attested) < MaxAttested
  /\ Listed(c)
  /\ attested' = attested \cup {Attestation(c, label)}
  /\ standing' = [standing EXCEPT ![c] = Attestation(c, label)]
  /\ UNCHANGED <<datasetVars, rewrites, benchVars>>
-----------------------------------------------------------------------------
(* benchmark b1: the spec is built from the manifest as it is now, and     *)
(* nothing looks at the manifest again.                                    *)
StartB1(run_index, mode, fresh, requested) ==
  /\ job = Nothing /\ starts < MaxStarts
  /\ fresh => mode = MODE_LIVE
  /\ job' = [spec |-> build_b1_spec(run_index), mode |-> mode, fresh |-> fresh,
             requested |-> requested, todo |-> requested, cleared |-> ~fresh,
             outputs |-> [c \in {} |-> Nothing], failures |-> {}, written |-> 0]
  /\ starts' = starts + 1
  /\ UNCHANGED <<bundle, rows, rewrites, reviewVars, cache, artifact, finished, replayable>>

(* Cases are audited in the order of their names. *)
Current == CHOOSE c \in job.todo : \A d \in job.todo : c <= d
Auditing == job # Nothing /\ job.todo # {}

(* Mutant: the path of a replay cache leaves out the run index. *)
InCache_AnyRun(spec, c) == {e \in cache : e.spec.manifest = spec.manifest /\ e.case = c}

InCache(spec, c) == {e \in cache : e.spec = spec /\ e.case = c}

(* Mutant: a completion that was rejected is asked for again. *)
Recorded_IfAccepted ==
  {e \in InCache(job.spec, Current) :
     e.prompt = bundle[Current].case /\ Accepted(e.response, e.prompt)}

Recorded == {e \in InCache(job.spec, Current) : e.prompt = bundle[Current].case}

ClearCache ==
  /\ Auditing /\ ~job.cleared
  /\ cache' = cache \ InCache(job.spec, Current)
  /\ job' = [job EXCEPT !.cleared = TRUE]
  /\ replayable' = {f \in replayable : f.spec # job.spec}
  /\ UNCHANGED <<bundle, rows, rewrites, reviewVars, artifact, starts, finished>>

NextCase(outputs, failures) ==
  job' = [job EXCEPT !.todo = @ \ {Current}, !.cleared = ~job.fresh,
                     !.outputs = outputs, !.failures = failures]

(* The completion is scored as it is: accepted or a failure of its case.   *)
Score(raw) ==
  LET k == bundle[Current].case IN
    IF Accepted(raw, k)
      THEN NextCase(Put(job.outputs, Current, AuditOutput(raw, k)), job.failures)
      ELSE NextCase(job.outputs, job.failures \cup {Current})

Hit ==
  /\ Auditing /\ job.cleared
  /\ \E e \in Recorded : Score(e.response)
  /\ UNCHANGED <<bundle, rows, rewrites, reviewVars, cache, artifact, starts, finished, replayable>>

(* A miss that the provider answers is saved before anybody looks at it. *)
Answered(raw) ==
  /\ Auditing /\ job.cleared /\ Recorded = {} /\ job.mode = MODE_LIVE
  /\ LET prompt == bundle[Current].case
     IN  cache' = {e \in cache : <<e.spec, e.case, e.prompt>> # <<job.spec, Current, prompt>>}
                    \cup {[spec |-> job.spec, case |-> Current, prompt |-> prompt, response |-> raw]}
  /\ Score(raw)
  /\ UNCHANGED <<bundle, rows, rewrites, reviewVars, artifact, starts, finished, replayable>>

(* ReplayCacheMiss, or a live call that ends in an expected run error. *)
Missed ==
  /\ Auditing /\ job.cleared /\ Recorded = {}
  /\ NextCase(job.outputs, job.failures \cup {Current})
  /\ UNCHANGED <<bundle, rows, rewrites, reviewVars, cache, artifact, starts, finished, replayable>>

Files == <<"spec", "outputs", "failures", "summary">>
NoFiles == [f \in {Files[n] : n \in 1 .. 4} |-> Nothing]

Directory(spec) == IF spec \in DOMAIN artifact THEN artifact[spec] ELSE NoFiles

(* Mutant: the outputs are merged into those already there. *)
FileContent_Merged(file) ==
  LET old == Directory(job.spec).outputs IN
  CASE file = "spec" -> job.spec
    [] file = "outputs" -> IF old \in {Nothing, Torn} THEN job.outputs ELSE job.outputs @@ old
    [] file = "failures" -> job.failures
    [] file = "summary" ->
         LET all == IF old \in {Nothing, Torn} THEN job.outputs ELSE job.outputs @@ old
         IN  summary(job.spec, DOMAIN all \cup job.failures, all, job.failures)

FileContent(file) ==
  CASE file = "spec" -> job.spec
    [] file = "outputs" -> job.outputs
    [] file = "failures" -> job.failures
    [] file = "summary" -> summary(job.spec, job.requested, job.outputs, job.failures)

Store(file, content) ==
  artifact' = Put(artifact, job.spec, [Directory(job.spec) EXCEPT ![file] = content])

Writing == job # Nothing /\ job.todo = {} /\ job.written < 4
NextFile == Files[job.written + 1]

(* write_b1_benchmark_artifacts: four files, one after the other. *)
WriteArtifact ==
  /\ Writing
  /\ Store(NextFile, FileContent(NextFile))
  /\ job' = [job EXCEPT !.written = @ + 1]
  /\ LET run == [spec |-> job.spec, outputs |-> job.outputs]
         whole == {x \in {run} : job.failures = {} /\ job.requested = Cases}
     IN  finished' = finished \cup whole /\ replayable' = replayable \cup whole
  /\ UNCHANGED <<bundle, rows, rewrites, reviewVars, cache, starts>>

EndB1 ==
  /\ job # Nothing /\ job.written = 4
  /\ job' = Nothing
  /\ UNCHANGED <<bundle, rows, rewrites, reviewVars, cache, artifact, starts, finished, replayable>>

(* A kill; one that comes while a file is written leaves it torn. *)
Kill ==
  /\ job # Nothing
  /\ job' = Nothing
  /\ artifact' = artifact \/ (Writing /\ Store(NextFile, Torn))
  /\ UNCHANGED <<bundle, rows, rewrites, reviewVars, cache, starts, finished, replayable>>
-----------------------------------------------------------------------------
(* benchmark report: a function of what is on disk.                        *)

(* _validate_b1_artifacts accepts the run. *)
ValidArtifacts(spec) ==
  LET d == Directory(spec) IN
    /\ \A f \in DOMAIN d : d[f] \notin {Nothing, Torn}
    /\ d.spec = spec
    /\ d.failures = {}
    /\ DOMAIN d.outputs = Cases
    /\ d.summary = summary(spec, Cases, d.outputs, {})

(* Mutant: labels count as long as their decisions stand. *)
headline_eligible_Standing ==
  \A c \in Cases : standing[c] # Nobody /\ standing[c].label # Nobody

(* build_review_manifest's headline_eligible. *)
headline_eligible == \A c \in Cases : Accepts(c)

ReportAllowed(label_mode) ==
  /\ label_mode = "verified" => headline_eligible
  /\ \A r \in RunIndices : ValidArtifacts(build_b1_spec(r))

GroundTruth(label, c, verified) ==
  [verdict |-> label.verdict, first_bad |-> label.first_bad, family |-> Family[c],
   verified |-> verified]

(* load_frozen_labels or load_reviewed_truths. *)
truths(label_mode) ==
  [c \in Cases |->
     IF label_mode = "verified" THEN GroundTruth(standing[c].label, c, TRUE)
                                ELSE GroundTruth(Proposed[bundle[c].labels], c, FALSE)]

b1_runs == [r \in RunIndices |-> artifact[build_b1_spec(r)].outputs]
prooftrail_outputs == [c \in Cases |-> Full[bundle[c].case]]
no_temporal_outputs == [c \in Cases |-> NoTemporal[bundle[c].case]]

(* build_comparison_report_from_disk, when it is allowed. *)
comparison(label_mode) ==
  build_comparison_report(b1_runs, prooftrail_outputs, no_temporal_outputs,
                          truths(label_mode), label_mode)

LabelModes == {"provisional", "verified"}
-----------------------------------------------------------------------------
Init ==
  /\ bundle = [c \in Cases |-> [case |-> FirstRecording, labels |-> FirstRecording]]
  /\ rows = bundle /\ rewrites = 0
  /\ attested = {} /\ standing = [c \in Cases |-> Nobody]
  /\ cache = {} /\ artifact = [s \in {} |-> NoFiles]
  /\ job = Nothing /\ starts = 0 /\ finished = {} /\ replayable = {}

Next ==
  \/ \E c \in Cases : RewriteLabels(c) \/ \E k \in Recordings : RewriteCase(c, k)
  \/ WriteDatasetManifest
  \/ \E c \in Cases : \E label \in Labels \cup {Proposed[bundle[c].labels]} : Review(c, label)
  \/ \E r \in RunIndices, mode \in {MODE_LIVE, MODE_REPLAY}, fresh \in BOOLEAN,
        requested \in Requests : StartB1(r, mode, fresh, requested)
  \/ ClearCache \/ Hit \/ Missed
  \/ \E raw \in Completions : Answered(raw)
  \/ WriteArtifact \/ EndB1 \/ Kill

Spec == Init /\ [][Next]_vars
-----------------------------------------------------------------------------
(* Properties *)

(* What the caches and files hold has its type, and a prompt has one       *)
(* completion.                                                             *)
BenchmarkTypeOK ==
  /\ bundle \in [Cases -> Contents] /\ rows \in [Cases -> Contents]
  /\ \A e \in cache :
       /\ e.response \in Completions /\ e.prompt \in Recordings
       /\ \A f \in InCache(e.spec, e.case) : f.prompt = e.prompt => f = e
  /\ job # Nothing =>
       /\ DOMAIN job.outputs \cap job.failures = {}
       /\ DOMAIN job.outputs \cup job.failures \cup job.todo = job.requested
  /\ \A s \in DOMAIN artifact : artifact[s].spec \in {Nothing, Torn, s}

(* A report never pieces a run together: each run it may use is what one   *)
(* command produced that was asked for every case and failed none, however *)
(* commands for some cases, failures and kills between and in the middle   *)
(* of the four writes have left the directory.                             *)
ReportedRunIsWhole ==
  \A spec \in DOMAIN artifact : ValidArtifacts(spec) =>
    [spec |-> spec, outputs |-> artifact[spec].outputs] \in finished

(* A headline counts only labels somebody attested for the very files and  *)
(* manifest that the report scores, and every case has one; a provisional  *)
(* report is never a headline.                                             *)
HeadlineIsAttested ==
  \A mode \in LabelModes : ReportAllowed(mode) /\ comparison(mode).headline_eligible =>
    /\ mode = "verified"
    /\ \A c \in Cases : \E a \in attested :
         /\ a.case = c /\ a.source = [manifest |-> rows, content |-> bundle[c]]
         /\ a.label # Nobody /\ truths(mode)[c] = GroundTruth(a.label, c, TRUE)

(* "failed completions were not silently repaired or scored"               *)
(* (CODEX_TRAJECTORIES.md:73): a completion, once saved, stays the answer  *)
(* to its prompt, accepted or not, until a --fresh command discards it.    *)
CompletionsAreKept ==
  [][\A e \in cache \ cache' : job.fresh /\ job.spec = e.spec]_vars

(* The caches alone reproduce the outputs of a finished command without a  *)
(* network, whatever was killed, refused or recorded since, unless a       *)
(* --fresh command of the same run discarded them.                         *)
ReplayReproduces ==
  \A f \in replayable : \A c \in Cases : \E e \in cache :
    /\ e.spec = f.spec /\ e.case = c /\ e.prompt = f.outputs[c].judged
    /\ Accepted(e.response, e.prompt) /\ AuditOutput(e.response, e.prompt) = f.outputs[c]

(* What commands left on disk holds together and reproduces what they      *)
(* reported (benchmark.py run_b1_benchmark, baselines/json_client.py).     *)
ResultsReproduce == BenchmarkTypeOK /\ ReplayReproduces

(* ComparisonReport's MetricsAgree, for whatever is reported. *)
ReportedMetricsAgree ==
  \A mode \in LabelModes : ReportAllowed(mode) =>
    /\ MetricsAgree(prooftrail_outputs, truths(mode))
    /\ \A r \in RunIndices : MetricsAgree(b1_runs[r], truths(mode))

(* ComparisonReport's RepeatsDoNotInflate, for whatever is reported. *)
HeadlineIsBalanced ==
  \A mode \in LabelModes : ReportAllowed(mode) =>
    \A r \in RunIndices : RepeatsDoNotInflate(b1_runs[r], truths(mode))

(* ComparisonReport's TellsOneStory, for whatever is reported. *)
ReportTellsOneStory ==
  \A mode \in LabelModes : ReportAllowed(mode) => TellsOneStory(comparison(mode), Cases)

(* The numbers of one report agree with each other and with the outputs    *)
(* they count, however many repeats and families there are                 *)
(* (eval/metrics.py, benchmark_report.py build_comparison_report).         *)
ReportNumbersAgree ==
  /\ ReportedMetricsAgree
  /\ HeadlineIsBalanced
  /\ ReportTellsOneStory

(* "same evidence (B1 and ProofTrail get the identical auditor_view)"      *)
(* (README.md:79): a B1 output in a report judges the case file that       *)
(* ProofTrail judges in it.                                                *)
SameEvidence ==
  \A mode \in LabelModes : ReportAllowed(mode) =>
    \A r \in RunIndices, c \in Cases : b1_runs[r][c].judged = bundle[c].case
=============================================================================
