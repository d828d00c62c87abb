------------------------- MODULE BenchmarkProofs --------------------------
(* Why a report scores whole runs, its headline counts attested labels,    *)
(* its caches reproduce it and its numbers agree with one another, for any *)
(* cases, recordings, completions, runs, families and commands.            *)
EXTENDS Benchmark, FiniteSetTheorems, WellFoundedInduction, TLAPS

(* A non-empty set of numbers has a smallest member. *)
LEMMA HasLeast ==
  ASSUME NEW S, S \subseteq Nat, S # {}
  PROVE  \E x \in S : \A y \in S : x <= y
<1>. DEFINE Before == {pair \in Nat \X Nat : pair[1] < pair[2]}
<1>1. IsWellFoundedOn(Before, Nat)
  BY NatLessThanWellFounded DEF OpToRel
<1>2. \E x \in S : \A y \in S : ~ (<<y, x>> \in Before)
  <2>. HIDE DEF Before
  <2>. QED
    BY <1>1, WFMin, Zenon
<1>3. PICK x \in S : \A y \in S : ~ (<<y, x>> \in Before)
  BY <1>2, Zenon
<1>4. \A y \in S : x <= y
  <2>. TAKE y \in S
  <2>1. x \in Nat /\ y \in Nat
    BY <1>3
  <2>2. y < x => <<y, x>> \in Before
    BY <2>1
  <2>3. ~ (y < x)
    BY <1>3, <2>2
  <2>. HIDE DEF Before
  <2>. QED
    BY <2>1, <2>3
<1>. QED
  BY <1>3, <1>4, Zenon

-----------------------------------------------------------------------------
(* The invariant. *)

Specs == [manifest : [Cases -> Contents], run_index : RunIndices]

Entries == [spec : Specs, case : Cases, prompt : Recordings, response : Completions]

DataInv ==
  /\ bundle \in [Cases -> Contents] /\ rows \in [Cases -> Contents]
  /\ \A c \in Cases : standing[c] # Nobody => standing[c] \in attested /\ standing[c].case = c

(* A prompt of a run has at most one answer. *)
CacheInv ==
  /\ cache \subseteq Entries
  /\ \A e, f \in cache : e.spec = f.spec /\ e.case = f.case /\ e.prompt = f.prompt => e = f

IsJob(j) ==
  j = [spec |-> j.spec, mode |-> j.mode, fresh |-> j.fresh, requested |-> j.requested,
       todo |-> j.todo, cleared |-> j.cleared, outputs |-> j.outputs, failures |-> j.failures,
       written |-> j.written]

JobInv ==
  job # Nothing =>
    /\ IsJob(job)
    /\ job.spec \in Specs /\ job.fresh \in BOOLEAN /\ job.cleared \in BOOLEAN
    /\ ~job.cleared => job.fresh
    /\ job.requested \subseteq Cases
    /\ job.written \in 0 .. 4 /\ (job.written > 0 => job.todo = {})
    /\ DOMAIN job.outputs \cap job.failures = {}
    /\ job.todo \cap (DOMAIN job.outputs \cup job.failures) = {}
    /\ DOMAIN job.outputs \cup job.failures \cup job.todo = job.requested

(* The cache alone gives o again as the output of case c. *)
Backed(spec, c, o) ==
  \E e \in cache : /\ e.spec = spec /\ e.case = c /\ e.prompt = o.judged
                   /\ Accepted(e.response, e.prompt) /\ AuditOutput(e.response, e.prompt) = o

BackedInv ==
  /\ job # Nothing => \A c \in DOMAIN job.outputs : Backed(job.spec, c, job.outputs[c])
  /\ \A f \in replayable : \A c \in Cases : Backed(f.spec, c, f.outputs[c])

(* A command that was asked for every case and failed none is known as     *)
(* finished from its first file on, before its outputs can be on disk; no  *)
(* other command can write outputs for every case.                         *)
WholeInv ==
  job # Nothing /\ job.written > 0 /\ job.failures = {} /\ job.requested = Cases =>
    [spec |-> job.spec, outputs |-> job.outputs] \in finished

FilesInv ==
  \A s \in DOMAIN artifact :
    /\ DOMAIN artifact[s] = {"spec", "outputs", "failures", "summary"}
    /\ artifact[s]["spec"] \in {Nothing, Torn, s}
    /\ LET outputs == artifact[s]["outputs"] IN
         outputs \notin {Nothing, Torn} /\ DOMAIN outputs = Cases =>
           [spec |-> s, outputs |-> outputs] \in finished

IInv == DataInv /\ CacheInv /\ JobInv /\ BackedInv /\ WholeInv /\ FilesInv
-----------------------------------------------------------------------------
LEMMA CurrentIsRequested ==
  ASSUME JobInv, Auditing
  PROVE  Current \in job.todo /\ Current \in Cases
<1>1. job.todo # {} /\ job.todo \subseteq Cases
  BY DEF Auditing, JobInv
<1>2. job.todo \subseteq Nat
  BY <1>1, BenchmarkAssumption
<1>3. \E c \in job.todo : \A d \in job.todo : c <= d
  BY <1>1, <1>2, HasLeast
<1>. QED
  BY <1>1, <1>3 DEF Current

LEMMA PromptIs ==
  ASSUME DataInv, NEW c \in Cases
  PROVE  bundle[c].case \in Recordings
  BY BenchmarkAssumption DEF DataInv

LEMMA PutIs ==
  ASSUME NEW f, NEW x, NEW v
  PROVE  /\ DOMAIN Put(f, x, v) = DOMAIN f \cup {x} /\ Put(f, x, v)[x] = v
         /\ \A y \in DOMAIN f : y # x => Put(f, x, v)[y] = f[y]
  BY DEF Put

(* What a command knows after a case. *)
LEMMA NextCaseIs ==
  ASSUME JobInv, Auditing, NEW outputs, NEW failures, NextCase(outputs, failures)
  PROVE  /\ job'.spec = job.spec /\ job'.fresh = job.fresh /\ job'.requested = job.requested
         /\ job'.written = job.written /\ job'.cleared = ~job.fresh
         /\ job'.todo = job.todo \ {Current}
         /\ job'.outputs = outputs /\ job'.failures = failures
         /\ IsJob(job)'
<1>1. job = [spec |-> job.spec, mode |-> job.mode, fresh |-> job.fresh,
             requested |-> job.requested, todo |-> job.todo, cleared |-> job.cleared,
             outputs |-> job.outputs, failures |-> job.failures, written |-> job.written]
  BY DEF JobInv, IsJob, Auditing
<1>2. job' = [job EXCEPT !.todo = job.todo \ {Current}, !.cleared = ~job.fresh,
                         !.outputs = outputs, !.failures = failures]
  BY DEF NextCase
<1>3. job' = [spec |-> job.spec, mode |-> job.mode, fresh |-> job.fresh,
              requested |-> job.requested, todo |-> job.todo \ {Current},
              cleared |-> ~job.fresh, outputs |-> outputs, failures |-> failures,
              written |-> job.written]
  BY <1>1, <1>2
<1>. QED
  BY <1>3 DEF IsJob

(* Files are written only after the last case. *)
LEMMA ScoreWritesNothing ==
  ASSUME JobInv, Auditing, NEW raw, Score(raw)
  PROVE  job'.written = 0
<1>1. job.written = 0
  BY DEF JobInv, Auditing
<1>2. \E outputs, failures : NextCase(outputs, failures)
  BY DEF Score
<1>. QED
  BY <1>1, <1>2, NextCaseIs

(* A file of a run's directory is replaced, the others stay. *)
LEMMA StoreIs ==
  ASSUME NEW file, NEW content, Store(file, content)
  PROVE  /\ DOMAIN artifact' = DOMAIN artifact \cup {job.spec}
         /\ artifact'[job.spec] = [Directory(job.spec) EXCEPT ![file] = content]
         /\ \A s \in DOMAIN artifact : s # job.spec => artifact'[s] = artifact[s]
<1>1. PICK d : d = [Directory(job.spec) EXCEPT ![file] = content]
  OBVIOUS
<1>2. artifact' = Put(artifact, job.spec, d)
  BY <1>1 DEF Store
<1>3. DOMAIN artifact' = DOMAIN artifact \cup {job.spec} /\ artifact'[job.spec] = d
      /\ \A s \in DOMAIN artifact : s # job.spec => artifact'[s] = artifact[s]
  BY <1>2 DEF Put
<1>. QED
  BY <1>1, <1>3

LEMMA JobAfterCase ==
  ASSUME JobInv, Auditing, NEW outputs, NEW failures, NextCase(outputs, failures),
         \/ DOMAIN outputs = DOMAIN job.outputs \cup {Current} /\ failures = job.failures
         \/ outputs = job.outputs /\ failures = job.failures \cup {Current}
  PROVE  JobInv'
<1>1. /\ job.spec \in Specs /\ job.fresh \in BOOLEAN /\ job.requested \subseteq Cases
      /\ job.written \in 0 .. 4 /\ (job.written > 0 => job.todo = {})
      /\ DOMAIN job.outputs \cap job.failures = {}
      /\ job.todo \cap (DOMAIN job.outputs \cup job.failures) = {}
      /\ DOMAIN job.outputs \cup job.failures \cup job.todo = job.requested
  BY DEF JobInv, Auditing
<1>2. Current \in job.todo
  BY CurrentIsRequested
<1>3. PICK c : c = Current
  OBVIOUS
<1>4. /\ job'.spec = job.spec /\ job'.fresh = job.fresh /\ job'.requested = job.requested
      /\ job'.written = job.written /\ job'.cleared = ~job.fresh
      /\ job'.todo = job.todo \ {c} /\ job'.outputs = outputs /\ job'.failures = failures
  BY <1>3, NextCaseIs
<1>5. IsJob(job)'
  BY NextCaseIs
<1>6. /\ DOMAIN job'.outputs \cap job'.failures = {}
      /\ job'.todo \cap (DOMAIN job'.outputs \cup job'.failures) = {}
      /\ DOMAIN job'.outputs \cup job'.failures \cup job'.todo = job'.requested
  <2>1. CASE DOMAIN outputs = DOMAIN job.outputs \cup {c} /\ failures = job.failures
    BY <1>1, <1>2, <1>3, <1>4, <2>1
  <2>2. CASE outputs = job.outputs /\ failures = job.failures \cup {c}
    BY <1>1, <1>2, <1>3, <1>4, <2>2
  <2>. QED
    BY <1>3, <2>1, <2>2
<1>7. /\ job'.spec \in Specs /\ job'.fresh \in BOOLEAN /\ job'.cleared \in BOOLEAN
      /\ ~job'.cleared => job'.fresh
      /\ job'.requested \subseteq Cases
      /\ job'.written \in 0 .. 4 /\ (job'.written > 0 => job'.todo = {})
  BY <1>1, <1>2, <1>4
<1>. QED
  BY <1>5, <1>6, <1>7 DEF JobInv

(* What stays backed while no entry is taken away. *)
LEMMA BackedGrows ==
  ASSUME cache \subseteq cache'
  PROVE  \A spec, c, o : Backed(spec, c, o) => Backed(spec, c, o)'
  BY DEF Backed

(* A case is scored from an entry of the cache, or fails. *)
LEMMA CaseScored ==
  ASSUME JobInv, BackedInv, Auditing, cache \subseteq cache', replayable' = replayable, NEW raw,
         Score(raw),
         [spec |-> job.spec, case |-> Current, prompt |-> bundle[Current].case, response |-> raw]
           \in cache'
  PROVE  JobInv' /\ BackedInv'
<1>1. PICK s, outs, cur, k : s = job.spec /\ outs = job.outputs /\ cur = Current
                             /\ k = bundle[Current].case
  OBVIOUS
<1>2. PICK o : o = AuditOutput(raw, k)
  OBVIOUS
<1>3. \/ Accepted(raw, k) /\ NextCase(Put(outs, cur, o), job.failures)
      \/ NextCase(outs, job.failures \cup {cur})
  BY <1>1, <1>2 DEF Score
<1>4. \A c \in DOMAIN outs : Backed(s, c, outs[c])'
  <2>1. \A c \in DOMAIN outs : Backed(s, c, outs[c])
    BY <1>1 DEF BackedInv, Auditing
  <2>. QED
    BY <2>1, BackedGrows
<1>5. Accepted(raw, k) => Backed(s, cur, o)'
  <2>1. PICK e : e = [spec |-> s, case |-> cur, prompt |-> k, response |-> raw]
    OBVIOUS
  <2>2. e \in cache' /\ e.spec = s /\ e.case = cur /\ e.prompt = k /\ e.response = raw
    BY <1>1, <2>1
  <2>3. o.judged = k
    BY <1>2 DEF AuditOutput
  <2>. QED
    BY <1>2, <2>2, <2>3 DEF Backed
<1>6. PICK put : put = Put(outs, cur, o)
  OBVIOUS
<1>7. /\ DOMAIN put = DOMAIN outs \cup {cur}
      /\ put[cur] = o /\ \A c \in DOMAIN outs : c # cur => put[c] = outs[c]
  BY <1>6 DEF Put
<1>8. \A f \in replayable' : \A c \in Cases : Backed(f.spec, c, f.outputs[c])'
  <2>1. \A f \in replayable : \A c \in Cases : Backed(f.spec, c, f.outputs[c])
    BY DEF BackedInv
  <2>. QED
    BY <2>1, BackedGrows
<1>9. CASE Accepted(raw, k) /\ NextCase(put, job.failures)
  <2>1. JobInv'
    BY <1>1, <1>7, <1>9, JobAfterCase
  <2>2. job'.spec = s /\ job'.outputs = put
    BY <1>1, <1>9, NextCaseIs
  <2>3. \A c \in DOMAIN put : Backed(s, c, put[c])'
    BY <1>4, <1>5, <1>7, <1>9
  <2>. QED
    BY <1>8, <2>1, <2>2, <2>3 DEF BackedInv
<1>10. CASE NextCase(outs, job.failures \cup {cur})
  <2>1. JobInv'
    BY <1>1, <1>10, JobAfterCase
  <2>2. job'.spec = s /\ job'.outputs = outs
    BY <1>1, <1>10, NextCaseIs
  <2>. QED
    BY <1>4, <1>8, <2>1, <2>2 DEF BackedInv
<1>. QED
  BY <1>3, <1>6, <1>9, <1>10

LEMMA DataStep ==
  ASSUME DataInv, [Next]_vars
  PROVE  DataInv'
<1>1. ASSUME NEW c \in Cases, NEW content \in Contents, Rewrite(c, content)
      PROVE  DataInv'
  BY <1>1 DEF Rewrite, attestationVars, DataInv
<1>2. ASSUME NEW c \in Cases, RewriteLabels(c)
      PROVE  DataInv'
  <2>1. [bundle[c] EXCEPT !.labels = bundle[c].case] \in Contents
    BY BenchmarkAssumption DEF DataInv
  <2>. QED
    BY <1>1, <1>2, <2>1 DEF RewriteLabels
<1>3. ASSUME NEW c \in Cases, NEW k \in Recordings, RewriteCase(c, k)
      PROVE  DataInv'
  <2>1. [bundle[c] EXCEPT !.case = k] \in Contents
    BY BenchmarkAssumption DEF DataInv
  <2>. QED
    BY <1>1, <1>3, <2>1 DEF RewriteCase
<1>4. CASE WriteDatasetManifest
  BY <1>4 DEF WriteDatasetManifest, WriteManifest, attestationVars, DataInv
<1>5. ASSUME NEW c \in Cases, NEW label, Review(c, label)
      PROVE  DataInv'
  <2>1. PICK a : a = Attestation(c, label)
    OBVIOUS
  <2>2. a.case = c
    BY <2>1 DEF Attestation
  <2>3. /\ attested' = attested \cup {a} /\ standing' = [standing EXCEPT ![c] = a]
        /\ bundle' = bundle /\ rows' = rows
    BY <1>5, <2>1 DEF Review, datasetVars
  <2>4. \A d \in Cases : standing'[d] # Nobody =>
          standing'[d] \in attested' /\ standing'[d].case = d
    <3>1. ASSUME NEW d \in Cases, d # c
          PROVE  standing'[d] = standing[d]
      BY <2>3, <3>1
    <3>2. standing'[c] \in {a, standing[c]}
      BY <2>3
    <3>. QED
      BY <2>2, <2>3, <3>1, <3>2 DEF DataInv
  <2>. QED
    BY <2>3, <2>4 DEF DataInv
<1>6. UNCHANGED <<bundle, rows, reviewVars>> => DataInv'
  BY DEF reviewVars, DataInv
<1>7. ASSUME NEW r, NEW mode, NEW fresh, NEW requested, StartB1(r, mode, fresh, requested)
      PROVE  DataInv'
  BY <1>6, <1>7 DEF StartB1
<1>8. ASSUME NEW raw, Answered(raw)
      PROVE  DataInv'
  BY <1>6, <1>8 DEF Answered
<1>9. CASE ClearCache \/ Hit \/ Missed \/ WriteArtifact \/ EndB1 \/ Kill
  BY <1>6, <1>9 DEF ClearCache, Hit, Missed, WriteArtifact, EndB1, Kill
<1>10. CASE UNCHANGED vars
  BY <1>6, <1>10 DEF vars
<1>. QED
  BY <1>2, <1>3, <1>4, <1>5, <1>7, <1>8, <1>9, <1>10 DEF Next

-----------------------------------------------------------------------------
(* One lemma per step of a command. *)

BenchInv == CacheInv /\ JobInv /\ BackedInv /\ WholeInv /\ FilesInv

LEMMA ElsewhereStep ==
  ASSUME BenchInv, UNCHANGED benchVars
  PROVE  BenchInv'
<1>. USE DEF benchVars
<1>1. CacheInv' /\ JobInv'
  BY DEF BenchInv, CacheInv, JobInv, IsJob
<1>2. BackedInv'
  <2>1. \A spec, c, o : Backed(spec, c, o) => Backed(spec, c, o)'
    BY BackedGrows
  <2>. QED
    BY <2>1 DEF BenchInv, BackedInv
<1>3. WholeInv' /\ FilesInv'
  BY DEF BenchInv, WholeInv, FilesInv
<1>. QED
  BY <1>1, <1>2, <1>3 DEF BenchInv

LEMMA StartStep ==
  ASSUME DataInv, BenchInv, NEW r \in RunIndices, NEW mode, NEW fresh \in BOOLEAN,
         NEW requested \in Requests, StartB1(r, mode, fresh, requested)
  PROVE  BenchInv'
<1>1. /\ cache' = cache /\ artifact' = artifact /\ finished' = finished /\ replayable' = replayable
  BY DEF StartB1
<1>2. PICK spec, none : spec = build_b1_spec(r) /\ none = [c \in {} |-> Nothing]
  OBVIOUS
<1>3. job' = [spec |-> spec, mode |-> mode, fresh |-> fresh, requested |-> requested,
              todo |-> requested, cleared |-> ~fresh, outputs |-> none, failures |-> {},
              written |-> 0]
  BY <1>2 DEF StartB1
<1>4. spec \in Specs /\ DOMAIN none = {} /\ requested \subseteq Cases
  BY <1>2, BenchmarkAssumption DEF build_b1_spec, Specs, DataInv
<1>5. JobInv'
  <2>1. IsJob(job)'
    BY <1>3 DEF IsJob
  <2>2. /\ job'.spec = spec /\ job'.fresh = fresh /\ job'.cleared = ~fresh
        /\ job'.requested = requested /\ job'.todo = requested /\ job'.written = 0
        /\ job'.outputs = none /\ job'.failures = {}
    BY <1>3
  <2>3. job'.cleared \in BOOLEAN /\ (~job'.cleared => job'.fresh)
    BY <2>2, Zenon
  <2>. QED
    BY <1>4, <2>1, <2>2, <2>3 DEF JobInv
<1>6. BackedInv'
  <2>1. \A s, c, o : Backed(s, c, o) => Backed(s, c, o)'
    BY <1>1, BackedGrows
  <2>2. \A f \in replayable' : \A c \in Cases : Backed(f.spec, c, f.outputs[c])'
    BY <1>1, <2>1 DEF BenchInv, BackedInv
  <2>3. job'.outputs = none
    BY <1>3
  <2>. QED
    BY <1>4, <2>2, <2>3 DEF BackedInv
<1>7. CacheInv' /\ WholeInv' /\ FilesInv'
  BY <1>1, <1>3 DEF BenchInv, CacheInv, WholeInv, FilesInv
<1>. QED
  BY <1>5, <1>6, <1>7 DEF BenchInv

LEMMA ClearStep ==
  ASSUME BenchInv, ClearCache
  PROVE  BenchInv'
<1>1. PICK s, outs, cur : s = job.spec /\ outs = job.outputs /\ cur = Current
  OBVIOUS
<1>2. /\ job # Nothing /\ job.todo # {} /\ IsJob(job) /\ ~job.cleared
      /\ cache' = {e \in cache : ~ (e.spec = s /\ e.case = cur)}
      /\ job' = [job EXCEPT !.cleared = TRUE]
      /\ replayable' = {f \in replayable : f.spec # s}
      /\ artifact' = artifact /\ finished' = finished
  BY <1>1 DEF BenchInv, ClearCache, Auditing, InCache, JobInv
<1>3. job' = [spec |-> job.spec, mode |-> job.mode, fresh |-> job.fresh,
              requested |-> job.requested, todo |-> job.todo, cleared |-> TRUE,
              outputs |-> job.outputs, failures |-> job.failures, written |-> job.written]
  BY <1>2 DEF IsJob
<1>4. cur \in job.todo
  BY <1>1, CurrentIsRequested DEF BenchInv, ClearCache
<1>5. /\ job'.spec = s /\ job'.outputs = outs /\ job'.written = job.written
      /\ job'.todo = job.todo /\ job'.failures = job.failures /\ job'.requested = job.requested
      /\ job'.fresh = job.fresh /\ job'.cleared = TRUE /\ IsJob(job)'
  BY <1>1, <1>3 DEF IsJob
<1>6. JobInv'
  BY <1>1, <1>2, <1>5 DEF BenchInv, JobInv
<1>7. \A spec, c, o : Backed(spec, c, o) /\ ~ (spec = s /\ c = cur) => Backed(spec, c, o)'
  BY <1>2 DEF Backed
<1>8. BackedInv'
  <2>1. \A c \in DOMAIN outs : Backed(s, c, outs[c])'
    <3>1. \A c \in DOMAIN outs : Backed(s, c, outs[c]) /\ c # cur
      BY <1>1, <1>2, <1>4 DEF BenchInv, BackedInv, JobInv
    <3>. QED
      BY <1>7, <3>1
  <2>2. \A f \in replayable' : \A c \in Cases : Backed(f.spec, c, f.outputs[c])'
    <3>1. \A f \in replayable' : f.spec # s /\ \A c \in Cases : Backed(f.spec, c, f.outputs[c])
      BY <1>2 DEF BenchInv, BackedInv
    <3>. QED
      BY <1>7, <3>1
  <2>. QED
    BY <1>5, <2>1, <2>2 DEF BackedInv
<1>9. CacheInv' /\ FilesInv'
  BY <1>2 DEF BenchInv, CacheInv, FilesInv
<1>10. WholeInv'
  BY <1>1, <1>2, <1>5 DEF BenchInv, WholeInv
<1>. QED
  BY <1>6, <1>8, <1>9, <1>10 DEF BenchInv

LEMMA HitStep ==
  ASSUME DataInv, BenchInv, Hit
  PROVE  BenchInv'
<1>1. /\ Auditing /\ cache' = cache /\ artifact' = artifact /\ finished' = finished
      /\ replayable' = replayable
  BY DEF Hit
<1>2. PICK e \in Recorded : Score(e.response)
  BY DEF Hit
<1>3. [spec |-> job.spec, case |-> Current, prompt |-> bundle[Current].case,
       response |-> e.response] \in cache'
  <2>1. e \in Entries /\ e \in cache /\ e.spec = job.spec /\ e.case = Current
        /\ e.prompt = bundle[Current].case
    BY <1>2 DEF Recorded, InCache, BenchInv, CacheInv
  <2>2. e = [spec |-> e.spec, case |-> e.case, prompt |-> e.prompt, response |-> e.response]
    BY <2>1 DEF Entries
  <2>. QED
    BY <1>1, <2>1, <2>2
<1>4. JobInv' /\ BackedInv'
  BY <1>1, <1>2, <1>3, CaseScored DEF BenchInv
<1>5. CacheInv' /\ FilesInv'
  BY <1>1 DEF BenchInv, CacheInv, FilesInv
<1>6. job'.written = 0
  BY <1>1, <1>2, ScoreWritesNothing DEF BenchInv
<1>. QED
  BY <1>4, <1>5, <1>6 DEF BenchInv, WholeInv

LEMMA AnsweredStep ==
  ASSUME DataInv, BenchInv, NEW raw \in Completions, Answered(raw)
  PROVE  BenchInv'
<1>1. /\ Auditing /\ Recorded = {} /\ artifact' = artifact /\ finished' = finished
      /\ replayable' = replayable /\ Score(raw)
  BY DEF Answered
<1>2. PICK s, cur, k : s = job.spec /\ cur = Current /\ k = bundle[Current].case
  OBVIOUS
<1>3. PICK new : new = [spec |-> s, case |-> cur, prompt |-> k, response |-> raw]
  OBVIOUS
<1>4. /\ new.spec = s /\ new.case = cur /\ new.prompt = k /\ new.response = raw
      /\ new \in Entries
  <2>1. s \in Specs /\ cur \in Cases /\ k \in Recordings
    BY <1>1, <1>2, CurrentIsRequested, PromptIs DEF BenchInv, JobInv, Auditing
  <2>. QED
    BY <1>3, <2>1 DEF Entries
<1>5. \A e \in cache : ~ (e.spec = s /\ e.case = cur /\ e.prompt = k)
  BY <1>1, <1>2 DEF Recorded, InCache
<1>6. cache' = cache \cup {new}
  <2>1. cache' = {e \in cache : <<e.spec, e.case, e.prompt>> # <<s, cur, k>>} \cup {new}
    BY <1>2, <1>3 DEF Answered
  <2>2. {e \in cache : <<e.spec, e.case, e.prompt>> # <<s, cur, k>>} = cache
    BY <1>5
  <2>. QED
    BY <2>1, <2>2
<1>7. CacheInv'
  BY <1>4, <1>5, <1>6 DEF BenchInv, CacheInv
<1>8. JobInv' /\ BackedInv'
  <2>1. [spec |-> job.spec, case |-> Current, prompt |-> bundle[Current].case, response |-> raw]
          \in cache' /\ cache \subseteq cache'
    BY <1>2, <1>3, <1>6
  <2>. QED
    BY <1>1, <2>1, CaseScored DEF BenchInv
<1>9. FilesInv'
  BY <1>1 DEF BenchInv, FilesInv
<1>10. job'.written = 0
  BY <1>1, ScoreWritesNothing DEF BenchInv
<1>. QED
  BY <1>7, <1>8, <1>9, <1>10 DEF BenchInv, WholeInv

LEMMA MissedStep ==
  ASSUME BenchInv, Missed
  PROVE  BenchInv'
<1>1. /\ Auditing /\ cache' = cache /\ artifact' = artifact /\ finished' = finished
      /\ replayable' = replayable
      /\ NextCase(job.outputs, job.failures \cup {Current})
  BY DEF Missed
<1>2. JobInv'
  BY <1>1, JobAfterCase DEF BenchInv
<1>3. /\ job'.spec = job.spec /\ job'.outputs = job.outputs /\ job'.written = 0
  <2>1. job'.written = job.written
    BY <1>1, NextCaseIs DEF BenchInv
  <2>2. job.written = 0
    BY <1>1 DEF BenchInv, JobInv, Auditing
  <2>. QED
    BY <1>1, <2>1, <2>2, NextCaseIs DEF BenchInv
<1>4. BackedInv'
  BY <1>1, <1>3 DEF BenchInv, BackedInv, Backed, Auditing
<1>5. CacheInv' /\ FilesInv' /\ WholeInv'
  BY <1>1, <1>3 DEF BenchInv, CacheInv, FilesInv, WholeInv
<1>. QED
  BY <1>2, <1>4, <1>5 DEF BenchInv

(* Files of a directory, and of one that a command has just begun. *)
LEMMA DirectoryIs ==
  ASSUME FilesInv, NEW spec
  PROVE  LET d == Directory(spec) IN
           /\ DOMAIN d = {"spec", "outputs", "failures", "summary"}
           /\ d["spec"] \in {Nothing, Torn, spec}
           /\ d["outputs"] \notin {Nothing, Torn} /\ DOMAIN d["outputs"] = Cases =>
                [spec |-> spec, outputs |-> d["outputs"]] \in finished
<1>1. CASE spec \in DOMAIN artifact
  BY <1>1 DEF Directory, FilesInv
<1>2. CASE spec \notin DOMAIN artifact
  <2>1. {Files[n] : n \in 1 .. 4} = {"spec", "outputs", "failures", "summary"}
    <3>1. 1 .. 4 = {1, 2, 3, 4}
      OBVIOUS
    <3>. QED
      BY <3>1 DEF Files
  <2>2. Directory(spec) = [f \in {"spec", "outputs", "failures", "summary"} |-> Nothing]
    BY <1>2, <2>1 DEF Directory, NoFiles
  <2>. QED
    BY <2>2
<1>. QED
  BY <1>1, <1>2

(* A file is stored: what the outputs say must be known as finished.       *)
LEMMA FilesStored ==
  ASSUME FilesInv, finished \subseteq finished', NEW file, NEW content, Store(file, content),
         file = "spec" => content \in {Torn, job.spec},
         file = "outputs" /\ content \notin {Nothing, Torn} /\ DOMAIN content = Cases =>
           [spec |-> job.spec, outputs |-> content] \in finished'
  PROVE  FilesInv'
<1>1. PICK spec, d : spec = job.spec /\ d = Directory(spec)
  OBVIOUS
<1>2. /\ DOMAIN d = {"spec", "outputs", "failures", "summary"}
      /\ d["spec"] \in {Nothing, Torn, spec}
      /\ d["outputs"] \notin {Nothing, Torn} /\ DOMAIN d["outputs"] = Cases =>
           [spec |-> spec, outputs |-> d["outputs"]] \in finished
  BY <1>1, DirectoryIs
<1>3. /\ DOMAIN artifact' = DOMAIN artifact \cup {spec}
      /\ artifact'[spec] = [d EXCEPT ![file] = content]
      /\ \A s \in DOMAIN artifact : s # spec => artifact'[s] = artifact[s]
  BY <1>1, StoreIs
<1>4. PICK new : new = [d EXCEPT ![file] = content]
  OBVIOUS
<1>5. /\ DOMAIN new = {"spec", "outputs", "failures", "summary"}
      /\ new["spec"] \in {d["spec"], content} /\ (file # "spec" => new["spec"] = d["spec"])
      /\ new["outputs"] \in {d["outputs"], content}
      /\ (file # "outputs" => new["outputs"] = d["outputs"])
  BY <1>2, <1>4
<1>6. new["spec"] \in {Nothing, Torn, spec}
  BY <1>1, <1>2, <1>5
<1>7. new["outputs"] \notin {Nothing, Torn} /\ DOMAIN new["outputs"] = Cases =>
        [spec |-> spec, outputs |-> new["outputs"]] \in finished'
  BY <1>1, <1>2, <1>5
<1>8. ASSUME NEW s \in DOMAIN artifact'
      PROVE  /\ DOMAIN artifact'[s] = {"spec", "outputs", "failures", "summary"}
             /\ artifact'[s]["spec"] \in {Nothing, Torn, s}
             /\ artifact'[s]["outputs"] \notin {Nothing, Torn}
                  /\ DOMAIN artifact'[s]["outputs"] = Cases =>
                  [spec |-> s, outputs |-> artifact'[s]["outputs"]] \in finished'
  <2>1. CASE s = spec
    BY <1>3, <1>4, <1>5, <1>6, <1>7, <2>1
  <2>2. CASE s # spec
    BY <1>3, <2>2 DEF FilesInv
  <2>. QED
    BY <2>1, <2>2
<1>. QED
  BY <1>8 DEF FilesInv

(* The fields of a command, and its outputs if every case is done. *)
LEMMA WritingIs ==
  ASSUME BenchInv, Writing
  PROVE  /\ job # Nothing /\ IsJob(job) /\ job.written \in 0 .. 3 /\ job.todo = {}
         /\ job.failures = {} /\ job.requested = Cases => DOMAIN job.outputs = Cases
         /\ DOMAIN job.outputs = Cases => job.failures = {} /\ job.requested = Cases
         /\ NextFile = "spec" => job.written = 0
         /\ NextFile = "outputs" => job.written = 1
         /\ NextFile \in {"spec", "outputs", "failures", "summary"}
<1>1. /\ job # Nothing /\ IsJob(job) /\ job.written \in 0 .. 3 /\ job.todo = {}
      /\ job.requested \subseteq Cases /\ DOMAIN job.outputs \cap job.failures = {}
      /\ DOMAIN job.outputs \cup job.failures \cup job.todo = job.requested
  BY DEF BenchInv, JobInv, Writing
<1>2. /\ job.failures = {} /\ job.requested = Cases => DOMAIN job.outputs = Cases
      /\ DOMAIN job.outputs = Cases => job.failures = {} /\ job.requested = Cases
  BY <1>1
<1>3. /\ Files[1] = "spec" /\ Files[2] = "outputs" /\ Files[3] = "failures"
      /\ Files[4] = "summary"
  BY DEF Files
<1>4. job.written = 0 \/ job.written = 1 \/ job.written = 2 \/ job.written = 3
  BY <1>1
<1>. QED
  BY <1>1, <1>2, <1>3, <1>4 DEF NextFile

LEMMA WriteStep ==
  ASSUME BenchInv, WriteArtifact
  PROVE  BenchInv'
<1>1. PICK s, outs : s = job.spec /\ outs = job.outputs
  OBVIOUS
<1>2. PICK run : run = [spec |-> s, outputs |-> outs]
  OBVIOUS
<1>3. PICK whole : whole = {x \in {run} : job.failures = {} /\ job.requested = Cases}
  OBVIOUS
<1>4. /\ Writing /\ cache' = cache /\ Store(NextFile, FileContent(NextFile))
      /\ finished' = finished \cup whole /\ replayable' = replayable \cup whole
      /\ job' = [job EXCEPT !.written = job.written + 1]
  BY <1>1, <1>2, <1>3 DEF WriteArtifact
<1>5. /\ job'.spec = s /\ job'.outputs = outs /\ job'.written = job.written + 1
      /\ job'.todo = job.todo /\ job'.failures = job.failures /\ job'.requested = job.requested
      /\ job'.fresh = job.fresh /\ job'.cleared = job.cleared /\ IsJob(job)'
  <2>1. job' = [spec |-> job.spec, mode |-> job.mode, fresh |-> job.fresh,
                requested |-> job.requested, todo |-> job.todo, cleared |-> job.cleared,
                outputs |-> job.outputs, failures |-> job.failures,
                written |-> job.written + 1]
    BY <1>4, WritingIs DEF IsJob
  <2>. QED
    BY <1>1, <2>1 DEF IsJob
<1>6. JobInv'
  BY <1>1, <1>4, <1>5, WritingIs DEF BenchInv, JobInv
<1>7. \A spec, c, o : Backed(spec, c, o) => Backed(spec, c, o)'
  BY <1>4, BackedGrows
<1>8. \A c \in DOMAIN outs : Backed(s, c, outs[c])'
  BY <1>1, <1>4, <1>7, WritingIs DEF BenchInv, BackedInv
<1>9. \A f \in replayable' : \A c \in Cases : Backed(f.spec, c, f.outputs[c])'
  <2>1. \A f \in replayable : \A c \in Cases : Backed(f.spec, c, f.outputs[c])'
    BY <1>7 DEF BenchInv, BackedInv
  <2>2. ASSUME NEW f \in whole
        PROVE  \A c \in Cases : Backed(f.spec, c, f.outputs[c])'
    <3>1. f = run /\ DOMAIN outs = Cases
      BY <1>1, <1>3, <1>4, WritingIs
    <3>2. f.spec = s /\ f.outputs = outs
      BY <1>2, <3>1
    <3>. QED
      BY <1>8, <3>1, <3>2
  <2>. QED
    BY <1>4, <2>1, <2>2
<1>10. BackedInv'
  BY <1>5, <1>8, <1>9 DEF BackedInv
<1>11. WholeInv'
  BY <1>2, <1>3, <1>4, <1>5 DEF WholeInv
<1>12. FilesInv'
  <2>1. NextFile = "spec" => FileContent(NextFile) \in {Torn, job.spec}
    BY DEF FileContent
  <2>2. NextFile = "outputs" => FileContent(NextFile) = outs
    BY <1>1 DEF FileContent
  <2>3. DOMAIN outs = Cases => run \in finished'
    BY <1>1, <1>3, <1>4, WritingIs
  <2>. QED
    BY <1>1, <1>2, <1>4, <2>1, <2>2, <2>3, FilesStored DEF BenchInv
<1>13. CacheInv'
  BY <1>4 DEF BenchInv, CacheInv
<1>. QED
  BY <1>6, <1>10, <1>11, <1>12, <1>13 DEF BenchInv

LEMMA KillStep ==
  ASSUME BenchInv, Kill
  PROVE  BenchInv'
<1>1. /\ job' = Nothing /\ cache' = cache /\ finished' = finished /\ replayable' = replayable
      /\ artifact' = artifact \/ Store(NextFile, Torn)
  BY DEF Kill
<1>2. FilesInv'
  <2>1. CASE artifact' = artifact
    BY <1>1, <2>1 DEF BenchInv, FilesInv
  <2>2. CASE Store(NextFile, Torn)
    BY <1>1, <2>2, FilesStored DEF BenchInv
  <2>. QED
    BY <1>1, <2>1, <2>2
<1>3. BackedInv'
  <2>1. \A spec, c, o : Backed(spec, c, o) => Backed(spec, c, o)'
    BY <1>1, BackedGrows
  <2>. QED
    BY <1>1, <2>1 DEF BenchInv, BackedInv
<1>4. CacheInv' /\ JobInv' /\ WholeInv'
  BY <1>1 DEF BenchInv, CacheInv, JobInv, WholeInv
<1>. QED
  BY <1>2, <1>3, <1>4 DEF BenchInv

LEMMA EndStep ==
  ASSUME BenchInv, EndB1
  PROVE  BenchInv'
<1>1. /\ job' = Nothing /\ cache' = cache /\ finished' = finished /\ replayable' = replayable
      /\ artifact' = artifact
  BY DEF EndB1
<1>2. BackedInv'
  <2>1. \A spec, c, o : Backed(spec, c, o) => Backed(spec, c, o)'
    BY <1>1, BackedGrows
  <2>. QED
    BY <1>1, <2>1 DEF BenchInv, BackedInv
<1>3. CacheInv' /\ JobInv' /\ WholeInv' /\ FilesInv'
  BY <1>1 DEF BenchInv, CacheInv, JobInv, WholeInv, FilesInv
<1>. QED
  BY <1>2, <1>3 DEF BenchInv
-----------------------------------------------------------------------------
LEMMA InitHolds == Init => IInv
<1>. SUFFICES ASSUME Init PROVE IInv
  OBVIOUS
<1>1. DataInv
  BY BenchmarkAssumption DEF Init, DataInv
<1>2. CacheInv /\ JobInv /\ BackedInv /\ WholeInv /\ FilesInv
  BY DEF Init, CacheInv, JobInv, BackedInv, WholeInv, FilesInv
<1>. QED
  BY <1>1, <1>2 DEF IInv

LEMMA InvStep == IInv /\ [Next]_vars => IInv'
<1>. SUFFICES ASSUME IInv, [Next]_vars PROVE IInv'
  OBVIOUS
<1>1. DataInv /\ BenchInv
  BY DEF IInv, BenchInv
<1>2. DataInv'
  BY <1>1, DataStep
<1>3. BenchInv'
  <2>1. ASSUME NEW c \in Cases, NEW k, NEW label,
               RewriteLabels(c) \/ RewriteCase(c, k) \/ Review(c, label)
        PROVE  BenchInv'
    BY <1>1, <2>1, ElsewhereStep DEF RewriteLabels, RewriteCase, Review
  <2>2. CASE WriteDatasetManifest \/ UNCHANGED vars
    BY <1>1, <2>2, ElsewhereStep DEF WriteDatasetManifest, vars
  <2>3. ASSUME NEW r \in RunIndices, NEW mode \in {MODE_LIVE, MODE_REPLAY}, NEW fresh \in BOOLEAN,
               NEW requested \in Requests, StartB1(r, mode, fresh, requested)
        PROVE  BenchInv'
    BY <1>1, <2>3, StartStep
  <2>4. ASSUME NEW raw \in Completions, Answered(raw)
        PROVE  BenchInv'
    BY <1>1, <2>4, AnsweredStep
  <2>5. CASE ClearCache \/ Hit \/ Missed
    BY <1>1, <2>5, ClearStep, HitStep, MissedStep
  <2>6. CASE WriteArtifact \/ EndB1 \/ Kill
    BY <1>1, <2>6, WriteStep, EndStep, KillStep
  <2>. QED
    BY <2>1, <2>2, <2>3, <2>4, <2>5, <2>6 DEF Next
<1>. QED
  BY <1>2, <1>3 DEF IInv, BenchInv

LEMMA Invariant == Spec => []IInv
  BY InitHolds, InvStep, PTL DEF Spec

(* Whatever commands for some cases, failures and kills leave in a run's   *)
(* directory, what a report accepts from it is the outputs of one command  *)
(* that finished every case (benchmark_report.py _validate_b1_artifacts).  *)
THEOREM ReportedRunsAreWhole == Spec => []ReportedRunIsWhole
<1>1. FilesInv => ReportedRunIsWhole
  <2>. SUFFICES ASSUME FilesInv, NEW spec \in DOMAIN artifact, ValidArtifacts(spec)
                PROVE  [spec |-> spec, outputs |-> artifact[spec].outputs] \in finished
    BY DEF ReportedRunIsWhole
  <2>1. Directory(spec) = artifact[spec]
    BY DEF Directory
  <2>2. /\ \A f \in DOMAIN artifact[spec] : artifact[spec][f] \notin {Nothing, Torn}
        /\ DOMAIN artifact[spec]["outputs"] = Cases
    BY <2>1 DEF ValidArtifacts
  <2>3. artifact[spec]["outputs"] \notin {Nothing, Torn}
    BY <2>2 DEF FilesInv
  <2>. QED
    BY <2>2, <2>3 DEF FilesInv
<1>. QED
  BY <1>1, Invariant, PTL DEF IInv

(* Every label of a headline was attested by somebody, for the files and   *)
(* the manifest that the report scores (benchmark_report.py, review.py).   *)
THEOREM HeadlinesAreAttested == Spec => []HeadlineIsAttested
<1>1. ASSUME DataInv, NEW mode \in LabelModes, ReportAllowed(mode),
             comparison(mode).headline_eligible
      PROVE  /\ mode = "verified"
             /\ \A c \in Cases : \E a \in attested :
                  /\ a.case = c /\ a.source = [manifest |-> rows, content |-> bundle[c]]
                  /\ a.label # Nobody /\ truths(mode)[c] = GroundTruth(a.label, c, TRUE)
  <2>1. mode = "verified"
    BY <1>1 DEF comparison, build_comparison_report
  <2>2. \A c \in Cases : Accepts(c)
    BY <1>1, <2>1 DEF ReportAllowed, headline_eligible
  <2>3. ASSUME NEW c \in Cases
        PROVE  \E a \in attested :
                 /\ a.case = c /\ a.source = [manifest |-> rows, content |-> bundle[c]]
                 /\ a.label # Nobody /\ truths(mode)[c] = GroundTruth(a.label, c, TRUE)
    <3>1. truths(mode)[c] = GroundTruth(standing[c].label, c, TRUE)
      BY <2>1 DEF truths
    <3>. QED
      BY <1>1, <2>2, <3>1 DEF Accepts, DataInv
  <2>. QED
    BY <2>1, <2>3
<1>2. DataInv => HeadlineIsAttested
  BY <1>1 DEF HeadlineIsAttested
<1>. QED
  BY <1>2, Invariant, PTL DEF IInv

(* What a finished command reported, its caches give again without a       *)
(* network, unless --fresh discarded them; and a prompt has one answer     *)
(* (baselines/json_client.py, benchmark.py run_b1_benchmark).              *)
THEOREM CachesReproduce == Spec => []ResultsReproduce
<1>1. IInv => ResultsReproduce
  <2>. SUFFICES ASSUME IInv PROVE ResultsReproduce
    OBVIOUS
  <2>1. BenchmarkTypeOK
    <3>1. \A e \in cache :
            /\ e.response \in Completions /\ e.prompt \in Recordings
            /\ \A f \in InCache(e.spec, e.case) : f.prompt = e.prompt => f = e
      BY DEF IInv, CacheInv, Entries, InCache
    <3>2. job # Nothing =>
            /\ DOMAIN job.outputs \cap job.failures = {}
            /\ DOMAIN job.outputs \cup job.failures \cup job.todo = job.requested
      BY DEF IInv, JobInv
    <3>3. \A s \in DOMAIN artifact : artifact[s].spec \in {Nothing, Torn, s}
      BY DEF IInv, FilesInv
    <3>. QED
      BY <3>1, <3>2, <3>3 DEF BenchmarkTypeOK, IInv, DataInv
  <2>2. ReplayReproduces
    BY DEF IInv, BackedInv, Backed, ReplayReproduces
  <2>. QED
    BY <2>1, <2>2 DEF ResultsReproduce
<1>. QED
  BY <1>1, Invariant, PTL

(* "failed completions were not silently repaired or scored"               *)
(* (CODEX_TRAJECTORIES.md:73): only --fresh takes a completion away.       *)
THEOREM CompletionsStay == Spec => CompletionsAreKept
<1>1. ASSUME IInv, [Next]_vars, NEW e \in cache \ cache'
      PROVE  job.fresh /\ job.spec = e.spec
  <2>. USE <1>1
  <2>1. ~UNCHANGED cache
    OBVIOUS
  <2>2. CASE ClearCache
    <3>1. ~job.cleared /\ job # Nothing /\ e \in InCache(job.spec, Current)
      BY <2>2 DEF ClearCache, Auditing
    <3>. QED
      BY <3>1 DEF IInv, JobInv, InCache
  <2>3. ASSUME NEW raw, Answered(raw)
        PROVE  FALSE
    <3>1. Recorded = {}
      BY <2>3 DEF Answered
    <3>2. <<e.spec, e.case, e.prompt>> = <<job.spec, Current, bundle[Current].case>>
      BY <2>3 DEF Answered
    <3>. QED
      BY <3>1, <3>2 DEF Recorded, InCache
  <2>4. ASSUME NEW r, NEW mode, NEW fresh, NEW requested, StartB1(r, mode, fresh, requested)
        PROVE  UNCHANGED cache
    BY <2>4 DEF StartB1
  <2>5. Hit \/ Missed \/ WriteArtifact \/ EndB1 \/ Kill \/ WriteDatasetManifest \/ UNCHANGED vars
          => UNCHANGED cache
    BY DEF Hit, Missed, WriteArtifact, EndB1, Kill, WriteDatasetManifest, vars, benchVars
  <2>6. ASSUME NEW c, NEW k, NEW label, RewriteLabels(c) \/ RewriteCase(c, k) \/ Review(c, label)
        PROVE  UNCHANGED cache
    BY <2>6 DEF RewriteLabels, RewriteCase, Review, benchVars
  <2>. QED
    BY <2>1, <2>2, <2>3, <2>4, <2>5, <2>6 DEF Next
<1>2. IInv /\ [Next]_vars => [\A e \in cache \ cache' : job.fresh /\ job.spec = e.spec]_vars
  BY <1>1
<1>. QED
  BY <1>2, Invariant, PTL DEF Spec, CompletionsAreKept
-----------------------------------------------------------------------------
(* The numbers of a report.  A mean is compared over the common            *)
(* denominator its definition multiplies together: the folds of the        *)
(* library are unfolded to functions on the subsets of the index set,      *)
(* which induction on the size of a subset then describes.                 *)
LEMMA Cancel ==
  ASSUME NEW a \in Int, NEW b \in Int, NEW c \in Nat \ {0}, a * c = b * c
  PROVE  a = b
  OBVIOUS

LEMMA CancelLeq ==
  ASSUME NEW a \in Int, NEW b \in Int, NEW c \in Nat \ {0}
  PROVE  a * c <= b * c <=> a <= b
  OBVIOUS

LEMMA ExactQuotient ==
  ASSUME NEW q \in Nat, NEW d \in Nat \ {0}
  PROVE  (q * d) \div d = q
  OBVIOUS

LEMMA ProductType ==
  ASSUME NEW a \in Nat \ {0}, NEW b \in Nat \ {0}
  PROVE a * b \in Nat \ {0}
  OBVIOUS

First(s) == CHOOSE x \in s : TRUE

IsProduct(g, r, I) ==
  g = [s \in SUBSET I |-> IF s = {} THEN 1 ELSE r[First(s)].den * g[s \ {First(s)}]]

IsTotal(g, r, den, I) ==
  g = [s \in SUBSET I |->
         IF s = {} THEN 0
         ELSE r[First(s)].num * (den \div r[First(s)].den) + g[s \ {First(s)}]]

-----------------------------------------------------------------------------
Rest(s) == s \ {First(s)}

LEMMA Smaller ==
  ASSUME NEW D, IsFiniteSet(D), NEW s \in SUBSET D, s # {}
  PROVE  /\ First(s) \in s /\ First(s) \in D /\ Rest(s) \in SUBSET D
         /\ Cardinality(s) \in Nat \ {0} /\ Cardinality(Rest(s)) \in Nat
         /\ Cardinality(Rest(s)) = Cardinality(s) - 1
<1>1. First(s) \in s
  BY DEF First
<1>2. PICK x, t : x = First(s) /\ t = Rest(s)
  OBVIOUS
<1>3. x \in s /\ t = s \ {x}
  BY <1>1, <1>2 DEF Rest
<1>4. IsFiniteSet(s)
  BY FS_Subset
<1>5. Cardinality(s) \in Nat /\ Cardinality(s) # 0
  BY <1>4, FS_CardinalityType, FS_EmptySet
<1>6. IsFiniteSet(t) /\ Cardinality(t) = Cardinality(s) - 1
  BY <1>3, <1>4, FS_RemoveElement
<1>7. Cardinality(t) \in Nat
  BY <1>6, FS_CardinalityType
<1>. QED
  BY <1>2, <1>3, <1>5, <1>6, <1>7

(* Induction over the subsets of a finite set, an element at a time.       *)
LEMMA SubsetInduction ==
  ASSUME NEW D, IsFiniteSet(D), NEW Good, {} \in Good,
         \A s \in SUBSET D : s # {} /\ Rest(s) \in Good => s \in Good
  PROVE  \A s \in SUBSET D : s \in Good
<1>. DEFINE Sizes == {Cardinality(s) : s \in (SUBSET D) \ Good}
<1>1. \A s \in SUBSET D : Cardinality(s) \in Nat
  BY FS_Subset, FS_CardinalityType
<1>2. Sizes \subseteq Nat
  BY <1>1
<1>3. Sizes = {}
  <2>. SUFFICES ASSUME Sizes # {} PROVE FALSE
    OBVIOUS
  <2>1. PICK n \in Sizes : \A m \in Sizes : n <= m
    BY <1>2, HasLeast
  <2>2. PICK s \in SUBSET D : s \notin Good /\ n = Cardinality(s)
    BY <2>1
  <2>3. s # {}
    BY <2>2
  <2>4. Rest(s) \in SUBSET D /\ Rest(s) \notin Good
    BY <2>2, <2>3, Smaller
  <2>5. n <= Cardinality(Rest(s))
    BY <2>1, <2>4
  <2>6. Cardinality(s) \in Nat /\ Cardinality(Rest(s)) = Cardinality(s) - 1
    BY <2>3, Smaller
  <2>. HIDE DEF Sizes
  <2>. QED
    BY <2>2, <2>5, <2>6
<1>. QED
  BY <1>3

-----------------------------------------------------------------------------
(* A fold over the subsets of D that takes away a chosen element. *)
Combine(times, a, b) == IF times THEN a * b ELSE a + b
Base(times) == IF times THEN 1 ELSE 0

IsFold(g, times, w, D) ==
  g = [s \in SUBSET D |-> IF s = {} THEN Base(times) ELSE Combine(times, w[First(s)], g[Rest(s)])]

(* g is right for the subsets of at most n elements. *)
FoldsUpTo(g, times, w, D, n) ==
  /\ g = [s \in SUBSET D |-> g[s]]
  /\ \A s \in SUBSET D : Cardinality(s) <= n =>
       g[s] = IF s = {} THEN Base(times) ELSE Combine(times, w[First(s)], g[Rest(s)])

LEMMA FoldGrows ==
  ASSUME NEW times, NEW w, NEW D, IsFiniteSet(D), NEW n \in Nat, NEW g,
         FoldsUpTo(g, times, w, D, n)
  PROVE  \E h : FoldsUpTo(h, times, w, D, n + 1)
<1>. DEFINE Next1(s) == IF s = {} THEN Base(times) ELSE Combine(times, w[First(s)], g[Rest(s)])
            h == [s \in SUBSET D |-> IF Cardinality(s) <= n THEN g[s] ELSE Next1(s)]
<1>1. ASSUME NEW s \in SUBSET D, Cardinality(s) <= n + 1
      PROVE  h[s] = IF s = {} THEN Base(times) ELSE Combine(times, w[First(s)], h[Rest(s)])
  <2>1. h[s] = Next1(s)
    BY DEF FoldsUpTo
  <2>2. CASE s = {}
    BY <2>1, <2>2
  <2>3. CASE s # {}
    <3>1. /\ Rest(s) \in SUBSET D /\ Cardinality(s) \in Nat
          /\ Cardinality(Rest(s)) = Cardinality(s) - 1
      BY <2>3, Smaller
    <3>2. Cardinality(Rest(s)) <= n
      BY <1>1, <3>1
    <3>3. h[Rest(s)] = g[Rest(s)]
      BY <3>1, <3>2
    <3>. QED
      BY <2>1, <2>3, <3>3, Zenon
  <2>. QED
    BY <2>2, <2>3
<1>2. h = [s \in SUBSET D |-> h[s]]
  OBVIOUS
<1>. HIDE DEF h
<1>. QED
  BY <1>1, <1>2 DEF FoldsUpTo

LEMMA FoldExists ==
  ASSUME NEW times, NEW w, NEW D, IsFiniteSet(D)
  PROVE  \E g : IsFold(g, times, w, D)
<1>. DEFINE Bad == {n \in Nat : ~ \E g : FoldsUpTo(g, times, w, D, n)}
<1>1. \E g : FoldsUpTo(g, times, w, D, 0)
  <2>. DEFINE g == [s \in SUBSET D |-> Base(times)]
  <2>1. ASSUME NEW s \in SUBSET D, Cardinality(s) <= 0
        PROVE  s = {}
    <3>1. s # {} => Cardinality(s) \in Nat \ {0}
      BY Smaller
    <3>. QED
      BY <2>1, <3>1
  <2>2. FoldsUpTo(g, times, w, D, 0)
    BY <2>1 DEF FoldsUpTo
  <2>. QED
    BY <2>2
<1>2. Bad = {}
  <2>. SUFFICES ASSUME Bad # {} PROVE FALSE
    OBVIOUS
  <2>1. PICK n \in Bad : \A m \in Bad : n <= m
    BY HasLeast
  <2>2. n \in Nat /\ n # 0
    BY <1>1, <2>1
  <2>3. n - 1 \in Nat /\ n - 1 \notin Bad /\ (n - 1) + 1 = n
    <3>1. n - 1 \in Bad => n <= n - 1
      BY <2>1
    <3>. HIDE DEF Bad
    <3>. QED
      BY <2>2, <3>1
  <2>4. PICK g : FoldsUpTo(g, times, w, D, n - 1)
    BY <2>3
  <2>5. \E h : FoldsUpTo(h, times, w, D, (n - 1) + 1)
    BY <2>3, <2>4, FoldGrows
  <2>. QED
    BY <2>1, <2>3, <2>5
<1>3. Cardinality(D) \in Nat
  BY FS_CardinalityType
<1>4. PICK g : FoldsUpTo(g, times, w, D, Cardinality(D))
  BY <1>2, <1>3
<1>5. \A s \in SUBSET D : Cardinality(s) <= Cardinality(D)
  BY FS_Subset
<1>6. IsFold(g, times, w, D)
  BY <1>4, <1>5 DEF FoldsUpTo, IsFold
<1>. QED
  BY <1>6

(* The product of the denominators, and the total over one denominator.    *)
LEMMA ProductExists ==
  ASSUME NEW r, NEW I, IsFiniteSet(I)
  PROVE  \E g : IsProduct(g, r, I)
<1>. DEFINE w == [i \in I |-> r[i].den]
<1>1. PICK g : IsFold(g, TRUE, w, I)
  BY FoldExists
<1>2. \A s \in SUBSET I : s # {} => w[First(s)] = r[First(s)].den
  BY Smaller
<1>3. \A s \in SUBSET I :
         (IF s = {} THEN Base(TRUE) ELSE Combine(TRUE, w[First(s)], g[Rest(s)]))
         = IF s = {} THEN 1 ELSE r[First(s)].den * g[s \ {First(s)}]
  BY <1>2 DEF Base, Combine, Rest
<1>. HIDE DEF w
<1>4. IsProduct(g, r, I)
  BY <1>1, <1>3 DEF IsFold, IsProduct
<1>. QED
  BY <1>4

LEMMA TotalExists ==
  ASSUME NEW r, NEW I, IsFiniteSet(I), NEW den
  PROVE  \E g : IsTotal(g, r, den, I)
<1>. DEFINE w == [i \in I |-> r[i].num * (den \div r[i].den)]
<1>1. PICK g : IsFold(g, FALSE, w, I)
  BY FoldExists
<1>2. \A s \in SUBSET I : s # {} =>
        w[First(s)] = r[First(s)].num * (den \div r[First(s)].den)
  BY Smaller
<1>3. \A s \in SUBSET I :
         (IF s = {} THEN Base(FALSE) ELSE Combine(FALSE, w[First(s)], g[Rest(s)]))
         = IF s = {} THEN 0
           ELSE r[First(s)].num * (den \div r[First(s)].den) + g[s \ {First(s)}]
  BY <1>2 DEF Base, Combine, Rest
<1>. HIDE DEF w
<1>4. IsTotal(g, r, den, I)
  BY <1>1, <1>3 DEF IsFold, IsTotal
<1>. QED
  BY <1>4

(* The library's folds, unfolded. *)
LEMMA MeanUnfolds ==
  ASSUME NEW r, NEW I, IsFiniteSet(I)
  PROVE  \E p, g : /\ IsProduct(p, r, I) /\ IsTotal(g, r, p[I], I)
                   /\ fmean(r, I) = Rate(g[I], Cardinality(I) * p[I])
<1>1. PICK p : p = (CHOOSE g : IsProduct(g, r, I))
  OBVIOUS
<1>2. PICK g : g = (CHOOSE h : IsTotal(h, r, p[I], I))
  OBVIOUS
<1>3. IsProduct(p, r, I)
  BY <1>1, ProductExists, Zenon
<1>4. IsTotal(g, r, p[I], I)
  BY <1>2, TotalExists, Zenon
<1>5. fmean(r, I) = Rate(g[I], Cardinality(I) * p[I])
  BY <1>1, <1>2, Zenon DEF fmean, MapThenSumSet, MapThenFoldSet, IsProduct, IsTotal, First
<1>. QED
  BY <1>3, <1>4, <1>5

-----------------------------------------------------------------------------
(* A mean of fractions over a common denominator. *)

Positive == Nat \ {0}

Fractions(r, I) == \A i \in I : r[i].num \in Nat /\ r[i].den \in Positive

IsSum(g, v, I) ==
  /\ g[{}] = 0
  /\ \A s \in SUBSET I : s # {} => g[s] = v[First(s)] + g[Rest(s)]

LEMMA ProductDivides ==
  ASSUME NEW r, NEW I, IsFiniteSet(I), Fractions(r, I), NEW g, IsProduct(g, r, I)
  PROVE  /\ g[I] \in Positive
         /\ \A i \in I : \E q \in Nat : g[I] = q * r[i].den
<1>. DEFINE Good == {s \in SUBSET I :
                       /\ g[s] \in Positive
                       /\ \A i \in s : \E q \in Nat : g[s] = q * r[i].den}
<1>1. \A s \in SUBSET I : g[s] = IF s = {} THEN 1 ELSE r[First(s)].den * g[Rest(s)]
  BY DEF IsProduct, Rest
<1>2. {} \in Good
  BY <1>1 DEF Positive
<1>3. ASSUME NEW s \in SUBSET I, s # {}, Rest(s) \in Good
      PROVE  s \in Good
  <2>1. First(s) \in I /\ First(s) \in s
    BY <1>3, Smaller
  <2>2. PICK d, p, rest : d = r[First(s)].den /\ p = g[Rest(s)] /\ rest = Rest(s)
    OBVIOUS
  <2>3. d \in Positive /\ p \in Positive /\ g[s] = d * p
    BY <1>1, <1>3, <2>1, <2>2 DEF Fractions
  <2>4. g[s] \in Positive
    BY <2>3, ProductType DEF Positive
  <2>5. ASSUME NEW i \in s
        PROVE  \E q \in Nat : g[s] = q * r[i].den
    <3>1. CASE i = First(s)
      <4>1. p \in Nat /\ d \in Nat /\ r[i].den = d
        BY <2>2, <2>3, <3>1 DEF Positive
      <4>2. d * p = p * d
        BY <4>1
      <4>. QED
        BY <2>3, <4>1, <4>2
    <3>2. CASE i # First(s)
      <4>1. i \in rest
        BY <2>2, <3>2 DEF Rest
      <4>2. PICK q \in Nat : p = q * r[i].den
        BY <1>3, <2>2, <4>1
      <4>3. PICK e : e = r[i].den
        OBVIOUS
      <4>4. e \in Nat /\ d \in Nat
        BY <2>3, <4>3 DEF Fractions, Positive
      <4>5. d * q \in Nat /\ d * (q * e) = (d * q) * e
        BY <4>4
      <4>. QED
        BY <2>3, <4>2, <4>3, <4>5
    <3>. QED
      BY <3>1, <3>2
  <2>. QED
    BY <2>4, <2>5
<1>4. \A s \in SUBSET I : s \in Good
  <2>. HIDE DEF Good
  <2>. QED
    BY <1>2, <1>3, SubsetInduction
<1>. QED
  BY <1>4

(* The mean of r over I is g[I]/(n * P), where g sums the v[i], and v[i]/P *)
(* is r[i].                                                                *)
IsMean(r, I, n, P, v, g) ==
  /\ n = Cardinality(I) /\ n \in Positive /\ P \in Positive
  /\ \A i \in I : v[i] \in Nat /\ v[i] * r[i].den = r[i].num * P
  /\ IsSum(g, v, I)
  /\ fmean(r, I).num = g[I] /\ fmean(r, I).den = n * P

LEMMA MeanExists ==
  ASSUME NEW r, NEW I, IsFiniteSet(I), I # {}, Fractions(r, I)
  PROVE  \E n, P, v, g : IsMean(r, I, n, P, v, g)
<1>1. PICK p, g : /\ IsProduct(p, r, I) /\ IsTotal(g, r, p[I], I)
                  /\ fmean(r, I) = Rate(g[I], Cardinality(I) * p[I])
  BY MeanUnfolds
<1>2. PICK P : P = p[I]
  OBVIOUS
<1>3. P \in Positive /\ \A i \in I : \E q \in Nat : P = q * r[i].den
  BY <1>1, <1>2, ProductDivides
<1>4. PICK n : n = Cardinality(I)
  OBVIOUS
<1>5. n \in Positive
  BY <1>4, FS_CardinalityType, FS_EmptySet DEF Positive
<1>6. n * P \in Positive /\ n * P # 0
  BY <1>3, <1>5, ProductType DEF Positive
<1>7. fmean(r, I).num = g[I] /\ fmean(r, I).den = n * P
  BY <1>1, <1>2, <1>4, <1>6 DEF Rate
<1>. DEFINE v == [i \in I |-> r[i].num * (P \div r[i].den)]
<1>8. ASSUME NEW i \in I
      PROVE  v[i] \in Nat /\ v[i] * r[i].den = r[i].num * P
  <2>1. PICK a, d : a = r[i].num /\ d = r[i].den
    OBVIOUS
  <2>2. a \in Nat /\ d \in Nat \ {0}
    BY <2>1 DEF Fractions, Positive
  <2>3. PICK q \in Nat : P = q * d
    BY <1>3, <2>1
  <2>4. P \div d = q
    BY <2>2, <2>3, ExactQuotient
  <2>5. v[i] = a * q
    BY <2>1, <2>4
  <2>6. (a * q) * d = a * (q * d) /\ a * q \in Nat
    BY <2>2
  <2>. HIDE DEF v
  <2>. QED
    BY <2>1, <2>3, <2>5, <2>6
<1>9. IsSum(g, v, I)
  <2>1. \A s \in SUBSET I :
          g[s] = IF s = {} THEN 0
                 ELSE r[First(s)].num * (P \div r[First(s)].den) + g[Rest(s)]
    BY <1>1, <1>2 DEF IsTotal, Rest
  <2>2. \A s \in SUBSET I : s # {} =>
          v[First(s)] = r[First(s)].num * (P \div r[First(s)].den)
    BY Smaller
  <2>. HIDE DEF v
  <2>. QED
    BY <2>1, <2>2 DEF IsSum
<1>. HIDE DEF v
<1>. QED
  BY <1>3, <1>4, <1>5, <1>7, <1>8, <1>9 DEF IsMean

LEMMA SumType ==
  ASSUME NEW v, NEW I, IsFiniteSet(I), NEW g, IsSum(g, v, I), \A i \in I : v[i] \in Nat
  PROVE  \A s \in SUBSET I : g[s] \in Nat
<1>. DEFINE Good == {s \in SUBSET I : g[s] \in Nat}
<1>1. {} \in Good
  BY DEF IsSum
<1>2. ASSUME NEW s \in SUBSET I, s # {}, Rest(s) \in Good
      PROVE  s \in Good
  <2>1. g[s] = v[First(s)] + g[Rest(s)] /\ v[First(s)] \in Nat /\ g[Rest(s)] \in Nat
    BY <1>2, Smaller DEF IsSum
  <2>. QED
    BY <2>1
<1>. HIDE DEF Good
<1>3. \A s \in SUBSET I : s \in Good
  BY <1>1, <1>2, SubsetInduction
<1>. QED
  BY <1>3 DEF Good

(* A sum of n summands of at most P is at most n * P, and is that only if  *)
(* each of them is P.                                                      *)
LEMMA SumAtMost ==
  ASSUME NEW v, NEW I, IsFiniteSet(I), NEW g, IsSum(g, v, I), NEW P \in Nat,
         \A i \in I : v[i] \in Nat /\ v[i] <= P
  PROVE  /\ g[I] <= Cardinality(I) * P
         /\ g[I] = Cardinality(I) * P <=> \A i \in I : v[i] = P
<1>. DEFINE Good == {s \in SUBSET I :
                       /\ g[s] <= Cardinality(s) * P
                       /\ g[s] = Cardinality(s) * P <=> \A i \in s : v[i] = P}
<1>1. {} \in Good
  <2>1. Cardinality({}) = 0 /\ g[{}] = 0
    BY FS_EmptySet DEF IsSum
  <2>2. 0 * P = 0
    OBVIOUS
  <2>. QED
    BY <2>1, <2>2
<1>2. ASSUME NEW s \in SUBSET I, s # {}, Rest(s) \in Good
      PROVE  s \in Good
  <2>1. PICK x, rest, a, b, n, m : /\ x = First(s) /\ rest = Rest(s) /\ a = v[x] /\ b = g[rest]
                             /\ n = Cardinality(s) /\ m = Cardinality(rest)
    OBVIOUS
  <2>2. /\ x \in s /\ rest = s \ {x} /\ rest \in SUBSET I /\ n \in Nat /\ m \in Nat /\ m = n - 1
        /\ a \in Nat /\ a <= P /\ g[s] = a + b
    BY <1>2, <2>1, Smaller DEF IsSum, Rest
  <2>3. b \in Nat
    BY <2>1, <2>2, SumType
  <2>4. b <= m * P /\ (b = m * P <=> \A i \in rest : v[i] = P)
    BY <1>2, <2>1
  <2>5. n * P = m * P + P /\ m * P \in Nat
    BY <2>2
  <2>6. g[s] <= n * P /\ (g[s] = n * P <=> a = P /\ b = m * P)
    <3>1. PICK mp : mp = m * P
      OBVIOUS
    <3>. QED
      BY <2>2, <2>3, <2>4, <2>5, <3>1
  <2>7. (\A i \in s : v[i] = P) <=> a = P /\ \A i \in rest : v[i] = P
    BY <2>1, <2>2
  <2>. QED
    BY <2>1, <2>4, <2>6, <2>7
<1>3. \A s \in SUBSET I : s \in Good
  <2>. HIDE DEF Good
  <2>. QED
    BY <1>1, <1>2, SubsetInduction
<1>. QED
  BY <1>3

LEMMA SumAtLeast ==
  ASSUME NEW v, NEW I, IsFiniteSet(I), NEW g, IsSum(g, v, I), NEW a \in Nat,
         \A i \in I : v[i] \in Nat /\ a <= v[i]
  PROVE  Cardinality(I) * a <= g[I]
<1>. DEFINE Good == {s \in SUBSET I : Cardinality(s) * a <= g[s]}
<1>1. {} \in Good
  <2>1. Cardinality({}) = 0 /\ g[{}] = 0
    BY FS_EmptySet DEF IsSum
  <2>2. 0 * a = 0
    OBVIOUS
  <2>. QED
    BY <2>1, <2>2
<1>2. ASSUME NEW s \in SUBSET I, s # {}, Rest(s) \in Good
      PROVE  s \in Good
  <2>1. PICK rest, x, b, n, m : /\ rest = Rest(s) /\ x = v[First(s)] /\ b = g[rest]
                                /\ n = Cardinality(s) /\ m = Cardinality(rest)
    OBVIOUS
  <2>2. /\ rest \in SUBSET I /\ n \in Nat /\ m \in Nat /\ m = n - 1
        /\ x \in Nat /\ a <= x /\ g[s] = x + b
    BY <1>2, <2>1, Smaller DEF IsSum
  <2>3. b \in Nat
    BY <2>1, <2>2, SumType
  <2>4. m * a <= b
    BY <1>2, <2>1
  <2>5. n * a = m * a + a /\ m * a \in Nat
    BY <2>2
  <2>6. n * a <= g[s]
    <3>1. PICK ma : ma = m * a
      OBVIOUS
    <3>. QED
      BY <2>2, <2>3, <2>4, <2>5, <3>1
  <2>. QED
    BY <2>1, <2>6
<1>3. \A s \in SUBSET I : s \in Good
  <2>. HIDE DEF Good
  <2>. QED
    BY <1>1, <1>2, SubsetInduction
<1>. QED
  BY <1>3

(* Summands that differ by a factor have sums that differ by it. *)
LEMMA SumScales ==
  ASSUME NEW I, IsFiniteSet(I), NEW v, NEW g, IsSum(g, v, I), NEW u, NEW h, IsSum(h, u, I),
         NEW P \in Nat, NEW Q \in Nat,
         \A i \in I : v[i] \in Nat /\ u[i] \in Nat /\ v[i] * Q = u[i] * P
  PROVE  g[I] * Q = h[I] * P
<1>. DEFINE Good == {s \in SUBSET I : g[s] * Q = h[s] * P}
<1>1. {} \in Good
  <2>1. g[{}] = 0 /\ h[{}] = 0
    BY DEF IsSum
  <2>2. 0 * P = 0 /\ 0 * Q = 0
    OBVIOUS
  <2>. QED
    BY <2>1, <2>2
<1>2. ASSUME NEW s \in SUBSET I, s # {}, Rest(s) \in Good
      PROVE  s \in Good
  <2>1. PICK rest, x, y, b, c : /\ rest = Rest(s) /\ x = v[First(s)] /\ y = u[First(s)]
                                /\ b = g[rest] /\ c = h[rest]
    OBVIOUS
  <2>2. /\ rest \in SUBSET I /\ x \in Nat /\ y \in Nat /\ x * Q = y * P
        /\ g[s] = x + b /\ h[s] = y + c
    BY <1>2, <2>1, Smaller DEF IsSum
  <2>3. b \in Nat /\ c \in Nat
    BY <2>1, <2>2, SumType
  <2>4. b * Q = c * P
    BY <1>2, <2>1
  <2>5. (x + b) * Q = x * Q + b * Q /\ (y + c) * P = y * P + c * P
    BY <2>2, <2>3
  <2>. QED
    BY <2>2, <2>4, <2>5
<1>3. \A s \in SUBSET I : s \in Good
  <2>. HIDE DEF Good
  <2>. QED
    BY <1>1, <1>2, SubsetInduction
<1>. QED
  BY <1>3
-----------------------------------------------------------------------------
(* What means owe their fractions. *)

LEMMA MeanIsFraction ==
  ASSUME NEW r, NEW I, IsFiniteSet(I), I # {}, Fractions(r, I)
  PROVE  fmean(r, I).num \in Nat /\ fmean(r, I).den \in Positive
<1>1. PICK n, P, v, g : IsMean(r, I, n, P, v, g)
  BY MeanExists
<1>2. g[I] \in Nat
  BY <1>1, SumType DEF IsMean
<1>3. n * P \in Positive
  BY <1>1, ProductType DEF IsMean, Positive
<1>. QED
  BY <1>1, <1>2, <1>3 DEF IsMean

LEMMA SameMeans ==
  ASSUME NEW I, IsFiniteSet(I), I # {}, NEW r, Fractions(r, I), NEW q, Fractions(q, I),
         \A i \in I : Same(r[i], q[i])
  PROVE  Same(fmean(r, I), fmean(q, I))
<1>1. PICK n, P, v, g : IsMean(r, I, n, P, v, g)
  BY MeanExists
<1>2. PICK m, Q, u, h : IsMean(q, I, m, Q, u, h)
  BY MeanExists
<1>3. /\ m = n /\ n \in Nat /\ P \in Positive /\ Q \in Positive
      /\ IsSum(g, v, I) /\ IsSum(h, u, I)
  BY <1>1, <1>2 DEF IsMean, Positive
<1>4. ASSUME NEW i \in I
      PROVE  v[i] \in Nat /\ u[i] \in Nat /\ v[i] * Q = u[i] * P
  <2>1. PICK x, y, a, b, d, e : /\ x = v[i] /\ y = u[i] /\ a = r[i].num /\ b = q[i].num
                                /\ d = r[i].den /\ e = q[i].den
    OBVIOUS
  <2>2. /\ x \in Nat /\ y \in Nat /\ a \in Nat /\ b \in Nat /\ d \in Positive /\ e \in Positive
        /\ x * d = a * P /\ y * e = b * Q /\ a * e = b * d
    BY <1>1, <1>2, <2>1 DEF IsMean, Fractions, Same
  <2>3. (x * Q) * (d * e) = (y * P) * (d * e)
    <3>1. (x * Q) * (d * e) = (x * d) * (Q * e)
      BY <1>3, <2>2 DEF Positive
    <3>2. (a * P) * (Q * e) = (a * e) * (P * Q)
      BY <1>3, <2>2 DEF Positive
    <3>3. (y * P) * (d * e) = (y * e) * (P * d)
      BY <1>3, <2>2 DEF Positive
    <3>4. (b * Q) * (P * d) = (b * d) * (P * Q)
      BY <1>3, <2>2 DEF Positive
    <3>. QED
      BY <2>2, <3>1, <3>2, <3>3, <3>4
  <2>4. d * e \in Positive /\ x * Q \in Int /\ y * P \in Int
    <3>1. d * e \in Positive
      BY <2>2, ProductType DEF Positive
    <3>2. x * Q \in Int /\ y * P \in Int
      BY <1>3, <2>2 DEF Positive
    <3>. QED
      BY <3>1, <3>2
  <2>5. PICK A, B, C : A = x * Q /\ B = y * P /\ C = d * e
    OBVIOUS
  <2>6. A = B
    BY <2>3, <2>4, <2>5, Cancel DEF Positive
  <2>. QED
    BY <2>1, <2>2, <2>5, <2>6
<1>5. g[I] * Q = h[I] * P
  <2>1. P \in Nat /\ Q \in Nat
    BY <1>3 DEF Positive
  <2>. QED
    BY <1>3, <1>4, <2>1, SumScales
<1>6. g[I] \in Nat /\ h[I] \in Nat
  BY <1>3, <1>4, SumType
<1>7. PICK G, H : G = g[I] /\ H = h[I]
  OBVIOUS
<1>8. G * (n * Q) = H * (n * P)
  <2>1. G * (n * Q) = n * (G * Q)
    BY <1>3, <1>6, <1>7 DEF Positive
  <2>2. H * (n * P) = n * (H * P)
    BY <1>3, <1>6, <1>7 DEF Positive
  <2>. QED
    BY <1>5, <1>7, <2>1, <2>2
<1>. QED
  BY <1>1, <1>2, <1>3, <1>7, <1>8 DEF IsMean, Same

(* The parts of a mean of rates. *)
LEMMA PartsAtMost ==
  ASSUME NEW I, NEW r, NEW n, NEW P, NEW v, NEW g, IsMean(r, I, n, P, v, g), Fractions(r, I),
         NEW i \in I, r[i].num <= r[i].den
  PROVE  v[i] <= P /\ (v[i] = P <=> r[i].num = r[i].den)
<1>1. PICK x, a, d : x = v[i] /\ a = r[i].num /\ d = r[i].den
  OBVIOUS
<1>2. x \in Nat /\ a \in Nat /\ d \in Positive /\ P \in Positive /\ x * d = a * P /\ a <= d
  BY <1>1 DEF IsMean, Fractions
<1>3. a * P <= d * P
  BY <1>2, CancelLeq DEF Positive
<1>4. x * d <= P * d
  BY <1>2, <1>3 DEF Positive
<1>5. x <= P
  BY <1>2, <1>4, CancelLeq DEF Positive
<1>6. x = P => a = d
  <2>1. x = P => d * P = a * P
    BY <1>2 DEF Positive
  <2>. QED
    BY <1>2, <2>1, Cancel DEF Positive
<1>7. a = d => x = P
  <2>1. a = d => x * d = P * d
    BY <1>2 DEF Positive
  <2>. QED
    BY <1>2, <2>1, Cancel DEF Positive
<1>. QED
  BY <1>1, <1>5, <1>6, <1>7

Rates(r, I) == Fractions(r, I) /\ \A i \in I : r[i].num <= r[i].den

LEMMA MeanIsOne ==
  ASSUME NEW I, IsFiniteSet(I), I # {}, NEW r, Rates(r, I)
  PROVE  Same(fmean(r, I), One) <=> \A i \in I : r[i].num = r[i].den
<1>1. PICK n, P, v, g : IsMean(r, I, n, P, v, g)
  BY MeanExists DEF Rates
<1>2. \A i \in I : v[i] \in Nat /\ v[i] <= P /\ (v[i] = P <=> r[i].num = r[i].den)
  BY <1>1, PartsAtMost DEF Rates, IsMean
<1>3. n = Cardinality(I) /\ n \in Nat /\ P \in Nat /\ IsSum(g, v, I)
  BY <1>1 DEF IsMean, Positive
<1>4. g[I] = n * P <=> \A i \in I : v[i] = P
  BY <1>2, <1>3, SumAtMost
<1>5. g[I] \in Nat
  BY <1>2, <1>3, SumType
<1>6. PICK G, N : G = g[I] /\ N = n * P
  OBVIOUS
<1>7. G * 1 = G /\ 1 * N = N
  BY <1>3, <1>5, <1>6
<1>8. Same(fmean(r, I), One) <=> G = N
  BY <1>1, <1>6, <1>7 DEF IsMean, Same, One
<1>. QED
  BY <1>2, <1>4, <1>6, <1>8

LEMMA PartsOrder ==
  ASSUME NEW I, NEW r, NEW n, NEW P, NEW v, NEW g, IsMean(r, I, n, P, v, g), Fractions(r, I),
         NEW i \in I, NEW j \in I
  PROVE  AtMost(r[i], r[j]) <=> v[i] <= v[j]
<1>1. PICK x, y, a, b, d, e : /\ x = v[i] /\ y = v[j] /\ a = r[i].num /\ b = r[j].num
                              /\ d = r[i].den /\ e = r[j].den
  OBVIOUS
<1>2. /\ x \in Nat /\ y \in Nat /\ a \in Nat /\ b \in Nat /\ d \in Positive /\ e \in Positive
      /\ P \in Positive /\ x * d = a * P /\ y * e = b * P
  BY <1>1 DEF IsMean, Fractions
<1>3. (a * e) * P = x * (d * e) /\ (b * d) * P = y * (d * e)
  <2>1. (a * e) * P = (a * P) * e /\ x * (d * e) = (x * d) * e
    BY <1>2 DEF Positive
  <2>2. (b * d) * P = (b * P) * d /\ y * (d * e) = (y * e) * d
    BY <1>2 DEF Positive
  <2>. QED
    BY <1>2, <2>1, <2>2
<1>4. PICK A, B, C : A = a * e /\ B = b * d /\ C = d * e
  OBVIOUS
<1>5. A \in Int /\ B \in Int /\ C \in Positive
  <2>1. d * e \in Positive
    BY <1>2, ProductType DEF Positive
  <2>2. a * e \in Int /\ b * d \in Int
    BY <1>2 DEF Positive
  <2>. QED
    BY <1>4, <2>1, <2>2
<1>6. A <= B <=> A * P <= B * P
  BY <1>2, <1>5, CancelLeq DEF Positive
<1>7. x <= y <=> x * C <= y * C
  BY <1>2, <1>5, CancelLeq DEF Positive
<1>. QED
  BY <1>1, <1>3, <1>4, <1>6, <1>7 DEF AtMost

(* A mean lies between the least and the greatest of its rates. *)
LEMMA MeanBetween ==
  ASSUME NEW I, IsFiniteSet(I), I # {}, NEW r, Rates(r, I)
  PROVE  /\ AtMost(_stats(r, I).min, _stats(r, I).mean)
         /\ AtMost(_stats(r, I).mean, _stats(r, I).max)
<1>1. PICK n, P, v, g : IsMean(r, I, n, P, v, g)
  BY MeanExists DEF Rates
<1>2. /\ n = Cardinality(I) /\ n \in Nat /\ P \in Positive /\ IsSum(g, v, I)
      /\ \A i \in I : v[i] \in Nat /\ v[i] <= P
  BY <1>1, PartsAtMost DEF IsMean, Positive, Rates
<1>3. \A i, j \in I : AtMost(r[i], r[j]) <=> v[i] <= v[j]
  BY <1>1, PartsOrder DEF Rates
<1>4. PICK lo, hi : /\ lo = (CHOOSE i \in I : \A j \in I : AtMost(r[i], r[j]))
                    /\ hi = (CHOOSE i \in I : \A j \in I : AtMost(r[j], r[i]))
  OBVIOUS
<1>5. lo \in I /\ \A j \in I : v[lo] <= v[j]
  <2>. DEFINE Parts == {v[i] : i \in I}
  <2>1. Parts \subseteq Nat /\ Parts # {}
    BY <1>2
  <2>2. PICK x \in Parts : \A y \in Parts : x <= y
    BY <2>1, HasLeast
  <2>3. \E i \in I : \A j \in I : v[i] <= v[j]
    BY <2>2
  <2>4. \E i \in I : \A j \in I : AtMost(r[i], r[j])
    BY <1>3, <2>3
  <2>5. lo \in I /\ \A j \in I : AtMost(r[lo], r[j])
    BY <1>4, <2>4, Zenon
  <2>. QED
    BY <1>3, <2>5
<1>6. hi \in I /\ \A j \in I : v[j] <= v[hi]
  <2>. DEFINE Gaps == {P - v[i] : i \in I}
  <2>1. Gaps \subseteq Nat /\ Gaps # {}
    BY <1>2 DEF Positive
  <2>2. PICK x \in Gaps : \A y \in Gaps : x <= y
    BY <2>1, HasLeast
  <2>3. PICK i \in I : x = P - v[i]
    BY <2>2
  <2>4. \A j \in I : v[j] <= v[i]
    <3>. TAKE j \in I
    <3>1. P - v[i] <= P - v[j]
      BY <2>2, <2>3
    <3>. HIDE DEF Gaps
    <3>. QED
      BY <1>2, <3>1 DEF Positive
  <2>5. \E k \in I : \A j \in I : AtMost(r[j], r[k])
    BY <1>3, <2>4
  <2>6. hi \in I /\ \A j \in I : AtMost(r[j], r[hi])
    BY <1>4, <2>5, Zenon
  <2>. QED
    BY <1>3, <2>6
<1>7. PICK G, N, low, high : G = g[I] /\ N = n * P /\ low = v[lo] /\ high = v[hi]
  OBVIOUS
<1>8. G \in Nat /\ low \in Nat /\ high \in Nat /\ high <= P
  BY <1>2, <1>5, <1>6, <1>7, SumType
<1>9. n * low <= G
  BY <1>2, <1>5, <1>7, <1>8, SumAtLeast
<1>10. G <= n * high
  <2>1. \A i \in I : v[i] \in Nat /\ v[i] <= high
    BY <1>2, <1>6, <1>7
  <2>. QED
    BY <1>2, <1>7, <1>8, <2>1, SumAtMost
<1>11. PICK a, b, d, e : a = r[lo].num /\ b = r[hi].num /\ d = r[lo].den /\ e = r[hi].den
  OBVIOUS
<1>12. /\ a \in Nat /\ b \in Nat /\ d \in Positive /\ e \in Positive
       /\ low * d = a * P /\ high * e = b * P
  BY <1>1, <1>5, <1>6, <1>7, <1>11 DEF IsMean, Rates, Fractions
<1>13. a * N <= G * d
  <2>1. a * N = (n * low) * d
    <3>1. a * (n * P) = n * (a * P) /\ (n * low) * d = n * (low * d)
      BY <1>2, <1>8, <1>12 DEF Positive
    <3>. QED
      BY <1>7, <1>12, <3>1
  <2>2. n * low \in Int
    BY <1>2, <1>8
  <2>3. PICK L : L = n * low
    OBVIOUS
  <2>4. L * d <= G * d
    BY <1>8, <1>9, <1>12, <2>2, <2>3, CancelLeq DEF Positive
  <2>. QED
    BY <2>1, <2>3, <2>4
<1>14. G * e <= b * N
  <2>1. b * N = (n * high) * e
    <3>1. b * (n * P) = n * (b * P) /\ (n * high) * e = n * (high * e)
      BY <1>2, <1>8, <1>12 DEF Positive
    <3>. QED
      BY <1>7, <1>12, <3>1
  <2>2. n * high \in Int
    BY <1>2, <1>8
  <2>3. PICK L : L = n * high
    OBVIOUS
  <2>4. G * e <= L * e
    BY <1>8, <1>10, <1>12, <2>2, <2>3, CancelLeq DEF Positive
  <2>. QED
    BY <2>1, <2>3, <2>4
<1>15. fmean(r, I).num = G /\ fmean(r, I).den = N
  BY <1>1, <1>7 DEF IsMean
<1>16. _stats(r, I).mean = fmean(r, I) /\ _stats(r, I).min = r[lo] /\ _stats(r, I).max = r[hi]
  BY <1>4, Zenon DEF _stats
<1>. QED
  BY <1>11, <1>13, <1>14, <1>15, <1>16 DEF AtMost
-----------------------------------------------------------------------------
(* The numbers of one set of outputs. *)

Counted(outputs, truth, all) == {c \in DOMAIN outputs : all \/ truth[c].verified}
RightIn(outputs, truth, cases) == {c \in cases : Right(outputs, truth, c)}
Verdicts(of, cases) == [c \in cases |-> of[c].verdict]

LEMMA OverallIs ==
  ASSUME NEW outputs, NEW truth, NEW all, NEW C, C = Counted(outputs, truth, all)
  PROVE  evaluate_outputs(outputs, truth, all).overall_accuracy
           = Rate(Cardinality(RightIn(outputs, truth, C)), Cardinality(C))
  BY DEF evaluate_outputs, Quantify, Counted, RightIn

LEMMA FamilyMeanIs ==
  ASSUME NEW outputs, NEW truth, NEW all, NEW C, C = Counted(outputs, truth, all)
  PROVE  evaluate_outputs(outputs, truth, all).family_mean_accuracy
           = family_mean(outputs, truth, C)
  BY DEF evaluate_outputs, Counted

LEMMA MacroIs ==
  ASSUME NEW outputs, NEW truth, NEW all, NEW C, C = Counted(outputs, truth, all)
  PROVE  evaluate_outputs(outputs, truth, all).macro_f1
           = macro_f1(Verdicts(truth, C), Verdicts(outputs, C))
  BY DEF evaluate_outputs, Counted, Verdicts

LEMMA ShareIs ==
  ASSUME NEW S, IsFiniteSet(S), S # {}, NEW T \in SUBSET S
  PROVE  LET x == Rate(Cardinality(T), Cardinality(S)) IN
           /\ x = [num |-> Cardinality(T), den |-> Cardinality(S)]
           /\ x.num \in Nat /\ x.den \in Positive /\ x.num <= x.den
           /\ x.num = x.den <=> T = S
<1>1. Cardinality(S) \in Nat \ {0}
  BY FS_CardinalityType, FS_EmptySet
<1>2. /\ IsFiniteSet(T) /\ Cardinality(T) <= Cardinality(S)
      /\ Cardinality(S) = Cardinality(T) => S = T
  BY FS_Subset
<1>3. Cardinality(T) \in Nat
  BY <1>2, FS_CardinalityType
<1>. QED
  BY <1>1, <1>2, <1>3 DEF Rate, Positive

(* Families, their members and their shares. *)
FamiliesOf(truth, cases) == {truth[c].family : c \in cases}
Members(truth, cases, f) == {c \in cases : truth[c].family = f}
FamilyShare(outputs, truth, cases) ==
  [f \in FamiliesOf(truth, cases) |->
     Rate(Cardinality(RightIn(outputs, truth, Members(truth, cases, f))),
          Cardinality(Members(truth, cases, f)))]

LEMMA FamilyMeanUnfolds ==
  ASSUME NEW outputs, NEW truth, NEW C
  PROVE  family_mean(outputs, truth, C)
           = fmean(FamilyShare(outputs, truth, C), FamiliesOf(truth, C))
  BY Zenon DEF family_mean, FamilyShare, FamiliesOf, Members, RightIn, Quantify

LEMMA FamiliesFinite ==
  ASSUME NEW truth, NEW C, IsFiniteSet(C), C # {}
  PROVE  IsFiniteSet(FamiliesOf(truth, C)) /\ FamiliesOf(truth, C) # {}
<1>. DEFINE f == [c \in C |-> truth[c].family]
<1>1. f \in Surjection(C, FamiliesOf(truth, C))
  BY DEF Surjection, FamiliesOf
<1>2. IsFiniteSet(FamiliesOf(truth, C))
  BY <1>1, FS_Surjection
<1>. QED
  BY <1>2 DEF FamiliesOf

LEMMA FamilySharesAre ==
  ASSUME NEW outputs, NEW truth, NEW C, IsFiniteSet(C)
  PROVE  \A f \in FamiliesOf(truth, C) :
           LET x == FamilyShare(outputs, truth, C)[f]
               M == Members(truth, C, f)
               R == RightIn(outputs, truth, M) IN
           /\ IsFiniteSet(M) /\ M # {} /\ R \in SUBSET M
           /\ x = [num |-> Cardinality(R), den |-> Cardinality(M)]
           /\ x.num \in Nat /\ x.den \in Positive /\ x.num <= x.den
           /\ x.num = x.den <=> R = M
<1>. TAKE f \in FamiliesOf(truth, C)
<1>1. PICK x, M, R : /\ x = FamilyShare(outputs, truth, C)[f] /\ M = Members(truth, C, f)
                     /\ R = RightIn(outputs, truth, M)
  OBVIOUS
<1>2. IsFiniteSet(M) /\ M # {}
  BY <1>1, FS_Subset DEF Members, FamiliesOf
<1>3. R \in SUBSET M
  BY <1>1 DEF RightIn
<1>4. x = Rate(Cardinality(R), Cardinality(M))
  BY <1>1 DEF FamilyShare
<1>5. /\ x = [num |-> Cardinality(R), den |-> Cardinality(M)]
      /\ x.num \in Nat /\ x.den \in Positive /\ x.num <= x.den
      /\ x.num = x.den <=> R = M
  BY <1>2, <1>3, <1>4, ShareIs
<1>. QED
  BY <1>1, <1>2, <1>3, <1>5

(* The overall accuracy, and the family mean, is 1 if no verdict is wrong. *)
LEMMA OverallIsOne ==
  ASSUME NEW outputs, NEW truth, NEW all, NEW C, C = Counted(outputs, truth, all),
         IsFiniteSet(C), C # {}
  PROVE  Same(evaluate_outputs(outputs, truth, all).overall_accuracy, One)
           <=> \A c \in C : Right(outputs, truth, c)
<1>1. PICK x, R : /\ x = evaluate_outputs(outputs, truth, all).overall_accuracy
                  /\ R = RightIn(outputs, truth, C)
  OBVIOUS
<1>2. x = Rate(Cardinality(R), Cardinality(C)) /\ R \in SUBSET C
  BY <1>1, OverallIs DEF RightIn
<1>3. x.num \in Nat /\ x.den \in Nat /\ (x.num = x.den <=> R = C)
  BY <1>2, ShareIs DEF Positive
<1>4. Same(x, One) <=> x.num = x.den
  BY <1>3 DEF Same, One
<1>. QED
  BY <1>1, <1>3, <1>4 DEF RightIn

LEMMA FamilyMeanIsOne ==
  ASSUME NEW outputs, NEW truth, NEW C, IsFiniteSet(C), C # {}
  PROVE  Same(family_mean(outputs, truth, C), One) <=> \A c \in C : Right(outputs, truth, c)
<1>1. PICK r, F : r = FamilyShare(outputs, truth, C) /\ F = FamiliesOf(truth, C)
  OBVIOUS
<1>2. IsFiniteSet(F) /\ F # {} /\ family_mean(outputs, truth, C) = fmean(r, F)
  BY <1>1, FamiliesFinite, FamilyMeanUnfolds
<1>3. ASSUME NEW f \in F
      PROVE  /\ r[f].num \in Nat /\ r[f].den \in Positive /\ r[f].num <= r[f].den
             /\ r[f].num = r[f].den <=>
                  \A c \in C : truth[c].family = f => Right(outputs, truth, c)
  <2>1. PICK M, R : M = Members(truth, C, f) /\ R = RightIn(outputs, truth, M)
    OBVIOUS
  <2>2. /\ r[f].num \in Nat /\ r[f].den \in Positive /\ r[f].num <= r[f].den
        /\ r[f].num = r[f].den <=> R = M
    BY <1>1, <2>1, FamilySharesAre
  <2>3. R = M <=> \A c \in C : truth[c].family = f => Right(outputs, truth, c)
    BY <2>1 DEF Members, RightIn
  <2>. QED
    BY <2>2, <2>3
<1>4. Rates(r, F)
  BY <1>3 DEF Rates, Fractions
<1>5. Same(fmean(r, F), One) <=> \A f \in F : r[f].num = r[f].den
  BY <1>2, <1>4, MeanIsOne
<1>6. (\A f \in F : r[f].num = r[f].den) <=> \A c \in C : Right(outputs, truth, c)
  BY <1>1, <1>3 DEF FamiliesOf
<1>. QED
  BY <1>2, <1>5, <1>6
-----------------------------------------------------------------------------
(* The macro F1. *)

Of(verdicts, cases, label) == {c \in cases : verdicts[c] = label}
F1(actual, predicted, label) ==
  HarmonicMean(Rate(TruePositive(actual, predicted, label), Predicted(actual, predicted, label)),
               Rate(TruePositive(actual, predicted, label), Support(actual, label)))
TextbookF1(actual, predicted, label) ==
  Rate(2 * TruePositive(actual, predicted, label),
       Support(actual, label) + Predicted(actual, predicted, label))
Named(actual, predicted) ==
  {actual[c] : c \in DOMAIN actual} \cup {predicted[c] : c \in DOMAIN actual}

LEMMA CountsAre ==
  ASSUME NEW actual, NEW predicted, NEW label, IsFiniteSet(DOMAIN actual)
  PROVE  LET A == Of(actual, DOMAIN actual, label)
             B == Of(predicted, DOMAIN actual, label)
             tp == TruePositive(actual, predicted, label)
             sup == Support(actual, label)
             pred == Predicted(actual, predicted, label) IN
           /\ tp \in Nat /\ sup \in Nat /\ pred \in Nat /\ tp <= sup /\ tp <= pred
           /\ tp = sup /\ tp = pred <=> A = B
           /\ sup + pred = 0 <=> A = {} /\ B = {}
<1>1. PICK A, B, D : /\ D = DOMAIN actual /\ A = Of(actual, D, label)
                     /\ B = Of(predicted, D, label)
  OBVIOUS
<1>2. /\ A \in SUBSET D /\ B \in SUBSET D /\ A \cap B \in SUBSET A /\ A \cap B \in SUBSET B
      /\ IsFiniteSet(D)
  BY <1>1 DEF Of
<1>3. IsFiniteSet(A) /\ IsFiniteSet(B)
  BY <1>2, FS_Subset
<1>4. PICK tp, sup, pred :
        tp = Cardinality(A \cap B) /\ sup = Cardinality(A) /\ pred = Cardinality(B)
  OBVIOUS
<1>5. /\ tp = TruePositive(actual, predicted, label) /\ sup = Support(actual, label)
      /\ pred = Predicted(actual, predicted, label)
  <2>1. A \cap B = {c \in DOMAIN actual : actual[c] = label /\ predicted[c] = label}
    BY <1>1 DEF Of
  <2>2. A = {c \in DOMAIN actual : actual[c] = label}
        /\ B = {c \in DOMAIN actual : predicted[c] = label}
    BY <1>1 DEF Of
  <2>3. TruePositive(actual, predicted, label)
          = Cardinality({c \in DOMAIN actual : actual[c] = label /\ predicted[c] = label})
        /\ Support(actual, label) = Cardinality({c \in DOMAIN actual : actual[c] = label})
        /\ Predicted(actual, predicted, label)
             = Cardinality({c \in DOMAIN actual : predicted[c] = label})
    BY DEF TruePositive, Support, Predicted, Quantify
  <2>. QED
    BY <1>4, <2>1, <2>2, <2>3
<1>6. /\ IsFiniteSet(A \cap B) /\ tp <= sup /\ (sup = tp => A = A \cap B)
  BY <1>2, <1>3, <1>4, FS_Subset
<1>7. tp <= pred /\ (pred = tp => B = A \cap B)
  BY <1>2, <1>3, <1>4, FS_Subset
<1>8. tp \in Nat /\ sup \in Nat /\ pred \in Nat
  BY <1>3, <1>4, <1>6, FS_CardinalityType
<1>9. (sup = 0 <=> A = {}) /\ (pred = 0 <=> B = {})
  BY <1>3, <1>4, FS_EmptySet
<1>10. tp = sup /\ tp = pred <=> A = B
  <2>1. A = B => A \cap B = A /\ A \cap B = B
    OBVIOUS
  <2>. QED
    BY <1>4, <1>6, <1>7, <2>1
<1>11. sup + pred = 0 <=> A = {} /\ B = {}
  BY <1>8, <1>9
<1>. QED
  BY <1>1, <1>5, <1>6, <1>7, <1>8, <1>10, <1>11

LEMMA HarmonicIsTextbook ==
  ASSUME NEW tp \in Nat, NEW sup \in Nat, NEW pred \in Nat, tp <= sup, tp <= pred, sup + pred # 0,
         NEW x, HarmonicMean(Rate(tp, pred), Rate(tp, sup)) = x,
         NEW y, Rate(2 * tp, sup + pred) = y
  PROVE  Same(x, y) /\ x.num \in Nat /\ x.den \in Positive
<1>1. PICK p, r : p = Rate(tp, pred) /\ r = Rate(tp, sup) /\ x = HarmonicMean(p, r)
  OBVIOUS
<1>2. y.num = 2 * tp /\ y.den = sup + pred
  BY DEF Rate
<1>3. CASE tp = 0
  <2>1. p.num = 0 /\ r.num = 0 /\ p.den \in Nat /\ r.den \in Nat
    BY <1>1, <1>3 DEF Rate
  <2>2. 2 * p.num * r.num = 0 /\ p.num * r.den + r.num * p.den = 0
    BY <2>1
  <2>3. x = [num |-> 0, den |-> 1]
    BY <1>1, <2>2 DEF HarmonicMean, Rate
  <2>4. Same(x, y)
    BY <1>2, <1>3, <2>3 DEF Same, Positive
  <2>. QED
    BY <1>1, <1>2, <2>3, <2>4 DEF Positive
<1>4. CASE tp # 0
  <2>1. p = [num |-> tp, den |-> pred] /\ r = [num |-> tp, den |-> sup]
    BY <1>1, <1>4 DEF Rate
  <2>2. PICK N, M : N = 2 * tp * tp /\ M = tp * sup + tp * pred
    OBVIOUS
  <2>3. M = tp * (sup + pred) /\ N = tp * (2 * tp) /\ N \in Nat
    BY <2>2
  <2>4. sup + pred \in Positive /\ tp \in Positive
    BY <1>4 DEF Positive
  <2>5. M \in Positive
    BY <2>3, <2>4, ProductType DEF Positive
  <2>6. x = [num |-> N, den |-> M]
    BY <1>1, <2>1, <2>2, <2>5 DEF HarmonicMean, Rate, Positive
  <2>7. N * (sup + pred) = (2 * tp) * M
    <3>1. PICK t, s : t = 2 * tp /\ s = sup + pred
      OBVIOUS
    <3>2. t \in Nat /\ s \in Nat
      BY <3>1
    <3>3. (tp * t) * s = t * (tp * s)
      BY <3>2
    <3>. QED
      BY <2>3, <3>1, <3>3
  <2>8. Same(x, y)
    BY <1>2, <2>6, <2>7 DEF Same
  <2>. QED
    BY <1>1, <1>2, <2>3, <2>5, <2>6, <2>8
<1>. QED
  BY <1>3, <1>4

LEMMA ClassesAreNamed ==
  ASSUME NEW actual, NEW predicted, IsFiniteSet(DOMAIN actual),
         \A c \in DOMAIN actual : actual[c] \in STATUSES /\ predicted[c] \in STATUSES
  PROVE  {label \in STATUSES : Support(actual, label) + Predicted(actual, predicted, label) # 0}
           = Named(actual, predicted)
<1>1. \A label : Support(actual, label) + Predicted(actual, predicted, label) # 0
                   <=> label \in Named(actual, predicted)
  <2>. TAKE label
  <2>1. Support(actual, label) + Predicted(actual, predicted, label) = 0
          <=> Of(actual, DOMAIN actual, label) = {} /\ Of(predicted, DOMAIN actual, label) = {}
    BY CountsAre
  <2>. QED
    BY <2>1 DEF Of, Named
<1>2. Named(actual, predicted) \subseteq STATUSES
  BY DEF Named
<1>. QED
  BY <1>1, <1>2

LEMMA MacroF1Unfolds ==
  ASSUME NEW actual, NEW predicted, NEW classes,
         classes = {label \in STATUSES :
                      Support(actual, label) + Predicted(actual, predicted, label) # 0}
  PROVE  macro_f1(actual, predicted)
           = fmean([label \in classes |-> F1(actual, predicted, label)], classes)
  BY Zenon DEF macro_f1, F1

(* The macro F1 is the mean of the textbook F1 of the classes that occur,  *)
(* and 1 if every verdict is the true one.                                 *)
LEMMA MacroF1Is ==
  ASSUME NEW actual, NEW predicted, IsFiniteSet(DOMAIN actual), DOMAIN actual # {},
         \A c \in DOMAIN actual : actual[c] \in STATUSES /\ predicted[c] \in STATUSES
  PROVE  LET named == Named(actual, predicted)
             mean == fmean([label \in named |-> TextbookF1(actual, predicted, label)], named) IN
           /\ Same(macro_f1(actual, predicted), mean)
           /\ Same(macro_f1(actual, predicted), One)
                <=> \A c \in DOMAIN actual : actual[c] = predicted[c]
<1>1. PICK named, r, q : /\ named = Named(actual, predicted)
                         /\ r = [label \in named |-> F1(actual, predicted, label)]
                         /\ q = [label \in named |-> TextbookF1(actual, predicted, label)]
  OBVIOUS
<1>2. macro_f1(actual, predicted) = fmean(r, named)
  BY <1>1, ClassesAreNamed, MacroF1Unfolds
<1>3. IsFiniteSet(named) /\ named # {}
  <2>1. named \subseteq STATUSES /\ named # {}
    BY <1>1 DEF Named
  <2>2. IsFiniteSet({"SUPPORTED"})
    BY FS_Singleton
  <2>3. IsFiniteSet({"SUPPORTED"} \cup {"CONTRADICTED"})
    BY <2>2, FS_AddElement
  <2>4. IsFiniteSet(({"SUPPORTED"} \cup {"CONTRADICTED"}) \cup {"UNVERIFIABLE"})
    BY <2>3, FS_AddElement
  <2>5. STATUSES = ({"SUPPORTED"} \cup {"CONTRADICTED"}) \cup {"UNVERIFIABLE"}
    BY DEF STATUSES
  <2>. QED
    BY <2>1, <2>4, <2>5, FS_Subset
<1>4. ASSUME NEW label \in named
      PROVE  /\ Same(r[label], q[label])
             /\ r[label].num \in Nat /\ r[label].den \in Positive
             /\ q[label].num \in Nat /\ q[label].den \in Positive /\ q[label].num <= q[label].den
             /\ q[label].num = q[label].den <=>
                  Of(actual, DOMAIN actual, label) = Of(predicted, DOMAIN actual, label)
  <2>1. PICK tp, sup, pred : /\ tp = TruePositive(actual, predicted, label)
                             /\ sup = Support(actual, label)
                             /\ pred = Predicted(actual, predicted, label)
    OBVIOUS
  <2>2. /\ tp \in Nat /\ sup \in Nat /\ pred \in Nat /\ tp <= sup /\ tp <= pred
        /\ tp = sup /\ tp = pred <=>
             Of(actual, DOMAIN actual, label) = Of(predicted, DOMAIN actual, label)
    BY <2>1, CountsAre
  <2>3. sup + pred # 0
    BY <1>1, <2>1, ClassesAreNamed
  <2>4. /\ r[label] = HarmonicMean(Rate(tp, pred), Rate(tp, sup))
        /\ q[label] = Rate(2 * tp, sup + pred)
    BY <1>1, <2>1 DEF F1, TextbookF1
  <2>5. PICK x, y : /\ x = HarmonicMean(Rate(tp, pred), Rate(tp, sup))
                    /\ y = Rate(2 * tp, sup + pred)
    OBVIOUS
  <2>6. /\ Same(x, y) /\ x.num \in Nat /\ x.den \in Positive
        /\ y.num = 2 * tp /\ y.den = sup + pred
        /\ y.num \in Nat /\ y.den \in Positive /\ y.num <= y.den
    <3>1. tp \in Nat /\ sup \in Nat /\ pred \in Nat /\ tp <= sup /\ tp <= pred
      BY <2>2
    <3>2. Same(x, y) /\ x.num \in Nat /\ x.den \in Positive
      BY <3>1, <2>3, <2>5, HarmonicIsTextbook
    <3>3. y = Rate(2 * tp, sup + pred)
      BY <2>5
    <3>4. /\ y.num = 2 * tp /\ y.den = sup + pred
          /\ y.num \in Nat /\ y.den \in Positive /\ y.num <= y.den
      BY <3>1, <3>3, <2>3 DEF Rate, Positive
    <3>. QED
      BY <3>2, <3>4
  <2>7. y.num = y.den <=> tp = sup /\ tp = pred
    BY <2>2, <2>6
  <2>8. r[label] = x /\ q[label] = y
    BY <2>4, <2>5
  <2>. HIDE DEF Positive
  <2>. QED
    BY <2>2, <2>6, <2>7, <2>8
<1>5. Fractions(r, named) /\ Rates(q, named)
  BY <1>4 DEF Rates, Fractions
<1>6. Same(fmean(r, named), fmean(q, named))
  BY <1>3, <1>4, <1>5, SameMeans DEF Rates
<1>7. Same(fmean(q, named), One) <=> \A label \in named : q[label].num = q[label].den
  BY <1>3, <1>5, MeanIsOne
<1>8. (\A label \in named : q[label].num = q[label].den)
        <=> \A c \in DOMAIN actual : actual[c] = predicted[c]
  <2>1. ASSUME \A label \in named : q[label].num = q[label].den, NEW c \in DOMAIN actual
        PROVE  actual[c] = predicted[c]
    <3>1. actual[c] \in named
      BY <1>1 DEF Named
    <3>2. Of(actual, DOMAIN actual, actual[c]) = Of(predicted, DOMAIN actual, actual[c])
      BY <1>4, <2>1, <3>1
    <3>. QED
      BY <3>2 DEF Of
  <2>2. ASSUME \A c \in DOMAIN actual : actual[c] = predicted[c], NEW label \in named
        PROVE  q[label].num = q[label].den
    <3>1. Of(actual, DOMAIN actual, label) = Of(predicted, DOMAIN actual, label)
      BY <2>2 DEF Of
    <3>. QED
      BY <1>4, <3>1
  <2>. QED
    BY <2>1, <2>2
<1>9. Same(fmean(r, named), One) <=> Same(fmean(q, named), One)
  <2>1. PICK a, b, d, e : /\ a = fmean(r, named).num /\ d = fmean(r, named).den
                          /\ b = fmean(q, named).num /\ e = fmean(q, named).den
    OBVIOUS
  <2>2. a \in Nat /\ d \in Positive /\ b \in Nat /\ e \in Positive /\ a * e = b * d
    BY <1>3, <1>5, <1>6, <2>1, MeanIsFraction DEF Rates, Same
  <2>3. a = d <=> b = e
    <3>1. a = d => e * d = b * d
      BY <2>2 DEF Positive
    <3>2. b = e => a * e = d * e
      BY <2>2 DEF Positive
    <3>. QED
      BY <2>2, <3>1, <3>2, Cancel DEF Positive
  <2>4. a * 1 = a /\ 1 * d = d /\ b * 1 = b /\ 1 * e = e
    BY <2>2 DEF Positive
  <2>. QED
    BY <2>1, <2>3, <2>4 DEF Same, One
<1>. QED
  BY <1>1, <1>2, <1>6, <1>7, <1>8, <1>9
-----------------------------------------------------------------------------
(* The outputs judge the cases of the truth, and a verdict is a status. *)
Judge(outputs, truth) ==
  /\ DOMAIN outputs = DOMAIN truth
  /\ \A c \in DOMAIN truth : outputs[c].verdict \in STATUSES /\ truth[c].verdict \in STATUSES

LEMMA MetricsDoAgree ==
  ASSUME NEW outputs, NEW truth, IsFiniteSet(DOMAIN truth), DOMAIN truth # {},
         Judge(outputs, truth)
  PROVE  MetricsAgree(outputs, truth)
<1>1. PICK C, a, p : /\ C = DOMAIN truth /\ a = Verdicts(truth, C) /\ p = Verdicts(outputs, C)
  OBVIOUS
<1>2. /\ C = Counted(outputs, truth, TRUE) /\ IsFiniteSet(C) /\ C # {}
      /\ DOMAIN a = C /\ DOMAIN p = C
      /\ \A c \in C : a[c] = truth[c].verdict /\ p[c] = outputs[c].verdict
  BY <1>1 DEF Judge, Counted, Verdicts
<1>3. \A c \in C : a[c] \in STATUSES /\ p[c] \in STATUSES
  BY <1>1, <1>2 DEF Judge
<1>4. a = p <=> \A c \in C : Right(outputs, truth, c)
  BY <1>1, <1>2 DEF Right, Verdicts
<1>5. (\A c \in C : a[c] = p[c]) <=> \A c \in C : Right(outputs, truth, c)
  BY <1>2 DEF Right
<1>6. PICK m : m = evaluate_outputs(outputs, truth, TRUE)
  OBVIOUS
<1>7. Same(m.overall_accuracy, One) <=> a = p
  BY <1>2, <1>4, <1>6, OverallIsOne
<1>8. Same(m.family_mean_accuracy, One) <=> a = p
  <2>1. m.family_mean_accuracy = family_mean(outputs, truth, C)
    BY <1>2, <1>6, FamilyMeanIs, Zenon
  <2>2. Same(family_mean(outputs, truth, C), One) <=> \A c \in C : Right(outputs, truth, c)
    BY <1>2, FamilyMeanIsOne
  <2>. QED
    BY <1>4, <2>1, <2>2
<1>9. m.macro_f1 = macro_f1(a, p)
  <2>1. m.macro_f1 = macro_f1(Verdicts(truth, C), Verdicts(outputs, C))
    BY <1>2, <1>6, MacroIs, Zenon
  <2>. QED
    BY <1>1, <2>1
<1>10. PICK named, f1 : /\ named = Named(a, p)
                        /\ f1 = [label \in named |-> TextbookF1(a, p, label)]
  OBVIOUS
<1>11. /\ Same(m.macro_f1, fmean(f1, named))
       /\ Same(m.macro_f1, One) <=> a = p
  BY <1>2, <1>3, <1>4, <1>5, <1>9, <1>10, MacroF1Is
<1>12. \A key \in {"overall_accuracy", "family_mean_accuracy", "macro_f1"} :
         Same(m[key], One) = (a = p)
  <2>1. \A x : Same(x, One) \in BOOLEAN
    BY DEF Same
  <2>. QED
    BY <1>7, <1>8, <1>11, <2>1
<1>13. named = {a[c] : c \in C} \cup {p[c] : c \in C}
  BY <1>2, <1>10 DEF Named
<1>14. f1 = [label \in named |-> Rate(2 * TruePositive(a, p, label),
                                      Support(a, label) + Predicted(a, p, label))]
  BY <1>10 DEF TextbookF1
<1>15. a = [c \in C |-> truth[c].verdict] /\ p = [c \in C |-> outputs[c].verdict]
  BY <1>1 DEF Verdicts
<1>. DEFINE cases == DOMAIN truth
            actual == [c \in cases |-> truth[c].verdict]
            predicted == [c \in cases |-> outputs[c].verdict]
            occurring == {actual[c] : c \in cases} \cup {predicted[c] : c \in cases}
            scores == [label \in occurring |->
                         Rate(2 * TruePositive(actual, predicted, label),
                              Support(actual, label) + Predicted(actual, predicted, label))]
            metrics == evaluate_outputs(outputs, truth, TRUE)
<1>16. a = actual /\ p = predicted
  BY <1>1, <1>15
<1>17. named = occurring
  <2>. HIDE DEF actual, predicted
  <2>. QED
    BY <1>1, <1>13, <1>16
<1>18. f1 = scores
  <2>. HIDE DEF actual, predicted, occurring
  <2>. QED
    BY <1>14, <1>16, <1>17
<1>19. /\ Same(metrics.macro_f1, fmean(scores, occurring))
       /\ \A key \in {"overall_accuracy", "family_mean_accuracy", "macro_f1"} :
            Same(metrics[key], One) = (actual = predicted)
  <2>. HIDE DEF actual, predicted, occurring, scores
  <2>. QED
    BY <1>6, <1>11, <1>12, <1>16, <1>17, <1>18
<1>. QED
  BY <1>19, Zenon DEF MetricsAgree

-----------------------------------------------------------------------------
(* A repeated case is counted twice on both sides of its family's share.   *)
LEMMA TwiceIs ==
  ASSUME NEW S, IsFiniteSet(S)
  PROVE  /\ Cardinality(S \X {0}) = Cardinality(S) /\ IsFiniteSet(S \X {0})
         /\ Cardinality(S \X {0, 1}) = Cardinality(S) * 2 /\ IsFiniteSet(S \X {0, 1})
<1>1. IsFiniteSet({0}) /\ Cardinality({0}) = 1
  BY FS_Singleton
<1>2. IsFiniteSet({0} \cup {1}) /\ Cardinality({0} \cup {1}) = 2
  BY <1>1, FS_AddElement
<1>3. {0, 1} = {0} \cup {1}
  OBVIOUS
<1>4. Cardinality(S) \in Nat
  BY FS_CardinalityType
<1>5. IsFiniteSet(S \X {0}) /\ Cardinality(S \X {0}) = Cardinality(S) * 1
  BY <1>1, FS_Product
<1>6. IsFiniteSet(S \X {0, 1}) /\ Cardinality(S \X {0, 1}) = Cardinality(S) * 2
  BY <1>2, <1>3, FS_Product
<1>. QED
  BY <1>4, <1>5, <1>6

LEMMA RepeatedIs ==
  ASSUME NEW f, NEW of, of \subseteq DOMAIN f
  PROVE  /\ DOMAIN Repeated(f, of) = ((DOMAIN f) \X {0}) \cup (of \X {1})
         /\ \A c \in DOMAIN f : Repeated(f, of)[<<c, 0>>] = f[c]
         /\ \A c \in of : Repeated(f, of)[<<c, 1>>] = f[c]
<1>. DEFINE C == DOMAIN f
            D == (C \X {0}) \cup (of \X {1})
            g == Repeated(f, of)
<1>1. g = [x \in D |-> f[x[1]]]
  BY DEF Repeated
<1>2. ASSUME NEW c \in C
      PROVE  <<c, 0>> \in D /\ <<c, 0>>[1] = c
  <2>1. <<c, 0>> \in C \X {0}
    OBVIOUS
  <2>. QED
    BY <2>1
<1>3. ASSUME NEW c \in of
      PROVE  <<c, 1>> \in D /\ <<c, 1>>[1] = c
  <2>1. <<c, 1>> \in of \X {1}
    OBVIOUS
  <2>. QED
    BY <2>1
<1>. HIDE DEF D, g
<1>4. DOMAIN g = D
  BY <1>1
<1>5. \A c \in C : g[<<c, 0>>] = f[c]
  BY <1>1, <1>2
<1>6. \A c \in of : g[<<c, 1>>] = f[c]
  BY <1>1, <1>3
<1>. QED
  BY <1>4, <1>5, <1>6 DEF D, g

LEMMA RepeatsChangeNoShare ==
  ASSUME NEW outputs, NEW truth, DOMAIN outputs = DOMAIN truth, IsFiniteSet(DOMAIN truth),
         NEW family, NEW of, of = Members(truth, DOMAIN truth, family),
         NEW outputs2, outputs2 = Repeated(outputs, of), NEW truths2, truths2 = Repeated(truth, of),
         NEW f, NEW M, M = Members(truth, DOMAIN truth, f), NEW R, R = RightIn(outputs, truth, M),
         NEW N, N = Members(truths2, DOMAIN truths2, f), NEW S, S = RightIn(outputs2, truths2, N)
  PROVE  \/ N = M \X {0} /\ S = R \X {0}
         \/ N = M \X {0, 1} /\ S = R \X {0, 1}
<1>1. PICK C, D : C = DOMAIN truth /\ D = (C \X {0}) \cup (of \X {1})
  OBVIOUS
<1>2. of \subseteq C
  BY <1>1 DEF Members
<1>3. /\ DOMAIN truths2 = D /\ DOMAIN outputs2 = D
      /\ \A c \in C : truths2[<<c, 0>>] = truth[c] /\ outputs2[<<c, 0>>] = outputs[c]
      /\ \A c \in of : truths2[<<c, 1>>] = truth[c] /\ outputs2[<<c, 1>>] = outputs[c]
  <2>1. of \subseteq DOMAIN truth /\ of \subseteq DOMAIN outputs
    BY <1>1, <1>2
  <2>2. /\ DOMAIN Repeated(truth, of) = ((DOMAIN truth) \X {0}) \cup (of \X {1})
        /\ \A c \in DOMAIN truth : Repeated(truth, of)[<<c, 0>>] = truth[c]
        /\ \A c \in of : Repeated(truth, of)[<<c, 1>>] = truth[c]
    BY <2>1, RepeatedIs, Zenon
  <2>3. /\ DOMAIN Repeated(outputs, of) = ((DOMAIN outputs) \X {0}) \cup (of \X {1})
        /\ \A c \in DOMAIN outputs : Repeated(outputs, of)[<<c, 0>>] = outputs[c]
        /\ \A c \in of : Repeated(outputs, of)[<<c, 1>>] = outputs[c]
    BY <2>1, RepeatedIs, Zenon
  <2>. QED
    BY <1>1, <2>2, <2>3
<1>4. /\ M = Members(truth, C, f) /\ N = Members(truths2, D, f)
      /\ R = RightIn(outputs, truth, M) /\ S = RightIn(outputs2, truths2, N)
  BY <1>1, <1>3
<1>5. \A c \in C : /\ <<c, 0>> \in D
                   /\ <<c, 0>> \in N <=> c \in M
                   /\ <<c, 0>> \in S <=> c \in R
  <2>. TAKE c \in C
  <2>1. <<c, 0>> \in D /\ truths2[<<c, 0>>] = truth[c] /\ outputs2[<<c, 0>>] = outputs[c]
    BY <1>1, <1>3
  <2>. QED
    BY <1>4, <2>1 DEF Members, RightIn, Right
<1>6. \A c \in of : /\ <<c, 1>> \in D
                    /\ <<c, 1>> \in N <=> c \in M
                    /\ <<c, 1>> \in S <=> c \in R
  <2>. TAKE c \in of
  <2>1. /\ <<c, 1>> \in D /\ truths2[<<c, 1>>] = truth[c] /\ outputs2[<<c, 1>>] = outputs[c]
        /\ c \in C
    BY <1>1, <1>2, <1>3
  <2>. QED
    BY <1>4, <2>1 DEF Members, RightIn, Right
<1>7. M \subseteq C /\ N \subseteq D /\ R \subseteq M /\ S \subseteq N
  BY <1>4 DEF Members, RightIn
<1>8. \A x \in D : \/ \E c \in C : x = <<c, 0>>
                   \/ \E c \in of : x = <<c, 1>>
  BY <1>1
<1>9. CASE f = family
  <2>1. M = of
    BY <1>1, <1>4, <1>9
  <2>2. ASSUME NEW T, NEW U, T \subseteq D, U \subseteq of,
               \A c \in C : <<c, 0>> \in T <=> c \in U,
               \A c \in of : <<c, 1>> \in T <=> c \in U
        PROVE  T = U \X {0, 1}
    <3>1. ASSUME NEW x \in T
          PROVE  x \in U \X {0, 1}
      BY <1>8, <2>2, <3>1
    <3>2. ASSUME NEW x \in U \X {0, 1}
          PROVE  x \in T
      <4>1. PICK c \in U : x = <<c, 0>> \/ x = <<c, 1>>
        BY <3>2
      <4>. QED
        BY <1>2, <2>2, <4>1
    <3>. QED
      BY <3>1, <3>2
  <2>3. N = M \X {0, 1}
    BY <1>5, <1>6, <1>7, <2>1, <2>2
  <2>4. S = R \X {0, 1}
    BY <1>5, <1>6, <1>7, <2>1, <2>2
  <2>. QED
    BY <1>1, <1>3, <1>4, <2>3, <2>4
<1>10. CASE f # family
  <2>1. \A c \in M : c \notin of
    BY <1>1, <1>4, <1>10 DEF Members
  <2>2. ASSUME NEW T, NEW U, T \subseteq D, U \subseteq M,
               \A c \in C : <<c, 0>> \in T <=> c \in U,
               \A c \in of : <<c, 1>> \in T <=> c \in U
        PROVE  T = U \X {0}
    <3>1. ASSUME NEW x \in T
          PROVE  x \in U \X {0}
      BY <1>8, <2>1, <2>2, <3>1
    <3>2. ASSUME NEW x \in U \X {0}
          PROVE  x \in T
      <4>1. PICK c \in U : x = <<c, 0>>
        BY <3>2
      <4>. QED
        BY <1>7, <2>2, <4>1
    <3>. QED
      BY <3>1, <3>2
  <2>3. N = M \X {0}
    BY <1>5, <1>6, <1>7, <2>2
  <2>4. S = R \X {0}
    BY <1>5, <1>6, <1>7, <2>2
  <2>. QED
    BY <1>1, <1>3, <1>4, <2>3, <2>4
<1>. QED
  BY <1>9, <1>10

LEMMA FamilySharesAreFractions ==
  ASSUME NEW outputs, NEW truth, NEW C, IsFiniteSet(C)
  PROVE  Fractions(FamilyShare(outputs, truth, C), FamiliesOf(truth, C))
  BY FamilySharesAre DEF Fractions

LEMMA ShareOfFamily ==
  ASSUME NEW outputs, NEW truth, NEW C, IsFiniteSet(C), NEW f, f \in FamiliesOf(truth, C),
         NEW r, r = FamilyShare(outputs, truth, C),
         NEW M, M = Members(truth, C, f), NEW R, R = RightIn(outputs, truth, M)
  PROVE  /\ IsFiniteSet(M) /\ R \in SUBSET M
         /\ r[f].num = Cardinality(R) /\ r[f].den = Cardinality(M)
<1>1. r[f] = Rate(Cardinality(R), Cardinality(M))
  BY DEF FamilyShare
<1>2. IsFiniteSet(M) /\ M # {}
  BY FS_Subset DEF Members, FamiliesOf
<1>3. R \in SUBSET M
  BY DEF RightIn
<1>4. Cardinality(M) # 0
  BY <1>2, FS_EmptySet
<1>. QED
  BY <1>1, <1>2, <1>3, <1>4 DEF Rate

(* The headline is the same mean of the same shares. *)
LEMMA RepeatsKeepMean ==
  ASSUME NEW outputs, NEW truth, DOMAIN outputs = DOMAIN truth, IsFiniteSet(DOMAIN truth),
         NEW family \in FamiliesOf(truth, DOMAIN truth),
         NEW of, of = Members(truth, DOMAIN truth, family)
  PROVE  Same(evaluate_outputs(outputs, truth, TRUE).family_mean_accuracy,
              evaluate_outputs(Repeated(outputs, of), Repeated(truth, of),
                               TRUE).family_mean_accuracy)
<1>1. PICK C, D, o2, t2 : /\ C = DOMAIN truth /\ D = (C \X {0}) \cup (of \X {1})
                          /\ o2 = Repeated(outputs, of) /\ t2 = Repeated(truth, of)
  OBVIOUS
<1>2. C = DOMAIN outputs /\ C # {} /\ of \subseteq C
  BY <1>1 DEF Members, FamiliesOf
<1>3. /\ DOMAIN t2 = D
      /\ \A c \in C : t2[<<c, 0>>] = truth[c]
      /\ \A c \in of : t2[<<c, 1>>] = truth[c]
  <2>1. of \subseteq DOMAIN truth
    BY <1>1, <1>2
  <2>2. /\ DOMAIN Repeated(truth, of) = ((DOMAIN truth) \X {0}) \cup (of \X {1})
        /\ \A c \in DOMAIN truth : Repeated(truth, of)[<<c, 0>>] = truth[c]
        /\ \A c \in of : Repeated(truth, of)[<<c, 1>>] = truth[c]
    BY <2>1, RepeatedIs, Zenon
  <2>. QED
    BY <1>1, <2>2
<1>4. DOMAIN o2 = D
  <2>1. of \subseteq DOMAIN outputs
    BY <1>2
  <2>2. DOMAIN Repeated(outputs, of) = ((DOMAIN outputs) \X {0}) \cup (of \X {1})
    BY <2>1, RepeatedIs, Zenon
  <2>. QED
    BY <1>1, <2>2
<1>5. IsFiniteSet(D) /\ D # {}
  <2>1. IsFiniteSet(C) /\ IsFiniteSet(of)
    BY <1>1, <1>2, FS_Subset
  <2>2. IsFiniteSet({0}) /\ IsFiniteSet({1})
    BY FS_Singleton
  <2>3. IsFiniteSet(C \X {0}) /\ IsFiniteSet(of \X {1})
    BY <2>1, <2>2, FS_Product
  <2>4. IsFiniteSet(D)
    BY <1>1, <2>3, FS_Union
  <2>5. PICK c \in C : TRUE
    BY <1>2
  <2>6. <<c, 0>> \in D
    BY <1>1
  <2>. QED
    BY <2>4, <2>6
<1>6. PICK F, r, q : /\ F = FamiliesOf(truth, C) /\ r = FamilyShare(outputs, truth, C)
                     /\ q = FamilyShare(o2, t2, D)
  OBVIOUS
<1>7. FamiliesOf(t2, D) = F
  <2>1. ASSUME NEW x \in D
        PROVE  t2[x].family \in F
    <3>1. \/ \E c \in C : x = <<c, 0>>
          \/ \E c \in of : x = <<c, 1>>
      BY <1>1
    <3>2. \E c \in C : t2[x] = truth[c]
      BY <1>2, <1>3, <3>1
    <3>. QED
      BY <1>6, <3>2 DEF FamiliesOf
  <2>2. ASSUME NEW c \in C
        PROVE  \E x \in D : t2[x].family = truth[c].family
    <3>1. <<c, 0>> \in D
      BY <1>1
    <3>. QED
      BY <1>3, <3>1
  <2>. QED
    BY <1>6, <2>1, <2>2 DEF FamiliesOf
<1>8. ASSUME NEW f \in F
      PROVE  Same(r[f], q[f])
  <2>1. PICK M, N, R, S : /\ M = Members(truth, C, f) /\ N = Members(t2, D, f)
                          /\ R = RightIn(outputs, truth, M) /\ S = RightIn(o2, t2, N)
    OBVIOUS
  <2>0. f \in FamiliesOf(truth, C) /\ f \in FamiliesOf(t2, D)
    BY <1>6, <1>7
  <2>2. \/ N = M \X {0} /\ S = R \X {0}
        \/ N = M \X {0, 1} /\ S = R \X {0, 1}
    <3>1. M = Members(truth, DOMAIN truth, f)
      BY <1>1, <2>1
    <3>2. N = Members(t2, DOMAIN t2, f)
      BY <1>3, <2>1
    <3>3. /\ o2 = Repeated(outputs, of) /\ t2 = Repeated(truth, of)
          /\ R = RightIn(outputs, truth, M) /\ S = RightIn(o2, t2, N)
      BY <1>1, <2>1
    <3>. QED
      BY <3>1, <3>2, <3>3, RepeatsChangeNoShare
  <2>3. /\ IsFiniteSet(M) /\ R \in SUBSET M
        /\ r[f].num = Cardinality(R) /\ r[f].den = Cardinality(M)
    BY <1>1, <1>6, <2>0, <2>1, ShareOfFamily
  <2>4. q[f].num = Cardinality(S) /\ q[f].den = Cardinality(N)
    BY <1>5, <1>6, <2>0, <2>1, ShareOfFamily
  <2>5. PICK k, m : k = Cardinality(R) /\ m = Cardinality(M)
    OBVIOUS
  <2>6. IsFiniteSet(R) /\ k \in Nat /\ m \in Nat
    BY <2>3, <2>5, FS_Subset, FS_CardinalityType
  <2>7. \/ Cardinality(S) = k /\ Cardinality(N) = m
        \/ Cardinality(S) = k * 2 /\ Cardinality(N) = m * 2
    BY <2>2, <2>3, <2>5, <2>6, TwiceIs
  <2>8. k * (m * 2) = (k * 2) * m
    BY <2>6
  <2>. QED
    BY <2>3, <2>4, <2>5, <2>7, <2>8 DEF Same
<1>9. IsFiniteSet(F) /\ F # {} /\ Fractions(r, F) /\ Fractions(q, F)
  BY <1>1, <1>2, <1>5, <1>6, <1>7, FamiliesFinite, FamilySharesAreFractions
<1>10. Same(fmean(r, F), fmean(q, F))
  BY <1>8, <1>9, SameMeans
<1>11. family_mean(outputs, truth, C) = fmean(r, F) /\ family_mean(o2, t2, D) = fmean(q, F)
  BY <1>6, <1>7, FamilyMeanUnfolds
<1>12. C = Counted(outputs, truth, TRUE) /\ D = Counted(o2, t2, TRUE)
  BY <1>2, <1>4 DEF Counted
<1>13. /\ evaluate_outputs(outputs, truth, TRUE).family_mean_accuracy
            = family_mean(outputs, truth, C)
       /\ evaluate_outputs(o2, t2, TRUE).family_mean_accuracy = family_mean(o2, t2, D)
  BY <1>12, FamilyMeanIs, Zenon
<1>. QED
  BY <1>1, <1>10, <1>11, <1>13

LEMMA RepeatsInflateNothing ==
  ASSUME NEW outputs, NEW truth, DOMAIN outputs = DOMAIN truth, IsFiniteSet(DOMAIN truth)
  PROVE  RepeatsDoNotInflate(outputs, truth)
  BY RepeatsKeepMean, Zenon DEF RepeatsDoNotInflate, FamiliesOf, Members
-----------------------------------------------------------------------------
(* What a report says of B1, run by run and case by case. *)
Accuracy(runs, truth, all) ==
  [r \in DOMAIN runs |-> evaluate_outputs(runs[r], truth, all).overall_accuracy]
WrongIn(runs, truth, c) == {r \in DOMAIN runs : ~Right(runs[r], truth, c)}
VerdictsOn(runs, c) == {runs[r][c].verdict : r \in DOMAIN runs}

LEMMA ReportHas ==
  ASSUME NEW runs, NEW full, NEW other, NEW truth, NEW mode,
         NEW report, report = build_comparison_report(runs, full, other, truth, mode),
         NEW all, all = (mode = "provisional"),
         NEW b1, b1 = _stats(Accuracy(runs, truth, all), DOMAIN runs)
  PROVE  /\ report.b1["overall_accuracy"] = b1
         /\ report.prooftrail_minus_b1_mean["overall_accuracy"]
              = Minus(evaluate_outputs(full, truth, all).overall_accuracy, b1.mean)
<1>. DEFINE metrics == [r \in DOMAIN runs |->
                          evaluate_outputs(runs[r], truth, mode = "provisional")]
            whole == evaluate_outputs(full, truth, mode = "provisional")
            stats == [key \in METRIC_KEYS |->
                        _stats([r \in DOMAIN runs |-> metrics[r][key]], DOMAIN runs)]
            gaps == [key \in METRIC_KEYS |-> Minus(whole[key], stats[key].mean)]
<1>1. report.b1 = stats /\ report.prooftrail_minus_b1_mean = gaps
  BY Zenon DEF build_comparison_report
<1>2. "overall_accuracy" \in METRIC_KEYS
  BY DEF METRIC_KEYS
<1>3. [r \in DOMAIN runs |-> metrics[r]["overall_accuracy"]] = Accuracy(runs, truth, all)
  BY DEF Accuracy
<1>4. stats["overall_accuracy"] = b1
  <2>. HIDE DEF metrics
  <2>. QED
    BY <1>2, <1>3
<1>5. gaps["overall_accuracy"] = Minus(whole["overall_accuracy"], stats["overall_accuracy"].mean)
  <2>. HIDE DEF stats, whole
  <2>. QED
    BY <1>2
<1>. QED
  <2>. HIDE DEF stats, gaps
  <2>. QED
    BY <1>1, <1>4, <1>5

LEMMA ReportLists ==
  ASSUME NEW runs, NEW full, NEW other, NEW truth, NEW mode,
         NEW report, report = build_comparison_report(runs, full, other, truth, mode)
  PROVE  /\ report.unanimous = {c \in DOMAIN truth : Cardinality(VerdictsOn(runs, c)) = 1}
         /\ report.b1_always_wrong =
              {c \in DOMAIN truth : Cardinality(WrongIn(runs, truth, c)) = Cardinality(DOMAIN runs)}
         /\ report.b1_sometimes_wrong =
              {c \in DOMAIN truth :
                 Cardinality(WrongIn(runs, truth, c)) \notin {0, Cardinality(DOMAIN runs)}}
         /\ report.prooftrail_wrong = {c \in DOMAIN truth : ~Right(full, truth, c)}
  BY Zenon DEF build_comparison_report, Unanimous, WrongRuns, Quantify, VerdictsOn, WrongIn

(* A case is wrong in none, in some or in all of the runs. *)
LEMMA WrongRunsAre ==
  ASSUME NEW runs, NEW I, I = DOMAIN runs, IsFiniteSet(I), NEW truth, NEW c,
         NEW k, k = Cardinality(WrongIn(runs, truth, c))
  PROVE  /\ k = 0 <=> \A r \in I : Right(runs[r], truth, c)
         /\ k = Cardinality(I) <=> \A r \in I : ~Right(runs[r], truth, c)
<1>1. PICK W : W = WrongIn(runs, truth, c)
  OBVIOUS
<1>2. W \in SUBSET I
  BY <1>1 DEF WrongIn
<1>3. IsFiniteSet(W) /\ (Cardinality(I) = k => I = W)
  BY <1>1, <1>2, FS_Subset
<1>4. k = 0 <=> W = {}
  BY <1>1, <1>3, FS_EmptySet
<1>5. k = Cardinality(I) <=> I = W
  BY <1>1, <1>3
<1>. QED
  BY <1>1, <1>4, <1>5 DEF WrongIn

LEMMA UnanimousIs ==
  ASSUME NEW runs, NEW I, I = DOMAIN runs, IsFiniteSet(I), I # {}, NEW c
  PROVE  Cardinality(VerdictsOn(runs, c)) = 1
           <=> \A r, s \in I : runs[r][c].verdict = runs[s][c].verdict
<1>1. PICK V : V = VerdictsOn(runs, c)
  OBVIOUS
<1>2. IsFiniteSet(V)
  <2>. DEFINE f == [r \in I |-> runs[r][c].verdict]
  <2>1. f \in Surjection(I, V)
    BY <1>1 DEF Surjection, VerdictsOn
  <2>. QED
    BY <2>1, FS_Surjection
<1>3. ASSUME Cardinality(V) = 1, NEW r \in I, NEW s \in I
      PROVE  runs[r][c].verdict = runs[s][c].verdict
  <2>1. PICK x : V = {x}
    BY <1>2, <1>3, FS_Singleton
  <2>. QED
    BY <1>1, <2>1 DEF VerdictsOn
<1>4. ASSUME \A r, s \in I : runs[r][c].verdict = runs[s][c].verdict
      PROVE  Cardinality(V) = 1
  <2>1. PICK r \in I : TRUE
    OBVIOUS
  <2>2. V = {runs[r][c].verdict}
    BY <1>1, <1>4 DEF VerdictsOn
  <2>. QED
    BY <2>2, FS_Singleton
<1>. QED
  BY <1>1, <1>3, <1>4

LEMMA AccuraciesAre ==
  ASSUME NEW runs, NEW I, I = DOMAIN runs, NEW truth, NEW all, NEW C, IsFiniteSet(C), C # {},
         \A r \in I : Counted(runs[r], truth, all) = C,
         NEW q, q = Accuracy(runs, truth, all)
  PROVE  /\ Rates(q, I)
         /\ \A r \in I : q[r].num = q[r].den <=> \A c \in C : Right(runs[r], truth, c)
<1>1. ASSUME NEW r \in I
      PROVE  /\ q[r].num \in Nat /\ q[r].den \in Positive /\ q[r].num <= q[r].den
             /\ q[r].num = q[r].den <=> \A c \in C : Right(runs[r], truth, c)
  <2>1. PICK R : R = RightIn(runs[r], truth, C)
    OBVIOUS
  <2>2. q[r] = Rate(Cardinality(R), Cardinality(C))
    BY <2>1, OverallIs DEF Accuracy
  <2>3. R \in SUBSET C
    BY <2>1 DEF RightIn
  <2>4. /\ q[r].num \in Nat /\ q[r].den \in Positive /\ q[r].num <= q[r].den
        /\ q[r].num = q[r].den <=> R = C
    BY <2>2, <2>3, ShareIs
  <2>5. R = C <=> \A c \in C : Right(runs[r], truth, c)
    BY <2>1 DEF RightIn
  <2>. QED
    BY <2>4, <2>5
<1>. QED
  BY <1>1 DEF Rates, Fractions

(* A lead over a mean, when one is right everywhere. *)
LEMMA LeadOfOne ==
  ASSUME NEW x, x.num \in Nat, x.den \in Positive, x.num = x.den,
         NEW m, m.num \in Nat, m.den \in Positive
  PROVE  Same(Minus(x, m), Minus(One, m))
<1>1. PICK k, a, d : k = x.num /\ a = m.num /\ d = m.den
  OBVIOUS
<1>2. k \in Nat /\ a \in Nat /\ d \in Nat
  BY <1>1 DEF Positive
<1>3. /\ Minus(x, m).num = k * d - a * k /\ Minus(x, m).den = k * d
      /\ Minus(One, m).num = d - a /\ Minus(One, m).den = d
  BY <1>1, <1>2 DEF Minus, One
<1>4. (k * d - a * k) * d = (d - a) * (k * d)
  <2>1. k * d - a * k = k * (d - a) /\ d - a \in Int
    BY <1>2
  <2>2. PICK e : e = d - a
    OBVIOUS
  <2>3. (k * e) * d = e * (k * d)
    BY <1>2, <2>1, <2>2
  <2>. QED
    BY <2>1, <2>2, <2>3
<1>. QED
  BY <1>3, <1>4 DEF Same

LEMMA OneStory ==
  ASSUME NEW runs, NEW I, I = DOMAIN runs, IsFiniteSet(I), I # {},
         NEW truth, NEW C, C = DOMAIN truth, IsFiniteSet(C), C # {},
         \A r \in I : DOMAIN runs[r] = C,
         NEW full, DOMAIN full = C, NEW other, NEW mode,
         mode = "provisional" \/ \A c \in C : truth[c].verified
  PROVE  TellsOneStory(build_comparison_report(runs, full, other, truth, mode), C)
<1>1. PICK report, all, q, b1, lead :
        /\ report = build_comparison_report(runs, full, other, truth, mode)
        /\ all = (mode = "provisional") /\ q = Accuracy(runs, truth, all)
        /\ b1 = _stats(q, I)
        /\ lead = report.prooftrail_minus_b1_mean["overall_accuracy"]
  OBVIOUS
<1>2. (\A r \in I : Counted(runs[r], truth, all) = C) /\ Counted(full, truth, all) = C
  BY <1>1 DEF Counted
<1>3. PICK x : x = evaluate_outputs(full, truth, all).overall_accuracy
  OBVIOUS
<1>4. report.b1["overall_accuracy"] = b1 /\ lead = Minus(x, b1.mean)
  <2>1. b1 = _stats(Accuracy(runs, truth, all), DOMAIN runs)
    BY <1>1
  <2>. QED
    BY <1>1, <1>3, <2>1, ReportHas
<1>5. /\ Rates(q, I)
      /\ \A r \in I : q[r].num = q[r].den <=> \A c \in C : Right(runs[r], truth, c)
  BY <1>1, <1>2, AccuraciesAre
<1>6. AtMost(b1.min, b1.mean) /\ AtMost(b1.mean, b1.max)
  BY <1>1, <1>5, MeanBetween
<1>7. b1.mean = fmean(q, I)
  BY <1>1, Zenon DEF _stats
<1>8. b1.mean.num \in Nat /\ b1.mean.den \in Positive
  BY <1>5, <1>7, MeanIsFraction DEF Rates
<1>9. PICK sometimes, always, unanimous :
        /\ sometimes = report.b1_sometimes_wrong /\ always = report.b1_always_wrong
        /\ unanimous = report.unanimous
  OBVIOUS
<1>10. \A c \in C :
         /\ c \in always <=> \A r \in I : ~Right(runs[r], truth, c)
         /\ c \in sometimes <=> /\ \E r \in I : Right(runs[r], truth, c)
                                /\ \E r \in I : ~Right(runs[r], truth, c)
         /\ c \in unanimous <=> \A r, s \in I : runs[r][c].verdict = runs[s][c].verdict
  <2>. TAKE c \in C
  <2>1. PICK k : k = Cardinality(WrongIn(runs, truth, c))
    OBVIOUS
  <2>2. /\ k = 0 <=> \A r \in I : Right(runs[r], truth, c)
        /\ k = Cardinality(I) <=> \A r \in I : ~Right(runs[r], truth, c)
    BY <2>1, WrongRunsAre
  <2>3. c \in always <=> k = Cardinality(I)
    BY <1>1, <1>9, <2>1, ReportLists
  <2>4. c \in sometimes <=> k \notin {0, Cardinality(I)}
    BY <1>1, <1>9, <2>1, ReportLists
  <2>5. c \in unanimous <=> Cardinality(VerdictsOn(runs, c)) = 1
    BY <1>1, <1>9, ReportLists
  <2>6. Cardinality(VerdictsOn(runs, c)) = 1
          <=> \A r, s \in I : runs[r][c].verdict = runs[s][c].verdict
    BY UnanimousIs
  <2>. QED
    BY <2>2, <2>3, <2>4, <2>5, <2>6
<1>11. always \subseteq C /\ sometimes \subseteq C
  BY <1>1, <1>9, ReportLists
<1>12. sometimes \cap unanimous = {} /\ C \ unanimous \subseteq always \cup sometimes
  <2>1. \A c \in C, r, s \in I : runs[r][c].verdict = runs[s][c].verdict =>
          (Right(runs[r], truth, c) <=> Right(runs[s], truth, c))
    BY DEF Right
  <2>2. \A c \in C, r, s \in I : Right(runs[r], truth, c) /\ Right(runs[s], truth, c) =>
          runs[r][c].verdict = runs[s][c].verdict
    BY DEF Right
  <2>. QED
    BY <1>10, <1>11, <2>1, <2>2
<1>13. Same(b1.mean, One) <=> always \cup sometimes = {}
  <2>1. Same(b1.mean, One) <=> \A r \in I : \A c \in C : Right(runs[r], truth, c)
    BY <1>5, <1>7, MeanIsOne
  <2>2. always \cup sometimes = {} <=> \A c \in C : \A r \in I : Right(runs[r], truth, c)
    BY <1>10, <1>11
  <2>. QED
    BY <2>1, <2>2
<1>14. ASSUME report.prooftrail_wrong = {}
       PROVE  Same(lead, Minus(One, b1.mean))
  <2>1. \A c \in C : Right(full, truth, c)
    BY <1>1, <1>14, ReportLists
  <2>2. x = Rate(Cardinality(RightIn(full, truth, C)), Cardinality(C))
    BY <1>2, <1>3, OverallIs
  <2>3. RightIn(full, truth, C) = C
    BY <2>1 DEF RightIn
  <2>4. x.num \in Nat /\ x.den \in Positive /\ x.num = x.den
    BY <2>2, <2>3, ShareIs
  <2>. QED
    BY <1>4, <1>8, <2>4, LeadOfOne
<1>. DEFINE overall == report.b1["overall_accuracy"]
            wrong == report.b1_always_wrong \cup report.b1_sometimes_wrong
<1>15. /\ report.b1_sometimes_wrong \cap report.unanimous = {}
       /\ C \ report.unanimous \subseteq wrong
       /\ Same(overall.mean, One) = (wrong = {})
       /\ AtMost(overall.min, overall.mean) /\ AtMost(overall.mean, overall.max)
       /\ report.prooftrail_wrong = {} =>
            Same(report.prooftrail_minus_b1_mean["overall_accuracy"], Minus(One, overall.mean))
  <2>1. Same(overall.mean, One) = (wrong = {})
    <3>1. Same(overall.mean, One) \in BOOLEAN
      BY DEF Same
    <3>. QED
      BY <1>4, <1>9, <1>13, <3>1
  <2>. QED
    BY <1>1, <1>4, <1>6, <1>9, <1>12, <1>14, <2>1
<1>. QED
  BY <1>1, <1>15, Zenon DEF TellsOneStory
-----------------------------------------------------------------------------
(* Every verdict that a report may score is a status. *)
NumbersInv ==
  /\ \A f \in finished : \A c \in Cases : f.outputs[c].verdict \in STATUSES
  /\ \A c \in Cases : standing[c] # Nobody /\ standing[c].label # Nobody =>
       standing[c].label.verdict \in STATUSES

LEMMA BackedIsStatus ==
  ASSUME NEW spec, NEW c, NEW o, Backed(spec, c, o)
  PROVE  o.verdict \in STATUSES
<1>1. PICK e \in cache : Accepted(e.response, e.prompt) /\ AuditOutput(e.response, e.prompt) = o
  BY DEF Backed
<1>2. o.verdict = e.response.verdict
  BY <1>1 DEF AuditOutput
<1>. QED
  BY <1>1, <1>2 DEF Accepted, validate_audit_output

LEMMA NumbersInit == Init => NumbersInv
  BY DEF Init, NumbersInv

(* A command finishes with outputs it accepted; a label that is recorded   *)
(* is the machine's or a person's.                                         *)
LEMMA NumbersStep == IInv /\ NumbersInv /\ [Next]_vars => NumbersInv'
<1>. SUFFICES ASSUME IInv, NumbersInv, [Next]_vars PROVE NumbersInv'
  OBVIOUS
<1>1. /\ DataInv /\ BenchInv /\ BackedInv
      /\ \A f \in finished : \A c \in Cases : f.outputs[c].verdict \in STATUSES
      /\ \A c \in Cases : standing[c] # Nobody /\ standing[c].label # Nobody =>
           standing[c].label.verdict \in STATUSES
  BY DEF IInv, BenchInv, NumbersInv
<1>2. CASE WriteArtifact
  <2>1. PICK run : run = [spec |-> job.spec, outputs |-> job.outputs]
    OBVIOUS
  <2>2. PICK whole : whole = {x \in {run} : job.failures = {} /\ job.requested = Cases}
    OBVIOUS
  <2>3. Writing /\ finished' = finished \cup whole /\ standing' = standing
    BY <1>2, <2>1, <2>2 DEF WriteArtifact, reviewVars
  <2>4. ASSUME NEW f \in whole, NEW c \in Cases
        PROVE  f.outputs[c].verdict \in STATUSES
    <3>1. f = run /\ job.failures = {} /\ job.requested = Cases
      BY <2>2
    <3>2. job # Nothing /\ DOMAIN job.outputs = Cases
      BY <1>1, <2>3, <3>1, WritingIs
    <3>3. f.outputs = job.outputs
      BY <2>1, <3>1
    <3>4. Backed(job.spec, c, job.outputs[c])
      BY <1>1, <3>2 DEF BackedInv
    <3>. QED
      BY <3>3, <3>4, BackedIsStatus
  <2>. QED
    BY <1>1, <2>3, <2>4 DEF NumbersInv
<1>3. ASSUME NEW c \in Cases, NEW label \in Labels \cup {Proposed[bundle[c].labels]},
             Review(c, label)
      PROVE  NumbersInv'
  <2>1. PICK a : a = Attestation(c, label)
    OBVIOUS
  <2>2. finished' = finished /\ standing' = [standing EXCEPT ![c] = a] /\ a.label = label
    BY <1>3, <2>1 DEF Review, benchVars, Attestation
  <2>3. label # Nobody => label.verdict \in STATUSES
    <3>1. bundle[c].labels \in Recordings
      BY <1>1, BenchmarkAssumption DEF DataInv
    <3>. QED
      BY <3>1, ReportAssumption
  <2>4. \A d \in Cases : standing'[d] # Nobody /\ standing'[d].label # Nobody =>
          standing'[d].label.verdict \in STATUSES
    <3>. TAKE d \in Cases
    <3>1. standing'[d] = standing[d] \/ standing'[d] = a
      BY <2>2
    <3>. QED
      BY <1>1, <2>2, <2>3, <3>1
  <2>. QED
    BY <1>1, <2>2, <2>4 DEF NumbersInv
<1>4. ASSUME NEW c \in Cases, NEW k, RewriteLabels(c) \/ RewriteCase(c, k)
      PROVE  finished' = finished /\ standing' = standing
  BY <1>4 DEF RewriteLabels, RewriteCase, Rewrite, attestationVars, benchVars
<1>5. CASE WriteDatasetManifest \/ UNCHANGED vars
  BY <1>1, <1>5
  DEF WriteDatasetManifest, WriteManifest, attestationVars, benchVars, vars, reviewVars, NumbersInv
<1>6. ASSUME NEW r \in RunIndices, NEW mode \in {MODE_LIVE, MODE_REPLAY}, NEW fresh \in BOOLEAN,
             NEW requested \in Requests, StartB1(r, mode, fresh, requested)
      PROVE  finished' = finished /\ standing' = standing
  BY <1>6 DEF StartB1, reviewVars
<1>7. ASSUME NEW raw \in Completions, Answered(raw)
      PROVE  finished' = finished /\ standing' = standing
  BY <1>7 DEF Answered, reviewVars
<1>8. CASE ClearCache \/ Hit \/ Missed \/ EndB1 \/ Kill
  <2>1. finished' = finished /\ standing' = standing
    BY <1>8 DEF ClearCache, Hit, Missed, EndB1, Kill, reviewVars
  <2>. QED
    BY <1>1, <2>1 DEF NumbersInv
<1>9. ASSUME finished' = finished, standing' = standing
      PROVE  NumbersInv'
  BY <1>1, <1>9 DEF NumbersInv
<1>. QED
  BY <1>2, <1>3, <1>4, <1>5, <1>6, <1>7, <1>8, <1>9 DEF Next

(* What a report is made of, when it is allowed. *)
LEMMA ReportIsMadeOf ==
  ASSUME IInv, NumbersInv, NEW mode \in LabelModes, ReportAllowed(mode)
  PROVE  /\ DOMAIN truths(mode) = Cases /\ DOMAIN prooftrail_outputs = Cases
         /\ DOMAIN b1_runs = RunIndices /\ \A r \in RunIndices : DOMAIN b1_runs[r] = Cases
         /\ \A c \in Cases :
              /\ truths(mode)[c].verdict \in STATUSES
              /\ prooftrail_outputs[c].verdict \in STATUSES
              /\ \A r \in RunIndices : b1_runs[r][c].verdict \in STATUSES
         /\ mode = "provisional" \/ \A c \in Cases : truths(mode)[c].verified
<1>1. DataInv /\ FilesInv
  BY DEF IInv
<1>2. \A c \in Cases : bundle[c].labels \in Recordings /\ bundle[c].case \in Recordings
  BY <1>1, BenchmarkAssumption DEF DataInv
<1>3. ASSUME NEW r \in RunIndices
      PROVE  /\ DOMAIN b1_runs[r] = Cases
             /\ \A c \in Cases : b1_runs[r][c].verdict \in STATUSES
  <2>1. PICK s : s = build_b1_spec(r)
    OBVIOUS
  <2>2. ValidArtifacts(s)
    BY <2>1 DEF ReportAllowed
  <2>3. PICK d : d = Directory(s)
    OBVIOUS
  <2>4. /\ DOMAIN d = {"spec", "outputs", "failures", "summary"}
        /\ d["outputs"] \notin {Nothing, Torn} /\ DOMAIN d["outputs"] = Cases =>
             [spec |-> s, outputs |-> d["outputs"]] \in finished
    BY <1>1, <2>3, DirectoryIs
  <2>5. /\ \A f \in DOMAIN d : d[f] \notin {Nothing, Torn}
        /\ DOMAIN d["outputs"] = Cases
    BY <2>2, <2>3 DEF ValidArtifacts
  <2>6. [spec |-> s, outputs |-> d["outputs"]] \in finished
    BY <2>4, <2>5
  <2>7. s \in DOMAIN artifact
    <3>1. CASE s \notin DOMAIN artifact
      <4>1. d = NoFiles
        BY <2>3, <3>1 DEF Directory
      <4>2. d["outputs"] = Nothing
        BY <2>4, <4>1 DEF NoFiles
      <4>. QED
        BY <2>4, <2>5, <4>2
    <3>. QED
      BY <3>1
  <2>8. b1_runs[r] = d["outputs"]
    BY <2>1, <2>3, <2>7 DEF b1_runs, Directory
  <2>. QED
    BY <2>5, <2>6, <2>8 DEF NumbersInv
<1>4. CASE mode = "verified"
  <2>1. \A c \in Cases : standing[c] # Nobody /\ standing[c].label # Nobody
    BY <1>4 DEF ReportAllowed, headline_eligible, Accepts
  <2>2. \A c \in Cases : truths(mode)[c] = GroundTruth(standing[c].label, c, TRUE)
    BY <1>4 DEF truths
  <2>3. \A c \in Cases : truths(mode)[c].verdict \in STATUSES /\ truths(mode)[c].verified
    <3>. TAKE c \in Cases
    <3>1. PICK label : label = standing[c].label
      OBVIOUS
    <3>2. label.verdict \in STATUSES
      BY <2>1, <3>1 DEF NumbersInv
    <3>3. truths(mode)[c] = GroundTruth(label, c, TRUE)
      BY <2>2, <3>1
    <3>4. GroundTruth(label, c, TRUE).verdict = label.verdict
          /\ GroundTruth(label, c, TRUE).verified = TRUE
      BY DEF GroundTruth
    <3>. QED
      BY <3>2, <3>3, <3>4
  <2>. QED
    BY <1>2, <1>3, <2>3, ReportAssumption DEF truths, prooftrail_outputs, b1_runs
<1>5. CASE mode = "provisional"
  <2>1. \A c \in Cases : truths(mode)[c] = GroundTruth(Proposed[bundle[c].labels], c, FALSE)
    BY <1>5 DEF truths
  <2>2. \A c \in Cases : truths(mode)[c].verdict \in STATUSES
    <3>. TAKE c \in Cases
    <3>1. PICK label : label = Proposed[bundle[c].labels]
      OBVIOUS
    <3>2. label.verdict \in STATUSES
      BY <1>2, <3>1, ReportAssumption
    <3>3. truths(mode)[c] = GroundTruth(label, c, FALSE)
      BY <2>1, <3>1
    <3>4. GroundTruth(label, c, FALSE).verdict = label.verdict
      BY DEF GroundTruth
    <3>. QED
      BY <3>2, <3>3, <3>4
  <2>. QED
    BY <1>2, <1>3, <1>5, <2>2, ReportAssumption DEF truths, prooftrail_outputs, b1_runs
<1>. QED
  BY <1>4, <1>5 DEF LabelModes

(* Whatever a report scores, for any number of cases, runs and families:   *)
(* macro_f1 is the textbook F1 averaged over the classes that occur, the   *)
(* three accuracies are 1 together, repeats of a family leave the headline *)
(* where it was, and the lists of wrong cases, the unanimity, the spread   *)
(* and the lead tell one story (eval/metrics.py evaluate_outputs,          *)
(* benchmark_report.py build_comparison_report).                           *)
THEOREM ReportNumbersDoAgree == Spec => []ReportNumbersAgree
<1>1. IInv /\ NumbersInv => ReportNumbersAgree
  <2>. SUFFICES ASSUME IInv, NumbersInv PROVE ReportNumbersAgree
    OBVIOUS
  <2>1. IsFiniteSet(Cases) /\ Cases # {} /\ IsFiniteSet(RunIndices) /\ RunIndices # {}
    BY ReportAssumption
  <2>2. ASSUME NEW mode \in LabelModes, ReportAllowed(mode)
        PROVE  /\ MetricsAgree(prooftrail_outputs, truths(mode))
               /\ \A r \in RunIndices : /\ MetricsAgree(b1_runs[r], truths(mode))
                                        /\ RepeatsDoNotInflate(b1_runs[r], truths(mode))
               /\ TellsOneStory(comparison(mode), Cases)
    <3>1. PICK t, full, other, runs : /\ t = truths(mode) /\ full = prooftrail_outputs
                                      /\ other = no_temporal_outputs /\ runs = b1_runs
      OBVIOUS
    <3>2. /\ DOMAIN t = Cases /\ DOMAIN full = Cases /\ DOMAIN runs = RunIndices
          /\ \A r \in RunIndices : DOMAIN runs[r] = Cases
          /\ mode = "provisional" \/ \A c \in Cases : t[c].verified
      BY <2>2, <3>1, ReportIsMadeOf
    <3>3. Judge(full, t) /\ \A r \in RunIndices : Judge(runs[r], t)
      BY <2>2, <3>1, <3>2, ReportIsMadeOf DEF Judge
    <3>4. MetricsAgree(full, t) /\ \A r \in RunIndices : MetricsAgree(runs[r], t)
      BY <2>1, <3>2, <3>3, MetricsDoAgree
    <3>5. \A r \in RunIndices : RepeatsDoNotInflate(runs[r], t)
      BY <2>1, <3>2, RepeatsInflateNothing
    <3>6. TellsOneStory(build_comparison_report(runs, full, other, t, mode), Cases)
      BY <2>1, <3>2, OneStory
    <3>. QED
      BY <3>1, <3>4, <3>5, <3>6 DEF comparison
  <2>. QED
    BY <2>2 DEF ReportNumbersAgree, ReportedMetricsAgree, HeadlineIsBalanced, ReportTellsOneStory
<1>2. IInv /\ NumbersInv /\ [Next]_vars => NumbersInv'
  BY NumbersStep
<1>3. Spec => []NumbersInv
  BY NumbersInit, Invariant, <1>2, PTL DEF Spec
<1>. QED
  BY <1>1, <1>3, Invariant, PTL
=============================================================================
