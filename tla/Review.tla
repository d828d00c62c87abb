------------------------------- MODULE Review -------------------------------
(***************************************************************************)
(* Human review of the provisional labels (review.py and the review        *)
(* commands of cli.py).  Reviewers read a review pack, decide one case at  *)
(* a time, and replace earlier decisions; meanwhile cases are frozen       *)
(* again, decision files are edited or removed by hand, and commands are   *)
(* killed.  Nothing locks anything.                                        *)
(*                                                                         *)
(* A hash stands for the content it is computed from: a case file and a    *)
(* label file by the recording they come from, the dataset manifest by its *)
(* rows, a decision by the number it was made with.                        *)
(***************************************************************************)
EXTENDS Integers, FiniteSets

CONSTANTS
  Cases, Reviewers,
  Recordings,      \* recordings a case may be frozen from
  FirstRecording,  \* the one every case was frozen from first
  LedgerSeqs,      \* LedgerSeqs[k]: sequence numbers of the ledger of k
  Proposed,        \* Proposed[k]: the machine's label for k
  Amendments,      \* amendment files a reviewer may hand in
  MaxDecisions,    \* bound: decisions made
  MaxRewrites,     \* bound: case files frozen again
  NoAmendment, NoSource, Absent, Torn

NoBadEvent == -1

Verdicts == {"SUPPORTED", "CONTRADICTED", "UNVERIFIABLE"}
Truths == [verdict : Verdicts,
           first_bad : {NoBadEvent} \cup UNION {LedgerSeqs[k] : k \in Recordings}]
AmendmentFiles == [verdict : Verdicts, first_bad : Nat \cup {NoBadEvent},
                   claims : SUBSET [status : Verdicts, evidence : SUBSET Nat]]

Labelled == [case : Recordings, labels : Recordings]
Sources == [manifest : [Cases -> Labelled], case : Recordings, labels : Recordings]
Decisions ==
  [id : 1 .. MaxDecisions, source : Sources, action : {"APPROVE", "AMEND", "ABSTAIN"},
   amendment : Amendments \cup {NoAmendment}, supersedes : 0 .. MaxDecisions, intact : BOOLEAN]

(* The label builder blames an event of the ledger it labels, and the      *)
(* schema of a review decision admits the amendment files.                 *)
ASSUME ReviewAssumption ==
  /\ MaxDecisions \in Nat /\ MaxRewrites \in Nat
  /\ FirstRecording \in Recordings
  /\ LedgerSeqs \in [Recordings -> SUBSET Nat] /\ Proposed \in [Recordings -> Truths]
  /\ Amendments \subseteq AmendmentFiles
(* No value doubles as the lack of one. *)
ASSUME DistinctAssumption ==
  /\ NoAmendment \notin Amendments /\ NoSource \notin Sources
  /\ Absent # Torn /\ Absent \notin Decisions /\ Torn \notin Decisions
  /\ Absent \notin Truths
  /\ Absent \notin [case : Cases, source : [manifest : [Cases -> Labelled], content : Labelled],
                    label : Truths \cup {Absent}]

VARIABLES
  bundle,     \* bundle[c]: the recordings case.json and the labels come from
  rows,       \* the rows of the frozen dataset's manifest
  rewrites,   \* case files rewritten so far
  decision,   \* decision[c]: c's decision file
  reviewManifest,
  proc,       \* proc[r]: what r's command does next, and its locals
  made,       \* decisions made so far
  attested,   \* history: what was attested, whatever became of the file
  lastOf,     \* history: number of c's last recorded decision not removed
  overlapped  \* history: cases two commands were recording at the same time

datasetVars == <<bundle, rows, rewrites>>
reviewVars == <<decision, reviewManifest>>
historyVars == <<attested, lastOf, overlapped>>
vars == <<datasetVars, reviewVars, proc, made, historyVars>>
-----------------------------------------------------------------------------
(* aggregate_verdict *)
aggregate_verdict(statuses) ==
  IF "CONTRADICTED" \in statuses THEN "CONTRADICTED"
  ELSE IF statuses = {} \/ "UNVERIFIABLE" \in statuses THEN "UNVERIFIABLE"
  ELSE "SUPPORTED"

ContradictedSeqs(claims) ==
  UNION {claim.evidence : claim \in {k \in claims : k.status = "CONTRADICTED"}}

(* Mutant: any contradicted evidence will do as the first bad event. *)
ValidFirstBad_Any(amendment, seqs) ==
  LET contradicted == ContradictedSeqs(amendment.claims) IN
  IF amendment.verdict = "CONTRADICTED"
    THEN /\ amendment.first_bad \in seqs
         /\ contradicted # {} => amendment.first_bad \in contradicted
    ELSE amendment.first_bad = NoBadEvent

ValidFirstBad(amendment, seqs) ==
  LET contradicted == ContradictedSeqs(amendment.claims) IN
  IF amendment.verdict = "CONTRADICTED"
    THEN /\ amendment.first_bad \in seqs
         /\ contradicted # {} =>
              /\ amendment.first_bad \in contradicted
              /\ \A seq \in contradicted : amendment.first_bad <= seq
    ELSE amendment.first_bad = NoBadEvent

(* _validate_amendment *)
ValidAmendment(amendment, seqs) ==
  /\ amendment.claims # {}
  /\ \A claim \in amendment.claims : claim.evidence \subseteq seqs
  /\ aggregate_verdict({claim.status : claim \in amendment.claims}) = amendment.verdict
  /\ ValidFirstBad(amendment, seqs)

(* Mutant: whatever is on disk is taken for the manifest's row. *)
review_source_AsFound(c) ==
  [manifest |-> rows, case |-> bundle[c].case, labels |-> bundle[c].labels]

(* _review_source: refused while the manifest does not list what is on     *)
(* disk.                                                                   *)
review_source(c) ==
  IF rows[c] = bundle[c]
    THEN [manifest |-> rows, case |-> bundle[c].case, labels |-> bundle[c].labels]
    ELSE NoSource

(* Mutant: the hash in the file is taken for the hash of the file. *)
HashMatches_Trusted(d) == TRUE

(* decision_sha256 of a decision that was not edited. *)
HashMatches(d) == d.intact

SourceMatches(d, c) == review_source(c) # NoSource /\ d.source = review_source(c)

(* validate_decision, its problems being the conjuncts that fail. *)
validate_decision(d, c) ==
  /\ (d.action = "AMEND") = (d.amendment # NoAmendment)
  /\ HashMatches(d)
  /\ SourceMatches(d, c)
  /\ d.amendment # NoAmendment => ValidAmendment(d.amendment, LedgerSeqs[bundle[c].case])

OnDisk(c) == decision[c] \notin {Absent, Torn}

(* The row build_review_manifest makes of a case; the file of a kill or of *)
(* a bad edit does not load.                                               *)
RowStatus(c) ==
  CASE decision[c] = Absent -> "PENDING"
    [] decision[c] = Torn -> "INVALID"
    [] OTHER -> IF validate_decision(decision[c], c) THEN decision[c].action ELSE "INVALID"

Accepted(c) == RowStatus(c) \in {"APPROVE", "AMEND"}

HeadlineEligible == \A c \in Cases : Accepted(c)

build_review_manifest ==
  [dataset |-> rows, status |-> [c \in Cases |-> RowStatus(c)],
   headline_eligible |-> HeadlineEligible]

(* resolve_reviewed_truth: the label a decision stands for. *)
ResolvedTruth(d) ==
  IF d.action = "AMEND"
    THEN [verdict |-> d.amendment.verdict, first_bad |-> d.amendment.first_bad]
    ELSE Proposed[d.source.labels]
-----------------------------------------------------------------------------
(* The dataset is frozen again: the case file, then its labels, and the    *)
(* manifest at the end.                                                    *)

RewriteCase(c, k) ==
  /\ rewrites < MaxRewrites /\ bundle[c].case # k
  /\ rewrites' = rewrites + 1
  /\ bundle' = [bundle EXCEPT ![c].case = k]
  /\ UNCHANGED <<rows, reviewVars, proc, made, historyVars>>

RewriteLabels(c) ==
  /\ bundle[c].labels # bundle[c].case
  /\ bundle' = [bundle EXCEPT ![c].labels = bundle[c].case]
  /\ UNCHANGED <<rows, rewrites, reviewVars, proc, made, historyVars>>

WriteDatasetManifest ==
  /\ rows # bundle
  /\ rows' = bundle
  /\ UNCHANGED <<bundle, rewrites, reviewVars, proc, made, historyVars>>

(* A silent edit: the action and the source are brought up to date, the    *)
(* hash is left as it was.                                                 *)
EditByHand(c) ==
  /\ OnDisk(c) /\ decision[c].intact
  /\ review_source(c) # NoSource
  /\ decision' = [decision EXCEPT ![c].action = "APPROVE", ![c].amendment = NoAmendment,
                                  ![c].source = review_source(c), ![c].intact = FALSE]
  /\ UNCHANGED <<datasetVars, reviewManifest, proc, made, historyVars>>

(* Commands that have looked at c's file and not written it yet. *)
Recording(c) == {r \in Reviewers : proc[r].at \in {"checked", "opened"} /\ proc[r].case = c}

(* The only way out of a file that does not load; nobody removes a file a  *)
(* running command is about to write.                                      *)
RemoveByHand(c) ==
  /\ decision[c] # Absent /\ Recording(c) = {}
  /\ decision' = [decision EXCEPT ![c] = Absent]
  /\ lastOf' = [lastOf EXCEPT ![c] = 0]
  /\ UNCHANGED <<datasetVars, reviewManifest, proc, made, attested, overlapped>>
-----------------------------------------------------------------------------
Idle == [at |-> "idle"]
Goto(r, state) == proc' = [proc EXCEPT ![r] = state]

(* The protocol: a reviewer has the case's review pack written and reads   *)
(* it before giving the command.                                           *)
ReadReviewPack(r, c) ==
  /\ proc[r] = Idle /\ review_source(c) # NoSource
  /\ Goto(r, [at |-> "read", case |-> c, material |-> bundle[c]])
  /\ UNCHANGED <<datasetVars, reviewVars, made, historyVars>>

NewDecision(r, action, amendment, supersedes) ==
  [id |-> made + 1, source |-> review_source(proc[r].case), action |-> action,
   amendment |-> amendment, supersedes |-> supersedes, intact |-> TRUE]

(* create_decision takes the source as it is now. *)
CreateDecision(r, action, amendment, supersedes) ==
  /\ proc[r].at = "read" /\ made < MaxDecisions
  /\ LET c == proc[r].case
         d == NewDecision(r, action, amendment, supersedes)
     IN  /\ review_source(c) # NoSource /\ validate_decision(d, c)
         /\ Goto(r, [at |-> "created", case |-> c, decision |-> d])
         /\ made' = made + 1
         /\ attested' = attested \cup {[case |-> c, material |-> proc[r].material, decision |-> d]}
  /\ UNCHANGED <<datasetVars, reviewVars, lastOf, overlapped>>

RefuseToCreate(r, action, amendment) ==
  /\ proc[r].at = "read"
  /\ LET c == proc[r].case IN
       \/ review_source(c) = NoSource
       \/ ~validate_decision(NewDecision(r, action, amendment, 0), c)
  /\ Goto(r, Idle)
  /\ UNCHANGED <<datasetVars, reviewVars, made, historyVars>>

(* Mutant: --replace is enough, whatever it replaces. *)
MayWrite_AnyPrevious(d, c, replace) ==
  IF decision[c] = Absent
    THEN ~replace /\ d.supersedes = 0
    ELSE decision[c] # Torn /\ replace

(* write_decision's look at the existing file; one that does not load      *)
(* cannot be replaced.                                                     *)
MayWrite(d, c, replace) ==
  IF decision[c] = Absent
    THEN ~replace /\ d.supersedes = 0
    ELSE decision[c] # Torn /\ replace /\ d.supersedes = decision[c].id

CheckExisting(r, replace) ==
  /\ proc[r].at = "created"
  /\ LET c == proc[r].case  d == proc[r].decision IN
       /\ validate_decision(d, c) /\ MayWrite(d, c, replace)
       /\ Goto(r, [proc[r] EXCEPT !.at = "checked"])
       /\ overlapped' = IF Recording(c) # {} THEN overlapped \cup {c} ELSE overlapped
  /\ UNCHANGED <<datasetVars, reviewVars, made, attested, lastOf>>

RefuseToWrite(r, replace) ==
  /\ proc[r].at = "created"
  /\ LET c == proc[r].case  d == proc[r].decision IN
       ~validate_decision(d, c) \/ ~MayWrite(d, c, replace)
  /\ Goto(r, Idle)
  /\ UNCHANGED <<datasetVars, reviewVars, made, historyVars>>

(* write_text: opening the file empties it. *)
OpenDecisionFile(r) ==
  /\ proc[r].at = "checked"
  /\ decision' = [decision EXCEPT ![proc[r].case] = Torn]
  /\ Goto(r, [proc[r] EXCEPT !.at = "opened"])
  /\ UNCHANGED <<datasetVars, reviewManifest, made, historyVars>>

FillDecisionFile(r) ==
  /\ proc[r].at = "opened"
  /\ LET c == proc[r].case  d == proc[r].decision IN
       /\ decision' = [decision EXCEPT ![c] = d]
       /\ lastOf' = [lastOf EXCEPT ![c] = d.id]
  /\ Goto(r, [at |-> "recorded"])
  /\ UNCHANGED <<datasetVars, reviewManifest, made, attested, overlapped>>

(* build_review_manifest and write_review_manifest. *)
RefreshReviewManifest(r) ==
  /\ proc[r].at = "recorded"
  /\ reviewManifest' = build_review_manifest
  /\ Goto(r, Idle)
  /\ UNCHANGED <<datasetVars, decision, made, historyVars>>

Kill(r) ==
  /\ proc[r].at \notin {"idle", "read"}
  /\ Goto(r, Idle)
  /\ UNCHANGED <<datasetVars, reviewVars, made, historyVars>>
-----------------------------------------------------------------------------
Init ==
  /\ bundle = [c \in Cases |-> [case |-> FirstRecording, labels |-> FirstRecording]]
  /\ rows = bundle /\ rewrites = 0
  /\ decision = [c \in Cases |-> Absent]
  /\ reviewManifest = Absent
  /\ proc = [r \in Reviewers |-> Idle]
  /\ made = 0 /\ attested = {} /\ lastOf = [c \in Cases |-> 0] /\ overlapped = {}

Choices ==
  ({"APPROVE", "ABSTAIN"} \X {NoAmendment}) \cup ({"AMEND"} \X Amendments)

Continue(r) ==
  \/ \E replace \in BOOLEAN : CheckExisting(r, replace) \/ RefuseToWrite(r, replace)
  \/ OpenDecisionFile(r) \/ FillDecisionFile(r)
  \/ RefreshReviewManifest(r)

Decide(r) ==
  \E choice \in Choices :
    \/ \E supersedes \in 0 .. made : CreateDecision(r, choice[1], choice[2], supersedes)
    \/ RefuseToCreate(r, choice[1], choice[2])

Next ==
  \/ \E c \in Cases :
       \/ \E k \in Recordings : RewriteCase(c, k)
       \/ RewriteLabels(c)
       \/ EditByHand(c) \/ RemoveByHand(c)
       \/ \E r \in Reviewers : ReadReviewPack(r, c)
  \/ WriteDatasetManifest
  \/ \E r \in Reviewers : Decide(r) \/ Continue(r) \/ Kill(r)

Spec == Init /\ [][Next]_vars
-----------------------------------------------------------------------------
(* Properties *)

(* What is on disk and in the processes has its type; the hashes of an     *)
(* attested source agree with each other, and no decision names itself or  *)
(* a later one as its predecessor.                                         *)
TypeOK ==
  /\ bundle \in [Cases -> Labelled] /\ rows \in [Cases -> Labelled]
  /\ \A c \in Cases : OnDisk(c) => decision[c] \in Decisions /\ decision[c].supersedes < decision[c].id
  /\ \A r \in Reviewers :
       proc[r].at \in {"created", "checked", "opened"} => proc[r].decision \in Decisions
  /\ made \in 0 .. MaxDecisions
  /\ {a.decision.id : a \in attested} = 1 .. made
  /\ \A a \in attested :
       LET source == a.decision.source
       IN  source.manifest[a.case] = [case |-> source.case, labels |-> source.labels]

(* "Accepted decisions are resolved ... only in memory after every source  *)
(* hash and the decision hash have been checked" (review.py:5): a case is  *)
(* accepted only by a decision somebody attested for that case, as it was  *)
(* made, and only while the case file, the label and the whole manifest    *)
(* are the ones it was made for, whatever was rewritten, edited, removed   *)
(* or killed in between.                                                   *)
AcceptedIsAttested ==
  \A c \in Cases : Accepted(c) =>
    \E a \in attested :
      /\ a.case = c /\ a.decision = decision[c]
      /\ a.decision.source = [manifest |-> rows, case |-> bundle[c].case, labels |-> bundle[c].labels]

(* The review manifest outlives what it was built from; when it calls the  *)
(* dataset fit for the headline, then for every case somebody attested,    *)
(* for the dataset it names, a label that was not an abstention.           *)
HeadlineIsEarned ==
  reviewManifest # Absent /\ reviewManifest.headline_eligible =>
    \A c \in Cases : \E a \in attested :
      /\ a.case = c /\ a.decision.action # "ABSTAIN"
      /\ a.decision.source.manifest = reviewManifest.dataset

(* "Overwriting is refused" (HUMAN_REVIEW.md:113): a recorded decision     *)
(* names the last one recorded for its case, also when that one was lost   *)
(* to a kill, unless its file was removed by hand or two commands were     *)
(* recording the case at the same time.                                    *)
ReplacementIsNamed ==
  [][\A c \in Cases :
       decision[c] = Torn /\ decision'[c] \notin {Absent, Torn} /\ c \notin overlapped
         => decision'[c].supersedes = lastOf[c]]_vars

(* The label an accepted amendment resolves to fits the ledger it is about *)
(* now: it is a contradiction exactly when a claim is contradicted, all it *)
(* cites exists, and nothing contradicted is earlier than its first bad    *)
(* event.                                                                  *)
AmendedTruthFits ==
  \A c \in Cases : RowStatus(c) = "AMEND" =>
    LET claims == decision[c].amendment.claims
        truth == ResolvedTruth(decision[c])
        contradicted == {claim \in claims : claim.status = "CONTRADICTED"}
    IN  /\ (truth.verdict = "CONTRADICTED") = (contradicted # {})
        /\ (truth.first_bad # NoBadEvent) = (contradicted # {})
        /\ \A claim \in claims : claim.evidence \subseteq LedgerSeqs[bundle[c].case]
        /\ \A claim \in contradicted : \A seq \in claim.evidence : truth.first_bad <= seq

Attested(d, c) ==
  [case |-> c,
   source |-> [manifest |-> d.source.manifest,
               content |-> [case |-> d.source.case, labels |-> d.source.labels]],
   label |-> IF d.action = "ABSTAIN" THEN Absent ELSE ResolvedTruth(d)]

Contract == INSTANCE ReviewContract
  WITH Contents <- Labelled, Nobody <- Absent,
       Labels <- Truths,
       attested <- {Attested(a.decision, a.case) : a \in attested},
       standing <- [c \in Cases |-> IF OnDisk(c) /\ decision[c].intact
                                      THEN Attested(decision[c], c) ELSE Absent]

(* Files that are torn, edited, removed, replaced and written over by two  *)
(* commands at once: every step of the review does what ReviewContract     *)
(* promises the benchmark, or nothing it can see.                          *)
ImplementsReviewContract == Contract!ContractSpec

(* What the review workflow accepts is what the contract accepts: no case  *)
(* more, and none that still stands is lost, whatever the manifest and the *)
(* case's files went through since.                                        *)
AcceptsWhatTheContractAccepts == \A c \in Cases : Accepted(c) = Contract!Accepts(c)

(* Nothing counts that nobody attested: a decision is accepted, a dataset  *)
(* is fit for the headline, and the benchmark is handed a label, exactly   *)
(* when somebody attested it for what is on disk now (review.py            *)
(* resolve_review_case, build_review_manifest).                            *)
OnlyAttestedCounts ==
  /\ TypeOK
  /\ AcceptedIsAttested
  /\ HeadlineIsEarned
  /\ AcceptsWhatTheContractAccepts
=============================================================================
