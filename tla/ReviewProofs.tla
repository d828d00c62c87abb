---------------------------- MODULE ReviewProofs ----------------------------
(* Theorems of Review: it implements ReviewContract and accepts what the   *)
(* contract accepts, for every set of cases, reviewers, recordings and     *)
(* amendment files and any number of decisions.                            *)
EXTENDS Review, TLAPS

Held == {"created", "checked", "opened"}
HeldState == [at : Held, case : Cases, decision : Decisions]

Attestations == [case : Cases, material : Labelled, decision : Decisions]

(* What create_decision has checked of a decision on c. *)
MadeFor(d, c) ==
  /\ d \in Decisions /\ d.intact /\ d.supersedes < d.id
  /\ d.source.manifest[c] = [case |-> d.source.case, labels |-> d.source.labels]
  /\ (d.action = "AMEND") = (d.amendment # NoAmendment)
  /\ d.amendment # NoAmendment => ValidAmendment(d.amendment, LedgerSeqs[d.source.case])

AttestedIn(s, d, c) == \E a \in s : a.case = c /\ a.decision = d
WasAttested(d, c) == AttestedIn(attested, d, c)

DataInv ==
  /\ bundle \in [Cases -> Labelled] /\ rows \in [Cases -> Labelled]
  /\ made \in 0 .. MaxDecisions
  /\ DOMAIN decision = Cases /\ DOMAIN lastOf = Cases /\ DOMAIN proc = Reviewers

AttestedInv ==
  /\ \A a \in attested : a \in Attestations /\ MadeFor(a.decision, a.case)
  /\ {a.decision.id : a \in attested} = 1 .. made

(* A decision in a file or in a command was attested, but for an edit. *)
FilesInv ==
  \A c \in Cases : OnDisk(c) =>
    /\ decision[c] \in Decisions /\ decision[c].supersedes < decision[c].id
    /\ decision[c].intact => WasAttested(decision[c], c)

ProcInv ==
  \A r \in Reviewers :
    /\ proc[r].at \in {"idle", "read", "recorded"} \cup Held
    /\ proc[r].at = "read" => proc[r].case \in Cases /\ proc[r].material \in Labelled
    /\ proc[r].at \in Held =>
         proc[r] \in HeldState /\ WasAttested(proc[r].decision, proc[r].case)

IInv == DataInv /\ AttestedInv /\ FilesInv /\ ProcInv /\ HeadlineIsEarned

(* A command that has looked at a case's file, and nobody else has, still  *)
(* names the decision recorded last.                                       *)
ReplaceInv ==
  \A c \in Cases :
    /\ decision[c] = Absent => lastOf[c] = 0
    /\ OnDisk(c) => lastOf[c] = decision[c].id
    /\ c \notin overlapped =>
         \A r \in Recording(c) : proc[r].decision.supersedes = lastOf[c] /\ Recording(c) = {r}

-----------------------------------------------------------------------------
(* Sources, statuses and attestations. *)
LEMMA LabelledPair ==
  ASSUME NEW x \in Labelled PROVE x = [case |-> x.case, labels |-> x.labels]
                                  /\ x.case \in Recordings /\ x.labels \in Recordings
  BY DEF Labelled

LEMMA SourceIsListed ==
  ASSUME DataInv, NEW c \in Cases
  PROVE  /\ review_source(c) # NoSource <=> rows[c] = bundle[c]
         /\ rows[c] = bundle[c] =>
              /\ review_source(c) \in Sources
              /\ review_source(c) =
                   [manifest |-> rows, case |-> bundle[c].case, labels |-> bundle[c].labels]
              /\ rows[c] = [case |-> bundle[c].case, labels |-> bundle[c].labels]
<1>1. bundle[c] \in Labelled /\ rows \in [Cases -> Labelled]
  BY DEF DataInv
<1>2. [manifest |-> rows, case |-> bundle[c].case, labels |-> bundle[c].labels] \in Sources
  BY <1>1, LabelledPair DEF Sources
<1>. QED
  BY <1>1, <1>2, LabelledPair, DistinctAssumption DEF review_source

LEMMA AcceptedMeans ==
  ASSUME NEW c \in Cases
  PROVE  /\ Accepted(c) <=> /\ OnDisk(c) /\ validate_decision(decision[c], c)
                            /\ decision[c].action \in {"APPROVE", "AMEND"}
         /\ RowStatus(c) = "AMEND" => Accepted(c) /\ decision[c].action = "AMEND"
  BY DEF Accepted, RowStatus, OnDisk

LEMMA AttestedDecision ==
  ASSUME AttestedInv, NEW d, NEW c, WasAttested(d, c)
  PROVE  c \in Cases /\ MadeFor(d, c) /\ d \notin {Absent, Torn}
  BY DistinctAssumption DEF AttestedInv, WasAttested, AttestedIn, Attestations, MadeFor

LEMMA AcceptedHolds == IInv => AcceptedIsAttested
<1>. SUFFICES ASSUME IInv, NEW c \in Cases, Accepted(c)
              PROVE  \E a \in attested :
                       /\ a.case = c /\ a.decision = decision[c]
                       /\ a.decision.source =
                            [manifest |-> rows, case |-> bundle[c].case,
                             labels |-> bundle[c].labels]
  BY DEF AcceptedIsAttested
<1>1. OnDisk(c) /\ decision[c].intact /\ SourceMatches(decision[c], c)
  BY AcceptedMeans DEF validate_decision, HashMatches
<1>2. decision[c].source = [manifest |-> rows, case |-> bundle[c].case,
                            labels |-> bundle[c].labels]
  BY <1>1, SourceIsListed DEF SourceMatches, IInv
<1>3. WasAttested(decision[c], c)
  BY <1>1 DEF IInv, FilesInv
<1>. QED
  BY <1>2, <1>3 DEF WasAttested, AttestedIn
-----------------------------------------------------------------------------
(* The invariant holds initially, and every action keeps it. *)
LEMMA InitKeeps == Init => IInv
<1>. SUFFICES ASSUME Init PROVE IInv
  OBVIOUS
<1>. USE DEF Init
<1>1. DataInv
  BY ReviewAssumption DEF DataInv, Labelled
<1>2. AttestedInv
  BY DEF AttestedInv
<1>3. FilesInv
  BY DEF FilesInv, OnDisk
<1>4. ProcInv
  BY DEF ProcInv, Idle, Held
<1>5. HeadlineIsEarned
  BY DEF HeadlineIsEarned
<1>. QED
  BY <1>1, <1>2, <1>3, <1>4, <1>5 DEF IInv

(* The dataset is frozen again. *)
LEMMA DatasetKeeps ==
  ASSUME IInv, bundle' \in [Cases -> Labelled], rows' \in [Cases -> Labelled],
         UNCHANGED <<reviewVars, proc, made, historyVars>>
  PROVE  IInv'
<1>. USE DEF IInv, reviewVars, historyVars
<1>1. DataInv'
  BY DEF DataInv
<1>2. AttestedInv' /\ FilesInv' /\ ProcInv' /\ HeadlineIsEarned'
  BY DEF AttestedInv, FilesInv, ProcInv, HeadlineIsEarned, OnDisk, WasAttested, AttestedIn
<1>. QED
  BY <1>1, <1>2

(* A file is edited, emptied or removed, but no decision comes of it. *)
LEMMA SpoilKeeps ==
  ASSUME IInv, NEW c \in Cases, NEW d, decision' = [decision EXCEPT ![c] = d],
         d \in {Absent, Torn} \/ (d \in Decisions /\ d.supersedes < d.id /\ ~d.intact),
         DOMAIN lastOf' = Cases, DOMAIN proc' = Reviewers,
         UNCHANGED <<datasetVars, reviewManifest, made, attested>>
  PROVE  DataInv' /\ AttestedInv' /\ FilesInv' /\ HeadlineIsEarned'
<1>. USE DEF IInv, datasetVars
<1>1. AttestedInv' /\ HeadlineIsEarned'
  BY DEF AttestedInv, HeadlineIsEarned
<1>2. FilesInv'
  BY DEF FilesInv, DataInv, OnDisk, WasAttested, AttestedIn
<1>. HIDE DEF FilesInv
<1>. QED
  BY <1>1, <1>2 DEF DataInv

(* A command that goes on to a state of its own changes no other. *)
LEMMA GotoKeeps ==
  ASSUME IInv, NEW r \in Reviewers, NEW state, Goto(r, state),
         attested \subseteq attested',
         state.at \in {"idle", "read", "recorded"} \cup Held,
         state.at = "read" => state.case \in Cases /\ state.material \in Labelled,
         state.at \in Held => state \in HeldState /\ AttestedIn(attested', state.decision, state.case)
  PROVE  ProcInv' /\ DOMAIN proc' = Reviewers
<1>1. proc' = [proc EXCEPT ![r] = state] /\ DOMAIN proc = Reviewers
  BY DEF Goto, IInv, DataInv
<1>2. \A d, c : AttestedIn(attested, d, c) => AttestedIn(attested', d, c)
  BY DEF WasAttested, AttestedIn
<1>3. ASSUME NEW q \in Reviewers
      PROVE  /\ proc'[q].at \in {"idle", "read", "recorded"} \cup Held
             /\ proc'[q].at = "read" => proc'[q].case \in Cases /\ proc'[q].material \in Labelled
             /\ proc'[q].at \in Held =>
                  proc'[q] \in HeldState /\ AttestedIn(attested', proc'[q].decision, proc'[q].case)
  <2>1. CASE q = r
    BY <1>1, <2>1
  <2>2. CASE q # r
    <3>1. proc'[q] = proc[q]
      BY <1>1, <2>2
    <3>. QED
      BY <3>1, <1>2 DEF IInv, ProcInv, WasAttested
  <2>. QED
    BY <2>1, <2>2
<1>. QED
  BY <1>1, <1>3 DEF ProcInv, WasAttested

LEMMA FrozenAgainKeeps ==
  ASSUME IInv,
         \/ WriteDatasetManifest
         \/ \E c \in Cases : RewriteLabels(c) \/ \E k \in Recordings : RewriteCase(c, k)
  PROVE  IInv'
<1>1. bundle' \in [Cases -> Labelled] /\ rows' \in [Cases -> Labelled]
  <2>1. CASE WriteDatasetManifest
    BY <2>1 DEF WriteDatasetManifest, IInv, DataInv
  <2>2. ASSUME NEW c \in Cases, RewriteLabels(c)
        PROVE  bundle' \in [Cases -> Labelled] /\ rows' \in [Cases -> Labelled]
    BY <2>2 DEF RewriteLabels, IInv, DataInv, Labelled
  <2>3. ASSUME NEW c \in Cases, NEW k \in Recordings, RewriteCase(c, k)
        PROVE  bundle' \in [Cases -> Labelled] /\ rows' \in [Cases -> Labelled]
    BY <2>3 DEF RewriteCase, IInv, DataInv, Labelled
  <2>. QED
    BY <2>1, <2>2, <2>3
<1>2. UNCHANGED <<reviewVars, proc, made, historyVars>>
  BY DEF WriteDatasetManifest, RewriteLabels, RewriteCase
<1>. QED
  BY <1>1, <1>2, DatasetKeeps

LEMMA SameProcKeeps ==
  ASSUME IInv, UNCHANGED <<proc, attested>> PROVE ProcInv' /\ DOMAIN proc' = Reviewers
  BY DEF IInv, DataInv, ProcInv, WasAttested, AttestedIn

LEMMA EditByHandKeeps == ASSUME IInv, NEW c \in Cases, EditByHand(c) PROVE IInv'
<1>. DEFINE d == [decision[c] EXCEPT !.action = "APPROVE", !.amendment = NoAmendment,
                                     !.source = review_source(c), !.intact = FALSE]
<1>1. /\ decision[c] \in Decisions /\ decision[c].supersedes < decision[c].id
      /\ review_source(c) \in Sources /\ DOMAIN decision = Cases
  BY SourceIsListed DEF EditByHand, IInv, FilesInv, DataInv
<1>2. decision' = [decision EXCEPT ![c] = d]
  BY <1>1 DEF EditByHand
<1>3. d \in Decisions /\ d.supersedes < d.id /\ ~d.intact
  BY <1>1 DEF Decisions
<1>4. UNCHANGED <<datasetVars, reviewManifest, proc, made, attested, lastOf>>
  BY DEF EditByHand, historyVars
<1>5. ProcInv' /\ DOMAIN proc' = Reviewers /\ DOMAIN lastOf' = Cases
  BY <1>4, SameProcKeeps DEF IInv, DataInv
<1>. HIDE DEF d
<1>6. DataInv' /\ AttestedInv' /\ FilesInv' /\ HeadlineIsEarned'
  BY <1>2, <1>3, <1>4, <1>5, SpoilKeeps
<1>. QED
  BY <1>5, <1>6 DEF IInv

LEMMA RemoveByHandKeeps == ASSUME IInv, NEW c \in Cases, RemoveByHand(c) PROVE IInv'
<1>1. ProcInv' /\ DOMAIN proc' = Reviewers /\ DOMAIN lastOf' = Cases
  BY SameProcKeeps DEF RemoveByHand, IInv, DataInv
<1>2. DataInv' /\ AttestedInv' /\ FilesInv' /\ HeadlineIsEarned'
  BY <1>1, SpoilKeeps DEF RemoveByHand
<1>. QED
  BY <1>1, <1>2 DEF IInv

(* A command that only goes on, or ends. *)
LEMMA MoveKeeps ==
  ASSUME IInv, NEW r \in Reviewers, NEW state, Goto(r, state),
         state.at \in {"idle", "read", "recorded"} \cup Held,
         state.at = "read" => state.case \in Cases /\ state.material \in Labelled,
         state.at \in Held => state \in HeldState /\ WasAttested(state.decision, state.case),
         UNCHANGED <<datasetVars, reviewVars, made, attested, lastOf>>
  PROVE  IInv'
<1>1. WasAttested(state.decision, state.case) => AttestedIn(attested', state.decision, state.case)
  BY DEF WasAttested, AttestedIn
<1>2. ProcInv' /\ DOMAIN proc' = Reviewers
  BY <1>1, GotoKeeps
<1>3. DataInv' /\ AttestedInv' /\ FilesInv' /\ HeadlineIsEarned'
  BY <1>2 DEF IInv, DataInv, AttestedInv, FilesInv, HeadlineIsEarned, OnDisk, WasAttested, AttestedIn,
              datasetVars, reviewVars
<1>. QED
  BY <1>2, <1>3 DEF IInv

LEMMA EndKeeps ==
  ASSUME IInv, NEW r \in Reviewers, Goto(r, Idle),
         UNCHANGED <<datasetVars, reviewVars, made, historyVars>>
  PROVE  IInv'
<1>1. Idle.at = "idle" /\ UNCHANGED <<attested, lastOf>>
  BY DEF Idle, historyVars
<1>. QED
  BY <1>1, MoveKeeps DEF Held

LEMMA ReadReviewPackKeeps ==
  ASSUME IInv, NEW r \in Reviewers, NEW c \in Cases, ReadReviewPack(r, c) PROVE IInv'
<1>. DEFINE state == [at |-> "read", case |-> c, material |-> bundle[c]]
<1>1. Goto(r, state) /\ UNCHANGED <<datasetVars, reviewVars, made, attested, lastOf>>
  BY DEF ReadReviewPack, historyVars
<1>2. state.at = "read" /\ state.case = c /\ state.material \in Labelled
  BY DEF IInv, DataInv
<1>. HIDE DEF state
<1>. QED
  BY <1>1, <1>2, MoveKeeps DEF Held

LEMMA HeldDecision ==
  ASSUME IInv, NEW r \in Reviewers, proc[r].at \in Held
  PROVE  /\ proc[r] \in HeldState /\ proc[r].case \in Cases
         /\ WasAttested(proc[r].decision, proc[r].case)
         /\ MadeFor(proc[r].decision, proc[r].case)
         /\ proc[r].decision \notin {Absent, Torn}
  BY AttestedDecision DEF IInv, ProcInv, HeldState

LEMMA CheckExistingKeeps ==
  ASSUME IInv, NEW r \in Reviewers, NEW replace \in BOOLEAN, CheckExisting(r, replace)
  PROVE  IInv'
<1>. DEFINE state == [proc[r] EXCEPT !.at = "checked"]
<1>1. Goto(r, state) /\ UNCHANGED <<datasetVars, reviewVars, made, attested, lastOf>>
  BY DEF CheckExisting
<1>2. proc[r] \in HeldState /\ WasAttested(proc[r].decision, proc[r].case)
  BY HeldDecision DEF CheckExisting, Held
<1>3. /\ state \in HeldState /\ state.at = "checked"
      /\ state.decision = proc[r].decision /\ state.case = proc[r].case
  BY <1>2 DEF HeldState, Held
<1>. HIDE DEF state
<1>. QED
  BY <1>1, <1>2, <1>3, MoveKeeps DEF Held

LEMMA CreateDecisionKeeps ==
  ASSUME IInv, NEW r \in Reviewers, NEW choice \in Choices, NEW supersedes \in 0 .. made,
         CreateDecision(r, choice[1], choice[2], supersedes)
  PROVE  IInv'
<1>. DEFINE c == proc[r].case
            d == NewDecision(r, choice[1], choice[2], supersedes)
            a == [case |-> c, material |-> proc[r].material, decision |-> d]
            state == [at |-> "created", case |-> c, decision |-> d]
<1>1. /\ proc[r].at = "read" /\ made < MaxDecisions /\ review_source(c) # NoSource
      /\ validate_decision(d, c) /\ Goto(r, state) /\ made' = made + 1
      /\ attested' = attested \cup {a} /\ UNCHANGED <<datasetVars, reviewVars, lastOf>>
  BY DEF CreateDecision
<1>2. c \in Cases /\ proc[r].material \in Labelled /\ made \in 0 .. MaxDecisions /\ made \in Nat
  BY <1>1, ReviewAssumption DEF IInv, ProcInv, DataInv
<1>3. /\ d.id = made + 1 /\ d.source = review_source(c) /\ d.action = choice[1]
      /\ d.amendment = choice[2] /\ d.supersedes = supersedes /\ d.intact = TRUE
  BY DEF NewDecision
<1>4. MadeFor(d, c)
  <2>1. /\ choice[1] \in {"APPROVE", "AMEND", "ABSTAIN"}
        /\ choice[2] \in Amendments \cup {NoAmendment}
    BY DEF Choices
  <2>2. /\ rows[c] = bundle[c] /\ review_source(c) \in Sources
        /\ review_source(c) =
             [manifest |-> rows, case |-> bundle[c].case, labels |-> bundle[c].labels]
        /\ rows[c] = [case |-> bundle[c].case, labels |-> bundle[c].labels]
    BY <1>1, <1>2, SourceIsListed DEF IInv
  <2>3. d \in Decisions
    BY <1>1, <1>2, <2>1, <2>2, ReviewAssumption DEF NewDecision, Decisions
  <2>4. d.supersedes < d.id
    BY <1>2, <1>3
  <2>. QED
    BY <1>1, <1>3, <2>2, <2>3, <2>4 DEF MadeFor, validate_decision
<1>. HIDE DEF d
<1>5. d \in Decisions
  BY <1>4 DEF MadeFor
<1>6. a \in Attestations /\ a.case = c /\ a.decision = d
  BY <1>2, <1>5 DEF Attestations
<1>7. AttestedInv'
  <2>1. \A b \in attested' : b \in Attestations /\ MadeFor(b.decision, b.case)
    BY <1>1, <1>4, <1>6 DEF IInv, AttestedInv
  <2>2. {b.decision.id : b \in attested'} = 1 .. made'
    <3>1. {b.decision.id : b \in attested'} = {b.decision.id : b \in attested} \cup {made + 1}
      BY <1>1, <1>3, <1>6
    <3>2. 1 .. made + 1 = 1 .. made \cup {made + 1}
      BY <1>2
    <3>. QED
      BY <1>1, <3>1, <3>2 DEF IInv, AttestedInv
  <2>. QED
    BY <2>1, <2>2 DEF AttestedInv, MadeFor
<1>8. ProcInv' /\ DOMAIN proc' = Reviewers
  <2>1. state \in HeldState /\ state.at = "created"
    BY <1>2, <1>5 DEF HeldState, Held
  <2>2. a \in attested'
    BY <1>1
  <2>3. AttestedIn(attested', d, c)
    BY <1>6, <2>2 DEF WasAttested, AttestedIn
  <2>4. attested \subseteq attested'
    BY <1>1
  <2>. QED
    BY <1>1, <2>1, <2>3, <2>4, GotoKeeps DEF Held
<1>9. DataInv' /\ FilesInv' /\ HeadlineIsEarned'
  <2>. HIDE DEF a
  <2>1. DataInv'
    BY <1>1, <1>2, <1>8, ReviewAssumption DEF IInv, DataInv, datasetVars, reviewVars
  <2>2. FilesInv'
    BY <1>1 DEF IInv, FilesInv, OnDisk, WasAttested, AttestedIn, reviewVars
  <2>3. HeadlineIsEarned'
    BY <1>1 DEF IInv, HeadlineIsEarned, reviewVars
  <2>. QED
    BY <2>1, <2>2, <2>3
<1>. QED
  BY <1>7, <1>8, <1>9 DEF IInv

(* Opening the file empties it; filling it writes what was attested. *)
LEMMA OpenDecisionFileKeeps ==
  ASSUME IInv, NEW r \in Reviewers, OpenDecisionFile(r) PROVE IInv'
<1>. DEFINE state == [proc[r] EXCEPT !.at = "opened"]
<1>1. /\ decision' = [decision EXCEPT ![proc[r].case] = Torn] /\ Goto(r, state)
      /\ UNCHANGED <<datasetVars, reviewManifest, made, attested, lastOf>>
  BY DEF OpenDecisionFile, historyVars
<1>2. /\ proc[r] \in HeldState /\ WasAttested(proc[r].decision, proc[r].case)
      /\ proc[r].case \in Cases
  BY HeldDecision DEF OpenDecisionFile, Held
<1>3. /\ state \in HeldState /\ state.at = "opened"
      /\ state.decision = proc[r].decision /\ state.case = proc[r].case
  BY <1>2 DEF HeldState, Held
<1>. HIDE DEF state
<1>4. AttestedIn(attested', state.decision, state.case)
  BY <1>1, <1>2, <1>3 DEF WasAttested, AttestedIn
<1>5. ProcInv' /\ DOMAIN proc' = Reviewers
  BY <1>1, <1>3, <1>4, GotoKeeps DEF Held
<1>6. DataInv' /\ AttestedInv' /\ FilesInv' /\ HeadlineIsEarned'
  <2>1. DOMAIN lastOf' = Cases
    BY <1>1 DEF IInv, DataInv
  <2>. QED
    BY <1>1, <1>2, <1>5, <2>1, SpoilKeeps
<1>. QED
  BY <1>5, <1>6 DEF IInv

LEMMA FillDecisionFileKeeps ==
  ASSUME IInv, NEW r \in Reviewers, FillDecisionFile(r) PROVE IInv'
<1>. DEFINE c == proc[r].case
            d == proc[r].decision
            state == [at |-> "recorded"]
<1>1. /\ decision' = [decision EXCEPT ![c] = d] /\ Goto(r, state)
      /\ lastOf' = [lastOf EXCEPT ![c] = d.id]
      /\ UNCHANGED <<datasetVars, reviewManifest, made, attested>>
  BY DEF FillDecisionFile
<1>2. c \in Cases /\ WasAttested(d, c) /\ MadeFor(d, c)
  BY HeldDecision DEF FillDecisionFile, Held
<1>3. state.at = "recorded"
  OBVIOUS
<1>. HIDE DEF c, d, state
<1>4. ProcInv' /\ DOMAIN proc' = Reviewers
  BY <1>1, <1>3, GotoKeeps DEF Held
<1>5. DataInv'
  BY <1>1, <1>4 DEF IInv, DataInv, datasetVars
<1>6. AttestedInv' /\ HeadlineIsEarned'
  BY <1>1 DEF IInv, AttestedInv, HeadlineIsEarned
<1>7. FilesInv'
  <2>. SUFFICES ASSUME NEW x \in Cases, OnDisk(x)'
                PROVE  /\ decision'[x] \in Decisions
                       /\ decision'[x].supersedes < decision'[x].id
                       /\ decision'[x].intact => AttestedIn(attested', decision'[x], x)
    BY DEF FilesInv, WasAttested
  <2>1. CASE x = c
    BY <1>1, <1>2, <2>1 DEF MadeFor, WasAttested, IInv, DataInv
  <2>2. CASE x # c
    BY <1>1, <2>2 DEF IInv, FilesInv, WasAttested, OnDisk
  <2>. QED
    BY <2>1, <2>2
<1>. QED
  BY <1>4, <1>5, <1>6, <1>7 DEF IInv

LEMMA RefreshReviewManifestKeeps ==
  ASSUME IInv, NEW r \in Reviewers, RefreshReviewManifest(r) PROVE IInv'
<1>1. /\ reviewManifest' = build_review_manifest /\ Goto(r, Idle) /\ Idle.at = "idle"
      /\ UNCHANGED <<datasetVars, decision, made, historyVars>>
  BY DEF RefreshReviewManifest, Idle
<1>2. ProcInv' /\ DOMAIN proc' = Reviewers
  BY <1>1, GotoKeeps DEF Held, historyVars
<1>3. HeadlineIsEarned'
  <2>. SUFFICES ASSUME HeadlineEligible, NEW c \in Cases
                PROVE  \E a \in attested : /\ a.case = c /\ a.decision.action # "ABSTAIN"
                                           /\ a.decision.source.manifest = rows
    BY <1>1 DEF HeadlineIsEarned, build_review_manifest, historyVars
  <2>1. Accepted(c)
    BY DEF HeadlineEligible
  <2>2. decision[c].action # "ABSTAIN"
    BY <2>1, AcceptedMeans
  <2>3. PICK a \in attested :
          /\ a.case = c /\ a.decision = decision[c]
          /\ a.decision.source = [manifest |-> rows, case |-> bundle[c].case,
                                  labels |-> bundle[c].labels]
    BY <2>1, AcceptedHolds DEF AcceptedIsAttested
  <2>. QED
    BY <2>2, <2>3
<1>4. DataInv' /\ AttestedInv' /\ FilesInv'
  BY <1>1, <1>2 DEF IInv, DataInv, AttestedInv, FilesInv, OnDisk, WasAttested, datasetVars,
                    historyVars
<1>. QED
  BY <1>2, <1>3, <1>4 DEF IInv

LEMMA StepKeeps == IInv /\ [Next]_vars => IInv'
<1>. SUFFICES ASSUME IInv, [Next]_vars PROVE IInv'
  OBVIOUS
<1>1. CASE UNCHANGED vars
  BY <1>1 DEF vars, datasetVars, reviewVars, historyVars, IInv, DataInv, AttestedInv, FilesInv,
     ProcInv, HeadlineIsEarned, OnDisk, WasAttested
<1>2. CASE \/ WriteDatasetManifest
           \/ \E c \in Cases : RewriteLabels(c) \/ \E k \in Recordings : RewriteCase(c, k)
  BY <1>2, FrozenAgainKeeps
<1>3. ASSUME NEW c \in Cases, EditByHand(c) \/ RemoveByHand(c) PROVE IInv'
  BY <1>3, EditByHandKeeps, RemoveByHandKeeps
<1>4. ASSUME NEW c \in Cases, NEW r \in Reviewers, ReadReviewPack(r, c) PROVE IInv'
  BY <1>4, ReadReviewPackKeeps
<1>5. ASSUME NEW r \in Reviewers, NEW choice \in Choices, NEW supersedes \in 0 .. made,
             CreateDecision(r, choice[1], choice[2], supersedes)
      PROVE  IInv'
  BY <1>5, CreateDecisionKeeps
<1>6. ASSUME NEW r \in Reviewers, NEW choice \in Choices,
             RefuseToCreate(r, choice[1], choice[2])
      PROVE  IInv'
  BY <1>6, EndKeeps DEF RefuseToCreate
<1>7. ASSUME NEW r \in Reviewers, NEW replace \in BOOLEAN,
             CheckExisting(r, replace) \/ RefuseToWrite(r, replace)
      PROVE  IInv'
  BY <1>7, CheckExistingKeeps, EndKeeps DEF RefuseToWrite
<1>8. ASSUME NEW r \in Reviewers,
             OpenDecisionFile(r) \/ FillDecisionFile(r) \/ RefreshReviewManifest(r)
      PROVE  IInv'
  BY <1>8, OpenDecisionFileKeeps, FillDecisionFileKeeps, RefreshReviewManifestKeeps
<1>9. ASSUME NEW r \in Reviewers, Kill(r) PROVE IInv'
  BY <1>9, EndKeeps DEF Kill
<1>. QED
  BY <1>1, <1>2, <1>3, <1>4, <1>5, <1>6, <1>7, <1>8, <1>9 DEF Next, Decide, Continue

LEMMA Invariance == Spec => []IInv
  BY InitKeeps, StepKeeps, PTL DEF Spec

-----------------------------------------------------------------------------
(* What the invariant says of what is accepted. *)
LEMMA TypesHold == IInv => TypeOK
<1>. SUFFICES ASSUME IInv PROVE TypeOK
  OBVIOUS
<1>1. \A r \in Reviewers : proc[r].at \in Held => proc[r].decision \in Decisions
  BY HeldDecision DEF HeldState
<1>2. \A a \in attested : a.decision.source.manifest[a.case] =
                            [case |-> a.decision.source.case, labels |-> a.decision.source.labels]
  BY DEF IInv, AttestedInv, MadeFor
<1>. QED
  BY <1>1, <1>2 DEF IInv, DataInv, AttestedInv, FilesInv, Held, TypeOK

LEMMA VerdictOfClaims ==
  ASSUME NEW statuses
  PROVE  aggregate_verdict(statuses) = "CONTRADICTED" <=> "CONTRADICTED" \in statuses
  BY DEF aggregate_verdict

LEMMA ValidTruth ==
  ASSUME NEW amendment \in Amendments, NEW k \in Recordings,
         ValidAmendment(amendment, LedgerSeqs[k])
  PROVE  /\ [verdict |-> amendment.verdict, first_bad |-> amendment.first_bad] \in Truths
         /\ LET contradicted == {claim \in amendment.claims : claim.status = "CONTRADICTED"}
            IN  /\ (amendment.verdict = "CONTRADICTED") = (contradicted # {})
                /\ (amendment.first_bad # NoBadEvent) = (contradicted # {})
                /\ \A claim \in amendment.claims : claim.evidence \subseteq LedgerSeqs[k]
                /\ \A claim \in contradicted : \A seq \in claim.evidence :
                     amendment.first_bad <= seq
<1>. DEFINE contradicted == {claim \in amendment.claims : claim.status = "CONTRADICTED"}
<1>1. amendment \in AmendmentFiles /\ LedgerSeqs[k] \subseteq Nat
  BY ReviewAssumption
<1>2. (amendment.verdict = "CONTRADICTED") <=> (contradicted # {})
  BY VerdictOfClaims DEF ValidAmendment
<1>3. /\ amendment.verdict = "CONTRADICTED" => amendment.first_bad \in LedgerSeqs[k]
      /\ amendment.verdict # "CONTRADICTED" => amendment.first_bad = NoBadEvent
  BY DEF ValidAmendment, ValidFirstBad
<1>4. \A claim \in contradicted : \A seq \in claim.evidence :
        amendment.first_bad <= seq
  <2>. SUFFICES ASSUME NEW claim \in contradicted, NEW seq \in claim.evidence
                PROVE  amendment.first_bad <= seq
    OBVIOUS
  <2>1. seq \in ContradictedSeqs(amendment.claims)
    BY DEF ContradictedSeqs
  <2>. QED
    BY <1>2, <2>1 DEF ValidAmendment, ValidFirstBad
<1>5. [verdict |-> amendment.verdict, first_bad |-> amendment.first_bad] \in Truths
  <2>1. amendment.verdict \in Verdicts
    BY <1>1 DEF AmendmentFiles
  <2>2. amendment.first_bad \in {NoBadEvent} \cup UNION {LedgerSeqs[j] : j \in Recordings}
    BY <1>3
  <2>. QED
    BY <2>1, <2>2 DEF Truths
<1>6. (amendment.first_bad # NoBadEvent) <=> (contradicted # {})
  BY <1>1, <1>2, <1>3 DEF NoBadEvent
<1>. QED
  BY <1>2, <1>4, <1>5, <1>6 DEF ValidAmendment

(* An attested decision that is not an abstention has a label. *)
LEMMA AttestedTruth ==
  ASSUME NEW d, NEW c \in Cases, MadeFor(d, c)
  PROVE  d.action # "ABSTAIN" => ResolvedTruth(d) \in Truths
<1>1. d \in Decisions /\ d.source \in Sources
  BY DEF MadeFor, Decisions
<1>2. d.source.case \in Recordings /\ d.source.labels \in Recordings
  BY <1>1 DEF Sources
<1>3. CASE d.action = "AMEND"
  <2>1. d.amendment \in Amendments /\ ValidAmendment(d.amendment, LedgerSeqs[d.source.case])
    BY <1>1, <1>3 DEF MadeFor, Decisions
  <2>. QED
    BY <1>2, <1>3, <2>1, ValidTruth DEF ResolvedTruth
<1>4. CASE d.action # "AMEND"
  BY <1>2, <1>4, ReviewAssumption DEF ResolvedTruth
<1>. QED
  BY <1>3, <1>4

LEMMA AmendmentFits == IInv => AmendedTruthFits
<1>. SUFFICES ASSUME IInv, NEW c \in Cases, RowStatus(c) = "AMEND"
              PROVE  LET claims == decision[c].amendment.claims
                         truth == ResolvedTruth(decision[c])
                         contradicted == {claim \in claims : claim.status = "CONTRADICTED"}
                     IN  /\ (truth.verdict = "CONTRADICTED") = (contradicted # {})
                         /\ (truth.first_bad # NoBadEvent) = (contradicted # {})
                         /\ \A claim \in claims : claim.evidence \subseteq LedgerSeqs[bundle[c].case]
                         /\ \A claim \in contradicted : \A seq \in claim.evidence :
                              truth.first_bad <= seq
  BY DEF AmendedTruthFits
<1>1. OnDisk(c) /\ validate_decision(decision[c], c) /\ decision[c].action = "AMEND"
  BY AcceptedMeans
<1>2. decision[c] \in Decisions /\ bundle[c].case \in Recordings
  BY <1>1, LabelledPair DEF IInv, FilesInv, DataInv
<1>3. /\ decision[c].amendment \in Amendments
      /\ ValidAmendment(decision[c].amendment, LedgerSeqs[bundle[c].case])
  BY <1>1, <1>2 DEF validate_decision, Decisions
<1>4. ResolvedTruth(decision[c]) = [verdict |-> decision[c].amendment.verdict,
                                    first_bad |-> decision[c].amendment.first_bad]
  BY <1>1 DEF ResolvedTruth
<1>. QED
  BY <1>2, <1>3, <1>4, ValidTruth

-----------------------------------------------------------------------------
(* The contract sees the attestations and, for each case, the one in its   *)
(* decision file.                                                          *)
AbstractAttested == {Attested(a.decision, a.case) : a \in attested}

Standing(c) ==
  IF OnDisk(c) /\ decision[c].intact THEN Attested(decision[c], c) ELSE Absent

AbstractStanding == [c \in Cases |-> Standing(c)]

LEMMA AttestedIsThere ==
  ASSUME NEW d, NEW c \in Cases, MadeFor(d, c)
  PROVE  /\ Attested(d, c) # Absent
         /\ Attested(d, c).label # Absent <=> d.action # "ABSTAIN"
<1>1. d \in Decisions /\ d.source \in Sources
  BY DEF MadeFor, Decisions
<1>2. [manifest |-> d.source.manifest,
       content |-> [case |-> d.source.case, labels |-> d.source.labels]]
        \in [manifest : [Cases -> Labelled], content : Labelled]
  BY <1>1 DEF Sources, Labelled
<1>3. Attested(d, c).label = IF d.action = "ABSTAIN" THEN Absent ELSE ResolvedTruth(d)
  BY DEF Attested
<1>4. Attested(d, c).label \in Truths \cup {Absent}
  BY <1>3, AttestedTruth
<1>5. Attested(d, c) \in [case : Cases,
                          source : [manifest : [Cases -> Labelled], content : Labelled],
                          label : Truths \cup {Absent}]
  BY <1>2, <1>4 DEF Attested
<1>. QED
  BY <1>3, <1>5, AttestedTruth, DistinctAssumption

LEMMA AcceptsAlike == IInv => AcceptsWhatTheContractAccepts
<1>0. ASSUME NEW c \in Cases PROVE Accepted(c) \in BOOLEAN /\ Contract!Accepts(c) \in BOOLEAN
  BY DEF Contract!Accepts, Accepted
<1>. SUFFICES ASSUME IInv, NEW c \in Cases PROVE Accepted(c) <=> Contract!Accepts(c)
  BY <1>0, Zenon DEF AcceptsWhatTheContractAccepts
<1>. DEFINE content == [case |-> bundle[c].case, labels |-> bundle[c].labels]
            here == [manifest |-> rows, case |-> bundle[c].case, labels |-> bundle[c].labels]
<1>1. bundle[c] = content
  BY LabelledPair DEF IInv, DataInv
<1>2. Contract!Accepts(c) <=> /\ Standing(c) # Absent /\ Standing(c).label # Absent
                              /\ rows[c] = bundle[c]
                              /\ Standing(c).source = [manifest |-> rows, content |-> bundle[c]]
  BY DEF Contract!Accepts, Contract!Listed, Standing
<1>3. CASE OnDisk(c) /\ decision[c].intact
  <2>1. MadeFor(decision[c], c)
    BY <1>3, AttestedDecision DEF IInv, FilesInv
  <2>2. Standing(c) = Attested(decision[c], c) /\ Standing(c) # Absent
        /\ (Standing(c).label # Absent <=> decision[c].action # "ABSTAIN")
    BY <1>3, <2>1, AttestedIsThere DEF Standing
  <2>3. decision[c] \in Decisions /\ decision[c].source \in Sources
    BY <2>1 DEF MadeFor, Decisions
  <2>4. Standing(c).source = [manifest |-> rows, content |-> bundle[c]]
          <=> decision[c].source = here
    <3>1. Standing(c).source =
            [manifest |-> decision[c].source.manifest,
             content |-> [case |-> decision[c].source.case,
                          labels |-> decision[c].source.labels]]
      BY <2>2 DEF Attested
    <3>2. decision[c].source = [manifest |-> decision[c].source.manifest,
                                case |-> decision[c].source.case,
                                labels |-> decision[c].source.labels]
      BY <2>3 DEF Sources
    <3>. QED
      BY <1>1, <3>1, <3>2
  <2>5. SourceMatches(decision[c], c) <=> rows[c] = bundle[c] /\ decision[c].source = here
    BY SourceIsListed DEF IInv, SourceMatches
  <2>6. decision[c].source = here => validate_decision(decision[c], c)
                                     \/ ~SourceMatches(decision[c], c)
    BY <1>3, <2>1 DEF MadeFor, validate_decision, HashMatches
  <2>7. decision[c].action \in {"APPROVE", "AMEND"} <=> decision[c].action # "ABSTAIN"
    BY <2>3 DEF Decisions
  <2>8. validate_decision(decision[c], c) => SourceMatches(decision[c], c)
    BY DEF validate_decision
  <2>. QED
    BY <1>2, <1>3, <2>2, <2>4, <2>5, <2>6, <2>7, <2>8, AcceptedMeans
<1>4. CASE ~(OnDisk(c) /\ decision[c].intact)
  <2>1. Standing(c) = Absent
    BY <1>4 DEF Standing
  <2>2. ~Accepted(c)
    BY <1>4, AcceptedMeans DEF validate_decision, HashMatches
  <2>. QED
    BY <1>2, <2>1, <2>2
<1>. QED
  BY <1>3, <1>4

-----------------------------------------------------------------------------
(* Every step of the review is a step of the contract, or none.  The steps *)
(* of the contract, in terms of what it sees.                              *)
LEMMA ContractSteps ==
  /\ Contract!ContractInit <=> /\ bundle \in [Cases -> Labelled] /\ rows = bundle
                               /\ AbstractAttested = {}
                               /\ AbstractStanding = [c \in Cases |-> Absent]
  /\ UNCHANGED <<bundle, rows, AbstractAttested, AbstractStanding>> <=>
       UNCHANGED <<Contract!datasetVars, Contract!attestationVars>>
  /\ Contract!WriteManifest <=>
       rows' = bundle /\ UNCHANGED <<bundle, AbstractAttested, AbstractStanding>>
  /\ \A c : Contract!Withdraw(c) <=>
       /\ AbstractStanding' = [AbstractStanding EXCEPT ![c] = Absent]
       /\ UNCHANGED <<bundle, rows, AbstractAttested>>
  /\ \A c, k : Contract!Rewrite(c, k) <=>
       /\ bundle' = [bundle EXCEPT ![c] = k]
       /\ UNCHANGED <<rows, AbstractAttested, AbstractStanding>>
  /\ \A c, label : Contract!Attest(c, label) <=>
       /\ rows[c] = bundle[c]
       /\ AbstractAttested' = AbstractAttested \cup
            {[case |-> c, source |-> [manifest |-> rows, content |-> bundle[c]],
              label |-> label]}
       /\ UNCHANGED <<bundle, rows, AbstractStanding>>
  /\ \A a : Contract!Record(a) <=>
       /\ AbstractStanding' = [AbstractStanding EXCEPT ![a.case] = a]
       /\ UNCHANGED <<bundle, rows, AbstractAttested>>
<1>. USE DEF AbstractAttested, AbstractStanding, Standing, Contract!datasetVars,
             Contract!attestationVars
<1>1. Contract!ContractInit <=> /\ bundle \in [Cases -> Labelled] /\ rows = bundle
                                /\ AbstractAttested = {}
                                /\ AbstractStanding = [c \in Cases |-> Absent]
  BY DEF Contract!ContractInit
<1>2. UNCHANGED <<bundle, rows, AbstractAttested, AbstractStanding>> <=>
        UNCHANGED <<Contract!datasetVars, Contract!attestationVars>>
  OBVIOUS
<1>3. Contract!WriteManifest <=>
        rows' = bundle /\ UNCHANGED <<bundle, AbstractAttested, AbstractStanding>>
  BY DEF Contract!WriteManifest
<1>4. ASSUME NEW c
      PROVE  Contract!Withdraw(c) <=>
               /\ AbstractStanding' = [AbstractStanding EXCEPT ![c] = Absent]
               /\ UNCHANGED <<bundle, rows, AbstractAttested>>
  BY DEF Contract!Withdraw
<1>5. ASSUME NEW c, NEW k
      PROVE  Contract!Rewrite(c, k) <=>
               /\ bundle' = [bundle EXCEPT ![c] = k]
               /\ UNCHANGED <<rows, AbstractAttested, AbstractStanding>>
  BY DEF Contract!Rewrite
<1>6. ASSUME NEW c, NEW label
      PROVE  Contract!Attest(c, label) <=>
               /\ rows[c] = bundle[c]
               /\ AbstractAttested' = AbstractAttested \cup
                    {[case |-> c, source |-> [manifest |-> rows, content |-> bundle[c]],
                      label |-> label]}
               /\ UNCHANGED <<bundle, rows, AbstractStanding>>
  BY DEF Contract!Attest, Contract!Listed, Contract!Attestation
<1>7. ASSUME NEW a
      PROVE  Contract!Record(a) <=>
               /\ AbstractStanding' = [AbstractStanding EXCEPT ![a.case] = a]
               /\ UNCHANGED <<bundle, rows, AbstractAttested>>
  BY DEF Contract!Record
<1>. QED
  BY <1>1, <1>2, <1>3, <1>4, <1>5, <1>6, <1>7

LEMMA SameStanding ==
  ASSUME UNCHANGED decision PROVE UNCHANGED AbstractStanding
  BY DEF AbstractStanding, Standing, OnDisk

LEMMA SameAttested ==
  ASSUME UNCHANGED attested PROVE UNCHANGED AbstractAttested
  BY DEF AbstractAttested

(* One file changes, and with it what stands for its case. *)
LEMMA NewStanding ==
  ASSUME DataInv, NEW c \in Cases, NEW d, decision' = [decision EXCEPT ![c] = d]
  PROVE  AbstractStanding' =
           [AbstractStanding EXCEPT ![c] =
              IF d \notin {Absent, Torn} /\ d.intact THEN Attested(d, c) ELSE Absent]
<1>1. decision'[c] = d /\ \A x \in Cases \ {c} : decision'[x] = decision[x]
  BY DEF DataInv
<1>. DEFINE v == IF d \notin {Absent, Torn} /\ d.intact THEN Attested(d, c) ELSE Absent
<1>2. ASSUME NEW x \in Cases PROVE Standing(x)' = IF x = c THEN v ELSE Standing(x)
  BY <1>1 DEF Standing, OnDisk
<1>. HIDE DEF v
<1>3. AbstractStanding' = [x \in Cases |-> IF x = c THEN v ELSE Standing(x)]
  BY <1>2 DEF AbstractStanding
<1>4. [AbstractStanding EXCEPT ![c] = v] = [x \in Cases |-> IF x = c THEN v ELSE Standing(x)]
  BY DEF AbstractStanding
<1>. QED
  BY <1>3, <1>4 DEF v

(* Freezing a case again. *)
LEMMA DatasetSteps ==
  ASSUME IInv, NEW c \in Cases, NEW k \in Recordings,
         RewriteCase(c, k) \/ RewriteLabels(c)
  PROVE  \E x \in Labelled : Contract!Rewrite(c, x)
<1>1. UNCHANGED <<rows, AbstractAttested, AbstractStanding>>
  BY SameStanding, SameAttested DEF RewriteCase, RewriteLabels, reviewVars, historyVars
<1>2. bundle \in [Cases -> Labelled] /\ bundle[c] \in Labelled
  BY DEF IInv, DataInv
<1>3. CASE RewriteCase(c, k)
  <2>. DEFINE x == [bundle[c] EXCEPT !.case = k]
  <2>1. x \in Labelled /\ bundle' = [bundle EXCEPT ![c] = x]
    BY <1>2, <1>3 DEF RewriteCase, Labelled
  <2>. QED
    BY <1>1, <2>1, ContractSteps
<1>4. CASE RewriteLabels(c)
  <2>. DEFINE x == [bundle[c] EXCEPT !.labels = bundle[c].case]
  <2>1. x \in Labelled /\ bundle' = [bundle EXCEPT ![c] = x]
    BY <1>2, <1>4 DEF RewriteLabels, Labelled
  <2>. QED
    BY <1>1, <2>1, ContractSteps
<1>. QED
  BY <1>3, <1>4

(* A file that no longer is what was attested stands for nothing. *)
LEMMA SpoilSteps ==
  ASSUME IInv, NEW c \in Cases, NEW d, decision' = [decision EXCEPT ![c] = d],
         d \in {Absent, Torn} \/ ~d.intact, UNCHANGED <<bundle, rows, attested>>
  PROVE  Contract!Withdraw(c)
<1>1. AbstractStanding' = [AbstractStanding EXCEPT ![c] = Absent]
  BY NewStanding DEF IInv
<1>. QED
  BY <1>1, SameAttested, ContractSteps

LEMMA HandSteps ==
  ASSUME IInv, NEW c \in Cases, EditByHand(c) \/ RemoveByHand(c)
  PROVE  Contract!Withdraw(c)
<1>1. CASE RemoveByHand(c)
  BY <1>1, SpoilSteps DEF RemoveByHand, datasetVars
<1>2. CASE EditByHand(c)
  <2>. DEFINE d == [decision[c] EXCEPT !.action = "APPROVE", !.amendment = NoAmendment,
                                       !.source = review_source(c), !.intact = FALSE]
  <2>1. decision[c] \in Decisions /\ DOMAIN decision = Cases
    BY <1>2 DEF EditByHand, IInv, FilesInv, DataInv
  <2>2. decision' = [decision EXCEPT ![c] = d] /\ UNCHANGED <<bundle, rows, attested>>
    BY <1>2, <2>1 DEF EditByHand, datasetVars, historyVars
  <2>3. d.intact = FALSE
    BY <2>1 DEF Decisions
  <2>. HIDE DEF d
  <2>. QED
    BY <2>2, <2>3, SpoilSteps
<1>. QED
  BY <1>1, <1>2

LEMMA OpenSteps ==
  ASSUME IInv, NEW r \in Reviewers, OpenDecisionFile(r)
  PROVE  \E c \in Cases : Contract!Withdraw(c)
<1>1. PICK c \in Cases : c = proc[r].case
  BY HeldDecision DEF OpenDecisionFile, Held
<1>2. decision' = [decision EXCEPT ![c] = Torn] /\ UNCHANGED <<bundle, rows, attested>>
  BY <1>1 DEF OpenDecisionFile, datasetVars, historyVars
<1>. QED
  BY <1>1, <1>2, SpoilSteps

(* Creating a decision attests the label it resolves to. *)
LEMMA CreateSteps ==
  ASSUME IInv, NEW r \in Reviewers, NEW choice \in Choices, NEW supersedes \in 0 .. made,
         CreateDecision(r, choice[1], choice[2], supersedes)
  PROVE  \E c \in Cases, label \in Truths \cup {Absent} : Contract!Attest(c, label)
<1>0. PICK c \in Cases : c = proc[r].case
  BY DEF CreateDecision, IInv, ProcInv
<1>. DEFINE d == NewDecision(r, choice[1], choice[2], supersedes)
            a == [case |-> c, material |-> proc[r].material, decision |-> d]
<1>1. /\ proc[r].at = "read" /\ review_source(c) # NoSource
      /\ attested' = attested \cup {a} /\ UNCHANGED <<bundle, rows, decision>>
  BY <1>0 DEF CreateDecision, datasetVars, reviewVars
<1>2. bundle[c] \in Labelled
  BY DEF IInv, DataInv
<1>3. /\ rows[c] = bundle[c]
      /\ review_source(c) =
           [manifest |-> rows, case |-> bundle[c].case, labels |-> bundle[c].labels]
  BY <1>1, <1>2, SourceIsListed DEF IInv
<1>4. MadeFor(d, c)
  <2>1. AttestedInv' /\ a \in attested'
    BY <1>1, CreateDecisionKeeps DEF IInv
  <2>. QED
    BY <2>1 DEF AttestedInv, MadeFor
<1>5. Attested(d, c).label \in Truths \cup {Absent}
  BY <1>2, <1>4, AttestedTruth DEF Attested
<1>6. Attested(d, c) = [case |-> c, source |-> [manifest |-> rows, content |-> bundle[c]],
                        label |-> Attested(d, c).label]
  BY <1>0, <1>2, <1>3, LabelledPair DEF Attested, NewDecision
<1>7. a.decision = d /\ a.case = c
  OBVIOUS
<1>. HIDE DEF d, a
<1>8. AbstractAttested' = AbstractAttested \cup {Attested(d, c)}
  <2>1. AbstractAttested' = AbstractAttested \cup {Attested(a.decision, a.case)}
    BY <1>1 DEF AbstractAttested
  <2>. QED
    BY <2>1, <1>7
<1>. QED
  BY <1>1, <1>3, <1>5, <1>6, <1>8, SameStanding, ContractSteps

(* Filling the file records what the command's decision attested. *)
LEMMA FillSteps ==
  ASSUME IInv, NEW r \in Reviewers, FillDecisionFile(r)
  PROVE  \E a \in AbstractAttested : Contract!Record(a)
<1>. DEFINE c == proc[r].case
            d == proc[r].decision
<1>1. decision' = [decision EXCEPT ![c] = d] /\ UNCHANGED <<bundle, rows, attested>>
  BY DEF FillDecisionFile, datasetVars
<1>2. c \in Cases /\ WasAttested(d, c) /\ MadeFor(d, c) /\ d \notin {Absent, Torn}
  BY HeldDecision DEF FillDecisionFile, Held
<1>3. Attested(d, c) \in AbstractAttested /\ Attested(d, c).case = c
  BY <1>2 DEF AbstractAttested, WasAttested, AttestedIn, Attested
<1>4. AbstractStanding' = [AbstractStanding EXCEPT ![c] = Attested(d, c)]
  BY <1>1, <1>2, NewStanding DEF IInv, MadeFor
<1>. QED
  BY <1>1, <1>3, <1>4, SameAttested, ContractSteps

(* What the contract does not see. *)
LEMMA SilentSteps ==
  ASSUME UNCHANGED <<bundle, rows, decision, attested>>
  PROVE  UNCHANGED <<Contract!datasetVars, Contract!attestationVars>>
  BY SameStanding, SameAttested, ContractSteps

LEMMA StepRefines ==
  ASSUME IInv, [Next]_vars
  PROVE  Contract!ContractNext \/ UNCHANGED <<Contract!datasetVars, Contract!attestationVars>>
<1>. DEFINE Refines == Contract!ContractNext
                       \/ UNCHANGED <<Contract!datasetVars, Contract!attestationVars>>
<1>1. ASSUME UNCHANGED vars PROVE Refines
  BY <1>1, SilentSteps DEF vars, datasetVars, reviewVars, historyVars
<1>2. ASSUME WriteDatasetManifest PROVE Refines
  BY <1>2, SameStanding, SameAttested, ContractSteps
     DEF WriteDatasetManifest, reviewVars, historyVars, Contract!ContractNext
<1>3. ASSUME NEW c \in Cases, NEW k \in Recordings, RewriteCase(c, k) PROVE Refines
  BY <1>3, DatasetSteps DEF Contract!ContractNext
<1>4. ASSUME NEW c \in Cases, RewriteLabels(c) PROVE Refines
  BY <1>4, DatasetSteps, ReviewAssumption DEF Contract!ContractNext
<1>5. ASSUME NEW c \in Cases, EditByHand(c) \/ RemoveByHand(c) PROVE Refines
  BY <1>5, HandSteps DEF Contract!ContractNext
<1>6. ASSUME NEW r \in Reviewers, NEW choice \in Choices, NEW supersedes \in 0 .. made,
             CreateDecision(r, choice[1], choice[2], supersedes)
      PROVE  Refines
  BY <1>6, CreateSteps DEF Contract!ContractNext
<1>7. ASSUME NEW r \in Reviewers, OpenDecisionFile(r) PROVE Refines
  BY <1>7, OpenSteps DEF Contract!ContractNext
<1>8. ASSUME NEW r \in Reviewers, FillDecisionFile(r) PROVE Refines
  <2>1. PICK a \in AbstractAttested : Contract!Record(a)
    BY <1>8, FillSteps
  <2>. QED
    BY <2>1 DEF Contract!ContractNext, AbstractAttested
<1>9. ASSUME NEW r \in Reviewers,
             \/ \E c \in Cases : ReadReviewPack(r, c)
             \/ \E choice \in Choices : RefuseToCreate(r, choice[1], choice[2])
             \/ \E replace \in BOOLEAN : CheckExisting(r, replace) \/ RefuseToWrite(r, replace)
             \/ RefreshReviewManifest(r) \/ Kill(r)
      PROVE  Refines
  <2>1. UNCHANGED <<bundle, rows, decision, attested>>
    BY <1>9 DEF ReadReviewPack, RefuseToCreate, CheckExisting, RefuseToWrite,
                RefreshReviewManifest, Kill, datasetVars, reviewVars, historyVars
  <2>. QED
    BY <2>1, SilentSteps
<1>. HIDE DEF Refines
<1>10. ASSUME NEW r \in Reviewers, NEW c \in Cases, ReadReviewPack(r, c) PROVE Refines
  BY <1>9, <1>10
<1>11. ASSUME NEW r \in Reviewers, Decide(r) PROVE Refines
  BY <1>6, <1>9, <1>11 DEF Decide
<1>12. ASSUME NEW r \in Reviewers, Continue(r) PROVE Refines
  BY <1>7, <1>8, <1>9, <1>12 DEF Continue
<1>13. ASSUME NEW r \in Reviewers, Kill(r) PROVE Refines
  BY <1>9, <1>13
<1>14. ASSUME Next PROVE Refines
  BY <1>2, <1>3, <1>4, <1>5, <1>10, <1>11, <1>12, <1>13, <1>14 DEF Next
<1>15. Refines
  BY <1>1, <1>14
<1>. QED
  BY <1>15 DEF Refines
-----------------------------------------------------------------------------
(* Replacing a decision: the command that fills an empty file read, before *)
(* it was emptied, which decision it replaces.                             *)
LEMMA ReplaceInit == Init => ReplaceInv
  BY DEF Init, ReplaceInv, OnDisk, Recording, Idle

LEMMA RecordingIsHeld ==
  ASSUME IInv, NEW c \in Cases, NEW r \in Recording(c)
  PROVE  r \in Reviewers /\ proc[r].at \in {"checked", "opened"} /\ proc[r].case = c
         /\ proc[r] \in HeldState
  BY DEF Recording, IInv, ProcInv, Held

(* A step that adds no command to those recording a case. *)
LEMMA FewerKeeps ==
  ASSUME IInv, ReplaceInv, overlapped' = overlapped,
         \A c \in Cases : /\ Recording(c)' \subseteq Recording(c)
                          /\ \A r \in Recording(c)' : proc'[r].decision = proc[r].decision
                          /\ decision'[c] = Absent => lastOf'[c] = 0
                          /\ OnDisk(c)' => lastOf'[c] = decision'[c].id
                          /\ lastOf'[c] = lastOf[c] \/ Recording(c)' = {}
                                                   \/ c \in overlapped
  PROVE  ReplaceInv'
<1>. SUFFICES ASSUME NEW c \in Cases, c \notin overlapped, NEW r \in Recording(c)'
              PROVE  proc'[r].decision.supersedes = lastOf'[c] /\ Recording(c)' = {r}
  BY DEF ReplaceInv
<1>1. r \in Recording(c) /\ Recording(c) = {r} /\ proc[r].decision.supersedes = lastOf[c]
  BY DEF ReplaceInv
<1>. QED
  BY <1>1

(* A step after which r is recording nothing, whatever it did before. *)
LEMMA IdleReplaceKeeps ==
  ASSUME IInv, ReplaceInv, UNCHANGED <<decision, lastOf, overlapped>>,
         NEW r \in Reviewers, NEW state, state.at \notin {"checked", "opened"},
         proc' = proc \/ Goto(r, state)
  PROVE  ReplaceInv'
<1>1. DOMAIN proc = Reviewers
  BY DEF IInv, DataInv
<1>2. ASSUME NEW c \in Cases, NEW s \in Recording(c)'
      PROVE  s \in Recording(c) /\ proc'[s] = proc[s]
  BY <1>1, <1>2 DEF Recording, Goto
<1>. QED
  BY <1>2, FewerKeeps DEF ReplaceInv, OnDisk

LEMMA DatasetReplaceKeeps ==
  ASSUME IInv, ReplaceInv, UNCHANGED <<proc, decision, lastOf, overlapped>>
  PROVE  ReplaceInv'
  BY DEF ReplaceInv, OnDisk, Recording

LEMMA EditReplaceKeeps ==
  ASSUME IInv, ReplaceInv, NEW c \in Cases, EditByHand(c)
  PROVE  ReplaceInv'
<1>1. decision[c] \in Decisions /\ DOMAIN decision = Cases /\ OnDisk(c)
  BY DEF EditByHand, IInv, FilesInv, DataInv
<1>2. decision'[c].id = decision[c].id /\ \A b \in Cases \ {c} : decision'[b] = decision[b]
  BY <1>1 DEF EditByHand, Decisions
<1>3. decision'[c] # Absent
  <2>1. decision'[c] \in Decisions
    BY EditByHandKeeps, <1>1, <1>2, SourceIsListed DEF EditByHand, IInv, Decisions
  <2>. QED
    BY <2>1, DistinctAssumption
<1>4. UNCHANGED <<proc, lastOf, overlapped>>
  BY DEF EditByHand, historyVars
<1>. QED
  BY <1>1, <1>2, <1>3, <1>4 DEF ReplaceInv, OnDisk, Recording

(* Nobody is recording a case whose file is removed. *)
LEMMA RemoveReplaceKeeps ==
  ASSUME IInv, ReplaceInv, NEW c \in Cases, RemoveByHand(c)
  PROVE  ReplaceInv'
  BY DEF RemoveByHand, ReplaceInv, OnDisk, Recording, IInv, DataInv

(* A command that looks at a file is alone with it, or the case counts as  *)
(* overlapped from then on.                                                *)
LEMMA CheckReplaceKeeps ==
  ASSUME IInv, ReplaceInv, NEW r \in Reviewers, NEW replace \in BOOLEAN,
         CheckExisting(r, replace)
  PROVE  ReplaceInv'
<1>0. PICK c \in Cases : c = proc[r].case
  BY HeldDecision DEF CheckExisting, Held
<1>. DEFINE state == [proc[r] EXCEPT !.at = "checked"]
<1>1. /\ proc[r].at = "created" /\ proc' = [proc EXCEPT ![r] = state]
      /\ UNCHANGED <<decision, lastOf>>
      /\ MayWrite(proc[r].decision, c, replace)
      /\ overlapped' = IF Recording(c) # {} THEN overlapped \cup {c} ELSE overlapped
  BY <1>0 DEF CheckExisting, Goto, reviewVars
<1>2. state.at = "checked" /\ state.case = c /\ state.decision = proc[r].decision
  BY <1>0, <1>1, HeldDecision DEF Held, HeldState
<1>3. proc[r].decision.supersedes = lastOf[c]
  BY <1>1 DEF MayWrite, ReplaceInv, OnDisk
<1>4. DOMAIN proc = Reviewers
  BY DEF IInv, DataInv
<1>. HIDE DEF state
<1>5. proc'[r] = state /\ \A s \in Reviewers \ {r} : proc'[s] = proc[s]
  BY <1>1, <1>4
<1>6. Recording(c)' = Recording(c) \cup {r}
      /\ \A b \in Cases \ {c} : Recording(b)' = Recording(b) /\ r \notin Recording(b)
  BY <1>0, <1>1, <1>2, <1>5 DEF Recording
<1>. SUFFICES ASSUME NEW b \in Cases, b \notin overlapped', NEW s \in Recording(b)'
              PROVE  proc'[s].decision.supersedes = lastOf'[b] /\ Recording(b)' = {s}
  BY <1>1 DEF ReplaceInv, OnDisk
<1>7. CASE b = c
  BY <1>1, <1>2, <1>3, <1>5, <1>6, <1>7
<1>8. CASE b # c
  <2>1. s \in Recording(b) /\ s # r /\ b \notin overlapped
    BY <1>1, <1>6, <1>8
  <2>2. proc'[s] = proc[s]
    BY <2>1, <1>5 DEF Recording
  <2>. QED
    BY <2>1, <2>2, <1>1, <1>6, <1>8 DEF ReplaceInv
<1>. QED
  BY <1>7, <1>8

LEMMA OpenReplaceKeeps ==
  ASSUME IInv, ReplaceInv, NEW r \in Reviewers, OpenDecisionFile(r)
  PROVE  ReplaceInv'
<1>. DEFINE state == [proc[r] EXCEPT !.at = "opened"]
<1>1. /\ proc[r].at = "checked" /\ proc' = [proc EXCEPT ![r] = state]
      /\ decision' = [decision EXCEPT ![proc[r].case] = Torn]
      /\ UNCHANGED <<lastOf, overlapped>>
  BY DEF OpenDecisionFile, Goto, historyVars
<1>2. state.at = "opened" /\ state.case = proc[r].case /\ state.decision = proc[r].decision
  BY <1>1, HeldDecision DEF Held, HeldState
<1>3. DOMAIN proc = Reviewers /\ DOMAIN decision = Cases
  BY DEF IInv, DataInv
<1>. HIDE DEF state
<1>4. \A s \in Reviewers :
        /\ proc'[s].decision = proc[s].decision /\ proc'[s].case = proc[s].case
        /\ proc'[s].at \in {"checked", "opened"} => proc[s].at \in {"checked", "opened"}
  BY <1>1, <1>2, <1>3
<1>5. \A c \in Cases : decision'[c] = decision[c] \/ decision'[c] = Torn
  BY <1>1, <1>3
<1>6. \A c \in Cases : /\ decision'[c] = Absent => lastOf'[c] = 0
                       /\ OnDisk(c)' => lastOf'[c] = decision'[c].id
  BY <1>1, <1>5, DistinctAssumption DEF ReplaceInv, OnDisk
<1>7. \A c \in Cases : Recording(c)' \subseteq Recording(c) /\ Recording(c) \subseteq Reviewers
  BY <1>4 DEF Recording
<1>. QED
  BY <1>1, <1>4, <1>6, <1>7, FewerKeeps

(* The command that fills the file stops recording; any other one that     *)
(* still is has made the case overlapped.                                  *)
LEMMA FillReplaceKeeps ==
  ASSUME IInv, ReplaceInv, NEW r \in Reviewers, FillDecisionFile(r)
  PROVE  ReplaceInv'
<1>0. PICK c \in Cases : c = proc[r].case
  BY HeldDecision DEF FillDecisionFile, Held
<1>. DEFINE d == proc[r].decision
<1>1. /\ proc[r].at = "opened" /\ proc' = [proc EXCEPT ![r] = [at |-> "recorded"]]
      /\ decision' = [decision EXCEPT ![c] = d] /\ lastOf' = [lastOf EXCEPT ![c] = d.id]
      /\ UNCHANGED overlapped
  BY <1>0 DEF FillDecisionFile, Goto
<1>2. DOMAIN proc = Reviewers /\ DOMAIN decision = Cases /\ DOMAIN lastOf = Cases
  BY DEF IInv, DataInv
<1>3. d \notin {Absent, Torn}
  BY <1>1, HeldDecision DEF Held
<1>4. /\ proc'[r].at = "recorded" /\ \A s \in Reviewers \ {r} : proc'[s] = proc[s]
      /\ \A b \in Cases \ {c} : decision'[b] = decision[b] /\ lastOf'[b] = lastOf[b]
      /\ decision'[c] = d /\ lastOf'[c] = d.id
  BY <1>1, <1>2
<1>5. \A b \in Cases : Recording(b)' = Recording(b) \ {r}
  BY <1>4 DEF Recording
<1>6. r \in Recording(c)
  BY <1>0, <1>1 DEF Recording
<1>7. c \in overlapped \/ Recording(c)' = {}
  <2>1. ASSUME c \notin overlapped PROVE Recording(c) = {r}
    BY <2>1, <1>6 DEF ReplaceInv
  <2>. QED
    BY <2>1, <1>5
<1>8. \A b \in Cases : \A s \in Recording(b)' : s \in Reviewers \ {r}
  BY <1>5 DEF Recording
<1>. HIDE DEF d
<1>. QED
  BY <1>1, <1>3, <1>4, <1>5, <1>7, <1>8, FewerKeeps DEF ReplaceInv, OnDisk

LEMMA ReplaceStep == IInv /\ ReplaceInv /\ [Next]_vars => ReplaceInv'
<1>. SUFFICES ASSUME IInv, ReplaceInv, [Next]_vars PROVE ReplaceInv'
  OBVIOUS
<1>1. CASE UNCHANGED vars
  BY <1>1, DatasetReplaceKeeps DEF vars, reviewVars, historyVars
<1>2. CASE WriteDatasetManifest
  BY <1>2, DatasetReplaceKeeps DEF WriteDatasetManifest, reviewVars, historyVars
<1>3. ASSUME NEW c \in Cases, NEW k \in Recordings, RewriteCase(c, k) PROVE ReplaceInv'
  BY <1>3, DatasetReplaceKeeps DEF RewriteCase, reviewVars, historyVars
<1>4. ASSUME NEW c \in Cases, RewriteLabels(c) PROVE ReplaceInv'
  BY <1>4, DatasetReplaceKeeps DEF RewriteLabels, reviewVars, historyVars
<1>5. ASSUME NEW c \in Cases, EditByHand(c) \/ RemoveByHand(c) PROVE ReplaceInv'
  BY <1>5, EditReplaceKeeps, RemoveReplaceKeeps
<1>6. ASSUME NEW r \in Reviewers, NEW c \in Cases, ReadReviewPack(r, c) PROVE ReplaceInv'
  BY <1>6, IdleReplaceKeeps DEF ReadReviewPack, reviewVars, historyVars
<1>7. ASSUME NEW r \in Reviewers, Decide(r) PROVE ReplaceInv'
  <2>1. PICK state : state.at \notin {"checked", "opened"} /\ Goto(r, state)
    BY <1>7 DEF Decide, CreateDecision, RefuseToCreate, Idle
  <2>2. UNCHANGED <<decision, lastOf, overlapped>>
    BY <1>7 DEF Decide, CreateDecision, RefuseToCreate, reviewVars, historyVars
  <2>. QED
    BY <2>1, <2>2, IdleReplaceKeeps
<1>8. ASSUME NEW r \in Reviewers, Continue(r) PROVE ReplaceInv'
  <2>1. ASSUME NEW replace \in BOOLEAN, CheckExisting(r, replace) PROVE ReplaceInv'
    BY <2>1, CheckReplaceKeeps
  <2>2. ASSUME NEW replace \in BOOLEAN, RefuseToWrite(r, replace) PROVE ReplaceInv'
    BY <2>2, IdleReplaceKeeps DEF RefuseToWrite, Idle, reviewVars, historyVars
  <2>3. CASE RefreshReviewManifest(r)
    BY <2>3, IdleReplaceKeeps DEF RefreshReviewManifest, Idle, historyVars
  <2>. QED
    BY <1>8, <2>1, <2>2, <2>3, OpenReplaceKeeps, FillReplaceKeeps DEF Continue
<1>9. ASSUME NEW r \in Reviewers, Kill(r) PROVE ReplaceInv'
  BY <1>9, IdleReplaceKeeps DEF Kill, Idle, reviewVars, historyVars
<1>10. CASE Next
  BY <1>2, <1>3, <1>4, <1>5, <1>6, <1>7, <1>8, <1>9, <1>10 DEF Next
<1>. QED
  BY <1>1, <1>10

(* Only filling a file makes a decision of an empty one. *)
LEMMA FilledIsFilled ==
  ASSUME IInv, [Next]_vars, NEW c \in Cases,
         decision[c] = Torn, decision'[c] \notin {Absent, Torn}
  PROVE  \E r \in Recording(c) : decision'[c] = proc[r].decision
<1>1. DOMAIN decision = Cases
  BY DEF IInv, DataInv
<1>. DEFINE Filled == \E r \in Recording(c) : decision'[c] = proc[r].decision
<1>2. ASSUME UNCHANGED decision PROVE FALSE
  BY <1>2
<1>3. ASSUME NEW b \in Cases, EditByHand(b) \/ RemoveByHand(b) PROVE FALSE
  BY <1>1, <1>3 DEF EditByHand, RemoveByHand, OnDisk
<1>4. ASSUME NEW r \in Reviewers, OpenDecisionFile(r) PROVE FALSE
  BY <1>1, <1>4 DEF OpenDecisionFile
<1>5. ASSUME NEW r \in Reviewers, FillDecisionFile(r) PROVE Filled
  BY <1>1, <1>5 DEF FillDecisionFile, Recording
<1>6. ASSUME NEW r \in Reviewers, Decide(r) \/ Kill(r) PROVE UNCHANGED decision
  BY <1>6 DEF Decide, CreateDecision, RefuseToCreate, Kill, reviewVars
<1>7. ASSUME NEW r \in Reviewers, Continue(r) PROVE Filled
  <2>1. CASE \/ \E replace \in BOOLEAN : CheckExisting(r, replace) \/ RefuseToWrite(r, replace)
             \/ RefreshReviewManifest(r)
    BY <1>2, <2>1 DEF CheckExisting, RefuseToWrite, RefreshReviewManifest, reviewVars
  <2>. QED
    BY <1>4, <1>5, <1>7, <2>1 DEF Continue
<1>8. ASSUME NEW b \in Cases, \/ \E k \in Recordings : RewriteCase(b, k)
                              \/ RewriteLabels(b)
                              \/ \E r \in Reviewers : ReadReviewPack(r, b)
      PROVE  UNCHANGED decision
  BY <1>8 DEF RewriteCase, RewriteLabels, ReadReviewPack, reviewVars
<1>9. WriteDatasetManifest \/ UNCHANGED vars => UNCHANGED decision
  BY DEF WriteDatasetManifest, vars, reviewVars
<1>. HIDE DEF Filled
<1>10. Filled
  BY <1>2, <1>3, <1>6, <1>7, <1>8, <1>9 DEF Next
<1>. QED
  BY <1>10 DEF Filled

LEMMA StepNames ==
  IInv /\ ReplaceInv /\ [Next]_vars =>
    [\A c \in Cases :
       decision[c] = Torn /\ decision'[c] \notin {Absent, Torn} /\ c \notin overlapped
         => decision'[c].supersedes = lastOf[c]]_vars
  BY FilledIsFilled DEF ReplaceInv
-----------------------------------------------------------------------------
(* Nothing counts that nobody attested, whatever is frozen again, edited,  *)
(* removed, written over or killed: a case is accepted, and a dataset fit  *)
(* for the headline, only by decisions somebody attested for what is on    *)
(* disk, and the contract accepts exactly the same cases (review.py        *)
(* validate_decision, build_review_manifest, resolve_review_case).         *)
THEOREM AttestationsCount == Spec => []OnlyAttestedCounts
<1>1. IInv => OnlyAttestedCounts
  BY TypesHold, AcceptedHolds, AcceptsAlike DEF IInv, OnlyAttestedCounts
<1>. QED
  BY <1>1, Invariance, PTL

(* An accepted amendment resolves to a label that fits the ledger it is    *)
(* about now, whatever amendment files reviewers hand in (review.py        *)
(* _validate_amendment, resolve_reviewed_truth).                           *)
THEOREM AmendmentsFit == Spec => []AmendedTruthFits
  BY Invariance, AmendmentFits, PTL

(* A recorded decision names the last one recorded for its case, also when *)
(* a kill has lost that one's file (review.py write_decision).             *)
THEOREM ReplacementsAreNamed == Spec => ReplacementIsNamed
<1>1. Spec => []ReplaceInv
  BY Invariance, ReplaceInit, ReplaceStep, PTL DEF Spec
<1>. QED
  BY <1>1, Invariance, StepNames, PTL DEF Spec, ReplacementIsNamed

(* The review commands, with all that happens to their files, do what      *)
(* ReviewContract promises, or nothing it can see.                         *)
THEOREM ReviewImplementsContract == Spec => ImplementsReviewContract
<1>1. Init => Contract!ContractInit
  <2>1. ASSUME Init PROVE AbstractAttested = {} /\ AbstractStanding = [c \in Cases |-> Absent]
    BY <2>1 DEF Init, AbstractAttested, AbstractStanding, Standing, OnDisk
  <2>. QED
    BY <2>1, ReviewAssumption, ContractSteps DEF Init, Labelled
<1>. QED
  BY <1>1, StepRefines, Invariance, PTL DEF Spec, ImplementsReviewContract, Contract!ContractSpec
=============================================================================
