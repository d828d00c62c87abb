----------------------------- MODULE FreezeRun -----------------------------
(***************************************************************************)
(* The freeze command over the dataset's cases (cli._freeze, freeze.py):   *)
(* every selected case is recorded turn by turn into its replay cache,     *)
(* its bundle is written file by file, and at the end the manifest is      *)
(* rebuilt from what is on disk.  A command may return early, stop at a    *)
(* failing provider or be killed at any step, and be given again.          *)
(*                                                                         *)
(* A run of a case is determined by the responses of the model, so the     *)
(* content of a file is the recording it was derived from.  Cases are      *)
(* numbered in the order of all_case_ids.                                  *)
(***************************************************************************)
EXTENDS Integers, Sequences, FiniteSets

CONSTANTS
  LastCase,     \* cases are 1 .. LastCase
  Models, DefaultModel,
  Texts,        \* what a model may answer, calls included
  Turns,        \* responses in the conversation of a case
  Passing,      \* conversations whose run smoke_checks accepts
  MaxCommands,  \* bound: commands given
  NoModel, Absent, Torn  \* no model, no file, a file that does not parse

ASSUME FreezeAssumption ==
  /\ LastCase \in Nat \ {0} /\ Turns \in Nat \ {0} /\ MaxCommands \in Nat
  /\ DefaultModel \in Models /\ NoModel \notin Models
  /\ Passing \subseteq [1 .. Turns -> Texts]

VARIABLES
  cache,     \* cache[c]: the replay cache file of case c
  bundle,    \* bundle[c][f]: the content of file f in c's directory
  manifest,  \* manifest.json
  pc,        \* what the running command does next
  cmd,       \* its options
  todo,      \* selected cases not dealt with yet
  mem,       \* the ReplayCache object of the current case
  conv,      \* responses the agent received in the current case
  built,     \* whether the current case's live client exists
  written,   \* files of the current bundle written so far
  failed,    \* whether failures is non-empty
  exit,      \* how the last command ended
  commands,  \* commands given so far
  discarded  \* history: cases whose bundle outlived the cache it came from

diskVars == <<cache, bundle, manifest>>
caseVars == <<mem, conv, built, written>>
vars == <<diskVars, pc, cmd, todo, caseVars, failed, exit, commands, discarded>>
-----------------------------------------------------------------------------
Cases == 1 .. LastCase

Recording == [model : Models, responses : [1 .. Turns -> Texts]]

(* write_case_artifacts; "audit" stands for audit.json and the two         *)
(* certificates, which nothing here reads back.                            *)
FileOrder == <<"case", "labels", "audit", "summary">>
Files == {FileOrder[k] : k \in DOMAIN FileOrder}

NoCache == [model |-> NoModel, responses |-> <<>>]

(* A file that is not there or does not parse is no recording. *)
ASSUME FilesAssumption == Absent # Torn /\ Recording \cap {Absent, Torn} = {}

(* argparse: --fresh and --skip-frozen combine freely. *)
FreezeCommands ==
  [name : {"freeze"}, cases : SUBSET Cases \ {{}}, model : Models \cup {NoModel},
   fresh : BOOLEAN, skip : BOOLEAN]
ManifestCommand ==
  [name |-> "manifest", cases |-> {}, model |-> NoModel, fresh |-> FALSE, skip |-> FALSE]

Current == CHOOSE c \in todo : \A d \in todo : c <= d

LiveModel == IF cmd.model = NoModel THEN DefaultModel ELSE cmd.model

(* replay_case: run from the cache alone and compare with the bundle. *)
replay_case(c) ==
  IF cache[c] = NoCache THEN "no cache"
  ELSE IF Len(cache[c].responses) < Turns THEN "miss"
  ELSE IF bundle[c]["case"] = cache[c] THEN "matches"
  ELSE "differs"

(* smoke_checks: of its checks, those that can fail look at what the model *)
(* answered in the whole conversation, as whether it called a tool and     *)
(* whether it reported at the end.                                         *)
smoke_checks == conv \in Passing
-----------------------------------------------------------------------------
(* build_manifest *)

Exists(c) == bundle[c]["case"] # Absent /\ bundle[c]["labels"] # Absent
Loadable(c) == Exists(c) /\ bundle[c]["case"] # Torn /\ bundle[c]["labels"] # Torn

Row(c) == [case |-> bundle[c]["case"], labels |-> bundle[c]["labels"],
           summary |-> bundle[c]["summary"], replay_cache_entries |-> Len(cache[c].responses)]

ModelsOf(rows) == {rows[c].case.model : c \in DOMAIN rows}

Problems(rows) ==
  {<<"cannot load", c>> : c \in {d \in Cases : Exists(d) /\ ~Loadable(d)}}
    \cup {<<"no replay cache", c>> : c \in {d \in DOMAIN rows : rows[d].replay_cache_entries = 0}}
    \cup (IF Cardinality(ModelsOf(rows)) > 1 THEN {<<"mixes models", 0>>} ELSE {})

build_manifest ==
  LET rows == [c \in {d \in Cases : Loadable(d)} |-> Row(c)]
      missing == Cases \ DOMAIN rows
  IN  [cases |-> rows, missing |-> missing, problems |-> Problems(rows),
       complete |-> missing = {} /\ Problems(rows) = {}]

(* The summary is parsed outside the guarded part of build_manifest. *)
SummaryUnreadable == \E c \in Cases : Loadable(c) /\ bundle[c]["summary"] = Torn
-----------------------------------------------------------------------------
Return(code) ==
  /\ pc' = "idle" /\ exit' = code
  /\ todo' = {} /\ mem' = NoCache /\ conv' = <<>> /\ built' = FALSE /\ written' = 0

Start(command) ==
  /\ pc = "idle" /\ commands < MaxCommands
  /\ commands' = commands + 1
  /\ cmd' = command
  /\ todo' = command.cases
  /\ pc' = IF command.name = "freeze" THEN "next" ELSE "manifest"
  /\ failed' = FALSE /\ exit' = "none"
  /\ UNCHANGED <<diskVars, caseVars, discarded>>

(* Mutant: a case counts as frozen once its labels are there. *)
Frozen_ByLabels(c) == bundle[c]["labels"] # Absent

Frozen(c) == bundle[c]["case"] # Absent

Skip ==
  /\ pc = "next" /\ todo # {}
  /\ cmd.skip /\ Frozen(Current)
  /\ todo' = todo \ {Current}
  /\ UNCHANGED <<diskVars, pc, cmd, caseVars, failed, exit, commands, discarded>>

ToOpen == pc = "next" /\ todo # {} /\ ~(cmd.skip /\ Frozen(Current))

Loaded == IF cmd.fresh THEN NoCache ELSE cache[Current]

(* freeze_case loads the cache; --fresh deletes it, file and object.  This *)
(* comes before anything that can fail.                                    *)
LoadCache ==
  /\ ToOpen
  /\ cache' = [cache EXCEPT ![Current] = Loaded]
  /\ discarded' = IF cmd.fresh THEN discarded \cup {Current} ELSE discarded
  /\ UNCHANGED <<bundle, manifest, cmd, failed, commands>>

(* A recorded case is resumed with the cache's model; its recorded turns   *)
(* are served at once and no client is built.  A new one builds its client.*)
OpenCase ==
  /\ LoadCache
  /\ cmd.model = NoModel \/ Loaded.model \in {NoModel, cmd.model}
  /\ mem' = Loaded
  /\ conv' = Loaded.responses
  /\ built' = (Loaded.model = NoModel)
  /\ pc' = "turn"
  /\ UNCHANGED <<todo, written, exit>>

(* The early returns of _freeze: nothing after the loop runs. *)
RefuseModel ==
  /\ LoadCache
  /\ cmd.model # NoModel /\ Loaded.model \notin {NoModel, cmd.model}
  /\ Return("model mismatch")

OpenWithoutKey ==
  /\ LoadCache
  /\ Loaded.model = NoModel
  /\ Return("no key")

AtMissingTurn == pc = "turn" /\ Len(conv) < Turns

(* The first missing turn of a resumed case builds the client. *)
ResumeWithoutKey ==
  /\ AtMissingTurn /\ ~built
  /\ Return("no key")
  /\ UNCHANGED <<diskVars, cmd, failed, commands, discarded>>

ResumeWithOtherModel ==
  /\ AtMissingTurn /\ ~built
  /\ LiveModel # mem.model
  /\ Return("model mismatch")
  /\ UNCHANGED <<diskVars, cmd, failed, commands, discarded>>

(* Mutant: the response is kept in the cache object only. *)
RecordTurn_InMemory(text) ==
  /\ AtMissingTurn
  /\ built \/ LiveModel = mem.model
  /\ mem' = [model |-> LiveModel, responses |-> Append(mem.responses, text)]
  /\ conv' = Append(conv, text)
  /\ built' = TRUE
  /\ UNCHANGED <<cache, bundle, manifest, pc, cmd, todo, written, failed, exit, commands, discarded>>

(* CachingModelClient.complete on a miss: the response is on disk before   *)
(* the agent goes on.                                                      *)
RecordTurn(text) ==
  /\ AtMissingTurn
  /\ built \/ LiveModel = mem.model
  /\ mem' = [model |-> LiveModel, responses |-> Append(mem.responses, text)]
  /\ cache' = [cache EXCEPT ![Current] = mem']
  /\ conv' = Append(conv, text)
  /\ built' = TRUE
  /\ UNCHANGED <<bundle, manifest, pc, cmd, todo, written, failed, exit, commands, discarded>>

(* Mutant: the failing case is tried again at once. *)
StopAtProvider_TriesAgain(reason) ==
  /\ AtMissingTurn
  /\ built \/ LiveModel = mem.model
  /\ failed' = TRUE /\ exit' = reason
  /\ UNCHANGED <<diskVars, pc, cmd, todo, caseVars, commands, discarded>>

(* Mutant: the failing provider is a reason to return. *)
StopAtProvider_Returns(reason) ==
  /\ AtMissingTurn
  /\ built \/ LiveModel = mem.model
  /\ failed' = TRUE /\ Return(reason)
  /\ UNCHANGED <<diskVars, cmd, commands, discarded>>

(* A refused budget or a failing provider ends the loop; the manifest is   *)
(* still rebuilt.                                                          *)
StopAtProvider(reason) ==
  /\ AtMissingTurn
  /\ built \/ LiveModel = mem.model
  /\ failed' = TRUE /\ exit' = reason
  /\ todo' = {}
  /\ pc' = "manifest"
  /\ mem' = NoCache /\ conv' = <<>> /\ built' = FALSE /\ written' = 0
  /\ UNCHANGED <<diskVars, cmd, commands, discarded>>

RecordingOf == [model |-> mem.model, responses |-> conv]

LastFile == written + 1 = Len(FileOrder)

(* write_case_artifacts, one file; after the last one freeze_case returns  *)
(* and a bundle that fails the smoke checks counts as a failure.           *)
WriteFile ==
  /\ pc = "turn" /\ Len(conv) = Turns
  /\ bundle' = [bundle EXCEPT ![Current][FileOrder[written + 1]] = RecordingOf]
  /\ discarded' = discarded \ {Current}
  /\ IF LastFile
       THEN /\ todo' = todo \ {Current} /\ pc' = "next"
            /\ failed' = (failed \/ ~smoke_checks)
            /\ mem' = NoCache /\ conv' = <<>> /\ built' = FALSE /\ written' = 0
       ELSE /\ written' = written + 1
            /\ UNCHANGED <<todo, pc, failed, mem, conv, built>>
  /\ UNCHANGED <<cache, manifest, cmd, exit, commands>>

CasesDone ==
  /\ pc = "next" /\ todo = {}
  /\ pc' = "manifest"
  /\ UNCHANGED <<diskVars, cmd, todo, caseVars, failed, exit, commands, discarded>>

ExitCode(new) ==
  IF exit # "none" THEN exit
  ELSE IF (IF cmd.name = "manifest" THEN new.complete ELSE ~failed) THEN "ok"
  ELSE "failures"

(* build_manifest, write_manifest and the command's return. *)
WriteManifest ==
  /\ pc = "manifest" /\ ~SummaryUnreadable
  /\ manifest' = build_manifest
  /\ Return(ExitCode(manifest'))
  /\ UNCHANGED <<cache, bundle, cmd, failed, commands, discarded>>

ManifestRaises ==
  /\ pc = "manifest" /\ SummaryUnreadable
  /\ Return("crash")
  /\ UNCHANGED <<diskVars, cmd, failed, commands, discarded>>

(* Files are written in place, except the cache: a kill in the middle of a *)
(* write leaves a file that does not parse.  An exception that _freeze     *)
(* does not catch, as from a torn cost ledger (LiveCalls), ends a command  *)
(* like a kill that tears nothing.                                         *)
TearFile ==
  \/ UNCHANGED <<bundle, manifest>>
  \/ /\ pc = "turn" /\ Len(conv) = Turns
     /\ bundle' = [bundle EXCEPT ![Current][FileOrder[written + 1]] = Torn]
     /\ UNCHANGED manifest
  \/ /\ pc = "manifest" /\ ~SummaryUnreadable
     /\ manifest' = Torn
     /\ UNCHANGED bundle

Kill ==
  /\ pc # "idle"
  /\ TearFile
  /\ Return("killed")
  /\ UNCHANGED <<cache, cmd, failed, commands, discarded>>
-----------------------------------------------------------------------------
Init ==
  /\ cache = [c \in Cases |-> NoCache]
  /\ bundle = [c \in Cases |-> [f \in Files |-> Absent]]
  /\ manifest = Absent
  /\ pc = "idle" /\ cmd = ManifestCommand /\ todo = {}
  /\ mem = NoCache /\ conv = <<>> /\ built = FALSE /\ written = 0
  /\ failed = FALSE /\ exit = "none" /\ commands = 0
  /\ discarded = {}

Proceed ==
  \/ Skip \/ OpenCase \/ RefuseModel \/ OpenWithoutKey
  \/ ResumeWithoutKey \/ ResumeWithOtherModel
  \/ \E text \in Texts : RecordTurn(text)
  \/ \E reason \in {"provider failure", "budget"} : StopAtProvider(reason)
  \/ WriteFile \/ CasesDone \/ WriteManifest \/ ManifestRaises

Next ==
  \/ \E command \in FreezeCommands \cup {ManifestCommand} : Start(command)
  \/ Proceed
  \/ Kill

(* A running command goes on: its provider answers or fails. *)
Spec == Init /\ [][Next]_vars /\ WF_vars(Proceed)
-----------------------------------------------------------------------------
(* Properties *)

Content == Recording \cup {Absent, Torn}
PartialRecording ==
  {NoCache} \cup [model : Models, responses : UNION {[1 .. n -> Texts] : n \in 1 .. Turns}]

(* A bundle only ever holds finished recordings. *)
TypeOK ==
  /\ cache \in [Cases -> PartialRecording]
  /\ bundle \in [Cases -> [Files -> Content]]
  /\ manifest \notin {Absent, Torn} =>
       /\ DOMAIN manifest.cases \cup manifest.missing = Cases
       /\ \A c \in DOMAIN manifest.cases :
            manifest.cases[c].case \in Recording /\ manifest.cases[c].labels \in Recording
  /\ pc \in {"idle", "next", "turn", "manifest"}
  /\ todo \subseteq cmd.cases
  /\ mem \in PartialRecording /\ conv = mem.responses
  /\ written \in 0 .. Len(FileOrder) - 1

(* "Freeze real-model traces once; replay and verify them forever"         *)
(* (freeze.py:1), as far as it goes: whatever commands are given, fail or  *)
(* are killed, a recorded case replays from its cache to exactly the case  *)
(* that was frozen, unless a --fresh command has discarded that cache.     *)
RecordedCaseReplays ==
  \A c \in Cases \ discarded :
    bundle[c]["case"] \in Recording => replay_case(c) = "matches"

(* Bundles and caches only ever hold finished recordings or their          *)
(* beginnings, and what was recorded replays (freeze.py replay_case).      *)
FrozenCasesHold == TypeOK /\ RecordedCaseReplays

(* The exit status of freeze is worth something: "ok" without              *)
(* --skip-frozen means that every selected case has all its files, from    *)
(* one recording that passed the checks, replays, and is in the manifest.  *)
OkMeansFrozen ==
  pc = "idle" /\ exit = "ok" /\ cmd.name = "freeze" /\ ~cmd.skip =>
    \A c \in cmd.cases :
      LET recording == bundle[c]["case"] IN
        /\ \A f \in Files : bundle[c][f] = recording
        /\ replay_case(c) = "matches"
        /\ recording.responses \in Passing
        /\ c \in DOMAIN manifest.cases /\ manifest.cases[c].case = recording

(* A command that reached its end, also one that a provider stopped,       *)
(* leaves a manifest that describes what is on disk.                       *)
ManifestIsCurrent ==
  pc = "idle" /\ exit \in {"ok", "failures", "provider failure", "budget"} =>
    manifest = build_manifest

(* What the freeze and manifest commands say when they end, by exit status *)
(* and by manifest, is true of what is on disk (cli.py _freeze).           *)
CommandTellsTheDisk == OkMeansFrozen /\ ManifestIsCurrent

(* "A second run skips frozen cases and spends nothing" (test_freeze.py):  *)
(* under --skip-frozen a case whose case.json was there is not recorded,   *)
(* written or discarded again.                                             *)
SkippedCasesAreUntouched ==
  [][\A c \in Cases :
       pc # "idle" /\ cmd.skip /\ bundle[c]["case"] # Absent /\ ~(written > 0 /\ c = Current)
         => cache'[c] = cache[c] /\ bundle'[c] = bundle[c]]_vars

(* What a running command can still do: a case is opened, its turns are    *)
(* recorded and its files written; then comes the manifest.                *)
CaseSteps == Turns + Len(FileOrder) + 1

StepsLeft ==
  CASE pc = "idle" -> 0
    [] pc = "manifest" -> 1
    [] pc = "next" -> Cardinality(todo) * CaseSteps + 2
    [] pc = "turn" -> Cardinality(todo) * CaseSteps + 1 - Len(conv) - written

(* Whatever the provider does and whatever is on disk, each step of a      *)
(* running command uses up one of at most LastCase * CaseSteps + 2 (cli.py *)
(* _freeze, freeze.py freeze_case).                                        *)
CommandsAreBounded ==
  /\ [](StepsLeft \in 0 .. LastCase * CaseSteps + 2)
  /\ [][pc = "idle" \/ StepsLeft' < StepsLeft]_vars

(* Every command comes to an end. *)
CommandEnds == pc # "idle" ~> pc = "idle"
=============================================================================
