------------------------- MODULE FreezeRunProofs --------------------------
(* Why the freeze command's exit status, manifest and bundles can be       *)
(* trusted, for any number of cases, models, turns and commands.           *)
EXTENDS FreezeRun, SequenceTheorems, FiniteSetTheorems, WellFoundedInduction, TLAPS

(* A set of case numbers that is not empty has a smallest member. *)
LEMMA LeastCase ==
  ASSUME NEW S, S \subseteq Nat, S # {}
  PROVE  \E x \in S : \A y \in S : x <= y
<1>. DEFINE Before == {pair \in Nat \X Nat : pair[1] < pair[2]}
<1>1. IsWellFoundedOn(Before, Nat)
  BY NatLessThanWellFounded DEF OpToRel
<1>2. \E x \in S : \A y \in S : ~ (<<y, x>> \in Before)
  <2>. HIDE DEF Before
  <2>. QED
    BY <1>1, WFMin, Zenon
<1>3. PICK x \in S : \A y \in S : ~ (<<y, x>> \in Before)
  BY <1>2, Zenon
<1>4. \A y \in S : x <= y
  <2>. TAKE y \in S
  <2>1. x \in Nat /\ y \in Nat
    BY <1>3
  <2>2. y < x => <<y, x>> \in Before
    BY <2>1
  <2>3. ~ (y < x)
    BY <1>3, <2>2
  <2>. HIDE DEF Before
  <2>. QED
    BY <2>1, <2>3
<1>. QED
  BY <1>3, <1>4, Zenon

LEMMA CurrentIsSelected ==
  ASSUME todo \subseteq Cases, todo # {}
  PROVE  Current \in todo
<1>1. todo \subseteq Nat
  BY DEF Cases
<1>2. \E c \in todo : \A d \in todo : c <= d
  BY <1>1, LeastCase
<1>. QED
  BY <1>2 DEF Current

(* A partial recording is nothing yet, or some of the turns of one model. *)
LEMMA PartialIs ==
  ASSUME NEW r \in PartialRecording
  PROVE  /\ r = [model |-> r.model, responses |-> r.responses]
         /\ r.responses \in Seq(Texts) /\ Len(r.responses) \in 0 .. Turns
         /\ Len(r.responses) = Turns => r \in Recording
<1>1. CASE r = NoCache
  <2>1. r.responses = <<>> /\ r = [model |-> r.model, responses |-> r.responses]
    BY <1>1 DEF NoCache
  <2>. QED
    BY <2>1, FreezeAssumption
<1>2. CASE r \in [model : Models, responses : UNION {[1 .. n -> Texts] : n \in 1 .. Turns}]
  <2>1. PICK n \in 1 .. Turns : r.responses \in [1 .. n -> Texts]
    BY <1>2
  <2>2. n \in Nat /\ r.model \in Models /\ r = [model |-> r.model, responses |-> r.responses]
    BY <1>2, FreezeAssumption
  <2>3. r.responses \in Seq(Texts) /\ Len(r.responses) = n
    BY <2>1, <2>2
  <2>. QED
    BY <2>1, <2>2, <2>3, FreezeAssumption DEF Recording
<1>. QED
  BY <1>1, <1>2 DEF PartialRecording

LEMMA SomeTurnsArePartial ==
  ASSUME NEW m \in Models, NEW s \in Seq(Texts), Len(s) \in 1 .. Turns
  PROVE  [model |-> m, responses |-> s] \in PartialRecording
<1>1. s \in [1 .. Len(s) -> Texts]
  BY LenProperties
<1>2. s \in UNION {[1 .. n -> Texts] : n \in 1 .. Turns}
  BY <1>1
<1>. QED
  BY <1>2 DEF PartialRecording

LEMMA RecordingIs ==
  ASSUME NEW r \in Recording
  PROVE  /\ r # NoCache /\ Len(r.responses) = Turns
         /\ r \in PartialRecording
         /\ r # Absent /\ r # Torn
<1>1. r.responses \in [1 .. Turns -> Texts] /\ r.model \in Models
  BY DEF Recording
<1>2. Len(r.responses) = Turns /\ r.responses \in Seq(Texts)
  BY <1>1, FreezeAssumption
<1>3. r # NoCache
  BY <1>1, FreezeAssumption DEF NoCache
<1>4. r = [model |-> r.model, responses |-> r.responses]
  BY DEF Recording
<1>5. r \in PartialRecording
  BY <1>1, <1>2, <1>4, SomeTurnsArePartial, FreezeAssumption
<1>. QED
  BY <1>2, <1>3, <1>5, FilesAssumption
-----------------------------------------------------------------------------
(* The invariant. *)

Commands == FreezeCommands \cup {ManifestCommand}

TypeInv ==
  /\ cache \in [Cases -> PartialRecording]
  /\ bundle \in [Cases -> [Files -> Content]]
  /\ pc \in {"idle", "next", "turn", "manifest"}
  /\ cmd \in Commands /\ todo \subseteq cmd.cases
  /\ mem \in PartialRecording /\ conv = mem.responses
  /\ written \in 0 .. Len(FileOrder) - 1

(* What a command holds in memory is what the cache file of its case says, *)
(* and the files it has written of the bundle hold exactly that.           *)
WorkInv ==
  /\ pc = "turn" =>
       /\ todo # {} /\ mem = cache[Current]
       /\ written > 0 => Len(conv) = Turns
       /\ \A k \in 1 .. written : bundle[Current][FileOrder[k]] = mem
       /\ cmd.skip /\ written = 0 => bundle[Current]["case"] = Absent
  /\ pc # "turn" => written = 0
  /\ pc \in {"idle", "manifest"} => todo = {}

(* Whatever --fresh has not discarded holds in its cache what was frozen.  *)
KeptInv ==
  \A c \in Cases \ discarded : bundle[c]["case"] \in Recording => bundle[c]["case"] = cache[c]

(* A case a command may be done with. *)
Sound(c) ==
  /\ cache[c] \in Recording
  /\ \A f \in Files : bundle[c][f] = cache[c]
  /\ cache[c].responses \in Passing

(* As long as nothing failed, every case dealt with is sound, and so are   *)
(* all of them after a command that ended well.                            *)
DoneInv ==
  pc # "idle" /\ exit = "none" /\ ~failed /\ cmd.name = "freeze" /\ ~cmd.skip =>
    \A c \in cmd.cases \ todo : Sound(c)

EndedInv ==
  pc = "idle" /\ exit = "ok" /\ cmd.name = "freeze" /\ ~cmd.skip =>
    \A c \in cmd.cases : Sound(c)

RunningInv == pc # "idle" => exit \in {"none", "provider failure", "budget"}

ManifestInv ==
  manifest \notin {Absent, Torn} =>
    /\ DOMAIN manifest.cases \cup manifest.missing = Cases
    /\ \A c \in DOMAIN manifest.cases :
         manifest.cases[c].case \in Recording /\ manifest.cases[c].labels \in Recording

IInv ==
  /\ TypeInv /\ WorkInv /\ KeptInv /\ DoneInv /\ EndedInv /\ RunningInv
  /\ ManifestInv /\ ManifestIsCurrent

LEMMA CommandIs ==
  ASSUME NEW command \in Commands
  PROVE  /\ command.cases \subseteq Cases /\ command.name \in {"freeze", "manifest"}
         /\ command.skip \in BOOLEAN /\ command.fresh \in BOOLEAN
         /\ command.model \in Models \cup {NoModel}
         /\ command.name = "manifest" => command.cases = {}
<1>1. CASE command \in FreezeCommands
  BY <1>1 DEF FreezeCommands
<1>2. CASE command = ManifestCommand
  BY <1>2 DEF ManifestCommand
<1>. QED
  BY <1>1, <1>2 DEF Commands

LEMMA FilesAre ==
  /\ Files = {"case", "labels", "audit", "summary"} /\ Len(FileOrder) = 4
  /\ FileOrder[1] = "case" /\ FileOrder[2] = "labels"
  /\ FileOrder[3] = "audit" /\ FileOrder[4] = "summary"
<1>1. /\ Len(FileOrder) = 4 /\ DOMAIN FileOrder = 1 .. 4
      /\ FileOrder[1] = "case" /\ FileOrder[2] = "labels"
      /\ FileOrder[3] = "audit" /\ FileOrder[4] = "summary"
  BY DEF FileOrder
<1>2. 1 .. 4 = {1, 2, 3, 4}
  OBVIOUS
<1>. QED
  BY <1>1, <1>2 DEF Files

(* While a command works on a case, that case is one of its own. *)
LEMMA WorkingOn ==
  ASSUME TypeInv, todo # {}
  PROVE  Current \in todo /\ Current \in Cases /\ Current \in cmd.cases
  BY CurrentIsSelected, CommandIs DEF TypeInv

LEMMA LoadedIs ==
  ASSUME TypeInv, todo # {}
  PROVE  Loaded \in PartialRecording
  BY WorkingOn, CommandIs DEF TypeInv, Loaded, PartialRecording

LEMMA CacheLoads ==
  ASSUME TypeInv, LoadCache
  PROVE  Loaded \in PartialRecording /\ cache' \in [Cases -> PartialRecording]
<1>1. Loaded \in PartialRecording
  BY LoadedIs DEF LoadCache, ToOpen
<1>. QED
  BY <1>1 DEF LoadCache, TypeInv

LEMMA LiveModelIs ==
  ASSUME TypeInv
  PROVE  LiveModel \in Models
  BY CommandIs, FreezeAssumption DEF TypeInv, LiveModel

(* A turn adds one response to a recording that is not finished. *)
LEMMA TurnAdds ==
  ASSUME TypeInv, AtMissingTurn, NEW text \in Texts
  PROVE  LET new == [model |-> LiveModel, responses |-> Append(mem.responses, text)]
         IN  new \in PartialRecording /\ Append(conv, text) = new.responses
<1>1. mem.responses \in Seq(Texts) /\ Len(mem.responses) < Turns /\ Len(mem.responses) \in Nat
  BY PartialIs, FreezeAssumption DEF TypeInv, AtMissingTurn
<1>2. Append(mem.responses, text) \in Seq(Texts)
      /\ Len(Append(mem.responses, text)) = Len(mem.responses) + 1
  BY <1>1, AppendProperties
<1>3. Len(Append(mem.responses, text)) \in 1 .. Turns
  BY <1>1, <1>2, FreezeAssumption
<1>. QED
  BY <1>2, <1>3, LiveModelIs, SomeTurnsArePartial DEF TypeInv

(* What is written into a bundle is the finished recording in memory. *)
LEMMA FinishedIs ==
  ASSUME TypeInv, Len(conv) = Turns
  PROVE  RecordingOf = mem /\ mem \in Recording
  BY PartialIs DEF TypeInv, RecordingOf

LEMMA NoCacheIs == NoCache \in PartialRecording /\ NoCache.responses = <<>>
  BY DEF NoCache, PartialRecording

LEMMA ReturnTyped ==
  ASSUME TypeInv, NEW code, Return(code), cmd' = cmd,
         cache' \in [Cases -> PartialRecording], bundle' \in [Cases -> [Files -> Content]]
  PROVE  TypeInv'
<1>1. pc' = "idle" /\ todo' = {} /\ mem' = NoCache /\ conv' = <<>> /\ written' = 0
  BY DEF Return
<1>2. 0 \in 0 .. Len(FileOrder) - 1
  BY FilesAre
<1>. QED
  BY <1>1, <1>2, NoCacheIs DEF TypeInv

LEMMA TypeStep ==
  ASSUME TypeInv, WorkInv, [Next]_vars
  PROVE  TypeInv'
<1>. USE NoCacheIs
<1>1. ASSUME NEW command \in Commands, Start(command)
      PROVE  TypeInv'
  BY <1>1 DEF Start, TypeInv, diskVars, caseVars
<1>2. CASE Skip
  BY <1>2 DEF Skip, TypeInv, diskVars, caseVars
<1>3. CASE OpenCase
  <2>1. Loaded \in PartialRecording /\ cache' \in [Cases -> PartialRecording]
    BY <1>3, CacheLoads DEF OpenCase
  <2>. QED
    BY <1>3, <2>1 DEF OpenCase, LoadCache, TypeInv
<1>4. CASE RefuseModel \/ OpenWithoutKey
  <2>1. LoadCache /\ (Return("model mismatch") \/ Return("no key"))
    BY <1>4 DEF RefuseModel, OpenWithoutKey
  <2>2. cache' \in [Cases -> PartialRecording]
    BY <2>1, CacheLoads
  <2>3. bundle' = bundle /\ cmd' = cmd
    BY <2>1 DEF LoadCache
  <2>. QED
    BY <2>1, <2>2, <2>3, ReturnTyped DEF TypeInv
<1>5. CASE ResumeWithoutKey \/ ResumeWithOtherModel
  <2>1. /\ Return("model mismatch") \/ Return("no key")
        /\ cmd' = cmd /\ cache' = cache /\ bundle' = bundle
    BY <1>5 DEF ResumeWithoutKey, ResumeWithOtherModel, diskVars
  <2>. QED
    BY <2>1, ReturnTyped DEF TypeInv
<1>6. ASSUME NEW text \in Texts, RecordTurn(text)
      PROVE  TypeInv'
  <2>1. mem' \in PartialRecording /\ conv' = mem'.responses
    BY <1>6, TurnAdds DEF RecordTurn
  <2>2. cache' \in [Cases -> PartialRecording]
    BY <1>6, <2>1 DEF RecordTurn, TypeInv
  <2>. QED
    BY <1>6, <2>1, <2>2 DEF RecordTurn, TypeInv
<1>7. ASSUME NEW reason, StopAtProvider(reason)
      PROVE  TypeInv'
  BY <1>7, FilesAre DEF StopAtProvider, TypeInv, diskVars
<1>8. CASE WriteFile
  <2>1. RecordingOf \in Content
    BY <1>8, FinishedIs DEF WriteFile, Content
  <2>2. bundle' \in [Cases -> [Files -> Content]]
    BY <1>8, <2>1 DEF WriteFile, TypeInv
  <2>. QED
    BY <1>8, <2>2, FilesAre DEF WriteFile, LastFile, TypeInv
<1>9. CASE CasesDone
  BY <1>9 DEF CasesDone, TypeInv, diskVars, caseVars
<1>10. CASE WriteManifest \/ ManifestRaises
  <2>1. \E code : Return(code)
    BY <1>10 DEF WriteManifest, ManifestRaises
  <2>2. cmd' = cmd /\ cache' = cache /\ bundle' = bundle
    BY <1>10 DEF WriteManifest, ManifestRaises, diskVars
  <2>. QED
    BY <2>1, <2>2, ReturnTyped DEF TypeInv
<1>11. CASE Kill
  <2>1. bundle' \in [Cases -> [Files -> Content]]
    BY <1>11 DEF Kill, TearFile, TypeInv, Content
  <2>. QED
    BY <1>11, <2>1, ReturnTyped DEF Kill, TypeInv
<1>12. CASE UNCHANGED vars
  BY <1>12 DEF vars, diskVars, caseVars, TypeInv
<1>. QED
  BY <1>1, <1>2, <1>3, <1>4, <1>5, <1>6, <1>7, <1>8, <1>9, <1>10, <1>11, <1>12
     DEF Next, Proceed, Commands

(* A file that is written becomes the k-th of the bundle, and no other. *)
LEMMA FileWritten ==
  ASSUME TypeInv, WorkInv, WriteFile
  PROVE  /\ RecordingOf = mem /\ mem \in Recording /\ Len(conv) = Turns
         /\ Current \in todo /\ Current \in Cases /\ mem = cache[Current]
         /\ written \in 0 .. 3 /\ bundle'[Current][FileOrder[written + 1]] = mem
         /\ \A k \in 1 .. 4 : k # written + 1 =>
              bundle'[Current][FileOrder[k]] = bundle[Current][FileOrder[k]]
         /\ \A c \in Cases : c # Current => bundle'[c] = bundle[c]
         /\ cache' = cache
<1>1. pc = "turn" /\ Len(conv) = Turns /\ todo # {} /\ cache' = cache
  BY DEF WriteFile, WorkInv
<1>2. RecordingOf = mem /\ mem \in Recording
  BY <1>1, FinishedIs
<1>3. Current \in todo /\ Current \in Cases /\ mem = cache[Current]
  BY <1>1, WorkingOn DEF WorkInv
<1>4. written \in 0 .. 3
  BY FilesAre DEF TypeInv
<1>5. /\ \A k \in 1 .. 4 : FileOrder[k] \in Files
      /\ \A j, k \in 1 .. 4 : j # k => FileOrder[j] # FileOrder[k]
  <2>1. 1 .. 4 = {1, 2, 3, 4}
    OBVIOUS
  <2>. QED
    BY <2>1, FilesAre
<1>6. written + 1 \in 1 .. 4
  BY <1>4
<1>7. bundle' = [bundle EXCEPT ![Current][FileOrder[written + 1]] = mem]
  BY <1>2 DEF WriteFile
<1>8. bundle \in [Cases -> [Files -> Content]]
  BY DEF TypeInv
<1>9. bundle'[Current] = [bundle[Current] EXCEPT ![FileOrder[written + 1]] = mem]
  BY <1>3, <1>7, <1>8
<1>10. bundle[Current] \in [Files -> Content]
  BY <1>3, <1>8
<1>11. bundle'[Current][FileOrder[written + 1]] = mem
  BY <1>5, <1>6, <1>9, <1>10
<1>12. \A k \in 1 .. 4 : k # written + 1 =>
         bundle'[Current][FileOrder[k]] = bundle[Current][FileOrder[k]]
  BY <1>5, <1>6, <1>9, <1>10
<1>13. \A c \in Cases : c # Current => bundle'[c] = bundle[c]
  BY <1>3, <1>7, <1>8
<1>. QED
  BY <1>1, <1>2, <1>3, <1>4, <1>11, <1>12, <1>13

LEMMA ReturnWorks ==
  ASSUME NEW code, Return(code)
  PROVE  WorkInv'
  BY DEF Return, WorkInv

LEMMA WorkStep ==
  ASSUME TypeInv, WorkInv, [Next]_vars
  PROVE  WorkInv'
<1>1. ASSUME NEW command \in Commands, Start(command)
      PROVE  WorkInv'
  <2>1. pc' \in {"next", "manifest"} /\ written' = 0
    BY <1>1 DEF Start, WorkInv, caseVars
  <2>2. pc' = "manifest" => todo' = {}
    BY <1>1, CommandIs DEF Start
  <2>. QED
    BY <2>1, <2>2 DEF WorkInv
<1>2. CASE Skip
  BY <1>2 DEF Skip, WorkInv, diskVars, caseVars
<1>3. CASE OpenCase
  <2>1. /\ pc = "next" /\ todo # {} /\ todo' = todo /\ pc' = "turn" /\ mem' = Loaded
        /\ cache' = [cache EXCEPT ![Current] = Loaded]
        /\ written' = written /\ bundle' = bundle /\ cmd' = cmd
        /\ ~ (cmd.skip /\ Frozen(Current))
    BY <1>3 DEF OpenCase, LoadCache, ToOpen
  <2>2. Current' = Current /\ Current \in Cases
    BY <2>1, WorkingOn DEF Current
  <2>3. mem' = cache'[Current']
    BY <2>1, <2>2 DEF TypeInv
  <2>4. written = 0 /\ 1 .. written' = {}
    BY <2>1 DEF WorkInv
  <2>5. cmd.skip => bundle[Current]["case"] = Absent
    BY <2>1 DEF Frozen
  <2>. QED
    BY <2>1, <2>2, <2>3, <2>4, <2>5 DEF WorkInv
<1>4. ASSUME NEW code, Return(code)
      PROVE  WorkInv'
  BY <1>4, ReturnWorks
<1>5. ASSUME NEW text \in Texts, RecordTurn(text)
      PROVE  WorkInv'
  <2>1. /\ pc = "turn" /\ Len(conv) < Turns /\ todo # {} /\ todo' = todo /\ pc' = pc
        /\ cache' = [cache EXCEPT ![Current] = mem']
        /\ written' = written /\ bundle' = bundle /\ cmd' = cmd
    BY <1>5 DEF RecordTurn, AtMissingTurn, WorkInv
  <2>2. Current' = Current /\ Current \in Cases
    BY <2>1, WorkingOn DEF Current
  <2>3. mem' = cache'[Current']
    BY <2>1, <2>2 DEF TypeInv
  <2>4. written = 0 /\ 1 .. written' = {}
    <3>1. written \in Nat /\ Len(conv) # Turns
      <4>1. Len(conv) \in Nat
        BY PartialIs DEF TypeInv
      <4>. QED
        BY <2>1, <4>1, FilesAre, FreezeAssumption DEF TypeInv
    <3>2. ~ (written > 0)
      BY <2>1, <3>1 DEF WorkInv
    <3>. QED
      BY <2>1, <3>1, <3>2
  <2>. QED
    BY <2>1, <2>2, <2>3, <2>4 DEF WorkInv
<1>6. ASSUME NEW reason, StopAtProvider(reason)
      PROVE  WorkInv'
  BY <1>6 DEF StopAtProvider, WorkInv
<1>7. CASE WriteFile
  <2>1. CASE LastFile
    BY <1>7, <2>1 DEF WriteFile, WorkInv
  <2>2. CASE ~LastFile
    <3>1. /\ pc = "turn" /\ pc' = pc /\ todo # {} /\ todo' = todo /\ mem' = mem /\ conv' = conv
          /\ Len(conv) = Turns /\ written' = written + 1 /\ cmd' = cmd
      BY <1>7, <2>2 DEF WriteFile, WorkInv
    <3>2. Current' = Current
      BY <3>1 DEF Current
    <3>3. written \in 0 .. 2
      BY <1>7, <2>2, FileWritten, FilesAre DEF LastFile
    <3>4. ASSUME NEW k \in 1 .. written'
          PROVE  bundle'[Current][FileOrder[k]] = mem
      <4>1. k \in 1 .. 4 /\ (k = written + 1 \/ k \in 1 .. written)
        BY <3>1, <3>3
      <4>. QED
        BY <1>7, <3>1, <4>1, FileWritten DEF WorkInv
    <3>5. written' > 0 /\ written' # 0
      BY <3>1, <3>3
    <3>6. mem' = cache'[Current']
      BY <1>7, <3>1, <3>2, FileWritten
    <3>. QED
      BY <3>1, <3>2, <3>4, <3>5, <3>6 DEF WorkInv
  <2>. QED
    BY <2>1, <2>2
<1>8. CASE CasesDone
  BY <1>8 DEF CasesDone, WorkInv, caseVars
<1>9. CASE UNCHANGED vars
  BY <1>9 DEF vars, diskVars, caseVars, WorkInv, Current
<1>10. RefuseModel \/ OpenWithoutKey \/ ResumeWithoutKey \/ ResumeWithOtherModel
         \/ WriteManifest \/ ManifestRaises \/ Kill => \E code : Return(code)
  BY DEF RefuseModel, OpenWithoutKey, ResumeWithoutKey, ResumeWithOtherModel, WriteManifest,
         ManifestRaises, Kill
<1>. QED
  BY <1>1, <1>2, <1>3, <1>4, <1>5, <1>6, <1>7, <1>8, <1>9, <1>10 DEF Next, Proceed, Commands

(* A step leaves every case alone but the one the command works on. *)
LEMMA OthersKept ==
  ASSUME TypeInv, WorkInv, [Next]_vars, NEW c \in Cases, c = Current => c \notin todo
  PROVE  cache'[c] = cache[c] /\ bundle'[c] = bundle[c] /\ (c \in discarded' <=> c \in discarded)
<1>1. ASSUME NEW command \in Commands, Start(command)
      PROVE  cache' = cache /\ bundle' = bundle /\ discarded' = discarded
  BY <1>1 DEF Start, diskVars
<1>2. CASE Skip \/ CasesDone \/ ResumeWithoutKey \/ ResumeWithOtherModel \/ ManifestRaises
  BY <1>2 DEF Skip, CasesDone, ResumeWithoutKey, ResumeWithOtherModel, ManifestRaises, diskVars
<1>3. CASE LoadCache
  <2>1. c # Current
    BY <1>3, WorkingOn DEF LoadCache, ToOpen
  <2>. QED
    BY <1>3, <2>1 DEF LoadCache, TypeInv
<1>4. ASSUME NEW text, RecordTurn(text)
      PROVE  cache'[c] = cache[c] /\ bundle' = bundle /\ discarded' = discarded
  <2>1. c # Current
    BY <1>4, WorkingOn DEF RecordTurn, AtMissingTurn, WorkInv
  <2>. QED
    BY <1>4, <2>1 DEF RecordTurn, TypeInv
<1>5. ASSUME NEW reason, StopAtProvider(reason)
      PROVE  cache' = cache /\ bundle' = bundle /\ discarded' = discarded
  BY <1>5 DEF StopAtProvider, diskVars
<1>6. CASE WriteFile
  <2>1. c # Current
    BY <1>6, FileWritten
  <2>. QED
    BY <1>6, <2>1, FileWritten DEF WriteFile
<1>7. CASE WriteManifest
  BY <1>7 DEF WriteManifest
<1>8. CASE Kill
  <2>1. cache' = cache /\ discarded' = discarded
    BY <1>8 DEF Kill
  <2>2. CASE UNCHANGED bundle
    BY <2>1, <2>2
  <2>3. CASE pc = "turn" /\ bundle' = [bundle EXCEPT ![Current][FileOrder[written + 1]] = Torn]
    <3>1. c # Current
      BY <2>3, WorkingOn DEF WorkInv
    <3>. QED
      BY <2>1, <2>3, <3>1 DEF TypeInv
  <2>. QED
    BY <1>8, <2>2, <2>3 DEF Kill, TearFile
<1>9. CASE UNCHANGED vars
  BY <1>9 DEF vars, diskVars
<1>10. OpenCase \/ RefuseModel \/ OpenWithoutKey => LoadCache
  BY DEF OpenCase, RefuseModel, OpenWithoutKey
<1>. QED
  BY <1>1, <1>2, <1>3, <1>4, <1>5, <1>6, <1>7, <1>8, <1>9, <1>10 DEF Next, Proceed, Commands

LEMMA KeptStep ==
  ASSUME TypeInv, WorkInv, KeptInv, [Next]_vars
  PROVE  KeptInv'
<1>. SUFFICES ASSUME NEW c \in Cases, c \notin discarded', bundle'[c]["case"] \in Recording
              PROVE  bundle'[c]["case"] = cache'[c]
  BY DEF KeptInv
<1>1. CASE c = Current => c \notin todo
  <2>1. cache'[c] = cache[c] /\ bundle'[c] = bundle[c] /\ c \notin discarded
    BY <1>1, OthersKept
  <2>. QED
    BY <2>1 DEF KeptInv
<1>2. CASE c = Current /\ c \in todo
  <2>1. CASE UNCHANGED <<cache, bundle, discarded>>
    BY <2>1 DEF KeptInv
  <2>2. CASE LoadCache
    <3>1. ~cmd.fresh /\ discarded' = discarded /\ bundle' = bundle
      BY <1>2, <2>2 DEF LoadCache
    <3>2. cache' = cache
      BY <2>2, <3>1 DEF LoadCache, Loaded, TypeInv
    <3>. QED
      BY <3>1, <3>2 DEF KeptInv
  <2>3. ASSUME NEW text, RecordTurn(text)
        PROVE  FALSE
    <3>1. /\ pc = "turn" /\ Len(conv) < Turns /\ Len(conv) \in Nat
          /\ bundle' = bundle /\ discarded' = discarded
      BY <2>3, PartialIs DEF RecordTurn, AtMissingTurn, TypeInv
    <3>2. bundle[c]["case"] = mem
      BY <1>2, <3>1 DEF KeptInv, WorkInv
    <3>3. Len(conv) = Turns
      BY <3>1, <3>2, RecordingIs DEF TypeInv
    <3>. QED
      BY <3>1, <3>3, FreezeAssumption
  <2>4. CASE WriteFile
    <3>1. bundle'[c][FileOrder[1]] = mem
      <4>1. CASE written = 0
        BY <1>2, <2>4, <4>1, FileWritten
      <4>2. CASE written # 0
        <5>1. 1 \in 1 .. written /\ 1 # written + 1 /\ 1 \in 1 .. 4
          BY <2>4, <4>2, FileWritten
        <5>2. bundle[Current][FileOrder[1]] = mem
          BY <2>4, <5>1 DEF WriteFile, WorkInv
        <5>. QED
          BY <1>2, <2>4, <5>1, <5>2, FileWritten
      <4>. QED
        BY <4>1, <4>2
    <3>. QED
      BY <1>2, <2>4, <3>1, FileWritten, FilesAre
  <2>5. CASE Kill /\ bundle' = [bundle EXCEPT ![Current][FileOrder[written + 1]] = Torn]
    <3>1. cache' = cache /\ discarded' = discarded
      BY <2>5 DEF Kill
    <3>2. bundle'[c] = [bundle[c] EXCEPT ![FileOrder[written + 1]] = Torn]
          /\ bundle[c] \in [Files -> Content]
      BY <1>2, <2>5 DEF TypeInv
    <3>3. bundle'[c]["case"] \in {Torn, bundle[c]["case"]}
      BY <3>2, FilesAre
    <3>. QED
      BY <3>1, <3>3, FilesAssumption DEF KeptInv
  <2>6. CASE Kill /\ bundle' = bundle
    BY <2>6 DEF Kill, KeptInv
  <2>7. ASSUME NEW command \in Commands, Start(command)
        PROVE  UNCHANGED <<cache, bundle, discarded>>
    BY <2>7 DEF Start, diskVars
  <2>8. Skip \/ CasesDone \/ ResumeWithoutKey \/ ResumeWithOtherModel \/ ManifestRaises
          \/ WriteManifest \/ UNCHANGED vars => UNCHANGED <<cache, bundle, discarded>>
    BY DEF Skip, CasesDone, ResumeWithoutKey, ResumeWithOtherModel, ManifestRaises, WriteManifest,
           vars, diskVars
  <2>9. ASSUME NEW reason, StopAtProvider(reason)
        PROVE  UNCHANGED <<cache, bundle, discarded>>
    BY <2>9 DEF StopAtProvider, diskVars
  <2>10. Kill => bundle' = bundle \/ bundle' = [bundle EXCEPT ![Current][FileOrder[written + 1]] = Torn]
    BY DEF Kill, TearFile
  <2>11. OpenCase \/ RefuseModel \/ OpenWithoutKey => LoadCache
    BY DEF OpenCase, RefuseModel, OpenWithoutKey
  <2>. QED
    BY <2>1, <2>2, <2>3, <2>4, <2>5, <2>6, <2>7, <2>8, <2>9, <2>10, <2>11 DEF Next, Proceed, Commands
<1>. QED
  BY <1>1, <1>2

LEMMA SoundKept ==
  ASSUME TypeInv, WorkInv, [Next]_vars, NEW c \in Cases, c = Current => c \notin todo, Sound(c)
  PROVE  Sound(c)'
<1>1. cache'[c] = cache[c] /\ bundle'[c] = bundle[c]
  BY OthersKept
<1>. QED
  BY <1>1 DEF Sound

(* The last file makes the bundle whole. *)
LEMMA LastFileMakesSound ==
  ASSUME TypeInv, WorkInv, WriteFile, LastFile, ~failed', NEW c, c = Current
  PROVE  Sound(c)'
<1>1. written + 1 = 4 /\ mem \in Recording
  BY FileWritten, FilesAre DEF LastFile
<1>2. ASSUME NEW k \in 1 .. 4
      PROVE  bundle'[Current][FileOrder[k]] = mem
  <2>1. k = written + 1 \/ (k \in 1 .. written /\ k # written + 1)
    BY <1>1, FileWritten
  <2>2. k \in 1 .. written => bundle[Current][FileOrder[k]] = mem
    BY DEF WriteFile, WorkInv
  <2>. QED
    BY <2>1, <2>2, FileWritten
<1>3. ASSUME NEW f \in Files
      PROVE  bundle'[Current][f] = mem
  <2>1. \E k \in 1 .. 4 : f = FileOrder[k]
    BY FilesAre
  <2>. QED
    BY <1>2, <2>1
<1>4. conv \in Passing /\ conv = mem.responses
  BY DEF WriteFile, smoke_checks, TypeInv
<1>5. cache'[Current] = mem
  BY FileWritten
<1>. QED
  BY <1>1, <1>3, <1>4, <1>5 DEF Sound

LEMMA DoneStep ==
  ASSUME TypeInv, WorkInv, DoneInv, [Next]_vars
  PROVE  DoneInv'
<1>. SUFFICES ASSUME pc' # "idle", exit' = "none", ~failed', cmd'.name = "freeze", ~cmd'.skip,
                     NEW c \in cmd'.cases, c \notin todo'
              PROVE  Sound(c)'
  BY DEF DoneInv
<1>1. CASE \E command \in Commands : Start(command)
  BY <1>1 DEF Start
<1>2. ASSUME pc # "idle", exit = "none", ~failed, cmd' = cmd, todo \subseteq todo'
      PROVE  Sound(c)'
  <2>1. c \in cmd.cases /\ c \notin todo /\ c \in Cases
    BY <1>2, CommandIs DEF TypeInv
  <2>2. Sound(c)
    BY <1>2, <2>1 DEF DoneInv
  <2>. QED
    BY <2>1, <2>2, SoundKept
<1>3. CASE Skip
  BY <1>3 DEF Skip
<1>4. CASE OpenCase
  BY <1>2, <1>4 DEF OpenCase, LoadCache, ToOpen
<1>5. ASSUME NEW text, RecordTurn(text)
      PROVE  Sound(c)'
  BY <1>2, <1>5 DEF RecordTurn, AtMissingTurn
<1>6. ASSUME NEW reason, StopAtProvider(reason)
      PROVE  FALSE
  BY <1>6 DEF StopAtProvider
<1>7. CASE WriteFile /\ ~LastFile
  BY <1>2, <1>7 DEF WriteFile
<1>8. CASE WriteFile /\ LastFile
  <2>1. /\ pc # "idle" /\ exit = "none" /\ ~failed /\ cmd' = cmd
        /\ todo' = todo \ {Current}
    BY <1>8 DEF WriteFile
  <2>2. CASE c = Current
    BY <1>8, <2>2, LastFileMakesSound
  <2>3. CASE c # Current
    <3>1. c \in cmd.cases /\ c \notin todo /\ c \in Cases
      BY <2>1, <2>3, CommandIs DEF TypeInv
    <3>2. Sound(c)
      BY <2>1, <3>1 DEF DoneInv
    <3>. QED
      BY <3>1, <3>2, SoundKept
  <2>. QED
    BY <2>2, <2>3
<1>9. CASE CasesDone
  BY <1>2, <1>9 DEF CasesDone
<1>10. CASE UNCHANGED vars
  BY <1>2, <1>10 DEF vars
<1>11. RefuseModel \/ OpenWithoutKey \/ ResumeWithoutKey \/ ResumeWithOtherModel
         \/ WriteManifest \/ ManifestRaises \/ Kill => pc' = "idle"
  BY DEF RefuseModel, OpenWithoutKey, ResumeWithoutKey, ResumeWithOtherModel, WriteManifest,
         ManifestRaises, Kill, Return
<1>. QED
  BY <1>1, <1>3, <1>4, <1>5, <1>6, <1>7, <1>8, <1>9, <1>10, <1>11 DEF Next, Proceed, Commands

(* Exit statuses other than those of a command that reached its end. *)
Unfinished == {"model mismatch", "no key", "crash", "killed"}

(* A command ends by writing the manifest, or says that it did not. *)
LEMMA EndingStep ==
  ASSUME [Next]_vars, pc' = "idle"
  PROVE  WriteManifest \/ exit' \in Unfinished \/ UNCHANGED vars
<1>1. \A command : ~Start(command)
  BY DEF Start
<1>2. \A text : ~RecordTurn(text)
  BY DEF RecordTurn, AtMissingTurn
<1>3. \A reason : ~StopAtProvider(reason)
  BY DEF StopAtProvider
<1>4. ~Skip /\ ~OpenCase /\ ~WriteFile /\ ~CasesDone
  BY DEF Skip, OpenCase, WriteFile, CasesDone
<1>5. RefuseModel \/ OpenWithoutKey \/ ResumeWithoutKey \/ ResumeWithOtherModel
        \/ ManifestRaises \/ Kill => exit' \in Unfinished
  BY DEF RefuseModel, OpenWithoutKey, ResumeWithoutKey, ResumeWithOtherModel, ManifestRaises, Kill,
         Return, Unfinished
<1>. QED
  BY <1>1, <1>2, <1>3, <1>4, <1>5 DEF Next, Proceed

LEMMA EndedStep ==
  ASSUME TypeInv, WorkInv, DoneInv, EndedInv, RunningInv, [Next]_vars
  PROVE  EndedInv'
<1>. SUFFICES ASSUME pc' = "idle", exit' = "ok", cmd'.name = "freeze", ~cmd'.skip,
                     NEW c \in cmd'.cases
              PROVE  Sound(c)'
  BY DEF EndedInv
<1>1. CASE WriteManifest
  <2>1. pc = "manifest" /\ cmd' = cmd /\ exit' = ExitCode(manifest')
    BY <1>1 DEF WriteManifest, Return
  <2>2. exit = "none" /\ ~failed
    BY <2>1 DEF ExitCode, RunningInv
  <2>3. todo = {} /\ c \in Cases
    BY <2>1, CommandIs DEF WorkInv, TypeInv
  <2>4. Sound(c)
    BY <2>1, <2>2, <2>3 DEF DoneInv
  <2>. QED
    BY <2>3, <2>4, SoundKept
<1>2. CASE UNCHANGED vars
  <2>1. pc = "idle" /\ exit = "ok" /\ cmd' = cmd /\ c \in Cases /\ todo = {}
    BY <1>2, CommandIs DEF vars, TypeInv, WorkInv
  <2>2. Sound(c)
    BY <2>1 DEF EndedInv
  <2>. QED
    BY <2>1, <2>2, SoundKept
<1>. QED
  BY <1>1, <1>2, EndingStep DEF Unfinished

LEMMA RunningStep ==
  ASSUME RunningInv, [Next]_vars
  PROVE  RunningInv'
<1>1. ASSUME NEW command, Start(command)
      PROVE  RunningInv'
  BY <1>1 DEF Start, RunningInv
<1>2. ASSUME NEW text, RecordTurn(text)
      PROVE  RunningInv'
  BY <1>2 DEF RecordTurn, AtMissingTurn, RunningInv
<1>3. ASSUME NEW reason \in {"provider failure", "budget"}, StopAtProvider(reason)
      PROVE  RunningInv'
  BY <1>3 DEF StopAtProvider, RunningInv
<1>4. CASE Skip \/ OpenCase \/ WriteFile \/ CasesDone
  BY <1>4 DEF Skip, OpenCase, LoadCache, ToOpen, WriteFile, CasesDone, RunningInv
<1>5. RefuseModel \/ OpenWithoutKey \/ ResumeWithoutKey \/ ResumeWithOtherModel
        \/ WriteManifest \/ ManifestRaises \/ Kill => pc' = "idle"
  BY DEF RefuseModel, OpenWithoutKey, ResumeWithoutKey, ResumeWithOtherModel, WriteManifest,
         ManifestRaises, Kill, Return
<1>6. CASE UNCHANGED vars
  BY <1>6 DEF vars, RunningInv
<1>. QED
  BY <1>1, <1>2, <1>3, <1>4, <1>5, <1>6 DEF Next, Proceed, RunningInv

(* The manifest is a function of the files, and sees the finished ones. *)
LEMMA ManifestIsOfTheDisk ==
  ASSUME cache' = cache, bundle' = bundle
  PROVE  build_manifest' = build_manifest
  BY DEF build_manifest, Row, Problems, ModelsOf, Loadable, Exists

LEMMA ManifestIs ==
  /\ DOMAIN build_manifest.cases = {c \in Cases : Loadable(c)}
  /\ build_manifest.missing = Cases \ {c \in Cases : Loadable(c)}
  /\ \A c \in Cases : Loadable(c) =>
       /\ build_manifest.cases[c].case = bundle[c]["case"]
       /\ build_manifest.cases[c].labels = bundle[c]["labels"]
  BY DEF build_manifest, Row

LEMMA ManifestStep ==
  ASSUME TypeInv, WorkInv, ManifestInv, ManifestIsCurrent, [Next]_vars
  PROVE  ManifestInv' /\ ManifestIsCurrent'
<1>1. CASE WriteManifest
  <2>1. manifest' = build_manifest /\ cache' = cache /\ bundle' = bundle
    BY <1>1 DEF WriteManifest
  <2>2. build_manifest' = build_manifest
    BY <2>1, ManifestIsOfTheDisk
  <2>3. \A c \in Cases : Loadable(c) =>
          bundle[c]["case"] \in Recording /\ bundle[c]["labels"] \in Recording
    <3>1. \A c \in Cases : bundle[c]["case"] \in Content /\ bundle[c]["labels"] \in Content
      BY FilesAre DEF TypeInv
    <3>. QED
      BY <3>1 DEF Content, Loadable, Exists
  <2>4. ManifestInv'
    BY <2>1, <2>3, ManifestIs DEF ManifestInv
  <2>. QED
    BY <2>1, <2>2, <2>4 DEF ManifestIsCurrent
<1>2. CASE UNCHANGED vars
  <2>1. build_manifest' = build_manifest
    BY <1>2, ManifestIsOfTheDisk DEF vars, diskVars
  <2>. QED
    BY <1>2, <2>1 DEF vars, diskVars, ManifestInv, ManifestIsCurrent
<1>3. CASE ~WriteManifest /\ [Next]_vars
  <2>1. manifest' \in {manifest, Torn}
    BY <1>3 DEF Next, Proceed, Start, Skip, OpenCase, LoadCache, RefuseModel, OpenWithoutKey,
                ResumeWithoutKey, ResumeWithOtherModel, RecordTurn, StopAtProvider, WriteFile,
                CasesDone, ManifestRaises, Kill, TearFile, vars, diskVars
  <2>2. ManifestInv'
    BY <2>1 DEF ManifestInv
  <2>. QED
    BY <1>2, <1>3, <2>2, EndingStep DEF Unfinished, ManifestIsCurrent
<1>. QED
  BY <1>1, <1>3

LEMMA InitHolds == Init => IInv
<1>. SUFFICES ASSUME Init PROVE IInv
  OBVIOUS
<1>1. cache \in [Cases -> PartialRecording]
  BY NoCacheIs DEF Init
<1>2. bundle \in [Cases -> [Files -> Content]] /\ \A c \in Cases : bundle[c]["case"] = Absent
  BY FilesAre DEF Init, Content
<1>3. TypeInv
  BY <1>1, <1>2, NoCacheIs, FilesAre DEF Init, TypeInv, ManifestCommand, Commands
<1>4. WorkInv /\ DoneInv /\ EndedInv /\ RunningInv
  BY DEF Init, WorkInv, DoneInv, EndedInv, RunningInv
<1>5. KeptInv
  BY <1>2, FilesAssumption DEF KeptInv
<1>6. ManifestInv /\ ManifestIsCurrent
  BY DEF Init, ManifestInv, ManifestIsCurrent
<1>. QED
  BY <1>3, <1>4, <1>5, <1>6 DEF IInv

LEMMA InvStep == IInv /\ [Next]_vars => IInv'
<1>. SUFFICES ASSUME IInv, [Next]_vars PROVE IInv'
  OBVIOUS
<1>. USE DEF IInv
<1>1. TypeInv' /\ WorkInv'
  BY TypeStep, WorkStep
<1>2. KeptInv' /\ DoneInv' /\ EndedInv'
  BY KeptStep, DoneStep, EndedStep
<1>3. RunningInv' /\ ManifestInv' /\ ManifestIsCurrent'
  BY RunningStep, ManifestStep
<1>. QED
  BY <1>1, <1>2, <1>3

LEMMA Invariant == Spec => []IInv
  BY InitHolds, InvStep, PTL DEF Spec

(* A finished recording in the cache and in case.json is what replays. *)
LEMMA Replays ==
  ASSUME NEW c, cache[c] \in Recording, bundle[c]["case"] = cache[c]
  PROVE  replay_case(c) = "matches"
<1>1. cache[c] # NoCache /\ ~ (Len(cache[c].responses) < Turns)
  BY RecordingIs, FreezeAssumption
<1>. QED
  BY <1>1 DEF replay_case

(* Whatever is frozen, failed, killed or given again, with or without      *)
(* --fresh: caches and bundles hold recordings or their beginnings, and a  *)
(* case whose cache was not discarded replays (freeze.py replay_case).     *)
THEOREM FreezesHold == Spec => []FrozenCasesHold
<1>1. IInv => FrozenCasesHold
  <2>. SUFFICES ASSUME IInv PROVE FrozenCasesHold
    OBVIOUS
  <2>1. TypeOK
    BY DEF IInv, TypeInv, ManifestInv, TypeOK
  <2>2. RecordedCaseReplays
    BY Replays DEF IInv, KeptInv, RecordedCaseReplays
  <2>. QED
    BY <2>1, <2>2 DEF FrozenCasesHold
<1>. QED
  BY <1>1, Invariant, PTL

(* The exit status and the manifest of a command are true of what is on    *)
(* disk, for any cases, models and turns (cli.py _freeze).                 *)
THEOREM CommandsTellTheDisk == Spec => []CommandTellsTheDisk
<1>1. ASSUME IInv, pc = "idle", exit = "ok", cmd.name = "freeze", ~cmd.skip, NEW c \in cmd.cases
      PROVE  LET recording == bundle[c]["case"] IN
               /\ \A f \in Files : bundle[c][f] = recording
               /\ replay_case(c) = "matches"
               /\ recording.responses \in Passing
               /\ c \in DOMAIN manifest.cases /\ manifest.cases[c].case = recording
  <2>1. Sound(c) /\ c \in Cases
    BY <1>1, CommandIs DEF IInv, EndedInv, TypeInv
  <2>2. bundle[c]["case"] = cache[c] /\ bundle[c]["labels"] = cache[c]
    BY <2>1, FilesAre DEF Sound
  <2>3. Loadable(c)
    BY <2>1, <2>2, RecordingIs DEF Sound, Loadable, Exists
  <2>4. manifest = build_manifest
    BY <1>1 DEF IInv, ManifestIsCurrent
  <2>. QED
    BY <2>1, <2>2, <2>3, <2>4, ManifestIs, Replays DEF Sound
<1>2. IInv => CommandTellsTheDisk
  BY <1>1 DEF CommandTellsTheDisk, OkMeansFrozen, IInv
<1>. QED
  BY <1>2, Invariant, PTL

(* "A second run skips frozen cases and spends nothing" (test_freeze.py):  *)
(* no step under --skip-frozen touches a case that was frozen before.      *)
THEOREM SkippedCasesStay == Spec => SkippedCasesAreUntouched
<1>1. ASSUME IInv, [Next]_vars, NEW c \in Cases, pc # "idle", cmd.skip,
             bundle[c]["case"] # Absent, ~ (written > 0 /\ c = Current)
      PROVE  cache'[c] = cache[c] /\ bundle'[c] = bundle[c]
  <2>. USE <1>1
  <2>1. CASE c = Current => c \notin todo
    BY <2>1, OthersKept DEF IInv
  <2>2. CASE c = Current /\ c \in todo
    <3>1. pc # "turn"
      <4>1. written \in Nat
        BY FilesAre DEF IInv, TypeInv
      <4>. QED
        BY <2>2, <4>1 DEF IInv, WorkInv
    <3>2. Frozen(Current)
      BY <2>2 DEF Frozen
    <3>3. ~LoadCache
      BY <2>2, <3>2 DEF LoadCache, ToOpen
    <3>4. \A text : ~RecordTurn(text)
      BY <3>1 DEF RecordTurn, AtMissingTurn
    <3>5. \A reason : ~StopAtProvider(reason)
      BY <3>1 DEF StopAtProvider, AtMissingTurn
    <3>6. \A command : ~Start(command)
      BY DEF Start
    <3>7. ~WriteFile /\ ~OpenCase /\ ~RefuseModel /\ ~OpenWithoutKey
      BY <3>1, <3>3 DEF WriteFile, OpenCase, RefuseModel, OpenWithoutKey
    <3>8. Skip \/ CasesDone \/ ResumeWithoutKey \/ ResumeWithOtherModel \/ ManifestRaises
            \/ WriteManifest \/ Kill \/ UNCHANGED vars => cache' = cache /\ bundle' = bundle
      BY <3>1 DEF Skip, CasesDone, ResumeWithoutKey, ResumeWithOtherModel, ManifestRaises,
                  WriteManifest, Kill, TearFile, vars, diskVars
    <3>. QED
      BY <3>4, <3>5, <3>6, <3>7, <3>8 DEF Next, Proceed
  <2>. QED
    BY <2>1, <2>2
<1>2. IInv /\ [Next]_vars =>
        [\A c \in Cases :
           pc # "idle" /\ cmd.skip /\ bundle[c]["case"] # Absent /\ ~(written > 0 /\ c = Current)
             => cache'[c] = cache[c] /\ bundle'[c] = bundle[c]]_vars
  BY <1>1
<1>. QED
  BY <1>2, Invariant, PTL DEF Spec, SkippedCasesAreUntouched

-----------------------------------------------------------------------------
(* The budget of steps of a running command. *)
LEMMA CaseStepsType == CaseSteps = Turns + 5 /\ Turns \in Nat /\ CaseSteps \in Nat
  BY FilesAre, FreezeAssumption DEF CaseSteps

LEMMA Multiples ==
  ASSUME NEW n \in Nat, NEW m \in Nat, NEW k \in Nat
  PROVE  /\ n * k \in Nat
         /\ n <= m => n * k <= m * k
         /\ (n - 1) * k = n * k - k
<1>1. \A i, j \in Nat : i * j \in Nat
  OBVIOUS
<1>2. ASSUME n <= m PROVE n * k <= m * k
  <2>1. m - n \in Nat /\ m = n + (m - n)
    BY <1>2
  <2>2. m * k = n * k + (m - n) * k
    BY <2>1
  <2>3. (m - n) * k \in Nat /\ n * k \in Nat /\ m * k \in Nat
    BY <1>1, <2>1
  <2>. QED
    BY <2>2, <2>3
<1>3. (n - 1) * k = n * k - k
  OBVIOUS
<1>. QED
  BY <1>1, <1>2, <1>3

(* The cases still to do are counted, and one that is done counts as one.  *)
LEMMA CasesLeft ==
  ASSUME TypeInv
  PROVE  /\ Cardinality(todo) \in 0 .. LastCase
         /\ todo # {} => /\ Cardinality(todo) > 0
                         /\ Cardinality(todo \ {Current}) = Cardinality(todo) - 1
<1>1. todo \subseteq Cases
  BY CommandIs DEF TypeInv
<1>2. IsFiniteSet(Cases) /\ Cardinality(Cases) = LastCase
  <2>1. 1 <= LastCase /\ 1 \in Int /\ LastCase \in Int
    BY FreezeAssumption
  <2>2. LastCase - 1 + 1 = LastCase
    BY <2>1
  <2>. QED
    BY <2>1, <2>2, FS_Interval DEF Cases
<1>3. IsFiniteSet(todo) /\ Cardinality(todo) <= LastCase
  BY <1>1, <1>2, FS_Subset
<1>4. Cardinality(todo) \in Nat
  BY <1>3, FS_CardinalityType
<1>5. ASSUME todo # {}
      PROVE  Cardinality(todo) > 0 /\ Cardinality(todo \ {Current}) = Cardinality(todo) - 1
  <2>1. Current \in todo
    BY <1>1, <1>5, CurrentIsSelected
  <2>2. Cardinality(todo \ {Current}) = Cardinality(todo) - 1
    BY <1>3, <2>1, FS_RemoveElement
  <2>3. Cardinality(todo) # 0
    BY <1>3, <1>5, FS_EmptySet
  <2>. QED
    BY <1>4, <2>2, <2>3
<1>. QED
  BY <1>3, <1>4, <1>5, FreezeAssumption

(* What the current case has used: less than its share.                    *)
LEMMA CaseProgress ==
  ASSUME TypeInv, WorkInv
  PROVE  /\ Len(conv) \in 0 .. Turns /\ written \in 0 .. 3
         /\ pc = "turn" => Cardinality(todo) > 0
<1>1. Len(conv) \in 0 .. Turns
  BY PartialIs DEF TypeInv
<1>2. written \in 0 .. 3
  BY FilesAre DEF TypeInv
<1>. QED
  BY <1>1, <1>2, CasesLeft DEF WorkInv

LEMMA BudgetInRange ==
  ASSUME TypeInv, WorkInv
  PROVE  StepsLeft \in 0 .. LastCase * CaseSteps + 2
<1>. DEFINE n == Cardinality(todo)
            a == n * CaseSteps
            b == LastCase * CaseSteps
            c == Len(conv)
<1>1. n \in 0 .. LastCase /\ LastCase \in Nat /\ CaseSteps = Turns + 5 /\ Turns \in Nat
      /\ CaseSteps \in Nat
  BY CasesLeft, CaseStepsType, FreezeAssumption
<1>2. c \in 0 .. Turns /\ written \in 0 .. 3 /\ (pc = "turn" => n > 0)
  BY CaseProgress
<1>3. \/ StepsLeft \in {0, 1, a + 2}
      \/ pc = "turn" /\ StepsLeft = a + 1 - c - written
  BY DEF StepsLeft, TypeInv
<1>. HIDE DEF n, c
<1>4. a \in Nat /\ b \in Nat /\ a <= b
  BY <1>1, Multiples
<1>5. n > 0 => 1 * CaseSteps <= a
  BY <1>1, Multiples
<1>. HIDE DEF a, b
<1>6. n > 0 => Turns + 5 <= a
  BY <1>1, <1>5
<1>7. StepsLeft \in 0 .. b + 2
  BY <1>1, <1>2, <1>3, <1>4, <1>6
<1>. QED
  BY <1>7 DEF b

(* A command that is running has a step left at least, and more than one   *)
(* as long as it is not at its manifest.                                   *)
LEMMA SomethingLeft ==
  ASSUME TypeInv, WorkInv, pc # "idle"
  PROVE  /\ StepsLeft \in Nat /\ StepsLeft > 0
         /\ pc # "manifest" => StepsLeft > 1
<1>. DEFINE n == Cardinality(todo)
            a == n * CaseSteps
            c == Len(conv)
<1>1. n \in Nat /\ CaseSteps = Turns + 5 /\ Turns \in Nat /\ CaseSteps \in Nat
  BY CasesLeft, CaseStepsType, FreezeAssumption
<1>2. c \in 0 .. Turns /\ written \in 0 .. 3 /\ (pc = "turn" => n > 0)
  BY CaseProgress
<1>3. \/ pc = "manifest" /\ StepsLeft = 1
      \/ pc = "next" /\ StepsLeft = a + 2
      \/ pc = "turn" /\ StepsLeft = a + 1 - c - written
  BY DEF StepsLeft, TypeInv
<1>. HIDE DEF n, c
<1>4. a \in Nat
  BY <1>1, Multiples
<1>5. n > 0 => 1 * CaseSteps <= a
  BY <1>1, Multiples
<1>. HIDE DEF a
<1>6. n > 0 => Turns + 5 <= a
  BY <1>1, <1>5
<1>. QED
  BY <1>1, <1>2, <1>3, <1>4, <1>6

(* What remains after a case: n - 1 of them. *)
LEMMA CaseSpends ==
  ASSUME TypeInv, WorkInv, pc \in {"next", "turn"}, todo # {},
         pc' = "next", todo' = todo \ {Current},
         pc = "turn" => written <= 3 /\ Len(conv) <= Turns
  PROVE  StepsLeft' < StepsLeft
<1>. DEFINE n == Cardinality(todo)
            m == Cardinality(todo')
            a == n * CaseSteps
            b == m * CaseSteps
            c == Len(conv)
<1>1. n \in Nat /\ n > 0 /\ m = n - 1 /\ CaseSteps = Turns + 5 /\ Turns \in Nat
      /\ CaseSteps \in Nat
  BY CasesLeft, CaseStepsType, FreezeAssumption
<1>2. c \in 0 .. Turns /\ written \in 0 .. 3
  BY CaseProgress
<1>3. StepsLeft' = b + 2
  BY DEF StepsLeft
<1>4. StepsLeft = a + 2 \/ StepsLeft = a + 1 - c - written
  BY DEF StepsLeft
<1>. HIDE DEF n, m, c
<1>5. a \in Nat /\ b = a - CaseSteps
  BY <1>1, Multiples
<1>. HIDE DEF a, b
<1>. QED
  BY <1>1, <1>2, <1>3, <1>4, <1>5

LEMMA Remainders ==
  ASSUME NEW a \in Nat, NEW c \in Nat, NEW d \in Nat, NEW v \in Nat, NEW w \in Nat
  PROVE  /\ a + 1 - d - w < a + 2
         /\ d + w > c + v => a + 1 - d - w < a + 1 - c - v
  OBVIOUS

(* Within a case: opening it, one more turn or one more file. *)
LEMMA WorkSpends ==
  ASSUME TypeInv, WorkInv, pc \in {"next", "turn"}, pc' = "turn", todo' = todo,
         Len(conv') \in Nat, written' \in Nat,
         pc = "turn" => Len(conv') + written' > Len(conv) + written
  PROVE  StepsLeft' < StepsLeft
<1>. DEFINE n == Cardinality(todo)
            a == n * CaseSteps
            c == Len(conv)
            d == Len(conv')
<1>1. n \in Nat /\ CaseSteps \in Nat
  BY CasesLeft, CaseStepsType, FreezeAssumption
<1>2. c \in Nat /\ written \in Nat
  BY CaseProgress, FreezeAssumption
<1>3. StepsLeft' = a + 1 - d - written'
  BY DEF StepsLeft
<1>4. \/ pc = "next" /\ StepsLeft = a + 2
      \/ pc = "turn" /\ StepsLeft = a + 1 - c - written /\ d + written' > c + written
  BY DEF StepsLeft
<1>5. d \in Nat
  OBVIOUS
<1>. HIDE DEF n, c, d
<1>6. a \in Nat
  BY <1>1, Multiples
<1>. HIDE DEF a
<1>7. /\ a + 1 - d - written' < a + 2
      /\ d + written' > c + written => a + 1 - d - written' < a + 1 - c - written
  BY <1>2, <1>5, <1>6, Remainders
<1>. QED
  BY <1>3, <1>4, <1>7

LEMMA ReturnSpends ==
  ASSUME TypeInv, WorkInv, pc # "idle", NEW code, Return(code)
  PROVE  StepsLeft' < StepsLeft
<1>1. StepsLeft' = 0
  BY DEF StepsLeft, Return
<1>. QED
  BY <1>1, SomethingLeft

LEMMA ToManifestSpends ==
  ASSUME TypeInv, WorkInv, pc \in {"next", "turn"}, pc' = "manifest"
  PROVE  StepsLeft' < StepsLeft
<1>1. StepsLeft' = 1
  BY DEF StepsLeft
<1>. QED
  BY <1>1, SomethingLeft

LEMMA RunningStepSpends ==
  ASSUME IInv, pc # "idle", Next
  PROVE  StepsLeft' < StepsLeft
<1>. TypeInv /\ WorkInv
  BY DEF IInv
<1>1. CASE Skip
  BY <1>1, CaseSpends, CaseProgress DEF Skip
<1>2. CASE OpenCase
  <2>1. pc = "next" /\ pc' = "turn" /\ todo' = todo /\ written' = written
        /\ conv' = Loaded.responses /\ todo # {}
    BY <1>2 DEF OpenCase, LoadCache, ToOpen
  <2>2. Len(Loaded.responses) \in Nat /\ written \in Nat
    BY <2>1, LoadedIs, PartialIs, CaseProgress, FreezeAssumption
  <2>. QED
    BY <2>1, <2>2, WorkSpends
<1>3. CASE RefuseModel \/ OpenWithoutKey \/ ResumeWithoutKey \/ ResumeWithOtherModel
             \/ WriteManifest \/ ManifestRaises \/ Kill
  <2>1. \E code : Return(code)
    BY <1>3 DEF RefuseModel, OpenWithoutKey, ResumeWithoutKey, ResumeWithOtherModel,
                WriteManifest, ManifestRaises, Kill
  <2>. QED
    BY <2>1, ReturnSpends
<1>4. ASSUME NEW text \in Texts, RecordTurn(text)
      PROVE  StepsLeft' < StepsLeft
  <2>1. pc = "turn" /\ pc' = "turn" /\ todo' = todo /\ written' = written
        /\ conv' = Append(conv, text)
    BY <1>4 DEF RecordTurn, AtMissingTurn
  <2>2. conv \in Seq(Texts) /\ Len(conv) \in Nat /\ written \in Nat
    BY PartialIs, CaseProgress, FreezeAssumption DEF TypeInv
  <2>3. Len(conv') = Len(conv) + 1
    BY <2>1, <2>2, AppendProperties
  <2>4. Len(conv') \in Nat /\ Len(conv') + written' > Len(conv) + written
    BY <2>1, <2>2, <2>3
  <2>. QED
    BY <2>1, <2>2, <2>4, WorkSpends
<1>5. ASSUME NEW reason, StopAtProvider(reason)
      PROVE  StepsLeft' < StepsLeft
  BY <1>5, ToManifestSpends DEF StopAtProvider, AtMissingTurn
<1>6. CASE WriteFile
  <2>1. pc = "turn" /\ todo # {} /\ Len(conv) \in Nat /\ written \in 0 .. 3
    BY <1>6, CaseProgress, FreezeAssumption DEF WriteFile, WorkInv
  <2>2. CASE LastFile
    BY <1>6, <2>1, <2>2, CaseSpends, CaseProgress DEF WriteFile
  <2>3. CASE ~LastFile
    <3>1. pc' = "turn" /\ todo' = todo /\ conv' = conv /\ written' = written + 1
      BY <1>6, <2>1, <2>3 DEF WriteFile
    <3>2. written' \in Nat /\ Len(conv') + written' > Len(conv) + written
      BY <2>1, <3>1
    <3>. QED
      BY <2>1, <3>1, <3>2, WorkSpends
  <2>. QED
    BY <2>2, <2>3
<1>7. CASE CasesDone
  BY <1>7, ToManifestSpends DEF CasesDone
<1>8. \A command : ~Start(command)
  BY DEF Start
<1>. QED
  BY <1>1, <1>2, <1>3, <1>4, <1>5, <1>6, <1>7, <1>8 DEF Next, Proceed

(* For any cases and turns, whatever the provider does, wherever a command *)
(* is killed and whatever an earlier one left on disk: a command has a     *)
(* bounded number of steps.                                                *)
THEOREM CommandsRunOut == Spec => CommandsAreBounded
<1>1. IInv => StepsLeft \in 0 .. LastCase * CaseSteps + 2
  BY BudgetInRange DEF IInv
<1>2. IInv /\ [Next]_vars => [pc = "idle" \/ StepsLeft' < StepsLeft]_vars
  BY RunningStepSpends
<1>. QED
  BY <1>1, <1>2, Invariant, PTL DEF Spec, CommandsAreBounded
=============================================================================
