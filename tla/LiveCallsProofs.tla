-------------------------- MODULE LiveCallsProofs --------------------------
(* Theorems of LiveCalls: what holds on disk and in a running call for any *)
(* number of sessions, models, turns and retries, and what only holds for  *)
(* a session that has the cost ledger to itself.                           *)
EXTENDS LiveCalls, SequenceTheorems, TLAPS

(* A replay cache: recorded responses by conversation, all of its model. *)
IsCache(c) ==
  /\ c.model \in Models \cup {NoModel}
  /\ DOMAIN c.entries \subseteq Key
  /\ \A k \in DOMAIN c.entries : c.entries[k] \in Response /\ c.entries[k].model = c.model

(* The cache c replays the first n responses of a conversation. *)
Replays(c, conversation, n) ==
  \A i \in 1 .. n :
    LET key == SubSeq(conversation, 1, i - 1)
    IN  key \in DOMAIN c.entries /\ c.entries[key] = conversation[i]

Domains ==
  /\ DOMAIN cacheFile = Sessions /\ DOMAIN mem = Sessions
  /\ DOMAIN pc = Sessions /\ DOMAIN model = Sessions /\ DOMAIN conv = Sessions
  /\ DOMAIN attempts = Sessions /\ DOMAIN billed = Sessions
  /\ DOMAIN answer = Sessions /\ DOMAIN newTotal = Sessions
  /\ DOMAIN recording = Sessions /\ DOMAIN discarded = Sessions /\ DOMAIN starts = Sessions

CallInv(s) ==
  /\ pc[s] \in Idle \cup Calling \cup {"prompt"}
  /\ pc[s] \notin Idle => model[s] \in Models
  /\ conv[s] \in Key
  /\ pc[s] \in Calling => Len(conv[s]) < Turns
  /\ attempts[s] \in 0 .. MaxRetries + 1 /\ billed[s] \in 0 .. AttemptCost * attempts[s]
  /\ pc[s] = "sending" => attempts[s] <= MaxRetries
  /\ answer[s].cost \in Nat /\ newTotal[s] \in Nat
  /\ pc[s] \in Calling \ {"sending"} =>
       answer[s].response \in Response /\ answer[s].response.model = model[s]

(* The cache object of an open session is what its file holds, belongs to  *)
(* its model and replays the conversation so far, but not a prompt that is *)
(* being asked.                                                            *)
CacheInv(s) ==
  /\ IsCache(cacheFile[s]) /\ IsCache(mem[s])
  /\ pc[s] \notin Idle =>
       /\ mem[s] = cacheFile[s]
       /\ mem[s].model \in {NoModel, model[s]}
       /\ Replays(mem[s], conv[s], Len(conv[s]))
  /\ pc[s] \in Calling => ~Known(s)

BundleInv(s) == recording[s] # NoRecording /\ ~discarded[s] =>
                  Replays(cacheFile[s], recording[s], Turns)

SessionInv(s) == CallInv(s) /\ CacheInv(s) /\ BundleInv(s)

LedgerType == spent \in Nat /\ cumulative \in Nat /\ tail \in Tails

IInv ==
  /\ Domains
  /\ LedgerType
  /\ \A s \in Sessions : SessionInv(s)

(* What a session that is alone with the ledger also keeps. *)
AloneInv ==
  /\ cumulative = spent
  /\ \A s \in Sessions :
       /\ pc[s] \in Calling \ {"recorded"} => Affordable
       /\ pc[s] = "appending" => newTotal[s] = spent + answer[s].cost

-----------------------------------------------------------------------------
(* Conversations and caches. *)
LEMMA KeyIsSeq ==
  ASSUME NEW k
  PROVE  k \in Key <=> k \in Seq(Response) /\ Len(k) <= Turns
<1>1. ASSUME k \in Key PROVE k \in Seq(Response) /\ Len(k) <= Turns
  <2>1. PICK n \in 0 .. Turns : k \in [1 .. n -> Response]
    BY <1>1 DEF Key
  <2>2. n \in Nat
    BY RunsAssumption
  <2>. QED
    BY <2>1, <2>2
<1>2. ASSUME k \in Seq(Response), Len(k) <= Turns PROVE k \in Key
  <2>1. Len(k) \in 0 .. Turns /\ k \in [1 .. Len(k) -> Response]
    BY <1>2, RunsAssumption
  <2>. QED
    BY <2>1 DEF Key
<1>. QED
  BY <1>1, <1>2

LEMMA AppendKey ==
  ASSUME NEW k \in Key, Len(k) < Turns, NEW r \in Response
  PROVE  /\ Append(k, r) \in Key /\ Len(Append(k, r)) = Len(k) + 1 /\ Len(k) \in Nat
         /\ \A i \in 1 .. Len(k) : /\ Append(k, r)[i] = k[i]
                                   /\ SubSeq(Append(k, r), 1, i - 1) = SubSeq(k, 1, i - 1)
         /\ Append(k, r)[Len(k) + 1] = r
         /\ SubSeq(Append(k, r), 1, Len(k)) = k
<1>. DEFINE a == Append(k, r)
<1>1. k \in Seq(Response) /\ Len(k) \in Nat
  BY KeyIsSeq
<1>2. a \in Seq(Response) /\ Len(a) = Len(k) + 1 /\ a[Len(k) + 1] = r
      /\ \A i \in 1 .. Len(k) : a[i] = k[i]
  BY <1>1
<1>3. a \in Key
  <2>. HIDE DEF a
  <2>1. Len(a) <= Turns
    BY <1>1, <1>2, RunsAssumption
  <2>. QED
    BY <1>2, <2>1, KeyIsSeq
<1>4. ASSUME NEW n \in 0 .. Len(k) PROVE SubSeq(a, 1, n) = SubSeq(k, 1, n)
  <2>1. CASE n = 0
    <3>1. SubSeq(a, 1, 0) = << >> /\ SubSeq(k, 1, 0) = << >>
      BY SubSeqEmpty
    <3>. QED
      BY <2>1, <3>1
  <2>2. CASE n # 0
    <3>1. a = k \o <<r>> /\ <<r>> \in Seq(Response)
      BY <1>1, AppendIsConcat
    <3>2. 1 \in 1 .. Len(k) /\ n \in 1 .. Len(k)
      BY <1>1, <2>2
    <3>. QED
      BY <1>1, <3>1, <3>2, SubSeqOfConcat1
  <2>. QED
    BY <2>1, <2>2
<1>5. SubSeq(a, 1, Len(k)) = k
  BY <1>1, <1>4, SubSeqFull
<1>6. \A i \in 1 .. Len(k) : SubSeq(a, 1, i - 1) = SubSeq(k, 1, i - 1)
  BY <1>1, <1>4
<1>. QED
  BY <1>1, <1>2, <1>3, <1>5, <1>6

(* A response that the cache answers with extends what it replays. *)
LEMMA ReplaysOneMore ==
  ASSUME NEW c, NEW k \in Key, Len(k) < Turns, Replays(c, k, Len(k)),
         k \in DOMAIN c.entries, c.entries[k] \in Response
  PROVE  Replays(c, Append(k, c.entries[k]), Len(Append(k, c.entries[k])))
<1>. DEFINE r == c.entries[k]
            a == Append(k, r)
<1>1. /\ Len(a) = Len(k) + 1 /\ Len(k) \in Nat
      /\ \A i \in 1 .. Len(k) : a[i] = k[i] /\ SubSeq(a, 1, i - 1) = SubSeq(k, 1, i - 1)
      /\ a[Len(k) + 1] = r /\ SubSeq(a, 1, Len(k)) = k
  BY AppendKey
<1>. HIDE DEF a
<1>. SUFFICES ASSUME NEW i \in 1 .. Len(a)
              PROVE  SubSeq(a, 1, i - 1) \in DOMAIN c.entries
                     /\ c.entries[SubSeq(a, 1, i - 1)] = a[i]
  BY DEF Replays, a
<1>2. CASE i \in 1 .. Len(k)
  BY <1>1, <1>2 DEF Replays
<1>3. CASE i = Len(k) + 1
  <2>1. SubSeq(a, 1, i - 1) = k
    <3>1. i - 1 = Len(k)
      BY <1>1, <1>3
    <3>. QED
      BY <1>1, <3>1
  <2>2. a[i] = r
    BY <1>1, <1>3
  <2>. QED
    BY <2>1, <2>2
<1>. QED
  BY <1>1, <1>2, <1>3

(* A new response disturbs no old one, and the cache keeps to one model. *)
LEMMA CachedKeeps ==
  ASSUME NEW c, IsCache(c), NEW key \in Key, key \notin DOMAIN c.entries,
         NEW r \in Response, NEW m \in Models, r.model = m, c.model \in {NoModel, m}
  PROVE  LET d == Cached(c, key, r, m)
         IN  /\ IsCache(d) /\ d.model = m
             /\ key \in DOMAIN d.entries /\ d.entries[key] = r
             /\ DOMAIN d.entries = DOMAIN c.entries \cup {key}
             /\ \A n, x : Replays(c, x, n) => Replays(d, x, n)
<1>. DEFINE d == Cached(c, key, r, m)
<1>1. /\ d.model = m /\ DOMAIN d.entries = DOMAIN c.entries \cup {key}
      /\ d.entries[key] = r
      /\ \A k \in DOMAIN c.entries : d.entries[k] = c.entries[k]
  BY DEF Cached
<1>. HIDE DEF d
<1>2. \A k \in DOMAIN c.entries : c.entries[k].model = m
  BY RunsAssumption DEF IsCache, Response
<1>3. IsCache(d)
  BY <1>1, <1>2 DEF IsCache
<1>4. \A n, x : Replays(c, x, n) => Replays(d, x, n)
  BY <1>1 DEF Replays
<1>. QED
  BY <1>1, <1>3, <1>4 DEF d

LEMMA NoCacheIsCache == IsCache(NoCache) /\ DOMAIN NoCache.entries = {}
  BY DEF IsCache, NoCache

LEMMA EmptyConversation ==
  <<>> \in Key /\ Len(<<>>) = 0 /\ \A c : Replays(c, <<>>, Len(<<>>))
<1>1. <<>> \in Seq(Response) /\ Len(<<>>) = 0
  OBVIOUS
<1>2. <<>> \in Key
  <2>1. Len(<<>>) <= Turns
    BY <1>1, RunsAssumption
  <2>. QED
    BY <1>1, <2>1, KeyIsSeq
<1>3. ASSUME NEW c PROVE Replays(c, <<>>, 0)
  BY DEF Replays
<1>. QED
  BY <1>1, <1>2, <1>3

-----------------------------------------------------------------------------
(* The invariant holds initially, and every step of a session keeps it:    *)
(* the step of one session leaves what belongs to the others alone.        *)
Untouched(t) ==
  /\ cacheFile'[t] = cacheFile[t] /\ mem'[t] = mem[t] /\ pc'[t] = pc[t]
  /\ model'[t] = model[t] /\ conv'[t] = conv[t] /\ attempts'[t] = attempts[t]
  /\ billed'[t] = billed[t] /\ answer'[t] = answer[t] /\ newTotal'[t] = newTotal[t]
  /\ recording'[t] = recording[t] /\ discarded'[t] = discarded[t]

LEMMA UntouchedKeeps ==
  ASSUME NEW t \in Sessions, SessionInv(t), Untouched(t) PROVE SessionInv(t)'
<1>. USE DEF SessionInv, Untouched
<1>1. CallInv(t)'
  BY DEF CallInv
<1>2. CacheInv(t)'
  BY DEF CacheInv, IsCache, Replays, Known
<1>3. BundleInv(t)'
  BY DEF BundleInv, Replays
<1>. QED
  BY <1>1, <1>2, <1>3

LEMMA OneSession ==
  ASSUME IInv, NEW s \in Sessions, Domains', LedgerType',
         \A t \in Sessions \ {s} : Untouched(t),
         CallInv(s)', CacheInv(s)', BundleInv(s)'
  PROVE  IInv'
<1>1. ASSUME NEW t \in Sessions PROVE SessionInv(t)'
  <2>1. CASE t = s
    BY <2>1 DEF SessionInv
  <2>2. CASE t # s
    BY <2>2, UntouchedKeeps DEF IInv
  <2>. QED
    BY <2>1, <2>2
<1>. QED
  BY <1>1 DEF IInv

LEMMA InitKeeps == Init => IInv
<1>. SUFFICES ASSUME Init PROVE IInv
  OBVIOUS
<1>1. Domains /\ LedgerType
  BY DEF Init, Domains, LedgerType, Tails
<1>2. ASSUME NEW s \in Sessions PROVE SessionInv(s)
  <2>1. /\ cacheFile[s] = NoCache /\ mem[s] = NoCache /\ pc[s] = "closed" /\ conv[s] = <<>>
        /\ attempts[s] = 0 /\ billed[s] = 0 /\ answer[s].cost = 0 /\ newTotal[s] = 0
        /\ recording[s] = NoRecording
    BY <1>2 DEF Init
  <2>2. CallInv(s)
    BY <2>1, EmptyConversation, CostsAssumption DEF CallInv, Idle, Calling
  <2>3. CacheInv(s)
    BY <2>1, NoCacheIsCache DEF CacheInv, Idle, Calling
  <2>4. BundleInv(s)
    BY <2>1 DEF BundleInv
  <2>. QED
    BY <2>2, <2>3, <2>4 DEF SessionInv
<1>. QED
  BY <1>1, <1>2 DEF IInv

LEMMA OpenKeeps ==
  ASSUME IInv, NEW s \in Sessions, NEW m \in Models, NEW fresh \in BOOLEAN, Open(s, m, fresh)
  PROVE  IInv'
<1>. USE DEF IInv, LedgerType, SessionInv
<1>1. /\ cacheFile'[s] = (IF fresh THEN NoCache ELSE cacheFile[s]) /\ mem'[s] = cacheFile'[s]
      /\ pc'[s] = "prompt" /\ model'[s] = m /\ conv'[s] = <<>> /\ attempts'[s] = attempts[s]
      /\ billed'[s] = billed[s] /\ answer'[s] = answer[s] /\ newTotal'[s] = newTotal[s]
      /\ recording'[s] = recording[s]
      /\ discarded'[s] = (IF fresh THEN TRUE ELSE discarded[s])
  BY DEF Open, Set, Domains, fileVars, callVars, runVars
<1>2. Domains' /\ LedgerType' /\ \A t \in Sessions \ {s} : Untouched(t)
  BY DEF Open, Set, Domains, Untouched, fileVars, callVars, runVars
<1>3. pc[s] \in Idle /\ (fresh \/ cacheFile[s].model \in {NoModel, m})
  BY DEF Open
<1>. HIDE DEF IInv
<1>4. CallInv(s)'
  BY <1>1, EmptyConversation DEF IInv, CallInv, Idle, Calling
<1>5. CacheInv(s)'
  <2>1. IsCache(cacheFile[s])
    BY DEF IInv, CacheInv
  <2>2. IsCache(cacheFile'[s]) /\ cacheFile'[s].model \in {NoModel, m}
    BY <1>1, <1>3, <2>1, NoCacheIsCache DEF NoCache
  <2>. QED
    BY <1>1, <2>2, EmptyConversation DEF CacheInv, Idle, Calling
<1>6. BundleInv(s)'
  BY <1>1 DEF IInv, BundleInv
<1>. QED
  BY <1>2, <1>4, <1>5, <1>6, OneSession

LEMMA HitKeeps ==
  ASSUME IInv, NEW s \in Sessions, Hit(s)
  PROVE  IInv'
<1>. USE DEF IInv, LedgerType, SessionInv
<1>1. /\ cacheFile'[s] = cacheFile[s] /\ mem'[s] = mem[s] /\ pc'[s] = pc[s]
      /\ model'[s] = model[s] /\ conv'[s] = Append(conv[s], mem[s].entries[conv[s]])
      /\ attempts'[s] = attempts[s] /\ billed'[s] = billed[s] /\ answer'[s] = answer[s]
      /\ newTotal'[s] = newTotal[s] /\ recording'[s] = recording[s]
      /\ discarded'[s] = discarded[s]
  BY DEF Hit, Set, Domains, fileVars, callVars, runVars
<1>2. Domains' /\ LedgerType' /\ \A t \in Sessions \ {s} : Untouched(t)
  BY DEF Hit, Set, Domains, Untouched, fileVars, callVars, runVars
<1>3. /\ pc[s] = "prompt" /\ Len(conv[s]) < Turns /\ conv[s] \in Key
      /\ conv[s] \in DOMAIN mem[s].entries /\ mem[s].entries[conv[s]] \in Response
      /\ Replays(mem[s], conv[s], Len(conv[s]))
  BY DEF Hit, Known, CallInv, CacheInv, IsCache, Idle, Calling
<1>. HIDE DEF IInv
<1>4. CallInv(s)'
  BY <1>1, <1>3, AppendKey DEF IInv, CallInv, Idle, Calling
<1>5. CacheInv(s)'
  <2>1. Replays(mem[s], conv'[s], Len(conv'[s]))
    BY <1>1, <1>3, ReplaysOneMore
  <2>. QED
    BY <1>1, <1>3, <2>1 DEF IInv, CacheInv, Idle, Calling
<1>6. BundleInv(s)'
  BY <1>1 DEF IInv, BundleInv
<1>. QED
  BY <1>2, <1>4, <1>5, <1>6, OneSession

LEMMA AuthorizeKeeps ==
  ASSUME IInv, NEW s \in Sessions, Authorize(s)
  PROVE  IInv'
<1>. USE DEF IInv, LedgerType, SessionInv
<1>1. /\ cacheFile'[s] = cacheFile[s] /\ mem'[s] = mem[s] /\ pc'[s] = "sending"
      /\ model'[s] = model[s] /\ conv'[s] = conv[s] /\ attempts'[s] = 0 /\ billed'[s] = 0
      /\ answer'[s] = answer[s] /\ newTotal'[s] = newTotal[s] /\ recording'[s] = recording[s]
      /\ discarded'[s] = discarded[s]
  BY DEF Authorize, Set, Domains, fileVars, callVars, runVars
<1>2. Domains' /\ LedgerType' /\ \A t \in Sessions \ {s} : Untouched(t)
  BY DEF Authorize, Set, Domains, Untouched, fileVars, callVars, runVars
<1>3. pc[s] = "prompt" /\ Len(conv[s]) < Turns /\ ~Known(s)
  BY DEF Authorize
<1>. HIDE DEF IInv
<1>4. CallInv(s)'
  BY <1>1, <1>3, CostsAssumption DEF IInv, CallInv, Idle, Calling
<1>5. CacheInv(s)'
  BY <1>1, <1>3 DEF IInv, CacheInv, Idle, Calling, Known
<1>6. BundleInv(s)'
  BY <1>1 DEF IInv, BundleInv
<1>. QED
  BY <1>2, <1>4, <1>5, <1>6, OneSession

LEMMA RefuseCallKeeps ==
  ASSUME IInv, NEW s \in Sessions, RefuseCall(s)
  PROVE  IInv'
<1>. USE DEF IInv, LedgerType, SessionInv
<1>1. /\ cacheFile'[s] = cacheFile[s] /\ mem'[s] = mem[s] /\ pc'[s] = "closed"
      /\ model'[s] = model[s] /\ conv'[s] = conv[s] /\ attempts'[s] = attempts[s]
      /\ billed'[s] = billed[s] /\ answer'[s] = answer[s] /\ newTotal'[s] = newTotal[s]
      /\ recording'[s] = recording[s] /\ discarded'[s] = discarded[s]
  BY DEF RefuseCall, Set, Domains, fileVars, callVars, runVars
<1>2. Domains' /\ LedgerType' /\ \A t \in Sessions \ {s} : Untouched(t)
  BY DEF RefuseCall, Set, Domains, Untouched, fileVars, callVars, runVars
<1>. HIDE DEF IInv
<1>4. CallInv(s)'
  BY <1>1 DEF IInv, CallInv, Idle, Calling
<1>5. CacheInv(s)'
  BY <1>1 DEF IInv, CacheInv, Idle, Calling
<1>6. BundleInv(s)'
  BY <1>1 DEF IInv, BundleInv
<1>. QED
  BY <1>2, <1>4, <1>5, <1>6, OneSession

(* What was billed for a call is covered by its attempts. *)
LEMMA BillStep ==
  ASSUME NEW a \in Nat, NEW b \in 0 .. AttemptCost * a, NEW c \in 0 .. AttemptCost
  PROVE  b + c \in 0 .. AttemptCost * (a + 1)
<1>1. AttemptCost * (a + 1) = AttemptCost * a + AttemptCost /\ AttemptCost * a \in Nat
  BY CostsAssumption
<1>. QED
  BY <1>1, CostsAssumption

LEMMA SucceedKeeps ==
  ASSUME IInv, NEW s \in Sessions, NEW text \in Texts, NEW cost \in 0 .. AttemptCost,
         Succeed(s, text, cost)
  PROVE  IInv'
<1>. USE DEF IInv, LedgerType, SessionInv
<1>1. /\ cacheFile'[s] = cacheFile[s] /\ mem'[s] = mem[s] /\ pc'[s] = "answered"
      /\ model'[s] = model[s] /\ conv'[s] = conv[s] /\ attempts'[s] = attempts[s] + 1
      /\ billed'[s] = billed[s] + cost
      /\ answer'[s] = [response |-> [model |-> model[s], text |-> text], cost |-> cost]
      /\ newTotal'[s] = newTotal[s] /\ recording'[s] = recording[s]
      /\ discarded'[s] = discarded[s]
  BY DEF Succeed, Set, Domains, fileVars, callVars, runVars
<1>2. Domains' /\ LedgerType' /\ \A t \in Sessions \ {s} : Untouched(t)
  BY DEF Succeed, Set, Domains, Untouched, fileVars, callVars, runVars
<1>3. /\ pc[s] = "sending" /\ attempts[s] \in 0 .. MaxRetries /\ attempts[s] \in Nat
      /\ billed[s] \in 0 .. AttemptCost * attempts[s] /\ model[s] \in Models
  <2>1. pc[s] = "sending" /\ CallInv(s)
    BY DEF Succeed
  <2>. HIDE DEF IInv
  <2>. QED
    BY <2>1, CostsAssumption DEF CallInv, Idle
<1>. HIDE DEF IInv
<1>4. CallInv(s)'
  <2>1. billed[s] + cost \in 0 .. AttemptCost * (attempts[s] + 1)
    BY <1>3, BillStep
  <2>. QED
    BY <1>1, <1>3, <2>1, CostsAssumption DEF IInv, CallInv, Idle, Calling, Response
<1>5. CacheInv(s)'
  BY <1>1, <1>3 DEF IInv, CacheInv, Idle, Calling, Known
<1>6. BundleInv(s)'
  BY <1>1 DEF IInv, BundleInv
<1>. QED
  BY <1>2, <1>4, <1>5, <1>6, OneSession

LEMMA FailKeeps ==
  ASSUME IInv, NEW s \in Sessions, NEW transient \in BOOLEAN, NEW cost \in 0 .. AttemptCost,
         Fail(s, transient, cost)
  PROVE  IInv'
<1>. USE DEF IInv, LedgerType, SessionInv
<1>1. /\ cacheFile'[s] = cacheFile[s] /\ mem'[s] = mem[s]
      /\ pc'[s] = (IF transient /\ attempts[s] + 1 <= MaxRetries THEN pc[s] ELSE "closed")
      /\ model'[s] = model[s] /\ conv'[s] = conv[s] /\ attempts'[s] = attempts[s] + 1
      /\ billed'[s] = billed[s] + cost /\ answer'[s] = answer[s]
      /\ newTotal'[s] = newTotal[s] /\ recording'[s] = recording[s]
      /\ discarded'[s] = discarded[s]
  BY DEF Fail, Set, Domains, fileVars, callVars, runVars
<1>2. Domains' /\ LedgerType' /\ \A t \in Sessions \ {s} : Untouched(t)
  <2>1. Domains' /\ LedgerType'
    BY DEF Fail, Set, Domains, fileVars, callVars, runVars
  <2>2. \A t \in Sessions \ {s} : Untouched(t)
    BY DEF Fail, Set, Domains, Untouched, fileVars, callVars, runVars
  <2>. QED
    BY <2>1, <2>2
<1>3. /\ pc[s] = "sending" /\ attempts[s] \in 0 .. MaxRetries /\ attempts[s] \in Nat
      /\ billed[s] \in 0 .. AttemptCost * attempts[s] /\ model[s] \in Models
  <2>1. pc[s] = "sending" /\ CallInv(s)
    BY DEF Fail
  <2>. HIDE DEF IInv
  <2>. QED
    BY <2>1, CostsAssumption DEF CallInv, Idle
<1>. HIDE DEF IInv
<1>4. CallInv(s)'
  <2>1. billed[s] + cost \in 0 .. AttemptCost * (attempts[s] + 1)
    BY <1>3, BillStep
  <2>. QED
    BY <1>1, <1>3, <2>1, CostsAssumption DEF IInv, CallInv, Idle, Calling
<1>5. CacheInv(s)'
  BY <1>1, <1>3 DEF IInv, CacheInv, Idle, Calling, Known
<1>6. BundleInv(s)'
  BY <1>1 DEF IInv, BundleInv
<1>. QED
  BY <1>2, <1>4, <1>5, <1>6, OneSession

LEMMA ReadTotalKeeps ==
  ASSUME IInv, NEW s \in Sessions, ReadTotal(s)
  PROVE  IInv'
<1>. USE DEF IInv, LedgerType, SessionInv
<1>1. /\ cacheFile'[s] = cacheFile[s] /\ mem'[s] = mem[s] /\ pc'[s] \in {"appending", "closed"}
      /\ model'[s] = model[s] /\ conv'[s] = conv[s] /\ attempts'[s] = attempts[s]
      /\ billed'[s] = billed[s] /\ answer'[s] = answer[s]
      /\ newTotal'[s] \in {newTotal[s], spent + answer[s].cost} /\ recording'[s] = recording[s]
      /\ discarded'[s] = discarded[s]
  BY DEF ReadTotal, Set, Domains, fileVars, callVars, runVars
<1>2. Domains' /\ LedgerType' /\ \A t \in Sessions \ {s} : Untouched(t)
  BY DEF ReadTotal, Set, Domains, Untouched, fileVars, callVars, runVars
<1>3. pc[s] = "answered"
  BY DEF ReadTotal
<1>. HIDE DEF IInv
<1>4. CallInv(s)'
  BY <1>1, <1>3 DEF IInv, LedgerType, CallInv, Idle, Calling
<1>5. CacheInv(s)'
  BY <1>1, <1>3 DEF IInv, CacheInv, Idle, Calling, Known
<1>6. BundleInv(s)'
  BY <1>1 DEF IInv, BundleInv
<1>. QED
  BY <1>2, <1>4, <1>5, <1>6, OneSession

LEMMA AppendRowKeeps ==
  ASSUME IInv, NEW s \in Sessions, AppendRow(s)
  PROVE  IInv'
<1>. USE DEF IInv, LedgerType, SessionInv
<1>1. /\ cacheFile'[s] = cacheFile[s] /\ mem'[s] = mem[s] /\ pc'[s] = "recorded"
      /\ model'[s] = model[s] /\ conv'[s] = conv[s] /\ attempts'[s] = attempts[s]
      /\ billed'[s] = billed[s] /\ answer'[s] = answer[s] /\ newTotal'[s] = newTotal[s]
      /\ recording'[s] = recording[s] /\ discarded'[s] = discarded[s]
  BY DEF AppendRow, PutRow, Set, Domains, fileVars, callVars, runVars, CallInv
<1>2. Domains' /\ LedgerType' /\ \A t \in Sessions \ {s} : Untouched(t)
  BY DEF AppendRow, PutRow, Tails, Set, Domains, Untouched, fileVars, callVars, runVars, CallInv
<1>3. pc[s] = "appending"
  BY DEF AppendRow
<1>. HIDE DEF IInv
<1>4. CallInv(s)'
  BY <1>1, <1>3 DEF IInv, CallInv, Idle, Calling
<1>5. CacheInv(s)'
  BY <1>1, <1>3 DEF IInv, CacheInv, Idle, Calling, Known
<1>6. BundleInv(s)'
  BY <1>1 DEF IInv, BundleInv
<1>. QED
  BY <1>2, <1>4, <1>5, <1>6, OneSession

LEMMA PutKeeps ==
  ASSUME IInv, NEW s \in Sessions, Put(s)
  PROVE  IInv'
<1>. USE DEF IInv, LedgerType, SessionInv
<1>. DEFINE new == Cached(mem[s], conv[s], answer[s].response, model[s])
<1>0. mem[s].model \in {NoModel, model[s]}
  BY DEF Put, CacheInv, Idle
<1>1. /\ cacheFile'[s] = new /\ mem'[s] = new /\ pc'[s] = "prompt" /\ model'[s] = model[s]
      /\ conv'[s] = Append(conv[s], answer[s].response) /\ attempts'[s] = attempts[s]
      /\ billed'[s] = billed[s] /\ answer'[s] = answer[s] /\ newTotal'[s] = newTotal[s]
      /\ recording'[s] = recording[s] /\ discarded'[s] = discarded[s]
  BY <1>0 DEF Put, Set, Domains, fileVars, callVars, runVars
<1>2. Domains' /\ LedgerType' /\ \A t \in Sessions \ {s} : Untouched(t)
  BY <1>0 DEF Put, Set, Domains, Untouched, fileVars, callVars, runVars
<1>3. /\ pc[s] = "recorded" /\ conv[s] \in Key /\ Len(conv[s]) < Turns
      /\ answer[s].response \in Response /\ answer[s].response.model = model[s]
      /\ model[s] \in Models /\ IsCache(mem[s]) /\ ~Known(s)
      /\ mem[s] = cacheFile[s] /\ Replays(mem[s], conv[s], Len(conv[s]))
  BY DEF Put, CallInv, CacheInv, Idle, Calling
<1>a. /\ IsCache(new) /\ new.model = model[s]
      /\ conv[s] \in DOMAIN new.entries /\ new.entries[conv[s]] = answer[s].response
      /\ \A n, x : Replays(mem[s], x, n) => Replays(new, x, n)
  BY <1>0, <1>3, CachedKeeps DEF Known
<1>. HIDE DEF new
<1>. HIDE DEF IInv
<1>4. CallInv(s)'
  BY <1>1, <1>3, AppendKey DEF IInv, CallInv, Idle, Calling
<1>5. CacheInv(s)'
  <2>1. Replays(new, conv'[s], Len(conv'[s]))
    BY <1>1, <1>3, <1>a, ReplaysOneMore
  <2>. QED
    BY <1>1, <1>a, <2>1 DEF CacheInv, Idle, Calling
<1>6. BundleInv(s)'
  <2>1. recording[s] # NoRecording /\ ~discarded[s] => Replays(mem[s], recording[s], Turns)
    BY <1>3 DEF IInv, BundleInv
  <2>. QED
    BY <1>1, <1>a, <2>1 DEF BundleInv
<1>. QED
  BY <1>2, <1>4, <1>5, <1>6, OneSession

LEMMA FinishKeeps ==
  ASSUME IInv, NEW s \in Sessions, Finish(s)
  PROVE  IInv'
<1>. USE DEF IInv, LedgerType, SessionInv
<1>1. /\ cacheFile'[s] = cacheFile[s] /\ mem'[s] = mem[s] /\ pc'[s] = "closed"
      /\ model'[s] = model[s] /\ conv'[s] = conv[s] /\ attempts'[s] = attempts[s]
      /\ billed'[s] = billed[s] /\ answer'[s] = answer[s] /\ newTotal'[s] = newTotal[s]
      /\ recording'[s] = conv[s] /\ discarded'[s] = FALSE
  BY DEF Finish, Set, Domains, fileVars, callVars, runVars
<1>2. Domains' /\ LedgerType' /\ \A t \in Sessions \ {s} : Untouched(t)
  BY DEF Finish, Set, Domains, Untouched, fileVars, callVars, runVars
<1>3. pc[s] = "prompt" /\ Len(conv[s]) = Turns
  BY DEF Finish
<1>. HIDE DEF IInv
<1>4. CallInv(s)'
  BY <1>1 DEF IInv, CallInv, Idle, Calling
<1>5. CacheInv(s)'
  BY <1>1 DEF IInv, CacheInv, Idle, Calling
<1>6. BundleInv(s)'
  BY <1>1, <1>3 DEF IInv, CacheInv, BundleInv, Idle
<1>. QED
  BY <1>2, <1>4, <1>5, <1>6, OneSession

LEMMA CrashKeeps ==
  ASSUME IInv, NEW s \in Sessions, Crash(s)
  PROVE  IInv'
<1>. USE DEF IInv, LedgerType, SessionInv
<1>1. /\ cacheFile'[s] = cacheFile[s] /\ mem'[s] = mem[s] /\ pc'[s] = "crashed"
      /\ model'[s] = model[s] /\ conv'[s] = conv[s] /\ attempts'[s] = attempts[s]
      /\ billed'[s] = billed[s] /\ answer'[s] = answer[s] /\ newTotal'[s] = newTotal[s]
      /\ recording'[s] = recording[s] /\ discarded'[s] = discarded[s]
  BY DEF Crash, Set, Domains, fileVars, callVars, runVars
<1>2. Domains' /\ LedgerType' /\ \A t \in Sessions \ {s} : Untouched(t)
  BY DEF Crash, Set, Domains, Untouched, fileVars, callVars, runVars
<1>. HIDE DEF IInv
<1>4. CallInv(s)'
  BY <1>1 DEF IInv, CallInv, Idle, Calling
<1>5. CacheInv(s)'
  BY <1>1 DEF IInv, CacheInv, Idle, Calling
<1>6. BundleInv(s)'
  BY <1>1 DEF IInv, BundleInv
<1>. QED
  BY <1>2, <1>4, <1>5, <1>6, OneSession

LEMMA CrashInAppendKeeps ==
  ASSUME IInv, NEW s \in Sessions, CrashInAppend(s)
  PROVE  IInv'
<1>. USE DEF IInv, LedgerType, SessionInv
<1>1. /\ cacheFile'[s] = cacheFile[s] /\ mem'[s] = mem[s] /\ pc'[s] = "crashed"
      /\ model'[s] = model[s] /\ conv'[s] = conv[s] /\ attempts'[s] = attempts[s]
      /\ billed'[s] = billed[s] /\ answer'[s] = answer[s] /\ newTotal'[s] = newTotal[s]
      /\ recording'[s] = recording[s] /\ discarded'[s] = discarded[s]
  BY DEF CrashInAppend, PutRow, Set, Domains, fileVars, callVars, runVars
<1>2. Domains' /\ LedgerType' /\ \A t \in Sessions \ {s} : Untouched(t)
  BY DEF CrashInAppend, PutRow, Tails, Set, Domains, Untouched, fileVars, callVars, runVars, CallInv
<1>. HIDE DEF IInv
<1>4. CallInv(s)'
  BY <1>1 DEF IInv, CallInv, Idle, Calling
<1>5. CacheInv(s)'
  BY <1>1 DEF IInv, CacheInv, Idle, Calling
<1>6. BundleInv(s)'
  BY <1>1 DEF IInv, BundleInv
<1>. QED
  BY <1>2, <1>4, <1>5, <1>6, OneSession

LEMMA StepKeeps == IInv /\ [Next]_vars => IInv'
<1>. SUFFICES ASSUME IInv, [Next]_vars PROVE IInv'
  OBVIOUS
<1>1. CASE UNCHANGED vars
  <2>1. Domains'
    BY <1>1 DEF IInv, Domains, vars, fileVars, callVars, runVars
  <2>2. ASSUME NEW t \in Sessions PROVE SessionInv(t)'
    BY <1>1, UntouchedKeeps DEF IInv, Untouched, vars, fileVars, callVars, runVars
  <2>. QED
    BY <1>1, <2>1, <2>2 DEF IInv, LedgerType, vars, fileVars
<1>2. CASE Next
  <2>1. PICK s \in Sessions : \/ \E m \in Models, fresh \in BOOLEAN : Open(s, m, fresh)
                              \/ Proceed(s) \/ Crash(s) \/ CrashInAppend(s)
    BY <1>2 DEF Next
  <2>2. ASSUME NEW m \in Models, NEW fresh \in BOOLEAN, Open(s, m, fresh) PROVE IInv'
    BY <2>2, OpenKeeps
  <2>3. CASE Crash(s) \/ CrashInAppend(s)
    BY <2>3, CrashKeeps, CrashInAppendKeeps
  <2>4. CASE Hit(s) \/ Authorize(s) \/ RefuseCall(s)
    BY <2>4, HitKeeps, AuthorizeKeeps, RefuseCallKeeps
  <2>5. ASSUME NEW cost \in 0 .. AttemptCost, NEW text \in Texts, Succeed(s, text, cost)
        PROVE  IInv'
    BY <2>5, SucceedKeeps
  <2>6. ASSUME NEW cost \in 0 .. AttemptCost, NEW transient \in BOOLEAN,
               Fail(s, transient, cost)
        PROVE  IInv'
    BY <2>6, FailKeeps
  <2>7. CASE ReadTotal(s) \/ AppendRow(s) \/ Put(s) \/ Finish(s)
    BY <2>7, ReadTotalKeeps, AppendRowKeeps, PutKeeps, FinishKeeps
  <2>. QED
    BY <2>1, <2>2, <2>3, <2>4, <2>5, <2>6, <2>7 DEF Proceed
<1>. QED
  BY <1>1, <1>2

LEMMA Invariance == Spec => []IInv
  BY InitKeeps, StepKeeps, PTL DEF Spec

-----------------------------------------------------------------------------
(* A session that has the ledger to itself. *)
Alone == \E s : Sessions = {s}

LEMMA AttemptsAreCovered ==
  ASSUME IInv, NEW s \in Sessions
  PROVE  billed[s] \in 0 .. Estimate /\ Estimate \in Nat
<1>1. ASSUME NEW a \in 0 .. MaxRetries + 1
      PROVE  AttemptCost * a \in Nat /\ AttemptCost * a <= Estimate /\ Estimate \in Nat
  BY CostsAssumption DEF Estimate
<1>2. attempts[s] \in 0 .. MaxRetries + 1 /\ billed[s] \in 0 .. AttemptCost * attempts[s]
  BY DEF IInv, SessionInv, CallInv
<1>. QED
  BY <1>1, <1>2

LEMMA AloneInit == Init => AloneInv
  BY DEF Init, AloneInv, Calling

LEMMA AloneStep == Alone /\ IInv /\ AloneInv /\ [Next]_vars => AloneInv'
<1>. SUFFICES ASSUME Alone, IInv, AloneInv, [Next]_vars PROVE AloneInv'
  OBVIOUS
<1>1. CASE UNCHANGED vars
  BY <1>1 DEF AloneInv, Affordable, vars, fileVars, callVars, runVars
<1>2. CASE Next
  <2>1. PICK s \in Sessions : \/ \E m \in Models, fresh \in BOOLEAN : Open(s, m, fresh)
                              \/ Proceed(s) \/ Crash(s) \/ CrashInAppend(s)
    BY <1>2 DEF Next
  <2>2. Sessions = {s} /\ Domains
    BY <2>1 DEF Alone, IInv
  <2>3. /\ cumulative = spent /\ (pc[s] \in Calling \ {"recorded"} => Affordable)
        /\ (pc[s] = "appending" => newTotal[s] = spent + answer[s].cost)
    BY <2>2 DEF AloneInv
  <2>. SUFFICES /\ cumulative' = spent' /\ (pc'[s] \in Calling \ {"recorded"} => Affordable')
                /\ (pc'[s] = "appending" => newTotal'[s] = spent' + answer'[s].cost)
    BY <2>2 DEF AloneInv
  <2>. USE <2>2, <2>3 DEF Set, Domains, Calling, Affordable, fileVars, callVars, runVars
  <2>4. ASSUME NEW m \in Models, NEW fresh \in BOOLEAN, Open(s, m, fresh)
        PROVE  pc'[s] = "prompt" /\ spent' = spent /\ cumulative' = cumulative
    BY <2>4 DEF Open
  <2>5. CASE Crash(s) \/ RefuseCall(s) \/ Finish(s)
    BY <2>5 DEF Crash, RefuseCall, Finish
  <2>6. CASE Hit(s)
    BY <2>6 DEF Hit
  <2>7. CASE Authorize(s)
    BY <2>7 DEF Authorize
  <2>8. ASSUME NEW cost \in 0 .. AttemptCost, NEW text \in Texts, Succeed(s, text, cost)
        PROVE  pc[s] = "sending" /\ pc'[s] = "answered" /\ spent' = spent
               /\ cumulative' = cumulative
    BY <2>8 DEF Succeed
  <2>9. ASSUME NEW cost \in 0 .. AttemptCost, NEW transient \in BOOLEAN,
               Fail(s, transient, cost)
        PROVE  pc[s] = "sending" /\ pc'[s] \in {"sending", "closed"} /\ spent' = spent
               /\ cumulative' = cumulative
    BY <2>9 DEF Fail
  <2>10. CASE ReadTotal(s)
    BY <2>10 DEF ReadTotal
  <2>11. CASE AppendRow(s) \/ CrashInAppend(s)
    BY <2>11 DEF AppendRow, CrashInAppend, PutRow
  <2>12. CASE Put(s)
    <3>1. pc'[s] \in {"prompt", "closed"} /\ spent' = spent /\ cumulative' = cumulative
      BY <2>12 DEF Put
    <3>. QED
      BY <3>1
  <2>. QED
    BY <2>1, <2>4, <2>5, <2>6, <2>7, <2>8, <2>9, <2>10, <2>11, <2>12 DEF Proceed
<1>. QED
  BY <1>1, <1>2

LEMMA AloneInvariance == ASSUME Alone PROVE Spec => [](IInv /\ AloneInv)
  BY InitKeeps, StepKeeps, AloneInit, AloneStep, PTL DEF Spec
-----------------------------------------------------------------------------
(* Theorems *)

(* However many sessions run, die and start again, on however many turns   *)
(* and models: what a cache file answers is not asked of the model         *)
(* (agent/cache.py CachingModelClient.complete).                           *)
THEOREM SavedIsNotPaidAgain == Spec => []SavedIsNeverPaidAgain
<1>1. IInv => SavedIsNeverPaidAgain
  BY DEF IInv, SessionInv, CacheInv, Known, SavedIsNeverPaidAgain, Idle, Calling
<1>. QED
  BY Invariance, <1>1, PTL

LEMMA CachesAreSound == IInv => TypeOK /\ OneModelPerCache /\ RecordingIsReplayable
<1>. SUFFICES ASSUME IInv PROVE TypeOK /\ OneModelPerCache /\ RecordingIsReplayable
  OBVIOUS
<1>1. TypeOK
  BY AttemptsAreCovered
  DEF IInv, LedgerType, SessionInv, CallInv, CacheInv, IsCache, TypeOK
<1>2. OneModelPerCache
  BY DEF IInv, SessionInv, CacheInv, IsCache, OneModelPerCache
<1>3. RecordingIsReplayable
  BY DEF IInv, SessionInv, BundleInv, Replays, RecordingIsReplayable
<1>. QED
  BY <1>1, <1>2, <1>3

(* In the same generality no cache mixes models, and a bundle replays from *)
(* the cache it was recorded with (agent/cache.py put, freeze.py           *)
(* freeze_case).                                                           *)
THEOREM RecordingsReplay == Spec => [](TypeOK /\ OneModelPerCache /\ RecordingIsReplayable)
  BY Invariance, CachesAreSound, PTL

(* The same with the cost ledger, whose running total is right as long as  *)
(* one session at a time appends to it (agent/budget.py append).           *)
THEOREM RecordsHold == ASSUME Alone PROVE Spec => []RecordsAreSound
<1>1. IInv /\ AloneInv => RecordsAreSound
  BY CachesAreSound DEF AloneInv, LedgerAddsUp, RecordsAreSound
<1>. QED
  BY AloneInvariance, <1>1, PTL

(* "including every retry attempt" (agent/budget.py:3): whatever a call in *)
(* flight has been billed for, the ledger can still take it under the      *)
(* ceiling, for every price, ceiling and number of retries.                *)
THEOREM RetriesAreCovered == ASSUME Alone PROVE Spec => []InFlightIsCovered
<1>1. ASSUME IInv, AloneInv PROVE InFlightIsCovered
  <2>1. ASSUME NEW s \in Sessions, pc[s] \in {"sending", "answered", "appending"}
        PROVE  spent + billed[s] <= LimitUsd
    <3>1. spent + Estimate <= LimitUsd
      BY <1>1, <2>1 DEF AloneInv, Calling, Affordable
    <3>2. billed[s] \in 0 .. Estimate /\ Estimate \in Nat /\ spent \in Nat
      BY <1>1, AttemptsAreCovered DEF IInv, LedgerType
    <3>. QED
      BY <3>1, <3>2, CostsAssumption
  <2>. QED
    BY <2>1 DEF InFlightIsCovered
<1>. QED
  BY AloneInvariance, <1>1, PTL

(* A response whose cost is on the ledger is on disk when its session does *)
(* anything next but die: put never refuses it (agent/cache.py put).       *)
THEOREM PaidAnswersAreSaved == Spec => PaidIsSaved
<1>. DEFINE Saved == \A s \in Sessions :
                       (pc[s] = "recorded" /\ pc'[s] \notin {"recorded", "crashed"})
                         => conv[s] \in DOMAIN cacheFile'[s].entries
<1>1. ASSUME IInv, [Next]_vars PROVE [Saved]_vars
  <2>. SUFFICES ASSUME NEW t \in Sessions, pc[t] = "recorded",
                       pc'[t] \notin {"recorded", "crashed"}, Next
                PROVE  conv[t] \in DOMAIN cacheFile'[t].entries
    BY <1>1
  <2>1. PICK s \in Sessions : \/ \E m \in Models, fresh \in BOOLEAN : Open(s, m, fresh)
                              \/ Proceed(s) \/ Crash(s) \/ CrashInAppend(s)
    BY DEF Next
  <2>2. Domains /\ t \in Sessions
    BY <1>1 DEF IInv
  <2>3. Put(t)
    <3>1. \A m, fresh : ~Open(t, m, fresh)
      BY DEF Open, Idle
    <3>2. ~Crash(t) /\ ~CrashInAppend(t)
      BY <2>2 DEF Crash, CrashInAppend, Set, Domains
    <3>3. Proceed(t) => Put(t)
      BY DEF Proceed, Hit, Authorize, RefuseCall, Succeed, Fail, ReadTotal, AppendRow, Finish
    <3>4. s = t
      <4>. SUFFICES ASSUME s # t PROVE pc'[t] = pc[t]
        OBVIOUS
      <4>. USE <2>2 DEF Set, Domains
      <4>1. ASSUME NEW m \in Models, NEW fresh \in BOOLEAN, Open(s, m, fresh)
            PROVE  pc'[t] = pc[t]
        BY <4>1 DEF Open
      <4>2. Crash(s) \/ CrashInAppend(s) => pc'[t] = pc[t]
        BY DEF Crash, CrashInAppend
      <4>3. Proceed(s) => pc'[t] = pc[t]
        BY DEF Proceed, Hit, Authorize, RefuseCall, Succeed, Fail, ReadTotal, AppendRow,
               Put, Finish
      <4>. QED
        BY <2>1, <4>1, <4>2, <4>3
    <3>. QED
      BY <2>1, <3>1, <3>2, <3>3, <3>4
  <2>4. mem[t].model \in {NoModel, model[t]}
    BY <1>1 DEF IInv, SessionInv, CacheInv, Idle
  <2>. QED
    BY <2>2, <2>3, <2>4 DEF Put, Cached, Set, Domains
<1>2. Spec => [][Saved]_vars
  BY Invariance, <1>1, PTL DEF Spec
<1>. QED
  BY <1>2 DEF PaidIsSaved

-----------------------------------------------------------------------------
(* The budget of steps of a running command. *)
LEMMA Products ==
  ASSUME NEW n \in Nat, NEW m \in Nat, NEW k \in Nat, n <= m
  PROVE  n * k \in Nat /\ m * k \in Nat /\ n * k <= m * k
<1>1. m - n \in Nat /\ m = n + (m - n)
  OBVIOUS
<1>2. \A i, j \in Nat : i * j \in Nat
  OBVIOUS
<1>3. m * k = n * k + (m - n) * k
  BY <1>1
<1>4. (m - n) * k \in Nat /\ n * k \in Nat /\ m * k \in Nat
  BY <1>1, <1>2
<1>. QED
  BY <1>3, <1>4

LEMMA OneTurnFewer ==
  ASSUME NEW n \in Int, NEW k \in Int
  PROVE  (n - 1) * k = n * k - k
  OBVIOUS

LEMMA CallStepsType == CallSteps \in Nat /\ CallSteps = MaxRetries + 5 /\ MaxRetries \in Nat
  BY CostsAssumption DEF CallSteps

(* A call in flight has used less than its turn. *)
LEMMA CallStageType ==
  ASSUME IInv, NEW s \in Sessions, pc[s] \notin Idle
  PROVE  /\ CallStage(s) \in 0 .. MaxRetries + 4
         /\ Turns - Len(conv[s]) \in 0 .. Turns
         /\ CallStage(s) > 0 => Turns - Len(conv[s]) > 0
<1>1. CallInv(s)
  BY DEF IInv, SessionInv
<1>2. conv[s] \in Seq(Response) /\ Len(conv[s]) <= Turns /\ Len(conv[s]) \in Nat
  BY <1>1, KeyIsSeq DEF CallInv
<1>3. Turns - Len(conv[s]) \in 0 .. Turns
  BY <1>2, RunsAssumption
<1>4. CASE pc[s] = "prompt"
  <2>1. CallStage(s) = 0
    BY <1>4 DEF CallStage
  <2>. QED
    BY <1>3, <2>1, CostsAssumption
<1>5. CASE pc[s] \in Calling
  <2>1. attempts[s] \in Nat /\ (pc[s] = "sending" => attempts[s] <= MaxRetries)
    BY <1>1, CostsAssumption DEF CallInv
  <2>2. CallStage(s) \in 0 .. MaxRetries + 4
    <3>1. \/ pc[s] = "sending" /\ CallStage(s) = attempts[s] + 1
          \/ CallStage(s) \in {MaxRetries + 2, MaxRetries + 3, MaxRetries + 4}
      BY <1>5 DEF CallStage, Calling
    <3>. QED
      BY <2>1, <3>1, CostsAssumption
  <2>3. Turns - Len(conv[s]) > 0
    BY <1>1, <1>2, <1>5, RunsAssumption DEF CallInv
  <2>. QED
    BY <1>3, <2>2, <2>3
<1>. QED
  BY <1>1, <1>4, <1>5 DEF CallInv

LEMMA StepsLeftInRange ==
  ASSUME IInv, NEW s \in Sessions
  PROVE  StepsLeft(s) \in 0 .. Turns * CallSteps + 1
<1>1. Turns \in Nat /\ Turns * CallSteps \in Nat
  BY Products, CallStepsType, RunsAssumption
<1>2. CASE pc[s] \in Idle
  BY <1>1, <1>2 DEF StepsLeft
<1>3. CASE pc[s] \notin Idle
  <2>. DEFINE n == Turns - Len(conv[s])
              a == n * CallSteps
              b == Turns * CallSteps
              c == CallStage(s)
  <2>1. n \in 0 .. Turns /\ c \in 0 .. MaxRetries + 4 /\ (c > 0 => n > 0)
    BY <1>3, CallStageType
  <2>2. StepsLeft(s) = a + 1 - c
    BY <1>3 DEF StepsLeft
  <2>. HIDE DEF n, c
  <2>3. a \in Nat /\ b \in Nat /\ a <= b
    BY <1>1, <2>1, Products, CallStepsType
  <2>4. n > 0 => 1 * CallSteps <= a
    BY <1>1, <2>1, Products, CallStepsType
  <2>. HIDE DEF a, b
  <2>5. n > 0 => MaxRetries + 5 <= a
    BY <2>4, CallStepsType
  <2>6. a + 1 - c \in 0 .. b + 1
    BY <2>1, <2>3, <2>5, CallStepsType
  <2>. QED
    BY <2>2, <2>6 DEF b
<1>. QED
  BY <1>2, <1>3

(* A step within a turn reaches a later stage of its call, or ends.        *)
LEMMA StageSpends ==
  ASSUME IInv, IInv', NEW s \in Sessions, pc[s] \notin Idle,
         conv'[s] = conv[s], pc'[s] \notin Idle => CallStage(s)' > CallStage(s)
  PROVE  pc'[s] \notin Idle => StepsLeft(s)' < StepsLeft(s)
<1>. SUFFICES ASSUME pc'[s] \notin Idle PROVE StepsLeft(s)' < StepsLeft(s)
  OBVIOUS
<1>. DEFINE n == Turns - Len(conv[s])
            a == n * CallSteps
            c == CallStage(s)
            d == CallStage(s)'
<1>1. n \in Nat /\ c \in Nat
  BY CallStageType, CostsAssumption, RunsAssumption
<1>2. d \in Nat
  <2>1. attempts'[s] \in Nat
    BY CostsAssumption DEF IInv, SessionInv, CallInv
  <2>2. d \in {0, attempts'[s] + 1, MaxRetries + 2, MaxRetries + 3, MaxRetries + 4}
    BY DEF CallStage
  <2>. HIDE DEF d
  <2>. QED
    BY <2>1, <2>2, CostsAssumption
<1>3. StepsLeft(s) = a + 1 - c /\ StepsLeft(s)' = a + 1 - d /\ d > c
  BY DEF StepsLeft
<1>. HIDE DEF n, c, d
<1>4. a \in Nat
  BY <1>1, Products, CallStepsType
<1>. HIDE DEF a
<1>. QED
  BY <1>1, <1>2, <1>3, <1>4

(* A response that is added, from the cache or the provider, ends its turn. *)
LEMMA TurnSpends ==
  ASSUME IInv, NEW s \in Sessions, pc[s] \notin Idle, Len(conv[s]) < Turns,
         NEW r \in Response, conv'[s] = Append(conv[s], r), pc'[s] = "prompt"
  PROVE  StepsLeft(s)' < StepsLeft(s)
<1>. DEFINE n == Turns - Len(conv[s])
            m == Turns - Len(conv'[s])
            a == n * CallSteps
            b == m * CallSteps
            c == CallStage(s)
<1>1. n \in Nat /\ c \in 0 .. MaxRetries + 4
  BY CallStageType, CostsAssumption, RunsAssumption
<1>2. m = n - 1
  <2>1. conv[s] \in Key
    BY DEF IInv, SessionInv, CallInv
  <2>2. Len(conv'[s]) = Len(conv[s]) + 1 /\ Len(conv[s]) \in Nat
    BY <2>1, AppendKey
  <2>. QED
    BY <2>2, RunsAssumption
<1>3. StepsLeft(s) = a + 1 - c
  BY DEF StepsLeft
<1>4. StepsLeft(s)' = b + 1 - 0
  BY DEF StepsLeft, CallStage, Idle
<1>. HIDE DEF n, m, c
<1>5. a \in Nat /\ b = a - CallSteps
  BY <1>1, <1>2, Products, OneTurnFewer, CallStepsType
<1>. HIDE DEF a, b
<1>. QED
  BY <1>1, <1>3, <1>4, <1>5, CallStepsType

(* A session that is running has something left, and one that ended none. *)
LEMMA EndingSpends ==
  ASSUME IInv, NEW s \in Sessions, pc[s] \notin Idle, pc'[s] \in Idle
  PROVE  StepsLeft(s)' < StepsLeft(s)
<1>. DEFINE n == Turns - Len(conv[s])
            a == n * CallSteps
            c == CallStage(s)
<1>1. n \in Nat /\ c \in 0 .. MaxRetries + 4 /\ (c > 0 => n > 0)
  BY CallStageType, CostsAssumption, RunsAssumption
<1>2. StepsLeft(s) = a + 1 - c /\ StepsLeft(s)' = 0
  BY DEF StepsLeft
<1>. HIDE DEF n, c
<1>3. a \in Nat /\ (n > 0 => 1 * CallSteps <= a)
  BY <1>1, Products, CallStepsType
<1>. HIDE DEF a
<1>4. n > 0 => MaxRetries + 5 <= a
  BY <1>3, CallStepsType
<1>. QED
  BY <1>1, <1>2, <1>3, <1>4, CallStepsType

LEMMA ProceedSpends ==
  ASSUME IInv, IInv', NEW s \in Sessions, Proceed(s)
  PROVE  StepsLeft(s)' < StepsLeft(s)
<1>. USE DEF Domains
<1>1. /\ DOMAIN pc = Sessions /\ DOMAIN conv = Sessions /\ DOMAIN attempts = Sessions
      /\ CallInv(s) /\ CacheInv(s)
  BY DEF IInv, SessionInv
<1>2. pc[s] \notin Idle
  BY DEF Proceed, Hit, Authorize, RefuseCall, Succeed, Fail, ReadTotal, AppendRow, Put,
         Finish, Idle
<1>3. CASE Hit(s)
  <2>1. /\ conv'[s] = Append(conv[s], mem[s].entries[conv[s]])
        /\ pc'[s] = "prompt" /\ Len(conv[s]) < Turns
        /\ mem[s].entries[conv[s]] \in Response
    BY <1>1, <1>3 DEF Hit, Set, Known, CacheInv, IsCache
  <2>. QED
    BY <1>2, <2>1, TurnSpends
<1>4. CASE Authorize(s)
  <2>1. /\ pc[s] = "prompt" /\ pc'[s] = "sending" /\ attempts'[s] = 0 /\ conv'[s] = conv[s]
    BY <1>1, <1>4 DEF Authorize, Set
  <2>2. CallStage(s) = 0 /\ CallStage(s)' = 0 + 1
    BY <2>1 DEF CallStage
  <2>3. CallStage(s)' > CallStage(s)
    BY <2>2
  <2>. QED
    BY <1>2, <2>1, <2>3, StageSpends DEF Idle
<1>5. CASE RefuseCall(s) \/ Finish(s)
  <2>1. pc'[s] \in Idle
    BY <1>1, <1>5 DEF RefuseCall, Finish, Set, Idle
  <2>. QED
    BY <1>2, <2>1, EndingSpends
<1>6. ASSUME NEW cost \in 0 .. AttemptCost, NEW text \in Texts, Succeed(s, text, cost)
      PROVE  StepsLeft(s)' < StepsLeft(s)
  <2>1. /\ pc[s] = "sending" /\ pc'[s] = "answered" /\ conv'[s] = conv[s]
    BY <1>1, <1>6 DEF Succeed, Set, callVars, runVars
  <2>2. attempts[s] \in Nat /\ attempts[s] <= MaxRetries
    BY <1>1, <2>1, CostsAssumption DEF CallInv
  <2>3. CallStage(s) = attempts[s] + 1 /\ CallStage(s)' = MaxRetries + 2
    BY <2>1 DEF CallStage
  <2>4. CallStage(s)' > CallStage(s)
    BY <2>2, <2>3, CostsAssumption
  <2>. QED
    BY <1>2, <2>1, <2>4, StageSpends DEF Idle
<1>7. ASSUME NEW cost \in 0 .. AttemptCost, NEW transient \in BOOLEAN,
             Fail(s, transient, cost)
      PROVE  StepsLeft(s)' < StepsLeft(s)
  <2>1. /\ pc[s] = "sending" /\ pc'[s] \in {"sending", "closed"} /\ conv'[s] = conv[s]
        /\ attempts'[s] = attempts[s] + 1
    BY <1>1, <1>7 DEF Fail, Set
  <2>2. attempts[s] \in Nat
    BY <1>1, CostsAssumption DEF CallInv
  <2>3. CASE pc'[s] = "sending"
    <3>1. CallStage(s) = attempts[s] + 1 /\ CallStage(s)' = attempts[s] + 1 + 1
      BY <2>1, <2>3 DEF CallStage
    <3>2. CallStage(s)' > CallStage(s)
      BY <2>2, <3>1
    <3>. QED
      BY <1>2, <2>1, <2>3, <3>2, StageSpends DEF Idle
  <2>4. CASE pc'[s] = "closed"
    BY <1>2, <2>4, EndingSpends DEF Idle
  <2>. QED
    BY <2>1, <2>3, <2>4
<1>8. CASE ReadTotal(s)
  <2>1. pc[s] = "answered" /\ pc'[s] \in {"appending", "closed"} /\ conv'[s] = conv[s]
    BY <1>1, <1>8 DEF ReadTotal, Set
  <2>2. CASE pc'[s] = "appending"
    <3>1. CallStage(s) = MaxRetries + 2 /\ CallStage(s)' = MaxRetries + 3
      BY <2>1, <2>2 DEF CallStage
    <3>2. CallStage(s)' > CallStage(s)
      BY <3>1, CostsAssumption
    <3>. QED
      BY <1>2, <2>1, <2>2, <3>2, StageSpends DEF Idle
  <2>3. CASE pc'[s] = "closed"
    BY <1>2, <2>3, EndingSpends DEF Idle
  <2>. QED
    BY <2>1, <2>2, <2>3
<1>9. CASE AppendRow(s)
  <2>1. pc[s] = "appending" /\ pc'[s] = "recorded" /\ conv'[s] = conv[s]
    BY <1>1, <1>9 DEF AppendRow, Set
  <2>2. CallStage(s) = MaxRetries + 3 /\ CallStage(s)' = MaxRetries + 4
    BY <2>1 DEF CallStage
  <2>3. CallStage(s)' > CallStage(s)
    BY <2>2, CostsAssumption
  <2>. QED
    BY <1>2, <2>1, <2>3, StageSpends DEF Idle
<1>10. CASE Put(s)
  <2>1. pc[s] = "recorded" /\ pc[s] \in Calling \ {"sending"} /\ pc[s] \in Calling
    BY <1>10 DEF Put, Calling
  <2>2. answer[s].response \in Response /\ Len(conv[s]) < Turns
    BY <1>1, <2>1 DEF CallInv
  <2>3. \/ pc'[s] = "prompt" /\ conv'[s] = Append(conv[s], answer[s].response)
        \/ pc'[s] = "closed"
    BY <1>1, <1>10 DEF Put, Set
  <2>. QED
    BY <1>2, <2>2, <2>3, TurnSpends, EndingSpends DEF Idle
<1>. QED
  BY <1>3, <1>4, <1>5, <1>6, <1>7, <1>8, <1>9, <1>10 DEF Proceed

(* One session's step leaves the others what they had. *)
LEMMA OthersKeepTheirSteps ==
  ASSUME IInv, NEW s \in Sessions, NEW t \in Sessions \ {s},
         \/ \E m \in Models, fresh \in BOOLEAN : Open(s, m, fresh)
         \/ Proceed(s) \/ Crash(s) \/ CrashInAppend(s)
  PROVE  UNCHANGED StepsLeft(t)
<1>. USE DEF Set, Domains
<1>1. DOMAIN pc = Sessions /\ DOMAIN conv = Sessions /\ DOMAIN attempts = Sessions
  BY DEF IInv
<1>2. pc'[t] = pc[t] /\ conv'[t] = conv[t] /\ attempts'[t] = attempts[t]
  <2>1. ASSUME NEW m \in Models, NEW fresh \in BOOLEAN, Open(s, m, fresh)
        PROVE  pc'[t] = pc[t] /\ conv'[t] = conv[t] /\ attempts'[t] = attempts[t]
    BY <1>1, <2>1 DEF Open, callVars
  <2>2. CASE Crash(s) \/ CrashInAppend(s)
    BY <1>1, <2>2 DEF Crash, CrashInAppend, callVars
  <2>3. CASE Hit(s) \/ Authorize(s) \/ RefuseCall(s) \/ Finish(s)
    BY <1>1, <2>3 DEF Hit, Authorize, RefuseCall, Finish, callVars
  <2>4. ASSUME NEW cost \in 0 .. AttemptCost, NEW text \in Texts, Succeed(s, text, cost)
        PROVE  pc'[t] = pc[t] /\ conv'[t] = conv[t] /\ attempts'[t] = attempts[t]
    BY <1>1, <2>4 DEF Succeed
  <2>5. ASSUME NEW cost \in 0 .. AttemptCost, NEW transient \in BOOLEAN,
               Fail(s, transient, cost)
        PROVE  pc'[t] = pc[t] /\ conv'[t] = conv[t] /\ attempts'[t] = attempts[t]
    BY <1>1, <2>5 DEF Fail
  <2>6. CASE ReadTotal(s) \/ AppendRow(s) \/ Put(s)
    BY <1>1, <2>6 DEF ReadTotal, AppendRow, Put, callVars
  <2>. QED
    BY <2>1, <2>2, <2>3, <2>4, <2>5, <2>6 DEF Proceed
<1>3. CallStage(t)' = CallStage(t)
  BY <1>2 DEF CallStage
<1>4. StepsLeft(t)' = StepsLeft(t)
  BY <1>2, <1>3 DEF StepsLeft
<1>. QED
  BY <1>4

(* For any number of sessions and turns and any retry policy: whatever the *)
(* provider answers, a command has a bounded number of steps, and what the *)
(* other sessions do gives it no more.                                     *)
THEOREM SessionsRunOut == Spec => SessionsAreBounded
<1>. DEFINE Spends == \E s \in Sessions :
                        /\ pc[s] \in Idle \/ StepsLeft(s)' < StepsLeft(s)
                        /\ \A t \in Sessions \ {s} : UNCHANGED StepsLeft(t)
<1>1. IInv => \A s \in Sessions : StepsLeft(s) \in 0 .. Turns * CallSteps + 1
  BY StepsLeftInRange
<1>2. IInv /\ IInv' /\ Next => Spends
  <2>. SUFFICES ASSUME IInv, IInv', Next PROVE Spends
    OBVIOUS
  <2>1. PICK s \in Sessions : \/ \E m \in Models, fresh \in BOOLEAN : Open(s, m, fresh)
                              \/ Proceed(s) \/ Crash(s) \/ CrashInAppend(s)
    BY DEF Next
  <2>2. \A t \in Sessions \ {s} : UNCHANGED StepsLeft(t)
    BY <2>1, OthersKeepTheirSteps
  <2>3. (\E m \in Models, fresh \in BOOLEAN : Open(s, m, fresh)) => pc[s] \in Idle
    BY DEF Open
  <2>4. Proceed(s) => StepsLeft(s)' < StepsLeft(s)
    BY ProceedSpends
  <2>5. Crash(s) \/ CrashInAppend(s) => pc[s] \notin Idle /\ pc'[s] \in Idle
    BY DEF Crash, CrashInAppend, Set, IInv, Domains, Idle
  <2>6. Crash(s) \/ CrashInAppend(s) => StepsLeft(s)' < StepsLeft(s)
    BY <2>5, EndingSpends
  <2>. QED
    BY <2>1, <2>2, <2>3, <2>4, <2>6
<1>3. IInv /\ IInv' /\ [Next]_vars => [Spends]_vars
  BY <1>2
<1>. HIDE DEF Spends
<1>4. Spec => [][Spends]_vars
  BY <1>3, Invariance, PTL DEF Spec
<1>5. Spec => [](\A s \in Sessions : StepsLeft(s) \in 0 .. Turns * CallSteps + 1)
  BY <1>1, Invariance, PTL
<1>. QED
  BY <1>4, <1>5 DEF SessionsAreBounded, Spends
=============================================================================
