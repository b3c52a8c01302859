----------------------------- MODULE Gateway_proofs -----------------------------
(***************************************************************************)
(* The request path for any number of handlers, any caps, any queue and     *)
(* cache: a decision answers the request it is used for, and a blocking cap *)
(* is overspent by no more than what is in flight, in the queue or dropped. *)
(***************************************************************************)
EXTENDS Gateway, FiniteSetTheorems, SequenceTheorems, TLAPS

USE DEF Set, Busy, Answered

\* A handler that is not idle holds a request of a scope.
LEMMA RequestScope ==
  ASSUME NEW i \in Input
  PROVE  /\ i.tenant \in Tenant /\ i.project \in Project \cup {NoProject}
         /\ ScopeOf(i) \in Scope
BY GatewayAssumption DEF GatewayAssumption, ScopeOf, Governing, Whole, Scope

\* An event belongs to a scope.
LEMMA EventScope ==
  ASSUME NEW e \in Event
  PROVE  ScopeOf(e) \in Scope /\ e.cost \in 0..MaxCost
BY DEF Event, ScopeOf, Governing, Whole, Scope

-------------------------------------------------------------------------------
(* Requests and the cache. *)

\* Replacing one request keeps the invariant of the requests when the new one has it.
LEMMA OneRequest ==
  ASSUME RequestInv, NEW s \in Slot, NEW r \in Request, Set(s, r),
         r.at # "idle" => r.in \in Input,
         r.at \notin {"idle", "admitted"} => r.policy \in Version,
         r.at \in {"decided", "ready"} =>
            r.dec \in Decision /\ r.dec.made = Question(r) /\ Sound(r.dec),
         r.at # "idle" => (r.over => r.mode = "cheap")
  PROVE  RequestInv'
<1>1. req' \in [Slot -> Request] /\ req'[s] = r /\ \A t \in Slot \ {s} : req'[t] = req[t]
  BY DEF RequestInv, RequestsOK
<1>2. RequestsOK'
  BY <1>1 DEF RequestInv, RequestsOK
<1>3. DecisionIsOwn'
  BY <1>1 DEF RequestInv, DecisionIsOwn, Question
<1>4. (\A t \in Answered : Sound(req[t].dec))'
  BY <1>1 DEF RequestInv, Sound
<1>5. (\A t \in Busy : req[t].over => req[t].mode = "cheap")'
  BY <1>1 DEF RequestInv
<1> QED BY <1>2, <1>3, <1>4, <1>5 DEF RequestInv

\* The key of a request in the cache is the key of its question.
LEMMA KeyIsQuestion ==
  ASSUME NEW r PROVE Key(r) = KeyOf(Question(r))
BY DEF Key, KeyOf, Question

\* Two questions with the same key are the same question.
LEMMA KeyTellsApart ==
  ASSUME NEW q \in [tenant : Tenant, project : Project \cup {NoProject}, mode : Mode,
                    pinned : BOOLEAN, policy : Version],
         NEW p \in [tenant : Tenant, project : Project \cup {NoProject}, mode : Mode,
                    pinned : BOOLEAN, policy : Version],
         KeyOf(q) = KeyOf(p)
  PROVE  q = p
BY DEF KeyOf

\* A request that knows its policy asks a question of the right type.
LEMMA QuestionTyped ==
  ASSUME NEW r \in Request, r.in \in Input, r.policy \in Version
  PROVE  Question(r) \in [tenant : Tenant, project : Project \cup {NoProject}, mode : Mode,
                          pinned : BOOLEAN, policy : Version]
BY GatewayAssumption DEF GatewayAssumption, Question, Request

\* A request passes the budget check.
LEMMA AdmitRequest ==
  ASSUME RequestInv, NEW s \in Slot, NEW i \in Input, Admit(s, i)
  PROVE  RequestInv'
<1> DEFINE over == Check(ScopeOf(i)) = "downgrade"
           r == [Idle EXCEPT !.at = "admitted", !.in = i, !.over = over,
                             !.mode = IF over THEN "cheap" ELSE i.mode]
<1>1. r \in Request
  BY GatewayAssumption DEF GatewayAssumption, Request, Idle, Mode
<1>2. Set(s, r) /\ r.at = "admitted" /\ r.in = i /\ (r.over => r.mode = "cheap")
  BY DEF Admit, Idle
<1> HIDE DEF r
<1> QED BY <1>1, <1>2, OneRequest

\* The policy is looked up.
LEMMA LookedTyped ==
  ASSUME RequestInv, version \in Version, NEW s \in Busy
  PROVE  /\ Looked(s) \in Request
         /\ Looked(s).at = "looked" /\ Looked(s).in = req[s].in /\ Looked(s).in \in Input
         /\ Looked(s).policy \in Version
         /\ Looked(s).over = req[s].over /\ Looked(s).mode = req[s].mode
BY DEF RequestInv, RequestsOK, Looked, Request

\* A lookup that finds nothing, or is not made.
LEMMA MissRequest ==
  ASSUME RequestInv, version \in Version, NEW s \in Slot, CacheMiss(s) \/ CacheBypassed(s)
  PROVE  RequestInv'
<1>1. Set(s, Looked(s)) /\ s \in Busy
  BY DEF CacheMiss, CacheBypassed
<1> QED BY <1>1, LookedTyped, OneRequest DEF RequestInv

\* A hit: what was stored under the key of the question answers it.
LEMMA HitRequest ==
  ASSUME RequestInv, StoreInv, version \in Version, NEW s \in Slot, CacheHit(s)
  PROVE  RequestInv'
<1> DEFINE key == Key(Looked(s))
           dec == entries[key].dec
           r == [Looked(s) EXCEPT !.at = "ready", !.dec = dec]
<1>1. s \in Busy /\ key \in DOMAIN entries /\ Set(s, r)
  BY DEF CacheHit, Hit
<1>2. dec \in Decision /\ KeyOf(dec.made) = key /\ Sound(dec)
  BY <1>1 DEF StoreInv, CacheOK, EntriesMatch
<1>3. key = KeyOf(Question(Looked(s)))
  BY KeyIsQuestion
<1>4. Question(Looked(s)) \in [tenant : Tenant, project : Project \cup {NoProject},
                               mode : Mode, pinned : BOOLEAN, policy : Version]
  BY <1>1, LookedTyped, QuestionTyped
<1>5. dec.made \in [tenant : Tenant, project : Project \cup {NoProject},
                    mode : Mode, pinned : BOOLEAN, policy : Version]
  BY <1>2 DEF Decision
<1> HIDE DEF key, dec
<1>6. dec.made = Question(Looked(s))
  BY <1>2, <1>3, <1>4, <1>5, KeyTellsApart
<1>7. r \in Request /\ Question(r) = Question(Looked(s))
  BY <1>1, <1>2, LookedTyped DEF Request, Question
<1>8. /\ r.at = "ready" /\ r.in \in Input /\ r.policy \in Version /\ r.dec = dec
      /\ r.over = req[s].over /\ r.mode = req[s].mode
  BY <1>1, LookedTyped DEF Request
<1> HIDE DEF r
<1> QED
  BY <1>1, <1>2, <1>6, <1>7, <1>8, OneRequest DEF RequestInv

\* A decision made now answers its own request.
LEMMA DecidedRequest ==
  ASSUME RequestInv, NEW s \in Slot, req[s].at = "looked",
         NEW kind \in {"routed", "refused"}, NEW c \in 0..MaxCost, Decided(s, kind, c),
         req[s].policy \in Blocking /\ req[s].mode # "disabled" => kind = "refused"
  PROVE  RequestInv'
<1> DEFINE dec == [kind |-> kind, cost |-> c, made |-> Question(req[s])]
           r == [req[s] EXCEPT !.at = IF Storable(req[s], kind) THEN "decided" ELSE "ready",
                               !.dec = dec]
<1>1. /\ s \in Busy /\ req[s] \in Request /\ req[s].in \in Input
      /\ req[s].policy \in Version /\ Set(s, r)
  BY DEF RequestInv, RequestsOK, Decided
<1>2. dec \in Decision
  BY <1>1, QuestionTyped DEF Decision
<1>3. Sound(dec)
  BY DEF Sound, Question
<1>4. dec.made = Question(req[s])
  OBVIOUS
<1> HIDE DEF dec
<1>5. r \in Request /\ Question(r) = Question(req[s])
  BY <1>1, <1>2 DEF Request, Question
<1>6. /\ r.at \in {"decided", "ready"} /\ r.in \in Input /\ r.policy \in Version /\ r.dec = dec
      /\ r.over = req[s].over /\ r.mode = req[s].mode
  BY <1>1 DEF Request
<1> HIDE DEF r
<1> QED
  BY <1>1, <1>2, <1>3, <1>4, <1>5, <1>6, OneRequest DEF RequestInv

\* Each way to decide.
LEMMA DecideRequest ==
  ASSUME RequestInv, NEW s \in Slot, Decide(s)
  PROVE  RequestInv'
<1> USE GatewayAssumption DEF GatewayAssumption, Decide
<1>1. CASE DecideDisabled(s)
  BY <1>1, DecidedRequest DEF DecideDisabled
<1>2. CASE DecideBlocked(s)
  BY <1>2, DecidedRequest DEF DecideBlocked
<1>3. CASE DecidePinned(s)
  BY <1>3, DecidedRequest DEF DecidePinned, Evaluated
<1>4. CASE DecideScored(s)
  BY <1>4, DecidedRequest DEF DecideScored, Evaluated
<1> QED BY <1>1, <1>2, <1>3, <1>4

\* Storing the decision changes nothing of the request but where it is.
LEMMA StoreRequest ==
  ASSUME RequestInv, NEW s \in Slot, Store(s)
  PROVE  RequestInv'
<1> DEFINE r == [req[s] EXCEPT !.at = "ready"]
<1>1. s \in Answered /\ req[s] \in Request /\ Set(s, r)
  BY DEF Store, RequestInv, RequestsOK
<1>2. /\ r \in Request /\ r.at = "ready" /\ r.in = req[s].in /\ r.policy = req[s].policy
      /\ r.dec = req[s].dec /\ r.over = req[s].over /\ r.mode = req[s].mode
      /\ Question(r) = Question(req[s])
  BY <1>1 DEF Request, Question
<1>3. req[s].policy \in Version
  BY <1>1 DEF RequestInv, RequestsOK, Store
<1> HIDE DEF r
<1> QED
  BY <1>1, <1>2, <1>3, OneRequest DEF RequestInv, RequestsOK, DecisionIsOwn

\* A request that has sent its event leaves its slot.
LEMMA SendRequest ==
  ASSUME RequestInv, NEW s \in Slot, Send(s)
  PROVE  RequestInv'
<1>1. Idle \in Request /\ Idle.at = "idle"
  BY DEF Idle, Request, Mode
<1>2. Set(s, Idle)
  BY DEF Send
<1> HIDE DEF Set
<1> QED BY <1>1, <1>2, OneRequest

\* No other step touches a request.
LEMMA RequestStep ==
  ASSUME RequestInv, StoreInv, version \in Version, [Next]_vars
  PROVE  RequestInv'
<1>1. ASSUME UNCHANGED req PROVE RequestInv'
  BY <1>1 DEF RequestInv, RequestsOK, DecisionIsOwn, Sound, Question
<1>2. CASE Charge \/ Reload \/ TimePasses \/ UNCHANGED vars
  BY <1>1, <1>2 DEF Charge, Reload, TimePasses, vars
<1>3. ASSUME NEW s \in Slot, HandlerStep(s) PROVE RequestInv'
  BY <1>3, AdmitRequest, HitRequest, MissRequest, DecideRequest, StoreRequest, SendRequest
  DEF HandlerStep
<1> QED BY <1>2, <1>3 DEF Next

\* A cache without new entries keeps its invariant.
LEMMA FewerEntries ==
  ASSUME StoreInv, NEW D \in SUBSET DOMAIN entries, DOMAIN entries' = D,
         \A k \in D : /\ entries'[k].dec = entries[k].dec
                      /\ entries'[k] \in [dec : Decision, left : 0..(TTL + 1)]
  PROVE  StoreInv'
<1>1. IsFiniteSet(D) /\ Cardinality(D) <= MaxEntries
  BY FS_Subset, FS_CardinalityType, CacheAssumption DEF StoreInv, CacheOK, CacheAssumption
<1>2. CacheOK'
  BY <1>1 DEF CacheOK
<1>3. EntriesMatch'
  BY DEF StoreInv, EntriesMatch, Sound
<1> QED BY <1>2, <1>3 DEF StoreInv

\* A stored decision goes under the key of the question it answers, and the cache
\* stays within its size.
LEMMA PutKeepsStore ==
  ASSUME StoreInv, NEW dec \in Decision, Sound(dec), NEW k, k = KeyOf(dec.made), Put(k, dec)
  PROVE  StoreInv'
<1>1. CASE ~Enabled
  BY <1>1 DEF Put, StoreInv, CacheOK, EntriesMatch, Sound
<1>2. CASE Enabled
  <2>1. Room(k) \subseteq DOMAIN entries
    BY DEF Room
  <2>2. /\ DOMAIN entries' = Room(k) \cup {k}
        /\ \A j \in Room(k) \ {k} : entries'[j] = entries[j]
        /\ entries'[k] = Entry(dec)
    BY <1>2 DEF Put
  <2>3. Entry(dec) \in [dec : Decision, left : 0..(TTL + 1)] /\ Entry(dec).dec = dec
    BY CacheAssumption DEF Entry, CacheAssumption
  <2>4. IsFiniteSet(Room(k) \cup {k}) /\ Cardinality(Room(k) \cup {k}) <= MaxEntries
    <3>1. IsFiniteSet(DOMAIN entries) /\ Cardinality(DOMAIN entries) \in Nat
          /\ Cardinality(DOMAIN entries) <= MaxEntries
      BY FS_CardinalityType DEF StoreInv, CacheOK
    <3>2. CASE k \in DOMAIN entries
      <4>1. Room(k) \cup {k} = DOMAIN entries
        BY <3>2 DEF Room
      <4> QED BY <4>1, <3>1
    <3>3. CASE k \notin DOMAIN entries /\ Cardinality(DOMAIN entries) >= MaxEntries
      <4>1. Room(k) \cup {k} = {k}
        BY <3>3 DEF Room
      <4>2. IsFiniteSet({k}) /\ Cardinality({k}) = 1
        BY FS_Singleton
      <4> QED BY <4>1, <4>2, CacheAssumption DEF CacheAssumption
    <3>4. CASE k \notin DOMAIN entries /\ ~(Cardinality(DOMAIN entries) >= MaxEntries)
      <4>1. Room(k) = DOMAIN entries
        BY <3>4 DEF Room
      <4>2. /\ IsFiniteSet(DOMAIN entries \cup {k})
            /\ Cardinality(DOMAIN entries \cup {k}) = Cardinality(DOMAIN entries) + 1
        BY <3>1, <3>4, FS_AddElement
      <4> QED BY <4>1, <4>2, <3>1, <3>4, CacheAssumption DEF CacheAssumption
    <3> QED BY <3>2, <3>3, <3>4
  <2>5. CacheOK'
    BY <2>1, <2>2, <2>3, <2>4 DEF StoreInv, CacheOK
  <2>6. EntriesMatch'
    BY <2>1, <2>2, <2>3 DEF StoreInv, EntriesMatch, Sound
  <2> QED BY <2>5, <2>6 DEF StoreInv
<1> QED BY <1>1, <1>2

\* Every step keeps the cache true.
LEMMA CacheStep ==
  ASSUME RequestInv, StoreInv, [Next]_vars
  PROVE  StoreInv'
<1>1. ASSUME UNCHANGED entries PROVE StoreInv'
  BY <1>1 DEF StoreInv, CacheOK, EntriesMatch, Sound
<1>2. CASE TimePasses
  <2>1. /\ DOMAIN entries' = DOMAIN entries
        /\ \A k \in DOMAIN entries :
             entries'[k] = [entries[k] EXCEPT !.left = IF Fresh(k) THEN @ - 1 ELSE 0]
    BY <1>2 DEF TimePasses, Tick
  <2>2. \A k \in DOMAIN entries :
          /\ entries'[k].dec = entries[k].dec
          /\ entries'[k] \in [dec : Decision, left : 0..(TTL + 1)]
    BY <2>1, CacheAssumption DEF StoreInv, CacheOK, Fresh, CacheAssumption
  <2> QED BY <2>1, <2>2, FewerEntries
<1>3. ASSUME NEW s \in Slot, CacheMiss(s) PROVE StoreInv'
  <2>1. PICK k : Miss(k)
    BY <1>3 DEF CacheMiss
  <2>2. CASE Enabled
    <3>1. /\ DOMAIN entries' = DOMAIN entries \ {k}
          /\ \A j \in DOMAIN entries \ {k} : entries'[j] = entries[j]
      BY <2>1, <2>2 DEF Miss
    <3> QED BY <3>1, FewerEntries DEF StoreInv, CacheOK
  <2> QED BY <2>1, <2>2, <1>1 DEF Miss
<1>4. ASSUME NEW s \in Slot, Store(s) PROVE StoreInv'
  <2>1. /\ req[s].dec \in Decision /\ Sound(req[s].dec)
        /\ Key(req[s]) = KeyOf(req[s].dec.made)
    BY <1>4, KeyIsQuestion DEF RequestInv, RequestsOK, DecisionIsOwn, Store
  <2> QED BY <2>1, <1>4, <1>1, PutKeepsStore DEF Store
<1>5. ASSUME NEW s \in Slot, HandlerStep(s), ~CacheMiss(s), ~Store(s) PROVE UNCHANGED entries
  BY <1>5 DEF HandlerStep, Admit, CacheHit, CacheBypassed, Decide, DecideDisabled,
              DecideBlocked, DecidePinned, DecideScored, Decided, Send
<1>6. CASE Charge \/ Reload \/ UNCHANGED vars
  BY <1>1, <1>6 DEF Charge, Reload, vars
<1> QED BY <1>1, <1>2, <1>3, <1>4, <1>5, <1>6 DEF Next

\* The gateway starts with idle handlers and an empty cache.
LEMMA RequestInit ==
  ASSUME Init PROVE RequestInv /\ StoreInv /\ version \in Version
<1>1. Idle \in Request /\ Idle.at = "idle"
  BY DEF Idle, Request, Mode
<1>2. RequestInv
  BY <1>1 DEF Init, RequestInv, RequestsOK, DecisionIsOwn
<1>3. DOMAIN entries = {}
  BY DEF Init, CacheInit
<1>4. StoreInv
  BY <1>3, FS_EmptySet, CacheAssumption DEF StoreInv, CacheOK, EntriesMatch, CacheAssumption
<1> QED BY <1>2, <1>4 DEF Init

\* The policy is always a known version.
LEMMA VersionStep ==
  ASSUME version \in Version, [Next]_vars
  PROVE  version' \in Version
BY DEF Next, vars, HandlerStep, Charge, Reload, TimePasses, Admit, CacheHit,
       CacheMiss, CacheBypassed, Decide, DecideDisabled, DecideBlocked, DecidePinned,
       DecideScored, Decided, Store, Send

\* Requests and cache are right together: what the cache holds under a key answers every
\* request that asks with that key.
THEOREM RequestsAndCacheAgree == Spec => [](RequestInv /\ StoreInv /\ version \in Version)
<1>1. Init => RequestInv /\ StoreInv /\ version \in Version
  BY RequestInit
<1>2. RequestInv /\ StoreInv /\ version \in Version /\ [Next]_vars
        => (RequestInv /\ StoreInv /\ version \in Version)'
  BY RequestStep, CacheStep, VersionStep
<1> QED BY <1>1, <1>2, PTL DEF Spec

\* Whatever the interleaving of requests, policy reloads and the clock, the decision of a
\* request answers that request.
THEOREM DecisionIsOwnHolds == Spec => []DecisionIsOwn
<1>1. RequestInv => DecisionIsOwn
  BY DEF RequestInv
<1> QED BY <1>1, RequestsAndCacheAgree, PTL

\* No cached decision is used for a request whose policy blocks.
THEOREM CacheBypassesNoBlockHolds == Spec => []CacheBypassesNoBlock
<1>1. ASSUME RequestInv, NEW s \in Answered,
             req[s].policy \in Blocking, req[s].mode # "disabled"
      PROVE  req[s].dec.kind = "refused"
  <2>1. req[s].dec.made = Question(req[s]) /\ Sound(req[s].dec)
    BY <1>1 DEF RequestInv, DecisionIsOwn
  <2>2. req[s].dec.made.policy = req[s].policy /\ req[s].dec.made.mode = req[s].mode
    BY <2>1 DEF Question
  <2> QED BY <1>1, <2>1, <2>2 DEF Sound
<1>2. RequestInv => CacheBypassesNoBlock
  BY <1>1 DEF CacheBypassesNoBlock
<1> QED BY <1>2, RequestsAndCacheAgree, PTL

\* A request over a downgrading cap is decided in cheap mode, cached decision or not.
THEOREM OverBudgetIsCheapHolds == Spec => []OverBudgetIsCheap
<1>1. ASSUME RequestInv, NEW s \in Answered, req[s].over
      PROVE  req[s].dec.made.mode = "cheap"
  <2>1. req[s].dec.made = Question(req[s]) /\ req[s].mode = "cheap"
    BY <1>1 DEF RequestInv, DecisionIsOwn
  <2> QED BY <2>1 DEF Question
<1>2. RequestInv => OverBudgetIsCheap
  BY <1>1 DEF OverBudgetIsCheap
<1> QED BY <1>2, RequestsAndCacheAgree, PTL

-------------------------------------------------------------------------------
(* The queue and the ledger. *)

\* One more event of MaxCost.
LEMMA OneMore ==
  ASSUME NEW m \in Nat, NEW k \in Nat PROVE m * (k + 1) = m * k + m /\ m * k \in Nat
OBVIOUS

\* MaxCost times a larger number is larger.
LEMMA TimesMonotonic ==
  ASSUME NEW m \in Nat, NEW k \in Nat, NEW l \in Nat, k <= l PROVE m * k <= m * l
OBVIOUS

\* The queue's histories, by position.
LEMMA QueueShape ==
  ASSUME QueueOK
  PROVE  /\ Len(waiting) \in Nat /\ DOMAIN waiting = 1..Len(waiting)
         /\ DOMAIN accrued = 1..Len(waiting)
         /\ \A i \in 1..Len(waiting) : waiting[i] \in Event /\ accrued[i] \in [Scope -> Nat]
         /\ \A i \in 0..Len(waiting) : After(i) \in [Scope -> Nat]
BY DEF QueueOK, After

\* What one event adds for a scope.
LEMMA ShareBounds ==
  ASSUME NEW e \in Event, NEW sc
  PROVE  Share(e, sc) \in Nat /\ Share(e, sc) <= MaxCost
BY EventScope, GatewayAssumption DEF Share, GatewayAssumption

\* An accepted event is the last of those the ledger has still to see.
LEMMA AcceptLedger ==
  ASSUME LedgerInv, NEW e \in Event, Accept(e), UNCHANGED spent
  PROVE  LedgerInv'
<1>0. PICK n \in Nat : n = Len(waiting)
  BY QueueShape DEF LedgerInv
<1>1. /\ waiting \in Seq(Event) /\ n \in Nat /\ Len(waiting) = n /\ accrued \in Seq([Scope -> Nat])
      /\ Len(accrued) = n /\ owed \in [Scope -> Nat] /\ spent \in [Scope -> Nat]
      /\ DOMAIN waiting = 1..n
      /\ \A i \in 1..n : accrued[i] \in [Scope -> Nat]
      /\ \A i \in 0..n : After(i) \in [Scope -> Nat]
  BY <1>0, QueueShape DEF LedgerInv, QueueOK
<1>2. /\ waiting' = Append(waiting, e) /\ accrued' = Append(accrued, owed)
      /\ n <= Size /\ Size \in Nat /\ MaxCost \in Nat
  BY <1>0, GatewayAssumption DEF Accept, GatewayAssumption
<1>3. /\ waiting' \in Seq(Event) /\ Len(waiting') = n + 1 /\ DOMAIN waiting' = 1..(n + 1)
      /\ \A i \in 1..n : waiting'[i] = waiting[i]
      /\ waiting'[n + 1] = e
  BY <1>1, <1>2
<1>4. /\ accrued' \in Seq([Scope -> Nat]) /\ Len(accrued') = n + 1
      /\ \A i \in 1..n : accrued'[i] = accrued[i]
      /\ accrued'[n + 1] = owed
  BY <1>1, <1>2
<1>5. ScopeOf(e) \in Scope /\ e.cost \in Nat
  BY EventScope, <1>2
<1>6. /\ owed' \in [Scope -> Nat]
      /\ \A sc \in Scope : owed'[sc] = owed[sc] + Share(e, sc)
  BY <1>1, <1>5 DEF Accept, Share
<1>7. (\A i \in 0..n : After(i)' = After(i)) /\ After(n + 1)' = owed'
  <2>1. ASSUME NEW i \in 0..n, i # n PROVE After(i)' = After(i)
    <3>1. i + 1 \in 1..n /\ i # n + 1
      BY <1>1, <2>1
    <3> QED BY <2>1, <3>1, <1>1, <1>3, <1>4 DEF After
  <2>2. n # n + 1 /\ After(n)' = After(n)
    BY <1>1, <1>3, <1>4 DEF After
  <2>3. After(n + 1)' = owed'
    BY <1>3 DEF After
  <2> QED BY <2>1, <2>2, <2>3
<1>8. QueueOK'
  BY <1>1, <1>2, <1>3, <1>4, <1>6 DEF QueueOK
<1>9. ASSUME NEW sc \in Scope, NEW i \in 1..n
      PROVE  /\ After(i)'[sc] <= accrued'[i][sc] + Share(waiting'[i], sc)
             /\ owed'[sc] <= accrued'[i][sc] + MaxCost * ((n + 1) - i + 1)
  <2>1. /\ After(i)[sc] <= accrued[i][sc] + Share(waiting[i], sc)
        /\ owed[sc] <= accrued[i][sc] + MaxCost * (n - i + 1)
    BY <1>1 DEF LedgerInv, LedgerBehind
  <2>2. /\ After(i)' = After(i) /\ accrued'[i] = accrued[i] /\ waiting'[i] = waiting[i]
        /\ owed'[sc] = owed[sc] + Share(e, sc)
    BY <1>1, <1>3, <1>4, <1>6, <1>7
  <2>3. n - i + 1 \in Nat /\ (n + 1) - i + 1 = (n - i + 1) + 1
    BY <1>1
  <2>4. MaxCost * ((n + 1) - i + 1) = MaxCost * (n - i + 1) + MaxCost
        /\ MaxCost * (n - i + 1) \in Nat
    BY <2>3, <1>2, OneMore
  <2>5. owed[sc] \in Nat /\ accrued[i][sc] \in Nat
        /\ Share(e, sc) \in Nat /\ Share(e, sc) <= MaxCost
    BY <1>1, ShareBounds
  <2>6. PICK m \in Nat : m = MaxCost * (n - i + 1)
    BY <2>4
  <2>7. MaxCost * ((n + 1) - i + 1) = m + MaxCost
    BY <2>4, <2>6
  <2>8. owed'[sc] <= accrued'[i][sc] + MaxCost * ((n + 1) - i + 1)
    <3>1. owed[sc] <= accrued[i][sc] + m
      BY <2>1, <2>6
    <3>2. owed[sc] + Share(e, sc) <= accrued[i][sc] + (m + MaxCost)
      BY <3>1, <2>5, <2>6, <1>2
    <3> QED BY <3>2, <2>2, <2>7
  <2> QED BY <2>1, <2>2, <2>8
<1>10. ASSUME NEW sc \in Scope
       PROVE  /\ After(n + 1)'[sc] <= accrued'[n + 1][sc] + Share(waiting'[n + 1], sc)
              /\ owed'[sc] <= accrued'[n + 1][sc] + MaxCost * ((n + 1) - (n + 1) + 1)
  <2>1. owed[sc] \in Nat /\ Share(e, sc) \in Nat /\ Share(e, sc) <= MaxCost
    BY <1>1, ShareBounds
  <2>2. (n + 1) - (n + 1) + 1 = 1 /\ MaxCost * 1 = MaxCost
    BY <1>1, <1>2
  <2>3. /\ After(n + 1)' = owed' /\ owed'[sc] = owed[sc] + Share(e, sc)
        /\ accrued'[n + 1] = owed /\ waiting'[n + 1] = e
    BY <1>3, <1>4, <1>6, <1>7
  <2>4. Share(waiting'[n + 1], sc) = Share(e, sc)
    BY <2>3
  <2>5. owed'[sc] <= owed[sc] + Share(e, sc) /\ owed'[sc] <= owed[sc] + MaxCost
    BY <2>1, <2>3, <1>2
  <2>6. owed'[sc] <= owed[sc] + MaxCost * ((n + 1) - (n + 1) + 1)
    BY <2>2, <2>5
  <2> QED BY <2>3, <2>4, <2>5, <2>6
<1>11. \A sc \in Scope : After(0)'[sc] <= spent'[sc]
  BY <1>1, <1>7 DEF LedgerInv, LedgerBehind
<1>12. \A i \in 1..(n + 1) : i \in 1..n \/ i = n + 1
  BY <1>1
<1>13. LedgerBehind'
  <2> SUFFICES ASSUME NEW sc \in Scope, NEW i \in 1..(n + 1)
               PROVE  /\ After(i)'[sc] <= accrued'[i][sc] + Share(waiting'[i], sc)
                      /\ owed'[sc] <= accrued'[i][sc] + MaxCost * ((n + 1) - i + 1)
    BY <1>3, <1>11 DEF LedgerBehind, Share, ScopeOf, Governing, Whole
  <2>1. CASE i \in 1..n
    BY <2>1, <1>9
  <2>2. CASE i = n + 1
    BY <2>2, <1>10
  <2> QED BY <2>1, <2>2, <1>12
<1> QED BY <1>8, <1>13 DEF LedgerInv

\* The ledger catches up with the oldest event.
LEMMA ChargeLedger ==
  ASSUME LedgerInv, Charge
  PROVE  LedgerInv'
<1> DEFINE n == Len(waiting)
           e == waiting[1]
<1>1. /\ waiting \in Seq(Event) /\ n \in Nat /\ n > 0 /\ accrued \in Seq([Scope -> Nat])
      /\ Len(accrued) = n /\ owed \in [Scope -> Nat] /\ spent \in [Scope -> Nat]
      /\ DOMAIN waiting = 1..n /\ n <= Size + 1
      /\ \A i \in 1..n : accrued[i] \in [Scope -> Nat]
      /\ \A i \in 0..n : After(i) \in [Scope -> Nat]
      /\ Size \in Nat /\ MaxCost \in Nat
  BY QueueShape, GatewayAssumption DEF LedgerInv, QueueOK, Charge, GatewayAssumption
<1>2. /\ waiting' = Tail(waiting) /\ accrued' = Tail(accrued) /\ owed' = owed
      /\ Add(e.tenant, e.project, e.cost)
  BY <1>1 DEF Charge
<1>3. /\ waiting' \in Seq(Event) /\ Len(waiting') = n - 1 /\ DOMAIN waiting' = 1..(n - 1)
      /\ \A i \in 1..(n - 1) : waiting'[i] = waiting[i + 1]
  BY <1>1, <1>2
<1>4. /\ accrued' \in Seq([Scope -> Nat]) /\ Len(accrued') = n - 1
      /\ \A i \in 1..(n - 1) : accrued'[i] = accrued[i + 1]
  BY <1>1, <1>2
<1>5. e \in Event /\ ScopeOf(e) \in Scope /\ e.cost \in Nat
      /\ ScopeOf(e) \in Charged(e.tenant, e.project)
  BY <1>1, EventScope DEF ScopeOf, Governing, Charged
<1>6. /\ spent' \in [Scope -> Nat]
      /\ \A sc \in Scope : spent'[sc] >= spent[sc] + Share(e, sc)
  <2> HIDE DEF e
  <2>1. spent' = [sc \in Scope |-> IF sc \in Charged(e.tenant, e.project)
                                   THEN spent[sc] + e.cost ELSE spent[sc]]
    BY <1>2 DEF Add
  <2>2. ASSUME NEW sc \in Scope
        PROVE  spent'[sc] \in Nat /\ spent'[sc] >= spent[sc] + Share(e, sc)
    <3>1. spent[sc] \in Nat
      BY <1>1
    <3>2. CASE sc = ScopeOf(e)
      BY <2>1, <3>1, <3>2, <1>5 DEF Share
    <3>3. CASE sc # ScopeOf(e)
      BY <2>1, <3>1, <3>3, <1>5 DEF Share
    <3> QED BY <3>2, <3>3
  <2> QED BY <2>1, <2>2
<1>7. \A i \in 0..(n - 1) : After(i)' = After(i + 1)
  BY <1>1, <1>2, <1>3, <1>4 DEF After
<1>8. QueueOK'
  BY <1>1, <1>2, <1>3, <1>4, <1>6 DEF QueueOK
<1>9. ASSUME NEW sc \in Scope, NEW i \in 1..(n - 1)
      PROVE  /\ After(i)'[sc] <= accrued'[i][sc] + Share(waiting'[i], sc)
             /\ owed'[sc] <= accrued'[i][sc] + MaxCost * ((n - 1) - i + 1)
  <2>1. i + 1 \in 1..n /\ (n - 1) - i + 1 = n - (i + 1) + 1
    BY <1>1
  <2>2. /\ After(i + 1)[sc] <= accrued[i + 1][sc] + Share(waiting[i + 1], sc)
        /\ owed[sc] <= accrued[i + 1][sc] + MaxCost * (n - (i + 1) + 1)
    BY <2>1, <1>1 DEF LedgerInv, LedgerBehind
  <2>3. After(i)' = After(i + 1) /\ accrued'[i] = accrued[i + 1]
        /\ waiting'[i] = waiting[i + 1]
    BY <1>3, <1>4, <1>7
  <2> QED BY <2>1, <2>2, <2>3, <1>2
<1>10. ASSUME NEW sc \in Scope PROVE After(0)'[sc] <= spent'[sc]
  <2>0. 1 \in 1..n /\ 0 \in 0..(n - 1) /\ 0 # n /\ 0 + 1 = 1
    BY <1>1
  <2>1. After(1)[sc] <= accrued[1][sc] + Share(e, sc) /\ After(0)[sc] <= spent[sc]
    BY <2>0, <1>1 DEF LedgerInv, LedgerBehind
  <2>2. After(0) = accrued[1] /\ After(0)' = After(1)
    <3>1. After(0) = accrued[1]
      BY <2>0 DEF After
    <3>2. After(0)' = After(0 + 1)
      BY <2>0, <1>7
    <3> QED BY <3>1, <3>2, <2>0
  <2>3. /\ After(1)[sc] \in Nat /\ accrued[1][sc] \in Nat /\ spent[sc] \in Nat
        /\ Share(e, sc) \in Nat /\ spent'[sc] \in Nat
    BY <1>1, <1>5, <1>6, ShareBounds
  <2>4. spent'[sc] >= spent[sc] + Share(e, sc)
    BY <1>6
  <2> HIDE DEF e
  <2> QED BY <2>1, <2>2, <2>3, <2>4
<1>11. LedgerBehind'
  BY <1>3, <1>9, <1>10 DEF LedgerBehind
<1> QED BY <1>8, <1>11 DEF LedgerInv

\* Every step keeps the ledger behind what is owed by the waiting events only.
LEMMA LedgerStep ==
  ASSUME RequestInv, LedgerInv, [Next]_vars
  PROVE  LedgerInv'
<1>1. ASSUME UNCHANGED <<queueVars, spent>> PROVE LedgerInv'
  BY <1>1 DEF LedgerInv, QueueOK, LedgerBehind, After, Share, queueVars
<1>2. ASSUME NEW s \in Slot, Send(s) PROVE LedgerInv'
  <2>1. EventOf(req[s]) \in Event
    BY <1>2, RequestScope DEF Send, RequestInv, RequestsOK, EventOf, Event, Decision
  <2>2. UNCHANGED spent
    BY <1>2 DEF Send
  <2>3. CASE Drop(EventOf(req[s]))
    BY <2>2, <2>3 DEF Drop, LedgerInv, QueueOK, LedgerBehind, After, Share
  <2> QED BY <2>1, <2>2, <2>3, <1>2, AcceptLedger DEF Send
<1>3. ASSUME NEW s \in Slot, HandlerStep(s), ~Send(s) PROVE UNCHANGED <<queueVars, spent>>
  BY <1>3 DEF HandlerStep, Admit, CacheHit, CacheMiss, CacheBypassed, Decide, DecideDisabled,
              DecideBlocked, DecidePinned, DecideScored, Decided, Store, queueVars
<1>4. CASE Reload \/ TimePasses \/ UNCHANGED vars
  BY <1>1, <1>4 DEF Reload, TimePasses, vars
<1> QED BY <1>1, <1>2, <1>3, <1>4, ChargeLedger DEF Next

\* At the start nothing is owed and nothing in flight.
LEMMA LedgerStart ==
  ASSUME Init PROVE LedgerInv
<1>1. waiting = <<>> /\ accrued = <<>> /\ owed = [sc \in Scope |-> 0]
      /\ spent = [sc \in Scope |-> 0] /\ Size \in Nat
  BY GatewayAssumption DEF Init, LedgerInit, GatewayAssumption
<1>2. QueueOK
  BY <1>1 DEF QueueOK
<1>3. LedgerBehind
  BY <1>1 DEF LedgerBehind, After
<1> QED BY <1>2, <1>3 DEF LedgerInv

\* What is owed is in the ledger but for a queue and a worker full of events.
LEMMA LedgerLag ==
  ASSUME LedgerInv, NEW sc \in Scope
  PROVE  owed[sc] <= spent[sc] + MaxCost * (Size + 1)
<1>1. PICK n \in Nat : n = Len(waiting)
  BY QueueShape DEF LedgerInv
<1>2. /\ n <= Size + 1 /\ Size \in Nat /\ MaxCost \in Nat /\ DOMAIN waiting = 1..n
      /\ owed[sc] \in Nat /\ spent[sc] \in Nat
      /\ \A i \in 1..n : accrued[i][sc] \in Nat
  BY <1>1, QueueShape, GatewayAssumption DEF LedgerInv, QueueOK, GatewayAssumption
<1>3. MaxCost * (Size + 1) \in Nat /\ MaxCost * n \in Nat /\ MaxCost * n <= MaxCost * (Size + 1)
  <2>1. Size + 1 \in Nat
    BY <1>2
  <2> QED BY <2>1, <1>1, <1>2, TimesMonotonic, OneMore
<1>4. After(0)[sc] <= spent[sc]
  BY DEF LedgerInv, LedgerBehind
<1>5. CASE n = 0
  BY <1>1, <1>2, <1>3, <1>4, <1>5 DEF After
<1>6. CASE n # 0
  <2>1. 1 \in 1..n /\ n - 1 + 1 = n /\ 0 + 1 = 1 /\ 0 # n
    BY <1>1, <1>6
  <2>2. owed[sc] <= accrued[1][sc] + MaxCost * n
    BY <2>1, <1>1, <1>2 DEF LedgerInv, LedgerBehind
  <2>3. After(0) = accrued[1]
    BY <2>1, <1>1 DEF After
  <2> QED BY <2>1, <2>2, <2>3, <1>2, <1>3, <1>4
<1> QED BY <1>5, <1>6

\* Sets of slots can be counted.
LEMMA SlotsCounted ==
  ASSUME NEW S \in SUBSET Slot
  PROVE  /\ IsFiniteSet(S) /\ Cardinality(S) \in Nat /\ Cardinality(Slot) \in Nat
         /\ Cardinality(S) <= Cardinality(Slot)
BY FS_Subset, FS_CardinalityType, GatewayAssumption DEF GatewayAssumption

\* A slot that leaves a set of slots.
LEMMA OneLess ==
  ASSUME NEW S \in SUBSET Slot, NEW s \in S
  PROVE  Cardinality(S \ {s}) = Cardinality(S) - 1
BY SlotsCounted, FS_RemoveElement

\* The request of a handler keeps its scope from the budget check to the event.
LEMMA HandlerKeepsScope ==
  ASSUME RequestInv, NEW s \in Slot, HandlerStep(s), ~Send(s),
         \A i \in Input : ~Admit(s, i), NEW sc
  PROVE  Handled(sc)' = Handled(sc) /\ UNCHANGED owed
<1>1. /\ req'[s].at # "idle" /\ req'[s].in = req[s].in
      /\ \A t \in Slot \ {s} : req'[t] = req[t]
  <2>1. req[s] \in Request /\ req \in [Slot -> Request]
    BY DEF RequestInv, RequestsOK
  <2>2. CASE CacheHit(s)
    BY <2>1, <2>2 DEF CacheHit, Looked, Request
  <2>3. CASE CacheMiss(s) \/ CacheBypassed(s)
    BY <2>1, <2>3 DEF CacheMiss, CacheBypassed, Looked, Request
  <2>4. ASSUME NEW kind, NEW c, Decided(s, kind, c)
        PROVE  /\ req'[s].at # "idle" /\ req'[s].in = req[s].in
               /\ \A t \in Slot \ {s} : req'[t] = req[t]
    BY <2>1, <2>4 DEF Decided, Request
  <2>5. CASE Decide(s)
    <3> HIDE DEF Set
    <3> QED BY <2>4, <2>5 DEF Decide, DecideDisabled, DecideBlocked, DecidePinned, DecideScored
  <2>6. CASE Store(s)
    BY <2>1, <2>6 DEF Store, Request
  <2> QED BY <2>2, <2>3, <2>5, <2>6 DEF HandlerStep
<1>2. req[s].at # "idle"
  BY DEF HandlerStep, CacheHit, CacheMiss, CacheBypassed, Decide, Store
<1>3. Handled(sc)' = Handled(sc)
  BY <1>1, <1>2 DEF Handled, ScopeOf
<1>4. UNCHANGED owed
  BY DEF HandlerStep, CacheHit, CacheMiss, CacheBypassed, Decide, DecideDisabled,
         DecideBlocked, DecidePinned, DecideScored, Decided, Store, queueVars
<1> QED BY <1>3, <1>4

\* A blocking cap admits a request only while the ledger is below its limit.
LEMMA AdmitBounded ==
  ASSUME RequestInv, LedgerInv, NEW s \in Slot, NEW i \in Input, Admit(s, i),
         NEW sc \in DOMAIN Cap, Limited(sc), Cap[sc].action = "block", ScopeOf(i) = sc
  PROVE  (owed[sc] + MaxCost * InFlight(sc))'
            <= Cap[sc].limit - 1 + MaxCost * (Size + 1 + Cardinality(Slot))
<1>1. sc \in Scope /\ Cap[sc].limit \in Nat /\ Size \in Nat /\ MaxCost \in Nat
  BY CapAssumption, GatewayAssumption DEF CapAssumption, GatewayAssumption
<1>2. spent[sc] \in Nat /\ owed[sc] \in Nat /\ owed' = owed
  BY <1>1 DEF LedgerInv, QueueOK, Admit, queueVars
<1>3. spent[sc] < Cap[sc].limit
  BY <1>1, <1>2 DEF Admit, Check, Over
<1>4. owed[sc] <= spent[sc] + MaxCost * (Size + 1)
  BY <1>1, LedgerLag
<1>5. PICK c \in Nat, m \in Nat : c = InFlight(sc)' /\ m = Cardinality(Slot) /\ c <= m
  <2>1. Handled(sc)' \in SUBSET Slot
    BY DEF Handled
  <2> QED BY <2>1, SlotsCounted DEF InFlight
<1>6. MaxCost * c <= MaxCost * m /\ MaxCost * c \in Nat /\ MaxCost * m \in Nat
  BY <1>1, <1>5, TimesMonotonic, OneMore
<1>7. MaxCost * (Size + 1 + m) = MaxCost * (Size + 1) + MaxCost * m
      /\ MaxCost * (Size + 1) \in Nat
  BY <1>1, <1>5
<1> QED BY <1>1, <1>2, <1>3, <1>4, <1>5, <1>6, <1>7

\* An event adds to what is owed no more than its request had in flight.
LEMMA SendBounded ==
  ASSUME RequestInv, LedgerInv, NEW s \in Slot, Send(s), NEW sc \in Scope
  PROVE  (owed[sc] + MaxCost * InFlight(sc))' <= owed[sc] + MaxCost * InFlight(sc)
<1> DEFINE e == EventOf(req[s])
<1>1. /\ e \in Event /\ ScopeOf(e) = ScopeOf(req[s].in) /\ s \in Busy
      /\ req \in [Slot -> Request]
  BY RequestScope
  DEF Send, RequestInv, RequestsOK, EventOf, Event, Decision, ScopeOf
<1>2. Handled(sc)' = Handled(sc) \ {s}
  BY <1>1 DEF Send, Handled, Idle, ScopeOf
<1>3. /\ owed[sc] \in Nat /\ owed'[sc] \in Nat /\ MaxCost \in Nat
      /\ owed'[sc] <= owed[sc] + Share(e, sc)
  <2>1. owed \in [Scope -> Nat] /\ MaxCost \in Nat /\ ScopeOf(e) \in Scope /\ e.cost \in Nat
    BY <1>1, EventScope, GatewayAssumption DEF LedgerInv, QueueOK, GatewayAssumption
  <2>2. CASE Accept(e)
    BY <2>1, <2>2 DEF Accept, Share
  <2>3. CASE Drop(e)
    BY <2>1, <2>3 DEF Drop, Share
  <2> QED BY <2>2, <2>3 DEF Send
<1>4. Handled(sc) \in SUBSET Slot /\ InFlight(sc) \in Nat
  <2>1. Handled(sc) \in SUBSET Slot
    BY DEF Handled
  <2> QED BY <2>1, SlotsCounted DEF InFlight
<1>5. CASE ScopeOf(e) = sc
  <2>1. s \in Handled(sc)
    BY <1>1, <1>5 DEF Handled
  <2>2. PICK c \in Nat : c = InFlight(sc)' /\ InFlight(sc) = c + 1
    <3>1. Cardinality(Handled(sc) \ {s}) = Cardinality(Handled(sc)) - 1
      BY <2>1, <1>4, OneLess
    <3>2. Handled(sc) \ {s} \in SUBSET Slot
      BY <1>4
    <3> QED BY <3>1, <3>2, <1>2, <1>4, SlotsCounted DEF InFlight
  <2>3. MaxCost * (c + 1) = MaxCost * c + MaxCost /\ MaxCost * c \in Nat
    BY <1>3, OneMore
  <2>4. Share(e, sc) \in Nat /\ Share(e, sc) <= MaxCost
    BY <1>1, ShareBounds
  <2> HIDE DEF e
  <2> QED BY <2>2, <2>3, <2>4, <1>3
<1>6. CASE ScopeOf(e) # sc
  <2>1. s \notin Handled(sc) /\ Share(e, sc) = 0
    BY <1>1, <1>6 DEF Handled, Share
  <2>2. InFlight(sc)' = InFlight(sc)
    BY <2>1, <1>2 DEF InFlight
  <2>3. MaxCost * InFlight(sc) \in Nat
    BY <1>3, <1>4, OneMore
  <2> HIDE DEF e
  <2> QED BY <2>1, <2>2, <2>3, <1>3
<1> QED BY <1>5, <1>6

\* Every step keeps the overspend within what can be in flight and in the queue.
LEMMA OverspendStep ==
  ASSUME RequestInv, LedgerInv, ChargesBounded, [Next]_vars
  PROVE  ChargesBounded'
<1> SUFFICES ASSUME NEW sc \in DOMAIN Cap, Limited(sc), Cap[sc].action = "block"
             PROVE  (owed[sc] + MaxCost * InFlight(sc))'
                      <= Cap[sc].limit - 1 + MaxCost * (Size + 1 + Cardinality(Slot))
  BY DEF ChargesBounded
<1> DEFINE bound == Cap[sc].limit - 1 + MaxCost * (Size + 1 + Cardinality(Slot))
           used == owed[sc] + MaxCost * InFlight(sc)
<1>1. used <= bound
  BY DEF ChargesBounded
<1>2. sc \in Scope
  BY CapAssumption DEF CapAssumption
<1>3. CASE UNCHANGED <<req, owed>>
  <2>1. used' = used
    BY <1>3 DEF InFlight, Handled, ScopeOf
  <2> QED BY <2>1, <1>1
<1>4. CASE Charge \/ Reload \/ TimePasses \/ UNCHANGED vars
  BY <1>3, <1>4 DEF Charge, Reload, TimePasses, queueVars, vars
<1>5. ASSUME NEW s \in Slot, NEW i \in Input, Admit(s, i) PROVE used' <= bound
  <2>1. CASE ScopeOf(i) = sc
    BY <2>1, <1>5, AdmitBounded
  <2>2. CASE ScopeOf(i) # sc
    <3>1. Handled(sc)' = Handled(sc)
      BY <1>5, <2>2 DEF Admit, Handled, ScopeOf, Idle, RequestInv, RequestsOK
    <3>2. owed' = owed
      BY <1>5 DEF Admit, queueVars
    <3>3. used' = used
      BY <3>1, <3>2 DEF InFlight
    <3> QED BY <3>3, <1>1
  <2> QED BY <2>1, <2>2
<1>6. ASSUME NEW s \in Slot, Send(s) PROVE used' <= bound
  <2>1. used' <= used
    BY <1>2, <1>6, SendBounded
  <2>2. used \in Int /\ used' \in Int /\ bound \in Int
    <3>1. owed[sc] \in Int /\ owed'[sc] \in Int /\ MaxCost \in Int /\ Size \in Int
          /\ Cap[sc].limit \in Int
      BY <1>2, <1>6, LedgerStep, CapAssumption, GatewayAssumption
      DEF Next, HandlerStep, LedgerInv, QueueOK, CapAssumption, GatewayAssumption
    <3>2. Handled(sc) \in SUBSET Slot /\ Handled(sc)' \in SUBSET Slot
      BY DEF Handled
    <3>3. InFlight(sc) \in Int /\ InFlight(sc)' \in Int /\ Cardinality(Slot) \in Int
      BY <3>2, SlotsCounted DEF InFlight
    <3> QED BY <3>1, <3>3
  <2> HIDE DEF used, bound
  <2> QED BY <2>1, <2>2, <1>1
<1>7. ASSUME NEW s \in Slot, HandlerStep(s), ~Send(s), \A i \in Input : ~Admit(s, i)
      PROVE  used' <= bound
  <2>1. used' = used
    BY <1>7, HandlerKeepsScope DEF InFlight
  <2> QED BY <2>1, <1>1
<1>8. ASSUME NEW s \in Slot, HandlerStep(s) PROVE used' <= bound
  <2> HIDE DEF used, bound
  <2>1. CASE \E i \in Input : Admit(s, i)
    BY <2>1, <1>5
  <2>2. CASE Send(s)
    BY <2>2, <1>6
  <2> QED BY <1>8, <1>7, <2>1, <2>2
<1> QED BY <1>4, <1>8 DEF Next

\* The bound holds before anything is admitted.
LEMMA OverspendStart ==
  ASSUME Init PROVE ChargesBounded
<1> SUFFICES ASSUME NEW sc \in DOMAIN Cap, Limited(sc)
             PROVE  owed[sc] + MaxCost * InFlight(sc)
                      <= Cap[sc].limit - 1 + MaxCost * (Size + 1 + Cardinality(Slot))
  BY DEF ChargesBounded
<1>1. sc \in Scope /\ Cap[sc].limit \in Nat /\ Cap[sc].limit > 0
      /\ Size \in Nat /\ MaxCost \in Nat
  BY CapAssumption, GatewayAssumption DEF CapAssumption, GatewayAssumption, Limited
<1>2. owed[sc] = 0 /\ Handled(sc) = {}
  BY <1>1 DEF Init, Handled, Idle
<1>3. InFlight(sc) = 0
  BY <1>2, FS_EmptySet DEF InFlight
<1>4. Cardinality(Slot) \in Nat
  BY FS_CardinalityType, GatewayAssumption DEF GatewayAssumption
<1>5. MaxCost * (Size + 1 + Cardinality(Slot)) \in Nat /\ MaxCost * 0 = 0
  BY <1>1, <1>4
<1> QED BY <1>1, <1>2, <1>3, <1>5

\* Every decision's cost is owed or lost with its event.
LEMMA CostsStep ==
  ASSUME RequestInv, LedgerInv, CostsInv, [Next]_vars
  PROVE  CostsInv'
<1>1. ASSUME UNCHANGED <<owed, incurred, dropped>> PROVE CostsInv'
  BY <1>1 DEF CostsInv, CostsOK
<1>2. CASE Charge \/ Reload \/ TimePasses \/ UNCHANGED vars
  BY <1>1, <1>2 DEF Charge, Reload, TimePasses, queueVars, vars
<1>3. ASSUME NEW s \in Slot, HandlerStep(s), ~Send(s) PROVE UNCHANGED <<owed, incurred, dropped>>
  BY <1>3 DEF HandlerStep, Admit, CacheHit, CacheMiss, CacheBypassed, Decide, DecideDisabled,
              DecideBlocked, DecidePinned, DecideScored, Decided, Store, queueVars
<1>4. ASSUME NEW s \in Slot, Send(s) PROVE CostsInv'
  <2> DEFINE e == EventOf(req[s])
  <2>1. e \in Event
    BY <1>4, RequestScope DEF Send, RequestInv, RequestsOK, EventOf, Event, Decision
  <2>2. PICK sc \in Scope, c \in 0..MaxCost : sc = ScopeOf(e) /\ c = e.cost
    BY <2>1, EventScope
  <2>3. /\ owed \in [Scope -> Nat] /\ incurred \in [Scope -> Nat] /\ dropped \in [Scope -> Nat]
        /\ MaxCost \in Nat
        /\ \A d \in Scope : incurred[d] <= owed[d] + MaxCost * dropped[d]
    BY GatewayAssumption DEF LedgerInv, QueueOK, CostsInv, CostsOK, GatewayAssumption
  <2>4. incurred' = [incurred EXCEPT ![sc] = @ + c]
    BY <1>4, <2>2 DEF Send
  <2>5. CASE Accept(e)
    <3>1. owed' = [owed EXCEPT ![sc] = @ + c] /\ dropped' = dropped
      BY <2>2, <2>5 DEF Accept
    <3>2. ASSUME NEW d \in Scope PROVE incurred'[d] <= owed'[d] + MaxCost * dropped'[d]
      <4>1. MaxCost * dropped[d] \in Nat
        BY <2>3
      <4> QED BY <2>3, <2>4, <3>1, <4>1
    <3> QED BY <2>3, <2>4, <3>1, <3>2 DEF CostsInv, CostsOK
  <2>6. CASE Drop(e)
    <3>1. owed' = owed /\ dropped' = [dropped EXCEPT ![sc] = @ + 1]
      BY <2>2, <2>6 DEF Drop
    <3>2. ASSUME NEW d \in Scope PROVE incurred'[d] <= owed'[d] + MaxCost * dropped'[d]
      <4>1. /\ MaxCost * dropped[d] \in Nat
            /\ MaxCost * (dropped[d] + 1) = MaxCost * dropped[d] + MaxCost
        BY <2>3, OneMore
      <4>2. CASE d = sc
        <5>1. incurred'[d] = incurred[d] + c /\ dropped'[d] = dropped[d] + 1 /\ owed'[d] = owed[d]
          BY <2>3, <2>4, <3>1, <4>2
        <5>2. incurred[d] \in Nat /\ owed[d] \in Nat /\ incurred[d] <= owed[d] + MaxCost * dropped[d]
          BY <2>3
        <5> QED BY <2>3, <4>1, <5>1, <5>2
      <4>3. CASE d # sc
        BY <2>3, <2>4, <3>1, <4>3
      <4> QED BY <4>2, <4>3
    <3> QED BY <2>3, <2>4, <3>1, <3>2 DEF CostsInv, CostsOK
  <2> QED BY <1>4, <2>5, <2>6 DEF Send
<1> QED BY <1>1, <1>2, <1>3, <1>4 DEF Next

\* At the start nothing has been decided.
LEMMA CostsStart ==
  ASSUME Init PROVE CostsInv
<1>1. MaxCost \in Nat
  BY GatewayAssumption DEF GatewayAssumption
<1> QED BY <1>1 DEF Init, CostsInv, CostsOK

\* What the ledger can miss and what was dropped make up the whole overspend.
LEMMA OverspendFromCosts ==
  ASSUME LedgerInv, CostsInv, ChargesBounded PROVE OverspendBounded
<1> SUFFICES ASSUME NEW sc \in DOMAIN Cap, Limited(sc), Cap[sc].action = "block"
             PROVE  incurred[sc] + MaxCost * InFlight(sc)
                      <= Cap[sc].limit - 1 + MaxCost * (Size + 1 + Cardinality(Slot))
                           + MaxCost * dropped[sc]
  BY DEF OverspendBounded
<1>1. PICK a \in Nat, b \in Nat, n \in Nat :
        /\ a = MaxCost * InFlight(sc) /\ n = MaxCost * dropped[sc]
        /\ b = MaxCost * (Size + 1 + Cardinality(Slot))
  <2>1. sc \in Scope /\ MaxCost \in Nat /\ Size \in Nat /\ dropped[sc] \in Nat
    BY CapAssumption, GatewayAssumption DEF CapAssumption, GatewayAssumption, CostsInv, CostsOK
  <2>2. Handled(sc) \in SUBSET Slot
    BY DEF Handled
  <2>3. InFlight(sc) \in Nat /\ Size + 1 + Cardinality(Slot) \in Nat
    BY <2>1, <2>2, SlotsCounted DEF InFlight
  <2>4. /\ MaxCost * InFlight(sc) \in Nat /\ MaxCost * dropped[sc] \in Nat
        /\ MaxCost * (Size + 1 + Cardinality(Slot)) \in Nat
    BY <2>1, <2>3, OneMore
  <2> QED BY <2>4
<1>2. sc \in Scope /\ Cap[sc].limit \in Nat /\ owed[sc] \in Nat /\ incurred[sc] \in Nat
  BY CapAssumption DEF CapAssumption, LedgerInv, QueueOK, CostsInv, CostsOK
<1>3. owed[sc] + a <= Cap[sc].limit - 1 + b
  BY <1>1 DEF ChargesBounded
<1>4. incurred[sc] <= owed[sc] + n
  BY <1>1, <1>2 DEF CostsInv
<1> QED BY <1>1, <1>2, <1>3, <1>4

\* However requests, the worker and reloads interleave, a blocking cap is overspent by no
\* more than the events in the queue and at the worker, the requests past the check, and
\* one estimate for each of the scope's decision events that was dropped.
THEOREM OverspendBoundedHolds == Spec => []OverspendBounded
<1>1. Init => LedgerInv /\ CostsInv /\ ChargesBounded
  BY LedgerStart, CostsStart, OverspendStart
<1>2. RequestInv /\ LedgerInv /\ CostsInv /\ ChargesBounded /\ [Next]_vars
        => LedgerInv' /\ CostsInv' /\ ChargesBounded'
  BY LedgerStep, CostsStep, OverspendStep
<1>3. LedgerInv /\ CostsInv /\ ChargesBounded => OverspendBounded
  BY OverspendFromCosts
<1> QED BY <1>1, <1>2, <1>3, RequestsAndCacheAgree, PTL DEF Spec

\* Every variable keeps its type; the cache its size and the queue its capacity.
THEOREM TypeCorrect == Spec => []TypeOK
<1>1. Init => LedgerInv /\ CostsInv /\ admitted \in Nat
  BY LedgerStart, CostsStart DEF Init
<1>2. RequestInv /\ LedgerInv /\ CostsInv /\ admitted \in Nat /\ [Next]_vars
        => LedgerInv' /\ CostsInv' /\ (admitted \in Nat)'
  <2> SUFFICES ASSUME RequestInv, LedgerInv, CostsInv, admitted \in Nat, [Next]_vars
               PROVE  LedgerInv' /\ CostsInv' /\ (admitted \in Nat)'
    OBVIOUS
  <2>1. ASSUME NEW s \in Slot, HandlerStep(s) PROVE admitted' \in Nat
    <3>1. ASSUME NEW i \in Input, Admit(s, i) PROVE admitted' \in Nat
      BY <3>1 DEF Admit
    <3>2. CASE CacheHit(s) \/ CacheMiss(s) \/ CacheBypassed(s) \/ Store(s) \/ Send(s)
      BY <3>2 DEF CacheHit, CacheMiss, CacheBypassed, Store, Send
    <3>3. CASE Decide(s)
      BY <3>3 DEF Decide, DecideDisabled, DecideBlocked, DecidePinned, DecideScored, Decided
    <3> QED BY <2>1, <3>1, <3>2, <3>3 DEF HandlerStep
  <2>2. ASSUME Charge \/ Reload \/ TimePasses \/ UNCHANGED vars PROVE admitted' \in Nat
    BY <2>2 DEF Charge, Reload, TimePasses, vars
  <2> QED BY <2>1, <2>2, LedgerStep, CostsStep DEF Next
<1>3. RequestInv /\ StoreInv /\ version \in Version /\ LedgerInv /\ CostsInv /\ admitted \in Nat
        => TypeOK
  BY DEF RequestInv, StoreInv, LedgerInv, CostsInv, TypeOK
<1> QED BY <1>1, <1>2, <1>3, RequestsAndCacheAgree, PTL DEF Spec
===============================================================================
