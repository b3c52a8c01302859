-------------------------------- MODULE Gateway --------------------------------
(***************************************************************************)
(* The request path of ChatCompletionsHandler around the engine: budget     *)
(* check, policy lookup, decision cache, Decide, storing the decision and   *)
(* enqueuing its event, for several requests at once; and the worker that   *)
(* charges the ledger later.  Policy reloads and the clock go on in         *)
(* between.                                                                 *)
(*                                                                         *)
(* Routing itself is in Routing: here a decision is whether it routes, what *)
(* it costs and the question it answers ("made").  What follows the         *)
(* decision is in StreamFallback, CallPath and HealthRouting.  The event    *)
(* queue is the lossy FIFO that EventQueue implements, seen by decision     *)
(* events alone: attempt events take places in the same channel, so one may *)
(* be dropped at any time.                                                  *)
(***************************************************************************)
EXTENDS BudgetCaps, DecisionCache, Sequences

CONSTANTS
  Slot,             \* requests handled at the same time
  Input,            \* requests clients send
  Version,          \* policy versions
  Blocking,         \* versions whose rules block every request
  Pinning,          \* versions with a rule that forces a model
  MaxCost,          \* estimates are at most this
  Estimate,         \* what routing estimates a request to cost
  Size,             \* capacity of the event queue
  MaxRequests,      \* bound: requests admitted in a run
  None              \* no policy looked up, no decision made

Mode == {"auto", "cheap", "balanced", "premium", "disabled"}

ASSUME GatewayAssumption ==
  /\ IsFiniteSet(Slot)
  /\ \A i \in Input : i \in [tenant : Tenant, project : Project \cup {NoProject},
                             mode : Mode, pinned : BOOLEAN, low : BOOLEAN]
  /\ None \notin Version
  /\ Blocking \subseteq Version /\ Version \ Blocking # {}
  /\ Pinning \subseteq Version
  /\ MaxCost \in Nat \ {0} /\ Estimate \subseteq 0..MaxCost
  /\ Size \in Nat \ {0}
  /\ MaxRequests \in Nat

VARIABLES
  req,              \* [Slot -> the request and how far its handler is]
  version,          \* the active policy
  waiting,          \* decision events accepted whose handler call has not ended
  owed,             \* history: per governing scope, the cost of all events accepted
  accrued,          \* history: per waiting event, owed as it was before that event
  incurred,         \* history: per governing scope, the cost of all decisions made
  dropped,          \* history: per governing scope, its decision events dropped
  admitted          \* requests that passed the budget check

queueVars == <<waiting, owed, accrued, incurred, dropped>>
vars == <<req, version, queueVars, admitted, spent, entries>>

Event == [tenant : Tenant, project : Project \cup {NoProject}, cost : 0..MaxCost]

\* The scope whose cap governs an event or a request.
ScopeOf(e) == Governing(e.tenant, e.project)

\* A free slot, with nothing left of the request before.
Idle == [at |-> "idle", in |-> None, over |-> FALSE, mode |-> "auto",
         policy |-> None, dec |-> None]

-------------------------------------------------------------------------------
(* The cache as the handler uses it.  The registry version never changes in a    *)
(* process, the task class and the prompt are taken to be the same for all, and *)
(* of the model the client names only whether it names one is kept.             *)

\* What a decision depends on in the request and the policy.
Question(r) == [tenant |-> r.in.tenant, project |-> r.in.project, mode |-> r.mode,
                pinned |-> r.in.pinned, policy |-> r.policy]

\* Variant of Key: decisions are shared between policy versions.
KeyWithoutPolicy(r) == <<r.in.tenant, r.in.project, r.mode, r.in.pinned>>
\* Variant of Key: decisions are shared between the projects of a tenant.
KeyWithoutProject(r) == <<r.in.tenant, r.mode, r.in.pinned, r.policy>>
\* Variant of Key: the router mode is left out.
KeyWithoutMode(r) == <<r.in.tenant, r.in.project, r.in.pinned, r.policy>>

Key(r) == <<r.in.tenant, r.in.project, r.mode, r.in.pinned, r.policy>>

Cacheable(r) == r.in.low

-------------------------------------------------------------------------------
(* The handler. *)

Set(s, r) == req' = [req EXCEPT ![s] = r]

Init ==
  /\ req = [s \in Slot |-> Idle]
  /\ version \in Version \ Blocking
  /\ admitted = 0
  /\ waiting = <<>> /\ accrued = <<>> /\ owed = [sc \in Scope |-> 0]
  /\ incurred = [sc \in Scope |-> 0] /\ dropped = [sc \in Scope |-> 0]
  /\ LedgerInit /\ CacheInit

\* applyBudget lets the request pass, in cheap mode when its scope is over budget.
Admit(s, i) ==
  LET verdict == Check(ScopeOf(i))
  IN /\ req[s].at = "idle"
     /\ admitted < MaxRequests
     /\ verdict # "block"
     /\ Set(s, [Idle EXCEPT !.at = "admitted", !.in = i, !.over = (verdict = "downgrade"),
                           !.mode = IF verdict = "downgrade" THEN "cheap" ELSE i.mode])
     /\ admitted' = admitted + 1
     /\ UNCHANGED <<version, queueVars, spent, entries>>

\* lookupPolicy, then Get with the key that policy gives.
Looked(s) == [req[s] EXCEPT !.at = "looked", !.policy = version]

CacheHit(s) ==
  LET key == Key(Looked(s))
  IN /\ req[s].at = "admitted" /\ Cacheable(req[s])
     /\ Hit(key)
     /\ Set(s, [Looked(s) EXCEPT !.at = "ready", !.dec = entries[key].dec])
     /\ UNCHANGED <<version, queueVars, admitted, spent, entries>>

CacheMiss(s) ==
  /\ req[s].at = "admitted" /\ Cacheable(req[s])
  /\ Miss(Key(Looked(s)))
  /\ Set(s, Looked(s))
  /\ UNCHANGED <<version, queueVars, admitted, spent>>

CacheBypassed(s) ==
  /\ req[s].at = "admitted" /\ ~Cacheable(req[s])
  /\ Set(s, Looked(s))
  /\ UNCHANGED <<version, queueVars, admitted, spent, entries>>

\* Only a decision without error is stored.
Storable(r, kind) == Cacheable(r) /\ kind = "routed"

Decided(s, kind, cost) ==
  /\ Set(s, [req[s] EXCEPT !.at = IF Storable(req[s], kind) THEN "decided" ELSE "ready",
                           !.dec = [kind |-> kind, cost |-> cost,
                                    made |-> Question(req[s])]])
  /\ UNCHANGED <<version, queueVars, admitted, spent, entries>>

\* decideDisabled does not ask for a block; the allow and deny lists may reject, and
\* without a pinned model there is nothing to route to.
DecideDisabled(s) ==
  /\ req[s].mode = "disabled"
  /\ Decided(s, "refused", 0) \/ (req[s].in.pinned /\ Decided(s, "routed", 0))

DecideBlocked(s) ==
  /\ req[s].mode # "disabled" /\ req[s].policy \in Blocking
  /\ Decided(s, "refused", 0)

Evaluated(s) == req[s].mode # "disabled" /\ req[s].policy \notin Blocking

\* decidePinned looks at no health and estimates no cost; the model may be unknown,
\* or on a deny list.
DecidePinned(s) ==
  /\ Evaluated(s) /\ (req[s].in.pinned \/ req[s].policy \in Pinning)
  /\ Decided(s, "routed", 0) \/ Decided(s, "refused", 0)

\* Filter and score, if any candidate is left.
DecideScored(s) ==
  /\ Evaluated(s) /\ ~req[s].in.pinned
  /\ (\E c \in Estimate : Decided(s, "routed", c)) \/ Decided(s, "refused", 0)

Decide(s) ==
  /\ req[s].at = "looked"
  /\ DecideDisabled(s) \/ DecideBlocked(s) \/ DecidePinned(s) \/ DecideScored(s)

Store(s) ==
  /\ req[s].at = "decided"
  /\ Put(Key(req[s]), req[s].dec)
  /\ Set(s, [req[s] EXCEPT !.at = "ready"])
  /\ UNCHANGED <<version, queueVars, admitted, spent>>

\* enqueueDecision, for routed, blocked and failed decisions alike; the provider call
\* that may follow reads nothing of this module.
EventOf(r) == [tenant |-> r.in.tenant, project |-> r.in.project, cost |-> r.dec.cost]

Accept(e) ==
  /\ Len(waiting) <= Size
  /\ waiting' = Append(waiting, e)
  /\ accrued' = Append(accrued, owed)
  /\ owed' = [owed EXCEPT ![ScopeOf(e)] = @ + e.cost]
  /\ UNCHANGED dropped

\* The channel is full, of whatever events.
Drop(e) ==
  /\ dropped' = [dropped EXCEPT ![ScopeOf(e)] = @ + 1]
  /\ UNCHANGED <<waiting, owed, accrued>>

Send(s) ==
  /\ req[s].at = "ready"
  /\ LET e == EventOf(req[s])
     IN  /\ Accept(e) \/ Drop(e)
         /\ incurred' = [incurred EXCEPT ![ScopeOf(e)] = @ + e.cost]
  /\ Set(s, Idle)
  /\ UNCHANGED <<version, admitted, spent, entries>>

-------------------------------------------------------------------------------
(* The worker, and what goes on around. *)

\* Ledger.Handle, when the handler call for the oldest event is made.
Charge ==
  /\ waiting # <<>>
  /\ waiting' = Tail(waiting) /\ accrued' = Tail(accrued)
  /\ LET e == Head(waiting) IN Add(e.tenant, e.project, e.cost)
  /\ UNCHANGED <<req, version, owed, incurred, dropped, admitted, entries>>

Reload ==
  /\ version' \in Version \ {version}
  /\ UNCHANGED <<req, queueVars, admitted, spent, entries>>

TimePasses == Tick /\ UNCHANGED <<req, version, queueVars, admitted, spent>>

HandlerStep(s) ==
  \/ \E i \in Input : Admit(s, i)
  \/ CacheHit(s) \/ CacheMiss(s) \/ CacheBypassed(s)
  \/ Decide(s) \/ Store(s) \/ Send(s)

Next == (\E s \in Slot : HandlerStep(s)) \/ Charge \/ Reload \/ TimePasses

Spec == Init /\ [][Next]_vars
-------------------------------------------------------------------------------
(* Properties. *)

Busy == {s \in Slot : req[s].at # "idle"}
Answered == {s \in Busy : req[s].at \in {"decided", "ready"}}

Decision ==
  [kind : {"routed", "refused"}, cost : 0..MaxCost,
   made : [tenant : Tenant, project : Project \cup {NoProject}, mode : Mode,
           pinned : BOOLEAN, policy : Version]]

Request ==
  [at : {"idle", "admitted", "looked", "decided", "ready"}, in : Input \cup {None},
   over : BOOLEAN, mode : Mode, policy : Version \cup {None},
   dec : Decision \cup {None}]

RequestsOK ==
  /\ req \in [Slot -> Request]
  /\ \A s \in Busy : req[s].in \in Input
  /\ \A s \in Busy : req[s].at # "admitted" => req[s].policy \in Version
  /\ \A s \in Answered : req[s].dec \in Decision

CacheOK ==
  /\ \A k \in DOMAIN entries : entries[k] \in [dec : Decision, left : 0..(TTL + 1)]
  /\ IsFiniteSet(DOMAIN entries) /\ Cardinality(DOMAIN entries) <= MaxEntries

QueueOK ==
  /\ waiting \in Seq(Event) /\ Len(waiting) <= Size + 1
  /\ accrued \in Seq([Scope -> Nat]) /\ Len(accrued) = Len(waiting)
  /\ owed \in [Scope -> Nat]
  /\ spent \in [Scope -> Nat]

CostsOK == incurred \in [Scope -> Nat] /\ dropped \in [Scope -> Nat]

TypeOK ==
  /\ RequestsOK /\ CacheOK /\ QueueOK /\ CostsOK
  /\ version \in Version
  /\ admitted \in Nat

\* A decision that is not routed where the policy blocks.
Sound(dec) ==
  dec.made.policy \in Blocking /\ dec.made.mode # "disabled" => dec.kind = "refused"

\* A decision answers the request it is used for: the same tenant and project, in the
\* mode the budget left it, under the policy version looked up for it, whether it was
\* made now or for an earlier request.
DecisionIsOwn == \A s \in Answered : req[s].dec.made = Question(req[s])

\* No decision outlives a policy change: what the policy looked up for a request blocks
\* is not routed because an earlier version allowed it (mode "disabled" is routed past
\* a block with or without the cache).
CacheBypassesNoBlock ==
  \A s \in Answered :
    req[s].policy \in Blocking /\ req[s].mode # "disabled" => req[s].dec.kind = "refused"

\* A request over a downgrading cap is decided in cheap mode, whatever the client asked
\* for, also when the decision comes from the cache.
OverBudgetIsCheap ==
  \A s \in Answered : req[s].over => req[s].dec.made.mode = "cheap"

Handled(sc) == {s \in Busy : ScopeOf(req[s].in) = sc}
InFlight(sc) == Cardinality(Handled(sc))

\* The ledger lags behind and never hears of a dropped event, so a blocking cap can be
\* overspent: by what the queue, the worker and the requests between check and enqueue
\* can hold, and by one estimate for each decision event of the scope that was dropped.
\* The number of drops has no bound; Queue.DroppedTotal counts them.
OverspendBounded ==
  \A sc \in DOMAIN Cap :
    Limited(sc) /\ Cap[sc].action = "block" =>
      incurred[sc] + MaxCost * InFlight(sc)
        <= Cap[sc].limit - 1 + MaxCost * (Size + 1 + Cardinality(Slot))
             + MaxCost * dropped[sc]
-------------------------------------------------------------------------------
(* The inductive invariant of the proofs. *)

\* A stored decision answers exactly the questions its key stands for.
KeyOf(q) == <<q.tenant, q.project, q.mode, q.pinned, q.policy>>
EntriesMatch ==
  \A k \in DOMAIN entries : k = KeyOf(entries[k].dec.made) /\ Sound(entries[k].dec)

\* What is owed with the i oldest waiting events charged.
After(i) == IF i = Len(waiting) THEN owed ELSE accrued[i + 1]

Share(e, sc) == IF ScopeOf(e) = sc THEN e.cost ELSE 0

\* The ledger is behind what is owed by the waiting events, each of MaxCost at most.
LedgerBehind ==
  \A sc \in Scope :
    /\ After(0)[sc] <= spent[sc]
    /\ \A i \in DOMAIN waiting :
         /\ After(i)[sc] <= accrued[i][sc] + Share(waiting[i], sc)
         /\ owed[sc] <= accrued[i][sc] + MaxCost * (Len(waiting) - i + 1)

\* The part of the bound that the ledger sees.
ChargesBounded ==
  \A sc \in DOMAIN Cap :
    Limited(sc) /\ Cap[sc].action = "block" =>
      owed[sc] + MaxCost * InFlight(sc)
        <= Cap[sc].limit - 1 + MaxCost * (Size + 1 + Cardinality(Slot))

\* What was decided is owed, or lost with a dropped event.
CostsInv ==
  /\ CostsOK
  /\ \A sc \in Scope : incurred[sc] <= owed[sc] + MaxCost * dropped[sc]

RequestInv ==
  /\ RequestsOK /\ DecisionIsOwn
  /\ \A s \in Answered : Sound(req[s].dec)
  /\ \A s \in Busy : req[s].over => req[s].mode = "cheap"
StoreInv == CacheOK /\ EntriesMatch
LedgerInv == QueueOK /\ LedgerBehind
===============================================================================
