------------------------------- MODULE Routing -------------------------------
(***************************************************************************)
(* One routed request: CompiledPolicy.Evaluate folds the rules that match   *)
(* into a route, one per step, and Engine.Decide turns route, job, registry *)
(* snapshot and live health into a decision.                                *)
(*                                                                         *)
(* Whether a rule matches depends on the job alone; here any sequence of up *)
(* to MaxRules rules may be the matching ones, which covers every policy    *)
(* and matcher.  Rules that do not match leave no trace in the code either. *)
(***************************************************************************)
EXTENDS RouteEngine

CONSTANTS
  Rule,             \* compiled rules, records with the fields of NoRoute
  Job,              \* job descriptors requests may carry
  MaxRules          \* bound: rules that match one request

\* *int: unset, or one number, of which the parser asks nothing more.
AtMostOneNumber(set) == set \subseteq Int /\ \A a, b \in set : a = b

ASSUME RuleAssumption ==
  /\ Job \subseteq Jobs
  /\ MaxRules \in Nat
  /\ \A r \in Rule : /\ DOMAIN r = DOMAIN NoRoute
                     /\ r.fProfile \subseteq Tier
                     /\ AtMostOneNumber(r.maxLatency)

VARIABLES
  pc,               \* "evaluate" | "decided"
  job,
  switch,           \* Engine.conservative when Decide reads it
  matched,          \* history: the rules merged so far, in policy order
  route,            \* Evaluation.Route; its block field is Evaluation.Blocked
  dec               \* the decision

vars == <<pc, job, switch, matched, route, dec>>

Pending == [kind |-> "pending", model |-> 0, provider |-> NoProvider, fallbacks |-> <<>>]
Failed(kind) == [Pending EXCEPT !.kind = kind]
RouteTo(m, chain) ==
  [kind |-> "routed", model |-> m, provider |-> ProviderOf[m], fallbacks |-> chain]

AsIs(ref) ==
  [kind |-> "routed", model |-> ref, provider |-> NoProvider, fallbacks |-> <<>>]

Kinds == {"pending", "routed", "blocked", "no_route", "not_found", "disabled"}

TypeOK ==
  /\ pc \in {"evaluate", "decided"}
  /\ job \in Jobs
  /\ switch \in BOOLEAN
  /\ matched \in Seq(Rule)
  /\ DOMAIN route = DOMAIN NoRoute
  /\ dec.kind \in Kinds
  /\ dec.kind = "routed" =>
       /\ dec.model \in Nat
       /\ dec.provider \in Provider \cup {NoProvider}
       /\ dec.fallbacks \in Seq(Model) /\ Len(dec.fallbacks) <= 2
  /\ pc = "decided" <=> dec.kind # "pending"

Init ==
  /\ pc = "evaluate"
  /\ job \in Job
  /\ switch \in BOOLEAN
  /\ matched = <<>>
  /\ route = NoRoute
  /\ dec = Pending

-------------------------------------------------------------------------------
(* Evaluate. *)

\* One more rule of the policy matches.  A block ends the loop.
MergeRule(r) ==
  /\ pc = "evaluate"
  /\ ~route.block
  /\ Len(matched) < MaxRules
  /\ route' = MergeRoute(route, r)
  /\ matched' = Append(matched, r)
  /\ UNCHANGED <<pc, job, switch, dec>>

-------------------------------------------------------------------------------
(* Decide. *)

Decided(d) ==
  /\ pc = "evaluate"
  /\ pc' = "decided"
  /\ dec' = d
  /\ UNCHANGED <<job, switch, matched, route>>

\* decideDisabled: the client's model is used as it is.  The lists are applied to the
\* model the reference is the ID of, else to the bare name; nothing else is.
DecideDisabled ==
  /\ job.mode = "disabled"
  /\ \/ job.explicit = {} /\ Decided(Failed("disabled"))
     \/ \E ref \in job.explicit :
          Decided(IF ListsAdmit(KnownProvider(ref), ref, route)
                  THEN AsIs(ref) ELSE Failed("blocked"))

\* A blocking rule matched: ErrBlocked.
DecideBlocked ==
  /\ job.mode # "disabled"
  /\ route.block
  /\ Decided(Failed("blocked"))

\* The client's model comes first, the policy's forced model second.
PinnedRef == IF job.explicit # {} THEN job.explicit ELSE route.fModel

\* Variant of DecidePinned: a client's own choice of model is trusted.
DecidePinnedUnchecked ==
  /\ job.mode # "disabled" /\ ~route.block
  /\ \E ref \in PinnedRef :
       \/ Resolve(ref) = {} /\ Decided(Failed("not_found"))
       \/ \E m \in Resolve(ref) :
            Decided(IF job.explicit # {} \/ ListsAdmit(ProviderOf[m], m, route)
                    THEN RouteTo(m, <<>>) ELSE Failed("blocked"))

\* decidePinned: no fallbacks, and only the lists are applied.
DecidePinned ==
  /\ job.mode # "disabled" /\ ~route.block
  /\ \E ref \in PinnedRef :
       \/ Resolve(ref) = {} /\ Decided(Failed("not_found"))
       \/ \E m \in Resolve(ref) :
            Decided(IF ListsAdmit(ProviderOf[m], m, route)
                    THEN RouteTo(m, <<>>) ELSE Failed("blocked"))

\* Filter, score, and build the chain.
DecideScored ==
  /\ job.mode # "disabled" /\ ~route.block /\ PinnedRef = {}
  /\ \E seen \in SUBSET Model :
       LET S == Candidates(job, route, Cautious(switch, job), seen)
       IN  \/ S = {} /\ Decided(Failed("no_route"))
           \/ \E ranked \in Rankings(S) :
                /\ S # {}
                /\ \E chain \in UNION {[1..n -> S] : n \in 0..2} :
                     /\ IsChain(chain, ranked, job, route)
                     /\ Decided(RouteTo(ranked[1], chain))

Decide == DecideDisabled \/ DecideBlocked \/ DecidePinned \/ DecideScored

Next == (\E r \in Rule : MergeRule(r)) \/ Decide

Spec == Init /\ [][Next]_vars

-------------------------------------------------------------------------------
(* Safety.  Attempts is what the gateway may call: the selected model, then the *)
(* fallbacks streamWithFallback goes through.                                   *)

Routed == dec.kind = "routed"
Fallbacks == {dec.fallbacks[i] : i \in DOMAIN dec.fallbacks}
Attempts == {dec.model} \cup Fallbacks

\* The models were chosen by filter and score, not named by client or policy.
Scored == Routed /\ job.mode # "disabled" /\ PinnedRef = {}

\* What any matching rule denies is never attempted, whatever rules came before or
\* after: no denied model, by ID or, in disabled mode, by the name the client gives,
\* and no registered model, named by its ID, of a denied provider.  A disabled request
\* that uses a provider's own name for a model is outside (NoOverridePath).
DenyListsHold ==
  Routed => \A ref \in Attempts, i \in DOMAIN matched :
              /\ ref \notin matched[i].denyM
              /\ ref \in Model => ProviderOf[ref] \notin matched[i].denyP

\* For a risky job no fallback is less capable than the model it stands in for, so
\* an outage never degrades a high-risk answer.
RiskyNeverDownward ==
  Routed /\ Risky(job) => \A m \in Fallbacks : TierOf[m] >= TierOf[dec.model]

\* In conservative mode an uncertain request is never scored onto a cheap model or
\* falls back to one, even when a rule forces the cheap profile.
UncertainNeverCheap ==
  Scored /\ Cautious(switch, job) => \A m \in Attempts : TierOf[m] >= 1

\* Every attempt of a scored decision has what every matching rule requires, is within
\* every latency ceiling and lacks what any of them denies, json_schema apart, in
\* whatever order the rules were merged.  Pinned models are outside (the two
\* properties at the end), and max_cost_usd, which the engine never reads.
ScoredWithinConstraints ==
  Scored => \A m \in Attempts, i \in DOMAIN matched :
              /\ matched[i].require \subseteq CapsOf[m]
              /\ matched[i].denyCap \cap CapsOf[m] \subseteq {"chat", "json_schema"}
              /\ FastEnough(m, matched[i])

\* 06-engineering/01-routing-policy-reference.md: a block "has highest priority", so
\* a request that matches a blocking rule is not routed.
BlockedNeverRouted ==
  Routed => \A i \in DOMAIN matched : ~matched[i].block

\* The same reference: allowed_providers is the intersection over all matching rules.
WhitelistsIntersect ==
  Scored => \A m \in Attempts, i \in DOMAIN matched :
              matched[i].allowP # {} => ProviderOf[m] \in matched[i].allowP

\* internal/engine/filter.go:239: "no override path can ever bypass a project's
\* denylist", disabled mode included, which reaches the model another mode would have
\* found by the same name.
NoOverridePath ==
  Routed => \A ref \in Attempts, i \in DOMAIN matched :
              \A m \in Resolve(ref) :
                m \notin matched[i].denyM /\ ProviderOf[m] \notin matched[i].denyP

\* Section 6.3 of the reference: models with a denied capability are filtered out.
DeniedCapabilitiesFiltered ==
  Scored => \A m \in Attempts, i \in DOMAIN matched :
              matched[i].denyCap \cap CapsOf[m] = {}

\* Section 8, point 6: where a client's choice of model conflicts with constraints,
\* the constraints win.
ConstraintsBeatOverrides ==
  Routed /\ job.explicit # {} /\ job.mode # "disabled" =>
    \A i \in DOMAIN matched :
      matched[i].require \subseteq CapsOf[dec.model] /\ FastEnough(dec.model, matched[i])
===============================================================================
