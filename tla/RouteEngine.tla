------------------------------ MODULE RouteEngine ------------------------------
(***************************************************************************)
(* The decision engine of internal/engine as operators over one registry    *)
(* snapshot, which is immutable once published: candidate filtering, the    *)
(* tier floor, pinned and disabled decisions, and the fallback chain.       *)
(*                                                                         *)
(* Tiers are 0 (cheap), 1 (balanced), 2 (premium).  Model IDs and provider  *)
(* model IDs are numbers from one space of names; numeric order on Model is *)
(* the ID order EnabledModelsWithCapabilities sorts by.  The score is       *)
(* abstracted to "some order of the candidates": floating point, health and *)
(* ties (sort.Slice is not stable) make every order possible for some       *)
(* weights, and nothing here depends on which one is picked.                *)
(***************************************************************************)
EXTENDS PolicyMerge, Sequences, FiniteSets

CONSTANTS
  Model,            \* IDs of the models in the snapshot
  Provider,
  Cap,              \* capabilities, "chat" among them
  ProviderOf,       \* [Model -> Provider]
  NameAtProvider,   \* [Model -> Nat], the ProviderModelID
  TierOf,           \* [Model -> Tier]
  CapsOf,           \* [Model -> SUBSET Cap]
  LatencyOf,        \* [Model -> Nat], P95FirstTokenMS, 0 when unknown
  Selectable        \* models enabled at an active provider

Tier == 0..2
NoProvider == "none"    \* the empty provider of a model the registry does not know

ASSUME RegistryAssumption ==
  /\ Model \subseteq Nat /\ IsFiniteSet(Model)
  /\ NoProvider \notin Provider
  /\ "chat" \in Cap
  /\ ProviderOf \in [Model -> Provider]
  /\ NameAtProvider \in [Model -> Nat]
  /\ TierOf \in [Model -> Tier]
  /\ CapsOf \in [Model -> SUBSET Cap]
  /\ LatencyOf \in [Model -> Nat]
  /\ Selectable \subseteq Model

Jobs == [task     : {"security_review", "unknown_high_risk", "hard_code_debugging", "simple_chat"},
         risk     : {"low", "medium", "high", "critical"},
         mode     : {"auto", "cheap", "balanced", "premium", "disabled"},
         unsure   : BOOLEAN,             \* 0 < TaskConfidence < 0.5
         needs    : SUBSET Cap,          \* requiredCapabilities, streaming included
         explicit : SUBSET Nat]          \* ExplicitModel: at most one reference

Risky(job) == job.risk \in {"high", "critical"}

-------------------------------------------------------------------------------
(* The tier floor. *)

\* Engine.conservativeForJob with the engine's switch.
Cautious(switch, job) ==
  switch /\ (job.task = "unknown_high_risk" \/ job.unsure)

\* The switch of baseMinimumTier over the task, without a forced profile.
TaskFloor(job) ==
  IF job.task \in {"security_review", "unknown_high_risk"} THEN 2
  ELSE IF job.task = "hard_code_debugging" \/ Risky(job) THEN 1
  ELSE 0

\* baseMinimumTier: a forced profile replaces the task's floor, downward too.
BaseFloor(job, route) ==
  IF route.fProfile # {} THEN CHOOSE t \in route.fProfile : TRUE ELSE TaskFloor(job)

\* Variant of MinimumTier: a forced profile switches the conservative floor off.
MinimumTierForceFirst(job, route, cautious) ==
  IF cautious /\ route.fProfile = {} /\ BaseFloor(job, route) < 1 THEN 1
  ELSE BaseFloor(job, route)

\* MinimumTierForTask.
MinimumTier(job, route, cautious) ==
  IF cautious /\ BaseFloor(job, route) < 1 THEN 1 ELSE BaseFloor(job, route)

-------------------------------------------------------------------------------
(* FilterCandidates. *)

\* max_latency_ms; a latency of 0 is one nobody has measured.
FastEnough(m, route) ==
  \A max \in route.maxLatency : LatencyOf[m] > 0 => LatencyOf[m] <= max

\* hardFilter returns "" for m.  seen is the set of models whose provider's health
\* was at least 0.1 at the moment the filter asked: the tracker is live, so two
\* models of one provider may have been judged differently.
PassesHardFilter(m, job, route, floor, seen) ==
  /\ TierOf[m] >= floor
  /\ m \in seen
  /\ ListsAdmit(ProviderOf[m], m, route)
  /\ FastEnough(m, route)
  /\ route.denyCap \cap CapsOf[m] \cap (Cap \ {"chat", "json_schema"}) = {}
  /\ \A f \in route.fModel : f \in {m, NameAtProvider[m]}
  /\ \A f \in route.fProvider : ProviderOf[m] = f
  /\ \A f \in route.fProfile : TierOf[m] = f
  /\ job.mode = "cheap" /\ floor # 2 => TierOf[m] # 2

Candidates(job, route, cautious, seen) ==
  {m \in Selectable :
     /\ ({"chat"} \cup job.needs \cup route.require) \subseteq CapsOf[m]
     /\ PassesHardFilter(m, job, route, MinimumTier(job, route, cautious), seen)}

-------------------------------------------------------------------------------
(* ScoreCandidates and BuildFallbackChain. *)

\* Every order in which the scores may rank a set of candidates.
Rankings(S) ==
  {r \in [1..Cardinality(S) -> S] : \A i, j \in DOMAIN r : i # j => r[i] # r[j]}

\* Variant of ValidFallback: the tier rule is left to the score's risk penalty.
ValidFallbackByProfile(primary, m, job, route) ==
  route.fallbackProfiles # {} => TierOf[m] \in route.fallbackProfiles

\* validFallback.
ValidFallback(primary, m, job, route) ==
  /\ Risky(job) => TierOf[m] >= TierOf[primary]
  /\ route.fallbackProfiles # {} => TierOf[m] \in route.fallbackProfiles

\* The places in the ranking whose models may follow the primary.
FallbackPlaces(ranked, job, route) ==
  {i \in DOMAIN ranked :
     /\ ranked[i] # ranked[1]
     /\ ValidFallback(ranked[1], ranked[i], job, route)}

IsFirst(i, places) == i \in places /\ \A j \in places : i <= j

\* BuildFallbackChain: the first two valid places (maxFallbacks), in ranking order.
IsChain(chain, ranked, job, route) ==
  LET places == FallbackPlaces(ranked, job, route)
  IN  \/ places = {} /\ chain = <<>>
      \/ \E i \in places :
           /\ IsFirst(i, places)
           /\ \/ places \ {i} = {} /\ chain = <<ranked[i]>>
              \/ \E j \in places \ {i} :
                   IsFirst(j, places \ {i}) /\ chain = <<ranked[i], ranked[j]>>

-------------------------------------------------------------------------------
(* Pinned models. *)

\* decidePinned's lookup: by ID whatever the model's status, else the first
\* selectable chat model of that provider name.  {} when there is none.
Resolve(ref) ==
  IF ref \in Model THEN {ref}
  ELSE {m \in Selectable :
          /\ NameAtProvider[m] = ref /\ "chat" \in CapsOf[m]
          /\ \A k \in Selectable :
               NameAtProvider[k] = ref /\ "chat" \in CapsOf[k] => m <= k}

\* The provider decideDisabled sees: it looks a reference up by ID only, so a model
\* named by its provider's name for it is a bare name of no provider.
KnownProvider(ref) == IF ref \in Model THEN ProviderOf[ref] ELSE NoProvider
===============================================================================
