------------------------------- MODULE PolicyStore -------------------------------
(***************************************************************************)
(* The policies in force: the registry's Store (registry/snapshot.go) and   *)
(* the policy Cache (policy/compiled.go), reloaded while requests look      *)
(* their policy up and evaluate it rule by rule.                            *)
(*                                                                         *)
(* A reload is handed an offer, a sequence of sources [scope, doc].  It     *)
(* parses and compiles them one after the other into a map of its own and   *)
(* stores the map at the end, then records the change with the audit sink   *)
(* one scope at a time.  A compiled policy is immutable: it is the document *)
(* and the registry snapshot it was validated against.                      *)
(***************************************************************************)
EXTENDS PolicyLanguage

CONSTANTS Documents,    \* document name -> document
          Definitions,  \* registry definition name -> definition
          Offers,       \* sets of sources a reload may be handed, as sequences
          Inputs,       \* the descriptor fields of the requests
          Request,      \* the concurrent requests
          StartOffer,   \* the offer the process starts with
          StartRegistry,
          MaxReloads, MaxSwaps  \* bounds: policy reloads and registry reloads

VARIABLES registry, \* Store.active: the name of the definition
          active,   \* Cache.active: scope -> compiled policy
          loader,   \* the running Reload: its offer, how far it is, what it has compiled
          audit,    \* the audit sink: the kinds of entries it was given
          reloads, swaps,
          req,      \* request -> its evaluation
          inForce   \* the offer that was last stored (not in the code)

storeVars == <<registry, active, loader, audit, reloads, swaps, req, inForce>>

\* NewSnapshot's checks.
DefinitionOK(def) ==
  /\ def.version # "" /\ def.providers # <<>> /\ def.models # <<>>
  /\ \A i, j \in DOMAIN def.providers :
       def.providers[i] # "" /\ (def.providers[i] = def.providers[j] => i = j)
  /\ \A i \in DOMAIN def.models : LET m == def.models[i] IN
       /\ m.id # "" /\ m.name # "" /\ m.window >= 0
       /\ \E p \in DOMAIN def.providers : def.providers[p] = m.provider
       /\ \A j \in DOMAIN def.models \ {i} : LET n == def.models[j] IN
            m.id # n.id /\ <<m.provider, m.name>> # <<n.provider, n.name>>

Snapshot(name) ==
  [providers |-> {Definitions[name].providers[i] : i \in DOMAIN Definitions[name].providers},
   models    |-> {Definitions[name].models[i].id : i \in DOMAIN Definitions[name].models}]

Parses == [d \in DOMAIN Documents |-> ParseOK(Documents[d])]
Written == [d \in {p \in DOMAIN Documents : Parses[p]} |-> Rules(Documents[d])]
RulesIn == [d \in DOMAIN Written |-> Compiled(Written[d])]

NoPolicy == [doc |-> "none", registry |-> "none"]
Default == [tenant |-> "", project |-> ""]
NoLoad == [at |-> 0, offer |-> <<>>, registry |-> "none", built |-> NoFields, unrecorded |-> {}]

\* The checks of compileSources on one source.
SourceOK(source, snapshot, built) ==
  /\ source.scope.project # "" => source.scope.tenant # ""
  /\ source.scope \notin DOMAIN built
  /\ CompileOK(Written[source.doc], Snapshot(snapshot))

Added(built, source, snapshot) ==
  Over([s \in {source.scope} |-> [doc |-> source.doc, registry |-> snapshot]], built)

\* NewCache starts only with an offer it accepts as a whole.  Amounts are whole numbers.
Sources == [scope : [tenant : STRING, project : STRING], doc : DOMAIN Documents]
ASSUME StoreAssumption ==
  /\ NoPolicy.doc \notin DOMAIN Documents
  /\ \A d \in DOMAIN Documents : LET rules == Documents[d].rules IN
       Len(rules) \in Nat /\ DOMAIN rules = 1..Len(rules)
  /\ \A d \in DOMAIN Written : \A i \in DOMAIN Written[d] : LET route == Written[d][i].route IN
       ValuesAt(route.constraints, {"max_cost_usd", "max_latency_ms"})
         \cup ValuesAt(route.hints, {"max_cost_usd"}) \subseteq Int
  /\ Offers \subseteq Seq(Sources)
  /\ StartOffer \in Seq(Sources)
  /\ \A i \in DOMAIN StartOffer : LET source == StartOffer[i] IN
       /\ Parses[source.doc] /\ SourceOK(source, StartRegistry, NoFields)
       /\ \A j \in DOMAIN StartOffer : StartOffer[j].scope = source.scope => j = i

\* NewCache: the whole offer, or no cache.
Built(offer, snapshot) ==
  [s \in {offer[i].scope : i \in DOMAIN offer} |->
     [doc |-> offer[CHOOSE i \in DOMAIN offer : offer[i].scope = s].doc, registry |-> snapshot]]

Idle == [phase |-> "idle", input |-> 0, held |-> NoPolicy, at |-> 0, matched |-> <<>>,
         route |-> Empty, under |-> <<>>]

StoreInit ==
  /\ registry = StartRegistry
  /\ active = Built(StartOffer, StartRegistry)
  /\ loader = NoLoad
  /\ audit = {}
  /\ reloads = 0 /\ swaps = 0
  /\ req = [r \in Request |-> Idle]
  /\ inForce = StartOffer

--------------------------------------------------------------------------------
(* Reloading. *)

\* Store.Reload: a valid definition replaces the snapshot, an invalid one does nothing.
SwapRegistry == \E d \in DOMAIN Definitions :
  /\ swaps < MaxSwaps
  /\ swaps' = swaps + 1
  /\ registry' = IF DefinitionOK(Definitions[d]) THEN d ELSE registry
  /\ UNCHANGED <<active, loader, audit, reloads, req, inForce>>

Entry(scope, outcome) == [scope |-> scope, outcome |-> outcome]

\* The documents of an offer are parsed; when all of them are accepted Cache.Reload is
\* called with them, and with the snapshot that is active now.
BeginReload == \E offer \in Offers :
  /\ loader = NoLoad /\ reloads < MaxReloads
  /\ reloads' = reloads + 1
  /\ loader' = IF \A i \in DOMAIN offer : Parses[offer[i].doc]
               THEN [NoLoad EXCEPT !.at = 1, !.offer = offer, !.registry = registry]
               ELSE NoLoad
  /\ UNCHANGED <<registry, active, audit, swaps, req, inForce>>

Compiling == loader.at \in 1..Len(loader.offer)
Current == loader.offer[loader.at]

\* Variant of CompileSource: the source goes into the live map at once.
CompileSourceInPlace ==
  /\ Compiling
  /\ SourceOK(Current, loader.registry, loader.built)
  /\ loader' = [loader EXCEPT !.at = @ + 1, !.built = Added(@, Current, loader.registry)]
  /\ active' = Added(active, Current, loader.registry)
  /\ UNCHANGED <<registry, audit, reloads, swaps, req, inForce>>

CompileSource ==
  /\ Compiling
  /\ SourceOK(Current, loader.registry, loader.built)
  /\ loader' = [loader EXCEPT !.at = @ + 1, !.built = Added(@, Current, loader.registry)]
  /\ UNCHANGED <<registry, active, audit, reloads, swaps, req, inForce>>

\* A source is refused, or there is none: the error is recorded and returned.
RejectReload ==
  /\ \/ loader # NoLoad /\ loader.offer = <<>>
     \/ Compiling /\ ~SourceOK(Current, loader.registry, loader.built)
  /\ audit' = audit \cup {Entry(Default, "failure")}
  /\ loader' = NoLoad
  /\ UNCHANGED <<registry, active, reloads, swaps, req, inForce>>

\* active.Store(compiled)
Install ==
  /\ loader.offer # <<>> /\ loader.at = Len(loader.offer) + 1
  /\ active' = loader.built
  /\ inForce' = loader.offer
  /\ loader' = [loader EXCEPT !.at = @ + 1, !.unrecorded = DOMAIN loader.built]
  /\ UNCHANGED <<registry, audit, reloads, swaps, req>>

\* The range over the compiled map, in any order.
RecordInstalled == \E s \in loader.unrecorded :
  /\ audit' = audit \cup {Entry(s, "success")}
  /\ loader' = IF loader.unrecorded = {s} THEN NoLoad ELSE [loader EXCEPT !.unrecorded = @ \ {s}]
  /\ UNCHANGED <<registry, active, reloads, swaps, req, inForce>>

--------------------------------------------------------------------------------
(* Evaluating. *)

\* Cache.Active: the project's policy, else the tenant's, else the default.
Governing(map, input) ==
  LET project == [tenant |-> input.tenant, project |-> input.project]
      tenant  == [tenant |-> input.tenant, project |-> ""]
  IN  CASE project \in DOMAIN map -> map[project]
        [] project \notin DOMAIN map /\ tenant \in DOMAIN map -> map[tenant]
        [] {project, tenant} \cap DOMAIN map = {} /\ Default \in DOMAIN map -> map[Default]
        [] OTHER -> NoPolicy

\* lookupPolicy; without a policy the evaluation is the empty one.
Ask(r) == \E i \in DOMAIN Inputs :
  /\ req[r].phase = "idle"
  /\ LET held == Governing(active, Inputs[i]) IN
       req' = [req EXCEPT ![r] = [Idle EXCEPT !.phase = IF held = NoPolicy THEN "done" ELSE "evaluating",
                                              !.input = i, !.held = held, !.under = inForce]]
  /\ UNCHANGED <<registry, active, loader, audit, reloads, swaps, inForce>>

InputOf(r) == Inputs[req[r].input]

RulesOf(r) == RulesIn[req[r].held.doc]

\* One turn of the loop of Evaluate.
AfterRule(q, rule, input) ==
  IF Matches(rule.when, input)
  THEN [q EXCEPT !.at = @ + 1, !.matched = Append(@, rule.id), !.route = Merge(@, rule.route),
                 !.phase = IF rule.route.block THEN "done" ELSE @]
  ELSE [q EXCEPT !.at = @ + 1]

EvaluateRule(r) ==
  /\ req[r].phase = "evaluating"
  /\ req[r].at < Len(RulesOf(r))
  /\ req' = [req EXCEPT ![r] = AfterRule(@, RulesOf(r)[@.at + 1], InputOf(r))]
  /\ UNCHANGED <<registry, active, loader, audit, reloads, swaps, inForce>>

\* The loop runs out of rules.
Evaluated(r) ==
  /\ req[r].phase = "evaluating"
  /\ req[r].at = Len(RulesOf(r))
  /\ req' = [req EXCEPT ![r].phase = "done"]
  /\ UNCHANGED <<registry, active, loader, audit, reloads, swaps, inForce>>

StoreNext ==
  \/ SwapRegistry \/ BeginReload \/ CompileSource \/ RejectReload \/ Install \/ RecordInstalled
  \/ \E r \in Request : Ask(r) \/ EvaluateRule(r) \/ Evaluated(r)

StoreSpec == StoreInit /\ [][StoreNext]_storeVars

--------------------------------------------------------------------------------
(* Properties. *)

Done(r) == req[r].phase = "done"

\* The rules of a policy that speak for an input: those that match, up to and with the
\* first of them that blocks.
Speaking(doc, input) ==
  LET rules == RulesIn[doc]
      Hit(i) == Matches(rules[i].when, input)
  IN  {i \in DOMAIN rules : Hit(i) /\ \A j \in 1..(i - 1) : Hit(j) => ~rules[j].route.block}

\* The document of an offer that governs an input: the most specific scope it falls in.
Precedence(scope) == IF scope.project # "" THEN 2 ELSE IF scope.tenant # "" THEN 1 ELSE 0
Covers(scope, input) ==
  /\ scope.tenant \in {"", input.tenant}
  /\ scope.project \in {"", input.project}
Documented(offer, input) ==
  LET covering == {i \in DOMAIN offer : Covers(offer[i].scope, input)}
  IN  {offer[i].doc : i \in {k \in covering : \A l \in covering :
         Precedence(offer[l].scope) <= Precedence(offer[k].scope)}}

\* A request is answered by one policy: the one that the offer in force when it asked
\* holds for the most specific scope of the request, in all its rules and no other's,
\* whatever is reloaded, refused or half compiled meanwhile.
AnswerOfOneOffer == \A r \in Request : Done(r) =>
  LET docs == Documented(req[r].under, InputOf(r)) IN
    /\ docs = {} => req[r].matched = <<>>
    /\ \A d \in docs : LET speaking == Speaking(d, InputOf(r)) IN
         /\ Len(req[r].matched) = Cardinality(speaking)
         /\ {req[r].matched[k] : k \in DOMAIN req[r].matched} = {RulesIn[d][i].id : i \in speaking}
         /\ req[r].route.block <=> \E i \in speaking : RulesIn[d][i].route.block

\* Whatever a policy in force can make a route name, by a section or by a hint, is in the
\* snapshot it was compiled against: the hints are merged in after the check.
ReferencesResolve == \A s \in DOMAIN active : LET p == active[s] rules == RulesIn[p.doc] IN
  \A i \in DOMAIN rules :
    /\ ValuesAt(rules[i].route.force, {"model"}) \ {""} \subseteq Snapshot(p.registry).models
    /\ ValuesAt(rules[i].route.force, {"provider"}) \ {""} \subseteq Snapshot(p.registry).providers
    /\ (UNION ValuesAt(rules[i].route.constraints, {"denied_providers"})) \ {""}
         \subseteq Snapshot(p.registry).providers

\* What a rule of the document asks for, by its section or, where that is silent, a hint.
Asked(doc, i, section, key, hint) ==
  LET route == Written[doc][i].route IN
    IF key \in DOMAIN route[section] THEN {route[section][key]} ELSE ValuesAt(route.hints, {hint})

\* No rule that spoke is weakened by the others: the route's ceiling is below each one's,
\* retention is off if one switched it off, and each denial and requirement is in it.
RestrictionsSurvive == \A r \in Request : Done(r) /\ req[r].held # NoPolicy =>
  LET doc == req[r].held.doc c == req[r].route.constraints IN
  \A i \in Speaking(doc, InputOf(r)) :
    /\ \A n \in Asked(doc, i, "constraints", "max_cost_usd", "max_cost_usd") :
         "max_cost_usd" \in DOMAIN c /\ c.max_cost_usd <= n
    /\ "none" \in Asked(doc, i, "constraints", "retention", "retention") =>
         "retention" \in DOMAIN c /\ c.retention = "none"
    /\ UNION Asked(doc, i, "constraints", "denied_providers", "none")
         \subseteq UNION ValuesAt(c, {"denied_providers"})
    /\ LET route == Written[doc][i].route IN
         ValuesAt(route.hints, {"require_capability"})
           \cup UNION ValuesAt(route.constraints, {"require_capabilities"})
           \subseteq UNION ValuesAt(c, {"require_capabilities"})
===============================================================================
