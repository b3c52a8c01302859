----------------------------- MODULE PolicyLanguage -----------------------------
(***************************************************************************)
(* The policy language of internal/policy: how a document is parsed and     *)
(* checked (parser.go), validated against a registry snapshot, compiled,    *)
(* and how one matching rule is merged into the route (compiled.go).        *)
(*                                                                         *)
(* A document is the tree the YAML library delivers.  A node is             *)
(*   [kind "scalar", tag, text, n, flag], [kind "list", items] or           *)
(*   [kind "map", fields], where a field is [key, val]; a missing node is   *)
(*   [kind "absent"].                                                       *)
(* A parsed section is a function from the keys it sets to their values: a  *)
(* nil pointer or an empty string of the Go structs is a key that is        *)
(* missing here, and a list is the set of its entries.                      *)
(***************************************************************************)
EXTENDS Integers, Sequences, FiniteSets, SequencesExt, PolicyMerge

CONSTANT GlobMatches \* the pairs <<pattern, file>> that compileGlob's expression matches

Profiles == {"cheap", "balanced", "premium"}
Retentions == {"standard", "none"}
Capabilities == {"streaming", "tool_use", "json_schema", "vision", "long_context"}

NoFields == [k \in {} |-> k]
Over(f, g) == [k \in DOMAIN f \cup DOMAIN g |-> IF k \in DOMAIN f THEN f[k] ELSE g[k]]
Part(f, keys) == [k \in DOMAIN f \cap keys |-> f[k]]
ValuesAt(f, keys) == {f[k] : k \in DOMAIN f \cap keys}

--------------------------------------------------------------------------------
(* Field types: a shape and a vocabulary, {} standing for any text. *)
Text(vocab) == [shape |-> "text", vocab |-> vocab]
Texts(vocab) == [shape |-> "texts", vocab |-> vocab]
Match(vocab) == [shape |-> "match", vocab |-> vocab]
WholeNumber == [shape |-> "int", vocab |-> {}]
Number == [shape |-> "number", vocab |-> {}]
Flag == [shape |-> "flag", vocab |-> {}]

\* parseWhen's switch.
WhenTypes ==
  [task_type |-> Match({"simple_chat", "trivial_git", "simple_shell", "summarization",
     "simple_code_edit", "hard_code_debugging", "security_review", "database_migration",
     "long_context_analysis", "creative_copy", "unknown_high_risk"}),
   risk_level |-> Match({"low", "medium", "high", "critical"}),
   tenant |-> Match({}), project |-> Match({}),
   prompt_tokens_gt |-> WholeNumber, prompt_tokens_lt |-> WholeNumber,
   contains_any |-> Texts({}), any_file_matches |-> Texts({}),
   requires_tool_use |-> Flag, requires_json_schema |-> Flag, requires_vision |-> Flag,
   sensitivity |-> Match({"none", "source_code", "pii", "secrets_possible"}),
   router_mode |-> Match(Profiles \cup {"auto", "disabled"})]

\* decodeBlock's mapping form.
BlockTypes == [code |-> Text({}), reason |-> Text({}), status |-> WholeNumber]

ForceTypes ==
  [model_profile |-> Text(Profiles), model_profile_name |-> Text({}),
   provider |-> Text({}), model |-> Text({}), verifier |-> Flag,
   context_pipeline |-> Flag, timeout_ms |-> WholeNumber, retention |-> Text(Retentions)]

ConstraintTypes ==
  [allowed_providers |-> Texts({}), denied_providers |-> Texts({}),
   allowed_models |-> Texts({}), denied_models |-> Texts({}),
   require_capabilities |-> Texts(Capabilities), deny_capabilities |-> Texts(Capabilities),
   max_cost_usd |-> Number, max_latency_ms |-> WholeNumber, retention |-> Text(Retentions),
   fallback_model_profiles |-> Texts(Profiles)]

DefaultTypes ==
  [model_profile |-> Text(Profiles), model_profile_name |-> Text({}),
   provider |-> Text({}), model |-> Text({}), verifier |-> Flag, timeout_ms |-> WholeNumber,
   retention |-> Text(Retentions), max_cost_usd |-> Number, max_latency_ms |-> WholeNumber]

\* The keys parseRoute takes beside the four sections: the hints of an earlier version
\* of the language.
HintTypes ==
  [tier |-> Text(Profiles), model |-> Text({}), provider |-> Text({}),
   fallback_tier |-> Text(Profiles), fallback_models |-> Texts(Profiles),
   verifier |-> Flag, max_cost_usd |-> Number, timeout_ms |-> WholeNumber,
   retention |-> Text(Retentions), require_capability |-> Text(Capabilities)]

SettingTypes ==
  [default_model_profile |-> Text(Profiles), conservative_unknowns |-> Flag,
   max_router_overhead_ms |-> WholeNumber, default_timeout_ms |-> WholeNumber,
   default_retention |-> Text(Retentions)]

--------------------------------------------------------------------------------
(* The decoders. *)
InVocab(vocab, text) == vocab = {} \/ text \in vocab

IsText(vocab, node) == node.kind = "scalar" /\ InVocab(vocab, node.text)
IsTexts(vocab, node) ==
  node.kind = "list" /\ \A i \in DOMAIN node.items : IsText(vocab, node.items[i])

\* decodeEnumMatch takes a word or a mapping whose one key is "in"; with no vocabulary a
\* word must not be blank (checkVocab).
IsWord(vocab, node) == IsText(vocab, node) /\ node.text # ""
InList(node) == node.fields[1].val.items
IsMatch(vocab, node) ==
  \/ IsWord(vocab, node)
  \/ /\ node.kind = "map" /\ Len(node.fields) = 1 /\ node.fields[1].key = "in"
     /\ node.fields[1].val.kind = "list" /\ InList(node) # <<>>
     /\ \A i \in DOMAIN InList(node) : IsWord(vocab, InList(node)[i])

Readable(type, node) ==
  \/ type.shape = "text" /\ IsText(type.vocab, node)
  \/ type.shape = "texts" /\ IsTexts(type.vocab, node)
  \/ type.shape = "match" /\ IsMatch(type.vocab, node)
  \/ type.shape = "int" /\ node.kind = "scalar" /\ node.tag = "int"
  \/ type.shape = "number" /\ node.kind = "scalar" /\ node.tag \in {"int", "float"}
  \/ type.shape = "flag" /\ node.kind = "scalar" /\ node.tag = "bool"

TextsOf(items) == {items[i].text : i \in DOMAIN items}
Value(type, node) ==
  CASE type.shape = "text" -> node.text
    [] type.shape = "texts" -> TextsOf(node.items)
    [] type.shape = "match" -> IF node.kind = "map" THEN TextsOf(InList(node)) ELSE {node.text}
    [] type.shape \in {"int", "number"} -> node.n
    [] type.shape = "flag" -> node.flag

\* The loop of a section's decoder: every field is known and readable, and a key that is
\* given twice keeps its last value.
SectionOK(types, node) ==
  /\ node.kind = "map"
  /\ \A i \in DOMAIN node.fields :
       /\ node.fields[i].key \in DOMAIN types
       /\ Readable(types[node.fields[i].key], node.fields[i].val)

Given(node) == IF node.kind = "map" THEN {node.fields[i].key : i \in DOMAIN node.fields} ELSE {}
LastOf(node, key) == node.fields[SelectLastInSeq(node.fields, LAMBDA f : f.key = key)].val

\* A text field that is empty is one that is not set.
IsSet(type, node) == type.shape = "text" => node.text # ""
Section(types, node) ==
  [k \in {key \in Given(node) \cap DOMAIN types : IsSet(types[key], LastOf(node, key))} |->
     Value(types[k], LastOf(node, k))]

\* decodeBlock: true is a block without details, false is none.
IsFlagNode(node, flag) == node.kind = "scalar" /\ node.tag = "bool" /\ node.flag = flag
BlockOK(node) == Readable(Flag, node) \/ SectionOK(BlockTypes, node)
Blocks(node) == ~IsFlagNode(node, FALSE)

SectionTypes == [force |-> ForceTypes, constraints |-> ConstraintTypes, defaults |-> DefaultTypes]

\* parseRoute accepts the node.
RouteOK(node) ==
  /\ node.kind = "map"
  /\ \A i \in DOMAIN node.fields : LET key == node.fields[i].key val == node.fields[i].val IN
       \/ key = "block" /\ BlockOK(val)
       \/ key \in DOMAIN SectionTypes /\ SectionOK(SectionTypes[key], val)
       \/ key = "reason" /\ IsText({}, val)
       \/ key \in DOMAIN HintTypes /\ Readable(HintTypes[key], val)

\* The route parseRoute returns; "sections" are the pointers that are not nil.
ParsedSection(name, node) ==
  IF name \in Given(node) THEN Section(SectionTypes[name], LastOf(node, name)) ELSE NoFields
Route(node) ==
  [block       |-> "block" \in Given(node) /\ Blocks(LastOf(node, "block")),
   sections    |-> Given(node) \cap DOMAIN SectionTypes,
   force       |-> ParsedSection("force", node),
   constraints |-> ParsedSection("constraints", node),
   defaults    |-> ParsedSection("defaults", node),
   hints       |-> Section(HintTypes, node)]

HasAction(route) ==
  \/ route.block \/ route.sections # {}
  \/ \E k \in DOMAIN route.hints : k = "fallback_models" => route.hints[k] # {}

\* toRule
RuleOK(raw) ==
  /\ raw.id # ""
  /\ raw.when.kind # "absent" /\ raw.route.kind # "absent"
  /\ SectionOK(WhenTypes, raw.when)
  /\ RouteOK(raw.route)
  /\ HasAction(Route(raw.route))

\* toSettings: every setting is required, and the two times are positive.
SettingsOK(node) ==
  /\ node.kind = "map" /\ DOMAIN SettingTypes \subseteq Given(node)
  /\ \A k \in DOMAIN SettingTypes :
       /\ Readable(SettingTypes[k], LastOf(node, k))
       /\ SettingTypes[k].shape = "int" => LastOf(node, k).n > 0

\* Parse, with toPolicy.
ParseOK(doc) ==
  /\ doc.version # ""
  /\ SettingsOK(doc.settings)
  /\ doc.rules # <<>>
  /\ \A i \in DOMAIN doc.rules : RuleOK(doc.rules[i])
  /\ \A i, j \in DOMAIN doc.rules : doc.rules[i].id = doc.rules[j].id => i = j

Rules(doc) ==
  [i \in DOMAIN doc.rules |->
     [id |-> doc.rules[i].id, when |-> Section(WhenTypes, doc.rules[i].when),
      route |-> Route(doc.rules[i].route)]]

--------------------------------------------------------------------------------
(* Validate and Compile. *)
ProvidersNamed(route) ==
  ValuesAt(route.force, {"provider"}) \cup ValuesAt(route.defaults, {"provider"})
    \cup ValuesAt(route.hints, {"provider"})
    \cup UNION ValuesAt(route.constraints, {"allowed_providers", "denied_providers"})
ModelsNamed(route) ==
  ValuesAt(route.force, {"model", "model_profile_name"})
    \cup ValuesAt(route.defaults, {"model", "model_profile_name"})
    \cup ValuesAt(route.hints, {"model"})
    \cup UNION ValuesAt(route.constraints, {"allowed_models", "denied_models"})

\* Variant of Validate: the hints are not looked at.
ValidateDirectForm(rules, snapshot) ==
  \A i \in DOMAIN rules : LET route == [rules[i].route EXCEPT !.hints = NoFields] IN
    /\ ProvidersNamed(route) \ {""} \subseteq snapshot.providers
    /\ ModelsNamed(route) \ {""} \subseteq snapshot.models

Validate(rules, snapshot) ==
  \A i \in DOMAIN rules :
    /\ ProvidersNamed(rules[i].route) \ {""} \subseteq snapshot.providers
    /\ ModelsNamed(rules[i].route) \ {""} \subseteq snapshot.models

\* normalizeRouteHints: what the rule sets directly comes before its hints.
HintedConstraints(h) ==
  LET profiles == ValuesAt(h, {"fallback_tier"}) \cup UNION ValuesAt(h, {"fallback_models"})
      required == ValuesAt(h, {"require_capability"})
  IN  [fallback_model_profiles |-> profiles, require_capabilities |-> required]

Normalized(route) ==
  LET h        == route.hints
      forced   == Part(h, {"model", "provider", "verifier"})
      timeout  == Part(h, {"timeout_ms"})
      isForced == "force" \in route.sections \/ DOMAIN forced # {}
      profile  == [k \in {"model_profile" : t \in ValuesAt(h, {"tier"})} |-> h.tier]
      lists    == HintedConstraints(h)
      Joined(k) == lists[k] \cup UNION ValuesAt(route.constraints, {k})
      joined   == [k \in {l \in DOMAIN lists : Joined(l) # {}} |-> Joined(k)]
  IN  [route EXCEPT
        !.force       = Over(@, IF isForced THEN Over(forced, timeout) ELSE NoFields),
        !.defaults    = Over(@, IF isForced THEN profile ELSE Over(profile, timeout)),
        !.constraints = Over(joined, Over(@, Part(h, {"max_cost_usd", "retention"})))]

\* compileMatcher fails on a blank file pattern only.
GlobsOK(rules) == \A i \in DOMAIN rules : "" \notin UNION ValuesAt(rules[i].when, {"any_file_matches"})

CompileOK(rules, snapshot) == Validate(rules, snapshot) /\ GlobsOK(rules)
Compiled(rules) == [i \in DOMAIN rules |-> [rules[i] EXCEPT !.route = Normalized(@)]]

--------------------------------------------------------------------------------
(* Matching and merging. *)
Holds(key, wanted, input) ==
  CASE key = "prompt_tokens_gt" -> input.prompt_tokens > wanted
    [] key = "prompt_tokens_lt" -> input.prompt_tokens < wanted
    [] key = "contains_any" -> wanted = {} \/ wanted \cap input.says # {}
    [] key = "any_file_matches" ->
         wanted = {} \/ \E p \in wanted, f \in input.files : <<p, f>> \in GlobMatches
    [] key \in {"requires_tool_use", "requires_json_schema", "requires_vision"} -> input[key] = wanted
    [] OTHER -> input[key] \in wanted

Matches(when, input) == \A key \in DOMAIN when : Holds(key, when[key], input)

\* mergeConstraints, for a key that both set.
BothSet(key, old, new) ==
  CASE key \in {"allowed_providers", "allowed_models"} -> IntersectIfBoth(old, new)
    [] key \in {"max_cost_usd", "max_latency_ms"} -> IF new < old THEN new ELSE old
    [] key = "retention" -> IF new = "none" THEN new ELSE old
    [] OTHER -> old \cup new

\* Variant of MergeConstraints: constraints merge the way force does.
MergeKeepFirst(old, new) == Over(old, new)

MergeConstraints(old, new) ==
  [k \in DOMAIN old \cup DOMAIN new |->
     IF k \in DOMAIN old \cap DOMAIN new THEN BothSet(k, old[k], new[k]) ELSE Over(old, new)[k]]

\* The zero Route that Evaluate starts from.
Empty == [block |-> FALSE, sections |-> {}, force |-> NoFields, constraints |-> NoFields,
          defaults |-> NoFields, hints |-> NoFields]

\* mergeRoute: force and defaults keep the first value, hints the last.
Merge(dst, src) ==
  [block       |-> dst.block \/ src.block,
   sections    |-> dst.sections \cup src.sections,
   force       |-> Over(dst.force, src.force),
   constraints |-> MergeConstraints(dst.constraints, src.constraints),
   defaults    |-> Over(dst.defaults, src.defaults),
   hints       |-> Over(src.hints, dst.hints)]
===============================================================================
