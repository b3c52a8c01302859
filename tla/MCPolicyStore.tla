------------------------------ MODULE MCPolicyStore ------------------------------
(* An instance of PolicyStore: two providers, eleven documents, and offers that are      *)
(* accepted, refused by the parser, by the registry, by a glob or by their scopes.       *)
EXTENDS PolicyStore, TLC

Str(s) == [kind |-> "scalar", tag |-> "str", text |-> s]
Num(n) == [kind |-> "scalar", tag |-> "int", text |-> ToString(n), n |-> n]
Bool(b) == [kind |-> "scalar", tag |-> "bool", text |-> ToString(b), flag |-> b]
ListOf(items) == [kind |-> "list", items |-> items]
Map(fields) == [kind |-> "map", fields |-> fields]
F(key, val) == [key |-> key, val |-> val]
In(items) == Map(<<F("in", ListOf(items))>>)
Absent == [kind |-> "absent"]

Settings == Map(<<F("default_model_profile", Str("balanced")), F("conservative_unknowns", Bool(TRUE)),
  F("max_router_overhead_ms", Num(100)), F("default_timeout_ms", Num(30)),
  F("default_retention", Str("standard"))>>)

Doc(version, rules) == [version |-> version, settings |-> Settings, rules |-> rules]
Rule(id, when, route) == [id |-> id, when |-> Map(when), route |-> Map(route)]

BlockDisabled == Rule("block_disabled", <<F("router_mode", Str("disabled"))>>,
  <<F("block", Map(<<F("code", Str("router_disabled")), F("status", Num(403))>>))>>)
AuthNeedsPremium == Rule("auth", <<F("any_file_matches", ListOf(<<Str("auth/**")>>)),
    F("risk_level", In(<<Str("high"), Str("critical")>>))>>,
  <<F("force", Map(<<F("model_profile", Str("premium")), F("verifier", Bool(TRUE))>>)),
    F("constraints", Map(<<F("require_capabilities", ListOf(<<Str("tool_use")>>)),
                           F("max_cost_usd", Num(4)), F("retention", Str("standard"))>>))>>)
HintedModel == Rule("hinted", <<F("contains_any", ListOf(<<Str("login")>>))>>,
  <<F("model", Str("m1")), F("timeout_ms", Num(5)), F("max_cost_usd", Num(2)),
    F("retention", Str("none")), F("require_capability", Str("vision")),
    F("fallback_tier", Str("cheap")), F("tier", Str("premium"))>>)
DenyP2 == Rule("deny_p2", <<F("prompt_tokens_gt", Num(1)), F("requires_tool_use", Bool(FALSE))>>,
  <<F("constraints", Map(<<F("denied_providers", ListOf(<<Str("p2")>>)), F("max_cost_usd", Num(3))>>))>>)
Always == Rule("always", <<>>, <<F("defaults", Map(<<F("model_profile", Str("cheap"))>>))>>)
HintP2 == Rule("hint_p2", <<F("tenant", Str("acme"))>>, <<F("provider", Str("p2"))>>)
ListP1 == Rule("list_p1", <<>>, <<F("constraints", Map(<<F("allowed_providers", ListOf(<<Str("p1")>>))>>))>>)

MCDocuments ==
  [base     |-> Doc("v1", <<BlockDisabled, AuthNeedsPremium, HintedModel, Always>>),
   strict   |-> Doc("v2", <<DenyP2, HintedModel, AuthNeedsPremium>>),
   project  |-> Doc("v3", <<ListP1, BlockDisabled, DenyP2>>),
   hints_p2 |-> Doc("v4", <<HintP2, Always>>),
   twice    |-> Doc("v5", <<Always, Always>>),
   unknown  |-> Doc("v6", <<Rule("r", <<F("mood", Str("good"))>>, <<F("block", Bool(TRUE))>>)>>),
   idle     |-> Doc("v7", <<Rule("r", <<>>, <<F("block", Bool(FALSE)), F("reason", Str("none"))>>)>>),
   no_rules |-> Doc("v8", <<>>),
   no_when  |-> Doc("v9", <<[id |-> "r", when |-> Absent, route |-> Map(<<F("tier", Str("cheap"))>>)]>>),
   blank    |-> Doc("va", <<Rule("r", <<F("any_file_matches", ListOf(<<Str("")>>))>>,
                                 <<F("fallback_models", ListOf(<<Str("cheap")>>))>>)>>),
   bad_tier |-> Doc("vb", <<Rule("r", <<>>, <<F("tier", Str("luxury"))>>)>>)]

Model(id, provider) == [id |-> id, provider |-> provider, name |-> id, window |-> 8]
MCDefinitions ==
  [both    |-> [version |-> "r1", providers |-> <<"p1", "p2">>, models |-> <<Model("m1", "p1"), Model("m2", "p2")>>],
   only_p1 |-> [version |-> "r2", providers |-> <<"p1">>, models |-> <<Model("m1", "p1")>>],
   orphan  |-> [version |-> "r3", providers |-> <<"p1">>, models |-> <<Model("m1", "p1"), Model("m2", "p2")>>]]

Source(tenant, project, doc) == [scope |-> [tenant |-> tenant, project |-> project], doc |-> doc]
MCStartOffer == <<Source("", "", "base")>>
MCOffers ==
  {<<Source("", "", "base"), Source("acme", "", "strict"), Source("acme", "app", "project")>>,
   <<Source("acme", "", "strict"), Source("", "", "hints_p2")>>,
   <<Source("acme", "app", "project")>>,
   <<Source("", "", "hints_p2")>>,
   <<Source("", "", "strict"), Source("acme", "", "blank")>>,
   <<Source("", "", "base"), Source("", "", "strict")>>,
   <<Source("", "", "strict"), Source("", "app", "base")>>,
   <<Source("", "", "base"), Source("acme", "", "twice")>>,
   <<>>}
  \cup {<<Source("", "", d)>> : d \in {"unknown", "idle", "no_rules", "no_when", "bad_tier"}}

Input(tenant, project, mode, risk, tokens, says, files) ==
  [tenant |-> tenant, project |-> project, router_mode |-> mode, risk_level |-> risk,
   task_type |-> "simple_chat", sensitivity |-> "none", prompt_tokens |-> tokens, says |-> says,
   files |-> files, requires_tool_use |-> FALSE, requires_json_schema |-> FALSE, requires_vision |-> FALSE]
MCInputs ==
  <<Input("acme", "app", "auto", "high", 2, {"login"}, {"auth/a.go"}),
    Input("acme", "", "auto", "critical", 2, {"login"}, {"auth/a.go"}),
    Input("other", "app", "disabled", "low", 1, {}, {}),
    Input("other", "", "auto", "high", 2, {"login"}, {"auth/a.go"})>>
MCGlobMatches == {<<"auth/**", "auth/a.go">>}
===============================================================================
