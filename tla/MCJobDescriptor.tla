--------------------------- MODULE MCJobDescriptor ---------------------------
(***************************************************************************)
(* Conversations that begin with up to two phrases of any kind and go on   *)
(* with those that bear on risk; short, medium and large; with what the    *)
(* request asks for; and hints that are absent, valid, of no known level,  *)
(* or behind such a word.                                                  *)
(***************************************************************************)
EXTENDS JobDescriptor

Pairs == {{p, q} : p, q \in Phrases} \cup {{}}

FollowPhrase == {"jwt", "stripe", "threat model", "exploit", "secret", "secrets", "rollback",
  "production", "asap", "fix", "explain", "summary", "ssn", "repo", "audit", "bash",
  "commit message", "changelog", "deadlock", "long context"}

Ask(text, size, asks, risk, sensitivity) ==
  [text |-> text, size |-> size, asks |-> asks, tenant |-> IF size = 1 THEN "t" ELSE "",
   risk |-> risk, sensitivity |-> sensitivity, mode |-> <<"", "cheap">>,
   tenantHint |-> <<"u">>]

SomeAsks == {{}, {"tool_use"}, {"json_schema", "vision"}, {"large_context"},
             {"requires_json_schema"}}
SensitivityPlaces == {<<"">>, <<"none">>, <<"", "pii">>, <<"private", "secrets_possible">>}
MCSizes == {1, 3, 5}
RiskHints == {<<"", "">>, <<"", "low">>, <<"high", "">>, <<"urgent", "critical">>}

MCRequests ==
  {Ask(t, s, {}, <<>>, <<>>) : t \in Pairs, s \in {1}}
    \cup {Ask({p}, s, {}, <<>>, <<>>) : p \in Phrases, s \in {3, 5}}
    \cup {Ask({}, 0, {}, <<>>, <<>>)}
    \cup {Ask({p}, 1, a, <<>>, <<>>) : p \in Phrases, a \in SomeAsks}
    \cup {Ask({p}, 1, {}, h, v) : p \in Phrases, h \in RiskHints, v \in SensitivityPlaces}
=============================================================================
