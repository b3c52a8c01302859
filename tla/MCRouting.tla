------------------------------- MODULE MCRouting -------------------------------
(***************************************************************************)
(* A registry of five models at two providers, one of them switched off and *)
(* two sharing a provider name, and one rule of each kind the engine reads. *)
(***************************************************************************)
EXTENDS Routing

MCModel == 1..5
MCProvider == {"pA", "pB"}
MCCap == {"chat", "streaming", "tool_use", "json_schema"}
MCProviderOf == <<"pA", "pA", "pB", "pB", "pB">>
MCNameAtProvider == <<11, 12, 13, 12, 14>>
MCTierOf == <<0, 1, 2, 1, 0>>
MCCapsOf == <<{"chat", "streaming"}, MCCap \ {"json_schema"}, MCCap, MCCap, MCCap>>
MCLatencyOf == <<100, 200, 300, 0, 100>>
MCSelectable == 1..4

\* 99 is a model the registry no longer has.
MCRule ==
  {[NoRoute EXCEPT !.denyP = {"pB"}],
   [NoRoute EXCEPT !.denyP = {"pA"}, !.denyM = {3, 99}],
   [NoRoute EXCEPT !.allowP = {"pA"}],
   [NoRoute EXCEPT !.allowP = {"pB"}, !.fProfile = {1}],
   [NoRoute EXCEPT !.fProfile = {0}],
   [NoRoute EXCEPT !.denyCap = {"tool_use"}],
   [NoRoute EXCEPT !.denyCap = {"json_schema"}],
   [NoRoute EXCEPT !.fProvider = {"pB"}],
   [NoRoute EXCEPT !.fProvider = {"pA"}, !.fModel = {12}],
   [NoRoute EXCEPT !.fallbackProfiles = {1}],
   [NoRoute EXCEPT !.maxLatency = {150}],
   [NoRoute EXCEPT !.maxLatency = {250}],
   [NoRoute EXCEPT !.require = {"tool_use"}],
   [NoRoute EXCEPT !.block = TRUE]}

MCJob ==
  {j \in [task : {"unknown_high_risk", "simple_chat"}, risk : {"low", "high"},
          mode : {"auto", "cheap", "disabled"}, unsure : BOOLEAN,
          needs : {{"streaming"}}, explicit : {{}, {3}, {12}, {99}}] :
     /\ j.mode = "cheap" => j.explicit = {}
     /\ j.explicit # {} => ~j.unsure /\ j.risk = "low"}
===============================================================================
