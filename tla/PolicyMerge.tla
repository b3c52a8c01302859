------------------------------ MODULE PolicyMerge ------------------------------
(***************************************************************************)
(* How internal/policy/compiled.go folds one more matching rule into the    *)
(* route it has accumulated: mergeRoute and the field rules it calls.       *)
(*                                                                         *)
(* A list in the code is a set here (only membership is ever asked), and a  *)
(* field that may be unset is a set of at most one element.  The empty list *)
(* means "no restriction" for the allow lists, as it does in the code.      *)
(* Rules are taken after compilation, so hints are already part of them;    *)
(* defaults, verifier, timeout and retention do not reach a decision's      *)
(* models and are left out.                                                 *)
(***************************************************************************)
EXTENDS Integers

\* The zero value of policy.Route: Evaluate starts from it, and a nil Force or
\* Constraints merges exactly as an empty one does.
NoRoute ==
  [block      |-> FALSE,
   fModel     |-> {}, fProvider |-> {}, fProfile |-> {},
   allowP     |-> {}, denyP |-> {}, allowM |-> {}, denyM |-> {},
   require    |-> {}, denyCap |-> {},
   maxLatency |-> {}, fallbackProfiles |-> {}]

\* mergeForce, field by field: the first matching rule that sets a field keeps it.
KeepFirst(set, next) == IF set # {} THEN set ELSE next

\* intersectIfBoth: an empty list on either side restricts nothing.
IntersectIfBoth(left, right) ==
  IF left = {} THEN right
  ELSE IF right = {} THEN left
  ELSE left \cap right

\* Variant of Stricter: the later rule's ceiling replaces the earlier one.
LastCeiling(set, next) == IF next # {} THEN next ELSE set

\* max_latency_ms: the smaller ceiling, and a set one over an unset one.
Stricter(set, next) ==
  IF next # {} /\ (set = {} \/ \E n \in next, s \in set : n < s) THEN next ELSE set

\* mergeRoute with mergeConstraints.
MergeRoute(dst, src) ==
  [block      |-> dst.block \/ src.block,
   fModel     |-> KeepFirst(dst.fModel, src.fModel),
   fProvider  |-> KeepFirst(dst.fProvider, src.fProvider),
   fProfile   |-> KeepFirst(dst.fProfile, src.fProfile),
   allowP     |-> IntersectIfBoth(dst.allowP, src.allowP),
   denyP      |-> dst.denyP \cup src.denyP,
   allowM     |-> IntersectIfBoth(dst.allowM, src.allowM),
   denyM      |-> dst.denyM \cup src.denyM,
   require    |-> dst.require \cup src.require,
   denyCap    |-> dst.denyCap \cup src.denyCap,
   maxLatency |-> Stricter(dst.maxLatency, src.maxLatency),
   fallbackProfiles |-> dst.fallbackProfiles \cup src.fallbackProfiles]

\* providerModelConstraintReason returns "": the lists of the route admit a model of
\* this ID at this provider.
ListsAdmit(provider, id, route) ==
  /\ route.allowP # {} => provider \in route.allowP
  /\ provider \notin route.denyP
  /\ route.allowM # {} => id \in route.allowM
  /\ id \notin route.denyM
===============================================================================
