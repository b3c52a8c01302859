------------------------------ MODULE BudgetCaps ------------------------------
(***************************************************************************)
(* The spend caps of internal/budget: which cap governs a request, what the *)
(* evaluator says of it, and the ledger the event queue's worker charges.   *)
(*                                                                         *)
(* A scope is a tenant with one of its projects, or the tenant as a whole,  *)
(* written with NoProject; the two maps of the Ledger are one function over *)
(* scopes.  Tenants are authenticated, so none is empty.  A warning only    *)
(* sets a header and counts as "ok" here.                                   *)
(***************************************************************************)
EXTENDS Naturals

CONSTANTS
  Tenant,
  Project,
  NoProject,        \* the empty project
  Cap               \* [scopes with a cap -> [limit, action]]

Scope == Tenant \X (Project \cup {NoProject})

ASSUME CapAssumption ==
  /\ NoProject \notin Project
  /\ DOMAIN Cap \subseteq Scope
  /\ \A sc \in DOMAIN Cap : Cap[sc] \in [limit : Nat, action : {"block", "downgrade"}]

VARIABLE spent      \* [Scope -> Nat], micro-USD charged

Whole(t) == <<t, NoProject>>

LedgerInit == spent = [sc \in Scope |-> 0]

\* Variant of Charged: spend is attributed to the tenant only.
ChargedTenantOnly(t, p) == {Whole(t)}

\* The totals an amount is added to.
Charged(t, p) == {Whole(t), <<t, p>>}

Add(t, p, micros) ==
  spent' = [sc \in Scope |-> IF sc \in Charged(t, p) THEN spent[sc] + micros ELSE spent[sc]]

\* A project's own cap takes precedence over its tenant's, even when it is unlimited.
Governing(t, p) == IF <<t, p>> \in DOMAIN Cap THEN <<t, p>> ELSE Whole(t)

Limited(sc) == sc \in DOMAIN Cap /\ Cap[sc].limit > 0

Over(sc) == Limited(sc) /\ spent[sc] >= Cap[sc].limit

\* What Check returns for a request this scope governs.
Check(sc) == IF Over(sc) THEN Cap[sc].action ELSE "ok"
===============================================================================
