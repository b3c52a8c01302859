------------------------------- MODULE Retention -------------------------------
(***************************************************************************)
(* internal/retention: the cleaner a worker process runs.  Every interval,  *)
(* and at once when it starts, it builds a plan of DELETEs from the tenants'*)
(* retention windows and executes them one by one, while rows keep being    *)
(* written, days pass, statements fail and the worker is stopped, killed and*)
(* started again.                                                           *)
(*                                                                         *)
(* Tenants are numbers in the order of their ids; 0 is the empty id, which  *)
(* rows without a tenant carry.  The purger is the SQL one.                 *)
(***************************************************************************)
EXTENDS Integers, Sequences, FiniteSets, Functions

CONSTANTS
  Tenant,           \* tenants 1..n
  DefaultDays,      \* Settings.defaultDays
  Overrides,        \* the settings that may be configured: tenant -> days, 0 inherits
  Broken,           \* tables whose DELETE always fails
  MaxDay, MaxRows, MaxLives    \* bounds: days, rows written, workers started

Table == <<"request_logs", "audit_log", "route_attempts">>
HasTenantID(t) == t # "route_attempts"
TableName == Range(Table)

ASSUME RetentionAssumption ==
  /\ Tenant \subseteq Nat \ {0}
  /\ DefaultDays \in Nat \ {0}
  /\ \A s \in Overrides : /\ DOMAIN s \subseteq Tenant /\ IsFiniteSet(DOMAIN s)
                          /\ Range(s) \subseteq Nat
  /\ Broken \subseteq TableName

VARIABLES
  settings,         \* Settings.tenants, fixed before the worker starts
  today,
  rows,             \* the rows of the three tables
  written,          \* rows written so far
  worker,           \* "down", "sweeping" or "waiting" in Run's select
  plan,             \* the requests the sweep has still to execute
  tick,             \* the ticker's channel of one slot
  cancelled,        \* Run's context
  lives             \* workers started

cleanerVars == <<settings, today, rows, written, worker, plan, tick, cancelled, lives>>
world == <<settings, today, rows, written>>

--------------------------------------------------------------------------------
(* Settings. *)

RetentionDays(t) ==
  IF t \in DOMAIN settings /\ settings[t] > 0 THEN settings[t] ELSE DefaultDays

Cutoff(t) == today - RetentionDays(t)

\* TenantIDs: the tenants with an override, even one that only inherits, sorted.  It is a
\* set of one sequence, and so is SweepPlan.
TenantIDs ==
  {ids \in [1..Cardinality(DOMAIN settings) -> DOMAIN settings] :
     \A i, j \in DOMAIN ids : i < j => ids[i] < ids[j]}

--------------------------------------------------------------------------------
(* Cleaner. *)

Delete(table, tenant, exclude) ==
  [table |-> table, tenant |-> tenant, exclude |-> exclude, cutoff |-> Cutoff(tenant)]

\* Variant of DefaultSweep: the tenants with an override are not excluded.
DefaultSweepOfAll(table) == Delete(table, 0, {})

\* The default window's request, for everyone without an override.
DefaultSweep(table) == Delete(table, 0, DOMAIN settings)

\* requestsFor
RequestsFor(table, ids) ==
  IF HasTenantID(table)
  THEN [i \in DOMAIN ids |-> Delete(table, ids[i], {})] \o <<DefaultSweep(table)>>
  ELSE <<Delete(table, 0, {})>>

\* All the requests of a Sweep; each keeps the cutoff of the time the sweep began.
SweepPlan ==
  {RequestsFor(Table[1], ids) \o RequestsFor(Table[2], ids) \o RequestsFor(Table[3], ids) :
     ids \in TenantIDs}

\* What SQLPurger's statement matches.
Matched(req) ==
  {row \in rows :
     /\ row.table = req.table
     /\ row.day < req.cutoff
     /\ IF req.tenant # 0 THEN row.tenant = req.tenant ELSE row.tenant \notin req.exclude}

--------------------------------------------------------------------------------
(* The worker. *)

CleanerInit ==
  /\ settings \in Overrides
  /\ today = 0 /\ rows = {} /\ written = 0
  /\ worker = "down" /\ plan = <<>> /\ tick = FALSE /\ cancelled = FALSE /\ lives = 0

\* cmd/worker main up to Run's first sweep.
Start ==
  /\ worker = "down" /\ lives < MaxLives
  /\ lives' = lives + 1
  /\ worker' = "sweeping" /\ plan' \in SweepPlan
  /\ tick' = FALSE /\ cancelled' = FALSE
  /\ UNCHANGED world

\* The ticker drops ticks for a slow receiver.
Tick ==
  /\ worker # "down"
  /\ tick' = TRUE
  /\ UNCHANGED <<world, worker, plan, cancelled, lives>>

Executing(table) == worker = "sweeping" /\ plan # <<>> /\ Head(plan).table = table

Purged(table) ==
  /\ Executing(table)
  /\ ~cancelled /\ table \notin Broken
  /\ rows' = rows \ Matched(Head(plan))
  /\ plan' = Tail(plan)
  /\ UNCHANGED <<settings, today, written, worker, tick, cancelled, lives>>

\* Variant of RestAfterError: the sweep is given up.
RestGivenUp(reqs) == <<>>

\* A statement failed: the loop continues with the next one.
RestAfterError(reqs) == Tail(reqs)

\* The database refuses, or the context is done.
PurgeFails(table) ==
  /\ Executing(table)
  /\ plan' = RestAfterError(plan)
  /\ UNCHANGED <<world, worker, tick, cancelled, lives>>

SweepEnds ==
  /\ worker = "sweeping" /\ plan = <<>>
  /\ worker' = "waiting"
  /\ UNCHANGED <<world, plan, tick, cancelled, lives>>

\* The ticker's case of Run's select, which Go may take even when the context is done.
NextSweep ==
  /\ worker = "waiting" /\ tick
  /\ worker' = "sweeping" /\ plan' \in SweepPlan /\ tick' = FALSE
  /\ UNCHANGED <<world, cancelled, lives>>

RunReturns ==
  /\ worker = "waiting" /\ cancelled
  /\ worker' = "down"
  /\ UNCHANGED <<world, plan, tick, cancelled, lives>>

--------------------------------------------------------------------------------
(* The environment. *)

Cancel ==
  /\ worker # "down" /\ ~cancelled
  /\ cancelled' = TRUE
  /\ UNCHANGED <<world, worker, plan, tick, lives>>

\* The process is killed; what it has deleted stays deleted.
Kill ==
  /\ worker # "down"
  /\ worker' = "down" /\ plan' = <<>>
  /\ UNCHANGED <<world, tick, cancelled, lives>>

Write ==
  \E table \in TableName : \E tenant \in IF HasTenantID(table) THEN Tenant \cup {0} ELSE {0} :
    /\ written < MaxRows
    /\ written' = written + 1
    /\ rows' = rows \cup {[table |-> table, tenant |-> tenant, day |-> today]}
    /\ UNCHANGED <<settings, today, worker, plan, tick, cancelled, lives>>

DayPasses ==
  /\ today < MaxDay
  /\ today' = today + 1
  /\ UNCHANGED <<settings, rows, written, worker, plan, tick, cancelled, lives>>

Sweeping == (\E t \in TableName : Purged(t) \/ PurgeFails(t)) \/ SweepEnds \/ NextSweep

CleanerNext == Start \/ Tick \/ Sweeping \/ RunReturns \/ Cancel \/ Kill \/ Write \/ DayPasses

\* Run's goroutine keeps running, the ticker keeps ticking, and a table that is not
\* broken accepts a request in the end when the worker keeps trying it.
Fairness ==
  /\ WF_cleanerVars(Sweeping) /\ WF_cleanerVars(Tick)
  /\ \A table \in TableName \ Broken : \A tenant \in Tenant \cup {0} :
       SF_cleanerVars(Purged(table) /\ Head(plan).tenant = tenant)

CleanerSpec == CleanerInit /\ [][CleanerNext]_cleanerVars /\ Fairness

--------------------------------------------------------------------------------
(* Properties. *)

Expired(row) == row.day < Cutoff(row.tenant)

\* No sweep deletes a row that its own tenant's window still covers, however requests
\* of an old plan run late and settings inherit, shorten or extend the default.
OnlyExpiredIsPurged == [][rows \ rows' \subseteq {row \in rows : Expired(row)}]_cleanerVars

\* An expired row of a working table goes while a worker keeps running, although the
\* statements for other tables always fail.
ExpiredIsPurged ==
  \A table \in TableName \ Broken :
    (\E row \in rows : row.table = table /\ Expired(row)) ~>
      (cancelled \/ worker = "down" \/ \A row \in rows : row.table = table => ~Expired(row))
===============================================================================
