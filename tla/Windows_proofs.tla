---------------------------- MODULE Windows_proofs ----------------------------
(***************************************************************************)
(* The two components that forget by a window.                             *)
(*                                                                         *)
(* HealthRouting, for every window size, threshold and number of providers  *)
(* and requests: the ring buffer implements the sliding window the engine   *)
(* reasons about, and the loop that adds up slots counts the outcomes of    *)
(* that window.                                                            *)
(*                                                                         *)
(* Retention, for all settings, tenants and days: a request of a plan, how- *)
(* ever late it runs, matches no row inside its own tenant's window.        *)
(***************************************************************************)
EXTENDS HealthRouting, Retention, FiniteSetTheorems, SequenceTheorems, TLAPS

RingOK == TrackerTypeOK /\ FilledFromZero

\* Recording an outcome keeps the ring well formed.
LEMMA RecordKeepsRing ==
  ASSUME RingOK, NEW p \in Provider, NEW ok \in BOOLEAN, Record(p, ok)
  PROVE  RingOK'
<1> USE WindowAssumption DEF RingOK, Record, TrackerTypeOK, FilledFromZero, Slot, After
<1>1. head'[p] \in 0..(Window - 1) /\ count'[p] \in 0..Window
  OBVIOUS
<1>2. count'[p] < Window => head'[p] = count'[p]
  OBVIOUS
<1>3. TrackerTypeOK'
  BY <1>1
<1> QED
  BY <1>2, <1>3

\* Reading the ring out before and after an outcome is recorded: it has been appended,
\* and the oldest one dropped when the window was full.
LEMMA RecordNotes ==
  ASSUME RingOK, NEW p \in Provider, NEW ok \in BOOLEAN, Record(p, ok)
  PROVE  Recent(p)' = Ring!Latest(Append(Recent(p), ok))
<1> USE WindowAssumption DEF RingOK, TrackerTypeOK, FilledFromZero, Slot
<1> DEFINE longer == Append(Recent(p), ok)
<1>1. /\ count[p] \in 0..Window /\ head[p] \in 0..(Window - 1)
      /\ count[p] < Window => head[p] = count[p]
      /\ head'[p] = After(head[p])
      /\ count'[p] = IF count[p] < Window THEN count[p] + 1 ELSE count[p]
      /\ buf'[p] = [buf[p] EXCEPT ![head[p]] = ok]
  BY DEF Record
<1>2. Recent(p) \in Seq(BOOLEAN) /\ Len(Recent(p)) = count[p]
  <2>1. \A k \in 1..count[p] : SlotOf(p, k) \in Slot
    BY <1>1 DEF SlotOf
  <2>2. Recent(p) \in [1..count[p] -> BOOLEAN]
    BY <2>1 DEF Recent
  <2>3. Len(Recent(p)) = count[p]
    BY <1>1 DEF Recent
  <2>4. Recent(p) \in Seq(BOOLEAN)
    <3>1. count[p] \in Nat
      BY <1>1
    <3> HIDE DEF RingOK, TrackerTypeOK, FilledFromZero, Slot
    <3> QED
      BY <2>2, <3>1, SeqDef, Zenon
  <2> QED
    BY <2>3, <2>4
<1>3. /\ longer \in Seq(BOOLEAN) /\ Len(longer) = count[p] + 1
      /\ longer[count[p] + 1] = ok
      /\ \A k \in 1..count[p] : longer[k] = buf[p][SlotOf(p, k)]
  BY <1>1, <1>2 DEF Recent
<1>4. CASE count[p] < Window
  <2>1. Ring!Latest(longer) = longer
    BY <1>1, <1>3, <1>4 DEF Ring!Latest
  <2>2. \A k \in 1..(count[p] + 1) : SlotOf(p, k)' = k - 1
    BY <1>1, <1>4 DEF SlotOf, After
  <2>3. \A k \in 1..(count[p] + 1) : buf'[p][k - 1] = longer[k]
    <3> TAKE k \in 1..(count[p] + 1)
    <3>1. CASE k = count[p] + 1
      BY <1>1, <1>3, <1>4, <3>1
    <3>2. CASE k # count[p] + 1
      BY <1>1, <1>3, <1>4, <3>2 DEF SlotOf
    <3> QED
      BY <3>1, <3>2
  <2>4. Recent(p)' = [k \in 1..(count[p] + 1) |-> longer[k]]
    BY <1>1, <1>4, <2>2, <2>3 DEF Recent
  <2>5. longer \in [1..(count[p] + 1) -> BOOLEAN]
    BY <1>3, LenProperties
  <2> QED
    BY <2>1, <2>4, <2>5
<1>5. CASE count[p] = Window
  <2>1. Ring!Latest(longer) = [k \in 1..Window |-> longer[k + 1]]
    BY <1>1, <1>3, <1>5 DEF Ring!Latest
  <2>2. \A k \in 1..(Window - 1) :
          /\ SlotOf(p, k)' = SlotOf(p, k + 1)
          /\ SlotOf(p, k + 1) \in Slot /\ SlotOf(p, k + 1) # head[p]
    <3> TAKE k \in 1..(Window - 1)
    <3>0. count'[p] = Window
      BY <1>1, <1>5
    <3>1. CASE head[p] + 1 = Window
      <4>1. SlotOf(p, k)' = k - 1
        BY <1>1, <3>0, <3>1 DEF SlotOf, After
      <4>2. SlotOf(p, k + 1) = k - 1
        BY <1>1, <1>5, <3>1 DEF SlotOf
      <4> QED
        BY <1>1, <3>1, <4>1, <4>2
    <3>2. CASE head[p] + 1 # Window
      <4>1. head'[p] = head[p] + 1
        BY <1>1, <3>2 DEF After
      <4>2. SlotOf(p, k)' = IF head[p] + k < Window THEN head[p] + k ELSE head[p] + k - Window
        BY <1>1, <3>0, <4>1 DEF SlotOf
      <4>3. SlotOf(p, k + 1) = IF head[p] + k < Window THEN head[p] + k ELSE head[p] + k - Window
        BY <1>1, <1>5 DEF SlotOf
      <4> QED
        BY <1>1, <4>2, <4>3
    <3> QED
      BY <3>1, <3>2
  <2>3. SlotOf(p, Window)' = head[p]
    BY <1>1, <1>5 DEF SlotOf, After
  <2>4. \A k \in 1..Window : buf'[p][SlotOf(p, k)'] = longer[k + 1]
    <3> TAKE k \in 1..Window
    <3>1. CASE k = Window
      BY <1>1, <1>3, <1>5, <2>3, <3>1
    <3>2. CASE k # Window
      BY <1>1, <1>3, <1>5, <2>2, <3>2
    <3> QED
      BY <3>1, <3>2
  <2>5. Recent(p)' = [k \in 1..Window |-> longer[k + 1]]
    BY <1>1, <1>5, <2>4 DEF Recent
  <2> QED
    BY <2>1, <2>5
<1> QED
  BY <1>1, <1>4, <1>5

\* The other providers' windows are not touched.
LEMMA RecordNotesOnlyOne ==
  ASSUME RingOK, NEW p \in Provider, NEW ok \in BOOLEAN, Record(p, ok)
  PROVE  Ring!Note(p, ok)
<1>1. Recent(p)' = Ring!Latest(Append(Recent(p), ok))
  BY RecordNotes
<1>2. \A q \in Provider : q # p => Recent(q)' = Recent(q)
  BY DEF Record, RingOK, TrackerTypeOK, Recent, SlotOf
<1> QED
  BY <1>1, <1>2 DEF Ring!Note

\* The invariant of the composition.
Inv == TypeOK /\ FilledFromZero

\* What a request still has to attempt, once one attempt is behind it.
LEMMA TailOfChain ==
  ASSUME NEW chain \in Chains
  PROVE  /\ Head(chain) \in Provider
         /\ Len(chain) > 1 => Tail(chain) \in Chains
<1> PICK n \in 1..MaxChain : chain \in [1..n -> Provider]
  BY DEF Chains
<1>1. n \in Nat /\ n >= 1 /\ chain \in Seq(Provider) /\ Len(chain) = n
  BY ChainAssumption, SeqDef
<1>2. ASSUME n > 1 PROVE Tail(chain) \in [1..(n - 1) -> Provider] /\ n - 1 \in 1..MaxChain
  <2>1. Tail(chain) \in Seq(Provider) /\ Len(Tail(chain)) = n - 1
    BY <1>1, HeadTailProperties
  <2>2. Tail(chain) \in [1..(n - 1) -> Provider]
    BY <2>1, LenProperties, Zenon
  <2> QED
    BY <1>1, <1>2, <2>2, ChainAssumption
<1> QED
  BY <1>1, <1>2 DEF Chains

\* The end of an attempt records its outcome, and nothing else touches the tracker.
LEMMA StepRecords ==
  ASSUME Inv, [Next]_vars
  PROVE  UNCHANGED tracker \/ \E p \in Provider, ok \in BOOLEAN : Record(p, ok)
<1>1. ASSUME NEW r \in Request, Fail(r) \/ Succeed(r)
      PROVE  \E p \in Provider, ok \in BOOLEAN : Record(p, ok)
  <2>1. req[r].chain \in Chains
    BY <1>1 DEF Fail, Succeed, Active, Inv, TypeOK
  <2>2. Head(req[r].chain) \in Provider
    BY <2>1, TailOfChain
  <2> QED
    BY <1>1, <2>2 DEF Fail, Succeed
<1>2. ASSUME NEW r \in Request, Route(r) \/ RoutePinned(r) PROVE UNCHANGED tracker
  BY <1>2 DEF Route, RoutePinned
<1>3. ASSUME NEW p \in Provider, Outage(p) \/ Recovery(p) PROVE UNCHANGED tracker
  BY <1>3 DEF Outage, Recovery
<1>4. CASE UNCHANGED vars
  BY <1>4 DEF vars
<1> QED
  BY <1>1, <1>2, <1>3, <1>4 DEF Next

\* Requests stay well formed.
LEMMA StepKeepsRequests ==
  ASSUME Inv, [Next]_vars
  PROVE  /\ up' \in [Provider -> BOOLEAN]
         /\ req' \in [Request -> [chain : Chains, pinned : BOOLEAN] \cup {Idle}]
<1> USE DEF Inv, TypeOK
<1>1. ASSUME NEW r \in Request, Route(r) PROVE UNCHANGED up /\
        req' \in [Request -> [chain : Chains, pinned : BOOLEAN] \cup {Idle}]
  BY <1>1 DEF Route
<1>2. ASSUME NEW r \in Request, RoutePinned(r) PROVE UNCHANGED up /\
        req' \in [Request -> [chain : Chains, pinned : BOOLEAN] \cup {Idle}]
  <2>1. \A p \in Provider : <<p>> \in Chains
    <3> TAKE p \in Provider
    <3>1. <<p>> \in [1..1 -> Provider] /\ 1 \in 1..MaxChain
      BY ChainAssumption
    <3> QED
      BY <3>1 DEF Chains
  <2> QED
    BY <1>2, <2>1 DEF RoutePinned
<1>3. ASSUME NEW r \in Request, Fail(r) \/ Succeed(r) PROVE UNCHANGED up /\
        req' \in [Request -> [chain : Chains, pinned : BOOLEAN] \cup {Idle}]
  <2>1. req[r] \in [chain : Chains, pinned : BOOLEAN]
    BY <1>3 DEF Fail, Succeed, Active
  <2>2. Len(req[r].chain) > 1 => Tail(req[r].chain) \in Chains
    BY <2>1, TailOfChain
  <2> QED
    BY <1>3, <2>1, <2>2 DEF Fail, Succeed
<1>4. ASSUME NEW p \in Provider, Outage(p) \/ Recovery(p) PROVE
        up' \in [Provider -> BOOLEAN] /\ UNCHANGED req
  BY <1>4 DEF Outage, Recovery
<1>5. CASE UNCHANGED vars
  BY <1>5 DEF vars
<1> QED
  BY <1>1, <1>2, <1>3, <1>4, <1>5 DEF Next

\* The first state: empty windows.
LEMMA InitInv == Init => Inv /\ Ring!Init
<1> SUFFICES ASSUME Init PROVE Inv /\ Ring!Init
  OBVIOUS
<1>1. Inv
  BY WindowAssumption DEF Init, Inv, TypeOK, TrackerInit, TrackerTypeOK, FilledFromZero, Slot
<1>2. \A p \in Provider : Recent(p) = <<>>
  BY DEF Init, TrackerInit, Recent
<1> QED
  BY <1>1, <1>2 DEF Ring!Init

\* Every step keeps the invariant and is a step of the sliding window or none.
LEMMA StepInv == Inv /\ [Next]_vars => Inv' /\ [Ring!Next]_([p \in Provider |-> Recent(p)])
<1> SUFFICES ASSUME Inv, [Next]_vars
             PROVE  Inv' /\ [Ring!Next]_([p \in Provider |-> Recent(p)])
  OBVIOUS
<1>1. CASE UNCHANGED tracker
  <2>1. Inv'
    BY <1>1, StepKeepsRequests DEF Inv, TypeOK, tracker, TrackerTypeOK, FilledFromZero
  <2>2. [p \in Provider |-> Recent(p)]' = [p \in Provider |-> Recent(p)]
    BY <1>1 DEF tracker, Recent, SlotOf
  <2> QED
    BY <2>1, <2>2
<1>2. ASSUME NEW p \in Provider, NEW ok \in BOOLEAN, Record(p, ok)
      PROVE  Inv' /\ Ring!Next
  <2>1. RingOK
    BY DEF Inv, TypeOK, RingOK
  <2>2. RingOK'
    BY <1>2, <2>1, RecordKeepsRing
  <2>3. Ring!Note(p, ok)
    BY <1>2, <2>1, RecordNotesOnlyOne
  <2> QED
    BY <2>2, <2>3, StepKeepsRequests DEF RingOK, Inv, TypeOK, Ring!Next
<1> QED
  BY <1>1, <1>2, StepRecords

\* The typing, and that a window that is not full has not wrapped.
THEOREM InvHolds == SafeSpec => []Inv
<1>1. Init => Inv
  BY InitInv
<1>2. Inv /\ [Next]_vars => Inv'
  BY StepInv
<1> QED
  BY <1>1, <1>2, PTL DEF SafeSpec

\* The state of the tracker and of the requests is well typed.
THEOREM TypeCorrect == SafeSpec => []TypeOK
<1>1. Inv => TypeOK
  BY DEF Inv
<1> QED
  BY <1>1, InvHolds, PTL

\* The ring buffer implements the sliding window: no outcome older than the last
\* Window ones counts, and none of those is missed.
THEOREM WindowImplemented == SafeSpec => ImplementsWindow
<1>1. Init => Ring!Init
  BY InitInv
<1>2. Inv /\ [Next]_vars => [Ring!Next]_([p \in Provider |-> Recent(p)])
  BY StepInv
<1> QED
  BY <1>1, <1>2, InvHolds, PTL DEF SafeSpec, ImplementsWindow, Ring!Spec

\* Summing slots 0 to count - 1 counts the successes among the recent outcomes: the
\* ring is read out by a bijection, wherever its head stands.
LEMMA SumOfSlots == Inv => ScoreOfRecent
<1> SUFFICES ASSUME Inv, NEW p \in Provider
             PROVE  Successes(p) = Cardinality({k \in 1..count[p] : Recent(p)[k]})
  BY DEF ScoreOfRecent
<1> USE WindowAssumption
<1> DEFINE slots == {i \in Slot : i < count[p] /\ buf[p][i]}
           places == {k \in 1..count[p] : Recent(p)[k]}
           read == [k \in places |-> SlotOf(p, k)]
<1>1. /\ count[p] \in 0..Window /\ head[p] \in 0..(Window - 1)
      /\ count[p] < Window => head[p] = count[p]
  BY DEF Inv, TypeOK, TrackerTypeOK, FilledFromZero, Slot
<1>2. \A k \in 1..count[p] : SlotOf(p, k) \in Slot /\ SlotOf(p, k) < count[p]
  BY <1>1 DEF SlotOf, Slot
<1>3. \A j, k \in 1..count[p] : SlotOf(p, j) = SlotOf(p, k) => j = k
  BY <1>1 DEF SlotOf
<1>4. \A i \in Slot : i < count[p] => \E k \in 1..count[p] : SlotOf(p, k) = i
  <2> TAKE i \in Slot
  <2> HAVE i < count[p]
  <2>1. CASE count[p] < Window
    <3>1. i + 1 \in 1..count[p] /\ SlotOf(p, i + 1) = i
      BY <1>1, <2>1 DEF SlotOf, Slot
    <3> QED
      BY <3>1
  <2>2. CASE count[p] = Window /\ i >= head[p]
    <3>1. i - head[p] + 1 \in 1..count[p] /\ SlotOf(p, i - head[p] + 1) = i
      BY <1>1, <2>2 DEF SlotOf, Slot
    <3> QED
      BY <3>1
  <2>3. CASE count[p] = Window /\ i < head[p]
    <3>1. /\ i + Window - head[p] + 1 \in 1..count[p]
          /\ SlotOf(p, i + Window - head[p] + 1) = i
      BY <1>1, <2>3 DEF SlotOf, Slot
    <3> QED
      BY <3>1
  <2> QED
    BY <1>1, <2>1, <2>2, <2>3 DEF Slot
<1>5. \A k \in 1..count[p] : Recent(p)[k] = buf[p][SlotOf(p, k)]
  BY DEF Recent
<1>6. read \in Bijection(places, slots)
  <2>1. read \in [places -> slots]
    BY <1>2, <1>5
  <2>2. read \in Injection(places, slots)
    BY <1>3, <2>1 DEF Injection, IsInjective
  <2>3. \A i \in slots : \E k \in places : read[k] = i
    BY <1>4, <1>5
  <2> QED
    BY <2>1, <2>2, <2>3 DEF Bijection, Surjection
<1>7. IsFiniteSet(places)
  <2>0. 1 \in Int /\ count[p] \in Int
    BY <1>1
  <2>1. IsFiniteSet(1..count[p])
    BY <2>0, FS_Interval
  <2> QED
    BY <2>1, FS_Subset
<1> QED
  BY <1>6, <1>7, FS_Bijection DEF ExistsBijection, Successes

\* The health score is that of the recent outcomes in every reachable state.
THEOREM ScoreOfRecentHolds == SafeSpec => []ScoreOfRecent
<1>1. Inv => ScoreOfRecent
  BY SumOfSlots
<1> QED
  BY <1>1, InvHolds, PTL

-------------------------------------------------------------------------------
(* Retention. *)

\* Rows as they are written: only the tables with the column name a tenant.
Rows ==
  {row \in [table : TableName, tenant : Tenant \cup {0}, day : Int] :
     ~HasTenantID(row.table) => row.tenant = 0}

\* The requests the plans are made of.
Deletes ==
  [table : TableName, tenant : Tenant \cup {0}, exclude : SUBSET Tenant, cutoff : Int]

\* A request planned today or on an earlier day asks for no more than today's windows have
\* expired, and the default window's request spares the tenants with one of their own.
Lawful ==
  {request \in Deletes :
     \/ /\ request.tenant \in DOMAIN settings
        /\ request.cutoff <= Cutoff(request.tenant)
     \/ /\ request.tenant = 0
        /\ request.cutoff <= today - DefaultDays
        /\ HasTenantID(request.table) => DOMAIN settings \subseteq request.exclude}

\* The inductive invariant: a plan stays lawful while days pass.
CleanerInv ==
  /\ settings \in Overrides /\ today \in Int
  /\ rows \subseteq Rows
  /\ plan \in Seq(Lawful)

\* Every window is a number of days; the tenants without a positive one have the default.
LEMMA WindowOf ==
  ASSUME settings \in Overrides, today \in Int, NEW t \in Tenant \cup {0}
  PROVE  /\ RetentionDays(t) \in Nat /\ Cutoff(t) \in Int
         /\ t \notin DOMAIN settings => Cutoff(t) = today - DefaultDays
         /\ 0 \notin DOMAIN settings /\ DOMAIN settings \subseteq Tenant
<1>1. DOMAIN settings \subseteq Tenant /\ 0 \notin Tenant /\ DefaultDays \in Nat
  BY RetentionAssumption DEF RetentionAssumption
<1>2. t \in DOMAIN settings => settings[t] \in Nat
  BY RetentionAssumption DEF RetentionAssumption, Range
<1> QED BY <1>1, <1>2 DEF RetentionDays, Cutoff

\* Whatever a sweep plans is lawful on the day it plans it.
LEMMA PlansAreLawful ==
  ASSUME settings \in Overrides, today \in Int, NEW requests \in SweepPlan
  PROVE  requests \in Seq(Lawful)
<1>1. PICK ids \in TenantIDs :
        requests = RequestsFor(Table[1], ids) \o RequestsFor(Table[2], ids)
                     \o RequestsFor(Table[3], ids)
  BY DEF SweepPlan
<1>2. DOMAIN settings \subseteq Tenant /\ 0 \notin DOMAIN settings
  BY WindowOf
<1>3. ASSUME NEW table \in TableName, NEW t \in DOMAIN settings
      PROVE  Delete(table, t, {}) \in Lawful
  BY <1>2, WindowOf DEF Delete, Lawful, Deletes
<1>4. ASSUME NEW table \in TableName
      PROVE  DefaultSweep(table) \in Lawful
  BY <1>2, WindowOf DEF DefaultSweep, Delete, Lawful, Deletes
<1>5. ASSUME NEW table \in TableName, ~HasTenantID(table)
      PROVE  Delete(table, 0, {}) \in Lawful
  BY <1>2, <1>5, WindowOf DEF Delete, Lawful, Deletes
<1>6. ASSUME NEW table \in TableName
      PROVE  RequestsFor(table, ids) \in Seq(Lawful)
  <2>1. CASE HasTenantID(table)
    <3> DEFINE n == Cardinality(DOMAIN settings)
               own == [i \in DOMAIN ids |-> Delete(table, ids[i], {})]
    <3>1. ids \in [1..n -> DOMAIN settings]
      BY DEF TenantIDs
    <3>2. own \in [1..n -> Lawful]
      BY <1>3, <3>1
    <3>3. n \in Nat
      BY RetentionAssumption, FS_CardinalityType DEF RetentionAssumption
    <3>4. own \in Seq(Lawful)
      BY <3>2, <3>3, SeqDef
    <3> QED BY <1>4, <2>1, <3>4 DEF RequestsFor
  <2>2. CASE ~HasTenantID(table)
    BY <1>5, <2>2 DEF RequestsFor
  <2> QED BY <2>1, <2>2
<1>7. /\ Table[1] \in TableName /\ Table[2] \in TableName /\ Table[3] \in TableName
  BY DEF Table, TableName, Range
<1> QED BY <1>1, <1>6, <1>7

\* A lawful request stays lawful while the day does not go back.
LEMMA LawfulStays ==
  ASSUME settings \in Overrides, today \in Int, today' \in Int, today <= today',
         settings' = settings
  PROVE  Lawful \subseteq Lawful'
<1> SUFFICES ASSUME NEW request \in Lawful PROVE request \in Lawful'
  OBVIOUS
<1>1. request \in Deletes /\ DefaultDays \in Nat
  BY RetentionAssumption DEF Lawful, RetentionAssumption
<1>2. ASSUME request.tenant \in DOMAIN settings, request.cutoff <= Cutoff(request.tenant)
      PROVE  request.cutoff <= Cutoff(request.tenant)'
  <2>1. RetentionDays(request.tenant) \in Nat
    BY <1>1, WindowOf DEF Deletes
  <2>2. RetentionDays(request.tenant)' = RetentionDays(request.tenant)
    BY DEF RetentionDays
  <2> QED BY <1>1, <1>2, <2>1, <2>2 DEF Cutoff, Deletes
<1> QED BY <1>1, <1>2 DEF Lawful, Deletes

\* What a lawful request matches has expired for the tenant it belongs to.
LEMMA LawfulMatchesExpired ==
  ASSUME settings \in Overrides, today \in Int, rows \subseteq Rows, NEW request \in Lawful
  PROVE  Matched(request) \subseteq {row \in rows : Expired(row)}
<1> SUFFICES ASSUME NEW row \in Matched(request)
             PROVE  row.day < Cutoff(row.tenant)
  BY DEF Expired, Matched
<1>1. /\ row \in Rows /\ row.table = request.table
      /\ row.day < request.cutoff /\ row.day \in Int /\ row.tenant \in Tenant \cup {0}
      /\ request.cutoff \in Int
  BY DEF Matched, Rows, Lawful, Deletes
<1>2. Cutoff(row.tenant) \in Int /\ 0 \notin DOMAIN settings
  BY <1>1, WindowOf
<1>3. CASE request.tenant \in DOMAIN settings /\ request.cutoff <= Cutoff(request.tenant)
  BY <1>1, <1>2, <1>3 DEF Matched
<1>4. CASE /\ request.tenant = 0 /\ request.cutoff <= today - DefaultDays
           /\ HasTenantID(request.table) => DOMAIN settings \subseteq request.exclude
  <2>1. row.tenant \notin DOMAIN settings
    BY <1>1, <1>2, <1>4 DEF Matched, Rows
  <2>2. Cutoff(row.tenant) = today - DefaultDays
    BY <1>1, <2>1, WindowOf
  <2> QED BY <1>1, <1>2, <1>4, <2>2
<1> QED BY <1>3, <1>4 DEF Lawful

\* At first there is nothing to delete and nothing planned.
LEMMA CleanerInitInv == CleanerInit => CleanerInv
BY DEF CleanerInit, CleanerInv

\* Every step keeps the invariant, and deletes nothing but expired rows.
LEMMA CleanerStep ==
  ASSUME CleanerInv, [CleanerNext]_cleanerVars
  PROVE  CleanerInv' /\ rows \ rows' \subseteq {row \in rows : Expired(row)}
<1> USE DEF CleanerInv
<1>1. CASE UNCHANGED settings /\ UNCHANGED today /\ UNCHANGED rows /\ plan' \in Seq(Lawful)
  <2>1. Lawful' = Lawful
    BY <1>1 DEF Lawful, Cutoff, RetentionDays
  <2> QED BY <1>1, <2>1
<1>2. ASSUME NEW table \in TableName, Purged(table)
      PROVE  CleanerInv' /\ rows \ rows' \subseteq {row \in rows : Expired(row)}
  <2>1. plan # <<>> /\ plan' = Tail(plan) /\ rows' = rows \ Matched(Head(plan))
        /\ UNCHANGED <<settings, today>>
    BY <1>2 DEF Purged, Executing
  <2>2. Head(plan) \in Lawful /\ Tail(plan) \in Seq(Lawful)
    BY <2>1
  <2>3. Lawful' = Lawful
    BY <2>1 DEF Lawful, Cutoff, RetentionDays
  <2>4. Matched(Head(plan)) \subseteq {row \in rows : Expired(row)}
    BY <2>2, LawfulMatchesExpired
  <2> QED BY <2>1, <2>2, <2>3, <2>4
<1>3. ASSUME NEW table \in TableName, PurgeFails(table)
      PROVE  CleanerInv' /\ rows \ rows' \subseteq {row \in rows : Expired(row)}
  BY <1>1, <1>3 DEF PurgeFails, Executing, RestAfterError, world
<1>4. CASE Start
  BY <1>1, <1>4, PlansAreLawful DEF Start, world
<1>5. CASE NextSweep
  BY <1>1, <1>5, PlansAreLawful DEF NextSweep, world
<1>6. CASE Tick
  BY <1>1, <1>6 DEF Tick, world
<1>7. CASE SweepEnds
  BY <1>1, <1>7 DEF SweepEnds, world
<1>8. CASE RunReturns
  BY <1>1, <1>8 DEF RunReturns, world
<1>9. CASE Cancel
  BY <1>1, <1>9 DEF Cancel, world
<1>10. CASE Kill
  BY <1>1, <1>10 DEF Kill, world
<1>11. CASE Write
  <2>1. PICK table \in TableName :
          \E tenant \in IF HasTenantID(table) THEN Tenant \cup {0} ELSE {0} :
            rows' = rows \cup {[table |-> table, tenant |-> tenant, day |-> today]}
    BY <1>11 DEF Write
  <2> PICK tenant \in IF HasTenantID(table) THEN Tenant \cup {0} ELSE {0} :
        rows' = rows \cup {[table |-> table, tenant |-> tenant, day |-> today]}
    BY <2>1
  <2>2. [table |-> table, tenant |-> tenant, day |-> today] \in Rows
    BY DEF Rows
  <2>3. UNCHANGED <<settings, today, plan>>
    BY <1>11 DEF Write
  <2>4. Lawful' = Lawful
    BY <2>3 DEF Lawful, Cutoff, RetentionDays
  <2> QED BY <2>1, <2>2, <2>3, <2>4
<1>12. CASE DayPasses
  <2>1. UNCHANGED <<settings, rows, plan>> /\ today' = today + 1
    BY <1>12 DEF DayPasses
  <2>2. Lawful \subseteq Lawful'
    BY <2>1, LawfulStays
  <2>3. plan \in Seq(Lawful')
    BY <2>2
  <2> QED BY <2>1, <2>3
<1>13. CASE UNCHANGED cleanerVars
  BY <1>1, <1>13 DEF cleanerVars
<1> QED
  BY <1>2, <1>3, <1>4, <1>5, <1>6, <1>7, <1>8, <1>9, <1>10, <1>11, <1>12, <1>13
     DEF CleanerNext, Sweeping

\* The invariant holds in every reachable state.
THEOREM CleanerInvHolds == CleanerSpec => []CleanerInv
BY CleanerInitInv, CleanerStep, PTL DEF CleanerSpec

\* No sweep deletes a row its own tenant's window still covers: for any tenants, settings
\* and days, however long a plan waits, fails or is cut short.
THEOREM OnlyExpiredHolds == CleanerSpec => OnlyExpiredIsPurged
<1>1. CleanerInv /\ [CleanerNext]_cleanerVars
        => [rows \ rows' \subseteq {row \in rows : Expired(row)}]_cleanerVars
  BY CleanerStep
<1> QED BY <1>1, CleanerInvHolds, PTL DEF CleanerSpec, OnlyExpiredIsPurged
===============================================================================
