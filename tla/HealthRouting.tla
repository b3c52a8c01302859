---------------------------- MODULE HealthRouting ----------------------------
(***************************************************************************)
(* Requests, providers that come and go, and the health tracker: the loop   *)
(* from an attempt's outcome (recordAttempt and recordStream in             *)
(* internal/server/chat.go) back to the candidate filter of internal/engine *)
(* that decides who is attempted next.                                      *)
(*                                                                         *)
(* Health is read when a request is routed, for the whole chain of its      *)
(* attempts, and written as each attempt ends; other requests are routed    *)
(* and end in between.  Scores are left out: any of the providers that pass *)
(* the filter may come first.                                               *)
(***************************************************************************)
EXTENDS HealthTracker

CONSTANTS
  Request,          \* requests under way at once
  MaxChain          \* bound: primary and fallbacks, 3 in the code

ASSUME ChainAssumption == MaxChain \in Nat \ {0}

VARIABLES
  up,               \* [Provider -> the provider answers]
  req               \* [Request -> the attempts it has left, and who chose them]

vars == <<tracker, up, req>>

Chains == UNION {[1..n -> Provider] : n \in 1..MaxChain}
Idle == [chain |-> <<>>, pinned |-> FALSE]
Active(r) == req[r] # Idle

TypeOK ==
  /\ TrackerTypeOK
  /\ up \in [Provider -> BOOLEAN]
  /\ req \in [Request -> [chain : Chains, pinned : BOOLEAN] \cup {Idle}]

Init ==
  /\ TrackerInit
  /\ up = [p \in Provider |-> TRUE]
  /\ req = [r \in Request |-> Idle]

\* decideScored: every model of the chain passed the filter; two of them may be at the
\* same provider.
Route(r) ==
  /\ ~Active(r)
  /\ \E chain \in Chains :
       /\ \A i \in DOMAIN chain : ~Unhealthy(chain[i])
       /\ req' = [req EXCEPT ![r] = [chain |-> chain, pinned |-> FALSE]]
  /\ UNCHANGED <<tracker, up>>

\* decidePinned asks for no health and plans no fallbacks.
RoutePinned(r) ==
  /\ ~Active(r)
  /\ \E p \in Provider : req' = [req EXCEPT ![r] = [chain |-> <<p>>, pinned |-> TRUE]]
  /\ UNCHANGED <<tracker, up>>

\* Variant of Fail: an attempt that moves on to a fallback is not reported.
FailUnreported(r) ==
  /\ Active(r)
  /\ LET p == Head(req[r].chain) IN
       /\ ~up[p]
       /\ IF Len(req[r].chain) > 1 THEN UNCHANGED tracker ELSE Record(p, FALSE)
       /\ \/ req' = [req EXCEPT ![r] = Idle]
          \/ /\ Len(req[r].chain) > 1
             /\ req' = [req EXCEPT ![r].chain = Tail(@)]
  /\ UNCHANGED up

\* The attempt fails.  Before its first chunk a stream moves on to its next candidate,
\* healthy or not by now; otherwise the request ends with the error.
Fail(r) ==
  /\ Active(r)
  /\ LET p == Head(req[r].chain) IN
       /\ ~up[p]
       /\ Record(p, FALSE)
       /\ \/ req' = [req EXCEPT ![r] = Idle]
          \/ /\ Len(req[r].chain) > 1
             /\ req' = [req EXCEPT ![r].chain = Tail(@)]
  /\ UNCHANGED up

Succeed(r) ==
  /\ Active(r)
  /\ LET p == Head(req[r].chain) IN up[p] /\ Record(p, TRUE)
  /\ req' = [req EXCEPT ![r] = Idle]
  /\ UNCHANGED up

Outage(p) == up[p] /\ up' = [up EXCEPT ![p] = FALSE] /\ UNCHANGED <<tracker, req>>
Recovery(p) == ~up[p] /\ up' = [up EXCEPT ![p] = TRUE] /\ UNCHANGED <<tracker, req>>

Next ==
  \/ \E r \in Request : Route(r) \/ RoutePinned(r) \/ Fail(r) \/ Succeed(r)
  \/ \E p \in Provider : Outage(p) \/ Recovery(p)

SafeSpec == Init /\ [][Next]_vars

\* Attempts end, since the adapters have deadlines, and requests that name no model
\* keep coming.
Spec ==
  /\ SafeSpec
  /\ \A r \in Request : WF_vars(Fail(r) \/ Succeed(r)) /\ WF_vars(Route(r))

-------------------------------------------------------------------------------

At(r, p) == Active(r) /\ Head(req[r].chain) = p

\* A provider that stays down is eventually attempted no more, but for clients that
\* insist on it, however its old successes, late outcomes and chains chosen while it
\* was healthy interleave.  (Requests are decided anew here: a cached decision asks for no
\* health at all.)
DeadProviderIsShed ==
  \A p \in Provider :
    <>[](~up[p]) => <>[](\A r \in Request : At(r, p) => req[r].pinned)

===============================================================================
