---------------------------- MODULE HealthTracker ----------------------------
(***************************************************************************)
(* The rolling-window tracker of internal/health: a ring of the last Window *)
(* outcomes per provider.  Every operation is one critical section of the   *)
(* tracker's lock, so an operation is a step.                               *)
(*                                                                         *)
(* head is only ever used modulo the window size and is kept that way; a    *)
(* provider the map does not hold has the zero window it would be given.    *)
(***************************************************************************)
EXTENDS Naturals, Sequences, FiniteSets

CONSTANTS
  Provider,
  Window,           \* windowSize, 100
  MinAttempts,      \* minAttempts, 5
  Tenth             \* 1 / minHealthThreshold of the engine, 10

ASSUME WindowAssumption ==
  /\ Window \in Nat \ {0}
  /\ MinAttempts \in 1..Window
  /\ Tenth \in Nat \ {0}

VARIABLES
  buf,              \* [Provider -> [0..Window-1 -> TRUE for success]]
  head,             \* [Provider -> slot the next outcome goes to]
  count             \* [Provider -> outcomes stored], total in the code

tracker == <<buf, head, count>>

Slot == 0..(Window - 1)

TrackerTypeOK ==
  /\ buf \in [Provider -> [Slot -> BOOLEAN]]
  /\ head \in [Provider -> Slot]
  /\ count \in [Provider -> 0..Window]

TrackerInit ==
  /\ buf = [p \in Provider |-> [i \in Slot |-> FALSE]]
  /\ head = [p \in Provider |-> 0]
  /\ count = [p \in Provider |-> 0]

After(slot) == IF slot + 1 = Window THEN 0 ELSE slot + 1

\* Variant of Record: once the window is full the head stays where it is.
RecordAtTheEnd(p, ok) ==
  /\ buf' = [buf EXCEPT ![p][head[p]] = ok]
  /\ head' = [head EXCEPT ![p] = IF @ + 1 = Window THEN @ ELSE @ + 1]
  /\ count' = [count EXCEPT ![p] = IF @ < Window THEN @ + 1 ELSE @]

\* record.
Record(p, ok) ==
  /\ buf' = [buf EXCEPT ![p][head[p]] = ok]
  /\ head' = [head EXCEPT ![p] = After(@)]
  /\ count' = [count EXCEPT ![p] = IF @ < Window THEN @ + 1 ELSE @]

\* The loop of ProviderHealth: it sums the slots from 0, wherever the head is.
Successes(p) == Cardinality({i \in Slot : i < count[p] /\ buf[p][i]})

\* hardFilter's test ProviderHealth(p) < minHealthThreshold; a provider with few
\* outcomes has health 1.
Unhealthy(p) ==
  /\ count[p] >= MinAttempts
  /\ Tenth * Successes(p) < count[p]

-------------------------------------------------------------------------------
(* The ring read out, oldest outcome first. *)

SlotOf(p, k) ==
  IF count[p] < Window THEN k - 1
  ELSE IF head[p] + k - 1 < Window THEN head[p] + k - 1
  ELSE head[p] + k - 1 - Window

Recent(p) == [k \in 1..count[p] |-> buf[p][SlotOf(p, k)]]

\* Until the window is full the ring has not wrapped.
FilledFromZero == \A p \in Provider : count[p] < Window => head[p] = count[p]

Ring == INSTANCE SlidingWindow WITH recent <- [p \in Provider |-> Recent(p)]

\* The ring implements the sliding window: an outcome replaces the oldest one and
\* nothing older than Window outcomes is ever counted.
ImplementsWindow == Ring!Spec

\* The loop's sum over slots is the number of successes among the recent outcomes.
ScoreOfRecent ==
  \A p \in Provider :
    Successes(p) = Cardinality({k \in 1..count[p] : Recent(p)[k]})
===============================================================================
