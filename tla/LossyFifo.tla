------------------------------- MODULE LossyFifo -------------------------------
(***************************************************************************)
(* What internal/eventlog promises the request path: events are settled one *)
(* at a time in the order they were accepted, an accepted event is never    *)
(* lost or reordered, and an event is turned away only while Size accepted  *)
(* ones are still waiting.  Goroutines, panics and shutdown are left out.   *)
(***************************************************************************)
EXTENDS Naturals, Sequences

CONSTANTS Event, Size

VARIABLES
  waiting,          \* accepted events whose handler call has not ended
  settled,          \* events whose handler call has ended, in order
  lost              \* events turned away

fifo == <<waiting, settled, lost>>

Init == waiting = <<>> /\ settled = <<>> /\ lost = {}

\* One event may be with the handler while Size others wait.
Accept(e) ==
  /\ Len(waiting) <= Size
  /\ waiting' = Append(waiting, e)
  /\ UNCHANGED <<settled, lost>>

TurnAway(e) ==
  /\ Len(waiting) >= Size
  /\ lost' = lost \cup {e}
  /\ UNCHANGED <<waiting, settled>>

Settle ==
  /\ waiting # <<>>
  /\ settled' = Append(settled, Head(waiting))
  /\ waiting' = Tail(waiting)
  /\ UNCHANGED lost

Next == (\E e \in Event : Accept(e) \/ TurnAway(e)) \/ Settle

Spec == Init /\ [][Next]_fifo
===============================================================================
