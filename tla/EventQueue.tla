------------------------------ MODULE EventQueue ------------------------------
(***************************************************************************)
(* The bounded, non-blocking event queue of internal/eventlog/queue.go: any *)
(* number of request goroutines call Enqueue, one worker goroutine runs Run *)
(* until its context is cancelled and then drains what it finds.            *)
(*                                                                         *)
(* A handler call is two steps, taking the event off the channel and the    *)
(* call's end, so that enqueues and the cancellation fall in between.       *)
(* Handlers of Poison events panic: recovered in the loop, not in the drain.*)
(***************************************************************************)
EXTENDS Naturals, Sequences, FiniteSets

CONSTANTS
  Event,            \* the events a run of the process may produce
  Poison,           \* the ones whose handler panics
  Size              \* capacity of the channel (4096 in cmd/router)

ASSUME QueueAssumption ==
  /\ Poison \subseteq Event
  /\ Size \in Nat \ {0}

VARIABLES
  ch,               \* the channel's buffer
  dropped,          \* Queue.dropped, reported by DroppedTotal
  worker,           \* where Run is
  hand,             \* <<e>> while the handler is called with e
  stopping,         \* the worker's context is cancelled
  settled,          \* history: events whose handler call has ended, in order
  lost,             \* history: events Enqueue dropped
  promised          \* history: number of events accepted before the cancellation

vars == <<ch, dropped, worker, hand, stopping, settled, lost, promised>>
history == <<settled, lost, promised>>

Elems(s) == {s[i] : i \in 1..Len(s)}

\* Every event the channel has accepted, in order.
Accepted == settled \o hand \o ch

WorkerStates == {"select", "handling", "draining", "drainHandling", "stopped", "crashed"}

TypeOK ==
  /\ ch \in Seq(Event) /\ Len(ch) <= Size
  /\ dropped \in Nat
  /\ worker \in WorkerStates
  /\ hand \in {<<>>} \cup {<<e>> : e \in Event}
  /\ hand # <<>> <=> worker \in {"handling", "drainHandling"}
  /\ stopping \in BOOLEAN
  /\ settled \in Seq(Event)
  /\ lost \in SUBSET Event
  /\ promised \in Nat

Init ==
  /\ ch = <<>>
  /\ dropped = 0
  /\ worker = "select"
  /\ hand = <<>>
  /\ stopping = FALSE
  /\ settled = <<>>
  /\ lost = {}
  /\ promised = 0

-------------------------------------------------------------------------------
(* The request path. *)

\* The send case of Enqueue's select: there is room.
Accept(e) ==
  /\ Len(ch) < Size
  /\ ch' = Append(ch, e)
  /\ UNCHANGED <<dropped, worker, hand, stopping, history>>

\* Variant of Drop: the oldest waiting event makes room for the new one.
DropOldest(e) ==
  /\ Len(ch) = Size
  /\ ch' = Append(Tail(ch), e)
  /\ dropped' = dropped + 1
  /\ lost' = lost \cup {Head(ch)}
  /\ UNCHANGED <<worker, hand, stopping, settled, promised>>

\* The default case: the buffer is full.
Drop(e) ==
  /\ Len(ch) = Size
  /\ dropped' = dropped + 1
  /\ lost' = lost \cup {e}
  /\ UNCHANGED <<ch, worker, hand, stopping, settled, promised>>

\* An event is offered once; a crashed worker has taken the process with it.
\* A stopped one has not: Enqueue still fills the channel nobody reads.
Enqueue(e) ==
  /\ worker # "crashed"
  /\ e \notin lost \cup Elems(Accepted)
  /\ Accept(e) \/ Drop(e)

-------------------------------------------------------------------------------
(* The worker. *)

\* The event case of Run's select, which Go may pick even when the context is done.
Take ==
  /\ worker = "select"
  /\ ch # <<>>
  /\ hand' = <<Head(ch)>>
  /\ ch' = Tail(ch)
  /\ worker' = "handling"
  /\ UNCHANGED <<dropped, stopping, history>>

\* Variant of HandlerEnds: the loop's handler call is not wrapped in recover.
HandlerEndsUnrecovered ==
  /\ worker = "handling"
  /\ settled' = settled \o hand
  /\ hand' = <<>>
  /\ worker' = IF hand[1] \in Poison THEN "crashed" ELSE "select"
  /\ UNCHANGED <<ch, dropped, stopping, lost, promised>>

\* The call returns, or panics and is recovered.
HandlerEnds ==
  /\ worker = "handling"
  /\ settled' = settled \o hand
  /\ hand' = <<>>
  /\ worker' = "select"
  /\ UNCHANGED <<ch, dropped, stopping, lost, promised>>

\* Variant of BeginDrain: Run returns as soon as its context is done.
ReturnWithoutDrain ==
  /\ worker = "select"
  /\ stopping
  /\ worker' = "stopped"
  /\ UNCHANGED <<ch, dropped, hand, stopping, history>>

\* The ctx.Done() case of Run's select.
BeginDrain ==
  /\ worker = "select"
  /\ stopping
  /\ worker' = "draining"
  /\ UNCHANGED <<ch, dropped, hand, stopping, history>>

DrainTake ==
  /\ worker = "draining"
  /\ ch # <<>>
  /\ hand' = <<Head(ch)>>
  /\ ch' = Tail(ch)
  /\ worker' = "drainHandling"
  /\ UNCHANGED <<dropped, stopping, history>>

DrainHandlerEnds ==
  /\ worker = "drainHandling"
  /\ hand[1] \notin Poison
  /\ settled' = settled \o hand
  /\ hand' = <<>>
  /\ worker' = "draining"
  /\ UNCHANGED <<ch, dropped, stopping, lost, promised>>

\* No recover around the drain's call: the panic ends the process.
DrainPanics ==
  /\ worker = "drainHandling"
  /\ hand[1] \in Poison
  /\ settled' = settled \o hand
  /\ hand' = <<>>
  /\ worker' = "crashed"
  /\ UNCHANGED <<ch, dropped, stopping, lost, promised>>

\* The drain's default case: the channel is empty and Run returns.
DrainEnds ==
  /\ worker = "draining"
  /\ ch = <<>>
  /\ worker' = "stopped"
  /\ UNCHANGED <<ch, dropped, hand, stopping, history>>

WorkerStep ==
  \/ Take \/ HandlerEnds \/ BeginDrain
  \/ DrainTake \/ DrainHandlerEnds \/ DrainPanics \/ DrainEnds

\* workerCancel, called once by main after the HTTP server has shut down.
Cancel ==
  /\ ~stopping
  /\ stopping' = TRUE
  /\ promised' = Len(Accepted)
  /\ UNCHANGED <<ch, dropped, worker, hand, settled, lost>>

Next == (\E e \in Event : Enqueue(e)) \/ WorkerStep \/ Cancel

SafeSpec == Init /\ [][Next]_vars

\* The Go scheduler keeps running the worker and handlers return: the loop's select
\* may prefer events to ctx.Done() for a while, but only as long as there are events.
Spec == SafeSpec /\ WF_vars(WorkerStep)

-------------------------------------------------------------------------------
(* Safety. *)

\* When the drain is over, every event accepted before the cancellation has been
\* handled, however enqueues, the worker's select and the cancellation interleaved.
DrainKeepsPromise ==
  worker = "stopped" => promised <= Len(settled)

\* A panicking handler takes the process down only once shutdown has begun.
PanicContained ==
  worker = "crashed" => stopping

\* The inductive invariant: the typing, the drain entered only after the
\* cancellation, and the promise never ahead of what the channel accepted.
Inv ==
  /\ TypeOK
  /\ worker \in {"draining", "drainHandling", "stopped", "crashed"} => stopping
  /\ promised <= Len(settled) + Len(hand) + Len(ch)
  /\ worker = "stopped" => promised <= Len(settled)

-------------------------------------------------------------------------------
(* What the queue promises. *)

Promise == INSTANCE LossyFifo WITH waiting <- hand \o ch

\* The channel, the worker and the counter implement a lossy FIFO that turns an
\* event away only while Size accepted ones wait.
ImplementsFifo == Promise!Spec

-------------------------------------------------------------------------------
(* Liveness. *)

\* An accepted event is eventually handled, unless the process is told to stop: a
\* recovered panic does not stall the ones behind it.
AcceptedIsHandled ==
  \A e \in Event : e \in Elems(ch) ~> (e \in Elems(settled) \/ stopping)

===============================================================================
