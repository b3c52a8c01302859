--------------------------- MODULE RequestLog_proofs ---------------------------
(***************************************************************************)
(* The event queue for any number of events, any capacity and any set of    *)
(* panicking handlers: what the drain promises, where a panic can end the   *)
(* process, and that channel and worker implement a lossy FIFO; and that    *)
(* requests and handlers around the queue take none of this away.           *)
(***************************************************************************)
EXTENDS RequestLog, FiniteSetTheorems, SequenceTheorems, WellFoundedInduction, TLAPS

\* One event in the hand, and the rest of the channel behind it, is the channel as
\* it was before the event was taken.
LEMMA HandThenTail == ASSUME NEW s \in Seq(Event), s # <<>>
                      PROVE  /\ <<Head(s)>> \in {<<e>> : e \in Event}
                             /\ Tail(s) \in Seq(Event)
                             /\ Len(Tail(s)) + 1 = Len(s)
                             /\ <<Head(s)>> \o Tail(s) = s
OBVIOUS

\* What ending a handler call does to the concatenation of hand and channel.
LEMMA HandFirst == ASSUME NEW e \in Event, NEW s \in Seq(Event)
                   PROVE  /\ <<e>> \o s # <<>>
                          /\ Head(<<e>> \o s) = e
                          /\ Tail(<<e>> \o s) = s
                          /\ <<>> \o s = s
OBVIOUS

\* The empty sequence is a sequence of events of length zero.
LEMMA EmptyIsSeq == <<>> \in Seq(Event) /\ Len(<<>>) = 0
OBVIOUS

\* One event is a sequence of events of length one.
LEMMA SingletonIsSeq == ASSUME NEW e \in Event
                        PROVE  <<e>> \in Seq(Event) /\ Len(<<e>>) = 1
OBVIOUS

\* The hand holds at most one event.
LEMMA HandIsSeq == ASSUME TypeOK
                   PROVE  /\ hand \in Seq(Event) /\ ch \in Seq(Event) /\ settled \in Seq(Event)
                          /\ Len(hand) \in Nat /\ Len(hand) <= 1
                          /\ Len(ch) \in Nat /\ Len(settled) \in Nat
<1>1. CASE hand = <<>>
  BY <1>1, EmptyIsSeq DEF TypeOK
<1>2. CASE hand \in {<<e>> : e \in Event}
  <2>1. PICK e \in Event : hand = <<e>>
    BY <1>2
  <2> QED BY <2>1, SingletonIsSeq DEF TypeOK
<1> QED BY <1>1, <1>2 DEF TypeOK

\* The first state.
LEMMA InitInv == Init => Inv
<1> SUFFICES ASSUME Init PROVE Inv
  OBVIOUS
<1>1. Len(ch) <= Size
  BY EmptyIsSeq, QueueAssumption DEF Init, QueueAssumption
<1>2. TypeOK
  BY <1>1, EmptyIsSeq DEF Init, TypeOK, WorkerStates
<1> QED
  BY <1>2, EmptyIsSeq DEF Init, Inv

\* The length of everything accepted so far is the sum of the three parts.
LEMMA AcceptedLength == ASSUME TypeOK
                        PROVE  Len(Accepted) = Len(settled) + Len(hand) + Len(ch)
<1>1. hand \in Seq(Event) /\ ch \in Seq(Event) /\ settled \in Seq(Event)
  BY HandIsSeq
<1>2. settled \o hand \in Seq(Event) /\ Len(settled \o hand) = Len(settled) + Len(hand)
  BY <1>1
<1> QED
  BY <1>1, <1>2 DEF Accepted

\* Enqueue keeps the channel within its capacity and withdraws nothing promised.
LEMMA EnqueueInv == ASSUME Inv, NEW e \in Event, Enqueue(e)
                    PROVE  Inv'
<1>1. CASE Accept(e)
  <2>1. ch' \in Seq(Event) /\ Len(ch') = Len(ch) + 1 /\ Len(ch') <= Size
    BY <1>1, QueueAssumption DEF Accept, Inv, TypeOK, QueueAssumption
  <2> QED
    BY <1>1, <2>1 DEF Accept, Inv, TypeOK, WorkerStates, history
<1>2. CASE Drop(e)
  BY <1>2 DEF Drop, Inv, TypeOK, WorkerStates
<1> QED BY <1>1, <1>2 DEF Enqueue

\* The worker: taking an event moves it from channel to hand, ending a call moves it
\* from hand to history, and the sum of the three never shrinks.
LEMMA WorkerInv == ASSUME Inv, WorkerStep
                   PROVE  Inv'
<1>1. CASE Take
  <2>1. /\ hand' \in {<<e>> : e \in Event} /\ Len(hand') = 1 /\ hand = <<>>
        /\ ch' \in Seq(Event) /\ Len(ch') + 1 = Len(ch)
    <3>1. hand = <<>> /\ ch \in Seq(Event) /\ ch # <<>>
      BY <1>1 DEF Take, Inv, TypeOK
    <3>2. PICK e \in Event : hand' = <<e>>
      BY <1>1, <3>1, HandThenTail DEF Take
    <3> QED BY <1>1, <3>1, <3>2, HandThenTail, SingletonIsSeq DEF Take
  <2>2. TypeOK'
    <3>1. Len(ch') <= Size
      BY <2>1, QueueAssumption DEF Inv, TypeOK, QueueAssumption
    <3>2. hand' # <<>>
      BY <1>1 DEF Take
    <3> QED BY <1>1, <2>1, <3>1, <3>2 DEF Take, Inv, TypeOK, WorkerStates, history
  <2>3. Len(hand) = 0 /\ Len(settled) \in Nat /\ promised \in Nat
    BY <2>1, EmptyIsSeq DEF Inv, TypeOK
  <2> QED
    BY <1>1, <2>1, <2>2, <2>3 DEF Take, Inv, TypeOK, history
<1>2. CASE DrainTake
  <2>1. /\ hand' \in {<<e>> : e \in Event} /\ Len(hand') = 1 /\ hand = <<>>
        /\ ch' \in Seq(Event) /\ Len(ch') + 1 = Len(ch)
    <3>1. hand = <<>> /\ ch \in Seq(Event) /\ ch # <<>>
      BY <1>2 DEF DrainTake, Inv, TypeOK
    <3>2. PICK e \in Event : hand' = <<e>>
      BY <1>2, <3>1, HandThenTail DEF DrainTake
    <3> QED BY <1>2, <3>1, <3>2, HandThenTail, SingletonIsSeq DEF DrainTake
  <2>2. TypeOK'
    <3>1. Len(ch') <= Size
      BY <2>1, QueueAssumption DEF Inv, TypeOK, QueueAssumption
    <3>2. hand' # <<>>
      BY <1>2 DEF DrainTake
    <3> QED BY <1>2, <2>1, <3>1, <3>2 DEF DrainTake, Inv, TypeOK, WorkerStates, history
  <2>3. Len(hand) = 0 /\ Len(settled) \in Nat /\ promised \in Nat
    BY <2>1, EmptyIsSeq DEF Inv, TypeOK
  <2> QED
    BY <1>2, <2>1, <2>2, <2>3 DEF DrainTake, Inv, TypeOK, history
<1>3. CASE HandlerEnds \/ DrainHandlerEnds \/ DrainPanics
  <2>1. PICK e \in Event : hand = <<e>>
    BY <1>3 DEF HandlerEnds, DrainHandlerEnds, DrainPanics, Inv, TypeOK
  <2>2. settled' \in Seq(Event) /\ Len(settled') = Len(settled) + 1
    <3>1. settled' = settled \o <<e>> /\ settled \in Seq(Event)
      BY <1>3, <2>1 DEF HandlerEnds, DrainHandlerEnds, DrainPanics, Inv, TypeOK
    <3> QED BY <3>1
  <2>3. TypeOK'
    BY <1>3, <2>2 DEF HandlerEnds, DrainHandlerEnds, DrainPanics, Inv, TypeOK, WorkerStates
  <2>4. Len(hand) = 1 /\ Len(hand') = 0
    BY <1>3, <2>1, EmptyIsSeq DEF HandlerEnds, DrainHandlerEnds, DrainPanics
  <2> QED
    BY <1>3, <2>2, <2>3, <2>4
       DEF HandlerEnds, DrainHandlerEnds, DrainPanics, Inv, TypeOK
<1>4. CASE BeginDrain
  BY <1>4 DEF BeginDrain, Inv, TypeOK, WorkerStates, history
<1>5. CASE DrainEnds
  <2>1. hand = <<>> /\ Len(hand) = 0 /\ Len(ch) = 0
    BY <1>5, EmptyIsSeq DEF DrainEnds, Inv, TypeOK
  <2> QED
    BY <1>5, <2>1 DEF DrainEnds, Inv, TypeOK, WorkerStates, history
<1> QED BY <1>1, <1>2, <1>3, <1>4, <1>5 DEF WorkerStep

\* The cancellation promises what has been accepted, neither more nor less.
LEMMA CancelInv == ASSUME Inv, Cancel
                   PROVE  Inv'
<1>1. promised' = Len(settled) + Len(hand) + Len(ch)
  BY AcceptedLength DEF Cancel, Inv
<1>2. promised' \in Nat /\ Len(settled) \in Nat
  BY <1>1, EmptyIsSeq DEF Inv, TypeOK
<1>3. worker # "stopped"
  BY DEF Cancel, Inv, TypeOK
<1> QED
  BY <1>1, <1>2, <1>3 DEF Cancel, Inv, TypeOK, WorkerStates

\* Every step, and every stutter, keeps the invariant.
LEMMA NextInv == Inv /\ [Next]_vars => Inv'
<1>1. ASSUME Inv, UNCHANGED vars PROVE Inv'
  BY <1>1 DEF vars, Inv, TypeOK, history
<1> QED BY <1>1, EnqueueInv, WorkerInv, CancelInv DEF Next

\* The invariant holds in every reachable state.
THEOREM InvHolds == SafeSpec => []Inv
BY InitInv, NextInv, PTL DEF SafeSpec

\* Type correctness, with the channel never above its capacity and the hand full
\* exactly while a handler runs.
THEOREM TypeCorrect == SafeSpec => []TypeOK
BY InvHolds, PTL DEF Inv

\* A graceful stop settles every event accepted before the cancellation.
THEOREM DrainKeepsPromiseHolds == SafeSpec => []DrainKeepsPromise
<1>1. Inv => DrainKeepsPromise
  BY DEF Inv, DrainKeepsPromise
<1> QED BY <1>1, InvHolds, PTL

\* A handler panic ends the process only during shutdown.
THEOREM PanicContainedHolds == SafeSpec => []PanicContained
<1>1. Inv => PanicContained
  BY DEF Inv, PanicContained
<1> QED BY <1>1, InvHolds, PTL

-------------------------------------------------------------------------------
(* Channel and worker implement the lossy FIFO. *)

\* Nothing waits and nothing is settled at first.
LEMMA FifoInit == Init => Promise!Init
BY EmptyIsSeq DEF Init, Promise!Init

\* An event moves from hand to history exactly when the FIFO settles its head; taking
\* it off the channel is invisible.
LEMMA FifoStep == ASSUME Inv, [Next]_vars
                  PROVE  [Promise!Next]_Promise!fifo
<1>1. ASSUME NEW e \in Event, Accept(e) PROVE Promise!Accept(e)
  <2>1. Len(hand \o ch) <= Size
    <3>1. Len(hand) <= 1 /\ hand \in Seq(Event) /\ Len(hand) \in Nat
      BY HandIsSeq DEF Inv
    <3>2. Len(hand \o ch) = Len(hand) + Len(ch)
      BY <3>1 DEF Inv, TypeOK
    <3> QED BY <1>1, <3>1, <3>2, QueueAssumption DEF Accept, Inv, TypeOK, QueueAssumption
  <2>2. hand \o Append(ch, e) = Append(hand \o ch, e)
    <3>1. hand \in Seq(Event) /\ ch \in Seq(Event)
      BY HandIsSeq DEF Inv
    <3> QED BY <3>1
  <2> QED BY <1>1, <2>1, <2>2 DEF Accept, history, Promise!Accept
<1>2. ASSUME NEW e \in Event, Drop(e) PROVE Promise!TurnAway(e)
  <2>1. hand \in Seq(Event) /\ ch \in Seq(Event) /\ Len(hand) \in Nat
    BY HandIsSeq DEF Inv
  <2>2. Len(hand \o ch) >= Size
    BY <1>2, <2>1, QueueAssumption DEF Drop, QueueAssumption
  <2> QED BY <1>2, <2>2 DEF Drop, Promise!TurnAway
<1>3. ASSUME Take \/ DrainTake PROVE UNCHANGED Promise!fifo
  <2>1. ch \in Seq(Event) /\ ch # <<>> /\ hand = <<>>
    BY <1>3 DEF Take, DrainTake, Inv, TypeOK
  <2>2. hand' \o ch' = ch
    BY <1>3, <2>1, HandThenTail DEF Take, DrainTake
  <2>3. hand \o ch = ch
    BY <2>1
  <2> QED BY <1>3, <2>2, <2>3 DEF Take, DrainTake, history, Promise!fifo
<1>4. ASSUME HandlerEnds \/ DrainHandlerEnds \/ DrainPanics PROVE Promise!Settle
  <2>1. PICK e \in Event : hand = <<e>>
    BY <1>4 DEF HandlerEnds, DrainHandlerEnds, DrainPanics, Inv, TypeOK
  <2>2. /\ hand \o ch # <<>>
        /\ Head(hand \o ch) = e
        /\ Tail(hand \o ch) = ch
        /\ <<>> \o ch = ch
    BY <2>1, HandFirst DEF Inv, TypeOK
  <2>3. settled \o <<e>> = Append(settled, e)
    BY DEF Inv, TypeOK
  <2> QED
    BY <1>4, <2>1, <2>2, <2>3
       DEF HandlerEnds, DrainHandlerEnds, DrainPanics, Promise!Settle
<1>5. ASSUME BeginDrain \/ DrainEnds \/ Cancel \/ UNCHANGED vars
      PROVE  UNCHANGED Promise!fifo
  BY <1>5 DEF BeginDrain, DrainEnds, Cancel, vars, history, Promise!fifo
<1> QED
  BY <1>1, <1>2, <1>3, <1>4, <1>5 DEF Next, Enqueue, WorkerStep, Promise!Next

\* The event queue implements the lossy FIFO.
THEOREM Refinement == SafeSpec => ImplementsFifo
<1>1. Init => Promise!Init
  BY FifoInit
<1>2. Inv /\ [Next]_vars => [Promise!Next]_Promise!fifo
  BY FifoStep
<1> QED BY <1>1, <1>2, InvHolds, PTL DEF SafeSpec, ImplementsFifo, Promise!Spec

-------------------------------------------------------------------------------
(* Nothing accepted is moved or overtaken. *)

\* What has been accepted starts with what has been settled, and goes on with the hand.
LEMMA AcceptedParts ==
  ASSUME TypeOK
  PROVE  /\ Accepted \in Seq(Event) /\ Len(Accepted) \in Nat /\ Len(settled) \in Nat
         /\ Len(settled) + Len(hand) <= Len(Accepted)
         /\ \A p \in 1..Len(settled) : Accepted[p] = settled[p]
         /\ \A e \in Event : hand = <<e>> => /\ Accepted[Len(settled) + 1] = e
                                             /\ Len(settled) + 1 <= Len(Accepted)
<1>1. /\ hand \in Seq(Event) /\ ch \in Seq(Event) /\ settled \in Seq(Event)
      /\ Len(hand) \in Nat /\ Len(ch) \in Nat /\ Len(settled) \in Nat
  BY HandIsSeq
<1> DEFINE both == settled \o hand
<1>2. /\ both \in Seq(Event) /\ Len(both) = Len(settled) + Len(hand)
      /\ \A p \in 1..Len(settled) : both[p] = settled[p]
      /\ \A e \in Event : hand = <<e>> => both[Len(settled) + 1] = e
  <2>1. /\ both \in Seq(Event) /\ Len(both) = Len(settled) + Len(hand)
        /\ \A p \in 1..Len(settled) + Len(hand) :
             both[p] = IF p <= Len(settled) THEN settled[p] ELSE hand[p - Len(settled)]
    <3>1. settled \in Seq(Event) /\ hand \in Seq(Event)
      BY <1>1
    <3> QED BY <3>1, ConcatProperties
  <2> HIDE DEF both
  <2>2. \A p \in 1..Len(settled) : p \in 1..Len(settled) + Len(hand) /\ p <= Len(settled)
    BY <1>1
  <2>3. ASSUME NEW e \in Event, hand = <<e>>
        PROVE  both[Len(settled) + 1] = e
    <3>1. Len(hand) = 1 /\ hand[1] = e
      BY <2>3
    <3>2. /\ Len(settled) + 1 \in 1..Len(settled) + Len(hand)
          /\ ~(Len(settled) + 1 <= Len(settled)) /\ (Len(settled) + 1) - Len(settled) = 1
      BY <1>1, <3>1
    <3> QED BY <2>1, <3>1, <3>2
  <2> QED BY <2>1, <2>2, <2>3
<1> HIDE DEF both
<1>3. /\ both \o ch \in Seq(Event) /\ Len(both \o ch) = Len(both) + Len(ch)
      /\ \A p \in 1..Len(both) : (both \o ch)[p] = both[p]
  <2>1. both \in Seq(Event) /\ ch \in Seq(Event)
    BY <1>1, <1>2
  <2> QED BY <2>1, ConcatProperties
<1>4. Accepted = both \o ch
  BY DEF Accepted, both
<1>5. \A p \in 1..Len(settled) : p \in 1..Len(both)
  BY <1>1, <1>2
<1>6. ASSUME NEW e \in Event, hand = <<e>>
      PROVE  Len(hand) = 1 /\ Len(settled) + 1 \in 1..Len(both)
  BY <1>1, <1>2, <1>6
<1>7. Len(Accepted) \in Nat /\ Len(settled) + Len(hand) <= Len(Accepted)
  BY <1>1, <1>2, <1>3, <1>4
<1>8. ASSUME NEW e \in Event, hand = <<e>>
      PROVE  Accepted[Len(settled) + 1] = e /\ Len(settled) + 1 <= Len(Accepted)
  BY <1>2, <1>3, <1>4, <1>6, <1>7, <1>8
<1> QED BY <1>1, <1>2, <1>3, <1>4, <1>5, <1>7, <1>8

\* Enqueue appends the event to what has been accepted, or turns it away.
LEMMA AcceptedGrows ==
  ASSUME Inv, NEW e \in Event, Enqueue(e)
  PROVE  UNCHANGED settled /\ (Accepted' = Append(Accepted, e) \/ UNCHANGED Accepted)
<1>1. CASE Accept(e)
  <2>1. settled \o hand \in Seq(Event) /\ ch \in Seq(Event)
    <3>1. settled \in Seq(Event) /\ hand \in Seq(Event) /\ ch \in Seq(Event)
      BY HandIsSeq DEF Inv
    <3> QED BY <3>1
  <2>2. Accepted' = (settled \o hand) \o Append(ch, e)
    BY <1>1 DEF Accept, history, Accepted
  <2>3. Accepted' = Append(Accepted, e)
    <3> DEFINE both == settled \o hand
    <3>1. both \in Seq(Event) /\ ch \in Seq(Event)
      BY <2>1
    <3> HIDE DEF both
    <3>2. both \o Append(ch, e) = Append(both \o ch, e)
      BY <3>1
    <3> QED BY <2>2, <3>2 DEF both, Accepted
  <2> QED BY <1>1, <2>3 DEF Accept, history
<1>2. CASE Drop(e)
  BY <1>2 DEF Drop, Accepted
<1> QED BY <1>1, <1>2 DEF Enqueue

\* The worker and the cancellation accept nothing and lose nothing.
LEMMA AcceptedStays ==
  ASSUME Inv, WorkerStep \/ Cancel \/ UNCHANGED vars
  PROVE  UNCHANGED Accepted
<1>1. CASE Take \/ DrainTake
  <2>1. ch \in Seq(Event) /\ ch # <<>> /\ hand = <<>> /\ settled \in Seq(Event)
    BY <1>1 DEF Take, DrainTake, Inv, TypeOK
  <2>2. hand' = <<Head(ch)>> /\ ch' = Tail(ch) /\ settled' = settled
    BY <1>1 DEF Take, DrainTake, history
  <2>3. (settled \o <<Head(ch)>>) \o Tail(ch) = (settled \o <<>>) \o ch
    <3>1. PICK h \in Event : <<Head(ch)>> = <<h>>
      BY <2>1, HandThenTail
    <3>2. Tail(ch) \in Seq(Event) /\ <<h>> \o Tail(ch) = ch /\ <<h>> \in Seq(Event)
      BY <2>1, <3>1, HandThenTail, SingletonIsSeq
    <3>3. (settled \o <<h>>) \o Tail(ch) = settled \o (<<h>> \o Tail(ch))
      BY <2>1, <3>2, ConcatAssociative
    <3>4. settled \o <<>> = settled
      BY <2>1
    <3> QED BY <3>1, <3>2, <3>3, <3>4
  <2> QED BY <2>1, <2>2, <2>3 DEF Accepted
<1>2. CASE HandlerEnds \/ DrainHandlerEnds \/ DrainPanics
  <2>1. settled' = settled \o hand /\ hand' = <<>> /\ ch' = ch
    BY <1>2 DEF HandlerEnds, DrainHandlerEnds, DrainPanics
  <2>2. settled \o hand \in Seq(Event)
    <3>1. settled \in Seq(Event) /\ hand \in Seq(Event)
      BY HandIsSeq DEF Inv
    <3> QED BY <3>1
  <2>3. (settled \o hand) \o <<>> = settled \o hand
    BY <2>2
  <2> QED BY <2>1, <2>3 DEF Accepted
<1>3. CASE BeginDrain \/ DrainEnds \/ Cancel \/ UNCHANGED vars
  BY <1>3 DEF BeginDrain, DrainEnds, Cancel, vars, history, Accepted
<1> QED BY <1>1, <1>2, <1>3 DEF WorkerStep

\* How far the event accepted as number p is from the end of its handler call: each event
\* up to it has to be taken and its call has to end.
Ahead(p) == 2 * (p - Len(settled)) - Len(hand)

\* What a step does to an event that waits or is being handled: it keeps its number, comes
\* no farther from its end, and closer by every step of the worker until the process is
\* told to stop; and the worker has such a step to take.
Advances ==
  \A p \in 1..Len(Accepted) : p > Len(settled) =>
    /\ p \in 1..Len(Accepted') /\ Accepted'[p] = Accepted[p]
    /\ Ahead(p)' <= Ahead(p)
    /\ ~stopping => /\ worker = "handling" \/ (worker = "select" /\ ch # <<>>)
                    /\ WorkerStep => Ahead(p)' < Ahead(p)

\* One step of the queue.
LEMMA AdvanceStep == ASSUME Inv, [Next]_vars
                     PROVE  Advances
<1> SUFFICES ASSUME NEW p \in 1..Len(Accepted), p > Len(settled)
             PROVE  /\ p \in 1..Len(Accepted') /\ Accepted'[p] = Accepted[p]
                    /\ Ahead(p)' <= Ahead(p)
                    /\ ~stopping => /\ worker = "handling" \/ (worker = "select" /\ ch # <<>>)
                                    /\ WorkerStep => Ahead(p)' < Ahead(p)
  BY DEF Advances
<1>1. /\ Accepted \in Seq(Event) /\ Len(Accepted) \in Nat /\ Len(settled) \in Nat
      /\ hand \in Seq(Event) /\ Len(hand) \in Nat /\ p \in Nat
  BY AcceptedParts, HandIsSeq DEF Inv
<1>2. p \in 1..Len(Accepted') /\ Accepted'[p] = Accepted[p]
  <2>1. CASE \E e \in Event : Enqueue(e)
    <3>1. PICK e \in Event : Enqueue(e)
      BY <2>1
    <3>2. Accepted' = Append(Accepted, e) \/ Accepted' = Accepted
      BY <3>1, AcceptedGrows
    <3>3. /\ Len(Append(Accepted, e)) = Len(Accepted) + 1
          /\ \A k \in 1..Len(Accepted) : Append(Accepted, e)[k] = Accepted[k]
      BY <1>1, AppendProperties
    <3>4. p \in 1..(Len(Accepted) + 1)
      BY <1>1
    <3> QED BY <3>2, <3>3, <3>4
  <2>2. CASE WorkerStep \/ Cancel \/ UNCHANGED vars
    BY <2>2, AcceptedStays
  <2> QED BY <2>1, <2>2 DEF Next
<1>3. ASSUME ~stopping PROVE worker = "handling" \/ (worker = "select" /\ ch # <<>>)
  <2>1. worker \in {"select", "handling"}
    BY <1>3 DEF Inv, TypeOK, WorkerStates
  <2>2. ASSUME worker = "select", ch = <<>> PROVE FALSE
    <3>1. hand = <<>> /\ Len(hand) = 0 /\ Len(ch) = 0
      BY <2>2, EmptyIsSeq DEF Inv, TypeOK
    <3>2. Len(Accepted) = Len(settled)
      BY <1>1, <3>1, AcceptedLength DEF Inv
    <3> QED BY <1>1, <3>2
  <2> QED BY <2>1, <2>2
<1>4. CASE Take \/ DrainTake
  <2>1. Len(settled') = Len(settled) /\ hand = <<>> /\ hand' = <<Head(ch)>>
    BY <1>4 DEF Take, DrainTake, Inv, TypeOK, history
  <2>2. Len(hand) = 0 /\ Len(hand') = 1
    BY <2>1, EmptyIsSeq
  <2>3. Ahead(p)' < Ahead(p)
    BY <1>1, <2>1, <2>2 DEF Ahead
  <2> QED BY <1>1, <1>2, <1>3, <2>3 DEF Ahead
<1>5. CASE HandlerEnds \/ DrainHandlerEnds \/ DrainPanics
  <2>1. PICK e \in Event : hand = <<e>>
    BY <1>5 DEF HandlerEnds, DrainHandlerEnds, DrainPanics, Inv, TypeOK
  <2>2. settled' = settled \o <<e>> /\ settled \in Seq(Event) /\ hand' = <<>>
    BY <1>5, <2>1 DEF HandlerEnds, DrainHandlerEnds, DrainPanics, Inv, TypeOK
  <2>3. Len(settled') = Len(settled) + 1 /\ Len(hand) = 1 /\ Len(hand') = 0
    BY <2>1, <2>2, EmptyIsSeq
  <2>4. Ahead(p)' < Ahead(p)
    BY <1>1, <2>3 DEF Ahead
  <2> QED BY <1>1, <1>2, <1>3, <2>3, <2>4 DEF Ahead
<1>6. CASE BeginDrain \/ DrainEnds \/ Cancel \/ UNCHANGED vars \/ \E e \in Event : Enqueue(e)
  <2>1. settled' = settled /\ hand' = hand
    BY <1>6 DEF BeginDrain, DrainEnds, Cancel, vars, history, Enqueue, Accept, Drop
  <2>2. Ahead(p)' <= Ahead(p)
    BY <1>1, <2>1 DEF Ahead
  <2>3. ASSUME ~stopping PROVE ~WorkerStep
    <3>1. CASE BeginDrain \/ DrainEnds
      BY <1>3, <2>3, <3>1 DEF BeginDrain, DrainEnds
    <3>2. CASE ~(BeginDrain \/ DrainEnds)
      <4>1. ASSUME Take \/ DrainTake \/ HandlerEnds \/ DrainHandlerEnds \/ DrainPanics
            PROVE  hand' # hand
        <5>1. CASE Take \/ DrainTake
          <6>1. hand = <<>> /\ hand' = <<Head(ch)>>
            BY <5>1 DEF Take, DrainTake, Inv, TypeOK
          <6>2. Len(hand) = 0 /\ Len(hand') = 1
            BY <6>1, EmptyIsSeq
          <6> QED BY <6>2
        <5>2. CASE HandlerEnds \/ DrainHandlerEnds \/ DrainPanics
          <6>1. hand # <<>> /\ hand' = <<>>
            BY <5>2 DEF HandlerEnds, DrainHandlerEnds, DrainPanics, Inv, TypeOK
          <6> QED BY <6>1
        <5> QED BY <4>1, <5>1, <5>2
      <4> QED BY <2>1, <3>2, <4>1 DEF WorkerStep
    <3> QED BY <3>1, <3>2
  <2> QED BY <1>2, <1>3, <2>2, <2>3
<1> QED BY <1>4, <1>5, <1>6 DEF Next, WorkerStep

\* An accepted event is never lost, moved or overtaken, and the worker, if it runs, gets to
\* it in a number of steps that nothing that is enqueued meanwhile can add to.
THEOREM AcceptedAdvances == SafeSpec => [][Advances]_vars
BY InvHolds, AdvanceStep, PTL DEF SafeSpec

-------------------------------------------------------------------------------
(* The queue among requests and handlers. *)

\* The events of the request path are the ones the queue is declared over.
LEMMA RequestEvents ==
  ASSUME NEW r \in Request
  PROVE  /\ Decision(r) \in Event
         /\ \A i \in {0, 1} : \A ok \in Outcome(r, i) : Attempt(r, i, ok) \in Event
<1>1. Decision(r) \in AllEvents
  BY DEF AllEvents
<1>2. ASSUME NEW i \in {0, 1}, NEW ok \in Outcome(r, i) PROVE Attempt(r, i, ok) \in AllEvents
  <2> DEFINE Of(q, k) == {Attempt(q, k, b) : b \in Outcome(q, k)}
  <2>1. Attempt(r, i, ok) \in Of(r, i)
    OBVIOUS
  <2>2. Of(r, i) \in {Of(q, k) : q \in Request, k \in {0, 1}}
    OBVIOUS
  <2> HIDE DEF Of
  <2>3. Attempt(r, i, ok) \in UNION {Of(q, k) : q \in Request, k \in {0, 1}}
    BY <2>1, <2>2
  <2> QED BY <2>3 DEF AllEvents, Of
<1> QED BY <1>1, <1>2, RequestLogAssumption DEF RequestLogAssumption

\* Whatever a request does is one Enqueue.
LEMMA RequestStep == ASSUME NEW r \in Request, Decide(r) \/ Call(r) \/ FallBack(r)
                     PROVE  \E e \in Event : Enqueue(e)
<1>1. CASE Decide(r)
  BY <1>1, RequestEvents DEF Decide, Does
<1>2. CASE Call(r)
  <2>1. PICK ok \in Outcome(r, 0) : Enqueue(Attempt(r, 0, ok))
    BY <1>2 DEF Call, Does
  <2>2. Attempt(r, 0, ok) \in Event
    BY <2>1, RequestEvents
  <2> QED BY <2>1, <2>2
<1>3. CASE FallBack(r)
  <2>1. PICK ok \in Outcome(r, 1) : Enqueue(Attempt(r, 1, ok))
    BY <1>3 DEF FallBack, Does
  <2>2. Attempt(r, 1, ok) \in Event
    BY <2>1, RequestEvents
  <2> QED BY <2>1, <2>2
<1> QED BY <1>1, <1>2, <1>3

\* Every step of the composition is a step of the queue or leaves it alone.
LEMMA QueueStep == [NextRecords]_all => [Next]_vars
<1> SUFFICES ASSUME [NextRecords]_all PROVE [Next]_vars
  OBVIOUS
<1>1. CASE \E r \in Request : Decide(r) \/ Call(r) \/ FallBack(r)
  BY <1>1, RequestStep DEF Next
<1>2. CASE Worker
  BY <1>2 DEF Worker, QueueOnly, CallEnds, WorkerStep, Next
<1>3. CASE Cancel
  BY <1>3 DEF Next
<1>4. CASE UNCHANGED all
  BY <1>4 DEF all
<1> QED BY <1>1, <1>2, <1>3, <1>4 DEF NextRecords

\* The composition runs the queue as EventQueue specifies it: no handler that panics and
\* no request that reuses an ID brings it to a state it cannot reach alone.
THEOREM QueueInside == RecordsSpec => SafeSpec
<1>1. InitRecords => Init
  BY DEF InitRecords
<1> QED BY <1>1, QueueStep, PTL DEF RecordsSpec, SafeSpec

\* So its promises hold for the request path: everything accepted before the cancellation
\* is handed to the handlers.
THEOREM PromiseToRequests == RecordsSpec => []DrainKeepsPromise /\ ImplementsFifo
BY QueueInside, DrainKeepsPromiseHolds, Refinement, PTL

-------------------------------------------------------------------------------
(* The two memories. *)

\* A set of natural numbers has a least one.
LEMMA LeastExists ==
  ASSUME NEW T, T \subseteq Nat, T # {}
  PROVE  \E x \in T : \A y \in T : x <= y
<1> DEFINE R == {ss \in Nat \X Nat : ss[1] < ss[2]}
<1>1. IsWellFoundedOn(R, Nat)
  BY NatLessThanWellFounded, Zenon DEF OpToRel
<1>2. PICK x \in T : \A y \in T : ~(<<y, x>> \in R)
  <2> HIDE DEF R
  <2> QED BY <1>1, WFMin, Zenon
<1>3. ASSUME NEW y \in T PROVE x <= y
  <2>1. y \in Nat /\ x \in Nat /\ <<y, x>> \notin R
    BY <1>2
  <2>2. ~(y < x)
    BY <2>1
  <2> QED BY <2>1, <2>2
<1> QED BY <1>3

\* A set of indices has a greatest one, which Max returns.
LEMMA GreatestIndex ==
  ASSUME NEW n \in Nat, NEW I, I \subseteq 1..n, I # {}
  PROVE  Max(I) \in I
<1> DEFINE T == {n - i : i \in I}
<1>1. T \subseteq Nat /\ T # {}
  <2>1. \A i \in I : n - i \in Nat
    OBVIOUS
  <2>2. PICK i \in I : TRUE
    OBVIOUS
  <2> QED BY <2>1, <2>2
<1>2. PICK x \in T : \A y \in T : x <= y
  BY <1>1, LeastExists
<1>3. PICK i \in I : x = n - i
  BY <1>2
<1>4. ASSUME NEW j \in I PROVE i >= j
  <2>1. n - j \in T
    OBVIOUS
  <2>2. x <= n - j /\ j \in Int /\ i \in Int
    BY <1>2, <2>1
  <2> QED BY <1>3, <2>2
<1> HIDE DEF T
<1>5. \E m \in I : \A y \in I : m >= y
  BY <1>4
<1>6. Max(I) = CHOOSE m \in I : \A y \in I : m >= y
  BY DEF Max
<1> QED BY <1>5, <1>6

\* An attempt that succeeded fills at most one row, one of its request ID, and no row at
\* all only when there is none.
LEMMA FillsOneRow ==
  ASSUME NEW e, e.index \in {0, 1}, rows \in Seq(Rows)
  PROVE  \/ FillRow(e) = rows /\ \A k \in DOMAIN rows : Id(rows[k].req) # Id(e.req)
         \/ \E i \in DOMAIN rows :
              /\ Id(rows[i].req) = Id(e.req)
              /\ FillRow(e) \in Seq(Rows) /\ Len(FillRow(e)) = Len(rows)
              /\ FillRow(e)[i] = [req |-> rows[i].req, model |-> e.index, filled |-> TRUE]
              /\ \A k \in DOMAIN rows \ {i} : FillRow(e)[k] = rows[k]
<1> DEFINE I == {i \in 1..Len(rows) : Id(rows[i].req) = Id(e.req)}
           last == IF I # {} THEN Max(I) ELSE 0
           new == [rows EXCEPT ![last].model = e.index, ![last].filled = TRUE]
<1>1. FillRow(e) = IF last = 0 THEN rows ELSE new
  BY DEF FillRow, SelectLastInSeq
<1>2. Len(rows) \in Nat /\ DOMAIN rows = 1..Len(rows)
  OBVIOUS
<1>3. CASE I = {}
  BY <1>1, <1>2, <1>3
<1>4. CASE I # {}
  <2>1. last \in I
    BY <1>2, <1>4, GreatestIndex
  <2> HIDE DEF last
  <2>2. last \in DOMAIN rows /\ Id(rows[last].req) = Id(e.req) /\ FillRow(e) = new
    BY <1>1, <1>2, <2>1
  <2>3. rows[last] \in Rows
    BY <2>2
  <2>4. /\ new[last] = [req |-> rows[last].req, model |-> e.index, filled |-> TRUE]
        /\ \A k \in DOMAIN rows \ {last} : new[k] = rows[k]
        /\ DOMAIN new = DOMAIN rows
    BY <2>2, <2>3 DEF Rows
  <2> HIDE DEF new
  <2>5. \A k \in DOMAIN rows : new[k] \in Rows
    <3>1. new[last] \in Rows
      BY <2>3, <2>4 DEF Rows
    <3> QED BY <2>4, <3>1
  <2>6. new \in Seq(Rows) /\ Len(new) = Len(rows)
    <3>1. new = [k \in 1..Len(rows) |-> new[k]]
      BY <1>2, <2>2, <2>4 DEF new
    <3> QED BY <1>2, <2>4, <2>5, <3>1
  <2> QED BY <2>2, <2>4, <2>6
<1> QED BY <1>3, <1>4

\* Adding one element to a memory of the newest n keeps all others, or all but the oldest.
LEMMA NewestKeeps ==
  ASSUME NEW S, NEW s \in Seq(S), NEW x \in S, NEW n \in Nat \ {0}, Len(s) <= n
  PROVE  LET new == Newest(n, Append(s, x)) gone == IF Len(s) = n THEN 1 ELSE 0 IN
         /\ new \in Seq(S) /\ Len(new) = Len(s) + 1 - gone /\ Len(new) <= n
         /\ new[Len(new)] = x
         /\ \A k \in 1..(Len(new) - 1) : new[k] = s[k + gone]
<1> DEFINE t == Append(s, x)
           new == Newest(n, t)
<1>1. /\ t \in Seq(S) /\ Len(t) = Len(s) + 1 /\ Len(s) \in Nat
      /\ t[Len(s) + 1] = x /\ \A k \in 1..Len(s) : t[k] = s[k]
  BY AppendProperties
<1> HIDE DEF t
<1>2. CASE Len(s) = n
  <2>1. new = SubSeq(t, 2, n + 1)
    BY <1>1, <1>2 DEF Newest
  <2>2. /\ new \in Seq(S) /\ Len(new) = n
        /\ \A k \in 1..n : new[k] = t[k + 1]
    BY <1>1, <1>2, <2>1, SubSeqProperties
  <2> HIDE DEF new
  <2> QED BY <1>1, <1>2, <2>2 DEF new, t
<1>3. CASE Len(s) < n
  <2>1. new = t
    BY <1>1, <1>3 DEF Newest
  <2> HIDE DEF new
  <2> QED BY <1>1, <1>3, <2>1 DEF new, t
<1> QED BY <1>1, <1>2, <1>3

\* A new greatest position puts one more in front of each of the others.
LEMMA NewerGrows ==
  ASSUME NEW n \in Nat, NEW S, S \subseteq 1..n
  PROVE  /\ IsFiniteSet(S) /\ Cardinality(S) \in Nat
         /\ Cardinality(S \cup {n + 1}) = Cardinality(S) + 1
         /\ Newer(n + 1, S \cup {n + 1}) = 0
         /\ \A p \in S : /\ Newer(p, S) \in Nat /\ Newer(p, S) < Cardinality(S)
                         /\ Newer(p, S \cup {n + 1}) = Newer(p, S) + 1
<1>1. \A T : T \subseteq 1..n => /\ IsFiniteSet(T) /\ Cardinality(T) \in Nat
                                 /\ Cardinality(T \cup {n + 1}) = Cardinality(T) + 1
  <2> SUFFICES ASSUME NEW T, T \subseteq 1..n
               PROVE  /\ IsFiniteSet(T) /\ Cardinality(T) \in Nat
                      /\ Cardinality(T \cup {n + 1}) = Cardinality(T) + 1
    OBVIOUS
  <2>1. IsFiniteSet(T)
    <3>1. IsFiniteSet(1..n)
      BY FS_Interval
    <3> QED BY <3>1, FS_Subset
  <2>2. n + 1 \notin T
    OBVIOUS
  <2> QED BY <2>1, <2>2, FS_CardinalityType, FS_AddElement
<1>2. Newer(n + 1, S \cup {n + 1}) = 0
  <2> DEFINE T == {q \in S \cup {n + 1} : q > n + 1}
  <2>1. \A q \in S \cup {n + 1} : ~(q > n + 1)
    OBVIOUS
  <2>2. T = {}
    BY <2>1
  <2> HIDE DEF T
  <2>3. Cardinality(T) = 0
    BY <2>2, FS_EmptySet
  <2> QED BY <2>3 DEF Newer, T
<1>3. ASSUME NEW p \in S
      PROVE  /\ Newer(p, S) \in Nat /\ Newer(p, S) < Cardinality(S)
             /\ Newer(p, S \cup {n + 1}) = Newer(p, S) + 1
  <2> DEFINE T == {q \in S : q > p}
             U == {q \in S \cup {n + 1} : q > p}
  <2>1. T \subseteq 1..n
    OBVIOUS
  <2>2. U = T \cup {n + 1}
    <3>1. n + 1 > p
      OBVIOUS
    <3> QED BY <3>1
  <2>3. p \notin T /\ T \cup {p} \subseteq S
    <3>1. ~(p > p)
      OBVIOUS
    <3> QED BY <3>1
  <2>4. Newer(p, S) = Cardinality(T) /\ Newer(p, S \cup {n + 1}) = Cardinality(U)
    BY DEF Newer
  <2> HIDE DEF T, U
  <2>5. Cardinality(T) < Cardinality(S)
    <3>1. /\ IsFiniteSet(T) /\ Cardinality(T) \in Nat
          /\ Cardinality(T \cup {p}) = Cardinality(T) + 1
      BY <1>1, <2>1, <2>3, FS_AddElement
    <3>2. IsFiniteSet(S) /\ Cardinality(S) \in Nat
      BY <1>1
    <3>3. Cardinality(T \cup {p}) <= Cardinality(S)
      BY <2>3, <3>2, FS_Subset
    <3> QED BY <3>1, <3>2, <3>3
  <2>6. Cardinality(T) \in Nat /\ Cardinality(U) = Cardinality(T) + 1
    BY <1>1, <2>1, <2>2
  <2> QED BY <2>4, <2>5, <2>6
<1> QED BY <1>1, <1>2, <1>3

-------------------------------------------------------------------------------
(* What requests send, and in which order the worker handles it. *)

\* Every event is a decision of its request or one of its attempts.
LEMMA EventFields ==
  ASSUME NEW e \in Event
  PROVE  /\ e.req \in Request /\ e.index \in {0, 1}
         /\ e.type = "decision" => e = Decision(e.req) /\ ~e.success
         /\ e.success => e = Attempt(e.req, e.index, TRUE)
         /\ e.type # "decision" => e.type = "attempt"
<1>1. e \in AllEvents
  BY RequestLogAssumption DEF RequestLogAssumption
<1>2. CASE \E r \in Request : e = Decision(r)
  BY <1>2 DEF Decision
<1>3. CASE \E r \in Request, i \in {0, 1}, ok \in BOOLEAN : e = Attempt(r, i, ok)
  <2>1. PICK r \in Request, i \in {0, 1}, ok \in BOOLEAN : e = Attempt(r, i, ok)
    BY <1>3
  <2>2. /\ e.type = "attempt" /\ e.req = r /\ e.index = i /\ e.success = ok
    BY <2>1 DEF Attempt
  <2>3. CASE ok = TRUE
    BY <2>1, <2>2, <2>3
  <2>4. CASE ok = FALSE
    BY <2>2, <2>4
  <2> QED BY <2>3, <2>4
<1>4. \/ \E r \in Request : e = Decision(r)
      \/ \E r \in Request, i \in {0, 1}, ok \in BOOLEAN : e = Attempt(r, i, ok)
  <2> DEFINE Of(q, k) == {Attempt(q, k, b) : b \in Outcome(q, k)}
  <2>1. CASE e \in {Decision(r) : r \in Request}
    BY <2>1
  <2>2. CASE e \in UNION {Of(q, k) : q \in Request, k \in {0, 1}}
    <3>1. PICK q \in Request, k \in {0, 1} : e \in Of(q, k)
      <4> HIDE DEF Of
      <4> QED BY <2>2
    <3>2. Outcome(q, k) \subseteq BOOLEAN
      BY RequestLogAssumption DEF RequestLogAssumption
    <3> QED BY <3>1, <3>2
  <2> QED BY <1>1, <2>1, <2>2 DEF AllEvents
<1> QED BY <1>2, <1>3, <1>4

\* Appending adds one member.
LEMMA ElemsOfAppend ==
  ASSUME NEW S, NEW s \in Seq(S), NEW e \in S
  PROVE  \A x : x \in Elems(Append(s, e)) <=> x \in Elems(s) \/ x = e
<1>1. /\ Len(s) \in Nat /\ Len(Append(s, e)) = Len(s) + 1
      /\ Append(s, e)[Len(s) + 1] = e /\ \A k \in 1..Len(s) : Append(s, e)[k] = s[k]
  BY AppendProperties
<1>2. \A k : k \in 1..(Len(s) + 1) <=> k \in 1..Len(s) \/ k = Len(s) + 1
  BY <1>1
<1> QED BY <1>1, <1>2 DEF Elems

\* A request's decision goes before its attempts, and nothing follows a success.
LEMMA RequestKeepsOrder ==
  ASSUME Inv, stage \in [Request -> Stages], InOrder,
         NEW r \in Request, NEW e \in Event, NEW from \in Stages, NEW to \in Stages,
         e.req = r, Does(r, from, e, to), to # "new",
         e.type = "decision" => from = "new",
         from # "done", e.success => to = "done"
  PROVE  InOrder' /\ stage' \in [Request -> Stages]
<1>1. /\ stage[r] = from /\ stage'[r] = to /\ \A q \in Request \ {r} : stage'[q] = stage[q]
      /\ stage' \in [Request -> Stages]
  BY DEF Does
<1>2. Accepted' = Append(Accepted, e) \/ Accepted' = Accepted
  BY AcceptedGrows DEF Does
<1>3. Accepted \in Seq(Event) /\ Len(Accepted) \in Nat
  BY AcceptedParts DEF Inv
<1>4. \A d \in Elems(Accepted) : d \in Event /\ d.req \in Request
  <2>1. \A p \in 1..Len(Accepted) : Accepted[p] \in Event
    BY <1>3
  <2> QED BY <2>1, EventFields DEF Elems
<1>5. \A d \in Elems(Accepted) : d.req = r => from # "new" /\ ~d.success
  BY <1>1 DEF InOrder
<1>6. \A d \in Elems(Accepted) : stage'[d.req] # "new" /\ (d.success => stage'[d.req] = "done")
  BY <1>1, <1>4, <1>5 DEF InOrder
<1>7. CASE Accepted' = Accepted
  BY <1>1, <1>6, <1>7 DEF InOrder, Elems
<1>8. CASE Accepted' = Append(Accepted, e)
  <2>1. \A d : d \in Elems(Accepted') <=> d \in Elems(Accepted) \/ d = e
    BY <1>3, <1>8, ElemsOfAppend
  <2>2. /\ Len(Accepted') = Len(Accepted) + 1 /\ Accepted'[Len(Accepted) + 1] = e
        /\ \A p \in 1..Len(Accepted) : Accepted'[p] = Accepted[p]
        /\ DOMAIN Accepted' = 1..(Len(Accepted) + 1) /\ DOMAIN Accepted = 1..Len(Accepted)
    <3>1. Accepted' \in Seq(Event)
      BY <1>3, <1>8, AppendProperties
    <3> QED BY <1>3, <1>8, <3>1, AppendProperties
  <2>3. ASSUME NEW p \in DOMAIN Accepted', NEW q \in DOMAIN Accepted',
               p < q, Accepted'[p].req = Accepted'[q].req
        PROVE  Accepted'[q].type # "decision"
    <3>1. p \in 1..Len(Accepted) /\ (q \in 1..Len(Accepted) \/ q = Len(Accepted) + 1)
      BY <1>3, <2>2, <2>3
    <3>2. CASE q \in 1..Len(Accepted)
      BY <2>2, <2>3, <3>1, <3>2 DEF InOrder
    <3>3. CASE q = Len(Accepted) + 1
      <4>1. Accepted[p] \in Elems(Accepted)
        BY <3>1 DEF Elems
      <4>2. Accepted[p].req = r /\ Accepted'[q] = e
        BY <2>2, <2>3, <3>1, <3>3
      <4> QED BY <1>5, <4>1, <4>2
    <3> QED BY <3>1, <3>2, <3>3
  <2>4. \A d \in Elems(Accepted') :
          stage'[d.req] # "new" /\ (d.success => stage'[d.req] = "done")
    BY <1>1, <1>6, <2>1
  <2>5. ASSUME NEW c \in Elems(Accepted'), NEW d \in Elems(Accepted'),
               c.success, d.success, c.req = d.req
        PROVE  c = d
    BY <1>5, <2>1, <2>5 DEF InOrder
  <2> QED BY <1>1, <2>3, <2>4, <2>5 DEF InOrder
<1> QED BY <1>2, <1>7, <1>8

-------------------------------------------------------------------------------
(* What the end of a handler call does to the memories. *)

\* The least of the limit and a count, with one more counted.
LEMMA OneMore ==
  ASSUME NEW lim \in Nat \ {0}, NEW c \in Nat
  PROVE  /\ AtMost(lim, c) \in Nat /\ AtMost(lim, c) <= lim /\ AtMost(lim, c) <= c
         /\ AtMost(lim, c) < lim => AtMost(lim, c) = c
         /\ AtMost(lim, AtMost(lim, c) + 1) = AtMost(lim, c + 1)
BY DEF AtMost

\* mem holds the newest of the positions S of the history of: last, or first.
NewestLast(mem, S, of) ==
  /\ Len(mem) = AtMost(Limit, Cardinality(S))
  /\ \A p \in S : Newer(p, S) < Limit => mem[Len(mem) - Newer(p, S)].req = of[p].req
NewestFirst(mem, S, of) ==
  /\ Len(mem) = AtMost(Limit, Cardinality(S))
  /\ \A p \in S : Newer(p, S) < Limit => mem[Newer(p, S) + 1] = of[p].req

\* new is old with a record of request r as its newest, the oldest making room for it.
AddsLast(old, new, r) ==
  /\ Len(new) = Len(old) + 1 - (IF Len(old) = Limit THEN 1 ELSE 0)
  /\ new[Len(new)].req = r
  /\ \A k \in 1..(Len(new) - 1) : new[k].req = old[k + IF Len(old) = Limit THEN 1 ELSE 0].req
AddsFirst(old, new, r) ==
  /\ Len(new) = AtMost(Limit, Len(old) + 1)
  /\ new[1] = r
  /\ \A k \in 1..(Len(new) - 1) : new[k + 1] = old[k]

\* The tracker's memory keeps a new record first, and all others or all but the oldest.
LEMMA KeptAdds ==
  ASSUME NEW S, NEW s \in Seq(S), NEW x \in S, Len(s) <= Limit
  PROVE  Kept(x, s) \in Seq(S) /\ AddsFirst(s, Kept(x, s), x)
<1> DEFINE n == Limit
           t == <<x>> \o s
           new == First(n, t)
<1>0. n \in Nat \ {0} /\ Len(s) <= n
  BY RequestLogAssumption DEF RequestLogAssumption
<1>5. Kept(x, s) = new
  BY DEF Kept
<1> HIDE DEF n
<1>1. /\ t \in Seq(S) /\ Len(t) = Len(s) + 1 /\ Len(s) \in Nat
      /\ t[1] = x /\ \A k \in 1..Len(s) : t[k + 1] = s[k]
  <2>1. <<x>> \in Seq(S) /\ Len(<<x>>) = 1
    OBVIOUS
  <2> QED BY <2>1, ConcatProperties
<1> HIDE DEF t
<1>2. CASE Len(s) = n
  <2>1. new = SubSeq(t, 1, n)
    BY <1>0, <1>1, <1>2 DEF First
  <2>2. /\ new \in Seq(S) /\ Len(new) = n
        /\ \A k \in 1..n : new[k] = t[k]
    BY <1>0, <1>1, <1>2, <2>1, SubSeqProperties
  <2>3. AtMost(n, Len(s) + 1) = n
    BY <1>0, <1>1, <1>2 DEF AtMost
  <2> HIDE DEF new
  <2>4. /\ new \in Seq(S) /\ Len(new) = AtMost(n, Len(s) + 1)
        /\ new[1] = x
        /\ \A k \in 1..(Len(new) - 1) : new[k + 1] = s[k]
    BY <1>0, <1>1, <1>2, <2>2, <2>3
  <2> QED BY <1>5, <2>4 DEF AddsFirst, n
<1>3. CASE Len(s) < n
  <2>1. new = t
    BY <1>0, <1>1, <1>3 DEF First
  <2>2. AtMost(n, Len(s) + 1) = Len(s) + 1
    BY <1>0, <1>1, <1>3 DEF AtMost
  <2> HIDE DEF new
  <2>3. /\ new \in Seq(S) /\ Len(new) = AtMost(n, Len(s) + 1)
        /\ new[1] = x
        /\ \A k \in 1..(Len(new) - 1) : new[k + 1] = s[k]
    BY <1>0, <1>1, <2>1, <2>2
  <2> QED BY <1>5, <2>3 DEF AddsFirst, n
<1>4. Len(s) = n \/ Len(s) < n
  BY <1>0, <1>1
<1> QED BY <1>2, <1>3, <1>4

\* The same requests at the positions S.
SameRequests(S, of, of2) == \A p \in S : of2[p].req = of[p].req

\* The log stays the newest when a position is added.
LEMMA LogOfMore ==
  ASSUME NEW n \in Nat, NEW S, S \subseteq 1..n, NEW old, NEW new, NEW of, NEW of2,
         NewestLast(old, S, of), SameRequests(S, of, of2), AddsLast(old, new, of2[n + 1].req)
  PROVE  NewestLast(new, S \cup {n + 1}, of2)
<1> DEFINE T == S \cup {n + 1}
           c == Cardinality(S)
           gone == IF Len(old) = Limit THEN 1 ELSE 0
<1>1. /\ c \in Nat /\ Cardinality(T) = c + 1 /\ Newer(n + 1, T) = 0
      /\ \A p \in S : /\ Newer(p, S) \in Nat /\ Newer(p, S) < c
                      /\ Newer(p, T) = Newer(p, S) + 1
  BY NewerGrows
<1>2. Len(old) = AtMost(Limit, c) /\ Limit \in Nat \ {0}
  BY RequestLogAssumption DEF NewestLast, RequestLogAssumption
<1>3. /\ Len(new) = Len(old) + 1 - gone
      /\ new[Len(new)].req = of2[n + 1].req
      /\ \A k \in 1..(Len(new) - 1) : new[k].req = old[k + gone].req
  BY DEF AddsLast
<1>4. gone = IF Len(old) = Limit THEN 1 ELSE 0
  OBVIOUS
<1> HIDE DEF c, gone
<1>5. /\ Len(old) \in Nat /\ Len(old) <= Limit /\ Len(old) <= c
      /\ Len(old) < Limit => Len(old) = c
  BY <1>1, <1>2, OneMore
<1>6. Len(new) \in Nat /\ Len(new) = AtMost(Limit, c + 1)
  BY <1>1, <1>2, <1>3, <1>4, <1>5 DEF AtMost
<1>7. ASSUME NEW p \in S, Newer(p, T) < Limit
      PROVE  new[Len(new) - Newer(p, T)].req = of2[p].req
  <2> DEFINE j == Newer(p, S)
             k == Len(new) - Newer(p, T)
  <2>1. j \in Nat /\ j < c /\ Newer(p, T) = j + 1 /\ j + 1 < Limit
    BY <1>1, <1>2, <1>7
  <2>2. old[Len(old) - j].req = of2[p].req
    BY <1>2, <2>1 DEF NewestLast, SameRequests
  <2> HIDE DEF j
  <2>3. k \in 1..(Len(new) - 1) /\ k + gone = Len(old) - j
    BY <1>2, <1>3, <1>4, <1>5, <1>6, <2>1
  <2> HIDE DEF k
  <2>4. new[k].req = old[k + gone].req
    BY <1>3, <2>3
  <2> QED BY <2>2, <2>3, <2>4 DEF k
<1>8. new[Len(new) - Newer(n + 1, T)].req = of2[n + 1].req
  <2>1. Len(new) - Newer(n + 1, T) = Len(new)
    BY <1>1, <1>6
  <2> QED BY <1>3, <2>1
<1>9. \A p \in T : p \in S \/ p = n + 1
  OBVIOUS
<1> HIDE DEF T
<1>10. NewestLast(new, T, of2)
  BY <1>1, <1>6, <1>7, <1>8, <1>9 DEF NewestLast
<1> QED BY <1>10 DEF T

\* So does the tracker's memory.
LEMMA RecentOfMore ==
  ASSUME NEW n \in Nat, NEW S, S \subseteq 1..n, NEW old, NEW new, NEW of, NEW of2,
         NewestFirst(old, S, of), SameRequests(S, of, of2), AddsFirst(old, new, of2[n + 1].req)
  PROVE  NewestFirst(new, S \cup {n + 1}, of2)
<1> DEFINE T == S \cup {n + 1}
           c == Cardinality(S)
<1>1. /\ c \in Nat /\ Cardinality(T) = c + 1 /\ Newer(n + 1, T) = 0
      /\ \A p \in S : /\ Newer(p, S) \in Nat /\ Newer(p, S) < c
                      /\ Newer(p, T) = Newer(p, S) + 1
  BY NewerGrows
<1>2. Len(old) = AtMost(Limit, c) /\ Limit \in Nat \ {0}
  BY RequestLogAssumption DEF NewestFirst, RequestLogAssumption
<1>3. /\ Len(new) = AtMost(Limit, Len(old) + 1)
      /\ new[1] = of2[n + 1].req
      /\ \A k \in 1..(Len(new) - 1) : new[k + 1] = old[k]
  BY DEF AddsFirst
<1> HIDE DEF c
<1>4. /\ Len(old) \in Nat /\ Len(old) <= Limit /\ Len(old) <= c
      /\ Len(old) < Limit => Len(old) = c
  BY <1>1, <1>2, OneMore
<1>5. Len(new) \in Nat /\ Len(new) = AtMost(Limit, c + 1)
  BY <1>1, <1>2, <1>3, <1>4 DEF AtMost
<1>6. ASSUME NEW p \in S, Newer(p, T) < Limit
      PROVE  new[Newer(p, T) + 1] = of2[p].req
  <2> DEFINE j == Newer(p, S)
             k == Newer(p, T)
  <2>1. j \in Nat /\ j < c /\ k = j + 1 /\ j + 1 < Limit
    BY <1>1, <1>2, <1>6
  <2>2. old[j + 1] = of2[p].req
    BY <1>2, <2>1 DEF NewestFirst, SameRequests
  <2> HIDE DEF j, k
  <2>3. k \in 1..(Len(new) - 1)
    BY <1>1, <1>2, <1>5, <2>1 DEF AtMost
  <2>4. new[k + 1] = old[k]
    BY <1>3, <2>3
  <2> QED BY <2>1, <2>2, <2>4 DEF k
<1>7. new[Newer(n + 1, T) + 1] = of2[n + 1].req
  BY <1>1, <1>3
<1>8. \A p \in T : p \in S \/ p = n + 1
  OBVIOUS
<1> HIDE DEF T
<1>9. NewestFirst(new, T, of2)
  BY <1>1, <1>5, <1>6, <1>7, <1>8 DEF NewestFirst
<1> QED BY <1>9 DEF T

\* The end of a call: its event is settled, a decision before anything else of its
\* request and no success after another.
Ended(e) ==
  /\ settled' = Append(settled, e)
  /\ FanOut(e)
  /\ \A d \in Elems(settled) : d.req = e.req => e.type # "decision"
  /\ \A d \in Elems(settled) : d.success /\ e.success /\ d.req = e.req => d = e

\* The worker ends the call of the event in its hand.
LEMMA CallEndsEvent ==
  ASSUME RecordsInv, CallEnds
  PROVE  \E e \in Event : Ended(e)
<1>1. PICK e \in Event : hand = <<e>>
  BY DEF CallEnds, HandlerEnds, DrainHandlerEnds, DrainPanics, RecordsInv, Inv, TypeOK
<1>2. /\ hand[1] = e /\ settled' = settled \o <<e>> /\ FanOut(e)
      /\ settled \in Seq(Event)
  BY <1>1 DEF CallEnds, HandlerEnds, DrainHandlerEnds, DrainPanics, RecordsInv, Inv, TypeOK
<1>3. settled' = Append(settled, e)
  <2>1. settled \o <<e>> = Append(settled, e)
    BY <1>2
  <2> QED BY <1>2, <2>1
<1>4. /\ Accepted \in Seq(Event) /\ Len(Accepted) \in Nat /\ Len(settled) \in Nat
      /\ \A p \in 1..Len(settled) : Accepted[p] = settled[p]
      /\ Accepted[Len(settled) + 1] = e /\ Len(settled) + 1 <= Len(Accepted)
  BY <1>1, AcceptedParts DEF RecordsInv, Inv
<1>5. ASSUME NEW d \in Elems(settled)
      PROVE  /\ d.req = e.req => e.type # "decision"
             /\ d.success /\ e.success /\ d.req = e.req => d = e
  <2>1. PICK p \in 1..Len(settled) : d = settled[p]
    BY DEF Elems
  <2> DEFINE q == Len(settled) + 1
  <2>2. /\ p \in 1..Len(Accepted) /\ q \in 1..Len(Accepted) /\ p < q
        /\ DOMAIN Accepted = 1..Len(Accepted)
    BY <1>4
  <2>3. Accepted[p] = d /\ Accepted[q] = e
    BY <1>4, <2>1
  <2>4. d \in Elems(Accepted) /\ e \in Elems(Accepted)
    BY <2>2, <2>3 DEF Elems
  <2> HIDE DEF q
  <2>5. p < q /\ Accepted[p].req = Accepted[q].req => Accepted[q].type # "decision"
    BY <2>2 DEF RecordsInv, InOrder
  <2>6. d.success /\ e.success /\ d.req = e.req => d = e
    BY <2>4 DEF RecordsInv, InOrder
  <2> QED BY <2>2, <2>3, <2>5, <2>6
<1> QED BY <1>2, <1>3, <1>5 DEF Ended

\* A panic keeps only the event in the hand from a handler; the log misses it exactly
\* when it is poisoned.
LEMMA EndedUnseen ==
  ASSUME RecordsInv, NEW e \in Event, Ended(e)
  PROVE  /\ UnseenIsSettled'
         /\ \A h, x : x # e => (<<h, x>> \in unseen' <=> <<h, x>> \in unseen)
         /\ <<"log", e>> \in unseen' <=> e \in Poison
         /\ \A x : x # e => (Reached("log", x)' <=> Reached("log", x))
         /\ Reached("log", e)' <=> e \notin Poison
         /\ \A x : x \in Elems(settled') <=> x \in Elems(settled) \/ x = e
<1>1. settled \in Seq(Event) /\ settled' = Append(settled, e)
  BY DEF RecordsInv, Inv, TypeOK, Ended
<1>2. \A x : x \in Elems(settled') <=> x \in Elems(settled) \/ x = e
  BY <1>1, ElemsOfAppend
<1>3. /\ unseen' \subseteq unseen \cup {<<"tracker", e>>, <<"log", e>>}
      /\ unseen \subseteq unseen'
      /\ e \notin Poison => unseen' = unseen
      /\ e \in Poison => <<"log", e>> \in unseen'
  BY DEF Ended, FanOut
<1>4. \A h, x : x # e => (<<h, x>> \in unseen' <=> <<h, x>> \in unseen)
  BY <1>3
<1>5. <<"log", e>> \in unseen' <=> e \in Poison
  <2>1. <<"log", e>> \in unseen => e \in Elems(settled)
    BY DEF RecordsInv, UnseenIsSettled
  <2>2. <<"log", e>> \in unseen => e \in Poison
    BY <2>1 DEF RecordsInv, UnseenIsSettled
  <2> QED BY <1>3, <2>2
<1>6. UnseenIsSettled'
  <2>1. ASSUME NEW u \in unseen' PROVE u[2] \in Elems(settled')
    <3>1. CASE u \in unseen
      BY <1>2, <3>1 DEF RecordsInv, UnseenIsSettled
    <3>2. CASE u \notin unseen
      <4>1. u[2] = e
        BY <1>3, <3>2
      <4> QED BY <1>2, <4>1
    <3> QED BY <3>1, <3>2
  <2>2. ASSUME NEW x \in Elems(settled') PROVE <<"log", x>> \in unseen' <=> x \in Poison
    BY <1>2, <1>4, <1>5 DEF RecordsInv, UnseenIsSettled
  <2> QED BY <2>1, <2>2 DEF UnseenIsSettled
<1>7. \A x : x # e => (Reached("log", x)' <=> Reached("log", x))
  BY <1>2, <1>4 DEF Reached
<1>8. Reached("log", e)' <=> e \notin Poison
  BY <1>2, <1>5 DEF Reached
<1> QED BY <1>2, <1>4, <1>5, <1>6, <1>7, <1>8

\* The log after a call: a row more, a row filled, or nothing.
LEMMA EndedRows ==
  ASSUME NEW e \in Event, Ended(e)
  PROVE  rows' = IF e \notin Poison /\ e.type = "decision" THEN AddRow(e)
                 ELSE IF e \notin Poison /\ e.success THEN FillRow(e) ELSE rows
<1>1. CASE e \in Poison
  BY <1>1 DEF Ended, FanOut
<1>2. CASE e \notin Poison
  <2>1. Log(e)
    BY <1>2 DEF Ended, FanOut
  <2>2. CASE e.type = "decision"
    BY <1>2, <2>1, <2>2, EventFields DEF Log
  <2>3. CASE e.type # "decision" /\ e.success
    BY <1>2, <2>1, <2>3, EventFields DEF Log
  <2>4. CASE e.type # "decision" /\ ~e.success
    BY <1>2, <2>1, <2>4, EventFields DEF Log
  <2> QED BY <2>2, <2>3, <2>4
<1> QED BY <1>1, <1>2

\* What the rows' part of the invariant says.
RowsInv ==
  /\ rows \in Seq(Rows) /\ Len(rows) <= Limit
  /\ OneRowEach /\ RowsTellTheSuccess

\* A decision brings a row of its own, which no success has yet been handled for.
LEMMA DecisionKeepsRows ==
  ASSUME RecordsInv, RowsInv, NEW e \in Event, Ended(e), e \notin Poison, e.type = "decision"
  PROVE  RowsInv'
<1>1. e = Decision(e.req) /\ ~e.success /\ e.req \in Request
  BY EventFields
<1>2. rows' = Newest(Limit, Append(rows, Row(e))) /\ Row(e) \in Rows
  BY <1>1, EndedRows DEF AddRow, Row, Rows
<1> DEFINE gone == IF Len(rows) = Limit THEN 1 ELSE 0
<1>3. /\ rows' \in Seq(Rows) /\ Len(rows') = Len(rows) + 1 - gone /\ Len(rows') <= Limit
      /\ rows'[Len(rows')] = Row(e)
      /\ \A k \in 1..(Len(rows') - 1) : rows'[k] = rows[k + gone]
  <2>1. rows \in Seq(Rows) /\ Len(rows) <= Limit /\ Limit \in Nat \ {0}
    BY RequestLogAssumption DEF RowsInv, RequestLogAssumption
  <2> DEFINE x == Row(e)
  <2>2. x \in Rows
    BY <1>2
  <2> HIDE DEF x
  <2>3. LET new == Newest(Limit, Append(rows, x)) IN
        /\ new \in Seq(Rows) /\ Len(new) = Len(rows) + 1 - gone /\ Len(new) <= Limit
        /\ new[Len(new)] = x
        /\ \A k \in 1..(Len(new) - 1) : new[k] = rows[k + gone]
    BY <2>1, <2>2, NewestKeeps
  <2> QED BY <1>2, <2>3 DEF x
<1>4. gone \in {0, 1} /\ Len(rows) \in Nat /\ Len(rows') \in Nat
  BY <1>3 DEF RowsInv
<1> HIDE DEF gone
<1>5. DOMAIN rows' = 1..Len(rows') /\ DOMAIN rows = 1..Len(rows)
  BY <1>3 DEF RowsInv
<1>6. \A k \in DOMAIN rows' : \/ k = Len(rows') /\ rows'[k] = Row(e)
                              \/ /\ k \in 1..(Len(rows') - 1)
                                 /\ k + gone \in DOMAIN rows /\ rows'[k] = rows[k + gone]
  <2> SUFFICES ASSUME NEW k \in 1..Len(rows')
               PROVE  \/ k = Len(rows') /\ rows'[k] = Row(e)
                      \/ /\ k \in 1..(Len(rows') - 1)
                         /\ k + gone \in 1..Len(rows) /\ rows'[k] = rows[k + gone]
    BY <1>5
  <2>1. Len(rows') = Len(rows) + 1 - gone
    BY <1>3 DEF gone
  <2>2. k = Len(rows') \/ (k \in 1..(Len(rows') - 1) /\ k + gone \in 1..Len(rows))
    BY <1>4, <2>1
  <2> QED BY <1>3, <2>2
<1>7. \A x : x \in Elems(settled') <=> x \in Elems(settled) \/ x = e
  BY EndedUnseen
<1>8. \A k \in DOMAIN rows : rows[k].req \in Request /\ rows[k].req # e.req
  <2> SUFFICES ASSUME NEW k \in DOMAIN rows PROVE rows[k].req \in Request /\ rows[k].req # e.req
    OBVIOUS
  <2>1. rows[k].req \in Request
    <3>1. rows \in Seq(Rows) /\ k \in 1..Len(rows)
      BY <1>5 DEF RowsInv
    <3>2. rows[k] \in Rows
      BY <3>1
    <3> QED BY <3>2 DEF Rows
  <2>2. Decision(rows[k].req) \in Elems(settled)
    BY DEF RowsInv, OneRowEach
  <2>3. Decision(rows[k].req).req = rows[k].req
    BY DEF Decision
  <2> QED BY <2>1, <2>2, <2>3 DEF Ended
<1>9. Row(e).req = e.req /\ Row(e).filled = FALSE
  BY DEF Row
<1>10. OneRowEach'
  <2>1. ASSUME NEW k \in DOMAIN rows' PROVE Decision(rows'[k].req) \in Elems(settled')
    BY <1>1, <1>6, <1>7, <1>9 DEF RowsInv, OneRowEach
  <2>2. ASSUME NEW k \in DOMAIN rows', NEW l \in DOMAIN rows', rows'[k].req = rows'[l].req
        PROVE  k = l
    <3>1. CASE k = Len(rows') \/ l = Len(rows')
      BY <1>6, <1>8, <1>9, <2>2, <3>1
    <3>2. CASE k # Len(rows') /\ l # Len(rows')
      <4>1. k + gone = l + gone
        BY <1>6, <2>2, <3>2 DEF RowsInv, OneRowEach
      <4> QED BY <1>4, <1>5, <4>1
    <3> QED BY <3>1, <3>2
  <2> QED BY <2>1, <2>2 DEF OneRowEach
<1>11. \A r, i : Succeeded(r, i)' <=> Succeeded(r, i)
  <2>1. \A r, i : Attempt(r, i, TRUE) # e
    BY DEF Attempt
  <2> QED BY <2>1, EndedUnseen DEF Succeeded
<1>12. \A i : ~Succeeded(e.req, i)
  <2>1. \A i : Attempt(e.req, i, TRUE).req = e.req
    BY DEF Attempt
  <2> QED BY <2>1 DEF Succeeded, Reached, Ended
<1>13. RowsTellTheSuccess'
  <2> SUFFICES ASSUME NEW k \in DOMAIN rows', Alone(rows'[k].req)
               PROVE  /\ \A i \in {0, 1} : Succeeded(rows'[k].req, i) =>
                           rows'[k].filled /\ rows'[k].model = i
                      /\ rows'[k].filled => \E i \in {0, 1} : Succeeded(rows'[k].req, i)
    BY <1>11 DEF RowsTellTheSuccess, Alone
  <2>1. CASE rows'[k] = Row(e)
    BY <1>9, <1>12, <2>1
  <2>2. CASE k + gone \in DOMAIN rows /\ rows'[k] = rows[k + gone]
    BY <2>2 DEF RowsInv, RowsTellTheSuccess
  <2> QED BY <1>6, <2>1, <2>2
<1> QED BY <1>3, <1>10, <1>13 DEF RowsInv

\* A success fills a row of its request ID: of that request, if the row's ID is its own.
LEMMA SuccessKeepsRows ==
  ASSUME RecordsInv, RowsInv, NEW e \in Event, Ended(e), e \notin Poison, e.success
  PROVE  RowsInv' /\ Len(rows') = Len(rows)
         /\ \A k \in DOMAIN rows : rows'[k].req = rows[k].req
<1>1. /\ e = Attempt(e.req, e.index, TRUE) /\ e.req \in Request /\ e.index \in {0, 1}
      /\ e.type # "decision"
  BY EventFields
<1>2. rows' = FillRow(e)
  BY <1>1, EndedRows
<1>3. /\ rows \in Seq(Rows) /\ Len(rows) <= Limit /\ DOMAIN rows = 1..Len(rows)
      /\ \A k \in DOMAIN rows : rows[k].req \in Request
  <2>1. rows \in Seq(Rows) /\ Len(rows) <= Limit
    BY DEF RowsInv
  <2>2. \A k \in 1..Len(rows) : rows[k] \in Rows
    BY <2>1
  <2> QED BY <2>1, <2>2 DEF Rows
<1>4. \A x : x \in Elems(settled') <=> x \in Elems(settled) \/ x = e
  BY EndedUnseen
<1>5. \A r, i : Succeeded(r, i)' <=> Succeeded(r, i) \/ (r = e.req /\ i = e.index)
  <2> SUFFICES ASSUME NEW r, NEW i
               PROVE  Succeeded(r, i)' <=> Succeeded(r, i) \/ (r = e.req /\ i = e.index)
    OBVIOUS
  <2>1. CASE Attempt(r, i, TRUE) = e
    <3>1. r = e.req /\ i = e.index
      BY <2>1 DEF Attempt
    <3> QED BY <2>1, <3>1, EndedUnseen DEF Succeeded
  <2>2. CASE Attempt(r, i, TRUE) # e
    <3>1. ~(r = e.req /\ i = e.index)
      BY <1>1, <2>2
    <3> QED BY <2>2, <3>1, EndedUnseen DEF Succeeded
  <2> QED BY <2>1, <2>2
<1>6. \A i : Succeeded(e.req, i) => i = e.index
  <2> SUFFICES ASSUME NEW i, Succeeded(e.req, i) PROVE i = e.index
    OBVIOUS
  <2> DEFINE d == Attempt(e.req, i, TRUE)
  <2>1. d \in Elems(settled) /\ d.success /\ d.req = e.req /\ d.index = i
    BY DEF Succeeded, Reached, Attempt
  <2> HIDE DEF d
  <2>2. d = e
    BY <2>1 DEF Ended
  <2> QED BY <2>1, <2>2
<1>7. \A k \in DOMAIN rows : Alone(rows[k].req) /\ Id(rows[k].req) = Id(e.req) => rows[k].req = e.req
  BY <1>1, <1>3 DEF Alone
<1>8. CASE FillRow(e) = rows /\ \A k \in DOMAIN rows : Id(rows[k].req) # Id(e.req)
  <2>1. \A k \in DOMAIN rows : rows[k].req # e.req
    BY <1>8
  <2>2. RowsTellTheSuccess'
    BY <1>2, <1>5, <1>8, <2>1 DEF RowsInv, RowsTellTheSuccess, Alone
  <2>3. OneRowEach'
    BY <1>2, <1>4, <1>8 DEF RowsInv, OneRowEach
  <2> QED BY <1>2, <1>3, <1>8, <2>2, <2>3 DEF RowsInv
<1>9. CASE \E i \in DOMAIN rows :
             /\ Id(rows[i].req) = Id(e.req)
             /\ FillRow(e) \in Seq(Rows) /\ Len(FillRow(e)) = Len(rows)
             /\ FillRow(e)[i] = [req |-> rows[i].req, model |-> e.index, filled |-> TRUE]
             /\ \A k \in DOMAIN rows \ {i} : FillRow(e)[k] = rows[k]
  <2>1. PICK i \in DOMAIN rows :
             /\ Id(rows[i].req) = Id(e.req)
             /\ rows' \in Seq(Rows) /\ Len(rows') = Len(rows)
             /\ rows'[i] = [req |-> rows[i].req, model |-> e.index, filled |-> TRUE]
             /\ \A k \in DOMAIN rows \ {i} : rows'[k] = rows[k]
    BY <1>2, <1>9
  <2>2. /\ rows'[i].req = rows[i].req /\ rows'[i].model = e.index /\ rows'[i].filled = TRUE
        /\ \A k \in DOMAIN rows : rows'[k].req = rows[k].req
        /\ DOMAIN rows' = DOMAIN rows
    BY <1>3, <2>1
  <2>3. OneRowEach'
    BY <1>4, <2>2 DEF RowsInv, OneRowEach
  <2>4. RowsTellTheSuccess'
    <3> SUFFICES ASSUME NEW k \in DOMAIN rows, Alone(rows[k].req)
                 PROVE  /\ \A j \in {0, 1} : Succeeded(rows[k].req, j)' =>
                             rows'[k].filled /\ rows'[k].model = j
                        /\ rows'[k].filled => \E j \in {0, 1} : Succeeded(rows[k].req, j)'
      BY <2>2 DEF RowsTellTheSuccess, Alone
    <3>1. CASE k = i
      <4>1. rows[k].req = e.req
        BY <1>7, <2>1, <3>1
      <4> QED BY <1>1, <1>5, <1>6, <2>2, <3>1, <4>1
    <3>2. CASE k # i
      <4>1. rows[k].req # e.req
        <5>1. ASSUME rows[k].req = e.req PROVE rows[i].req = rows[k].req
          BY <1>3, <2>1, <5>1 DEF Alone
        <5> QED BY <3>2, <5>1 DEF RowsInv, OneRowEach
      <4>2. rows'[k] = rows[k]
        BY <2>1, <3>2
      <4> QED BY <1>5, <4>1, <4>2 DEF RowsInv, RowsTellTheSuccess
    <3> QED BY <3>1, <3>2
  <2> QED BY <1>3, <2>1, <2>2, <2>3, <2>4 DEF RowsInv
<1> QED BY <1>1, <1>3, <1>8, <1>9, FillsOneRow

\* Any other event, and one whose handler panics, leaves the rows and what they tell alone.
LEMMA OthersKeepRows ==
  ASSUME RecordsInv, RowsInv, NEW e \in Event, Ended(e),
         e \in Poison \/ (e.type # "decision" /\ ~e.success)
  PROVE  RowsInv' /\ rows' = rows
<1>1. rows' = rows
  BY EndedRows
<1>2. \A r, i : Succeeded(r, i)' <=> Succeeded(r, i)
  <2> SUFFICES ASSUME NEW r, NEW i PROVE Succeeded(r, i)' <=> Succeeded(r, i)
    OBVIOUS
  <2>1. CASE Attempt(r, i, TRUE) = e
    <3>1. e \in Poison
      BY <2>1 DEF Attempt
    <3>2. ~Succeeded(r, i)'
      BY <2>1, <3>1, EndedUnseen DEF Succeeded
    <3>3. ASSUME Succeeded(r, i) PROVE FALSE
      <4>1. e \in Elems(settled) /\ <<"log", e>> \notin unseen
        BY <2>1, <3>3 DEF Succeeded, Reached
      <4> QED BY <3>1, <4>1 DEF RecordsInv, UnseenIsSettled
    <3> QED BY <3>2, <3>3
  <2>2. CASE Attempt(r, i, TRUE) # e
    BY <2>2, EndedUnseen DEF Succeeded
  <2> QED BY <2>1, <2>2
<1>3. \A x : x \in Elems(settled') <=> x \in Elems(settled) \/ x = e
  BY EndedUnseen
<1> QED BY <1>1, <1>2, <1>3 DEF RowsInv, OneRowEach, RowsTellTheSuccess, Alone

\* The two halves of RecordsAreNewest: the log and the tracker.
ComparedAt == {p \in DecisionsAt("tracker") : settled[p].req \in Compared}

RowsAreNewest == NewestLast(rows, DecisionsAt("log"), settled)

RecentAreNewest == total = Cardinality(ComparedAt) /\ NewestFirst(recent, ComparedAt, settled)

\* They are its halves.
LEMMA NewestHalves == RecordsAreNewest <=> RowsAreNewest /\ RecentAreNewest
BY DEF RecordsAreNewest, RowsAreNewest, RecentAreNewest, ComparedAt, NewestLast, NewestFirst

\* A call adds the next position to the decisions a handler saw, if it is one.
LEMMA EndedPositions ==
  ASSUME RecordsInv, NEW e \in Event, Ended(e), NEW h
  PROVE  /\ Len(settled) \in Nat /\ DecisionsAt(h) \subseteq 1..Len(settled)
         /\ \A p \in 1..Len(settled) : settled'[p] = settled[p]
         /\ settled'[Len(settled) + 1] = e
         /\ e.type = "decision" /\ <<h, e>> \notin unseen' =>
              DecisionsAt(h)' = DecisionsAt(h) \cup {Len(settled) + 1}
         /\ e.type # "decision" \/ <<h, e>> \in unseen' => DecisionsAt(h)' = DecisionsAt(h)
<1>1. settled \in Seq(Event) /\ settled' = Append(settled, e)
  BY DEF RecordsInv, Inv, TypeOK, Ended
<1>2. /\ Len(settled) \in Nat /\ Len(settled') = Len(settled) + 1
      /\ \A p \in 1..Len(settled) : settled'[p] = settled[p]
      /\ settled'[Len(settled) + 1] = e
      /\ settled' \in Seq(Event)
  BY <1>1, AppendProperties
<1>3. DOMAIN settled = 1..Len(settled) /\ DOMAIN settled' = 1..(Len(settled) + 1)
  BY <1>1, <1>2
<1>4. \A p : p \in 1..(Len(settled) + 1) <=> p \in 1..Len(settled) \/ p = Len(settled) + 1
  BY <1>2
<1>5. Len(settled) + 1 \notin 1..Len(settled)
  BY <1>2
<1>6. \A p \in 1..Len(settled) : settled[p].type = "decision" =>
        (<<h, settled[p]>> \in unseen' <=> <<h, settled[p]>> \in unseen)
  <2> SUFFICES ASSUME NEW p \in 1..Len(settled), settled[p].type = "decision"
               PROVE  settled[p] # e
    BY EndedUnseen
  <2>1. settled[p] \in Elems(settled)
    BY DEF Elems
  <2> QED BY <2>1 DEF Ended
<1> DEFINE n == Len(settled)
<1> HIDE DEF n
<1>7. /\ \A p \in DecisionsAt(h)' : \/ p \in DecisionsAt(h)
                                    \/ p = n + 1 /\ e.type = "decision" /\ <<h, e>> \notin unseen'
      /\ \A p \in DecisionsAt(h) : p \in DecisionsAt(h)'
      /\ e.type = "decision" /\ <<h, e>> \notin unseen' => n + 1 \in DecisionsAt(h)'
  BY <1>2, <1>3, <1>4, <1>6 DEF DecisionsAt, n
<1>8. DecisionsAt(h) \subseteq 1..Len(settled)
  BY <1>3 DEF DecisionsAt
<1>9. e.type = "decision" /\ <<h, e>> \notin unseen' => DecisionsAt(h)' = DecisionsAt(h) \cup {n + 1}
  BY <1>7
<1>10. e.type # "decision" \/ <<h, e>> \in unseen' => DecisionsAt(h)' = DecisionsAt(h)
  BY <1>7
<1> QED BY <1>2, <1>8, <1>9, <1>10 DEF n

\* The log stays the newest decisions that reached it.
LEMMA EndedLog ==
  ASSUME RecordsInv, RowsInv, RowsAreNewest, NEW e \in Event, Ended(e)
  PROVE  RowsInv' /\ RowsAreNewest'
<1> DEFINE L == DecisionsAt("log")
           n == Len(settled)
<1>1. n \in Nat /\ L \subseteq 1..n /\ SameRequests(L, settled, settled') /\ settled'[n + 1] = e
  BY EndedPositions DEF SameRequests
<1>2. NewestLast(rows, L, settled)
  BY DEF RowsAreNewest
<1>3. CASE e \notin Poison /\ e.type = "decision"
  <2>1. L' = L \cup {n + 1}
    BY <1>3, EndedPositions, EndedUnseen
  <2>2. RowsInv'
    BY <1>3, DecisionKeepsRows
  <2>3. AddsLast(rows, rows', e.req)
    <3> DEFINE x == Row(e)
               gone == IF Len(rows) = Limit THEN 1 ELSE 0
    <3>1. rows \in Seq(Rows) /\ Len(rows) <= Limit /\ Limit \in Nat \ {0}
      BY RequestLogAssumption DEF RowsInv, RequestLogAssumption
    <3>2. x \in Rows /\ x.req = e.req
      BY EventFields DEF Row, Rows
    <3>3. rows' = Newest(Limit, Append(rows, x))
      BY <1>3, EndedRows DEF AddRow
    <3> HIDE DEF x
    <3>4. LET new == Newest(Limit, Append(rows, x)) IN
          /\ Len(new) = Len(rows) + 1 - gone
          /\ new[Len(new)] = x
          /\ \A k \in 1..(Len(new) - 1) : new[k] = rows[k + gone]
      BY <3>1, <3>2, NewestKeeps
    <3>5. AddsLast(rows, Newest(Limit, Append(rows, x)), x.req)
      BY <3>4 DEF AddsLast
    <3> QED BY <3>2, <3>3, <3>5
  <2> HIDE DEF L, n
  <2>4. NewestLast(rows', L \cup {n + 1}, settled')
    BY <1>1, <1>2, <2>3, LogOfMore
  <2>5. NewestLast(rows', L', settled')
    BY <2>1, <2>4
  <2> QED BY <2>2, <2>5 DEF RowsAreNewest, L
<1>4. CASE e \in Poison \/ e.type # "decision"
  <2>1. L' = L
    BY <1>4, EndedPositions, EndedUnseen
  <2>2. /\ RowsInv' /\ Len(rows') = Len(rows)
        /\ \A k \in DOMAIN rows : rows'[k].req = rows[k].req
    BY <1>4, SuccessKeepsRows, OthersKeepRows
  <2>3. /\ Len(rows) = AtMost(Limit, Cardinality(L)) /\ Limit \in Nat \ {0}
        /\ \A p \in L : Newer(p, L) < Limit => rows[Len(rows) - Newer(p, L)].req = settled[p].req
        /\ DOMAIN rows = 1..Len(rows)
    BY <1>2, RequestLogAssumption DEF NewestLast, RequestLogAssumption, RowsInv
  <2>4. ASSUME NEW p \in L, Newer(p, L) < Limit
        PROVE  rows'[Len(rows) - Newer(p, L)].req = settled'[p].req
    <3> HIDE DEF L, n
    <3>1. /\ Cardinality(L) \in Nat /\ Newer(p, L) \in Nat /\ Newer(p, L) < Cardinality(L)
      BY <1>1, NewerGrows
    <3>2. Len(rows) - Newer(p, L) \in 1..Len(rows)
      BY <2>3, <2>4, <3>1 DEF AtMost
    <3> QED BY <1>1, <2>2, <2>3, <2>4, <3>2 DEF SameRequests
  <2> HIDE DEF L, n
  <2>5. NewestLast(rows', L', settled')
    BY <2>1, <2>2, <2>3, <2>4 DEF NewestLast
  <2> QED BY <2>2, <2>5 DEF RowsAreNewest, L
<1> QED BY <1>3, <1>4

\* The tracker counts and keeps a call's event exactly if it is a compared decision it saw.
LEMMA EndedCompare ==
  ASSUME RecordsInv, NEW e \in Event, Ended(e)
  PROVE  IF e.type = "decision" /\ e.req \in Compared /\ <<"tracker", e>> \notin unseen'
         THEN total' = total + 1 /\ recent' = Kept(e.req, recent)
         ELSE UNCHANGED <<total, recent>>
<1>1. CASE e.type # "decision" \/ e.req \notin Compared
  BY <1>1 DEF Ended, FanOut, Compare
<1>2. CASE e.type = "decision" /\ e.req \in Compared
  <2>1. <<"tracker", e>> \notin unseen
    <3>1. <<"tracker", e>> \in unseen => e \in Elems(settled)
      BY DEF RecordsInv, UnseenIsSettled
    <3> QED BY <1>2, <3>1 DEF Ended
  <2>2. CASE Compare(e) /\ unseen' \subseteq unseen \cup {<<"log", e>>}
    <3>1. <<"tracker", e>> \notin unseen'
      BY <2>1, <2>2
    <3> QED BY <1>2, <2>2, <3>1 DEF Compare
  <2>3. CASE UNCHANGED <<total, recent>> /\ <<"tracker", e>> \in unseen'
    BY <2>3
  <2> QED BY <2>2, <2>3 DEF Ended, FanOut
<1> QED BY <1>1, <1>2

\* The tracker stays the newest compared decisions that reached it, and counts them all.
LEMMA EndedRecent ==
  ASSUME RecordsInv, RecentAreNewest, NEW e \in Event, Ended(e)
  PROVE  RecentAreNewest' /\ total' \in Nat /\ recent' \in Seq(Request)
<1> DEFINE D == DecisionsAt("tracker")
           C == ComparedAt
           n == Len(settled)
<1>1. n \in Nat /\ D \subseteq 1..n /\ settled'[n + 1] = e
  BY EndedPositions
<1>2. \A p \in 1..n : settled'[p] = settled[p]
  BY EndedPositions
<1>3. C \subseteq 1..n /\ SameRequests(C, settled, settled') /\ NewestFirst(recent, C, settled)
  BY <1>1, <1>2 DEF ComparedAt, SameRequests, RecentAreNewest
<1>4. total = Cardinality(C) /\ total \in Nat /\ recent \in Seq(Request)
  BY DEF RecentAreNewest, RecordsInv, RecordsTypeOK
<1>5. CASE e.type = "decision" /\ <<"tracker", e>> \notin unseen' /\ e.req \in Compared
  <2>1. D' = D \cup {n + 1}
    BY <1>5, EndedPositions
  <2>2. C' = C \cup {n + 1}
    <3>1. \A p \in D : settled'[p] = settled[p]
      BY <1>1, <1>2
    <3> HIDE DEF D, n
    <3>2. C = {p \in D : settled[p].req \in Compared}
      BY DEF ComparedAt, D
    <3>3. C' = {p \in D' : settled'[p].req \in Compared}
      BY DEF ComparedAt, D
    <3> QED BY <1>1, <1>5, <2>1, <3>1, <3>2, <3>3
  <2>3. total' = total + 1 /\ recent' = Kept(e.req, recent)
    BY <1>5, EndedCompare
  <2>4. /\ e.req \in Request /\ Limit \in Nat \ {0} /\ Len(recent) <= Limit
        /\ Len(recent) \in Nat
    <3>1. e.req \in Request /\ Limit \in Nat \ {0}
      BY EventFields, RequestLogAssumption DEF RequestLogAssumption
    <3>2. Len(recent) = AtMost(Limit, total)
      BY <1>3, <1>4 DEF NewestFirst
    <3> QED BY <1>4, <3>1, <3>2, OneMore
  <2>5. recent' \in Seq(Request) /\ AddsFirst(recent, recent', e.req)
    <3> DEFINE x == e.req
    <3>1. recent \in Seq(Request) /\ x \in Request /\ Len(recent) <= Limit
      BY <1>4, <2>4
    <3> HIDE DEF x
    <3>2. Kept(x, recent) \in Seq(Request) /\ AddsFirst(recent, Kept(x, recent), x)
      BY <3>1, KeptAdds
    <3> QED BY <2>3, <3>2 DEF x
  <2> HIDE DEF C, n
  <2>6. NewestFirst(recent', C \cup {n + 1}, settled')
    BY <1>1, <1>3, <2>5, RecentOfMore
  <2>7. NewestFirst(recent', C', settled')
    BY <2>2, <2>6
  <2>8. total' = Cardinality(C')
    BY <1>1, <1>3, <1>4, <2>2, <2>3, NewerGrows
  <2>9. total' \in Nat
    BY <1>4, <2>3
  <2> QED BY <2>5, <2>7, <2>8, <2>9 DEF RecentAreNewest, C
<1>6. CASE ~(e.type = "decision" /\ <<"tracker", e>> \notin unseen' /\ e.req \in Compared)
  <2>1. C' = C
    <3> HIDE DEF n
    <3>1. C = {p \in D : settled[p].req \in Compared}
      BY DEF ComparedAt
    <3>2. C' = {p \in D' : settled'[p].req \in Compared}
      BY DEF ComparedAt
    <3>3. \A p \in D : settled'[p] = settled[p]
      BY <1>1, <1>2
    <3>4. CASE D' = D
      <4> HIDE DEF D, C
      <4> QED BY <3>1, <3>2, <3>3, <3>4
    <3>5. CASE D' = D \cup {n + 1} /\ e.req \notin Compared
      <4> HIDE DEF D, C
      <4> QED BY <1>1, <3>1, <3>2, <3>3, <3>5
    <3>6. D' = D \/ (D' = D \cup {n + 1} /\ e.req \notin Compared)
      BY <1>6, EndedPositions DEF n
    <3> QED BY <3>4, <3>5, <3>6
  <2>2. total' = total /\ recent' = recent
    BY <1>6, EndedCompare
  <2> HIDE DEF C, n
  <2>3. \A p \in C : Newer(p, C) < Limit => recent[Newer(p, C) + 1] = settled'[p].req
    BY <1>3 DEF NewestFirst, SameRequests
  <2>4. NewestFirst(recent', C', settled')
    BY <1>3, <2>1, <2>2, <2>3 DEF NewestFirst
  <2> QED BY <1>4, <2>1, <2>2, <2>4 DEF RecentAreNewest, C
<1> QED BY <1>5, <1>6

-------------------------------------------------------------------------------
(* The records, whatever the order of requests, worker and cancellation. *)

\* Nothing is recorded at first.
LEMMA InitRecordsInv == InitRecords => RecordsInv
<1> SUFFICES ASSUME InitRecords PROVE RecordsInv
  OBVIOUS
<1>1. Inv
  BY InitInv DEF InitRecords
<1>2. /\ settled = <<>> /\ hand = <<>> /\ ch = <<>> /\ rows = <<>> /\ recent = <<>>
      /\ total = 0 /\ unseen = {} /\ stage = [r \in Request |-> "new"]
  BY DEF InitRecords, Init
<1>3. Accepted = <<>>
  BY <1>2 DEF Accepted
<1>4. Elems(<<>>) = {} /\ DOMAIN <<>> = {} /\ Len(<<>>) = 0
  BY DEF Elems
<1>5. RecordsTypeOK
  BY <1>2 DEF RecordsTypeOK, Stages
<1>6. InOrder /\ UnseenIsSettled /\ OneRowEach /\ RowsTellTheSuccess
  BY <1>2, <1>3, <1>4 DEF InOrder, UnseenIsSettled, OneRowEach, RowsTellTheSuccess
<1>7. RecordsAreNewest
  <2>1. \A h : DecisionsAt(h) = {}
    BY <1>2, <1>4 DEF DecisionsAt
  <2>2. Cardinality({}) = 0
    BY FS_EmptySet
  <2>3. AtMost(Limit, 0) = 0
    BY RequestLogAssumption DEF RequestLogAssumption, AtMost
  <2>4. RowsAreNewest
    BY <1>2, <1>4, <2>1, <2>2, <2>3 DEF RowsAreNewest, NewestLast
  <2>5. ComparedAt = {}
    BY <2>1 DEF ComparedAt
  <2>6. RecentAreNewest
    BY <1>2, <1>4, <2>2, <2>3, <2>5 DEF RecentAreNewest, NewestFirst
  <2> QED BY <2>4, <2>6, NewestHalves
<1> QED BY <1>1, <1>5, <1>6, <1>7 DEF RecordsInv

\* The end of a call keeps the invariant.
LEMMA CallEndsRecords ==
  ASSUME RecordsInv, CallEnds, UNCHANGED stage, Inv'
  PROVE  RecordsInv'
<1>1. PICK e \in Event : Ended(e)
  BY CallEndsEvent
<1>2. Accepted' = Accepted
  BY AcceptedStays DEF CallEnds, WorkerStep, RecordsInv
<1>3. InOrder'
  BY <1>2 DEF RecordsInv, InOrder, Elems
<1>4. UnseenIsSettled'
  BY <1>1, EndedUnseen
<1>5. RowsInv
  <2>1. Len(rows) <= Limit
    <3>1. DecisionsAt("log") \subseteq 1..Len(settled) /\ Len(settled) \in Nat
      BY <1>1, EndedPositions
    <3>2. Cardinality(DecisionsAt("log")) \in Nat
      BY <3>1, NewerGrows
    <3>3. Len(rows) = AtMost(Limit, Cardinality(DecisionsAt("log"))) /\ Limit \in Nat \ {0}
      BY NewestHalves, RequestLogAssumption
         DEF RecordsInv, RowsAreNewest, NewestLast, RequestLogAssumption
    <3> QED BY <3>2, <3>3, OneMore
  <2> QED BY <2>1 DEF RowsInv, RecordsInv, RecordsTypeOK
<1>6. RowsInv' /\ RowsAreNewest'
  BY <1>1, <1>5, EndedLog, NewestHalves DEF RecordsInv
<1>7. RecentAreNewest' /\ total' \in Nat /\ recent' \in Seq(Request)
  BY <1>1, EndedRecent, NewestHalves DEF RecordsInv
<1>8. RecordsAreNewest'
  BY <1>6, <1>7, NewestHalves, PTL
<1>9. RecordsTypeOK'
  BY <1>6, <1>7 DEF RecordsInv, RecordsTypeOK, RowsInv
<1> QED BY <1>3, <1>4, <1>6, <1>8, <1>9 DEF RecordsInv, RowsInv

\* A step that ends no call leaves what was handled and recorded alone.
LEMMA NothingHandled ==
  ASSUME RecordsInv, UNCHANGED <<settled, records>>,
         Inv', InOrder', stage' \in [Request -> Stages]
  PROVE  RecordsInv'
<1>1. UNCHANGED <<settled, rows, total, recent, unseen>>
  BY DEF records
<1>2. UnseenIsSettled' /\ OneRowEach' /\ RecordsTypeOK'
  BY <1>1 DEF RecordsInv, UnseenIsSettled, OneRowEach, RecordsTypeOK, Elems
<1>3. RowsTellTheSuccess'
  <2>1. \A r, i : Succeeded(r, i)' <=> Succeeded(r, i)
    BY <1>1 DEF Succeeded, Reached, Elems
  <2> QED BY <1>1, <2>1 DEF RecordsInv, RowsTellTheSuccess, Alone
<1>4. DecisionsAt("log")' = DecisionsAt("log") /\ ComparedAt' = ComparedAt
  BY <1>1 DEF DecisionsAt, ComparedAt
<1>5. RowsAreNewest' /\ RecentAreNewest'
  BY <1>1, <1>4, NewestHalves
     DEF RecordsInv, RowsAreNewest, RecentAreNewest, NewestLast, NewestFirst
<1>6. RecordsAreNewest'
  BY <1>5, NewestHalves, PTL
<1> QED BY <1>2, <1>3, <1>6 DEF RecordsInv

\* A request's step, be its event accepted or dropped.
LEMMA RequestRecords ==
  ASSUME RecordsInv, NEW r \in Request, Decide(r) \/ Call(r) \/ FallBack(r), Inv'
  PROVE  RecordsInv'
<1>1. ASSUME NEW e \in Event, NEW from \in Stages, NEW to \in Stages,
             e.req = r, Does(r, from, e, to), to # "new",
             e.type = "decision" => from = "new",
             from # "done", e.success => to = "done"
      PROVE  RecordsInv'
  <2>1. InOrder' /\ stage' \in [Request -> Stages]
    BY <1>1, RequestKeepsOrder DEF RecordsInv, RecordsTypeOK
  <2>2. UNCHANGED <<settled, records>>
    BY <1>1, AcceptedGrows DEF Does, RecordsInv
  <2> QED BY <2>1, <2>2, NothingHandled
<1>2. CASE Decide(r)
  <2>1. PICK to \in {"blocked", "calling"} : Does(r, "new", Decision(r), to)
    BY <1>2 DEF Decide
  <2>2. Decision(r) \in Event /\ Decision(r).req = r /\ ~Decision(r).success
    BY RequestEvents DEF Decision
  <2> QED BY <1>1, <2>1, <2>2 DEF Stages
<1>3. CASE Call(r)
  <2>1. PICK ok \in Outcome(r, 0) :
          Does(r, "calling", Attempt(r, 0, ok), IF ok THEN "done" ELSE "falling back")
    BY <1>3 DEF Call
  <2>2. /\ Attempt(r, 0, ok) \in Event /\ Attempt(r, 0, ok).req = r
        /\ Attempt(r, 0, ok).success = ok /\ Attempt(r, 0, ok).type = "attempt"
    BY RequestEvents DEF Attempt
  <2>3. ok \in BOOLEAN
    BY RequestLogAssumption DEF RequestLogAssumption
  <2>4. CASE ok = TRUE
    BY <1>1, <2>1, <2>2, <2>4 DEF Stages
  <2>5. CASE ok = FALSE
    BY <1>1, <2>1, <2>2, <2>5 DEF Stages
  <2> QED BY <2>3, <2>4, <2>5
<1>4. CASE FallBack(r)
  <2>1. PICK ok \in Outcome(r, 1) : Does(r, "falling back", Attempt(r, 1, ok), "done")
    BY <1>4 DEF FallBack
  <2>2. /\ Attempt(r, 1, ok) \in Event /\ Attempt(r, 1, ok).req = r
        /\ Attempt(r, 1, ok).type = "attempt"
    BY RequestEvents DEF Attempt
  <2> QED BY <1>1, <2>1, <2>2 DEF Stages
<1> QED BY <1>2, <1>3, <1>4

\* Every step, and every stutter, keeps the records' invariant.
LEMMA NextRecordsInv == RecordsInv /\ [NextRecords]_all => RecordsInv'
<1> SUFFICES ASSUME RecordsInv, [NextRecords]_all PROVE RecordsInv'
  OBVIOUS
<1>1. Inv'
  BY QueueStep, NextInv DEF RecordsInv
<1>2. CASE \E r \in Request : Decide(r) \/ Call(r) \/ FallBack(r)
  BY <1>1, <1>2, RequestRecords
<1>3. CASE CallEnds /\ UNCHANGED stage
  BY <1>1, <1>3, CallEndsRecords
<1>4. CASE (QueueOnly /\ UNCHANGED stage) \/ (Cancel /\ UNCHANGED <<stage, records>>) \/ UNCHANGED all
  <2>1. UNCHANGED <<stage, settled, records>>
    BY <1>4 DEF QueueOnly, Take, BeginDrain, DrainTake, DrainEnds, Cancel, history, all, vars
  <2>2. Accepted' = Accepted
    BY <1>4, AcceptedStays DEF QueueOnly, WorkerStep, RecordsInv, all
  <2>3. InOrder' /\ stage' \in [Request -> Stages]
    BY <2>1, <2>2 DEF RecordsInv, InOrder, RecordsTypeOK, Elems
  <2> QED BY <1>1, <2>1, <2>3, NothingHandled
<1> QED BY <1>2, <1>3, <1>4 DEF NextRecords, Worker

\* The invariant of queue and records together.
THEOREM RecordsInvHolds == RecordsSpec => []RecordsInv
BY InitRecordsInv, NextRecordsInv, PTL DEF RecordsSpec

\* A row of a request with an ID of its own never shows another's outcome, and its own as
\* soon as the success has been handled.
THEOREM RowsTellTheSuccessHolds == RecordsSpec => []RowsTellTheSuccess
<1>1. RecordsInv => RowsTellTheSuccess
  BY DEF RecordsInv
<1> QED BY <1>1, RecordsInvHolds, PTL

\* Log and tracker hold the newest decisions that reached them, in their order, and the
\* tracker counts them all, whatever was dropped, evicted or lost to a panic.
THEOREM RecordsAreNewestHolds == RecordsSpec => []RecordsAreNewest
<1>1. RecordsInv => RecordsAreNewest
  BY DEF RecordsInv
<1> QED BY <1>1, RecordsInvHolds, PTL
===============================================================================
