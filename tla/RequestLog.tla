------------------------------- MODULE RequestLog -------------------------------
(***************************************************************************)
(* Who writes to the event queue and who reads from it: requests enqueue a  *)
(* decision and then their attempts, and the queue's worker hands each      *)
(* event to the handlers of cmd/router in turn (eventlog/multi.go), the     *)
(* last two of which keep bounded memories, the comparison tracker and the  *)
(* request log.  The queue is EventQueue, step for step.                    *)
(*                                                                         *)
(* A handler of a Poison event may panic anywhere, which ends its turn and  *)
(* that of the handlers after it.                                           *)
(***************************************************************************)
EXTENDS EventQueue, SequencesExt

CONSTANTS
  Request,
  Id(_),            \* the request ID, which a client may choose and choose twice
  Compared,         \* the requests with a shadow comparison
  Outcome(_, _),    \* whether the attempts of a request may succeed: a set of BOOLEANs
  Limit             \* rows kept by the request log, and records by the tracker

VARIABLES
  stage,            \* request -> what it has done so far
  rows,             \* RequestLogTracker.records, oldest first
  total,            \* ComparisonSummary.Total
  recent,           \* ComparisonTracker.recent, newest first
  unseen            \* history: <<handler, event>> that a panic kept from the handler

records == <<rows, total, recent, unseen>>
all == <<vars, stage, records>>

Decision(r) == [type |-> "decision", req |-> r, index |-> 0, success |-> FALSE]
Attempt(r, i, ok) == [type |-> "attempt", req |-> r, index |-> i, success |-> ok]
AllEvents ==
  {Decision(r) : r \in Request} \cup
  UNION {{Attempt(r, i, ok) : ok \in Outcome(r, i)} : r \in Request, i \in {0, 1}}

ASSUME RequestLogAssumption ==
  /\ \A r \in Request, i \in {0, 1} : Outcome(r, i) \subseteq BOOLEAN
  /\ Event = AllEvents
  /\ Limit \in Nat \ {0}

InitRecords ==
  /\ Init
  /\ stage = [r \in Request |-> "new"]
  /\ rows = <<>> /\ total = 0 /\ recent = <<>> /\ unseen = {}

--------------------------------------------------------------------------------
(* The request path. *)

Does(r, from, event, to) ==
  /\ stage[r] = from
  /\ Enqueue(event)
  /\ stage' = [stage EXCEPT ![r] = to]
  /\ UNCHANGED records

\* enqueueDecision: before the provider is called, and also when the request is blocked.
Decide(r) == \E to \in {"blocked", "calling"} : Does(r, "new", Decision(r), to)

\* recordAttempt of the primary model, and of the fallback after a failure.
Call(r) == \E ok \in Outcome(r, 0) :
  Does(r, "calling", Attempt(r, 0, ok), IF ok THEN "done" ELSE "falling back")
FallBack(r) == \E ok \in Outcome(r, 1) :
  Does(r, "falling back", Attempt(r, 1, ok), "done")

--------------------------------------------------------------------------------
(* The handlers. *)

Newest(n, s) == IF Len(s) > n THEN SubSeq(s, Len(s) - n + 1, Len(s)) ELSE s
First(n, s) == IF Len(s) > n THEN SubSeq(s, 1, n) ELSE s

\* The model a row names: the decision's, until an attempt that succeeded replaces it.
Row(e) == [req |-> e.req, model |-> 0, filled |-> FALSE]

\* addDecision
AddRow(e) == Newest(Limit, Append(rows, Row(e)))

\* Variant of FillRow: the attempt is taken to be the newest row's.
FillNewest(e) ==
  IF rows = <<>> THEN rows
  ELSE [rows EXCEPT ![Len(rows)].model = e.index, ![Len(rows)].filled = TRUE]

\* fillAttempt: the newest row of that request ID, if it is still there.
FillRow(e) ==
  LET i == SelectLastInSeq(rows, LAMBDA row : Id(row.req) = Id(e.req)) IN
    IF i = 0 THEN rows ELSE [rows EXCEPT ![i].model = e.index, ![i].filled = TRUE]

\* RequestLogTracker.Handle
Log(e) ==
  rows' = CASE e.type = "decision" -> AddRow(e)
            [] e.type = "attempt" /\ e.success -> FillRow(e)
            [] OTHER -> rows

\* Variant of Kept: the oldest records stay.
KeptOldest(record, old) == IF Len(old) < Limit THEN <<record>> \o old ELSE old

Kept(record, old) == First(Limit, <<record>> \o old)

\* ComparisonTracker.Handle, with recordDecision.
Compare(e) ==
  IF e.type = "decision" /\ e.req \in Compared
  THEN total' = total + 1 /\ recent' = Kept(e.req, recent)
  ELSE UNCHANGED <<total, recent>>

\* multiHandler.Handle: all handlers in order, or those before the one that panics; the
\* loggers and ledgers before these two have no memory here.
FanOut(e) ==
  \/ e \notin Poison /\ Compare(e) /\ Log(e) /\ UNCHANGED unseen
  \/ /\ e \in Poison
     /\ \/ UNCHANGED <<total, recent, rows>> /\ unseen' = unseen \cup {<<"tracker", e>>, <<"log", e>>}
        \/ Compare(e) /\ UNCHANGED rows /\ unseen' = unseen \cup {<<"log", e>>}

--------------------------------------------------------------------------------
(* The worker: the steps that end a handler call are the ones with an effect. *)

QueueOnly == (Take \/ BeginDrain \/ DrainTake \/ DrainEnds) /\ UNCHANGED records
CallEnds == (HandlerEnds \/ DrainHandlerEnds \/ DrainPanics) /\ FanOut(hand[1])

Worker == (QueueOnly \/ CallEnds) /\ UNCHANGED stage

NextRecords ==
  \/ \E r \in Request : Decide(r) \/ Call(r) \/ FallBack(r)
  \/ Worker
  \/ Cancel /\ UNCHANGED <<stage, records>>

\* The fairness of EventQueue: the scheduler keeps running the worker.
RecordsSpec == InitRecords /\ [][NextRecords]_all /\ WF_all(Worker)

--------------------------------------------------------------------------------
(* Properties. *)

Reached(handler, e) == e \in Elems(settled) /\ <<handler, e>> \notin unseen
Succeeded(r, i) == Reached("log", Attempt(r, i, TRUE))

\* A row of a request with an ID of its own names the model that answered it as soon as
\* that attempt has been handled, and no other before: whatever was dropped from the
\* queue, evicted from the log or lost to a panic, it never shows another's outcome.
Alone(r) == \A q \in Request : Id(q) = Id(r) => q = r
RowsTellTheSuccess == \A k \in DOMAIN rows : LET r == rows[k].req IN Alone(r) =>
  /\ \A i \in {0, 1} : Succeeded(r, i) => rows[k].filled /\ rows[k].model = i
  /\ rows[k].filled => \E i \in {0, 1} : Succeeded(r, i)

\* The positions in settled of the decisions that reached a handler.
DecisionsAt(handler) ==
  {p \in DOMAIN settled : settled[p].type = "decision" /\ <<handler, settled[p]>> \notin unseen}
Newer(p, S) == Cardinality({q \in S : q > p})
AtMost(n, m) == IF m > n THEN n ELSE m

\* The two memories hold the newest of what reached them, in its order, and the tracker's
\* total counts all of it, however much has fallen out of the memory.
RecordsAreNewest ==
  LET logged   == DecisionsAt("log")
      compared == {p \in DecisionsAt("tracker") : settled[p].req \in Compared}
  IN  /\ Len(rows) = AtMost(Limit, Cardinality(logged))
      /\ \A p \in logged : Newer(p, logged) < Limit =>
           rows[Len(rows) - Newer(p, logged)].req = settled[p].req
      /\ total = Cardinality(compared)
      /\ Len(recent) = AtMost(Limit, total)
      /\ \A p \in compared : Newer(p, compared) < Limit =>
           recent[Newer(p, compared) + 1] = settled[p].req

--------------------------------------------------------------------------------
(* The inductive invariant of the records. *)

Stages == {"new", "blocked", "calling", "falling back", "done"}
Rows == [req : Request, model : {0, 1}, filled : BOOLEAN]

RecordsTypeOK ==
  /\ stage \in [Request -> Stages]
  /\ rows \in Seq(Rows)
  /\ total \in Nat
  /\ recent \in Seq(Request)

\* What reaches the queue: a request's decision before all else, and one success at most.
InOrder ==
  /\ \A p, q \in DOMAIN Accepted :
       p < q /\ Accepted[p].req = Accepted[q].req => Accepted[q].type # "decision"
  /\ \A e \in Elems(Accepted) : stage[e.req] # "new" /\ (e.success => stage[e.req] = "done")
  /\ \A d, e \in Elems(Accepted) : d.success /\ e.success /\ d.req = e.req => d = e

\* A panic hides only the event being handled; from the log every poisoned one.
UnseenIsSettled ==
  /\ \A u \in unseen : u[2] \in Elems(settled)
  /\ \A e \in Elems(settled) : <<"log", e>> \in unseen <=> e \in Poison

\* Rows are of distinct requests, each of a decision that was handled.
OneRowEach ==
  /\ \A k \in DOMAIN rows : Decision(rows[k].req) \in Elems(settled)
  /\ \A k, l \in DOMAIN rows : rows[k].req = rows[l].req => k = l

RecordsInv ==
  /\ Inv /\ RecordsTypeOK /\ InOrder /\ UnseenIsSettled /\ OneRowEach
  /\ RowsTellTheSuccess /\ RecordsAreNewest
===============================================================================
