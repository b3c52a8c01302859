---------------------------- MODULE StreamFallback ----------------------------
(***************************************************************************)
(* streamWithFallback (internal/server/chat.go) running against the reader *)
(* goroutine that OpenAIAdapter.Stream (internal/provider/openai.go) starts *)
(* for every candidate it opens.                                           *)
(*                                                                         *)
(* Handler and reader meet on an unbuffered channel: a chunk changes hands  *)
(* in one step, when the handler receives it.  A reader whose context is    *)
(* done may instead abandon its chunk and close the channel; Go's select    *)
(* picks either when both are ready.  Closing the channel is the last thing *)
(* a reader does, so "channel closed" is reader[c] = "exited".              *)
(***************************************************************************)
EXTENDS Naturals

CONSTANTS
  N,                \* number of candidates buildStreamCandidates returned
  MaxData,          \* bound: data frames one provider sends in one stream
  Timed             \* candidates whose adapter has a Timeout > 0 (60 s in cmd/router)

ASSUME StreamAssumption ==
  /\ N \in Nat \ {0}
  /\ MaxData \in Nat
  /\ Timed \subseteq 1..N

Cand == 1..N

VARIABLES
  connected,        \* r.Context() is not done because the client left
  pc,               \* "open" | "await" | "drain" | "returned"
  cur,              \* loop variable i + 1; N + 1 when candidates are exhausted
  ctx,              \* [Cand -> state of the attempt context]
  reader,           \* [Cand -> state of the adapter goroutine]
  pend,             \* [Cand -> chunk the goroutine is about to send]
  produced,         \* [Cand -> data frames read from the provider]
  written,          \* [Cand -> data frames of the candidate sent to the client]
  success,          \* [Cand -> number of recordStream(..., nil) calls]
  failure,          \* [Cand -> number of recordStream(..., err) calls]
  resp              \* what has been written to the http.ResponseWriter

vars == <<connected, pc, cur, ctx, reader, pend, produced, written,
          success, failure, resp>>
handlerVars == <<pc, cur, written, success, failure, resp>>
readerVars == <<reader, pend, produced>>

Chunks == {"data", "done", "err"}

TypeOK ==
  /\ connected \in BOOLEAN
  /\ pc \in {"open", "await", "drain", "returned"}
  /\ cur \in 1..(N + 1)
  /\ ctx \in [Cand -> {"unused", "live", "expired", "cancelled"}]
  /\ reader \in [Cand -> {"idle", "reading", "sending", "exited"}]
  /\ pend \in [Cand -> Chunks \cup {"none"}]
  /\ produced \in [Cand -> Nat]
  /\ written \in [Cand -> Nat]
  /\ success \in [Cand -> Nat]
  /\ failure \in [Cand -> Nat]
  /\ resp \in {"none", "streaming", "complete", "sse_error", "json_error"}

Init ==
  /\ connected = TRUE
  /\ pc = "open"
  /\ cur = 1
  /\ ctx = [c \in Cand |-> "unused"]
  /\ reader = [c \in Cand |-> "idle"]
  /\ pend = [c \in Cand |-> "none"]
  /\ produced = [c \in Cand |-> 0]
  /\ written = [c \in Cand |-> 0]
  /\ success = [c \in Cand |-> 0]
  /\ failure = [c \in Cand |-> 0]
  /\ resp = "none"

\* The context the reader of c selects on: derived from the attempt context,
\* which is derived from the request context, which net/http cancels when the
\* client leaves and when the handler returns.
CtxDone(c) ==
  \/ ctx[c] \in {"expired", "cancelled"}
  \/ ~connected
  \/ pc = "returned"

-------------------------------------------------------------------------------
(* The provider side: one reader goroutine per opened candidate. *)

\* A data frame.  Frames already buffered can still be read once the context is
\* done, so CtxDone is no guard.
ReadData(c) ==
  /\ reader[c] = "reading"
  /\ produced[c] < MaxData
  /\ produced' = [produced EXCEPT ![c] = @ + 1]
  /\ pend' = [pend EXCEPT ![c] = "data"]
  /\ reader' = [reader EXCEPT ![c] = "sending"]
  /\ UNCHANGED <<connected, ctx, handlerVars>>

\* The provider's [DONE] frame.
ReadDone(c) ==
  /\ reader[c] = "reading"
  /\ pend' = [pend EXCEPT ![c] = "done"]
  /\ reader' = [reader EXCEPT ![c] = "sending"]
  /\ UNCHANGED <<connected, ctx, produced, handlerVars>>

\* EOF without [DONE], a broken connection, or the read of a body whose context
\* is done: the reader tries to send ErrStreamInterrupted.
ReadFails(c) ==
  /\ reader[c] = "reading"
  /\ pend' = [pend EXCEPT ![c] = "err"]
  /\ reader' = [reader EXCEPT ![c] = "sending"]
  /\ UNCHANGED <<connected, ctx, produced, handlerVars>>

\* Variant of Abandon: the result of sendStreamChunk is ignored and reading goes on.
AbandonAndReadOn(c) ==
  /\ reader[c] = "sending"
  /\ CtxDone(c)
  /\ pend' = [pend EXCEPT ![c] = "none"]
  /\ reader' = [reader EXCEPT ![c] = "reading"]
  /\ UNCHANGED <<connected, ctx, produced, handlerVars>>

\* sendStreamChunk picks ctx.Done(): the chunk is lost and the channel closes.
Abandon(c) ==
  /\ reader[c] = "sending"
  /\ CtxDone(c)
  /\ pend' = [pend EXCEPT ![c] = "none"]
  /\ reader' = [reader EXCEPT ![c] = "exited"]
  /\ UNCHANGED <<connected, ctx, produced, handlerVars>>

\* Variant of Deadline: the timeout covers the connection and not the body.
DeadlineOnConnectOnly(c) ==
  /\ c \in Timed
  /\ ctx[c] = "live"
  /\ reader[c] = "idle"
  /\ ctx' = [ctx EXCEPT ![c] = "expired"]
  /\ UNCHANGED <<connected, readerVars, handlerVars>>

\* The adapter's own context.WithTimeout runs out.
Deadline(c) ==
  /\ c \in Timed
  /\ ctx[c] = "live"
  /\ reader[c] \in {"reading", "sending"}
  /\ ctx' = [ctx EXCEPT ![c] = "expired"]
  /\ UNCHANGED <<connected, readerVars, handlerVars>>

Disconnect ==
  /\ connected
  /\ pc # "returned"
  /\ connected' = FALSE
  /\ UNCHANGED <<ctx, readerVars, handlerVars>>

-------------------------------------------------------------------------------
(* The handler. *)

\* The handler holds the chunk of the current candidate: its reader goes back to
\* the body after data, and closes the channel after [DONE] or an error.
Receive(chunk) ==
  /\ reader[cur] = "sending"
  /\ pend[cur] = chunk
  /\ pend' = [pend EXCEPT ![cur] = "none"]
  /\ reader' = [reader EXCEPT ![cur] =
                  IF chunk = "data" THEN "reading" ELSE "exited"]
  /\ UNCHANGED produced

Cancel(c) == ctx' = [ctx EXCEPT ![c] = "cancelled"]
RecordSuccess(c) == success' = [success EXCEPT ![c] = @ + 1] /\ UNCHANGED failure
RecordFailure(c) == failure' = [failure EXCEPT ![c] = @ + 1] /\ UNCHANGED success
Forward(c) == written' = [written EXCEPT ![c] = @ + 1]

\* `continue`: on to the next candidate of the loop.
TryNext == pc' = "open" /\ cur' = cur + 1
Return == pc' = "returned" /\ UNCHANGED cur

\* adapter.Stream returns an error: connection refused, HTTP status >= 400, or a
\* request context that is already done.
OpenFails ==
  /\ pc = "open" /\ cur \in Cand
  /\ Cancel(cur)
  /\ RecordFailure(cur)
  /\ TryNext
  /\ UNCHANGED <<connected, readerVars, written, resp>>

\* adapter.Stream returns a channel; http.Client.Do refuses a done context.
OpenOK ==
  /\ pc = "open" /\ cur \in Cand
  /\ connected
  /\ ctx' = [ctx EXCEPT ![cur] = "live"]
  /\ reader' = [reader EXCEPT ![cur] = "reading"]
  /\ pc' = "await"
  /\ UNCHANGED <<connected, cur, pend, produced, written, success, failure, resp>>

\* No candidate is left.
Exhausted ==
  /\ pc = "open" /\ cur = N + 1
  /\ resp' = "json_error"
  /\ Return
  /\ UNCHANGED <<connected, ctx, readerVars, written, success, failure>>

FirstData ==
  /\ pc = "await"
  /\ Receive("data")
  /\ Forward(cur)
  /\ resp' = "streaming"
  /\ pc' = "drain"
  /\ UNCHANGED <<connected, cur, ctx, success, failure>>

FirstDone ==
  /\ pc = "await"
  /\ Receive("done")
  /\ resp' = "complete"
  /\ RecordSuccess(cur)
  /\ Cancel(cur)
  /\ Return
  /\ UNCHANGED <<connected, written>>

\* The first chunk is an error: the next candidate, or the error to the client
\* when this was the last one.
FirstErr ==
  /\ pc = "await"
  /\ Receive("err")
  /\ Cancel(cur)
  /\ RecordFailure(cur)
  /\ IF cur < N
     THEN TryNext /\ UNCHANGED resp
     ELSE Return /\ resp' = "json_error"
  /\ UNCHANGED <<connected, written>>

\* The channel closed before a chunk, or firstTokenTimeout elapsed.
FirstClosed ==
  /\ pc = "await"
  /\ reader[cur] = "exited"
  /\ Cancel(cur)
  /\ RecordFailure(cur)
  /\ TryNext
  /\ UNCHANGED <<connected, readerVars, written, resp>>

\* Variants of FirstTimeout: the attempt is not recorded, or not cancelled.
FirstTimeoutUnrecorded ==
  /\ pc = "await"
  /\ Cancel(cur)
  /\ TryNext
  /\ UNCHANGED <<connected, readerVars, written, success, failure, resp>>

FirstTimeoutUncancelled ==
  /\ pc = "await"
  /\ RecordFailure(cur)
  /\ TryNext
  /\ UNCHANGED <<connected, ctx, readerVars, written, resp>>

FirstTimeout ==
  /\ pc = "await"
  /\ Cancel(cur)
  /\ RecordFailure(cur)
  /\ TryNext
  /\ UNCHANGED <<connected, readerVars, written, resp>>

\* <-r.Context().Done(): nothing is recorded and nothing is written.
ClientLeft ==
  /\ pc = "await"
  /\ ~connected
  /\ Cancel(cur)
  /\ Return
  /\ UNCHANGED <<connected, readerVars, written, success, failure, resp>>

NextData ==
  /\ pc = "drain"
  /\ Receive("data")
  /\ Forward(cur)
  /\ UNCHANGED <<connected, pc, cur, ctx, success, failure, resp>>

\* Variant of NextErr: the stream is retried on the next candidate.
NextErrRetries ==
  /\ pc = "drain"
  /\ Receive("err")
  /\ RecordFailure(cur)
  /\ Cancel(cur)
  /\ TryNext
  /\ UNCHANGED <<connected, written, resp>>

NextErr ==
  /\ pc = "drain"
  /\ Receive("err")
  /\ resp' = "sse_error"
  /\ RecordFailure(cur)
  /\ Cancel(cur)
  /\ Return
  /\ UNCHANGED <<connected, written>>

NextDone ==
  /\ pc = "drain"
  /\ Receive("done")
  /\ resp' = "complete"
  /\ RecordSuccess(cur)
  /\ Cancel(cur)
  /\ Return
  /\ UNCHANGED <<connected, written>>

\* The channel closes with neither [DONE] nor an error received: the loop over
\* the channel ends and the attempt is recorded as a success.
NextClosed ==
  /\ pc = "drain"
  /\ reader[cur] = "exited"
  /\ RecordSuccess(cur)
  /\ Cancel(cur)
  /\ Return
  /\ UNCHANGED <<connected, readerVars, written, resp>>

HandlerStep ==
  \/ OpenFails \/ OpenOK \/ Exhausted
  \/ FirstData \/ FirstDone \/ FirstErr \/ FirstClosed \/ FirstTimeout \/ ClientLeft
  \/ NextData \/ NextErr \/ NextDone \/ NextClosed

ReaderStep(c) == ReadData(c) \/ ReadDone(c) \/ ReadFails(c) \/ Abandon(c) \/ Deadline(c)

\* The handler has returned and every reader has exited: nothing is left to run.
Terminated ==
  /\ pc = "returned"
  /\ \A c \in Cand : reader[c] \in {"idle", "exited"}
  /\ UNCHANGED vars

Next ==
  \/ HandlerStep
  \/ \E c \in Cand : ReaderStep(c)
  \/ Disconnect
  \/ Terminated

\* The Go scheduler runs a runnable goroutine, timers fire, and the read of a
\* body whose context is done returns.  Nothing makes a provider send data, and
\* nothing makes a client leave.
Fairness ==
  /\ WF_vars(HandlerStep)
  /\ \A c \in Cand :
       /\ WF_vars(Abandon(c))
       /\ WF_vars(CtxDone(c) /\ ReadFails(c))
       /\ WF_vars(Deadline(c))

SafeSpec == Init /\ [][Next]_vars
Spec == SafeSpec /\ Fairness
-------------------------------------------------------------------------------
(* Safety. *)

Ended == {"complete", "sse_error", "json_error"}

\* The first emitted chunk is the fallback boundary: bytes of at most one
\* candidate ever reach the client, and once they have, the handler never moves
\* to another candidate (chat.go:390-444).
SingleSource ==
  \A c \in Cand : written[c] > 0 => /\ cur = c
                                     /\ pc \in {"drain", "returned"}
                                     /\ \A d \in Cand : written[d] > 0 => d = c

\* Health and spend see every attempt exactly once: no attempt gets two verdicts,
\* and when the handler returns only the attempt a client walked away from before
\* its first chunk has none (recordStream's call sites, chat.go:336-444).
VerdictPerAttempt ==
  \A c \in Cand :
    /\ success[c] + failure[c] <= 1
    /\ ctx[c] = "unused" => success[c] + failure[c] = 0
    /\ (pc = "returned" /\ ctx[c] # "unused") =>
         \/ success[c] + failure[c] = 1
         \/ c = cur /\ ~connected /\ resp = "none"

\* An abandoned candidate is cancelled before the next one starts, so no reader of
\* an earlier candidate is left holding a live context (chat.go:338-382).
AbandonedCancelled ==
  \A c \in Cand : c < cur => ctx[c] = "cancelled"

\* A reader that is still being drained closes its channel without a terminal
\* chunk only when its context is done: a stream is cut short silently only by
\* the adapter's deadline or by a client that left (openai.go:156-204).
SilentCloseNeedsDeadContext ==
  (pc = "drain" /\ reader[cur] = "exited") => CtxDone(cur)

\* Unless the adapter's deadline cuts it, a client that stays connected always reads
\* a terminal frame or an error body, never a stream that just stops.
PatientClientAnswered ==
  (pc = "returned" /\ connected /\ cur \notin Timed) => resp \in Ended

\* [DONE] reaches the client only after every data frame the provider sent did:
\* the select that may drop a chunk never drops one from the middle of a stream.
CompleteMeansAll ==
  (pc = "returned" /\ resp = "complete") => written[cur] = produced[cur]

-------------------------------------------------------------------------------
(* The inductive invariant behind the safety properties: where the attempts    *)
(* before, at and after the loop variable stand.                               *)

Untouched(c) ==
  /\ ctx[c] = "unused" /\ reader[c] = "idle" /\ pend[c] = "none"
  /\ produced[c] = 0 /\ written[c] = 0 /\ success[c] = 0 /\ failure[c] = 0

Rejected(c) ==
  ctx[c] = "cancelled" /\ written[c] = 0 /\ success[c] = 0 /\ failure[c] = 1

\* Frames read and frames forwarded agree while the reader is alive.
InStep(c) ==
  /\ reader[c] \in {"reading", "sending", "exited"}
  /\ reader[c] = "reading" => produced[c] = written[c]
  /\ reader[c] = "sending" =>
       /\ pend[c] \in Chunks
       /\ pend[c] = "data" => produced[c] = written[c] + 1
       /\ pend[c] # "data" => produced[c] = written[c]
  /\ reader[c] = "exited" => CtxDone(c)

Running(c) ==
  /\ ctx[c] \in {"live", "expired"}
  /\ ctx[c] = "expired" => c \in Timed
  /\ success[c] = 0 /\ failure[c] = 0
  /\ InStep(c)

Closed(c) ==
  /\ ctx[c] = "cancelled"
  /\ \/ success[c] = 0 /\ failure[c] = 1 /\ resp \in {"sse_error", "json_error"}
     \/ success[c] = 1 /\ failure[c] = 0 /\ resp \in {"streaming", "complete"}
     \/ success[c] = 0 /\ failure[c] = 0 /\ resp = "none" /\ ~connected

Inv ==
  /\ TypeOK
  /\ \A c \in Cand : c < cur => Rejected(c)
  /\ \A c \in Cand : c > cur => Untouched(c)
  /\ pc = "open" => resp = "none" /\ (cur \in Cand => Untouched(cur))
  /\ pc = "await" => cur \in Cand /\ resp = "none" /\ written[cur] = 0 /\ Running(cur)
  /\ pc = "drain" => cur \in Cand /\ resp = "streaming" /\ Running(cur)
  /\ pc = "returned" =>
       /\ cur \in Cand => Closed(cur)
       /\ cur = N + 1 => resp = "json_error"
       /\ resp = "complete" => /\ cur \in Cand /\ reader[cur] = "exited"
                               /\ written[cur] = produced[cur]
       /\ resp = "streaming" /\ connected => cur \in Timed

-------------------------------------------------------------------------------
(* What the client and the accounting are promised. *)

Phase == IF pc \in {"open", "await"} THEN "routing"
         ELSE IF pc = "drain" THEN "streaming" ELSE "ended"

Outcome == IF pc # "returned" THEN "open"
           ELSE IF resp = "none" THEN "unanswered"
           ELSE IF resp = "streaming" THEN "cut" ELSE resp

Contract == INSTANCE StreamContract WITH
  phase    <- Phase,
  rejected <- IF resp = "json_error" THEN N ELSE cur - 1,
  source   <- IF resp \in {"streaming", "complete", "sse_error"} THEN cur ELSE 0,
  ending   <- Outcome

\* The handler and its readers implement the contract: candidates are given up in
\* order, the first byte fixes the source, and the response ends exactly once.
ImplementsContract == Contract!Spec

-------------------------------------------------------------------------------
(* Liveness. *)

\* Every request ends, whatever the providers do and however patient the client is,
\* unless it stays with a candidate whose adapter has no deadline.
HandlerReturns == <>(pc = "returned") \/ <>[](cur \in Cand \ Timed)

\* Even while the handler is draining a later candidate that never ends, the
\* goroutine of a candidate it gave up exits.
ReadersReleased ==
  \A c \in Cand : (c < cur) ~> (reader[c] \in {"idle", "exited"})
===============================================================================
