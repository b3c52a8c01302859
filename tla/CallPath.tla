------------------------------ MODULE CallPath ------------------------------
(***************************************************************************)
(* A non-streaming request after routing: the context pipeline             *)
(* (internal/contextproc/pipeline.go), the prompt adapter, the call of the *)
(* provider with or without the RetryAdapter (internal/provider), the      *)
(* record of the attempt and the answer (internal/server/chat.go).         *)
(*                                                                         *)
(* The actors are the handler, one goroutine per processor that was        *)
(* started, the three kinds of timer (whole pipeline, one processor, one   *)
(* attempt), the provider, and the client, who may leave at any moment.    *)
(* A goroutine the handler stopped waiting for goes on running.            *)
(*                                                                         *)
(* A request's text is abstracted to the set of processors whose edits it  *)
(* carries and the sequence of prompt rules applied to it.  A processor    *)
(* is known by its position in Pipeline.Processors.  The soft timeout is   *)
(* only a hint to the processor, which may end in any way at any time.     *)
(***************************************************************************)
EXTENDS Naturals, Sequences

CONSTANTS
  Requests,     \* [routed, piped, system, wrapped]: the kinds of request
  Processors,   \* how many processors the pipeline has
  PromptRules,  \* names of the prompt rules that match and change something, in order
  MaxRetries,   \* RetryAdapter.MaxRetries
  Replies       \* what a provider may answer: [status, gone, garbled]

ASSUME RequestsAssumption ==
  Requests \subseteq [routed : BOOLEAN, piped : BOOLEAN, system : BOOLEAN, wrapped : BOOLEAN]
ASSUME ProcessorsAssumption == Processors \in Nat
ASSUME PromptRulesAssumption == PromptRules \in Seq(STRING)
ASSUME MaxRetriesAssumption == MaxRetries \in Nat
ASSUME RepliesAssumption ==
  \A r \in Replies : /\ r.status \in Nat
                     /\ r.gone \in BOOLEAN     \* the error body says "not found"
                     /\ r.garbled \in BOOLEAN  \* the body does not decode

VARIABLES
  req,       \* the request: by the routing engine or the legacy path; with the
             \* pipeline or not; with a system message; with retries or bare
  pc,        \* where the handler is
  idx,       \* the processor whose turn it is
  heap,      \* 0: the handler's request; i: the copy processor i works on
  worker,    \* where the goroutine of each processor is
  result,    \* how it ended
  done,      \* the channel each reports on: the result in it, or none
  expired,   \* timers that have fired: [total, hard]
  connected, \* the client is there
  applied,   \* PipelineResult.Applied; the others started or passed over are Skipped
  late,      \* history: processors that reported after they should have
  attempt,   \* RetryAdapter's loop counter
  sent,      \* what was handed to the HTTP client for the provider, call after call
  orphans,   \* history: attempts begun after the client had left
  err,       \* the error of the call so far, "none" on success
  health,    \* what was recorded about the provider
  answer     \* the status sent to the client, 0 before

pipe == <<idx, heap, worker, result, done, expired, applied, late>>
call == <<attempt, sent, orphans, err>>
vars == <<req, pc, pipe, connected, call, health, answer>>

Position == 1..Processors
Body == [edits : SUBSET Position, prompt : {<<>>, PromptRules}]
Errors == {"none", "timeout", "rate_limit", "auth", "5xx", "bad_request",
           "bad_response", "unavailable", "failed"}
Retriable == {"timeout", "rate_limit", "5xx"}

(* chat.go:629-646: the rules touch existing system messages only *)
AdaptPrompt(body) ==
  IF req.system THEN [body EXCEPT !.prompt = @ \o PromptRules] ELSE body

(* openai.go: a 4xx or 5xx by its body first, then by its status *)
ReplyError(r) ==
  CASE r.status < 400 /\ ~r.garbled -> "none"
    [] r.status < 400 /\ r.garbled -> "bad_response"
    [] r.status >= 400 /\ (r.gone \/ r.status = 404) -> "unavailable"
    [] r.status \in {401, 403} /\ ~r.gone -> "auth"
    [] r.status = 429 /\ ~r.gone -> "rate_limit"
    [] r.status >= 500 /\ ~r.gone -> "5xx"
    [] OTHER -> "bad_request"

(* mapProviderError; an error without a name of its own is a 502 *)
StatusOf(e) ==
  CASE e = "none" -> 200
    [] e = "timeout" -> 504
    [] e = "rate_limit" -> 429
    [] e = "bad_request" -> 400
    [] OTHER -> 502

(* maybeRunContextPipeline: the operator's switch and the policy allow it, *)
(* and there is a processor                                                *)
FirstStep(r) == IF r.piped /\ Processors > 0 THEN "pipeline" ELSE "adapt"

Empty == [edits |-> {}, prompt |-> <<>>]

Init ==
  /\ req \in Requests
  /\ pc = FirstStep(req)
  /\ idx = 1
  /\ heap = [i \in 0..Processors |-> Empty]
  /\ worker = [i \in Position |-> "idle"]
  /\ result = [i \in Position |-> "none"]
  /\ done = [i \in Position |-> "none"]
  /\ expired = [total |-> FALSE, hard |-> FALSE]
  /\ connected = TRUE
  /\ applied = {} /\ late = {}
  /\ attempt = 0 /\ sent = <<>> /\ orphans = 0 /\ err = "none"
  /\ health = <<>> /\ answer = 0

----------------------------------------------------------------------------
(* The pipeline: Run and runOne.                                           *)

(* totalCtx: the pipeline's own timer on top of the request's context *)
PipelineOver == expired.total \/ ~connected
(* Mutants: the call under the pipeline's context, the wait under the      *)
(* request's, no copy, and a channel without room.                         *)
PipelineContext == PipelineOver
RequestContext == ~connected
SharedRequest(i) == 0
Unbuffered(i) == pc = "waiting" /\ idx = i

(* hardCtx, a child of totalCtx *)
ProcessorOver == expired.hard \/ PipelineOver
(* the request's context, which the provider's call uses *)
RequestOver == ~connected

(* processorReq := req.Clone(): every processor works on a copy of its own *)
CopyFor(i) == i
(* done := make(chan processorResult, 1): a send waits for room only *)
HasRoom(i) == done[i] = "none"

NextProcessor == idx' = idx + 1 /\ pc' = "pipeline"

SkipProcessor ==
  /\ pc = "pipeline" /\ idx <= Processors /\ PipelineOver
  /\ NextProcessor
  /\ UNCHANGED <<req, heap, worker, result, done, expired, applied, late,
                 connected, call, health, answer>>

StartProcessor ==
  /\ pc = "pipeline" /\ idx <= Processors /\ ~PipelineOver
  /\ heap' = [heap EXCEPT ![CopyFor(idx)] = heap[0]]
  /\ worker' = [worker EXCEPT ![idx] = "running"]
  /\ expired' = [expired EXCEPT !.hard = FALSE]
  /\ pc' = "waiting"
  /\ UNCHANGED <<req, idx, result, done, applied, late,
                 connected, call, health, answer>>

(* the handler leaves runOne's select by a context *)
StopWaiting ==
  /\ pc = "waiting" /\ ProcessorOver
  /\ NextProcessor
  /\ UNCHANGED <<req, heap, worker, result, done, expired, applied, late,
                 connected, call, health, answer>>

(* A select with several ready cases takes any of them, so a result may be *)
(* received although a context is done: runOne asks the contexts again.    *)
UsableUnasked(i) == done[i] = "ok" \* mutant: the contexts are not asked again
Usable(i) == ~ProcessorOver /\ done[i] = "ok"

TakeResult ==
  /\ pc = "waiting" /\ done[idx] # "none"
  /\ done' = [done EXCEPT ![idx] = "none"]
  /\ IF Usable(idx)
     THEN /\ heap' = [heap EXCEPT ![0] = heap[CopyFor(idx)]]
          /\ applied' = applied \cup {idx}
     ELSE UNCHANGED <<heap, applied>>
  /\ NextProcessor
  /\ UNCHANGED <<req, worker, result, expired, late, connected, call, health, answer>>

PipelineEnds ==
  /\ pc = "pipeline" /\ idx > Processors
  /\ pc' = "adapt"
  /\ UNCHANGED <<req, pipe, connected, call, health, answer>>

----------------------------------------------------------------------------
(* The goroutine of processor i.  It edits its copy, ends well, declines,  *)
(* or fails by an error or a panic that it recovers from, and reports;     *)
(* nothing makes it end.                                                   *)

Edit(i) ==
  /\ worker[i] = "running"
  /\ heap' = [heap EXCEPT ![CopyFor(i)].edits = @ \cup {i}]
  /\ worker' = [worker EXCEPT ![i] = "edited"]
  /\ UNCHANGED <<req, pc, idx, result, done, expired, applied, late,
                 connected, call, health, answer>>

Ends(i, how) ==
  /\ worker[i] \in (IF how = "ok" THEN {"edited"} ELSE {"running", "edited"})
  /\ result' = [result EXCEPT ![i] = how]
  /\ worker' = [worker EXCEPT ![i] = "reporting"]
  /\ UNCHANGED <<req, pc, idx, heap, done, expired, applied, late,
                 connected, call, health, answer>>

Report(i) ==
  /\ worker[i] = "reporting" /\ HasRoom(i)
  /\ done' = [done EXCEPT ![i] = result[i]]
  /\ worker' = [worker EXCEPT ![i] = "gone"]
  /\ result' = [result EXCEPT ![i] = "none"]
  /\ late' = IF pc = "waiting" /\ idx = i /\ ~ProcessorOver THEN late ELSE late \cup {i}
  /\ UNCHANGED <<req, pc, idx, heap, expired, applied,
                 connected, call, health, answer>>

----------------------------------------------------------------------------
(* The call: AdaptRequest, then RetryAdapter.Complete around the adapter's *)
(* Complete, or the adapter's Complete alone.                              *)

AdaptRequest ==
  /\ pc = "adapt"
  /\ heap' = [heap EXCEPT ![0] = AdaptPrompt(@)]
  /\ pc' = "attempt"
  /\ UNCHANGED <<req, idx, worker, result, done, expired, applied, late,
                 connected, call, health, answer>>

(* A request with a context that is already done never leaves the process. *)
Attempt ==
  /\ pc = "attempt"
  /\ orphans' = IF connected THEN orphans ELSE orphans + 1
  /\ IF RequestOver
     THEN /\ err' = "failed" /\ pc' = "judge" /\ UNCHANGED sent
     ELSE /\ sent' = Append(sent, heap[0]) /\ pc' = "calling" /\ UNCHANGED err
  /\ UNCHANGED <<req, pipe, connected, attempt, health, answer>>

CallEnds(e) ==
  /\ pc = "calling"
  /\ err' = e /\ pc' = "judge"
  /\ UNCHANGED <<req, pipe, connected, attempt, sent, orphans, health, answer>>

ProviderReplies(r) == CallEnds(ReplyError(r))
ProviderUnreachable == CallEnds("failed")
AttemptDeadline == CallEnds("timeout")
CallCancelled == ~connected /\ CallEnds("failed")

(* Mutant: a cancelled call is taken for a transient failure. *)
AgainCancelled == req.wrapped /\ err \in Retriable \cup {"failed"}

(* isRetriable *)
Again == req.wrapped /\ err \in Retriable

(* A retriable error that outlasts the retries is wrapped as a timeout. *)
Judge ==
  /\ pc = "judge"
  /\ IF Again /\ attempt < MaxRetries
     THEN attempt' = attempt + 1 /\ pc' = "backoff" /\ UNCHANGED err
     ELSE /\ pc' = "record" /\ err' = IF Again THEN "timeout" ELSE err
          /\ UNCHANGED attempt
  /\ UNCHANGED <<req, pipe, connected, sent, orphans, health, answer>>

(* the timer of the backoff; when the client has left as well, the select *)
(* may take either case                                                    *)
BackoffOver ==
  /\ pc = "backoff"
  /\ pc' = "attempt"
  /\ UNCHANGED <<req, pipe, connected, call, health, answer>>

BackoffCancelled ==
  /\ pc = "backoff" /\ RequestOver
  /\ err' = "failed" /\ pc' = "record"
  /\ UNCHANGED <<req, pipe, connected, attempt, sent, orphans, health, answer>>

(* recordAttempt: the routed path only; the legacy path records nothing *)
RecordAttempt ==
  /\ pc = "record"
  /\ health' = IF req.routed THEN Append(health, err = "none") ELSE health
  /\ pc' = "answer"
  /\ UNCHANGED <<req, pipe, connected, call, answer>>

Answer ==
  /\ pc = "answer"
  /\ answer' = StatusOf(err)
  /\ pc' = "done"
  /\ UNCHANGED <<req, pipe, connected, call, health>>

----------------------------------------------------------------------------
(* The environment.                                                        *)

TotalExpires ==
  /\ pc \in {"pipeline", "waiting"} /\ ~expired.total
  /\ expired' = [expired EXCEPT !.total = TRUE]
  /\ UNCHANGED <<req, pc, idx, heap, worker, result, done, applied, late,
                 connected, call, health, answer>>

HardExpires ==
  /\ pc = "waiting" /\ ~expired.hard
  /\ expired' = [expired EXCEPT !.hard = TRUE]
  /\ UNCHANGED <<req, pc, idx, heap, worker, result, done, applied, late,
                 connected, call, health, answer>>

ClientLeaves ==
  /\ connected /\ pc # "done"
  /\ connected' = FALSE
  /\ UNCHANGED <<req, pc, pipe, call, health, answer>>

HandlerStep ==
  \/ SkipProcessor \/ StartProcessor \/ StopWaiting \/ TakeResult \/ PipelineEnds
  \/ AdaptRequest \/ Attempt \/ CallCancelled \/ Judge
  \/ BackoffOver \/ BackoffCancelled \/ RecordAttempt \/ Answer

Timer == TotalExpires \/ HardExpires \/ AttemptDeadline

Worker(i) == \/ Edit(i)
             \/ \E how \in {"ok", "declined", "failed"} : Ends(i, how)
             \/ Report(i)

Next == \/ HandlerStep
        \/ Timer
        \/ \E i \in Position : Worker(i)
        \/ \E r \in Replies : ProviderReplies(r)
        \/ ProviderUnreachable
        \/ ClientLeaves

(* The Go scheduler runs the handler and a goroutine that can send, and    *)
(* timers fire.  Processors and providers owe nothing.                     *)
Fairness == /\ WF_vars(HandlerStep)
            /\ WF_vars(TotalExpires)
            /\ WF_vars(HardExpires)
            /\ WF_vars(AttemptDeadline)
            /\ \A i \in Position : WF_vars(Report(i))

Spec == Init /\ [][Next]_vars /\ Fairness

----------------------------------------------------------------------------
(* The types of the variables.  A prompt rule is applied once, whatever    *)
(* the processors did to the request before.                               *)
TypeOK ==
  /\ req \in Requests
  /\ pc \in {"pipeline", "waiting", "adapt", "attempt", "calling", "judge",
             "backoff", "record", "answer", "done"}
  /\ idx \in 1..(Processors + 1)
  /\ heap \in [0..Processors -> Body]
  /\ worker \in [Position -> {"idle", "running", "edited", "reporting", "gone"}]
  /\ result \in [Position -> {"none", "ok", "declined", "failed"}]
  /\ done \in [Position -> {"none", "ok", "declined", "failed"}]
  /\ expired \in [total : BOOLEAN, hard : BOOLEAN]
  /\ connected \in BOOLEAN
  /\ applied \subseteq Position /\ late \subseteq Position
  /\ attempt \in 0..MaxRetries
  /\ sent \in Seq(Body)
  /\ orphans \in Nat
  /\ err \in Errors

(* Every request the provider receives, the retries included, carries the  *)
(* edits of exactly the processors the log calls applied, and the prompt   *)
(* rules once: nothing that a goroutine given up on, a processor that      *)
(* failed or one that panicked wrote is ever sent.                         *)
SentCarriesAppliedEdits ==
  \A n \in DOMAIN sent :
    sent[n] = [edits |-> applied, prompt |-> IF req.system THEN PromptRules ELSE <<>>]

(* A result that was reported after the processor's or the pipeline's time *)
(* was over is dropped, although the select may find it and the context    *)
(* ready at once and take the result.                                      *)
LateWorkIsDropped == applied \cap late = {}

(* The pipeline fails open: whatever its processors and timers did, a      *)
(* request whose client stays reaches the provider.  In particular the     *)
(* pipeline's 20 ms never bound the provider's call.                       *)
PipelineFailsOpen == pc = "done" /\ connected => sent # <<>>

(* After the client has left, at most one more attempt begins, however     *)
(* many retries are left: the backoff's select may take the timer, but an  *)
(* attempt with a dead context ends in an error that is not retried.       *)
OneOrphanAttempt == orphans <= 1

(* Every request is answered though processors and providers may hang for  *)
(* ever: hard timeouts bound the first and deadlines of attempts the       *)
(* second, and the retries are finite.                                     *)
RequestAnswered == <>(pc = "done")

(* A goroutine whose processor has ended reports and is gone even when     *)
(* nobody waits for it any more: the channel has room for its one result.  *)
NoGoroutineLeaks ==
  \A i \in Position : worker[i] = "reporting" ~> worker[i] = "gone"
=============================================================================
