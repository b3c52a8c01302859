--------------------------- MODULE CallPath_proofs ---------------------------
(***************************************************************************)
(* What a provider is sent, for every number of processors, retries and    *)
(* kinds of reply.  The invariant follows the processor whose turn it is:  *)
(* its copy started from the handler's request and holds its own edit at   *)
(* most, and whatever the goroutines given up on do is in other copies.    *)
(***************************************************************************)
EXTENDS CallPath, SequenceTheorems, TLAPS

Before == {"pipeline", "waiting", "adapt"}
Prompt == IF req.system THEN PromptRules ELSE <<>>

\* The handler's request is what the applied processors and the rules made of it.
OwnRequest ==
  /\ heap[0] = [edits |-> applied, prompt |-> IF pc \in Before THEN <<>> ELSE Prompt]
  /\ pc \in Before => sent = <<>>

\* The copy of the processor the handler waits for.
OwnCopy ==
  pc = "waiting" =>
    /\ idx \in Position /\ worker[idx] # "idle"
    /\ heap[idx].prompt = <<>>
    /\ worker[idx] = "running" => heap[idx].edits = applied
    /\ worker[idx] = "edited" \/ result[idx] = "ok" \/ done[idx] = "ok"
         => heap[idx].edits = applied \cup {idx}
    /\ idx \in late => ProcessorOver

\* Who has started, who has reported, and what is in the channels.
Turns ==
  \A i \in Position :
    /\ i > idx \/ (i = idx /\ pc # "waiting") => worker[i] = "idle"
    /\ worker[i] = "idle" => i \notin late
    /\ worker[i] = "reporting" <=> result[i] # "none"
    /\ worker[i] # "gone" => done[i] = "none"
    /\ i \in applied => i < idx /\ worker[i] = "gone"

\* Attempts: one that began without the client ends the loop.
Attempts ==
  /\ pc \in {"calling", "judge", "backoff", "record", "answer", "done"} /\ connected
       => sent # <<>>
  /\ orphans <= 1
  /\ connected \/ pc \in Before \cup {"attempt", "calling", "backoff"} => orphans = 0
  /\ pc = "judge" /\ orphans = 1 => err = "failed"

Inv == /\ TypeOK /\ OwnRequest /\ OwnCopy /\ Turns /\ Attempts
       /\ SentCarriesAppliedEdits /\ LateWorkIsDropped

USE ProcessorsAssumption, PromptRulesAssumption, MaxRetriesAssumption,
    RequestsAssumption DEF Position, Body

LEMMA InitInv == Init => Inv
<1> SUFFICES ASSUME Init PROVE Inv
  OBVIOUS
<1>1. TypeOK
  BY DEF Init, TypeOK, Empty, Errors, FirstStep
<1>2. OwnRequest /\ OwnCopy
  BY DEF Init, OwnRequest, OwnCopy, Empty, Before, FirstStep
<1>3. Turns
  BY DEF Init, Turns
<1>4. Attempts /\ SentCarriesAppliedEdits /\ LateWorkIsDropped
  BY DEF Init, Attempts, SentCarriesAppliedEdits, LateWorkIsDropped, Before, FirstStep
<1> QED
  BY <1>1, <1>2, <1>3, <1>4 DEF Inv

\* The pipeline's bookkeeping: a processor is passed over, started or given up on.
LEMMA PassStep == Inv /\ (SkipProcessor \/ StopWaiting \/ PipelineEnds) => Inv'
<1> SUFFICES ASSUME Inv, SkipProcessor \/ StopWaiting \/ PipelineEnds PROVE Inv'
  OBVIOUS
<1> USE DEF Inv, SkipProcessor, StopWaiting, PipelineEnds, NextProcessor, pipe, call
<1>1. TypeOK'
  <2>1. idx' \in 1..(Processors + 1)
    BY DEF TypeOK, OwnCopy
  <2> QED
    BY <2>1 DEF TypeOK
<1>2. OwnRequest' /\ OwnCopy'
  BY DEF OwnRequest, OwnCopy, Before, Prompt
<1>3. Turns'
  BY DEF Turns, TypeOK
<1>4. Attempts'
  BY DEF Attempts, Before
<1>5. SentCarriesAppliedEdits' /\ LateWorkIsDropped'
  BY DEF SentCarriesAppliedEdits, LateWorkIsDropped, OwnRequest, Before
<1> QED
  BY <1>1, <1>2, <1>3, <1>4, <1>5

LEMMA StartStep == Inv /\ StartProcessor => Inv'
<1> SUFFICES ASSUME Inv, StartProcessor PROVE Inv'
  OBVIOUS
<1> USE DEF Inv, StartProcessor, pipe, call, CopyFor
<1>1. TypeOK'
  <2>1. heap' \in [0..Processors -> Body]
    BY DEF TypeOK
  <2>2. worker' \in [Position -> {"idle", "running", "edited", "reporting", "gone"}]
    BY DEF TypeOK
  <2> QED
    BY <2>1, <2>2 DEF TypeOK
<1>2. OwnRequest' /\ OwnCopy'
  BY DEF OwnRequest, OwnCopy, Before, Prompt, Turns, TypeOK
<1>3. Turns'
  BY DEF Turns, TypeOK
<1>4. Attempts'
  BY DEF Attempts, Before
<1>5. SentCarriesAppliedEdits' /\ LateWorkIsDropped'
  BY DEF SentCarriesAppliedEdits, LateWorkIsDropped, OwnRequest, Before
<1> QED
  BY <1>1, <1>2, <1>3, <1>4, <1>5

\* A result is taken: the handler's request becomes the processor's copy only
\* when neither context is done, so the processor has not reported late.
LEMMA TakeStep == Inv /\ TakeResult => Inv'
<1> SUFFICES ASSUME Inv, TakeResult PROVE Inv'
  OBVIOUS
<1> USE DEF Inv, TakeResult, NextProcessor, pipe, call, CopyFor
<1>1. idx \in Position /\ worker[idx] = "gone" /\ idx + 1 \in 1..(Processors + 1)
  BY DEF OwnCopy, Turns, TypeOK
<1>4. CASE Usable(idx)
  <2>1. done[idx] = "ok" /\ idx \notin late
    BY <1>1, <1>4 DEF Usable, OwnCopy
  <2>2. heap[idx] = [edits |-> applied \cup {idx}, prompt |-> <<>>]
    <3>1. heap[idx] \in Body
      BY <1>1 DEF TypeOK
    <3>2. heap[idx].edits = applied \cup {idx} /\ heap[idx].prompt = <<>>
      BY <2>1 DEF OwnCopy
    <3> QED
      BY <3>1, <3>2
  <2>3. TypeOK'
    <3>1. heap' \in [0..Processors -> Body]
      BY <1>1, <1>4 DEF TypeOK
    <3> QED
      BY <1>1, <1>4, <3>1 DEF TypeOK
  <2>4. OwnRequest' /\ OwnCopy'
    <3>1. heap'[0] = heap[idx]
      BY <1>1, <1>4 DEF TypeOK
    <3> QED
      BY <1>1, <1>4, <2>2, <3>1 DEF OwnRequest, OwnCopy, Before
  <2>5. Turns'
    BY <1>1, <1>4 DEF Turns, TypeOK
  <2>6. Attempts' /\ SentCarriesAppliedEdits' /\ LateWorkIsDropped'
    BY <1>4, <2>1 DEF Attempts, Before, SentCarriesAppliedEdits, OwnRequest, LateWorkIsDropped
  <2> QED
    BY <2>3, <2>4, <2>5, <2>6
<1>5. CASE ~Usable(idx)
  <2>1. TypeOK'
    BY <1>1, <1>5 DEF TypeOK
  <2>2. OwnRequest' /\ OwnCopy'
    BY <1>5 DEF OwnRequest, OwnCopy, Before, Prompt
  <2>3. Turns'
    BY <1>1, <1>5 DEF Turns, TypeOK
  <2>4. Attempts' /\ SentCarriesAppliedEdits' /\ LateWorkIsDropped'
    BY <1>5 DEF Attempts, Before, SentCarriesAppliedEdits, OwnRequest, LateWorkIsDropped
  <2> QED
    BY <2>1, <2>2, <2>3, <2>4
<1> QED
  BY <1>4, <1>5

\* A goroutine, waited for or not, moves: it touches its own copy and channel.
LEMMA WorkerStep == ASSUME Inv, NEW i \in Position, Worker(i) PROVE Inv'
<1> USE DEF Inv, CopyFor
<1>1. CASE Edit(i)
  <2> USE <1>1 DEF Edit, call
  <2>1. TypeOK'
    BY DEF TypeOK
  <2>2. OwnRequest' /\ OwnCopy'
    <3>1. OwnRequest'
      BY DEF OwnRequest, Before, Prompt, TypeOK
    <3>2. OwnCopy'
      <4>1. ProcessorOver' = ProcessorOver
        BY DEF ProcessorOver, PipelineOver
      <4>2. CASE i = idx
        BY <4>1, <4>2 DEF OwnCopy, TypeOK, Turns
      <4>3. CASE i # idx
        BY <4>1, <4>3 DEF OwnCopy, TypeOK
      <4> QED
        BY <4>2, <4>3
    <3> QED
      BY <3>1, <3>2
  <2>3. Turns'
    BY DEF Turns, TypeOK
  <2>4. Attempts' /\ SentCarriesAppliedEdits' /\ LateWorkIsDropped'
    BY DEF Attempts, SentCarriesAppliedEdits, LateWorkIsDropped
  <2> QED
    BY <2>1, <2>2, <2>3, <2>4
<1>2. ASSUME NEW how \in {"ok", "declined", "failed"}, Ends(i, how) PROVE Inv'
  <2> USE <1>2 DEF Ends, call
  <2>1. TypeOK'
    BY DEF TypeOK
  <2>2. OwnRequest' /\ OwnCopy'
    <3>1. OwnRequest'
      BY DEF OwnRequest, Before, Prompt, TypeOK
    <3>2. OwnCopy'
      <4>1. ProcessorOver' = ProcessorOver
        BY DEF ProcessorOver, PipelineOver
      <4>2. CASE i = idx
        BY <4>1, <4>2 DEF OwnCopy, TypeOK, Turns
      <4>3. CASE i # idx
        BY <4>1, <4>3 DEF OwnCopy, TypeOK
      <4> QED
        BY <4>2, <4>3
    <3> QED
      BY <3>1, <3>2
  <2>3. Turns'
    BY DEF Turns, TypeOK
  <2>4. Attempts' /\ SentCarriesAppliedEdits' /\ LateWorkIsDropped'
    BY DEF Attempts, SentCarriesAppliedEdits, LateWorkIsDropped
  <2> QED
    BY <2>1, <2>2, <2>3, <2>4
<1>3. CASE Report(i)
  <2> USE <1>3 DEF Report, call
  <2>1. done[i] = "none" /\ result[i] \in {"ok", "declined", "failed"}
    BY DEF Turns, TypeOK
  <2>4. TypeOK'
    BY <2>1 DEF TypeOK
  <2>5. OwnRequest'
    BY DEF OwnRequest, Before, Prompt
  <2>6. OwnCopy'
    BY <2>1 DEF OwnCopy, TypeOK, ProcessorOver, PipelineOver, Turns
  <2>7. Turns'
    BY <2>1 DEF Turns, TypeOK
  <2>8. Attempts' /\ SentCarriesAppliedEdits'
    BY DEF Attempts, SentCarriesAppliedEdits
  <2>9. LateWorkIsDropped'
    BY DEF LateWorkIsDropped, Turns
  <2> QED
    BY <2>4, <2>5, <2>6, <2>7, <2>8, <2>9
<1> QED
  BY <1>1, <1>2, <1>3 DEF Worker

\* Timers and the client leave the request alone.
LEMMA TimeStep == Inv /\ (TotalExpires \/ HardExpires \/ ClientLeaves) => Inv'
<1> SUFFICES ASSUME Inv, TotalExpires \/ HardExpires \/ ClientLeaves PROVE Inv'
  OBVIOUS
<1> USE DEF Inv, TotalExpires, HardExpires, ClientLeaves, pipe, call
<1>1. TypeOK'
  BY DEF TypeOK
<1>2. OwnRequest' /\ OwnCopy'
  BY DEF OwnRequest, OwnCopy, Before, Prompt, ProcessorOver, PipelineOver, TypeOK
<1>3. Turns'
  BY DEF Turns
<1>4. Attempts' /\ SentCarriesAppliedEdits' /\ LateWorkIsDropped'
  BY DEF Attempts, SentCarriesAppliedEdits, LateWorkIsDropped, TypeOK
<1> QED
  BY <1>1, <1>2, <1>3, <1>4

\* The prompt rules are applied to the handler's request, before the first call.
LEMMA AdaptStep == Inv /\ AdaptRequest => Inv'
<1> SUFFICES ASSUME Inv, AdaptRequest PROVE Inv'
  OBVIOUS
<1> USE DEF Inv, AdaptRequest, call
<1>1. <<>> \o PromptRules = PromptRules
  OBVIOUS
<1>2. heap[0] = [edits |-> applied, prompt |-> <<>>]
  BY DEF OwnRequest, Before
<1>3. AdaptPrompt(heap[0]) = [edits |-> applied, prompt |-> Prompt]
  BY <1>1, <1>2 DEF AdaptPrompt, Prompt
<1>4. TypeOK'
  BY <1>3 DEF TypeOK, Prompt
<1>5. OwnRequest' /\ OwnCopy'
  BY <1>3 DEF OwnRequest, OwnCopy, Before, TypeOK, Prompt
<1>6. Turns'
  BY DEF Turns
<1>7. Attempts' /\ SentCarriesAppliedEdits' /\ LateWorkIsDropped'
  BY DEF Attempts, Before, SentCarriesAppliedEdits, LateWorkIsDropped
<1> QED
  BY <1>4, <1>5, <1>6, <1>7

\* What a step of the call leaves alone keeps the pipeline's half of the invariant.
LEMMA PipelineKept ==
  ASSUME Inv, UNCHANGED <<req, pipe, connected>>, pc \notin Before, pc' \notin Before
  PROVE  OwnRequest' /\ OwnCopy' /\ Turns' /\ LateWorkIsDropped'
<1> USE DEF Inv, pipe
<1>1. OwnRequest' /\ OwnCopy'
  BY DEF OwnRequest, OwnCopy, Before, Prompt
<1>2. Turns' /\ LateWorkIsDropped'
  BY DEF Turns, LateWorkIsDropped, Before
<1> QED
  BY <1>1, <1>2

LEMMA AttemptStep == Inv /\ Attempt => Inv'
<1> SUFFICES ASSUME Inv, Attempt PROVE Inv'
  OBVIOUS
<1> USE DEF Inv, Attempt, RequestOver
<1>1. OwnRequest' /\ OwnCopy' /\ Turns' /\ LateWorkIsDropped'
  BY PipelineKept DEF Before
<1>2. TypeOK'
  <2>1. sent' \in Seq(Body)
    <3>1. sent \in Seq(Body) /\ heap[0] \in Body
      BY DEF TypeOK
    <3>2. Append(sent, heap[0]) \in Seq(Body)
      BY <3>1, AppendProperties
    <3> QED
      BY <3>1, <3>2
  <2>2. pc' \in {"judge", "calling"} /\ err' \in Errors /\ orphans' \in Nat
    BY DEF TypeOK, Errors
  <2> QED
    BY <2>1, <2>2 DEF TypeOK, pipe
<1>3. Attempts' /\ SentCarriesAppliedEdits'
  <2>1. CASE ~connected
    BY <2>1 DEF Attempts, SentCarriesAppliedEdits, Before, pipe
  <2>2. CASE connected
    <3>1. heap[0] = [edits |-> applied, prompt |-> IF req.system THEN PromptRules ELSE <<>>]
      BY DEF OwnRequest, Before, Prompt
    <3>2. sent' = Append(sent, heap[0]) /\ pc' = "calling" /\ orphans' = orphans
      BY <2>2
    <3>3. \A n \in DOMAIN sent' : sent'[n] =
            [edits |-> applied, prompt |-> IF req.system THEN PromptRules ELSE <<>>]
      BY <3>1, <3>2 DEF SentCarriesAppliedEdits
    <3> QED
      BY <2>2, <3>2, <3>3 DEF Attempts, SentCarriesAppliedEdits, Before, pipe
  <2> QED
    BY <2>1, <2>2
<1> QED
  BY <1>1, <1>2, <1>3

\* The call ends, in whichever way.
LEMMA CallEndsStep == ASSUME Inv, NEW e \in Errors, CallEnds(e) PROVE Inv'
<1> USE DEF Inv, CallEnds, call
<1>1. OwnRequest' /\ OwnCopy' /\ Turns' /\ LateWorkIsDropped'
  BY PipelineKept DEF Before
<1>2. TypeOK'
  BY DEF TypeOK, pipe
<1>3. Attempts' /\ SentCarriesAppliedEdits'
  BY DEF Attempts, Before, SentCarriesAppliedEdits, pipe
<1> QED
  BY <1>1, <1>2, <1>3

\* The outcome is judged; a retry waits; the last outcome is recorded and answered.
LEMMA OutcomeStep ==
  Inv /\ (Judge \/ BackoffOver \/ BackoffCancelled \/ RecordAttempt \/ Answer) => Inv'
<1> SUFFICES ASSUME Inv,
                    Judge \/ BackoffOver \/ BackoffCancelled \/ RecordAttempt \/ Answer
             PROVE  Inv'
  OBVIOUS
<1> USE DEF Inv, Judge, BackoffOver, BackoffCancelled, RecordAttempt, Answer, call
<1>1. OwnRequest' /\ OwnCopy' /\ Turns' /\ LateWorkIsDropped'
  BY PipelineKept DEF Before
<1>2. TypeOK'
  <2>1. attempt' \in 0..MaxRetries
    BY DEF TypeOK
  <2>2. err' \in Errors
    BY DEF TypeOK, Errors
  <2> QED
    BY <2>1, <2>2 DEF TypeOK, pipe
<1>3. Attempts'
  BY DEF Attempts, Before, Again, Retriable, RequestOver, TypeOK
<1>4. SentCarriesAppliedEdits'
  BY DEF SentCarriesAppliedEdits, pipe
<1> QED
  BY <1>1, <1>2, <1>3, <1>4

\* The invariant is inductive.
LEMMA NextInv == Inv /\ [Next]_vars => Inv'
<1> SUFFICES ASSUME Inv, [Next]_vars PROVE Inv'
  OBVIOUS
<1>1. CASE HandlerStep
  <2>1. CallCancelled => Inv'
    BY CallEndsStep DEF CallCancelled, Errors
  <2> QED
    BY <1>1, <2>1, PassStep, StartStep, TakeStep, AdaptStep, AttemptStep, OutcomeStep
       DEF HandlerStep
<1>2. CASE Timer \/ ClientLeaves
  <2>1. AttemptDeadline => Inv'
    BY CallEndsStep DEF AttemptDeadline, Errors
  <2> QED
    BY <1>2, <2>1, TimeStep DEF Timer
<1>3. ASSUME NEW i \in Position, Worker(i) PROVE Inv'
  BY <1>3, WorkerStep
<1>4. ASSUME NEW r \in Replies, ProviderReplies(r) PROVE Inv'
  <2>1. ReplyError(r) \in Errors
    BY DEF ReplyError, Errors
  <2> QED
    BY <1>4, <2>1, CallEndsStep DEF ProviderReplies
<1>5. CASE ProviderUnreachable
  BY <1>5, CallEndsStep DEF ProviderUnreachable, Errors
<1>6. CASE UNCHANGED vars
  <2> USE <1>6 DEF Inv, vars, pipe, call
  <2>1. TypeOK' /\ OwnRequest' /\ OwnCopy'
    BY DEF TypeOK, OwnRequest, OwnCopy, Prompt, ProcessorOver, PipelineOver
  <2>2. Turns' /\ Attempts' /\ SentCarriesAppliedEdits' /\ LateWorkIsDropped'
    BY DEF Turns, Attempts, SentCarriesAppliedEdits, LateWorkIsDropped
  <2> QED
    BY <2>1, <2>2
<1> QED
  BY <1>1, <1>2, <1>3, <1>4, <1>5, <1>6 DEF Next

\* Every reachable state of a request satisfies the invariant.
LEMMA Invariance == Spec => []Inv
BY InitInv, NextInv, PTL DEF Spec

\* The types of the variables hold in every reachable state.
THEOREM TypeCorrect == Spec => []TypeOK
<1>1. Inv => TypeOK
  BY DEF Inv
<1> QED
  BY <1>1, Invariance, PTL

\* Whatever processors do and however often the call is retried, the provider
\* is sent the edits of the applied processors and no others.
THEOREM SentIsWhatWasApplied == Spec => []SentCarriesAppliedEdits
<1>1. Inv => SentCarriesAppliedEdits
  BY DEF Inv
<1> QED
  BY <1>1, Invariance, PTL

\* Nothing reported after its time is applied, for any number of processors.
THEOREM LateIsDropped == Spec => []LateWorkIsDropped
<1>1. Inv => LateWorkIsDropped
  BY DEF Inv
<1> QED
  BY <1>1, Invariance, PTL

\* A request whose client stays reaches the provider, whatever its pipeline did.
THEOREM FailsOpen == Spec => []PipelineFailsOpen
<1>1. Inv => PipelineFailsOpen
  BY DEF Inv, Attempts, PipelineFailsOpen
<1> QED
  BY <1>1, Invariance, PTL

\* With any number of retries, at most one attempt begins without a client.
THEOREM OneOrphan == Spec => []OneOrphanAttempt
<1>1. Inv => OneOrphanAttempt
  BY DEF Inv, Attempts, OneOrphanAttempt
<1> QED
  BY <1>1, Invariance, PTL
=============================================================================
