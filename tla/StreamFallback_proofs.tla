------------------------- MODULE StreamFallback_proofs -------------------------
(***************************************************************************)
(* Safety of streamWithFallback for any number of candidates, any length of *)
(* stream and any set of adapters with a deadline.  Everything rests on the *)
(* inductive invariant Inv: the candidates before the loop variable are      *)
(* rejected (cancelled, one failure, no byte), those after it untouched, and *)
(* the current one is in step with its reader.                              *)
(***************************************************************************)
EXTENDS StreamFallback, TLAPS

\* The candidates are the interval 1..N, and N is positive.
LEMMA CandIsInterval == /\ N \in Nat
                        /\ 1 \in Cand
                        /\ \A c \in Cand : c \in Nat /\ c <= N /\ c >= 1
                        /\ \A c \in 1..(N + 1) : c # N + 1 => c \in Cand
                        /\ \A c \in Cand : c + 1 \in 1..(N + 1)
                        /\ N + 1 \notin Cand
BY StreamAssumption DEF StreamAssumption, Cand

\* The first state: nothing opened, nothing recorded, nothing written.
LEMMA InitInv == Init => Inv
BY CandIsInterval, StreamAssumption
   DEF Init, Inv, TypeOK, Rejected, Untouched, Running, Closed, Cand, Chunks, StreamAssumption

\* A reader step of one candidate leaves the handler's state alone; it can disturb
\* only the typing and the current candidate being in step with its reader.
LEMMA ReaderInv == ASSUME Inv, NEW c \in Cand, ReaderStep(c)
                   PROVE  Inv'
<1> USE CandIsInterval
<1>1. CASE ReadData(c)
  <2>1. TypeOK'
    BY <1>1 DEF ReadData, Inv, TypeOK, Chunks, handlerVars
  <2>2. /\ \A d \in Cand : d < cur => Rejected(d)'
        /\ \A d \in Cand : d > cur => Untouched(d)'
    BY <1>1 DEF ReadData, Inv, TypeOK, Rejected, Untouched, handlerVars
  <2>3. pc # "open" \/ c # cur
    BY <1>1 DEF ReadData, Inv, Untouched
  <2>4. pc \in {"await", "drain"} => Running(cur)'
    BY <1>1 DEF ReadData, Inv, TypeOK, Running, InStep, CtxDone, Chunks, handlerVars
  <2>5. cur \in Cand /\ pc = "returned" => Closed(cur)'
    BY <1>1 DEF ReadData, Inv, Closed, handlerVars
  <2> QED
    BY <1>1, <2>1, <2>2, <2>3, <2>4, <2>5 DEF ReadData, Inv, TypeOK, Untouched, handlerVars
<1>2. CASE ReadDone(c)
  BY <1>2 DEF ReadDone, Inv, TypeOK, Rejected, Untouched, Running, InStep, Closed,
              CtxDone, Chunks, handlerVars
<1>3. CASE ReadFails(c)
  BY <1>3 DEF ReadFails, Inv, TypeOK, Rejected, Untouched, Running, InStep, Closed,
              CtxDone, Chunks, handlerVars
<1>4. CASE Abandon(c)
  BY <1>4 DEF Abandon, Inv, TypeOK, Rejected, Untouched, Running, InStep, Closed,
              CtxDone, Chunks, handlerVars
<1>5. CASE Deadline(c)
  BY <1>5 DEF Deadline, Inv, TypeOK, Rejected, Untouched, Running, InStep, Closed,
              CtxDone, Chunks, handlerVars, readerVars
<1> QED BY <1>1, <1>2, <1>3, <1>4, <1>5 DEF ReaderStep

\* The client leaving changes which contexts are done, never the other way round.
LEMMA DisconnectInv == Inv /\ Disconnect => Inv'
<1> SUFFICES ASSUME Inv, Disconnect PROVE Inv'
  OBVIOUS
<1>1. /\ connected' = FALSE /\ pc # "returned"
      /\ UNCHANGED <<pc, cur, ctx, reader, pend, produced, written, success, failure, resp>>
  BY DEF Disconnect, handlerVars, readerVars
<1>2. TypeOK'
  BY <1>1 DEF Inv, TypeOK
<1>3. \A c \in Cand : c < cur => Rejected(c)'
  BY <1>1 DEF Inv, Rejected
<1>4. \A c \in Cand : c > cur => Untouched(c)'
  BY <1>1 DEF Inv, Untouched
<1>5. pc = "open" /\ cur \in Cand => Untouched(cur)'
  BY <1>1 DEF Inv, Untouched
<1>6. pc \in {"await", "drain"} => Running(cur)'
  BY <1>1 DEF Inv, Running, InStep, CtxDone
<1> QED
  BY <1>1, <1>2, <1>3, <1>4, <1>5, <1>6 DEF Inv

\* Every handler step either moves the loop variable on, leaving a rejected
\* candidate behind, or stays at the current candidate.
LEMMA HandlerInv == ASSUME Inv, HandlerStep
                    PROVE  Inv'
<1> USE CandIsInterval, StreamAssumption DEF StreamAssumption
<1>1. CASE OpenFails
  BY <1>1 DEF OpenFails, Cancel, RecordFailure, TryNext, Inv, TypeOK, Rejected,
              Untouched, Running, Closed, readerVars
<1>2. CASE OpenOK
  BY <1>2 DEF OpenOK, Inv, TypeOK, Rejected, Untouched, Running, InStep, Closed
<1>3. CASE Exhausted
  BY <1>3 DEF Exhausted, Return, Inv, TypeOK, Rejected, Untouched, Running, Closed, readerVars
<1>4. CASE FirstData
  BY <1>4 DEF FirstData, Receive, Forward, Inv, TypeOK, Rejected, Untouched, Running,
              InStep, Closed, Chunks
<1>5. CASE FirstDone
  BY <1>5 DEF FirstDone, Receive, RecordSuccess, Cancel, Return, Inv, TypeOK, Rejected,
              Untouched, Running, InStep, Closed, Chunks
<1>6. CASE FirstErr
  BY <1>6 DEF FirstErr, Receive, RecordFailure, Cancel, Return, TryNext, Inv, TypeOK,
              Rejected, Untouched, Running, InStep, Closed, Chunks
<1>7. CASE FirstClosed
  BY <1>7 DEF FirstClosed, RecordFailure, Cancel, TryNext, Inv, TypeOK, Rejected,
              Untouched, Running, Closed, readerVars
<1>8. CASE FirstTimeout
  BY <1>8 DEF FirstTimeout, RecordFailure, Cancel, TryNext, Inv, TypeOK, Rejected,
              Untouched, Running, Closed, readerVars
<1>9. CASE ClientLeft
  BY <1>9 DEF ClientLeft, Cancel, Return, Inv, TypeOK, Rejected, Untouched, Running,
              Closed, readerVars
<1>10. CASE NextData
  BY <1>10 DEF NextData, Receive, Forward, Inv, TypeOK, Rejected, Untouched, Running,
               InStep, Closed, Chunks, CtxDone
<1>11. CASE NextErr
  BY <1>11 DEF NextErr, Receive, RecordFailure, Cancel, Return, Inv, TypeOK, Rejected,
               Untouched, Running, InStep, Closed, Chunks
<1>12. CASE NextDone
  BY <1>12 DEF NextDone, Receive, RecordSuccess, Cancel, Return, Inv, TypeOK, Rejected,
               Untouched, Running, InStep, Closed, Chunks
<1>13. CASE NextClosed
  BY <1>13 DEF NextClosed, RecordSuccess, Cancel, Return, Inv, TypeOK, Rejected,
               Untouched, Running, InStep, CtxDone, Closed, readerVars
<1> QED
  BY <1>1, <1>2, <1>3, <1>4, <1>5, <1>6, <1>7, <1>8, <1>9, <1>10, <1>11, <1>12, <1>13
  DEF HandlerStep

\* Every step, and every stutter, keeps the invariant.
LEMMA NextInv == Inv /\ [Next]_vars => Inv'
<1> SUFFICES ASSUME Inv, [Next]_vars PROVE Inv'
  OBVIOUS
<1>1. CASE HandlerStep
  BY <1>1, HandlerInv
<1>2. ASSUME NEW c \in Cand, ReaderStep(c) PROVE Inv'
  BY <1>2, ReaderInv
<1>3. CASE Disconnect
  BY <1>3, DisconnectInv
<1>4. CASE Terminated \/ UNCHANGED vars
  BY <1>4 DEF Terminated, vars, Inv, TypeOK, Rejected, Untouched, Running, InStep,
              Closed, CtxDone
<1> QED BY <1>1, <1>2, <1>3, <1>4 DEF Next

\* The inductive invariant holds in every reachable state of the handler and readers.
THEOREM InvHolds == SafeSpec => []Inv
<1>1. Init => Inv
  BY InitInv
<1>2. Inv /\ [Next]_vars => Inv'
  BY NextInv
<1> QED BY <1>1, <1>2, PTL DEF SafeSpec
-------------------------------------------------------------------------------

\* The safety properties are consequences of the inductive invariant.
LEMMA InvImplies ==
  Inv => /\ SingleSource /\ VerdictPerAttempt /\ AbandonedCancelled
         /\ SilentCloseNeedsDeadContext /\ PatientClientAnswered /\ CompleteMeansAll
<1> SUFFICES ASSUME Inv
             PROVE  /\ SingleSource /\ VerdictPerAttempt /\ AbandonedCancelled
                    /\ SilentCloseNeedsDeadContext /\ PatientClientAnswered
                    /\ CompleteMeansAll
  OBVIOUS
<1> USE CandIsInterval
<1>1. \A c \in Cand : c # cur => written[c] = 0
  BY DEF Inv, TypeOK, Rejected, Untouched
<1>2. pc = "open" => \A c \in Cand : written[c] = 0
  BY <1>1 DEF Inv, TypeOK, Untouched
<1>3. SingleSource
  BY <1>1, <1>2 DEF Inv, TypeOK, SingleSource
<1>4. \A c \in Cand : c < cur => success[c] = 0 /\ failure[c] = 1 /\ ctx[c] = "cancelled"
  BY DEF Inv, Rejected
<1>5. \A c \in Cand : c > cur => success[c] = 0 /\ failure[c] = 0 /\ ctx[c] = "unused"
  BY DEF Inv, Untouched
<1>6. cur \in Cand => /\ success[cur] + failure[cur] <= 1
                      /\ ctx[cur] = "unused" => success[cur] + failure[cur] = 0
                      /\ (pc = "returned" /\ ctx[cur] # "unused") =>
                           \/ success[cur] + failure[cur] = 1
                           \/ ~connected /\ resp = "none"
  BY DEF Inv, TypeOK, Untouched, Running, Closed
<1>7. VerdictPerAttempt
  BY <1>4, <1>5, <1>6 DEF VerdictPerAttempt, Inv, TypeOK
<1>8. AbandonedCancelled
  BY <1>4 DEF AbandonedCancelled
<1>9. SilentCloseNeedsDeadContext
  BY DEF Inv, Running, InStep, SilentCloseNeedsDeadContext
<1>10. PatientClientAnswered
  BY DEF Inv, TypeOK, Closed, PatientClientAnswered, Ended
<1>11. CompleteMeansAll
  BY DEF Inv, CompleteMeansAll
<1> QED BY <1>3, <1>7, <1>8, <1>9, <1>10, <1>11

\* The variables keep their types (the state of streamWithFallback and readers).
THEOREM TypeCorrect == SafeSpec => []TypeOK
BY InvHolds, PTL DEF Inv

\* The first emitted chunk is the fallback boundary, for every number of
\* candidates: bytes of one candidate only, and no further candidate after them.
THEOREM SingleSourceHolds == SafeSpec => []SingleSource
BY InvHolds, InvImplies, PTL

\* Health and spend see each attempt once: recordStream is never called twice for
\* an attempt, and is skipped only for the one the client walked away from.
THEOREM VerdictPerAttemptHolds == SafeSpec => []VerdictPerAttempt
BY InvHolds, InvImplies, PTL

\* Every candidate the loop has left behind is cancelled.
THEOREM AbandonedCancelledHolds == SafeSpec => []AbandonedCancelled
BY InvHolds, InvImplies, PTL

\* A stream is cut short without an error frame only when its reader's context is done.
THEOREM SilentCloseNeedsDeadContextHolds == SafeSpec => []SilentCloseNeedsDeadContext
BY InvHolds, InvImplies, PTL

\* A connected client always gets an ending from an adapter without a deadline.
THEOREM PatientClientAnsweredHolds == SafeSpec => []PatientClientAnswered
BY InvHolds, InvImplies, PTL

\* No data frame is lost from a stream that ends in [DONE].
THEOREM CompleteMeansAllHolds == SafeSpec => []CompleteMeansAll
BY InvHolds, InvImplies, PTL
-------------------------------------------------------------------------------

\* The handler starts as the contract does.
LEMMA ContractInit == Init => Contract!Init
BY CandIsInterval DEF Init, Contract!Init, Phase, Outcome

\* Every step is a step of the contract or invisible to it.
LEMMA ContractStep == Inv /\ [Next]_vars => [Contract!Next]_(Contract!contract)
<1> SUFFICES ASSUME Inv, [Next]_vars
             PROVE  Contract!Next \/ UNCHANGED Contract!contract
  BY DEF Contract!contract
<1> USE CandIsInterval DEF Phase, Outcome, Contract!contract
<1>1. CASE OpenFails \/ FirstClosed \/ FirstTimeout
  <2>1. Contract!GiveUp
    BY <1>1 DEF OpenFails, FirstClosed, FirstTimeout, TryNext, Inv, TypeOK, Contract!GiveUp
  <2> QED BY <2>1 DEF Contract!Next
<1>2. CASE FirstData
  <2>1. Contract!FirstByte
    BY <1>2 DEF FirstData, Inv, TypeOK, Contract!FirstByte
  <2> QED BY <2>1 DEF Contract!Next
<1>3. CASE FirstDone
  <2>1. Contract!EmptyStream
    BY <1>3 DEF FirstDone, Return, Inv, TypeOK, Contract!EmptyStream
  <2> QED BY <2>1 DEF Contract!Next
<1>4. CASE FirstErr
  <2>1. CASE cur < N
    <3>1. Contract!GiveUp
      BY <1>4, <2>1 DEF FirstErr, TryNext, Inv, TypeOK, Contract!GiveUp
    <3> QED BY <3>1 DEF Contract!Next
  <2>2. CASE ~(cur < N)
    <3>1. Contract!Refuse
      BY <1>4, <2>2 DEF FirstErr, Return, Inv, TypeOK, Contract!Refuse
    <3> QED BY <3>1 DEF Contract!Next
  <2> QED BY <2>1, <2>2
<1>5. CASE Exhausted \/ ClientLeft
  <2>1. Contract!Refuse
    BY <1>5 DEF Exhausted, ClientLeft, Return, Inv, TypeOK, Contract!Refuse
  <2> QED BY <2>1 DEF Contract!Next
<1>6. CASE NextErr \/ NextDone \/ NextClosed
  <2>1. Contract!EndStream
    BY <1>6 DEF NextErr, NextDone, NextClosed, Return, Inv, TypeOK, Contract!EndStream
  <2> QED BY <2>1 DEF Contract!Next
<1>7. CASE \/ OpenOK \/ NextData \/ Disconnect \/ Terminated \/ UNCHANGED vars
  BY <1>7 DEF OpenOK, NextData, Disconnect, Terminated, vars, handlerVars, Inv
<1>8. ASSUME NEW c \in Cand, ReaderStep(c) PROVE UNCHANGED <<pc, cur, resp>>
  BY <1>8 DEF ReaderStep, ReadData, ReadDone, ReadFails, Abandon, Deadline, handlerVars
<1> QED
  BY <1>1, <1>2, <1>3, <1>4, <1>5, <1>6, <1>7, <1>8 DEF Next, HandlerStep

\* streamWithFallback with its readers implements StreamContract: every step of the
\* goroutines is a step of the contract or invisible to it.
THEOREM Refinement == SafeSpec => ImplementsContract
<1>1. Init => Contract!Init
  BY ContractInit
<1>2. Inv /\ [Next]_vars => [Contract!Next]_(Contract!contract)
  BY ContractStep
<1> QED BY <1>1, <1>2, InvHolds, PTL DEF SafeSpec, ImplementsContract, Contract!Spec
===============================================================================
