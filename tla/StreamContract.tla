---------------------------- MODULE StreamContract ----------------------------
(***************************************************************************)
(* What a streamed chat completion promises its client and the accounting, *)
(* with the provider goroutines, channels, timers and contexts left out.   *)
(*                                                                         *)
(* The request walks an ordered list of candidates.  Before the first byte *)
(* a candidate may be given up for the next one; the first byte fixes the  *)
(* source of the response for good; the response ends exactly once.        *)
(* StreamFallback implements this specification.                           *)
(***************************************************************************)
EXTENDS Naturals

CONSTANT N          \* candidates of the route decision (primary + fallbacks)

VARIABLES
  phase,            \* "routing" | "streaming" | "ended"
  rejected,         \* candidates given up so far
  source,           \* candidate whose bytes the client is reading, 0 before
  ending            \* how the response ended, "open" until it has

contract == <<phase, rejected, source, ending>>

Init ==
  /\ phase = "routing"
  /\ rejected = 0
  /\ source = 0
  /\ ending = "open"

GiveUp ==
  /\ phase = "routing"
  /\ rejected < N
  /\ rejected' = rejected + 1
  /\ UNCHANGED <<phase, source, ending>>

FirstByte ==
  /\ phase = "routing"
  /\ rejected < N
  /\ phase' = "streaming"
  /\ source' = rejected + 1
  /\ UNCHANGED <<rejected, ending>>

\* A stream whose very first frame is [DONE] starts and ends at once.
EmptyStream ==
  /\ phase = "routing"
  /\ rejected < N
  /\ phase' = "ended"
  /\ source' = rejected + 1
  /\ ending' = "complete"
  /\ UNCHANGED rejected

\* Nothing was streamed: an error body when every candidate was given up, no
\* answer at all when the client left first.
Refuse ==
  /\ phase = "routing"
  /\ \/ rejected' = N /\ ending' = "json_error"
     \/ rejected' = rejected /\ ending' = "unanswered"
  /\ phase' = "ended"
  /\ UNCHANGED source

EndStream ==
  /\ phase = "streaming"
  /\ phase' = "ended"
  /\ ending' \in {"complete", "sse_error", "cut"}
  /\ UNCHANGED <<rejected, source>>

Next == GiveUp \/ FirstByte \/ EmptyStream \/ Refuse \/ EndStream

Spec == Init /\ [][Next]_contract
===============================================================================
