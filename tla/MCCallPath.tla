----------------------------- MODULE MCCallPath -----------------------------
(* Two processors, one prompt rule, one retry, and replies that      *)
(* succeed, that are retried and that end the loop.                        *)
EXTENDS CallPath

Reply(status, gone, garbled) == [status |-> status, gone |-> gone, garbled |-> garbled]

OneRule == <<"prefix">>
Kind(routed, piped, system, wrapped) ==
  [routed |-> routed, piped |-> piped, system |-> system, wrapped |-> wrapped]
SomeRequests == {Kind(TRUE, TRUE, TRUE, TRUE), Kind(FALSE, TRUE, FALSE, FALSE),
                 Kind(TRUE, FALSE, TRUE, TRUE)}
SomeReplies == {Reply(200, FALSE, FALSE), Reply(200, FALSE, TRUE), Reply(429, FALSE, FALSE),
                Reply(503, TRUE, FALSE)}
=============================================================================
