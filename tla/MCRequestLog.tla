------------------------------ MODULE MCRequestLog ------------------------------
(* Two requests that reach a provider, the first falling back, and one under the   *)
(* second's request ID that is blocked; one decision makes a handler panic.                  *)
EXTENDS RequestLog

CONSTANTS r1, r2, r3
MCRequest == {r1, r2, r3}
MCId(r) == IF r = r3 THEN r2 ELSE r
MCOutcome(r, i) == CASE r = r1 -> {i = 1}
                     [] r = r2 /\ i = 0 -> {TRUE}
                     [] OTHER -> {}
MCPoison == {Decision(r2)}
MCCompared == MCRequest
===============================================================================
