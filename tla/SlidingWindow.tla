---------------------------- MODULE SlidingWindow ----------------------------
(***************************************************************************)
(* What internal/health promises the routing engine: a provider's health is *)
(* judged by its last Window outcomes, oldest first, and by nothing older.  *)
(***************************************************************************)
EXTENDS Naturals, Sequences

CONSTANTS Provider, Window

VARIABLE recent     \* [Provider -> the outcomes that count, TRUE for success]

Init == recent = [p \in Provider |-> <<>>]

Latest(outcomes) == IF Len(outcomes) > Window THEN Tail(outcomes) ELSE outcomes

Note(p, ok) == recent' = [recent EXCEPT ![p] = Latest(Append(@, ok))]

Next == \E p \in Provider, ok \in BOOLEAN : Note(p, ok)

Spec == Init /\ [][Next]_recent
===============================================================================
