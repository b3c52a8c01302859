----------------------------- MODULE DecisionCache -----------------------------
(***************************************************************************)
(* The route decision cache of internal/decisioncache: a map from keys to   *)
(* decisions with an expiry, cleared as a whole when it is full.  Each of   *)
(* Get and Put is one critical section of the cache's mutex.                *)
(*                                                                         *)
(* Only differences of times are ever compared, so an entry carries the     *)
(* clock units it has left instead of the time it expires.                  *)
(***************************************************************************)
EXTENDS Naturals, FiniteSets

CONSTANTS
  TTL,              \* clock units; 0 disables the cache
  MaxEntries

ASSUME CacheAssumption == TTL \in Nat /\ MaxEntries \in Nat \ {0}

VARIABLE entries    \* [keys present -> [dec, left]]

Enabled == TTL > 0

CacheInit == entries = <<>>

\* An entry put at T with this TTL is served up to and including T + TTL.
Entry(dec) == [dec |-> dec, left |-> TTL + 1]

\* Expired entries stay until they are asked for.
Fresh(k) == entries[k].left > 0

Tick ==
  /\ \E k \in DOMAIN entries : Fresh(k)
  /\ entries' = [k \in DOMAIN entries |->
                   [entries[k] EXCEPT !.left = IF Fresh(k) THEN @ - 1 ELSE 0]]

Hit(k) == Enabled /\ k \in DOMAIN entries /\ Fresh(k)

\* A Get that misses drops the entry it found expired.
Miss(k) ==
  /\ ~Hit(k)
  /\ entries' = IF Enabled THEN [j \in DOMAIN entries \ {k} |-> entries[j]] ELSE entries

\* The entries that stay when k is stored: none when the cache is full and k is new.
Room(k) == IF Cardinality(DOMAIN entries) >= MaxEntries /\ k \notin DOMAIN entries
           THEN {} ELSE DOMAIN entries

Put(k, dec) ==
  entries' = IF Enabled
             THEN [j \in Room(k) \cup {k} |-> IF j = k THEN Entry(dec) ELSE entries[j]]
             ELSE entries
===============================================================================
