--------------------------- MODULE SpendPersistence ---------------------------
(***************************************************************************)
(* The spend tracker of internal/spend and its file, across flushes,        *)
(* shutdowns, crashes and restarts of cmd/router.                           *)
(*                                                                         *)
(* The event queue's worker (EventQueue) counts events into the tracker.    *)
(* Two goroutines save it: the 30 s ticker and main, once, on shutdown.     *)
(* SaveJSON reads the model totals and the tenant totals under one lock     *)
(* each, truncates and writes path.tmp and renames it over path; both       *)
(* savers use the same temporary name, so files are modelled as directory   *)
(* entries pointing to inodes.                                              *)
(*                                                                         *)
(* A total is the number of events counted: amounts, and the split over     *)
(* model and tenant IDs, are left out.  A crash is the end of the process;  *)
(* the machine and its disk stay up.                                        *)
(***************************************************************************)
EXTENDS Naturals, Sequences, FiniteSets

CONSTANTS
  Event,            \* events one life of the process may produce
  Size,             \* capacity of the queue
  Inode,            \* inodes of the data directory
  MaxLives          \* bound: starts of the process

NoInode == "none"

ASSUME SpendAssumption ==
  /\ Size \in Nat \ {0}
  /\ NoInode \notin Inode
  /\ IsFiniteSet(Inode) /\ Cardinality(Inode) >= 3
  /\ MaxLives \in Nat

Saver == {"ticker", "final"}

VARIABLES
  ch, dropped, worker, hand, stopping, settled, lost, promised,  \* EventQueue
  proc,             \* "up" | "stopping" | "exited" | "crashed"
  mem,              \* the tracker: [models, tenants]
  step,             \* [Saver -> what SaveJSON does next]
  snap,             \* [Saver -> the Snapshot it is saving]
  fd,               \* [Saver -> inode it has open for writing]
  tmp,              \* inode of path.tmp, NoInode when there is none
  file,             \* inode of path
  content,          \* [Inode -> what it holds]
  total,            \* history: events counted in all lives
  overlapped,       \* history: both savers have been at work at once
  unread,           \* history: this life began without the file it found
  lives             \* starts so far

queueVars == <<ch, dropped, worker, hand, stopping, settled, lost, promised>>
saverVars == <<step, snap, fd>>
diskVars == <<tmp, file, content>>
vars == <<queueVars, proc, mem, saverVars, diskVars, total, overlapped, unread, lives>>

\* The spend handler has no panic of its own.
Q == INSTANCE EventQueue WITH Poison <- {}

Zero == [models |-> 0, tenants |-> 0]
Totals == [models : Nat, tenants : Nat]
Steps == {"idle", "models", "tenants", "open", "write", "rename"}

\* A file is empty, a mix of two documents, or one whole document.
Bytes(kind, s) == [kind |-> kind, models |-> s.models, tenants |-> s.tenants]
Empty == Bytes("empty", Zero)
Mixed == Bytes("mixed", Zero)
Whole(s) == Bytes("whole", s)

Running == proc \in {"up", "stopping"}
Busy(s) == step[s] # "idle"

SpendTypeOK ==
  /\ proc \in {"up", "stopping", "exited", "crashed"}
  /\ mem \in Totals
  /\ step \in [Saver -> Steps]
  /\ snap \in [Saver -> Totals]
  /\ fd \in [Saver -> Inode \cup {NoInode}]
  /\ \A s \in Saver : fd[s] # NoInode <=> step[s] = "write"
  /\ tmp \in Inode \cup {NoInode}
  /\ file \in Inode \cup {NoInode}
  /\ content \in [Inode -> [kind : {"empty", "mixed", "whole"}, models : Nat, tenants : Nat]]
  /\ total \in Nat
  /\ overlapped \in BOOLEAN /\ unread \in BOOLEAN
  /\ lives \in Nat

TypeOK == Q!TypeOK /\ SpendTypeOK

Init ==
  /\ Q!Init
  /\ proc = "up"
  /\ mem = Zero
  /\ step = [s \in Saver |-> "idle"]
  /\ snap = [s \in Saver |-> Zero]
  /\ fd = [s \in Saver |-> NoInode]
  /\ tmp = NoInode
  /\ file = NoInode
  /\ content = [i \in Inode |-> Empty]
  /\ total = 0
  /\ overlapped = FALSE /\ unread = FALSE
  /\ lives = 1

-------------------------------------------------------------------------------
(* Counting. *)

\* Requests enqueue while the process runs, also those Shutdown gave up waiting for.
Enqueue ==
  /\ Running
  /\ \E e \in Event : Q!Enqueue(e)
  /\ UNCHANGED <<proc, mem, saverVars, diskVars, total, overlapped, unread, lives>>

\* The worker's steps that reach no handler.
WorkerMoves ==
  /\ Running
  /\ Q!Take \/ Q!BeginDrain \/ Q!DrainTake \/ Q!DrainEnds
  /\ UNCHANGED <<proc, mem, saverVars, diskVars, total, overlapped, unread, lives>>

\* Variant of Count: the model is charged on the decision and on the attempt.
CountModelTwice ==
  /\ Running
  /\ Q!HandlerEnds \/ Q!DrainHandlerEnds
  /\ mem' = [models |-> mem.models + 2, tenants |-> mem.tenants + 1]
  /\ total' = total + 1
  /\ UNCHANGED <<proc, saverVars, diskVars, overlapped, unread, lives>>

\* Tracker.Handle: one critical section updates the model's and the tenant's totals.
Count ==
  /\ Running
  /\ Q!HandlerEnds \/ Q!DrainHandlerEnds
  /\ mem' = [models |-> mem.models + 1, tenants |-> mem.tenants + 1]
  /\ total' = total + 1
  /\ UNCHANGED <<proc, saverVars, diskVars, overlapped, unread, lives>>

-------------------------------------------------------------------------------
(* SaveJSON. *)

GoTo(s, next) == step' = [step EXCEPT ![s] = next]

StartSave(s) ==
  /\ ~Busy(s)
  /\ GoTo(s, "models")
  /\ overlapped' = (overlapped \/ \E other \in Saver : Busy(other))

\* The goroutines of a process that is gone are gone; so are its open files.
NobodySaves ==
  /\ step' = [s \in Saver |-> "idle"]
  /\ snap' = [s \in Saver |-> Zero]
  /\ fd' = [s \in Saver |-> NoInode]

\* SaveJSON returns, with or without an error: the ticker's loop goes on, and main
\* returns, which ends the process whatever else runs.
SaveReturns(s) ==
  IF s = "final"
  THEN proc' = "exited" /\ NobodySaves
  ELSE /\ GoTo(s, "idle")
       /\ snap' = [snap EXCEPT ![s] = Zero]
       /\ fd' = [fd EXCEPT ![s] = NoInode]
       /\ UNCHANGED proc

\* The ticker fires.  Once the worker's context is done the select may still pick it.
Tick ==
  /\ Running
  /\ StartSave("ticker")
  /\ UNCHANGED <<queueVars, proc, mem, snap, fd, diskVars, total, unread, lives>>

\* Snapshot: ByModel.
ReadModels(s) ==
  /\ Running
  /\ step[s] = "models"
  /\ snap' = [snap EXCEPT ![s].models = mem.models]
  /\ GoTo(s, "tenants")
  /\ UNCHANGED <<queueVars, proc, mem, fd, diskVars, total, overlapped, unread, lives>>

\* Snapshot: ByTenant.
ReadTenants(s) ==
  /\ Running
  /\ step[s] = "tenants"
  /\ snap' = [snap EXCEPT ![s].tenants = mem.tenants]
  /\ GoTo(s, "open")
  /\ UNCHANGED <<queueVars, proc, mem, fd, diskVars, total, overlapped, unread, lives>>

InUse == {tmp, file} \cup {fd[s] : s \in Saver}

\* Variant of OpenTmp: path itself is opened and truncated.
OpenInPlace(s) ==
  /\ Running
  /\ step[s] = "open"
  /\ \E i \in Inode :
       /\ IF file = NoInode THEN i \notin InUse ELSE i = file
       /\ file' = i
       /\ tmp' = i
       /\ content' = [content EXCEPT ![i] = Empty]
       /\ fd' = [fd EXCEPT ![s] = i]
  /\ GoTo(s, "write")
  /\ UNCHANGED <<queueVars, proc, mem, snap, total, overlapped, unread, lives>>

\* WriteFile opens path.tmp, creating it or truncating the one that is there.
OpenTmp(s) ==
  /\ Running
  /\ step[s] = "open"
  /\ \E i \in Inode :
       /\ IF tmp = NoInode THEN i \notin InUse ELSE i = tmp
       /\ tmp' = i
       /\ content' = [content EXCEPT ![i] = Empty]
       /\ fd' = [fd EXCEPT ![s] = i]
  /\ GoTo(s, "write")
  /\ UNCHANGED <<queueVars, proc, mem, snap, file, total, overlapped, unread, lives>>

\* WriteFile writes from the start of the inode it opened, wherever that is linked
\* by now, and closes it.  What is longer than the new document stays behind it.
Write(s) ==
  /\ Running
  /\ step[s] = "write"
  /\ \E bytes \in {Whole(snap[s]), Mixed} :
       /\ content[fd[s]].kind = "empty" => bytes # Mixed
       /\ content' = [content EXCEPT ![fd[s]] = bytes]
  /\ fd' = [fd EXCEPT ![s] = NoInode]
  /\ GoTo(s, "rename")
  /\ UNCHANGED <<queueVars, proc, mem, snap, tmp, file, total, overlapped, unread, lives>>

\* MkdirAll or the open fails, or the write does and leaves part of the document.
SaveFails(s) ==
  /\ Running
  /\ \/ step[s] \in {"models", "open"} /\ UNCHANGED content
     \/ step[s] = "write" /\ content' = [content EXCEPT ![fd[s]] = Mixed]
  /\ SaveReturns(s)
  /\ UNCHANGED <<queueVars, mem, tmp, file, total, overlapped, unread, lives>>

\* Rename: path.tmp becomes path and the inode path had is gone, or there is no
\* path.tmp and the error is logged.
Rename(s) ==
  /\ Running
  /\ step[s] = "rename"
  /\ IF tmp = NoInode
     THEN UNCHANGED diskVars
     ELSE /\ file' = tmp /\ tmp' = NoInode
          /\ content' = [i \in Inode |-> IF i = file THEN Empty ELSE content[i]]
  /\ SaveReturns(s)
  /\ UNCHANGED <<queueVars, mem, total, overlapped, unread, lives>>

Save(s) ==
  \/ ReadModels(s) \/ ReadTenants(s) \/ OpenTmp(s) \/ Write(s) \/ Rename(s)
  \/ SaveFails(s)

-------------------------------------------------------------------------------
(* The life of the process. *)

\* main after srv.Shutdown: workerCancel, and at once the final SaveJSON.
Shutdown ==
  /\ proc = "up"
  /\ proc' = "stopping"
  /\ Q!Cancel
  /\ StartSave("final")
  /\ UNCHANGED <<mem, snap, fd, diskVars, total, unread, lives>>

Crash ==
  /\ Running
  /\ proc' = "crashed"
  /\ NobodySaves
  /\ UNCHANGED <<queueVars, mem, diskVars, total, overlapped, unread, lives>>

NewQueue ==
  /\ ch' = <<>> /\ dropped' = 0 /\ worker' = "select" /\ hand' = <<>>
  /\ stopping' = FALSE /\ settled' = <<>> /\ lost' = {} /\ promised' = 0

\* What is in the file: nothing when it is missing or does not parse.
Loaded ==
  IF file # NoInode /\ content[file].kind = "whole"
  THEN [models |-> content[file].models, tenants |-> content[file].tenants]
  ELSE Zero

\* Variant of Load: the file is not looked at.
LoadNothing == mem' = Zero /\ unread' = FALSE

\* LoadJSON, of which main takes an error for a warning and goes on with an empty
\* tracker.  The read of a file that is there may fail, whatever it holds.
Load ==
  \/ mem' = Loaded /\ unread' = FALSE
  \/ file # NoInode /\ mem' = Zero /\ unread' = TRUE

Restart ==
  /\ ~Running
  /\ lives < MaxLives
  /\ lives' = lives + 1
  /\ proc' = "up"
  /\ NewQueue
  /\ Load
  /\ UNCHANGED <<saverVars, diskVars, total, overlapped>>

Next ==
  \/ Enqueue \/ WorkerMoves \/ Count
  \/ Tick \/ \E s \in Saver : Save(s)
  \/ Shutdown \/ Crash \/ Restart

Spec == Init /\ [][Next]_vars

-------------------------------------------------------------------------------
(* Safety. *)

\* The spend file only ever holds a whole document, whenever the process stops or a
\* write fails, unless the ticker's flush and the final one were at work together.
TornOnlyByOverlap ==
  ~overlapped => (file # NoInode => content[file].kind = "whole")

\* Every document, in the file or under way, counts only events that were settled and
\* its tenant totals are never behind its model totals: reading the two under separate
\* locks cannot invent spend, and across restarts nothing is counted twice.
NothingInvented ==
  \A i \in Inode : content[i].kind = "whole" =>
    content[i].models <= content[i].tenants /\ content[i].tenants <= total

\* A flush replaces the file by an older state only if savers overlapped, or if the
\* process could not read the file it found at its start: otherwise what was persisted
\* stays accounted for, whatever crashed, failed or was cut short in between.
PersistedNeverShrinks ==
  [][~overlapped' /\ ~unread /\ file # NoInode =>
       /\ file' # NoInode
       /\ content'[file'].models >= content[file].models
       /\ content'[file'].tenants >= content[file].tenants]_vars

\* main.go:144 says of the spend file that it makes the savings survive restarts: what
\* one life saved, the next one's flushes do not take back.
SavingsSurviveRestarts ==
  [][~overlapped' /\ file # NoInode =>
       file' # NoInode /\ content'[file'].tenants >= content[file].tenants]_vars

-------------------------------------------------------------------------------
(* The inductive invariant behind them. *)

\* What is saved was counted: no snapshot is ahead of the tracker it was read from.
Counted ==
  /\ mem.models <= mem.tenants /\ mem.tenants <= total
  /\ \A s \in Saver :
       /\ snap[s].models <= mem.models /\ snap[s].tenants <= mem.tenants
       /\ step[s] \in {"open", "write", "rename"} => snap[s].models <= snap[s].tenants
  /\ NothingInvented

GoneWithTheProcess ==
  ~Running => \A s \in Saver : ~Busy(s) /\ snap[s] = Zero /\ fd[s] = NoInode

\* A saver that works alone has path.tmp to itself until it renames it, and what it
\* is going to put in place of the file is no older than the file, if that was read.
Alone(s) ==
  /\ \A other \in Saver : Busy(other) => other = s
  /\ step[s] = "write" => fd[s] = tmp /\ content[tmp].kind = "empty"
  /\ step[s] = "rename" => tmp # NoInode /\ content[tmp] = Whole(snap[s])
  /\ file # NoInode /\ ~unread =>
       /\ step[s] \notin {"idle", "models"} => content[file].models <= snap[s].models
       /\ step[s] \notin {"idle", "models", "tenants"} =>
            content[file].tenants <= snap[s].tenants

SoundDisk ==
  ~overlapped =>
    /\ tmp # NoInode => tmp # file
    /\ file # NoInode =>
         /\ content[file].kind = "whole"
         /\ Running /\ ~unread => /\ content[file].models <= mem.models
                                  /\ content[file].tenants <= mem.tenants
    /\ \A s \in Saver : Busy(s) => Alone(s)

Inv == SpendTypeOK /\ Counted /\ GoneWithTheProcess /\ SoundDisk
===============================================================================
