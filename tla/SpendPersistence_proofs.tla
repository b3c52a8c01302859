------------------------ MODULE SpendPersistence_proofs ------------------------
(***************************************************************************)
(* The spend file is whole, true and monotone, for every number of events,  *)
(* restarts and inodes, as long as the two savers have not overlapped; and  *)
(* monotone only while every start could read the file it found.            *)
(* Each conjunct of Inv is carried by a lemma of its own.                   *)
(***************************************************************************)
EXTENDS SpendPersistence, TLAPS

\* What an action that is no part of a save or of the process's life leaves alone.
Quiet == UNCHANGED <<proc, saverVars, diskVars, overlapped, unread, lives>>

\* The invariant holds when the process first starts, with no file.
LEMMA InitInv == Init => Inv
<1> SUFFICES ASSUME Init PROVE Inv
  OBVIOUS
<1>1. SpendTypeOK
  BY DEF Init, SpendTypeOK, Totals, Zero, Steps, Empty, Bytes, Saver, NoInode
<1>2. Counted
  BY DEF Init, Counted, NothingInvented, Zero, Empty, Bytes, Saver
<1>3. GoneWithTheProcess /\ SoundDisk
  BY DEF Init, GoneWithTheProcess, SoundDisk, Running, Busy, Saver
<1> QED
  BY <1>1, <1>2, <1>3 DEF Inv

\* Steps of the queue that count nothing leave everything the invariant reads alone.
LEMMA QuietStep ==
  ASSUME Inv, Quiet, UNCHANGED <<mem, total>>
  PROVE  Inv'
<1>1. SpendTypeOK'
  BY DEF Inv, SpendTypeOK, Quiet, saverVars, diskVars
<1>2. Counted'
  BY DEF Inv, Counted, NothingInvented, Quiet, saverVars, diskVars
<1>3. GoneWithTheProcess' /\ SoundDisk'
  BY DEF Inv, GoneWithTheProcess, SoundDisk, Alone, Busy, Running, Quiet, saverVars, diskVars
<1> QED
  BY <1>1, <1>2, <1>3 DEF Inv

\* One more event is counted: every snapshot and document falls further behind.
LEMMA CountStep == Inv /\ Count => Inv'
<1> SUFFICES ASSUME Inv, Count PROVE Inv'
  OBVIOUS
<1> USE DEF Count, Inv, saverVars, diskVars
<1>1. SpendTypeOK'
  BY DEF SpendTypeOK, Totals
<1>2. Counted'
  BY DEF Counted, NothingInvented, SpendTypeOK, Totals, Saver
<1>3. GoneWithTheProcess'
  BY DEF GoneWithTheProcess, Running, Busy
<1>4. SoundDisk'
  <2>1. \A s \in Saver : Alone(s)' = Alone(s)
    BY DEF Alone, Busy
  <2> QED
    BY <2>1 DEF SoundDisk, Busy, Running, SpendTypeOK, Totals
<1> QED
  BY <1>1, <1>2, <1>3, <1>4

\* A save begins; from then on either it is alone or the savers have overlapped.
LEMMA StartStep ==
  ASSUME Inv, NEW s \in Saver, StartSave(s), Running, Running',
         proc' \in {"up", "stopping"}, UNCHANGED <<mem, snap, fd, diskVars, total, unread, lives>>
  PROVE  Inv'
<1> USE DEF StartSave, GoTo, diskVars, Inv
<1>1. SpendTypeOK'
  BY DEF SpendTypeOK, Steps, Busy
<1>2. Counted'
  BY DEF Counted, NothingInvented, SpendTypeOK
<1>3. GoneWithTheProcess'
  BY DEF GoneWithTheProcess
<1>4. SoundDisk'
  <2> SUFFICES ASSUME ~overlapped' PROVE SoundDisk'
    BY DEF SoundDisk
  <2>1. ~overlapped /\ \A other \in Saver : step[other] = "idle"
    BY DEF SpendTypeOK, Busy
  <2>2. \A other \in Saver : Busy(other)' => other = s
    BY <2>1 DEF Busy, SpendTypeOK
  <2>3. Alone(s)'
    BY <2>2 DEF Alone, SpendTypeOK
  <2> QED
    BY <2>1, <2>2, <2>3 DEF SoundDisk
<1> QED
  BY <1>1, <1>2, <1>3, <1>4

\* ByModel and ByTenant are read while nothing else of the saver changes.
LEMMA ReadStep ==
  ASSUME Inv, NEW s \in Saver, ReadModels(s) \/ ReadTenants(s)
  PROVE  Inv'
<1> USE DEF ReadModels, ReadTenants, GoTo, diskVars, Inv
<1>1. SpendTypeOK'
  <2>1. snap' \in [Saver -> Totals]
    BY DEF SpendTypeOK, Totals
  <2>2. step[s] # "write" /\ step' \in [Saver -> Steps] /\ step'[s] # "write"
    BY DEF SpendTypeOK, Steps
  <2>3. \A other \in Saver : fd'[other] # NoInode <=> step'[other] = "write"
    BY <2>2 DEF SpendTypeOK
  <2> QED
    BY <2>1, <2>2, <2>3 DEF SpendTypeOK
<1>2. Counted'
  BY DEF Counted, NothingInvented, SpendTypeOK, Totals
<1>3. GoneWithTheProcess'
  BY DEF GoneWithTheProcess, Running
<1>4. SoundDisk'
  <2> SUFFICES ASSUME ~overlapped PROVE SoundDisk'
    BY DEF SoundDisk
  <2>1. Alone(s) /\ Running /\ Running'
    BY DEF SoundDisk, Busy, Running
  <2>2. \A other \in Saver : Busy(other)' => other = s
    BY <2>1 DEF Alone, Busy, SpendTypeOK
  <2>3. Alone(s)'
    BY <2>1, <2>2 DEF Alone, Busy, SoundDisk, SpendTypeOK, Totals
  <2> QED
    BY <2>1, <2>2, <2>3 DEF SoundDisk
<1> QED
  BY <1>1, <1>2, <1>3, <1>4

\* WriteFile opens a temporary file that is never the file itself.
LEMMA OpenStep ==
  ASSUME Inv, NEW s \in Saver, OpenTmp(s)
  PROVE  Inv'
<1> USE DEF OpenTmp, GoTo, Inv
<1> PICK i \in Inode :
      /\ IF tmp = NoInode THEN i \notin InUse ELSE i = tmp
      /\ tmp' = i
      /\ content' = [content EXCEPT ![i] = Empty]
      /\ fd' = [fd EXCEPT ![s] = i]
  OBVIOUS
<1>0. i # NoInode
  BY SpendAssumption
<1>1. SpendTypeOK'
  BY <1>0 DEF SpendTypeOK, Steps, Empty, Bytes, Zero
<1>2. Counted'
  BY DEF Counted, NothingInvented, SpendTypeOK, Empty, Bytes
<1>3. GoneWithTheProcess'
  BY DEF GoneWithTheProcess, Running
<1>4. SoundDisk'
  <2> SUFFICES ASSUME ~overlapped PROVE SoundDisk'
    BY DEF SoundDisk
  <2>1. Alone(s) /\ Running /\ Running'
    BY DEF SoundDisk, Busy, Running
  <2>2. \A other \in Saver : Busy(other)' => other = s
    BY <2>1 DEF Alone, Busy, SpendTypeOK
  <2>3. i # file
    BY <1>0 DEF SoundDisk, InUse
  <2>4. file # NoInode => content'[file] = content[file]
    BY <2>3 DEF SpendTypeOK
  <2>5. Alone(s)'
    BY <2>1, <2>2, <2>4 DEF Alone, SpendTypeOK, Empty, Bytes
  <2> QED
    BY <2>1, <2>2, <2>3, <2>4, <2>5 DEF SoundDisk
<1> QED
  BY <1>1, <1>2, <1>3, <1>4

\* The write puts down the snapshot, whole when the file was empty.
LEMMA WriteStep ==
  ASSUME Inv, NEW s \in Saver, Write(s)
  PROVE  Inv'
<1> USE DEF Write, GoTo, Inv
<1> PICK bytes \in {Whole(snap[s]), Mixed} :
      /\ content[fd[s]].kind = "empty" => bytes # Mixed
      /\ content' = [content EXCEPT ![fd[s]] = bytes]
  OBVIOUS
<1>0. fd[s] \in Inode
  BY DEF SpendTypeOK
<1>1. SpendTypeOK'
  BY <1>0 DEF SpendTypeOK, Steps, Whole, Mixed, Bytes, Zero, Totals
<1>2. Counted'
  <2>1. bytes.kind = "whole" => bytes.models <= bytes.tenants /\ bytes.tenants <= total
    BY DEF Counted, SpendTypeOK, Totals, Whole, Mixed, Bytes
  <2> QED
    BY <1>0, <2>1 DEF Counted, NothingInvented, SpendTypeOK
<1>3. GoneWithTheProcess'
  BY DEF GoneWithTheProcess, Running
<1>4. SoundDisk'
  <2> SUFFICES ASSUME ~overlapped PROVE SoundDisk'
    BY DEF SoundDisk
  <2>1. Alone(s) /\ Running /\ Running'
    BY DEF SoundDisk, Busy, Running
  <2>2. \A other \in Saver : Busy(other)' => other = s
    BY <2>1 DEF Alone, Busy, SpendTypeOK
  <2>3. fd[s] = tmp /\ tmp # NoInode /\ tmp # file /\ content'[tmp] = Whole(snap[s])
    BY <1>0, <2>1, SpendAssumption DEF Alone, SoundDisk, SpendTypeOK
  <2>4. file # NoInode => content'[file] = content[file]
    BY <2>3 DEF SpendTypeOK
  <2>5. Alone(s)'
    BY <2>1, <2>2, <2>3, <2>4 DEF Alone, SpendTypeOK
  <2> QED
    BY <2>1, <2>2, <2>3, <2>4, <2>5 DEF SoundDisk
<1> QED
  BY <1>1, <1>2, <1>3, <1>4

\* How a save ends, for the typing and for what the process takes with it.
LEMMA ReturnStep ==
  ASSUME Inv, NEW s \in Saver, Running, SaveReturns(s)
  PROVE  /\ proc' \in {"up", "stopping", "exited"}
         /\ step' \in [Saver -> Steps] /\ snap' \in [Saver -> Totals]
         /\ fd' \in [Saver -> Inode \cup {NoInode}]
         /\ ~Busy(s)'
         /\ \A other \in Saver :
              \/ step'[other] = step[other] /\ snap'[other] = snap[other] /\ fd'[other] = fd[other]
              \/ step'[other] = "idle" /\ snap'[other] = Zero /\ fd'[other] = NoInode
         /\ Running' \/ \A other \in Saver :
              ~Busy(other)' /\ snap'[other] = Zero /\ fd'[other] = NoInode
<1> USE DEF Inv, SpendTypeOK, GoTo, Busy, Steps, Totals, Zero
<1>1. CASE s = "final"
  <2>1. proc' = "exited" /\ NobodySaves
    BY <1>1 DEF SaveReturns
  <2> QED
    BY <2>1 DEF NobodySaves
<1>2. CASE s # "final"
  <2>1. /\ step' = [step EXCEPT ![s] = "idle"] /\ snap' = [snap EXCEPT ![s] = Zero]
        /\ fd' = [fd EXCEPT ![s] = NoInode] /\ proc' = proc
    BY <1>2 DEF SaveReturns
  <2> QED
    BY <2>1 DEF Running
<1> QED
  BY <1>1, <1>2

\* A save that failed leaves the file as it was.
LEMMA FailStep ==
  ASSUME Inv, NEW s \in Saver, SaveFails(s)
  PROVE  Inv'
<1> USE DEF SaveFails, Inv
<1>0. /\ proc' \in {"up", "stopping", "exited"}
      /\ step' \in [Saver -> Steps] /\ snap' \in [Saver -> Totals]
      /\ fd' \in [Saver -> Inode \cup {NoInode}]
      /\ ~Busy(s)'
      /\ \A other \in Saver :
           \/ step'[other] = step[other] /\ snap'[other] = snap[other] /\ fd'[other] = fd[other]
           \/ step'[other] = "idle" /\ snap'[other] = Zero /\ fd'[other] = NoInode
      /\ Running' \/ \A other \in Saver :
           ~Busy(other)' /\ snap'[other] = Zero /\ fd'[other] = NoInode
  BY ReturnStep
<1>1. content' = content \/ (step[s] = "write" /\ content' = [content EXCEPT ![fd[s]] = Mixed])
  OBVIOUS
<1>2. SpendTypeOK'
  BY <1>0, <1>1 DEF SpendTypeOK, Mixed, Bytes, Zero
<1>3. Counted'
  <2>1. NothingInvented'
    <3>1. step[s] = "write" => fd[s] \in Inode
      BY DEF SpendTypeOK
    <3>2. \A i \in Inode : content'[i] = content[i] \/ content'[i].kind = "mixed"
      BY <1>1, <3>1 DEF SpendTypeOK, Mixed, Bytes
    <3> QED
      BY <3>2 DEF Counted, NothingInvented
  <2> QED
    BY <1>0, <2>1 DEF Counted, SpendTypeOK, Totals, Zero
<1>4. GoneWithTheProcess'
  BY <1>0 DEF GoneWithTheProcess
<1>5. SoundDisk'
  <2> SUFFICES ASSUME ~overlapped PROVE SoundDisk'
    BY DEF SoundDisk
  <2>1. Alone(s) /\ Running
    BY DEF SoundDisk, Busy, Running
  <2>2. \A other \in Saver : ~Busy(other)'
    BY <1>0, <2>1 DEF Alone, Busy, SpendTypeOK
  <2>3. file # NoInode => content'[file] = content[file]
    BY <1>1, <2>1 DEF Alone, SoundDisk, SpendTypeOK
  <2> QED
    BY <2>1, <2>2, <2>3 DEF SoundDisk
<1> QED
  BY <1>2, <1>3, <1>4, <1>5

\* The rename puts a whole and newer document in place.
LEMMA RenameStep ==
  ASSUME Inv, NEW s \in Saver, Rename(s)
  PROVE  Inv'
<1> USE DEF Rename, Inv, diskVars
<1>0. /\ proc' \in {"up", "stopping", "exited"}
      /\ step' \in [Saver -> Steps] /\ snap' \in [Saver -> Totals]
      /\ fd' \in [Saver -> Inode \cup {NoInode}]
      /\ ~Busy(s)'
      /\ \A other \in Saver :
           \/ step'[other] = step[other] /\ snap'[other] = snap[other] /\ fd'[other] = fd[other]
           \/ step'[other] = "idle" /\ snap'[other] = Zero /\ fd'[other] = NoInode
      /\ Running' \/ \A other \in Saver :
           ~Busy(other)' /\ snap'[other] = Zero /\ fd'[other] = NoInode
  BY ReturnStep
<1>1. SpendTypeOK'
  BY <1>0 DEF SpendTypeOK, Empty, Bytes, Zero
<1>2. Counted'
  <2>1. NothingInvented'
    BY DEF Counted, NothingInvented, SpendTypeOK, Empty, Bytes
  <2> QED
    BY <1>0, <2>1 DEF Counted, SpendTypeOK, Totals, Zero
<1>3. GoneWithTheProcess'
  BY <1>0 DEF GoneWithTheProcess
<1>4. SoundDisk'
  <2> SUFFICES ASSUME ~overlapped PROVE SoundDisk'
    BY DEF SoundDisk
  <2>1. Alone(s) /\ Running
    BY DEF SoundDisk, Busy, Running
  <2>2. \A other \in Saver : ~Busy(other)'
    BY <1>0, <2>1 DEF Alone, Busy, SpendTypeOK
  <2>3. tmp # NoInode /\ tmp # file /\ content[tmp] = Whole(snap[s])
    BY <2>1 DEF Alone, SoundDisk
  <2>4. file' = tmp /\ tmp' = NoInode /\ content'[file'] = Whole(snap[s])
    BY <2>3 DEF SpendTypeOK
  <2> QED
    BY <2>1, <2>2, <2>3, <2>4 DEF SoundDisk, Counted, Whole, Bytes, SpendTypeOK
<1> QED
  BY <1>1, <1>2, <1>3, <1>4

\* A crash takes the savers with it and leaves the disk.
LEMMA CrashStep == Inv /\ Crash => Inv'
<1> SUFFICES ASSUME Inv, Crash PROVE Inv'
  OBVIOUS
<1> USE DEF Inv, Crash, NobodySaves, diskVars
<1>1. SpendTypeOK'
  BY DEF SpendTypeOK, Steps, Totals, Zero
<1>2. Counted'
  BY DEF Counted, NothingInvented, SpendTypeOK, Totals, Zero
<1>3. GoneWithTheProcess'
  BY DEF GoneWithTheProcess, Busy
<1>4. SoundDisk'
  BY DEF SoundDisk, Busy, Running
<1> QED
  BY <1>1, <1>2, <1>3, <1>4

\* A restart resumes from what the file says, or from nothing when it cannot be read.
LEMMA RestartStep == Inv /\ Restart => Inv'
<1> SUFFICES ASSUME Inv, Restart PROVE Inv'
  OBVIOUS
<1> USE DEF Inv, Restart, saverVars, diskVars
<1>0. mem' \in Totals /\ mem'.models <= mem'.tenants /\ mem'.tenants <= total
  BY DEF Load, Loaded, Counted, NothingInvented, SpendTypeOK, Totals, Zero
<1>1. SpendTypeOK'
  <2>1. unread' \in BOOLEAN
    <3>1. Load
      BY DEF Restart
    <3> QED
      BY <3>1, Zenon DEF Load
  <2>2. lives' \in Nat
    BY DEF SpendTypeOK
  <2> QED
    BY <1>0, <2>1, <2>2 DEF SpendTypeOK
<1>2. Counted'
  BY <1>0 DEF Counted, NothingInvented, GoneWithTheProcess, Zero, Busy, SpendTypeOK, Totals
<1>3. GoneWithTheProcess'
  BY DEF GoneWithTheProcess, Running
<1>4. SoundDisk'
  BY DEF SoundDisk, GoneWithTheProcess, Busy, Load, Loaded, SpendTypeOK
<1> QED
  BY <1>1, <1>2, <1>3, <1>4

\* Every step of the process and of its savers keeps the invariant.
LEMMA NextInv == Inv /\ [Next]_vars => Inv'
<1> SUFFICES ASSUME Inv, [Next]_vars PROVE Inv'
  OBVIOUS
<1>1. CASE Enqueue \/ WorkerMoves \/ UNCHANGED vars
  BY <1>1, QuietStep DEF Enqueue, WorkerMoves, vars, Quiet
<1>2. CASE Count
  BY <1>2, CountStep
<1>3. CASE Tick
  BY <1>3, StartStep DEF Tick, Running, Saver
<1>4. ASSUME NEW s \in Saver, Save(s) PROVE Inv'
  BY <1>4, ReadStep, OpenStep, WriteStep, RenameStep, FailStep DEF Save
<1>5. CASE Shutdown
  BY <1>5, StartStep DEF Shutdown, Running, Saver
<1>6. CASE Crash
  BY <1>6, CrashStep
<1>7. CASE Restart
  BY <1>7, RestartStep
<1> QED
  BY <1>1, <1>2, <1>3, <1>4, <1>5, <1>6, <1>7 DEF Next

\* The inductive invariant holds throughout, across any number of lives.
THEOREM InvHolds == Spec => []Inv
<1>1. Init => Inv
  BY InitInv
<1>2. Inv /\ [Next]_vars => Inv'
  BY NextInv
<1> QED
  BY <1>1, <1>2, PTL DEF Spec

\* The spend file is never torn unless the two savers overlapped.
THEOREM TornOnlyByOverlapHolds == Spec => []TornOnlyByOverlap
<1>1. Inv => TornOnlyByOverlap
  BY DEF Inv, SoundDisk, TornOnlyByOverlap
<1> QED
  BY <1>1, InvHolds, PTL

\* No document ever counts an event that was not settled, nor one twice.
THEOREM NothingInventedHolds == Spec => []NothingInvented
<1>1. Inv => NothingInvented
  BY DEF Inv, Counted
<1> QED
  BY <1>1, InvHolds, PTL

\* The action behind PersistedNeverShrinks.
NeverShrinks ==
  ~overlapped' /\ ~unread /\ file # NoInode =>
    /\ file' # NoInode
    /\ content'[file'].models >= content[file].models
    /\ content'[file'].tenants >= content[file].tenants

\* No step replaces the file by an older document.
LEMMA NeverShrinksStep == Inv /\ [Next]_vars => [NeverShrinks]_vars
<1> SUFFICES ASSUME Inv, Next, ~overlapped', ~unread, file # NoInode
             PROVE  /\ file' # NoInode
                    /\ content'[file'].models >= content[file].models
                    /\ content'[file'].tenants >= content[file].tenants
  BY DEF NeverShrinks
<1>0. content[file].models \in Nat /\ content[file].tenants \in Nat /\ file \in Inode
  BY DEF Inv, SpendTypeOK
<1>1. CASE UNCHANGED diskVars
  BY <1>0, <1>1 DEF diskVars
<1>2. ASSUME NEW s \in Saver, OpenTmp(s) \/ Write(s) \/ SaveFails(s) PROVE
        file' = file /\ content'[file] = content[file]
  <2>1. ~overlapped /\ Alone(s) /\ tmp # file
    BY <1>2 DEF OpenTmp, Write, SaveFails, Inv, SoundDisk, Busy
  <2>2. CASE OpenTmp(s)
    BY <1>0, <2>1, <2>2 DEF OpenTmp, InUse, Inv, SpendTypeOK
  <2>3. CASE Write(s)
    BY <1>0, <2>1, <2>3 DEF Write, Alone, Inv, SpendTypeOK
  <2>4. CASE SaveFails(s)
    BY <1>0, <2>1, <2>4 DEF SaveFails, Alone, Inv, SpendTypeOK
  <2> QED
    BY <1>2, <2>2, <2>3, <2>4
<1>3. ASSUME NEW s \in Saver, Rename(s) PROVE
        /\ file' # NoInode
        /\ content'[file'].models >= content[file].models
        /\ content'[file'].tenants >= content[file].tenants
  <2>1. ~overlapped /\ Alone(s) /\ tmp # NoInode /\ tmp # file /\ content[tmp] = Whole(snap[s])
    BY <1>3 DEF Rename, Inv, SoundDisk, Busy, Alone
  <2>2. file' = tmp /\ content'[file'] = Whole(snap[s])
    BY <1>3, <2>1 DEF Rename, Inv, SpendTypeOK
  <2> QED
    BY <1>0, <1>3, <2>1, <2>2 DEF Rename, Alone, Whole, Bytes, Inv, SpendTypeOK, Totals
<1>4. CASE Enqueue \/ WorkerMoves \/ Count \/ Tick \/ Shutdown \/ Crash \/ Restart
  BY <1>1, <1>4 DEF Enqueue, WorkerMoves, Count, Tick, Shutdown, Crash, Restart
<1>5. ASSUME NEW s \in Saver, ReadModels(s) \/ ReadTenants(s) PROVE UNCHANGED diskVars
  BY <1>5 DEF ReadModels, ReadTenants
<1> QED
  BY <1>0, <1>1, <1>2, <1>3, <1>4, <1>5 DEF Next, Save

\* What was persisted stays accounted for: no flush of a process that has read the file
\* puts an older state in place, as long as savers have not overlapped.
THEOREM PersistedNeverShrinksHolds == Spec => PersistedNeverShrinks
<1>1. Inv /\ [Next]_vars => [NeverShrinks]_vars
  BY NeverShrinksStep
<1> QED
  BY <1>1, InvHolds, PTL DEF Spec, PersistedNeverShrinks, NeverShrinks
===============================================================================
