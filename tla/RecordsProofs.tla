----------------------------- MODULE RecordsProofs -----------------------------
(***************************************************************************)
(* What is kept over time: the session file, whatever crashes and fails,    *)
(* the window of a rate limiter, for any number of callers, and the         *)
(* messages of a platform, for any calls, failures and closes.              *)
(***************************************************************************)
EXTENDS SessionPersistence, RateWindow, MessagingDelivery, Transcript, QueueProofs, TLAPS

(***************************************************************************)
(* The session file.                                                        *)
(***************************************************************************)

USE PersistenceAssumption

\* A change has been made in memory, and its generation has not been counted.
Changing == pc[Loop] \in {"schedule", "invalidate"}

\* What memory held when the current generation began.
Published == IF Changing THEN memory - 1 ELSE memory

-----------------------------------------------------------------------------
(* Types, and who may be where.                                             *)

Places_OK ==
  /\ Changing => storeLock = Loop /\ generation < MaxGeneration /\ memory > 0
  /\ \A t \in Threads : pending[t].generation <= generation
  /\ \A t \in Timers : t > generation => pc[t] = "idle"
  /\ \A t \in Threads : pc[t] = "replace" <=> writerLock = t

LEMMA Distinct ==
  /\ Threads = {Loop} \cup Timers /\ Loop \notin Timers
  /\ Nobody \notin Threads /\ Loop # Nobody
  /\ \A t \in Timers : t \in 0..MaxGeneration
BY DEF Loop, Threads, Timers, Nobody

\* Cancelling a timer touches one that has not fired, and nothing else.
LEMMA Cancelled ==
  ASSUME TypeOK
  PROVE  /\ CancelTimer(pc) \in [Threads -> Places]
         /\ \A t \in Threads : CancelTimer(pc)[t] = pc[t]
              \/ (t # Loop /\ pc[t] = "armed" /\ CancelTimer(pc)[t] = "idle")
BY Distinct DEF TypeOK, CancelTimer, Places

LEMMA PlacesKept == TypeOK /\ Places_OK /\ [Next]_vars => TypeOK' /\ Places_OK'
<1> SUFFICES ASSUME TypeOK, Places_OK, [Next]_vars PROVE TypeOK' /\ Places_OK'
  OBVIOUS
<1> USE Distinct
<1>1. CASE BeginSave \/ BeginFlush \/ BeginClear
  <2> USE DEF TypeOK, Places_OK, Changing, Go, Free, locks, ghosts, Places
  <2>1. CASE BeginSave
    BY <2>1 DEF BeginSave
  <2>2. CASE BeginFlush
    BY <2>2 DEF BeginFlush
  <2>3. CASE BeginClear
    BY <2>3 DEF BeginClear
  <2> QED BY <1>1, <2>1, <2>2, <2>3
<1>2. CASE Schedule
  <2>1. /\ generation' = generation + 1 /\ timer' = generation'
        /\ generation' \in Timers /\ pc[generation'] = "idle"
    BY <1>2 DEF Schedule, TypeOK, Places_OK, Changing, Timers
  <2>2. /\ pc' \in [Threads -> Places]
        /\ pc'[Loop] = "idle"
        /\ \A t \in Threads \ {Loop, generation'} : pc'[t] = CancelTimer(pc)[t]
    BY <1>2, <2>1, Cancelled DEF Schedule, Places
  <2>3. /\ \A t \in Timers : t > generation' => pc'[t] = "idle"
        /\ \A t \in Threads : pc'[t] = "replace" <=> pc[t] = "replace"
    BY <1>2, <2>1, <2>2, Cancelled DEF Schedule, Places_OK, TypeOK
  <2> QED BY <1>2, <2>1, <2>2, <2>3 DEF Schedule, TypeOK, Places_OK, Changing, ghosts
<1>3. CASE Invalidate
  <2>1. generation' = generation + 1 /\ generation' \in 0..MaxGeneration
    BY <1>3 DEF Invalidate, TypeOK, Places_OK, Changing
  <2>2. /\ pc' \in [Threads -> Places]
        /\ pc'[Loop] = "write"
        /\ \A t \in Threads \ {Loop} : pc'[t] = CancelTimer(pc)[t]
    BY <1>3, <2>1, Cancelled DEF Invalidate, Places
  <2>3. /\ \A t \in Timers : t > generation' => pc'[t] = "idle"
        /\ \A t \in Threads : pc'[t] = "replace" <=> pc[t] = "replace"
    BY <1>3, <2>1, <2>2, Cancelled DEF Invalidate, Places_OK, TypeOK
  <2> QED BY <1>3, <2>1, <2>2, <2>3 DEF Invalidate, TypeOK, Places_OK, Changing, ghosts, locks
<1>4. CASE Crash
  <2>0. dirty' \in BOOLEAN
    BY <1>4, Zenon DEF Crash
  <2>1. TypeOK'
    BY <1>4, <2>0 DEF Crash, TypeOK, NoWrite, Places
  <2>2. Places_OK'
    BY <1>4 DEF Crash, Places_OK, Changing, NoWrite
  <2> QED BY <2>1, <2>2
<1>5. ASSUME NEW t \in Threads, Step(t) PROVE TypeOK' /\ Places_OK'
  <2>1. CASE Fire(t)
    BY <2>1 DEF Fire, Go, TypeOK, Places_OK, Changing, Places, locks, ghosts
  <2>2. CASE Claim(t)
    <3>1. CASE MayClaim(t)
      BY <2>2, <3>1, Cancelled DEF Claim, TypeOK, Places_OK, Changing, Places, Timers, locks,
        ghosts
    <3>2. CASE ~MayClaim(t)
      BY <2>2, <3>2 DEF Claim, Go, TypeOK, Places_OK, Changing, Places, locks, ghosts
    <3> QED BY <3>1, <3>2
  <2>3. CASE Snapshot(t)
    BY <2>3 DEF Snapshot, Go, TypeOK, Places_OK, Changing, Places, locks, ghosts
  <2>4. CASE EnterWriter(t)
    BY <2>4 DEF EnterWriter, Return, Go, NoWrite, TypeOK, Places_OK, Changing, Places, ghosts
  <2>5. CASE Replace(t)
    BY <2>5 DEF Replace, Go, TypeOK, Places_OK, Changing, Places, ghosts
  <2>6. CASE ReplaceFails(t)
    BY <2>6 DEF ReplaceFails, Go, TypeOK, Places_OK, Changing, Places
  <2>7. CASE RecordFailure(t)
    BY <2>7 DEF RecordFailure, Return, Go, NoWrite, TypeOK, Places_OK, Changing, Places, ghosts
  <2>8. CASE Confirm(t)
    BY <2>8 DEF Confirm, Promise, Return, Go, NoWrite, TypeOK, Places_OK, Changing, Places
  <2>9. CASE Clean(t)
    <3>0. dirty' \in BOOLEAN
      BY <2>9, Zenon DEF Clean
    <3>1. TypeOK'
      BY <2>9, <3>0 DEF Clean, Promise, Return, Go, NoWrite, TypeOK, Places
    <3>2. Places_OK'
      BY <2>9 DEF Clean, Return, Go, NoWrite, TypeOK, Places_OK, Changing
    <3> QED BY <3>1, <3>2
  <2> QED BY <1>5, <2>1, <2>2, <2>3, <2>4, <2>5, <2>6, <2>7, <2>8, <2>9 DEF Step
<1>6. CASE UNCHANGED vars
  BY <1>6 DEF vars, threads, locks, ghosts, TypeOK, Places_OK, Changing
<1> QED BY <1>1, <1>2, <1>3, <1>4, <1>5, <1>6 DEF Next

LEMMA PlacesAtFirst == Init => TypeOK /\ Places_OK
<1> USE Distinct DEF Init, Start, NoWrite
<1>0. Init => dirty \in BOOLEAN
  BY Zenon DEF Init, Start
<1>1. Init => TypeOK
  BY <1>0 DEF TypeOK, Places
<1>2. Init => Places_OK
  BY DEF Places_OK, Changing
<1> QED BY <1>1, <1>2

\* Every reachable state is of the stated types (_PendingWrite, the timer and the
\* locks of DebouncedJsonPersistence and SessionStore).
THEOREM PersistenceTypes == Spec => []TypeOK
<1>1. Spec => [](TypeOK /\ Places_OK)
  BY PlacesAtFirst, PlacesKept, PTL DEF Spec
<1> QED BY <1>1, PTL

-----------------------------------------------------------------------------
(* The order of the snapshots.  The claim of a write takes the generation and *)
(* its snapshot comes later, but the store's lock keeps the change of the     *)
(* state and its generation together: a snapshot whose generation is still    *)
(* current when the writer's lock is taken is the newest.  After that the     *)
(* writer's lock keeps the others away.                                       *)

Snapshots_OK ==
  /\ file <= Published
  /\ \A t \in Threads : pc[t] \in {"write", "replace"} /\ IsCurrent(t) =>
       pending[t].snapshot = Published
  /\ \A t \in Threads : pc[t] = "replace" =>
       file <= pending[t].snapshot /\ pending[t].snapshot <= Published

LEMMA SnapshotsKept ==
  TypeOK /\ Places_OK /\ Snapshots_OK /\ [Next]_vars => Snapshots_OK'
<1> SUFFICES ASSUME TypeOK, Places_OK, Snapshots_OK, [Next]_vars PROVE Snapshots_OK'
  OBVIOUS
<1> USE Distinct
<1>1. CASE BeginSave
  <2>1. Published' = Published /\ \A t \in Threads \ {Loop} : pc'[t] = pc[t]
    BY <1>1 DEF BeginSave, Published, Changing, TypeOK, Go
  <2> QED BY <1>1, <2>1 DEF BeginSave, Snapshots_OK, IsCurrent, TypeOK, Go
<1>2. CASE BeginClear
  <2>1. Published' = Published /\ \A t \in Threads \ {Loop} : pc'[t] = pc[t]
    BY <1>2 DEF BeginClear, Published, Changing, TypeOK, Go
  <2> QED BY <1>2, <2>1 DEF BeginClear, Snapshots_OK, IsCurrent, TypeOK, Go
<1>3. CASE BeginFlush
  BY <1>3 DEF BeginFlush, Snapshots_OK, Published, Changing, IsCurrent, TypeOK, Go, ghosts, locks
<1>4. CASE Schedule
  <2>1. /\ Published <= Published' /\ {Published, Published'} \subseteq Nat
        /\ \A t \in Threads : pending[t].generation # generation'
    BY <1>4, Cancelled DEF Schedule, Published, Changing, TypeOK, Places_OK
  <2>2. \A t \in Threads : pc'[t] \in {"write", "replace"} => pc'[t] = pc[t]
    BY <1>4, Cancelled DEF Schedule, TypeOK
  <2>3. UNCHANGED <<file, pending>> /\ file \in Nat
        /\ \A t \in Threads : pending[t].snapshot \in Nat
    BY <1>4 DEF Schedule, TypeOK
  <2> QED BY <2>1, <2>2, <2>3 DEF Snapshots_OK, IsCurrent
<1>5. CASE Invalidate
  <2>1. /\ Published <= Published' /\ Published' = memory /\ Published \in Nat
        /\ \A t \in Threads : pending[t].generation # generation'
    BY <1>5, Cancelled DEF Invalidate, Published, Changing, TypeOK, Places_OK
  <2>2. /\ pc'[Loop] = "write" /\ pending'[Loop].snapshot = memory
        /\ \A t \in Threads \ {Loop} :
             /\ pending'[t] = pending[t]
             /\ pc'[t] \in {"write", "replace"} => pc'[t] = pc[t]
    BY <1>5, Cancelled DEF Invalidate, TypeOK
  <2> QED BY <1>5, <2>1, <2>2 DEF Invalidate, Snapshots_OK, IsCurrent, TypeOK
<1>6. CASE Crash
  BY <1>6 DEF Crash, Snapshots_OK, Published, Changing, TypeOK
<1>7. ASSUME NEW t \in Threads, Step(t) PROVE Snapshots_OK'
  <2>1. Published' = Published /\ generation' = generation
    BY <1>7, Cancelled DEF Step, Fire, Claim, Snapshot, EnterWriter, Replace, ReplaceFails,
      RecordFailure, Confirm, Clean, Return, Go, Published, Changing, TypeOK
  <2>2. CASE Fire(t)
    BY <2>1, <2>2 DEF Fire, Snapshots_OK, IsCurrent, TypeOK, Go
  <2>3. CASE Claim(t)
    BY <2>1, <2>3, Cancelled DEF Claim, Snapshots_OK, IsCurrent, TypeOK, Go
  <2>4. CASE Snapshot(t)
    <3>1. ~Changing
      BY <2>4 DEF Snapshot, Free, Places_OK, Changing
    <3> QED BY <2>1, <2>4, <3>1 DEF Snapshot, Snapshots_OK, IsCurrent, TypeOK, Go, Published
  <2>5. CASE EnterWriter(t)
    <3>1. Published \in Nat
      BY DEF Published, TypeOK, Places_OK
    <3> QED BY <2>1, <2>5, <3>1 DEF EnterWriter, Return, Snapshots_OK, IsCurrent, TypeOK, Go
  <2>6. CASE Replace(t)
    BY <2>1, <2>6 DEF Replace, Snapshots_OK, Places_OK, IsCurrent, TypeOK, Go
  <2>7. CASE ReplaceFails(t)
    BY <2>1, <2>7 DEF ReplaceFails, Snapshots_OK, IsCurrent, TypeOK, Go
  <2>8. CASE RecordFailure(t)
    BY <2>1, <2>8 DEF RecordFailure, Return, Snapshots_OK, IsCurrent, TypeOK, Go
  <2>9. CASE Confirm(t) \/ Clean(t)
    BY <2>1, <2>9 DEF Confirm, Clean, Return, Snapshots_OK, IsCurrent, TypeOK, Go
  <2> QED BY <1>7, <2>2, <2>3, <2>4, <2>5, <2>6, <2>7, <2>8, <2>9 DEF Step
<1>8. CASE UNCHANGED vars
  BY <1>8 DEF vars, threads, locks, ghosts, Snapshots_OK, Published, Changing, IsCurrent
<1> QED BY <1>1, <1>2, <1>3, <1>4, <1>5, <1>6, <1>7, <1>8 DEF Next

\* Only os.replace changes the file.
LEMMA FileForward ==
  TypeOK /\ Places_OK /\ Snapshots_OK /\ [Next]_vars => file' >= file
<1> SUFFICES ASSUME TypeOK, Places_OK, Snapshots_OK, [Next]_vars, file' # file
             PROVE  file' >= file
  BY DEF TypeOK
<1>1. PICK t \in Threads : Replace(t)
  BY DEF Next, BeginSave, Schedule, BeginFlush, BeginClear, Invalidate, Crash, Step, Fire, Claim,
    Snapshot, EnterWriter, ReplaceFails, RecordFailure, Confirm, Clean, vars
<1> QED BY <1>1 DEF Replace, Snapshots_OK, TypeOK

-----------------------------------------------------------------------------
(* What the callers of flush and clear rely on.                             *)

Promises_OK ==
  /\ kept <= file
  /\ pc[Loop] \in {"confirm", "clean"} => pending[Loop].snapshot <= file

LEMMA PromisesKept ==
  TypeOK /\ Places_OK /\ Snapshots_OK /\ Promises_OK /\ [Next]_vars => Promises_OK'
<1> SUFFICES ASSUME TypeOK, Places_OK, Snapshots_OK, Promises_OK, [Next]_vars
             PROVE  Promises_OK'
  OBVIOUS
<1> USE Distinct
<1>1. file' >= file /\ {file, file', kept} \subseteq Nat
  BY FileForward, PlacesKept DEF TypeOK
<1>2. CASE BeginSave \/ BeginFlush \/ BeginClear \/ Schedule \/ Invalidate \/ Crash
  BY <1>1, <1>2, Cancelled DEF BeginSave, BeginFlush, BeginClear, Schedule, Invalidate, Crash,
    Promises_OK, Go, TypeOK, ghosts
<1>3. ASSUME NEW t \in Threads, Step(t) PROVE Promises_OK'
  <2>1. CASE Fire(t) \/ Snapshot(t) \/ EnterWriter(t) \/ ReplaceFails(t) \/ RecordFailure(t)
    BY <1>1, <2>1 DEF Fire, Snapshot, EnterWriter, ReplaceFails, RecordFailure, Return, Go,
      Promises_OK, TypeOK, ghosts
  <2>2. CASE Claim(t)
    BY <1>1, <2>2, Cancelled DEF Claim, Promises_OK, Go, TypeOK, ghosts
  <2>3. CASE Replace(t)
    BY <1>1, <2>3 DEF Replace, Promises_OK, Go, TypeOK, ghosts
  <2>4. CASE Confirm(t)
    BY <1>1, <2>4 DEF Confirm, Promise, Return, Go, Promises_OK, TypeOK
  <2>5. CASE Clean(t)
    BY <1>1, <2>5 DEF Clean, Promise, Return, Go, Promises_OK, TypeOK
  <2> QED BY <1>3, <2>1, <2>2, <2>3, <2>4, <2>5 DEF Step
<1>4. CASE UNCHANGED vars
  BY <1>4 DEF vars, threads, ghosts, Promises_OK
<1> QED BY <1>2, <1>3, <1>4 DEF Next

Persistence_OK == TypeOK /\ Places_OK /\ Snapshots_OK /\ Promises_OK

LEMMA PersistenceInvariant == Spec => []Persistence_OK
<1>1. Init => Persistence_OK
  <2>1. Init => Snapshots_OK /\ Promises_OK
    BY Distinct DEF Init, Start, Snapshots_OK, Promises_OK, Published, Changing
  <2> QED BY <2>1, PlacesAtFirst DEF Persistence_OK
<1>2. Persistence_OK /\ [Next]_vars => Persistence_OK'
  BY PlacesKept, SnapshotsKept, PromisesKept DEF Persistence_OK
<1> QED BY <1>1, <1>2, PTL DEF Spec

\* Whatever timers, flushes and clears overlap, and wherever the process crashes,
\* no snapshot is written over a newer one (_write_if_current).
THEOREM SnapshotsInOrder == Spec => FileMovesForward
<1>1. Persistence_OK /\ [Next]_vars => [file' >= file]_vars
  BY FileForward DEF Persistence_OK
<1> QED BY <1>1, PersistenceInvariant, PTL DEF Spec, FileMovesForward

\* What flush_pending_save and clear_scope returned for survives.
THEOREM PromisesSurvive == Spec => []PromisesAreKept
<1>1. Persistence_OK => PromisesAreKept
  BY DEF Persistence_OK, TypeOK, Places_OK, Snapshots_OK, Promises_OK, Published, PromisesAreKept
<1> QED BY <1>1, PersistenceInvariant, PTL

(***************************************************************************)
(* The window of a rate limiter.  What left the deque is out of the window, *)
(* and what is in the deque is at most RateLimit long: the acquisition      *)
(* RateLimit before the next one has therefore left it.                     *)
(***************************************************************************)

Waiting == [at : {"idle", "asking", "asleep", "awake"}, until : Nat]

WindowTyped ==
  /\ clock \in Nat
  /\ acquired \in Seq(Nat)
  /\ head \in 1..Len(acquired) + 1
  /\ waiting \in [Callers -> Waiting]
  /\ allowed \in BOOLEAN

\* Timestamps are not of the future, and those dropped from the deque are old.
DroppedAreOld == \A i \in 1..head - 1 : acquired[i] + Window <= clock
NoneIsAhead == \A i \in Acquisitions : acquired[i] <= clock

WindowInvariant == /\ WindowTyped
                   /\ DroppedAreOld
                   /\ NoneIsAhead
                   /\ StrictWindow
                   /\ SleepsToAnEnd

\* Initially nothing is acquired.
LEMMA WindowStarts == WindowInit => WindowInvariant
  BY WindowConstants
  DEF WindowInit, WindowInvariant, WindowTyped, DroppedAreOld, NoneIsAhead, StrictWindow,
      SleepsToAnEnd, Acquisitions, Now, Waiting

\* What a purge drops is old, like all that was dropped before.
LEMMA PurgeDropsOld ==
  ASSUME WindowInvariant, NEW k, Purged(k)
  PROVE  /\ k \in 1..Len(acquired) + 1
         /\ \A i \in 1..k - 1 : acquired[i] + Window <= clock
  <1>1. k \in 1..Len(acquired) + 1
    BY DEF Purged, WindowInvariant, WindowTyped
  <1>2. ASSUME NEW i \in 1..k - 1
        PROVE  acquired[i] + Window <= clock
    <2>1. CASE i \in 1..head - 1
      BY <2>1 DEF WindowInvariant, DroppedAreOld
    <2>2. CASE i \in head..k - 1
      BY <2>2 DEF Purged, Elapsed
    <2>3. QED
      BY <1>1, <2>1, <2>2 DEF WindowInvariant, WindowTyped
  <1>3. QED
    BY <1>1, <1>2

\* The one step that adds a timestamp keeps the window strict.
LEMMA AcquireIsStrict ==
  ASSUME WindowInvariant, NEW c \in Callers, Acquire(c)
  PROVE  WindowInvariant'
  <1>1. PICK k \in head..Len(acquired) + 1, now \in clock..MaxTime :
          /\ Purged(k) /\ HasRoom(k)
          /\ clock' = now
          /\ acquired' = Append(acquired, now)
          /\ head' = k
          /\ waiting' = [waiting EXCEPT ![c] = Now("idle")]
          /\ UNCHANGED allowed
    BY DEF Acquire
  <1>t. WindowTyped
    BY DEF WindowInvariant
  <1>2. now \in Nat /\ clock <= now
    BY <1>t, <1>1, WindowConstants DEF WindowTyped
  <1>3. /\ k \in 1..Len(acquired) + 1
        /\ \A i \in 1..k - 1 : acquired[i] + Window <= clock
    BY <1>1, PurgeDropsOld
  <1>4. /\ acquired' \in Seq(Nat)
        /\ Len(acquired') = Len(acquired) + 1
        /\ \A i \in 1..Len(acquired) : acquired'[i] = acquired[i]
        /\ acquired'[Len(acquired) + 1] = now
    BY <1>t, <1>1, <1>2 DEF WindowTyped
  <1>n. Len(acquired) \in Nat /\ \A i \in 1..Len(acquired) : acquired[i] \in Nat
    BY <1>t DEF WindowTyped
  <1>5. WindowTyped'
    BY <1>t, <1>1, <1>2, <1>3, <1>4 DEF WindowTyped, Now, Waiting
  <1>6. DroppedAreOld'
    <2>1. \A i \in 1..k - 1 : acquired'[i] = acquired[i] /\ acquired[i] \in Nat
      BY <1>3, <1>4, <1>n
    <2>2. QED
      BY <2>1, <1>t, <1>1, <1>2, <1>3, WindowConstants DEF DroppedAreOld, WindowTyped
  <1>7. NoneIsAhead'
    BY <1>t, <1>1, <1>2, <1>4, <1>n DEF WindowInvariant, NoneIsAhead, WindowTyped, Acquisitions
  <1>8. StrictWindow'
    <2>1. SUFFICES ASSUME NEW i \in 1..Len(acquired) + 1, NEW j \in 1..Len(acquired) + 1,
                          j = i + RateLimit
                   PROVE  acquired'[i] + Window <= acquired'[j]
      BY <1>4 DEF StrictWindow, Acquisitions
    <2>2. i \in 1..Len(acquired)
      BY <2>1, <1>n, WindowConstants
    <2>3. CASE j \in 1..Len(acquired)
      BY <2>1, <2>2, <2>3, <1>4 DEF WindowInvariant, StrictWindow, Acquisitions
    <2>4. CASE j = Len(acquired) + 1
      <3>1. i \in 1..k - 1
        BY <2>1, <2>2, <2>4, <1>1, <1>3, <1>n, WindowConstants DEF HasRoom
      <3>2. acquired[i] + Window <= clock
        BY <3>1, <1>3
      <3>3. acquired'[i] = acquired[i] /\ acquired'[j] = now
        BY <2>2, <2>4, <1>4
      <3>4. acquired[i] + Window <= now
        BY <3>2, <2>2, <1>2, <1>n, <1>t, WindowConstants DEF WindowTyped
      <3>5. QED
        BY <3>3, <3>4
    <2>5. QED
      BY <2>1, <2>3, <2>4, <1>n
  <1>9. SleepsToAnEnd'
    <2>1. SUFFICES ASSUME NEW d \in Callers, waiting'[d].at = "asleep"
                   PROVE  \E i \in 1..Len(acquired) + 1 :
                            waiting'[d].until = acquired'[i] + Window
      BY <1>4 DEF SleepsToAnEnd, Acquisitions
    <2>2. waiting'[d] = waiting[d]
      BY <2>1, <1>1, <1>t DEF WindowTyped, Now
    <2>3. PICK i \in 1..Len(acquired) : waiting[d].until = acquired[i] + Window
      BY <2>1, <2>2 DEF WindowInvariant, SleepsToAnEnd, Acquisitions
    <2>4. QED
      BY <2>2, <2>3, <1>4, <1>n
  <1>10. QED
    BY <1>5, <1>6, <1>7, <1>8, <1>9 DEF WindowInvariant

\* A caller that is told to wait, or is declined, only purges the deque.
LEMMA PurgeIsHarmless ==
  ASSUME WindowInvariant, NEW c \in Callers, Wait(c) \/ Decline(c)
  PROVE  WindowInvariant'
  <1>t. WindowTyped
    BY DEF WindowInvariant
  <1>1. PICK k \in head..Len(acquired) + 1 :
          /\ Purged(k)
          /\ head' = k
          /\ UNCHANGED <<clock, acquired, allowed>>
          /\ \/ waiting' = [waiting EXCEPT ![c] = Now("idle")]
             \/ /\ ~HasRoom(k)
                /\ waiting' = [waiting EXCEPT ![c] =
                     [at |-> "asleep", until |-> acquired[k] + Window]]
    BY DEF Wait, Decline
  <1>2. /\ k \in 1..Len(acquired) + 1
        /\ \A i \in 1..k - 1 : acquired[i] + Window <= clock
    BY <1>1, PurgeDropsOld
  <1>n. Len(acquired) \in Nat /\ \A i \in 1..Len(acquired) : acquired[i] \in Nat
    BY <1>t DEF WindowTyped
  <1>3. ~HasRoom(k) => k \in 1..Len(acquired)
    BY <1>2, <1>n, WindowConstants DEF HasRoom
  <1>4. WindowTyped'
    <2>1. Now("idle") \in Waiting
      BY DEF Now, Waiting
    <2>2. ~HasRoom(k) => [at |-> "asleep", until |-> acquired[k] + Window] \in Waiting
      BY <1>3, <1>n, WindowConstants DEF Waiting
    <2>3. waiting' \in [Callers -> Waiting]
      BY <2>1, <2>2, <1>t, <1>1 DEF WindowTyped
    <2>4. QED
      BY <2>3, <1>t, <1>1, <1>2 DEF WindowTyped
  <1>5. DroppedAreOld' /\ NoneIsAhead' /\ StrictWindow'
    BY <1>1, <1>2 DEF WindowInvariant, DroppedAreOld, NoneIsAhead, StrictWindow, Acquisitions
  <1>6. SleepsToAnEnd'
    <2>1. SUFFICES ASSUME NEW d \in Callers, waiting'[d].at = "asleep"
                   PROVE  \E i \in 1..Len(acquired) : waiting'[d].until = acquired[i] + Window
      BY <1>1 DEF SleepsToAnEnd, Acquisitions
    <2>2. CASE waiting'[d] = waiting[d]
      BY <2>1, <2>2 DEF WindowInvariant, SleepsToAnEnd, Acquisitions
    <2>3. CASE ~HasRoom(k) /\ waiting'[d].until = acquired[k] + Window
      BY <2>3, <1>3
    <2>4. QED
      BY <2>1, <2>2, <2>3, <1>1, <1>t DEF WindowTyped, Now, Waiting
  <1>7. QED
    BY <1>4, <1>5, <1>6 DEF WindowInvariant

\* The other steps touch neither the deque nor its timestamps.
LEMMA RestIsHarmless ==
  ASSUME WindowInvariant, UNCHANGED <<acquired, head>>,
         clock' = clock \/ clock' = clock + 1, allowed' \in BOOLEAN,
         WindowTyped',
         \A d \in Callers : waiting'[d].at = "asleep" => waiting'[d] = waiting[d]
  PROVE  WindowInvariant'
  <1>t. WindowTyped
    BY DEF WindowInvariant
  <1>n. Len(acquired) \in Nat /\ \A i \in 1..Len(acquired) : acquired[i] \in Nat
    BY <1>t DEF WindowTyped
  <1>1. DroppedAreOld'
    <2>1. \A i \in 1..head - 1 : i \in 1..Len(acquired)
      BY <1>t DEF WindowTyped
    <2>2. QED
      BY <2>1, <1>t, <1>n, WindowConstants DEF WindowInvariant, WindowTyped, DroppedAreOld
  <1>2. NoneIsAhead'
    BY <1>t, <1>n DEF WindowInvariant, WindowTyped, NoneIsAhead, Acquisitions
  <1>3. StrictWindow' /\ SleepsToAnEnd'
    BY DEF WindowInvariant, StrictWindow, SleepsToAnEnd, Acquisitions
  <1>4. QED
    BY <1>1, <1>2, <1>3 DEF WindowInvariant

\* Every step keeps the invariant.
LEMMA WindowSteps == WindowInvariant /\ [WindowNext]_windowVars => WindowInvariant'
  <1> SUFFICES ASSUME WindowInvariant, [WindowNext]_windowVars
               PROVE  WindowInvariant'
    OBVIOUS
  <1>t. WindowTyped
    BY DEF WindowInvariant
  <1>1. ASSUME NEW c \in Callers, Acquire(c)
        PROVE  WindowInvariant'
    BY <1>1, AcquireIsStrict
  <1>2. ASSUME NEW c \in Callers, Wait(c) \/ Decline(c)
        PROVE  WindowInvariant'
    BY <1>2, PurgeIsHarmless
  <1>3. ASSUME NEW c \in Callers, Ask(c) \/ Wake(c) \/ GiveUp(c)
        PROVE  WindowInvariant'
    <2>1. PICK s \in {"asking", "awake", "idle"} : waiting' = [waiting EXCEPT ![c] = Now(s)]
      BY <1>3 DEF Ask, Wake, GiveUp
    <2>a. Now(s) \in Waiting /\ Now(s).at # "asleep"
      BY DEF Now, Waiting
    <2>2. UNCHANGED <<acquired, head, clock, allowed>>
      BY <1>3 DEF Ask, Wake, GiveUp
    <2>3. WindowTyped'
      BY <2>1, <2>a, <2>2, <1>t DEF WindowTyped
    <2>4. \A d \in Callers : waiting'[d].at = "asleep" => waiting'[d] = waiting[d]
      BY <2>1, <2>a, <1>t DEF WindowTyped
    <2>5. QED
      BY <2>2, <2>3, <2>4, <1>t, RestIsHarmless DEF WindowTyped
  <1>4. CASE Tick \/ Turn \/ UNCHANGED windowVars
    <2>1. WindowTyped'
      <3>1. CASE Tick
        BY <3>1, <1>t DEF Tick, WindowTyped
      <3>2. CASE Turn
        <4>1. allowed' \in BOOLEAN
          BY <3>2 DEF Turn
        <4>2. QED
          BY <4>1, <3>2, <1>t DEF Turn, WindowTyped
      <3>3. CASE UNCHANGED windowVars
        BY <3>3, <1>t DEF windowVars, WindowTyped
      <3>4. QED
        BY <1>4, <3>1, <3>2, <3>3
    <2>2. UNCHANGED <<acquired, head, waiting>> /\ (clock' = clock \/ clock' = clock + 1)
      BY <1>4 DEF Tick, Turn, windowVars
    <2>3. QED
      BY <2>1, <2>2, RestIsHarmless DEF WindowTyped
  <1>5. QED
    BY <1>1, <1>2, <1>3, <1>4 DEF WindowNext, CallerStep

\* In every reachable state the acquisitions keep to the limit in every window,
\* and every sleep ends when one of them leaves it.
THEOREM WindowStaysStrict == WindowSpec => []WindowIsStrict
  <1>1. WindowInvariant => WindowIsStrict
    BY DEF WindowInvariant, WindowIsStrict
  <1>2. QED
    BY <1>1, WindowStarts, WindowSteps, PTL DEF WindowSpec

(***************************************************************************)
(* The messages of the platform.                                            *)
(*                                                                          *)
(* What is shown is never overtaken because three queues in a row keep the  *)
(* order of the calls: the tasks that have not run, the entry of a key, and *)
(* the job of the worker.  The invariant says of each of them that a first  *)
(* attempt in it has no later call of its route ahead of it, and of what    *)
(* was told that it succeeded that nothing earlier hides it.                *)
(***************************************************************************)

HIDE PersistenceAssumption

\* A later call by the same route for the same key.
Later(o, r) == Key[r] = Key[o] /\ Route[r] = Route[o] /\ Before(o, r)

\* Its operation is shown, or it has been told that it succeeded.
Told(r) == shown[Key[r]] = r \/ future[r] = "result" \/ stage[r] = "done"

InQueue(r) == r \in entry[Key[r]].futures

\* A call that never got as far as the queue.
Untried(r) ==
  /\ stage[r] \in {"new", "handed", "launched", "failed", "cancelled"}
  /\ future[r] = "none"
  /\ ~InQueue(r) /\ r \notin job.futures /\ shown[Key[r]] # r

\* The calls that were made, and where a request that was not is.
CallsAreNoted ==
  /\ IsInjective(issued)
  /\ \A r \in Requests : /\ stage[r] = "new" <=> r \notin Range(issued)
                         /\ stage[r] = "new" => Untried(r)
                         /\ future[r] # "none" => stage[r] = "waiting"
                         /\ stage[r] = "backoff" => Route[r] # "await" /\ attempt[r] > 0

\* The tasks that have not run.
TasksAreReady ==
  /\ IsInjective(started)
  /\ \A r \in Requests : /\ r \in Range(started) <=> stage[r] \in {"handed", "launched"}
                         /\ stage[r] = "launched" => Route[r] # "await"
                         /\ stage[r] = "handed" => Route[r] = "task"

\* Who waits for an operation waits for one of its own key, and its request waits too.
JobsAreWhole ==
  /\ \A k \in Keys : /\ entry[k] = NoEntry \/ entry[k].op \in entry[k].futures
                     /\ \A r \in entry[k].futures : Key[r] = k
                     /\ shown[k] # Nothing => Key[shown[k]] = k
  /\ job = NoEntry \/ job.op \in job.futures
  /\ job = NoEntry <=> worker \in {"idle", "ended"}
  /\ \A r \in job.futures : Key[r] = Key[job.op]

\* How far the close has come.
CloseAdvances ==
  /\ \/ closer = "open" /\ closed = {}
     \/ closer = "outbox" /\ closed = {"outbox"}
     \/ closer \in {"worker", "closed"} /\ closed = {"outbox", "limiter"}
  /\ cancelled \/ worker = "ended" => "limiter" \in closed
  /\ "outbox" \in closed => \A r \in Requests : stage[r] # "handed"
  /\ "limiter" \in closed => /\ queue = << >>
                             /\ \A r \in Requests : future[r] # "pending"
  /\ closer = "closed" => /\ worker = "ended"
                          /\ \A r \in Requests : Route[r] # "await" => stage[r] \notin Unfinished

\* Tasks run in the order of their calls: no later call gets ahead of one that has not run.
TasksKeepOrder ==
  \A o \in Range(started), r \in Requests : Later(o, r) =>
    /\ Untried(r)
    /\ r \in Range(started) =>
         \/ stage[o] = "launched" /\ stage[r] = "handed"
         \/ stage[o] = stage[r] /\ Ahead(started, o, r)

\* And no later call gets ahead of a first attempt that is queued or being sent.
QueueKeepsOrder ==
  \A k \in Keys, r \in Requests :
    entry[k].op # Nothing /\ attempt[entry[k].op] = 0 /\ Later(entry[k].op, r) =>
      ~InQueue(r) /\ r \notin job.futures /\ ~Told(r)

WorkerKeepsOrder ==
  \A r \in Requests :
    job.op # Nothing /\ attempt[job.op] = 0 /\ Later(job.op, r) =>
      r \notin job.futures /\ ~Told(r)

\* A request that was told of its success is not hidden by an earlier one.
SuccessIsShown ==
  \A r \in Requests : future[r] = "result" \/ stage[r] = "done" =>
    LET s == shown[Key[r]] IN s # Nothing /\ (Later(s, r) => attempt[s] > 0)

DeliveryInvariant ==
  /\ DeliveryTypeOK /\ WaitersAreServed
  /\ CallsAreNoted /\ TasksAreReady /\ JobsAreWhole /\ CloseAdvances
  /\ TasksKeepOrder /\ QueueKeepsOrder /\ WorkerKeepsOrder /\ SuccessIsShown

-----------------------------------------------------------------------------
\* What the types say of one entry, of the job and of the queues.
LEMMA DeliveryTypes ==
  ASSUME DeliveryTypeOK, JobsAreWhole
  PROVE  /\ \A k \in Keys : /\ entry[k].futures \subseteq Requests
                            /\ entry[k].op \in Requests \cup {Nothing}
                            /\ entry[k].op = Nothing <=> entry[k] = NoEntry
                            /\ entry[k] = NoEntry => entry[k].futures = {}
                            /\ entry[k] # NoEntry => entry[k].op \in entry[k].futures
         /\ job.futures \subseteq Requests
         /\ job.op \in Requests \cup {Nothing}
         /\ job.op = Nothing <=> job = NoEntry
         /\ job = NoEntry => job.futures = {}
         /\ job # NoEntry => job.op \in job.futures
         /\ \A r \in Requests : Key[r] \in Keys
         /\ NoEntry \in Jobs
<1>1. NoEntry \in Jobs /\ NoEntry.op = Nothing /\ NoEntry.futures = {}
  BY DEF NoEntry, Jobs
<1>2. Nothing \notin Requests /\ \A r \in Requests : Key[r] \in Keys
  BY DeliveryAssumption DEF DeliveryAssumption
<1>3. \A k \in Keys : /\ entry[k].futures \subseteq Requests
                      /\ entry[k].op \in Requests \cup {Nothing}
  BY DEF DeliveryTypeOK, Jobs
<1>4. job.futures \subseteq Requests /\ job.op \in Requests \cup {Nothing}
  BY DEF DeliveryTypeOK, Jobs
<1>5. \A k \in Keys : /\ entry[k].op = Nothing <=> entry[k] = NoEntry
                      /\ entry[k] # NoEntry => entry[k].op \in entry[k].futures
  BY <1>1, <1>2, <1>3 DEF JobsAreWhole
<1>6. /\ job.op = Nothing <=> job = NoEntry
      /\ job # NoEntry => job.op \in job.futures
  BY <1>1, <1>2, <1>4 DEF JobsAreWhole
<1> QED
  BY <1>1, <1>2, <1>3, <1>4, <1>5, <1>6

\* Who calls later is not who called earlier, and both have called.
LEMMA LaterIs ==
  ASSUME DeliveryTypeOK, CallsAreNoted, NEW o \in Requests, NEW r \in Requests, Later(o, r)
  PROVE  /\ o # r /\ stage[o] # "new" /\ stage[r] # "new"
         /\ Key[o] = Key[r] /\ Route[o] = Route[r]
<1>1. issued \in Seq(Requests) /\ IsInjective(issued) /\ Ahead(issued, o, r)
  BY DEF DeliveryTypeOK, CallsAreNoted, Later, Before
<1>2. o \in Range(issued) /\ r \in Range(issued) /\ o # r
  BY <1>1, AheadIsStrict
<1> QED
  BY <1>2 DEF CallsAreNoted, Later

\* A request of the tasks that have not run has not been tried.
LEMMA ReadyIs ==
  ASSUME DeliveryTypeOK, TasksAreReady, NEW o \in Range(started)
  PROVE  o \in Requests /\ stage[o] \in {"handed", "launched"} /\ Route[o] # "await"
<1>1. o \in Requests
  BY DEF DeliveryTypeOK, Range
<1> QED
  BY <1>1 DEF TasksAreReady

-----------------------------------------------------------------------------
(* What a call does to the order of the calls and of the tasks.             *)

\* Nothing has been called for, or r has, as the last one.
Noted(r) ==
  /\ issued' \in Seq(Requests) /\ IsInjective(issued')
  /\ Range(issued') = Range(issued) \cup {r}
  /\ \A x, y \in Requests : Before(x, y)' <=>
       Before(x, y) \/ (y = r /\ stage[r] = "new" /\ x \in Range(issued))

\* r no longer waits for its turn.
NotReady(r) ==
  /\ started' \in Seq(Requests) /\ IsInjective(started')
  /\ Range(started') = Range(started) \ {r}
  /\ \A x, y : Ahead(started, x, y) /\ x # r /\ y # r => Ahead(started', x, y)

\* A first call is the last one in the order of the calls.
LEMMA CallIsNoted ==
  ASSUME DeliveryTypeOK, CallsAreNoted, NEW r \in Requests, stage[r] = "new",
         issued' = Append(issued, r)
  PROVE  Noted(r)
<1>1. issued \in Seq(Requests) /\ IsInjective(issued) /\ r \notin Range(issued)
  BY DEF DeliveryTypeOK, CallsAreNoted
<1>2. /\ issued' \in Seq(Requests)
      /\ Range(issued') = Range(issued) \cup {r}
      /\ IsInjective(issued')
      /\ \A x, y : Ahead(issued', x, y) <=> Ahead(issued, x, y) \/ (x \in Range(issued) /\ y = r)
  BY <1>1, BehindTheTail
<1> QED
  BY <1>2 DEF Noted, Before

\* What is not a call leaves their order alone.
LEMMA NothingIsNoted ==
  ASSUME DeliveryTypeOK, CallsAreNoted, NEW r \in Requests, stage[r] # "new",
         issued' = issued
  PROVE  Noted(r)
BY DEF DeliveryTypeOK, CallsAreNoted, Noted, Before

\* Who has no task that waits leaves the tasks alone.
LEMMA NothingIsReady ==
  ASSUME DeliveryTypeOK, TasksAreReady, NEW r \in Requests,
         stage[r] \notin {"handed", "launched"}, started' = started
  PROVE  NotReady(r)
BY DEF DeliveryTypeOK, TasksAreReady, NotReady

\* The task that runs is ahead of every other.
LEMMA HeadIsRun ==
  ASSUME DeliveryTypeOK, TasksAreReady, started # << >>
  PROVE  /\ Head(started) \in Requests /\ Head(started) \in Range(started)
         /\ started' = Tail(started) => NotReady(Head(started))
         /\ \A x : ~Ahead(started, x, Head(started))
<1>1. started \in Seq(Requests) /\ IsInjective(started)
  BY DEF DeliveryTypeOK, TasksAreReady
<1>2. /\ Head(started) \in Requests /\ Head(started) \in Range(started)
      /\ Tail(started) \in Seq(Requests)
      /\ Range(Tail(started)) = Range(started) \ {Head(started)}
      /\ IsInjective(Tail(started))
      /\ \A x : ~Ahead(started, x, Head(started))
      /\ \A x, y : Ahead(started, x, y) /\ x # Head(started) => Ahead(Tail(started), x, y)
  BY <1>1, BehindTheHead
<1> QED
  BY <1>2 DEF NotReady

\* Later calls are the ones there were, and what is called for now.
LEMMA LaterThen ==
  ASSUME NEW r \in Requests, Noted(r), NEW o \in Requests, NEW s \in Requests, Later(o, s)'
  PROVE  Later(o, s) \/ (s = r /\ stage[r] = "new" /\ Key[o] = Key[r] /\ Route[o] = Route[r])
BY DEF Noted, Later

\* A request that cannot be queued fails where it is.
LEMMA FailingKeeps ==
  ASSUME DeliveryInvariant, NEW r \in Requests,
         stage[r] \in {"new", "handed", "launched", "backoff"},
         Stage(r, "failed"), Noted(r), NotReady(r),
         UNCHANGED <<attempt, future, waitlist, work, ending, shown, outages>>
  PROVE  DeliveryInvariant'
<1> USE DEF waitlist, work, ending
<1>0. /\ DeliveryTypeOK /\ CallsAreNoted /\ TasksAreReady /\ JobsAreWhole /\ CloseAdvances
      /\ TasksKeepOrder /\ QueueKeepsOrder /\ WorkerKeepsOrder /\ SuccessIsShown
      /\ WaitersAreServed
  BY DEF DeliveryInvariant
<1>1. /\ stage' \in [Requests -> Stages] /\ stage'[r] = "failed"
      /\ \A s \in Requests \ {r} : stage'[s] = stage[s]
  BY <1>0 DEF DeliveryTypeOK, Stage, Stages
<1>2. future[r] = "none"
  BY <1>0 DEF CallsAreNoted
<1>3. DeliveryTypeOK'
  BY <1>0, <1>1 DEF DeliveryTypeOK, Noted, NotReady
<1>4. WaitersAreServed'
  BY <1>0 DEF WaitersAreServed
<1>5. \A s \in Requests : Untried(s) => Untried(s)'
  BY <1>1, <1>2 DEF Untried, InQueue
<1>6. \A s \in Requests : Told(s)' => Told(s)
  BY <1>1 DEF Told
<1>7. \A s \in Requests : s \in Range(issued)' <=> s \in Range(issued) \/ s = r
  BY DEF Noted
<1>8. CallsAreNoted'
  <2>1. IsInjective(issued)'
    BY DEF Noted
  <2>2. ASSUME NEW s \in Requests
        PROVE  /\ stage'[s] = "new" <=> s \notin Range(issued)'
               /\ stage'[s] = "new" => Untried(s)'
               /\ future'[s] # "none" => stage'[s] = "waiting"
               /\ stage'[s] = "backoff" => Route[s] # "await" /\ attempt'[s] > 0
    BY <1>0, <1>1, <1>2, <1>5, <1>7 DEF CallsAreNoted
  <2> QED
    BY <2>1, <2>2 DEF CallsAreNoted
<1>9. TasksAreReady'
  BY <1>0, <1>1 DEF TasksAreReady, NotReady
<1>10. JobsAreWhole'
  BY <1>0 DEF JobsAreWhole
<1>11. CloseAdvances'
  BY <1>0, <1>1 DEF CloseAdvances, Unfinished
<1>12. TasksKeepOrder'
  <2> SUFFICES ASSUME NEW o \in Range(started)', NEW s \in Requests, Later(o, s)'
               PROVE  /\ Untried(s)'
                      /\ s \in Range(started)' =>
                           \/ stage'[o] = "launched" /\ stage'[s] = "handed"
                           \/ stage'[o] = stage'[s] /\ Ahead(started', o, s)
    BY DEF TasksKeepOrder
  <2>1. o \in Range(started) /\ o # r /\ o \in Requests
    BY <1>0, ReadyIs DEF NotReady
  <2>2. CASE Later(o, s)
    BY <1>0, <1>1, <1>5, <2>1, <2>2 DEF TasksKeepOrder, NotReady
  <2>3. CASE s = r /\ stage[r] = "new"
    BY <1>0, <1>5, <2>3 DEF CallsAreNoted, NotReady
  <2> QED
    BY <2>1, <2>2, <2>3, LaterThen
<1>13. ASSUME NEW s \in Requests, stage[s] = "new"
       PROVE  ~InQueue(s) /\ s \notin job.futures /\ ~Told(s)
  BY <1>0, <1>13 DEF CallsAreNoted, Untried, Told
<1>14. QueueKeepsOrder'
  <2> SUFFICES ASSUME NEW k \in Keys, NEW s \in Requests, entry[k].op # Nothing,
                      attempt[entry[k].op] = 0, Later(entry[k].op, s)'
               PROVE  ~InQueue(s) /\ s \notin job.futures /\ ~Told(s)
    BY <1>6 DEF QueueKeepsOrder, InQueue
  <2>1. entry[k].op \in Requests
    BY <1>0, DeliveryTypes
  <2> QED
    BY <1>0, <1>13, <2>1, LaterThen DEF QueueKeepsOrder
<1>15. WorkerKeepsOrder'
  <2> SUFFICES ASSUME NEW s \in Requests, job.op # Nothing,
                      attempt[job.op] = 0, Later(job.op, s)'
               PROVE  s \notin job.futures /\ ~Told(s)
    BY <1>6 DEF WorkerKeepsOrder
  <2>1. job.op \in Requests
    BY <1>0, DeliveryTypes
  <2> QED
    BY <1>0, <1>13, <2>1, LaterThen DEF WorkerKeepsOrder
<1>16. SuccessIsShown'
  <2> SUFFICES ASSUME NEW s \in Requests, future[s] = "result" \/ stage'[s] = "done"
               PROVE  LET t == shown[Key[s]] IN t # Nothing /\ (Later(t, s)' => attempt[t] > 0)
    BY DEF SuccessIsShown
  <2>1. s # r /\ Told(s) /\ (future[s] = "result" \/ stage[s] = "done")
    BY <1>1, <1>2 DEF Told
  <2>2. shown[Key[s]] # Nothing /\ shown[Key[s]] \in Requests
    BY <1>0, <2>1, DeliveryTypes DEF SuccessIsShown, DeliveryTypeOK
  <2> QED
    BY <1>0, <2>1, <2>2, LaterThen DEF SuccessIsShown
<1> QED
  BY <1>3, <1>4, <1>8, <1>9, <1>10, <1>11, <1>12, <1>14, <1>15, <1>16 DEF DeliveryInvariant

\* A request that is queued takes the place of what its key had: nothing is ahead of it that
\* was called for later, and, on its first attempt, nothing called for later was tried.
LEMMA QueueingKeeps ==
  ASSUME DeliveryInvariant, NEW r \in Requests, LimiterRuns,
         stage[r] \in {"new", "launched", "backoff"},
         Enqueue(r), Noted(r), NotReady(r),
         \A o \in Range(started) \ {r} : ~Later(o, r)',
         attempt[r] = 0 => \A s \in Requests : Later(r, s)' => Untried(s),
         UNCHANGED <<attempt, work, ending, shown, outages>>
  PROVE  DeliveryInvariant'
<1> USE DEF work, ending
<1> DEFINE k == Key[r]
<1>0. /\ DeliveryTypeOK /\ CallsAreNoted /\ TasksAreReady /\ JobsAreWhole /\ CloseAdvances
      /\ TasksKeepOrder /\ QueueKeepsOrder /\ WorkerKeepsOrder /\ SuccessIsShown
      /\ WaitersAreServed
  BY DEF DeliveryInvariant
<1>k. k \in Keys /\ Nothing \notin Requests /\ r # Nothing
  BY DeliveryAssumption DEF DeliveryAssumption
<1>a. /\ entry' = [entry EXCEPT ![k] = [op |-> r, futures |-> entry[k].futures \cup {r}]]
      /\ queue' = IF entry[k] = NoEntry THEN Append(queue, k) ELSE queue
      /\ future' = [future EXCEPT ![r] = "pending"]
      /\ Stage(r, "waiting")
  BY DEF Enqueue
<1> HIDE DEF k
<1>1. /\ stage' \in [Requests -> Stages] /\ stage'[r] = "waiting"
      /\ \A s \in Requests \ {r} : stage'[s] = stage[s]
  BY <1>0, <1>a DEF DeliveryTypeOK, Stage, Stages
<1>2. /\ future' \in [Requests -> {"none", "pending", "result", "cancelled"} \cup Errors]
      /\ future'[r] = "pending"
      /\ \A s \in Requests \ {r} : future'[s] = future[s]
  BY <1>0, <1>a DEF DeliveryTypeOK
<1>3. /\ entry' \in [Keys -> Jobs]
      /\ entry'[k].op = r /\ entry'[k].futures = entry[k].futures \cup {r}
      /\ entry'[k] # NoEntry
      /\ \A l \in Keys \ {k} : entry'[l] = entry[l]
  <2>1. [op |-> r, futures |-> entry[k].futures \cup {r}] \in Jobs
    BY <1>0, <1>k, DeliveryTypes DEF Jobs
  <2> QED
    BY <1>0, <1>a, <1>k, <2>1 DEF DeliveryTypeOK, NoEntry
<1>4. /\ queue' \in Seq(Keys) /\ IsInjective(queue') /\ Range(queue') = Range(queue) \cup {k}
  <2>1. queue \in Seq(Keys) /\ IsInjective(queue) /\ (entry[k] # NoEntry <=> k \in Range(queue))
    BY <1>0, <1>k DEF DeliveryTypeOK, WaitersAreServed
  <2>2. CASE entry[k] = NoEntry
    BY <1>a, <1>k, <2>1, <2>2, BehindTheTail
  <2>3. CASE entry[k] # NoEntry
    BY <1>a, <2>1, <2>3
  <2> QED
    BY <2>2, <2>3
<1>5. DeliveryTypeOK'
  BY <1>0, <1>1, <1>2, <1>3, <1>4 DEF DeliveryTypeOK, Noted, NotReady
<1>6. WaitersAreServed'
  <2>1. ASSUME NEW l \in Keys PROVE entry'[l] # NoEntry <=> l \in Range(queue)'
    BY <1>0, <1>3, <1>4 DEF WaitersAreServed
  <2>2. ASSUME NEW s \in Requests, future'[s] = "pending"
        PROVE  s \in job'.futures \/ s \in entry'[Key[s]].futures
    <3>1. CASE s = r
      BY <1>3, <3>1 DEF k
    <3>2. CASE s # r
      <4>1. s \in job.futures \/ s \in entry[Key[s]].futures
        BY <1>0, <1>2, <2>2, <3>2 DEF WaitersAreServed
      <4>2. Key[s] \in Keys
        BY <1>0, DeliveryTypes
      <4> QED
        BY <1>3, <4>1, <4>2
    <3> QED
      BY <3>1, <3>2
  <2> QED
    BY <1>4, <2>1, <2>2 DEF WaitersAreServed
<1>7. \A s \in Requests : InQueue(s)' <=> InQueue(s) \/ s = r
  BY <1>0, <1>3, DeliveryTypes DEF InQueue, k
<1>8. \A s \in Requests \ {r} : Untried(s) => Untried(s)'
  BY <1>1, <1>2, <1>7 DEF Untried
<1>9. \A s \in Requests : Told(s)' => Told(s)
  BY <1>1, <1>2 DEF Told
<1>10. \A s \in Requests : s \in Range(issued)' <=> s \in Range(issued) \/ s = r
  BY DEF Noted
<1>11. CallsAreNoted'
  <2>1. IsInjective(issued)'
    BY DEF Noted
  <2>2. ASSUME NEW s \in Requests
        PROVE  /\ stage'[s] = "new" <=> s \notin Range(issued)'
               /\ stage'[s] = "new" => Untried(s)'
               /\ future'[s] # "none" => stage'[s] = "waiting"
               /\ stage'[s] = "backoff" => Route[s] # "await" /\ attempt'[s] > 0
    BY <1>0, <1>1, <1>2, <1>8, <1>10 DEF CallsAreNoted
  <2> QED
    BY <2>1, <2>2 DEF CallsAreNoted
<1>12. TasksAreReady'
  BY <1>0, <1>1 DEF TasksAreReady, NotReady
<1>13. JobsAreWhole'
  <2>1. ASSUME NEW l \in Keys
        PROVE  /\ entry'[l] = NoEntry \/ entry'[l].op \in entry'[l].futures
               /\ \A s \in entry'[l].futures : Key[s] = l
               /\ shown'[l] # Nothing => Key[shown'[l]] = l
    BY <1>0, <1>3 DEF JobsAreWhole, k
  <2> QED
    BY <1>0, <2>1 DEF JobsAreWhole
<1>14. CloseAdvances'
  <2>1. "limiter" \notin closed
    BY DEF LimiterRuns
  <2> QED
    BY <1>0, <1>1, <2>1 DEF CloseAdvances
<1>15. TasksKeepOrder'
  <2> SUFFICES ASSUME NEW o \in Range(started)', NEW s \in Requests, Later(o, s)'
               PROVE  /\ Untried(s)'
                      /\ s \in Range(started)' =>
                           \/ stage'[o] = "launched" /\ stage'[s] = "handed"
                           \/ stage'[o] = stage'[s] /\ Ahead(started', o, s)
    BY DEF TasksKeepOrder
  <2>1. o \in Range(started) /\ o # r /\ o \in Requests
    BY <1>0, ReadyIs DEF NotReady
  <2>2. s # r
    BY <2>1
  <2>3. Later(o, s)
    BY <2>1, <2>2, LaterThen
  <2>4. /\ Untried(s)
        /\ s \in Range(started) =>
             \/ stage[o] = "launched" /\ stage[s] = "handed"
             \/ stage[o] = stage[s] /\ Ahead(started, o, s)
    BY <1>0, <2>1, <2>3 DEF TasksKeepOrder
  <2> QED
    BY <1>1, <1>8, <2>1, <2>2, <2>4 DEF NotReady
<1>16. ASSUME NEW s \in Requests, Untried(s)
       PROVE  ~InQueue(s) /\ s \notin job.futures /\ ~Told(s)
  BY <1>16 DEF Untried, Told
<1>17. QueueKeepsOrder'
  <2> SUFFICES ASSUME NEW l \in Keys, NEW s \in Requests, NEW o \in Requests,
                      o = entry'[l].op, attempt[o] = 0, Later(o, s)'
               PROVE  ~InQueue(s)' /\ s \notin job.futures /\ ~Told(s)'
    <3>1. \A l \in Keys : entry'[l].op \in Requests \cup {Nothing}
      BY <1>3 DEF Jobs
    <3> QED
      BY <3>1 DEF QueueKeepsOrder, Later, Before
  <2>1. CASE l = k
    <3>1. o = r
      BY <1>3, <2>1
    <3>2. s # r
      <4>1. issued' \in Seq(Requests) /\ IsInjective(issued')
        BY DEF Noted
      <4>2. Ahead(issued', r, s)
        BY <3>1 DEF Later, Before
      <4> QED
        BY <4>1, <4>2, AheadIsStrict
    <3>3. Untried(s)
      BY <3>1
    <3> QED
      BY <1>7, <1>9, <1>16, <3>2, <3>3
  <2>2. CASE l # k
    <3>1. entry'[l] = entry[l] /\ entry[l].op = o
      BY <1>3, <2>2
    <3>2. entry[l] # NoEntry /\ o \in entry[l].futures /\ o # Nothing
      BY <1>0, <3>1, DeliveryTypes, <1>k
    <3>3. Key[o] = l
      BY <1>0, <3>2 DEF JobsAreWhole
    <3>4. Key[s] = l /\ s # r
      BY <2>2, <3>3 DEF Later, k
    <3>5. Later(o, s)
      BY <3>4, LaterThen
    <3> QED
      BY <1>0, <1>7, <1>9, <3>1, <3>2, <3>4, <3>5 DEF QueueKeepsOrder
  <2> QED
    BY <2>1, <2>2
<1>18. WorkerKeepsOrder'
  <2> SUFFICES ASSUME NEW s \in Requests, job.op # Nothing,
                      attempt[job.op] = 0, Later(job.op, s)'
               PROVE  s \notin job.futures /\ ~Told(s)
    BY <1>9 DEF WorkerKeepsOrder
  <2>1. job.op \in Requests
    BY <1>0, DeliveryTypes
  <2>2. CASE Later(job.op, s)
    BY <1>0, <2>2 DEF WorkerKeepsOrder
  <2>3. CASE s = r /\ stage[r] = "new"
    BY <1>0, <1>16, <2>3 DEF CallsAreNoted
  <2> QED
    BY <2>1, <2>2, <2>3, LaterThen
<1>19. SuccessIsShown'
  <2> SUFFICES ASSUME NEW s \in Requests, future'[s] = "result" \/ stage'[s] = "done"
               PROVE  LET t == shown[Key[s]] IN t # Nothing /\ (Later(t, s)' => attempt[t] > 0)
    BY DEF SuccessIsShown
  <2>1. s # r /\ (future[s] = "result" \/ stage[s] = "done")
    BY <1>1, <1>2
  <2>2. shown[Key[s]] # Nothing /\ shown[Key[s]] \in Requests
    BY <1>0, <2>1, DeliveryTypes DEF SuccessIsShown, DeliveryTypeOK
  <2> QED
    BY <1>0, <2>1, <2>2, LaterThen DEF SuccessIsShown
<1> QED
  BY <1>5, <1>6, <1>11, <1>12, <1>13, <1>14, <1>15, <1>17, <1>18, <1>19 DEF DeliveryInvariant

-----------------------------------------------------------------------------
(* Tasks that are created and run.                                          *)

\* r waits for its turn behind everything else.
GoesToTheBack(r) ==
  /\ started' \in Seq(Requests) /\ IsInjective(started')
  /\ Range(started') = Range(started) \cup {r}
  /\ \A x, y : Ahead(started, x, y) /\ x # r /\ y # r => Ahead(started', x, y)
  /\ \A x \in Range(started) \ {r} : Ahead(started', x, r)

\* A new task comes behind those that are ready.
LEMMA CreatedGoesToTheBack ==
  ASSUME DeliveryTypeOK, TasksAreReady, NEW r \in Requests,
         stage[r] \notin {"handed", "launched"}, started' = Append(started, r)
  PROVE  GoesToTheBack(r)
<1>1. started \in Seq(Requests) /\ IsInjective(started) /\ r \notin Range(started)
  BY DEF DeliveryTypeOK, TasksAreReady
<1>2. /\ started' \in Seq(Requests) /\ IsInjective(started')
      /\ Range(started') = Range(started) \cup {r}
      /\ \A x, y : Ahead(started', x, y) <=>
           Ahead(started, x, y) \/ (x \in Range(started) /\ y = r)
  BY <1>1, BehindTheTail
<1> QED
  BY <1>2 DEF GoesToTheBack

\* And so does a task that is launched when it runs.
LEMMA HeadGoesToTheBack ==
  ASSUME DeliveryTypeOK, TasksAreReady, started # << >>,
         started' = Append(Tail(started), Head(started))
  PROVE  GoesToTheBack(Head(started))
<1> DEFINE r == Head(started)
           t == Tail(started)
<1>1. started \in Seq(Requests) /\ IsInjective(started)
  BY DEF DeliveryTypeOK, TasksAreReady
<1>2. /\ r \in Requests /\ r \in Range(started)
      /\ t \in Seq(Requests)
      /\ Range(t) = Range(started) \ {r}
      /\ IsInjective(t)
      /\ \A x, y : Ahead(started, x, y) /\ x # r => Ahead(t, x, y)
  BY <1>1, BehindTheHead
<1>3. started' = Append(t, r)
  OBVIOUS
<1> HIDE DEF r, t
<1>4. /\ Append(t, r) \in Seq(Requests) /\ IsInjective(Append(t, r))
      /\ Range(Append(t, r)) = Range(t) \cup {r}
      /\ \A x, y : Ahead(Append(t, r), x, y) <=> Ahead(t, x, y) \/ (x \in Range(t) /\ y = r)
  <2>1. r \notin Range(t)
    BY <1>2
  <2> QED
    BY <1>2, <2>1, BehindTheTail
<1>5. GoesToTheBack(r)
  BY <1>2, <1>3, <1>4 DEF GoesToTheBack
<1> QED
  BY <1>5 DEF r

\* A request that waits for its turn, or for another one, has not been tried by this.
LEMMA WaitingForATurnKeeps ==
  ASSUME DeliveryInvariant, NEW r \in Requests, NEW s \in {"handed", "launched"},
         stage[r] \in {"new", "handed"}, "outbox" \notin closed,
         s = "launched" => Route[r] # "await",
         s = "handed" => Route[r] = "task",
         Stage(r, s), Noted(r), GoesToTheBack(r), TasksKeepOrder',
         UNCHANGED <<attempt, future, waitlist, work, ending, shown, outages>>
  PROVE  DeliveryInvariant'
<1> USE DEF waitlist, work, ending
<1>0. /\ DeliveryTypeOK /\ CallsAreNoted /\ TasksAreReady /\ JobsAreWhole /\ CloseAdvances
      /\ TasksKeepOrder /\ QueueKeepsOrder /\ WorkerKeepsOrder /\ SuccessIsShown
      /\ WaitersAreServed
  BY DEF DeliveryInvariant
<1>1. /\ stage' \in [Requests -> Stages] /\ stage'[r] = s
      /\ \A q \in Requests \ {r} : stage'[q] = stage[q]
  BY <1>0 DEF DeliveryTypeOK, Stage, Stages
<1>2. future[r] = "none"
  BY <1>0 DEF CallsAreNoted
<1>3. DeliveryTypeOK'
  BY <1>0, <1>1 DEF DeliveryTypeOK, Noted, GoesToTheBack
<1>4. WaitersAreServed'
  BY <1>0 DEF WaitersAreServed
<1>5. \A q \in Requests : Untried(q) => Untried(q)'
  BY <1>1, <1>2 DEF Untried, InQueue
<1>6. \A q \in Requests : Told(q)' => Told(q)
  BY <1>1 DEF Told
<1>7. \A q \in Requests : q \in Range(issued)' <=> q \in Range(issued) \/ q = r
  BY DEF Noted
<1>8. CallsAreNoted'
  <2>1. IsInjective(issued)'
    BY DEF Noted
  <2>2. ASSUME NEW q \in Requests
        PROVE  /\ stage'[q] = "new" <=> q \notin Range(issued)'
               /\ stage'[q] = "new" => Untried(q)'
               /\ future'[q] # "none" => stage'[q] = "waiting"
               /\ stage'[q] = "backoff" => Route[q] # "await" /\ attempt'[q] > 0
    BY <1>0, <1>1, <1>2, <1>5, <1>7 DEF CallsAreNoted
  <2> QED
    BY <2>1, <2>2 DEF CallsAreNoted
<1>9. TasksAreReady'
  BY <1>0, <1>1 DEF TasksAreReady, GoesToTheBack
<1>10. JobsAreWhole'
  BY <1>0 DEF JobsAreWhole
<1>11. CloseAdvances'
  BY <1>0, <1>1 DEF CloseAdvances
<1>13. ASSUME NEW q \in Requests, stage[q] = "new"
       PROVE  ~InQueue(q) /\ q \notin job.futures /\ ~Told(q)
  BY <1>0, <1>13 DEF CallsAreNoted, Untried, Told
<1>14. QueueKeepsOrder'
  <2> SUFFICES ASSUME NEW k \in Keys, NEW q \in Requests, entry[k].op # Nothing,
                      attempt[entry[k].op] = 0, Later(entry[k].op, q)'
               PROVE  ~InQueue(q) /\ q \notin job.futures /\ ~Told(q)
    BY <1>6 DEF QueueKeepsOrder, InQueue
  <2>1. entry[k].op \in Requests
    BY <1>0, DeliveryTypes
  <2> QED
    BY <1>0, <1>13, <2>1, LaterThen DEF QueueKeepsOrder
<1>15. WorkerKeepsOrder'
  <2> SUFFICES ASSUME NEW q \in Requests, job.op # Nothing,
                      attempt[job.op] = 0, Later(job.op, q)'
               PROVE  q \notin job.futures /\ ~Told(q)
    BY <1>6 DEF WorkerKeepsOrder
  <2>1. job.op \in Requests
    BY <1>0, DeliveryTypes
  <2> QED
    BY <1>0, <1>13, <2>1, LaterThen DEF WorkerKeepsOrder
<1>16. SuccessIsShown'
  <2> SUFFICES ASSUME NEW q \in Requests, future[q] = "result" \/ stage'[q] = "done"
               PROVE  LET t == shown[Key[q]] IN t # Nothing /\ (Later(t, q)' => attempt[t] > 0)
    BY DEF SuccessIsShown
  <2>1. q # r /\ Told(q) /\ (future[q] = "result" \/ stage[q] = "done")
    BY <1>1, <1>2 DEF Told
  <2>2. shown[Key[q]] # Nothing /\ shown[Key[q]] \in Requests
    BY <1>0, <2>1, DeliveryTypes DEF SuccessIsShown, DeliveryTypeOK
  <2> QED
    BY <1>0, <2>1, <2>2, LaterThen DEF SuccessIsShown
<1> QED
  BY <1>3, <1>4, <1>8, <1>9, <1>10, <1>11, <1>14, <1>15, <1>16 DEF DeliveryInvariant

\* A task that is created is the latest of all.
LEMMA CreatedKeepsOrder ==
  ASSUME DeliveryInvariant, NEW r \in Requests, NEW s \in {"handed", "launched"},
         stage[r] = "new", s = "launched" => Route[r] = "forget",
         Stage(r, s), Noted(r), GoesToTheBack(r),
         UNCHANGED <<future, waitlist, work, shown>>
  PROVE  TasksKeepOrder'
<1> USE DEF waitlist, work
<1>0. DeliveryTypeOK /\ CallsAreNoted /\ TasksAreReady /\ TasksKeepOrder
  BY DEF DeliveryInvariant
<1>1. /\ stage' \in [Requests -> Stages] /\ stage'[r] = s
      /\ \A q \in Requests \ {r} : stage'[q] = stage[q]
  BY <1>0 DEF DeliveryTypeOK, Stage, Stages
<1>2. \A q \in Requests : Untried(q) => Untried(q)'
  BY <1>0, <1>1 DEF Untried, InQueue
<1> SUFFICES ASSUME NEW o \in Range(started)', NEW q \in Requests, Later(o, q)'
             PROVE  /\ Untried(q)'
                    /\ q \in Range(started)' =>
                         \/ stage'[o] = "launched" /\ stage'[q] = "handed"
                         \/ stage'[o] = stage'[q] /\ Ahead(started', o, q)
  BY DEF TasksKeepOrder
<1>3. o \in Requests
  BY <1>0, ReadyIs DEF GoesToTheBack
<1>4. o # q
  <2>1. issued' \in Seq(Requests) /\ IsInjective(issued') /\ Ahead(issued', o, q)
    BY DEF Noted, Later, Before
  <2> QED
    BY <2>1, AheadIsStrict
<1>5. CASE Later(o, q)
  <2>1. o # r /\ q # r
    BY <1>0, <1>3, <1>5, LaterIs
  <2>2. o \in Range(started) /\ (q \in Range(started') => q \in Range(started))
    BY <2>1 DEF GoesToTheBack
  <2>3. /\ Untried(q)
        /\ q \in Range(started) =>
             \/ stage[o] = "launched" /\ stage[q] = "handed"
             \/ stage[o] = stage[q] /\ Ahead(started, o, q)
    BY <1>0, <1>5, <2>2 DEF TasksKeepOrder
  <2> QED
    BY <1>1, <1>2, <1>3, <2>1, <2>2, <2>3 DEF GoesToTheBack
<1>6. CASE ~Later(o, q)
  <2>1. q = r /\ Route[o] = Route[r] /\ o # r
    BY <1>3, <1>4, <1>6, LaterThen
  <2>2. o \in Range(started) /\ Ahead(started', o, r)
    BY <2>1 DEF GoesToTheBack
  <2>3. /\ stage[o] \in {"handed", "launched"}
        /\ stage[o] = "handed" => Route[r] = "task"
    BY <1>0, <1>3, <2>1, <2>2 DEF TasksAreReady
  <2>4. Untried(r)
    BY <1>0 DEF CallsAreNoted
  <2> QED
    BY <1>1, <1>2, <1>3, <2>1, <2>2, <2>3, <2>4
<1> QED
  BY <1>5, <1>6

\* A task whose call runs is launched behind those that were launched before.
LEMMA LaunchedKeepsOrder ==
  ASSUME DeliveryInvariant, NEW r \in Requests,
         stage[r] = "handed", \A x : ~Ahead(started, x, r),
         Stage(r, "launched"), issued' = issued, GoesToTheBack(r),
         UNCHANGED <<future, waitlist, work, shown>>
  PROVE  TasksKeepOrder'
<1> USE DEF waitlist, work
<1>0. DeliveryTypeOK /\ CallsAreNoted /\ TasksAreReady /\ TasksKeepOrder
  BY DEF DeliveryInvariant
<1>1. /\ stage' \in [Requests -> Stages] /\ stage'[r] = "launched"
      /\ \A q \in Requests \ {r} : stage'[q] = stage[q]
  BY <1>0 DEF DeliveryTypeOK, Stage, Stages
<1>2. \A q \in Requests : Untried(q) => Untried(q)'
  BY <1>0, <1>1 DEF Untried, InQueue
<1>3. r \in Range(started) /\ Range(started') = Range(started)
  BY <1>0 DEF TasksAreReady, GoesToTheBack
<1> SUFFICES ASSUME NEW o \in Range(started), NEW q \in Requests, Later(o, q)
             PROVE  /\ Untried(q)'
                    /\ q \in Range(started) =>
                         \/ stage'[o] = "launched" /\ stage'[q] = "handed"
                         \/ stage'[o] = stage'[q] /\ Ahead(started', o, q)
  BY <1>3 DEF TasksKeepOrder, Later, Before
<1>4. o \in Requests /\ o # q
  BY <1>0, ReadyIs, LaterIs
<1>5. /\ Untried(q)
      /\ q \in Range(started) =>
           \/ stage[o] = "launched" /\ stage[q] = "handed"
           \/ stage[o] = stage[q] /\ Ahead(started, o, q)
  BY <1>0 DEF TasksKeepOrder
<1>6. CASE q = r
  BY <1>1, <1>2, <1>3, <1>4, <1>5, <1>6 DEF GoesToTheBack
<1>7. CASE o = r
  BY <1>1, <1>2, <1>4, <1>5, <1>7
<1>8. CASE o # r /\ q # r
  BY <1>1, <1>2, <1>4, <1>5, <1>8 DEF GoesToTheBack
<1> QED
  BY <1>6, <1>7, <1>8

-----------------------------------------------------------------------------
(* The steps of a request.                                                  *)

\* A call is noted last, whatever becomes of it.
LEMMA CallKeeps ==
  ASSUME DeliveryInvariant, NEW r \in Requests, Call(r)
  PROVE  DeliveryInvariant'
<1>0. /\ DeliveryTypeOK /\ CallsAreNoted /\ TasksAreReady /\ CloseAdvances
      /\ stage[r] = "new" /\ Noted(r) /\ (started' = started => NotReady(r))
      /\ UNCHANGED <<attempt, work, ending, shown, outages>>
  BY CallIsNoted, NothingIsReady DEF DeliveryInvariant, Call
<1>1. Route[r] \in {"await", "forget", "task"}
  BY DeliveryAssumption DEF DeliveryAssumption
<1>2. CASE "outbox" \in closed \/ (~LimiterRuns /\ Route[r] # "task")
  <2>1. Stage(r, "failed") /\ UNCHANGED <<started, entry, queue, future>>
    BY <1>2 DEF Call
  <2> QED
    BY <1>0, <2>1, FailingKeeps DEF waitlist
<1>3. CASE ~("outbox" \in closed \/ (~LimiterRuns /\ Route[r] # "task"))
  <2>1. CASE Route[r] = "await" /\ Enqueue(r) /\ UNCHANGED started
    <3>1. LimiterRuns
      BY <1>3, <2>1
    <3>2. \A o \in Range(started) \ {r} : ~Later(o, r)'
      BY <1>0, <2>1, ReadyIs DEF Later
    <3>3. ASSUME NEW s \in Requests, Later(r, s)' PROVE FALSE
      <4>1. CASE Later(r, s)
        BY <1>0, <4>1, LaterIs
      <4>2. CASE s = r
        <5>1. issued' \in Seq(Requests) /\ IsInjective(issued') /\ Ahead(issued', r, r)
          BY <1>0, <3>3, <4>2 DEF Noted, Later, Before
        <5> QED
          BY <5>1, AheadIsStrict
      <4> QED
        BY <1>0, <3>3, <4>1, <4>2, LaterThen
    <3> QED
      BY <1>0, <2>1, <3>1, <3>2, <3>3, QueueingKeeps
  <2>2. CASE /\ Route[r] # "await"
             /\ Stage(r, IF Route[r] = "task" THEN "handed" ELSE "launched")
             /\ Create(r)
             /\ UNCHANGED <<entry, queue, future>>
    <3>1. PICK s \in {"handed", "launched"} :
            /\ Stage(r, s)
            /\ s = "launched" => Route[r] = "forget"
            /\ s = "handed" => Route[r] = "task"
      BY <1>1, <2>2
    <3>2. GoesToTheBack(r)
      BY <1>0, <2>2, CreatedGoesToTheBack DEF Create
    <3>3. UNCHANGED <<future, waitlist, work, shown>>
      BY <1>0, <2>2 DEF waitlist
    <3>4. TasksKeepOrder'
      BY <1>0, <3>1, <3>2, <3>3, CreatedKeepsOrder
    <3> QED
      BY <1>0, <1>3, <3>1, <3>2, <3>3, <3>4, WaitingForATurnKeeps
  <2> QED
    BY <1>3, <2>1, <2>2 DEF Call
<1> QED
  BY <1>2, <1>3

\* The task at the head is launched, fails, or is queued.
LEMMA RunTaskKeeps ==
  ASSUME DeliveryInvariant, RunTask
  PROVE  DeliveryInvariant'
<1>0. /\ DeliveryTypeOK /\ CallsAreNoted /\ TasksAreReady /\ CloseAdvances /\ TasksKeepOrder
      /\ started # << >> /\ issued' = issued
      /\ UNCHANGED <<attempt, work, ending, shown, outages>>
  BY DEF DeliveryInvariant, RunTask, deliveryGhosts
<1>h. PICK r \in Requests : r = Head(started)
  BY <1>0, HeadIsRun
<1>1. /\ r \in Requests /\ r \in Range(started)
      /\ started' = Tail(started) => NotReady(r)
      /\ \A x : ~Ahead(started, x, r)
  BY <1>0, <1>h, HeadIsRun
<1>2. stage[r] \in {"handed", "launched"} /\ Route[r] # "await" /\ Noted(r)
  BY <1>0, <1>1, ReadyIs, NothingIsNoted
<1>3. CASE /\ stage[r] = "handed" /\ LimiterRuns
           /\ Stage(r, "launched")
           /\ started' = Append(Tail(started), r)
           /\ UNCHANGED <<entry, queue, future>>
  <2>1. GoesToTheBack(r)
    BY <1>0, <1>3, <1>h, HeadGoesToTheBack
  <2>2. UNCHANGED <<future, waitlist, work, shown>>
    BY <1>0, <1>3 DEF waitlist
  <2>3. TasksKeepOrder'
    BY <1>0, <1>1, <1>3, <2>1, <2>2, LaunchedKeepsOrder
  <2>4. "outbox" \notin closed
    BY <1>0, <1>1, <1>3 DEF CloseAdvances
  <2> QED
    BY <1>0, <1>1, <1>2, <1>3, <2>1, <2>2, <2>3, <2>4, WaitingForATurnKeeps
<1>4. CASE /\ stage[r] = "handed" /\ ~LimiterRuns
           /\ Stage(r, "failed")
           /\ started' = Tail(started)
           /\ UNCHANGED <<entry, queue, future>>
  <2>1. UNCHANGED <<attempt, future, waitlist, work, ending, shown, outages>> /\ NotReady(r)
    BY <1>0, <1>1, <1>4 DEF waitlist
  <2> QED
    BY <1>1, <1>2, <1>4, <2>1, FailingKeeps
<1>5. CASE stage[r] = "launched" /\ Enqueue(r) /\ started' = Tail(started)
  <2>1. NotReady(r)
    BY <1>1, <1>5
  <2>2. CASE LimiterRuns
    <3>1. ASSUME NEW o \in Range(started) \ {r}, Later(o, r)' PROVE FALSE
      <4>1. Later(o, r)
        BY <1>0, <3>1 DEF Later, Before
      <4> QED
        BY <1>0, <1>1, <1>5, <4>1 DEF TasksKeepOrder
    <3>2. ASSUME NEW s \in Requests, Later(r, s)' PROVE Untried(s)
      <4>1. Later(r, s)
        BY <1>0, <3>2 DEF Later, Before
      <4> QED
        BY <1>0, <1>1, <4>1 DEF TasksKeepOrder
    <3> QED
      BY <1>0, <1>1, <1>2, <1>5, <2>1, <2>2, <3>1, <3>2, QueueingKeeps
  <2>3. CASE ~LimiterRuns
    <3>1. Stage(r, "failed") /\ UNCHANGED <<attempt, future, waitlist, work, ending, shown, outages>>
      BY <1>0, <1>5, <2>3 DEF Enqueue, waitlist
    <3> QED
      BY <1>1, <1>2, <1>5, <2>1, <3>1, FailingKeeps
  <2> QED
    BY <2>2, <2>3
<1> QED
  BY <1>3, <1>4, <1>5, <1>h DEF RunTask

\* A retry is not a first attempt.
LEMMA RetryKeeps ==
  ASSUME DeliveryInvariant, NEW r \in Requests, Retry(r)
  PROVE  DeliveryInvariant'
<1>0. /\ DeliveryTypeOK /\ CallsAreNoted /\ TasksAreReady /\ TasksKeepOrder
      /\ stage[r] = "backoff" /\ Enqueue(r) /\ issued' = issued /\ started' = started
      /\ UNCHANGED <<attempt, work, ending, shown, outages>>
  BY DEF DeliveryInvariant, Retry, deliveryGhosts
<1>1. Noted(r) /\ NotReady(r) /\ attempt[r] > 0 /\ attempt[r] # 0
  BY <1>0, NothingIsNoted, NothingIsReady DEF CallsAreNoted
<1>2. CASE LimiterRuns
  <2>1. ASSUME NEW o \in Range(started) \ {r}, Later(o, r)' PROVE FALSE
    <3>1. Later(o, r)
      BY <1>0, <2>1 DEF Later, Before
    <3>2. Untried(r)
      BY <1>0, <3>1 DEF TasksKeepOrder
    <3> QED
      BY <1>0, <3>2 DEF Untried
  <2> QED
    BY <1>0, <1>1, <1>2, <2>1, QueueingKeeps
<1>3. CASE ~LimiterRuns
  <2>1. Stage(r, "failed") /\ UNCHANGED <<attempt, future, waitlist, work, ending, shown, outages>>
    BY <1>0, <1>3 DEF Enqueue, waitlist
  <2> QED
    BY <1>0, <1>1, <2>1, FailingKeeps
<1> QED
  BY <1>2, <1>3

\* A request that waited goes on: nobody else is touched.
LEMMA AnswerKeeps ==
  ASSUME DeliveryInvariant, NEW r \in Requests,
         NEW s \in {"done", "cancelled", "backoff", "failed"},
         stage[r] = "waiting", Stage(r, s),
         future' = [future EXCEPT ![r] = "none"],
         s = "done" => future[r] = "result",
         \/ s # "backoff" /\ attempt' = attempt
         \/ s = "backoff" /\ MayRetry(r) /\ attempt' = [attempt EXCEPT ![r] = @ + 1],
         UNCHANGED <<started, waitlist, work, ending, deliveryGhosts>>
  PROVE  DeliveryInvariant'
<1> USE DEF waitlist, work, ending, deliveryGhosts
<1>0. /\ DeliveryTypeOK /\ CallsAreNoted /\ TasksAreReady /\ JobsAreWhole /\ CloseAdvances
      /\ TasksKeepOrder /\ QueueKeepsOrder /\ WorkerKeepsOrder /\ SuccessIsShown
      /\ WaitersAreServed
  BY DEF DeliveryInvariant
<1>1. /\ stage' \in [Requests -> Stages] /\ stage'[r] = s
      /\ \A q \in Requests \ {r} : stage'[q] = stage[q]
  BY <1>0 DEF DeliveryTypeOK, Stage, Stages
<1>2. /\ future' \in [Requests -> {"none", "pending", "result", "cancelled"} \cup Errors]
      /\ future'[r] = "none"
      /\ \A q \in Requests \ {r} : future'[q] = future[q]
  BY <1>0 DEF DeliveryTypeOK
<1>3. /\ attempt' \in [Requests -> 0..MaxRetries]
      /\ \A q \in Requests : attempt[q] > 0 => attempt'[q] > 0
      /\ \A q \in Requests : attempt'[q] = 0 => attempt[q] = 0
      /\ s = "backoff" => attempt'[r] > 0
  <2>0. attempt \in [Requests -> 0..2] /\ MaxRetries = 2
    BY <1>0 DEF DeliveryTypeOK, MaxRetries
  <2>1. CASE s # "backoff"
    <3>1. attempt' = attempt
      BY <2>1
    <3> QED
      BY <2>0, <2>1, <3>1
  <2>2. CASE s = "backoff"
    <3>1. attempt' = [attempt EXCEPT ![r] = attempt[r] + 1] /\ attempt[r] < 2
      BY <2>0, <2>2 DEF MayRetry
    <3>2. attempt[r] + 1 \in 0..2 /\ attempt[r] + 1 > 0
      BY <2>0, <3>1
    <3>3. attempt'[r] = attempt[r] + 1 /\ \A q \in Requests \ {r} : attempt'[q] = attempt[q]
      BY <2>0, <3>1
    <3> QED
      BY <2>0, <3>1, <3>2, <3>3
  <2> QED
    BY <2>1, <2>2
<1>4. DeliveryTypeOK'
  BY <1>0, <1>1, <1>2, <1>3 DEF DeliveryTypeOK
<1>5. WaitersAreServed'
  BY <1>0, <1>2 DEF WaitersAreServed
<1>6. \A q \in Requests : Untried(q) => q # r /\ Untried(q)'
  BY <1>1, <1>2 DEF Untried, InQueue
<1>7. \A q \in Requests : Told(q)' => Told(q)
  BY <1>1, <1>2 DEF Told
<1>8. \A p, q \in Requests : Later(p, q)' <=> Later(p, q)
  BY DEF Later, Before
<1>9. CallsAreNoted'
  <2>1. ASSUME NEW q \in Requests
        PROVE  /\ stage'[q] = "new" <=> q \notin Range(issued)
               /\ stage'[q] = "new" => Untried(q)'
               /\ future'[q] # "none" => stage'[q] = "waiting"
               /\ stage'[q] = "backoff" => Route[q] # "await" /\ attempt'[q] > 0
    BY <1>0, <1>1, <1>2, <1>3, <1>6 DEF CallsAreNoted, MayRetry
  <2> QED
    BY <1>0, <2>1 DEF CallsAreNoted
<1>10. TasksAreReady'
  BY <1>0, <1>1 DEF TasksAreReady
<1>11. JobsAreWhole'
  BY <1>0 DEF JobsAreWhole
<1>12. CloseAdvances'
  BY <1>0, <1>1, <1>2 DEF CloseAdvances, Unfinished, MayRetry
<1>13. TasksKeepOrder'
  <2> SUFFICES ASSUME NEW o \in Range(started), NEW q \in Requests, Later(o, q)
               PROVE  /\ Untried(q)'
                      /\ q \in Range(started) =>
                           \/ stage'[o] = "launched" /\ stage'[q] = "handed"
                           \/ stage'[o] = stage'[q] /\ Ahead(started, o, q)
    BY DEF TasksKeepOrder, Later, Before
  <2>1. o \in Requests /\ o # r
    BY <1>0, ReadyIs
  <2> QED
    BY <1>0, <1>1, <1>6, <2>1 DEF TasksKeepOrder
<1>14. QueueKeepsOrder'
  <2> SUFFICES ASSUME NEW k \in Keys, NEW q \in Requests, entry[k].op # Nothing,
                      attempt'[entry[k].op] = 0, Later(entry[k].op, q)
               PROVE  ~InQueue(q) /\ q \notin job.futures /\ ~Told(q)
    BY <1>7 DEF QueueKeepsOrder, InQueue, Later, Before
  <2>1. entry[k].op \in Requests
    BY <1>0, DeliveryTypes
  <2> QED
    BY <1>0, <1>3, <2>1 DEF QueueKeepsOrder
<1>15. WorkerKeepsOrder'
  <2> SUFFICES ASSUME NEW q \in Requests, job.op # Nothing,
                      attempt'[job.op] = 0, Later(job.op, q)
               PROVE  q \notin job.futures /\ ~Told(q)
    BY <1>7 DEF WorkerKeepsOrder, Later, Before
  <2>1. job.op \in Requests
    BY <1>0, DeliveryTypes
  <2> QED
    BY <1>0, <1>3, <2>1 DEF WorkerKeepsOrder
<1>16. SuccessIsShown'
  <2> SUFFICES ASSUME NEW q \in Requests, future'[q] = "result" \/ stage'[q] = "done"
               PROVE  LET t == shown[Key[q]] IN t # Nothing /\ (Later(t, q) => attempt'[t] > 0)
    BY DEF SuccessIsShown, Later, Before
  <2>1. future[q] = "result" \/ stage[q] = "done"
    BY <1>1, <1>2
  <2>2. shown[Key[q]] # Nothing /\ shown[Key[q]] \in Requests
    BY <1>0, <2>1, DeliveryTypes DEF SuccessIsShown, DeliveryTypeOK
  <2> QED
    BY <1>0, <1>3, <2>1, <2>2 DEF SuccessIsShown
<1> QED
  BY <1>4, <1>5, <1>9, <1>10, <1>11, <1>12, <1>13, <1>14, <1>15, <1>16 DEF DeliveryInvariant

\* Whatever the future held, the request goes on alone.
LEMMA ResumeKeeps ==
  ASSUME DeliveryInvariant, NEW r \in Requests, Resume(r)
  PROVE  DeliveryInvariant'
<1>0. /\ stage[r] = "waiting" /\ future' = [future EXCEPT ![r] = "none"]
      /\ UNCHANGED <<started, waitlist, work, ending, deliveryGhosts>>
  BY DEF Resume
<1>1. PICK s \in {"done", "cancelled", "backoff", "failed"} :
        /\ Stage(r, s)
        /\ s = "done" => future[r] = "result"
        /\ \/ s # "backoff" /\ attempt' = attempt
           \/ s = "backoff" /\ MayRetry(r) /\ attempt' = [attempt EXCEPT ![r] = @ + 1]
  BY DEF Resume
<1> QED
  BY <1>0, <1>1, AnswerKeeps

\* A caller that is cancelled leaves the operation to the others that wait for it.
LEMMA CancelCallerKeeps ==
  ASSUME DeliveryInvariant, NEW r \in Requests, CancelCaller(r)
  PROVE  DeliveryInvariant'
<1>1. /\ stage[r] = "waiting" /\ future' = [future EXCEPT ![r] = "none"]
      /\ Stage(r, "cancelled") /\ attempt' = attempt
      /\ UNCHANGED <<started, waitlist, work, ending, deliveryGhosts>>
  BY DEF CancelCaller
<1> QED
  BY <1>1, AnswerKeeps

-----------------------------------------------------------------------------
(* The steps of the worker.                                                 *)

\* Settling touches only what is pending.
LEMMA SettledIs ==
  ASSUME DeliveryTypeOK, NEW fs, NEW outcome \in {"result", "cancelled"} \cup Errors,
         future' = Settled(fs, outcome)
  PROVE  /\ future' \in [Requests -> {"none", "pending", "result", "cancelled"} \cup Errors]
         /\ \A r \in Requests :
              /\ future'[r] = "pending" => future[r] = "pending" /\ r \notin fs
              /\ future'[r] = "none" <=> future[r] = "none"
              /\ future'[r] = "result" =>
                   future[r] = "result" \/ (outcome = "result" /\ r \in fs)
BY DEF Settled, DeliveryTypeOK, Errors

\* What neither the calls nor the tasks take part in leaves them as they are.
LEMMA TasksStay ==
  ASSUME DeliveryTypeOK, CallsAreNoted, TasksAreReady, TasksKeepOrder,
         UNCHANGED <<stage, attempt, started, issued>>,
         \A r \in Requests : Untried(r) => Untried(r)',
         \A r \in Requests : future'[r] = "none" <=> future[r] = "none"
  PROVE  CallsAreNoted' /\ TasksAreReady' /\ TasksKeepOrder'
<1>1. CallsAreNoted'
  <2>1. ASSUME NEW r \in Requests
        PROVE  /\ stage[r] = "new" <=> r \notin Range(issued)
               /\ stage[r] = "new" => Untried(r)'
               /\ future'[r] # "none" => stage[r] = "waiting"
               /\ stage[r] = "backoff" => Route[r] # "await" /\ attempt[r] > 0
    BY DEF CallsAreNoted
  <2> QED
    BY <2>1 DEF CallsAreNoted
<1>2. TasksAreReady'
  BY DEF TasksAreReady
<1>3. TasksKeepOrder'
  <2> SUFFICES ASSUME NEW o \in Range(started), NEW r \in Requests, Later(o, r)
               PROVE  /\ Untried(r)'
                      /\ r \in Range(started) =>
                           \/ stage[o] = "launched" /\ stage[r] = "handed"
                           \/ stage[o] = stage[r] /\ Ahead(started, o, r)
    BY DEF TasksKeepOrder, Later, Before
  <2> QED
    BY DEF TasksKeepOrder
<1> QED
  BY <1>1, <1>2, <1>3

\* The job that is taken is no longer queued.
LEMMA TakeKeeps ==
  ASSUME DeliveryInvariant, Take
  PROVE  DeliveryInvariant'
<1>0. /\ DeliveryTypeOK /\ CallsAreNoted /\ TasksAreReady /\ JobsAreWhole /\ CloseAdvances
      /\ TasksKeepOrder /\ QueueKeepsOrder /\ WorkerKeepsOrder /\ SuccessIsShown
      /\ WaitersAreServed
  BY DEF DeliveryInvariant
<1>1. /\ worker = "idle" /\ queue # << >> /\ ~cancelled
      /\ queue' = Tail(queue)
      /\ worker' \in {"paused", "window"}
      /\ UNCHANGED <<stage, attempt, future, started, paused, cancelled, closed, closer,
                     issued, shown, outages>>
  BY DEF Take, tasks, ending, deliveryGhosts
<1>2. queue \in Seq(Keys) /\ IsInjective(queue)
  BY <1>0 DEF DeliveryTypeOK, WaitersAreServed
<1>3. PICK k \in Keys : k = Head(queue) /\ k \in Range(queue)
  BY <1>1, <1>2, BehindTheHead
<1>4. /\ queue' \in Seq(Keys) /\ IsInjective(queue') /\ Range(queue') = Range(queue) \ {k}
  BY <1>1, <1>2, <1>3, BehindTheHead
<1>5. job' = entry[k] /\ entry' = [entry EXCEPT ![k] = NoEntry]
  BY <1>3 DEF Take
<1>6. /\ entry[k] # NoEntry /\ job = NoEntry /\ job.futures = {}
      /\ entry[k].op \in Requests /\ entry[k].op \in entry[k].futures
      /\ NoEntry \in Jobs /\ NoEntry.op = Nothing /\ NoEntry.futures = {}
      /\ \A r \in Requests : Key[r] \in Keys
  BY <1>0, <1>1, <1>3, DeliveryTypes DEF WaitersAreServed, JobsAreWhole, NoEntry
<1>7. /\ entry' \in [Keys -> Jobs] /\ entry'[k] = NoEntry
      /\ \A l \in Keys \ {k} : entry'[l] = entry[l]
  BY <1>0, <1>5, <1>6 DEF DeliveryTypeOK
<1>8. \A r \in entry[k].futures : r \in Requests /\ Key[r] = k
  BY <1>0, <1>6, DeliveryTypes DEF JobsAreWhole
<1>9. DeliveryTypeOK'
  BY <1>0, <1>1, <1>4, <1>5, <1>7 DEF DeliveryTypeOK
<1>10. \A r \in Requests : InQueue(r) \/ r \in job.futures <=> InQueue(r)' \/ r \in job'.futures
  BY <1>5, <1>6, <1>7, <1>8 DEF InQueue
<1>11. WaitersAreServed'
  <2>1. ASSUME NEW l \in Keys PROVE entry'[l] # NoEntry <=> l \in Range(queue')
    BY <1>0, <1>4, <1>7 DEF WaitersAreServed
  <2>2. ASSUME NEW r \in Requests, future'[r] = "pending"
        PROVE  r \in job'.futures \/ r \in entry'[Key[r]].futures
    BY <1>0, <1>1, <1>10, <2>2 DEF WaitersAreServed, InQueue
  <2> QED
    BY <1>4, <2>1, <2>2 DEF WaitersAreServed
<1>12. \A r \in Requests : Untried(r) => Untried(r)'
  BY <1>1, <1>10 DEF Untried
<1>13. CallsAreNoted' /\ TasksAreReady' /\ TasksKeepOrder'
  BY <1>0, <1>1, <1>12, TasksStay
<1>14. JobsAreWhole'
  <2>1. ASSUME NEW l \in Keys
        PROVE  /\ entry'[l] = NoEntry \/ entry'[l].op \in entry'[l].futures
               /\ \A r \in entry'[l].futures : Key[r] = l
               /\ shown'[l] # Nothing => Key[shown'[l]] = l
    BY <1>0, <1>1, <1>6, <1>7 DEF JobsAreWhole
  <2> QED
    BY <1>1, <1>5, <1>6, <1>8, <2>1 DEF JobsAreWhole
<1>15. CloseAdvances'
  BY <1>0, <1>1 DEF CloseAdvances
<1>16. \A r \in Requests : Told(r)' <=> Told(r)
  BY <1>1 DEF Told
<1>17. QueueKeepsOrder'
  <2> SUFFICES ASSUME NEW l \in Keys, NEW r \in Requests, NEW o \in Requests,
                      o = entry'[l].op, attempt[o] = 0, Later(o, r)
               PROVE  ~InQueue(r)' /\ r \notin job'.futures /\ ~Told(r)
    <3>1. \A l \in Keys : entry'[l].op \in Requests \cup {Nothing}
      BY <1>7 DEF Jobs
    <3> QED
      BY <1>1, <1>16, <3>1 DEF QueueKeepsOrder, Later, Before
  <2>1. Nothing \notin Requests
    BY DeliveryAssumption DEF DeliveryAssumption
  <2>2. l # k /\ entry[l].op = o
    BY <1>6, <1>7, <2>1
  <2>3. ~InQueue(r) /\ r \notin job.futures /\ ~Told(r)
    BY <1>0, <2>1, <2>2 DEF QueueKeepsOrder
  <2> QED
    BY <1>10, <2>3
<1>18. WorkerKeepsOrder'
  <2> SUFFICES ASSUME NEW r \in Requests, attempt[entry[k].op] = 0, Later(entry[k].op, r)
               PROVE  r \notin entry[k].futures /\ ~Told(r)
    BY <1>1, <1>5, <1>16 DEF WorkerKeepsOrder, Later, Before
  <2>1. Nothing \notin Requests
    BY DeliveryAssumption DEF DeliveryAssumption
  <2>2. ~InQueue(r) /\ ~Told(r)
    BY <1>0, <1>6, <2>1 DEF QueueKeepsOrder
  <2> QED
    BY <1>8, <2>2 DEF InQueue
<1>19. SuccessIsShown'
  BY <1>0, <1>1 DEF SuccessIsShown, Later, Before
<1> QED
  BY <1>9, <1>11, <1>13, <1>14, <1>15, <1>17, <1>18, <1>19 DEF DeliveryInvariant

\* Time and room change nothing but where the worker is.
LEMMA WorkerGoesOnKeeps ==
  ASSUME DeliveryInvariant, PauseEnds \/ Admit
  PROVE  DeliveryInvariant'
<1>0. /\ DeliveryTypeOK /\ CallsAreNoted /\ TasksAreReady /\ JobsAreWhole /\ CloseAdvances
      /\ TasksKeepOrder /\ QueueKeepsOrder /\ WorkerKeepsOrder /\ SuccessIsShown
      /\ WaitersAreServed
  BY DEF DeliveryInvariant
<1>1. /\ UNCHANGED <<stage, attempt, future, started, queue, entry, job, cancelled, closed,
                     closer, issued, shown, outages>>
      /\ paused' \in BOOLEAN
      /\ worker' = worker \/ (worker \in {"paused", "window"} /\ worker' \in {"window", "sending"})
  BY <1>0 DEF PauseEnds, Admit, tasks, waitlist, ending, deliveryGhosts, DeliveryTypeOK
<1>2. DeliveryTypeOK'
  BY <1>0, <1>1 DEF DeliveryTypeOK
<1>3. WaitersAreServed'
  BY <1>0, <1>1 DEF WaitersAreServed
<1>4. \A r \in Requests : Untried(r) => Untried(r)'
  BY <1>1 DEF Untried, InQueue
<1>5. CallsAreNoted' /\ TasksAreReady' /\ TasksKeepOrder'
  BY <1>0, <1>1, <1>4, TasksStay
<1>6. JobsAreWhole' /\ CloseAdvances'
  BY <1>0, <1>1 DEF JobsAreWhole, CloseAdvances
<1>7. QueueKeepsOrder' /\ WorkerKeepsOrder' /\ SuccessIsShown'
  BY <1>0, <1>1 DEF QueueKeepsOrder, WorkerKeepsOrder, SuccessIsShown, Later, Before, InQueue, Told
<1> QED
  BY <1>2, <1>3, <1>5, <1>6, <1>7 DEF DeliveryInvariant

\* A job that ends without success settles its futures and shows nothing.
LEMMA FailureKeeps ==
  ASSUME DeliveryInvariant, NEW outcome \in {"cancelled"} \cup Errors,
         future' = Settled(job.futures, outcome), job' = NoEntry,
         worker' = IF "limiter" \in closed THEN "ended" ELSE "idle",
         paused' \in BOOLEAN, outages' \in 0..MaxOutages,
         UNCHANGED <<stage, attempt, started, waitlist, cancelled, ending, issued, shown>>
  PROVE  DeliveryInvariant'
<1> USE DEF waitlist, ending
<1>0. /\ DeliveryTypeOK /\ CallsAreNoted /\ TasksAreReady /\ JobsAreWhole /\ CloseAdvances
      /\ TasksKeepOrder /\ QueueKeepsOrder /\ WorkerKeepsOrder /\ SuccessIsShown
      /\ WaitersAreServed
  BY DEF DeliveryInvariant
<1>1. /\ future' \in [Requests -> {"none", "pending", "result", "cancelled"} \cup Errors]
      /\ \A r \in Requests :
           /\ future'[r] = "pending" => future[r] = "pending" /\ r \notin job.futures
           /\ future'[r] = "none" <=> future[r] = "none"
           /\ future'[r] = "result" => future[r] = "result"
  BY <1>0, SettledIs DEF Errors
<1>2. NoEntry \in Jobs /\ NoEntry.op = Nothing /\ NoEntry.futures = {}
  BY DEF NoEntry, Jobs
<1>3. DeliveryTypeOK'
  BY <1>0, <1>1, <1>2 DEF DeliveryTypeOK
<1>4. WaitersAreServed'
  BY <1>0, <1>1 DEF WaitersAreServed
<1>5. \A r \in Requests : Untried(r) => Untried(r)'
  BY <1>0, <1>1, <1>2 DEF Untried, InQueue, DeliveryTypeOK
<1>6. CallsAreNoted' /\ TasksAreReady' /\ TasksKeepOrder'
  BY <1>0, <1>1, <1>5, TasksStay
<1>7. JobsAreWhole' /\ CloseAdvances'
  BY <1>0, <1>1, <1>2 DEF JobsAreWhole, CloseAdvances
<1>8. \A r \in Requests : Told(r)' => Told(r)
  BY <1>1 DEF Told
<1>9. QueueKeepsOrder'
  BY <1>0, <1>2, <1>8 DEF QueueKeepsOrder, Later, Before, InQueue
<1>10. WorkerKeepsOrder'
  BY <1>2 DEF WorkerKeepsOrder
<1>11. SuccessIsShown'
  BY <1>0, <1>1 DEF SuccessIsShown, Later, Before
<1> QED
  BY <1>3, <1>4, <1>6, <1>7, <1>9, <1>10, <1>11 DEF DeliveryInvariant

\* An operation that fails or is cancelled leaves the worker to the next one.
LEMMA SendFailsKeeps ==
  ASSUME DeliveryInvariant, SendFails \/ SendIsCancelled
  PROVE  DeliveryInvariant'
<1>0. outages \in 0..MaxOutages /\ MaxOutages \in Nat /\ paused \in BOOLEAN
  BY DeliveryAssumption DEF DeliveryInvariant, DeliveryTypeOK, DeliveryAssumption
<1>1. /\ outages < MaxOutages /\ outages' = outages + 1 /\ paused' \in BOOLEAN
      /\ UNCHANGED <<cancelled, shown>>
      /\ \E outcome \in {"cancelled"} \cup Errors : Finish(outcome)
  BY <1>0 DEF SendFails, SendIsCancelled
<1>2. outages' \in 0..MaxOutages
  BY <1>0, <1>1
<1>3. PICK outcome \in {"cancelled"} \cup Errors : Finish(outcome)
  BY <1>1
<1> QED
  BY <1>1, <1>2, <1>3, FailureKeeps DEF Finish

\* The worker is cancelled by the shutdown alone.
LEMMA WorkerEndsKeeps ==
  ASSUME DeliveryInvariant, WorkerEnds
  PROVE  DeliveryInvariant'
<1>1. "limiter" \in closed
  BY DEF DeliveryInvariant, CloseAdvances, WorkerEnds
<1>2. paused' \in BOOLEAN /\ outages' \in 0..MaxOutages
  BY DEF DeliveryInvariant, DeliveryTypeOK, WorkerEnds, deliveryGhosts
<1> QED
  BY <1>1, <1>2, FailureKeeps DEF WorkerEnds, deliveryGhosts

\* An operation that succeeds hides nothing that was called for later.
LEMMA SendSucceedsKeeps ==
  ASSUME DeliveryInvariant, SendSucceeds
  PROVE  DeliveryInvariant' /\ NothingOlderIsShown
<1>0. /\ DeliveryTypeOK /\ CallsAreNoted /\ TasksAreReady /\ JobsAreWhole /\ CloseAdvances
      /\ TasksKeepOrder /\ QueueKeepsOrder /\ WorkerKeepsOrder /\ SuccessIsShown
      /\ WaitersAreServed
  BY DEF DeliveryInvariant
<1>1. /\ worker = "sending" /\ future' = Settled(job.futures, "result") /\ job' = NoEntry
      /\ worker' = IF "limiter" \in closed THEN "ended" ELSE "idle"
      /\ UNCHANGED <<stage, attempt, started, queue, entry, closed, closer, issued, paused,
                     cancelled, outages>>
  BY DEF SendSucceeds, Finish, waitlist, ending
<1>2. /\ future' \in [Requests -> {"none", "pending", "result", "cancelled"} \cup Errors]
      /\ \A r \in Requests :
           /\ future'[r] = "pending" => future[r] = "pending" /\ r \notin job.futures
           /\ future'[r] = "none" <=> future[r] = "none"
           /\ future'[r] = "result" => future[r] = "result" \/ r \in job.futures
  BY <1>0, <1>1, SettledIs
<1>3. PICK o \in Requests : o = job.op /\ o \in job.futures
  BY <1>0, <1>1, DeliveryTypes DEF JobsAreWhole
<1>4. /\ shown' = [shown EXCEPT ![Key[o]] = o]
      /\ o # Nothing /\ \A r \in Requests : Key[r] \in Keys
  BY <1>3, DeliveryAssumption DEF SendSucceeds, DeliveryAssumption
<1>5. /\ shown' \in [Keys -> Requests \cup {Nothing}]
      /\ shown'[Key[o]] = o
      /\ \A k \in Keys \ {Key[o]} : shown'[k] = shown[k]
  BY <1>0, <1>4 DEF DeliveryTypeOK
<1>6. NoEntry \in Jobs /\ NoEntry.op = Nothing /\ NoEntry.futures = {}
  BY DEF NoEntry, Jobs
<1>7. \A r \in job.futures : r \in Requests /\ Key[r] = Key[o]
  BY <1>0, <1>3, DeliveryTypes DEF JobsAreWhole
<1>8. DeliveryTypeOK'
  BY <1>0, <1>1, <1>2, <1>5, <1>6 DEF DeliveryTypeOK
<1>9. WaitersAreServed'
  BY <1>0, <1>1, <1>2 DEF WaitersAreServed
<1>10. \A r \in Requests : shown'[Key[r]] = r => shown[Key[r]] = r \/ r \in job.futures
  BY <1>3, <1>4, <1>5
<1>11. \A r \in Requests : Untried(r) => Untried(r)'
  <2> SUFFICES ASSUME NEW r \in Requests, Untried(r) PROVE Untried(r)'
    OBVIOUS
  <2>1. shown'[Key[r]] # r
    BY <1>10 DEF Untried
  <2>2. future'[r] = "none"
    BY <1>2 DEF Untried
  <2> QED
    BY <1>1, <1>6, <2>1, <2>2 DEF Untried, InQueue
<1>12. CallsAreNoted' /\ TasksAreReady' /\ TasksKeepOrder'
  BY <1>0, <1>1, <1>2, <1>11, TasksStay
<1>13. JobsAreWhole'
  <2>1. ASSUME NEW k \in Keys
        PROVE  /\ entry[k] = NoEntry \/ entry[k].op \in entry[k].futures
               /\ \A r \in entry[k].futures : Key[r] = k
               /\ shown'[k] # Nothing => Key[shown'[k]] = k
    BY <1>0, <1>5 DEF JobsAreWhole
  <2> QED
    BY <1>1, <1>6, <2>1 DEF JobsAreWhole
<1>14. CloseAdvances'
  BY <1>0, <1>1, <1>2 DEF CloseAdvances
<1>15. \A r \in Requests : Told(r)' => Told(r) \/ r \in job.futures
  BY <1>1, <1>2, <1>10 DEF Told
<1>16. QueueKeepsOrder'
  <2> SUFFICES ASSUME NEW k \in Keys, NEW r \in Requests, entry[k].op # Nothing,
                      attempt[entry[k].op] = 0, Later(entry[k].op, r)
               PROVE  ~InQueue(r) /\ r \notin NoEntry.futures /\ ~Told(r)'
    BY <1>1 DEF QueueKeepsOrder, Later, Before, InQueue
  <2>1. ~InQueue(r) /\ r \notin job.futures /\ ~Told(r)
    BY <1>0 DEF QueueKeepsOrder
  <2> QED
    BY <1>6, <1>15, <2>1
<1>17. WorkerKeepsOrder'
  BY <1>1, <1>6 DEF WorkerKeepsOrder
<1>18. \A r \in Requests : attempt[o] = 0 /\ Later(o, r) => r \notin job.futures /\ ~Told(r)
  BY <1>0, <1>3, <1>4 DEF WorkerKeepsOrder
<1>19. SuccessIsShown'
  <2> SUFFICES ASSUME NEW r \in Requests, future'[r] = "result" \/ stage[r] = "done"
               PROVE  LET s == shown'[Key[r]] IN s # Nothing /\ (Later(s, r) => attempt[s] > 0)
    BY <1>1 DEF SuccessIsShown, Later, Before
  <2>1. (future[r] = "result" \/ stage[r] = "done") \/ r \in job.futures
    BY <1>2
  <2>2. CASE Key[r] = Key[o]
    <3>1. attempt[o] \in 0..MaxRetries
      BY <1>0 DEF DeliveryTypeOK
    <3>2. Later(o, r) => attempt[o] # 0
      BY <1>18, <2>1 DEF Told
    <3> QED
      BY <1>4, <1>5, <2>2, <3>1, <3>2
  <2>3. CASE Key[r] # Key[o]
    <3>1. shown'[Key[r]] = shown[Key[r]] /\ r \notin job.futures
      BY <1>4, <1>5, <1>7, <2>3
    <3> QED
      BY <1>0, <2>1, <3>1 DEF SuccessIsShown
  <2> QED
    BY <2>2, <2>3
<1>20. NothingOlderIsShown
  <2> SUFFICES ASSUME NEW k \in Keys, Before(shown'[k], shown[k])
               PROVE  attempt[shown'[k]] > 0 \/ Route[shown'[k]] # Route[shown[k]]
    BY DEF NothingOlderIsShown
  <2>1. issued \in Seq(Requests) /\ IsInjective(issued)
    BY <1>0 DEF DeliveryTypeOK, CallsAreNoted
  <2>2. /\ shown'[k] \in Range(issued) /\ shown[k] \in Range(issued)
        /\ shown'[k] # shown[k]
    BY <2>1, AheadIsStrict DEF Before
  <2>3. shown[k] \in Requests /\ shown[k] # Nothing
    BY <2>1, <2>2, <1>4, DeliveryAssumption DEF Range, DeliveryAssumption
  <2>4. k = Key[o] /\ shown'[k] = o /\ Key[shown[k]] = k
    BY <1>0, <1>5, <2>2, <2>3 DEF JobsAreWhole
  <2>5. Told(shown[k])
    BY <2>4 DEF Told
  <2>6. CASE Route[shown[k]] = Route[o]
    <3>1. Later(o, shown[k])
      BY <2>4, <2>6 DEF Later
    <3>2. attempt[o] # 0 /\ attempt[o] \in 0..MaxRetries
      BY <1>0, <1>18, <2>3, <2>5, <3>1 DEF DeliveryTypeOK
    <3> QED
      BY <2>4, <3>2
  <2> QED
    BY <2>4, <2>6
<1> QED
  BY <1>8, <1>9, <1>12, <1>13, <1>14, <1>16, <1>17, <1>19, <1>20 DEF DeliveryInvariant

-----------------------------------------------------------------------------
(* The close.                                                               *)

\* The calls that were handed over and have not run are taken out of the tasks.
LEMMA CloseOutboxKeeps ==
  ASSUME DeliveryInvariant, CloseOutbox
  PROVE  DeliveryInvariant'
<1> DEFINE handed == {r \in Requests : stage[r] = "handed"}
<1>0. /\ DeliveryTypeOK /\ CallsAreNoted /\ TasksAreReady /\ JobsAreWhole /\ CloseAdvances
      /\ TasksKeepOrder /\ QueueKeepsOrder /\ WorkerKeepsOrder /\ SuccessIsShown
      /\ WaitersAreServed
  BY DEF DeliveryInvariant
<1>1. /\ closer = "open" /\ closed' = {"outbox"} /\ closer' = "outbox"
      /\ stage' = [r \in Requests |-> IF stage[r] = "handed" THEN "cancelled" ELSE stage[r]]
      /\ started' = Dequeued(started, handed)
      /\ UNCHANGED <<attempt, future, queue, entry, worker, job, paused, cancelled, issued, shown,
                     outages>>
  BY DEF CloseOutbox, waitlist, work, deliveryGhosts
<1>2. started \in Seq(Requests) /\ IsInjective(started)
  BY <1>0 DEF DeliveryTypeOK, TasksAreReady
<1>3. /\ started' \in Seq(Requests) /\ IsInjective(started')
      /\ Range(started') = Range(started) \ handed
      /\ \A x, y : Ahead(started, x, y) /\ x \notin handed /\ y \notin handed => Ahead(started', x, y)
  BY <1>1, <1>2, RestOfAQueue
<1>4. /\ stage' \in [Requests -> Stages]
      /\ \A r \in Requests :
           /\ stage[r] = "handed" => stage'[r] = "cancelled"
           /\ stage[r] # "handed" => stage'[r] = stage[r]
  BY <1>0, <1>1 DEF DeliveryTypeOK, Stages
<1>5. DeliveryTypeOK'
  BY <1>0, <1>1, <1>3, <1>4 DEF DeliveryTypeOK
<1>6. WaitersAreServed'
  BY <1>0, <1>1 DEF WaitersAreServed
<1>7. \A r \in Requests : Untried(r) => Untried(r)'
  BY <1>1, <1>4 DEF Untried, InQueue
<1>8. CallsAreNoted'
  <2>1. ASSUME NEW r \in Requests
        PROVE  /\ stage'[r] = "new" <=> r \notin Range(issued)
               /\ stage'[r] = "new" => Untried(r)'
               /\ future[r] # "none" => stage'[r] = "waiting"
               /\ stage'[r] = "backoff" => Route[r] # "await" /\ attempt[r] > 0
    BY <1>0, <1>4, <1>7 DEF CallsAreNoted
  <2> QED
    BY <1>0, <1>1, <2>1 DEF CallsAreNoted
<1>9. TasksAreReady'
  <2>1. ASSUME NEW r \in Requests
        PROVE  /\ r \in Range(started') <=> stage'[r] \in {"handed", "launched"}
               /\ stage'[r] = "launched" => Route[r] # "await"
               /\ stage'[r] = "handed" => Route[r] = "task"
    BY <1>0, <1>3, <1>4 DEF TasksAreReady
  <2> QED
    BY <1>3, <2>1 DEF TasksAreReady
<1>10. JobsAreWhole' /\ CloseAdvances'
  BY <1>0, <1>1, <1>4 DEF JobsAreWhole, CloseAdvances
<1>11. TasksKeepOrder'
  <2> SUFFICES ASSUME NEW o \in Range(started'), NEW r \in Requests, Later(o, r)
               PROVE  /\ Untried(r)'
                      /\ r \in Range(started') =>
                           \/ stage'[o] = "launched" /\ stage'[r] = "handed"
                           \/ stage'[o] = stage'[r] /\ Ahead(started', o, r)
    BY <1>1 DEF TasksKeepOrder, Later, Before
  <2>1. o \in Range(started) /\ o \in Requests /\ o \notin handed /\ stage'[o] = stage[o]
    BY <1>0, <1>3, <1>4, ReadyIs
  <2>2. Untried(r)'
    BY <1>0, <1>7, <2>1 DEF TasksKeepOrder
  <2>3. ASSUME r \in Range(started') PROVE stage'[o] = stage'[r] /\ Ahead(started', o, r)
    <3>1. r \in Range(started) /\ r \notin handed /\ stage'[r] = stage[r] /\ stage[r] # "handed"
      BY <1>3, <1>4, <2>3
    <3>2. stage[o] = stage[r] /\ Ahead(started, o, r)
      BY <1>0, <2>1, <3>1 DEF TasksKeepOrder
    <3> QED
      BY <1>3, <2>1, <3>1, <3>2
  <2> QED
    BY <2>2, <2>3
<1>12. \A r \in Requests : Told(r)' => Told(r)
  BY <1>1, <1>4 DEF Told
<1>13. QueueKeepsOrder' /\ WorkerKeepsOrder'
  BY <1>0, <1>1, <1>12 DEF QueueKeepsOrder, WorkerKeepsOrder, Later, Before, InQueue
<1>14. SuccessIsShown'
  BY <1>0, <1>1, <1>4 DEF SuccessIsShown, Later, Before
<1> QED
  BY <1>5, <1>6, <1>8, <1>9, <1>10, <1>11, <1>13, <1>14 DEF DeliveryInvariant

\* Whoever waits is told, and nothing is queued any more.
LEMMA ShutdownKeeps ==
  ASSUME DeliveryInvariant, Shutdown
  PROVE  DeliveryInvariant'
<1>0. /\ DeliveryTypeOK /\ CallsAreNoted /\ TasksAreReady /\ JobsAreWhole /\ CloseAdvances
      /\ TasksKeepOrder /\ QueueKeepsOrder /\ WorkerKeepsOrder /\ SuccessIsShown
      /\ WaitersAreServed
  BY DEF DeliveryInvariant
<1>1. /\ closer = "outbox" /\ closed' = closed \cup {"limiter"} /\ closer' = "worker"
      /\ future' = Settled(Queued \cup job.futures, "cancelled")
      /\ queue' = << >> /\ entry' = [k \in Keys |-> NoEntry] /\ cancelled' = TRUE
      /\ UNCHANGED <<stage, attempt, started, worker, job, paused, issued, shown, outages>>
  BY DEF Shutdown, deliveryGhosts
<1>2. /\ future' \in [Requests -> {"none", "pending", "result", "cancelled"} \cup Errors]
      /\ \A r \in Requests :
           /\ future'[r] = "pending" => future[r] = "pending" /\ r \notin Queued \cup job.futures
           /\ future'[r] = "none" <=> future[r] = "none"
           /\ future'[r] = "result" => future[r] = "result"
  <2> DEFINE fs == Queued \cup job.futures
  <2>1. future' = Settled(fs, "cancelled")
    BY <1>1
  <2> HIDE DEF fs
  <2>2. /\ future' \in [Requests -> {"none", "pending", "result", "cancelled"} \cup Errors]
        /\ \A r \in Requests :
             /\ future'[r] = "pending" => future[r] = "pending" /\ r \notin fs
             /\ future'[r] = "none" <=> future[r] = "none"
             /\ future'[r] = "result" => future[r] = "result"
    BY <1>0, <2>1, SettledIs
  <2> QED
    BY <2>2 DEF fs
<1>3. \A r \in Requests : future'[r] # "pending"
  <2> SUFFICES ASSUME NEW r \in Requests, future'[r] = "pending" PROVE FALSE
    OBVIOUS
  <2>1. r \in job.futures \/ r \in entry[Key[r]].futures
    BY <1>0, <1>2 DEF WaitersAreServed
  <2>2. Key[r] \in Keys
    BY <1>0, DeliveryTypes
  <2> QED
    BY <1>2, <2>1, <2>2 DEF Queued
<1>4. /\ NoEntry \in Jobs /\ NoEntry.op = Nothing /\ NoEntry.futures = {}
      /\ \A r \in Requests : Key[r] \in Keys
  BY <1>0, DeliveryTypes DEF NoEntry
<1>5. /\ entry' \in [Keys -> Jobs] /\ \A k \in Keys : entry'[k] = NoEntry
      /\ queue' \in Seq(Keys) /\ IsInjective(queue') /\ Range(queue') = {}
  BY <1>1, <1>4 DEF IsInjective, Range
<1>6. closed' = {"outbox", "limiter"}
  BY <1>0, <1>1 DEF CloseAdvances
<1>7. DeliveryTypeOK'
  BY <1>0, <1>1, <1>2, <1>5, <1>6 DEF DeliveryTypeOK
<1>8. WaitersAreServed'
  BY <1>3, <1>5 DEF WaitersAreServed
<1>9. \A r \in Requests : Untried(r) => Untried(r)'
  BY <1>1, <1>2, <1>4, <1>5 DEF Untried, InQueue
<1>10. CallsAreNoted' /\ TasksAreReady' /\ TasksKeepOrder'
  BY <1>0, <1>1, <1>2, <1>9, TasksStay
<1>11. JobsAreWhole' /\ CloseAdvances'
  BY <1>0, <1>1, <1>3, <1>4, <1>5, <1>6 DEF JobsAreWhole, CloseAdvances
<1>12. \A r \in Requests : Told(r)' => Told(r)
  BY <1>1, <1>2 DEF Told
<1>13. QueueKeepsOrder'
  BY <1>4, <1>5 DEF QueueKeepsOrder
<1>14. WorkerKeepsOrder'
  BY <1>0, <1>1, <1>12 DEF WorkerKeepsOrder, Later, Before
<1>15. SuccessIsShown'
  BY <1>0, <1>1, <1>2 DEF SuccessIsShown, Later, Before
<1> QED
  BY <1>7, <1>8, <1>10, <1>11, <1>13, <1>14, <1>15 DEF DeliveryInvariant

\* The limiter's own tasks are cancelled wherever they are.
LEMMA CancelTasksKeeps ==
  ASSUME DeliveryInvariant, CancelTasks
  PROVE  DeliveryInvariant'
<1> DEFINE owned == {r \in Requests : Route[r] # "await" /\ stage[r] \in Unfinished}
<1>0. /\ DeliveryTypeOK /\ CallsAreNoted /\ TasksAreReady /\ JobsAreWhole /\ CloseAdvances
      /\ TasksKeepOrder /\ QueueKeepsOrder /\ WorkerKeepsOrder /\ SuccessIsShown
      /\ WaitersAreServed
  BY DEF DeliveryInvariant
<1>1. /\ closer = "worker" /\ worker = "ended" /\ closer' = "closed"
      /\ stage' = [r \in Requests |-> IF r \in owned THEN "cancelled" ELSE stage[r]]
      /\ future' = [r \in Requests |-> IF r \in owned THEN "none" ELSE future[r]]
      /\ started' = Dequeued(started, owned)
      /\ UNCHANGED <<attempt, queue, entry, worker, job, paused, cancelled, closed, issued, shown,
                     outages>>
  BY DEF CancelTasks, waitlist, work, deliveryGhosts
<1>2. started \in Seq(Requests) /\ IsInjective(started)
  BY <1>0 DEF DeliveryTypeOK, TasksAreReady
<1>3. \A r \in Range(started) : r \in owned
  BY <1>0, <1>1, ReadyIs DEF CloseAdvances, Unfinished
<1>4. started' \in Seq(Requests) /\ IsInjective(started') /\ Range(started') = {}
  BY <1>1, <1>2, <1>3, RestOfAQueue
<1>5. /\ stage' \in [Requests -> Stages]
      /\ future' \in [Requests -> {"none", "pending", "result", "cancelled"} \cup Errors]
      /\ \A r \in Requests :
           /\ r \in owned => stage'[r] = "cancelled" /\ future'[r] = "none"
           /\ r \notin owned => stage'[r] = stage[r] /\ future'[r] = future[r]
  BY <1>0, <1>1 DEF DeliveryTypeOK, Stages
<1>6. DeliveryTypeOK'
  BY <1>0, <1>1, <1>4, <1>5 DEF DeliveryTypeOK
<1>7. WaitersAreServed'
  BY <1>0, <1>1, <1>5 DEF WaitersAreServed
<1>8. \A r \in Requests : Untried(r) => Untried(r)'
  BY <1>1, <1>5 DEF Untried, InQueue
<1>9. CallsAreNoted'
  <2>1. ASSUME NEW r \in Requests
        PROVE  /\ stage'[r] = "new" <=> r \notin Range(issued)
               /\ stage'[r] = "new" => Untried(r)'
               /\ future'[r] # "none" => stage'[r] = "waiting"
               /\ stage'[r] = "backoff" => Route[r] # "await" /\ attempt[r] > 0
    BY <1>0, <1>5, <1>8 DEF CallsAreNoted, Unfinished
  <2> QED
    BY <1>0, <1>1, <2>1 DEF CallsAreNoted
<1>10. \A r \in Requests : stage'[r] \notin {"handed", "launched"}
  BY <1>0, <1>1, <1>3, <1>5 DEF TasksAreReady
<1>11. TasksAreReady' /\ TasksKeepOrder'
  BY <1>4, <1>10 DEF TasksAreReady, TasksKeepOrder
<1>12. JobsAreWhole'
  BY <1>0, <1>1 DEF JobsAreWhole
<1>13. CloseAdvances'
  BY <1>0, <1>1, <1>5 DEF CloseAdvances, Unfinished
<1>14. \A r \in Requests : Told(r)' => Told(r)
  BY <1>1, <1>5 DEF Told
<1>15. QueueKeepsOrder' /\ WorkerKeepsOrder'
  BY <1>0, <1>1, <1>14 DEF QueueKeepsOrder, WorkerKeepsOrder, Later, Before, InQueue
<1>16. SuccessIsShown'
  BY <1>0, <1>1, <1>5 DEF SuccessIsShown, Later, Before
<1> QED
  BY <1>6, <1>7, <1>9, <1>11, <1>12, <1>13, <1>15, <1>16 DEF DeliveryInvariant

-----------------------------------------------------------------------------
\* Before the first call there is nothing to keep.
LEMMA DeliveryStarts == DeliveryInit => DeliveryInvariant
<1> SUFFICES ASSUME DeliveryInit PROVE DeliveryInvariant
  OBVIOUS
<1> USE DEF DeliveryInit
<1>1. NoEntry \in Jobs /\ NoEntry.op = Nothing /\ NoEntry.futures = {} /\ MaxOutages \in Nat
  BY DeliveryAssumption DEF NoEntry, Jobs, DeliveryAssumption
<1>2. Range(issued) = {} /\ Range(started) = {} /\ Range(queue) = {}
  BY DEF Range
<1>3. IsInjective(issued) /\ IsInjective(started) /\ IsInjective(queue)
  BY DEF IsInjective
<1>4. DeliveryTypeOK
  <2>1. /\ stage \in [Requests -> Stages] /\ attempt \in [Requests -> 0..MaxRetries]
        /\ future \in [Requests -> {"none", "pending", "result", "cancelled"} \cup Errors]
        /\ outages \in 0..MaxOutages
    BY <1>1 DEF Stages, MaxRetries
  <2>2. /\ started \in Seq(Requests) /\ issued \in Seq(Requests) /\ queue \in Seq(Keys)
        /\ entry \in [Keys -> Jobs] /\ job \in Jobs
        /\ shown \in [Keys -> Requests \cup {Nothing}]
    BY <1>1
  <2> QED
    BY <2>1, <2>2 DEF DeliveryTypeOK
<1>5. WaitersAreServed
  BY <1>2, <1>3 DEF WaitersAreServed
<1>6. \A r \in Requests : Untried(r)
  BY <1>1, DeliveryAssumption DEF Untried, InQueue, DeliveryAssumption
<1>7. CallsAreNoted
  BY <1>2, <1>3, <1>6 DEF CallsAreNoted
<1>8. TasksAreReady /\ JobsAreWhole /\ CloseAdvances
  BY <1>1, <1>2, <1>3 DEF TasksAreReady, JobsAreWhole, CloseAdvances
<1>9. TasksKeepOrder /\ QueueKeepsOrder /\ WorkerKeepsOrder
  BY <1>1, <1>2 DEF TasksKeepOrder, QueueKeepsOrder, WorkerKeepsOrder
<1>10. SuccessIsShown
  BY DEF SuccessIsShown
<1> QED
  BY <1>4, <1>5, <1>7, <1>8, <1>9, <1>10 DEF DeliveryInvariant

\* Every step keeps the invariant, and shows nothing older than what is shown.
LEMMA DeliverySteps ==
  DeliveryInvariant /\ [DeliveryNext]_deliveryVars => DeliveryInvariant' /\ NothingOlderIsShown
<1> SUFFICES ASSUME DeliveryInvariant, [DeliveryNext]_deliveryVars
             PROVE  DeliveryInvariant' /\ NothingOlderIsShown
  OBVIOUS
<1>1. ASSUME shown' = shown PROVE NothingOlderIsShown
  <2> SUFFICES ASSUME NEW k \in Keys, Before(shown[k], shown[k]) PROVE FALSE
    BY <1>1 DEF NothingOlderIsShown
  <2>1. issued \in Seq(Requests) /\ IsInjective(issued) /\ Ahead(issued, shown[k], shown[k])
    BY DEF DeliveryInvariant, DeliveryTypeOK, CallsAreNoted, Before
  <2> QED
    BY <2>1, AheadIsStrict
<1>2. CASE SendSucceeds
  BY <1>2, SendSucceedsKeeps
<1>3. CASE RunTask
  BY <1>1, <1>3, RunTaskKeeps DEF RunTask, deliveryGhosts
<1>4. CASE Take
  BY <1>1, <1>4, TakeKeeps DEF Take, deliveryGhosts
<1>5. CASE PauseEnds \/ Admit
  BY <1>1, <1>5, WorkerGoesOnKeeps DEF PauseEnds, Admit, deliveryGhosts
<1>6. CASE SendFails \/ SendIsCancelled
  BY <1>1, <1>6, SendFailsKeeps DEF SendFails, SendIsCancelled
<1>7. CASE WorkerEnds
  BY <1>1, <1>7, WorkerEndsKeeps DEF WorkerEnds, deliveryGhosts
<1>8. CASE CloseOutbox
  BY <1>1, <1>8, CloseOutboxKeeps DEF CloseOutbox, deliveryGhosts
<1>9. CASE Shutdown
  BY <1>1, <1>9, ShutdownKeeps DEF Shutdown, deliveryGhosts
<1>10. CASE CancelTasks
  BY <1>1, <1>10, CancelTasksKeeps DEF CancelTasks, deliveryGhosts
<1>11. ASSUME NEW r \in Requests, Request(r) PROVE DeliveryInvariant' /\ NothingOlderIsShown
  <2>1. CASE Call(r)
    BY <1>1, <2>1, CallKeeps DEF Call
  <2>2. CASE Resume(r)
    BY <1>1, <2>2, ResumeKeeps DEF Resume, deliveryGhosts
  <2>3. CASE Retry(r)
    BY <1>1, <2>3, RetryKeeps DEF Retry, deliveryGhosts
  <2>4. CASE CancelCaller(r)
    BY <1>1, <2>4, CancelCallerKeeps DEF CancelCaller, deliveryGhosts
  <2> QED
    BY <1>11, <2>1, <2>2, <2>3, <2>4 DEF Request
<1>12. CASE UNCHANGED deliveryVars
  <2>1. /\ UNCHANGED <<stage, attempt, future, started, queue, entry, worker, job, paused,
                       cancelled, closed, closer, issued, shown, outages>>
    BY <1>12 DEF deliveryVars, tasks, waitlist, work, ending, deliveryGhosts
  <2>2. DeliveryInvariant'
    BY <2>1 DEF DeliveryInvariant, DeliveryTypeOK, WaitersAreServed, CallsAreNoted, TasksAreReady,
      JobsAreWhole, CloseAdvances, TasksKeepOrder, QueueKeepsOrder, WorkerKeepsOrder,
      SuccessIsShown, Later, Before, Told, InQueue, Untried
  <2> QED
    BY <1>1, <2>1, <2>2
<1> QED
  BY <1>2, <1>3, <1>4, <1>5, <1>6, <1>7, <1>8, <1>9, <1>10, <1>11, <1>12 DEF DeliveryNext, Worker

\* What is promised of the messages follows from the invariant.
LEMMA DeliveryIsThenSound == DeliveryInvariant => DeliveryIsSound
<1> SUFFICES ASSUME DeliveryInvariant PROVE DeliveryIsSound
  OBVIOUS
<1>0. /\ DeliveryTypeOK /\ CallsAreNoted /\ TasksAreReady /\ JobsAreWhole /\ CloseAdvances
      /\ SuccessIsShown /\ WaitersAreServed
  BY DEF DeliveryInvariant
<1>1. NewestIsShown
  <2> SUFFICES ASSUME NEW r \in Requests, stage[r] = "done"
               PROVE  LET s == shown[Key[r]] IN
                        s # Nothing /\ (Before(s, r) => Route[s] # Route[r] \/ attempt[s] > 0)
    BY DEF NewestIsShown
  <2>1. /\ shown[Key[r]] # Nothing
        /\ Later(shown[Key[r]], r) => attempt[shown[Key[r]]] > 0
    BY <1>0 DEF SuccessIsShown
  <2>2. Key[shown[Key[r]]] = Key[r]
    BY <1>0, <2>1, DeliveryTypes DEF JobsAreWhole
  <2> QED
    BY <2>1, <2>2 DEF Later
<1>2. ClosedIsQuiet
  <2> SUFFICES ASSUME closer = "closed"
               PROVE  /\ worker = "ended" /\ started = << >>
                      /\ \A r \in Requests : /\ future[r] # "pending"
                                              /\ stage[r] \notin {"handed", "launched", "backoff"}
    BY DEF ClosedIsQuiet
  <2>1. /\ worker = "ended" /\ "limiter" \in closed /\ "outbox" \in closed
        /\ \A r \in Requests : /\ future[r] # "pending"
                               /\ stage[r] # "handed"
                               /\ Route[r] # "await" => stage[r] \notin Unfinished
    BY <1>0 DEF CloseAdvances
  <2>2. \A r \in Requests : stage[r] \notin {"handed", "launched", "backoff"}
    BY <1>0, <2>1 DEF TasksAreReady, CallsAreNoted, Unfinished
  <2>3. started = << >>
    <3> SUFFICES ASSUME started # << >> PROVE FALSE
      OBVIOUS
    <3> QED
      BY <1>0, <2>2, HeadIsRun, ReadyIs
  <2> QED
    BY <2>1, <2>2, <2>3
<1> QED
  BY <1>0, <1>1, <1>2 DEF DeliveryIsSound

\* The messages of the platform, for any requests, keys, routes and failures: whoever waits is
\* served, first attempts of one route are shown in the order of their calls, the newest call that
\* succeeded is what is shown, and the close leaves nothing behind.
THEOREM MessagesStayFaithful == DeliverySpec => DeliveryIsFaithful
<1>1. DeliveryInit => DeliveryInvariant
  BY DeliveryStarts
<1>2. DeliveryInvariant /\ [DeliveryNext]_deliveryVars =>
        DeliveryInvariant' /\ (DeliveryIsSound' /\ NothingOlderIsShown)
  <2>1. DeliveryInvariant' => DeliveryIsSound'
    BY DeliveryIsThenSound, PTL
  <2> QED
    BY <2>1, DeliverySteps
<1> QED
  BY <1>1, <1>2, PTL DEF DeliverySpec, DeliveryIsFaithful

(***************************************************************************)
(* What a chat sees of a turn.                                              *)
(***************************************************************************)

Kinds == {"text", "thinking", "tool", "subagent", "error"}
Ids == Tasks \cup OtherTools \cup {NoId}

TheSegments ==
  [kind : Kinds, words : Seq(Nat), id : Ids, closed : BOOLEAN, calls : Nat]

\* What a segment becomes when it is written to, closed and counted in.
LEMMA SegmentsChange ==
  ASSUME NEW r \in TheSegments
  PROVE  /\ [r EXCEPT !.closed = TRUE] \in TheSegments
         /\ [r EXCEPT !.closed = TRUE].words = r.words
         /\ [r EXCEPT !.calls = @ + 1] \in TheSegments
         /\ [r EXCEPT !.calls = @ + 1].words = r.words
         /\ \A w \in Nat : /\ [r EXCEPT !.words = Append(@, w)] \in TheSegments
                           /\ [r EXCEPT !.words = Append(@, w)].words = r.words \o <<w>>
<1>1. /\ [r EXCEPT !.closed = TRUE] \in TheSegments
      /\ [r EXCEPT !.closed = TRUE].words = r.words
  BY DEF TheSegments
<1>2. /\ [r EXCEPT !.calls = @ + 1] \in TheSegments
      /\ [r EXCEPT !.calls = @ + 1].words = r.words
  BY DEF TheSegments
<1>3. ASSUME NEW w \in Nat
      PROVE  /\ [r EXCEPT !.words = Append(@, w)] \in TheSegments
             /\ [r EXCEPT !.words = Append(@, w)].words = r.words \o <<w>>
  <2>1. r.words \in Seq(Nat)
    BY DEF TheSegments
  <2>2. Append(r.words, w) \in Seq(Nat) /\ Append(r.words, w) = r.words \o <<w>>
    BY <2>1
  <2>3. \A x \in Seq(Nat) : [r EXCEPT !.words = x] \in TheSegments /\ [r EXCEPT !.words = x].words = x
    BY DEF TheSegments
  <2> QED
    BY <2>2, <2>3
<1> QED
  BY <1>1, <1>2, <1>3

OpenTasks == [id : Tasks, segment : Nat]

\* A view by its parts, and one that can be read: its blocks are open by index, which is no
\* negative number.
Consists(v, segs, tx, th, tl, st, h) ==
  v = [segments |-> segs, text |-> tx, thinking |-> th, tool |-> tl, stack |-> st, heard |-> h]

Sound(segs, tx, th, st) ==
  /\ segs \in Seq(TheSegments) /\ st \in Seq(OpenTasks)
  /\ DOMAIN tx \subseteq Nat /\ DOMAIN th \subseteq Nat

Legible(v) ==
  \E segs, tx, th, tl, st, h : Consists(v, segs, tx, th, tl, st, h) /\ Sound(segs, tx, th, st)

\* The words of segments, in their order.
Said(segs) == FlattenSeq([s \in DOMAIN segs |-> segs[s].words])

LEMMA WordsAreSequences ==
  ASSUME NEW segs \in Seq(TheSegments)
  PROVE  [s \in DOMAIN segs |-> segs[s].words] \in Seq(Seq(Nat))
<1>1. Len(segs) \in Nat /\ DOMAIN segs = 1 .. Len(segs)
  OBVIOUS
<1>2. \A s \in 1 .. Len(segs) : segs[s] \in TheSegments
  OBVIOUS
<1>3. \A r \in TheSegments : r.words \in Seq(Nat)
  BY DEF TheSegments
<1>4. \A s \in 1 .. Len(segs) : segs[s].words \in Seq(Nat)
  BY <1>2, <1>3
<1> QED
  BY <1>1, <1>4

\* A new segment comes with its words after all others.
LEMMA SaidWithOneMore ==
  ASSUME NEW segs \in Seq(TheSegments), NEW x \in TheSegments
  PROVE  Append(segs, x) \in Seq(TheSegments) /\ Said(Append(segs, x)) = Said(segs) \o x.words
<1> DEFINE W == [s \in DOMAIN segs |-> segs[s].words]
           V == [s \in DOMAIN Append(segs, x) |-> Append(segs, x)[s].words]
<1>1. Append(segs, x) \in Seq(TheSegments)
  OBVIOUS
<1>2. W \in Seq(Seq(Nat)) /\ x.words \in Seq(Nat)
  BY WordsAreSequences DEF TheSegments
<1>3. V = Append(W, x.words)
  <2>1. Len(segs) \in Nat /\ DOMAIN segs = 1 .. Len(segs)
    OBVIOUS
  <2>2. DOMAIN Append(segs, x) = 1 .. Len(segs) + 1
    BY <2>1
  <2>3. \A s \in 1 .. Len(segs) + 1 :
          Append(segs, x)[s] = IF s = Len(segs) + 1 THEN x ELSE segs[s]
    BY <2>1
  <2>4. DOMAIN W = 1 .. Len(segs) /\ Len(W) = Len(segs)
    BY <2>1, <1>2
  <2>5. Append(W, x.words) =
          [s \in 1 .. Len(segs) + 1 |-> IF s = Len(segs) + 1 THEN x.words ELSE W[s]]
    BY <2>4, <1>2
  <2>6. V = [s \in 1 .. Len(segs) + 1 |-> IF s = Len(segs) + 1 THEN x.words ELSE W[s]]
    BY <2>1, <2>2, <2>3
  <2> QED
    BY <2>5, <2>6
<1>4. FlattenSeq(Append(W, x.words)) = FlattenSeq(W) \o x.words
  <2> HIDE DEF W
  <2> QED
    BY <1>2, FlattenGrows
<1> QED
  BY <1>1, <1>3, <1>4 DEF Said

\* So does a word that is added to the newest one.
LEMMA SaidWithAWordMore ==
  ASSUME NEW segs \in Seq(TheSegments), segs # <<>>, NEW n, n = Len(segs), NEW word \in Nat
  PROVE  LET more == [segs EXCEPT ![n].words = Append(@, word)]
         IN  more \in Seq(TheSegments) /\ Said(more) = Said(segs) \o <<word>>
<1> DEFINE more == [segs EXCEPT ![n].words = Append(@, word)]
           W == [s \in DOMAIN segs |-> segs[s].words]
           V == [s \in DOMAIN more |-> more[s].words]
<1>1. n \in Nat /\ n \in 1 .. n /\ DOMAIN segs = 1 .. n
  OBVIOUS
<1>2. segs[n] \in TheSegments
  BY <1>1
<1> DEFINE longer == [segs[n] EXCEPT !.words = Append(@, word)]
<1>6. longer \in TheSegments /\ longer.words = segs[n].words \o <<word>>
  BY <1>2, SegmentsChange
<1>7. more = [segs EXCEPT ![n] = longer]
  OBVIOUS
<1> HIDE DEF longer
<1>8. more \in Seq(TheSegments) /\ Len(more) = n
  <2> HIDE DEF more
  <2> QED
    BY <1>1, <1>6, <1>7
<1>9. W \in Seq(Seq(Nat)) /\ V \in Seq(Seq(Nat))
  <2> HIDE DEF more
  <2> QED
    BY <1>8, WordsAreSequences
<1>10. LongerAt(W, V, n, <<word>>)
  <2>1. Len(W) = n /\ Len(V) = n /\ DOMAIN more = 1 .. n
    BY <1>1, <1>8, <1>9
  <2>2. V[n] = W[n] \o <<word>>
    BY <1>1, <1>6, <1>7, <2>1
  <2>3. \A i \in 1 .. n : i # n => V[i] = W[i]
    BY <1>1, <1>7, <2>1
  <2> HIDE DEF more, W, V
  <2> QED
    BY <1>1, <2>1, <2>2, <2>3 DEF LongerAt
<1>11. FlattenSeq(V) = FlattenSeq(W) \o <<word>>
  <2>1. <<word>> \in Seq(Nat) /\ n \in 1 .. Len(W)
    BY <1>1, <1>10 DEF LongerAt
  <2> HIDE DEF W, V
  <2> QED
    BY <1>9, <1>10, <2>1, FlattenExtends
<1>12. Said(more) = Said(segs) \o <<word>>
  <2> HIDE DEF more
  <2> QED
    BY <1>11 DEF Said
<1> QED
  BY <1>8, <1>12

\* A segment with the same words says the same.
LEMMA SaidWithTheSame ==
  ASSUME NEW segs \in Seq(TheSegments), NEW more \in Seq(TheSegments),
         DOMAIN more = DOMAIN segs, \A s \in DOMAIN segs : more[s].words = segs[s].words
  PROVE  Said(more) = Said(segs) /\ Len(more) = Len(segs)
<1>1. [s \in DOMAIN more |-> more[s].words] = [s \in DOMAIN segs |-> segs[s].words]
  OBVIOUS
<1> QED
  BY <1>1 DEF Said

LEMMA ClosedSaysTheSame ==
  ASSUME NEW segs \in Seq(TheSegments), NEW p
  PROVE  LET more == [segs EXCEPT ![p].closed = TRUE]
         IN  more \in Seq(TheSegments) /\ Said(more) = Said(segs) /\ Len(more) = Len(segs)
<1> DEFINE more == [segs EXCEPT ![p].closed = TRUE]
<1>1. \A s \in DOMAIN segs :
        [segs[s] EXCEPT !.closed = TRUE] \in TheSegments
          /\ [segs[s] EXCEPT !.closed = TRUE].words = segs[s].words
  <2> TAKE s \in DOMAIN segs
  <2>1. segs[s] \in TheSegments
    OBVIOUS
  <2> QED
    BY <2>1, SegmentsChange
<1>2. DOMAIN more = DOMAIN segs
      /\ \A s \in DOMAIN segs : more[s] = IF s = p THEN [segs[s] EXCEPT !.closed = TRUE] ELSE segs[s]
  OBVIOUS
<1>3. Len(segs) \in Nat /\ DOMAIN segs = 1 .. Len(segs)
      /\ \A s \in DOMAIN segs : segs[s] \in TheSegments
  OBVIOUS
<1>4. more = [s \in 1 .. Len(segs) |-> more[s]]
  BY <1>2, <1>3
<1> HIDE DEF more
<1>5. more \in Seq(TheSegments)
  BY <1>1, <1>2, <1>3, <1>4
<1>6. Said(more) = Said(segs) /\ Len(more) = Len(segs)
  BY <1>1, <1>2, <1>5, SaidWithTheSame
<1> QED
  BY <1>5, <1>6 DEF more

LEMMA CountedSaysTheSame ==
  ASSUME NEW segs \in Seq(TheSegments), NEW p
  PROVE  LET more == [segs EXCEPT ![p].calls = @ + 1]
         IN  more \in Seq(TheSegments) /\ Said(more) = Said(segs) /\ Len(more) = Len(segs)
<1> DEFINE more == [segs EXCEPT ![p].calls = @ + 1]
<1>1. \A s \in DOMAIN segs :
        [segs[s] EXCEPT !.calls = @ + 1] \in TheSegments
          /\ [segs[s] EXCEPT !.calls = @ + 1].words = segs[s].words
  <2> TAKE s \in DOMAIN segs
  <2>1. segs[s] \in TheSegments
    OBVIOUS
  <2> QED
    BY <2>1, SegmentsChange
<1>2. DOMAIN more = DOMAIN segs
      /\ \A s \in DOMAIN segs : more[s] = IF s = p THEN [segs[s] EXCEPT !.calls = @ + 1] ELSE segs[s]
  OBVIOUS
<1>3. Len(segs) \in Nat /\ DOMAIN segs = 1 .. Len(segs)
      /\ \A s \in DOMAIN segs : segs[s] \in TheSegments
  OBVIOUS
<1>4. more = [s \in 1 .. Len(segs) |-> more[s]]
  BY <1>2, <1>3
<1> HIDE DEF more
<1>5. more \in Seq(TheSegments)
  BY <1>1, <1>2, <1>3, <1>4
<1>6. Said(more) = Said(segs) /\ Len(more) = Len(segs)
  BY <1>1, <1>2, <1>5, SaidWithTheSame
<1> QED
  BY <1>5, <1>6 DEF more

-----------------------------------------------------------------------------
(* What each operation of the view leaves in it.                            *)

LEMMA PartsOfView ==
  ASSUME NEW v, NEW segs, NEW tx, NEW th, NEW tl, NEW st, NEW h,
         Consists(v, segs, tx, th, tl, st, h)
  PROVE  /\ v.segments = segs /\ v.text = tx /\ v.thinking = th /\ v.tool = tl
         /\ v.stack = st /\ v.heard = h
  BY DEF Consists

LEMMA ViewChanges ==
  ASSUME NEW v, NEW segs, NEW tx, NEW th, NEW tl, NEW st, NEW h, NEW x,
         Consists(v, segs, tx, th, tl, st, h)
  PROVE  /\ Consists([v EXCEPT !.segments = x], x, tx, th, tl, st, h)
         /\ Consists([v EXCEPT !.text = x], segs, x, th, tl, st, h)
         /\ Consists([v EXCEPT !.thinking = x], segs, tx, x, tl, st, h)
         /\ Consists([v EXCEPT !.tool = x], segs, tx, th, x, st, h)
         /\ Consists([v EXCEPT !.stack = x], segs, tx, th, tl, x, h)
         /\ Consists([v EXCEPT !.heard = x], segs, tx, th, tl, st, x)
  BY DEF Consists

\* The same words in as many segments, with the same open Tasks.
SaysTheSame(v, w) ==
  /\ Said(w.segments) = Said(v.segments) /\ Len(w.segments) = Len(v.segments)
  /\ w.stack = v.stack /\ w.heard = v.heard

\* _close_block
LEMMA ClosingSaysTheSame ==
  ASSUME NEW v, NEW i, Legible(v)
  PROVE  Legible(CloseBlock(v, i)) /\ SaysTheSame(v, CloseBlock(v, i))
<1>1. PICK segs, tx, th, tl, st, h : Consists(v, segs, tx, th, tl, st, h) /\ Sound(segs, tx, th, st)
  BY DEF Legible
<1>2. /\ v.segments = segs /\ v.text = tx /\ v.thinking = th /\ v.tool = tl
      /\ v.stack = st /\ v.heard = h
  BY <1>1, PartsOfView
<1>3. CASE i \in DOMAIN v.tool
  <2> DEFINE more == [segs EXCEPT ![tl[i]].closed = TRUE]
             w == [v EXCEPT !.tool = Not(tl, i)]
  <2>1. CloseBlock(v, i) = [w EXCEPT !.segments = more]
    <3>1. CloseBlock(v, i) = [v EXCEPT !.tool = Not(@, i), !.segments[v.tool[i]].closed = TRUE]
      BY <1>3 DEF CloseBlock
    <3>2. w.segments = segs
      BY <1>1, ViewChanges, PartsOfView
    <3>3. CloseBlock(v, i) = [w EXCEPT !.segments[tl[i]].closed = TRUE]
      BY <1>2, <3>1
    <3> HIDE DEF w
    <3> QED
      BY <3>2, <3>3
  <2>2. more \in Seq(TheSegments) /\ Said(more) = Said(segs) /\ Len(more) = Len(segs)
    BY <1>1, ClosedSaysTheSame DEF Sound
  <2> HIDE DEF more
  <2>3. Consists(CloseBlock(v, i), more, tx, th, Not(tl, i), st, h)
    <3>1. Consists(w, segs, tx, th, Not(tl, i), st, h)
      BY <1>1, ViewChanges
    <3> HIDE DEF w
    <3>2. Consists([w EXCEPT !.segments = more], more, tx, th, Not(tl, i), st, h)
      BY <3>1, ViewChanges
    <3> QED
      BY <2>1, <3>2
  <2>4. Sound(more, tx, th, st)
    BY <1>1, <2>2 DEF Sound
  <2>5. SaysTheSame(v, CloseBlock(v, i))
    BY <1>2, <2>2, <2>3, PartsOfView DEF SaysTheSame
  <2> QED
    BY <2>3, <2>4, <2>5 DEF Legible
<1>4. CASE i \notin DOMAIN v.tool /\ i \in DOMAIN v.thinking
  <2> DEFINE w == [v EXCEPT !.thinking = Not(th, i)]
  <2>1. CloseBlock(v, i) = w
    BY <1>2, <1>4 DEF CloseBlock
  <2>2. Consists(w, segs, tx, Not(th, i), tl, st, h)
    BY <1>1, ViewChanges
  <2>3. Sound(segs, tx, Not(th, i), st)
    BY <1>1 DEF Sound, Not
  <2> HIDE DEF w
  <2>4. SaysTheSame(v, w)
    BY <1>2, <2>2, PartsOfView DEF SaysTheSame
  <2> QED
    BY <2>1, <2>2, <2>3, <2>4 DEF Legible
<1>5. CASE i \notin DOMAIN v.tool /\ i \notin DOMAIN v.thinking /\ i \in DOMAIN v.text
  <2> DEFINE w == [v EXCEPT !.text = Not(tx, i)]
  <2>1. CloseBlock(v, i) = w
    BY <1>2, <1>5 DEF CloseBlock
  <2>2. Consists(w, segs, Not(tx, i), th, tl, st, h)
    BY <1>1, ViewChanges
  <2>3. Sound(segs, Not(tx, i), th, st)
    BY <1>1 DEF Sound, Not
  <2> HIDE DEF w
  <2>4. SaysTheSame(v, w)
    BY <1>2, <2>2, PartsOfView DEF SaysTheSame
  <2> QED
    BY <2>1, <2>2, <2>3, <2>4 DEF Legible
<1>6. CASE i \notin DOMAIN v.tool /\ i \notin DOMAIN v.thinking /\ i \notin DOMAIN v.text
  <2>1. CloseBlock(v, i) = v
    BY <1>6 DEF CloseBlock
  <2> QED
    BY <2>1 DEF SaysTheSame
<1> QED
  BY <1>3, <1>4, <1>5, <1>6

\* A new segment has the next place.
LEMMA ShowingAddsASegment ==
  ASSUME NEW v, NEW s \in TheSegments, Legible(v)
  PROVE  /\ Legible(Show(v, s))
         /\ Show(v, s).segments = Append(v.segments, s)
         /\ Said(Show(v, s).segments) = Said(v.segments) \o s.words
         /\ Newest(Show(v, s)) = Newest(v) + 1 /\ Newest(v) \in Nat
         /\ Show(v, s).stack = v.stack /\ Show(v, s).heard = v.heard
<1>1. PICK segs, tx, th, tl, st, h : Consists(v, segs, tx, th, tl, st, h) /\ Sound(segs, tx, th, st)
  BY DEF Legible
<1>2. v.segments = segs /\ v.stack = st /\ v.heard = h
  BY <1>1, PartsOfView
<1> DEFINE more == Append(segs, s)
<1>3. Show(v, s) = [v EXCEPT !.segments = more]
  BY <1>2 DEF Show
<1>4. more \in Seq(TheSegments) /\ Said(more) = Said(segs) \o s.words
  BY <1>1, SaidWithOneMore DEF Sound
<1>5. Len(more) = Len(segs) + 1 /\ Len(segs) \in Nat
  BY <1>1 DEF Sound
<1> HIDE DEF more
<1>6. Consists(Show(v, s), more, tx, th, tl, st, h)
  <2>1. Consists([v EXCEPT !.segments = more], more, tx, th, tl, st, h)
    BY <1>1, ViewChanges
  <2> QED
    BY <1>3, <2>1
<1>7. Sound(more, tx, th, st)
  BY <1>1, <1>4 DEF Sound
<1>8. Show(v, s).segments = more /\ Show(v, s).stack = st /\ Show(v, s).heard = h
  BY <1>6, PartsOfView
<1>9. more = Append(v.segments, s)
  BY <1>2 DEF more
<1> QED
  BY <1>2, <1>4, <1>5, <1>6, <1>7, <1>8, <1>9 DEF Legible, Newest

\* A block that is opened by its index is that of the newest segment.
LEMMA OpeningIsByIndex ==
  ASSUME NEW v, NEW kind, NEW i \in Int, Legible(v)
  PROVE  /\ Legible(OpenAt(v, kind, i))
         /\ OpenAt(v, kind, i).segments = v.segments
         /\ OpenAt(v, kind, i).stack = v.stack /\ OpenAt(v, kind, i).heard = v.heard
         /\ i >= 0 /\ kind \in {"text", "thinking"} =>
              /\ i \in DOMAIN OpenOf(OpenAt(v, kind, i), kind)
              /\ OpenOf(OpenAt(v, kind, i), kind)[i] = Newest(v)
<1>1. PICK segs, tx, th, tl, st, h : Consists(v, segs, tx, th, tl, st, h) /\ Sound(segs, tx, th, st)
  BY DEF Legible
<1>2. /\ v.segments = segs /\ v.text = tx /\ v.thinking = th /\ v.tool = tl
      /\ v.stack = st /\ v.heard = h
  BY <1>1, PartsOfView
<1>3. CASE i < 0
  BY <1>3 DEF OpenAt
<1>4. ASSUME i >= 0
      PROVE  \A f : /\ DOMAIN f \subseteq Nat => DOMAIN At(f, i, Newest(v)) \subseteq Nat
                    /\ i \in DOMAIN At(f, i, Newest(v)) /\ At(f, i, Newest(v))[i] = Newest(v)
  BY <1>4 DEF At
<1>5. CASE i >= 0 /\ kind = "text"
  <2> DEFINE f == At(tx, i, Newest(v))
             w == [v EXCEPT !.text = f]
  <2>1. OpenAt(v, kind, i) = w
    BY <1>2, <1>5 DEF OpenAt
  <2>2. Sound(segs, f, th, st) /\ i \in DOMAIN f /\ f[i] = Newest(v)
    BY <1>1, <1>4, <1>5 DEF Sound
  <2> HIDE DEF f
  <2>3. Consists(w, segs, f, th, tl, st, h)
    BY <1>1, ViewChanges
  <2> HIDE DEF w
  <2>4. w.segments = segs /\ w.text = f /\ w.stack = st /\ w.heard = h
    BY <2>3, PartsOfView
  <2> QED
    BY <1>2, <1>5, <2>1, <2>2, <2>3, <2>4 DEF Legible, OpenOf
<1>6. CASE i >= 0 /\ kind = "thinking"
  <2> DEFINE f == At(th, i, Newest(v))
             w == [v EXCEPT !.thinking = f]
  <2>1. OpenAt(v, kind, i) = w
    BY <1>2, <1>6 DEF OpenAt
  <2>2. Sound(segs, tx, f, st) /\ i \in DOMAIN f /\ f[i] = Newest(v)
    BY <1>1, <1>4, <1>6 DEF Sound
  <2> HIDE DEF f
  <2>3. Consists(w, segs, tx, f, tl, st, h)
    BY <1>1, ViewChanges
  <2> HIDE DEF w
  <2>4. w.segments = segs /\ w.thinking = f /\ w.stack = st /\ w.heard = h
    BY <2>3, PartsOfView
  <2> QED
    BY <1>2, <1>6, <2>1, <2>2, <2>3, <2>4 DEF Legible, OpenOf
<1>7. CASE i >= 0 /\ kind \notin {"text", "thinking"}
  <2> DEFINE f == At(tl, i, Newest(v))
             w == [v EXCEPT !.tool = f]
  <2>1. OpenAt(v, kind, i) = w
    BY <1>2, <1>7 DEF OpenAt
  <2> HIDE DEF f
  <2>2. Consists(w, segs, tx, th, f, st, h)
    BY <1>1, ViewChanges
  <2> HIDE DEF w
  <2>3. w.segments = segs /\ w.stack = st /\ w.heard = h
    BY <2>2, PartsOfView
  <2> QED
    BY <1>1, <1>2, <1>7, <2>1, <2>2, <2>3 DEF Legible
<1> QED
  BY <1>3, <1>5, <1>6, <1>7

-----------------------------------------------------------------------------
(* What each event of a CLI leaves in the view.                             *)

LEMMA SegmentsBegin ==
  ASSUME NEW kind \in Kinds, NEW id \in Ids
  PROVE  Segment(kind, <<>>, id) \in TheSegments /\ Segment(kind, <<>>, id).words = <<>>
  BY DEF Segment, TheSegments

Writes(v, w, n, word) == w = [v EXCEPT !.segments[n].words = Append(@, word)]

\* A word that is written to the newest segment is the last one shown.
LEMMA WritingAddsAWord ==
  ASSUME NEW v, NEW n, n = Newest(v), n # 0, NEW word \in Nat, Legible(v),
         NEW w, Writes(v, w, n, word)
  PROVE  /\ Legible(w)
         /\ Said(w.segments) = Said(v.segments) \o <<word>>
         /\ Newest(w) = n
         /\ w.stack = v.stack /\ w.heard = v.heard
         /\ w.text = v.text /\ w.thinking = v.thinking
<1>1. PICK segs, tx, th, tl, st, h : Consists(v, segs, tx, th, tl, st, h) /\ Sound(segs, tx, th, st)
  BY DEF Legible
<1>2. /\ v.segments = segs /\ v.text = tx /\ v.thinking = th
      /\ v.stack = st /\ v.heard = h
  BY <1>1, PartsOfView
<1> DEFINE more == [segs EXCEPT ![n].words = Append(@, word)]
<1>3. w = [v EXCEPT !.segments = more]
  BY <1>2 DEF Writes
<1>4. n = Len(segs) /\ segs # <<>> /\ segs \in Seq(TheSegments)
  BY <1>1, <1>2 DEF Newest, Sound
<1>5. more \in Seq(TheSegments) /\ Said(more) = Said(segs) \o <<word>>
  BY <1>4, SaidWithAWordMore
<1>6. Len(more) = n
  BY <1>4
<1> HIDE DEF more
<1>7. Consists(w, more, tx, th, tl, st, h)
  <2>1. Consists([v EXCEPT !.segments = more], more, tx, th, tl, st, h)
    BY <1>1, ViewChanges
  <2> QED
    BY <1>3, <2>1
<1>8. Sound(more, tx, th, st)
  BY <1>1, <1>5 DEF Sound
<1>9. w.segments = more /\ w.stack = st /\ w.heard = h /\ w.text = tx /\ w.thinking = th
  BY <1>7, PartsOfView
<1> QED
  BY <1>2, <1>5, <1>6, <1>7, <1>8, <1>9 DEF Legible, Newest

\* Words of a subagent are left out.
LEMMA SubagentsAreLeftOut ==
  ASSUME NEW v, v.stack # <<>>, NEW kind, NEW i, NEW word
  PROVE  Apply(v, Event("delta", kind, i, word, NoId)) = v
  BY DEF Apply, Event, Words, InSubagent

\* Nothing follows nothing.
LEMMA NothingMore ==
  ASSUME NEW T, NEW s \in Seq(T)
  PROVE  s \o <<>> = s
  OBVIOUS

LEMMA SaidIsASequence ==
  ASSUME NEW v, Legible(v)
  PROVE  Said(v.segments) \in Seq(Nat) /\ Newest(v) \in Nat
<1>1. PICK segs, tx, th, tl, st, h : Consists(v, segs, tx, th, tl, st, h) /\ Sound(segs, tx, th, st)
  BY DEF Legible
<1>2. v.segments = segs /\ segs \in Seq(TheSegments)
  BY <1>1, PartsOfView DEF Sound
<1> DEFINE W == [s \in DOMAIN segs |-> segs[s].words]
<1>3. W \in Seq(Seq(Nat))
  BY <1>2, WordsAreSequences
<1>4. FlattenSeq(W) \in Seq(Nat)
  <2> HIDE DEF W
  <2> QED
    BY <1>3, FlattenType
<1>5. Said(segs) = FlattenSeq(W)
  BY DEF Said
<1> HIDE DEF W
<1> QED
  BY <1>2, <1>4, <1>5 DEF Newest

LEMMA NothingIsSaid ==
  ASSUME NEW v, Legible(v), Newest(v) = 0
  PROVE  Said(v.segments) = <<>>
<1>1. PICK segs, tx, th, tl, st, h : Consists(v, segs, tx, th, tl, st, h) /\ Sound(segs, tx, th, st)
  BY DEF Legible
<1>2. v.segments = segs /\ segs \in Seq(TheSegments) /\ Len(segs) = 0
  BY <1>1, PartsOfView DEF Sound, Newest
<1> DEFINE W == [s \in DOMAIN segs |-> segs[s].words]
<1>3. W \in Seq(Seq(Nat)) /\ Len(W) = 0
  BY <1>2, WordsAreSequences
<1>4. W = <<>>
  <2> HIDE DEF W
  <2> QED
    BY <1>3
<1>5. FlattenSeq(W) = W
  <2> HIDE DEF W
  <2> QED
    BY <1>3, JoinsStepwise
<1> HIDE DEF W
<1>6. Said(segs) = FlattenSeq(W)
  BY DEF Said, W
<1> QED
  BY <1>2, <1>4, <1>5, <1>6

\* A block of the main agent that starts is open at its index, and the newest.
LEMMA StartOpens ==
  ASSUME NEW v, Legible(v), v.stack = <<>>, NEW kind \in {"text", "thinking"}, NEW i \in Nat
  PROVE  LET w == Apply(v, Event("start", kind, i, 0, NoId))
         IN  /\ Legible(w) /\ Said(w.segments) = Said(v.segments)
             /\ w.stack = v.stack /\ w.heard = v.heard /\ Newest(w) # 0
             /\ i \in DOMAIN OpenOf(w, kind) /\ OpenOf(w, kind)[i] = Newest(w)
<1> DEFINE w == Apply(v, Event("start", kind, i, 0, NoId))
           x == CloseBlock(v, i)
           s == Segment(kind, <<>>, NoId)
           y == Show(x, s)
           z == OpenAt(y, kind, i)
<1>1. w = z
  BY DEF Apply, Event, Words, InSubagent, StartWords
<1>2. s \in TheSegments /\ s.words = <<>>
  BY SegmentsBegin DEF Kinds, Ids
<1>3. Legible(x) /\ SaysTheSame(v, x)
  BY ClosingSaysTheSame
<1> HIDE DEF w, x, s
<1>4. /\ Legible(y) /\ Said(y.segments) = Said(x.segments) \o s.words
      /\ Newest(y) = Newest(x) + 1 /\ Newest(x) \in Nat
      /\ y.stack = x.stack /\ y.heard = x.heard
  BY <1>2, <1>3, ShowingAddsASegment
<1> HIDE DEF y
<1>5. /\ Legible(z) /\ z.segments = y.segments /\ z.stack = y.stack /\ z.heard = y.heard
      /\ i \in DOMAIN OpenOf(z, kind) /\ OpenOf(z, kind)[i] = Newest(y)
  BY <1>4, OpeningIsByIndex
<1> HIDE DEF z
<1>6. Said(y.segments) = Said(x.segments)
  BY <1>2, <1>3, <1>4, SaidIsASequence, NothingMore
<1>7. Newest(z) = Newest(y)
  BY <1>5 DEF Newest
<1>8. /\ Legible(w) /\ Said(w.segments) = Said(v.segments)
      /\ w.stack = v.stack /\ w.heard = v.heard /\ Newest(w) # 0
      /\ i \in DOMAIN OpenOf(w, kind) /\ OpenOf(w, kind)[i] = Newest(w)
  BY <1>1, <1>3, <1>4, <1>5, <1>6, <1>7 DEF SaysTheSame
<1> QED
  BY <1>8 DEF w

\* Words of the main agent are the last ones shown, be it in a segment of their own ...
LEMMA WholeWordsAreShown ==
  ASSUME NEW v, Legible(v), v.stack = <<>>, NEW kind \in {"text", "thinking"}, NEW word \in Nat
  PROVE  LET w == Apply(v, Event("delta", kind, -1, word, NoId))
         IN  /\ Legible(w) /\ Said(w.segments) = Said(v.segments) \o <<word>>
             /\ w.stack = v.stack /\ w.heard = v.heard /\ Newest(w) # 0
<1> DEFINE w == Apply(v, Event("delta", kind, -1, word, NoId))
           s == Segment(kind, <<>>, NoId)
           y == Show(v, s)
           n == Newest(y)
           z == [y EXCEPT !.segments[n].words = Append(@, word)]
<1>1. w = z
  <2>1. -1 \notin DOMAIN OpenOf(v, kind)
    <3>1. PICK segs, tx, th, tl, st, h :
            Consists(v, segs, tx, th, tl, st, h) /\ Sound(segs, tx, th, st)
      BY DEF Legible
    <3>2. v.text = tx /\ v.thinking = th
      BY <3>1, PartsOfView
    <3> QED
      BY <3>1, <3>2 DEF Sound, OpenOf
  <2>2. OpenAt(y, kind, -1) = y
    BY DEF OpenAt
  <2>3. w = AppendWords(v, kind, -1, word)
    BY DEF Apply, Event, Words, InSubagent
  <2> HIDE DEF w
  <2> QED
    BY <2>1, <2>2, <2>3 DEF AppendWords
<1>2. s \in TheSegments /\ s.words = <<>>
  BY SegmentsBegin DEF Kinds, Ids
<1> HIDE DEF w, s
<1>3. /\ Legible(y) /\ Said(y.segments) = Said(v.segments) \o s.words
      /\ Newest(y) = Newest(v) + 1 /\ Newest(v) \in Nat
      /\ y.stack = v.stack /\ y.heard = v.heard
  BY <1>2, ShowingAddsASegment
<1>4. Said(y.segments) = Said(v.segments)
  BY <1>2, <1>3, SaidIsASequence, NothingMore
<1> HIDE DEF y
<1>5. n = Newest(y) /\ n # 0
  BY <1>3
<1> HIDE DEF n
<1>6. /\ Legible(z) /\ Said(z.segments) = Said(y.segments) \o <<word>> /\ Newest(z) = n
      /\ z.stack = y.stack /\ z.heard = y.heard
  <2>1. Writes(y, z, n, word)
    BY DEF Writes
  <2> HIDE DEF z
  <2>2. QED
    <3>1. Legible(y)
      BY <1>3
    <3> QED
      BY <1>5, <2>1, <3>1, WritingAddsAWord
<1> HIDE DEF z
<1>7. /\ Legible(w) /\ Said(w.segments) = Said(v.segments) \o <<word>>
      /\ w.stack = v.stack /\ w.heard = v.heard /\ Newest(w) # 0
  BY <1>1, <1>3, <1>4, <1>5, <1>6
<1> QED
  BY <1>7 DEF w

\* ... or in the newest, which is the one of the block that is open.
LEMMA PiecesAreShown ==
  ASSUME NEW v, Legible(v), v.stack = <<>>, NEW kind \in {"text", "thinking"}, NEW i,
         i \in DOMAIN OpenOf(v, kind), OpenOf(v, kind)[i] = Newest(v), Newest(v) # 0,
         NEW word \in Nat
  PROVE  LET w == Apply(v, Event("delta", kind, i, word, NoId))
         IN  /\ Legible(w) /\ Said(w.segments) = Said(v.segments) \o <<word>>
             /\ w.stack = v.stack /\ w.heard = v.heard
             /\ OpenOf(w, kind) = OpenOf(v, kind) /\ Newest(w) = Newest(v)
<1> DEFINE w == Apply(v, Event("delta", kind, i, word, NoId))
           n == Newest(v)
           z == [v EXCEPT !.segments[n].words = Append(@, word)]
<1>1. w = z
  <2>1. w = AppendWords(v, kind, i, word)
    BY DEF Apply, Event, Words, InSubagent
  <2> HIDE DEF w
  <2> QED
    BY <2>1 DEF AppendWords
<1>2. n = Newest(v) /\ n # 0
  OBVIOUS
<1> HIDE DEF w, n
<1>3. /\ Legible(z) /\ Said(z.segments) = Said(v.segments) \o <<word>> /\ Newest(z) = n
      /\ z.stack = v.stack /\ z.heard = v.heard /\ z.text = v.text /\ z.thinking = v.thinking
  <2>1. Writes(v, z, n, word)
    BY DEF Writes
  <2> HIDE DEF z
  <2> QED
    BY <1>2, <2>1, WritingAddsAWord
<1> HIDE DEF z
<1>4. OpenOf(z, kind) = OpenOf(v, kind)
  BY <1>3 DEF OpenOf
<1>5. /\ Legible(w) /\ Said(w.segments) = Said(v.segments) \o <<word>>
      /\ w.stack = v.stack /\ w.heard = v.heard
      /\ OpenOf(w, kind) = OpenOf(v, kind) /\ Newest(w) = Newest(v)
  BY <1>1, <1>2, <1>3, <1>4
<1> QED
  BY <1>5 DEF w

\* The end of a block says nothing.
LEMMA StopsSayNothing ==
  ASSUME NEW v, Legible(v), NEW i
  PROVE  LET w == Apply(v, Event("stop", "none", i, 0, NoId))
         IN  Legible(w) /\ SaysTheSame(v, w)
<1>1. Apply(v, Event("stop", "none", i, 0, NoId)) = CloseBlock(v, i)
  BY DEF Apply, Event
<1> QED
  BY <1>1, ClosingSaysTheSame

\* Nor does an error, in a segment of its own.
LEMMA ErrorsSayNothing ==
  ASSUME NEW v, Legible(v)
  PROVE  LET w == Apply(v, Event("error", "none", -1, 0, NoId))
         IN  /\ Legible(w) /\ Said(w.segments) = Said(v.segments)
             /\ w.stack = v.stack /\ w.heard = v.heard /\ Newest(w) # 0
<1> DEFINE w == Apply(v, Event("error", "none", -1, 0, NoId))
           s == Segment("error", <<>>, NoId)
           y == Show(v, s)
<1>1. w = y
  BY DEF Apply, Event
<1>2. s \in TheSegments /\ s.words = <<>>
  BY SegmentsBegin DEF Kinds, Ids
<1> HIDE DEF w, s
<1>3. /\ Legible(y) /\ Said(y.segments) = Said(v.segments) \o s.words
      /\ Newest(y) = Newest(v) + 1 /\ Newest(v) \in Nat
      /\ y.stack = v.stack /\ y.heard = v.heard
  BY <1>2, ShowingAddsASegment
<1>4. Said(y.segments) = Said(v.segments)
  BY <1>2, <1>3, SaidIsASequence, NothingMore
<1> HIDE DEF y
<1>5. /\ Legible(w) /\ Said(w.segments) = Said(v.segments)
      /\ w.stack = v.stack /\ w.heard = v.heard /\ Newest(w) # 0
  BY <1>1, <1>3, <1>4
<1> QED
  BY <1>5 DEF w

\* A tool says nothing; a Task is the innermost one then.
LEMMA ToolsSayNothing ==
  ASSUME NEW v, Legible(v), v.stack # <<>> => Newest(v) # 0,
         NEW id \in Tasks \cup OtherTools, NEW i \in Int
  PROVE  LET w == Apply(v, Event("tool", "none", i, 0, id))
         IN  /\ Legible(w) /\ Said(w.segments) = Said(v.segments)
             /\ w.heard = v.heard /\ Newest(w) # 0
             /\ id \notin Tasks => w.stack = v.stack
             /\ id \in Tasks =>
                  \E n \in Nat : w.stack = Append(v.stack, [id |-> id, segment |-> n])
<1> DEFINE w == Apply(v, Event("tool", "none", i, 0, id))
           x == IF i < 0 THEN v ELSE CloseBlock(v, i)
           Telling(z) ==
             /\ Legible(z) /\ Said(z.segments) = Said(v.segments)
             /\ z.heard = v.heard /\ Newest(z) # 0
           Opening(z) ==
             /\ id \notin Tasks => z.stack = v.stack
             /\ id \in Tasks =>
                  \E n \in Nat : z.stack = Append(v.stack, [id |-> id, segment |-> n])
<1>1. w = ToolCall(v, Event("tool", "none", i, 0, id))
  BY DEF Apply, Event
<1>2. Legible(x) /\ SaysTheSame(v, x) /\ Newest(x) = Newest(v)
  BY ClosingSaysTheSame DEF SaysTheSame, Newest
<1>3. CASE id \in Tasks
  <2> DEFINE s == Segment("subagent", <<>>, id)
             y == Show(x, s)
             st == Append(v.stack, [id |-> id, segment |-> Newest(y)])
             z == [y EXCEPT !.stack = st]
  <2>1. w = Push(x, id)
    BY <1>1, <1>3 DEF ToolCall, Event
  <2>2. s \in TheSegments /\ s.words = <<>>
    BY SegmentsBegin DEF Kinds, Ids
  <2> HIDE DEF x, w
  <2>3. w = [y EXCEPT !.stack = Append(@, [id |-> id, segment |-> Newest(y)])]
    BY <2>1 DEF Push
  <2> HIDE DEF s
  <2>4. /\ Legible(y) /\ Said(y.segments) = Said(x.segments) \o s.words
        /\ Newest(y) = Newest(x) + 1 /\ Newest(x) \in Nat
        /\ y.stack = x.stack /\ y.heard = x.heard
    BY <1>2, <2>2, ShowingAddsASegment
  <2>5. Said(y.segments) = Said(v.segments)
    BY <1>2, <2>2, <2>4, SaidIsASequence, NothingMore DEF SaysTheSame
  <2> HIDE DEF y
  <2>6. w = z
    BY <1>2, <2>3, <2>4 DEF SaysTheSame
  <2>7. PICK segs, tx, th, tl, sy, h :
          Consists(y, segs, tx, th, tl, sy, h) /\ Sound(segs, tx, th, sy)
    BY <2>4 DEF Legible
  <2>8. y.segments = segs /\ y.heard = h /\ y.stack = sy
    BY <2>7, PartsOfView
  <2>9. Newest(y) \in Nat /\ Newest(y) # 0 /\ sy = v.stack
    BY <1>2, <2>4, <2>8 DEF SaysTheSame
  <2>10. st \in Seq(OpenTasks)
    <3>1. [id |-> id, segment |-> Newest(y)] \in OpenTasks
      BY <1>3, <2>9 DEF OpenTasks
    <3>2. v.stack \in Seq(OpenTasks)
      BY <2>7, <2>9 DEF Sound
    <3> QED
      BY <3>1, <3>2
  <2>11. st = Append(v.stack, [id |-> id, segment |-> Newest(y)])
    OBVIOUS
  <2> HIDE DEF st
  <2>12. Consists(z, segs, tx, th, tl, st, h)
    BY <2>7, ViewChanges
  <2> HIDE DEF z
  <2>13. z.segments = segs /\ z.stack = st /\ z.heard = h
    BY <2>12, PartsOfView
  <2>14. Legible(z)
    BY <2>7, <2>10, <2>12 DEF Legible, Sound
  <2>15. Newest(z) = Newest(y)
    BY <2>8, <2>13 DEF Newest
  <2>16. Telling(w)
    BY <1>2, <2>4, <2>5, <2>6, <2>8, <2>9, <2>13, <2>14, <2>15 DEF SaysTheSame
  <2>17. Opening(w)
    BY <1>3, <2>6, <2>9, <2>11, <2>13
  <2> HIDE DEF Telling, Opening
  <2>18. Telling(w) /\ Opening(w)
    BY <2>16, <2>17
  <2> QED
    BY <2>18 DEF Telling, Opening, w
<1>4. CASE id \notin Tasks /\ x.stack # <<>>
  <2> DEFINE p == Last(x.stack).segment
  <2>1. w = [x EXCEPT !.segments[p].calls = @ + 1, !.tool = IF i < 0 THEN @ ELSE At(@, i, p)]
    BY <1>1, <1>4 DEF ToolCall, Event, InSubagent
  <2> HIDE DEF x, w, p
  <2>2. PICK segs, tx, th, tl, sx, h :
          Consists(x, segs, tx, th, tl, sx, h) /\ Sound(segs, tx, th, sx)
    BY <1>2 DEF Legible
  <2>3. x.segments = segs /\ x.heard = h /\ x.stack = sx /\ x.tool = tl
    BY <2>2, PartsOfView
  <2> DEFINE more == [segs EXCEPT ![p].calls = @ + 1]
             open == IF i < 0 THEN tl ELSE At(tl, i, p)
             y == [x EXCEPT !.segments = more]
             z == [y EXCEPT !.tool = open]
  <2>4. more \in Seq(TheSegments) /\ Said(more) = Said(segs) /\ Len(more) = Len(segs)
    BY <2>2, CountedSaysTheSame DEF Sound
  <2>5. w = z
    <3>1. y.tool = tl
      BY <2>2, ViewChanges, PartsOfView
    <3>2. w = [x EXCEPT !.segments = more, !.tool = open]
      BY <2>1, <2>3
    <3> HIDE DEF more, open
    <3> QED
      BY <3>1, <3>2
  <2> HIDE DEF more, open
  <2>6. Consists(y, more, tx, th, tl, sx, h)
    BY <2>2, ViewChanges
  <2> HIDE DEF y
  <2>7. Consists(z, more, tx, th, open, sx, h)
    BY <2>6, ViewChanges
  <2> HIDE DEF z
  <2>8. z.segments = more /\ z.stack = sx /\ z.heard = h
    BY <2>7, PartsOfView
  <2>9. Legible(z)
    BY <2>2, <2>4, <2>7 DEF Legible, Sound
  <2>10. Newest(z) = Newest(v) /\ Newest(v) # 0
    BY <1>2, <1>4, <2>3, <2>4, <2>8 DEF Newest, SaysTheSame
  <2>11. Telling(w)
    BY <1>2, <2>3, <2>4, <2>5, <2>8, <2>9, <2>10 DEF SaysTheSame
  <2>12. Opening(w)
    BY <1>2, <1>4, <2>3, <2>5, <2>8 DEF SaysTheSame
  <2> HIDE DEF Telling, Opening
  <2>13. Telling(w) /\ Opening(w)
    BY <2>11, <2>12
  <2> QED
    BY <2>13 DEF Telling, Opening, w
<1>5. CASE id \notin Tasks /\ x.stack = <<>>
  <2> DEFINE s == [Segment("tool", <<>>, id) EXCEPT !.closed = i < 0]
             y == Show(x, s)
             z == OpenAt(y, "tool", i)
  <2>1. w = z
    BY <1>1, <1>5 DEF ToolCall, Event, InSubagent
  <2>2. s \in TheSegments /\ s.words = <<>>
    <3>1. Segment("tool", <<>>, id) \in TheSegments /\ Segment("tool", <<>>, id).words = <<>>
      BY SegmentsBegin DEF Kinds, Ids
    <3>2. \A r \in TheSegments : \A c \in BOOLEAN :
            [r EXCEPT !.closed = c] \in TheSegments /\ [r EXCEPT !.closed = c].words = r.words
      BY DEF TheSegments
    <3>3. (i < 0) \in BOOLEAN
      OBVIOUS
    <3> QED
      BY <3>1, <3>2, <3>3
  <2> HIDE DEF x, w, s
  <2>3. /\ Legible(y) /\ Said(y.segments) = Said(x.segments) \o s.words
        /\ Newest(y) = Newest(x) + 1 /\ Newest(x) \in Nat
        /\ y.stack = x.stack /\ y.heard = x.heard
    BY <1>2, <2>2, ShowingAddsASegment
  <2>4. Said(y.segments) = Said(v.segments)
    BY <1>2, <2>2, <2>3, SaidIsASequence, NothingMore DEF SaysTheSame
  <2> HIDE DEF y
  <2>5. Legible(z) /\ z.segments = y.segments /\ z.stack = y.stack /\ z.heard = y.heard
    BY <2>3, OpeningIsByIndex
  <2> HIDE DEF z
  <2>6. Newest(z) = Newest(y) /\ Newest(y) # 0
    BY <2>3, <2>5 DEF Newest
  <2>7. Telling(w)
    BY <1>2, <2>1, <2>3, <2>4, <2>5, <2>6 DEF SaysTheSame
  <2>8. Opening(w)
    BY <1>2, <1>5, <2>1, <2>3, <2>5 DEF SaysTheSame
  <2> HIDE DEF Telling, Opening
  <2>9. Telling(w) /\ Opening(w)
    BY <2>7, <2>8
  <2> QED
    BY <2>9 DEF Telling, Opening, w
<1> QED
  BY <1>3, <1>4, <1>5

-----------------------------------------------------------------------------
(* The open Tasks.  A result may end another Task than its own, if their    *)
(* ids are alike; so what is open is matched with what runs one to one.     *)

\* Ids that are like a third are alike: those of one length, for instance.
Clusters == \A x, y, z \in Tasks : RoughlyMatch(x, y) /\ RoughlyMatch(y, z) => RoughlyMatch(x, z)

Owing(st, R, f) ==
  /\ f \in [DOMAIN st -> R]
  /\ \A i, j \in DOMAIN st : f[i] = f[j] => i = j
  /\ \A i \in DOMAIN st : RoughlyMatch(st[i].id, f[i])

Owed(st, R) == \E f : Owing(st, R, f)

LEMMA OwedWithOneMore ==
  ASSUME NEW st \in Seq(OpenTasks), NEW R \in SUBSET Tasks, Owed(st, R),
         NEW id \in Tasks, id \notin R, NEW n \in Nat
  PROVE  Owed(Append(st, [id |-> id, segment |-> n]), R \cup {id})
<1>1. PICK f : Owing(st, R, f)
  BY DEF Owed
<1> DEFINE e == [id |-> id, segment |-> n]
           more == Append(st, e)
           g == [i \in 1 .. Len(st) + 1 |-> IF i = Len(st) + 1 THEN id ELSE f[i]]
<1>2. Len(st) \in Nat /\ DOMAIN st = 1 .. Len(st) /\ e \in OpenTasks
  BY DEF OpenTasks
<1>3. e.id = id
  OBVIOUS
<1> HIDE DEF e
<1>4. /\ DOMAIN more = 1 .. Len(st) + 1
      /\ \A i \in 1 .. Len(st) + 1 : more[i] = IF i = Len(st) + 1 THEN e ELSE st[i]
  BY <1>2
<1> HIDE DEF more
<1>5. f \in [1 .. Len(st) -> R]
  BY <1>1, <1>2 DEF Owing
<1>6. g \in [DOMAIN more -> R \cup {id}]
  BY <1>2, <1>4, <1>5
<1>7. \A i, j \in DOMAIN more : g[i] = g[j] => i = j
  BY <1>1, <1>2, <1>4, <1>5 DEF Owing
<1>8. \A i \in DOMAIN more : RoughlyMatch(more[i].id, g[i])
  BY <1>1, <1>2, <1>3, <1>4, <1>5 DEF Owing, RoughlyMatch
<1>9. Owing(more, R \cup {id}, g)
  BY <1>6, <1>7, <1>8 DEF Owing
<1>10. Owed(more, R \cup {id})
  BY <1>9 DEF Owed
<1> QED
  BY <1>10 DEF more, e

\* Whichever Task a result ends, as many at most are open as run.
LEMMA OwedWithoutOne ==
  ASSUME Clusters, NEW v, v.stack \in Seq(OpenTasks), NEW R \in SUBSET Tasks, Owed(v.stack, R),
         NEW id \in R
  PROVE  \/ Pop(v, id) = v /\ Owed(v.stack, R \ {id})
         \/ \E k \in DOMAIN v.stack :
              /\ Pop(v, id) = [v EXCEPT !.stack = SubSeq(@, 1, k - 1)]
              /\ SubSeq(v.stack, 1, k - 1) \in Seq(OpenTasks)
              /\ Owed(SubSeq(v.stack, 1, k - 1), R \ {id})
<1> DEFINE st == v.stack
           matching == {k \in DOMAIN st : RoughlyMatch(st[k].id, id)}
<1>0. Len(st) \in Nat /\ DOMAIN st = 1 .. Len(st) /\ \A i \in DOMAIN st : st[i].id \in Tasks
  <2>1. Len(st) \in Nat /\ DOMAIN st = 1 .. Len(st) /\ \A i \in DOMAIN st : st[i] \in OpenTasks
    OBVIOUS
  <2>2. \A e \in OpenTasks : e.id \in Tasks
    BY DEF OpenTasks
  <2> QED
    BY <2>1, <2>2
<1>1. PICK f : Owing(st, R, f)
  BY DEF Owed
<1>2. CASE matching = {}
  <2>1. Pop(v, id) = v
    BY <1>2 DEF Pop
  <2>2. \A i \in DOMAIN st : f[i] # id
    BY <1>1, <1>2 DEF Owing
  <2>3. Owing(st, R \ {id}, f)
    BY <1>1, <2>2 DEF Owing
  <2> QED
    BY <2>1, <2>3 DEF Owed
<1>3. CASE matching # {}
  <2>1. \E k \in matching : \A j \in matching : j <= k
    <3> DEFINE n == Len(st)
               S == {n - k : k \in matching}
    <3>1. n \in Nat /\ matching \subseteq 1 .. n
      BY <1>0
    <3> HIDE DEF n, matching
    <3>2. S \in SUBSET Nat
      BY <3>1
    <3>3. S # {}
      BY <1>3
    <3>4. \A j \in matching : n - j \in S
      OBVIOUS
    <3>5. \E m \in S : \A j \in S : m <= j
      <4> HIDE DEF S
      <4> QED
        BY <3>2, <3>3, LeastOf
    <3>6. PICK m \in S : \A j \in S : m <= j
      BY <3>5
    <3>7. PICK k \in matching : m = n - k
      BY <3>6
    <3>8. \A j \in matching : n - k <= n - j
      BY <3>4, <3>6, <3>7
    <3>9. \A j \in matching : j <= k
      BY <3>1, <3>8
    <3> QED
      BY <3>9
  <2> DEFINE k == CHOOSE x \in matching : \A j \in matching : j <= x
             less == SubSeq(st, 1, k - 1)
             g == [i \in 1 .. k - 1 |-> IF f[i] = id THEN f[k] ELSE f[i]]
  <2>2. k \in matching /\ \A j \in matching : j <= k
    BY <2>1
  <2>3. Pop(v, id) = [v EXCEPT !.stack = SubSeq(@, 1, k - 1)]
    BY <1>3 DEF Pop
  <2> HIDE DEF k
  <2>4. k \in 1 .. Len(st) /\ k \in DOMAIN st /\ RoughlyMatch(st[k].id, id)
    BY <1>0, <2>2
  <2>5. /\ less \in Seq(OpenTasks)
        /\ DOMAIN less = 1 .. k - 1 /\ \A i \in 1 .. k - 1 : i \in DOMAIN st /\ less[i] = st[i]
    BY <1>0, <2>4
  <2> HIDE DEF less
  <2>6. /\ \A i \in DOMAIN st : f[i] \in R
        /\ \A i, j \in DOMAIN st : f[i] = f[j] => i = j
        /\ \A i \in DOMAIN st : RoughlyMatch(st[i].id, f[i])
    BY <1>1 DEF Owing
  <2>7. \A i \in 1 .. k - 1 : g[i] \in R \ {id}
    BY <1>0, <2>4, <2>5, <2>6
  <2>8. \A i, j \in 1 .. k - 1 : g[i] = g[j] => i = j
    BY <1>0, <2>4, <2>5, <2>6
  <2>9. \A i \in 1 .. k - 1 : RoughlyMatch(less[i].id, g[i])
    <3> TAKE i \in 1 .. k - 1
    <3>1. i \in DOMAIN st /\ less[i] = st[i] /\ st[i].id \in Tasks /\ st[k].id \in Tasks
      BY <1>0, <2>4, <2>5
    <3>2. CASE f[i] # id
      BY <2>5, <2>6, <3>1, <3>2
    <3>3. CASE f[i] = id
      <4>1. RoughlyMatch(st[i].id, id) /\ RoughlyMatch(st[k].id, f[k])
        BY <2>4, <2>6, <3>1, <3>3
      <4>2. RoughlyMatch(id, st[k].id)
        BY <2>4, <3>1, TranscriptAssumption DEF RoughlyMatch
      <4>3. RoughlyMatch(st[i].id, st[k].id)
        BY <3>1, <4>1, <4>2 DEF Clusters
      <4>4. f[k] \in Tasks
        BY <2>4, <2>6
      <4>5. RoughlyMatch(st[i].id, f[k])
        BY <3>1, <4>1, <4>3, <4>4 DEF Clusters
      <4> QED
        BY <3>1, <3>3, <4>5
    <3> QED
      BY <3>2, <3>3
  <2>10. Owing(less, R \ {id}, g)
    BY <2>5, <2>7, <2>8, <2>9 DEF Owing
  <2>11. Owed(less, R \ {id})
    BY <2>10 DEF Owed
  <2> QED
    BY <2>3, <2>4, <2>5, <2>11 DEF less
<1> QED
  BY <1>2, <1>3

\* A result says nothing.
LEMMA ResultsSayNothing ==
  ASSUME Clusters, NEW v, Legible(v), NEW R \in SUBSET Tasks, Owed(v.stack, R),
         NEW id \in Tasks \cup OtherTools, id \in Tasks => id \in R
  PROVE  LET w == Apply(v, Event("result", "none", -1, 0, id))
         IN  /\ Legible(w) /\ w.segments = v.segments /\ w.heard = v.heard
             /\ Owed(w.stack, R \ {id}) /\ (v.stack = <<>> => w.stack = <<>>)
<1> DEFINE w == Apply(v, Event("result", "none", -1, 0, id))
<1>1. w = Pop(v, id)
  BY DEF Apply, Event, ToolResult
<1>2. PICK segs, tx, th, tl, st, h : Consists(v, segs, tx, th, tl, st, h) /\ Sound(segs, tx, th, st)
  BY DEF Legible
<1>3. v.segments = segs /\ v.heard = h /\ v.stack = st /\ st \in Seq(OpenTasks)
  BY <1>2, PartsOfView DEF Sound
<1> HIDE DEF w
<1>4. CASE id \notin Tasks
  <2>1. \A k \in DOMAIN st : ~RoughlyMatch(st[k].id, id)
    <3>1. \A k \in DOMAIN st : st[k] \in OpenTasks
      BY <1>3
    <3>2. \A e \in OpenTasks : e.id \in Tasks
      BY DEF OpenTasks
    <3> QED
      BY <1>4, <3>1, <3>2, TranscriptAssumption DEF RoughlyMatch
  <2>2. w = v
    BY <1>1, <1>3, <2>1 DEF Pop
  <2>3. R \ {id} = R
    BY <1>4
  <2> QED
    BY <2>2, <2>3 DEF w
<1>5. CASE id \in Tasks /\ w = v /\ Owed(v.stack, R \ {id})
  BY <1>5 DEF w
<1>6. ASSUME id \in Tasks,
             NEW k \in DOMAIN v.stack, w = [v EXCEPT !.stack = SubSeq(@, 1, k - 1)],
             SubSeq(v.stack, 1, k - 1) \in Seq(OpenTasks),
             Owed(SubSeq(v.stack, 1, k - 1), R \ {id})
      PROVE  /\ Legible(w) /\ w.segments = v.segments /\ w.heard = v.heard
             /\ Owed(w.stack, R \ {id}) /\ v.stack # <<>>
  <2> DEFINE less == SubSeq(v.stack, 1, k - 1)
  <2>1. less \in Seq(OpenTasks) /\ Owed(less, R \ {id}) /\ w = [v EXCEPT !.stack = less]
    BY <1>6
  <2> HIDE DEF less
  <2>2. Consists([v EXCEPT !.stack = less], segs, tx, th, tl, less, h)
    BY <1>2, ViewChanges
  <2>3. Consists(w, segs, tx, th, tl, less, h)
    BY <2>1, <2>2
  <2>4. w.segments = segs /\ w.heard = h /\ w.stack = less
    BY <2>3, PartsOfView
  <2>5. Legible(w)
    BY <1>2, <2>1, <2>3 DEF Legible, Sound
  <2> QED
    BY <1>3, <2>1, <2>4, <2>5
<1>7. id \in Tasks =>
        \/ w = v /\ Owed(v.stack, R \ {id})
        \/ \E k \in DOMAIN v.stack :
             /\ w = [v EXCEPT !.stack = SubSeq(@, 1, k - 1)]
             /\ SubSeq(v.stack, 1, k - 1) \in Seq(OpenTasks)
             /\ Owed(SubSeq(v.stack, 1, k - 1), R \ {id})
  BY <1>1, <1>3, OwedWithoutOne
<1> QED
  BY <1>4, <1>5, <1>6, <1>7 DEF w

-----------------------------------------------------------------------------
(* The invariant.  Words are written to the newest segment or to a new one, *)
(* so that they are shown in their order; no Task is left open when none    *)
(* runs; and the block the main agent is saying is the newest.              *)

InOrder(said, sp, n) ==
  /\ said \in Seq(Nat) /\ sp \in Seq(Nat)
  /\ \A i, j \in DOMAIN said : i < j => said[i] < said[j]
  /\ \A i \in DOMAIN said : said[i] <= n
  /\ ToSet(sp) \subseteq ToSet(said)

StreamIsHeard ==
  turn = "running" /\ stream.kind \in {"text", "thinking"} =>
    /\ MainSpeaks
    /\ stream.index \in DOMAIN OpenOf(view, stream.kind)
    /\ OpenOf(view, stream.kind)[stream.index] = Newest(view)

BeginsSilent ==
  /\ turn = "running" /\ ~view.heard => events = 0 /\ Newest(view) = 0
  /\ events = 0 => stream = NoBlock /\ \A id \in Tasks \cup OtherTools : agents[id] = "new"
  /\ events # 0 \/ view.heard \/ view.stack # <<>> \/ turn = "complete" => Newest(view) # 0

TranscriptInvariant ==
  /\ agents \in [Tasks \cup OtherTools -> {"new", "running", "done"}]
  /\ stream \in [kind : {"none", "text", "thinking", "tool"}, index : {-1, 0, 1}]
  /\ events \in Nat
  /\ Legible(view)
  /\ Owed(view.stack, RunningTasks)
  /\ InOrder(Said(view.segments), spoken, events)
  /\ StreamIsHeard
  /\ BeginsSilent

\* What is heard is the same but for being heard.
LEMMA HearingChangesNothing ==
  ASSUME NEW w, Legible(w), NEW u, u = [w EXCEPT !.heard = TRUE]
  PROVE  /\ Legible(u) /\ u.segments = w.segments /\ u.stack = w.stack
         /\ \A kind : OpenOf(u, kind) = OpenOf(w, kind)
         /\ Newest(u) = Newest(w) /\ u.heard
<1>1. PICK segs, tx, th, tl, st, h : Consists(w, segs, tx, th, tl, st, h) /\ Sound(segs, tx, th, st)
  BY DEF Legible
<1>2. w.segments = segs /\ w.stack = st /\ w.text = tx /\ w.thinking = th
  BY <1>1, PartsOfView
<1>3. PICK t : t = TRUE
  OBVIOUS
<1>4. Consists([w EXCEPT !.heard = t], segs, tx, th, tl, st, t)
  BY <1>1, ViewChanges
<1>5. u = [w EXCEPT !.heard = t]
  BY <1>3
<1>6. u.segments = segs /\ u.stack = st /\ u.text = tx /\ u.thinking = th /\ u.heard = t
  BY <1>4, <1>5, PartsOfView
<1>7. u.heard
  BY <1>3, <1>6
<1>8. Legible(u)
  BY <1>1, <1>4, <1>5 DEF Legible
<1> QED
  BY <1>2, <1>6, <1>7, <1>8 DEF OpenOf, Newest

LEMMA OneWordMore ==
  ASSUME NEW said, NEW sp, NEW n \in Nat, InOrder(said, sp, n)
  PROVE  /\ InOrder(said \o <<n + 1>>, sp, n + 1)
         /\ InOrder(said \o <<n + 1>>, Append(sp, n + 1), n + 1)
         /\ InOrder(said, sp, n + 1)
<1> DEFINE more == said \o <<n + 1>>
           says == Append(sp, n + 1)
<1>1. /\ said \in Seq(Nat) /\ sp \in Seq(Nat) /\ n + 1 \in Nat
      /\ Len(said) \in Nat /\ DOMAIN said = 1 .. Len(said)
      /\ Len(sp) \in Nat /\ DOMAIN sp = 1 .. Len(sp)
      /\ \A i \in DOMAIN said : said[i] \in Nat
  BY DEF InOrder
<1>2. /\ more \in Seq(Nat) /\ DOMAIN more = 1 .. Len(said) + 1
      /\ \A i \in 1 .. Len(said) + 1 : more[i] = IF i = Len(said) + 1 THEN n + 1 ELSE said[i]
  BY <1>1
<1>3. /\ says \in Seq(Nat) /\ DOMAIN says = 1 .. Len(sp) + 1
      /\ \A i \in 1 .. Len(sp) + 1 : says[i] = IF i = Len(sp) + 1 THEN n + 1 ELSE sp[i]
  BY <1>1
<1> HIDE DEF more, says
<1>4. ToSet(said) \subseteq ToSet(more) /\ n + 1 \in ToSet(more)
  <2>1. \A i \in DOMAIN said : i \in DOMAIN more /\ more[i] = said[i]
    BY <1>1, <1>2
  <2>2. Len(said) + 1 \in DOMAIN more /\ more[Len(said) + 1] = n + 1
    BY <1>1, <1>2
  <2> QED
    BY <2>1, <2>2 DEF ToSet
<1>5. ToSet(says) \subseteq ToSet(sp) \cup {n + 1}
  BY <1>1, <1>3 DEF ToSet
<1>6. \A i, j \in DOMAIN more : i < j => more[i] < more[j]
  <2>1. /\ \A i, j \in DOMAIN said : i < j => said[i] < said[j]
        /\ \A i \in DOMAIN said : said[i] <= n
    BY DEF InOrder
  <2> TAKE i, j \in DOMAIN more
  <2> HAVE i < j
  <2> DEFINE m == Len(said)
  <2>0. m \in Nat /\ DOMAIN said = 1 .. m /\ DOMAIN more = 1 .. m + 1
    BY <1>1, <1>2
  <2> HIDE DEF m
  <2>2. i \in DOMAIN said /\ more[i] = said[i] /\ said[i] \in Nat /\ said[i] <= n
    <3>1. i \in 1 .. m /\ i # m + 1
      BY <2>0
    <3>2. i \in DOMAIN said /\ more[i] = said[i]
      BY <1>2, <2>0, <3>1 DEF m
    <3> QED
      BY <1>1, <2>1, <3>2
  <2>3. CASE j = m + 1
    <3>1. more[j] = n + 1
      BY <1>2, <2>0, <2>3 DEF m
    <3> QED
      BY <2>2, <3>1
  <2>4. CASE j # m + 1
    <3>1. j \in DOMAIN said /\ more[j] = said[j]
      BY <1>2, <2>0, <2>4 DEF m
    <3> QED
      BY <2>1, <2>2, <3>1
  <2> QED
    BY <2>3, <2>4
<1>7. \A i \in DOMAIN more : more[i] <= n + 1
  <2>1. \A i \in DOMAIN said : said[i] <= n
    BY DEF InOrder
  <2> QED
    BY <1>1, <1>2, <2>1
<1>8. ToSet(sp) \subseteq ToSet(said)
  BY DEF InOrder
<1>9. InOrder(more, sp, n + 1) /\ InOrder(more, says, n + 1)
  BY <1>1, <1>2, <1>3, <1>4, <1>5, <1>6, <1>7, <1>8 DEF InOrder
<1>10. InOrder(said, sp, n + 1)
  BY <1>1 DEF InOrder
<1> QED
  BY <1>9, <1>10 DEF more, says

LEMMA NothingIsOwed ==
  ASSUME NEW v, Legible(v), Owed(v.stack, {})
  PROVE  v.stack = <<>>
<1>1. PICK segs, tx, th, tl, st, h : Consists(v, segs, tx, th, tl, st, h) /\ Sound(segs, tx, th, st)
  BY DEF Legible
<1>2. v.stack = st /\ st \in Seq(OpenTasks)
  BY <1>1, PartsOfView DEF Sound
<1>3. PICK f : f \in [DOMAIN st -> {}]
  BY <1>2 DEF Owed, Owing
<1>4. DOMAIN st = {}
  BY <1>3
<1> QED
  BY <1>2, <1>4

LEMMA MainHasTheView ==
  ASSUME TranscriptInvariant, MainSpeaks
  PROVE  view.stack = <<>>
  BY NothingIsOwed DEF TranscriptInvariant, MainSpeaks

LEMMA TranscriptStarts == TranscriptInit => TranscriptInvariant
<1> SUFFICES ASSUME TranscriptInit PROVE TranscriptInvariant
  OBVIOUS
<1>1. PICK n : n = <<>>
  OBVIOUS
<1>2. n \in Seq(TheSegments) /\ n \in Seq(OpenTasks) /\ DOMAIN n = {} /\ Len(n) = 0 /\ n \in Seq(Nat)
  BY <1>1
<1>3. Consists(view, n, n, n, n, n, FALSE)
  BY <1>1 DEF TranscriptInit, Consists
<1>4. Sound(n, n, n, n)
  BY <1>2 DEF Sound
<1>5. Legible(view) /\ view.segments = n /\ view.stack = n /\ Newest(view) = 0
  BY <1>2, <1>3, <1>4, PartsOfView DEF Legible, Newest
<1>6. Said(n) = n
  <2>1. [s \in DOMAIN n |-> n[s].words] = n
    BY <1>1, <1>2
  <2>2. FlattenSeq(n) = n
    BY <1>2, JoinsStepwise
  <2> QED
    BY <2>1, <2>2 DEF Said
<1>7. Owed(n, RunningTasks)
  <2>1. Owing(n, RunningTasks, n)
    BY <1>2 DEF Owing
  <2> QED
    BY <2>1 DEF Owed
<1>8. InOrder(n, n, 0)
  BY <1>2 DEF InOrder, ToSet
<1>9. stream = NoBlock /\ stream.kind = "none" /\ events = 0 /\ spoken = n /\ turn = "running"
  BY <1>1 DEF TranscriptInit, NoBlock
<1>10. stream \in [kind : {"none", "text", "thinking", "tool"}, index : {-1, 0, 1}]
  BY <1>9 DEF NoBlock
<1>11. agents \in [Tasks \cup OtherTools -> {"new", "running", "done"}]
       /\ \A id \in Tasks \cup OtherTools : agents[id] = "new"
  BY DEF TranscriptInit
<1>12. StreamIsHeard
  BY <1>9 DEF StreamIsHeard
<1>13. ~view.heard
  <2>1. PICK f : f = FALSE
    OBVIOUS
  <2>2. Consists(view, n, n, n, n, n, f)
    BY <1>3, <2>1
  <2>3. view.heard = f
    BY <2>2, PartsOfView
  <2> QED
    BY <2>1, <2>3
<1>14. BeginsSilent
  BY <1>1, <1>5, <1>9, <1>11, <1>13 DEF BeginsSilent
<1> QED
  BY <1>5, <1>6, <1>7, <1>8, <1>9, <1>10, <1>11, <1>12, <1>14 DEF TranscriptInvariant

-----------------------------------------------------------------------------
(* Every step keeps it.                                                     *)

\* What an event leaves is the view, heard.
LEMMA WhatIsPrinted ==
  ASSUME NEW e, Prints(e), Legible(Apply(view, e))
  PROVE  LET w == Apply(view, e)
         IN  /\ Legible(view') /\ view'.segments = w.segments /\ view'.stack = w.stack
             /\ \A kind : OpenOf(view', kind) = OpenOf(w, kind)
             /\ Newest(view') = Newest(w) /\ view'.heard
             /\ turn = "running" /\ events' = events + 1
<1> DEFINE w == Apply(view, e)
<1>1. view' = [w EXCEPT !.heard = TRUE] /\ turn = "running" /\ events' = events + 1
  BY DEF Prints
<1> HIDE DEF w
<1>2. Legible(w)
  BY DEF w
<1>3. /\ Legible(view') /\ view'.segments = w.segments /\ view'.stack = w.stack
      /\ \A kind : OpenOf(view', kind) = OpenOf(w, kind)
      /\ Newest(view') = Newest(w) /\ view'.heard
  BY <1>1, <1>2, HearingChangesNothing
<1> QED
  BY <1>1, <1>3 DEF w

\* After an event there is a segment, and something was heard.
LEMMA SomethingIsSaid ==
  ASSUME events \in Nat, events' = events + 1, Newest(view') # 0, view'.heard
  PROVE  BeginsSilent'
  BY DEF BeginsSilent

LEMMA SayingKeeps ==
  ASSUME TranscriptInvariant, NEW kind \in {"text", "thinking"}, Says(kind)
  PROVE  TranscriptInvariant'
<1> DEFINE e == Event("delta", kind, -1, events + 1, NoId)
           w == Apply(view, e)
<1>1. /\ events \in Nat /\ Legible(view) /\ Owed(view.stack, RunningTasks)
      /\ InOrder(Said(view.segments), spoken, events) /\ BeginsSilent
  BY DEF TranscriptInvariant
<1>2. /\ stream = NoBlock /\ Prints(e) /\ UNCHANGED <<agents, stream, turn>>
      /\ spoken' = IF MainSpeaks THEN Append(spoken, events + 1) ELSE spoken
  BY DEF Says
<1>3. /\ Legible(w) /\ w.stack = view.stack /\ Newest(w) # 0
      /\ InOrder(Said(w.segments), spoken', events + 1)
  <2>1. CASE view.stack = <<>>
    <3>1. /\ Legible(w) /\ Said(w.segments) = Said(view.segments) \o <<events + 1>>
          /\ w.stack = view.stack /\ Newest(w) # 0
      BY <1>1, <2>1, WholeWordsAreShown
    <3> HIDE DEF w
    <3>2. InOrder(Said(w.segments), spoken', events + 1)
      BY <1>1, <1>2, <3>1, OneWordMore
    <3> QED
      BY <3>1, <3>2
  <2>2. CASE view.stack # <<>>
    <3>1. w = view
      BY <2>2, SubagentsAreLeftOut
    <3>2. ~MainSpeaks
      BY <2>2, MainHasTheView
    <3> HIDE DEF w
    <3>3. InOrder(Said(view.segments), spoken, events + 1) /\ spoken' = spoken
      BY <1>1, <1>2, <3>2, OneWordMore
    <3> QED
      BY <1>1, <2>2, <3>1, <3>3 DEF BeginsSilent
  <2> QED
    BY <2>1, <2>2
<1>4. /\ Legible(view') /\ view'.segments = w.segments /\ view'.stack = w.stack
      /\ Newest(view') = Newest(w) /\ view'.heard /\ events' = events + 1
  <2> HIDE DEF e
  <2> QED
    BY <1>2, <1>3, WhatIsPrinted
<1> HIDE DEF w, e
<1>5. BeginsSilent'
  BY <1>1, <1>3, <1>4, SomethingIsSaid
<1>6. StreamIsHeard'
  BY <1>2 DEF StreamIsHeard, NoBlock
<1>7. Owed(view'.stack, RunningTasks')
  BY <1>1, <1>2, <1>3, <1>4 DEF RunningTasks
<1>8. InOrder(Said(view'.segments), spoken', events')
  BY <1>3, <1>4
<1> QED
  BY <1>1, <1>2, <1>4, <1>5, <1>6, <1>7, <1>8 DEF TranscriptInvariant

LEMMA StartingKeeps ==
  ASSUME TranscriptInvariant, NEW kind \in {"text", "thinking"}, NEW i \in {0, 1},
         StreamStarts(kind, i)
  PROVE  TranscriptInvariant'
<1> DEFINE e == Event("start", kind, i, 0, NoId)
           w == Apply(view, e)
<1>1. /\ events \in Nat /\ Legible(view) /\ Owed(view.stack, RunningTasks)
      /\ InOrder(Said(view.segments), spoken, events) /\ BeginsSilent
  BY DEF TranscriptInvariant
<1>2. /\ MainSpeaks /\ Prints(e) /\ UNCHANGED <<agents, spoken, turn>>
      /\ stream' = [kind |-> kind, index |-> i]
  BY DEF StreamStarts
<1>3. view.stack = <<>> /\ i \in Nat
  BY <1>2, MainHasTheView
<1>4. /\ Legible(w) /\ Said(w.segments) = Said(view.segments)
      /\ w.stack = view.stack /\ Newest(w) # 0
      /\ i \in DOMAIN OpenOf(w, kind) /\ OpenOf(w, kind)[i] = Newest(w)
  BY <1>1, <1>3, StartOpens
<1>5. /\ Legible(view') /\ view'.segments = w.segments /\ view'.stack = w.stack
      /\ Newest(view') = Newest(w) /\ view'.heard /\ events' = events + 1
      /\ OpenOf(view', kind) = OpenOf(w, kind)
  <2> HIDE DEF e
  <2> QED
    BY <1>2, <1>4, WhatIsPrinted
<1> HIDE DEF w, e
<1>6. BeginsSilent'
  BY <1>1, <1>4, <1>5, SomethingIsSaid
<1>7. StreamIsHeard'
  <2>1. stream'.kind = kind /\ stream'.index = i
    BY <1>2
  <2>2. MainSpeaks'
    BY <1>2 DEF MainSpeaks, RunningTasks
  <2>3. i \in DOMAIN OpenOf(view', kind) /\ OpenOf(view', kind)[i] = Newest(view')
    BY <1>4, <1>5
  <2> QED
    BY <2>1, <2>2, <2>3 DEF StreamIsHeard
<1>8. Owed(view'.stack, RunningTasks')
  BY <1>1, <1>2, <1>4, <1>5 DEF RunningTasks
<1>9. InOrder(Said(view'.segments), spoken', events')
  BY <1>1, <1>2, <1>4, <1>5, OneWordMore
<1>10. stream' \in [kind : {"none", "text", "thinking", "tool"}, index : {-1, 0, 1}]
  BY <1>2
<1>11. agents' \in [Tasks \cup OtherTools -> {"new", "running", "done"}] /\ events' \in Nat
  BY <1>1, <1>2, <1>5 DEF TranscriptInvariant
<1> QED
  BY <1>5, <1>6, <1>7, <1>8, <1>9, <1>10, <1>11 DEF TranscriptInvariant

LEMMA GoingOnKeeps ==
  ASSUME TranscriptInvariant, StreamSays
  PROVE  TranscriptInvariant'
<1> DEFINE kind == stream.kind
           i == stream.index
           e == Event("delta", kind, i, events + 1, NoId)
           w == Apply(view, e)
<1>1. /\ events \in Nat /\ Legible(view) /\ Owed(view.stack, RunningTasks)
      /\ InOrder(Said(view.segments), spoken, events) /\ BeginsSilent /\ StreamIsHeard
  BY DEF TranscriptInvariant
<1>2. /\ kind \in {"text", "thinking"} /\ Prints(e) /\ UNCHANGED <<agents, stream, turn>>
      /\ spoken' = Append(spoken, events + 1) /\ turn = "running"
  BY DEF StreamSays, Prints
<1>3. /\ MainSpeaks /\ i \in DOMAIN OpenOf(view, kind) /\ OpenOf(view, kind)[i] = Newest(view)
  BY <1>1, <1>2 DEF StreamIsHeard
<1>4. view.stack = <<>>
  BY <1>3, MainHasTheView
<1>5. Newest(view) # 0
  BY <1>1, <1>2 DEF BeginsSilent, NoBlock
<1> HIDE DEF kind, i
<1>6. /\ Legible(w) /\ Said(w.segments) = Said(view.segments) \o <<events + 1>>
      /\ w.stack = view.stack
      /\ OpenOf(w, kind) = OpenOf(view, kind) /\ Newest(w) = Newest(view)
  BY <1>1, <1>2, <1>3, <1>4, <1>5, PiecesAreShown
<1>7. /\ Legible(view') /\ view'.segments = w.segments /\ view'.stack = w.stack
      /\ Newest(view') = Newest(w) /\ view'.heard /\ events' = events + 1
      /\ OpenOf(view', kind) = OpenOf(w, kind)
  <2> HIDE DEF e
  <2> QED
    BY <1>2, <1>6, WhatIsPrinted
<1> HIDE DEF w, e
<1>8. BeginsSilent'
  BY <1>1, <1>5, <1>6, <1>7, SomethingIsSaid
<1>9. StreamIsHeard'
  <2>1. stream'.kind = kind /\ stream'.index = i
    BY <1>2 DEF kind, i
  <2>2. MainSpeaks'
    BY <1>2, <1>3 DEF MainSpeaks, RunningTasks
  <2>3. i \in DOMAIN OpenOf(view', kind) /\ OpenOf(view', kind)[i] = Newest(view')
    BY <1>3, <1>6, <1>7
  <2> QED
    BY <2>1, <2>2, <2>3 DEF StreamIsHeard
<1>10. Owed(view'.stack, RunningTasks')
  BY <1>1, <1>2, <1>6, <1>7 DEF RunningTasks
<1>11. InOrder(Said(view'.segments), spoken', events')
  BY <1>1, <1>2, <1>6, <1>7, OneWordMore
<1>12. /\ agents' \in [Tasks \cup OtherTools -> {"new", "running", "done"}] /\ events' \in Nat
       /\ stream' \in [kind : {"none", "text", "thinking", "tool"}, index : {-1, 0, 1}]
  BY <1>1, <1>2, <1>7 DEF TranscriptInvariant
<1> QED
  BY <1>7, <1>8, <1>9, <1>10, <1>11, <1>12 DEF TranscriptInvariant

LEMMA StoppingKeeps ==
  ASSUME TranscriptInvariant, StreamStops
  PROVE  TranscriptInvariant'
<1> DEFINE e == Event("stop", "none", stream.index, 0, NoId)
           w == Apply(view, e)
<1>1. /\ events \in Nat /\ Legible(view) /\ Owed(view.stack, RunningTasks)
      /\ InOrder(Said(view.segments), spoken, events) /\ BeginsSilent
  BY DEF TranscriptInvariant
<1>2. /\ stream # NoBlock /\ Prints(e) /\ UNCHANGED <<agents, spoken, turn>> /\ stream' = NoBlock
  BY DEF StreamStops
<1>3. Newest(view) # 0
  BY <1>1, <1>2 DEF BeginsSilent
<1>4. Legible(w) /\ SaysTheSame(view, w)
  BY <1>1, StopsSayNothing
<1>5. /\ Legible(view') /\ view'.segments = w.segments /\ view'.stack = w.stack
      /\ Newest(view') = Newest(w) /\ view'.heard /\ events' = events + 1
  <2> HIDE DEF e
  <2> QED
    BY <1>2, <1>4, WhatIsPrinted
<1> HIDE DEF w, e
<1>6. Newest(w) = Newest(view)
  BY <1>4 DEF SaysTheSame, Newest
<1>7. BeginsSilent'
  BY <1>1, <1>3, <1>5, <1>6, SomethingIsSaid
<1>8. StreamIsHeard'
  BY <1>2 DEF StreamIsHeard, NoBlock
<1>9. Owed(view'.stack, RunningTasks')
  BY <1>1, <1>2, <1>4, <1>5 DEF RunningTasks, SaysTheSame
<1>10. InOrder(Said(view'.segments), spoken', events')
  BY <1>1, <1>2, <1>4, <1>5, OneWordMore DEF SaysTheSame
<1>11. stream' \in [kind : {"none", "text", "thinking", "tool"}, index : {-1, 0, 1}]
  BY <1>2 DEF NoBlock
<1>12. agents' \in [Tasks \cup OtherTools -> {"new", "running", "done"}] /\ events' \in Nat
  BY <1>1, <1>2, <1>5 DEF TranscriptInvariant
<1> QED
  BY <1>5, <1>7, <1>8, <1>9, <1>10, <1>11, <1>12 DEF TranscriptInvariant

LEMMA CallingKeeps ==
  ASSUME TranscriptInvariant, NEW id \in Tasks \cup OtherTools, NEW i \in {-1, 0, 1}, Calls(id, i)
  PROVE  TranscriptInvariant'
<1> DEFINE e == Event("tool", "none", i, 0, id)
           w == Apply(view, e)
<1>1. /\ events \in Nat /\ Legible(view) /\ Owed(view.stack, RunningTasks)
      /\ InOrder(Said(view.segments), spoken, events) /\ BeginsSilent
      /\ agents \in [Tasks \cup OtherTools -> {"new", "running", "done"}]
  BY DEF TranscriptInvariant
<1>2. /\ agents[id] = "new" /\ Prints(e) /\ UNCHANGED <<spoken, turn>>
      /\ agents' = [agents EXCEPT ![id] = "running"]
      /\ stream' = IF i < 0 THEN NoBlock ELSE [kind |-> "tool", index |-> i]
  BY DEF Calls
<1>3. view.stack # <<>> => Newest(view) # 0
  BY <1>1 DEF BeginsSilent
<1>4. /\ Legible(w) /\ Said(w.segments) = Said(view.segments) /\ Newest(w) # 0
      /\ id \notin Tasks => w.stack = view.stack
      /\ id \in Tasks =>
           \E n \in Nat : w.stack = Append(view.stack, [id |-> id, segment |-> n])
  <2>1. Legible(view) /\ i \in Int
    BY <1>1
  <2> QED
    BY <1>3, <2>1, ToolsSayNothing
<1>5. /\ Legible(view') /\ view'.segments = w.segments /\ view'.stack = w.stack
      /\ Newest(view') = Newest(w) /\ view'.heard /\ events' = events + 1
  <2> HIDE DEF e
  <2> QED
    BY <1>2, <1>4, WhatIsPrinted
<1> HIDE DEF w, e
<1>6. BeginsSilent'
  BY <1>1, <1>4, <1>5, SomethingIsSaid
<1>7. StreamIsHeard'
  <2>1. stream'.kind \notin {"text", "thinking"}
    BY <1>2 DEF NoBlock
  <2> QED
    BY <2>1 DEF StreamIsHeard
<1>8. Owed(view'.stack, RunningTasks')
  <2>1. CASE id \notin Tasks
    <3>1. RunningTasks' = RunningTasks
      BY <1>1, <1>2, <2>1 DEF RunningTasks
    <3> QED
      BY <1>1, <1>4, <1>5, <2>1, <3>1
  <2>2. CASE id \in Tasks
    <3>1. RunningTasks' = RunningTasks \cup {id} /\ id \notin RunningTasks
      BY <1>1, <1>2, <2>2 DEF RunningTasks
    <3>2. RunningTasks \in SUBSET Tasks
      BY DEF RunningTasks
    <3>3. PICK n \in Nat : w.stack = Append(view.stack, [id |-> id, segment |-> n])
      BY <1>4, <2>2
    <3>4. view.stack \in Seq(OpenTasks)
      BY <1>1, PartsOfView DEF Legible, Sound
    <3>5. Owed(Append(view.stack, [id |-> id, segment |-> n]), RunningTasks \cup {id})
      BY <1>1, <2>2, <3>1, <3>2, <3>4, OwedWithOneMore
    <3> QED
      BY <1>5, <3>1, <3>3, <3>5
  <2> QED
    BY <2>1, <2>2
<1>9. InOrder(Said(view'.segments), spoken', events')
  BY <1>1, <1>2, <1>4, <1>5, OneWordMore
<1>10. stream' \in [kind : {"none", "text", "thinking", "tool"}, index : {-1, 0, 1}]
  BY <1>2 DEF NoBlock
<1>11. agents' \in [Tasks \cup OtherTools -> {"new", "running", "done"}] /\ events' \in Nat
  BY <1>1, <1>2, <1>5
<1> QED
  BY <1>5, <1>6, <1>7, <1>8, <1>9, <1>10, <1>11 DEF TranscriptInvariant

LEMMA ReturningKeeps ==
  ASSUME Clusters, TranscriptInvariant, NEW id \in Tasks \cup OtherTools, Returns(id)
  PROVE  TranscriptInvariant'
<1> DEFINE e == Event("result", "none", -1, 0, id)
           w == Apply(view, e)
<1>1. /\ events \in Nat /\ Legible(view) /\ Owed(view.stack, RunningTasks)
      /\ InOrder(Said(view.segments), spoken, events) /\ BeginsSilent
      /\ agents \in [Tasks \cup OtherTools -> {"new", "running", "done"}]
  BY DEF TranscriptInvariant
<1>2. /\ agents[id] = "running" /\ stream = NoBlock /\ Prints(e)
      /\ UNCHANGED <<spoken, stream, turn>> /\ agents' = [agents EXCEPT ![id] = "done"]
  BY DEF Returns
<1>3. RunningTasks \in SUBSET Tasks /\ (id \in Tasks => id \in RunningTasks)
  BY <1>2 DEF RunningTasks
<1>4. Newest(view) # 0
  BY <1>1, <1>2 DEF BeginsSilent
<1>5. Legible(w) /\ w.segments = view.segments /\ Owed(w.stack, RunningTasks \ {id})
  BY <1>1, <1>3, ResultsSayNothing
<1>6. /\ Legible(view') /\ view'.segments = w.segments /\ view'.stack = w.stack
      /\ Newest(view') = Newest(w) /\ view'.heard /\ events' = events + 1
  <2> HIDE DEF e
  <2> QED
    BY <1>2, <1>5, WhatIsPrinted
<1> HIDE DEF w, e
<1>7. Newest(w) = Newest(view)
  BY <1>5 DEF Newest
<1>8. BeginsSilent'
  BY <1>1, <1>4, <1>6, <1>7, SomethingIsSaid
<1>9. StreamIsHeard'
  BY <1>2 DEF StreamIsHeard, NoBlock
<1>10. Owed(view'.stack, RunningTasks')
  <2>1. RunningTasks' = RunningTasks \ {id}
    BY <1>1, <1>2 DEF RunningTasks
  <2> QED
    BY <1>5, <1>6, <2>1
<1>11. InOrder(Said(view'.segments), spoken', events')
  BY <1>1, <1>2, <1>5, <1>6, OneWordMore
<1>12. /\ agents' \in [Tasks \cup OtherTools -> {"new", "running", "done"}] /\ events' \in Nat
       /\ stream' \in [kind : {"none", "text", "thinking", "tool"}, index : {-1, 0, 1}]
  BY <1>1, <1>2, <1>6 DEF TranscriptInvariant
<1> QED
  BY <1>6, <1>8, <1>9, <1>10, <1>11, <1>12 DEF TranscriptInvariant

LEMMA ErringKeeps ==
  ASSUME TranscriptInvariant, Fails
  PROVE  TranscriptInvariant'
<1> DEFINE e == Event("error", "none", -1, 0, NoId)
           w == Apply(view, e)
<1>1. /\ events \in Nat /\ Legible(view) /\ Owed(view.stack, RunningTasks)
      /\ InOrder(Said(view.segments), spoken, events) /\ BeginsSilent
  BY DEF TranscriptInvariant
<1>2. Prints(e) /\ UNCHANGED <<agents, spoken, stream>> /\ turn' = "failed"
  BY DEF Fails
<1>3. /\ Legible(w) /\ Said(w.segments) = Said(view.segments)
      /\ w.stack = view.stack /\ Newest(w) # 0
  BY <1>1, ErrorsSayNothing
<1>4. /\ Legible(view') /\ view'.segments = w.segments /\ view'.stack = w.stack
      /\ Newest(view') = Newest(w) /\ view'.heard /\ events' = events + 1
  <2> HIDE DEF e
  <2> QED
    BY <1>2, <1>3, WhatIsPrinted
<1> HIDE DEF w, e
<1>5. BeginsSilent'
  BY <1>1, <1>3, <1>4, SomethingIsSaid
<1>6. StreamIsHeard'
  BY <1>2 DEF StreamIsHeard
<1>7. Owed(view'.stack, RunningTasks')
  BY <1>1, <1>2, <1>3, <1>4 DEF RunningTasks
<1>8. InOrder(Said(view'.segments), spoken', events')
  BY <1>1, <1>2, <1>3, <1>4, OneWordMore
<1>9. /\ agents' \in [Tasks \cup OtherTools -> {"new", "running", "done"}] /\ events' \in Nat
      /\ stream' \in [kind : {"none", "text", "thinking", "tool"}, index : {-1, 0, 1}]
  BY <1>1, <1>2, <1>4 DEF TranscriptInvariant
<1> QED
  BY <1>4, <1>5, <1>6, <1>7, <1>8, <1>9 DEF TranscriptInvariant

\* The exit of a CLI that was silent says the only word there is.
LEMMA CompletingKeeps ==
  ASSUME TranscriptInvariant, Completes
  PROVE  TranscriptInvariant'
<1>1. /\ events \in Nat /\ Legible(view) /\ Owed(view.stack, RunningTasks)
      /\ InOrder(Said(view.segments), spoken, events) /\ BeginsSilent
      /\ agents \in [Tasks \cup OtherTools -> {"new", "running", "done"}]
      /\ stream \in [kind : {"none", "text", "thinking", "tool"}, index : {-1, 0, 1}]
  BY DEF TranscriptInvariant
<1>2. /\ turn = "running" /\ turn' = "complete" /\ UNCHANGED <<agents, spoken, stream, events>>
      /\ view.heard => view' = view
      /\ ~view.heard => view' = Apply(view, Event("delta", "text", -1, 0, NoId))
  BY DEF Completes
<1>3. StreamIsHeard'
  BY <1>2 DEF StreamIsHeard
<1>4. /\ Legible(view') /\ view'.stack = view.stack /\ Newest(view') # 0
      /\ InOrder(Said(view'.segments), spoken, events)
  <2>1. CASE view.heard
    <3>1. Newest(view) # 0
      BY <1>1, <1>2, <2>1 DEF BeginsSilent
    <3> QED
      BY <1>1, <1>2, <2>1, <3>1
  <2>2. CASE ~view.heard
    <3>1. events = 0 /\ Newest(view) = 0
      BY <1>1, <1>2, <2>2 DEF BeginsSilent
    <3>2. view.stack = <<>>
      BY <1>1, <3>1 DEF BeginsSilent
    <3> DEFINE w == Apply(view, Event("delta", "text", -1, 0, NoId))
    <3>3. /\ Legible(w) /\ Said(w.segments) = Said(view.segments) \o <<0>>
          /\ w.stack = view.stack /\ Newest(w) # 0
      BY <1>1, <3>2, WholeWordsAreShown
    <3> HIDE DEF w
    <3>4. Said(view.segments) = <<>>
      BY <1>1, <3>1, NothingIsSaid
    <3>5. InOrder(Said(view.segments) \o <<0>>, spoken, events)
      <4> DEFINE more == <<0>>
      <4>1. /\ more \in Seq(Nat) /\ DOMAIN more = {1} /\ more[1] = 0
            /\ Said(view.segments) \o <<0>> = more
        BY <3>4
      <4>2. ToSet(spoken) = {}
        BY <1>1, <3>4 DEF InOrder, ToSet
      <4> HIDE DEF more
      <4> QED
        BY <1>1, <3>1, <4>1, <4>2 DEF InOrder
    <3> QED
      BY <1>2, <2>2, <3>3, <3>5 DEF w
  <2> QED
    BY <2>1, <2>2
<1>5. BeginsSilent'
  BY <1>1, <1>2, <1>4 DEF BeginsSilent
<1>6. Owed(view'.stack, RunningTasks')
  BY <1>1, <1>2, <1>4 DEF RunningTasks
<1>7. InOrder(Said(view'.segments), spoken', events')
  BY <1>2, <1>4
<1> QED
  BY <1>1, <1>2, <1>3, <1>4, <1>5, <1>6, <1>7 DEF TranscriptInvariant

LEMMA TranscriptStep ==
  ASSUME Clusters, TranscriptInvariant, [TranscriptNext]_transcriptVars
  PROVE  TranscriptInvariant'
<1>1. ASSUME NEW kind \in {"text", "thinking"}, Says(kind) PROVE TranscriptInvariant'
  BY <1>1, SayingKeeps
<1>2. ASSUME NEW kind \in {"text", "thinking"}, NEW i \in {0, 1}, StreamStarts(kind, i)
      PROVE  TranscriptInvariant'
  BY <1>2, StartingKeeps
<1>3. ASSUME NEW id \in Tasks \cup OtherTools, Returns(id) PROVE TranscriptInvariant'
  BY <1>3, ReturningKeeps
<1>4. ASSUME NEW id \in Tasks \cup OtherTools, NEW i \in {-1, 0, 1}, Calls(id, i)
      PROVE  TranscriptInvariant'
  BY <1>4, CallingKeeps
<1>5. CASE UNCHANGED transcriptVars
  BY <1>5 DEF transcriptVars, TranscriptInvariant, StreamIsHeard, BeginsSilent, MainSpeaks,
              RunningTasks, Newest, OpenOf
<1> QED
  BY <1>1, <1>2, <1>3, <1>4, <1>5, GoingOnKeeps, StoppingKeeps, ErringKeeps, CompletingKeeps
  DEF TranscriptNext

-----------------------------------------------------------------------------
(* Rendering: a message is cut until it fits, whatever the lengths are.     *)

LEMMA RenderingFits ==
  ASSUME NEW lengths, DOMAIN lengths \subseteq Nat, NEW limit \in Nat, NEW status \in Nat
  PROVE  LET r == Render(lengths, limit, status) IN
         r.length <= limit \/ (r.parts = 0 /\ r.length <= status)
<1> DEFINE parts == Rendered(lengths)
           From(k) == {s \in parts : s >= k}
           fits == {k \in parts : Joined(lengths, From(k), Marker, status) <= limit}
           budget == limit - Marker - status
           newest == CHOOSE k \in fits : \A j \in fits : k <= j
           bare == IF status = 0 THEN 0 ELSE status - 2
           whole == Joined(lengths, parts, 0, status)
           r == Render(lengths, limit, status)
           Fitting == r.length <= limit \/ (r.parts = 0 /\ r.length <= status)
<1>1. Marker \in Nat /\ MinTail \in Nat
  BY TranscriptAssumption
<1>2. bare \in Int /\ bare <= status
  OBVIOUS
<1>3. fits # {} => Joined(lengths, From(newest), Marker, status) <= limit
  <2> SUFFICES ASSUME fits # {} PROVE newest \in fits
    OBVIOUS
  <2>1. fits \in SUBSET Nat
    BY DEF Rendered
  <2>2. \E k \in fits : \A j \in fits : k <= j
    <3> HIDE DEF fits
    <3> QED
      BY <2>1, LeastOf
  <2> HIDE DEF fits
  <2> QED
    BY <2>2
<1>4. r = IF whole <= limit THEN [parts |-> Cardinality(parts), length |-> whole]
          ELSE IF fits # {}
          THEN [parts |-> Cardinality(From(newest)),
                length |-> Joined(lengths, From(newest), Marker, status)]
          ELSE IF budget > MinTail THEN [parts |-> 1, length |-> Marker + status + budget]
          ELSE IF parts # {} /\ Marker + bare <= limit THEN [parts |-> 0, length |-> Marker + bare]
          ELSE [parts |-> 0, length |-> bare]
  BY DEF Render
<1> DEFINE most == Joined(lengths, From(newest), Marker, status)
           some == Cardinality(From(newest))
           all == Cardinality(parts)
<1>5. Marker + status + budget = limit
  BY <1>1
<1>6. r = IF whole <= limit THEN [parts |-> all, length |-> whole]
          ELSE IF fits # {} THEN [parts |-> some, length |-> most]
          ELSE IF budget > MinTail THEN [parts |-> 1, length |-> limit]
          ELSE IF parts # {} /\ Marker + bare <= limit THEN [parts |-> 0, length |-> Marker + bare]
          ELSE [parts |-> 0, length |-> bare]
  BY <1>4, <1>5
<1>7. fits # {} => most <= limit
  BY <1>3
<1> HIDE DEF r, most, some, all, whole, bare, budget, newest, fits, From, parts
<1>8. r.length <= limit \/ (r.parts = 0 /\ r.length <= status)
  BY <1>2, <1>6, <1>7
<1> QED
  BY <1>8 DEF r

\* What the main agent says is heard, for any events of a CLI, nested and overlapping Tasks
\* and blocks that are restarted or left open, if ids that are like a third are alike.
THEOREM MainStaysHeard == Clusters /\ TranscriptSpec => []MainIsHeard
<1>1. ASSUME TranscriptInvariant PROVE MainIsHeard
  <2>1. RunningTasks = {} => view.stack = <<>>
    BY <1>1, MainHasTheView DEF MainSpeaks
  <2>2. WordsShown = Said(view.segments)
    BY DEF WordsShown, Said
  <2>3. InOrder(WordsShown, spoken, events)
    BY <1>1, <2>2 DEF TranscriptInvariant
  <2>4. turn = "complete" => view.segments # <<>>
    <3>1. turn = "complete" => Newest(view) # 0
      BY <1>1 DEF TranscriptInvariant, BeginsSilent
    <3> QED
      BY <3>1 DEF Newest
  <2>5. DOMAIN Lengths(view) \subseteq Nat
    <3>1. PICK segs \in Seq(TheSegments) : view.segments = segs
      BY <1>1, PartsOfView DEF TranscriptInvariant, Legible, Sound
    <3> QED
      BY <3>1 DEF Lengths
  <2>6. ASSUME NEW l \in Limits
        PROVE  LET r == Render(Lengths(view), l.limit, l.status) IN
               r.length <= l.limit \/ (r.parts = 0 /\ r.length <= l.status)
    <3>1. l.limit \in Nat /\ l.status \in Nat
      BY TranscriptAssumption
    <3> QED
      BY <2>5, <3>1, RenderingFits
  <2>7. /\ \A i, j \in DOMAIN WordsShown : i < j => WordsShown[i] < WordsShown[j]
        /\ ToSet(spoken) \subseteq ToSet(WordsShown)
    BY <2>3 DEF InOrder
  <2> QED
    BY <2>1, <2>4, <2>6, <2>7 DEF MainIsHeard
<1>2. ASSUME Clusters PROVE TranscriptSpec => []MainIsHeard
  <2>1. TranscriptInvariant /\ [TranscriptNext]_transcriptVars => TranscriptInvariant'
    BY <1>2, TranscriptStep
  <2> QED
    BY <1>1, <2>1, TranscriptStarts, PTL DEF TranscriptSpec
<1> QED
  BY <1>2
================================================================================
