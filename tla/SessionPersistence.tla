------------------------- MODULE SessionPersistence -------------------------
(***************************************************************************)
(* SessionStore and DebouncedJsonPersistence (messaging/session): the       *)
(* event loop changes the conversation state in memory; timer threads write *)
(* it to the file half a second after the last change; a flush and a clear  *)
(* write it at once, on the event loop's thread.                            *)
(*                                                                          *)
(* The content is the number of changes made to it.  Threads interleave     *)
(* between the blocks that their locks make atomic.  A timer thread is      *)
(* named by the generation it was started for; the writes of the event loop *)
(* are those of thread Loop.  A crash keeps the file only.                  *)
(***************************************************************************)
EXTENDS Naturals

CONSTANTS
  MaxGeneration, \* bound on the changes made in one life of the process
  MaxFailures,   \* bound on the writes that fail
  MaxCrashes     \* bound on the crashes

Loop    == 0
Timers  == 1..MaxGeneration
Threads == {Loop} \cup Timers
Nobody  == MaxGeneration + 1

ASSUME PersistenceAssumption ==
  MaxGeneration \in Nat /\ MaxFailures \in Nat /\ MaxCrashes \in Nat

VARIABLES
  memory,     \* the state in memory
  file,       \* the content of the file
  dirty,      \* _dirty
  generation, \* _save_generation
  timer,      \* _save_timer, 0 for None
  pc,         \* where each thread is
  pending,    \* the _PendingWrite of each thread
  storeLock, writerLock, \* owners of _lock and _writer_lock
  kept,       \* ghost: what a flush or clear that returned has promised to keep
  lost,       \* ghost: the last generation whose write failed
  failures, crashes

threads == <<pc, pending>>
locks   == <<storeLock, writerLock>>
ghosts  == <<kept, lost, failures, crashes>>
vars    == <<memory, file, dirty, generation, timer, threads, locks, ghosts>>

NoWrite == [generation |-> 0, snapshot |-> 0]

Places == {"idle", "schedule", "invalidate", "armed", "claim", "snapshot", "write",
           "replace", "confirm", "clean", "failed"}

\* Outside its calls, and once its function has returned, a thread is idle.
Start(content) ==
  /\ memory = content /\ dirty = FALSE
  /\ generation = 0 /\ timer = 0
  /\ pc = [t \in Threads |-> "idle"]
  /\ pending = [t \in Threads |-> NoWrite]
  /\ storeLock = Nobody /\ writerLock = Nobody

Init == Start(0) /\ file = 0 /\ kept = 0 /\ lost = 0 /\ failures = 0 /\ crashes = 0

Go(t, place) == pc' = [pc EXCEPT ![t] = place]

\* Timer.cancel stops a timer that has not fired; one that has runs on.
CancelTimer(then) ==
  [then EXCEPT ![timer] = IF timer # Loop /\ then[timer] = "armed" THEN "idle" ELSE @]

\* _lock is reentrant.
Free(t) == storeLock \in {Nobody, t}

-----------------------------------------------------------------------------
\* A save changes the state and marks it under the store's lock ...
BeginSave ==
  /\ pc[Loop] = "idle" /\ Free(Loop) /\ generation < MaxGeneration
  /\ memory' = memory + 1
  /\ dirty' = TRUE
  /\ storeLock' = Loop
  /\ Go(Loop, "schedule")
  /\ UNCHANGED <<file, generation, timer, pending, writerLock, ghosts>>

\* Mistake: a timer that runs is taken to be enough.
KeepsTimer ==
  /\ pc[Loop] = "schedule"
  /\ generation' = generation + 1
  /\ timer' = IF timer = 0 THEN generation' ELSE timer
  /\ pc' = [pc EXCEPT ![Loop] = "idle", ![timer'] = IF @ = "idle" THEN "armed" ELSE @]
  /\ storeLock' = Nobody
  /\ UNCHANGED <<memory, file, dirty, pending, writerLock, ghosts>>

\* ... and replaces the timer under the timer lock.
Schedule ==
  /\ pc[Loop] = "schedule"
  /\ generation' = generation + 1
  /\ timer' = generation'
  /\ pc' = [CancelTimer(pc) EXCEPT ![Loop] = "idle", ![timer'] = "armed"]
  /\ storeLock' = Nobody
  /\ UNCHANGED <<memory, file, dirty, pending, writerLock, ghosts>>

BeginFlush ==
  /\ pc[Loop] = "idle" /\ Free(Loop)
  /\ dirty' = TRUE
  /\ Go(Loop, "claim")
  /\ UNCHANGED <<memory, file, generation, timer, pending, locks, ghosts>>

\* clear_scope keeps the store's lock until its write has ended.
BeginClear ==
  /\ pc[Loop] = "idle" /\ Free(Loop) /\ generation < MaxGeneration
  /\ memory' = memory + 1
  /\ dirty' = TRUE
  /\ storeLock' = Loop
  /\ Go(Loop, "invalidate")
  /\ UNCHANGED <<file, generation, timer, pending, writerLock, ghosts>>

\* Mistake: older snapshots stay valid.
ClearsOnly ==
  /\ pc[Loop] = "invalidate"
  /\ timer' = 0
  /\ pending' = [pending EXCEPT ![Loop] = [generation |-> generation, snapshot |-> memory]]
  /\ pc' = [CancelTimer(pc) EXCEPT ![Loop] = "write"]
  /\ UNCHANGED <<memory, file, dirty, generation, locks, ghosts>>

Invalidate ==
  /\ pc[Loop] = "invalidate"
  /\ generation' = generation + 1
  /\ timer' = 0
  /\ pending' = [pending EXCEPT ![Loop] = [generation |-> generation', snapshot |-> memory]]
  /\ pc' = [CancelTimer(pc) EXCEPT ![Loop] = "write"]
  /\ UNCHANGED <<memory, file, dirty, locks, ghosts>>

\* The half second has passed.
Fire(t) ==
  /\ pc[t] = "armed"
  /\ Go(t, "claim")
  /\ UNCHANGED <<memory, file, dirty, generation, timer, pending, locks, ghosts>>

MayClaim(t) == t = Loop \/ (t = generation /\ timer # 0)

Claim(t) ==
  /\ pc[t] = "claim"
  /\ IF MayClaim(t)
     THEN /\ pending' = [pending EXCEPT ![t].generation = generation]
          /\ pc' = [CancelTimer(pc) EXCEPT ![t] = "snapshot"]
          /\ timer' = 0
     ELSE Go(t, "idle") /\ UNCHANGED <<pending, timer>>
  /\ UNCHANGED <<memory, file, dirty, generation, locks, ghosts>>

Snapshot(t) ==
  /\ pc[t] = "snapshot" /\ Free(t)
  /\ pending' = [pending EXCEPT ![t].snapshot = memory]
  /\ Go(t, "write")
  /\ UNCHANGED <<memory, file, dirty, generation, timer, locks, ghosts>>

\* A caller on the event loop's thread leaves the store's lock as it returns.
Return(t) ==
  /\ Go(t, "idle")
  /\ pending' = [pending EXCEPT ![t] = NoWrite]
  /\ storeLock' = IF storeLock = t THEN Nobody ELSE storeLock

AlwaysCurrent(t) == TRUE \* mistake: whoever has the lock writes

IsCurrent(t) == pending[t].generation = generation

\* The writer's lock is taken, and the generation checked under it.
EnterWriter(t) ==
  /\ pc[t] = "write" /\ writerLock = Nobody
  /\ IF IsCurrent(t)
     THEN /\ writerLock' = t
          /\ Go(t, "replace")
          /\ UNCHANGED <<pending, storeLock>>
     ELSE Return(t) /\ UNCHANGED writerLock
  /\ UNCHANGED <<memory, file, dirty, generation, timer, ghosts>>

\* os.replace is atomic.
Replace(t) ==
  /\ pc[t] = "replace"
  /\ file' = pending[t].snapshot
  /\ writerLock' = Nobody
  /\ Go(t, "confirm")
  /\ UNCHANGED <<memory, dirty, generation, timer, pending, storeLock, ghosts>>

ReplaceFails(t) ==
  /\ pc[t] = "replace" /\ failures < MaxFailures
  /\ failures' = failures + 1
  /\ lost' = pending[t].generation
  /\ writerLock' = Nobody
  /\ Go(t, "failed")
  /\ UNCHANGED <<memory, file, dirty, generation, timer, pending, storeLock, kept, crashes>>

\* The caller of a flush or clear sees the exception, a timer logs it.
RecordFailure(t) ==
  /\ pc[t] = "failed" /\ Free(t)
  /\ dirty' = TRUE
  /\ Return(t)
  /\ UNCHANGED <<memory, file, generation, timer, writerLock, ghosts>>

\* Only the event loop's calls return to somebody who relies on them.
Promise(t) == kept' = IF t = Loop THEN pending[t].snapshot ELSE kept

StillCurrent(t) == timer = 0 /\ pending[t].generation = generation

Confirm(t) ==
  /\ pc[t] = "confirm"
  /\ IF StillCurrent(t)
     THEN Go(t, "clean") /\ UNCHANGED <<pending, storeLock, kept>>
     ELSE Return(t) /\ Promise(t)
  /\ UNCHANGED <<memory, file, dirty, generation, timer, writerLock, lost, failures, crashes>>

Clean(t) ==
  /\ pc[t] = "clean" /\ Free(t)
  /\ dirty' = FALSE
  /\ Return(t)
  /\ Promise(t)
  /\ UNCHANGED <<memory, file, generation, timer, writerLock, lost, failures, crashes>>

\* The process ends, daemon timers with it; the next one loads the file.
Crash ==
  /\ crashes < MaxCrashes
  /\ crashes' = crashes + 1
  /\ memory' = file /\ dirty' = FALSE
  /\ generation' = 0 /\ timer' = 0
  /\ pc' = [t \in Threads |-> "idle"]
  /\ pending' = [t \in Threads |-> NoWrite]
  /\ storeLock' = Nobody /\ writerLock' = Nobody
  /\ lost' = 0
  /\ UNCHANGED <<file, kept, failures>>

Step(t) ==
  \/ Fire(t)        \/ Claim(t)         \/ Snapshot(t) \/ EnterWriter(t)
  \/ Replace(t)     \/ ReplaceFails(t)  \/ RecordFailure(t)
  \/ Confirm(t)     \/ Clean(t)

Next ==
  \/ BeginSave \/ Schedule \/ BeginFlush \/ BeginClear \/ Invalidate \/ Crash
  \/ \E t \in Threads : Step(t)

Spec == Init /\ [][Next]_vars

\* Threads that wait for nothing run on, and the half second passes.
Fairness == WF_vars(Schedule \/ Invalidate) /\ \A t \in Threads : WF_vars(Step(t))

FairSpec == Spec /\ Fairness

-----------------------------------------------------------------------------
TypeOK ==
  /\ {memory, file, kept} \subseteq Nat
  /\ dirty \in BOOLEAN
  /\ generation \in 0..MaxGeneration /\ timer \in {0, generation}
  /\ lost \in 0..MaxGeneration
  /\ pc \in [Threads -> Places]
  /\ pending \in [Threads -> [generation : 0..MaxGeneration, snapshot : Nat]]
  /\ storeLock \in {Nobody, Loop} /\ writerLock \in Threads \cup {Nobody}
  /\ failures \in 0..MaxFailures /\ crashes \in 0..MaxCrashes

\* A snapshot that waited for the writer's lock, or for its timer, never lands
\* on a newer one: the content of the file only moves forward, over restarts
\* too (the generation check in _write_if_current).
FileMovesForward == [][file' >= file]_vars

\* What flush_pending_save or clear_scope has returned for is in the file and
\* stays there, whatever timers were in flight, and is loaded after a crash.
PromisesAreKept == file >= kept /\ memory >= kept

\* No interleaving of the timers, of flushes that take their place and of
\* changes that cancel them forgets a change: if the process lives, the file
\* catches up with memory, unless the last write has failed.
ChangesAreSaved == <>[](file = memory \/ lost = generation)

=============================================================================
