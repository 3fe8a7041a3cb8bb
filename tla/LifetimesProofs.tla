--------------------------- MODULE LifetimesProofs ---------------------------
(***************************************************************************)
(* The two managers that own what others use, for any number of requests,   *)
(* calls, runtimes and turns, and whatever is cancelled or fails: provider  *)
(* runtimes are not closed in use and not forgotten, and live the life      *)
(* RuntimeLifecycle describes; a live CLI is owned, and a stop is final.    *)
(***************************************************************************)
EXTENDS ProviderGenerations, ManagedSessions, FiniteSetTheorems, TLAPS

(***************************************************************************)
(* The provider runtimes.                                                   *)
(***************************************************************************)

\* Where each kind of caller may be suspended; who holds a lease knows of what.
RequestPlaces == {"idle", "leased", "joining", "done"}
AdminPlaces   == {"idle", "replacing", "refreshing", "retrying", "discarding", "connecting",
                  "discovering", "joining", "joined", "done"}
CloserPlaces  == {"idle", "waiting", "quiescing", "draining", "closing", "finishing", "done"}

PlacesAreOwn ==
  /\ \A q \in Requests : pc[q] \in RequestPlaces
  /\ \A a \in Admins : pc[a] \in AdminPlaces
  /\ \A c \in Closers : pc[c] \in CloserPlaces
  /\ \A c \in Callers : pc[c] \in {"leased", "discovering"} => using[c] # 0

\* An Admin call holds the replace lock all along and keeps the shutdown out, a
\* close holds it while it waits for the refresh, and its own lock to the end.
LocksAreHeld ==
  /\ \A a \in Admins : pc[a] \notin {"idle", "done"} => replaceLock = a /\ ~closing
  /\ \A c \in Closers : pc[c] = "quiescing" => replaceLock = c
  /\ \A c \in Closers : pc[c] \notin {"idle", "done"} => closeLock = c
  /\ \A c \in Closers : pc[c] \notin {"idle", "waiting", "done"} => closing
  /\ terminal => closing

\* Only the current generation has a refresh that can still begin, and none
\* while it is being replaced or after the shutdown has begun.
RefreshIsCurrent ==
  /\ \A r \in Runtimes : task[r] \in {"created", "running"} => r = refresh
  /\ \A r \in Runtimes : task[r] # "none" => r <= built
  /\ refresh # 0 => refresh = current /\ ~closing
  /\ \A a \in Admins : pc[a] \in {"replacing", "refreshing", "retrying", "discarding"} => refresh = 0

\* Until the shutdown the current generation is open for new leases; whoever
\* discovers an account's models uses it.
CurrentIsOpen ==
  /\ ~closing => current \notin retired \cup cleanup \cup closed
  /\ \A a \in Admins : pc[a] = "connecting" => using[a] = current

\* Who holds a lease of a runtime, and that they are counted.
Holders(r)   == {c \in Callers : pc[c] \in {"leased", "discovering"} /\ using[c] = r}
Refresher(r) == IF task[r] \in {"running", "cancelled"} THEN 1 ELSE 0

LeasesAreCounted ==
  \A r \in Runtimes :
    /\ IsFiniteSet(Holders(r))
    /\ leases[r] = Cardinality(Holders(r)) + Refresher(r)

\* Runtimes that were never published: the leftovers that replace and close clean up.
Leftovers(c) == IF pc[c] \in {"retrying", "discarding", "finishing"} THEN todo[c] ELSE {}

\* What is cleaned up or was never published has no user.
UnusedAreClosed ==
  /\ \A r \in cleanup \cup closed : leases[r] = 0
  /\ \A r \in unpublished : leases[r] = 0 /\ r # current
  /\ \A c \in Callers : \A r \in Leftovers(c) : leases[r] = 0 /\ r # current
  /\ cleanup \subseteq retired
  /\ owned \subseteq retired
  /\ retired \subseteq owned \cup closed
  /\ \A c \in Closers : pc[c] = "draining" => todo[c] \subseteq retired

\* A close that has seen no failure has everything closed or still to see closed.
CloseIsComplete ==
  /\ \A c \in Closers :
       /\ pc[c] \in {"draining", "closing"} =>
            c \in failed \/ 1..built \subseteq closed \cup todo[c] \cup unpublished
       /\ pc[c] = "finishing" => c \in failed \/ 1..built \subseteq closed \cup todo[c]
  /\ terminal => 1..built \subseteq closed

RuntimeInvariant ==
  /\ TypeOK
  /\ PlacesAreOwn
  /\ LocksAreHeld
  /\ RefreshIsCurrent
  /\ CurrentIsOpen
  /\ LeasesAreCounted
  /\ UnusedAreClosed
  /\ CloseIsComplete
  /\ NothingLost
\* The runtimes that were constructed are runtimes.
LEMMA RuntimeFacts ==
  ASSUME RuntimeInvariant
  PROVE  /\ built \in Nat /\ MaxRuntimes \in Nat /\ built <= MaxRuntimes
         /\ 1..built \subseteq Runtimes /\ Runtimes \subseteq Nat /\ 0 \notin Runtimes
         /\ current \in Runtimes /\ current # 0
BY GenerationsAssumption DEF RuntimeInvariant, TypeOK, Runtimes

\* What a candidate for publication is.
LEMMA CandidateFacts ==
  ASSUME RuntimeInvariant, built < MaxRuntimes
  PROVE  /\ Candidate \in Runtimes /\ Candidate \notin 1..built /\ Candidate # current
         /\ 1..Candidate = 1..built \cup {Candidate}
         /\ 0..built \subseteq 0..Candidate
BY RuntimeFacts DEF RuntimeInvariant, TypeOK, Candidate, Runtimes

\* Leases are counted as before when nobody takes one or gives one back.
LEMMA LeasesStay ==
  ASSUME LeasesAreCounted, leases' = leases,
         \A r \in Runtimes : Holders(r)' = Holders(r) /\ Refresher(r)' = Refresher(r)
  PROVE  LeasesAreCounted'
BY DEF LeasesAreCounted

LEMMA CountsAreNumbers ==
  ASSUME LeasesAreCounted, NEW r \in Runtimes
  PROVE  /\ IsFiniteSet(Holders(r)) /\ Cardinality(Holders(r)) \in Nat /\ Refresher(r) \in {0, 1}
         /\ leases[r] = Cardinality(Holders(r)) + Refresher(r)
BY FS_CardinalityType DEF LeasesAreCounted, Refresher

\* Whoever holds a lease is counted, and so is a refresh that runs.
LEMMA UsersAreCounted ==
  ASSUME LeasesAreCounted, NEW r \in Runtimes,
         Holders(r) # {} \/ task[r] \in {"running", "cancelled"}
  PROVE  leases[r] > 0
<1>1. CASE Holders(r) # {}
  <2>1. Cardinality(Holders(r)) # 0
    BY <1>1, CountsAreNumbers, FS_EmptySet
  <2> QED
    BY <2>1, CountsAreNumbers
<1>2. CASE task[r] \in {"running", "cancelled"}
  BY <1>2, CountsAreNumbers DEF Refresher
<1> QED
  BY <1>1, <1>2

\* Nobody uses a runtime that has not been constructed.
LEMMA UnbuiltAreUnused ==
  ASSUME RuntimeInvariant, NEW r \in Runtimes, r \notin 1..built
  PROVE  leases[r] = 0
<1>1. ~(r <= built)
  BY RuntimeFacts
<1>2. task[r] = "none"
  BY <1>1 DEF RuntimeInvariant, RefreshIsCurrent
<1>3. Holders(r) = {}
  BY RuntimeFacts DEF RuntimeInvariant, TypeOK, Holders
<1> QED
  BY <1>2, <1>3, CountsAreNumbers, FS_EmptySet DEF RuntimeInvariant, Refresher

\* A caller takes a lease of a runtime.
LEMMA LeaseTaken ==
  ASSUME LeasesAreCounted, leases \in [Runtimes -> Nat], NEW c \in Callers, NEW u \in Runtimes,
         c \notin Holders(u), Holders(u)' = Holders(u) \cup {c},
         \A r \in Runtimes \ {u} : Holders(r)' = Holders(r),
         leases' = [leases EXCEPT ![u] = @ + 1], task' = task
  PROVE  LeasesAreCounted'
<1> SUFFICES ASSUME NEW r \in Runtimes
             PROVE  /\ IsFiniteSet(Holders(r)')
                    /\ leases'[r] = Cardinality(Holders(r)') + Refresher(r)'
  BY DEF LeasesAreCounted
<1>1. Refresher(r)' = Refresher(r)
  BY DEF Refresher
<1>2. CASE r = u
  <2>1. IsFiniteSet(Holders(r)') /\ Cardinality(Holders(r)') = Cardinality(Holders(r)) + 1
    BY <1>2, CountsAreNumbers, FS_AddElement
  <2> QED
    BY <1>1, <1>2, <2>1, CountsAreNumbers
<1>3. CASE r # u
  <2>1. Holders(r)' = Holders(r) /\ leases'[r] = leases[r]
    BY <1>3
  <2> QED
    BY <1>1, <2>1, CountsAreNumbers
<1> QED
  BY <1>2, <1>3

\* A caller gives its lease back.
LEMMA LeaseGivenBack ==
  ASSUME LeasesAreCounted, leases \in [Runtimes -> Nat], NEW c \in Callers, NEW u \in Runtimes,
         c \in Holders(u), Holders(u)' = Holders(u) \ {c},
         \A r \in Runtimes \ {u} : Holders(r)' = Holders(r),
         leases' = [leases EXCEPT ![u] = @ - 1], task' = task
  PROVE  LeasesAreCounted'
<1> SUFFICES ASSUME NEW r \in Runtimes
             PROVE  /\ IsFiniteSet(Holders(r)')
                    /\ leases'[r] = Cardinality(Holders(r)') + Refresher(r)'
  BY DEF LeasesAreCounted
<1>1. Refresher(r)' = Refresher(r)
  BY DEF Refresher
<1>2. CASE r = u
  <2>1. IsFiniteSet(Holders(r)') /\ Cardinality(Holders(r)') = Cardinality(Holders(r)) - 1
    BY <1>2, CountsAreNumbers, FS_RemoveElement
  <2> QED
    BY <1>1, <1>2, <2>1, CountsAreNumbers
<1>3. CASE r # u
  <2>1. Holders(r)' = Holders(r) /\ leases'[r] = leases[r]
    BY <1>3
  <2> QED
    BY <1>1, <2>1, CountsAreNumbers
<1> QED
  BY <1>2, <1>3

\* A refresh takes a lease as it starts to run, or gives it back as it ends.
LEMMA RefresherChanges ==
  ASSUME LeasesAreCounted, leases \in [Runtimes -> Nat], NEW u \in Runtimes, NEW step \in {-1, 1},
         Refresher(u)' = Refresher(u) + step,
         \A r \in Runtimes \ {u} : Refresher(r)' = Refresher(r),
         leases' = [leases EXCEPT ![u] = @ + step], pc' = pc, using' = using
  PROVE  LeasesAreCounted'
<1> SUFFICES ASSUME NEW r \in Runtimes
             PROVE  /\ IsFiniteSet(Holders(r)')
                    /\ leases'[r] = Cardinality(Holders(r)') + Refresher(r)'
  BY DEF LeasesAreCounted
<1>1. Holders(r)' = Holders(r)
  BY DEF Holders
<1>2. CASE r = u
  BY <1>1, <1>2, CountsAreNumbers
<1>3. CASE r # u
  <2>1. Refresher(r)' = Refresher(r) /\ leases'[r] = leases[r]
    BY <1>3
  <2> QED
    BY <1>1, <2>1, CountsAreNumbers
<1> QED
  BY <1>2, <1>3


LEMMA AcquireKeeps ==
  ASSUME RuntimeInvariant, NEW q \in Requests, Acquire(q)
  PROVE  RuntimeInvariant'
<1> USE GenerationsAssumption DEF RuntimeInvariant, Callers, TypeOK, Acquire, Go, runtimes,
   cleaning, locks, flags, callers
<1> USE RuntimeFacts
<1>1. TypeOK'
  BY DEF Interruptible
<1>2. PlacesAreOwn'
  BY DEF PlacesAreOwn, RequestPlaces, AdminPlaces, CloserPlaces
<1>3. LocksAreHeld'
  BY DEF LocksAreHeld, PlacesAreOwn, RequestPlaces, AdminPlaces, CloserPlaces
<1>4. RefreshIsCurrent'
  BY DEF RefreshIsCurrent, LocksAreHeld, PlacesAreOwn, RequestPlaces, AdminPlaces, CloserPlaces
<1>5. CurrentIsOpen'
  BY DEF CurrentIsOpen, LocksAreHeld, UnusedAreClosed, RefreshIsCurrent, PlacesAreOwn,
     RequestPlaces, AdminPlaces, CloserPlaces
<1>6. LeasesAreCounted'
  <2>1. q \notin Holders(current) /\ Holders(current)' = Holders(current) \cup {q}
    BY DEF Holders, Interruptible
  <2>2. \A r \in Runtimes \ {current} : Holders(r)' = Holders(r)
    BY DEF Holders, Interruptible
  <2> QED
    BY <2>1, <2>2, LeaseTaken
<1>7. UnusedAreClosed'
  BY DEF UnusedAreClosed, LocksAreHeld, CurrentIsOpen, Leftovers, RefreshIsCurrent,
     PlacesAreOwn, RequestPlaces, AdminPlaces, CloserPlaces
<1>8. CloseIsComplete'
  BY DEF CloseIsComplete, LocksAreHeld, UnusedAreClosed, RefreshIsCurrent, Leftovers,
     PlacesAreOwn, RequestPlaces, AdminPlaces, CloserPlaces
<1>9. NothingLost'
  BY DEF NothingLost, UnusedAreClosed, CloseIsComplete, LocksAreHeld, PlacesAreOwn,
     RequestPlaces, AdminPlaces, CloserPlaces
<1> QED
  BY <1>1, <1>2, <1>3, <1>4, <1>5, <1>6, <1>7, <1>8, <1>9 DEF RuntimeInvariant

LEMMA RefusalKeeps ==
  ASSUME RuntimeInvariant, NEW q \in Requests, AcquireRefused(q)
  PROVE  RuntimeInvariant'
<1> USE GenerationsAssumption DEF RuntimeInvariant, Callers, TypeOK, AcquireRefused, Go,
   runtimes, cleaning, locks, flags, callers
<1> USE RuntimeFacts
<1>1. TypeOK'
  BY DEF Interruptible
<1>2. PlacesAreOwn'
  BY DEF PlacesAreOwn, RequestPlaces, AdminPlaces, CloserPlaces
<1>3. LocksAreHeld'
  BY DEF LocksAreHeld, PlacesAreOwn, RequestPlaces, AdminPlaces, CloserPlaces
<1>4. RefreshIsCurrent'
  BY DEF RefreshIsCurrent, LocksAreHeld, PlacesAreOwn, RequestPlaces, AdminPlaces, CloserPlaces
<1>5. CurrentIsOpen'
  BY DEF CurrentIsOpen, LocksAreHeld, UnusedAreClosed, RefreshIsCurrent, PlacesAreOwn,
     RequestPlaces, AdminPlaces, CloserPlaces
<1>6. LeasesAreCounted'
  BY LeasesStay DEF Holders, Refresher, RefreshIsCurrent, Interruptible, PlacesAreOwn,
     RequestPlaces, AdminPlaces, CloserPlaces
<1>7. UnusedAreClosed'
  BY DEF UnusedAreClosed, LocksAreHeld, CurrentIsOpen, Leftovers, RefreshIsCurrent,
     PlacesAreOwn, RequestPlaces, AdminPlaces, CloserPlaces
<1>8. CloseIsComplete'
  BY DEF CloseIsComplete, LocksAreHeld, UnusedAreClosed, RefreshIsCurrent, Leftovers,
     PlacesAreOwn, RequestPlaces, AdminPlaces, CloserPlaces
<1>9. NothingLost'
  BY DEF NothingLost, UnusedAreClosed, CloseIsComplete, LocksAreHeld, PlacesAreOwn,
     RequestPlaces, AdminPlaces, CloserPlaces
<1> QED
  BY <1>1, <1>2, <1>3, <1>4, <1>5, <1>6, <1>7, <1>8, <1>9 DEF RuntimeInvariant

LEMMA ReleaseKeeps ==
  ASSUME RuntimeInvariant, NEW q \in Requests, ReleaseLease(q)
  PROVE  RuntimeInvariant'
<1> USE GenerationsAssumption DEF RuntimeInvariant, Callers, TypeOK, ReleaseLease, Release,
   LastLease, Go, runtimes, cleaning, locks, flags, callers
<1> USE RuntimeFacts
<1>0. using[q] \in 1..built /\ using[q] \in Runtimes /\ leases[using[q]] \in Nat \ {0}
  <2>1. using[q] \in 1..built /\ using[q] \in Runtimes
    BY DEF PlacesAreOwn
  <2>2. leases[using[q]] > 0
    BY <2>1, UsersAreCounted DEF Holders
  <2> QED
    BY <2>1, <2>2
<1>1. TypeOK'
  <2>1. leases' \in [Runtimes -> Nat]
    BY <1>0 DEF Interruptible
  <2>2. cleanup' \subseteq 1..built' /\ closed' \subseteq 1..built' /\ failures' \in 0..MaxFailures
    BY <1>0 DEF Interruptible
  <2>3. pc' \in [Callers -> {"idle", "leased", "discovering", "done"} \cup Interruptible]
    BY <1>0 DEF Interruptible
  <2> QED
    BY <1>0, <2>1, <2>2, <2>3
<1>2. PlacesAreOwn'
  BY DEF PlacesAreOwn, RequestPlaces, AdminPlaces, CloserPlaces
<1>3. LocksAreHeld'
  BY DEF LocksAreHeld, PlacesAreOwn, RequestPlaces, AdminPlaces, CloserPlaces
<1>4. RefreshIsCurrent'
  BY DEF RefreshIsCurrent, LocksAreHeld, PlacesAreOwn, RequestPlaces, AdminPlaces, CloserPlaces
<1>5. CurrentIsOpen'
  BY DEF CurrentIsOpen, LocksAreHeld, UnusedAreClosed, RefreshIsCurrent, PlacesAreOwn,
     RequestPlaces, AdminPlaces, CloserPlaces
<1>6. LeasesAreCounted'
  <2>1. q \in Holders(using[q]) /\ Holders(using[q])' = Holders(using[q]) \ {q}
    BY <1>0 DEF Holders, Interruptible
  <2>2. \A r \in Runtimes \ {using[q]} : Holders(r)' = Holders(r)
    BY <1>0 DEF Holders, Interruptible
  <2> QED
    BY <1>0, <2>1, <2>2, LeaseGivenBack
<1>7. UnusedAreClosed'
  <2>1. \A x \in cleanup' \cup closed' : leases'[x] = 0
    BY <1>0 DEF UnusedAreClosed
  <2>2. \A x \in unpublished' : leases'[x] = 0 /\ x # current'
    BY <1>0 DEF UnusedAreClosed
  <2>3. \A k \in Callers : \A x \in Leftovers(k)' : leases'[x] = 0 /\ x # current'
    BY <1>0 DEF UnusedAreClosed, Leftovers
  <2>4. cleanup' \subseteq retired' /\ owned' \subseteq retired' /\ retired' \subseteq owned' \cup closed'
    BY <1>0 DEF UnusedAreClosed
  <2>5. \A k \in Closers : pc'[k] = "draining" => todo'[k] \subseteq retired'
    BY <1>0 DEF UnusedAreClosed, PlacesAreOwn, RequestPlaces, AdminPlaces, CloserPlaces
  <2> QED
    BY <2>1, <2>2, <2>3, <2>4, <2>5 DEF UnusedAreClosed
<1>8. CloseIsComplete'
  BY DEF CloseIsComplete, LocksAreHeld, UnusedAreClosed, RefreshIsCurrent, Leftovers,
     PlacesAreOwn, RequestPlaces, AdminPlaces, CloserPlaces
<1>9. NothingLost'
  BY <1>0 DEF NothingLost, UnusedAreClosed, CloseIsComplete, LocksAreHeld, PlacesAreOwn,
     RequestPlaces, AdminPlaces, CloserPlaces
<1> QED
  BY <1>1, <1>2, <1>3, <1>4, <1>5, <1>6, <1>7, <1>8, <1>9 DEF RuntimeInvariant

LEMMA CleanupKeeps ==
  ASSUME RuntimeInvariant, NEW r \in Runtimes, NEW ok \in BOOLEAN, CleanupEnds(r, ok)
  PROVE  RuntimeInvariant'
<1> USE GenerationsAssumption DEF RuntimeInvariant, Callers, TypeOK, CleanupEnds, runtimes,
   cleaning, locks, flags, callers
<1> USE RuntimeFacts
<1>1. TypeOK'
  <2>1. cleanup' \subseteq 1..built' /\ closed' \subseteq 1..built' /\ failures' \in 0..MaxFailures
    <3>1. CASE ok
      <4>1. cleanup' = cleanup \ {r} /\ closed' = closed \cup {r} /\ failures' = failures
        BY <3>1
      <4> QED
        BY <4>1
    <3>2. CASE ~ok
      <4>1. cleanup' = cleanup \ {r} /\ closed' = closed /\ failures' = failures + 1 /\ failures < MaxFailures
        BY <3>2
      <4> QED
        BY <4>1
    <3> QED
      BY <3>1, <3>2
  <2>2. task' \in [Runtimes -> {"none", "created", "running", "cancelled", "joining", "done"}]
    BY DEF Interruptible
  <2>3. pc' \in [Callers -> {"idle", "leased", "discovering", "done"} \cup Interruptible]
    BY DEF Interruptible
  <2>4. todo' \in [Callers -> SUBSET (1..built')]
    BY DEF Interruptible
  <2>5. owned' \subseteq 1..built' /\ failed' \subseteq Closers
    BY DEF Interruptible
  <2> QED
    BY <2>1, <2>2, <2>3, <2>4, <2>5
<1>2. PlacesAreOwn'
  BY DEF PlacesAreOwn, RequestPlaces, AdminPlaces, CloserPlaces
<1>3. LocksAreHeld'
  BY DEF LocksAreHeld, PlacesAreOwn, RequestPlaces, AdminPlaces, CloserPlaces
<1>4. RefreshIsCurrent'
  BY DEF RefreshIsCurrent, LocksAreHeld, PlacesAreOwn, RequestPlaces, AdminPlaces, CloserPlaces
<1>5. CurrentIsOpen'
  BY DEF CurrentIsOpen, LocksAreHeld, UnusedAreClosed, RefreshIsCurrent, PlacesAreOwn,
     RequestPlaces, AdminPlaces, CloserPlaces
<1>6. LeasesAreCounted'
  BY LeasesStay DEF Holders, Refresher, RefreshIsCurrent, Interruptible, PlacesAreOwn,
     RequestPlaces, AdminPlaces, CloserPlaces
<1>7. UnusedAreClosed'
  <2>1. \A x \in cleanup' \cup closed' : leases'[x] = 0
    BY DEF UnusedAreClosed, LocksAreHeld, CurrentIsOpen
  <2>2. \A x \in unpublished' : leases'[x] = 0 /\ x # current'
    BY DEF UnusedAreClosed, LocksAreHeld, CurrentIsOpen
  <2>3. \A k \in Callers : \A x \in Leftovers(k)' : leases'[x] = 0 /\ x # current'
    BY DEF UnusedAreClosed, Leftovers, LocksAreHeld, CurrentIsOpen
  <2>4. cleanup' \subseteq retired' /\ owned' \subseteq retired' /\ retired' \subseteq owned' \cup closed'
    <3>1. CASE ok
      <4>1. cleanup' = cleanup \ {r} /\ closed' = closed \cup {r} /\ owned' = owned \ {r} /\ retired' = retired
        BY <3>1
      <4> QED
        BY <4>1 DEF UnusedAreClosed
    <3>2. CASE ~ok
      <4>1. cleanup' = cleanup \ {r} /\ closed' = closed /\ owned' = owned /\ retired' = retired
        BY <3>2
      <4> QED
        BY <4>1 DEF UnusedAreClosed
    <3> QED
      BY <3>1, <3>2
  <2>5. \A k \in Closers : pc'[k] = "draining" => todo'[k] \subseteq retired'
    BY DEF UnusedAreClosed, PlacesAreOwn, RequestPlaces, AdminPlaces, CloserPlaces,
       LocksAreHeld, CurrentIsOpen
  <2> QED
    BY <2>1, <2>2, <2>3, <2>4, <2>5 DEF UnusedAreClosed
<1>8. CloseIsComplete'
  BY DEF CloseIsComplete, LocksAreHeld, UnusedAreClosed, RefreshIsCurrent, Leftovers,
     PlacesAreOwn, RequestPlaces, AdminPlaces, CloserPlaces
<1>9. NothingLost'
  BY DEF NothingLost, UnusedAreClosed, CloseIsComplete, LocksAreHeld, PlacesAreOwn,
     RequestPlaces, AdminPlaces, CloserPlaces
<1> QED
  BY <1>1, <1>2, <1>3, <1>4, <1>5, <1>6, <1>7, <1>8, <1>9 DEF RuntimeInvariant

LEMMA RefreshStartKeeps ==
  ASSUME RuntimeInvariant, NEW r \in Runtimes, RefreshStarts(r)
  PROVE  RuntimeInvariant'
<1> USE GenerationsAssumption DEF RuntimeInvariant, Callers, TypeOK, RefreshStarts, runtimes,
   cleaning, locks, flags, callers
<1> USE RuntimeFacts
<1>1. TypeOK'
  BY DEF Interruptible
<1>2. PlacesAreOwn'
  BY DEF PlacesAreOwn, RequestPlaces, AdminPlaces, CloserPlaces
<1>3. LocksAreHeld'
  BY DEF LocksAreHeld, PlacesAreOwn, RequestPlaces, AdminPlaces, CloserPlaces
<1>4. RefreshIsCurrent'
  BY DEF RefreshIsCurrent, LocksAreHeld, PlacesAreOwn, RequestPlaces, AdminPlaces, CloserPlaces
<1>5. CurrentIsOpen'
  BY DEF CurrentIsOpen, LocksAreHeld, UnusedAreClosed, RefreshIsCurrent, PlacesAreOwn,
     RequestPlaces, AdminPlaces, CloserPlaces
<1>6. LeasesAreCounted'
  <2>1. CASE r \in closed
    BY <2>1, LeasesStay DEF Holders, Refresher
  <2>2. CASE r \notin closed
    BY <2>2, RefresherChanges DEF Refresher
  <2> QED
    BY <2>1, <2>2
<1>7. UnusedAreClosed'
  BY DEF UnusedAreClosed, LocksAreHeld, CurrentIsOpen, Leftovers, RefreshIsCurrent,
     PlacesAreOwn, RequestPlaces, AdminPlaces, CloserPlaces
<1>8. CloseIsComplete'
  BY DEF CloseIsComplete, LocksAreHeld, UnusedAreClosed, RefreshIsCurrent, Leftovers,
     PlacesAreOwn, RequestPlaces, AdminPlaces, CloserPlaces
<1>9. NothingLost'
  <2>1. ~terminal
    BY DEF RefreshIsCurrent, LocksAreHeld
  <2> QED
    BY <2>1 DEF NothingLost
<1> QED
  BY <1>1, <1>2, <1>3, <1>4, <1>5, <1>6, <1>7, <1>8, <1>9 DEF RuntimeInvariant

LEMMA RefreshEndKeeps ==
  ASSUME RuntimeInvariant, NEW r \in Runtimes, RefreshEnds(r)
  PROVE  RuntimeInvariant'
<1> USE GenerationsAssumption DEF RuntimeInvariant, Callers, TypeOK, RefreshEnds, Release,
   LastLease, runtimes, cleaning, locks, flags, callers
<1> USE RuntimeFacts
<1>0. leases[r] \in Nat \ {0} /\ r \in 1..built
  <2>1. leases[r] > 0
    BY UsersAreCounted
  <2>2. r <= built /\ r \in Nat \ {0}
    BY DEF RefreshIsCurrent
  <2> QED
    BY <2>1, <2>2
<1>1. TypeOK'
  BY <1>0 DEF Interruptible
<1>2. PlacesAreOwn'
  BY DEF PlacesAreOwn, RequestPlaces, AdminPlaces, CloserPlaces
<1>3. LocksAreHeld'
  BY DEF LocksAreHeld, PlacesAreOwn, RequestPlaces, AdminPlaces, CloserPlaces
<1>4. RefreshIsCurrent'
  BY DEF RefreshIsCurrent, LocksAreHeld, PlacesAreOwn, RequestPlaces, AdminPlaces, CloserPlaces
<1>5. CurrentIsOpen'
  BY DEF CurrentIsOpen, LocksAreHeld, UnusedAreClosed, RefreshIsCurrent, PlacesAreOwn,
     RequestPlaces, AdminPlaces, CloserPlaces
<1>6. LeasesAreCounted'
  <2>1. Refresher(r)' = Refresher(r) + (-1)
    BY DEF Refresher
  <2>2. \A x \in Runtimes \ {r} : Refresher(x)' = Refresher(x)
    BY DEF Refresher
  <2>3. leases' = [leases EXCEPT ![r] = @ + (-1)]
    BY <1>0
  <2> QED
    BY <2>1, <2>2, <2>3, RefresherChanges
<1>7. UnusedAreClosed'
  BY <1>0 DEF UnusedAreClosed, LocksAreHeld, CurrentIsOpen, Leftovers, RefreshIsCurrent,
     PlacesAreOwn, RequestPlaces, AdminPlaces, CloserPlaces
<1>8. CloseIsComplete'
  BY DEF CloseIsComplete, LocksAreHeld, UnusedAreClosed, RefreshIsCurrent, Leftovers,
     PlacesAreOwn, RequestPlaces, AdminPlaces, CloserPlaces
<1>9. NothingLost'
  BY <1>0 DEF NothingLost, UnusedAreClosed, CloseIsComplete, LocksAreHeld, PlacesAreOwn,
     RequestPlaces, AdminPlaces, CloserPlaces
<1> QED
  BY <1>1, <1>2, <1>3, <1>4, <1>5, <1>6, <1>7, <1>8, <1>9 DEF RuntimeInvariant

LEMMA AdminRefusedKeeps ==
  ASSUME RuntimeInvariant, NEW a \in Admins, AdminRefused(a)
  PROVE  RuntimeInvariant'
<1> USE GenerationsAssumption DEF RuntimeInvariant, Callers, TypeOK, AdminRefused, Go,
   runtimes, cleaning, locks, flags, callers
<1> USE RuntimeFacts
<1>1. TypeOK'
  BY DEF Interruptible
<1>2. PlacesAreOwn'
  BY DEF PlacesAreOwn, RequestPlaces, AdminPlaces, CloserPlaces
<1>3. LocksAreHeld'
  BY DEF LocksAreHeld, PlacesAreOwn, RequestPlaces, AdminPlaces, CloserPlaces
<1>4. RefreshIsCurrent'
  BY DEF RefreshIsCurrent, LocksAreHeld, PlacesAreOwn, RequestPlaces, AdminPlaces, CloserPlaces
<1>5. CurrentIsOpen'
  BY DEF CurrentIsOpen, LocksAreHeld, UnusedAreClosed, RefreshIsCurrent, PlacesAreOwn,
     RequestPlaces, AdminPlaces, CloserPlaces
<1>6. LeasesAreCounted'
  BY LeasesStay DEF Holders, Refresher, RefreshIsCurrent, Interruptible, PlacesAreOwn,
     RequestPlaces, AdminPlaces, CloserPlaces
<1>7. UnusedAreClosed'
  BY DEF UnusedAreClosed, LocksAreHeld, CurrentIsOpen, Leftovers, RefreshIsCurrent,
     PlacesAreOwn, RequestPlaces, AdminPlaces, CloserPlaces
<1>8. CloseIsComplete'
  BY DEF CloseIsComplete, LocksAreHeld, UnusedAreClosed, RefreshIsCurrent, Leftovers,
     PlacesAreOwn, RequestPlaces, AdminPlaces, CloserPlaces
<1>9. NothingLost'
  BY DEF NothingLost, UnusedAreClosed, CloseIsComplete, LocksAreHeld, PlacesAreOwn,
     RequestPlaces, AdminPlaces, CloserPlaces
<1> QED
  BY <1>1, <1>2, <1>3, <1>4, <1>5, <1>6, <1>7, <1>8, <1>9 DEF RuntimeInvariant

LEMMA AdminBeginsKeeps ==
  ASSUME RuntimeInvariant, NEW a \in Admins, AdminBegins(a)
  PROVE  RuntimeInvariant'
<1> USE GenerationsAssumption DEF RuntimeInvariant, Callers, TypeOK, AdminBegins, Lock,
   CancelRefresh, RefreshAlive, Go, runtimes, cleaning, locks, flags, callers
<1> USE RuntimeFacts
<1>1. TypeOK'
  BY DEF Interruptible
<1>2. PlacesAreOwn'
  BY DEF PlacesAreOwn, RequestPlaces, AdminPlaces, CloserPlaces
<1>3. LocksAreHeld'
  BY DEF LocksAreHeld, PlacesAreOwn, RequestPlaces, AdminPlaces, CloserPlaces
<1>4. RefreshIsCurrent'
  BY DEF RefreshIsCurrent, LocksAreHeld, PlacesAreOwn, RequestPlaces, AdminPlaces, CloserPlaces
<1>5. CurrentIsOpen'
  BY DEF CurrentIsOpen, LocksAreHeld, UnusedAreClosed, RefreshIsCurrent, PlacesAreOwn,
     RequestPlaces, AdminPlaces, CloserPlaces
<1>6. LeasesAreCounted'
  BY LeasesStay DEF Holders, Refresher, RefreshIsCurrent, Interruptible, PlacesAreOwn,
     RequestPlaces, AdminPlaces, CloserPlaces
<1>7. UnusedAreClosed'
  BY DEF UnusedAreClosed, LocksAreHeld, CurrentIsOpen, Leftovers, RefreshIsCurrent,
     PlacesAreOwn, RequestPlaces, AdminPlaces, CloserPlaces
<1>8. CloseIsComplete'
  BY DEF CloseIsComplete, LocksAreHeld, UnusedAreClosed, RefreshIsCurrent, Leftovers,
     PlacesAreOwn, RequestPlaces, AdminPlaces, CloserPlaces
<1>9. NothingLost'
  BY DEF NothingLost, UnusedAreClosed, CloseIsComplete, LocksAreHeld, PlacesAreOwn,
     RequestPlaces, AdminPlaces, CloserPlaces
<1> QED
  BY <1>1, <1>2, <1>3, <1>4, <1>5, <1>6, <1>7, <1>8, <1>9 DEF RuntimeInvariant

LEMMA ConnectKeeps ==
  ASSUME RuntimeInvariant, NEW a \in Admins, ConnectBegins(a)
  PROVE  RuntimeInvariant'
<1> USE GenerationsAssumption DEF RuntimeInvariant, Callers, TypeOK, ConnectBegins, Lock, Go,
   runtimes, cleaning, locks, flags, callers
<1> USE RuntimeFacts
<1>1. TypeOK'
  BY DEF Interruptible
<1>2. PlacesAreOwn'
  BY DEF PlacesAreOwn, RequestPlaces, AdminPlaces, CloserPlaces
<1>3. LocksAreHeld'
  BY DEF LocksAreHeld, PlacesAreOwn, RequestPlaces, AdminPlaces, CloserPlaces
<1>4. RefreshIsCurrent'
  BY DEF RefreshIsCurrent, LocksAreHeld, PlacesAreOwn, RequestPlaces, AdminPlaces, CloserPlaces
<1>5. CurrentIsOpen'
  BY DEF CurrentIsOpen, LocksAreHeld, UnusedAreClosed, RefreshIsCurrent, PlacesAreOwn,
     RequestPlaces, AdminPlaces, CloserPlaces
<1>6. LeasesAreCounted'
  BY LeasesStay DEF Holders, Refresher, RefreshIsCurrent, Interruptible, PlacesAreOwn,
     RequestPlaces, AdminPlaces, CloserPlaces
<1>7. UnusedAreClosed'
  BY DEF UnusedAreClosed, LocksAreHeld, CurrentIsOpen, Leftovers, RefreshIsCurrent,
     PlacesAreOwn, RequestPlaces, AdminPlaces, CloserPlaces
<1>8. CloseIsComplete'
  BY DEF CloseIsComplete, LocksAreHeld, UnusedAreClosed, RefreshIsCurrent, Leftovers,
     PlacesAreOwn, RequestPlaces, AdminPlaces, CloserPlaces
<1>9. NothingLost'
  BY DEF NothingLost, UnusedAreClosed, CloseIsComplete, LocksAreHeld, PlacesAreOwn,
     RequestPlaces, AdminPlaces, CloserPlaces
<1> QED
  BY <1>1, <1>2, <1>3, <1>4, <1>5, <1>6, <1>7, <1>8, <1>9 DEF RuntimeInvariant

LEMMA CloseBeginsKeeps ==
  ASSUME RuntimeInvariant, NEW c \in Closers, CloseBegins(c)
  PROVE  RuntimeInvariant'
<1> USE GenerationsAssumption DEF RuntimeInvariant, Callers, TypeOK, CloseBegins, Go, runtimes,
   cleaning, locks, flags, callers
<1> USE RuntimeFacts
<1>1. TypeOK'
  BY DEF Interruptible
<1>2. PlacesAreOwn'
  BY DEF PlacesAreOwn, RequestPlaces, AdminPlaces, CloserPlaces
<1>3. LocksAreHeld'
  BY DEF LocksAreHeld, PlacesAreOwn, RequestPlaces, AdminPlaces, CloserPlaces
<1>4. RefreshIsCurrent'
  BY DEF RefreshIsCurrent, LocksAreHeld, PlacesAreOwn, RequestPlaces, AdminPlaces, CloserPlaces
<1>5. CurrentIsOpen'
  BY DEF CurrentIsOpen, LocksAreHeld, UnusedAreClosed, RefreshIsCurrent, PlacesAreOwn,
     RequestPlaces, AdminPlaces, CloserPlaces
<1>6. LeasesAreCounted'
  BY LeasesStay DEF Holders, Refresher, RefreshIsCurrent, Interruptible, PlacesAreOwn,
     RequestPlaces, AdminPlaces, CloserPlaces
<1>7. UnusedAreClosed'
  BY DEF UnusedAreClosed, LocksAreHeld, CurrentIsOpen, Leftovers, RefreshIsCurrent,
     PlacesAreOwn, RequestPlaces, AdminPlaces, CloserPlaces
<1>8. CloseIsComplete'
  BY DEF CloseIsComplete, LocksAreHeld, UnusedAreClosed, RefreshIsCurrent, Leftovers,
     PlacesAreOwn, RequestPlaces, AdminPlaces, CloserPlaces
<1>9. NothingLost'
  BY DEF NothingLost, UnusedAreClosed, CloseIsComplete, LocksAreHeld, PlacesAreOwn,
     RequestPlaces, AdminPlaces, CloserPlaces
<1> QED
  BY <1>1, <1>2, <1>3, <1>4, <1>5, <1>6, <1>7, <1>8, <1>9 DEF RuntimeInvariant

LEMMA ReplaceRetriesKeeps ==
  ASSUME RuntimeInvariant, NEW c \in Admins \cup Closers, ReplaceRetries(c)
  PROVE  RuntimeInvariant'
<1> USE GenerationsAssumption DEF RuntimeInvariant, Callers, TypeOK, ReplaceRetries,
   RefreshIsOver, Go, runtimes, cleaning, locks, flags, callers
<1> USE RuntimeFacts
<1>1. TypeOK'
  BY DEF Interruptible
<1>2. PlacesAreOwn'
  BY DEF PlacesAreOwn, RequestPlaces, AdminPlaces, CloserPlaces
<1>3. LocksAreHeld'
  BY DEF LocksAreHeld, PlacesAreOwn, RequestPlaces, AdminPlaces, CloserPlaces
<1>4. RefreshIsCurrent'
  BY DEF RefreshIsCurrent, LocksAreHeld, PlacesAreOwn, RequestPlaces, AdminPlaces, CloserPlaces
<1>5. CurrentIsOpen'
  BY DEF CurrentIsOpen, LocksAreHeld, UnusedAreClosed, RefreshIsCurrent, PlacesAreOwn,
     RequestPlaces, AdminPlaces, CloserPlaces
<1>6. LeasesAreCounted'
  BY LeasesStay DEF Holders, Refresher, RefreshIsCurrent, Interruptible, PlacesAreOwn,
     RequestPlaces, AdminPlaces, CloserPlaces
<1>7. UnusedAreClosed'
  BY DEF UnusedAreClosed, LocksAreHeld, CurrentIsOpen, Leftovers, RefreshIsCurrent,
     PlacesAreOwn, RequestPlaces, AdminPlaces, CloserPlaces
<1>8. CloseIsComplete'
  BY DEF CloseIsComplete, LocksAreHeld, UnusedAreClosed, RefreshIsCurrent, Leftovers,
     PlacesAreOwn, RequestPlaces, AdminPlaces, CloserPlaces
<1>9. NothingLost'
  BY DEF NothingLost, UnusedAreClosed, CloseIsComplete, LocksAreHeld, PlacesAreOwn,
     RequestPlaces, AdminPlaces, CloserPlaces
<1> QED
  BY <1>1, <1>2, <1>3, <1>4, <1>5, <1>6, <1>7, <1>8, <1>9 DEF RuntimeInvariant

LEMMA UnpublishedKeeps ==
  ASSUME RuntimeInvariant, NEW c \in Admins \cup Closers, NEW r \in Runtimes, NEW ok \in BOOLEAN, UnpublishedCleaned(c, r, ok)
  PROVE  RuntimeInvariant'
<1> USE GenerationsAssumption DEF RuntimeInvariant, Callers, TypeOK, UnpublishedCleaned,
   runtimes, cleaning, locks, flags, callers
<1> USE RuntimeFacts
<1>1. TypeOK'
  <2>1. cleanup' \subseteq 1..built' /\ closed' \subseteq 1..built' /\ failures' \in 0..MaxFailures
    <3>1. CASE ok
      <4>1. cleanup' = cleanup /\ closed' = closed \cup {r} /\ failures' = failures /\ r \in 1..built
        BY <3>1
      <4> QED
        BY <4>1
    <3>2. CASE ~ok
      <4>1. cleanup' = cleanup /\ closed' = closed /\ failures' = failures + 1 /\ failures < MaxFailures
        BY <3>2
      <4> QED
        BY <4>1
    <3> QED
      BY <3>1, <3>2
  <2>2. unpublished' \subseteq 1..built' /\ failed' \subseteq Closers
    BY DEF Interruptible
  <2>3. todo' \in [Callers -> SUBSET (1..built')]
    BY DEF Interruptible
  <2> QED
    BY <2>1, <2>2, <2>3
<1>2. PlacesAreOwn'
  BY DEF PlacesAreOwn, RequestPlaces, AdminPlaces, CloserPlaces
<1>3. LocksAreHeld'
  BY DEF LocksAreHeld, PlacesAreOwn, RequestPlaces, AdminPlaces, CloserPlaces
<1>4. RefreshIsCurrent'
  BY DEF RefreshIsCurrent, LocksAreHeld, PlacesAreOwn, RequestPlaces, AdminPlaces, CloserPlaces
<1>5. CurrentIsOpen'
  BY DEF Leftovers, CurrentIsOpen, LocksAreHeld, UnusedAreClosed, RefreshIsCurrent,
     PlacesAreOwn, RequestPlaces, AdminPlaces, CloserPlaces
<1>6. LeasesAreCounted'
  BY LeasesStay DEF Holders, Refresher, RefreshIsCurrent, Interruptible, PlacesAreOwn,
     RequestPlaces, AdminPlaces, CloserPlaces
<1>7. UnusedAreClosed'
  <2>1. \A x \in cleanup' \cup closed' : leases'[x] = 0
    <3>1. CASE ok
      <4>1. cleanup' = cleanup /\ closed' = closed \cup {r} /\ leases' = leases /\ r \in Leftovers(c)
        BY <3>1 DEF Leftovers
      <4> QED
        BY <4>1 DEF UnusedAreClosed
    <3>2. CASE ~ok
      <4>1. cleanup' = cleanup /\ closed' = closed /\ leases' = leases
        BY <3>2
      <4> QED
        BY <4>1 DEF UnusedAreClosed
    <3> QED
      BY <3>1, <3>2
  <2>2. \A x \in unpublished' : leases'[x] = 0 /\ x # current'
    BY DEF UnusedAreClosed, LocksAreHeld, CurrentIsOpen
  <2>3. \A k \in Callers : \A x \in Leftovers(k)' : leases'[x] = 0 /\ x # current'
    BY DEF UnusedAreClosed, Leftovers, LocksAreHeld, CurrentIsOpen
  <2>4. cleanup' \subseteq retired' /\ owned' \subseteq retired' /\ retired' \subseteq owned' \cup closed'
    BY DEF UnusedAreClosed, LocksAreHeld, CurrentIsOpen
  <2>5. \A k \in Closers : pc'[k] = "draining" => todo'[k] \subseteq retired'
    BY DEF UnusedAreClosed, PlacesAreOwn, RequestPlaces, AdminPlaces, CloserPlaces,
       LocksAreHeld, CurrentIsOpen
  <2> QED
    BY <2>1, <2>2, <2>3, <2>4, <2>5 DEF UnusedAreClosed
<1>8. CloseIsComplete'
  BY DEF CloseIsComplete, LocksAreHeld, UnusedAreClosed, RefreshIsCurrent, Leftovers,
     PlacesAreOwn, RequestPlaces, AdminPlaces, CloserPlaces
<1>9. NothingLost'
  BY DEF NothingLost, UnusedAreClosed, CloseIsComplete, LocksAreHeld, PlacesAreOwn,
     RequestPlaces, AdminPlaces, CloserPlaces
<1> QED
  BY <1>1, <1>2, <1>3, <1>4, <1>5, <1>6, <1>7, <1>8, <1>9 DEF RuntimeInvariant

LEMMA ReplaceFailsKeeps ==
  ASSUME RuntimeInvariant, NEW c \in Admins \cup Closers, ReplaceFails(c)
  PROVE  RuntimeInvariant'
<1> USE GenerationsAssumption DEF RuntimeInvariant, Callers, TypeOK, ReplaceFails, Unlock, Go,
   runtimes, cleaning, locks, flags, callers
<1> USE RuntimeFacts
<1>1. TypeOK'
  BY DEF Interruptible
<1>2. PlacesAreOwn'
  BY DEF PlacesAreOwn, RequestPlaces, AdminPlaces, CloserPlaces
<1>3. LocksAreHeld'
  BY DEF LocksAreHeld, PlacesAreOwn, RequestPlaces, AdminPlaces, CloserPlaces
<1>4. RefreshIsCurrent'
  BY DEF RefreshIsCurrent, LocksAreHeld, PlacesAreOwn, RequestPlaces, AdminPlaces, CloserPlaces
<1>5. CurrentIsOpen'
  BY DEF CurrentIsOpen, LocksAreHeld, UnusedAreClosed, RefreshIsCurrent, PlacesAreOwn,
     RequestPlaces, AdminPlaces, CloserPlaces
<1>6. LeasesAreCounted'
  BY LeasesStay DEF Holders, Refresher, RefreshIsCurrent, Interruptible, PlacesAreOwn,
     RequestPlaces, AdminPlaces, CloserPlaces
<1>7. UnusedAreClosed'
  BY DEF UnusedAreClosed, LocksAreHeld, CurrentIsOpen, Leftovers, RefreshIsCurrent,
     PlacesAreOwn, RequestPlaces, AdminPlaces, CloserPlaces
<1>8. CloseIsComplete'
  BY DEF CloseIsComplete, LocksAreHeld, UnusedAreClosed, RefreshIsCurrent, Leftovers,
     PlacesAreOwn, RequestPlaces, AdminPlaces, CloserPlaces
<1>9. NothingLost'
  BY DEF NothingLost, UnusedAreClosed, CloseIsComplete, LocksAreHeld, PlacesAreOwn,
     RequestPlaces, AdminPlaces, CloserPlaces
<1> QED
  BY <1>1, <1>2, <1>3, <1>4, <1>5, <1>6, <1>7, <1>8, <1>9 DEF RuntimeInvariant

LEMMA CommitFailsKeeps ==
  ASSUME RuntimeInvariant, NEW c \in Admins \cup Closers, CommitFails(c)
  PROVE  RuntimeInvariant'
<1> USE GenerationsAssumption DEF RuntimeInvariant, Callers, TypeOK, CommitFails, Candidate,
   Go, runtimes, cleaning, locks, flags, callers
<1> USE RuntimeFacts
<1>0. /\ Candidate \in Runtimes /\ Candidate \notin 1..built /\ Candidate # current
      /\ 1..built' = 1..built \cup {Candidate} /\ 0..built \subseteq 0..built'
      /\ leases[Candidate] = 0 /\ built' \in Runtimes
  BY CandidateFacts, UnbuiltAreUnused
<1>1. TypeOK'
  BY <1>0 DEF Interruptible
<1>2. PlacesAreOwn'
  BY DEF PlacesAreOwn, RequestPlaces, AdminPlaces, CloserPlaces
<1>3. LocksAreHeld'
  BY DEF LocksAreHeld, PlacesAreOwn, RequestPlaces, AdminPlaces, CloserPlaces
<1>4. RefreshIsCurrent'
  BY <1>0 DEF RefreshIsCurrent, LocksAreHeld, PlacesAreOwn, RequestPlaces, AdminPlaces,
     CloserPlaces
<1>5. CurrentIsOpen'
  BY DEF CurrentIsOpen, LocksAreHeld, UnusedAreClosed, RefreshIsCurrent, PlacesAreOwn,
     RequestPlaces, AdminPlaces, CloserPlaces
<1>6. LeasesAreCounted'
  BY LeasesStay DEF Holders, Refresher, RefreshIsCurrent, Interruptible, PlacesAreOwn,
     RequestPlaces, AdminPlaces, CloserPlaces
<1>7. UnusedAreClosed'
  BY <1>0 DEF UnusedAreClosed, LocksAreHeld, CurrentIsOpen, Leftovers, RefreshIsCurrent,
     PlacesAreOwn, RequestPlaces, AdminPlaces, CloserPlaces
<1>8. CloseIsComplete'
  BY <1>0 DEF CloseIsComplete, LocksAreHeld, UnusedAreClosed, RefreshIsCurrent, Leftovers,
     PlacesAreOwn, RequestPlaces, AdminPlaces, CloserPlaces
<1>9. NothingLost'
  BY <1>0 DEF NothingLost, UnusedAreClosed, CloseIsComplete, LocksAreHeld, PlacesAreOwn,
     RequestPlaces, AdminPlaces, CloserPlaces
<1> QED
  BY <1>1, <1>2, <1>3, <1>4, <1>5, <1>6, <1>7, <1>8, <1>9 DEF RuntimeInvariant

LEMMA PublishKeeps ==
  ASSUME RuntimeInvariant, NEW c \in Admins \cup Closers, Publish(c)
  PROVE  RuntimeInvariant'
<1> USE GenerationsAssumption DEF RuntimeInvariant, Callers, TypeOK, Publish, Candidate,
   Unleased, Unlock, Go, runtimes, cleaning, locks, flags, callers
<1> USE RuntimeFacts
<1>0. /\ Candidate \in Runtimes /\ Candidate \notin 1..built /\ Candidate # current
      /\ 1..built' = 1..built \cup {Candidate} /\ 0..built \subseteq 0..built'
      /\ leases[Candidate] = 0 /\ built' \in Runtimes
  BY CandidateFacts, UnbuiltAreUnused
<1>1. TypeOK'
  <2>1. built' \in Runtimes /\ current' \in 1..built'
    BY <1>0 DEF Interruptible
  <2>2. retired' \subseteq 1..built' /\ owned' \subseteq 1..built' /\ unpublished' \subseteq 1..built'
    BY <1>0 DEF Interruptible
  <2>3. cleanup' \subseteq 1..built' /\ closed' \subseteq 1..built' /\ failures' \in 0..MaxFailures
    <3>1. /\ cleanup' \in {cleanup, cleanup \cup {current}}
          /\ closed' = closed /\ failures' = failures
      OBVIOUS
    <3>2. current \in 1..built' /\ 1..built \subseteq 1..built'
      BY <1>0
    <3> QED
      BY <3>1, <3>2
  <2>4. refresh' \in 0..built' /\ using' \in [Callers -> 0..built']
    BY <1>0 DEF Interruptible
  <2>5. task' \in [Runtimes -> {"none", "created", "running", "cancelled", "joining", "done"}]
    BY <1>0 DEF Interruptible
  <2>6. pc' \in [Callers -> {"idle", "leased", "discovering", "done"} \cup Interruptible]
    BY <1>0 DEF Interruptible
  <2>7. todo' \in [Callers -> SUBSET (1..built')]
    BY <1>0 DEF Interruptible
  <2>8. replaceLock' \in Admins \cup Closers \cup {Nobody} /\ closeLock' \in Closers \cup {Nobody}
    BY <1>0 DEF Interruptible
  <2> QED
    BY <1>0, <2>1, <2>2, <2>3, <2>4, <2>5, <2>6, <2>7, <2>8
<1>2. PlacesAreOwn'
  BY DEF PlacesAreOwn, RequestPlaces, AdminPlaces, CloserPlaces
<1>3. LocksAreHeld'
  BY DEF LocksAreHeld, PlacesAreOwn, RequestPlaces, AdminPlaces, CloserPlaces
<1>4. RefreshIsCurrent'
  BY <1>0 DEF RefreshIsCurrent, LocksAreHeld, PlacesAreOwn, RequestPlaces, AdminPlaces,
     CloserPlaces
<1>5. CurrentIsOpen'
  BY DEF CurrentIsOpen, LocksAreHeld, UnusedAreClosed, RefreshIsCurrent, PlacesAreOwn,
     RequestPlaces, AdminPlaces, CloserPlaces
<1>6. LeasesAreCounted'
  BY LeasesStay DEF Holders, Refresher, RefreshIsCurrent, Interruptible, PlacesAreOwn,
     RequestPlaces, AdminPlaces, CloserPlaces
<1>7. UnusedAreClosed'
  <2>1. \A x \in cleanup' \cup closed' : leases'[x] = 0
    <3>1. CASE Unleased(current)
      <4>1. cleanup' = cleanup \cup {current} /\ closed' = closed /\ leases' = leases
        BY <3>1
      <4> QED
        BY <3>1, <4>1 DEF UnusedAreClosed
    <3>2. CASE ~Unleased(current)
      BY <3>2 DEF UnusedAreClosed
    <3> QED
      BY <3>1, <3>2
  <2>2. \A x \in unpublished' : leases'[x] = 0 /\ x # current'
    BY <1>0 DEF UnusedAreClosed
  <2>3. \A k \in Callers : \A x \in Leftovers(k)' : leases'[x] = 0 /\ x # current'
    BY <1>0 DEF UnusedAreClosed, Leftovers
  <2>4. cleanup' \subseteq retired' /\ owned' \subseteq retired' /\ retired' \subseteq owned' \cup closed'
    BY <1>0 DEF UnusedAreClosed
  <2>5. \A k \in Closers : pc'[k] = "draining" => todo'[k] \subseteq retired'
    BY <1>0 DEF UnusedAreClosed, PlacesAreOwn, RequestPlaces, AdminPlaces, CloserPlaces
  <2> QED
    BY <2>1, <2>2, <2>3, <2>4, <2>5 DEF UnusedAreClosed
<1>8. CloseIsComplete'
  BY <1>0 DEF CloseIsComplete, LocksAreHeld, UnusedAreClosed, RefreshIsCurrent, Leftovers,
     PlacesAreOwn, RequestPlaces, AdminPlaces, CloserPlaces
<1>9. NothingLost'
  BY <1>0 DEF NothingLost, UnusedAreClosed, CloseIsComplete, LocksAreHeld, PlacesAreOwn,
     RequestPlaces, AdminPlaces, CloserPlaces
<1> QED
  BY <1>1, <1>2, <1>3, <1>4, <1>5, <1>6, <1>7, <1>8, <1>9 DEF RuntimeInvariant

LEMMA FullRefreshBeginsKeeps ==
  ASSUME RuntimeInvariant, NEW c \in Admins \cup Closers, FullRefreshBegins(c)
  PROVE  RuntimeInvariant'
<1> USE GenerationsAssumption DEF RuntimeInvariant, Callers, TypeOK, FullRefreshBegins,
   RefreshIsOver, Go, runtimes, cleaning, locks, flags, callers
<1> USE RuntimeFacts
<1>1. TypeOK'
  BY DEF Interruptible
<1>2. PlacesAreOwn'
  BY DEF PlacesAreOwn, RequestPlaces, AdminPlaces, CloserPlaces
<1>3. LocksAreHeld'
  BY DEF LocksAreHeld, PlacesAreOwn, RequestPlaces, AdminPlaces, CloserPlaces
<1>4. RefreshIsCurrent'
  BY DEF RefreshIsCurrent, LocksAreHeld, PlacesAreOwn, RequestPlaces, AdminPlaces, CloserPlaces
<1>5. CurrentIsOpen'
  BY DEF CurrentIsOpen, LocksAreHeld, UnusedAreClosed, RefreshIsCurrent, PlacesAreOwn,
     RequestPlaces, AdminPlaces, CloserPlaces
<1>6. LeasesAreCounted'
  <2>1. c \notin Holders(current) /\ Holders(current)' = Holders(current) \cup {c}
    BY DEF Holders, Interruptible
  <2>2. \A r \in Runtimes \ {current} : Holders(r)' = Holders(r)
    BY DEF Holders, Interruptible
  <2> QED
    BY <2>1, <2>2, LeaseTaken
<1>7. UnusedAreClosed'
  BY DEF UnusedAreClosed, LocksAreHeld, CurrentIsOpen, Leftovers, RefreshIsCurrent,
     PlacesAreOwn, RequestPlaces, AdminPlaces, CloserPlaces
<1>8. CloseIsComplete'
  BY DEF CloseIsComplete, LocksAreHeld, UnusedAreClosed, RefreshIsCurrent, Leftovers,
     PlacesAreOwn, RequestPlaces, AdminPlaces, CloserPlaces
<1>9. NothingLost'
  BY DEF NothingLost, UnusedAreClosed, CloseIsComplete, LocksAreHeld, PlacesAreOwn,
     RequestPlaces, AdminPlaces, CloserPlaces
<1> QED
  BY <1>1, <1>2, <1>3, <1>4, <1>5, <1>6, <1>7, <1>8, <1>9 DEF RuntimeInvariant

LEMMA FullRefreshEndsKeeps ==
  ASSUME RuntimeInvariant, NEW c \in Admins \cup Closers, FullRefreshEnds(c)
  PROVE  RuntimeInvariant'
<1> USE GenerationsAssumption DEF RuntimeInvariant, Callers, TypeOK, FullRefreshEnds, Release,
   LastLease, Unlock, Go, runtimes, cleaning, locks, flags, callers
<1> USE RuntimeFacts
<1>0. using[c] \in 1..built /\ using[c] \in Runtimes /\ leases[using[c]] \in Nat \ {0}
  <2>1. using[c] \in 1..built /\ using[c] \in Runtimes
    BY DEF PlacesAreOwn
  <2>2. leases[using[c]] > 0
    BY <2>1, UsersAreCounted DEF Holders
  <2> QED
    BY <2>1, <2>2
<1>1. TypeOK'
  <2>1. leases' \in [Runtimes -> Nat]
    BY <1>0 DEF Interruptible
  <2>2. cleanup' \subseteq 1..built' /\ closed' \subseteq 1..built' /\ failures' \in 0..MaxFailures
    BY <1>0 DEF Interruptible
  <2>3. pc' \in [Callers -> {"idle", "leased", "discovering", "done"} \cup Interruptible]
    BY <1>0 DEF Interruptible
  <2> QED
    BY <1>0, <2>1, <2>2, <2>3
<1>2. PlacesAreOwn'
  BY DEF PlacesAreOwn, RequestPlaces, AdminPlaces, CloserPlaces
<1>3. LocksAreHeld'
  BY DEF LocksAreHeld, PlacesAreOwn, RequestPlaces, AdminPlaces, CloserPlaces
<1>4. RefreshIsCurrent'
  BY DEF RefreshIsCurrent, LocksAreHeld, PlacesAreOwn, RequestPlaces, AdminPlaces, CloserPlaces
<1>5. CurrentIsOpen'
  BY DEF CurrentIsOpen, LocksAreHeld, UnusedAreClosed, RefreshIsCurrent, PlacesAreOwn,
     RequestPlaces, AdminPlaces, CloserPlaces
<1>6. LeasesAreCounted'
  <2>1. c \in Holders(using[c]) /\ Holders(using[c])' = Holders(using[c]) \ {c}
    BY <1>0 DEF Holders, Interruptible
  <2>2. \A r \in Runtimes \ {using[c]} : Holders(r)' = Holders(r)
    BY <1>0 DEF Holders, Interruptible
  <2> QED
    BY <1>0, <2>1, <2>2, LeaseGivenBack
<1>7. UnusedAreClosed'
  <2>1. \A x \in cleanup' \cup closed' : leases'[x] = 0
    BY <1>0 DEF UnusedAreClosed
  <2>2. \A x \in unpublished' : leases'[x] = 0 /\ x # current'
    BY <1>0 DEF UnusedAreClosed
  <2>3. \A k \in Callers : \A x \in Leftovers(k)' : leases'[x] = 0 /\ x # current'
    BY <1>0 DEF UnusedAreClosed, Leftovers
  <2>4. cleanup' \subseteq retired' /\ owned' \subseteq retired' /\ retired' \subseteq owned' \cup closed'
    BY <1>0 DEF UnusedAreClosed
  <2>5. \A k \in Closers : pc'[k] = "draining" => todo'[k] \subseteq retired'
    BY <1>0 DEF UnusedAreClosed, PlacesAreOwn, RequestPlaces, AdminPlaces, CloserPlaces
  <2> QED
    BY <2>1, <2>2, <2>3, <2>4, <2>5 DEF UnusedAreClosed
<1>8. CloseIsComplete'
  BY DEF CloseIsComplete, LocksAreHeld, UnusedAreClosed, RefreshIsCurrent, Leftovers,
     PlacesAreOwn, RequestPlaces, AdminPlaces, CloserPlaces
<1>9. NothingLost'
  BY <1>0 DEF NothingLost, UnusedAreClosed, CloseIsComplete, LocksAreHeld, PlacesAreOwn,
     RequestPlaces, AdminPlaces, CloserPlaces
<1> QED
  BY <1>1, <1>2, <1>3, <1>4, <1>5, <1>6, <1>7, <1>8, <1>9 DEF RuntimeInvariant

LEMMA AdminEndsKeeps ==
  ASSUME RuntimeInvariant, NEW c \in Admins \cup Closers, AdminEnds(c)
  PROVE  RuntimeInvariant'
<1> USE GenerationsAssumption DEF RuntimeInvariant, Callers, TypeOK, AdminEnds, Unlock, Go,
   runtimes, cleaning, locks, flags, callers
<1> USE RuntimeFacts
<1>1. TypeOK'
  BY DEF Interruptible
<1>2. PlacesAreOwn'
  BY DEF PlacesAreOwn, RequestPlaces, AdminPlaces, CloserPlaces
<1>3. LocksAreHeld'
  BY DEF LocksAreHeld, PlacesAreOwn, RequestPlaces, AdminPlaces, CloserPlaces
<1>4. RefreshIsCurrent'
  BY DEF RefreshIsCurrent, LocksAreHeld, PlacesAreOwn, RequestPlaces, AdminPlaces, CloserPlaces
<1>5. CurrentIsOpen'
  BY DEF CurrentIsOpen, LocksAreHeld, UnusedAreClosed, RefreshIsCurrent, PlacesAreOwn,
     RequestPlaces, AdminPlaces, CloserPlaces
<1>6. LeasesAreCounted'
  BY LeasesStay DEF Holders, Refresher, RefreshIsCurrent, Interruptible, PlacesAreOwn,
     RequestPlaces, AdminPlaces, CloserPlaces
<1>7. UnusedAreClosed'
  BY DEF UnusedAreClosed, LocksAreHeld, CurrentIsOpen, Leftovers, RefreshIsCurrent,
     PlacesAreOwn, RequestPlaces, AdminPlaces, CloserPlaces
<1>8. CloseIsComplete'
  BY DEF CloseIsComplete, LocksAreHeld, UnusedAreClosed, RefreshIsCurrent, Leftovers,
     PlacesAreOwn, RequestPlaces, AdminPlaces, CloserPlaces
<1>9. NothingLost'
  BY DEF NothingLost, UnusedAreClosed, CloseIsComplete, LocksAreHeld, PlacesAreOwn,
     RequestPlaces, AdminPlaces, CloserPlaces
<1> QED
  BY <1>1, <1>2, <1>3, <1>4, <1>5, <1>6, <1>7, <1>8, <1>9 DEF RuntimeInvariant

LEMMA CloseEntersKeeps ==
  ASSUME RuntimeInvariant, NEW c \in Admins \cup Closers, CloseEnters(c)
  PROVE  RuntimeInvariant'
<1> USE GenerationsAssumption DEF RuntimeInvariant, Callers, TypeOK, CloseEnters, Lock,
   CancelRefresh, RefreshAlive, Go, runtimes, cleaning, locks, flags, callers
<1> USE RuntimeFacts
<1>1. TypeOK'
  BY DEF Interruptible
<1>2. PlacesAreOwn'
  BY DEF PlacesAreOwn, RequestPlaces, AdminPlaces, CloserPlaces
<1>3. LocksAreHeld'
  BY DEF LocksAreHeld, PlacesAreOwn, RequestPlaces, AdminPlaces, CloserPlaces
<1>4. RefreshIsCurrent'
  BY DEF RefreshIsCurrent, LocksAreHeld, PlacesAreOwn, RequestPlaces, AdminPlaces, CloserPlaces
<1>5. CurrentIsOpen'
  BY DEF CurrentIsOpen, LocksAreHeld, UnusedAreClosed, RefreshIsCurrent, PlacesAreOwn,
     RequestPlaces, AdminPlaces, CloserPlaces
<1>6. LeasesAreCounted'
  BY LeasesStay DEF Holders, Refresher, RefreshIsCurrent, Interruptible, PlacesAreOwn,
     RequestPlaces, AdminPlaces, CloserPlaces
<1>7. UnusedAreClosed'
  BY DEF UnusedAreClosed, LocksAreHeld, CurrentIsOpen, Leftovers, RefreshIsCurrent,
     PlacesAreOwn, RequestPlaces, AdminPlaces, CloserPlaces
<1>8. CloseIsComplete'
  BY DEF CloseIsComplete, LocksAreHeld, UnusedAreClosed, RefreshIsCurrent, Leftovers,
     PlacesAreOwn, RequestPlaces, AdminPlaces, CloserPlaces
<1>9. NothingLost'
  BY DEF NothingLost, UnusedAreClosed, CloseIsComplete, LocksAreHeld, PlacesAreOwn,
     RequestPlaces, AdminPlaces, CloserPlaces
<1> QED
  BY <1>1, <1>2, <1>3, <1>4, <1>5, <1>6, <1>7, <1>8, <1>9 DEF RuntimeInvariant

LEMMA CloseRetiresKeeps ==
  ASSUME RuntimeInvariant, NEW c \in Admins \cup Closers, CloseRetires(c)
  PROVE  RuntimeInvariant'
<1> USE GenerationsAssumption DEF RuntimeInvariant, Callers, TypeOK, CloseRetires,
   RefreshIsOver, Unlock, Go, runtimes, cleaning, locks, flags, callers
<1> USE RuntimeFacts
<1>1. TypeOK'
  BY DEF Interruptible
<1>2. PlacesAreOwn'
  BY DEF PlacesAreOwn, RequestPlaces, AdminPlaces, CloserPlaces
<1>3. LocksAreHeld'
  BY DEF LocksAreHeld, PlacesAreOwn, RequestPlaces, AdminPlaces, CloserPlaces
<1>4. RefreshIsCurrent'
  BY DEF RefreshIsCurrent, LocksAreHeld, PlacesAreOwn, RequestPlaces, AdminPlaces, CloserPlaces
<1>5. CurrentIsOpen'
  BY DEF CurrentIsOpen, LocksAreHeld, UnusedAreClosed, RefreshIsCurrent, PlacesAreOwn,
     RequestPlaces, AdminPlaces, CloserPlaces
<1>6. LeasesAreCounted'
  BY LeasesStay DEF Holders, Refresher, RefreshIsCurrent, Interruptible, PlacesAreOwn,
     RequestPlaces, AdminPlaces, CloserPlaces
<1>7. UnusedAreClosed'
  <2>1. \A x \in cleanup' \cup closed' : leases'[x] = 0
    BY DEF UnusedAreClosed
  <2>2. \A x \in unpublished' : leases'[x] = 0 /\ x # current'
    BY DEF UnusedAreClosed
  <2>3. \A k \in Callers : \A x \in Leftovers(k)' : leases'[x] = 0 /\ x # current'
    BY DEF UnusedAreClosed, Leftovers
  <2>4. cleanup' \subseteq retired' /\ owned' \subseteq retired' /\ retired' \subseteq owned' \cup closed'
    BY DEF UnusedAreClosed
  <2>5. \A k \in Closers : pc'[k] = "draining" => todo'[k] \subseteq retired'
    BY DEF UnusedAreClosed, PlacesAreOwn, RequestPlaces, AdminPlaces, CloserPlaces
  <2> QED
    BY <2>1, <2>2, <2>3, <2>4, <2>5 DEF UnusedAreClosed
<1>8. CloseIsComplete'
  BY DEF NothingLost, CloseIsComplete, LocksAreHeld, UnusedAreClosed, RefreshIsCurrent,
     Leftovers, PlacesAreOwn, RequestPlaces, AdminPlaces, CloserPlaces
<1>9. NothingLost'
  BY DEF NothingLost, UnusedAreClosed, CloseIsComplete, LocksAreHeld, PlacesAreOwn,
     RequestPlaces, AdminPlaces, CloserPlaces
<1> QED
  BY <1>1, <1>2, <1>3, <1>4, <1>5, <1>6, <1>7, <1>8, <1>9 DEF RuntimeInvariant

LEMMA CloseDrainedKeeps ==
  ASSUME RuntimeInvariant, NEW c \in Admins \cup Closers, CloseDrained(c)
  PROVE  RuntimeInvariant'
<1> USE GenerationsAssumption DEF RuntimeInvariant, Callers, TypeOK, CloseDrained, Drained, Go,
   runtimes, cleaning, locks, flags, callers
<1> USE RuntimeFacts
<1>1. TypeOK'
  BY DEF Interruptible
<1>2. PlacesAreOwn'
  BY DEF PlacesAreOwn, RequestPlaces, AdminPlaces, CloserPlaces
<1>3. LocksAreHeld'
  BY DEF LocksAreHeld, PlacesAreOwn, RequestPlaces, AdminPlaces, CloserPlaces
<1>4. RefreshIsCurrent'
  BY DEF RefreshIsCurrent, LocksAreHeld, PlacesAreOwn, RequestPlaces, AdminPlaces, CloserPlaces
<1>5. CurrentIsOpen'
  BY DEF CurrentIsOpen, LocksAreHeld, UnusedAreClosed, RefreshIsCurrent, PlacesAreOwn,
     RequestPlaces, AdminPlaces, CloserPlaces
<1>6. LeasesAreCounted'
  BY LeasesStay DEF Holders, Refresher, RefreshIsCurrent, Interruptible, PlacesAreOwn,
     RequestPlaces, AdminPlaces, CloserPlaces
<1>7. UnusedAreClosed'
  BY DEF UnusedAreClosed, LocksAreHeld, CurrentIsOpen, Leftovers, RefreshIsCurrent,
     PlacesAreOwn, RequestPlaces, AdminPlaces, CloserPlaces
<1>8. CloseIsComplete'
  BY DEF CloseIsComplete, LocksAreHeld, UnusedAreClosed, RefreshIsCurrent, Leftovers,
     PlacesAreOwn, RequestPlaces, AdminPlaces, CloserPlaces
<1>9. NothingLost'
  BY DEF NothingLost, UnusedAreClosed, CloseIsComplete, LocksAreHeld, PlacesAreOwn,
     RequestPlaces, AdminPlaces, CloserPlaces
<1> QED
  BY <1>1, <1>2, <1>3, <1>4, <1>5, <1>6, <1>7, <1>8, <1>9 DEF RuntimeInvariant

LEMMA CloseRetriesKeeps ==
  ASSUME RuntimeInvariant, NEW c \in Admins \cup Closers, CloseRetries(c)
  PROVE  RuntimeInvariant'
<1> USE GenerationsAssumption DEF RuntimeInvariant, Callers, TypeOK, CloseRetries, Go,
   runtimes, cleaning, locks, flags, callers
<1> USE RuntimeFacts
<1>1. TypeOK'
  BY DEF Interruptible
<1>2. PlacesAreOwn'
  BY DEF PlacesAreOwn, RequestPlaces, AdminPlaces, CloserPlaces
<1>3. LocksAreHeld'
  BY DEF LocksAreHeld, PlacesAreOwn, RequestPlaces, AdminPlaces, CloserPlaces
<1>4. RefreshIsCurrent'
  BY DEF RefreshIsCurrent, LocksAreHeld, PlacesAreOwn, RequestPlaces, AdminPlaces, CloserPlaces
<1>5. CurrentIsOpen'
  BY DEF CurrentIsOpen, LocksAreHeld, UnusedAreClosed, RefreshIsCurrent, PlacesAreOwn,
     RequestPlaces, AdminPlaces, CloserPlaces
<1>6. LeasesAreCounted'
  BY LeasesStay DEF Holders, Refresher, RefreshIsCurrent, Interruptible, PlacesAreOwn,
     RequestPlaces, AdminPlaces, CloserPlaces
<1>7. UnusedAreClosed'
  BY DEF UnusedAreClosed, LocksAreHeld, CurrentIsOpen, Leftovers, RefreshIsCurrent,
     PlacesAreOwn, RequestPlaces, AdminPlaces, CloserPlaces
<1>8. CloseIsComplete'
  BY DEF CloseIsComplete, LocksAreHeld, UnusedAreClosed, RefreshIsCurrent, Leftovers,
     PlacesAreOwn, RequestPlaces, AdminPlaces, CloserPlaces
<1>9. NothingLost'
  BY DEF NothingLost, UnusedAreClosed, CloseIsComplete, LocksAreHeld, PlacesAreOwn,
     RequestPlaces, AdminPlaces, CloserPlaces
<1> QED
  BY <1>1, <1>2, <1>3, <1>4, <1>5, <1>6, <1>7, <1>8, <1>9 DEF RuntimeInvariant

LEMMA CloseEndsKeeps ==
  ASSUME RuntimeInvariant, NEW c \in Admins \cup Closers, CloseEnds(c)
  PROVE  RuntimeInvariant'
<1> USE GenerationsAssumption DEF RuntimeInvariant, Callers, TypeOK, CloseEnds, AllClosed, Go,
   runtimes, cleaning, locks, flags, callers
<1> USE RuntimeFacts
<1>1. TypeOK'
  BY DEF Interruptible
<1>2. PlacesAreOwn'
  BY DEF PlacesAreOwn, RequestPlaces, AdminPlaces, CloserPlaces
<1>3. LocksAreHeld'
  BY DEF LocksAreHeld, PlacesAreOwn, RequestPlaces, AdminPlaces, CloserPlaces
<1>4. RefreshIsCurrent'
  BY DEF RefreshIsCurrent, LocksAreHeld, PlacesAreOwn, RequestPlaces, AdminPlaces, CloserPlaces
<1>5. CurrentIsOpen'
  BY DEF CurrentIsOpen, LocksAreHeld, UnusedAreClosed, RefreshIsCurrent, PlacesAreOwn,
     RequestPlaces, AdminPlaces, CloserPlaces
<1>6. LeasesAreCounted'
  BY LeasesStay DEF Holders, Refresher, RefreshIsCurrent, Interruptible, PlacesAreOwn,
     RequestPlaces, AdminPlaces, CloserPlaces
<1>7. UnusedAreClosed'
  BY DEF UnusedAreClosed, LocksAreHeld, CurrentIsOpen, Leftovers, RefreshIsCurrent,
     PlacesAreOwn, RequestPlaces, AdminPlaces, CloserPlaces
<1>8. CloseIsComplete'
  BY DEF CloseIsComplete, LocksAreHeld, UnusedAreClosed, RefreshIsCurrent, Leftovers,
     PlacesAreOwn, RequestPlaces, AdminPlaces, CloserPlaces
<1>9. NothingLost'
  BY UnbuiltAreUnused DEF NothingLost, UnusedAreClosed, CloseIsComplete, LocksAreHeld,
     PlacesAreOwn, RequestPlaces, AdminPlaces, CloserPlaces, Leftovers
<1> QED
  BY <1>1, <1>2, <1>3, <1>4, <1>5, <1>6, <1>7, <1>8, <1>9 DEF RuntimeInvariant

LEMMA CancelKeeps ==
  ASSUME RuntimeInvariant, NEW c \in Callers, Cancel(c)
  PROVE  RuntimeInvariant'
<1> USE GenerationsAssumption DEF RuntimeInvariant, Callers, TypeOK, Cancel, Interruptible,
   AwaitingRefresh, RefreshIsOver, Go, runtimes, cleaning, locks, flags, callers
<1> USE RuntimeFacts
<1>1. TypeOK'
  BY DEF Interruptible
<1>2. PlacesAreOwn'
  BY DEF PlacesAreOwn, RequestPlaces, AdminPlaces, CloserPlaces
<1>3. LocksAreHeld'
  BY DEF LocksAreHeld, PlacesAreOwn, RequestPlaces, AdminPlaces, CloserPlaces
<1>4. RefreshIsCurrent'
  BY DEF RefreshIsCurrent, LocksAreHeld, PlacesAreOwn, RequestPlaces, AdminPlaces, CloserPlaces
<1>5. CurrentIsOpen'
  BY DEF CurrentIsOpen, LocksAreHeld, UnusedAreClosed, RefreshIsCurrent, PlacesAreOwn,
     RequestPlaces, AdminPlaces, CloserPlaces
<1>6. LeasesAreCounted'
  BY LeasesStay DEF Holders, Refresher, RefreshIsCurrent, Interruptible, PlacesAreOwn,
     RequestPlaces, AdminPlaces, CloserPlaces
<1>7. UnusedAreClosed'
  BY DEF UnusedAreClosed, LocksAreHeld, CurrentIsOpen, Leftovers, RefreshIsCurrent,
     PlacesAreOwn, RequestPlaces, AdminPlaces, CloserPlaces
<1>8. CloseIsComplete'
  BY DEF CloseIsComplete, LocksAreHeld, UnusedAreClosed, RefreshIsCurrent, Leftovers,
     PlacesAreOwn, RequestPlaces, AdminPlaces, CloserPlaces
<1>9. NothingLost'
  BY DEF NothingLost, UnusedAreClosed, CloseIsComplete, LocksAreHeld, PlacesAreOwn,
     RequestPlaces, AdminPlaces, CloserPlaces
<1> QED
  BY <1>1, <1>2, <1>3, <1>4, <1>5, <1>6, <1>7, <1>8, <1>9 DEF RuntimeInvariant

-----------------------------------------------------------------------------
\* The startup.
LEMMA RuntimesBegin ==
  ASSUME Init
  PROVE  RuntimeInvariant
<1> USE GenerationsAssumption DEF Init, Callers
<1>0. 1 \in Runtimes /\ 1..1 = {1}
  BY DEF Runtimes
<1>1. TypeOK
  <2>1. built \in Runtimes /\ current \in 1..built /\ refresh \in 0..built
    BY <1>0
  <2>2. using \in [Callers -> 0..built] /\ todo \in [Callers -> SUBSET (1..built)]
    BY <1>0
  <2>3. failures \in 0..MaxFailures /\ leases \in [Runtimes -> Nat]
    OBVIOUS
  <2> QED
    BY <2>1, <2>2, <2>3 DEF TypeOK, Interruptible
<1>2. PlacesAreOwn
  BY DEF PlacesAreOwn, RequestPlaces, AdminPlaces, CloserPlaces
<1>3. LocksAreHeld
  BY DEF LocksAreHeld
<1>4. RefreshIsCurrent
  BY <1>0 DEF RefreshIsCurrent, Runtimes
<1>5. CurrentIsOpen
  BY DEF CurrentIsOpen
<1>6. LeasesAreCounted
  <2>1. \A r \in Runtimes : Holders(r) = {} /\ Refresher(r) = 0 /\ leases[r] = 0
    BY DEF Holders, Refresher
  <2> QED
    BY <2>1, FS_EmptySet DEF LeasesAreCounted
<1>7. UnusedAreClosed
  BY DEF UnusedAreClosed, Leftovers
<1>8. CloseIsComplete
  BY DEF CloseIsComplete
<1>9. NothingLost
  BY <1>0 DEF NothingLost
<1> QED
  BY <1>1, <1>2, <1>3, <1>4, <1>5, <1>6, <1>7, <1>8, <1>9 DEF RuntimeInvariant

LEMMA RuntimesIdle ==
  ASSUME RuntimeInvariant, UNCHANGED vars
  PROVE  RuntimeInvariant'
<1> USE DEF RuntimeInvariant, vars, runtimes, cleaning, locks, flags, callers
<1>1. TypeOK' /\ PlacesAreOwn' /\ LocksAreHeld' /\ NothingLost'
  BY DEF TypeOK, PlacesAreOwn, LocksAreHeld, NothingLost
<1>2. RefreshIsCurrent' /\ CurrentIsOpen' /\ CloseIsComplete'
  BY DEF RefreshIsCurrent, CurrentIsOpen, CloseIsComplete
<1>3. LeasesAreCounted'
  BY LeasesStay DEF Holders, Refresher
<1>4. UnusedAreClosed'
  BY DEF UnusedAreClosed, Leftovers
<1> QED
  BY <1>1, <1>2, <1>3, <1>4

\* Every step of a request, an Admin call, a close, a refresh or a cleanup keeps
\* the invariant.
LEMMA RuntimeStepKeeps ==
  ASSUME RuntimeInvariant, [Next]_vars
  PROVE  RuntimeInvariant'
<1>1. CASE \E q \in Requests : Request(q)
  BY <1>1, AcquireKeeps, RefusalKeeps, ReleaseKeeps DEF Request
<1>2. CASE \E a \in Admins : AdminRefused(a) \/ AdminBegins(a) \/ ConnectBegins(a)
  BY <1>2, AdminRefusedKeeps, AdminBeginsKeeps, ConnectKeeps
<1>3. CASE \E c \in Closers : CloseBegins(c)
  BY <1>3, CloseBeginsKeeps
<1>4. ASSUME NEW c \in Admins \cup Closers, Proceed(c)
      PROVE  RuntimeInvariant'
  <2>1. CASE ReplaceRetries(c) \/ ReplaceFails(c) \/ CommitFails(c) \/ Publish(c)
    BY <2>1, ReplaceRetriesKeeps, ReplaceFailsKeeps, CommitFailsKeeps, PublishKeeps
  <2>2. CASE FullRefreshBegins(c) \/ FullRefreshEnds(c) \/ AdminEnds(c)
    BY <2>2, FullRefreshBeginsKeeps, FullRefreshEndsKeeps, AdminEndsKeeps
  <2>3. CASE CloseEnters(c) \/ CloseRetires(c) \/ CloseDrained(c)
    BY <2>3, CloseEntersKeeps, CloseRetiresKeeps, CloseDrainedKeeps
  <2>4. CASE CloseRetries(c) \/ CloseEnds(c)
    BY <2>4, CloseRetriesKeeps, CloseEndsKeeps
  <2>5. CASE \E r \in Runtimes, ok \in BOOLEAN : UnpublishedCleaned(c, r, ok)
    BY <2>5, UnpublishedKeeps
  <2> QED
    BY <1>4, <2>1, <2>2, <2>3, <2>4, <2>5 DEF Proceed
<1>5. CASE \E c \in Callers : Cancel(c)
  BY <1>5, CancelKeeps
<1>6. CASE \E r \in Runtimes : Discovery(r)
  BY <1>6, RefreshStartKeeps, RefreshEndKeeps DEF Discovery
<1>7. CASE \E r \in Runtimes, ok \in BOOLEAN : CleanupEnds(r, ok)
  BY <1>7, CleanupKeeps
<1>8. CASE Finished \/ UNCHANGED vars
  BY <1>8, RuntimesIdle DEF Finished
<1> QED
  BY <1>1, <1>2, <1>3, <1>4, <1>5, <1>6, <1>7, <1>8 DEF Next

\* Whoever uses a runtime without a lease uses the current one, which is open.
LEMMA UsersAreSafe ==
  ASSUME RuntimeInvariant
  PROVE  NoUseDuringCleanup
<1> SUFFICES ASSUME NEW r \in Runtimes, leases[r] > 0 \/ Connecting(r) # {}
             PROVE  r \notin cleanup \cup closed
  BY DEF NoUseDuringCleanup
<1> USE DEF RuntimeInvariant
<1>1. CASE leases[r] > 0
  BY <1>1 DEF UnusedAreClosed
<1>2. CASE Connecting(r) # {}
  BY <1>2 DEF Connecting, CurrentIsOpen, LocksAreHeld
<1> QED
  BY <1>1, <1>2

LEMMA RuntimesStayInvariant == Spec => []RuntimeInvariant
<1>1. Init => RuntimeInvariant
  BY RuntimesBegin
<1>2. RuntimeInvariant /\ [Next]_vars => RuntimeInvariant'
  BY RuntimeStepKeeps
<1> QED
  BY <1>1, <1>2, PTL DEF Spec

\* Whoever uses a runtime, through a lease, a refresh or an account's discovery, it
\* is neither being cleaned up nor closed; and whatever fails or is cancelled, a
\* runtime that was constructed is closed or still owned by the manager, which is
\* not terminal before all are closed.
THEOREM RuntimesStaySafe == Spec => []RuntimesAreSafe
<1>1. RuntimeInvariant => RuntimesAreSafe
  BY UsersAreSafe DEF RuntimeInvariant, RuntimesAreSafe
<1> QED
  BY <1>1, RuntimesStayInvariant, PTL

-----------------------------------------------------------------------------
(* The life of a runtime.                                                   *)

LEMMA ConnectingIsFinite ==
  ASSUME RuntimeInvariant, NEW r \in Runtimes
  PROVE  IsFiniteSet(Connecting(r)) /\ Cardinality(Connecting(r)) \in Nat
<1>1. Connecting(r) \subseteq {replaceLock}
  BY DEF RuntimeInvariant, LocksAreHeld, Connecting
<1> QED
  BY <1>1, FS_Singleton, FS_Subset, FS_CardinalityType

\* The stages depend on what was constructed, published, retired and closed only.
LEMMA StagesStay ==
  ASSUME built' = built, closed' = closed, current' = current, retired' = retired
  PROVE  RuntimeStages' = RuntimeStages
BY DEF RuntimeStages

LEMMA CountsStay ==
  ASSUME leases' = leases, \A r \in Runtimes : Connecting(r)' = Connecting(r)
  PROVE  RuntimeUsers' = RuntimeUsers
BY DEF RuntimeUsers

\* The current runtime is live until the shutdown.
LEMMA CurrentIsLive ==
  ASSUME RuntimeInvariant, ~closing
  PROVE  RuntimeStages[current] = "live"
<1>1. ~(current > built)
  BY RuntimeFacts DEF RuntimeInvariant, TypeOK
<1> QED
  BY <1>1, RuntimeFacts DEF RuntimeInvariant, CurrentIsOpen, RuntimeStages

\* A used runtime is not closed.
LEMMA UsedAreOpen ==
  ASSUME RuntimeInvariant, NEW r \in 1..built, leases[r] > 0 \/ Connecting(r) # {}
  PROVE  RuntimeStages[r] \in {"live", "retired"} /\ RuntimeUsers[r] > 0
<1>1. r \in Runtimes /\ ~(r > built)
  BY RuntimeFacts
<1>2. r \notin closed
  BY <1>1, UsersAreSafe DEF NoUseDuringCleanup
<1>3. leases[r] \in Nat
  BY <1>1 DEF RuntimeInvariant, TypeOK
<1>4. Connecting(r) # {} => Cardinality(Connecting(r)) > 0
  BY <1>1, ConnectingIsFinite, FS_EmptySet
<1>5. Cardinality(Connecting(r)) \in Nat
  BY <1>1, ConnectingIsFinite
<1> QED
  BY <1>1, <1>2, <1>3, <1>4, <1>5 DEF RuntimeStages, RuntimeUsers

LEMMA CountsRise ==
  ASSUME RuntimeInvariant, NEW r \in Runtimes,
         leases' = [leases EXCEPT ![r] = @ + 1],
         \A x \in Runtimes : Connecting(x)' = Connecting(x)
  PROVE  RuntimeUsers' = [RuntimeUsers EXCEPT ![r] = @ + 1]
<1>1. leases \in [Runtimes -> Nat] /\ \A x \in Runtimes : Cardinality(Connecting(x)) \in Nat
  BY ConnectingIsFinite DEF RuntimeInvariant, TypeOK
<1>2. ASSUME NEW x \in Runtimes
      PROVE  leases'[x] + Cardinality(Connecting(x)') = [RuntimeUsers EXCEPT ![r] = @ + 1][x]
  <2>1. CASE x = r
    BY <1>1, <2>1 DEF RuntimeUsers
  <2>2. CASE x # r
    BY <1>1, <2>2 DEF RuntimeUsers
  <2> QED
    BY <2>1, <2>2
<1> QED
  BY <1>2 DEF RuntimeUsers

LEMMA CountsFall ==
  ASSUME RuntimeInvariant, NEW r \in Runtimes,
         leases' = [leases EXCEPT ![r] = @ - 1],
         \A x \in Runtimes : Connecting(x)' = Connecting(x)
  PROVE  RuntimeUsers' = [RuntimeUsers EXCEPT ![r] = @ - 1]
<1>1. leases \in [Runtimes -> Nat] /\ \A x \in Runtimes : Cardinality(Connecting(x)) \in Nat
  BY ConnectingIsFinite DEF RuntimeInvariant, TypeOK
<1>2. ASSUME NEW x \in Runtimes
      PROVE  leases'[x] + Cardinality(Connecting(x)') = [RuntimeUsers EXCEPT ![r] = @ - 1][x]
  <2>1. CASE x = r
    BY <1>1, <2>1 DEF RuntimeUsers
  <2>2. CASE x # r
    BY <1>1, <2>2 DEF RuntimeUsers
  <2> QED
    BY <2>1, <2>2
<1> QED
  BY <1>2 DEF RuntimeUsers

\* An account's discovery uses the current runtime without a lease.
LEMMA ConnectingRises ==
  ASSUME RuntimeInvariant, NEW a \in Admins, NEW u \in Runtimes, leases' = leases,
         a \notin Connecting(u), Connecting(u)' = Connecting(u) \cup {a},
         \A x \in Runtimes \ {u} : Connecting(x)' = Connecting(x)
  PROVE  RuntimeUsers' = [RuntimeUsers EXCEPT ![u] = @ + 1]
<1>1. leases \in [Runtimes -> Nat] /\ \A x \in Runtimes : Cardinality(Connecting(x)) \in Nat
  BY ConnectingIsFinite DEF RuntimeInvariant, TypeOK
<1>2. \A x \in Runtimes : x = u => Cardinality(Connecting(x)') = Cardinality(Connecting(x)) + 1
  BY ConnectingIsFinite, FS_AddElement
<1>3. ASSUME NEW x \in Runtimes
      PROVE  leases'[x] + Cardinality(Connecting(x)') = [RuntimeUsers EXCEPT ![u] = @ + 1][x]
  <2>1. CASE x = u
    <3>1. Cardinality(Connecting(x)') = Cardinality(Connecting(x)) + 1
      BY <1>2, <2>1
    <3> QED
      BY <1>1, <2>1, <3>1 DEF RuntimeUsers
  <2>2. CASE x # u
    <3>1. Connecting(x)' = Connecting(x)
      BY <2>2
    <3> QED
      BY <1>1, <2>2, <3>1 DEF RuntimeUsers
  <2> QED
    BY <2>1, <2>2
<1> QED
  BY <1>3 DEF RuntimeUsers

LEMMA ConnectingFalls ==
  ASSUME RuntimeInvariant, NEW a \in Admins, NEW u \in Runtimes, leases' = leases,
         a \in Connecting(u), Connecting(u)' = Connecting(u) \ {a},
         \A x \in Runtimes \ {u} : Connecting(x)' = Connecting(x)
  PROVE  RuntimeUsers' = [RuntimeUsers EXCEPT ![u] = @ - 1]
<1>1. leases \in [Runtimes -> Nat] /\ \A x \in Runtimes : Cardinality(Connecting(x)) \in Nat
  BY ConnectingIsFinite DEF RuntimeInvariant, TypeOK
<1>2. \A x \in Runtimes : x = u => Cardinality(Connecting(x)') = Cardinality(Connecting(x)) - 1
  BY ConnectingIsFinite, FS_RemoveElement
<1>3. ASSUME NEW x \in Runtimes
      PROVE  leases'[x] + Cardinality(Connecting(x)') = [RuntimeUsers EXCEPT ![u] = @ - 1][x]
  <2>1. CASE x = u
    <3>1. Cardinality(Connecting(x)') = Cardinality(Connecting(x)) - 1
      BY <1>2, <2>1
    <3> QED
      BY <1>1, <2>1, <3>1 DEF RuntimeUsers
  <2>2. CASE x # u
    <3>1. Connecting(x)' = Connecting(x)
      BY <2>2
    <3> QED
      BY <1>1, <2>2, <3>1 DEF RuntimeUsers
  <2> QED
    BY <2>1, <2>2
<1> QED
  BY <1>3 DEF RuntimeUsers

\* The step a runtime takes when it is borrowed, given back or closed.
LEMMA Borrowed ==
  ASSUME NEW r \in Runtimes, RuntimeStages[r] = "live", RuntimeStages' = RuntimeStages,
         RuntimeUsers' = [RuntimeUsers EXCEPT ![r] = @ + 1]
  PROVE  Lifecycle!Next
BY DEF Lifecycle!Next, Lifecycle!Borrow

LEMMA GivenBack ==
  ASSUME NEW r \in Runtimes, RuntimeStages[r] \in {"live", "retired"}, RuntimeUsers[r] > 0,
         RuntimeStages' = RuntimeStages, RuntimeUsers' = [RuntimeUsers EXCEPT ![r] = @ - 1]
  PROVE  Lifecycle!Next
BY DEF Lifecycle!Next, Lifecycle!GiveBack

LEMMA Closed ==
  ASSUME RuntimeInvariant, NEW r \in 1..built, r # current \/ r \in retired, r \notin closed,
         leases[r] = 0, Connecting(r) = {}, closed' = closed \cup {r},
         built' = built, current' = current, retired' = retired, RuntimeUsers' = RuntimeUsers
  PROVE  Lifecycle!Next
<1>1. r \in Runtimes /\ ~(r > built)
  BY RuntimeFacts
<1>2. RuntimeStages[r] = "retired"
  BY <1>1 DEF RuntimeStages
<1>3. RuntimeStages' = [RuntimeStages EXCEPT ![r] = "closed"]
  BY <1>1 DEF RuntimeStages
<1>4. RuntimeUsers[r] = 0
  BY <1>1, FS_EmptySet DEF RuntimeUsers
<1> QED
  BY <1>1, <1>2, <1>3, <1>4 DEF Lifecycle!Next, Lifecycle!Close

LEMMA LifeStays ==
  ASSUME RuntimeStages' = RuntimeStages, RuntimeUsers' = RuntimeUsers
  PROVE  UNCHANGED Lifecycle!vars
BY DEF Lifecycle!vars

-----------------------------------------------------------------------------
(* Every step is one of the life of a runtime, or does not show.            *)

\* Steps of callers that neither use, publish, retire nor close a runtime.
LEMMA UnseenSteps ==
  ASSUME RuntimeInvariant,
         \/ \E q \in Requests : AcquireRefused(q)
         \/ \E a \in Admins : AdminRefused(a) \/ AdminBegins(a)
         \/ \E c \in Closers : CloseBegins(c)
         \/ \E c \in Admins \cup Closers :
              ReplaceRetries(c) \/ ReplaceFails(c) \/ CloseEnters(c) \/ CloseDrained(c)
              \/ CloseRetries(c) \/ CloseEnds(c)
         \/ Finished \/ UNCHANGED vars
  PROVE  UNCHANGED Lifecycle!vars
<1> USE DEF runtimes, cleaning, locks, flags, callers, vars
<1>1. RuntimeStages' = RuntimeStages
  BY StagesStay DEF AcquireRefused, AdminRefused, AdminBegins, CloseBegins, ReplaceRetries,
     ReplaceFails,
     CloseEnters, CloseDrained, CloseRetries, CloseEnds, Finished
<1>2. leases' = leases
  BY DEF AcquireRefused, AdminRefused, AdminBegins, CloseBegins, ReplaceRetries, ReplaceFails,
     CloseEnters, CloseDrained, CloseRetries, CloseEnds, Finished
<1>3. \A r \in Runtimes : Connecting(r)' = Connecting(r)
  <2> USE GenerationsAssumption DEF RuntimeInvariant, TypeOK, Callers, Connecting, Go
  <2>1. CASE \/ \E q \in Requests : AcquireRefused(q)
             \/ \E a \in Admins : AdminRefused(a) \/ AdminBegins(a)
    BY <2>1 DEF AcquireRefused, AdminRefused, AdminBegins
  <2>2. CASE \E c \in Closers : CloseBegins(c)
    BY <2>2 DEF CloseBegins
  <2>3. CASE \E c \in Admins \cup Closers : ReplaceRetries(c) \/ ReplaceFails(c) \/ CloseEnters(c)
    BY <2>3 DEF ReplaceRetries, ReplaceFails, CloseEnters, PlacesAreOwn, AdminPlaces
  <2>4. CASE \E c \in Admins \cup Closers : CloseDrained(c) \/ CloseRetries(c) \/ CloseEnds(c)
    BY <2>4 DEF CloseDrained, CloseRetries, CloseEnds
  <2>5. CASE Finished \/ UNCHANGED vars
    BY <2>5 DEF Finished
  <2> QED
    BY <2>1, <2>2, <2>3, <2>4, <2>5
<1> QED
  BY <1>1, <1>2, <1>3, CountsStay, LifeStays

\* A request, a refresh or an Admin call takes a lease of the current runtime.
LEMMA LeasesAreBorrowed ==
  ASSUME RuntimeInvariant,
         \/ \E q \in Requests : Acquire(q)
         \/ \E c \in Admins \cup Closers : FullRefreshBegins(c)
         \/ \E r \in Runtimes : RefreshStarts(r) /\ r \notin closed
  PROVE  Lifecycle!Next
<1> USE DEF runtimes, cleaning, locks, flags, callers
<1>1. ~closing /\ leases' = [leases EXCEPT ![current] = @ + 1]
  BY GenerationsAssumption DEF RuntimeInvariant, LocksAreHeld, RefreshIsCurrent, PlacesAreOwn,
     CloserPlaces, Acquire, FullRefreshBegins, RefreshStarts, Runtimes
<1>2. RuntimeStages' = RuntimeStages
  BY StagesStay DEF Acquire, FullRefreshBegins, RefreshStarts
<1>3. \A r \in Runtimes : Connecting(r)' = Connecting(r)
  BY GenerationsAssumption DEF RuntimeInvariant, TypeOK, Callers, Connecting, Go, Acquire,
     FullRefreshBegins, RefreshStarts
<1> QED
  BY <1>1, <1>2, <1>3, CurrentIsLive, CountsRise, RuntimeFacts, Borrowed

\* They give it back as they end.
LEMMA LeasesAreGivenBack ==
  ASSUME RuntimeInvariant,
         \/ \E q \in Requests : ReleaseLease(q)
         \/ \E c \in Admins \cup Closers : FullRefreshEnds(c)
         \/ \E r \in Runtimes : RefreshEnds(r)
  PROVE  Lifecycle!Next
<1> USE DEF runtimes, cleaning, locks, flags, callers
<1>1. PICK r \in 1..built : leases[r] > 0 /\ leases' = [leases EXCEPT ![r] = @ - 1]
  <2> USE DEF RuntimeInvariant, Release
  <2>1. CASE \E q \in Requests : ReleaseLease(q)
    <3>1. PICK q \in Requests : ReleaseLease(q)
      BY <2>1
    <3>2. using[q] \in 1..built /\ using[q] \in Runtimes /\ q \in Holders(using[q])
      BY <3>1, RuntimeFacts DEF TypeOK, PlacesAreOwn, Callers, Holders, ReleaseLease
    <3> QED
      BY <3>1, <3>2, UsersAreCounted DEF ReleaseLease
  <2>2. CASE \E c \in Admins \cup Closers : FullRefreshEnds(c)
    <3>1. PICK c \in Admins \cup Closers : FullRefreshEnds(c)
      BY <2>2
    <3>2. using[c] \in 1..built /\ using[c] \in Runtimes /\ c \in Holders(using[c])
      BY <3>1, RuntimeFacts DEF TypeOK, PlacesAreOwn, Callers, Holders, FullRefreshEnds
    <3> QED
      BY <3>1, <3>2, UsersAreCounted DEF FullRefreshEnds
  <2>3. CASE \E r \in Runtimes : RefreshEnds(r)
    <3>1. PICK r \in Runtimes : RefreshEnds(r)
      BY <2>3
    <3>2. r \in 1..built
      <4>1. r <= built /\ r \in Nat /\ r # 0
        BY <3>1, RuntimeFacts DEF RefreshIsCurrent, RefreshEnds
      <4> QED
        BY <4>1, RuntimeFacts
    <3> QED
      BY <3>1, <3>2, UsersAreCounted DEF RefreshEnds
  <2> QED
    BY <2>1, <2>2, <2>3
<1>2. RuntimeStages' = RuntimeStages
  BY StagesStay DEF ReleaseLease, FullRefreshEnds, RefreshEnds
<1>3. \A x \in Runtimes : Connecting(x)' = Connecting(x)
  <2> USE GenerationsAssumption DEF RuntimeInvariant, TypeOK, Callers, Connecting, Go
  <2>1. CASE \E q \in Requests : ReleaseLease(q)
    BY <2>1 DEF ReleaseLease
  <2>2. CASE \E c \in Admins \cup Closers : FullRefreshEnds(c)
    BY <2>2 DEF FullRefreshEnds
  <2>3. CASE \E x \in Runtimes : RefreshEnds(x)
    BY <2>3 DEF RefreshEnds
  <2> QED
    BY <2>1, <2>2, <2>3
<1>4. r \in Runtimes
  BY RuntimeFacts
<1> QED
  BY <1>1, <1>2, <1>3, <1>4, UsedAreOpen, CountsFall, GivenBack

\* The discovery for an account borrows the current runtime, and gives it back.
LEMMA DiscoveryBorrows ==
  ASSUME RuntimeInvariant, NEW a \in Admins, ConnectBegins(a)
  PROVE  Lifecycle!Next
<1> USE GenerationsAssumption DEF RuntimeInvariant, TypeOK, Callers, Connecting, Go,
   ConnectBegins,
        runtimes, cleaning, flags, locks
<1>1. a \notin Connecting(current) /\ Connecting(current)' = Connecting(current) \cup {a}
  OBVIOUS
<1>2. \A x \in Runtimes \ {current} : Connecting(x)' = Connecting(x)
  OBVIOUS
<1>3. RuntimeUsers' = [RuntimeUsers EXCEPT ![current] = @ + 1]
  BY <1>1, <1>2, RuntimeFacts, ConnectingRises
<1>4. RuntimeStages' = RuntimeStages
  BY StagesStay
<1> QED
  BY <1>3, <1>4, RuntimeFacts, CurrentIsLive, Borrowed

LEMMA DiscoveryGivesBack ==
  ASSUME RuntimeInvariant, NEW a \in Admins, pc[a] = "connecting", pc' = [pc EXCEPT ![a] = "done"],
         using' = using, leases' = leases, RuntimeStages' = RuntimeStages, current' = current
  PROVE  Lifecycle!Next
<1> USE GenerationsAssumption DEF RuntimeInvariant, TypeOK, Callers, Connecting, CurrentIsOpen
<1>1. a \in Connecting(current) /\ Connecting(current)' = Connecting(current) \ {a}
  OBVIOUS
<1>2. \A x \in Runtimes \ {current} : Connecting(x)' = Connecting(x)
  OBVIOUS
<1>3. RuntimeUsers' = [RuntimeUsers EXCEPT ![current] = @ - 1]
  BY <1>1, <1>2, RuntimeFacts, ConnectingFalls
<1> QED
  BY <1>1, <1>3, RuntimeFacts, UsedAreOpen, GivenBack

LEMMA EndsAndCancellations ==
  ASSUME RuntimeInvariant,
         (\E c \in Admins \cup Closers : AdminEnds(c)) \/ \E c \in Callers : Cancel(c)
  PROVE  Lifecycle!Next \/ UNCHANGED Lifecycle!vars
<1> USE DEF runtimes, cleaning, locks, flags, callers, AdminEnds, Cancel, Go
<1>1. RuntimeStages' = RuntimeStages /\ leases' = leases /\ using' = using /\ current' = current
  BY StagesStay
<1>2. PICK c \in Callers : pc' = [pc EXCEPT ![c] = "done"]
  BY DEF Callers
<1>3. CASE c \in Admins /\ pc[c] = "connecting"
  BY <1>1, <1>2, <1>3, DiscoveryGivesBack
<1>4. CASE ~(c \in Admins /\ pc[c] = "connecting")
  <2>1. \A x \in Runtimes : Connecting(x)' = Connecting(x)
    BY <1>1, <1>2, <1>4 DEF RuntimeInvariant, TypeOK, Connecting, Callers
  <2> QED
    BY <1>1, <2>1, CountsStay, LifeStays
<1> QED
  BY <1>3, <1>4

\* Cleanups close what nobody uses.
LEMMA CleanupsClose ==
  ASSUME RuntimeInvariant, NEW r \in Runtimes, NEW ok \in BOOLEAN,
         CleanupEnds(r, ok) \/ \E c \in Admins \cup Closers : UnpublishedCleaned(c, r, ok)
  PROVE  Lifecycle!Next \/ UNCHANGED Lifecycle!vars
<1> USE DEF runtimes, cleaning, locks, flags, callers
<1>1. built' = built /\ current' = current /\ retired' = retired /\ leases' = leases
  BY DEF CleanupEnds, UnpublishedCleaned
<1>2. closed' \in {closed, closed \cup {r}}
  BY DEF CleanupEnds, UnpublishedCleaned
<1>3. r \in 1..built /\ leases[r] = 0 /\ (r # current \/ r \in retired)
  <2>1. CASE CleanupEnds(r, ok)
    BY <2>1 DEF CleanupEnds, RuntimeInvariant, TypeOK, UnusedAreClosed
  <2>2. CASE \E c \in Admins \cup Closers : UnpublishedCleaned(c, r, ok)
    BY <2>2 DEF UnpublishedCleaned, RuntimeInvariant, TypeOK, UnusedAreClosed, Leftovers, Callers
  <2> QED
    BY <2>1, <2>2
<1>4. Connecting(r) = {}
  BY <1>3 DEF RuntimeInvariant, Connecting, CurrentIsOpen, LocksAreHeld
<1>5. \A x \in Runtimes : Connecting(x)' = Connecting(x)
  <2>1. CASE CleanupEnds(r, ok)
    BY <2>1, GenerationsAssumption DEF CleanupEnds, RuntimeInvariant, TypeOK, Connecting, Callers
  <2>2. CASE \E c \in Admins \cup Closers : UnpublishedCleaned(c, r, ok)
    BY <2>2 DEF UnpublishedCleaned, Connecting
  <2> QED
    BY <2>1, <2>2
<1>6. RuntimeUsers' = RuntimeUsers
  BY <1>1, <1>5, CountsStay
<1>7. CASE closed' = closed
  BY <1>1, <1>6, <1>7, StagesStay, LifeStays
<1>8. CASE closed' = closed \cup {r} /\ r \notin closed
  BY <1>1, <1>3, <1>4, <1>6, <1>8, Closed
<1> QED
  BY <1>2, <1>7, <1>8

\* A candidate is published in the place of the current runtime, or never.
LEMMA CandidatesShow ==
  ASSUME RuntimeInvariant, NEW c \in Admins \cup Closers, CommitFails(c) \/ Publish(c)
  PROVE  Lifecycle!Next
<1> USE DEF runtimes, cleaning, locks, flags, callers
<1>1. built < MaxRuntimes /\ built' = Candidate /\ closed' = closed /\ leases' = leases
  BY DEF CommitFails, Publish
<1>2. /\ Candidate \in Runtimes /\ Candidate \notin 1..built /\ Candidate # current
      /\ ~(Candidate <= built) /\ Candidate \notin closed /\ Candidate \notin retired
  BY <1>1, CandidateFacts, RuntimeFacts DEF RuntimeInvariant, TypeOK, Candidate
<1>3. ~closing /\ pc[c] = "retrying"
  BY GenerationsAssumption DEF RuntimeInvariant, LocksAreHeld, PlacesAreOwn, CloserPlaces,
     CommitFails, Publish
<1>4. \A x \in Runtimes : Connecting(x)' = Connecting(x)
  BY <1>3, GenerationsAssumption DEF CommitFails, Publish, RuntimeInvariant, TypeOK,
     Connecting, Callers, Go
<1>5. RuntimeUsers' = RuntimeUsers
  BY <1>1, <1>4, CountsStay
<1>6. RuntimeStages[Candidate] = "absent"
  BY <1>2, RuntimeFacts DEF RuntimeStages
<1>7. \A x \in Runtimes : x > built' <=> x > built /\ x # Candidate
  BY <1>1, RuntimeFacts DEF Candidate
<1>8. CASE CommitFails(c)
  <2>1. RuntimeStages' = [RuntimeStages EXCEPT ![Candidate] = "retired"]
    BY <1>1, <1>2, <1>7, <1>8 DEF RuntimeStages, CommitFails
  <2> QED
    BY <1>2, <1>5, <1>6, <2>1 DEF Lifecycle!Next, Lifecycle!Discard
<1>9. CASE Publish(c)
  <2>1. RuntimeStages[current] = "live" /\ current \in Runtimes
    BY <1>3, CurrentIsLive, RuntimeFacts
  <2>2. current' = Candidate /\ retired' = retired \cup {current}
    BY <1>9 DEF Publish
  <2>3. RuntimeStages' = [RuntimeStages EXCEPT ![Candidate] = "live", ![current] = "retired"]
    BY <1>1, <1>2, <1>7, <2>1, <2>2 DEF RuntimeStages
  <2> QED
    BY <1>2, <1>5, <1>6, <2>1, <2>3 DEF Lifecycle!Next, Lifecycle!Publish
<1> QED
  BY <1>8, <1>9

\* The shutdown retires the last one.
LEMMA ShutdownRetires ==
  ASSUME RuntimeInvariant, NEW c \in Admins \cup Closers, CloseRetires(c)
  PROVE  Lifecycle!Next \/ UNCHANGED Lifecycle!vars
<1> USE DEF runtimes, cleaning, locks, flags, callers, CloseRetires
<1>1. \A x \in Runtimes : Connecting(x)' = Connecting(x)
  BY GenerationsAssumption DEF RuntimeInvariant, TypeOK, Connecting, Callers, Go
<1>2. RuntimeUsers' = RuntimeUsers
  BY <1>1, CountsStay
<1>3. CASE RuntimeStages[current] = "live"
  <2>1. RuntimeStages' = [RuntimeStages EXCEPT ![current] = "retired"]
    BY <1>3, RuntimeFacts DEF RuntimeStages
  <2> QED
    BY <1>2, <1>3, <2>1, RuntimeFacts DEF Lifecycle!Next, Lifecycle!Retire
<1>4. CASE RuntimeStages[current] # "live"
  <2>1. RuntimeStages' = RuntimeStages
    BY <1>4, RuntimeFacts DEF RuntimeStages
  <2> QED
    BY <1>2, <2>1, LifeStays
<1> QED
  BY <1>3, <1>4

\* The manager keeps to the life of a runtime: it is used only by those that came
\* while it was the published one, and closed after the last of them has left.
THEOREM RuntimesLiveOnce == Spec => ImplementsLifecycle
<1>1. Init => Lifecycle!Init
  <2> SUFFICES ASSUME Init PROVE Lifecycle!Init
    OBVIOUS
  <2>1. RuntimeStages = [r \in Runtimes |-> IF r = 1 THEN "live" ELSE "absent"]
    BY GenerationsAssumption DEF Init, RuntimeStages, Runtimes
  <2>2. \A r \in Runtimes : Connecting(r) = {}
    BY DEF Init, Connecting, Callers
  <2>3. RuntimeUsers = [r \in Runtimes |-> 0]
    BY <2>2, FS_EmptySet DEF Init, RuntimeUsers
  <2> QED
    BY <2>1, <2>3 DEF Lifecycle!Init
<1>2. RuntimeInvariant /\ [Next]_vars => [Lifecycle!Next]_(Lifecycle!vars)
  <2> SUFFICES ASSUME RuntimeInvariant, [Next]_vars
               PROVE  Lifecycle!Next \/ UNCHANGED Lifecycle!vars
    OBVIOUS
  <2>1. CASE \E q \in Requests : Request(q)
    BY <2>1, LeasesAreBorrowed, LeasesAreGivenBack, UnseenSteps DEF Request
  <2>2. CASE \E a \in Admins : AdminRefused(a) \/ AdminBegins(a) \/ ConnectBegins(a)
    BY <2>2, UnseenSteps, DiscoveryBorrows
  <2>3. CASE \E c \in Closers : CloseBegins(c)
    BY <2>3, UnseenSteps
  <2>4. ASSUME NEW c \in Admins \cup Closers, Proceed(c)
        PROVE  Lifecycle!Next \/ UNCHANGED Lifecycle!vars
    <3>1. CASE ReplaceRetries(c) \/ ReplaceFails(c) \/ CloseEnters(c) \/ CloseDrained(c)
               \/ CloseRetries(c) \/ CloseEnds(c)
      BY <3>1, UnseenSteps
    <3>2. CASE CommitFails(c) \/ Publish(c)
      BY <3>2, CandidatesShow
    <3>3. CASE FullRefreshBegins(c)
      BY <3>3, LeasesAreBorrowed
    <3>4. CASE FullRefreshEnds(c)
      BY <3>4, LeasesAreGivenBack
    <3>5. CASE AdminEnds(c)
      BY <3>5, EndsAndCancellations
    <3>6. CASE CloseRetires(c)
      BY <3>6, ShutdownRetires
    <3>7. CASE \E r \in Runtimes, ok \in BOOLEAN : UnpublishedCleaned(c, r, ok)
      BY <3>7, CleanupsClose
    <3> QED
      BY <2>4, <3>1, <3>2, <3>3, <3>4, <3>5, <3>6, <3>7 DEF Proceed
  <2>5. CASE \E c \in Callers : Cancel(c)
    BY <2>5, EndsAndCancellations
  <2>6. CASE \E r \in Runtimes : Discovery(r)
    <3>1. PICK r \in Runtimes : Discovery(r)
      BY <2>6
    <3>2. CASE RefreshStarts(r) /\ r \in closed
      <4>1. RuntimeStages' = RuntimeStages /\ leases' = leases /\ pc' = pc /\ using' = using
        BY <3>2, StagesStay DEF RefreshStarts, runtimes, cleaning, callers
      <4> QED
        BY <4>1, CountsStay, LifeStays DEF Connecting
    <3>3. CASE RefreshStarts(r) /\ r \notin closed
      BY <3>3, LeasesAreBorrowed
    <3>4. CASE RefreshEnds(r)
      BY <3>4, LeasesAreGivenBack
    <3> QED
      BY <3>1, <3>2, <3>3, <3>4 DEF Discovery
  <2>7. CASE \E r \in Runtimes, ok \in BOOLEAN : CleanupEnds(r, ok)
    BY <2>7, CleanupsClose
  <2>8. CASE Finished \/ UNCHANGED vars
    BY <2>8, UnseenSteps
  <2> QED
    BY <2>1, <2>2, <2>3, <2>4, <2>5, <2>6, <2>7, <2>8 DEF Next
<1> QED
  BY <1>1, <1>2, RuntimesStayInvariant, PTL DEF Spec, ImplementsLifecycle, Lifecycle!Spec

-----------------------------------------------------------------------------
(***************************************************************************)
(* The managed CLI sessions.                                                *)
(***************************************************************************)

Reals == {Real(t) : t \in Turns}

\* A session has one id, and the aliases are as TablesAgree says.
TablesAreSound ==
  /\ \A s \in Turns : \A i, j \in Ids :
       s \in {mapped[i], waiting[i]} /\ s \in {mapped[j], waiting[j]} => i = j
  /\ \A i \in Ids : alias[i] # NoId => mapped[alias[i]] # NoTurn
  /\ \A i, j \in Ids : alias[i] = alias[j] /\ alias[i] # NoId => i = j
  /\ \A s \in closingSessions : Owned(s)

\* A turn asks for, is told and removes its session by an id the CLI gave, or by a
\* temporary one of its own, under which nothing is mapped.
IdsAreOwn ==
  /\ \A t \in Turns : real[t] \in Reals \cup {NoId} /\ handle[t] \in Reals \cup {NoId, Temp(t)}
  /\ \A i \in Ids : alias[i] \in Reals \cup {NoId}
  /\ \A t \in Turns : mapped[Temp(t)] = NoTurn /\ waiting[Temp(t)] \in {NoTurn, t}

\* A session is created once, by the turn it is named by, and is in one table at most.
SessionsAreCreated ==
  /\ \A s \in Turns : Owned(s) => session[s] = s
  /\ \A t \in Turns : turn[t] \in {"new", "get"} => session[t] = NoTurn
  /\ \A t \in Turns : turn[t] \notin {"new", "get", "over"} =>
       session[t] # NoTurn /\ handle[t] # NoId
  /\ \A i \in Ids : mapped[i] # NoTurn => waiting[i] = NoTurn

\* A session is forgotten only after it was stopped.
UnstoppedAreOwned ==
  \A t \in Turns : session[t] # NoTurn /\ session[t] \notin stoppedSessions => Owned(session[t])

\* Who holds a lifecycle lock is where it says it is.
LifeIsHeld ==
  /\ \A t \in Turns : turn[t] = "spawn" =>
       life[session[t]] = Launch(t) /\ session[t] \notin stoppedSessions
  /\ \A s, t \in Turns : life[s] = Launch(t) => turn[t] = "spawn" /\ session[t] = s
  /\ \A s, t \in Turns : life[s] = Remove(t) => turn[t] = "stopping" /\ s = Find(handle[t])
  /\ \A s \in Turns : life[s] = All => lock = StopAll /\ s \in toStop
  /\ \A s \in Turns : life[s] \in Calls => s \in stoppedSessions

\* A global stop that has not failed yet has still to stop all that is owned.
AllAreReached ==
  lock = StopAll /\ missed = 0 => \A s \in Turns : Owned(s) => s \in toStop

SessionInvariant ==
  /\ SessionsTypeOK
  /\ LiveIsOwned
  /\ TablesAreSound
  /\ IdsAreOwn
  /\ SessionsAreCreated
  /\ UnstoppedAreOwned
  /\ LifeIsHeld
  /\ AllAreReached

\* Names are told apart.
LEMMA IdFacts ==
  /\ \A t \in Turns : Temp(t) \in Ids /\ Real(t) \in Ids /\ Temp(t) # NoId /\ Real(t) # NoId
  /\ \A t, u \in Turns : Temp(t) # Real(u) /\ (Temp(t) = Temp(u) => t = u) /\ (Real(t) = Real(u) => t = u)
  /\ NoId \notin Ids /\ Reals \subseteq Ids /\ \A t \in Turns : Temp(t) \notin Reals
  /\ \A i \in Ids : i \in Reals \/ \E t \in Turns : i = Temp(t)
BY SessionsAssumption DEF Temp, Real, NoId, Ids, Reals

LEMMA CallFacts ==
  /\ All \in Calls /\ All # Free /\ Free \notin Calls
  /\ \A t \in Turns : Halt(t) \in Calls /\ Remove(t) \in Calls /\ Launch(t) \notin Calls /\ Launch(t) # Free
  /\ \A t, u \in Turns : (Remove(t) = Remove(u) => t = u) /\ (Launch(t) = Launch(u) => t = u)
  /\ \A k \in Calls : /\ k.kind = "remove" => k.by \in Turns /\ k = Remove(k.by)
                      /\ k.kind = "halt" => k.by \in Turns /\ k = Halt(k.by)
                      /\ k.kind = "all" => k = All
                      /\ k.kind \in {"remove", "halt", "all"}
  /\ \A t \in Turns : Remove(t).kind = "remove" /\ Remove(t).by = t
  /\ All.kind = "all" /\ Free.kind = "none" /\ \A t \in Turns : Launch(t).kind = "launch"
<1>1. /\ \A t \in Turns : Remove(t).kind = "remove" /\ Remove(t).by = t
      /\ \A t \in Turns : Halt(t).kind = "halt" /\ Halt(t).by = t
      /\ \A t \in Turns : Launch(t).kind = "launch" /\ Launch(t).by = t
      /\ All.kind = "all" /\ Free.kind = "none"
  BY DEF All, Free, Halt, Remove, Launch
<1>2. \A k \in Calls : (\E t \in Turns : k = Halt(t) \/ k = Remove(t)) \/ k = All
  BY DEF Calls
<1>3. All \in Calls /\ \A t \in Turns : Halt(t) \in Calls /\ Remove(t) \in Calls
  BY DEF Calls
<1>4. \A k \in Calls : k.kind \in {"remove", "halt", "all"}
  BY <1>1, <1>2
<1>5. \A k \in Calls : /\ k.kind = "remove" => k.by \in Turns /\ k = Remove(k.by)
                       /\ k.kind = "halt" => k.by \in Turns /\ k = Halt(k.by)
                       /\ k.kind = "all" => k = All
  BY <1>1, <1>2
<1>6. All # Free /\ Free \notin Calls /\ \A t \in Turns : Launch(t) \notin Calls /\ Launch(t) # Free
  BY <1>1, <1>4
<1>7. \A t, u \in Turns : (Remove(t) = Remove(u) => t = u) /\ (Launch(t) = Launch(u) => t = u)
  BY <1>1
<1> QED
  BY <1>1, <1>3, <1>4, <1>5, <1>6, <1>7

\* Where an id leads.
LEMMA LookupFacts ==
  ASSUME SessionInvariant, NEW i \in Ids
  PROVE  /\ Lookup(i) \in Ids /\ Find(i) \in Turns \cup {NoTurn}
         /\ i \in Reals => Lookup(i) \in Reals
         /\ Find(i) # NoTurn => Owned(Find(i)) /\ Find(i) \in {mapped[Lookup(i)], waiting[Lookup(i)]}
         /\ Find(i) = NoTurn => Lookup(i) = i /\ mapped[i] = NoTurn /\ waiting[i] = NoTurn /\ alias[i] = NoId
<1> USE IdFacts, SessionsAssumption DEF SessionInvariant, SessionsTypeOK
<1>1. Lookup(i) \in Ids /\ (i \in Reals => Lookup(i) \in Reals)
  BY DEF Lookup, IdsAreOwn
<1>2. Find(i) \in Turns \cup {NoTurn}
  BY <1>1 DEF Find
<1>3. Find(i) # NoTurn => Owned(Find(i)) /\ Find(i) \in {mapped[Lookup(i)], waiting[Lookup(i)]}
  BY <1>1 DEF Find, Owned
<1>4. Find(i) = NoTurn => Lookup(i) = i /\ mapped[i] = NoTurn /\ waiting[i] = NoTurn /\ alias[i] = NoId
  BY <1>1 DEF Find, Lookup, TablesAreSound
<1> QED
  BY <1>1, <1>2, <1>3, <1>4

\* What forgetting a session leaves.
LEMMA Forgotten ==
  ASSUME SessionInvariant, NEW s \in Turns, Forget(s)
  PROVE  /\ \A x \in Turns : Owned(x)' <=> Owned(x) /\ x # s
         /\ mapped' \in [Ids -> Turns \cup {NoTurn}] /\ waiting' \in [Ids -> Turns \cup {NoTurn}]
         /\ alias' \in [Ids -> Ids \cup {NoId}] /\ closingSessions' \subseteq Turns
         /\ TablesAreSound'
         /\ \A i \in Ids : alias'[i] \in Reals \cup {NoId}
         /\ \A t \in Turns : mapped'[Temp(t)] = NoTurn /\ waiting'[Temp(t)] \in {NoTurn, t}
         /\ \A i \in Ids : mapped'[i] # NoTurn => waiting'[i] = NoTurn
<1> USE IdFacts, SessionsAssumption DEF SessionInvariant, SessionsTypeOK, Forget
<1>1. \A x \in Turns : Owned(x)' <=> Owned(x) /\ x # s
  BY DEF Owned
<1>2. /\ mapped' \in [Ids -> Turns \cup {NoTurn}] /\ waiting' \in [Ids -> Turns \cup {NoTurn}]
      /\ alias' \in [Ids -> Ids \cup {NoId}] /\ closingSessions' \subseteq Turns
  OBVIOUS
<1>3. TablesAreSound'
  <2>1. \A x \in Turns : \A i, j \in Ids :
          x \in {mapped'[i], waiting'[i]} /\ x \in {mapped'[j], waiting'[j]} => i = j
    BY DEF TablesAreSound
  <2>2. \A i \in Ids : alias'[i] # NoId => alias'[i] = alias[i] /\ mapped'[alias'[i]] # NoTurn
    BY DEF TablesAreSound
  <2>3. \A i, j \in Ids : alias'[i] = alias'[j] /\ alias'[i] # NoId => i = j
    BY <2>2 DEF TablesAreSound
  <2>4. \A x \in closingSessions' : Owned(x)'
    BY <1>1 DEF TablesAreSound
  <2> QED
    BY <2>1, <2>2, <2>3, <2>4 DEF TablesAreSound
<1>4. /\ \A i \in Ids : alias'[i] \in Reals \cup {NoId}
      /\ \A t \in Turns : mapped'[Temp(t)] = NoTurn /\ waiting'[Temp(t)] \in {NoTurn, t}
  BY DEF IdsAreOwn
<1>5. \A i \in Ids : mapped'[i] # NoTurn => waiting'[i] = NoTurn
  BY DEF SessionsAreCreated
<1> QED
  BY <1>1, <1>2, <1>3, <1>4, <1>5


\* The end of a stop: the tables stay or forget the session, and whoever removed
\* it or stopped all goes on.
StopEffect(k, s, done) ==
  /\ mapped' \in [Ids -> Turns \cup {NoTurn}] /\ waiting' \in [Ids -> Turns \cup {NoTurn}]
  /\ alias' \in [Ids -> Ids \cup {NoId}] /\ closingSessions' \subseteq Turns
  /\ TablesAreSound'
  /\ \A i \in Ids : alias'[i] \in Reals \cup {NoId}
  /\ \A t \in Turns : mapped'[Temp(t)] = NoTurn /\ waiting'[Temp(t)] \in {NoTurn, t}
  /\ \A i \in Ids : mapped'[i] # NoTurn => waiting'[i] = NoTurn
  /\ \A x \in Turns : Owned(x)' => Owned(x)
  /\ \A x \in Turns : x # s \/ ~done => (Owned(x)' <=> Owned(x))
  /\ \/ k.kind # "remove" /\ turn' = turn /\ lock' = lock
     \/ /\ k.kind = "remove" /\ k.by \in Turns /\ k = Remove(k.by)
        /\ turn' = [turn EXCEPT ![k.by] = "over"] /\ lock = k.by /\ lock' = NoTurn
  /\ k.kind # "all" => toStop' = toStop /\ missed' = missed
  /\ k.kind = "all" => /\ toStop' = toStop \ {s} /\ lock = StopAll
                       /\ \/ ~Owned(s)' /\ missed' = missed
                          \/ missed' = missed + 1
  /\ k.kind = "halt" => mapped' = mapped /\ waiting' = waiting /\ alias' = alias

LEMMA StopFacts ==
  ASSUME SessionInvariant, NEW k \in Calls, NEW s \in Turns, NEW done \in BOOLEAN, Stopped(k, s, done),
         k.kind = "remove" => turn[k.by] = "stopping",
         k.kind = "all" => lock = StopAll
  PROVE  StopEffect(k, s, done)
<1> USE SessionsAssumption, CallFacts DEF SessionInvariant, SessionsTypeOK
<1>1. \/ mapped' = mapped /\ waiting' = waiting /\ alias' = alias /\ closingSessions' = closingSessions
      \/ done /\ k.kind # "halt" /\ Forget(s)
  <2>1. CASE k.kind = "halt"
    BY <2>1 DEF Stopped, maps
  <2>2. CASE k.kind # "halt"
    <3>1. IF done THEN Forget(s) ELSE UNCHANGED maps
      BY <2>2 DEF Stopped
    <3> QED
      BY <2>2, <3>1 DEF maps
  <2> QED
    BY <2>1, <2>2
<1>2. \/ k.kind # "remove" /\ turn' = turn /\ lock' = lock
      \/ /\ k.kind = "remove" /\ k.by \in Turns /\ k = Remove(k.by)
         /\ turn' = [turn EXCEPT ![k.by] = "over"] /\ lock = k.by /\ lock' = NoTurn
  BY DEF Stopped, GoTo
<1>3. k.kind # "all" => toStop' = toStop /\ missed' = missed
  BY DEF Stopped
<1>4. CASE mapped' = mapped /\ waiting' = waiting /\ alias' = alias /\ closingSessions' = closingSessions
  <2>1. \A x \in Turns : Owned(x)' <=> Owned(x)
    BY <1>4 DEF Owned
  <2>2. TablesAreSound'
    BY <1>4, <2>1 DEF TablesAreSound
  <2>3. k.kind = "all" => /\ toStop' = toStop \ {s} /\ lock = StopAll
                          /\ \/ ~Owned(s)' /\ missed' = missed
                             \/ missed' = missed + 1
    <3>1. CASE done
      <4>1. k.kind = "all" => Forget(s)
        BY <3>1 DEF Stopped
      <4> QED
        BY <3>1, <4>1, Forgotten DEF Stopped
    <3>2. CASE ~done
      BY <3>2 DEF Stopped
    <3> QED
      BY <3>1, <3>2
  <2> QED
    BY <1>2, <1>3, <1>4, <2>1, <2>2, <2>3 DEF StopEffect, IdsAreOwn, SessionsAreCreated
<1>5. CASE done /\ k.kind # "halt" /\ Forget(s)
  <2>1. k.kind = "all" => toStop' = toStop \ {s} /\ missed' = missed
    BY <1>5 DEF Stopped
  <2> QED
    BY <1>2, <1>3, <1>5, <2>1, Forgotten DEF StopEffect
<1> QED
  BY <1>1, <1>4, <1>5

\* A turn that asks for a session is refused, finds one, or is given a new one.
GetEffect(t) ==
  /\ turn[t] = "get" /\ lock = NoTurn /\ session[t] = NoTurn
  /\ real' = real /\ mapped' = mapped /\ alias' = alias /\ closingSessions' = closingSessions
  /\ lock' = lock /\ UNCHANGED clis /\ halting' = halting /\ toStop' = toStop
  /\ missed' = missed /\ UNCHANGED bounds
  /\ \E s \in Turns \cup {NoTurn}, i \in Reals \cup {NoId, Temp(t)}, place \in {"over", "launch"} :
       /\ turn' = [turn EXCEPT ![t] = place]
       /\ session' = [session EXCEPT ![t] = s]
       /\ handle' = [handle EXCEPT ![t] = i]
       /\ \/ place = "over" /\ s = NoTurn /\ waiting' = waiting
          \/ place = "launch" /\ i # NoId /\ s # NoTurn /\ Owned(s) /\ waiting' = waiting
          \/ /\ place = "launch" /\ i # NoId /\ s = t
             /\ mapped[i] = NoTurn /\ waiting[i] = NoTurn /\ waiting' = [waiting EXCEPT ![i] = t]

LEMMA GetFacts ==
  ASSUME SessionInvariant, NEW t \in Turns, Get(t)
  PROVE  GetEffect(t)
<1> USE SessionsAssumption, IdFacts DEF SessionInvariant, SessionsTypeOK
<1> DEFINE q == Requested(t)
           found == IF q = NoId THEN NoTurn ELSE Find(q)
           temp == IF q = NoId THEN Temp(t) ELSE q
<1>1. q \in Reals \cup {NoId}
  BY DEF Requested, IdsAreOwn
<1>2. session[t] = NoTurn /\ turn[t] = "get" /\ ~Owned(t)
  BY DEF Get, SessionsAreCreated
<1>3. found # NoTurn => found \in Turns /\ Owned(found) /\ q \in Reals /\ Lookup(q) \in Reals
  BY <1>1, LookupFacts
<1>4. found = NoTurn => temp \in Reals \cup {Temp(t)} /\ mapped[temp] = NoTurn /\ waiting[temp] = NoTurn
  <2>1. CASE q = NoId
    BY <1>2, <2>1 DEF IdsAreOwn, Owned
  <2>2. CASE q # NoId
    BY <1>1, <2>2, LookupFacts
  <2> QED
    BY <2>1, <2>2
<1>5. \/ turn' = [turn EXCEPT ![t] = "over"] /\ session' = session /\ handle' = handle /\ waiting' = waiting
      \/ /\ found # NoTurn /\ turn' = [turn EXCEPT ![t] = "launch"] /\ waiting' = waiting
         /\ session' = [session EXCEPT ![t] = found] /\ handle' = [handle EXCEPT ![t] = Lookup(q)]
      \/ /\ found = NoTurn /\ turn' = [turn EXCEPT ![t] = "launch"]
         /\ session' = [session EXCEPT ![t] = t] /\ handle' = [handle EXCEPT ![t] = temp]
         /\ waiting' = [waiting EXCEPT ![temp] = t]
  BY DEF Get, GoTo
<1>6. /\ real' = real /\ mapped' = mapped /\ alias' = alias /\ closingSessions' = closingSessions
      /\ lock = NoTurn /\ lock' = lock /\ UNCHANGED clis /\ halting' = halting /\ toStop' = toStop
      /\ missed' = missed /\ UNCHANGED bounds
  BY DEF Get
<1> HIDE DEF q, found, temp
<1> DEFINE E(s, i, place) ==
             /\ turn' = [turn EXCEPT ![t] = place]
             /\ session' = [session EXCEPT ![t] = s]
             /\ handle' = [handle EXCEPT ![t] = i]
             /\ \/ place = "over" /\ s = NoTurn /\ waiting' = waiting
                \/ place = "launch" /\ i # NoId /\ s # NoTurn /\ Owned(s) /\ waiting' = waiting
                \/ /\ place = "launch" /\ i # NoId /\ s = t
                   /\ mapped[i] = NoTurn /\ waiting[i] = NoTurn /\ waiting' = [waiting EXCEPT ![i] = t]
<1>7. CASE turn' = [turn EXCEPT ![t] = "over"] /\ session' = session /\ handle' = handle /\ waiting' = waiting
  <2>1. E(NoTurn, handle[t], "over") /\ handle[t] \in Reals \cup {NoId, Temp(t)}
    BY <1>2, <1>7 DEF IdsAreOwn
  <2> QED
    BY <1>2, <1>6, <2>1 DEF GetEffect
<1>8. CASE /\ found # NoTurn /\ turn' = [turn EXCEPT ![t] = "launch"] /\ waiting' = waiting
           /\ session' = [session EXCEPT ![t] = found] /\ handle' = [handle EXCEPT ![t] = Lookup(q)]
  <2>1. E(found, Lookup(q), "launch")
    BY <1>3, <1>8
  <2> QED
    BY <1>2, <1>3, <1>6, <1>8, <2>1 DEF GetEffect
<1>9. CASE /\ found = NoTurn /\ turn' = [turn EXCEPT ![t] = "launch"]
           /\ session' = [session EXCEPT ![t] = t] /\ handle' = [handle EXCEPT ![t] = temp]
           /\ waiting' = [waiting EXCEPT ![temp] = t]
  <2>1. E(t, temp, "launch")
    BY <1>4, <1>9
  <2> QED
    BY <1>2, <1>4, <1>6, <1>9, <2>1 DEF GetEffect
<1> QED
  BY <1>5, <1>7, <1>8, <1>9

\* An id that is accepted was free, but perhaps for the session itself.
RegisterEffect(t) ==
  /\ turn[t] = "stream" /\ lock = NoTurn /\ session[t] = t
  /\ session' = session /\ closingSessions' = closingSessions
  /\ lock' = lock /\ UNCHANGED clis /\ halting' = halting /\ toStop' = toStop
  /\ missed' = missed /\ UNCHANGED bounds
  /\ \E temp \in Ids, id \in Reals :
       \/ /\ turn' = [turn EXCEPT ![t] = "remove"]
          /\ waiting' = waiting /\ mapped' = mapped /\ alias' = alias /\ handle' = handle /\ real' = real
       \/ /\ turn' = turn /\ waiting[temp] = t /\ mapped[temp] = NoTurn
          /\ mapped[id] = NoTurn /\ (waiting[id] = NoTurn \/ id = temp)
          /\ \A i \in Ids : alias[i] # id
          /\ waiting' = [waiting EXCEPT ![temp] = NoTurn] /\ mapped' = [mapped EXCEPT ![id] = t]
          /\ alias' = [alias EXCEPT ![temp] = id] /\ handle' = [handle EXCEPT ![t] = id]
          /\ real' = [real EXCEPT ![t] = id]

LEMMA RegisterFacts ==
  ASSUME SessionInvariant, NEW t \in Turns, Register(t)
  PROVE  RegisterEffect(t)
<1> USE SessionsAssumption, IdFacts DEF SessionInvariant, SessionsTypeOK
<1> DEFINE temp == handle[t]
<1>1. /\ turn[t] = "stream" /\ lock = NoTurn /\ session[t] = t
      /\ session' = session /\ closingSessions' = closingSessions
      /\ lock' = lock /\ UNCHANGED clis /\ halting' = halting /\ toStop' = toStop
      /\ missed' = missed /\ UNCHANGED bounds
  BY DEF Register
<1>2. temp \in Ids
  BY <1>1 DEF SessionsAreCreated
<1>3. Requested(t) \in Reals \cup {NoId} /\ Real(t) \in Reals
  BY DEF Requested, IdsAreOwn, Reals
<1>4. PICK id \in Reals :
        \/ /\ turn' = [turn EXCEPT ![t] = "remove"]
           /\ waiting' = waiting /\ mapped' = mapped /\ alias' = alias /\ handle' = handle /\ real' = real
        \/ /\ waiting[temp] = t /\ Find(id) \in {NoTurn, t} /\ turn' = turn
           /\ waiting' = [waiting EXCEPT ![temp] = NoTurn] /\ mapped' = [mapped EXCEPT ![id] = t]
           /\ alias' = [alias EXCEPT ![temp] = id] /\ handle' = [handle EXCEPT ![t] = id]
           /\ real' = [real EXCEPT ![t] = id]
  BY <1>1, <1>3 DEF Register, Accepts, GoTo
<1>5. ASSUME waiting[temp] = t, Find(id) \in {NoTurn, t}
      PROVE  /\ mapped[temp] = NoTurn /\ mapped[id] = NoTurn /\ (waiting[id] = NoTurn \/ id = temp)
             /\ \A i \in Ids : alias[i] # id
  <2>1. mapped[temp] = NoTurn
    BY <1>2, <1>5 DEF SessionsAreCreated
  <2>2. \A i \in Ids : mapped[i] # t
    BY <1>2, <1>5, <2>1 DEF TablesAreSound
  <2>3. alias[id] = NoId
    BY <1>5, <2>2 DEF Find, Lookup, TablesAreSound
  <2>4. mapped[id] = NoTurn /\ (waiting[id] = NoTurn \/ waiting[id] = t)
    BY <1>5, <2>2, <2>3 DEF Find, Lookup
  <2>5. waiting[id] = t => id = temp
    BY <1>2, <1>5 DEF TablesAreSound
  <2>6. \A i \in Ids : alias[i] # id
    BY <2>4 DEF TablesAreSound
  <2> QED
    BY <2>1, <2>4, <2>5, <2>6
<1> HIDE DEF temp
<1> QED
  BY <1>1, <1>2, <1>4, <1>5 DEF RegisterEffect

\* What a turn in the middle of its run has.
LEMMA RunningTurns ==
  ASSUME SessionInvariant, NEW t \in Turns, turn[t] \notin {"new", "get", "over"}
  PROVE  session[t] \in Turns /\ handle[t] \in Ids
BY IdFacts DEF SessionInvariant, SessionsTypeOK, SessionsAreCreated


LEMMA BeginKeeps ==
  ASSUME SessionInvariant, NEW t \in Turns, Begin(t)
  PROVE  SessionInvariant'
<1> USE SessionsAssumption, IdFacts, CallFacts DEF SessionInvariant, SessionsTypeOK, Begin,
   GoTo, turns, maps, clis, bounds
<1>1. SessionsTypeOK'
  BY DEF Places
<1>2. LiveIsOwned'
  BY DEF LiveIsOwned, Owned, LifeIsHeld, UnstoppedAreOwned
<1>3. TablesAreSound'
  BY DEF TablesAreSound, Owned
<1>4. IdsAreOwn'
  BY DEF IdsAreOwn
<1>5. SessionsAreCreated'
  BY DEF SessionsAreCreated, Owned
<1>6. UnstoppedAreOwned'
  BY DEF UnstoppedAreOwned, Owned, LifeIsHeld
<1>7. LifeIsHeld'
  BY DEF LifeIsHeld, Find, Lookup, SessionsAreCreated
<1>8. AllAreReached'
  BY DEF AllAreReached, Owned, LifeIsHeld
<1> QED
  BY <1>1, <1>2, <1>3, <1>4, <1>5, <1>6, <1>7, <1>8 DEF SessionInvariant

LEMMA GetKeeps ==
  ASSUME SessionInvariant, NEW t \in Turns, Get(t)
  PROVE  SessionInvariant'
<1> USE SessionsAssumption, IdFacts, CallFacts DEF SessionInvariant, SessionsTypeOK, turns,
   maps, clis, bounds
<1>0. GetEffect(t)
  BY GetFacts
<1>a. PICK s \in Turns \cup {NoTurn}, i \in Reals \cup {NoId, Temp(t)}, place \in {"over", "launch"} :
        /\ turn' = [turn EXCEPT ![t] = place]
        /\ session' = [session EXCEPT ![t] = s]
        /\ handle' = [handle EXCEPT ![t] = i]
        /\ \/ place = "over" /\ s = NoTurn /\ waiting' = waiting
           \/ place = "launch" /\ i # NoId /\ s # NoTurn /\ Owned(s) /\ waiting' = waiting
           \/ /\ place = "launch" /\ i # NoId /\ s = t
              /\ mapped[i] = NoTurn /\ waiting[i] = NoTurn /\ waiting' = [waiting EXCEPT ![i] = t]
  BY <1>0 DEF GetEffect
<1>b. ~Owned(t) /\ turn[t] = "get" /\ lock = NoTurn /\ session[t] = NoTurn
  BY <1>0 DEF GetEffect, SessionsAreCreated
<1>c. /\ real' = real /\ mapped' = mapped /\ alias' = alias /\ closingSessions' = closingSessions
      /\ lock' = lock /\ process' = process /\ pids' = pids /\ stoppedSessions' = stoppedSessions
      /\ cli' = cli /\ life' = life /\ halting' = halting /\ toStop' = toStop /\ missed' = missed
  BY <1>0 DEF GetEffect
<1>d. \/ waiting' = waiting /\ \A x \in Turns : Owned(x)' <=> Owned(x)
      \/ /\ i \in Ids /\ mapped[i] = NoTurn /\ waiting[i] = NoTurn /\ waiting' = [waiting EXCEPT ![i] = t]
         /\ s = t /\ \A x \in Turns : Owned(x)' <=> Owned(x) \/ x = t
  <2>1. CASE waiting' = waiting
    BY <1>c, <2>1 DEF Owned
  <2>2. CASE /\ i # NoId /\ s = t /\ mapped[i] = NoTurn /\ waiting[i] = NoTurn
             /\ waiting' = [waiting EXCEPT ![i] = t]
    BY <1>c, <2>2 DEF Owned
  <2> QED
    BY <1>a, <2>1, <2>2
<1>1. SessionsTypeOK'
  <2>1. turn' \in [Turns -> Places] /\ session' \in [Turns -> Turns \cup {NoTurn}]
    BY <1>a, <1>b, <1>c, <1>d DEF Places
  <2>2. handle' \in [Turns -> Ids \cup {NoId}] /\ real' \in [Turns -> Ids \cup {NoId}]
    BY <1>a, <1>b, <1>c, <1>d DEF Places
  <2>3. mapped' \in [Ids -> Turns \cup {NoTurn}] /\ waiting' \in [Ids -> Turns \cup {NoTurn}]
    <3>1. CASE waiting' = waiting
      BY <3>1, <1>a, <1>b, <1>c, <1>d DEF Places
    <3>2. CASE ~(waiting' = waiting)
      BY <3>2, <1>a, <1>b, <1>c, <1>d DEF Places
    <3> QED
      BY <3>1, <3>2
  <2>4. alias' \in [Ids -> Ids \cup {NoId}] /\ missed' \in Nat
    BY <1>a, <1>b, <1>c, <1>d DEF Places
  <2>5. closingSessions' \subseteq Turns /\ toStop' \subseteq Turns /\ halting' \subseteq Turns
    BY <1>a, <1>b, <1>c, <1>d DEF Places
  <2>6. pids' \subseteq Turns /\ stoppedSessions' \subseteq Turns
    BY <1>a, <1>b, <1>c, <1>d DEF Places
  <2>7. lock' \in Turns \cup {NoTurn, StopAll} /\ process' \in [Turns -> {"none", "live", "dead"}]
    BY <1>a, <1>b, <1>c, <1>d DEF Places
  <2>8. cli' \in [Turns -> Turns \cup {NoTurn}]
    BY <1>a, <1>b, <1>c, <1>d DEF Places
  <2>9. life' \in [Turns -> Calls \cup {Launch(x) : x \in Turns} \cup {Free}]
    BY <1>a, <1>b, <1>c, <1>d DEF Places
  <2>10. toStop' # {} => lock' = StopAll
    BY <1>a, <1>b, <1>c, <1>d DEF Places
  <2>11. \A x \in Turns : turn'[x] = "stopping" => lock' = x
    BY <1>a, <1>b, <1>c, <1>d DEF Places
  <2> QED
    BY <2>1, <2>2, <2>3, <2>4, <2>5, <2>6, <2>7, <2>8, <2>9, <2>10, <2>11
<1>2. LiveIsOwned'
  BY <1>a, <1>b, <1>c, <1>d DEF LiveIsOwned
<1>3. TablesAreSound'
  <2>1. \A x \in Turns : \A m, j \in Ids :
          x \in {mapped'[m], waiting'[m]} /\ x \in {mapped'[j], waiting'[j]} => m = j
    BY <1>a, <1>b, <1>c, <1>d DEF TablesAreSound, Owned
  <2>2. \A x \in Ids : alias'[x] # NoId => mapped'[alias'[x]] # NoTurn
    BY <1>a, <1>b, <1>c, <1>d DEF TablesAreSound
  <2>3. \A m, j \in Ids : alias'[m] = alias'[j] /\ alias'[m] # NoId => m = j
    BY <1>a, <1>b, <1>c, <1>d DEF TablesAreSound
  <2>4. \A x \in closingSessions' : Owned(x)'
    BY <1>a, <1>b, <1>c, <1>d DEF TablesAreSound
  <2> QED
    BY <2>1, <2>2, <2>3, <2>4 DEF TablesAreSound
<1>4. IdsAreOwn'
  <2>1. \A x \in Turns : real'[x] \in Reals \cup {NoId} /\ handle'[x] \in Reals \cup {NoId, Temp(x)}
    BY <1>a, <1>b, <1>c, <1>d DEF IdsAreOwn
  <2>2. \A x \in Ids : alias'[x] \in Reals \cup {NoId}
    BY <1>a, <1>b, <1>c, <1>d DEF IdsAreOwn
  <2>3. \A x \in Turns : mapped'[Temp(x)] = NoTurn /\ waiting'[Temp(x)] \in {NoTurn, x}
    BY <1>a, <1>b, <1>c, <1>d DEF IdsAreOwn
  <2> QED
    BY <2>1, <2>2, <2>3 DEF IdsAreOwn
<1>5. SessionsAreCreated'
  <2>1. \A x \in Turns : Owned(x)' => session'[x] = x
    BY <1>a, <1>b, <1>c, <1>d DEF SessionsAreCreated
  <2>2. \A x \in Turns : turn'[x] \in {"new", "get"} => session'[x] = NoTurn
    BY <1>a, <1>b, <1>c, <1>d DEF SessionsAreCreated
  <2>3. \A x \in Turns : turn'[x] \notin {"new", "get", "over"} => session'[x] # NoTurn /\ handle'[x] # NoId
    BY <1>a, <1>b, <1>c, <1>d DEF SessionsAreCreated
  <2>4. \A x \in Ids : mapped'[x] # NoTurn => waiting'[x] = NoTurn
    BY <1>a, <1>b, <1>c, <1>d DEF SessionsAreCreated
  <2> QED
    BY <2>1, <2>2, <2>3, <2>4 DEF SessionsAreCreated
<1>6. UnstoppedAreOwned'
  BY <1>a, <1>b, <1>c, <1>d DEF UnstoppedAreOwned
<1>7. LifeIsHeld'
  BY <1>a, <1>b, <1>c, <1>d DEF LifeIsHeld, Find, Lookup
<1>8. AllAreReached'
  BY <1>a, <1>b, <1>c, <1>d DEF AllAreReached
<1> QED
  BY <1>1, <1>2, <1>3, <1>4, <1>5, <1>6, <1>7, <1>8 DEF SessionInvariant

LEMMA StartKeeps ==
  ASSUME SessionInvariant, NEW t \in Turns, Start(t)
  PROVE  SessionInvariant'
<1> USE SessionsAssumption, IdFacts, CallFacts DEF SessionInvariant, SessionsTypeOK, turns,
   maps, clis, bounds
<1>0. session[t] \in Turns
  <2>1. turn[t] \notin {"new", "get", "over"}
    BY DEF Start
  <2> QED
    BY <2>1, RunningTurns
<1>a. /\ turn[t] = "launch"
      /\ session' = session /\ handle' = handle /\ real' = real /\ mapped' = mapped /\ waiting' = waiting
      /\ alias' = alias /\ closingSessions' = closingSessions /\ lock' = lock /\ process' = process
      /\ pids' = pids /\ stoppedSessions' = stoppedSessions /\ halting' = halting /\ toStop' = toStop
      /\ missed' = missed
  BY DEF Start
<1>b. PICK place \in {"remove", "spawn"} :
        /\ turn' = [turn EXCEPT ![t] = place]
        /\ \/ place = "remove" /\ cli' = cli /\ life' = life
           \/ /\ place = "spawn" /\ session[t] \notin stoppedSessions /\ life[session[t]] = Free
              /\ cli' = [cli EXCEPT ![session[t]] = t]
              /\ life' = [life EXCEPT ![session[t]] = Launch(t)]
  <2>1. CASE session[t] \in stoppedSessions
    BY <2>1 DEF Start, GoTo
  <2>2. CASE session[t] \notin stoppedSessions
    BY <2>2 DEF Start, GoTo
  <2> QED
    BY <2>1, <2>2
<1>c. \A x \in Turns : Owned(x)' <=> Owned(x)
  BY <1>a DEF Owned
<1>d. \A i \in Ids : Find(i)' = Find(i)
  BY <1>a DEF Find, Lookup
<1>g. Launch(t) \in {Launch(x) : x \in Turns}
  OBVIOUS
<1>r. \A s, x \in Turns : life[s] = Remove(x) => handle[x] \in Ids
  <2>1. \A s, x \in Turns : life[s] = Remove(x) => turn[x] \notin {"new", "get", "over"}
    BY DEF LifeIsHeld
  <2> QED
    BY <2>1, RunningTurns
<1>h. place = "spawn" => \A x \in Turns : life'[x] = (IF x = session[t] THEN Launch(t) ELSE life[x])
  BY <1>0, <1>b
<1>1. SessionsTypeOK'
  <2>1. turn' \in [Turns -> Places] /\ session' \in [Turns -> Turns \cup {NoTurn}]
    BY <1>0, <1>a, <1>b, <1>c, <1>d DEF Places
  <2>2. handle' \in [Turns -> Ids \cup {NoId}] /\ real' \in [Turns -> Ids \cup {NoId}]
    BY <1>0, <1>a, <1>b, <1>c, <1>d DEF Places
  <2>3. mapped' \in [Ids -> Turns \cup {NoTurn}] /\ waiting' \in [Ids -> Turns \cup {NoTurn}]
    BY <1>0, <1>a, <1>b, <1>c, <1>d DEF Places
  <2>4. alias' \in [Ids -> Ids \cup {NoId}] /\ missed' \in Nat
    BY <1>0, <1>a, <1>b, <1>c, <1>d DEF Places
  <2>5. closingSessions' \subseteq Turns /\ toStop' \subseteq Turns /\ halting' \subseteq Turns
    BY <1>0, <1>a, <1>b, <1>c, <1>d DEF Places
  <2>6. pids' \subseteq Turns /\ stoppedSessions' \subseteq Turns
    BY <1>0, <1>a, <1>b, <1>c, <1>d DEF Places
  <2>7. lock' \in Turns \cup {NoTurn, StopAll} /\ process' \in [Turns -> {"none", "live", "dead"}]
    BY <1>0, <1>a, <1>b, <1>c, <1>d DEF Places
  <2>8. cli' \in [Turns -> Turns \cup {NoTurn}]
    <3>1. CASE place = "remove"
      BY <3>1, <1>0, <1>a, <1>b, <1>c, <1>d DEF Places
    <3>2. CASE ~(place = "remove")
      BY <3>2, <1>0, <1>g, <1>a, <1>b, <1>c, <1>d DEF Places
    <3> QED
      BY <3>1, <3>2
  <2>9. life' \in [Turns -> Calls \cup {Launch(x) : x \in Turns} \cup {Free}]
    <3>1. CASE place = "remove"
      BY <3>1, <1>0, <1>a, <1>b, <1>c, <1>d DEF Places
    <3>2. CASE ~(place = "remove")
      BY <3>2, <1>0, <1>g, <1>a, <1>b, <1>c, <1>d DEF Places
    <3> QED
      BY <3>1, <3>2
  <2>10. toStop' # {} => lock' = StopAll
    BY <1>0, <1>a, <1>b, <1>c, <1>d DEF Places
  <2>11. \A x \in Turns : turn'[x] = "stopping" => lock' = x
    BY <1>0, <1>a, <1>b, <1>c, <1>d DEF Places
  <2> QED
    BY <2>1, <2>2, <2>3, <2>4, <2>5, <2>6, <2>7, <2>8, <2>9, <2>10, <2>11
<1>2. LiveIsOwned'
  BY <1>0, <1>a, <1>b, <1>c, <1>d DEF LiveIsOwned
<1>3. TablesAreSound'
  BY <1>0, <1>a, <1>b, <1>c, <1>d DEF TablesAreSound
<1>4. IdsAreOwn'
  BY <1>0, <1>a, <1>b, <1>c, <1>d DEF IdsAreOwn
<1>5. SessionsAreCreated'
  BY <1>0, <1>a, <1>b, <1>c, <1>d DEF SessionsAreCreated, Places
<1>6. UnstoppedAreOwned'
  BY <1>0, <1>a, <1>b, <1>c, <1>d DEF UnstoppedAreOwned
<1>7. LifeIsHeld'
  <2>1. \A x \in Turns : turn'[x] = "spawn" =>
         life'[session'[x]] = Launch(x) /\ session'[x] \notin stoppedSessions'
    <3>1. CASE place = "remove"
      BY <3>1, <1>0, <1>a, <1>b DEF LifeIsHeld
    <3>2. CASE place = "spawn"
      <4>1. ASSUME NEW x \in Turns, turn'[x] = "spawn", x # t
            PROVE  life'[session[x]] = Launch(x) /\ session[x] \notin stoppedSessions
        <5>1. turn[x] = "spawn"
          BY <1>b, <4>1
        <5>2. session[x] \in Turns /\ life[session[x]] = Launch(x) /\ session[x] \notin stoppedSessions
          BY <5>1, RunningTurns DEF LifeIsHeld
        <5>3. session[x] # session[t]
          BY <1>b, <3>2, <5>2
        <5> QED
          BY <1>h, <3>2, <5>2, <5>3
      <4>2. life'[session[t]] = Launch(t) /\ session[t] \notin stoppedSessions
        BY <1>0, <1>b, <1>h, <3>2
      <4> QED
        BY <1>a, <4>1, <4>2
    <3> QED
      BY <1>b, <1>g, <3>1, <3>2
  <2>2. \A s, x \in Turns : life'[s] = Launch(x) => turn'[x] = "spawn" /\ session'[x] = s
    <3>1. CASE place = "remove"
      BY <3>1, <1>0, <1>a, <1>b DEF LifeIsHeld
    <3>2. CASE place = "spawn"
      BY <3>2, <1>0, <1>a, <1>b, <1>h DEF LifeIsHeld
    <3> QED
      BY <1>b, <1>g, <3>1, <3>2
  <2>3. \A s, x \in Turns : life'[s] = Remove(x) => turn'[x] = "stopping" /\ s = Find(handle[x])
    <3>1. CASE place = "remove"
      BY <3>1, <1>0, <1>a, <1>b DEF LifeIsHeld
    <3>2. CASE place = "spawn"
      <4>1. \A s, x \in Turns : life'[s] = Remove(x) => life[s] = Remove(x)
        BY <1>h, <3>2
      <4>2. \A s, x \in Turns : life[s] = Remove(x) => turn[x] = "stopping" /\ s = Find(handle[x])
        BY DEF LifeIsHeld
      <4>3. \A x \in Turns : turn[x] = "stopping" => turn'[x] = turn[x]
        BY <1>a, <1>b
      <4> QED
        BY <4>1, <4>2, <4>3
    <3> QED
      BY <1>b, <1>g, <3>1, <3>2
  <2>4. \A s \in Turns : life'[s] = All => lock' = StopAll /\ s \in toStop'
    <3>1. CASE place = "remove"
      BY <3>1, <1>0, <1>a, <1>b DEF LifeIsHeld
    <3>2. CASE place = "spawn"
      BY <3>2, <1>0, <1>a, <1>b, <1>h DEF LifeIsHeld
    <3> QED
      BY <1>b, <1>g, <3>1, <3>2
  <2>5. \A s \in Turns : life'[s] \in Calls => s \in stoppedSessions'
    <3>1. CASE place = "remove"
      BY <3>1, <1>0, <1>a, <1>b DEF LifeIsHeld
    <3>2. CASE place = "spawn"
      BY <3>2, <1>0, <1>a, <1>b, <1>h DEF LifeIsHeld
    <3> QED
      BY <1>b, <1>g, <3>1, <3>2
  <2>6. \A s, x \in Turns : life'[s] = Remove(x) => Find(handle[x])' = Find(handle[x])
    BY <1>a, <1>d, <1>b, <1>r
  <2> QED
    BY <1>a, <2>1, <2>2, <2>3, <2>4, <2>5, <2>6 DEF LifeIsHeld
<1>8. AllAreReached'
  BY <1>0, <1>a, <1>b, <1>c, <1>d DEF AllAreReached
<1> QED
  BY <1>1, <1>2, <1>3, <1>4, <1>5, <1>6, <1>7, <1>8 DEF SessionInvariant

LEMMA SpawnKeeps ==
  ASSUME SessionInvariant, NEW t \in Turns, Spawn(t)
  PROVE  SessionInvariant'
<1> USE SessionsAssumption, IdFacts, CallFacts DEF SessionInvariant, SessionsTypeOK, Spawn,
   GoTo, turns, maps, clis, bounds
<1>0. session[t] \in Turns
  <2>1. turn[t] \notin {"new", "get", "over"}
    BY DEF Spawn
  <2> QED
    BY <2>1, RunningTurns
<1>1. SessionsTypeOK'
  BY <1>0 DEF Places
<1>2. LiveIsOwned'
  BY <1>0 DEF LiveIsOwned, Owned, LifeIsHeld, UnstoppedAreOwned
<1>3. TablesAreSound'
  BY DEF TablesAreSound, Owned
<1>4. IdsAreOwn'
  BY DEF IdsAreOwn
<1>5. SessionsAreCreated'
  BY <1>0 DEF SessionsAreCreated, Owned
<1>6. UnstoppedAreOwned'
  BY <1>0 DEF UnstoppedAreOwned, Owned, LifeIsHeld
<1>7. LifeIsHeld'
  BY <1>0 DEF LifeIsHeld, Find, Lookup, SessionsAreCreated
<1>8. AllAreReached'
  BY DEF AllAreReached, Owned, LifeIsHeld
<1> QED
  BY <1>1, <1>2, <1>3, <1>4, <1>5, <1>6, <1>7, <1>8 DEF SessionInvariant

LEMMA SpawnFailsKeeps ==
  ASSUME SessionInvariant, NEW t \in Turns, SpawnFails(t)
  PROVE  SessionInvariant'
<1> USE SessionsAssumption, IdFacts, CallFacts DEF SessionInvariant, SessionsTypeOK,
   SpawnFails, GoTo, turns, maps, clis, bounds
<1>0. session[t] \in Turns
  <2>1. turn[t] \notin {"new", "get", "over"}
    BY DEF SpawnFails
  <2> QED
    BY <2>1, RunningTurns
<1>1. SessionsTypeOK'
  BY <1>0 DEF Places
<1>2. LiveIsOwned'
  BY <1>0 DEF LiveIsOwned, Owned, LifeIsHeld, UnstoppedAreOwned
<1>3. TablesAreSound'
  BY DEF TablesAreSound, Owned
<1>4. IdsAreOwn'
  BY DEF IdsAreOwn
<1>5. SessionsAreCreated'
  BY <1>0 DEF SessionsAreCreated, Owned
<1>6. UnstoppedAreOwned'
  BY <1>0 DEF UnstoppedAreOwned, Owned, LifeIsHeld
<1>7. LifeIsHeld'
  BY <1>0 DEF LifeIsHeld, Find, Lookup, SessionsAreCreated
<1>8. AllAreReached'
  BY DEF AllAreReached, Owned, LifeIsHeld
<1> QED
  BY <1>1, <1>2, <1>3, <1>4, <1>5, <1>6, <1>7, <1>8 DEF SessionInvariant

LEMMA RegisterKeeps ==
  ASSUME SessionInvariant, NEW t \in Turns, Register(t)
  PROVE  SessionInvariant'
<1> USE SessionsAssumption, IdFacts, CallFacts DEF SessionInvariant, SessionsTypeOK, turns,
   maps, clis, bounds
<1>0. RegisterEffect(t)
  BY RegisterFacts
<1>a. /\ turn[t] = "stream" /\ lock = NoTurn /\ session[t] = t
      /\ session' = session /\ closingSessions' = closingSessions
      /\ lock' = lock /\ process' = process /\ pids' = pids /\ stoppedSessions' = stoppedSessions
      /\ cli' = cli /\ life' = life /\ halting' = halting /\ toStop' = toStop /\ missed' = missed
  BY <1>0 DEF RegisterEffect
<1>b. PICK temp \in Ids, id \in Reals :
        \/ /\ turn' = [turn EXCEPT ![t] = "remove"]
           /\ waiting' = waiting /\ mapped' = mapped /\ alias' = alias /\ handle' = handle /\ real' = real
        \/ /\ turn' = turn /\ waiting[temp] = t /\ mapped[temp] = NoTurn
           /\ mapped[id] = NoTurn /\ (waiting[id] = NoTurn \/ id = temp)
           /\ \A i \in Ids : alias[i] # id
           /\ waiting' = [waiting EXCEPT ![temp] = NoTurn] /\ mapped' = [mapped EXCEPT ![id] = t]
           /\ alias' = [alias EXCEPT ![temp] = id] /\ handle' = [handle EXCEPT ![t] = id]
           /\ real' = [real EXCEPT ![t] = id]
  BY <1>0 DEF RegisterEffect
<1>c. id \in Ids /\ id # NoId
  OBVIOUS
<1>d. \A x \in Turns : Owned(x)' <=> Owned(x)
  BY <1>b, <1>c DEF Owned
<1>e. /\ \A x \in Ids : alias'[x] = alias[x] \/ (x = temp /\ alias'[x] = id /\ mapped'[id] # NoTurn)
      /\ \A x \in Ids : mapped[x] # NoTurn => mapped'[x] # NoTurn
      /\ (\E x \in Ids : alias'[x] # alias[x]) => \A x \in Ids : alias[x] # id
  BY <1>b, <1>c
<1>f. /\ turn' \in {turn, [turn EXCEPT ![t] = "remove"]}
      /\ handle' \in {handle, [handle EXCEPT ![t] = id]}
      /\ real' \in {real, [real EXCEPT ![t] = id]}
      /\ mapped' \in {mapped, [mapped EXCEPT ![id] = t]}
      /\ waiting' \in {waiting, [waiting EXCEPT ![temp] = NoTurn]}
      /\ alias' \in {alias, [alias EXCEPT ![temp] = id]}
  BY <1>b
<1>g. mapped \in [Ids -> Turns \cup {NoTurn}] /\ alias \in [Ids -> Ids \cup {NoId}]
  OBVIOUS
<1>1. SessionsTypeOK'
  <2>1. turn' \in [Turns -> Places]
    BY <1>a, <1>c, <1>f DEF Places
  <2>2. session' \in [Turns -> Turns \cup {NoTurn}]
    BY <1>a, <1>c, <1>f DEF Places
  <2>3. handle' \in [Turns -> Ids \cup {NoId}]
    BY <1>a, <1>c, <1>f DEF Places
  <2>4. real' \in [Turns -> Ids \cup {NoId}]
    BY <1>a, <1>c, <1>f DEF Places
  <2>5. mapped' \in [Ids -> Turns \cup {NoTurn}]
    <3>1. CASE mapped' = mapped
      BY <3>1, <1>a, <1>c, <1>f DEF Places
    <3>2. CASE ~(mapped' = mapped)
      <4>1. mapped' = [mapped EXCEPT ![id] = t] /\ id \in Ids
        BY <1>c, <1>f, <3>2
      <4> HIDE DEF SessionInvariant
      <4> QED
        BY <1>g, <4>1
    <3> QED
      BY <3>1, <3>2
  <2>6. waiting' \in [Ids -> Turns \cup {NoTurn}]
    BY <1>a, <1>c, <1>f DEF Places
  <2>7. alias' \in [Ids -> Ids \cup {NoId}]
    <3>1. CASE alias' = alias
      BY <3>1, <1>a, <1>c, <1>f DEF Places
    <3>2. CASE ~(alias' = alias)
      <4>1. alias' = [alias EXCEPT ![temp] = id] /\ id \in Ids
        BY <1>c, <1>f, <3>2
      <4> HIDE DEF SessionInvariant
      <4> QED
        BY <1>g, <4>1
    <3> QED
      BY <3>1, <3>2
  <2>8. missed' \in Nat
    BY <1>a, <1>c, <1>f DEF Places
  <2>9. closingSessions' \subseteq Turns
    BY <1>a, <1>c, <1>f DEF Places
  <2>10. toStop' \subseteq Turns
    BY <1>a, <1>c, <1>f DEF Places
  <2>11. halting' \subseteq Turns
    BY <1>a, <1>c, <1>f DEF Places
  <2>12. pids' \subseteq Turns
    BY <1>a, <1>c, <1>f DEF Places
  <2>13. stoppedSessions' \subseteq Turns
    BY <1>a, <1>c, <1>f DEF Places
  <2>14. lock' \in Turns \cup {NoTurn, StopAll}
    BY <1>a, <1>c, <1>f DEF Places
  <2>15. process' \in [Turns -> {"none", "live", "dead"}]
    BY <1>a, <1>c, <1>f DEF Places
  <2>16. cli' \in [Turns -> Turns \cup {NoTurn}]
    BY <1>a, <1>c, <1>f DEF Places
  <2>17. life' \in [Turns -> Calls \cup {Launch(x) : x \in Turns} \cup {Free}]
    BY <1>a, <1>c, <1>f DEF Places
  <2>18. toStop' # {} => lock' = StopAll
    BY <1>a, <1>c, <1>f DEF Places
  <2>19. \A x \in Turns : turn'[x] = "stopping" => lock' = x
    BY <1>a, <1>c, <1>f DEF Places
  <2> QED
    BY <2>1, <2>2, <2>3, <2>4, <2>5, <2>6, <2>7, <2>8, <2>9, <2>10, <2>11, <2>12, <2>13, <2>14,
       <2>15, <2>16, <2>17, <2>18, <2>19
<1>2. LiveIsOwned'
  BY <1>a, <1>b, <1>c, <1>d DEF LiveIsOwned
<1>3. TablesAreSound'
  <2>1. \A x \in Turns : \A m, j \in Ids :
          x \in {mapped'[m], waiting'[m]} /\ x \in {mapped'[j], waiting'[j]} => m = j
    BY <1>a, <1>b, <1>c, <1>d DEF TablesAreSound, Owned
  <2>2. \A x \in Ids : alias'[x] # NoId => mapped'[alias'[x]] # NoTurn
    BY <1>e DEF TablesAreSound
  <2>3. \A m, j \in Ids : alias'[m] = alias'[j] /\ alias'[m] # NoId => m = j
    BY <1>e DEF TablesAreSound
  <2>4. \A x \in closingSessions' : Owned(x)'
    BY <1>a, <1>b, <1>c, <1>d DEF TablesAreSound
  <2> QED
    BY <2>1, <2>2, <2>3, <2>4 DEF TablesAreSound
<1>4. IdsAreOwn'
  <2>1. \A x \in Turns : real'[x] \in Reals \cup {NoId} /\ handle'[x] \in Reals \cup {NoId, Temp(x)}
    BY <1>a, <1>b, <1>c, <1>d DEF IdsAreOwn
  <2>2. \A x \in Ids : alias'[x] \in Reals \cup {NoId}
    BY <1>a, <1>b, <1>c, <1>d DEF IdsAreOwn
  <2>3. \A x \in Turns : mapped'[Temp(x)] = NoTurn /\ waiting'[Temp(x)] \in {NoTurn, x}
    BY <1>a, <1>b, <1>c, <1>d DEF IdsAreOwn
  <2> QED
    BY <2>1, <2>2, <2>3 DEF IdsAreOwn
<1>5. SessionsAreCreated'
  <2>1. \A x \in Turns : Owned(x)' => session'[x] = x
    BY <1>a, <1>b, <1>c, <1>d DEF SessionsAreCreated
  <2>2. \A x \in Turns : turn'[x] \in {"new", "get"} => session'[x] = NoTurn
    BY <1>a, <1>b, <1>c, <1>d DEF SessionsAreCreated
  <2>3. \A x \in Turns : turn'[x] \notin {"new", "get", "over"} => session'[x] # NoTurn /\ handle'[x] # NoId
    BY <1>a, <1>b, <1>c, <1>d DEF SessionsAreCreated
  <2>4. \A x \in Ids : mapped'[x] # NoTurn => waiting'[x] = NoTurn
    BY <1>a, <1>b, <1>c, <1>d DEF SessionsAreCreated
  <2> QED
    BY <2>1, <2>2, <2>3, <2>4 DEF SessionsAreCreated
<1>6. UnstoppedAreOwned'
  BY <1>a, <1>b, <1>c, <1>d DEF UnstoppedAreOwned
<1>7. LifeIsHeld'
  BY <1>a, <1>b, <1>c, <1>d DEF LifeIsHeld, Find, Lookup
<1>8. AllAreReached'
  BY <1>a, <1>b, <1>c, <1>d DEF AllAreReached
<1> QED
  BY <1>1, <1>2, <1>3, <1>4, <1>5, <1>6, <1>7, <1>8 DEF SessionInvariant

LEMMA CliFinishedKeeps ==
  ASSUME SessionInvariant, NEW t \in Turns, CliFinished(t)
  PROVE  SessionInvariant'
<1> USE SessionsAssumption, IdFacts, CallFacts DEF SessionInvariant, SessionsTypeOK,
   CliFinished, Leave, GoTo, turns, maps, clis, bounds
<1>0. session[t] \in Turns
  <2>1. turn[t] \notin {"new", "get", "over"}
    BY DEF CliFinished
  <2> QED
    BY <2>1, RunningTurns
<1>1. SessionsTypeOK'
  BY <1>0 DEF Places
<1>2. LiveIsOwned'
  BY <1>0 DEF LiveIsOwned, Owned, LifeIsHeld, UnstoppedAreOwned
<1>3. TablesAreSound'
  BY DEF TablesAreSound, Owned
<1>4. IdsAreOwn'
  BY DEF IdsAreOwn
<1>5. SessionsAreCreated'
  BY <1>0 DEF SessionsAreCreated, Owned
<1>6. UnstoppedAreOwned'
  BY <1>0 DEF UnstoppedAreOwned, Owned, LifeIsHeld
<1>7. LifeIsHeld'
  BY <1>0 DEF LifeIsHeld, Find, Lookup, SessionsAreCreated
<1>8. AllAreReached'
  BY DEF AllAreReached, Owned, LifeIsHeld
<1> QED
  BY <1>1, <1>2, <1>3, <1>4, <1>5, <1>6, <1>7, <1>8 DEF SessionInvariant

LEMMA CollectedKeeps ==
  ASSUME SessionInvariant, NEW t \in Turns, Collected(t)
  PROVE  SessionInvariant'
<1> USE SessionsAssumption, IdFacts, CallFacts DEF SessionInvariant, SessionsTypeOK, Collected,
   Leave, turns, maps, clis, bounds
<1>1. SessionsTypeOK'
  BY DEF Places
<1>2. LiveIsOwned'
  BY DEF LiveIsOwned, Owned, LifeIsHeld, UnstoppedAreOwned
<1>3. TablesAreSound'
  BY DEF TablesAreSound, Owned
<1>4. IdsAreOwn'
  BY DEF IdsAreOwn
<1>5. SessionsAreCreated'
  BY DEF SessionsAreCreated, Owned
<1>6. UnstoppedAreOwned'
  BY DEF UnstoppedAreOwned, Owned, LifeIsHeld
<1>7. LifeIsHeld'
  BY DEF LifeIsHeld, Find, Lookup, SessionsAreCreated
<1>8. AllAreReached'
  BY DEF AllAreReached, Owned, LifeIsHeld
<1> QED
  BY <1>1, <1>2, <1>3, <1>4, <1>5, <1>6, <1>7, <1>8 DEF SessionInvariant

LEMMA HaltedKeeps ==
  ASSUME SessionInvariant, NEW t \in Turns, Halted(t)
  PROVE  SessionInvariant'
<1> USE SessionsAssumption, IdFacts, CallFacts DEF SessionInvariant, SessionsTypeOK, Halted,
   GoTo, turns, maps, clis, bounds
<1>1. SessionsTypeOK'
  BY DEF Places
<1>2. LiveIsOwned'
  BY DEF LiveIsOwned, Owned, LifeIsHeld, UnstoppedAreOwned
<1>3. TablesAreSound'
  BY DEF TablesAreSound, Owned
<1>4. IdsAreOwn'
  BY DEF IdsAreOwn
<1>5. SessionsAreCreated'
  BY DEF SessionsAreCreated, Owned
<1>6. UnstoppedAreOwned'
  BY DEF UnstoppedAreOwned, Owned, LifeIsHeld
<1>7. LifeIsHeld'
  BY DEF LifeIsHeld, Find, Lookup, SessionsAreCreated
<1>8. AllAreReached'
  BY DEF AllAreReached, Owned, LifeIsHeld
<1> QED
  BY <1>1, <1>2, <1>3, <1>4, <1>5, <1>6, <1>7, <1>8 DEF SessionInvariant

LEMMA BeginRemoveKeeps ==
  ASSUME SessionInvariant, NEW t \in Turns, BeginRemove(t)
  PROVE  SessionInvariant'
<1> USE SessionsAssumption, IdFacts, CallFacts DEF SessionInvariant, SessionsTypeOK, turns,
   maps, clis, bounds
<1>0. handle[t] \in Ids /\ (Find(handle[t]) # NoTurn => Find(handle[t]) \in Turns /\ Owned(Find(handle[t])))
  <2>1. turn[t] \notin {"new", "get", "over"}
    BY DEF BeginRemove
  <2> QED
    BY <2>1, RunningTurns, LookupFacts
<1>a. /\ turn[t] = "remove" /\ lock = NoTurn
      /\ session' = session /\ handle' = handle /\ real' = real /\ mapped' = mapped /\ waiting' = waiting
      /\ alias' = alias /\ process' = process /\ cli' = cli /\ life' = life
      /\ pids' = pids /\ stoppedSessions' = stoppedSessions /\ halting' = halting /\ toStop' = toStop
      /\ missed' = missed
  BY DEF BeginRemove
<1>b. PICK place \in {"over", "stopping"} :
        /\ turn' = [turn EXCEPT ![t] = place]
        /\ \/ place = "over" /\ closingSessions' = closingSessions /\ lock' = lock
           \/ /\ place = "stopping" /\ Find(handle[t]) # NoTurn /\ lock' = t
              /\ closingSessions' = closingSessions \cup {Find(handle[t])}
  BY DEF BeginRemove, GoTo
<1>c. \A x \in Turns : Owned(x)' <=> Owned(x)
  BY <1>a DEF Owned
<1>d. \A i \in Ids : Find(i)' = Find(i)
  BY <1>a DEF Find, Lookup
<1>1. SessionsTypeOK'
  <2>1. turn' \in [Turns -> Places] /\ session' \in [Turns -> Turns \cup {NoTurn}]
    BY <1>0, <1>a, <1>b, <1>c, <1>d DEF Places
  <2>2. handle' \in [Turns -> Ids \cup {NoId}] /\ real' \in [Turns -> Ids \cup {NoId}]
    BY <1>0, <1>a, <1>b, <1>c, <1>d DEF Places
  <2>3. mapped' \in [Ids -> Turns \cup {NoTurn}] /\ waiting' \in [Ids -> Turns \cup {NoTurn}]
    BY <1>0, <1>a, <1>b, <1>c, <1>d DEF Places
  <2>4. alias' \in [Ids -> Ids \cup {NoId}] /\ missed' \in Nat
    BY <1>0, <1>a, <1>b, <1>c, <1>d DEF Places
  <2>5. closingSessions' \subseteq Turns /\ toStop' \subseteq Turns /\ halting' \subseteq Turns
    BY <1>0, <1>a, <1>b, <1>c, <1>d DEF Places
  <2>6. pids' \subseteq Turns /\ stoppedSessions' \subseteq Turns
    BY <1>0, <1>a, <1>b, <1>c, <1>d DEF Places
  <2>7. lock' \in Turns \cup {NoTurn, StopAll} /\ process' \in [Turns -> {"none", "live", "dead"}]
    BY <1>0, <1>a, <1>b, <1>c, <1>d DEF Places
  <2>8. cli' \in [Turns -> Turns \cup {NoTurn}]
    BY <1>0, <1>a, <1>b, <1>c, <1>d DEF Places
  <2>9. life' \in [Turns -> Calls \cup {Launch(x) : x \in Turns} \cup {Free}]
    BY <1>0, <1>a, <1>b, <1>c, <1>d DEF Places
  <2>10. toStop' # {} => lock' = StopAll
    BY <1>0, <1>a, <1>b, <1>c, <1>d DEF Places
  <2>11. \A x \in Turns : turn'[x] = "stopping" => lock' = x
    BY <1>0, <1>a, <1>b, <1>c, <1>d DEF Places
  <2> QED
    BY <2>1, <2>2, <2>3, <2>4, <2>5, <2>6, <2>7, <2>8, <2>9, <2>10, <2>11
<1>2. LiveIsOwned'
  BY <1>0, <1>a, <1>b, <1>c, <1>d DEF LiveIsOwned
<1>3. TablesAreSound'
  BY <1>0, <1>a, <1>b, <1>c, <1>d DEF TablesAreSound
<1>4. IdsAreOwn'
  BY <1>0, <1>a, <1>b, <1>c, <1>d DEF IdsAreOwn
<1>5. SessionsAreCreated'
  BY <1>0, <1>a, <1>b, <1>c, <1>d DEF SessionsAreCreated, Places
<1>6. UnstoppedAreOwned'
  BY <1>0, <1>a, <1>b, <1>c, <1>d DEF UnstoppedAreOwned
<1>7. LifeIsHeld'
  BY <1>0, <1>a, <1>b, <1>c, <1>d, RunningTurns DEF LifeIsHeld
<1>8. AllAreReached'
  BY <1>0, <1>a, <1>b, <1>c, <1>d DEF AllAreReached
<1> QED
  BY <1>1, <1>2, <1>3, <1>4, <1>5, <1>6, <1>7, <1>8 DEF SessionInvariant

LEMMA ExitKeeps ==
  ASSUME SessionInvariant, NEW s \in Turns, Exit(s)
  PROVE  SessionInvariant'
<1> USE SessionsAssumption, IdFacts, CallFacts DEF SessionInvariant, SessionsTypeOK, Exit,
   turns, maps, clis, bounds
<1>1. SessionsTypeOK'
  BY DEF Places
<1>2. LiveIsOwned'
  BY DEF LiveIsOwned, Owned, LifeIsHeld, UnstoppedAreOwned
<1>3. TablesAreSound'
  BY DEF TablesAreSound, Owned
<1>4. IdsAreOwn'
  BY DEF IdsAreOwn
<1>5. SessionsAreCreated'
  BY DEF SessionsAreCreated, Owned
<1>6. UnstoppedAreOwned'
  BY DEF UnstoppedAreOwned, Owned, LifeIsHeld
<1>7. LifeIsHeld'
  BY DEF LifeIsHeld, Find, Lookup, SessionsAreCreated
<1>8. AllAreReached'
  BY DEF AllAreReached, Owned, LifeIsHeld
<1> QED
  BY <1>1, <1>2, <1>3, <1>4, <1>5, <1>6, <1>7, <1>8 DEF SessionInvariant

LEMMA StopIdleKeeps ==
  ASSUME SessionInvariant, NEW k \in Calls, NEW s \in Turns, StopIdle(k, s)
  PROVE  SessionInvariant'
<1> USE SessionsAssumption, IdFacts, CallFacts DEF SessionInvariant, SessionsTypeOK, turns,
   maps, clis, bounds
<1>0. /\ k.kind = "remove" => turn[k.by] = "stopping" /\ s = Find(handle[k.by])
      /\ k.kind = "all" => lock = StopAll
  BY DEF StopIdle, Calling
<1>a. StopEffect(k, s, TRUE)
  <2>1. Stopped(k, s, TRUE)
    BY DEF StopIdle
  <2> QED
    BY <1>0, <2>1, StopFacts
<1>1. SessionsTypeOK'
  <2>1. turn' \in [Turns -> Places] /\ session' \in [Turns -> Turns \cup {NoTurn}]
    BY <1>0, <1>a DEF StopEffect, StopIdle, Places
  <2>2. handle' \in [Turns -> Ids \cup {NoId}] /\ real' \in [Turns -> Ids \cup {NoId}]
    BY <1>0, <1>a DEF StopEffect, StopIdle, Places
  <2>3. mapped' \in [Ids -> Turns \cup {NoTurn}] /\ waiting' \in [Ids -> Turns \cup {NoTurn}]
    BY <1>0, <1>a DEF StopEffect, StopIdle, Places
  <2>4. alias' \in [Ids -> Ids \cup {NoId}] /\ missed' \in Nat
    BY <1>0, <1>a DEF StopEffect, StopIdle, Places
  <2>5. closingSessions' \subseteq Turns /\ toStop' \subseteq Turns /\ halting' \subseteq Turns
    BY <1>0, <1>a DEF StopEffect, StopIdle, Places
  <2>6. pids' \subseteq Turns /\ stoppedSessions' \subseteq Turns
    BY <1>0, <1>a DEF StopEffect, StopIdle, Places
  <2>7. lock' \in Turns \cup {NoTurn, StopAll} /\ process' \in [Turns -> {"none", "live", "dead"}]
    BY <1>0, <1>a DEF StopEffect, StopIdle, Places
  <2>8. cli' \in [Turns -> Turns \cup {NoTurn}]
    BY <1>0, <1>a DEF StopEffect, StopIdle, Places
  <2>9. life' \in [Turns -> Calls \cup {Launch(x) : x \in Turns} \cup {Free}]
    BY <1>0, <1>a DEF StopEffect, StopIdle, Places
  <2>10. toStop' # {} => lock' = StopAll
    BY <1>0, <1>a DEF StopEffect, StopIdle, Places
  <2>11. \A x \in Turns : turn'[x] = "stopping" => lock' = x
    BY <1>0, <1>a DEF StopEffect, StopIdle, Places
  <2> QED
    BY <2>1, <2>2, <2>3, <2>4, <2>5, <2>6, <2>7, <2>8, <2>9, <2>10, <2>11
<1>2. LiveIsOwned'
  BY <1>0, <1>a DEF StopEffect, StopIdle, LiveIsOwned
<1>3. TablesAreSound'
  BY <1>a DEF StopEffect
<1>4. IdsAreOwn'
  BY <1>a DEF StopEffect, StopIdle, IdsAreOwn
<1>5. SessionsAreCreated'
  BY <1>0, <1>a DEF StopEffect, StopIdle, SessionsAreCreated
<1>6. UnstoppedAreOwned'
  BY <1>0, <1>a DEF StopEffect, StopIdle, UnstoppedAreOwned
<1>7. LifeIsHeld'
  BY <1>0, <1>a DEF StopEffect, StopIdle, LifeIsHeld, Find, Lookup
<1>8. AllAreReached'
  BY <1>0, <1>a DEF StopEffect, StopIdle, AllAreReached
<1> QED
  BY <1>1, <1>2, <1>3, <1>4, <1>5, <1>6, <1>7, <1>8 DEF SessionInvariant

LEMMA KillKeeps ==
  ASSUME SessionInvariant, NEW k \in Calls, NEW s \in Turns, Kill(k, s)
  PROVE  SessionInvariant'
<1> USE SessionsAssumption, IdFacts, CallFacts DEF SessionInvariant, SessionsTypeOK, Kill,
   Calling, turns, maps, clis, bounds
<1>1. SessionsTypeOK'
  BY DEF Places
<1>2. LiveIsOwned'
  BY DEF LiveIsOwned, Owned, LifeIsHeld, UnstoppedAreOwned
<1>3. TablesAreSound'
  BY DEF TablesAreSound, Owned
<1>4. IdsAreOwn'
  BY DEF IdsAreOwn
<1>5. SessionsAreCreated'
  BY DEF SessionsAreCreated, Owned
<1>6. UnstoppedAreOwned'
  BY DEF UnstoppedAreOwned, Owned, LifeIsHeld
<1>7. LifeIsHeld'
  BY DEF LifeIsHeld, Find, Lookup, SessionsAreCreated
<1>8. AllAreReached'
  BY DEF AllAreReached, Owned, LifeIsHeld
<1> QED
  BY <1>1, <1>2, <1>3, <1>4, <1>5, <1>6, <1>7, <1>8 DEF SessionInvariant

LEMMA KilledKeeps ==
  ASSUME SessionInvariant, NEW k \in Calls, NEW s \in Turns, Killed(k, s)
  PROVE  SessionInvariant'
<1> USE SessionsAssumption, IdFacts, CallFacts DEF SessionInvariant, SessionsTypeOK, turns,
   maps, clis, bounds
<1>0. /\ k.kind = "remove" => turn[k.by] = "stopping" /\ s = Find(handle[k.by])
      /\ k.kind = "all" => lock = StopAll
  BY DEF Killed, LifeIsHeld
<1>a. StopEffect(k, s, TRUE)
  <2>1. Stopped(k, s, TRUE)
    BY DEF Killed
  <2> QED
    BY <1>0, <2>1, StopFacts
<1>1. SessionsTypeOK'
  <2>1. turn' \in [Turns -> Places] /\ session' \in [Turns -> Turns \cup {NoTurn}]
    BY <1>0, <1>a DEF StopEffect, Killed, Places
  <2>2. handle' \in [Turns -> Ids \cup {NoId}] /\ real' \in [Turns -> Ids \cup {NoId}]
    BY <1>0, <1>a DEF StopEffect, Killed, Places
  <2>3. mapped' \in [Ids -> Turns \cup {NoTurn}] /\ waiting' \in [Ids -> Turns \cup {NoTurn}]
    BY <1>0, <1>a DEF StopEffect, Killed, Places
  <2>4. alias' \in [Ids -> Ids \cup {NoId}] /\ missed' \in Nat
    BY <1>0, <1>a DEF StopEffect, Killed, Places
  <2>5. closingSessions' \subseteq Turns /\ toStop' \subseteq Turns /\ halting' \subseteq Turns
    BY <1>0, <1>a DEF StopEffect, Killed, Places
  <2>6. pids' \subseteq Turns /\ stoppedSessions' \subseteq Turns
    BY <1>0, <1>a DEF StopEffect, Killed, Places
  <2>7. lock' \in Turns \cup {NoTurn, StopAll} /\ process' \in [Turns -> {"none", "live", "dead"}]
    BY <1>0, <1>a DEF StopEffect, Killed, Places
  <2>8. cli' \in [Turns -> Turns \cup {NoTurn}]
    BY <1>0, <1>a DEF StopEffect, Killed, Places
  <2>9. life' \in [Turns -> Calls \cup {Launch(x) : x \in Turns} \cup {Free}]
    BY <1>0, <1>a DEF StopEffect, Killed, Places
  <2>10. toStop' # {} => lock' = StopAll
    BY <1>0, <1>a DEF StopEffect, Killed, Places
  <2>11. \A x \in Turns : turn'[x] = "stopping" => lock' = x
    BY <1>0, <1>a DEF StopEffect, Killed, Places
  <2> QED
    BY <2>1, <2>2, <2>3, <2>4, <2>5, <2>6, <2>7, <2>8, <2>9, <2>10, <2>11
<1>2. LiveIsOwned'
  BY <1>0, <1>a DEF StopEffect, Killed, LiveIsOwned
<1>3. TablesAreSound'
  BY <1>a DEF StopEffect
<1>4. IdsAreOwn'
  BY <1>a DEF StopEffect, Killed, IdsAreOwn
<1>5. SessionsAreCreated'
  <2>1. \A x \in Turns : Owned(x)' => session'[x] = x
    BY <1>0, <1>a DEF StopEffect, Killed, SessionsAreCreated, Places
  <2>2. \A x \in Turns : turn'[x] \in {"new", "get"} => session'[x] = NoTurn
    BY <1>0, <1>a DEF StopEffect, Killed, SessionsAreCreated, Places
  <2>3. \A x \in Turns : turn'[x] \notin {"new", "get", "over"} => session'[x] # NoTurn /\ handle'[x] # NoId
    BY <1>0, <1>a DEF StopEffect, Killed, SessionsAreCreated, Places
  <2>4. \A x \in Ids : mapped'[x] # NoTurn => waiting'[x] = NoTurn
    BY <1>a DEF StopEffect
  <2> QED
    BY <2>1, <2>2, <2>3, <2>4 DEF SessionsAreCreated
<1>6. UnstoppedAreOwned'
  BY <1>0, <1>a DEF StopEffect, Killed, UnstoppedAreOwned, LifeIsHeld
<1>7. LifeIsHeld'
  BY <1>0, <1>a DEF StopEffect, Killed, LifeIsHeld, Find, Lookup
<1>8. AllAreReached'
  BY <1>0, <1>a DEF StopEffect, Killed, AllAreReached
<1> QED
  BY <1>1, <1>2, <1>3, <1>4, <1>5, <1>6, <1>7, <1>8 DEF SessionInvariant

LEMMA KillFailsKeeps ==
  ASSUME SessionInvariant, NEW k \in Calls, NEW s \in Turns, KillFails(k, s)
  PROVE  SessionInvariant'
<1> USE SessionsAssumption, IdFacts, CallFacts DEF SessionInvariant, SessionsTypeOK, turns,
   maps, clis, bounds
<1>0. /\ k.kind = "remove" => turn[k.by] = "stopping" /\ s = Find(handle[k.by])
      /\ k.kind = "all" => lock = StopAll
  BY DEF KillFails, LifeIsHeld
<1>a. StopEffect(k, s, FALSE)
  <2>1. Stopped(k, s, FALSE)
    BY DEF KillFails
  <2> QED
    BY <1>0, <2>1, StopFacts
<1>1. SessionsTypeOK'
  <2>1. turn' \in [Turns -> Places] /\ session' \in [Turns -> Turns \cup {NoTurn}]
    BY <1>0, <1>a DEF StopEffect, KillFails, Places
  <2>2. handle' \in [Turns -> Ids \cup {NoId}] /\ real' \in [Turns -> Ids \cup {NoId}]
    BY <1>0, <1>a DEF StopEffect, KillFails, Places
  <2>3. mapped' \in [Ids -> Turns \cup {NoTurn}] /\ waiting' \in [Ids -> Turns \cup {NoTurn}]
    BY <1>0, <1>a DEF StopEffect, KillFails, Places
  <2>4. alias' \in [Ids -> Ids \cup {NoId}] /\ missed' \in Nat
    BY <1>0, <1>a DEF StopEffect, KillFails, Places
  <2>5. closingSessions' \subseteq Turns /\ toStop' \subseteq Turns /\ halting' \subseteq Turns
    BY <1>0, <1>a DEF StopEffect, KillFails, Places
  <2>6. pids' \subseteq Turns /\ stoppedSessions' \subseteq Turns
    BY <1>0, <1>a DEF StopEffect, KillFails, Places
  <2>7. lock' \in Turns \cup {NoTurn, StopAll} /\ process' \in [Turns -> {"none", "live", "dead"}]
    BY <1>0, <1>a DEF StopEffect, KillFails, Places
  <2>8. cli' \in [Turns -> Turns \cup {NoTurn}]
    BY <1>0, <1>a DEF StopEffect, KillFails, Places
  <2>9. life' \in [Turns -> Calls \cup {Launch(x) : x \in Turns} \cup {Free}]
    BY <1>0, <1>a DEF StopEffect, KillFails, Places
  <2>10. toStop' # {} => lock' = StopAll
    BY <1>0, <1>a DEF StopEffect, KillFails, Places
  <2>11. \A x \in Turns : turn'[x] = "stopping" => lock' = x
    BY <1>0, <1>a DEF StopEffect, KillFails, Places
  <2> QED
    BY <2>1, <2>2, <2>3, <2>4, <2>5, <2>6, <2>7, <2>8, <2>9, <2>10, <2>11
<1>2. LiveIsOwned'
  BY <1>0, <1>a DEF StopEffect, KillFails, LiveIsOwned
<1>3. TablesAreSound'
  BY <1>a DEF StopEffect
<1>4. IdsAreOwn'
  BY <1>a DEF StopEffect, KillFails, IdsAreOwn
<1>5. SessionsAreCreated'
  <2>1. \A x \in Turns : Owned(x)' => session'[x] = x
    BY <1>0, <1>a DEF StopEffect, KillFails, SessionsAreCreated, Places
  <2>2. \A x \in Turns : turn'[x] \in {"new", "get"} => session'[x] = NoTurn
    BY <1>0, <1>a DEF StopEffect, KillFails, SessionsAreCreated, Places
  <2>3. \A x \in Turns : turn'[x] \notin {"new", "get", "over"} => session'[x] # NoTurn /\ handle'[x] # NoId
    BY <1>0, <1>a DEF StopEffect, KillFails, SessionsAreCreated, Places
  <2>4. \A x \in Ids : mapped'[x] # NoTurn => waiting'[x] = NoTurn
    BY <1>a DEF StopEffect
  <2> QED
    BY <2>1, <2>2, <2>3, <2>4 DEF SessionsAreCreated
<1>6. UnstoppedAreOwned'
  BY <1>0, <1>a DEF StopEffect, KillFails, UnstoppedAreOwned, LifeIsHeld
<1>7. LifeIsHeld'
  BY <1>0, <1>a DEF StopEffect, KillFails, LifeIsHeld, Find, Lookup
<1>8. AllAreReached'
  BY <1>0, <1>a DEF StopEffect, KillFails, AllAreReached
<1> QED
  BY <1>1, <1>2, <1>3, <1>4, <1>5, <1>6, <1>7, <1>8 DEF SessionInvariant

LEMMA BeginStopAllKeeps ==
  ASSUME SessionInvariant, BeginStopAll
  PROVE  SessionInvariant'
<1> USE SessionsAssumption, IdFacts, CallFacts DEF SessionInvariant, SessionsTypeOK,
   BeginStopAll, turns, maps, clis, bounds
<1>1. SessionsTypeOK'
  BY DEF Places
<1>2. LiveIsOwned'
  BY DEF LiveIsOwned, Owned, LifeIsHeld, UnstoppedAreOwned
<1>3. TablesAreSound'
  BY DEF TablesAreSound, Owned
<1>4. IdsAreOwn'
  BY DEF IdsAreOwn
<1>5. SessionsAreCreated'
  BY DEF SessionsAreCreated, Owned
<1>6. UnstoppedAreOwned'
  BY DEF UnstoppedAreOwned, Owned, LifeIsHeld
<1>7. LifeIsHeld'
  BY DEF LifeIsHeld, Find, Lookup, SessionsAreCreated
<1>8. AllAreReached'
  BY DEF AllAreReached, Owned, LifeIsHeld
<1> QED
  BY <1>1, <1>2, <1>3, <1>4, <1>5, <1>6, <1>7, <1>8 DEF SessionInvariant

LEMMA EndStopAllKeeps ==
  ASSUME SessionInvariant, EndStopAll
  PROVE  SessionInvariant'
<1> USE SessionsAssumption, IdFacts, CallFacts DEF SessionInvariant, SessionsTypeOK,
   EndStopAll, turns, maps, clis, bounds
<1>1. SessionsTypeOK'
  BY DEF Places
<1>2. LiveIsOwned'
  BY DEF LiveIsOwned, Owned, LifeIsHeld, UnstoppedAreOwned
<1>3. TablesAreSound'
  BY DEF TablesAreSound, Owned
<1>4. IdsAreOwn'
  BY DEF IdsAreOwn
<1>5. SessionsAreCreated'
  BY DEF SessionsAreCreated, Owned
<1>6. UnstoppedAreOwned'
  BY DEF UnstoppedAreOwned, Owned, LifeIsHeld
<1>7. LifeIsHeld'
  BY DEF LifeIsHeld, Find, Lookup, SessionsAreCreated
<1>8. AllAreReached'
  BY DEF AllAreReached, Owned, LifeIsHeld
<1> QED
  BY <1>1, <1>2, <1>3, <1>4, <1>5, <1>6, <1>7, <1>8 DEF SessionInvariant

LEMMA CancelTurnKeeps ==
  ASSUME SessionInvariant, NEW t \in Turns, CancelTurn(t)
  PROVE  SessionInvariant'
<1> USE SessionsAssumption, IdFacts, CallFacts DEF SessionInvariant, SessionsTypeOK, turns,
   maps, clis, bounds
<1>a. /\ turn[t] \notin {"new", "spawn", "over"}
      /\ session' = session /\ handle' = handle /\ real' = real /\ mapped' = mapped /\ waiting' = waiting
      /\ alias' = alias /\ closingSessions' = closingSessions /\ process' = process
      /\ stoppedSessions' = stoppedSessions /\ toStop' = toStop /\ missed' = missed
  BY DEF CancelTurn
<1>0. turn[t] = "drain" => session[t] \in Turns
  BY RunningTurns
<1>b. PICK place \in {"over", "remove", "halt", "drain"} :
        /\ turn' = [turn EXCEPT ![t] = place]
        /\ turn[t] \in {"get", "stopping"} => place = "over"
  BY DEF CancelTurn, GoTo
<1>e. halting' \in {halting, halting \cup {t}}
  BY DEF CancelTurn
<1>f. \/ cli' = cli /\ pids' = pids
      \/ /\ turn[t] = "drain" /\ cli' = [cli EXCEPT ![session[t]] = NoTurn]
         /\ pids' = IF process[session[t]] = "dead" THEN pids \ {session[t]} ELSE pids
  BY DEF CancelTurn, Leave
<1>g. \/ turn[t] # "stopping" /\ lock' = lock /\ life' = life
      \/ /\ turn[t] = "stopping" /\ lock' = NoTurn
         /\ life' = [x \in Turns |-> IF life[x] = Remove(t) THEN Free ELSE life[x]]
  BY DEF CancelTurn
<1>c. \A x \in Turns : Owned(x)' <=> Owned(x)
  BY <1>a DEF Owned
<1>d. \A i \in Ids : Find(i)' = Find(i)
  BY <1>a DEF Find, Lookup
<1>r. \A s, x \in Turns : life[s] = Remove(x) => handle[x] \in Ids
  <2>1. \A s, x \in Turns : life[s] = Remove(x) => turn[x] \notin {"new", "get", "over"}
    BY DEF LifeIsHeld
  <2> QED
    BY <2>1, RunningTurns
<1>h. turn[t] = "stopping" => \A x \in Turns : life'[x] = (IF life[x] = Remove(t) THEN Free ELSE life[x])
  BY <1>g
<1>i. turn[t] = "stopping" => lock = t /\ lock' = NoTurn /\ place = "over"
  BY <1>b, <1>g
<1>1. SessionsTypeOK'
  <2>1. turn' \in [Turns -> Places] /\ session' \in [Turns -> Turns \cup {NoTurn}]
    BY <1>0, <1>a, <1>b, <1>c, <1>d, <1>e, <1>f, <1>g DEF Places
  <2>2. handle' \in [Turns -> Ids \cup {NoId}] /\ real' \in [Turns -> Ids \cup {NoId}]
    BY <1>0, <1>a, <1>b, <1>c, <1>d, <1>e, <1>f, <1>g DEF Places
  <2>3. mapped' \in [Ids -> Turns \cup {NoTurn}] /\ waiting' \in [Ids -> Turns \cup {NoTurn}]
    BY <1>0, <1>a, <1>b, <1>c, <1>d, <1>e, <1>f, <1>g DEF Places
  <2>4. alias' \in [Ids -> Ids \cup {NoId}] /\ missed' \in Nat
    BY <1>0, <1>a, <1>b, <1>c, <1>d, <1>e, <1>f, <1>g DEF Places
  <2>5. closingSessions' \subseteq Turns /\ toStop' \subseteq Turns /\ halting' \subseteq Turns
    BY <1>0, <1>a, <1>b, <1>c, <1>d, <1>e, <1>f, <1>g DEF Places
  <2>6. pids' \subseteq Turns /\ stoppedSessions' \subseteq Turns
    BY <1>0, <1>a, <1>b, <1>c, <1>d, <1>e, <1>f, <1>g DEF Places
  <2>7. lock' \in Turns \cup {NoTurn, StopAll} /\ process' \in [Turns -> {"none", "live", "dead"}]
    BY <1>0, <1>a, <1>b, <1>c, <1>d, <1>e, <1>f, <1>g DEF Places
  <2>8. cli' \in [Turns -> Turns \cup {NoTurn}]
    <3>1. CASE cli' = cli
      BY <3>1
    <3>2. ASSUME NEW s \in Turns, cli' = [cli EXCEPT ![s] = NoTurn] PROVE cli' \in [Turns -> Turns \cup {NoTurn}]
      BY <3>2
    <3> QED
      BY <1>0, <1>f, <3>1, <3>2
  <2>9. life' \in [Turns -> Calls \cup {Launch(x) : x \in Turns} \cup {Free}]
    BY <1>0, <1>a, <1>b, <1>c, <1>d, <1>e, <1>f, <1>g DEF Places
  <2>10. toStop' # {} => lock' = StopAll
    BY <1>0, <1>a, <1>b, <1>c, <1>d, <1>e, <1>f, <1>g DEF Places
  <2>11. \A x \in Turns : turn'[x] = "stopping" => lock' = x
    BY <1>0, <1>a, <1>b, <1>c, <1>d, <1>e, <1>f, <1>g DEF Places
  <2> QED
    BY <2>1, <2>2, <2>3, <2>4, <2>5, <2>6, <2>7, <2>8, <2>9, <2>10, <2>11
<1>2. LiveIsOwned'
  BY <1>0, <1>a, <1>b, <1>c, <1>d, <1>e, <1>f, <1>g DEF LiveIsOwned
<1>3. TablesAreSound'
  BY <1>0, <1>a, <1>b, <1>c, <1>d, <1>e, <1>f, <1>g DEF TablesAreSound
<1>4. IdsAreOwn'
  BY <1>0, <1>a, <1>b, <1>c, <1>d, <1>e, <1>f, <1>g DEF IdsAreOwn
<1>5. SessionsAreCreated'
  BY <1>0, <1>a, <1>b, <1>c, <1>d, <1>e, <1>f, <1>g DEF SessionsAreCreated, Places
<1>6. UnstoppedAreOwned'
  BY <1>0, <1>a, <1>b, <1>c, <1>d, <1>e, <1>f, <1>g DEF UnstoppedAreOwned
<1>7. LifeIsHeld'
  <2>1. \A x \in Turns : turn'[x] = "spawn" =>
         life'[session'[x]] = Launch(x) /\ session'[x] \notin stoppedSessions'
    <3>1. CASE turn[t] # "stopping"
      BY <3>1, <1>0, <1>a, <1>b, <1>g DEF LifeIsHeld
    <3>2. CASE turn[t] = "stopping"
      <4>1. ASSUME NEW x \in Turns, turn'[x] = "spawn"
            PROVE  life'[session[x]] = Launch(x) /\ session[x] \notin stoppedSessions
        <5>1. turn[x] = "spawn"
          BY <1>b, <1>i, <3>2, <4>1
        <5>2. session[x] \in Turns /\ life[session[x]] = Launch(x) /\ session[x] \notin stoppedSessions
          BY <5>1, RunningTurns DEF LifeIsHeld
        <5>3. Launch(x) # Remove(t)
          OBVIOUS
        <5> QED
          BY <1>h, <3>2, <5>2, <5>3
      <4> QED
        BY <1>a, <4>1
    <3> QED
      BY <1>b, <1>g, <3>1, <3>2
  <2>2. \A s, x \in Turns : life'[s] = Launch(x) => turn'[x] = "spawn" /\ session'[x] = s
    <3>1. CASE turn[t] # "stopping"
      BY <3>1, <1>0, <1>a, <1>b, <1>g DEF LifeIsHeld
    <3>2. CASE turn[t] = "stopping"
      BY <3>2, <1>a, <1>b, <1>h, <1>i DEF LifeIsHeld
    <3> QED
      BY <1>b, <1>g, <3>1, <3>2
  <2>3. \A s, x \in Turns : life'[s] = Remove(x) => turn'[x] = "stopping" /\ s = Find(handle[x])
    <3>1. CASE turn[t] # "stopping"
      BY <3>1, <1>0, <1>a, <1>b, <1>g DEF LifeIsHeld
    <3>2. CASE turn[t] = "stopping"
      <4>1. \A s, x \in Turns : life'[s] = Remove(x) => life[s] = Remove(x) /\ x # t
        BY <1>h, <3>2
      <4>2. \A s, x \in Turns : life[s] = Remove(x) => turn[x] = "stopping" /\ s = Find(handle[x])
        BY DEF LifeIsHeld
      <4>3. \A x \in Turns : x # t => turn'[x] = turn[x]
        BY <1>b
      <4> QED
        BY <4>1, <4>2, <4>3
    <3> QED
      BY <1>b, <1>g, <3>1, <3>2
  <2>4. \A s \in Turns : life'[s] = All => lock' = StopAll /\ s \in toStop'
    <3>1. CASE turn[t] # "stopping"
      BY <3>1, <1>0, <1>a, <1>b, <1>g DEF LifeIsHeld
    <3>2. CASE turn[t] = "stopping"
      BY <3>2, <1>a, <1>b, <1>h, <1>i DEF LifeIsHeld
    <3> QED
      BY <1>b, <1>g, <3>1, <3>2
  <2>5. \A s \in Turns : life'[s] \in Calls => s \in stoppedSessions'
    <3>1. CASE turn[t] # "stopping"
      BY <3>1, <1>0, <1>a, <1>b, <1>g DEF LifeIsHeld
    <3>2. CASE turn[t] = "stopping"
      BY <3>2, <1>a, <1>b, <1>h, <1>i DEF LifeIsHeld
    <3> QED
      BY <1>b, <1>g, <3>1, <3>2
  <2>6. \A s, x \in Turns : life'[s] = Remove(x) => Find(handle[x])' = Find(handle[x])
    BY <1>a, <1>d, <1>g, <1>r
  <2> QED
    BY <1>a, <2>1, <2>2, <2>3, <2>4, <2>5, <2>6 DEF LifeIsHeld
<1>8. AllAreReached'
  BY <1>0, <1>a, <1>b, <1>c, <1>d, <1>e, <1>f, <1>g DEF AllAreReached
<1> QED
  BY <1>1, <1>2, <1>3, <1>4, <1>5, <1>6, <1>7, <1>8 DEF SessionInvariant

LEMMA SessionsBegin == SessionsInit => SessionInvariant
<1> SUFFICES ASSUME SessionsInit PROVE SessionInvariant
  OBVIOUS
<1> USE SessionsAssumption, IdFacts, CallFacts DEF SessionsInit
<1>0. \A s \in Turns : ~Owned(s)
  BY DEF Owned
<1>1. SessionsTypeOK
  BY DEF SessionsTypeOK, Places
<1>2. LiveIsOwned
  BY DEF LiveIsOwned
<1>3. TablesAreSound
  BY DEF TablesAreSound
<1>4. IdsAreOwn
  BY DEF IdsAreOwn
<1>5. SessionsAreCreated
  BY <1>0 DEF SessionsAreCreated
<1>6. UnstoppedAreOwned
  BY DEF UnstoppedAreOwned
<1>7. LifeIsHeld
  BY DEF LifeIsHeld
<1>8. AllAreReached
  BY DEF AllAreReached
<1> QED
  BY <1>1, <1>2, <1>3, <1>4, <1>5, <1>6, <1>7, <1>8 DEF SessionInvariant

LEMMA SessionsIdle ==
  ASSUME SessionInvariant, UNCHANGED sessionsVars
  PROVE  SessionInvariant'
<1> USE DEF SessionInvariant, sessionsVars, turns, maps, clis, bounds
<1>1. SessionsTypeOK'
  BY DEF SessionsTypeOK
<1>2. LiveIsOwned'
  BY DEF LiveIsOwned, Owned
<1>3. TablesAreSound'
  BY DEF TablesAreSound, Owned
<1>4. IdsAreOwn'
  BY DEF IdsAreOwn
<1>5. SessionsAreCreated'
  BY DEF SessionsAreCreated, Owned
<1>6. UnstoppedAreOwned'
  BY DEF UnstoppedAreOwned, Owned
<1>7. LifeIsHeld'
  BY DEF LifeIsHeld, Find, Lookup
<1>8. AllAreReached'
  BY DEF AllAreReached, Owned
<1> QED
  BY <1>1, <1>2, <1>3, <1>4, <1>5, <1>6, <1>7, <1>8 DEF SessionInvariant

LEMMA SessionStepKeeps ==
  ASSUME SessionInvariant, [SessionsNext]_sessionsVars
  PROVE  SessionInvariant'
<1>1. ASSUME NEW t \in Turns, Progress(t) PROVE SessionInvariant'
  BY <1>1, BeginKeeps, GetKeeps, StartKeeps, SpawnKeeps, SpawnFailsKeeps, RegisterKeeps,
     CliFinishedKeeps,
     CollectedKeeps, HaltedKeeps, BeginRemoveKeeps DEF Progress
<1>2. ASSUME NEW k \in Calls, NEW s \in Turns, Stop(k, s) PROVE SessionInvariant'
  BY <1>2, StopIdleKeeps, KillKeeps, KilledKeeps, KillFailsKeeps DEF Stop
<1>3. CASE Stopping
  BY <1>2, <1>3, EndStopAllKeeps DEF Stopping
<1>4. CASE Rest \/ UNCHANGED sessionsVars
  BY <1>4, SessionsIdle DEF Rest
<1> QED
  BY <1>1, <1>3, <1>4, ExitKeeps, CancelTurnKeeps, BeginStopAllKeeps DEF SessionsNext

LEMMA SessionsStayInvariant == SessionsSpec => []SessionInvariant
<1>1. SessionInvariant /\ [SessionsNext]_sessionsVars => SessionInvariant'
  BY SessionStepKeeps
<1> QED
  BY <1>1, SessionsBegin, PTL DEF SessionsSpec

\* Whatever is stopped, cancelled or fails, and however many turns share sessions: a
\* live CLI is owned by the manager, and the tables of the sessions agree.
THEOREM SessionsStayOwned == SessionsSpec => []SessionsAreOwned
<1>1. ASSUME SessionInvariant PROVE SessionsAreOwned
  <2>1. ASSUME NEW s \in Turns
        PROVE  Cardinality({i \in Ids : mapped[i] = s} \cup {i \in Ids : waiting[i] = s}) <= 1
    <3> DEFINE Names == {i \in Ids : mapped[i] = s} \cup {i \in Ids : waiting[i] = s}
    <3>1. \A i, j \in Names : i = j
      BY <1>1 DEF SessionInvariant, TablesAreSound
    <3>2. CASE Names = {}
      <4>1. Cardinality(Names) = 0
        BY <3>2, FS_EmptySet
      <4> QED
        BY <4>1
    <3>3. CASE Names # {}
      <4>1. PICK i \in Names : Names = {i}
        BY <3>1, <3>3
      <4>2. Cardinality(Names) = 1
        BY <4>1, FS_Singleton
      <4> QED
        BY <4>2
    <3> QED
      BY <3>2, <3>3
  <2> QED
    BY <1>1, <2>1 DEF SessionInvariant, SessionsAreOwned, TablesAgree, TablesAreSound
<1> QED
  BY <1>1, SessionsStayInvariant, PTL

\* A launch that goes on is of a session no stop has reached.
LEMMA LaunchesAreUnstopped ==
  ASSUME SessionInvariant, [SessionsNext]_sessionsVars, NEW s \in Turns, s \in stoppedSessions
  PROVE  ~(process[s] # "live" /\ process'[s] = "live")
<1> USE DEF SessionInvariant, SessionsTypeOK, turns, maps, clis, bounds
<1>1. ASSUME NEW t \in Turns, Spawn(t) PROVE ~(process[s] # "live" /\ process'[s] = "live")
  <2>1. session[t] # s
    BY <1>1 DEF Spawn, LifeIsHeld
  <2> QED
    BY <1>1, <2>1 DEF Spawn
<1>2. ASSUME NEW t \in Turns, Progress(t), ~Spawn(t) PROVE process' = process
  BY <1>2 DEF Progress, Begin, Get, Start, SpawnFails, Register, CliFinished, Collected,
     Halted, BeginRemove
<1>3. ASSUME NEW t \in Turns, Exit(t) PROVE ~(process[s] # "live" /\ process'[s] = "live")
  BY <1>3 DEF Exit
<1>4. ASSUME NEW t \in Turns, CancelTurn(t) PROVE process' = process
  BY <1>4 DEF CancelTurn
<1>5. ASSUME NEW k \in Calls, NEW x \in Turns, Stop(k, x) PROVE process' = process
  BY <1>5 DEF Stop, StopIdle, Kill, Killed, KillFails
<1>6. CASE EndStopAll \/ BeginStopAll \/ Rest \/ UNCHANGED sessionsVars
  BY <1>6 DEF EndStopAll, BeginStopAll, Rest, sessionsVars
<1>7. CASE \E t \in Turns : Progress(t)
  BY <1>1, <1>2, <1>7
<1>8. CASE \E t \in Turns : Exit(t) \/ CancelTurn(t)
  BY <1>3, <1>4, <1>8
<1>9. CASE \E k \in Calls, x \in Turns : Stop(k, x)
  BY <1>5, <1>9
<1> QED
  BY <1>6, <1>7, <1>8, <1>9 DEF SessionsNext, Stopping

\* Only stop_all gives its lock back.
LEMMA OnlyItsEndEndsStopAll ==
  ASSUME SessionInvariant, [SessionsNext]_sessionsVars, lock = StopAll, lock' = NoTurn
  PROVE  EndStopAll
<1> USE SessionsAssumption, CallFacts DEF SessionInvariant, SessionsTypeOK, turns, maps, clis,
   bounds
<1>1. ASSUME NEW t \in Turns, Progress(t) PROVE lock' = lock
  BY <1>1 DEF Progress, Begin, Get, Start, Spawn, SpawnFails, Register, CliFinished, Collected,
     Halted, BeginRemove
<1>2. ASSUME NEW t \in Turns, Exit(t) \/ CancelTurn(t) PROVE lock' = lock
  BY <1>2 DEF Exit, CancelTurn
<1>3. ASSUME NEW k \in Calls, NEW s \in Turns, Stop(k, s) PROVE lock' = lock
  <2>1. CASE Kill(k, s)
    BY <2>1 DEF Kill
  <2>2. CASE k.kind = "remove" /\ ~Kill(k, s)
    <3>1. k.by \in Turns /\ k = Remove(k.by)
      BY <2>2
    <3>2. turn[k.by] = "stopping"
      <4>1. CASE StopIdle(k, s)
        BY <2>2, <4>1 DEF StopIdle, Calling
      <4>2. CASE life[s] = k
        BY <3>1, <4>2 DEF LifeIsHeld
      <4> QED
        BY <1>3, <2>2, <4>1, <4>2 DEF Stop, Killed, KillFails
    <3> QED
      BY <3>1, <3>2
  <2>3. CASE k.kind # "remove" /\ ~Kill(k, s)
    BY <1>3, <2>3 DEF Stop, StopIdle, Killed, KillFails, Stopped
  <2> QED
    BY <2>1, <2>2, <2>3
<1>4. CASE BeginStopAll \/ Rest \/ UNCHANGED sessionsVars
  BY <1>4 DEF BeginStopAll, Rest, sessionsVars
<1> QED
  BY <1>1, <1>2, <1>3, <1>4 DEF SessionsNext, Stopping

\* A session a stop has reached launches no CLI again; a global stop that reports
\* success leaves no CLI, nothing to launch one with and nothing owned.
THEOREM StopsStayFinal == SessionsSpec => StopsAreFinal
<1>1. SessionInvariant /\ [SessionsNext]_sessionsVars =>
        [\A s \in Turns : s \in stoppedSessions =>
           ~(process[s] # "live" /\ process'[s] = "live")]_sessionsVars
  BY LaunchesAreUnstopped
<1>2. SessionInvariant /\ [SessionsNext]_sessionsVars =>
        [lock = StopAll /\ lock' = NoTurn /\ missed = 0 =>
           \A s \in Turns : ~Owned(s) /\ process[s] # "live" /\ life[s].kind # "launch"]_sessionsVars
  <2> SUFFICES ASSUME SessionInvariant, [SessionsNext]_sessionsVars, lock = StopAll, lock' = NoTurn,
                      missed = 0, NEW s \in Turns
               PROVE  ~Owned(s) /\ process[s] # "live" /\ life[s].kind # "launch"
    OBVIOUS
  <2>1. toStop = {}
    BY OnlyItsEndEndsStopAll DEF EndStopAll
  <2>2. ~Owned(s)
    BY <2>1 DEF SessionInvariant, AllAreReached
  <2>3. process[s] # "live"
    BY <2>2 DEF SessionInvariant, LiveIsOwned
  <2>4. life[s].kind # "launch"
    <3>1. SUFFICES ASSUME NEW t \in Turns, life[s] = Launch(t) PROVE FALSE
      BY CallFacts DEF SessionInvariant, SessionsTypeOK
    <3>2. session[t] = s /\ s \notin stoppedSessions
      BY <3>1 DEF SessionInvariant, LifeIsHeld
    <3>3. Owned(s)
      BY <3>2, SessionsAssumption DEF SessionInvariant, UnstoppedAreOwned
    <3> QED
      BY <2>2, <3>3
  <2> QED
    BY <2>2, <2>3, <2>4
<1> QED
  BY <1>1, <1>2, SessionsStayInvariant, PTL DEF SessionsSpec, StopsAreFinal,
     StoppedNeverLaunches, StopAllStops
=============================================================================
