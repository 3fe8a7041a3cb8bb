------------------------ MODULE ProviderGenerations ------------------------
(***************************************************************************)
(* ProviderRuntimeManager (runtime/provider_manager.py): it publishes       *)
(* provider generations, lends the current one to requests and refreshes,   *)
(* and closes a retired one when its last lease is released.                *)
(*                                                                          *)
(* A generation is identified with its ProviderRuntime, a runtime with the  *)
(* order it was constructed in; 1 is the one of the startup.  A step is the *)
(* code a task runs between two suspensions.  A call that finds its lock    *)
(* taken stays idle until the lock is free.  Model metadata is left out.    *)
(***************************************************************************)
EXTENDS Naturals, FiniteSets

CONSTANTS
  Requests,    \* API requests, each of which takes one lease
  Admins,      \* Admin calls: replace, refresh or an account's change
  Closers,     \* calls of close
  Nobody,      \* owner of a free lock
  Impatient,   \* the callers that may be cancelled
  MaxRuntimes, \* bound on the runtimes that are constructed
  MaxFailures  \* bound on the cleanups that fail

Callers  == Requests \cup Admins \cup Closers
Runtimes == 1..MaxRuntimes

ASSUME GenerationsAssumption ==
  /\ MaxRuntimes \in Nat \ {0}
  /\ MaxFailures \in Nat
  /\ Impatient \subseteq Callers
  /\ Nobody \notin Callers
  /\ Requests \cap (Admins \cup Closers) = {}
  /\ Admins \cap Closers = {}

VARIABLES
  built,       \* number of runtimes constructed
  current,     \* the runtime of _current
  retired,     \* generations with the retired flag
  owned,       \* keys of _retired
  unpublished, \* _unpublished
  leases,      \* active_leases of each generation
  cleanup,     \* the cleanup_task of each generation is running
  closed,      \* runtimes whose cleanup has succeeded
  failures,    \* cleanups that have failed
  refresh,     \* _refresh_task, as the generation it refreshes, 0 for None
  task,        \* the background refresh task of each generation
  replaceLock, closeLock,
  closing, terminal, \* _closing and _closed of the manager
  pc, using,   \* where a caller is suspended, and the runtime it uses there
  todo,        \* runtimes that a caller still has to see cleaned up
  failed       \* callers of close that saw a cleanup fail

runtimes == <<built, current, retired, owned, unpublished>>
cleaning == <<cleanup, closed, failures>>
locks    == <<replaceLock, closeLock>>
flags    == <<closing, terminal>>
callers  == <<pc, using, todo, failed>>
vars     == <<runtimes, leases, cleaning, refresh, task, locks, flags, callers>>

\* The startup has published generation 1 and started its refresh.
Init ==
  /\ built = 1
  /\ current = 1
  /\ retired = {} /\ owned = {} /\ unpublished = {}
  /\ leases = [r \in Runtimes |-> 0]
  /\ cleanup = {} /\ closed = {} /\ failures = 0
  /\ refresh = 1
  /\ task = [r \in Runtimes |-> IF r = 1 THEN "created" ELSE "none"]
  /\ replaceLock = Nobody /\ closeLock = Nobody
  /\ closing = FALSE /\ terminal = FALSE
  /\ pc = [c \in Callers |-> "idle"]
  /\ using = [c \in Callers |-> 0]
  /\ todo = [c \in Callers |-> {}]
  /\ failed = {}

Go(c, place) == pc' = [pc EXCEPT ![c] = place]

-----------------------------------------------------------------------------
(* Leases and the cleanup of generations.                                   *)

\* _release: the last lease of a retired generation starts its cleanup.
LastLease(r) == leases[r] = 1 /\ r \in retired /\ ~closing /\ r \notin closed
ReleaseForgets(r) ==
  leases' = [leases EXCEPT ![r] = @ - 1] /\ UNCHANGED cleanup
Release(r) ==
  /\ leases' = [leases EXCEPT ![r] = @ - 1]
  /\ cleanup' = IF LastLease(r) THEN cleanup \cup {r} ELSE cleanup

AcquireUncounted(q) ==
  /\ pc[q] = "idle"
  /\ ~closing /\ ~terminal
  /\ using' = [using EXCEPT ![q] = current]
  /\ Go(q, "leased")
  /\ UNCHANGED <<runtimes, leases, cleaning, refresh, task, locks, flags, todo, failed>>

Acquire(q) ==
  /\ pc[q] = "idle"
  /\ ~closing /\ ~terminal
  /\ leases' = [leases EXCEPT ![current] = @ + 1]
  /\ using' = [using EXCEPT ![q] = current]
  /\ Go(q, "leased")
  /\ UNCHANGED <<runtimes, cleaning, refresh, task, locks, flags, todo, failed>>

AcquireRefused(q) ==
  /\ pc[q] = "idle"
  /\ closing \/ terminal
  /\ Go(q, "done")
  /\ UNCHANGED <<runtimes, leases, cleaning, refresh, task, locks, flags, using,
                 todo, failed>>

ReleaseLease(q) ==
  /\ pc[q] = "leased"
  /\ Release(using[q])
  /\ Go(q, IF LastLease(using[q]) THEN "joining" ELSE "done")
  /\ UNCHANGED <<runtimes, closed, failures, refresh, task, locks, flags, using,
                 todo, failed>>

\* _run_generation_cleanup ends.  Whoever waits for the task gets its result;
\* a failed one may be started again by whoever closes the generation next.
CleanupEnds(r, ok) ==
  /\ r \in cleanup
  /\ cleanup' = cleanup \ {r}
  /\ IF ok THEN /\ closed' = closed \cup {r}
                /\ owned' = owned \ {r}
                /\ UNCHANGED failures
     ELSE /\ failures < MaxFailures
          /\ failures' = failures + 1
          /\ UNCHANGED <<closed, owned>>
  /\ pc' = [c \in Callers |->
       IF pc[c] = "joining" /\ using[c] = r
       THEN IF c \in Requests THEN "done" ELSE "joined" ELSE pc[c]]
  /\ todo' = [c \in Callers |-> IF pc[c] = "closing" THEN todo[c] \ {r} ELSE todo[c]]
  /\ failed' = IF ok THEN failed
               ELSE failed \cup {c \in Closers : pc[c] = "closing" /\ r \in todo[c]}
  /\ task' = [task EXCEPT ![r] = IF @ = "joining" THEN "done" ELSE @]
  /\ UNCHANGED <<built, current, retired, unpublished, leases, refresh, locks, flags,
                 using>>

-----------------------------------------------------------------------------
(* The background refresh of a generation.                                  *)

RefreshStarts(r) ==
  /\ task[r] = "created"
  /\ IF r \in closed
     THEN task' = [task EXCEPT ![r] = "done"] /\ UNCHANGED leases
     ELSE /\ task' = [task EXCEPT ![r] = "running"]
          /\ leases' = [leases EXCEPT ![r] = @ + 1]
  /\ UNCHANGED <<runtimes, cleaning, refresh, locks, flags, callers>>

\* Discovery is over, by itself or by cancellation: the lease is released.
RefreshEnds(r) ==
  /\ task[r] \in {"running", "cancelled"}
  /\ Release(r)
  /\ task' = [task EXCEPT ![r] = IF LastLease(r) THEN "joining" ELSE "done"]
  /\ UNCHANGED <<runtimes, closed, failures, refresh, locks, flags, callers>>

\* _cancel_refresh.  A task that has not run yet never does; one that waits for
\* a shielded cleanup stops waiting; a running one first ends its upstream calls.
RefreshAlive == refresh # 0 /\ task[refresh] = "running"

CancelRefresh ==
  /\ refresh' = 0
  /\ task' = [r \in Runtimes |->
       IF r # refresh THEN task[r]
       ELSE CASE task[r] = "running" -> "cancelled"
              [] task[r] \in {"created", "joining"} -> "done"
              [] OTHER -> task[r]]

-----------------------------------------------------------------------------
(* What Admin calls do under the replace lock.                              *)

Lock(a) == replaceLock = Nobody /\ replaceLock' = a
Unlock  == replaceLock' = Nobody

AdminRefused(a) ==
  /\ pc[a] = "idle"
  /\ replaceLock = Nobody
  /\ closing \/ terminal
  /\ Go(a, "done")
  /\ UNCHANGED <<runtimes, leases, cleaning, refresh, task, locks, flags, using,
                 todo, failed>>

\* replace, refresh_model_list_cache: first the background refresh is cancelled.
\* The next step is taken at once when there is none, or none that runs.
AdminBegins(a) ==
  /\ pc[a] = "idle"
  /\ ~closing /\ ~terminal
  /\ Lock(a)
  /\ CancelRefresh
  /\ \E place \in {"replacing", "refreshing"} : Go(a, place)
  /\ using' = [using EXCEPT ![a] = IF RefreshAlive THEN refresh ELSE 0]
  /\ UNCHANGED <<runtimes, leases, cleaning, closeLock, flags, todo, failed>>

RefreshIsOver(c) == using[c] # 0 => task[using[c]] = "done"

\* _retry_unpublished_cleanup, for replace.
ReplaceRetries(a) ==
  /\ pc[a] = "replacing"
  /\ RefreshIsOver(a)
  /\ todo' = [todo EXCEPT ![a] = unpublished]
  /\ Go(a, "retrying")
  /\ UNCHANGED <<runtimes, leases, cleaning, refresh, task, locks, flags, using, failed>>

UnpublishedForgotten(c, r, ok) ==
  /\ pc[c] \in {"retrying", "finishing", "discarding"}
  /\ r \in todo[c]
  /\ todo' = [todo EXCEPT ![c] = @ \ {r}]
  /\ unpublished' = unpublished \ {r}
  /\ closed' = IF ok THEN closed \cup {r} ELSE closed
  /\ UNCHANGED <<built, current, retired, owned, leases, cleanup, failures, refresh, task,
                 locks, flags, pc, using, failed>>

\* _cleanup_unpublished ends for one runtime that was never published.
UnpublishedCleaned(c, r, ok) ==
  /\ pc[c] \in {"retrying", "finishing", "discarding"}
  /\ r \in todo[c]
  /\ todo' = [todo EXCEPT ![c] = @ \ {r}]
  /\ IF ok
     THEN /\ closed' = closed \cup {r}
          /\ unpublished' = unpublished \ {r}
          /\ UNCHANGED <<failures, failed>>
     ELSE /\ failures < MaxFailures
          /\ failures' = failures + 1
          /\ failed' = failed \cup ({c} \cap Closers)
          /\ UNCHANGED <<closed, unpublished>>
  /\ UNCHANGED <<built, current, retired, owned, leases, cleanup, refresh, task, locks,
                 flags, pc, using>>

\* The candidate cannot be constructed.
ReplaceFails(a) ==
  /\ pc[a] = "retrying" /\ todo[a] = {}
  /\ Go(a, "done")
  /\ Unlock
  /\ UNCHANGED <<runtimes, leases, cleaning, refresh, task, closeLock, flags, using,
                 todo, failed>>

Candidate == built + 1

\* The configuration cannot be committed: the candidate stays unpublished.
CommitFails(a) ==
  /\ pc[a] = "retrying" /\ todo[a] = {}
  /\ built < MaxRuntimes
  /\ built' = Candidate
  /\ unpublished' = unpublished \cup {Candidate}
  /\ todo' = [todo EXCEPT ![a] = {Candidate}]
  /\ Go(a, "discarding")
  /\ UNCHANGED <<current, retired, owned, leases, cleaning, refresh, task, locks,
                 flags, using, failed>>

\* The candidate is published.  The generation before it is closed if nobody
\* leases it, else by its last lease.
EvenLeased(r) == leases[r] >= 0
Unleased(r) == leases[r] = 0

Publish(a) ==
  /\ pc[a] = "retrying" /\ todo[a] = {}
  /\ built < MaxRuntimes
  /\ built' = Candidate
  /\ current' = Candidate
  /\ retired' = retired \cup {current}
  /\ owned' = owned \cup {current}
  /\ refresh' = Candidate
  /\ task' = [task EXCEPT ![Candidate] = "created"]
  /\ IF Unleased(current)
     THEN /\ cleanup' = cleanup \cup {current}
          /\ using' = [using EXCEPT ![a] = current]
          /\ Go(a, "joining")
          /\ UNCHANGED replaceLock
     ELSE /\ Go(a, "done")
          /\ Unlock
          /\ UNCHANGED <<cleanup, using>>
  /\ UNCHANGED <<unpublished, leases, closed, failures, closeLock, flags, todo, failed>>

\* refresh_model_list_cache leases the current generation for itself.
FullRefreshBegins(a) ==
  /\ pc[a] = "refreshing"
  /\ RefreshIsOver(a)
  /\ leases' = [leases EXCEPT ![current] = @ + 1]
  /\ using' = [using EXCEPT ![a] = current]
  /\ Go(a, "discovering")
  /\ UNCHANGED <<runtimes, cleaning, refresh, task, locks, flags, todo, failed>>

\* It ends, by itself or by cancellation.
FullRefreshEnds(a) ==
  /\ pc[a] = "discovering"
  /\ Release(using[a])
  /\ IF LastLease(using[a])
     THEN Go(a, "joining") /\ UNCHANGED replaceLock
     ELSE Go(a, "done") /\ Unlock
  /\ UNCHANGED <<runtimes, closed, failures, refresh, task, closeLock, flags, using,
                 todo, failed>>

\* connected_provider_changed: discovery for one provider, without a lease.
ConnectBegins(a) ==
  /\ pc[a] = "idle"
  /\ ~closing /\ ~terminal
  /\ Lock(a)
  /\ using' = [using EXCEPT ![a] = current]
  /\ Go(a, "connecting")
  /\ UNCHANGED <<runtimes, leases, cleaning, refresh, task, closeLock, flags, todo, failed>>

AdminEnds(a) ==
  /\ \/ pc[a] \in {"connecting", "joined"}
     \/ pc[a] = "discarding" /\ todo[a] = {}
  /\ Go(a, "done")
  /\ Unlock
  /\ UNCHANGED <<runtimes, leases, cleaning, refresh, task, closeLock, flags, using,
                 todo, failed>>

-----------------------------------------------------------------------------
(* close.                                                                   *)

CloseBegins(c) ==
  /\ pc[c] = "idle"
  /\ closeLock = Nobody
  /\ IF terminal THEN Go(c, "done") /\ UNCHANGED closeLock
     ELSE Go(c, "waiting") /\ closeLock' = c
  /\ UNCHANGED <<runtimes, leases, cleaning, refresh, task, replaceLock, flags, using,
                 todo, failed>>

CloseEnters(c) ==
  /\ pc[c] = "waiting"
  /\ Lock(c)
  /\ closing' = TRUE
  /\ CancelRefresh
  /\ using' = [using EXCEPT ![c] = IF RefreshAlive THEN refresh ELSE 0]
  /\ Go(c, "quiescing")
  /\ UNCHANGED <<runtimes, leases, cleaning, closeLock, terminal, todo, failed>>

CloseForgetsFlag(c) ==
  /\ pc[c] = "quiescing"
  /\ RefreshIsOver(c)
  /\ owned' = IF current \in retired THEN owned ELSE owned \cup {current}
  /\ todo' = [todo EXCEPT ![c] = owned']
  /\ Go(c, "draining")
  /\ Unlock
  /\ UNCHANGED <<built, current, retired, unpublished, leases, cleaning, refresh, task,
                 closeLock, flags, using, failed>>

\* The current generation is retired too, and every one is to be closed.
CloseRetires(c) ==
  /\ pc[c] = "quiescing"
  /\ RefreshIsOver(c)
  /\ retired' = retired \cup {current}
  /\ owned' = IF current \in retired THEN owned ELSE owned \cup {current}
  /\ todo' = [todo EXCEPT ![c] = owned']
  /\ Go(c, "draining")
  /\ Unlock
  /\ UNCHANGED <<built, current, unpublished, leases, cleaning, refresh, task, closeLock,
                 flags, using, failed>>

Drained(c) == \A r \in todo[c] : leases[r] = 0

CloseDrained(c) ==
  /\ pc[c] = "draining"
  /\ Drained(c)
  /\ cleanup' = cleanup \cup (todo[c] \ closed)
  /\ todo' = [todo EXCEPT ![c] = @ \ closed]
  /\ Go(c, "closing")
  /\ UNCHANGED <<runtimes, leases, closed, failures, refresh, task, locks, flags, using,
                 failed>>

CloseRetries(c) ==
  /\ pc[c] = "closing" /\ todo[c] = {}
  /\ todo' = [todo EXCEPT ![c] = unpublished]
  /\ Go(c, "finishing")
  /\ UNCHANGED <<runtimes, leases, cleaning, refresh, task, locks, flags, using, failed>>

AllClosed(c) == c \notin failed

\* Only when everything is closed the manager is; otherwise close may be retried.
CloseEnds(c) ==
  /\ pc[c] = "finishing" /\ todo[c] = {}
  /\ terminal' = (terminal \/ AllClosed(c))
  /\ closeLock' = Nobody
  /\ Go(c, "done")
  /\ UNCHANGED <<runtimes, leases, cleaning, refresh, task, replaceLock, closing, using,
                 todo, failed>>

-----------------------------------------------------------------------------
(* Cancellation.  A cleanup task is shielded and goes on; a runtime whose    *)
(* unpublished cleanup is interrupted stays unpublished; who waits for a     *)
(* cancelled refresh waits for its end also when cancelled (asyncio.gather). *)

Interruptible ==
  {"joining", "replacing", "refreshing", "retrying", "discarding", "connecting",
   "joined", "waiting", "quiescing", "draining", "closing", "finishing"}
AwaitingRefresh == {"replacing", "refreshing", "quiescing"}

CancelKeepsLock(c) ==
  /\ c \in Impatient
  /\ pc[c] \in Interruptible
  /\ pc[c] \in AwaitingRefresh => RefreshIsOver(c)
  /\ Go(c, "done")
  /\ closeLock' = IF closeLock = c THEN Nobody ELSE closeLock
  /\ todo' = [todo EXCEPT ![c] = {}]
  /\ failed' = failed \ {c}
  /\ UNCHANGED <<runtimes, leases, cleaning, refresh, task, replaceLock, flags, using>>

Cancel(c) ==
  /\ c \in Impatient
  /\ pc[c] \in Interruptible
  /\ pc[c] \in AwaitingRefresh => RefreshIsOver(c)
  /\ Go(c, "done")
  /\ replaceLock' = IF replaceLock = c THEN Nobody ELSE replaceLock
  /\ closeLock' = IF closeLock = c THEN Nobody ELSE closeLock
  /\ todo' = [todo EXCEPT ![c] = {}]
  /\ failed' = failed \ {c}
  /\ UNCHANGED <<runtimes, leases, cleaning, refresh, task, flags, using>>

-----------------------------------------------------------------------------
Request(q) == Acquire(q) \/ AcquireRefused(q) \/ ReleaseLease(q)

Discovery(r) == RefreshStarts(r) \/ RefreshEnds(r)

\* What an Admin call or a close that has begun still does.
Proceed(c) ==
  \/ ReplaceRetries(c) \/ ReplaceFails(c) \/ CommitFails(c) \/ Publish(c)
  \/ FullRefreshBegins(c) \/ FullRefreshEnds(c) \/ AdminEnds(c)
  \/ CloseEnters(c) \/ CloseRetires(c) \/ CloseDrained(c) \/ CloseRetries(c)
  \/ CloseEnds(c)
  \/ \E r \in Runtimes, ok \in BOOLEAN : UnpublishedCleaned(c, r, ok)

Finished == (\A c \in Callers : pc[c] = "done") /\ UNCHANGED vars

Next ==
  \/ \E q \in Requests : Request(q)
  \/ \E a \in Admins : AdminRefused(a) \/ AdminBegins(a) \/ ConnectBegins(a)
  \/ \E c \in Closers : CloseBegins(c)
  \/ \E c \in Admins \cup Closers : Proceed(c)
  \/ \E c \in Callers : Cancel(c)
  \/ \E r \in Runtimes : Discovery(r)
  \/ \E r \in Runtimes, ok \in BOOLEAN : CleanupEnds(r, ok)
  \/ Finished

Spec == Init /\ [][Next]_vars

\* The event loop runs every ready task; requests, discovery and cleanups end.
Fairness ==
  /\ \A q \in Requests : WF_vars(ReleaseLease(q))
  /\ \A c \in Admins \cup Closers : WF_vars(Proceed(c))
  /\ \A r \in Runtimes : WF_vars(Discovery(r)) /\ WF_vars(CleanupEnds(r, TRUE))

FairSpec == Spec /\ Fairness

-----------------------------------------------------------------------------
(* Properties.                                                              *)

TypeOK ==
  /\ built \in Runtimes /\ current \in 1..built
  /\ retired \subseteq 1..built /\ owned \subseteq 1..built
  /\ unpublished \subseteq 1..built
  /\ leases \in [Runtimes -> Nat]
  /\ cleanup \subseteq 1..built /\ closed \subseteq 1..built /\ failures \in 0..MaxFailures
  /\ refresh \in 0..built
  /\ task \in [Runtimes -> {"none", "created", "running", "cancelled", "joining", "done"}]
  /\ replaceLock \in Admins \cup Closers \cup {Nobody}
  /\ closeLock \in Closers \cup {Nobody}
  /\ closing \in BOOLEAN /\ terminal \in BOOLEAN
  /\ pc \in [Callers -> {"idle", "leased", "discovering", "done"} \cup Interruptible]
  /\ using \in [Callers -> 0..built]
  /\ todo \in [Callers -> SUBSET (1..built)]
  /\ failed \subseteq Closers

Connecting(r) == {a \in Admins : pc[a] = "connecting" /\ using[a] = r}

\* A runtime that is used, through a lease, a refresh or an account's discovery,
\* is neither being cleaned up nor closed, whoever retires it meanwhile.
NoUseDuringCleanup ==
  \A r \in Runtimes :
    leases[r] > 0 \/ Connecting(r) # {} => r \notin cleanup \cup closed

\* Every runtime ever constructed is closed or still owned by the manager, also
\* after failed commits, failed cleanups and cancelled calls: "Failed generation
\* or unpublished-candidate cleanup remains owned and retryable", and "the manager
\* does not become terminal ... until every owned runtime closes" (ARCHITECTURE.md).
NothingLost ==
  /\ 1..built \subseteq closed \cup {current} \cup owned \cup unpublished
  /\ terminal => /\ 1..built \subseteq closed
                 /\ \A r \in Runtimes : leases[r] = 0

\* The manager's runtimes are neither closed in use nor forgotten.
RuntimesAreSafe == TypeOK /\ NoUseDuringCleanup /\ NothingLost

\* Its last lease, or its replacement, closes a retired generation: none stays
\* open until the shutdown only because a call was cancelled at a bad moment.
\* (One whose cleanup failed does: it is the shutdown that tries again.)
RetiredGenerationsClose ==
  []<>(retired \subseteq closed \/ closing \/ failures > 0)

\* No call waits for ever on a lock, a cancelled refresh, a lease or a cleanup.
EveryCallEnds ==
  []<>(\A c \in Callers : pc[c] \in {"idle", "done"})

\* Calls return and retired runtimes are closed.
RuntimesSettle == EveryCallEnds /\ RetiredGenerationsClose

\* What a runtime's users see of the manager's state.
RuntimeStages == [r \in Runtimes |->
  IF r > built THEN "absent"
  ELSE IF r \in closed THEN "closed"
  ELSE IF r = current /\ r \notin retired THEN "live" ELSE "retired"]
RuntimeUsers == [r \in Runtimes |-> leases[r] + Cardinality(Connecting(r))]

Lifecycle == INSTANCE RuntimeLifecycle WITH stage <- RuntimeStages, users <- RuntimeUsers

\* The manager keeps to the life of a runtime: it is used only by those that
\* came while it was the published one, and closed after the last has left.
ImplementsLifecycle == Lifecycle!Spec
=============================================================================
