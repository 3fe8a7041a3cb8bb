-------------------------- MODULE MessagingDelivery --------------------------
(***************************************************************************)
(* MessagingRateLimiter (messaging/limiter.py) and PlatformOutbox           *)
(* (messaging/platforms/outbox.py): platform operations are queued under a  *)
(* key, an operation for a key that is queued already takes its place, and  *)
(* one worker sends them.                                                   *)
(*                                                                          *)
(* A request is one call of queue_send_message, queue_edit_message or       *)
(* queue_delete_messages, by one of three routes: the caller awaits the     *)
(* result, the limiter runs it as a task of its own that retries (forget),  *)
(* or the call itself is handed to the outbox as a task that forgets (task).*)
(* The condition's lock is never held over a suspension, so that enqueue    *)
(* and shutdown are single steps.  Time passes as it likes.                 *)
(***************************************************************************)
EXTENDS Naturals, Sequences, FiniteSets, Functions, Queues

CONSTANTS
  Requests,    \* the calls
  Keys,        \* dedup keys
  Key,         \* the key of each request
  Route,       \* the route of each: "await", "forget" or "task"
  Nothing,     \* no operation
  MaxOutages  \* bound on the operations that fail

MaxRetries == 2

ASSUME DeliveryAssumption ==
  /\ Key \in [Requests -> Keys]
  /\ Route \in [Requests -> {"await", "forget", "task"}]
  /\ Nothing \notin Requests
  /\ MaxOutages \in Nat

VARIABLES
  stage,     \* where each request is
  attempt,   \* failed attempts of the request's task
  future,    \* the future of the request's current attempt
  started,   \* tasks that were created and have not run, in their order
  queue,     \* _queue_list
  entry,     \* _queue_map: the operation and the futures of each key
  worker,    \* where the worker is
  job,       \* what the worker has taken: an operation and its futures
  paused,    \* _paused_until lies ahead
  cancelled, \* a cancellation of the worker is pending
  closed,    \* the outbox and the limiter that are closed
  closer,    \* where the close of the platform is
  issued,    \* ghost: the requests in the order of their calls
  shown,     \* ghost: the last operation of each key that succeeded
  outages

tasks   == <<stage, attempt, future, started>>
waitlist == <<queue, entry>>
work    == <<worker, job, paused, cancelled>>
ending  == <<closed, closer>>
deliveryGhosts  == <<issued, shown, outages>>
deliveryVars == <<tasks, waitlist, work, ending, deliveryGhosts>>

NoEntry == [op |-> Nothing, futures |-> {}]

Errors == {"transient", "flood", "fatal"}

DeliveryInit ==
  /\ stage = [r \in Requests |-> "new"]
  /\ attempt = [r \in Requests |-> 0]
  /\ future = [r \in Requests |-> "none"]
  /\ started = <<>>
  /\ queue = <<>>
  /\ entry = [k \in Keys |-> NoEntry]
  /\ worker = "idle" /\ job = NoEntry /\ paused = FALSE /\ cancelled = FALSE
  /\ closed = {} /\ closer = "open"
  /\ issued = <<>>
  /\ shown = [k \in Keys |-> Nothing]
  /\ outages = 0

LimiterRuns == "limiter" \notin closed /\ worker # "ended"

Stage(r, s) == stage' = [stage EXCEPT ![r] = s]

Settled(fs, outcome) ==
  [r \in Requests |-> IF r \in fs /\ future[r] = "pending" THEN outcome ELSE future[r]]

-----------------------------------------------------------------------------
\* Mistake: whoever waited for the operation that is replaced is forgotten.
ForgetsWaiters(r) ==
  LET k == Key[r] IN
  IF LimiterRuns
  THEN /\ entry' = [entry EXCEPT ![k] = [op |-> r, futures |-> {r}]]
       /\ queue' = IF entry[k] = NoEntry THEN Append(queue, k) ELSE queue
       /\ future' = [future EXCEPT ![r] = "pending"]
       /\ Stage(r, "waiting")
  ELSE Stage(r, "failed") /\ UNCHANGED <<entry, queue, future>>

\* Mistake: what is queued already is kept.
KeepsOldest(r) ==
  LET k == Key[r] IN
  IF LimiterRuns
  THEN /\ entry' = [entry EXCEPT ![k] =
                     [op |-> IF @ = NoEntry THEN r ELSE @.op, futures |-> @.futures \cup {r}]]
       /\ queue' = IF entry[k] = NoEntry THEN Append(queue, k) ELSE queue
       /\ future' = [future EXCEPT ![r] = "pending"]
       /\ Stage(r, "waiting")
  ELSE Stage(r, "failed") /\ UNCHANGED <<entry, queue, future>>

\* _enqueue_internal: compaction keeps the place in the queue and the futures.
Enqueue(r) ==
  LET k == Key[r] IN
  IF LimiterRuns
  THEN /\ entry' = [entry EXCEPT ![k] = [op |-> r, futures |-> @.futures \cup {r}]]
       /\ queue' = IF entry[k] = NoEntry THEN Append(queue, k) ELSE queue
       /\ future' = [future EXCEPT ![r] = "pending"]
       /\ Stage(r, "waiting")
  ELSE Stage(r, "failed") /\ UNCHANGED <<entry, queue, future>>

LatestFirst(r) == started' = <<r>> \o started \* mistake: tasks run in reverse

Create(r) == started' = Append(started, r)

\* The call itself, up to its first suspension.
Call(r) ==
  /\ stage[r] = "new"
  /\ issued' = Append(issued, r)
  /\ IF "outbox" \in closed \/ (~LimiterRuns /\ Route[r] # "task")
     THEN Stage(r, "failed") /\ UNCHANGED <<started, entry, queue, future>>
     ELSE \/ Route[r] = "await" /\ Enqueue(r) /\ UNCHANGED started
          \/ /\ Route[r] # "await"
             /\ Stage(r, IF Route[r] = "task" THEN "handed" ELSE "launched")
             /\ Create(r)
             /\ UNCHANGED <<entry, queue, future>>
  /\ UNCHANGED <<attempt, work, ending, shown, outages>>

\* The loop runs the task that has been ready for longest.
RunTask ==
  /\ started # <<>>
  /\ LET r == Head(started) IN
     \/ /\ stage[r] = "handed" /\ LimiterRuns
        /\ Stage(r, "launched")
        /\ started' = Append(Tail(started), r)
        /\ UNCHANGED <<entry, queue, future>>
     \/ /\ stage[r] = "handed" /\ ~LimiterRuns
        /\ Stage(r, "failed")
        /\ started' = Tail(started)
        /\ UNCHANGED <<entry, queue, future>>
     \/ /\ stage[r] = "launched"
        /\ Enqueue(r)
        /\ started' = Tail(started)
  /\ UNCHANGED <<attempt, work, ending, deliveryGhosts>>

RetriesOnceMore(r) == Route[r] # "await" /\ attempt[r] <= MaxRetries \* mistake

MayRetry(r) == Route[r] # "await" /\ attempt[r] < MaxRetries

\* A request whose future is settled goes on; only a task retries.
Resume(r) ==
  /\ stage[r] = "waiting" /\ future[r] # "pending"
  /\ future' = [future EXCEPT ![r] = "none"]
  /\ \/ future[r] = "result" /\ Stage(r, "done") /\ UNCHANGED attempt
     \/ future[r] = "cancelled" /\ Stage(r, "cancelled") /\ UNCHANGED attempt
     \/ /\ future[r] = "transient" /\ MayRetry(r)
        /\ attempt' = [attempt EXCEPT ![r] = @ + 1]
        /\ Stage(r, "backoff")
     \/ /\ future[r] \in Errors
        /\ future[r] = "transient" => ~MayRetry(r)
        /\ Stage(r, "failed") /\ UNCHANGED attempt
  /\ UNCHANGED <<started, waitlist, work, ending, deliveryGhosts>>

\* The backoff of a retry has passed.
Retry(r) ==
  /\ stage[r] = "backoff"
  /\ Enqueue(r)
  /\ UNCHANGED <<attempt, started, work, ending, deliveryGhosts>>

\* A caller that awaits its result is cancelled, and its future with it.
CancelCaller(r) ==
  /\ stage[r] = "waiting" /\ Route[r] = "await" /\ future[r] = "pending"
  /\ future' = [future EXCEPT ![r] = "none"]
  /\ Stage(r, "cancelled")
  /\ UNCHANGED <<attempt, started, waitlist, work, ending, deliveryGhosts>>

-----------------------------------------------------------------------------
\* The worker.
Take ==
  /\ worker = "idle" /\ queue # <<>> /\ ~cancelled
  /\ LET k == Head(queue) IN
     /\ job' = entry[k]
     /\ entry' = [entry EXCEPT ![k] = NoEntry]
  /\ queue' = Tail(queue)
  /\ worker' = IF paused THEN "paused" ELSE "window"
  /\ UNCHANGED <<tasks, paused, cancelled, ending, deliveryGhosts>>

PauseEnds ==
  /\ paused
  /\ paused' = FALSE
  /\ worker' = IF worker = "paused" THEN "window" ELSE worker
  /\ UNCHANGED <<tasks, waitlist, job, cancelled, ending, deliveryGhosts>>

\* The sliding window has room.
Admit ==
  /\ worker = "window" /\ ~cancelled
  /\ worker' = "sending"
  /\ UNCHANGED <<tasks, waitlist, job, paused, cancelled, ending, deliveryGhosts>>

\* After an operation the worker looks at the shutdown event.
Finish(outcome) ==
  /\ future' = Settled(job.futures, outcome)
  /\ job' = NoEntry
  /\ worker' = IF "limiter" \in closed THEN "ended" ELSE "idle"
  /\ UNCHANGED <<stage, attempt, started, waitlist, ending, issued>>

\* The operation may also swallow the cancellation and succeed.
SendSucceeds ==
  /\ worker = "sending"
  /\ Finish("result")
  /\ shown' = [shown EXCEPT ![Key[job.op]] = job.op]
  /\ UNCHANGED <<paused, cancelled, outages>>

\* An error that speaks of a flood pauses the worker.
SendFails ==
  /\ worker = "sending" /\ outages < MaxOutages
  /\ outages' = outages + 1
  /\ \E e \in Errors : Finish(e) /\ paused' = (e = "flood" \/ paused)
  /\ UNCHANGED <<cancelled, shown>>

\* Mistake: a cancelled operation is taken for the end of the worker.
CancelledEndsWorker ==
  /\ worker = "sending" /\ outages < MaxOutages /\ ~cancelled
  /\ outages' = outages + 1
  /\ future' = Settled(job.futures, "cancelled")
  /\ job' = NoEntry /\ worker' = "ended"
  /\ UNCHANGED <<stage, attempt, started, waitlist, ending, issued, paused, cancelled, shown>>

\* The operation raises CancelledError on its own account.
SendIsCancelled ==
  /\ worker = "sending" /\ outages < MaxOutages /\ ~cancelled
  /\ outages' = outages + 1
  /\ Finish("cancelled")
  /\ UNCHANGED <<paused, cancelled, shown>>

\* The cancellation of the shutdown arrives.
WorkerEnds ==
  /\ cancelled /\ worker \in {"idle", "paused", "window", "sending"}
  /\ future' = Settled(job.futures, "cancelled")
  /\ job' = NoEntry
  /\ worker' = "ended"
  /\ UNCHANGED <<stage, attempt, started, waitlist, paused, cancelled, ending, deliveryGhosts>>

-----------------------------------------------------------------------------
\* PlatformOutbox.close: tasks that were handed over and have not run end.
CloseOutbox ==
  /\ closer = "open"
  /\ closed' = {"outbox"} /\ closer' = "outbox"
  /\ LET handed == {r \in Requests : stage[r] = "handed"} IN
     /\ stage' = [r \in Requests |-> IF r \in handed THEN "cancelled" ELSE stage[r]]
     /\ started' = Dequeued(started, handed)
  /\ UNCHANGED <<attempt, future, waitlist, work, deliveryGhosts>>

Queued == UNION {entry[k].futures : k \in Keys}

\* MessagingRateLimiter.shutdown, up to the wait for the worker.
Shutdown ==
  /\ closer = "outbox"
  /\ closed' = closed \cup {"limiter"} /\ closer' = "worker"
  /\ future' = Settled(Queued \cup job.futures, "cancelled")
  /\ queue' = <<>>
  /\ entry' = [k \in Keys |-> NoEntry]
  /\ cancelled' = TRUE
  /\ UNCHANGED <<stage, attempt, started, worker, job, paused, deliveryGhosts>>

AllButSleepers == {"launched", "waiting"} \* mistake: retries outlive the close

Unfinished == {"launched", "waiting", "backoff"}

\* The worker has ended; the limiter's own tasks are cancelled.
CancelTasks ==
  /\ closer = "worker" /\ worker = "ended"
  /\ closer' = "closed"
  /\ LET owned == {r \in Requests : Route[r] # "await" /\ stage[r] \in Unfinished} IN
     /\ stage' = [r \in Requests |-> IF r \in owned THEN "cancelled" ELSE stage[r]]
     /\ future' = [r \in Requests |-> IF r \in owned THEN "none" ELSE future[r]]
     /\ started' = Dequeued(started, owned)
  /\ UNCHANGED <<attempt, waitlist, work, closed, deliveryGhosts>>

Worker == Take \/ PauseEnds \/ Admit \/ SendSucceeds \/ SendFails \/ SendIsCancelled \/ WorkerEnds

Request(r) == Call(r) \/ Resume(r) \/ Retry(r) \/ CancelCaller(r)

DeliveryNext ==
  \/ RunTask \/ Worker
  \/ CloseOutbox \/ Shutdown \/ CancelTasks
  \/ \E r \in Requests : Request(r)

DeliverySpec == DeliveryInit /\ [][DeliveryNext]_deliveryVars

\* The loop runs what is ready, an operation ends, time passes; nobody is
\* obliged to call, to cancel or to close.
DeliveryFairness ==
  /\ WF_deliveryVars(RunTask) /\ WF_deliveryVars(Worker) /\ WF_deliveryVars(Shutdown) /\ WF_deliveryVars(CancelTasks)
  /\ \A r \in Requests : WF_deliveryVars(Resume(r)) /\ WF_deliveryVars(Retry(r))

DeliveryFairSpec == DeliverySpec /\ DeliveryFairness

-----------------------------------------------------------------------------
Stages == {"new", "handed", "launched", "waiting", "backoff", "done", "failed", "cancelled"}

Jobs == [op : Requests \cup {Nothing}, futures : SUBSET Requests]

DeliveryTypeOK ==
  /\ stage \in [Requests -> Stages] /\ attempt \in [Requests -> 0..MaxRetries]
  /\ future \in [Requests -> {"none", "pending", "result", "cancelled"} \cup Errors]
  /\ started \in Seq(Requests) /\ issued \in Seq(Requests) /\ queue \in Seq(Keys)
  /\ entry \in [Keys -> Jobs] /\ job \in Jobs
  /\ worker \in {"idle", "paused", "window", "sending", "ended"}
  /\ paused \in BOOLEAN /\ cancelled \in BOOLEAN
  /\ closed \subseteq {"outbox", "limiter"}
  /\ closer \in {"open", "outbox", "worker", "closed"}
  /\ shown \in [Keys -> Requests \cup {Nothing}] /\ outages \in 0..MaxOutages

\* The two halves of the queue never drift apart, and whoever waits for a
\* future waits for an operation that is queued or in the worker's hands,
\* however often operations were compacted, retried or cancelled.
WaitersAreServed ==
  /\ IsInjective(queue)
  /\ \A k \in Keys : (entry[k] # NoEntry) <=> k \in Range(queue)
  /\ \A r \in Requests : future[r] = "pending" =>
       r \in job.futures \/ r \in entry[Key[r]].futures

Before(r, s) == Ahead(issued, r, s)

\* First attempts of one route are shown in the order of their calls: an
\* operation for a key never replaces one that was called for later.
NothingOlderIsShown ==
  \A k \in Keys : LET old == shown[k] new == shown'[k] IN
    Before(new, old) => attempt[new] > 0 \/ Route[new] # Route[old]

Quiet == worker = "idle" /\ \A r \in Requests : stage[r] \in {"new", "done"}

\* Compaction drops operations, never the newest: once everything called for
\* has succeeded, what is shown is the last call for the key.
NewestIsShown ==
  Quiet => \A r \in Requests : stage[r] = "done" =>
    LET s == shown[Key[r]] IN
      s # Nothing /\ (Before(s, r) => Route[s] # Route[r] \/ attempt[s] > 0)

\* A close ends the worker, settles every future and leaves no task behind.
ClosedIsQuiet ==
  closer = "closed" => /\ worker = "ended" /\ started = <<>>
                       /\ \A r \in Requests : /\ future[r] # "pending"
                                               /\ stage[r] \notin {"handed", "launched", "backoff"}

\* The queue, the worker and the tasks agree, and what they leave behind is complete.
DeliveryIsSound == DeliveryTypeOK /\ WaitersAreServed /\ NewestIsShown /\ ClosedIsQuiet

\* Both, for every order of calls, retries, cancellations and the close.
DeliveryIsFaithful == [][DeliveryIsSound' /\ NothingOlderIsShown]_deliveryVars

\* Whatever fails, floods, is compacted, cancelled or closed: every call ends.
EveryRequestEnds ==
  []<>(\A r \in Requests : stage[r] \in {"new", "done", "failed", "cancelled"})

=============================================================================
