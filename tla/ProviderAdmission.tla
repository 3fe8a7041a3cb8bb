------------------------- MODULE ProviderAdmission -------------------------
(***************************************************************************)
(* One ProviderAdmissionController (providers/admission.py) and the logical *)
(* executions that go through it.  An execution waits at the recovery gate, *)
(* then for the sliding window, then for a slot of the bulkhead, holds the  *)
(* slot while its upstream attempt is in flight, and records the result.    *)
(* The first shared transient failure opens a recovery episode: its leader  *)
(* alone waits and probes, everybody else waits for the episode.            *)
(*                                                                          *)
(* Three callers are modelled, one kind per execution:                      *)
(*   plain  run_with_retry: the operation is awaited and nothing suspends   *)
(*          between recording its result and the next pass of the gate;     *)
(*   chat   openai_chat: the attempt stays open while a stream is consumed, *)
(*          closing the stream suspends, and a stream that breaks after its *)
(*          first chunk may be continued by a nested attempt;               *)
(*   codex  openai_codex: as chat without nested attempts, and the access   *)
(*          token is awaited before every attempt.                          *)
(*                                                                          *)
(* An asyncio task runs undisturbed from one suspension to the next, so a   *)
(* step of the model is the code between two suspensions.  No task suspends *)
(* while it holds the condition's lock, hence the lock is never contended   *)
(* and is not a variable.  Instants are kept as the time left until them.   *)
(***************************************************************************)
EXTENDS Naturals, FiniteSets

CONSTANTS
  Sessions,       \* logical executions, one ProviderRetrySession each
  NoSession,      \* Python's None where a leader could be
  Kind,           \* [Sessions -> {"plain", "chat", "codex"}]
  Cancellable,    \* the executions whose task may be cancelled (once)
  MaxAttempts,    \* UPSTREAM_TRANSIENT_TOTAL_ATTEMPTS
  MaxConcurrency, \* slots of the bulkhead
  Delays,         \* values _retry_delay may return
  AuthLatchTTL,   \* AUTH_LATCH_TTL_SECONDS
  AuthFailures    \* whether the upstream may answer 401 or 403

ASSUME AdmissionAssumption ==
  /\ NoSession \notin Sessions
  /\ Kind \in [Sessions -> {"plain", "chat", "codex"}]
  /\ Cancellable \subseteq Sessions
  /\ MaxAttempts \in Nat \ {0}
  /\ MaxConcurrency \in Nat \ {0}
  /\ Delays \subseteq Nat
  /\ AuthLatchTTL \in Nat
  /\ AuthFailures \in BOOLEAN

VARIABLES
  episode,   \* the _RecoveryEpisode, NoEpisode when there is none
  nextGen,   \* _next_generation
  latch,     \* time left of the auth latch, 0 when there is none
  doomed,    \* the sessions that _fail_recovery was called on
  semaphore, \* free slots of the bulkhead
  slots,     \* slots each execution holds: one, two with a nested attempt
  pc,        \* where each execution is suspended
  ticket,    \* generation of an unresolved probe permit or claim, 0 otherwise
  attempts,  \* _attempts_started
  sleep,     \* time left of a leader's back-off sleep
  nested,    \* a continuation attempt is open inside a broken stream
  after      \* where an execution goes once its stream is closed

gate     == <<episode, nextGen, latch, doomed>>
bulkhead == <<semaphore, slots>>
local    == <<ticket, attempts, sleep, nested, after>>
vars     == <<gate, bulkhead, pc, local>>

Outcomes == {"returned", "failed", "cancelled"}
Places   == {"idle", "gate", "waiting", "woken", "sleeping", "limiter", "slot",
             "attempt", "streaming", "closing", "releasing", "reopening"}
              \cup Outcomes
Streaming(s) == Kind[s] \in {"chat", "codex"}

Episodes == [gen : Nat, leader : Sessions \cup {NoSession}, probe : BOOLEAN,
             timer : Nat, terminal : BOOLEAN, waiters : SUBSET Sessions]

NoEpisode == [gen |-> 0, leader |-> NoSession, probe |-> FALSE, timer |-> 0,
              terminal |-> FALSE, waiters |-> {}]

\* timer is the time to ready_at, or to terminal_until in a terminal episode.
Episode(leader, timer) ==
  [gen |-> nextGen, leader |-> leader, probe |-> FALSE, timer |-> timer,
   terminal |-> FALSE, waiters |-> {}]

Init ==
  /\ episode = NoEpisode
  /\ nextGen = 1
  /\ latch = 0
  /\ doomed = {}
  /\ semaphore = MaxConcurrency
  /\ slots = [s \in Sessions |-> 0]
  /\ pc = [s \in Sessions |-> "idle"]
  /\ ticket = [s \in Sessions |-> 0]
  /\ attempts = [s \in Sessions |-> 0]
  /\ sleep = [s \in Sessions |-> 0]
  /\ nested = [s \in Sessions |-> FALSE]
  /\ after = [s \in Sessions |-> "gate"]

-----------------------------------------------------------------------------
(* Predicates and effects shared by the operations.                         *)

EpisodeOpen == episode.gen # 0

AttemptTooMany(s) == attempts[s] <= MaxAttempts
CanAttempt(s) == attempts[s] < MaxAttempts

AnyFlightMatches(s) == EpisodeOpen /\ episode.probe
MatchingProbe(s) ==
  /\ ticket[s] # 0
  /\ episode.gen = ticket[s]
  /\ episode.leader = s
  /\ episode.probe

PermitNeverExpires(s) == ticket[s] = 0 \/ MatchingProbe(s)
PermitIsCurrent(s) ==
  IF ticket[s] = 0 THEN ~EpisodeOpen
  ELSE MatchingProbe(s) /\ ~episode.terminal

Move(s, place) == pc' = [pc EXCEPT ![s] = place]

\* Condition.notify_all, on top of the move of one execution to a place.
Notify(s, place) ==
  pc' = [t \in Sessions |-> IF t = s THEN place
                            ELSE IF pc[t] = "waiting" THEN "woken" ELSE pc[t]]

\* The probe permit is given back: the episode has no leader and is ready.
Unled == [episode EXCEPT !.leader = NoSession, !.probe = FALSE, !.timer = 0]

AbandonForgets(s, place) == UNCHANGED episode /\ Move(s, place)
Abandon(s, place) ==
  IF MatchingProbe(s)
  THEN episode' = Unled /\ Notify(s, place)
  ELSE UNCHANGED episode /\ Move(s, place)

Release(s) ==
  /\ semaphore' = semaphore + 1
  /\ slots' = [slots EXCEPT ![s] = @ - 1]

\* Where an execution stands when an exception or a result leaves open_attempt
\* or an attempt: a nested one first closes the stream it was to continue.
Exit(s, outcome) == IF nested[s] THEN "closing" ELSE outcome
ExitLocals(s, outcome) ==
  /\ nested' = [nested EXCEPT ![s] = FALSE]
  /\ after' = [after EXCEPT ![s] = outcome]
  /\ ticket' = [ticket EXCEPT ![s] = 0]

-----------------------------------------------------------------------------
(* _wait_for_gate: one pass of its loop per step.                           *)

\* openai_codex awaits an access token before each attempt.
Entrance(s) == IF Kind[s] = "codex" THEN "reopening" ELSE "gate"

Call(s) ==
  /\ pc[s] = "idle"
  /\ Move(s, Entrance(s))
  /\ UNCHANGED <<gate, bulkhead, local>>

AtGate(s) == pc[s] \in {"gate", "woken"}

RefusedUnlessDoomed(s) == latch > 0 \/ (episode.terminal /\ episode.timer > 0)
Refused(s) == s \in doomed \/ latch > 0 \/ (episode.terminal /\ episode.timer > 0)

GateRefuse(s) ==
  /\ AtGate(s)
  /\ Refused(s)
  /\ Move(s, Exit(s, "failed"))
  /\ ExitLocals(s, "failed")
  /\ UNCHANGED <<gate, bulkhead, attempts, sleep>>

GatePass(s) ==
  /\ AtGate(s)
  /\ ~Refused(s)
  /\ ~EpisodeOpen
  /\ Move(s, "limiter")
  /\ UNCHANGED <<gate, bulkhead, local>>

Reopened(s) == [Episode(s, 0) EXCEPT !.probe = TRUE]

\* A cool-down that has expired: this caller leads a new episode, ready at once.
GateReopen(s) ==
  /\ AtGate(s)
  /\ ~Refused(s)
  /\ EpisodeOpen
  /\ episode.terminal
  /\ episode' = Reopened(s)
  /\ nextGen' = nextGen + 1
  /\ ticket' = [ticket EXCEPT ![s] = nextGen]
  /\ Move(s, "limiter")
  /\ UNCHANGED <<latch, doomed, bulkhead, attempts, sleep, nested, after>>

MayLead(s) ==
  \/ episode.leader = NoSession
  \/ episode.leader = s /\ ~episode.probe

Led(s) ==
  [episode EXCEPT !.leader = s,
                  !.waiters = IF episode.leader = NoSession THEN @ \ {s} ELSE @,
                  !.probe = @ \/ episode.timer = 0]

\* The leader, old or new, probes when the delay is over and sleeps otherwise.
GateLead(s) ==
  /\ AtGate(s)
  /\ ~Refused(s)
  /\ EpisodeOpen
  /\ ~episode.terminal
  /\ MayLead(s)
  /\ episode' = Led(s)
  /\ ticket' = [ticket EXCEPT ![s] = episode.gen]
  /\ sleep' = [sleep EXCEPT ![s] = episode.timer]
  /\ Move(s, IF episode.timer = 0 THEN "limiter" ELSE "sleeping")
  /\ UNCHANGED <<nextGen, latch, doomed, bulkhead, attempts, nested, after>>

GateWait(s) ==
  /\ AtGate(s)
  /\ ~Refused(s)
  /\ EpisodeOpen
  /\ ~episode.terminal
  /\ ~MayLead(s)
  /\ episode' = [episode EXCEPT
       !.waiters = IF episode.leader = s THEN @ ELSE @ \cup {s}]
  /\ Move(s, "waiting")
  /\ UNCHANGED <<nextGen, latch, doomed, bulkhead, local>>

\* The claim of a leader that slept, or was cancelled while it slept, still stands.
WaitingLeader(s) ==
  /\ episode.gen = ticket[s]
  /\ episode.leader = s
  /\ ~episode.probe

\* The sleep is over: probe if the claim still stands, else pass the gate again.
LeaderWakes(s) ==
  /\ pc[s] = "sleeping"
  /\ sleep[s] = 0
  /\ IF WaitingLeader(s) /\ ~episode.terminal
     THEN /\ episode' = [episode EXCEPT !.probe = TRUE]
          /\ Move(s, "limiter")
          /\ UNCHANGED ticket
     ELSE /\ Move(s, "gate")
          /\ ticket' = [ticket EXCEPT ![s] = 0]
          /\ UNCHANGED episode
  /\ UNCHANGED <<nextGen, latch, doomed, bulkhead, attempts, sleep, nested, after>>

-----------------------------------------------------------------------------
(* The rest of open_attempt: the window's quota, then a slot.  The gate is  *)
(* looked at again after each wait.                                         *)

StartAttempt(s) ==
  /\ semaphore' = semaphore - 1
  /\ slots' = [slots EXCEPT ![s] = @ + 1]
  /\ attempts' = [attempts EXCEPT ![s] = @ + 1]
  /\ Move(s, "attempt")
  /\ UNCHANGED <<episode, ticket>>

GiveUpPermit(s) ==
  /\ Abandon(s, "gate")
  /\ ticket' = [ticket EXCEPT ![s] = 0]
  /\ UNCHANGED <<bulkhead, attempts>>

\* acquire_if: capacity has come, the permit is checked and the quota recorded.
\* A free slot is then taken without suspending, unless others queue for one.
AcquireQuota(s) ==
  /\ pc[s] = "limiter"
  /\ IF ~PermitIsCurrent(s) THEN GiveUpPermit(s)
     ELSE IF semaphore > 0 /\ \A t \in Sessions : pc[t] # "slot"
     THEN StartAttempt(s)
     ELSE Move(s, "slot") /\ UNCHANGED <<episode, bulkhead, attempts, ticket>>
  /\ UNCHANGED <<nextGen, latch, doomed, sleep, nested, after>>

AcquireUnboundedly(s) ==
  /\ pc[s] = "slot"
  /\ IF PermitIsCurrent(s) THEN StartAttempt(s) ELSE GiveUpPermit(s)
  /\ UNCHANGED <<nextGen, latch, doomed, sleep, nested, after>>

AcquireSlot(s) ==
  /\ pc[s] = "slot"
  /\ semaphore > 0
  /\ IF PermitIsCurrent(s) THEN StartAttempt(s) ELSE GiveUpPermit(s)
  /\ UNCHANGED <<nextGen, latch, doomed, sleep, nested, after>>

-----------------------------------------------------------------------------
(* Results of an attempt.  What follows the recorded result depends on the  *)
(* caller: with no stream to close the attempt is closed at once, otherwise *)
(* the execution is suspended in "closing" with its slot held.              *)

\* The finally block of the caller when a result other than acceptance is in.
Resolve(s, next, place) ==
  /\ ticket' = [ticket EXCEPT ![s] = 0]
  /\ \/ /\ place = IF next \in Outcomes THEN Exit(s, next) ELSE next
        /\ nested' = [nested EXCEPT ![s] = @ /\ next \notin Outcomes]
        /\ after' = [after EXCEPT ![s] = next]
        /\ Release(s)
     \/ /\ Streaming(s)
        /\ place = "closing"
        /\ after' = [after EXCEPT ![s] = next]
        /\ UNCHANGED <<bulkhead, nested>>
  /\ UNCHANGED <<attempts, sleep>>

\* A valid answer.  Streams stay open from here on, the attempt is resolved.
AttemptSucceeds(s) ==
  /\ pc[s] = "attempt"
  /\ \E place \in {"streaming", "returned"} :
       /\ IF Streaming(s)
          THEN /\ place = "streaming"
               /\ UNCHANGED bulkhead
          ELSE /\ place = "returned"
               /\ Release(s)
       /\ IF MatchingProbe(s)
          THEN /\ episode' = NoEpisode
               /\ latch' = 0
               /\ Notify(s, place)
          ELSE /\ Move(s, place)
               /\ UNCHANGED <<episode, latch>>
  /\ ticket' = [ticket EXCEPT ![s] = 0]
  /\ UNCHANGED <<nextGen, doomed, attempts, sleep, nested, after>>

\* What a failed probe, a late failure and a last failure make of an episode.
Postponed(delay) == [episode EXCEPT !.probe = FALSE, !.timer = delay]
Joined(s) == [episode EXCEPT !.waiters = @ \cup {s}]
Exhausted(e, delay) ==
  [e EXCEPT !.leader = NoSession, !.probe = FALSE, !.timer = delay,
            !.terminal = TRUE, !.waiters = {}]

CorrectedKeepsProbe == [episode EXCEPT !.timer = 0]
Corrected == Postponed(0)

\* retry_immediately: the request's shape is corrected, the leader stays.
\* openai_chat asks whether an attempt is left, openai_codex does not.
AttemptCorrected(s) ==
  /\ pc[s] = "attempt"
  /\ Streaming(s)
  /\ Kind[s] = "chat" => CanAttempt(s)
  /\ \E place \in {"gate", "reopening", "closing"} :
       /\ Resolve(s, Entrance(s), place)
       /\ IF MatchingProbe(s)
          THEN episode' = Corrected /\ Notify(s, place)
          ELSE UNCHANGED episode /\ Move(s, place)
  /\ UNCHANGED <<nextGen, latch, doomed>>

\* _attempt_failed with budget left: open an episode, keep leading, or join.
AttemptFails(s, delay) ==
  /\ pc[s] = "attempt"
  /\ CanAttempt(s)
  /\ \E place \in {"gate", "reopening", "closing"} :
       Resolve(s, Entrance(s), place) /\ Notify(s, place)
  /\ \/ /\ ~EpisodeOpen
        /\ episode' = Episode(s, delay)
        /\ nextGen' = nextGen + 1
        /\ UNCHANGED doomed
     \/ /\ MatchingProbe(s)
        /\ episode' = Postponed(delay)
        /\ UNCHANGED <<nextGen, doomed>>
     \/ /\ EpisodeOpen /\ ~MatchingProbe(s) /\ episode.terminal
        /\ doomed' = doomed \cup {s}
        /\ UNCHANGED <<nextGen, episode>>
     \/ /\ EpisodeOpen /\ ~MatchingProbe(s) /\ ~episode.terminal
        /\ episode' = Joined(s)
        /\ UNCHANGED <<nextGen, doomed>>
  /\ UNCHANGED latch

\* _attempt_failed on the last attempt: the outcome sticks to every waiter.
AttemptExhausts(s, delay) ==
  /\ pc[s] = "attempt"
  /\ ~CanAttempt(s)
  /\ \E place \in {"failed", "closing"} :
       /\ Resolve(s, "failed", place)
       /\ IF EpisodeOpen /\ ~MatchingProbe(s)
          THEN /\ Move(s, place)
               /\ UNCHANGED <<episode, nextGen, doomed>>
          ELSE /\ Notify(s, place)
               /\ episode' = Exhausted(IF EpisodeOpen THEN episode
                                        ELSE Episode(NoSession, 0), delay)
               /\ nextGen' = IF EpisodeOpen THEN nextGen ELSE nextGen + 1
               /\ doomed' = doomed \cup episode.waiters
  /\ UNCHANGED latch

\* A failure that is not retried; 401 and 403 latch the provider first.
AttemptRejected(s) ==
  /\ pc[s] = "attempt"
  /\ \E place \in {"failed", "closing"} :
       /\ Resolve(s, "failed", place)
       /\ \/ /\ AuthFailures
             /\ latch' = AuthLatchTTL
             /\ episode' = NoEpisode
             /\ Notify(s, place)
          \/ /\ UNCHANGED latch
             /\ IF MatchingProbe(s)
                THEN episode' = NoEpisode /\ Notify(s, place)
                ELSE UNCHANGED episode /\ Move(s, place)
  /\ UNCHANGED <<nextGen, doomed>>

-----------------------------------------------------------------------------
(* An accepted stream, and the end of an attempt.                           *)

ToClosing(s, next) ==
  /\ Move(s, "closing")
  /\ after' = [after EXCEPT ![s] = next]
  /\ UNCHANGED <<gate, bulkhead, ticket, attempts, sleep, nested>>

StreamEnds(s) == pc[s] = "streaming" /\ ToClosing(s, "returned")

\* A break after acceptance is the request's own business: it is final, or
\* salvaged from complete tool calls, or replayed from an attempt of its own.
StreamBreaks(s) ==
  /\ pc[s] = "streaming"
  /\ \/ ToClosing(s, "failed")
     \/ Kind[s] = "chat" /\ ToClosing(s, "returned")
     \/ CanAttempt(s) /\ ToClosing(s, Entrance(s))

\* Continuation or tool repair: the attempt is opened before the broken
\* stream's own finally block has run, so its slot is still held.
StreamContinues(s) ==
  /\ pc[s] = "streaming"
  /\ Kind[s] = "chat"
  /\ ~nested[s]
  /\ CanAttempt(s)
  /\ Move(s, "gate")
  /\ nested' = [nested EXCEPT ![s] = TRUE]
  /\ UNCHANGED <<gate, bulkhead, ticket, attempts, sleep, after>>

CloseForgetsSlot(s) ==
  /\ pc[s] = "closing"
  /\ ticket[s] = 0
  /\ Move(s, Exit(s, after[s]))
  /\ ExitLocals(s, after[s])
  /\ UNCHANGED <<gate, bulkhead, attempts, sleep>>

\* aclose once the stream is closed: an unresolved probe is first abandoned,
\* in a shielded task the execution waits for, then the slot is released.
CloseFinished(s) ==
  /\ pc[s] = "closing"
  /\ ticket[s] = 0
  /\ Release(s)
  /\ IF after[s] \in Outcomes /\ nested[s]
     THEN nested' = [nested EXCEPT ![s] = FALSE] /\ UNCHANGED pc
     ELSE Move(s, after[s]) /\ UNCHANGED nested
  /\ UNCHANGED <<gate, ticket, attempts, sleep, after>>

CloseUnresolved(s) ==
  /\ pc[s] = "closing"
  /\ ticket[s] # 0
  /\ Abandon(s, "releasing")
  /\ ticket' = [ticket EXCEPT ![s] = 0]
  /\ UNCHANGED <<nextGen, latch, doomed, bulkhead, attempts, sleep, nested, after>>

AbandonFinished(s) ==
  /\ pc[s] = "releasing"
  /\ Release(s)
  /\ Move(s, Exit(s, "cancelled"))
  /\ ExitLocals(s, "cancelled")
  /\ UNCHANGED <<gate, attempts, sleep>>

\* The access token has come, or cannot be had; the budget is asked first.
Reopen(s) ==
  /\ pc[s] = "reopening"
  /\ \/ CanAttempt(s) /\ Move(s, "gate")
     \/ Move(s, "failed")
  /\ UNCHANGED <<gate, bulkhead, local>>

-----------------------------------------------------------------------------
(* Cancellation of the task that runs an execution.                         *)

MayBeCancelled(s) == s \in Cancellable /\ after[s] # "cancelled"

CancelWaiting(s) ==
  /\ MayBeCancelled(s)
  /\ pc[s] \in {"waiting", "woken"}
  /\ episode' = [episode EXCEPT !.waiters = @ \ {s}]
  /\ Move(s, Exit(s, "cancelled"))
  /\ ExitLocals(s, "cancelled")
  /\ UNCHANGED <<nextGen, latch, doomed, bulkhead, attempts, sleep>>

LeaderVanishes(s) ==
  /\ MayBeCancelled(s)
  /\ pc[s] = "sleeping"
  /\ Move(s, Exit(s, "cancelled"))
  /\ ExitLocals(s, "cancelled")
  /\ UNCHANGED <<gate, bulkhead, attempts, sleep>>

\* _abandon_waiting_leader: the delay still runs for the next leader.
CancelSleeping(s) ==
  /\ MayBeCancelled(s)
  /\ pc[s] = "sleeping"
  /\ IF WaitingLeader(s)
     THEN /\ episode' = [episode EXCEPT !.leader = NoSession]
          /\ Notify(s, Exit(s, "cancelled"))
     ELSE UNCHANGED episode /\ Move(s, Exit(s, "cancelled"))
  /\ ExitLocals(s, "cancelled")
  /\ UNCHANGED <<nextGen, latch, doomed, bulkhead, attempts, sleep>>

CancelAdmission(s) ==
  /\ MayBeCancelled(s)
  /\ pc[s] \in {"limiter", "slot"}
  /\ Abandon(s, Exit(s, "cancelled"))
  /\ ExitLocals(s, "cancelled")
  /\ UNCHANGED <<nextGen, latch, doomed, bulkhead, attempts, sleep>>

\* With no stream open the attempt is closed at once.
CancelAttempt(s) ==
  /\ MayBeCancelled(s)
  /\ pc[s] = "attempt"
  /\ Abandon(s, "releasing")
  /\ ticket' = [ticket EXCEPT ![s] = 0]
  /\ after' = [after EXCEPT ![s] = "cancelled"]
  /\ UNCHANGED <<nextGen, latch, doomed, bulkhead, attempts, sleep, nested>>

\* With a stream open it is closed first, and the attempt stays unresolved.
CancelStream(s) ==
  /\ MayBeCancelled(s)
  /\ Streaming(s)
  /\ pc[s] \in {"attempt", "streaming"}
  /\ ToClosing(s, "cancelled")

\* The cancellation arrives while the stream is being closed: close re-raises
\* it and the finally block is left before attempt.aclose().
CancelClosing(s) ==
  /\ MayBeCancelled(s)
  /\ pc[s] = "closing"
  /\ Move(s, Exit(s, "cancelled"))
  /\ ExitLocals(s, "cancelled")
  /\ UNCHANGED <<gate, bulkhead, attempts, sleep>>

CancelReopening(s) ==
  /\ MayBeCancelled(s)
  /\ pc[s] = "reopening"
  /\ Move(s, "cancelled")
  /\ ExitLocals(s, "cancelled")
  /\ UNCHANGED <<gate, bulkhead, attempts, sleep>>

-----------------------------------------------------------------------------
Less(n) == IF n = 0 THEN 0 ELSE n - 1

\* time.monotonic() advances: every instant in the future is nearer.
Tick ==
  /\ \/ episode.timer > 0
     \/ latch > 0
     \/ \E s \in Sessions : sleep[s] > 0
  /\ episode' = [episode EXCEPT !.timer = Less(@)]
  /\ latch' = Less(latch)
  /\ sleep' = [s \in Sessions |-> Less(sleep[s])]
  /\ UNCHANGED <<nextGen, doomed, bulkhead, pc, ticket, attempts, nested, after>>

Gate(s) == \/ GateRefuse(s) \/ GatePass(s) \/ GateReopen(s) \/ GateLead(s)
           \/ GateWait(s) \/ LeaderWakes(s) \/ AcquireQuota(s) \/ AcquireSlot(s)

Answer(s) == \/ AttemptSucceeds(s) \/ AttemptCorrected(s) \/ AttemptRejected(s)
             \/ \E d \in Delays : AttemptFails(s, d) \/ AttemptExhausts(s, d)
             \/ StreamEnds(s) \/ StreamBreaks(s) \/ StreamContinues(s)

Close(s) == CloseFinished(s) \/ CloseUnresolved(s) \/ AbandonFinished(s) \/ Reopen(s)

Cancel(s) == \/ CancelWaiting(s) \/ CancelSleeping(s) \/ CancelAdmission(s)
             \/ CancelAttempt(s) \/ CancelStream(s) \/ CancelClosing(s)
             \/ CancelReopening(s)

\* Every execution has ended: nothing is left to run.
Finished == (\A s \in Sessions : pc[s] \in Outcomes) /\ UNCHANGED vars

Next == \/ \E s \in Sessions : Call(s) \/ Gate(s) \/ Answer(s) \/ Close(s) \/ Cancel(s)
        \/ Tick
        \/ Finished

Spec == Init /\ [][Next]_vars

\* The event loop runs every task that is ready, time passes, the upstream
\* answers or its read times out, and a stream being closed gets closed.
\* Callers need not come and nobody need be cancelled.
FairSpec ==
  /\ Spec
  /\ WF_vars(Tick)
  /\ \A s \in Sessions : WF_vars(Gate(s)) /\ WF_vars(Answer(s)) /\ WF_vars(Close(s))

-----------------------------------------------------------------------------
(* Properties.                                                              *)

TypeOK ==
  /\ episode \in Episodes
  /\ nextGen \in Nat \ {0}
  /\ latch \in Nat
  /\ doomed \subseteq Sessions
  /\ semaphore \in Nat
  /\ slots \in [Sessions -> Nat]
  /\ pc \in [Sessions -> Places]
  /\ ticket \in [Sessions -> Nat]
  /\ attempts \in [Sessions -> Nat]
  /\ sleep \in [Sessions -> Nat]
  /\ nested \in [Sessions -> BOOLEAN]
  /\ after \in [Sessions -> {"gate", "reopening"} \cup Outcomes]

\* Where an execution may hold a probe permit that is not resolved yet.
ProbePlaces == {"limiter", "slot", "attempt", "closing"}

\* An execution whose permit is the open episode's probe.
Probing(s) == EpisodeOpen /\ ticket[s] = episode.gen /\ pc[s] \in ProbePlaces

\* At most one execution holds the probe of the open episode, it is the leader,
\* the episode knows the probe is out, and the delay the upstream asked for is
\* over: a second probe, or an early one, would be the stampede the episode is
\* there to prevent.
SingleProbe ==
  \A s \in Sessions : Probing(s) =>
    /\ episode.leader = s
    /\ episode.probe
    /\ episode.timer = 0
    /\ ~episode.terminal

\* A probe that is marked as out is really held by somebody who is still bound
\* to resolve or abandon it; otherwise the gate never opens again.
ProbeIsHeld ==
  episode.probe => \E s \in Sessions : Probing(s)

\* The leader of an open episode is an execution that still runs: a leader that
\* has ended leaves every waiter and every later caller at the gate for good.
\* "leader cancellation transfers ownership to a waiter" (ARCHITECTURE.md).
LeaderIsAlive ==
  episode.leader # NoSession => pc[episode.leader] \notin Outcomes

\* One budget per logical execution, whatever the reasons for its attempts; an
\* execution with no attempt left never gets past the gate.
BudgetRespected ==
  \A s \in Sessions :
    /\ attempts[s] <= MaxAttempts
    /\ pc[s] \in {"gate", "waiting", "woken", "sleeping", "limiter", "slot"}
         => CanAttempt(s)

\* Slots are neither created nor destroyed, and an execution that has ended
\* holds none: aclose gives the slot of every attempt back exactly once.
SlotsReturned ==
  /\ \A s \in Sessions : pc[s] \in Outcomes \cup {"idle"} => slots[s] = 0
  /\ (\A s \in Sessions : slots[s] = 0) => semaphore = MaxConcurrency

\* What the budget, the probe and the slots rest on.
AdmissionIsSound == TypeOK /\ SingleProbe /\ ProbeIsHeld /\ BudgetRespected

\* Whoever has ended, by itself or by a cancellation, leaves nothing behind that
\* others wait for.
NobodyIsStranded == LeaderIsAlive /\ SlotsReturned

\* "the bulkhead is held only while an upstream operation or stream is active,
\* never during retry backoff" (ARCHITECTURE.md): when no slot is left, somebody
\* who has one is not waiting for another, so that a slot comes back.
SlotsAreInUse ==
  semaphore = 0 => \E s \in Sessions : slots[s] > 0 /\ pc[s] # "slot"

\* While a recovery episode is open no attempt starts but its leader's probe,
\* also by executions that had passed the gate before the episode opened.
OnlyProbesDuringRecovery ==
  [][\A s \in Sessions : attempts'[s] # attempts[s] /\ EpisodeOpen => Probing(s)]_vars

\* The outcome of an exhausted recovery stays with the executions that waited
\* for it: none of them opens an attempt again, in whatever later episode.
DoomedStayOut ==
  [][\A s \in doomed : attempts'[s] = attempts[s] /\ s \in doomed']_vars

\* Every execution that was called comes to an end: a lost wake-up, a stranded
\* leader or a slot that never comes back would leave one suspended for ever.
EveryExecutionEnds ==
  \A s \in Sessions : pc[s] # "idle" ~> pc[s] \in Outcomes

\* How the controller looks as a circuit breaker.
Mode == IF ~EpisodeOpen THEN "closed"
        ELSE IF episode.terminal THEN "cooling"
        ELSE IF episode.probe THEN "probing" ELSE "open"

Prober == IF episode.probe THEN episode.leader ELSE NoSession

Breaker == INSTANCE RecoveryBreaker WITH
  mode <- Mode, prober <- Prober, started <- attempts

\* The controller is a circuit breaker: seen from outside, whatever happens to
\* its queues, claims and clocks, it goes from mode to mode as one, and attempts
\* start only while it is closed or by the execution that has its probe.
ImplementsBreaker == Breaker!Spec
=============================================================================
