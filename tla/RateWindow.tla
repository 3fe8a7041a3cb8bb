------------------------------ MODULE RateWindow ------------------------------
(***************************************************************************)
(* StrictSlidingWindowLimiter: at most RateLimit acquisitions in any       *)
(* interval of length Window.  Providers (acquire_if with a permit that    *)
(* may be stale by then) and messaging (acquire) wait for it.              *)
(*                                                                         *)
(* Nothing is awaited while the lock is held, so that what a caller does   *)
(* with the lock is one step, during which time may pass: the clock is     *)
(* read again for the timestamp.                                           *)
(***************************************************************************)
EXTENDS Naturals, Sequences

CONSTANTS Callers,     \* tasks that acquire
          Conditional, \* those that call acquire_if
          RateLimit, Window,
          Resolution,  \* how much too early a sleep of the event loop may end
          MaxTime,     \* bound on the clock
          MaxAcquired  \* bound on the acquisitions

ASSUME WindowConstants == /\ RateLimit \in Nat \ {0} /\ Window \in Nat \ {0}
                          /\ {Resolution, MaxTime, MaxAcquired} \subseteq Nat
                          /\ Conditional \subseteq Callers

VARIABLES clock,
          acquired, \* every timestamp, in the order of the acquisitions
          head,     \* the deque is what acquired holds from here on
          waiting,  \* per caller: where it is, and when its sleep is over
          allowed   \* whether the condition of acquire_if holds

windowVars == <<clock, acquired, head, waiting, allowed>>

Now(s) == [at |-> s, until |-> 0]

WindowInit == /\ clock = 0
              /\ acquired = <<>>
              /\ head = 1
              /\ waiting = [c \in Callers |-> Now("idle")]
              /\ allowed = TRUE

-----------------------------------------------------------------------------
(* _acquire(): the loop's body, under the lock *)

Asking(c) == waiting[c].at \in {"asking", "awake"}

\* The deque from k on is what is left of it at this moment.
Elapsed(i) == acquired[i] + Window <= clock
Purged(k) == /\ k \in head..Len(acquired) + 1
             /\ \A i \in head..k - 1 : Elapsed(i)
             /\ k <= Len(acquired) => ~Elapsed(k)

HasRoomForOneMore(k) == Len(acquired) + 1 - k <= RateLimit
HasRoom(k) == Len(acquired) + 1 - k < RateLimit

Refuses(c) == c \in Conditional /\ ~allowed

Ask(c) ==
  /\ waiting[c].at = "idle"
  /\ waiting' = [waiting EXCEPT ![c] = Now("asking")]
  /\ UNCHANGED <<clock, acquired, head, allowed>>

\* The timestamp is taken after the look at the deque.
Acquire(c) ==
  \E k \in head..Len(acquired) + 1, now \in clock..MaxTime :
    /\ Asking(c) /\ Purged(k) /\ HasRoom(k) /\ ~Refuses(c)
    /\ Len(acquired) < MaxAcquired
    /\ now <= clock + 1
    /\ clock' = now
    /\ acquired' = Append(acquired, now)
    /\ head' = k
    /\ waiting' = [waiting EXCEPT ![c] = Now("idle")]
    /\ UNCHANGED allowed

\* acquire_if: a condition that no longer holds takes nothing.
Decline(c) ==
  \E k \in head..Len(acquired) + 1 :
    /\ Asking(c) /\ Purged(k) /\ HasRoom(k) /\ Refuses(c)
    /\ head' = k
    /\ waiting' = [waiting EXCEPT ![c] = Now("idle")]
    /\ UNCHANGED <<clock, acquired, allowed>>

\* The window is full: sleep until its oldest acquisition leaves it.
Wait(c) ==
  \E k \in head..Len(acquired) + 1 :
    /\ Asking(c) /\ Purged(k) /\ ~HasRoom(k)
    /\ head' = k
    /\ waiting' = [waiting EXCEPT ![c] = [at |-> "asleep", until |-> acquired[k] + Window]]
    /\ UNCHANGED <<clock, acquired, allowed>>

\* The sleep ends, perhaps a little too early: the loop looks again.
Wake(c) ==
  /\ waiting[c].at = "asleep"
  /\ waiting[c].until <= clock + Resolution
  /\ waiting' = [waiting EXCEPT ![c] = Now("awake")]
  /\ UNCHANGED <<clock, acquired, head, allowed>>

\* The task is cancelled in its sleep.
GiveUp(c) ==
  /\ waiting[c].at = "asleep"
  /\ waiting' = [waiting EXCEPT ![c] = Now("idle")]
  /\ UNCHANGED <<clock, acquired, head, allowed>>

Tick == /\ clock < MaxTime
        /\ clock' = clock + 1
        /\ UNCHANGED <<acquired, head, waiting, allowed>>

\* The permit a caller came with expires, or it is given a new one.
Turn == /\ allowed' = ~allowed
        /\ UNCHANGED <<clock, acquired, head, waiting>>

CallerStep(c) == Ask(c) \/ Acquire(c) \/ Decline(c) \/ Wait(c) \/ Wake(c) \/ GiveUp(c)

WindowNext == (\E c \in Callers : CallerStep(c)) \/ Tick \/ Turn

WindowSpec == WindowInit /\ [][WindowNext]_windowVars

-----------------------------------------------------------------------------
(* Properties *)

Acquisitions == 1..Len(acquired)

\* "at most rate_limit acquisitions in any interval of length rate_window",
\* whoever sleeps, wakes too early, is cancelled or is refused in between.
StrictWindow ==
  \A i, j \in Acquisitions : j = i + RateLimit => acquired[i] + Window <= acquired[j]

\* Nobody sleeps longer than the window needs: to the end of an acquisition that
\* was in it, and that has left it by the time anyone could be let in.
SleepsToAnEnd ==
  \A c \in Callers : waiting[c].at = "asleep" =>
    \E i \in Acquisitions : waiting[c].until = acquired[i] + Window

WindowIsStrict == StrictWindow /\ SleepsToAnEnd
===============================================================================
