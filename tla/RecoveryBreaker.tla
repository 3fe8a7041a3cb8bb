-------------------------- MODULE RecoveryBreaker --------------------------
(***************************************************************************)
(* What a provider's admission controller promises, without its queues,     *)
(* claims and clocks: a circuit breaker.  While it is closed everybody may  *)
(* start attempts.  A shared failure opens it; then one execution at a time *)
(* takes the probe, attempts only that, and by its answer closes the        *)
(* breaker, hands the probe back, or, its budget spent, cools it down.      *)
(***************************************************************************)
EXTENDS Naturals

CONSTANTS Sessions, NoSession, MaxAttempts

VARIABLES
  mode,     \* "closed", "open", "probing" or "cooling"
  prober,   \* the execution that has the probe, NoSession if mode # "probing"
  started   \* attempts each execution has started

vars == <<mode, prober, started>>

Init ==
  /\ mode = "closed"
  /\ prober = NoSession
  /\ started = [s \in Sessions |-> 0]

\* A failure while closed: transient, or the last one of an execution's budget.
Trip ==
  /\ mode = "closed"
  /\ mode' \in {"open", "cooling"}
  /\ UNCHANGED <<prober, started>>

\* The probe is taken; after a cool-down by the first caller that comes.
TakeProbe(s) ==
  /\ mode \in {"open", "cooling"}
  /\ mode' = "probing"
  /\ prober' = s
  /\ UNCHANGED started

Start(s) ==
  /\ \/ mode = "closed"
     \/ mode = "probing" /\ prober = s
  /\ started[s] < MaxAttempts
  /\ started' = [started EXCEPT ![s] = @ + 1]
  /\ UNCHANGED <<mode, prober>>

\* The probe is over: answered, failed or abandoned, or failed for good.
EndProbe ==
  /\ mode = "probing"
  /\ mode' \in {"closed", "open", "cooling"}
  /\ prober' = NoSession
  /\ UNCHANGED started

\* A rejected credential drops the recovery, whoever it was rejected for.
Reset ==
  /\ mode # "closed"
  /\ mode' = "closed"
  /\ prober' = NoSession
  /\ UNCHANGED started

Next == \/ Trip \/ EndProbe \/ Reset
        \/ \E s \in Sessions : TakeProbe(s) \/ Start(s)

Spec == Init /\ [][Next]_vars
=============================================================================
