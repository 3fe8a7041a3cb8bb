---------------------- MODULE ProviderAdmissionProofs ----------------------
(***************************************************************************)
(* What holds of ProviderAdmission for any number of executions, attempts   *)
(* and slots, any delays, any mix of callers and cancellations.             *)
(***************************************************************************)
EXTENDS ProviderAdmission, FiniteSetTheorems, TLAPS

USE AdmissionAssumption

-----------------------------------------------------------------------------
(* Types.  aclose gives back a slot that the execution still has.           *)

Holding == {"attempt", "streaming", "closing", "releasing"}
Owed(s) == (IF nested[s] THEN 1 ELSE 0) + (IF pc[s] \in Holding THEN 1 ELSE 0)

SlotsOwed == \A s \in Sessions : slots[s] >= Owed(s)

\* What the operations make of an episode is an episode.
LEMMA EpisodeTypes ==
  ASSUME TypeOK, NEW s \in Sessions, NEW delay \in Nat
  PROVE  /\ NoEpisode \in Episodes
         /\ Episode(s, delay) \in Episodes
         /\ Reopened(s) \in Episodes
         /\ Led(s) \in Episodes
         /\ Unled \in Episodes
         /\ Corrected \in Episodes
         /\ Postponed(delay) \in Episodes
         /\ Joined(s) \in Episodes
         /\ Exhausted(episode, delay) \in Episodes
         /\ Exhausted(Episode(NoSession, 0), delay) \in Episodes
<1> USE DEF TypeOK, Episodes
<1>1. NoEpisode \in Episodes
  BY DEF NoEpisode
<1>2. /\ Episode(s, delay) \in Episodes
      /\ Episode(NoSession, 0) \in Episodes
  BY DEF Episode
<1>3. Reopened(s) \in Episodes
  BY DEF Reopened, Episode
<1>4. Led(s) \in Episodes
  BY DEF Led
<1>5. Unled \in Episodes
  BY DEF Unled
<1>6. Postponed(delay) \in Episodes /\ Corrected \in Episodes
  BY DEF Postponed, Corrected
<1>7. Joined(s) \in Episodes
  BY DEF Joined
<1>8. ASSUME NEW e \in Episodes PROVE Exhausted(e, delay) \in Episodes
  BY DEF Exhausted
<1>9. Exhausted(episode, delay) \in Episodes
  BY <1>8
<1> QED BY <1>1, <1>2, <1>3, <1>4, <1>5, <1>6, <1>7, <1>8, <1>9

\* Types of what Resolve changes, and the slots it leaves.
OwedAt(t, place) ==
  (IF nested'[t] THEN 1 ELSE 0) + (IF place \in Holding THEN 1 ELSE 0)

ResolvedTypes ==
  /\ semaphore' \in Nat
  /\ slots' \in [Sessions -> Nat]
  /\ ticket' \in [Sessions -> Nat]
  /\ attempts' \in [Sessions -> Nat]
  /\ sleep' \in [Sessions -> Nat]
  /\ nested' \in [Sessions -> BOOLEAN]
  /\ after' \in [Sessions -> {"gate", "reopening"} \cup Outcomes]

LEMMA Resolved ==
  ASSUME TypeOK, SlotsOwed, NEW s \in Sessions, pc[s] = "attempt",
         NEW next \in {"gate", "reopening", "failed"}, NEW place \in Places,
         Resolve(s, next, place)
  PROVE  /\ ResolvedTypes
         /\ \A t \in Sessions : slots'[t] >= OwedAt(t, IF t = s THEN place ELSE pc[t])
<1> USE DEF TypeOK, Outcomes
<1>1. slots[s] >= (IF nested[s] THEN 1 ELSE 0) + 1 /\ slots[s] \in Nat
  BY DEF SlotsOwed, Owed, Holding
<1>2. /\ ticket' \in [Sessions -> Nat]
      /\ UNCHANGED <<attempts, sleep>>
      /\ after' = [after EXCEPT ![s] = next]
  BY DEF Resolve
<1>3. CASE /\ place = IF next \in Outcomes THEN Exit(s, next) ELSE next
           /\ nested' = [nested EXCEPT ![s] = @ /\ next \notin Outcomes]
           /\ Release(s)
  <2>1. ResolvedTypes
    BY <1>1, <1>2, <1>3 DEF ResolvedTypes, Release
  <2>2. nested'[s] = (nested[s] /\ next \notin Outcomes) /\ slots'[s] = slots[s] - 1
    BY <1>3 DEF Release
  <2>3. ~nested'[s] \/ place \notin Holding
    BY <1>3, <2>2 DEF Exit, Holding
  <2>4. ~nested[s] => ~nested'[s] /\ place \notin Holding
    BY <1>3, <2>2 DEF Exit, Holding
  <2>5. slots'[s] >= OwedAt(s, place)
    BY <1>1, <2>2, <2>3, <2>4 DEF OwedAt
  <2>6. ASSUME NEW t \in Sessions, t # s PROVE slots'[t] >= OwedAt(t, pc[t])
    BY <1>3, <2>6 DEF OwedAt, Release, SlotsOwed, Owed
  <2> QED BY <2>1, <2>5, <2>6
<1>4. CASE place = "closing" /\ UNCHANGED <<bulkhead, nested>>
  BY <1>1, <1>2, <1>4 DEF ResolvedTypes, OwedAt, SlotsOwed, Owed, Holding, bulkhead
<1> QED BY <1>3, <1>4 DEF Resolve

\* A type-correct state where every open attempt has its slot stays so.
LEMMA TypesKept == TypeOK /\ SlotsOwed /\ [Next]_vars => TypeOK' /\ SlotsOwed'
<1> SUFFICES ASSUME TypeOK, SlotsOwed, [Next]_vars PROVE TypeOK' /\ SlotsOwed'
  OBVIOUS
<1> USE DEF SlotsOwed, Owed, Holding, Places, Outcomes, gate, bulkhead, local, Move, Notify
<1>1. ASSUME NEW s \in Sessions, Call(s) PROVE TypeOK' /\ SlotsOwed'
  BY <1>1 DEF Call, Entrance, TypeOK
<1>2. ASSUME NEW s \in Sessions, Gate(s) PROVE TypeOK' /\ SlotsOwed'
  <2>1. CASE GateRefuse(s)
    <3>1. episode' \in Episodes
      BY <2>1, EpisodeTypes DEF GateRefuse, gate, TypeOK
    <3>2. TypeOK'
      BY <2>1, <3>1 DEF GateRefuse, AtGate, Exit, ExitLocals, TypeOK
    <3>3. SlotsOwed'
      BY <2>1 DEF GateRefuse, AtGate, Exit, ExitLocals, TypeOK
    <3> QED BY <3>2, <3>3
  <2>2. CASE GatePass(s)
    <3>1. episode' \in Episodes
      BY <2>2, EpisodeTypes DEF GatePass, gate, TypeOK
    <3>2. TypeOK'
      BY <2>2, <3>1 DEF GatePass, AtGate, TypeOK
    <3>3. SlotsOwed'
      BY <2>2 DEF GatePass, AtGate, TypeOK
    <3> QED BY <3>2, <3>3
  <2>3. CASE GateReopen(s)
    <3>1. episode' \in Episodes
      BY <2>3, EpisodeTypes DEF GateReopen, TypeOK
    <3>2. TypeOK'
      BY <2>3, <3>1 DEF GateReopen, AtGate, TypeOK
    <3>3. SlotsOwed'
      BY <2>3 DEF GateReopen, AtGate, TypeOK
    <3> QED BY <3>2, <3>3
  <2>4. CASE GateLead(s)
    <3>1. episode' \in Episodes
      BY <2>4, EpisodeTypes DEF GateLead
    <3>2. episode.gen \in Nat /\ episode.timer \in Nat
      BY DEF TypeOK, Episodes
    <3>3. TypeOK'
      BY <2>4, <3>1, <3>2 DEF GateLead, AtGate, TypeOK
    <3>4. SlotsOwed'
      BY <2>4, <3>2 DEF GateLead, AtGate, TypeOK
    <3> QED BY <3>3, <3>4
  <2>5. CASE GateWait(s)
    <3>1. episode' \in Episodes
      <4>1. episode \in Episodes /\ Joined(s) \in Episodes
        BY EpisodeTypes DEF TypeOK
      <4>2. episode' = IF episode.leader = s THEN episode ELSE Joined(s)
        BY <2>5, <4>1 DEF GateWait, Joined, Episodes
      <4> QED BY <4>1, <4>2
    <3>2. TypeOK'
      BY <2>5, <3>1 DEF GateWait, AtGate, TypeOK
    <3>3. SlotsOwed'
      BY <2>5 DEF GateWait, AtGate, TypeOK
    <3> QED BY <3>2, <3>3
  <2>6. CASE LeaderWakes(s)
    <3>1. [episode EXCEPT !.probe = TRUE] \in Episodes
      BY DEF TypeOK, Episodes
    <3>2. episode' \in Episodes
      BY <2>6, <3>1 DEF LeaderWakes, TypeOK
    <3>3. TypeOK'
      BY <2>6, <3>2 DEF LeaderWakes, TypeOK
    <3>4. SlotsOwed'
      BY <2>6 DEF LeaderWakes, TypeOK
    <3> QED BY <3>3, <3>4
  <2>7. CASE AcquireQuota(s)
    <3>1. episode' \in Episodes
      BY <2>7, EpisodeTypes DEF AcquireQuota, StartAttempt, GiveUpPermit, Abandon, TypeOK
    <3>2. TypeOK'
      BY <2>7, <3>1 DEF AcquireQuota, StartAttempt, GiveUpPermit, Abandon, TypeOK
    <3>3. SlotsOwed'
      BY <2>7 DEF AcquireQuota, StartAttempt, GiveUpPermit, Abandon, TypeOK
    <3> QED BY <3>2, <3>3
  <2>8. CASE AcquireSlot(s)
    <3>1. episode' \in Episodes
      BY <2>8, EpisodeTypes DEF AcquireSlot, StartAttempt, GiveUpPermit, Abandon, TypeOK
    <3>2. TypeOK'
      BY <2>8, <3>1 DEF AcquireSlot, StartAttempt, GiveUpPermit, Abandon, TypeOK
    <3>3. SlotsOwed'
      BY <2>8 DEF AcquireSlot, StartAttempt, GiveUpPermit, Abandon, TypeOK
    <3> QED BY <3>2, <3>3
  <2> QED BY <1>2, <2>1, <2>2, <2>3, <2>4, <2>5, <2>6, <2>7, <2>8 DEF Gate
<1>3. ASSUME NEW s \in Sessions, Answer(s) PROVE TypeOK' /\ SlotsOwed'
  <2>1. CASE AttemptSucceeds(s)
    <3>1. episode' \in Episodes
      BY <2>1, EpisodeTypes DEF AttemptSucceeds, TypeOK
    <3>2. TypeOK'
      BY <2>1, <3>1 DEF AttemptSucceeds, Release, TypeOK
    <3>3. SlotsOwed'
      BY <2>1 DEF AttemptSucceeds, Release, TypeOK
    <3> QED BY <3>2, <3>3
  <2>2. CASE AttemptCorrected(s)
    <3>1. episode' \in Episodes
      BY <2>2, EpisodeTypes DEF AttemptCorrected, TypeOK
    <3>2. PICK place \in Places :
                /\ Resolve(s, Entrance(s), place)
                /\ Notify(s, place) \/ Move(s, place)
      BY <2>2 DEF AttemptCorrected, TypeOK
    <3>3. pc[s] = "attempt"
      BY <2>2 DEF AttemptCorrected, TypeOK
    <3>4. /\ ResolvedTypes
          /\ \A t \in Sessions : slots'[t] >= OwedAt(t, IF t = s THEN place ELSE pc[t])
      BY <3>2, <3>3, Resolved DEF Entrance
    <3>5. pc' \in [Sessions -> Places]
      BY <3>2 DEF TypeOK
    <3>6. TypeOK'
      BY <2>2, <3>1, <3>4, <3>5 DEF AttemptCorrected, ResolvedTypes, TypeOK
    <3>7. SlotsOwed'
      BY <3>2, <3>4 DEF OwedAt, TypeOK
    <3> QED BY <3>6, <3>7
  <2>3. CASE AttemptRejected(s)
    <3>1. episode' \in Episodes
      BY <2>3, EpisodeTypes DEF AttemptRejected, TypeOK
    <3>2. PICK place \in Places :
                /\ Resolve(s, "failed", place)
                /\ Notify(s, place) \/ Move(s, place)
      BY <2>3 DEF AttemptRejected, TypeOK
    <3>3. pc[s] = "attempt"
      BY <2>3 DEF AttemptRejected, TypeOK
    <3>4. /\ ResolvedTypes
          /\ \A t \in Sessions : slots'[t] >= OwedAt(t, IF t = s THEN place ELSE pc[t])
      BY <3>2, <3>3, Resolved DEF Entrance
    <3>5. pc' \in [Sessions -> Places]
      BY <3>2 DEF TypeOK
    <3>6. TypeOK'
      BY <2>3, <3>1, <3>4, <3>5 DEF AttemptRejected, ResolvedTypes, TypeOK
    <3>7. SlotsOwed'
      BY <3>2, <3>4 DEF OwedAt, TypeOK
    <3> QED BY <3>6, <3>7
  <2>4. ASSUME NEW d \in Delays, AttemptFails(s, d) PROVE TypeOK' /\ SlotsOwed'
    <3>1. episode' \in Episodes
      BY <2>4, EpisodeTypes DEF AttemptFails, TypeOK
    <3>2. PICK place \in Places :
                /\ Resolve(s, Entrance(s), place)
                /\ Notify(s, place) \/ Move(s, place)
      BY <2>4 DEF AttemptFails, TypeOK
    <3>3. pc[s] = "attempt"
      BY <2>4 DEF AttemptFails, TypeOK
    <3>4. /\ ResolvedTypes
          /\ \A t \in Sessions : slots'[t] >= OwedAt(t, IF t = s THEN place ELSE pc[t])
      BY <3>2, <3>3, Resolved DEF Entrance
    <3>5. pc' \in [Sessions -> Places]
      BY <3>2 DEF TypeOK
    <3>6. TypeOK'
      BY <2>4, <3>1, <3>4, <3>5 DEF AttemptFails, ResolvedTypes, TypeOK
    <3>7. SlotsOwed'
      BY <3>2, <3>4 DEF OwedAt, TypeOK
    <3> QED BY <3>6, <3>7
  <2>5. ASSUME NEW d \in Delays, AttemptExhausts(s, d) PROVE TypeOK' /\ SlotsOwed'
    <3>1. episode' \in Episodes
      BY <2>5, EpisodeTypes DEF AttemptExhausts, TypeOK
    <3>2. PICK place \in Places :
                /\ Resolve(s, "failed", place)
                /\ Notify(s, place) \/ Move(s, place)
      BY <2>5 DEF AttemptExhausts, TypeOK
    <3>3. pc[s] = "attempt"
      BY <2>5 DEF AttemptExhausts, TypeOK
    <3>4. /\ ResolvedTypes
          /\ \A t \in Sessions : slots'[t] >= OwedAt(t, IF t = s THEN place ELSE pc[t])
      BY <3>2, <3>3, Resolved DEF Entrance
    <3>5. pc' \in [Sessions -> Places]
      BY <3>2 DEF TypeOK
    <3>6. nextGen' \in Nat \ {0} /\ doomed' \subseteq Sessions /\ latch' \in Nat
      BY <2>5 DEF AttemptExhausts, TypeOK, Episodes, TypeOK
    <3>7. TypeOK'
      BY <3>1, <3>4, <3>5, <3>6 DEF ResolvedTypes, TypeOK
    <3>8. SlotsOwed'
      BY <3>2, <3>4 DEF OwedAt, TypeOK
    <3> QED BY <3>7, <3>8
  <2>6. CASE StreamEnds(s)
    BY <2>6 DEF StreamEnds, ToClosing, TypeOK
  <2>7. CASE StreamBreaks(s)
    BY <2>7 DEF StreamBreaks, ToClosing, Entrance, TypeOK
  <2>8. CASE StreamContinues(s)
    BY <2>8 DEF StreamContinues, TypeOK
  <2> QED BY <1>3, <2>1, <2>2, <2>3, <2>4, <2>5, <2>6, <2>7, <2>8 DEF Answer
<1>4. ASSUME NEW s \in Sessions, Close(s) PROVE TypeOK' /\ SlotsOwed'
  <2>1. CASE CloseFinished(s)
    <3>1. CASE after[s] \in Outcomes /\ nested[s]
      <4>1. slots[s] >= 2 /\ slots[s] \in Nat
        BY <2>1, <3>1 DEF CloseFinished, TypeOK
      <4>2. TypeOK'
        <5>1. slots' \in [Sessions -> Nat] /\ semaphore' \in Nat
          BY <2>1, <4>1 DEF CloseFinished, Release, TypeOK
        <5>2. nested' \in [Sessions -> BOOLEAN] /\ UNCHANGED pc
          BY <2>1, <3>1 DEF CloseFinished, TypeOK
        <5> QED BY <2>1, <5>1, <5>2 DEF CloseFinished, TypeOK
      <4>3. SlotsOwed'
        BY <2>1, <3>1, <4>1 DEF CloseFinished, Release, TypeOK
      <4> QED BY <4>2, <4>3
    <3>2. CASE ~(after[s] \in Outcomes /\ nested[s])
      BY <2>1, <3>2 DEF CloseFinished, Release, TypeOK
    <3> QED BY <3>1, <3>2
  <2>2. CASE CloseUnresolved(s)
    <3>1. episode' \in Episodes
      BY <2>2, EpisodeTypes DEF CloseUnresolved, Abandon, TypeOK
    <3>2. TypeOK'
      BY <2>2, <3>1 DEF CloseUnresolved, Abandon, TypeOK
    <3>3. SlotsOwed'
      BY <2>2 DEF CloseUnresolved, Abandon, TypeOK
    <3> QED BY <3>2, <3>3
  <2>3. CASE AbandonFinished(s)
    BY <2>3 DEF AbandonFinished, Release, Exit, ExitLocals, TypeOK
  <2>4. CASE Reopen(s)
    BY <2>4 DEF Reopen, TypeOK
  <2> QED BY <1>4, <2>1, <2>2, <2>3, <2>4 DEF Close
<1>5. ASSUME NEW s \in Sessions, Cancel(s) PROVE TypeOK' /\ SlotsOwed'
  <2>1. CASE CancelWaiting(s)
    <3>1. episode' \in Episodes
      BY <2>1, EpisodeTypes DEF CancelWaiting, Episodes, TypeOK
    <3>2. TypeOK'
      BY <2>1, <3>1 DEF CancelWaiting, Exit, ExitLocals, TypeOK
    <3>3. SlotsOwed'
      BY <2>1 DEF CancelWaiting, Exit, ExitLocals, TypeOK
    <3> QED BY <3>2, <3>3
  <2>2. CASE CancelSleeping(s)
    <3>1. episode' \in Episodes
      BY <2>2, EpisodeTypes DEF CancelSleeping, Episodes, TypeOK
    <3>2. TypeOK'
      BY <2>2, <3>1 DEF CancelSleeping, Exit, ExitLocals, TypeOK
    <3>3. SlotsOwed'
      BY <2>2 DEF CancelSleeping, Exit, ExitLocals, TypeOK
    <3> QED BY <3>2, <3>3
  <2>3. CASE CancelAdmission(s)
    <3>1. episode' \in Episodes
      BY <2>3, EpisodeTypes DEF CancelAdmission, Abandon, TypeOK
    <3>2. TypeOK'
      BY <2>3, <3>1 DEF CancelAdmission, Abandon, Exit, ExitLocals, TypeOK
    <3>3. SlotsOwed'
      BY <2>3 DEF CancelAdmission, Abandon, Exit, ExitLocals, TypeOK
    <3> QED BY <3>2, <3>3
  <2>4. CASE CancelAttempt(s)
    <3>1. episode' \in Episodes
      BY <2>4, EpisodeTypes DEF CancelAttempt, Abandon, TypeOK
    <3>2. TypeOK'
      BY <2>4, <3>1 DEF CancelAttempt, Abandon, TypeOK
    <3>3. SlotsOwed'
      BY <2>4 DEF CancelAttempt, Abandon, TypeOK
    <3> QED BY <3>2, <3>3
  <2>5. CASE CancelStream(s)
    BY <2>5 DEF CancelStream, ToClosing, TypeOK
  <2>6. CASE CancelClosing(s)
    BY <2>6 DEF CancelClosing, Exit, ExitLocals, TypeOK
  <2>7. CASE CancelReopening(s)
    BY <2>7 DEF CancelReopening, ExitLocals, TypeOK
  <2> QED BY <1>5, <2>1, <2>2, <2>3, <2>4, <2>5, <2>6, <2>7 DEF Cancel
<1>6. CASE Tick
  <2>1. episode' \in Episodes
    BY <1>6 DEF Tick, Less, Episodes, TypeOK
  <2> QED BY <1>6, <2>1 DEF Tick, Less, TypeOK
<1>7. CASE UNCHANGED vars
  BY <1>7 DEF vars, TypeOK
<1> QED BY <1>1, <1>2, <1>3, <1>4, <1>5, <1>6, <1>7 DEF Next, Finished

\* Every variable keeps its type, and an execution that is in an attempt, in its
\* stream or in the close of one has a slot for it, and one more for the broken
\* stream it continues by a nested attempt: the slots it will give back are its
\* own (admission.py, open_attempt and aclose).
THEOREM SlotsAreHeld == Spec => [](TypeOK /\ SlotsOwed)
<1>1. Init => TypeOK /\ SlotsOwed
  <2> HAVE Init
  <2>1. NoEpisode \in Episodes
    BY DEF NoEpisode, Episodes
  <2> QED BY <2>1 DEF Init, TypeOK, SlotsOwed, Owed, Holding, Places, Outcomes
<1> QED BY <1>1, TypesKept, PTL DEF Spec
-----------------------------------------------------------------------------
(* Budget.                                                                  *)

BudgetInv ==
  /\ BudgetRespected
  /\ \A s \in Sessions : pc[s] = "idle" => attempts[s] = 0
  /\ \A s \in Sessions : pc[s] = "closing" /\ after[s] = "gate" => CanAttempt(s)

\* A step takes an execution back to the gate only with an attempt left.
LEMMA BudgetKept == TypeOK /\ BudgetInv /\ [Next]_vars => BudgetInv'
<1> SUFFICES ASSUME TypeOK, BudgetInv, [Next]_vars PROVE BudgetInv'
  OBVIOUS
<1> USE DEF BudgetInv, BudgetRespected, CanAttempt, TypeOK, Outcomes, gate, bulkhead, local,
    Move, Notify
<1>1. ASSUME NEW s \in Sessions, Call(s) PROVE BudgetInv'
  BY <1>1 DEF Call, Entrance
<1>2. ASSUME NEW s \in Sessions, Gate(s) PROVE BudgetInv'
  <2>1. CASE GateRefuse(s)
    BY <2>1 DEF GateRefuse, AtGate, Exit, ExitLocals
  <2>2. CASE GatePass(s)
    BY <2>2 DEF GatePass, AtGate
  <2>3. CASE GateReopen(s)
    BY <2>3 DEF GateReopen, AtGate
  <2>4. CASE GateLead(s)
    BY <2>4 DEF GateLead, AtGate
  <2>5. CASE GateWait(s)
    BY <2>5 DEF GateWait, AtGate
  <2>6. CASE LeaderWakes(s)
    BY <2>6 DEF LeaderWakes
  <2>7. CASE AcquireQuota(s)
    BY <2>7 DEF AcquireQuota, StartAttempt, GiveUpPermit, Abandon
  <2>8. CASE AcquireSlot(s)
    BY <2>8 DEF AcquireSlot, StartAttempt, GiveUpPermit, Abandon
  <2> QED BY <1>2, <2>1, <2>2, <2>3, <2>4, <2>5, <2>6, <2>7, <2>8 DEF Gate
<1>3. ASSUME NEW s \in Sessions, Answer(s) PROVE BudgetInv'
  <2>1. CASE AttemptSucceeds(s)
    BY <2>1 DEF AttemptSucceeds
  <2>2. CASE AttemptCorrected(s)
    BY <2>2 DEF AttemptCorrected, Resolve, Exit, Entrance, Streaming
  <2>3. CASE AttemptRejected(s)
    BY <2>3 DEF AttemptRejected, Resolve, Exit
  <2>4. ASSUME NEW d \in Delays, AttemptFails(s, d) PROVE BudgetInv'
    BY <2>4 DEF AttemptFails, Resolve, Exit, Entrance
  <2>5. ASSUME NEW d \in Delays, AttemptExhausts(s, d) PROVE BudgetInv'
    BY <2>5 DEF AttemptExhausts, Resolve, Exit
  <2>6. CASE StreamEnds(s)
    BY <2>6 DEF StreamEnds, ToClosing
  <2>7. CASE StreamBreaks(s)
    BY <2>7 DEF StreamBreaks, ToClosing, Entrance
  <2>8. CASE StreamContinues(s)
    BY <2>8 DEF StreamContinues
  <2> QED BY <1>3, <2>1, <2>2, <2>3, <2>4, <2>5, <2>6, <2>7, <2>8 DEF Answer
<1>4. ASSUME NEW s \in Sessions, Close(s) PROVE BudgetInv'
  <2>1. CASE CloseFinished(s)
    BY <2>1 DEF CloseFinished
  <2>2. CASE CloseUnresolved(s)
    BY <2>2 DEF CloseUnresolved, Abandon
  <2>3. CASE AbandonFinished(s)
    BY <2>3 DEF AbandonFinished, Exit, ExitLocals
  <2>4. CASE Reopen(s)
    BY <2>4 DEF Reopen
  <2> QED BY <1>4, <2>1, <2>2, <2>3, <2>4 DEF Close
<1>5. ASSUME NEW s \in Sessions, Cancel(s) PROVE BudgetInv'
  <2>1. CASE CancelWaiting(s)
    BY <2>1 DEF CancelWaiting, Exit, ExitLocals
  <2>2. CASE CancelSleeping(s)
    BY <2>2 DEF CancelSleeping, Exit, ExitLocals
  <2>3. CASE CancelAdmission(s)
    BY <2>3 DEF CancelAdmission, Abandon, Exit, ExitLocals
  <2>4. CASE CancelAttempt(s)
    BY <2>4 DEF CancelAttempt, Abandon
  <2>5. CASE CancelStream(s)
    BY <2>5 DEF CancelStream, ToClosing
  <2>6. CASE CancelClosing(s)
    BY <2>6 DEF CancelClosing, Exit, ExitLocals
  <2>7. CASE CancelReopening(s)
    BY <2>7 DEF CancelReopening, ExitLocals
  <2> QED BY <1>5, <2>1, <2>2, <2>3, <2>4, <2>5, <2>6, <2>7 DEF Cancel
<1>6. CASE Tick
  BY <1>6 DEF Tick
<1>7. CASE UNCHANGED vars
  BY <1>7 DEF vars
<1> QED BY <1>1, <1>2, <1>3, <1>4, <1>5, <1>6, <1>7 DEF Next, Finished

\* No logical execution ever starts more attempts than its one budget allows,
\* whichever mix of shared recoveries, request corrections, replays of a broken
\* stream and nested continuations its attempts are for.
THEOREM BudgetIsRespected == Spec => []BudgetRespected
<1>1. Init => BudgetInv
  BY DEF Init, BudgetInv, BudgetRespected, CanAttempt
<1>2. BudgetInv => BudgetRespected
  BY DEF BudgetInv
<1> QED BY <1>1, <1>2, SlotsAreHeld, BudgetKept, PTL DEF Spec

-----------------------------------------------------------------------------
(* Recovery.                                                                *)

\* Generations are never reused: no claim or permit is ahead of the counter.
Fresh ==
  /\ episode.gen < nextGen
  /\ \A s \in Sessions : ticket[s] < nextGen

\* Who has a claim or an unresolved permit, and who must.
Claimed ==
  \A s \in Sessions :
    /\ ticket[s] # 0 => pc[s] \in ProbePlaces \cup {"sleeping"}
    /\ pc[s] = "sleeping" => ticket[s] # 0

\* A leader whose claim stands sleeps at least as long as the episode's delay.
SleepsEnough ==
  \A s \in Sessions : pc[s] = "sleeping" /\ EpisodeOpen /\ WaitingLeader(s)
    => episode.timer <= sleep[s]

\* Only a cancelled execution closes its stream before its attempt is resolved.
Unresolved ==
  \A s \in Sessions : pc[s] = "closing" /\ ticket[s] # 0 => after[s] = "cancelled"

RecoveryInv ==
  /\ Fresh
  /\ Claimed
  /\ SingleProbe
  /\ ProbeIsHeld
  /\ SleepsEnough
  /\ Unresolved

Has(e, gen, leader, probe, timer, terminal) ==
  /\ e.gen = gen
  /\ e.leader = leader
  /\ e.probe = probe
  /\ e.timer = timer
  /\ e.terminal = terminal

\* What the operations make of an episode, field by field.
LEMMA EpisodeFields ==
  ASSUME TypeOK, NEW s \in Sessions, NEW delay \in Nat
  PROVE  /\ Has(Episode(s, delay), nextGen, s, FALSE, delay, FALSE)
         /\ Has(Unled, episode.gen, NoSession, FALSE, 0, episode.terminal)
         /\ Has(Led(s), episode.gen, s, episode.probe \/ episode.timer = 0, episode.timer,
                episode.terminal)
         /\ Has(Postponed(delay), episode.gen, episode.leader, FALSE, delay, episode.terminal)
         /\ Has(Corrected, episode.gen, episode.leader, FALSE, 0, episode.terminal)
         /\ Has(Joined(s), episode.gen, episode.leader, episode.probe, episode.timer,
                episode.terminal)
         /\ Has(Exhausted(episode, delay), episode.gen, NoSession, FALSE, delay, TRUE)
         /\ Has(Exhausted(Episode(NoSession, 0), delay), nextGen, NoSession, FALSE, delay,
                TRUE)
<1> USE DEF Has, TypeOK, Episodes
<1>1. Has(Episode(s, delay), nextGen, s, FALSE, delay, FALSE)
  BY DEF Episode
<1>2. Has(Unled, episode.gen, NoSession, FALSE, 0, episode.terminal)
  BY DEF Unled
<1>3. /\ Has(Postponed(delay), episode.gen, episode.leader, FALSE, delay, episode.terminal)
      /\ Has(Corrected, episode.gen, episode.leader, FALSE, 0, episode.terminal)
  BY DEF Postponed, Corrected
<1>4. Has(Joined(s), episode.gen, episode.leader, episode.probe, episode.timer,
          episode.terminal)
  BY DEF Joined
<1>5. Has(Exhausted(episode, delay), episode.gen, NoSession, FALSE, delay, TRUE)
  BY DEF Exhausted
<1>6. Has(Exhausted(Episode(NoSession, 0), delay), nextGen, NoSession, FALSE, delay, TRUE)
  BY DEF Exhausted, Episode
<1>7. Has(Led(s), episode.gen, s, episode.probe \/ episode.timer = 0, episode.timer,
          episode.terminal)
  BY DEF Led
<1> QED BY <1>1, <1>2, <1>3, <1>4, <1>5, <1>6, <1>7

LEMMA DelaysAreNat == Delays \subseteq Nat
  BY AdmissionAssumption

\* A permit that is given up frees the probe when it was still the current one.
LEMMA Abandoned ==
  ASSUME TypeOK, NEW s \in Sessions, NEW place, Abandon(s, place)
  PROVE  \/ /\ MatchingProbe(s)
            /\ Has(episode', episode.gen, NoSession, FALSE, 0, episode.terminal)
         \/ ~MatchingProbe(s) /\ UNCHANGED episode
<1>1. CASE MatchingProbe(s)
  BY <1>1, EpisodeFields DEF Abandon
<1>2. CASE ~MatchingProbe(s)
  BY <1>2 DEF Abandon
<1> QED BY <1>1, <1>2

\* What each operation that may change the episode does to it.
LEMMA GateLeadEffect ==
  ASSUME TypeOK, NEW s \in Sessions, GateLead(s)
  PROVE  Has(episode', episode.gen, s, episode.probe \/ episode.timer = 0, episode.timer, FALSE)
<1>1. episode' = Led(s) /\ episode.terminal = FALSE
  BY DEF GateLead, TypeOK, Episodes
<1>2. Has(Led(s), episode.gen, s, episode.probe \/ episode.timer = 0, episode.timer,
          episode.terminal)
  BY EpisodeFields, 0 \in Nat
<1> QED BY <1>1, <1>2

LEMMA LeaderWakesEffect ==
  ASSUME TypeOK, NEW s \in Sessions, LeaderWakes(s)
  PROVE  \/ /\ WaitingLeader(s) /\ ~episode.terminal
            /\ Has(episode', episode.gen, s, TRUE, episode.timer, FALSE)
            /\ ticket' = ticket /\ pc' = [pc EXCEPT ![s] = "limiter"]
         \/ UNCHANGED episode /\ ticket' = [ticket EXCEPT ![s] = 0] /\ pc' = [pc EXCEPT ![s] = "gate"]
<1>1. CASE WaitingLeader(s) /\ ~episode.terminal
  <2>1. /\ episode' = [episode EXCEPT !.probe = TRUE]
        /\ ticket' = ticket
        /\ pc' = [pc EXCEPT ![s] = "limiter"]
    BY <1>1 DEF LeaderWakes, Move
  <2>2. Has(episode', episode.gen, s, TRUE, episode.timer, FALSE)
    BY <1>1, <2>1 DEF Has, WaitingLeader, TypeOK, Episodes
  <2> QED BY <1>1, <2>1, <2>2
<1>2. CASE ~(WaitingLeader(s) /\ ~episode.terminal)
  BY <1>2 DEF LeaderWakes, Move
<1> QED BY <1>1, <1>2

LEMMA AttemptCorrectedEffect ==
  ASSUME TypeOK, NEW s \in Sessions, AttemptCorrected(s)
  PROVE  \/ MatchingProbe(s) /\ Has(episode', episode.gen, s, FALSE, 0, episode.terminal)
         \/ ~MatchingProbe(s) /\ UNCHANGED episode
<1>1. \/ MatchingProbe(s) /\ episode' = Corrected
      \/ ~MatchingProbe(s) /\ UNCHANGED episode
  BY DEF AttemptCorrected, MatchingProbe
<1> QED BY <1>1, EpisodeFields DEF MatchingProbe, Has

LEMMA AttemptFailsEffect ==
  ASSUME TypeOK, NEW s \in Sessions, NEW d \in Delays, AttemptFails(s, d)
  PROVE  \/ /\ ~EpisodeOpen /\ nextGen' = nextGen + 1
            /\ Has(episode', nextGen, s, FALSE, d, FALSE)
         \/ /\ MatchingProbe(s) /\ nextGen' = nextGen
            /\ Has(episode', episode.gen, s, FALSE, d, episode.terminal)
         \/ /\ ~MatchingProbe(s) /\ nextGen' = nextGen
            /\ Has(episode', episode.gen, episode.leader, episode.probe, episode.timer,
                   episode.terminal)
<1>1. d \in Nat
  BY DelaysAreNat
<1>2. CASE ~EpisodeOpen
  <2>1. episode' = Episode(s, d) /\ nextGen' = nextGen + 1
    BY <1>2 DEF AttemptFails, MatchingProbe, EpisodeOpen
  <2> QED BY <1>1, <1>2, <2>1, EpisodeFields
<1>3. CASE MatchingProbe(s)
  <2>1. episode' = Postponed(d) /\ nextGen' = nextGen /\ episode.leader = s
    BY <1>3 DEF AttemptFails, MatchingProbe, EpisodeOpen
  <2>2. Has(episode', episode.gen, episode.leader, FALSE, d, episode.terminal)
    BY <1>1, <2>1, EpisodeFields
  <2> QED BY <1>3, <2>1, <2>2
<1>4. CASE EpisodeOpen /\ ~MatchingProbe(s)
  <2>1. episode' \in {episode, Joined(s)} /\ nextGen' = nextGen
    BY <1>4 DEF AttemptFails
  <2>2. Has(episode, episode.gen, episode.leader, episode.probe, episode.timer,
            episode.terminal)
    BY DEF Has
  <2>3. Has(Joined(s), episode.gen, episode.leader, episode.probe, episode.timer,
            episode.terminal)
    BY <1>1, EpisodeFields
  <2> QED BY <1>4, <2>1, <2>2, <2>3
<1> QED BY <1>2, <1>3, <1>4

LEMMA AttemptExhaustsEffect ==
  ASSUME TypeOK, NEW s \in Sessions, NEW d \in Delays, AttemptExhausts(s, d)
  PROVE  \/ /\ ~EpisodeOpen /\ nextGen' = nextGen + 1
            /\ Has(episode', nextGen, NoSession, FALSE, d, TRUE)
         \/ /\ MatchingProbe(s) /\ nextGen' = nextGen
            /\ Has(episode', episode.gen, NoSession, FALSE, d, TRUE)
         \/ ~MatchingProbe(s) /\ UNCHANGED <<episode, nextGen>>
<1>1. d \in Nat
  BY DelaysAreNat
<1>2. CASE ~EpisodeOpen
  <2>1. episode' = Exhausted(Episode(NoSession, 0), d) /\ nextGen' = nextGen + 1
    BY <1>2 DEF AttemptExhausts, MatchingProbe, EpisodeOpen
  <2> QED BY <1>1, <1>2, <2>1, EpisodeFields
<1>3. CASE MatchingProbe(s)
  <2>1. episode' = Exhausted(episode, d) /\ nextGen' = nextGen
    BY <1>3 DEF AttemptExhausts, MatchingProbe, EpisodeOpen
  <2> QED BY <1>1, <1>3, <2>1, EpisodeFields
<1>4. CASE EpisodeOpen /\ ~MatchingProbe(s)
  BY <1>4 DEF AttemptExhausts
<1> QED BY <1>2, <1>3, <1>4

LEMMA CancelSleepingEffect ==
  ASSUME TypeOK, NEW s \in Sessions, CancelSleeping(s)
  PROVE  \/ /\ WaitingLeader(s)
            /\ Has(episode', episode.gen, NoSession, FALSE, episode.timer, episode.terminal)
         \/ ~WaitingLeader(s) /\ UNCHANGED episode
<1>1. \/ WaitingLeader(s) /\ episode' = [episode EXCEPT !.leader = NoSession]
      \/ ~WaitingLeader(s) /\ UNCHANGED episode
  BY DEF CancelSleeping, WaitingLeader
<1> QED BY <1>1, EpisodeFields DEF WaitingLeader, Has, TypeOK, Episodes

LEMMA AcquireQuotaEffect ==
  ASSUME TypeOK, NEW s \in Sessions, AcquireQuota(s)
  PROVE  \/ MatchingProbe(s) /\ Has(episode', episode.gen, NoSession, FALSE, 0, episode.terminal)
         \/ ~MatchingProbe(s) /\ UNCHANGED episode
         \/ /\ PermitIsCurrent(s) /\ UNCHANGED <<episode, ticket>>
            /\ pc' = [pc EXCEPT ![s] = "attempt"] \/ pc' = [pc EXCEPT ![s] = "slot"]
<1>1. CASE ~PermitIsCurrent(s)
  <2>1. Abandon(s, "gate")
    BY <1>1 DEF AcquireQuota, GiveUpPermit
  <2> QED BY <2>1, Abandoned
<1>2. CASE PermitIsCurrent(s)
  BY <1>2 DEF AcquireQuota, StartAttempt, Move
<1> QED BY <1>1, <1>2

LEMMA AcquireSlotEffect ==
  ASSUME TypeOK, NEW s \in Sessions, AcquireSlot(s)
  PROVE  \/ MatchingProbe(s) /\ Has(episode', episode.gen, NoSession, FALSE, 0, episode.terminal)
         \/ ~MatchingProbe(s) /\ UNCHANGED episode
         \/ /\ PermitIsCurrent(s) /\ UNCHANGED <<episode, ticket>>
            /\ pc' = [pc EXCEPT ![s] = "attempt"]
<1>1. CASE ~PermitIsCurrent(s)
  <2>1. Abandon(s, "gate")
    BY <1>1 DEF AcquireSlot, GiveUpPermit
  <2> QED BY <2>1, Abandoned
<1>2. CASE PermitIsCurrent(s)
  BY <1>2 DEF AcquireSlot, StartAttempt, Move
<1> QED BY <1>1, <1>2

LEMMA CloseUnresolvedEffect ==
  ASSUME TypeOK, NEW s \in Sessions, CloseUnresolved(s)
  PROVE  \/ MatchingProbe(s) /\ Has(episode', episode.gen, NoSession, FALSE, 0, episode.terminal)
         \/ ~MatchingProbe(s) /\ UNCHANGED episode
  BY Abandoned DEF CloseUnresolved, MatchingProbe

LEMMA CancelAdmissionEffect ==
  ASSUME TypeOK, NEW s \in Sessions, CancelAdmission(s)
  PROVE  \/ MatchingProbe(s) /\ Has(episode', episode.gen, NoSession, FALSE, 0, episode.terminal)
         \/ ~MatchingProbe(s) /\ UNCHANGED episode
  BY Abandoned DEF CancelAdmission, MatchingProbe

LEMMA CancelAttemptEffect ==
  ASSUME TypeOK, NEW s \in Sessions, CancelAttempt(s)
  PROVE  \/ MatchingProbe(s) /\ Has(episode', episode.gen, NoSession, FALSE, 0, episode.terminal)
         \/ ~MatchingProbe(s) /\ UNCHANGED episode
  BY Abandoned DEF CancelAttempt, MatchingProbe

\* The gate hands out one probe at a time, whoever sleeps, fails or is cancelled.
LEMMA RecoveryKept == TypeOK /\ RecoveryInv /\ [Next]_vars => RecoveryInv'
<1> SUFFICES ASSUME TypeOK, RecoveryInv, [Next]_vars PROVE RecoveryInv'
  OBVIOUS
<1> USE DEF RecoveryInv, Outcomes, gate, bulkhead, local, Move, Notify
<1>0. /\ episode.gen \in Nat /\ episode.timer \in Nat
      /\ episode.leader \in Sessions \cup {NoSession}
      /\ episode.probe \in BOOLEAN /\ episode.terminal \in BOOLEAN
  BY DEF TypeOK, Episodes
<1>1. ASSUME NEW s \in Sessions, Call(s) PROVE RecoveryInv'
  <2>1. Fresh'
    BY <1>0, <1>1 DEF Call, Entrance, Fresh, TypeOK
  <2>2. Claimed'
    BY <1>0, <1>1 DEF Call, Entrance, Claimed, ProbePlaces, TypeOK
  <2>3. SingleProbe'
    BY <1>0, <1>1 DEF Call, Entrance, SingleProbe, Probing, ProbePlaces, EpisodeOpen, Claimed,
      Fresh, ProbeIsHeld, TypeOK
  <2>4. ProbeIsHeld'
    BY <1>0, <1>1 DEF Call, Entrance, ProbeIsHeld, SingleProbe, Probing, ProbePlaces,
      EpisodeOpen, Claimed, Fresh, Unresolved, TypeOK
  <2>5. SleepsEnough'
    BY <1>0, <1>1 DEF Call, Entrance, SleepsEnough, WaitingLeader, EpisodeOpen, Claimed, Fresh,
      TypeOK
  <2>6. Unresolved'
    BY <1>0, <1>1 DEF Call, Entrance, Unresolved, Claimed, ProbePlaces, TypeOK
  <2> QED BY <2>1, <2>2, <2>3, <2>4, <2>5, <2>6
<1>2. ASSUME NEW s \in Sessions, Gate(s) PROVE RecoveryInv'
  <2>1. CASE GateRefuse(s)
    <3>1. Fresh'
      BY <1>0, <2>1 DEF GateRefuse, AtGate, Exit, ExitLocals, Fresh, TypeOK
    <3>2. Claimed'
      BY <1>0, <2>1 DEF GateRefuse, AtGate, Exit, ExitLocals, Claimed, ProbePlaces, TypeOK
    <3>3. SingleProbe'
      BY <1>0, <2>1 DEF GateRefuse, AtGate, Exit, ExitLocals, SingleProbe, Probing,
        ProbePlaces, EpisodeOpen, Claimed, Fresh, ProbeIsHeld, TypeOK
    <3>4. ProbeIsHeld'
      BY <1>0, <2>1 DEF GateRefuse, AtGate, Exit, ExitLocals, ProbeIsHeld, SingleProbe,
        Probing, ProbePlaces, EpisodeOpen, Claimed, Fresh, Unresolved, TypeOK
    <3>5. SleepsEnough'
      BY <1>0, <2>1 DEF GateRefuse, AtGate, Exit, ExitLocals, SleepsEnough, WaitingLeader,
        EpisodeOpen, Claimed, Fresh, TypeOK
    <3>6. Unresolved'
      BY <1>0, <2>1 DEF GateRefuse, AtGate, Exit, ExitLocals, Unresolved, Claimed, ProbePlaces,
        TypeOK
    <3> QED BY <3>1, <3>2, <3>3, <3>4, <3>5, <3>6
  <2>2. CASE GatePass(s)
    <3>1. Fresh'
      BY <1>0, <2>2 DEF GatePass, AtGate, Fresh, TypeOK
    <3>2. Claimed'
      BY <1>0, <2>2 DEF GatePass, AtGate, Claimed, ProbePlaces, TypeOK
    <3>3. SingleProbe'
      BY <1>0, <2>2 DEF GatePass, AtGate, SingleProbe, Probing, ProbePlaces, EpisodeOpen,
        Claimed, Fresh, ProbeIsHeld, TypeOK
    <3>4. ProbeIsHeld'
      BY <1>0, <2>2 DEF GatePass, AtGate, ProbeIsHeld, SingleProbe, Probing, ProbePlaces,
        EpisodeOpen, Claimed, Fresh, Unresolved, TypeOK
    <3>5. SleepsEnough'
      BY <1>0, <2>2 DEF GatePass, AtGate, SleepsEnough, WaitingLeader, EpisodeOpen, Claimed,
        Fresh, TypeOK
    <3>6. Unresolved'
      BY <1>0, <2>2 DEF GatePass, AtGate, Unresolved, Claimed, ProbePlaces, TypeOK
    <3> QED BY <3>1, <3>2, <3>3, <3>4, <3>5, <3>6
  <2>3. CASE GateReopen(s)
    <3>1. Fresh'
      BY <1>0, <2>3 DEF GateReopen, AtGate, Reopened, Episode, Fresh, TypeOK
    <3>2. Claimed'
      BY <1>0, <2>3 DEF GateReopen, AtGate, Reopened, Episode, Claimed, ProbePlaces, TypeOK
    <3>3. SingleProbe'
      BY <1>0, <2>3 DEF GateReopen, AtGate, Reopened, Episode, SingleProbe, Probing,
        ProbePlaces, EpisodeOpen, Claimed, Fresh, ProbeIsHeld, TypeOK
    <3>4. ProbeIsHeld'
      BY <1>0, <2>3 DEF GateReopen, AtGate, Reopened, Episode, ProbeIsHeld, SingleProbe,
        Probing, ProbePlaces, EpisodeOpen, Claimed, Fresh, Unresolved, TypeOK
    <3>5. SleepsEnough'
      BY <1>0, <2>3 DEF GateReopen, AtGate, Reopened, Episode, SleepsEnough, WaitingLeader,
        EpisodeOpen, Claimed, Fresh, TypeOK
    <3>6. Unresolved'
      BY <1>0, <2>3 DEF GateReopen, AtGate, Reopened, Episode, Unresolved, Claimed,
        ProbePlaces, TypeOK
    <3> QED BY <3>1, <3>2, <3>3, <3>4, <3>5, <3>6
  <2>4. CASE GateLead(s)
    <3>1. Has(episode', episode.gen, s, episode.probe \/ episode.timer = 0, episode.timer, FALSE)
      BY <2>4, GateLeadEffect
    <3>2. Fresh'
      BY <1>0, <2>4, <3>1 DEF GateLead, AtGate, Has, MayLead, EpisodeOpen, Fresh, TypeOK
    <3>3. Claimed'
      BY <1>0, <2>4, <3>1 DEF GateLead, AtGate, Has, MayLead, EpisodeOpen, Claimed,
        ProbePlaces, TypeOK
    <3>4. SingleProbe'
      <4> SUFFICES ASSUME NEW t \in Sessions, Probing(t)'
                   PROVE  /\ episode'.leader = t
                          /\ episode'.probe
                          /\ episode'.timer = 0
                          /\ ~episode'.terminal
        BY DEF SingleProbe
      <4>1. CASE t = s
        <5>1. pc'[s] = "limiter"
          BY <2>4, <4>1 DEF GateLead, Probing, ProbePlaces, TypeOK
        <5>2. episode.timer = 0
          BY <2>4, <5>1 DEF GateLead, TypeOK
        <5> QED BY <3>1, <4>1, <5>2 DEF Has
      <4>2. CASE t # s
        <5>1. Probing(t)
          BY <2>4, <3>1, <4>2 DEF GateLead, Has, Probing, EpisodeOpen, TypeOK
        <5>2. episode.leader = t /\ episode.probe
          BY <5>1 DEF SingleProbe
        <5> QED BY <2>4, <4>2, <5>2 DEF GateLead, MayLead, TypeOK
      <4> QED BY <4>1, <4>2
    <3>5. ProbeIsHeld'
      BY <1>0, <2>4, <3>1 DEF GateLead, AtGate, Has, MayLead, EpisodeOpen, ProbeIsHeld,
        SingleProbe, Probing, ProbePlaces, Claimed, Fresh, Unresolved, TypeOK
    <3>6. SleepsEnough'
      BY <1>0, <2>4, <3>1 DEF GateLead, AtGate, Has, MayLead, EpisodeOpen, SleepsEnough,
        WaitingLeader, Claimed, Fresh, TypeOK
    <3>7. Unresolved'
      BY <1>0, <2>4, <3>1 DEF GateLead, AtGate, Has, MayLead, EpisodeOpen, Unresolved, Claimed,
        ProbePlaces, TypeOK
    <3> QED BY <3>2, <3>3, <3>4, <3>5, <3>6, <3>7
  <2>5. CASE GateWait(s)
    <3>1. Fresh'
      BY <1>0, <2>5 DEF GateWait, AtGate, Joined, Fresh, TypeOK
    <3>2. Claimed'
      BY <1>0, <2>5 DEF GateWait, AtGate, Joined, Claimed, ProbePlaces, TypeOK
    <3>3. SingleProbe'
      BY <1>0, <2>5 DEF GateWait, AtGate, Joined, SingleProbe, Probing, ProbePlaces,
        EpisodeOpen, Claimed, Fresh, ProbeIsHeld, TypeOK
    <3>4. ProbeIsHeld'
      BY <1>0, <2>5 DEF GateWait, AtGate, Joined, ProbeIsHeld, SingleProbe, Probing,
        ProbePlaces, EpisodeOpen, Claimed, Fresh, Unresolved, TypeOK
    <3>5. SleepsEnough'
      BY <1>0, <2>5 DEF GateWait, AtGate, Joined, SleepsEnough, WaitingLeader, EpisodeOpen,
        Claimed, Fresh, TypeOK
    <3>6. Unresolved'
      BY <1>0, <2>5 DEF GateWait, AtGate, Joined, Unresolved, Claimed, ProbePlaces, TypeOK
    <3> QED BY <3>1, <3>2, <3>3, <3>4, <3>5, <3>6
  <2>6. CASE LeaderWakes(s)
    <3>1. \/ /\ WaitingLeader(s) /\ ~episode.terminal
             /\ Has(episode', episode.gen, s, TRUE, episode.timer, FALSE)
             /\ ticket' = ticket /\ pc' = [pc EXCEPT ![s] = "limiter"]
          \/ UNCHANGED episode /\ ticket' = [ticket EXCEPT ![s] = 0] /\ pc' = [pc EXCEPT ![s] = "gate"]
      BY <2>6, LeaderWakesEffect
    <3>2. Fresh'
      BY <1>0, <2>6, <3>1 DEF LeaderWakes, Has, WaitingLeader, Fresh, SleepsEnough, Claimed,
        TypeOK
    <3>3. Claimed'
      BY <1>0, <2>6, <3>1 DEF LeaderWakes, Has, WaitingLeader, Claimed, ProbePlaces,
        SleepsEnough, TypeOK
    <3>4. SingleProbe'
      BY <1>0, <2>6, <3>1 DEF LeaderWakes, Has, WaitingLeader, SingleProbe, Probing,
        ProbePlaces, EpisodeOpen, Claimed, Fresh, ProbeIsHeld, SleepsEnough, TypeOK
    <3>5. ProbeIsHeld'
      BY <1>0, <2>6, <3>1 DEF LeaderWakes, Has, WaitingLeader, ProbeIsHeld, SingleProbe,
        Probing, ProbePlaces, EpisodeOpen, Claimed, Fresh, Unresolved, SleepsEnough, TypeOK
    <3>6. SleepsEnough'
      BY <1>0, <2>6, <3>1 DEF LeaderWakes, Has, WaitingLeader, SleepsEnough, EpisodeOpen,
        Claimed, Fresh, TypeOK
    <3>7. Unresolved'
      BY <1>0, <2>6, <3>1 DEF LeaderWakes, Has, WaitingLeader, Unresolved, Claimed,
        ProbePlaces, SleepsEnough, TypeOK
    <3> QED BY <3>2, <3>3, <3>4, <3>5, <3>6, <3>7
  <2>7. CASE AcquireQuota(s)
    <3>1. \/ MatchingProbe(s) /\ Has(episode', episode.gen, NoSession, FALSE, 0, episode.terminal)
          \/ ~MatchingProbe(s) /\ UNCHANGED episode
          \/ /\ PermitIsCurrent(s) /\ UNCHANGED <<episode, ticket>>
             /\ pc' = [pc EXCEPT ![s] = "attempt"] \/ pc' = [pc EXCEPT ![s] = "slot"]
      BY <2>7, AcquireQuotaEffect
    <3>2. Fresh'
      BY <1>0, <2>7, <3>1 DEF AcquireQuota, StartAttempt, GiveUpPermit, Abandon, Has,
        MatchingProbe, PermitIsCurrent, EpisodeOpen, Fresh, TypeOK
    <3>3. Claimed'
      BY <1>0, <2>7, <3>1 DEF AcquireQuota, StartAttempt, GiveUpPermit, Abandon, Has,
        MatchingProbe, PermitIsCurrent, EpisodeOpen, Claimed, ProbePlaces, TypeOK
    <3>4. SingleProbe'
      BY <1>0, <2>7, <3>1 DEF AcquireQuota, StartAttempt, GiveUpPermit, Abandon, Has,
        MatchingProbe, PermitIsCurrent, EpisodeOpen, SingleProbe, Probing, ProbePlaces,
        Claimed, Fresh, ProbeIsHeld, TypeOK
    <3>5. ProbeIsHeld'
      BY <1>0, <2>7, <3>1 DEF AcquireQuota, StartAttempt, GiveUpPermit, Abandon, Has,
        MatchingProbe, PermitIsCurrent, EpisodeOpen, ProbeIsHeld, SingleProbe, Probing,
        ProbePlaces, Claimed, Fresh, Unresolved, TypeOK
    <3>6. SleepsEnough'
      BY <1>0, <2>7, <3>1 DEF AcquireQuota, StartAttempt, GiveUpPermit, Abandon, Has,
        MatchingProbe, PermitIsCurrent, EpisodeOpen, SleepsEnough, WaitingLeader, Claimed,
        Fresh, TypeOK
    <3>7. Unresolved'
      BY <1>0, <2>7, <3>1 DEF AcquireQuota, StartAttempt, GiveUpPermit, Abandon, Has,
        MatchingProbe, PermitIsCurrent, EpisodeOpen, Unresolved, Claimed, ProbePlaces, TypeOK
    <3> QED BY <3>2, <3>3, <3>4, <3>5, <3>6, <3>7
  <2>8. CASE AcquireSlot(s)
    <3>1. \/ MatchingProbe(s) /\ Has(episode', episode.gen, NoSession, FALSE, 0, episode.terminal)
          \/ ~MatchingProbe(s) /\ UNCHANGED episode
          \/ /\ PermitIsCurrent(s) /\ UNCHANGED <<episode, ticket>>
             /\ pc' = [pc EXCEPT ![s] = "attempt"]
      BY <2>8, AcquireSlotEffect
    <3>2. Fresh'
      BY <1>0, <2>8, <3>1 DEF AcquireSlot, StartAttempt, GiveUpPermit, Abandon, Has,
        MatchingProbe, PermitIsCurrent, EpisodeOpen, Fresh, TypeOK
    <3>3. Claimed'
      BY <1>0, <2>8, <3>1 DEF AcquireSlot, StartAttempt, GiveUpPermit, Abandon, Has,
        MatchingProbe, PermitIsCurrent, EpisodeOpen, Claimed, ProbePlaces, TypeOK
    <3>4. SingleProbe'
      BY <1>0, <2>8, <3>1 DEF AcquireSlot, StartAttempt, GiveUpPermit, Abandon, Has,
        MatchingProbe, PermitIsCurrent, EpisodeOpen, SingleProbe, Probing, ProbePlaces,
        Claimed, Fresh, ProbeIsHeld, TypeOK
    <3>5. ProbeIsHeld'
      BY <1>0, <2>8, <3>1 DEF AcquireSlot, StartAttempt, GiveUpPermit, Abandon, Has,
        MatchingProbe, PermitIsCurrent, EpisodeOpen, ProbeIsHeld, SingleProbe, Probing,
        ProbePlaces, Claimed, Fresh, Unresolved, TypeOK
    <3>6. SleepsEnough'
      BY <1>0, <2>8, <3>1 DEF AcquireSlot, StartAttempt, GiveUpPermit, Abandon, Has,
        MatchingProbe, PermitIsCurrent, EpisodeOpen, SleepsEnough, WaitingLeader, Claimed,
        Fresh, TypeOK
    <3>7. Unresolved'
      BY <1>0, <2>8, <3>1 DEF AcquireSlot, StartAttempt, GiveUpPermit, Abandon, Has,
        MatchingProbe, PermitIsCurrent, EpisodeOpen, Unresolved, Claimed, ProbePlaces, TypeOK
    <3> QED BY <3>2, <3>3, <3>4, <3>5, <3>6, <3>7
  <2> QED BY <1>2, <2>1, <2>2, <2>3, <2>4, <2>5, <2>6, <2>7, <2>8 DEF Gate
<1>3. ASSUME NEW s \in Sessions, Answer(s) PROVE RecoveryInv'
  <2>1. CASE AttemptSucceeds(s)
    <3>1. Fresh'
      BY <1>0, <2>1 DEF AttemptSucceeds, NoEpisode, MatchingProbe, Fresh, TypeOK
    <3>2. Claimed'
      BY <1>0, <2>1 DEF AttemptSucceeds, NoEpisode, MatchingProbe, Claimed, ProbePlaces, TypeOK
    <3>3. SingleProbe'
      BY <1>0, <2>1 DEF AttemptSucceeds, NoEpisode, MatchingProbe, SingleProbe, Probing,
        ProbePlaces, EpisodeOpen, Claimed, Fresh, ProbeIsHeld, TypeOK
    <3>4. ProbeIsHeld'
      BY <1>0, <2>1 DEF AttemptSucceeds, NoEpisode, MatchingProbe, ProbeIsHeld, SingleProbe,
        Probing, ProbePlaces, EpisodeOpen, Claimed, Fresh, Unresolved, TypeOK
    <3>5. SleepsEnough'
      BY <1>0, <2>1 DEF AttemptSucceeds, NoEpisode, MatchingProbe, SleepsEnough, WaitingLeader,
        EpisodeOpen, Claimed, Fresh, TypeOK
    <3>6. Unresolved'
      BY <1>0, <2>1 DEF AttemptSucceeds, NoEpisode, MatchingProbe, Unresolved, Claimed,
        ProbePlaces, TypeOK
    <3> QED BY <3>1, <3>2, <3>3, <3>4, <3>5, <3>6
  <2>2. CASE AttemptCorrected(s)
    <3>1. \/ MatchingProbe(s) /\ Has(episode', episode.gen, s, FALSE, 0, episode.terminal)
          \/ ~MatchingProbe(s) /\ UNCHANGED episode
      BY <2>2, AttemptCorrectedEffect
    <3>2. Fresh'
      BY <1>0, <2>2, <3>1 DEF AttemptCorrected, Resolve, Exit, Entrance, Streaming, Has,
        MatchingProbe, Fresh, TypeOK
    <3>3. Claimed'
      BY <1>0, <2>2, <3>1 DEF AttemptCorrected, Resolve, Exit, Entrance, Streaming, Has,
        MatchingProbe, Claimed, ProbePlaces, TypeOK
    <3>4. SingleProbe'
      BY <1>0, <2>2, <3>1 DEF AttemptCorrected, Resolve, Exit, Entrance, Streaming, Has,
        MatchingProbe, SingleProbe, Probing, ProbePlaces, EpisodeOpen, Claimed, Fresh,
        ProbeIsHeld, TypeOK
    <3>5. ProbeIsHeld'
      BY <1>0, <2>2, <3>1 DEF AttemptCorrected, Resolve, Exit, Entrance, Streaming, Has,
        MatchingProbe, ProbeIsHeld, SingleProbe, Probing, ProbePlaces, EpisodeOpen, Claimed,
        Fresh, Unresolved, TypeOK
    <3>6. SleepsEnough'
      BY <1>0, <2>2, <3>1 DEF AttemptCorrected, Resolve, Exit, Entrance, Streaming, Has,
        MatchingProbe, SleepsEnough, WaitingLeader, EpisodeOpen, Claimed, Fresh, TypeOK
    <3>7. Unresolved'
      BY <1>0, <2>2, <3>1 DEF AttemptCorrected, Resolve, Exit, Entrance, Streaming, Has,
        MatchingProbe, Unresolved, Claimed, ProbePlaces, TypeOK
    <3> QED BY <3>2, <3>3, <3>4, <3>5, <3>6, <3>7
  <2>3. CASE AttemptRejected(s)
    <3>1. Fresh'
      BY <1>0, <2>3 DEF AttemptRejected, Resolve, Exit, NoEpisode, MatchingProbe, Fresh, TypeOK
    <3>2. Claimed'
      BY <1>0, <2>3 DEF AttemptRejected, Resolve, Exit, NoEpisode, MatchingProbe, Claimed,
        ProbePlaces, TypeOK
    <3>3. SingleProbe'
      BY <1>0, <2>3 DEF AttemptRejected, Resolve, Exit, NoEpisode, MatchingProbe, SingleProbe,
        Probing, ProbePlaces, EpisodeOpen, Claimed, Fresh, ProbeIsHeld, TypeOK
    <3>4. ProbeIsHeld'
      BY <1>0, <2>3 DEF AttemptRejected, Resolve, Exit, NoEpisode, MatchingProbe, ProbeIsHeld,
        SingleProbe, Probing, ProbePlaces, EpisodeOpen, Claimed, Fresh, Unresolved, TypeOK
    <3>5. SleepsEnough'
      BY <1>0, <2>3 DEF AttemptRejected, Resolve, Exit, NoEpisode, MatchingProbe, SleepsEnough,
        WaitingLeader, EpisodeOpen, Claimed, Fresh, TypeOK
    <3>6. Unresolved'
      BY <1>0, <2>3 DEF AttemptRejected, Resolve, Exit, NoEpisode, MatchingProbe, Unresolved,
        Claimed, ProbePlaces, TypeOK
    <3> QED BY <3>1, <3>2, <3>3, <3>4, <3>5, <3>6
  <2>4. ASSUME NEW d \in Delays, AttemptFails(s, d) PROVE RecoveryInv'
    <3>1. \/ /\ ~EpisodeOpen /\ nextGen' = nextGen + 1
             /\ Has(episode', nextGen, s, FALSE, d, FALSE)
          \/ /\ MatchingProbe(s) /\ nextGen' = nextGen
             /\ Has(episode', episode.gen, s, FALSE, d, episode.terminal)
          \/ /\ ~MatchingProbe(s) /\ nextGen' = nextGen
             /\ Has(episode', episode.gen, episode.leader, episode.probe, episode.timer,
                    episode.terminal)
      BY <2>4, AttemptFailsEffect
    <3>2. Fresh'
      BY <1>0, <2>4, <3>1 DEF AttemptFails, Resolve, Exit, Entrance, Has, MatchingProbe,
        EpisodeOpen, Fresh, TypeOK
    <3>3. Claimed'
      BY <1>0, <2>4, <3>1 DEF AttemptFails, Resolve, Exit, Entrance, Has, MatchingProbe,
        EpisodeOpen, Claimed, ProbePlaces, TypeOK
    <3>4. SingleProbe'
      BY <1>0, <2>4, <3>1 DEF AttemptFails, Resolve, Exit, Entrance, Has, MatchingProbe,
        EpisodeOpen, SingleProbe, Probing, ProbePlaces, Claimed, Fresh, ProbeIsHeld, TypeOK
    <3>5. ProbeIsHeld'
      <4>1. CASE ~episode'.probe
        BY <4>1 DEF ProbeIsHeld
      <4>2. CASE episode'.probe
        <5>1. ~MatchingProbe(s) /\ episode.probe /\ episode'.gen = episode.gen
          BY <3>1, <4>2 DEF Has
        <5>2. PICK t \in Sessions : Probing(t)
          BY <5>1 DEF ProbeIsHeld
        <5>3. t # s
          BY <5>1, <5>2 DEF SingleProbe, Probing, MatchingProbe, EpisodeOpen
        <5>4. pc'[t] = pc[t] /\ ticket'[t] = ticket[t]
          BY <2>4, <5>2, <5>3 DEF AttemptFails, Resolve, Probing, ProbePlaces, TypeOK
        <5> QED BY <5>1, <5>2, <5>4 DEF ProbeIsHeld, Probing, EpisodeOpen
      <4> QED BY <4>1, <4>2
    <3>6. SleepsEnough'
      BY <1>0, <2>4, <3>1 DEF AttemptFails, Resolve, Exit, Entrance, Has, MatchingProbe,
        EpisodeOpen, SleepsEnough, WaitingLeader, Claimed, Fresh, TypeOK
    <3>7. Unresolved'
      BY <1>0, <2>4, <3>1 DEF AttemptFails, Resolve, Exit, Entrance, Has, MatchingProbe,
        EpisodeOpen, Unresolved, Claimed, ProbePlaces, TypeOK
    <3> QED BY <3>2, <3>3, <3>4, <3>5, <3>6, <3>7
  <2>5. ASSUME NEW d \in Delays, AttemptExhausts(s, d) PROVE RecoveryInv'
    <3>1. \/ /\ ~EpisodeOpen /\ nextGen' = nextGen + 1
             /\ Has(episode', nextGen, NoSession, FALSE, d, TRUE)
          \/ /\ MatchingProbe(s) /\ nextGen' = nextGen
             /\ Has(episode', episode.gen, NoSession, FALSE, d, TRUE)
          \/ ~MatchingProbe(s) /\ UNCHANGED <<episode, nextGen>>
      BY <2>5, AttemptExhaustsEffect
    <3>2. Fresh'
      BY <1>0, <2>5, <3>1 DEF AttemptExhausts, Resolve, Exit, Has, MatchingProbe, EpisodeOpen,
        Fresh, TypeOK
    <3>3. Claimed'
      BY <1>0, <2>5, <3>1 DEF AttemptExhausts, Resolve, Exit, Has, MatchingProbe, EpisodeOpen,
        Claimed, ProbePlaces, TypeOK
    <3>4. SingleProbe'
      BY <1>0, <2>5, <3>1 DEF AttemptExhausts, Resolve, Exit, Has, MatchingProbe, EpisodeOpen,
        SingleProbe, Probing, ProbePlaces, Claimed, Fresh, ProbeIsHeld, TypeOK
    <3>5. ProbeIsHeld'
      BY <1>0, <2>5, <3>1 DEF AttemptExhausts, Resolve, Exit, Has, MatchingProbe, EpisodeOpen,
        ProbeIsHeld, SingleProbe, Probing, ProbePlaces, Claimed, Fresh, Unresolved, TypeOK
    <3>6. SleepsEnough'
      BY <1>0, <2>5, <3>1 DEF AttemptExhausts, Resolve, Exit, Has, MatchingProbe, EpisodeOpen,
        SleepsEnough, WaitingLeader, Claimed, Fresh, TypeOK
    <3>7. Unresolved'
      BY <1>0, <2>5, <3>1 DEF AttemptExhausts, Resolve, Exit, Has, MatchingProbe, EpisodeOpen,
        Unresolved, Claimed, ProbePlaces, TypeOK
    <3> QED BY <3>2, <3>3, <3>4, <3>5, <3>6, <3>7
  <2>6. CASE StreamEnds(s)
    <3>1. Fresh'
      BY <1>0, <2>6 DEF StreamEnds, ToClosing, Fresh, TypeOK
    <3>2. Claimed'
      BY <1>0, <2>6 DEF StreamEnds, ToClosing, Claimed, ProbePlaces, TypeOK
    <3>3. SingleProbe'
      BY <1>0, <2>6 DEF StreamEnds, ToClosing, SingleProbe, Probing, ProbePlaces, EpisodeOpen,
        Claimed, Fresh, ProbeIsHeld, TypeOK
    <3>4. ProbeIsHeld'
      BY <1>0, <2>6 DEF StreamEnds, ToClosing, ProbeIsHeld, SingleProbe, Probing, ProbePlaces,
        EpisodeOpen, Claimed, Fresh, Unresolved, TypeOK
    <3>5. SleepsEnough'
      BY <1>0, <2>6 DEF StreamEnds, ToClosing, SleepsEnough, WaitingLeader, EpisodeOpen,
        Claimed, Fresh, TypeOK
    <3>6. Unresolved'
      BY <1>0, <2>6 DEF StreamEnds, ToClosing, Unresolved, Claimed, ProbePlaces, TypeOK
    <3> QED BY <3>1, <3>2, <3>3, <3>4, <3>5, <3>6
  <2>7. CASE StreamBreaks(s)
    <3>1. Fresh'
      BY <1>0, <2>7 DEF StreamBreaks, ToClosing, Entrance, Fresh, TypeOK
    <3>2. Claimed'
      BY <1>0, <2>7 DEF StreamBreaks, ToClosing, Entrance, Claimed, ProbePlaces, TypeOK
    <3>3. SingleProbe'
      BY <1>0, <2>7 DEF StreamBreaks, ToClosing, Entrance, SingleProbe, Probing, ProbePlaces,
        EpisodeOpen, Claimed, Fresh, ProbeIsHeld, TypeOK
    <3>4. ProbeIsHeld'
      BY <1>0, <2>7 DEF StreamBreaks, ToClosing, Entrance, ProbeIsHeld, SingleProbe, Probing,
        ProbePlaces, EpisodeOpen, Claimed, Fresh, Unresolved, TypeOK
    <3>5. SleepsEnough'
      BY <1>0, <2>7 DEF StreamBreaks, ToClosing, Entrance, SleepsEnough, WaitingLeader,
        EpisodeOpen, Claimed, Fresh, TypeOK
    <3>6. Unresolved'
      BY <1>0, <2>7 DEF StreamBreaks, ToClosing, Entrance, Unresolved, Claimed, ProbePlaces,
        TypeOK
    <3> QED BY <3>1, <3>2, <3>3, <3>4, <3>5, <3>6
  <2>8. CASE StreamContinues(s)
    <3>1. Fresh'
      BY <1>0, <2>8 DEF StreamContinues, Fresh, TypeOK
    <3>2. Claimed'
      BY <1>0, <2>8 DEF StreamContinues, Claimed, ProbePlaces, TypeOK
    <3>3. SingleProbe'
      BY <1>0, <2>8 DEF StreamContinues, SingleProbe, Probing, ProbePlaces, EpisodeOpen,
        Claimed, Fresh, ProbeIsHeld, TypeOK
    <3>4. ProbeIsHeld'
      BY <1>0, <2>8 DEF StreamContinues, ProbeIsHeld, SingleProbe, Probing, ProbePlaces,
        EpisodeOpen, Claimed, Fresh, Unresolved, TypeOK
    <3>5. SleepsEnough'
      BY <1>0, <2>8 DEF StreamContinues, SleepsEnough, WaitingLeader, EpisodeOpen, Claimed,
        Fresh, TypeOK
    <3>6. Unresolved'
      BY <1>0, <2>8 DEF StreamContinues, Unresolved, Claimed, ProbePlaces, TypeOK
    <3> QED BY <3>1, <3>2, <3>3, <3>4, <3>5, <3>6
  <2> QED BY <1>3, <2>1, <2>2, <2>3, <2>4, <2>5, <2>6, <2>7, <2>8 DEF Answer
<1>4. ASSUME NEW s \in Sessions, Close(s) PROVE RecoveryInv'
  <2>1. CASE CloseFinished(s)
    <3>1. Fresh'
      BY <1>0, <2>1 DEF CloseFinished, Fresh, TypeOK
    <3>2. Claimed'
      BY <1>0, <2>1 DEF CloseFinished, Claimed, ProbePlaces, TypeOK
    <3>3. SingleProbe'
      BY <1>0, <2>1 DEF CloseFinished, SingleProbe, Probing, ProbePlaces, EpisodeOpen, Claimed,
        Fresh, ProbeIsHeld, TypeOK
    <3>4. ProbeIsHeld'
      BY <1>0, <2>1 DEF CloseFinished, ProbeIsHeld, SingleProbe, Probing, ProbePlaces,
        EpisodeOpen, Claimed, Fresh, Unresolved, TypeOK
    <3>5. SleepsEnough'
      BY <1>0, <2>1 DEF CloseFinished, SleepsEnough, WaitingLeader, EpisodeOpen, Claimed,
        Fresh, TypeOK
    <3>6. Unresolved'
      BY <1>0, <2>1 DEF CloseFinished, Unresolved, Claimed, ProbePlaces, TypeOK
    <3> QED BY <3>1, <3>2, <3>3, <3>4, <3>5, <3>6
  <2>2. CASE CloseUnresolved(s)
    <3>1. \/ MatchingProbe(s) /\ Has(episode', episode.gen, NoSession, FALSE, 0, episode.terminal)
          \/ ~MatchingProbe(s) /\ UNCHANGED episode
      BY <2>2, CloseUnresolvedEffect
    <3>2. Fresh'
      BY <1>0, <2>2, <3>1 DEF CloseUnresolved, Abandon, Has, MatchingProbe, Fresh, TypeOK
    <3>3. Claimed'
      BY <1>0, <2>2, <3>1 DEF CloseUnresolved, Abandon, Has, MatchingProbe, Claimed,
        ProbePlaces, TypeOK
    <3>4. SingleProbe'
      BY <1>0, <2>2, <3>1 DEF CloseUnresolved, Abandon, Has, MatchingProbe, SingleProbe,
        Probing, ProbePlaces, EpisodeOpen, Claimed, Fresh, ProbeIsHeld, TypeOK
    <3>5. ProbeIsHeld'
      BY <1>0, <2>2, <3>1 DEF CloseUnresolved, Abandon, Has, MatchingProbe, ProbeIsHeld,
        SingleProbe, Probing, ProbePlaces, EpisodeOpen, Claimed, Fresh, Unresolved, TypeOK
    <3>6. SleepsEnough'
      BY <1>0, <2>2, <3>1 DEF CloseUnresolved, Abandon, Has, MatchingProbe, SleepsEnough,
        WaitingLeader, EpisodeOpen, Claimed, Fresh, TypeOK
    <3>7. Unresolved'
      BY <1>0, <2>2, <3>1 DEF CloseUnresolved, Abandon, Has, MatchingProbe, Unresolved,
        Claimed, ProbePlaces, TypeOK
    <3> QED BY <3>2, <3>3, <3>4, <3>5, <3>6, <3>7
  <2>3. CASE AbandonFinished(s)
    <3>1. Fresh'
      BY <1>0, <2>3 DEF AbandonFinished, Exit, ExitLocals, Fresh, TypeOK
    <3>2. Claimed'
      BY <1>0, <2>3 DEF AbandonFinished, Exit, ExitLocals, Claimed, ProbePlaces, TypeOK
    <3>3. SingleProbe'
      BY <1>0, <2>3 DEF AbandonFinished, Exit, ExitLocals, SingleProbe, Probing, ProbePlaces,
        EpisodeOpen, Claimed, Fresh, ProbeIsHeld, TypeOK
    <3>4. ProbeIsHeld'
      BY <1>0, <2>3 DEF AbandonFinished, Exit, ExitLocals, ProbeIsHeld, SingleProbe, Probing,
        ProbePlaces, EpisodeOpen, Claimed, Fresh, Unresolved, TypeOK
    <3>5. SleepsEnough'
      BY <1>0, <2>3 DEF AbandonFinished, Exit, ExitLocals, SleepsEnough, WaitingLeader,
        EpisodeOpen, Claimed, Fresh, TypeOK
    <3>6. Unresolved'
      BY <1>0, <2>3 DEF AbandonFinished, Exit, ExitLocals, Unresolved, Claimed, ProbePlaces,
        TypeOK
    <3> QED BY <3>1, <3>2, <3>3, <3>4, <3>5, <3>6
  <2>4. CASE Reopen(s)
    <3>1. Fresh'
      BY <1>0, <2>4 DEF Reopen, Fresh, TypeOK
    <3>2. Claimed'
      BY <1>0, <2>4 DEF Reopen, Claimed, ProbePlaces, TypeOK
    <3>3. SingleProbe'
      BY <1>0, <2>4 DEF Reopen, SingleProbe, Probing, ProbePlaces, EpisodeOpen, Claimed, Fresh,
        ProbeIsHeld, TypeOK
    <3>4. ProbeIsHeld'
      BY <1>0, <2>4 DEF Reopen, ProbeIsHeld, SingleProbe, Probing, ProbePlaces, EpisodeOpen,
        Claimed, Fresh, Unresolved, TypeOK
    <3>5. SleepsEnough'
      BY <1>0, <2>4 DEF Reopen, SleepsEnough, WaitingLeader, EpisodeOpen, Claimed, Fresh, TypeOK
    <3>6. Unresolved'
      BY <1>0, <2>4 DEF Reopen, Unresolved, Claimed, ProbePlaces, TypeOK
    <3> QED BY <3>1, <3>2, <3>3, <3>4, <3>5, <3>6
  <2> QED BY <1>4, <2>1, <2>2, <2>3, <2>4 DEF Close
<1>5. ASSUME NEW s \in Sessions, Cancel(s) PROVE RecoveryInv'
  <2>1. CASE CancelWaiting(s)
    <3>1. Fresh'
      BY <1>0, <2>1 DEF CancelWaiting, Exit, ExitLocals, Fresh, TypeOK
    <3>2. Claimed'
      BY <1>0, <2>1 DEF CancelWaiting, Exit, ExitLocals, Claimed, ProbePlaces, TypeOK
    <3>3. SingleProbe'
      BY <1>0, <2>1 DEF CancelWaiting, Exit, ExitLocals, SingleProbe, Probing, ProbePlaces,
        EpisodeOpen, Claimed, Fresh, ProbeIsHeld, TypeOK
    <3>4. ProbeIsHeld'
      BY <1>0, <2>1 DEF CancelWaiting, Exit, ExitLocals, ProbeIsHeld, SingleProbe, Probing,
        ProbePlaces, EpisodeOpen, Claimed, Fresh, Unresolved, TypeOK
    <3>5. SleepsEnough'
      BY <1>0, <2>1 DEF CancelWaiting, Exit, ExitLocals, SleepsEnough, WaitingLeader,
        EpisodeOpen, Claimed, Fresh, TypeOK
    <3>6. Unresolved'
      BY <1>0, <2>1 DEF CancelWaiting, Exit, ExitLocals, Unresolved, Claimed, ProbePlaces, TypeOK
    <3> QED BY <3>1, <3>2, <3>3, <3>4, <3>5, <3>6
  <2>2. CASE CancelSleeping(s)
    <3>1. \/ /\ WaitingLeader(s)
             /\ Has(episode', episode.gen, NoSession, FALSE, episode.timer, episode.terminal)
          \/ ~WaitingLeader(s) /\ UNCHANGED episode
      BY <2>2, CancelSleepingEffect
    <3>2. Fresh'
      BY <1>0, <2>2, <3>1 DEF CancelSleeping, Exit, ExitLocals, Has, WaitingLeader, Fresh, TypeOK
    <3>3. Claimed'
      BY <1>0, <2>2, <3>1 DEF CancelSleeping, Exit, ExitLocals, Has, WaitingLeader, Claimed,
        ProbePlaces, TypeOK
    <3>4. SingleProbe'
      BY <1>0, <2>2, <3>1 DEF CancelSleeping, Exit, ExitLocals, Has, WaitingLeader,
        SingleProbe, Probing, ProbePlaces, EpisodeOpen, Claimed, Fresh, ProbeIsHeld, TypeOK
    <3>5. ProbeIsHeld'
      BY <1>0, <2>2, <3>1 DEF CancelSleeping, Exit, ExitLocals, Has, WaitingLeader,
        ProbeIsHeld, SingleProbe, Probing, ProbePlaces, EpisodeOpen, Claimed, Fresh,
        Unresolved, TypeOK
    <3>6. SleepsEnough'
      BY <1>0, <2>2, <3>1 DEF CancelSleeping, Exit, ExitLocals, Has, WaitingLeader,
        SleepsEnough, EpisodeOpen, Claimed, Fresh, TypeOK
    <3>7. Unresolved'
      BY <1>0, <2>2, <3>1 DEF CancelSleeping, Exit, ExitLocals, Has, WaitingLeader, Unresolved,
        Claimed, ProbePlaces, TypeOK
    <3> QED BY <3>2, <3>3, <3>4, <3>5, <3>6, <3>7
  <2>3. CASE CancelAdmission(s)
    <3>1. \/ MatchingProbe(s) /\ Has(episode', episode.gen, NoSession, FALSE, 0, episode.terminal)
          \/ ~MatchingProbe(s) /\ UNCHANGED episode
      BY <2>3, CancelAdmissionEffect
    <3>2. Fresh'
      BY <1>0, <2>3, <3>1 DEF CancelAdmission, Abandon, Exit, ExitLocals, Has, MatchingProbe,
        Fresh, TypeOK
    <3>3. Claimed'
      BY <1>0, <2>3, <3>1 DEF CancelAdmission, Abandon, Exit, ExitLocals, Has, MatchingProbe,
        Claimed, ProbePlaces, TypeOK
    <3>4. SingleProbe'
      BY <1>0, <2>3, <3>1 DEF CancelAdmission, Abandon, Exit, ExitLocals, Has, MatchingProbe,
        SingleProbe, Probing, ProbePlaces, EpisodeOpen, Claimed, Fresh, ProbeIsHeld, TypeOK
    <3>5. ProbeIsHeld'
      BY <1>0, <2>3, <3>1 DEF CancelAdmission, Abandon, Exit, ExitLocals, Has, MatchingProbe,
        ProbeIsHeld, SingleProbe, Probing, ProbePlaces, EpisodeOpen, Claimed, Fresh,
        Unresolved, TypeOK
    <3>6. SleepsEnough'
      BY <1>0, <2>3, <3>1 DEF CancelAdmission, Abandon, Exit, ExitLocals, Has, MatchingProbe,
        SleepsEnough, WaitingLeader, EpisodeOpen, Claimed, Fresh, TypeOK
    <3>7. Unresolved'
      BY <1>0, <2>3, <3>1 DEF CancelAdmission, Abandon, Exit, ExitLocals, Has, MatchingProbe,
        Unresolved, Claimed, ProbePlaces, TypeOK
    <3> QED BY <3>2, <3>3, <3>4, <3>5, <3>6, <3>7
  <2>4. CASE CancelAttempt(s)
    <3>1. \/ MatchingProbe(s) /\ Has(episode', episode.gen, NoSession, FALSE, 0, episode.terminal)
          \/ ~MatchingProbe(s) /\ UNCHANGED episode
      BY <2>4, CancelAttemptEffect
    <3>2. Fresh'
      BY <1>0, <2>4, <3>1 DEF CancelAttempt, Abandon, Has, MatchingProbe, Fresh, TypeOK
    <3>3. Claimed'
      BY <1>0, <2>4, <3>1 DEF CancelAttempt, Abandon, Has, MatchingProbe, Claimed, ProbePlaces,
        TypeOK
    <3>4. SingleProbe'
      BY <1>0, <2>4, <3>1 DEF CancelAttempt, Abandon, Has, MatchingProbe, SingleProbe, Probing,
        ProbePlaces, EpisodeOpen, Claimed, Fresh, ProbeIsHeld, TypeOK
    <3>5. ProbeIsHeld'
      BY <1>0, <2>4, <3>1 DEF CancelAttempt, Abandon, Has, MatchingProbe, ProbeIsHeld,
        SingleProbe, Probing, ProbePlaces, EpisodeOpen, Claimed, Fresh, Unresolved, TypeOK
    <3>6. SleepsEnough'
      BY <1>0, <2>4, <3>1 DEF CancelAttempt, Abandon, Has, MatchingProbe, SleepsEnough,
        WaitingLeader, EpisodeOpen, Claimed, Fresh, TypeOK
    <3>7. Unresolved'
      BY <1>0, <2>4, <3>1 DEF CancelAttempt, Abandon, Has, MatchingProbe, Unresolved, Claimed,
        ProbePlaces, TypeOK
    <3> QED BY <3>2, <3>3, <3>4, <3>5, <3>6, <3>7
  <2>5. CASE CancelStream(s)
    <3>1. Fresh'
      BY <1>0, <2>5 DEF CancelStream, ToClosing, Fresh, TypeOK
    <3>2. Claimed'
      BY <1>0, <2>5 DEF CancelStream, ToClosing, Claimed, ProbePlaces, TypeOK
    <3>3. SingleProbe'
      BY <1>0, <2>5 DEF CancelStream, ToClosing, SingleProbe, Probing, ProbePlaces,
        EpisodeOpen, Claimed, Fresh, ProbeIsHeld, TypeOK
    <3>4. ProbeIsHeld'
      BY <1>0, <2>5 DEF CancelStream, ToClosing, ProbeIsHeld, SingleProbe, Probing,
        ProbePlaces, EpisodeOpen, Claimed, Fresh, Unresolved, TypeOK
    <3>5. SleepsEnough'
      BY <1>0, <2>5 DEF CancelStream, ToClosing, SleepsEnough, WaitingLeader, EpisodeOpen,
        Claimed, Fresh, TypeOK
    <3>6. Unresolved'
      BY <1>0, <2>5 DEF CancelStream, ToClosing, Unresolved, Claimed, ProbePlaces, TypeOK
    <3> QED BY <3>1, <3>2, <3>3, <3>4, <3>5, <3>6
  <2>6. CASE CancelClosing(s)
    <3>1. Fresh'
      BY <1>0, <2>6 DEF CancelClosing, Exit, ExitLocals, MayBeCancelled, Fresh, TypeOK
    <3>2. Claimed'
      BY <1>0, <2>6 DEF CancelClosing, Exit, ExitLocals, MayBeCancelled, Claimed, ProbePlaces,
        TypeOK
    <3>3. SingleProbe'
      BY <1>0, <2>6 DEF CancelClosing, Exit, ExitLocals, MayBeCancelled, SingleProbe, Probing,
        ProbePlaces, EpisodeOpen, Claimed, Fresh, ProbeIsHeld, TypeOK
    <3>4. ProbeIsHeld'
      BY <1>0, <2>6 DEF CancelClosing, Exit, ExitLocals, MayBeCancelled, ProbeIsHeld,
        SingleProbe, Probing, ProbePlaces, EpisodeOpen, Claimed, Fresh, Unresolved, TypeOK
    <3>5. SleepsEnough'
      BY <1>0, <2>6 DEF CancelClosing, Exit, ExitLocals, MayBeCancelled, SleepsEnough,
        WaitingLeader, EpisodeOpen, Claimed, Fresh, TypeOK
    <3>6. Unresolved'
      BY <1>0, <2>6 DEF CancelClosing, Exit, ExitLocals, MayBeCancelled, Unresolved, Claimed,
        ProbePlaces, TypeOK
    <3> QED BY <3>1, <3>2, <3>3, <3>4, <3>5, <3>6
  <2>7. CASE CancelReopening(s)
    <3>1. Fresh'
      BY <1>0, <2>7 DEF CancelReopening, ExitLocals, Fresh, TypeOK
    <3>2. Claimed'
      BY <1>0, <2>7 DEF CancelReopening, ExitLocals, Claimed, ProbePlaces, TypeOK
    <3>3. SingleProbe'
      BY <1>0, <2>7 DEF CancelReopening, ExitLocals, SingleProbe, Probing, ProbePlaces,
        EpisodeOpen, Claimed, Fresh, ProbeIsHeld, TypeOK
    <3>4. ProbeIsHeld'
      BY <1>0, <2>7 DEF CancelReopening, ExitLocals, ProbeIsHeld, SingleProbe, Probing,
        ProbePlaces, EpisodeOpen, Claimed, Fresh, Unresolved, TypeOK
    <3>5. SleepsEnough'
      BY <1>0, <2>7 DEF CancelReopening, ExitLocals, SleepsEnough, WaitingLeader, EpisodeOpen,
        Claimed, Fresh, TypeOK
    <3>6. Unresolved'
      BY <1>0, <2>7 DEF CancelReopening, ExitLocals, Unresolved, Claimed, ProbePlaces, TypeOK
    <3> QED BY <3>1, <3>2, <3>3, <3>4, <3>5, <3>6
  <2> QED BY <1>5, <2>1, <2>2, <2>3, <2>4, <2>5, <2>6, <2>7 DEF Cancel
<1>6. CASE Tick
  <2>1. Fresh'
    BY <1>0, <1>6 DEF Tick, Less, Fresh, TypeOK
  <2>2. Claimed'
    BY <1>0, <1>6 DEF Tick, Less, Claimed, ProbePlaces, TypeOK
  <2>3. SingleProbe'
    BY <1>0, <1>6 DEF Tick, Less, SingleProbe, Probing, ProbePlaces, EpisodeOpen, Claimed,
      Fresh, ProbeIsHeld, TypeOK
  <2>4. ProbeIsHeld'
    BY <1>0, <1>6 DEF Tick, Less, ProbeIsHeld, SingleProbe, Probing, ProbePlaces, EpisodeOpen,
      Claimed, Fresh, Unresolved, TypeOK
  <2>5. SleepsEnough'
    BY <1>0, <1>6 DEF Tick, Less, SleepsEnough, WaitingLeader, EpisodeOpen, Claimed, Fresh, TypeOK
  <2>6. Unresolved'
    BY <1>0, <1>6 DEF Tick, Less, Unresolved, Claimed, ProbePlaces, TypeOK
  <2> QED BY <2>1, <2>2, <2>3, <2>4, <2>5, <2>6
<1>7. CASE UNCHANGED vars
  BY <1>7 DEF vars, Fresh, Claimed, SingleProbe, ProbeIsHeld, SleepsEnough,
    Unresolved, Probing, EpisodeOpen, WaitingLeader
<1> QED BY <1>1, <1>2, <1>3, <1>4, <1>5, <1>6, <1>7 DEF Next, Finished
\* Recovery as theorems.  The inductive invariant, then what follows from it.
LEMMA RecoveryHolds == Spec => [](TypeOK /\ BudgetInv /\ RecoveryInv)
<1>1. Init => BudgetInv
  BY DEF Init, BudgetInv, BudgetRespected, CanAttempt
<1>2. Init => RecoveryInv
  BY DEF Init, RecoveryInv, NoEpisode, Fresh, Claimed, SingleProbe, ProbeIsHeld,
    SleepsEnough, Unresolved, Probing, EpisodeOpen
<1> QED BY <1>1, <1>2, SlotsAreHeld, BudgetKept, RecoveryKept, PTL DEF Spec

\* At every moment at most one execution, the leader, is out with the probe of
\* the open episode, and only after the episode's delay: _wait_for_gate hands
\* out one permit, whichever leaders slept, failed, or were cancelled before.
THEOREM OneProbeAtATime == Spec => []SingleProbe
<1>1. RecoveryInv => SingleProbe
  BY DEF RecoveryInv
<1> QED BY <1>1, RecoveryHolds, PTL

\* A probe marked as out has a holder who still has to resolve or abandon it,
\* through every cancellation of the holder: the gate cannot stay shut on a
\* probe that nobody holds.
THEOREM ProbesAreHeld == Spec => []ProbeIsHeld
<1>1. RecoveryInv => ProbeIsHeld
  BY DEF RecoveryInv
<1> QED BY <1>1, RecoveryHolds, PTL

\* A probe that is out belongs to the leader of an open, ready episode.
LEMMA ProbeOut ==
  ASSUME RecoveryInv, episode.probe
  PROVE  EpisodeOpen /\ ~episode.terminal /\ episode.leader \in Sessions
  BY DEF RecoveryInv, ProbeIsHeld, SingleProbe, Probing

\* Who may start an attempt, by the check that open_attempt repeats after each wait.
LEMMA PermitHolder ==
  ASSUME TypeOK, NEW s \in Sessions, PermitIsCurrent(s)
  PROVE  \/ ~EpisodeOpen
         \/ MatchingProbe(s) /\ EpisodeOpen /\ ~episode.terminal
  BY DEF PermitIsCurrent, MatchingProbe, EpisodeOpen, TypeOK, Episodes

\* The steps that start an attempt.
LEMMA Started ==
  ASSUME TypeOK, [Next]_vars, attempts' # attempts
  PROVE  \E s \in Sessions :
           /\ pc[s] \in {"limiter", "slot"}
           /\ PermitIsCurrent(s)
           /\ attempts' = [attempts EXCEPT ![s] = @ + 1]
           /\ UNCHANGED episode
<1> USE DEF gate, bulkhead, local
<1>1. ASSUME NEW s \in Sessions, AcquireQuota(s) \/ AcquireSlot(s), attempts' # attempts
      PROVE  /\ pc[s] \in {"limiter", "slot"}
             /\ PermitIsCurrent(s)
             /\ attempts' = [attempts EXCEPT ![s] = @ + 1]
             /\ UNCHANGED episode
  BY <1>1 DEF AcquireQuota, AcquireSlot, StartAttempt, GiveUpPermit
<1>2. ASSUME NEW s \in Sessions, Gate(s), ~AcquireQuota(s), ~AcquireSlot(s) PROVE UNCHANGED attempts
  BY <1>2 DEF
    Gate, GateRefuse, AtGate, Exit, ExitLocals, GatePass, GateReopen,
    GateLead, GateWait, LeaderWakes
<1>3. ASSUME NEW s \in Sessions, Answer(s) PROVE UNCHANGED attempts
  BY <1>3 DEF
    Answer, AttemptSucceeds, AttemptCorrected, Resolve, Exit, Entrance,
    Streaming, AttemptRejected, AttemptFails, AttemptExhausts, StreamEnds,
    ToClosing, StreamBreaks, StreamContinues
<1>4. ASSUME NEW s \in Sessions, Close(s) PROVE UNCHANGED attempts
  BY <1>4 DEF
    Close, CloseFinished, CloseUnresolved, Abandon, AbandonFinished, Exit,
    ExitLocals, Reopen
<1>5. ASSUME NEW s \in Sessions, Cancel(s) PROVE UNCHANGED attempts
  BY <1>5 DEF
    Cancel, CancelWaiting, Exit, ExitLocals, CancelSleeping, CancelAdmission,
    Abandon, CancelAttempt, CancelStream, ToClosing, CancelClosing,
    CancelReopening
<1>6. ASSUME Tick \/ UNCHANGED vars \/ \E s \in Sessions : Call(s) PROVE UNCHANGED attempts
  BY <1>6 DEF Tick, Call, vars
<1> QED BY <1>1, <1>2, <1>3, <1>4, <1>5, <1>6 DEF Next, Finished, Gate

\* While an episode is open nobody starts an attempt but the leader with its
\* probe, also not executions that had passed the gate before it opened: the
\* permit is asked again after the window and after the semaphore.
THEOREM OnlyProbesStart == Spec => OnlyProbesDuringRecovery
<1> DEFINE A == \A s \in Sessions : attempts'[s] # attempts[s] /\ EpisodeOpen => Probing(s)
<1>1. TypeOK /\ RecoveryInv /\ [Next]_vars => [A]_vars
  <2> SUFFICES ASSUME TypeOK, RecoveryInv, [Next]_vars, NEW t \in Sessions,
                      attempts'[t] # attempts[t], EpisodeOpen
               PROVE  Probing(t)
    OBVIOUS
  <2>1. PICK s \in Sessions : /\ pc[s] \in {"limiter", "slot"}
                              /\ PermitIsCurrent(s)
                              /\ attempts' = [attempts EXCEPT ![s] = @ + 1]
    BY Started
  <2>2. s = t
    BY <2>1 DEF TypeOK
  <2>3. MatchingProbe(t)
    BY <2>1, <2>2, PermitHolder
  <2> QED BY <2>1, <2>2, <2>3 DEF Probing, ProbePlaces, MatchingProbe
<1> QED BY <1>1, RecoveryHolds, PTL DEF OnlyProbesDuringRecovery, Spec
-----------------------------------------------------------------------------
(* The circuit breaker.  Each step of the controller is a step of the       *)
(* breaker or none; the lemmas say what makes it which.                     *)

LEMMA Unnoticed ==
  ASSUME UNCHANGED attempts, episode'.gen = episode.gen,
         episode'.probe = episode.probe, episode'.terminal = episode.terminal,
         episode.probe => episode'.leader = episode.leader
  PROVE  UNCHANGED Breaker!vars
  BY DEF Breaker!vars, Mode, Prober, EpisodeOpen

LEMMA ProbeTaken ==
  ASSUME UNCHANGED attempts, NEW s \in Sessions, EpisodeOpen, ~episode.probe,
         EpisodeOpen', episode'.probe, ~episode'.terminal, episode'.leader = s
  PROVE  Breaker!Next
<1>1. Mode \in {"open", "cooling"} /\ Mode' = "probing" /\ Prober' = s
  BY DEF Mode, Prober
<1> QED BY <1>1 DEF Breaker!Next, Breaker!TakeProbe

LEMMA ProbeEnded ==
  ASSUME TypeOK, RecoveryInv, UNCHANGED attempts, episode.probe, ~episode'.probe
  PROVE  Breaker!Next
<1>1. Mode = "probing"
  BY ProbeOut DEF Mode
<1>2. Mode' \in {"closed", "open", "cooling"} /\ Prober' = NoSession
  BY DEF Mode, Prober
<1> QED BY <1>1, <1>2 DEF Breaker!Next, Breaker!EndProbe

LEMMA Tripped ==
  ASSUME TypeOK, RecoveryInv, UNCHANGED attempts, ~EpisodeOpen, EpisodeOpen',
         ~episode'.probe
  PROVE  Breaker!Next
<1>1. Mode = "closed" /\ Mode' \in {"open", "cooling"}
  BY DEF Mode
<1>2. Prober = NoSession /\ Prober' = NoSession
  BY ProbeOut DEF Prober
<1> QED BY <1>1, <1>2 DEF Breaker!Next, Breaker!Trip

LEMMA Dropped ==
  ASSUME TypeOK, RecoveryInv, UNCHANGED attempts, episode' = NoEpisode
  PROVE  [Breaker!Next]_Breaker!vars
<1>1. Mode' = "closed" /\ Prober' = NoSession
  BY DEF Mode, Prober, EpisodeOpen, NoEpisode
<1>2. CASE EpisodeOpen
  <2>1. Mode # "closed"
    BY <1>2 DEF Mode
  <2> QED BY <1>1, <2>1 DEF Breaker!Next, Breaker!Reset
<1>3. CASE ~EpisodeOpen
  <2>1. Mode = "closed" /\ Prober = NoSession
    BY <1>3, ProbeOut DEF Mode, Prober
  <2> QED BY <1>1, <2>1 DEF Breaker!vars
<1> QED BY <1>2, <1>3

\* An abandoned permit ends the probe if it was the probe.
LEMMA GivenUp ==
  ASSUME TypeOK, RecoveryInv, NEW s \in Sessions, UNCHANGED attempts,
         \/ MatchingProbe(s) /\ ~episode'.probe
         \/ UNCHANGED episode
  PROVE  [Breaker!Next]_Breaker!vars
  BY ProbeEnded, Unnoticed DEF MatchingProbe

LEMMA AttemptStarted ==
  ASSUME TypeOK, BudgetInv, RecoveryInv, [Next]_vars, attempts' # attempts
  PROVE  Breaker!Next
<1>1. PICK s \in Sessions : /\ pc[s] \in {"limiter", "slot"}
                            /\ PermitIsCurrent(s)
                            /\ attempts' = [attempts EXCEPT ![s] = @ + 1]
                            /\ UNCHANGED episode
  BY Started
<1>2. attempts[s] < MaxAttempts
  BY <1>1 DEF BudgetInv, BudgetRespected, CanAttempt
<1>3. UNCHANGED <<Mode, Prober>>
  BY <1>1 DEF Mode, Prober, EpisodeOpen
<1>4. Mode = "closed" \/ (Mode = "probing" /\ Prober = s)
  <2>1. CASE ~EpisodeOpen
    BY <2>1 DEF Mode
  <2>2. CASE MatchingProbe(s) /\ EpisodeOpen /\ ~episode.terminal
    BY <2>2 DEF Mode, Prober, MatchingProbe
  <2> QED BY <1>1, <2>1, <2>2, PermitHolder
<1> QED BY <1>1, <1>2, <1>3, <1>4 DEF Breaker!Next, Breaker!Start

LEMMA BreakerStep ==
  ASSUME TypeOK, BudgetInv, RecoveryInv, [Next]_vars
  PROVE  [Breaker!Next]_Breaker!vars
<1> SUFFICES ASSUME UNCHANGED attempts PROVE [Breaker!Next]_Breaker!vars
  BY AttemptStarted
<1> DEFINE Goal == [Breaker!Next]_Breaker!vars
<1> USE DEF gate, RecoveryInv
<1>1. ASSUME NEW s \in Sessions, Gate(s) PROVE Goal
  <2>1. CASE GateReopen(s)
    <3>1. /\ EpisodeOpen /\ ~episode.probe
          /\ EpisodeOpen' /\ episode'.probe /\ ~episode'.terminal /\ episode'.leader = s
      BY <2>1, ProbeOut DEF GateReopen, Reopened, Episode, EpisodeOpen, TypeOK
    <3> QED BY <3>1, ProbeTaken
  <2>2. CASE GateLead(s)
    <3>1. Has(episode', episode.gen, s, episode.probe \/ episode.timer = 0, episode.timer, FALSE)
      BY <2>2, GateLeadEffect
    <3>2. EpisodeOpen /\ ~episode.terminal /\ ~episode.probe
      BY <2>2, ProbeOut DEF GateLead, MayLead
    <3>3. CASE episode.timer = 0
      BY <3>1, <3>2, <3>3, ProbeTaken DEF Has, EpisodeOpen
    <3>4. CASE episode.timer # 0
      BY <3>1, <3>2, <3>4, Unnoticed DEF Has, TypeOK, Episodes
    <3> QED BY <3>3, <3>4
  <2>3. CASE GateWait(s)
    <3>1. UNCHANGED <<episode.gen, episode.probe, episode.terminal, episode.leader>>
      BY <2>3 DEF GateWait, TypeOK, Episodes
    <3> QED BY <3>1, Unnoticed
  <2>4. CASE LeaderWakes(s)
    <3>1. CASE UNCHANGED episode
      BY <3>1, Unnoticed
    <3>2. CASE ~UNCHANGED episode
      <4>1. /\ WaitingLeader(s) /\ ~episode.terminal
            /\ Has(episode', episode.gen, s, TRUE, episode.timer, FALSE)
        BY <2>4, <3>2, LeaderWakesEffect
      <4>2. EpisodeOpen
        BY <2>4, <4>1 DEF LeaderWakes, Claimed, WaitingLeader, EpisodeOpen
      <4> QED BY <4>1, <4>2, ProbeTaken DEF Has, WaitingLeader, EpisodeOpen
    <3> QED BY <3>1, <3>2
  <2>5. CASE AcquireQuota(s)
    BY <2>5, AcquireQuotaEffect, GivenUp DEF Has
  <2>6. CASE AcquireSlot(s)
    BY <2>6, AcquireSlotEffect, GivenUp DEF Has
  <2>7. CASE GateRefuse(s) \/ GatePass(s)
    BY <2>7, Unnoticed DEF GateRefuse, GatePass
  <2> QED BY <1>1, <2>1, <2>2, <2>3, <2>4, <2>5, <2>6, <2>7 DEF Gate
<1>2. ASSUME NEW s \in Sessions, Answer(s) PROVE Goal
  <2>1. CASE AttemptSucceeds(s)
    <3>1. UNCHANGED episode \/ episode' = NoEpisode
      BY <2>1 DEF AttemptSucceeds
    <3> QED BY <3>1, Unnoticed, Dropped
  <2>2. CASE AttemptCorrected(s)
    <3>1. \/ MatchingProbe(s) /\ ~episode'.probe
          \/ UNCHANGED episode
      BY <2>2, AttemptCorrectedEffect DEF Has
    <3> QED BY <3>1, GivenUp
  <2>3. CASE AttemptRejected(s)
    <3>1. UNCHANGED episode \/ episode' = NoEpisode
      BY <2>3 DEF AttemptRejected
    <3> QED BY <3>1, Unnoticed, Dropped
  <2>4. ASSUME NEW d \in Delays, AttemptFails(s, d) PROVE Goal
    <3>1. CASE ~EpisodeOpen
      <4>1. EpisodeOpen' /\ ~episode'.probe
        BY <2>4, <3>1, AttemptFailsEffect DEF Has, EpisodeOpen, MatchingProbe, Fresh,
          TypeOK, AttemptFails, Episode
      <4> QED BY <3>1, <4>1, Tripped
    <3>2. CASE MatchingProbe(s)
      <4>1. episode.probe /\ ~episode'.probe
        BY <2>4, <3>2, AttemptFailsEffect DEF Has, EpisodeOpen, MatchingProbe
      <4> QED BY <4>1, ProbeEnded
    <3>3. CASE EpisodeOpen /\ ~MatchingProbe(s)
      <4>1. Has(episode', episode.gen, episode.leader, episode.probe, episode.timer,
                episode.terminal)
        BY <2>4, <3>3, AttemptFailsEffect
      <4> QED BY <4>1, Unnoticed DEF Has
    <3> QED BY <3>1, <3>2, <3>3
  <2>5. ASSUME NEW d \in Delays, AttemptExhausts(s, d) PROVE Goal
    <3>1. CASE ~EpisodeOpen
      <4>1. Has(episode', nextGen, NoSession, FALSE, d, TRUE)
        BY <2>5, <3>1, AttemptExhaustsEffect DEF EpisodeOpen, MatchingProbe, AttemptExhausts,
          Has, Exhausted, Episode
      <4> QED BY <3>1, <4>1, Tripped DEF Has, EpisodeOpen, TypeOK
    <3>2. CASE MatchingProbe(s)
      <4>1. episode.probe /\ ~episode'.probe
        BY <2>5, <3>2, AttemptExhaustsEffect DEF Has, EpisodeOpen, MatchingProbe
      <4> QED BY <4>1, ProbeEnded
    <3>3. CASE EpisodeOpen /\ ~MatchingProbe(s)
      BY <2>5, <3>3, AttemptExhaustsEffect, Unnoticed
    <3> QED BY <3>1, <3>2, <3>3
  <2>6. CASE StreamEnds(s) \/ StreamBreaks(s) \/ StreamContinues(s)
    BY <2>6, Unnoticed DEF StreamEnds, StreamBreaks, StreamContinues, ToClosing
  <2> QED BY <1>2, <2>1, <2>2, <2>3, <2>4, <2>5, <2>6 DEF Answer
<1>3. ASSUME NEW s \in Sessions, Close(s) PROVE Goal
  <2>1. CASE CloseUnresolved(s)
    BY <2>1, CloseUnresolvedEffect, GivenUp DEF Has
  <2>2. CASE CloseFinished(s) \/ AbandonFinished(s) \/ Reopen(s)
    BY <2>2, Unnoticed DEF CloseFinished, AbandonFinished, Reopen
  <2> QED BY <1>3, <2>1, <2>2 DEF Close
<1>4. ASSUME NEW s \in Sessions, Cancel(s) PROVE Goal
  <2>1. CASE CancelWaiting(s)
    <3>1. UNCHANGED <<episode.gen, episode.probe, episode.terminal, episode.leader>>
      BY <2>1 DEF CancelWaiting, TypeOK, Episodes
    <3> QED BY <3>1, Unnoticed
  <2>2. CASE CancelSleeping(s)
    <3>1. CASE UNCHANGED episode
      BY <3>1, Unnoticed
    <3>2. CASE ~UNCHANGED episode
      <4>1. /\ ~episode.probe
            /\ Has(episode', episode.gen, NoSession, FALSE, episode.timer, episode.terminal)
        BY <2>2, <3>2, CancelSleepingEffect DEF WaitingLeader
      <4> QED BY <4>1, Unnoticed DEF Has, TypeOK, Episodes
    <3> QED BY <3>1, <3>2
  <2>3. CASE CancelAdmission(s)
    BY <2>3, CancelAdmissionEffect, GivenUp DEF Has
  <2>4. CASE CancelAttempt(s)
    BY <2>4, CancelAttemptEffect, GivenUp DEF Has
  <2>5. CASE CancelStream(s) \/ CancelClosing(s) \/ CancelReopening(s)
    BY <2>5, Unnoticed DEF CancelStream, CancelClosing, CancelReopening, ToClosing
  <2> QED BY <1>4, <2>1, <2>2, <2>3, <2>4, <2>5 DEF Cancel
<1>5. CASE Tick
  <2>1. UNCHANGED <<episode.gen, episode.probe, episode.terminal, episode.leader>>
    BY <1>5 DEF Tick, TypeOK, Episodes
  <2> QED BY <2>1, Unnoticed
<1>6. CASE UNCHANGED vars \/ \E s \in Sessions : Call(s)
  BY <1>6, Unnoticed DEF vars, Call
<1> QED BY <1>1, <1>2, <1>3, <1>4, <1>5, <1>6 DEF Next, Finished

\* The invariants above hold together: the types hold, no budget is exceeded,
\* and the one probe of an open episode is held by its leader.
THEOREM AdmissionStaysSound == Spec => []AdmissionIsSound
<1>1. TypeOK /\ SingleProbe /\ ProbeIsHeld /\ BudgetRespected <=> AdmissionIsSound
  BY DEF AdmissionIsSound
<1> QED BY <1>1, SlotsAreHeld, OneProbeAtATime, ProbesAreHeld, BudgetIsRespected, PTL

\* The controller implements the circuit breaker: whatever happens to claims,
\* waiters, clocks and tasks, from outside it only ever trips, hands out one
\* probe, and closes, reopens or cools down by the end of that probe or by a
\* rejected credential; and attempts start only as the breaker allows.
THEOREM IsCircuitBreaker == Spec => ImplementsBreaker
<1>1. Init => Breaker!Init
  BY DEF Init, Breaker!Init, Mode, Prober, EpisodeOpen, NoEpisode
<1> QED BY <1>1, RecoveryHolds, BreakerStep, PTL DEF Spec, ImplementsBreaker, Breaker!Spec

-----------------------------------------------------------------------------
(* Nobody is stranded.  Who waits for an episode, who was failed with one,  *)
(* who leads it, and who has a slot.                                        *)

\* Where an execution may stand that waits for an episode or was failed with it.
Apart == {"gate", "waiting", "woken", "reopening", "closing", "releasing"} \cup Outcomes

WaitersAreApart == \A s \in doomed \cup episode.waiters : pc[s] \in Apart
WaitersHaveAnEpisode == ~EpisodeOpen \/ episode.terminal => episode.waiters = {}
LeadersDoNotWait == episode.leader \notin episode.waiters
LeadersHaveAnEpisode == ~EpisodeOpen => episode.leader = NoSession
LeadersMayAct ==
  episode.leader # NoSession /\ ~episode.probe =>
    pc[episode.leader] \in {"gate", "sleeping", "reopening", "closing", "releasing"} \cup Outcomes

WaitersInv ==
  /\ WaitersAreApart
  /\ WaitersHaveAnEpisode
  /\ LeadersDoNotWait
  /\ LeadersHaveAnEpisode
  /\ LeadersMayAct

\* Who waits for the episode that an operation leaves.
LEMMA EpisodeWaiters ==
  ASSUME TypeOK, NEW s \in Sessions, NEW delay \in Nat
  PROVE  /\ NoEpisode.waiters = {} /\ NoEpisode.leader = NoSession /\ NoEpisode.gen = 0
         /\ Episode(s, delay).waiters = {}
         /\ Reopened(s).waiters = {} /\ Reopened(s).leader = s /\ Reopened(s).probe
         /\ Reopened(s).gen = nextGen /\ ~Reopened(s).terminal
         /\ Unled.waiters = episode.waiters
         /\ Led(s).waiters = IF episode.leader = NoSession THEN episode.waiters \ {s}
                             ELSE episode.waiters
         /\ Corrected.waiters = episode.waiters
         /\ Postponed(delay).waiters = episode.waiters
         /\ Joined(s).waiters = episode.waiters \cup {s}
         /\ Exhausted(episode, delay).waiters = {}
         /\ Exhausted(Episode(NoSession, 0), delay).waiters = {}
<1> USE DEF TypeOK, Episodes
<1>1. NoEpisode.waiters = {} /\ NoEpisode.leader = NoSession /\ NoEpisode.gen = 0
  BY DEF NoEpisode
<1>2. Episode(s, delay).waiters = {}
  BY DEF Episode
<1>3. /\ Reopened(s).waiters = {} /\ Reopened(s).leader = s /\ Reopened(s).probe
      /\ Reopened(s).gen = nextGen /\ ~Reopened(s).terminal
  BY DEF Reopened, Episode
<1>4. Unled.waiters = episode.waiters
  BY DEF Unled
<1>5. Led(s).waiters = IF episode.leader = NoSession THEN episode.waiters \ {s}
                       ELSE episode.waiters
  BY DEF Led
<1>6. /\ Corrected.waiters = episode.waiters
      /\ Postponed(delay).waiters = episode.waiters
  BY DEF Corrected, Postponed
<1>7. Joined(s).waiters = episode.waiters \cup {s}
  BY DEF Joined
<1>8. /\ Exhausted(episode, delay).waiters = {}
      /\ Exhausted(Episode(NoSession, 0), delay).waiters = {}
  BY DEF Exhausted, Episode
<1> QED BY <1>1, <1>2, <1>3, <1>4, <1>5, <1>6, <1>7, <1>8

\* Giving a permit up changes nobody's wait.
LEMMA AbandonedWaiters ==
  ASSUME TypeOK, NEW s \in Sessions, NEW place \in Places, Abandon(s, place)
  PROVE  episode'.waiters = episode.waiters
<1>1. episode' \in {episode, Unled}
  BY DEF Abandon
<1> QED BY <1>1, EpisodeWaiters, 0 \in Nat

\* An execution given up moves to its place, and only who waits is woken.
Moved(s) ==
  \A t \in Sessions \ {s} :
    \/ pc'[t] = pc[t]
    \/ pc[t] = "waiting" /\ pc'[t] = "woken"

MovedTo(s, place) == Moved(s) /\ pc'[s] = place

\* A move, with or without a notification, takes one execution to its place.
LEMMA Moves ==
  ASSUME TypeOK, NEW s \in Sessions, NEW place \in Places, Move(s, place) \/ Notify(s, place)
  PROVE  MovedTo(s, place)
<1>1. CASE Move(s, place)
  BY <1>1 DEF TypeOK, Move, MovedTo, Moved
<1>2. CASE Notify(s, place)
  BY <1>2 DEF Notify, MovedTo, Moved
<1> QED BY <1>1, <1>2

\* Giving a permit up moves the one execution, and wakes who waits.
LEMMA AbandonedMoves ==
  ASSUME TypeOK, NEW s \in Sessions, NEW place \in Places, Abandon(s, place)
  PROVE  MovedTo(s, place)
  BY Moves DEF Abandon

\* An attempt opened an episode, kept its own, joined one, or came too late.
LEMMA AttemptFailsWaiters ==
  ASSUME TypeOK, NEW s \in Sessions, NEW d \in Delays, AttemptFails(s, d)
  PROVE  \/ ~EpisodeOpen /\ episode'.waiters = {} /\ doomed' = doomed
         \/ MatchingProbe(s) /\ episode'.waiters = episode.waiters /\ doomed' = doomed
         \/ /\ EpisodeOpen /\ ~MatchingProbe(s) /\ episode.terminal
            /\ episode' = episode /\ doomed' = doomed \cup {s}
         \/ /\ EpisodeOpen /\ ~MatchingProbe(s) /\ ~episode.terminal
            /\ episode'.waiters = episode.waiters \cup {s} /\ doomed' = doomed
<1>1. d \in Nat
  BY DelaysAreNat
<1>2. \/ ~EpisodeOpen /\ episode' = Episode(s, d) /\ doomed' = doomed
      \/ MatchingProbe(s) /\ episode' = Postponed(d) /\ doomed' = doomed
      \/ /\ EpisodeOpen /\ ~MatchingProbe(s) /\ episode.terminal
         /\ episode' = episode /\ doomed' = doomed \cup {s}
      \/ /\ EpisodeOpen /\ ~MatchingProbe(s) /\ ~episode.terminal
         /\ episode' = Joined(s) /\ doomed' = doomed
  BY DEF AttemptFails
<1>3. /\ Episode(s, d).waiters = {}
      /\ Postponed(d).waiters = episode.waiters
      /\ Joined(s).waiters = episode.waiters \cup {s}
  BY <1>1, EpisodeWaiters
<1> QED BY <1>2, <1>3

LEMMA AttemptExhaustsWaiters ==
  ASSUME TypeOK, NEW s \in Sessions, NEW d \in Delays, AttemptExhausts(s, d)
  PROVE  \/ /\ ~EpisodeOpen \/ MatchingProbe(s)
            /\ episode'.waiters = {} /\ doomed' = doomed \cup episode.waiters
            /\ episode'.leader = NoSession /\ ~episode'.probe /\ episode'.terminal
         \/ EpisodeOpen /\ ~MatchingProbe(s) /\ UNCHANGED <<episode, doomed>>
<1>1. d \in Nat
  BY DelaysAreNat
<1>2. CASE EpisodeOpen /\ ~MatchingProbe(s)
  BY <1>2 DEF AttemptExhausts
<1>3. CASE ~(EpisodeOpen /\ ~MatchingProbe(s))
  <2>1. /\ episode' \in {Exhausted(episode, d), Exhausted(Episode(NoSession, 0), d)}
        /\ doomed' = doomed \cup episode.waiters
    BY <1>3 DEF AttemptExhausts
  <2>2. episode'.waiters = {}
    BY <1>1, <2>1, EpisodeWaiters
  <2>3. episode'.leader = NoSession /\ ~episode'.probe /\ episode'.terminal
    <3>1. ASSUME NEW e, NEW gen, Has(e, gen, NoSession, FALSE, d, TRUE)
          PROVE  e.leader = NoSession /\ ~e.probe /\ e.terminal
      BY <3>1 DEF Has
    <3>2. /\ Has(Exhausted(episode, d), episode.gen, NoSession, FALSE, d, TRUE)
          /\ Has(Exhausted(Episode(NoSession, 0), d), nextGen, NoSession, FALSE, d, TRUE)
      BY <1>1, EpisodeFields
    <3> QED BY <2>1, <3>1, <3>2
  <2> QED BY <1>3, <2>1, <2>2, <2>3
<1> QED BY <1>2, <1>3

\* Where an execution stands once its result is recorded and it is to go on.
LEMMA ResolvedPlace ==
  ASSUME TypeOK, NEW s \in Sessions, NEW next \in {"gate", "reopening"}, NEW place,
         Resolve(s, next, place)
  PROVE  /\ place \in {next, "closing"}
         /\ after' = [after EXCEPT ![s] = next]
         /\ ticket' = [ticket EXCEPT ![s] = 0]
<1>1. next \notin Outcomes
  BY DEF Outcomes
<1> QED BY <1>1 DEF Resolve

\* Who waits stays apart from who attempts, and a leader is no waiter.
LEMMA WaitersKept == TypeOK /\ RecoveryInv /\ WaitersInv /\ [Next]_vars => WaitersInv'
<1> SUFFICES ASSUME TypeOK, RecoveryInv, WaitersInv, [Next]_vars PROVE WaitersInv'
  OBVIOUS
<1> USE DEF WaitersInv, WaitersAreApart, WaitersHaveAnEpisode, LeadersDoNotWait,
    LeadersHaveAnEpisode,
    LeadersMayAct, Apart, ProbePlaces, EpisodeOpen, Outcomes, gate, bulkhead, local
<1>0. /\ episode.gen \in Nat /\ episode.leader \in Sessions \cup {NoSession}
      /\ episode.probe \in BOOLEAN /\ episode.terminal \in BOOLEAN
      /\ episode.waiters \subseteq Sessions /\ doomed \subseteq Sessions
      /\ NoSession \notin Sessions /\ nextGen # 0
      /\ pc \in [Sessions -> Places]
  BY AdmissionAssumption DEF TypeOK, Episodes
<1>8. \A t \in Sessions : MatchingProbe(t) => pc[t] \in ProbePlaces \/ pc[t] = "sleeping"
  BY DEF RecoveryInv, Claimed, MatchingProbe
<1>9. episode.probe => /\ EpisodeOpen /\ ~episode.terminal /\ episode.leader \in Sessions
                       /\ pc[episode.leader] \in ProbePlaces
                       /\ MatchingProbe(episode.leader)
  BY ProbeOut DEF RecoveryInv, ProbeIsHeld, SingleProbe, Probing, MatchingProbe, EpisodeOpen
<1>1. ASSUME NEW s \in Sessions, Call(s) PROVE WaitersInv'
  BY <1>0, <1>8, <1>9, <1>1 DEF Call, Entrance, Move, TypeOK
<1>2. ASSUME NEW s \in Sessions, Gate(s) PROVE WaitersInv'
  <2>1. CASE GateRefuse(s)
    BY <1>0, <1>8, <1>9, <2>1 DEF GateRefuse, AtGate, Exit, ExitLocals, Move, TypeOK
  <2>2. CASE GatePass(s)
    BY <1>0, <1>8, <1>9, <2>2 DEF GatePass, AtGate, Refused, Move, TypeOK
  <2>3. CASE GateReopen(s)
    <3>1. /\ episode'.waiters = {} /\ episode'.leader = s /\ episode'.probe
          /\ episode'.gen = nextGen /\ ~episode'.terminal
      BY <2>3, EpisodeWaiters, 0 \in Nat DEF GateReopen
    <3> QED BY <1>0, <1>8, <1>9, <2>3, <3>1 DEF GateReopen, AtGate, Refused, Move, TypeOK
  <2>4. CASE GateLead(s)
    <3>1. Has(episode', episode.gen, s, episode.probe \/ episode.timer = 0, episode.timer, FALSE)
      BY <2>4, GateLeadEffect
    <3>2. episode'.waiters = IF episode.leader = NoSession THEN episode.waiters \ {s}
                              ELSE episode.waiters
      BY <2>4, EpisodeWaiters, 0 \in Nat DEF GateLead
    <3>3. /\ ~episode'.probe => pc'[s] = "sleeping"
          /\ \A t \in Sessions \ {s} : pc'[t] = pc[t]
      BY <1>0, <1>8, <1>9, <2>4, <3>1 DEF GateLead, Has, Move
    <3>4. WaitersAreApart'
      BY <1>0, <1>8, <1>9, <2>4, <3>1, <3>2, <3>3 DEF GateLead, AtGate, Refused, MayLead, Has,
        Move, TypeOK
    <3>5. WaitersHaveAnEpisode'
      BY <1>0, <1>8, <1>9, <2>4, <3>1, <3>2, <3>3 DEF GateLead, AtGate, Refused, MayLead, Has,
        Move, TypeOK
    <3>6. LeadersDoNotWait'
      BY <1>0, <1>8, <1>9, <2>4, <3>1, <3>2, <3>3 DEF GateLead, AtGate, Refused, MayLead, Has,
        Move, TypeOK
    <3>7. LeadersHaveAnEpisode'
      BY <1>0, <1>8, <1>9, <2>4, <3>1, <3>2, <3>3 DEF GateLead, AtGate, Refused, MayLead, Has,
        Move, TypeOK
    <3>8. LeadersMayAct'
      BY <1>0, <1>8, <1>9, <2>4, <3>1, <3>2, <3>3 DEF GateLead, AtGate, Refused, MayLead, Has,
        Move, TypeOK
    <3> QED BY <3>4, <3>5, <3>6, <3>7, <3>8
  <2>5. CASE GateWait(s)
    <3>1. /\ episode'.waiters = IF episode.leader = s THEN episode.waiters
                              ELSE episode.waiters \cup {s}
          /\ UNCHANGED <<episode.gen, episode.probe, episode.terminal, episode.leader>>
      BY <2>5 DEF GateWait, TypeOK, Episodes
    <3> QED BY <1>0, <1>8, <1>9, <2>5, <3>1 DEF GateWait, AtGate, MayLead, Move, TypeOK
  <2>6. CASE LeaderWakes(s)
    <3>1. \/ /\ WaitingLeader(s) /\ ~episode.terminal
             /\ Has(episode', episode.gen, s, TRUE, episode.timer, FALSE)
             /\ pc' = [pc EXCEPT ![s] = "limiter"]
          \/ UNCHANGED episode /\ pc' = [pc EXCEPT ![s] = "gate"]
      BY <2>6, LeaderWakesEffect
    <3>2. episode'.waiters = episode.waiters
      BY <2>6 DEF LeaderWakes, TypeOK, Episodes
    <3> QED BY <1>0, <1>8, <1>9, <2>6, <3>1, <3>2 DEF LeaderWakes, Has, WaitingLeader, TypeOK
  <2>7. CASE AcquireQuota(s)
    <3>1. \/ UNCHANGED episode /\ MovedTo(s, "attempt")
          \/ UNCHANGED episode /\ MovedTo(s, "slot")
          \/ Abandon(s, "gate")
      BY <2>7, Moves DEF AcquireQuota, StartAttempt, GiveUpPermit, Places
    <3>2. \/ UNCHANGED episode /\ (MovedTo(s, "attempt") \/ MovedTo(s, "slot"))
          \/ /\ MovedTo(s, "gate") /\ ~MatchingProbe(s) /\ UNCHANGED episode
          \/ /\ MovedTo(s, "gate") /\ episode'.waiters = episode.waiters
             /\ Has(episode', episode.gen, NoSession, FALSE, 0, episode.terminal)
      BY <3>1, Abandoned, AbandonedMoves, AbandonedWaiters DEF Places
    <3> QED BY <1>0, <1>8, <1>9, <2>7, <3>1, <3>2 DEF AcquireQuota, MovedTo, Moved, Has, TypeOK
  <2>8. CASE AcquireSlot(s)
    <3>1. \/ UNCHANGED episode /\ MovedTo(s, "attempt")
          \/ UNCHANGED episode /\ MovedTo(s, "slot")
          \/ Abandon(s, "gate")
      BY <2>8, Moves DEF AcquireSlot, StartAttempt, GiveUpPermit, Places
    <3>2. \/ UNCHANGED episode /\ (MovedTo(s, "attempt") \/ MovedTo(s, "slot"))
          \/ /\ MovedTo(s, "gate") /\ ~MatchingProbe(s) /\ UNCHANGED episode
          \/ /\ MovedTo(s, "gate") /\ episode'.waiters = episode.waiters
             /\ Has(episode', episode.gen, NoSession, FALSE, 0, episode.terminal)
      BY <3>1, Abandoned, AbandonedMoves, AbandonedWaiters DEF Places
    <3> QED BY <1>0, <1>8, <1>9, <2>8, <3>1, <3>2 DEF AcquireSlot, MovedTo, Moved, Has, TypeOK
  <2> QED BY <1>2, <2>1, <2>2, <2>3, <2>4, <2>5, <2>6, <2>7, <2>8 DEF Gate
<1>3. ASSUME NEW s \in Sessions, Answer(s) PROVE WaitersInv'
  <2>1. CASE AttemptSucceeds(s)
    <3>1. /\ UNCHANGED episode \/ episode' = NoEpisode
          /\ MovedTo(s, "streaming") \/ MovedTo(s, "returned")
      BY <2>1, Moves DEF AttemptSucceeds, Places, Outcomes
    <3>2. NoEpisode.waiters = {} /\ NoEpisode.leader = NoSession /\ NoEpisode.gen = 0
      BY EpisodeWaiters, 0 \in Nat
    <3> QED BY <1>0, <1>8, <1>9, <2>1, <3>1, <3>2 DEF AttemptSucceeds, MovedTo, Moved, TypeOK
  <2>2. CASE AttemptCorrected(s)
    <3>1. \/ MatchingProbe(s) /\ Has(episode', episode.gen, s, FALSE, 0, episode.terminal)
          \/ ~MatchingProbe(s) /\ UNCHANGED episode
      BY <2>2, AttemptCorrectedEffect
    <3>2. episode'.waiters = episode.waiters
      BY <2>2, EpisodeWaiters, 0 \in Nat DEF AttemptCorrected
    <3>3. MovedTo(s, "gate") \/ MovedTo(s, "reopening") \/ MovedTo(s, "closing")
      BY <2>2, Moves DEF AttemptCorrected, Places
    <3>4. WaitersAreApart'
      BY <1>0, <1>8, <1>9, <2>2, <3>1, <3>2, <3>3 DEF AttemptCorrected, MovedTo, Moved, Has,
        MatchingProbe, TypeOK
    <3>5. WaitersHaveAnEpisode'
      BY <1>0, <1>8, <1>9, <2>2, <3>1, <3>2, <3>3 DEF AttemptCorrected, MovedTo, Moved, Has,
        MatchingProbe, TypeOK
    <3>6. LeadersDoNotWait'
      BY <1>0, <1>8, <1>9, <2>2, <3>1, <3>2, <3>3 DEF AttemptCorrected, MovedTo, Moved, Has,
        MatchingProbe, TypeOK
    <3>7. LeadersHaveAnEpisode'
      BY <1>0, <1>8, <1>9, <2>2, <3>1, <3>2, <3>3 DEF AttemptCorrected, MovedTo, Moved, Has,
        MatchingProbe, TypeOK
    <3>8. LeadersMayAct'
      BY <1>0, <1>8, <1>9, <2>2, <3>1, <3>2, <3>3 DEF AttemptCorrected, MovedTo, Moved, Has,
        MatchingProbe, TypeOK
    <3> QED BY <3>4, <3>5, <3>6, <3>7, <3>8
  <2>3. CASE AttemptRejected(s)
    <3>1. /\ UNCHANGED episode \/ episode' = NoEpisode
          /\ MovedTo(s, "failed") \/ MovedTo(s, "closing")
      BY <2>3, Moves DEF AttemptRejected, Places, Outcomes
    <3>2. NoEpisode.waiters = {} /\ NoEpisode.leader = NoSession /\ NoEpisode.gen = 0
      BY EpisodeWaiters, 0 \in Nat
    <3> QED BY <1>0, <1>8, <1>9, <2>3, <3>1, <3>2 DEF AttemptRejected, MovedTo, Moved, TypeOK
  <2>4. ASSUME NEW d \in Delays, AttemptFails(s, d) PROVE WaitersInv'
    <3>1. \/ /\ ~EpisodeOpen /\ nextGen' = nextGen + 1
             /\ Has(episode', nextGen, s, FALSE, d, FALSE)
          \/ /\ MatchingProbe(s) /\ nextGen' = nextGen
             /\ Has(episode', episode.gen, s, FALSE, d, episode.terminal)
          \/ /\ ~MatchingProbe(s) /\ nextGen' = nextGen
             /\ Has(episode', episode.gen, episode.leader, episode.probe, episode.timer,
                    episode.terminal)
      BY <2>4, AttemptFailsEffect
    <3>2. \/ ~EpisodeOpen /\ episode'.waiters = {} /\ doomed' = doomed
          \/ MatchingProbe(s) /\ episode'.waiters = episode.waiters /\ doomed' = doomed
          \/ /\ EpisodeOpen /\ ~MatchingProbe(s) /\ episode.terminal
             /\ episode' = episode /\ doomed' = doomed \cup {s}
          \/ /\ EpisodeOpen /\ ~MatchingProbe(s) /\ ~episode.terminal
             /\ episode'.waiters = episode.waiters \cup {s} /\ doomed' = doomed
      BY <2>4, AttemptFailsWaiters
    <3>3. MovedTo(s, "gate") \/ MovedTo(s, "reopening") \/ MovedTo(s, "closing")
      BY <2>4, Moves DEF AttemptFails, Places
    <3>4. WaitersAreApart'
      BY <1>0, <1>8, <1>9, <2>4, <3>1, <3>2, <3>3 DEF AttemptFails, MovedTo, Moved, Has,
        MatchingProbe, TypeOK
    <3>5. WaitersHaveAnEpisode'
      BY <1>0, <1>8, <1>9, <2>4, <3>1, <3>2, <3>3 DEF AttemptFails, MovedTo, Moved, Has,
        MatchingProbe, TypeOK
    <3>6. LeadersDoNotWait'
      BY <1>0, <1>8, <1>9, <2>4, <3>1, <3>2, <3>3 DEF AttemptFails, MovedTo, Moved, Has,
        MatchingProbe, TypeOK
    <3>7. LeadersHaveAnEpisode'
      BY <1>0, <1>8, <1>9, <2>4, <3>1, <3>2, <3>3 DEF AttemptFails, MovedTo, Moved, Has,
        MatchingProbe, TypeOK
    <3>8. LeadersMayAct'
      BY <1>0, <1>8, <1>9, <2>4, <3>1, <3>2, <3>3 DEF AttemptFails, MovedTo, Moved, Has,
        MatchingProbe, TypeOK
    <3> QED BY <3>4, <3>5, <3>6, <3>7, <3>8
  <2>5. ASSUME NEW d \in Delays, AttemptExhausts(s, d) PROVE WaitersInv'
    <3>1. \/ /\ ~EpisodeOpen \/ MatchingProbe(s)
             /\ episode'.waiters = {} /\ doomed' = doomed \cup episode.waiters
             /\ episode'.leader = NoSession /\ ~episode'.probe /\ episode'.terminal
          \/ EpisodeOpen /\ ~MatchingProbe(s) /\ UNCHANGED <<episode, doomed>>
      BY <2>5, AttemptExhaustsWaiters
    <3>2. MovedTo(s, "failed") \/ MovedTo(s, "closing")
      BY <2>5, Moves DEF AttemptExhausts, Places, Outcomes
    <3> QED BY <1>0, <1>8, <1>9, <2>5, <3>1, <3>2 DEF AttemptExhausts, MovedTo, Moved,
        MatchingProbe, TypeOK
  <2>6. CASE StreamEnds(s)
    BY <1>0, <1>8, <1>9, <2>6 DEF StreamEnds, ToClosing, Move, TypeOK
  <2>7. CASE StreamBreaks(s)
    BY <1>0, <1>8, <1>9, <2>7 DEF StreamBreaks, ToClosing, Entrance, Move, TypeOK
  <2>8. CASE StreamContinues(s)
    BY <1>0, <1>8, <1>9, <2>8 DEF StreamContinues, Move, TypeOK
  <2> QED BY <1>3, <2>1, <2>2, <2>3, <2>4, <2>5, <2>6, <2>7, <2>8 DEF Answer
<1>4. ASSUME NEW s \in Sessions, Close(s) PROVE WaitersInv'
  <2>1. CASE CloseFinished(s)
    BY <1>0, <1>8, <1>9, <2>1 DEF CloseFinished, Move, TypeOK
  <2>2. CASE CloseUnresolved(s)
    <3>1. \/ MatchingProbe(s) /\ Has(episode', episode.gen, NoSession, FALSE, 0, episode.terminal)
          \/ ~MatchingProbe(s) /\ UNCHANGED episode
      BY <2>2, CloseUnresolvedEffect
    <3>2. episode'.waiters = episode.waiters /\ MovedTo(s, "releasing")
      BY <2>2, AbandonedMoves, AbandonedWaiters DEF CloseUnresolved, Exit, Places, Outcomes
    <3> QED BY <1>0, <1>8, <1>9, <2>2, <3>1, <3>2 DEF CloseUnresolved, MovedTo, Moved, Has, TypeOK
  <2>3. CASE AbandonFinished(s)
    BY <1>0, <1>8, <1>9, <2>3 DEF AbandonFinished, Exit, ExitLocals, Move, TypeOK
  <2>4. CASE Reopen(s)
    BY <1>0, <1>8, <1>9, <2>4 DEF Reopen, Move, TypeOK
  <2> QED BY <1>4, <2>1, <2>2, <2>3, <2>4 DEF Close
<1>5. ASSUME NEW s \in Sessions, Cancel(s) PROVE WaitersInv'
  <2>1. CASE CancelWaiting(s)
    <3>1. /\ episode'.waiters = episode.waiters \ {s}
          /\ UNCHANGED <<episode.gen, episode.probe, episode.terminal, episode.leader>>
      BY <2>1 DEF CancelWaiting, TypeOK, Episodes
    <3> QED BY <1>0, <1>8, <1>9, <2>1, <3>1 DEF CancelWaiting, Exit, ExitLocals, Move, TypeOK
  <2>2. CASE CancelSleeping(s)
    <3>1. \/ /\ WaitingLeader(s)
             /\ Has(episode', episode.gen, NoSession, FALSE, episode.timer, episode.terminal)
          \/ ~WaitingLeader(s) /\ UNCHANGED episode
      BY <2>2, CancelSleepingEffect
    <3>2. episode'.waiters = episode.waiters /\ MovedTo(s, Exit(s, "cancelled"))
      BY <2>2, Moves DEF CancelSleeping, Exit, TypeOK, Episodes, Places, Outcomes
    <3> QED BY <1>0, <1>8, <1>9, <2>2, <3>1, <3>2 DEF CancelSleeping, Exit, MovedTo, Moved,
        Has, WaitingLeader, TypeOK
  <2>3. CASE CancelAdmission(s)
    <3>1. \/ MatchingProbe(s) /\ Has(episode', episode.gen, NoSession, FALSE, 0, episode.terminal)
          \/ ~MatchingProbe(s) /\ UNCHANGED episode
      BY <2>3, CancelAdmissionEffect
    <3>2. episode'.waiters = episode.waiters /\ MovedTo(s, Exit(s, "cancelled"))
      BY <2>3, AbandonedMoves, AbandonedWaiters DEF CancelAdmission, Exit, Places, Outcomes
    <3> QED BY <1>0, <1>8, <1>9, <2>3, <3>1, <3>2 DEF CancelAdmission, Exit, MovedTo, Moved,
        Has, TypeOK
  <2>4. CASE CancelAttempt(s)
    <3>1. \/ MatchingProbe(s) /\ Has(episode', episode.gen, NoSession, FALSE, 0, episode.terminal)
          \/ ~MatchingProbe(s) /\ UNCHANGED episode
      BY <2>4, CancelAttemptEffect
    <3>2. episode'.waiters = episode.waiters /\ MovedTo(s, "releasing")
      BY <2>4, AbandonedMoves, AbandonedWaiters DEF CancelAttempt, Exit, Places, Outcomes
    <3> QED BY <1>0, <1>8, <1>9, <2>4, <3>1, <3>2 DEF CancelAttempt, MovedTo, Moved, Has, TypeOK
  <2>5. CASE CancelStream(s)
    BY <1>0, <1>8, <1>9, <2>5 DEF CancelStream, ToClosing, Move, TypeOK
  <2>6. CASE CancelClosing(s)
    BY <1>0, <1>8, <1>9, <2>6 DEF CancelClosing, Exit, ExitLocals, Move, TypeOK
  <2>7. CASE CancelReopening(s)
    BY <1>0, <1>8, <1>9, <2>7 DEF CancelReopening, ExitLocals, Move, TypeOK
  <2> QED BY <1>5, <2>1, <2>2, <2>3, <2>4, <2>5, <2>6, <2>7 DEF Cancel
<1>6. CASE Tick
  <2>1. UNCHANGED <<episode.gen, episode.probe, episode.terminal, episode.leader, episode.waiters>>
    BY <1>6 DEF Tick, TypeOK, Episodes
  <2> QED BY <1>0, <1>8, <1>9, <1>6, <2>1 DEF Tick
<1>7. CASE UNCHANGED vars
  BY <1>7 DEF vars
<1> QED BY <1>1, <1>2, <1>3, <1>4, <1>5, <1>6, <1>7 DEF Next, Finished

\* A session that was failed stays failed: nothing is ever taken from the set.
LEMMA DoomedForGood ==
  ASSUME [Next]_vars
  PROVE  doomed \subseteq doomed'
<1> USE DEF gate
<1>1. ASSUME NEW s \in Sessions, Call(s) \/ Gate(s) PROVE UNCHANGED doomed
  BY <1>1 DEF Call, Gate, GateRefuse, GatePass, GateReopen, GateLead, GateWait, LeaderWakes,
    AcquireQuota, AcquireSlot
<1>2. ASSUME NEW s \in Sessions, Answer(s) PROVE doomed \subseteq doomed'
  BY <1>2 DEF Answer, AttemptSucceeds, AttemptCorrected, AttemptRejected, AttemptFails,
    AttemptExhausts, StreamEnds, StreamBreaks, StreamContinues, ToClosing
<1>3. ASSUME NEW s \in Sessions, Close(s) PROVE UNCHANGED doomed
  BY <1>3 DEF Close, CloseFinished, CloseUnresolved, AbandonFinished, Reopen
<1>4. ASSUME NEW s \in Sessions, Cancel(s) PROVE UNCHANGED doomed
  BY <1>4 DEF Cancel, CancelWaiting, CancelSleeping, CancelAdmission, CancelAttempt,
    CancelStream, ToClosing, CancelClosing, CancelReopening
<1>5. ASSUME Tick \/ UNCHANGED vars PROVE UNCHANGED doomed
  BY <1>5 DEF Tick, vars
<1> QED BY <1>1, <1>2, <1>3, <1>4, <1>5 DEF Next, Finished

\* The invariants that need no condition on the steps.
LEMMA WaitersHold == Spec => [](TypeOK /\ RecoveryInv /\ WaitersInv)
<1>1. Init => WaitersInv
  BY DEF Init, NoEpisode, WaitersInv, WaitersAreApart, WaitersHaveAnEpisode, LeadersDoNotWait,
    LeadersHaveAnEpisode, LeadersMayAct, EpisodeOpen
<1> QED BY <1>1, RecoveryHolds, WaitersKept, PTL DEF Spec

\* The outcome of an exhausted recovery sticks: _fail_recovery reaches everybody
\* who waited, wherever they stand when they are told, and whatever episode is
\* open by then none of them starts an attempt.
THEOREM DoomedStaysOut == Spec => DoomedStayOut
<1> DEFINE A == \A s \in doomed : attempts'[s] = attempts[s] /\ s \in doomed'
<1>1. TypeOK /\ WaitersInv /\ [Next]_vars => [A]_vars
  <2> SUFFICES ASSUME TypeOK, WaitersInv, [Next]_vars, NEW t \in doomed
               PROVE  attempts'[t] = attempts[t] /\ t \in doomed'
    OBVIOUS
  <2>1. t \in Sessions /\ pc[t] \notin {"limiter", "slot"}
    BY DEF TypeOK, WaitersInv, WaitersAreApart, Apart, Outcomes
  <2>2. attempts'[t] = attempts[t]
    <3>1. CASE attempts' = attempts
      BY <3>1
    <3>2. CASE attempts' # attempts
      <4>1. PICK s \in Sessions : /\ pc[s] \in {"limiter", "slot"}
                                  /\ attempts' = [attempts EXCEPT ![s] = @ + 1]
        BY <3>2, Started
      <4> QED BY <2>1, <4>1 DEF TypeOK
    <3> QED BY <3>1, <3>2
  <2>3. doomed \subseteq doomed'
    BY DoomedForGood
  <2> QED BY <2>2, <2>3
<1> QED BY <1>1, WaitersHold, PTL DEF DoomedStayOut, Spec


-----------------------------------------------------------------------------
(* Who leads an episode can act on it, unless it is cut off.                *)

\* The ways a leader, or a slot, is left behind: a cancellation arrives while a
\* stream is being closed, the account has no access token for the next attempt,
\* or the leader is refused for the credential another execution had rejected.
CutOff(s) ==
  \/ CancelClosing(s)
  \/ pc[s] = "reopening" /\ pc'[s] \in Outcomes
  \/ GateRefuse(s) /\ episode.leader = s /\ latch > 0

TerminalHasNoLeader == episode.terminal => episode.leader = NoSession
LeadersAreNotDoomed == episode.leader \notin doomed

\* What a leader whose probe is not out may be doing, the execution's place in
\* the loop of its caller: back at the gate, on its way there, or asleep.
Leading(s) ==
  \/ pc[s] \in {"gate", "reopening"}
  \/ pc[s] = "sleeping" /\ ticket[s] = episode.gen
  \/ pc[s] = "closing" /\ after[s] \in {"gate", "reopening"}

LeadersAct == episode.leader # NoSession /\ ~episode.probe => Leading(episode.leader)

\* What an execution keeps to itself is not touched by another.
LocalsKept(s) ==
  \A t \in Sessions \ {s} : after'[t] = after[t] /\ ticket'[t] = ticket[t]

LeadersInv == TerminalHasNoLeader /\ LeadersAreNotDoomed /\ LeadersAct

\* A leader stays one that can act, unless a step cuts it off.
LEMMA LeadersKept ==
  TypeOK /\ RecoveryInv /\ WaitersInv /\ LeadersInv /\ (\A s \in Sessions : ~CutOff(s)) /\ [Next]_vars
    => LeadersInv'
<1> SUFFICES ASSUME TypeOK, RecoveryInv, WaitersInv, LeadersInv, (\A s \in Sessions : ~CutOff(s)),
                    [Next]_vars
             PROVE  LeadersInv'
  OBVIOUS
<1> USE DEF LeadersInv, TerminalHasNoLeader, LeadersAreNotDoomed, LeadersAct, Leading, WaitersInv,
    WaitersAreApart, LeadersHaveAnEpisode, Apart, ProbePlaces, EpisodeOpen, Outcomes, gate, bulkhead, local
<1>0. /\ episode.gen \in Nat /\ episode.leader \in Sessions \cup {NoSession}
      /\ episode.probe \in BOOLEAN /\ episode.terminal \in BOOLEAN
      /\ episode.waiters \subseteq Sessions /\ doomed \subseteq Sessions
      /\ NoSession \notin Sessions /\ nextGen # 0
      /\ pc \in [Sessions -> Places]
  BY AdmissionAssumption DEF TypeOK, Episodes
<1>8. \A t \in Sessions : MatchingProbe(t) => pc[t] \in ProbePlaces \/ pc[t] = "sleeping"
  BY DEF RecoveryInv, Claimed, MatchingProbe
<1>9. episode.probe => /\ EpisodeOpen /\ ~episode.terminal /\ episode.leader \in Sessions
                       /\ pc[episode.leader] \in ProbePlaces
                       /\ MatchingProbe(episode.leader)
  BY ProbeOut DEF RecoveryInv, ProbeIsHeld, SingleProbe, Probing, MatchingProbe, EpisodeOpen
<1>1. ASSUME NEW s \in Sessions, Call(s) PROVE LeadersInv'
  BY <1>0, <1>8, <1>9, <1>1 DEF Call, Entrance, Move, TypeOK
<1>2. ASSUME NEW s \in Sessions, Gate(s) PROVE LeadersInv'
  <2>1. CASE GateRefuse(s)
    BY <1>0, <1>8, <1>9, <2>1 DEF GateRefuse, AtGate, Exit, ExitLocals, Move, CutOff, Refused,
      TypeOK
  <2>2. CASE GatePass(s)
    BY <1>0, <1>8, <1>9, <2>2 DEF GatePass, AtGate, Refused, Move, TypeOK
  <2>3. CASE GateReopen(s)
    <3>1. /\ episode'.waiters = {} /\ episode'.leader = s /\ episode'.probe
          /\ episode'.gen = nextGen /\ ~episode'.terminal
      BY <2>3, EpisodeWaiters, 0 \in Nat DEF GateReopen
    <3> QED BY <1>0, <1>8, <1>9, <2>3, <3>1 DEF GateReopen, AtGate, Refused, Move, TypeOK
  <2>4. CASE GateLead(s)
    <3>1. Has(episode', episode.gen, s, episode.probe \/ episode.timer = 0, episode.timer, FALSE)
      BY <2>4, GateLeadEffect
    <3>2. episode'.waiters = IF episode.leader = NoSession THEN episode.waiters \ {s}
                              ELSE episode.waiters
      BY <2>4, EpisodeWaiters, 0 \in Nat DEF GateLead
    <3>3. /\ ~episode'.probe => pc'[s] = "sleeping"
          /\ \A t \in Sessions \ {s} : pc'[t] = pc[t]
      BY <1>0, <1>8, <1>9, <2>4, <3>1 DEF GateLead, Has, Move
    <3> QED BY <1>0, <1>8, <1>9, <2>4, <3>1, <3>2, <3>3 DEF GateLead, AtGate, Refused, MayLead,
        Has, Move, TypeOK
  <2>5. CASE GateWait(s)
    <3>1. /\ episode'.waiters = IF episode.leader = s THEN episode.waiters
                              ELSE episode.waiters \cup {s}
          /\ UNCHANGED <<episode.gen, episode.probe, episode.terminal, episode.leader>>
      BY <2>5 DEF GateWait, TypeOK, Episodes
    <3> QED BY <1>0, <1>8, <1>9, <2>5, <3>1 DEF GateWait, AtGate, MayLead, Move, TypeOK
  <2>6. CASE LeaderWakes(s)
    <3>1. \/ /\ WaitingLeader(s) /\ ~episode.terminal
             /\ Has(episode', episode.gen, s, TRUE, episode.timer, FALSE)
             /\ pc' = [pc EXCEPT ![s] = "limiter"]
          \/ UNCHANGED episode /\ pc' = [pc EXCEPT ![s] = "gate"]
      BY <2>6, LeaderWakesEffect
    <3>2. episode'.waiters = episode.waiters
      BY <2>6 DEF LeaderWakes, TypeOK, Episodes
    <3> QED BY <1>0, <1>8, <1>9, <2>6, <3>1, <3>2 DEF LeaderWakes, Has, WaitingLeader, TypeOK
  <2>7. CASE AcquireQuota(s)
    <3>1. \/ UNCHANGED episode /\ MovedTo(s, "attempt")
          \/ UNCHANGED episode /\ MovedTo(s, "slot")
          \/ Abandon(s, "gate")
      BY <2>7, Moves DEF AcquireQuota, StartAttempt, GiveUpPermit, Places
    <3>2. \/ UNCHANGED episode /\ (MovedTo(s, "attempt") \/ MovedTo(s, "slot"))
          \/ /\ MovedTo(s, "gate") /\ ~MatchingProbe(s) /\ UNCHANGED episode
          \/ /\ MovedTo(s, "gate") /\ episode'.waiters = episode.waiters
             /\ Has(episode', episode.gen, NoSession, FALSE, 0, episode.terminal)
      BY <3>1, Abandoned, AbandonedMoves, AbandonedWaiters DEF Places
    <3>3. LocalsKept(s)
      BY <2>7 DEF LocalsKept, AcquireQuota, StartAttempt, GiveUpPermit, TypeOK
    <3> QED BY <1>0, <1>8, <1>9, <2>7, <3>1, <3>2, <3>3 DEF AcquireQuota, MovedTo, Moved, Has,
        LocalsKept, TypeOK
  <2>8. CASE AcquireSlot(s)
    <3>1. \/ UNCHANGED episode /\ MovedTo(s, "attempt")
          \/ UNCHANGED episode /\ MovedTo(s, "slot")
          \/ Abandon(s, "gate")
      BY <2>8, Moves DEF AcquireSlot, StartAttempt, GiveUpPermit, Places
    <3>2. \/ UNCHANGED episode /\ (MovedTo(s, "attempt") \/ MovedTo(s, "slot"))
          \/ /\ MovedTo(s, "gate") /\ ~MatchingProbe(s) /\ UNCHANGED episode
          \/ /\ MovedTo(s, "gate") /\ episode'.waiters = episode.waiters
             /\ Has(episode', episode.gen, NoSession, FALSE, 0, episode.terminal)
      BY <3>1, Abandoned, AbandonedMoves, AbandonedWaiters DEF Places
    <3>3. LocalsKept(s)
      BY <2>8 DEF LocalsKept, AcquireSlot, StartAttempt, GiveUpPermit, TypeOK
    <3> QED BY <1>0, <1>8, <1>9, <2>8, <3>1, <3>2, <3>3 DEF AcquireSlot, MovedTo, Moved, Has,
        LocalsKept, TypeOK
  <2> QED BY <1>2, <2>1, <2>2, <2>3, <2>4, <2>5, <2>6, <2>7, <2>8 DEF Gate
<1>3. ASSUME NEW s \in Sessions, Answer(s) PROVE LeadersInv'
  <2>1. CASE AttemptSucceeds(s)
    <3>1. /\ UNCHANGED episode \/ episode' = NoEpisode
          /\ MovedTo(s, "streaming") \/ MovedTo(s, "returned")
      BY <2>1, Moves DEF AttemptSucceeds, Places, Outcomes
    <3>2. NoEpisode.waiters = {} /\ NoEpisode.leader = NoSession /\ NoEpisode.gen = 0
      BY EpisodeWaiters, 0 \in Nat
    <3> QED BY <1>0, <1>8, <1>9, <2>1, <3>1, <3>2 DEF AttemptSucceeds, MovedTo, Moved, TypeOK
  <2>2. CASE AttemptCorrected(s)
    <3>1. \/ MatchingProbe(s) /\ Has(episode', episode.gen, s, FALSE, 0, episode.terminal)
          \/ ~MatchingProbe(s) /\ UNCHANGED episode
      BY <2>2, AttemptCorrectedEffect
    <3>2. episode'.waiters = episode.waiters
      BY <2>2, EpisodeWaiters, 0 \in Nat DEF AttemptCorrected
    <3>3. MovedTo(s, "gate") \/ MovedTo(s, "reopening") \/ MovedTo(s, "closing")
      BY <2>2, Moves DEF AttemptCorrected, Places
    <3>4. \/ /\ MovedTo(s, "closing") /\ after'[s] \in {"gate", "reopening"}
          \/ MovedTo(s, "gate") \/ MovedTo(s, "reopening")
      BY <2>2, <3>3, ResolvedPlace DEF AttemptCorrected, Entrance, MovedTo, TypeOK
    <3>5. LocalsKept(s)
      BY <2>2 DEF LocalsKept, AttemptCorrected, Resolve, TypeOK
    <3> QED BY <1>0, <1>8, <1>9, <2>2, <3>1, <3>2, <3>3, <3>4, <3>5 DEF AttemptCorrected,
        MovedTo, Moved, Has, MatchingProbe, LocalsKept, TypeOK
  <2>3. CASE AttemptRejected(s)
    <3>1. /\ UNCHANGED episode \/ episode' = NoEpisode
          /\ MovedTo(s, "failed") \/ MovedTo(s, "closing")
      BY <2>3, Moves DEF AttemptRejected, Places, Outcomes
    <3>2. NoEpisode.waiters = {} /\ NoEpisode.leader = NoSession /\ NoEpisode.gen = 0
      BY EpisodeWaiters, 0 \in Nat
    <3>3. LocalsKept(s)
      BY <2>3 DEF LocalsKept, AttemptRejected, Resolve, TypeOK
    <3> QED BY <1>0, <1>8, <1>9, <2>3, <3>1, <3>2, <3>3 DEF AttemptRejected, MovedTo, Moved,
        LocalsKept, TypeOK
  <2>4. ASSUME NEW d \in Delays, AttemptFails(s, d) PROVE LeadersInv'
    <3>1. \/ /\ ~EpisodeOpen /\ nextGen' = nextGen + 1
             /\ Has(episode', nextGen, s, FALSE, d, FALSE)
          \/ /\ MatchingProbe(s) /\ nextGen' = nextGen
             /\ Has(episode', episode.gen, s, FALSE, d, episode.terminal)
          \/ /\ ~MatchingProbe(s) /\ nextGen' = nextGen
             /\ Has(episode', episode.gen, episode.leader, episode.probe, episode.timer,
                    episode.terminal)
      BY <2>4, AttemptFailsEffect
    <3>2. \/ ~EpisodeOpen /\ episode'.waiters = {} /\ doomed' = doomed
          \/ MatchingProbe(s) /\ episode'.waiters = episode.waiters /\ doomed' = doomed
          \/ /\ EpisodeOpen /\ ~MatchingProbe(s) /\ episode.terminal
             /\ episode' = episode /\ doomed' = doomed \cup {s}
          \/ /\ EpisodeOpen /\ ~MatchingProbe(s) /\ ~episode.terminal
             /\ episode'.waiters = episode.waiters \cup {s} /\ doomed' = doomed
      BY <2>4, AttemptFailsWaiters
    <3>3. MovedTo(s, "gate") \/ MovedTo(s, "reopening") \/ MovedTo(s, "closing")
      BY <2>4, Moves DEF AttemptFails, Places
    <3>4. /\ MovedTo(s, "closing") => after'[s] \in {"gate", "reopening"}
          /\ \A t \in Sessions \ {s} : after'[t] = after[t] /\ ticket'[t] = ticket[t]
      BY <2>4 DEF AttemptFails, Resolve, Entrance, TypeOK
    <3> QED BY <1>0, <1>8, <1>9, <2>4, <3>1, <3>2, <3>3, <3>4 DEF AttemptFails, MovedTo, Moved,
        Has, MatchingProbe, TypeOK
  <2>5. ASSUME NEW d \in Delays, AttemptExhausts(s, d) PROVE LeadersInv'
    <3>1. \/ /\ ~EpisodeOpen \/ MatchingProbe(s)
             /\ episode'.waiters = {} /\ doomed' = doomed \cup episode.waiters
             /\ episode'.leader = NoSession /\ ~episode'.probe /\ episode'.terminal
          \/ EpisodeOpen /\ ~MatchingProbe(s) /\ UNCHANGED <<episode, doomed>>
      BY <2>5, AttemptExhaustsWaiters
    <3>2. MovedTo(s, "failed") \/ MovedTo(s, "closing")
      BY <2>5, Moves DEF AttemptExhausts, Places, Outcomes
    <3>3. LocalsKept(s)
      BY <2>5 DEF LocalsKept, AttemptExhausts, Resolve, TypeOK
    <3> QED BY <1>0, <1>8, <1>9, <2>5, <3>1, <3>2, <3>3 DEF AttemptExhausts, MovedTo, Moved,
        MatchingProbe, LocalsKept, TypeOK
  <2>6. CASE StreamEnds(s)
    BY <1>0, <1>8, <1>9, <2>6 DEF StreamEnds, ToClosing, Move, TypeOK
  <2>7. CASE StreamBreaks(s)
    BY <1>0, <1>8, <1>9, <2>7 DEF StreamBreaks, ToClosing, Entrance, Move, TypeOK
  <2>8. CASE StreamContinues(s)
    BY <1>0, <1>8, <1>9, <2>8 DEF StreamContinues, Move, TypeOK
  <2> QED BY <1>3, <2>1, <2>2, <2>3, <2>4, <2>5, <2>6, <2>7, <2>8 DEF Answer
<1>4. ASSUME NEW s \in Sessions, Close(s) PROVE LeadersInv'
  <2>1. CASE CloseFinished(s)
    BY <1>0, <1>8, <1>9, <2>1 DEF CloseFinished, Move, TypeOK
  <2>2. CASE CloseUnresolved(s)
    <3>1. \/ MatchingProbe(s) /\ Has(episode', episode.gen, NoSession, FALSE, 0, episode.terminal)
          \/ ~MatchingProbe(s) /\ UNCHANGED episode
      BY <2>2, CloseUnresolvedEffect
    <3>2. episode'.waiters = episode.waiters /\ MovedTo(s, "releasing")
      BY <2>2, AbandonedMoves, AbandonedWaiters DEF CloseUnresolved, Exit, Places, Outcomes
    <3>3. LocalsKept(s)
      BY <2>2 DEF LocalsKept, CloseUnresolved, TypeOK
    <3> QED BY <1>0, <1>8, <1>9, <2>2, <3>1, <3>2, <3>3 DEF CloseUnresolved, MovedTo, Moved,
        Has, LocalsKept, Unresolved, RecoveryInv, TypeOK
  <2>3. CASE AbandonFinished(s)
    BY <1>0, <1>8, <1>9, <2>3 DEF AbandonFinished, Exit, ExitLocals, Move, TypeOK
  <2>4. CASE Reopen(s)
    BY <1>0, <1>8, <1>9, <2>4 DEF Reopen, Move, CutOff, TypeOK
  <2> QED BY <1>4, <2>1, <2>2, <2>3, <2>4 DEF Close
<1>5. ASSUME NEW s \in Sessions, Cancel(s) PROVE LeadersInv'
  <2>1. CASE CancelWaiting(s)
    <3>1. /\ episode'.waiters = episode.waiters \ {s}
          /\ UNCHANGED <<episode.gen, episode.probe, episode.terminal, episode.leader>>
      BY <2>1 DEF CancelWaiting, TypeOK, Episodes
    <3> QED BY <1>0, <1>8, <1>9, <2>1, <3>1 DEF CancelWaiting, Exit, ExitLocals, Move, TypeOK
  <2>2. CASE CancelSleeping(s)
    <3>1. \/ /\ WaitingLeader(s)
             /\ Has(episode', episode.gen, NoSession, FALSE, episode.timer, episode.terminal)
          \/ ~WaitingLeader(s) /\ UNCHANGED episode
      BY <2>2, CancelSleepingEffect
    <3>2. episode'.waiters = episode.waiters /\ MovedTo(s, Exit(s, "cancelled"))
      BY <2>2, Moves DEF CancelSleeping, Exit, TypeOK, Episodes, Places, Outcomes
    <3>3. LocalsKept(s)
      BY <2>2 DEF LocalsKept, CancelSleeping, ExitLocals, TypeOK
    <3> QED BY <1>0, <1>8, <1>9, <2>2, <3>1, <3>2, <3>3 DEF CancelSleeping, Exit, MovedTo,
        Moved, Has, WaitingLeader, LocalsKept, TypeOK
  <2>3. CASE CancelAdmission(s)
    <3>1. \/ MatchingProbe(s) /\ Has(episode', episode.gen, NoSession, FALSE, 0, episode.terminal)
          \/ ~MatchingProbe(s) /\ UNCHANGED episode
      BY <2>3, CancelAdmissionEffect
    <3>2. episode'.waiters = episode.waiters /\ MovedTo(s, Exit(s, "cancelled"))
      BY <2>3, AbandonedMoves, AbandonedWaiters DEF CancelAdmission, Exit, Places, Outcomes
    <3>3. LocalsKept(s)
      BY <2>3 DEF LocalsKept, CancelAdmission, ExitLocals, TypeOK
    <3> QED BY <1>0, <1>8, <1>9, <2>3, <3>1, <3>2, <3>3 DEF CancelAdmission, Exit, MovedTo,
        Moved, Has, LocalsKept, TypeOK
  <2>4. CASE CancelAttempt(s)
    <3>1. \/ MatchingProbe(s) /\ Has(episode', episode.gen, NoSession, FALSE, 0, episode.terminal)
          \/ ~MatchingProbe(s) /\ UNCHANGED episode
      BY <2>4, CancelAttemptEffect
    <3>2. episode'.waiters = episode.waiters /\ MovedTo(s, "releasing")
      BY <2>4, AbandonedMoves, AbandonedWaiters DEF CancelAttempt, Exit, Places, Outcomes
    <3> QED BY <1>0, <1>8, <1>9, <2>4, <3>1, <3>2 DEF CancelAttempt, MovedTo, Moved, Has, TypeOK
  <2>5. CASE CancelStream(s)
    BY <1>0, <1>8, <1>9, <2>5 DEF CancelStream, ToClosing, Move, TypeOK
  <2>6. CASE CancelClosing(s)
    BY <1>0, <1>8, <1>9, <2>6 DEF CancelClosing, Exit, ExitLocals, Move, CutOff, TypeOK
  <2>7. CASE CancelReopening(s)
    BY <1>0, <1>8, <1>9, <2>7 DEF CancelReopening, ExitLocals, Move, CutOff, TypeOK
  <2> QED BY <1>5, <2>1, <2>2, <2>3, <2>4, <2>5, <2>6, <2>7 DEF Cancel
<1>6. CASE Tick
  <2>1. UNCHANGED <<episode.gen, episode.probe, episode.terminal, episode.leader, episode.waiters>>
    BY <1>6 DEF Tick, TypeOK, Episodes
  <2> QED BY <1>0, <1>8, <1>9, <1>6, <2>1 DEF Tick
<1>7. CASE UNCHANGED vars
  BY <1>7 DEF vars
<1> QED BY <1>1, <1>2, <1>3, <1>4, <1>5, <1>6, <1>7 DEF Next, Finished

-----------------------------------------------------------------------------
(* Slots.  An execution has those of its open attempts and no other, unless *)
(* a close is cut off; and the bulkhead has the rest.                       *)

SlotsExact == \A s \in Sessions : slots[s] = Owed(s)

\* A stream is continued only inside a chat call that has not come to its end.
Continuing ==
  \A s \in Sessions : nested[s] =>
    Kind[s] = "chat" /\ pc[s] \notin Outcomes \cup {"idle", "reopening"}

\* Only a codex call awaits a token between its attempts.
Reopening == \A s \in Sessions : after[s] = "reopening" => Kind[s] = "codex"

SlotsInv == SlotsExact /\ Continuing /\ Reopening

\* Each attempt is opened with one slot and closed with it, also a nested one.
LEMMA SlotsKept ==
  TypeOK /\ SlotsInv /\ (\A s \in Sessions : ~CutOff(s)) /\ [Next]_vars
    => SlotsInv'
<1> SUFFICES ASSUME TypeOK, SlotsInv, (\A s \in Sessions : ~CutOff(s)), [Next]_vars PROVE SlotsInv'
  OBVIOUS
<1> USE DEF SlotsInv, SlotsExact, Continuing, Reopening, Owed, Holding, Outcomes, gate,
    bulkhead, local,
    Move, Notify
<1>0. /\ slots \in [Sessions -> Nat] /\ pc \in [Sessions -> Places]
      /\ nested \in [Sessions -> BOOLEAN]
      /\ after \in [Sessions -> {"gate", "reopening"} \cup Outcomes]
      /\ attempts \in [Sessions -> Nat]
  BY DEF TypeOK
<1>1. ASSUME NEW s \in Sessions, Call(s) PROVE SlotsInv'
  BY <1>0, <1>1 DEF Call, Entrance, Move
<1>2. ASSUME NEW s \in Sessions, Gate(s) PROVE SlotsInv'
  <2>1. CASE GateRefuse(s)
    BY <1>0, <2>1 DEF GateRefuse, AtGate, Exit, ExitLocals
  <2>2. CASE GatePass(s)
    BY <1>0, <2>2 DEF GatePass, AtGate
  <2>3. CASE GateReopen(s)
    BY <1>0, <2>3 DEF GateReopen, AtGate
  <2>4. CASE GateLead(s)
    BY <1>0, <2>4 DEF GateLead, AtGate
  <2>5. CASE GateWait(s)
    BY <1>0, <2>5 DEF GateWait, AtGate
  <2>6. CASE LeaderWakes(s)
    BY <1>0, <2>6 DEF LeaderWakes
  <2>7. CASE AcquireQuota(s)
    BY <1>0, <2>7 DEF AcquireQuota, StartAttempt, GiveUpPermit, Abandon
  <2>8. CASE AcquireSlot(s)
    BY <1>0, <2>8 DEF AcquireSlot, StartAttempt, GiveUpPermit, Abandon
  <2> QED BY <1>2, <2>1, <2>2, <2>3, <2>4, <2>5, <2>6, <2>7, <2>8 DEF Gate
<1>3. ASSUME NEW s \in Sessions, Answer(s) PROVE SlotsInv'
  <2>1. CASE AttemptSucceeds(s)
    BY <1>0, <2>1 DEF AttemptSucceeds, Release, Streaming
  <2>2. CASE AttemptCorrected(s)
    BY <1>0, <2>2 DEF AttemptCorrected, Resolve, Release, Exit, Entrance, Streaming
  <2>3. CASE AttemptRejected(s)
    <3>1. PICK place \in Places :
             Resolve(s, "failed", place) /\ (Move(s, place) \/ Notify(s, place))
      BY <2>3 DEF AttemptRejected, Places
    <3>2. pc[s] = "attempt" /\ MovedTo(s, place)
      BY <2>3, <3>1, Moves DEF AttemptRejected
    <3>3. /\ \A t \in Sessions \ {s} : /\ slots'[t] = slots[t] /\ nested'[t] = nested[t]
                                      /\ after'[t] = after[t]
          /\ after'[s] = "failed"
      BY <1>0, <3>1 DEF Resolve, Release
    <3>4. slots'[s] = OwedAt(s, place) /\ (nested'[s] => nested[s] /\ place = "closing")
      <4>1. CASE /\ place = Exit(s, "failed")
                 /\ nested' = [nested EXCEPT ![s] = FALSE]
                 /\ Release(s)
        <5>1. slots'[s] = slots[s] - 1 /\ ~nested'[s]
          BY <1>0, <4>1 DEF Release
        <5>2. slots[s] = (IF nested[s] THEN 1 ELSE 0) + 1
          BY <3>2
        <5> QED BY <4>1, <5>1, <5>2 DEF Exit, OwedAt
      <4>2. CASE Streaming(s) /\ place = "closing" /\ UNCHANGED <<bulkhead, nested>>
        BY <3>2, <4>2 DEF OwedAt
      <4> QED BY <1>0, <3>1, <4>1, <4>2 DEF Resolve
    <3>5. SlotsExact'
      BY <1>0, <3>2, <3>3, <3>4 DEF MovedTo, Moved, OwedAt
    <3>6. Continuing' /\ Reopening'
      BY <1>0, <3>2, <3>3, <3>4 DEF MovedTo, Moved
    <3> QED BY <3>5, <3>6
  <2>4. ASSUME NEW d \in Delays, AttemptFails(s, d) PROVE SlotsInv'
    BY <1>0, <2>4 DEF AttemptFails, Resolve, Release, Exit, Entrance, Streaming
  <2>5. ASSUME NEW d \in Delays, AttemptExhausts(s, d) PROVE SlotsInv'
    <3>1. PICK place \in Places :
             Resolve(s, "failed", place) /\ (Move(s, place) \/ Notify(s, place))
      BY <2>5 DEF AttemptExhausts, Places
    <3>2. pc[s] = "attempt" /\ MovedTo(s, place)
      BY <2>5, <3>1, Moves DEF AttemptExhausts
    <3>3. /\ \A t \in Sessions \ {s} : /\ slots'[t] = slots[t] /\ nested'[t] = nested[t]
                                      /\ after'[t] = after[t]
          /\ after'[s] = "failed"
      BY <1>0, <3>1 DEF Resolve, Release
    <3>4. slots'[s] = OwedAt(s, place) /\ (nested'[s] => nested[s] /\ place = "closing")
      <4>1. CASE /\ place = Exit(s, "failed")
                 /\ nested' = [nested EXCEPT ![s] = FALSE]
                 /\ Release(s)
        <5>1. slots'[s] = slots[s] - 1 /\ ~nested'[s]
          BY <1>0, <4>1 DEF Release
        <5>2. slots[s] = (IF nested[s] THEN 1 ELSE 0) + 1
          BY <3>2
        <5> QED BY <4>1, <5>1, <5>2 DEF Exit, OwedAt
      <4>2. CASE Streaming(s) /\ place = "closing" /\ UNCHANGED <<bulkhead, nested>>
        BY <3>2, <4>2 DEF OwedAt
      <4> QED BY <1>0, <3>1, <4>1, <4>2 DEF Resolve
    <3>5. SlotsExact'
      BY <1>0, <3>2, <3>3, <3>4 DEF MovedTo, Moved, OwedAt
    <3>6. Continuing' /\ Reopening'
      BY <1>0, <3>2, <3>3, <3>4 DEF MovedTo, Moved
    <3> QED BY <3>5, <3>6
  <2>6. CASE StreamEnds(s)
    BY <1>0, <2>6 DEF StreamEnds, ToClosing
  <2>7. CASE StreamBreaks(s)
    BY <1>0, <2>7 DEF StreamBreaks, ToClosing, Entrance
  <2>8. CASE StreamContinues(s)
    BY <1>0, <2>8 DEF StreamContinues
  <2> QED BY <1>3, <2>1, <2>2, <2>3, <2>4, <2>5, <2>6, <2>7, <2>8 DEF Answer
<1>4. ASSUME NEW s \in Sessions, Close(s) PROVE SlotsInv'
  <2>1. CASE CloseFinished(s)
    BY <1>0, <2>1 DEF CloseFinished, Release
  <2>2. CASE CloseUnresolved(s)
    BY <1>0, <2>2 DEF CloseUnresolved, Abandon
  <2>3. CASE AbandonFinished(s)
    BY <1>0, <2>3 DEF AbandonFinished, Release, Exit, ExitLocals
  <2>4. CASE Reopen(s)
    BY <1>0, <2>4 DEF Reopen
  <2> QED BY <1>4, <2>1, <2>2, <2>3, <2>4 DEF Close
<1>5. ASSUME NEW s \in Sessions, Cancel(s) PROVE SlotsInv'
  <2>1. CASE CancelWaiting(s)
    BY <1>0, <2>1 DEF CancelWaiting, Exit, ExitLocals
  <2>2. CASE CancelSleeping(s)
    BY <1>0, <2>2 DEF CancelSleeping, Exit, ExitLocals
  <2>3. CASE CancelAdmission(s)
    BY <1>0, <2>3 DEF CancelAdmission, Abandon, Exit, ExitLocals
  <2>4. CASE CancelAttempt(s)
    BY <1>0, <2>4 DEF CancelAttempt, Abandon
  <2>5. CASE CancelStream(s)
    BY <1>0, <2>5 DEF CancelStream, ToClosing
  <2>6. CASE CancelClosing(s)
    BY <1>0, <2>6 DEF CutOff
  <2>7. CASE CancelReopening(s)
    BY <1>0, <2>7 DEF CancelReopening, ExitLocals
  <2> QED BY <1>5, <2>1, <2>2, <2>3, <2>4, <2>5, <2>6, <2>7 DEF Cancel
<1>6. CASE Tick
  BY <1>0, <1>6 DEF Tick
<1>7. CASE UNCHANGED vars
  BY <1>7 DEF vars
<1> QED BY <1>1, <1>2, <1>3, <1>4, <1>5, <1>6, <1>7 DEF Next, Finished

\* The slots that are taken, one pair for each, and the free ones are all there are.
Taken == {p \in Sessions \X (Nat \ {0}) : p[2] <= slots[p[1]]}
SlotsCounted == IsFiniteSet(Taken) /\ Cardinality(Taken) + semaphore = MaxConcurrency

\* A step takes one slot, gives one back, or leaves the bulkhead alone.
LEMMA BulkheadSteps ==
  ASSUME [Next]_vars
  PROVE  \/ UNCHANGED bulkhead
         \/ \E s \in Sessions : Release(s)
         \/ \E s \in Sessions : /\ semaphore' = semaphore - 1
                                /\ slots' = [slots EXCEPT ![s] = @ + 1]
<1> USE DEF bulkhead
<1>1. ASSUME NEW s \in Sessions, Call(s) PROVE UNCHANGED bulkhead
  BY <1>1 DEF Call
<1>2. ASSUME NEW s \in Sessions, Gate(s)
      PROVE  \/ UNCHANGED bulkhead
             \/ semaphore' = semaphore - 1 /\ slots' = [slots EXCEPT ![s] = @ + 1]
  BY <1>2 DEF Gate, GateRefuse, GatePass, GateReopen, GateLead, GateWait, LeaderWakes,
    AcquireQuota, AcquireSlot, StartAttempt, GiveUpPermit
<1>3. ASSUME NEW s \in Sessions, Answer(s) PROVE UNCHANGED bulkhead \/ Release(s)
  BY <1>3 DEF Answer, AttemptSucceeds, AttemptCorrected, AttemptRejected, AttemptFails,
    AttemptExhausts, Resolve, StreamEnds, StreamBreaks, StreamContinues, ToClosing
<1>4. ASSUME NEW s \in Sessions, Close(s) PROVE UNCHANGED bulkhead \/ Release(s)
  BY <1>4 DEF Close, CloseFinished, CloseUnresolved, AbandonFinished, Reopen
<1>5. ASSUME NEW s \in Sessions, Cancel(s) PROVE UNCHANGED bulkhead
  BY <1>5 DEF Cancel, CancelWaiting, CancelSleeping, CancelAdmission, CancelAttempt,
    CancelStream, ToClosing, CancelClosing, CancelReopening
<1>6. ASSUME Tick \/ UNCHANGED vars PROVE UNCHANGED bulkhead
  BY <1>6 DEF Tick, vars
<1> QED BY <1>1, <1>2, <1>3, <1>4, <1>5, <1>6 DEF Next, Finished

\* The slots that are taken and those that are free stay all there are.
LEMMA CountKept == TypeOK /\ TypeOK' /\ SlotsCounted /\ [Next]_vars => SlotsCounted'
<1> SUFFICES ASSUME TypeOK, TypeOK', SlotsCounted, [Next]_vars PROVE SlotsCounted'
  OBVIOUS
<1>0. /\ slots \in [Sessions -> Nat] /\ slots' \in [Sessions -> Nat]
      /\ semaphore \in Nat /\ semaphore' \in Nat
      /\ IsFiniteSet(Taken) /\ Cardinality(Taken) + semaphore = MaxConcurrency
      /\ MaxConcurrency \in Nat
  BY AdmissionAssumption DEF TypeOK, SlotsCounted
<1>1. CASE UNCHANGED bulkhead
  BY <1>1 DEF bulkhead, SlotsCounted, Taken
<1>2. ASSUME NEW s \in Sessions, Release(s) PROVE SlotsCounted'
  <2> DEFINE p == <<s, slots[s]>>
  <2>1. slots'[s] = slots[s] - 1 /\ slots[s] \in Nat \ {0} /\ semaphore' = semaphore + 1
    BY <1>0, <1>2 DEF Release
  <2>2. p \in Taken
    BY <2>1 DEF Taken
  <2>3. Taken' = Taken \ {p}
    BY <1>0, <1>2, <2>1 DEF Taken, Release
  <2>4. IsFiniteSet(Taken') /\ Cardinality(Taken') = Cardinality(Taken) - 1
    BY <1>0, <2>2, <2>3, FS_RemoveElement
  <2>5. Cardinality(Taken) \in Nat
    BY <1>0, FS_CardinalityType
  <2> QED BY <1>0, <2>1, <2>4, <2>5 DEF SlotsCounted
<1>3. ASSUME NEW s \in Sessions, semaphore' = semaphore - 1,
             slots' = [slots EXCEPT ![s] = @ + 1]
      PROVE  SlotsCounted'
  <2> DEFINE p == <<s, slots[s] + 1>>
  <2>1. slots'[s] = slots[s] + 1 /\ slots[s] \in Nat
    BY <1>0, <1>3
  <2>2. p \notin Taken
    BY <2>1 DEF Taken
  <2>3. Taken' = Taken \cup {p}
    BY <1>0, <1>3, <2>1 DEF Taken
  <2>4. IsFiniteSet(Taken') /\ Cardinality(Taken') = Cardinality(Taken) + 1
    BY <1>0, <2>2, <2>3, FS_AddElement
  <2>5. Cardinality(Taken) \in Nat
    BY <1>0, FS_CardinalityType
  <2> QED BY <1>0, <1>3, <2>4, <2>5 DEF SlotsCounted
<1> QED BY <1>1, <1>2, <1>3, BulkheadSteps

\* An execution that has ended owes no slot, so none is missing.
LEMMA SlotsComeBack ==
  ASSUME TypeOK, SlotsInv, SlotsCounted
  PROVE  SlotsReturned
<1>1. ASSUME NEW s \in Sessions, pc[s] \in Outcomes \cup {"idle"} PROVE slots[s] = 0
  BY <1>1 DEF SlotsInv, SlotsExact, Continuing, Owed, Holding, Outcomes
<1>2. ASSUME \A s \in Sessions : slots[s] = 0 PROVE semaphore = MaxConcurrency
  <2>1. Taken = {}
    BY <1>2 DEF Taken
  <2>2. Cardinality(Taken) = 0
    BY <2>1, FS_EmptySet
  <2> QED BY <2>2 DEF SlotsCounted, TypeOK
<1> QED BY <1>1, <1>2 DEF SlotsReturned

\* A leader is out with its probe or on its way to the gate: it has not ended.
LEMMA LeadersLive ==
  ASSUME TypeOK, RecoveryInv, LeadersInv
  PROVE  LeaderIsAlive
<1>1. CASE episode.probe
  <2>1. PICK s \in Sessions : Probing(s) /\ episode.leader = s
    BY <1>1 DEF RecoveryInv, ProbeIsHeld, SingleProbe
  <2> QED BY <2>1 DEF Probing, ProbePlaces, LeaderIsAlive, Outcomes
<1>2. CASE ~episode.probe
  BY <1>2 DEF LeadersInv, LeadersAct, Leading, LeaderIsAlive, Outcomes
<1> QED BY <1>1, <1>2

\* What the invariants say of the initial state.
LEMMA StrandedInit == Init => LeadersInv /\ SlotsInv /\ SlotsCounted
<1> HAVE Init
<1>1. LeadersInv
  BY DEF Init, NoEpisode, LeadersInv, TerminalHasNoLeader, LeadersAreNotDoomed, LeadersAct
<1>2. SlotsInv
  BY DEF Init, SlotsInv, SlotsExact, Continuing, Reopening, Owed, Holding
<1>3. Taken = {}
  BY DEF Init, Taken
<1>4. IsFiniteSet(Taken) /\ Cardinality(Taken) = 0
  BY <1>3, FS_EmptySet
<1>5. semaphore = MaxConcurrency /\ MaxConcurrency \in Nat
  BY AdmissionAssumption DEF Init
<1> QED BY <1>1, <1>2, <1>4, <1>5 DEF SlotsCounted

\* As long as nobody is cut off, whoever ends leaves nothing behind: the leader
\* of an open episode still runs and is on its way to act on it, an execution
\* that has ended has given back the slot of every attempt it opened, and the
\* bulkhead is whole when nobody has one.  The three ways of being cut off are
\* the only ones.
THEOREM NobodyIsLeftBehind ==
  Spec /\ [][\A s \in Sessions : ~CutOff(s)]_vars => []NobodyIsStranded
<1> DEFINE Kept == TypeOK /\ RecoveryInv /\ WaitersInv
           Inv  == LeadersInv /\ SlotsInv /\ SlotsCounted
           Ours == \A s \in Sessions : ~CutOff(s)
<1>1. Kept /\ Kept' /\ Inv /\ [Next]_vars /\ [Ours]_vars => Inv'
  <2> SUFFICES ASSUME Kept, Kept', Inv, [Next]_vars, [Ours]_vars PROVE Inv'
    OBVIOUS
  <2>1. CASE Ours
    BY <2>1, LeadersKept, SlotsKept, CountKept
  <2>2. CASE UNCHANGED vars
    <3>1. LeadersInv'
      BY <2>2 DEF vars, gate, local, LeadersInv, TerminalHasNoLeader, LeadersAreNotDoomed,
        LeadersAct, Leading
    <3>2. SlotsInv'
      BY <2>2 DEF vars, bulkhead, local, SlotsInv, SlotsExact, Continuing, Reopening, Owed
    <3> QED BY <3>1, <3>2, CountKept
  <2> QED BY <2>1, <2>2
<1>2. Kept /\ Inv => NobodyIsStranded
  BY LeadersLive, SlotsComeBack DEF NobodyIsStranded
<1> QED BY <1>1, <1>2, StrandedInit, WaitersHold, PTL DEF Spec


-----------------------------------------------------------------------------
(* Callers that cannot be cut off.                                          *)

\* The upstream rejects no credential, no caller awaits a token, and only calls
\* without a stream are cancelled.
Calm ==
  /\ ~AuthFailures
  /\ \A s \in Sessions : Kind[s] # "codex"
  /\ \A s \in Cancellable : Kind[s] = "plain"

PlainPlaces ==
  \A s \in Sessions :
    /\ pc[s] \in {"streaming", "closing"} \/ nested[s] => Kind[s] # "plain"
    /\ pc[s] # "reopening" /\ after[s] # "reopening"

CalmInv == latch = 0 /\ PlainPlaces

\* A calm provider latches nothing, and a plain call has no stream to close.
LEMMA CalmKept == TypeOK /\ Calm /\ CalmInv /\ [Next]_vars => CalmInv'
<1> SUFFICES ASSUME TypeOK, Calm, CalmInv, [Next]_vars PROVE CalmInv'
  OBVIOUS
<1> USE DEF Calm, CalmInv, PlainPlaces, Outcomes, Streaming, gate, bulkhead, local, Move, Notify
<1>0. /\ pc \in [Sessions -> Places] /\ nested \in [Sessions -> BOOLEAN]
      /\ after \in [Sessions -> {"gate", "reopening"} \cup Outcomes]
  BY DEF TypeOK
<1>1. ASSUME NEW s \in Sessions, Call(s) PROVE CalmInv'
  BY <1>0, <1>1 DEF Call, Entrance
<1>2. ASSUME NEW s \in Sessions, Gate(s) PROVE CalmInv'
  <2>1. CASE GateRefuse(s)
    BY <1>0, <2>1 DEF GateRefuse, AtGate, Exit, ExitLocals
  <2>2. CASE GatePass(s)
    BY <1>0, <2>2 DEF GatePass, AtGate
  <2>3. CASE GateReopen(s)
    BY <1>0, <2>3 DEF GateReopen, AtGate
  <2>4. CASE GateLead(s)
    BY <1>0, <2>4 DEF GateLead, AtGate
  <2>5. CASE GateWait(s)
    BY <1>0, <2>5 DEF GateWait, AtGate
  <2>6. CASE LeaderWakes(s)
    BY <1>0, <2>6 DEF LeaderWakes
  <2>7. CASE AcquireQuota(s)
    BY <1>0, <2>7 DEF AcquireQuota, StartAttempt, GiveUpPermit, Abandon
  <2>8. CASE AcquireSlot(s)
    BY <1>0, <2>8 DEF AcquireSlot, StartAttempt, GiveUpPermit, Abandon
  <2> QED BY <1>2, <2>1, <2>2, <2>3, <2>4, <2>5, <2>6, <2>7, <2>8 DEF Gate
<1>3. ASSUME NEW s \in Sessions, Answer(s) PROVE CalmInv'
  <2>1. CASE AttemptSucceeds(s)
    BY <1>0, <2>1 DEF AttemptSucceeds
  <2>2. CASE AttemptCorrected(s)
    BY <1>0, <2>2 DEF AttemptCorrected, Resolve, Exit, Entrance
  <2>3. CASE AttemptRejected(s)
    BY <1>0, <2>3 DEF AttemptRejected, Resolve, Exit
  <2>4. ASSUME NEW d \in Delays, AttemptFails(s, d) PROVE CalmInv'
    BY <1>0, <2>4 DEF AttemptFails, Resolve, Exit, Entrance
  <2>5. ASSUME NEW d \in Delays, AttemptExhausts(s, d) PROVE CalmInv'
    BY <1>0, <2>5 DEF AttemptExhausts, Resolve, Exit
  <2>6. CASE StreamEnds(s)
    BY <1>0, <2>6 DEF StreamEnds, ToClosing
  <2>7. CASE StreamBreaks(s)
    BY <1>0, <2>7 DEF StreamBreaks, ToClosing, Entrance
  <2>8. CASE StreamContinues(s)
    BY <1>0, <2>8 DEF StreamContinues
  <2> QED BY <1>3, <2>1, <2>2, <2>3, <2>4, <2>5, <2>6, <2>7, <2>8 DEF Answer
<1>4. ASSUME NEW s \in Sessions, Close(s) PROVE CalmInv'
  <2>1. CASE CloseFinished(s)
    BY <1>0, <2>1 DEF CloseFinished
  <2>2. CASE CloseUnresolved(s)
    BY <1>0, <2>2 DEF CloseUnresolved, Abandon
  <2>3. CASE AbandonFinished(s)
    BY <1>0, <2>3 DEF AbandonFinished, Exit, ExitLocals
  <2>4. CASE Reopen(s)
    BY <1>0, <2>4 DEF Reopen
  <2> QED BY <1>4, <2>1, <2>2, <2>3, <2>4 DEF Close
<1>5. ASSUME NEW s \in Sessions, Cancel(s) PROVE CalmInv'
  <2>1. CASE CancelWaiting(s)
    BY <1>0, <2>1 DEF CancelWaiting, Exit, ExitLocals
  <2>2. CASE CancelSleeping(s)
    BY <1>0, <2>2 DEF CancelSleeping, Exit, ExitLocals
  <2>3. CASE CancelAdmission(s)
    BY <1>0, <2>3 DEF CancelAdmission, Abandon, Exit, ExitLocals
  <2>4. CASE CancelAttempt(s)
    BY <1>0, <2>4 DEF CancelAttempt, Abandon
  <2>5. CASE CancelStream(s)
    BY <1>0, <2>5 DEF CancelStream, ToClosing
  <2>6. CASE CancelClosing(s)
    BY <1>0, <2>6 DEF CancelClosing, Exit, ExitLocals
  <2>7. CASE CancelReopening(s)
    BY <1>0, <2>7 DEF CancelReopening, ExitLocals
  <2> QED BY <1>5, <2>1, <2>2, <2>3, <2>4, <2>5, <2>6, <2>7 DEF Cancel
<1>6. CASE Tick
  BY <1>0, <1>6 DEF Tick, Less
<1>7. CASE UNCHANGED vars
  BY <1>7 DEF vars
<1> QED BY <1>1, <1>2, <1>3, <1>4, <1>5, <1>6, <1>7 DEF Next, Finished

\* The same without a condition on the steps, for a provider whose credential is
\* not rejected and callers none of which is cancelled inside a stream or awaits
\* a token: there the code strands nobody, whatever else it does.
THEOREM CalmCallersStrandNobody ==
  ASSUME Calm
  PROVE  Spec => []NobodyIsStranded
<1>1. Init => CalmInv
  BY DEF Init, CalmInv, PlainPlaces
<1>2. TypeOK /\ CalmInv /\ [Next]_vars => CalmInv'
  BY CalmKept
<1>3. TypeOK /\ CalmInv /\ [Next]_vars => [\A s \in Sessions : ~CutOff(s)]_vars
  <2> SUFFICES ASSUME TypeOK, CalmInv, NEW s \in Sessions, CutOff(s) PROVE FALSE
    OBVIOUS
  <2> QED BY DEF CutOff, CancelClosing, MayBeCancelled, Calm, CalmInv, PlainPlaces
<1> QED BY <1>1, <1>2, <1>3, SlotsAreHeld, NobodyIsLeftBehind, PTL DEF Spec
=============================================================================
