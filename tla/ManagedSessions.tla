--------------------------- MODULE ManagedSessions ---------------------------
(***************************************************************************)
(* ManagedClaudeSessionManager and ManagedClaudeSession (cli/managed), as   *)
(* the turns of the messaging workflow use them: a turn gets a session,     *)
(* launches its CLI, learns the CLI's own session id, and removes the       *)
(* session when it ends; a global stop stops every session.                 *)
(*                                                                          *)
(* A session is named by the turn that created it, an id by the turn it     *)
(* belongs to.  Each step runs to the next suspension.  A call of stop is   *)
(* named by its caller: a turn that removes its session, the shielded stop  *)
(* of a turn that was cancelled, or stop_all.                               *)
(***************************************************************************)
EXTENDS Naturals, FiniteSets

CONSTANTS
  Turns,      \* turns of the chat
  ParentOf,   \* the turn each answers, or NoTurn
  Earlier,    \* the turns of its tree that end before each starts
  NoTurn,
  StopAll,    \* the caller of stop_all
  MaxCancels, \* bound on the cancellations
  MaxStops,   \* bound on the calls of stop_all
  MaxFailedStops \* bound on the stops that fail

ASSUME SessionsAssumption ==
  /\ ParentOf \in [Turns -> Turns \cup {NoTurn}]
  /\ Earlier \in [Turns -> SUBSET Turns]
  /\ {NoTurn, StopAll} \cap Turns = {} /\ NoTurn # StopAll
  /\ MaxCancels \in Nat /\ MaxStops \in Nat /\ MaxFailedStops \in Nat

Temp(t) == [of |-> t, kind |-> "temp"]
Real(t) == [of |-> t, kind |-> "real"]
Ids     == {Temp(t) : t \in Turns} \cup {Real(t) : t \in Turns}
NoId    == [of |-> NoTurn, kind |-> "none"]

Halt(t)   == [by |-> t, kind |-> "halt"]
Remove(t) == [by |-> t, kind |-> "remove"]
All       == [by |-> StopAll, kind |-> "all"]
Launch(t) == [by |-> t, kind |-> "launch"]
Free      == [by |-> NoTurn, kind |-> "none"]

Calls == {Halt(t) : t \in Turns} \cup {Remove(t) : t \in Turns} \cup {All}

VARIABLES
  turn,     \* where each turn is
  session,  \* the session a turn uses
  handle,   \* the id under which it will remove it
  real,     \* the session id recorded for each turn in its tree
  mapped,   \* _sessions
  waiting,  \* _pending_sessions
  alias,    \* _temp_to_real; _real_to_temp is its inverse
  closingSessions, \* _closing_sessions
  lock,     \* owner of the manager's lock
  process,  \* "none", "live" or "dead": the CLI of each session
  pids,     \* the sessions whose CLI is registered
  stoppedSessions, \* sessions with _closed
  cli,      \* owner of each session's _cli_lock
  life,     \* the call that holds each session's _lifecycle_lock
  halting,  \* turns whose shielded stop has not taken the lifecycle lock
  toStop,   \* sessions stop_all has still to stop
  missed,   \* stops of the current stop_all that failed
  cancels, stops, failedStops

turns   == <<turn, session, handle, real>>
maps    == <<mapped, waiting, alias, closingSessions>>
clis    == <<process, pids, stoppedSessions, cli, life>>
bounds  == <<cancels, stops, failedStops>>
sessionsVars == <<turns, maps, lock, clis, halting, toStop, missed, bounds>>

SessionsInit ==
  /\ turn = [t \in Turns |-> "new"]
  /\ session = [t \in Turns |-> NoTurn]
  /\ handle = [t \in Turns |-> NoId]
  /\ real = [t \in Turns |-> NoId]
  /\ mapped = [i \in Ids |-> NoTurn]
  /\ waiting = [i \in Ids |-> NoTurn]
  /\ alias = [i \in Ids |-> NoId]
  /\ closingSessions = {}
  /\ lock = NoTurn
  /\ process = [s \in Turns |-> "none"]
  /\ pids = {} /\ stoppedSessions = {}
  /\ cli = [s \in Turns |-> NoTurn]
  /\ life = [s \in Turns |-> Free]
  /\ halting = {} /\ toStop = {} /\ missed = 0
  /\ cancels = 0 /\ stops = 0 /\ failedStops = 0

GoTo(t, place) == turn' = [turn EXCEPT ![t] = place]

Lookup(i) == IF alias[i] # NoId THEN alias[i] ELSE i

\* _session_for_id
Find(i) ==
  IF mapped[Lookup(i)] # NoTurn THEN mapped[Lookup(i)] ELSE waiting[Lookup(i)]

Owned(s) == \E i \in Ids : s \in {mapped[i], waiting[i]}

\* Mistake: the aliases of a session outlive it.
KeepsAliases(s) ==
  /\ waiting' = [i \in Ids |-> IF waiting[i] = s THEN NoTurn ELSE waiting[i]]
  /\ mapped' = [i \in Ids |-> IF mapped[i] = s THEN NoTurn ELSE mapped[i]]
  /\ alias' = alias
  /\ closingSessions' = closingSessions \ {s}

\* _forget_session
Forget(s) ==
  /\ waiting' = [i \in Ids |-> IF waiting[i] = s THEN NoTurn ELSE waiting[i]]
  /\ mapped' = [i \in Ids |-> IF mapped[i] = s THEN NoTurn ELSE mapped[i]]
  /\ alias' = [i \in Ids |->
       IF alias[i] # NoId /\ mapped[alias[i]] = s THEN NoId ELSE alias[i]]
  /\ closingSessions' = closingSessions \ {s}

-----------------------------------------------------------------------------
\* A turn runs.  One turn of a tree runs at a time.
Begin(t) ==
  /\ turn[t] = "new" /\ \A e \in Earlier[t] : turn[e] = "over"
  /\ GoTo(t, "get")
  /\ UNCHANGED <<session, handle, real, maps, lock, clis, halting, toStop, missed, bounds>>

Requested(t) == IF ParentOf[t] = NoTurn THEN NoId ELSE real[ParentOf[t]]

\* get_or_create_session; a session that is closing ends the turn.
Get(t) ==
  /\ turn[t] = "get" /\ lock = NoTurn
  /\ LET q     == Requested(t)
         found == IF q = NoId THEN NoTurn ELSE Find(q)
         temp  == IF q = NoId THEN Temp(t) ELSE q
     IN \/ /\ found \in closingSessions
           /\ GoTo(t, "over")
           /\ UNCHANGED <<session, handle, waiting>>
        \/ /\ found # NoTurn /\ found \notin closingSessions
           /\ GoTo(t, "launch")
           /\ session' = [session EXCEPT ![t] = found]
           /\ handle' = [handle EXCEPT ![t] = Lookup(q)]
           /\ UNCHANGED waiting
        \/ /\ found = NoTurn
           /\ GoTo(t, "launch")
           /\ session' = [session EXCEPT ![t] = t]
           /\ handle' = [handle EXCEPT ![t] = temp]
           /\ waiting' = [waiting EXCEPT ![temp] = t]
  /\ UNCHANGED <<real, mapped, alias, closingSessions, lock, clis, halting, toStop,
                 missed, bounds>>

\* start_task, up to the creation of the subprocess.
Start(t) ==
  LET s == session[t] IN
  /\ turn[t] = "launch" /\ cli[s] = NoTurn /\ life[s] = Free
  /\ IF s \in stoppedSessions
     THEN GoTo(t, "remove") /\ UNCHANGED <<cli, life>>
     ELSE /\ GoTo(t, "spawn")
          /\ cli' = [cli EXCEPT ![s] = t]
          /\ life' = [life EXCEPT ![s] = Launch(t)]
  /\ UNCHANGED <<session, handle, real, maps, lock, process, pids, stoppedSessions,
                 halting, toStop,
                 missed, bounds>>

Spawn(t) ==
  LET s == session[t] IN
  /\ turn[t] = "spawn"
  /\ GoTo(t, "stream")
  /\ process' = [process EXCEPT ![s] = "live"]
  /\ pids' = pids \cup {s}
  /\ life' = [life EXCEPT ![s] = Free]
  /\ UNCHANGED <<session, handle, real, maps, lock, stoppedSessions, cli, halting,
                 toStop, missed, bounds>>

\* The creation fails, or is cancelled: asyncio kills what it had created.
SpawnFails(t) ==
  LET s == session[t] IN
  /\ turn[t] = "spawn"
  /\ GoTo(t, "remove")
  /\ life' = [life EXCEPT ![s] = Free]
  /\ cli' = [cli EXCEPT ![s] = NoTurn]
  /\ UNCHANGED <<session, handle, real, maps, lock, process, pids, stoppedSessions,
                 halting, toStop,
                 missed, bounds>>

\* register_real_session_id
Accepts(s, temp, id) ==
  /\ waiting[temp] = s /\ s \notin closingSessions
  /\ Find(id) \in {NoTurn, s}

\* The CLI names its session: handle_session_info_event.  A turn whose
\* registration is refused ends; its generator is closed as it is collected.
Register(t) ==
  LET s == session[t] temp == handle[t] IN
  /\ turn[t] = "stream" /\ lock = NoTurn
  /\ s = t /\ real[t] = NoId \* the handle is a temporary id
  /\ \E id \in {Real(t), Requested(t)} \ {NoId} :
       IF Accepts(s, temp, id)
       THEN /\ waiting' = [waiting EXCEPT ![temp] = NoTurn]
            /\ mapped' = [mapped EXCEPT ![id] = s]
            /\ alias' = [alias EXCEPT ![temp] = id]
            /\ handle' = [handle EXCEPT ![t] = id]
            /\ real' = [real EXCEPT ![t] = id]
            /\ UNCHANGED turn
       ELSE GoTo(t, "remove") /\ UNCHANGED <<waiting, mapped, alias, handle, real>>
  /\ UNCHANGED <<session, closingSessions, lock, clis, halting, toStop, missed, bounds>>

\* A CLI ends by itself, or because it was killed.
Exit(s) ==
  /\ process[s] = "live"
  /\ process' = [process EXCEPT ![s] = "dead"]
  /\ UNCHANGED <<turns, maps, lock, pids, stoppedSessions, cli, life, halting, toStop,
                 missed, bounds>>

\* The end of start_task's generator: the pid of a process that has ended is
\* unregistered, and the session may be used again.
Leave(s) ==
  /\ pids' = IF process[s] = "dead" THEN pids \ {s} ELSE pids
  /\ cli' = [cli EXCEPT ![s] = NoTurn]

CliFinished(t) ==
  /\ turn[t] \in {"stream", "drain"} /\ process[session[t]] = "dead"
  /\ Leave(session[t])
  /\ GoTo(t, "remove")
  /\ UNCHANGED <<session, handle, real, maps, lock, process, stoppedSessions, life,
                 halting, toStop,
                 missed, bounds>>

\* A generator that was abandoned waits for the end of the CLI's stderr.
Collected(t) ==
  LET s == session[t] IN
  /\ turn[t] \in {"remove", "stopping", "over"} /\ s # NoTurn
  /\ cli[s] = t /\ process[s] = "dead"
  /\ Leave(s)
  /\ UNCHANGED <<turns, maps, lock, process, stoppedSessions, life, halting, toStop,
                 missed, bounds>>

\* The turn's shielded stop has ended.
Halted(t) ==
  /\ turn[t] = "halt" /\ t \notin halting /\ life[session[t]] # Halt(t)
  /\ GoTo(t, "drain")
  /\ UNCHANGED <<session, handle, real, maps, lock, clis, halting, toStop, missed, bounds>>

\* remove_session takes the manager's lock.
BeginRemove(t) ==
  LET s == Find(handle[t]) IN
  /\ turn[t] = "remove" /\ lock = NoTurn
  /\ IF s = NoTurn
     THEN GoTo(t, "over") /\ UNCHANGED <<closingSessions, lock>>
     ELSE GoTo(t, "stopping") /\ closingSessions' = closingSessions \cup {s} /\ lock' = t
  /\ UNCHANGED <<session, handle, real, mapped, waiting, alias, clis, halting, toStop,
                 missed, bounds>>

-----------------------------------------------------------------------------
\* ManagedClaudeSession.stop, and what its callers do with the result.
Calling(k, s) ==
  \/ k.kind = "remove" /\ turn[k.by] = "stopping" /\ s = Find(handle[k.by])
  \/ k.kind = "halt" /\ k.by \in halting /\ s = session[k.by]
  \/ /\ k.kind = "all" /\ lock = StopAll
     /\ s \in toStop /\ \A x \in Turns : life[x] # All

\* Mistake: a session is forgotten although its CLI would not stop.
ForgetsAnyway(k, s, done) ==
  \/ k.kind = "halt" /\ UNCHANGED <<turn, maps, lock, toStop, missed>>
  \/ /\ k.kind = "remove"
     /\ GoTo(k.by, "over") /\ lock' = NoTurn
     /\ Forget(s)
     /\ UNCHANGED <<toStop, missed>>
  \/ /\ k.kind = "all"
     /\ Forget(s)
     /\ toStop' = toStop \ {s}
     /\ missed' = IF done THEN missed ELSE missed + 1
     /\ UNCHANGED <<turn, lock>>

Stopped(k, s, done) ==
  \/ /\ k.kind = "halt"
     /\ UNCHANGED <<turn, maps, lock, toStop, missed>>
  \/ /\ k.kind = "remove"
     /\ GoTo(k.by, "over") /\ lock' = NoTurn
     /\ IF done THEN Forget(s) ELSE UNCHANGED maps
     /\ UNCHANGED <<toStop, missed>>
  \/ /\ k.kind = "all"
     /\ IF done THEN Forget(s) ELSE UNCHANGED maps
     /\ toStop' = toStop \ {s}
     /\ missed' = IF done THEN missed ELSE missed + 1
     /\ UNCHANGED <<turn, lock>>

\* Mistake: a stop does not wait for a launch.
StopsIdleAtOnce(k, s) ==
  /\ Calling(k, s) /\ process[s] # "live"
  /\ stoppedSessions' = stoppedSessions \cup {s}
  /\ pids' = pids \ {s}
  /\ halting' = IF k.kind = "halt" THEN halting \ {k.by} ELSE halting
  /\ Stopped(k, s, TRUE)
  /\ UNCHANGED <<session, handle, real, process, cli, life, bounds>>

\* The lifecycle lock is taken; nothing has to be killed.
StopIdle(k, s) ==
  /\ Calling(k, s) /\ life[s] = Free /\ process[s] # "live"
  /\ stoppedSessions' = stoppedSessions \cup {s}
  /\ pids' = pids \ {s}
  /\ halting' = IF k.kind = "halt" THEN halting \ {k.by} ELSE halting
  /\ Stopped(k, s, TRUE)
  /\ UNCHANGED <<session, handle, real, process, cli, life, bounds>>

\* ... or the process is killed and awaited with the lock held.
Kill(k, s) ==
  /\ Calling(k, s) /\ life[s] = Free /\ process[s] = "live"
  /\ stoppedSessions' = stoppedSessions \cup {s}
  /\ life' = [life EXCEPT ![s] = k]
  /\ halting' = IF k.kind = "halt" THEN halting \ {k.by} ELSE halting
  /\ UNCHANGED <<turns, maps, lock, process, pids, cli, toStop, missed, bounds>>

Killed(k, s) ==
  /\ life[s] = k /\ process[s] = "dead"
  /\ pids' = pids \ {s}
  /\ life' = [life EXCEPT ![s] = Free]
  /\ Stopped(k, s, TRUE)
  /\ UNCHANGED <<session, handle, real, process, stoppedSessions, cli, halting, bounds>>

KillFails(k, s) ==
  /\ life[s] = k /\ failedStops < MaxFailedStops
  /\ failedStops' = failedStops + 1
  /\ life' = [life EXCEPT ![s] = Free]
  /\ Stopped(k, s, FALSE)
  /\ UNCHANGED <<session, handle, real, process, pids, stoppedSessions, cli, halting,
                 cancels, stops>>

\* Mistake: sessions that have no id of the CLI yet are overlooked.
StopsMapped ==
  /\ lock = NoTurn /\ stops < MaxStops
  /\ stops' = stops + 1
  /\ lock' = StopAll
  /\ toStop' = {s \in Turns : \E i \in Ids : mapped[i] = s} \cup closingSessions
  /\ closingSessions' = closingSessions \cup toStop'
  /\ missed' = 0
  /\ UNCHANGED <<turns, mapped, waiting, alias, clis, halting, cancels, failedStops>>

\* Mistake: the manager's lock is not taken.
StopsUnlocked ==
  /\ lock = NoTurn /\ stops < MaxStops
  /\ stops' = stops + 1
  /\ toStop' = {s \in Turns : Owned(s)} \cup closingSessions
  /\ closingSessions' = closingSessions \cup toStop'
  /\ missed' = 0
  /\ UNCHANGED <<turns, mapped, waiting, alias, clis, lock, halting, cancels, failedStops>>

\* stop_all
BeginStopAll ==
  /\ lock = NoTurn /\ stops < MaxStops
  /\ stops' = stops + 1
  /\ lock' = StopAll
  /\ toStop' = {s \in Turns : Owned(s)} \cup closingSessions
  /\ closingSessions' = closingSessions \cup toStop'
  /\ missed' = 0
  /\ UNCHANGED <<turns, mapped, waiting, alias, clis, halting, cancels, failedStops>>

EndStopAll ==
  /\ lock = StopAll /\ toStop = {}
  /\ lock' = NoTurn
  /\ UNCHANGED <<turns, maps, clis, halting, toStop, missed, bounds>>

-----------------------------------------------------------------------------
\* A turn is cancelled, perhaps more than once, wherever it is suspended.
CancelTurn(t) ==
  LET s == session[t] IN
  /\ cancels < MaxCancels /\ cancels' = cancels + 1
  /\ \/ turn[t] = "get" /\ GoTo(t, "over") /\ UNCHANGED <<pids, cli, life, lock, halting>>
     \/ /\ turn[t] = "launch" /\ GoTo(t, "remove")
        /\ UNCHANGED <<pids, cli, life, lock, halting>>
     \/ /\ turn[t] = "stream" \* start_task shields a stop of the session
        /\ GoTo(t, "halt") /\ halting' = halting \cup {t}
        /\ UNCHANGED <<pids, cli, life, lock>>
     \/ /\ turn[t] = "stream" /\ lock # NoTurn \* it waits for the manager's lock
        /\ GoTo(t, "remove")
        /\ UNCHANGED <<pids, cli, life, lock, halting>>
     \/ /\ turn[t] = "halt" \* the shielded stop goes on
        /\ GoTo(t, "drain") /\ UNCHANGED <<pids, cli, life, lock, halting>>
     \/ /\ turn[t] = "drain"
        /\ GoTo(t, "remove") /\ Leave(s) /\ UNCHANGED <<life, lock, halting>>
     \/ /\ turn[t] = "remove"
        /\ GoTo(t, "over") /\ UNCHANGED <<pids, cli, life, lock, halting>>
     \/ /\ turn[t] = "stopping"
        /\ GoTo(t, "over") /\ lock' = NoTurn
        /\ life' = [x \in Turns |-> IF life[x] = Remove(t) THEN Free ELSE life[x]]
        /\ UNCHANGED <<pids, cli, halting>>
  /\ UNCHANGED <<session, handle, real, maps, process, stoppedSessions, toStop, missed,
                 stops, failedStops>>

Progress(t) ==
  \/ Begin(t) \/ Get(t) \/ Start(t) \/ Spawn(t) \/ SpawnFails(t) \/ Register(t)
  \/ CliFinished(t) \/ Collected(t) \/ Halted(t) \/ BeginRemove(t)

Stop(k, s) == StopIdle(k, s) \/ Kill(k, s) \/ Killed(k, s) \/ KillFails(k, s)

Stopping == (\E k \in Calls, s \in Turns : Stop(k, s)) \/ EndStopAll

\* Every step is one that happens once, so that a run ends: with every turn over,
\* or in a deadlock, which is an error.
Rest == (\A t \in Turns : turn[t] = "over") /\ UNCHANGED sessionsVars

SessionsNext ==
  \/ \E t \in Turns : Progress(t) \/ Exit(t) \/ CancelTurn(t)
  \/ Stopping \/ BeginStopAll \/ Rest

SessionsSpec == SessionsInit /\ [][SessionsNext]_sessionsVars

-----------------------------------------------------------------------------
Places == {"new", "get", "launch", "spawn", "stream", "halt", "drain", "remove", "stopping", "over"}

SessionsTypeOK ==
  /\ turn \in [Turns -> Places] /\ session \in [Turns -> Turns \cup {NoTurn}]
  /\ handle \in [Turns -> Ids \cup {NoId}] /\ real \in [Turns -> Ids \cup {NoId}]
  /\ mapped \in [Ids -> Turns \cup {NoTurn}] /\ waiting \in [Ids -> Turns \cup {NoTurn}]
  /\ alias \in [Ids -> Ids \cup {NoId}]
  /\ closingSessions \subseteq Turns /\ toStop \subseteq Turns /\ halting \subseteq Turns
  /\ pids \subseteq Turns /\ stoppedSessions \subseteq Turns
  /\ lock \in Turns \cup {NoTurn, StopAll}
  /\ process \in [Turns -> {"none", "live", "dead"}]
  /\ cli \in [Turns -> Turns \cup {NoTurn}]
  /\ life \in [Turns -> Calls \cup {Launch(t) : t \in Turns} \cup {Free}]
  /\ missed \in Nat
  /\ toStop # {} => lock = StopAll
  /\ \A t \in Turns : turn[t] = "stopping" => lock = t

\* A CLI that runs is owned: the manager can find its session, and its pid is
\* registered for the exit of the process, until its end is confirmed -
\* whichever stop failed, whoever was cancelled in the middle of one.
LiveIsOwned == \A s \in Turns : process[s] = "live" => Owned(s) /\ s \in pids

\* The two tables and the aliases agree: a session has one id, an alias leads
\* to a session, no two aliases to the same, and only owned sessions close.
TablesAgree ==
  /\ \A s \in Turns : Cardinality({i \in Ids : mapped[i] = s} \cup
                                  {i \in Ids : waiting[i] = s}) <= 1
  /\ \A i \in Ids : alias[i] # NoId => mapped[alias[i]] # NoTurn
  /\ \A i, j \in Ids : alias[i] = alias[j] /\ alias[i] # NoId => i = j
  /\ \A s \in closingSessions : Owned(s)

\* Whatever is stopped, cancelled or fails, a live CLI is owned and the tables agree.
SessionsAreOwned == SessionsTypeOK /\ LiveIsOwned /\ TablesAgree

\* A session that a stop has reached never launches a CLI again, although the
\* check of _closed and the end of the launch are two steps.
StoppedNeverLaunches ==
  [][\A s \in Turns : s \in stoppedSessions => ~(process[s] # "live" /\ process'[s] = "live")]_sessionsVars

\* A global stop that reports success leaves no CLI, nothing to launch one with
\* and nothing owned, whatever turns were doing meanwhile.
StopAllStops ==
  [][lock = StopAll /\ lock' = NoTurn /\ missed = 0 =>
       \A s \in Turns : ~Owned(s) /\ process[s] # "live" /\ life[s].kind # "launch"]_sessionsVars

\* A stop is final, for the session it reached and for all of them.
StopsAreFinal == StoppedNeverLaunches /\ StopAllStops
=============================================================================
