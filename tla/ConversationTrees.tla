-------------------------- MODULE ConversationTrees --------------------------
(***************************************************************************)
(* The conversation trees of the messaging bridge (messaging/trees), the    *)
(* workflow that admits, stops and clears turns (messaging/workflow.py) and *)
(* the runner of a turn (messaging/node_runner.py).                         *)
(*                                                                          *)
(* A delivery is one arrival of a platform message.  An admitted delivery   *)
(* becomes a turn: a node of a tree that waits in the tree's queue, is      *)
(* claimed, runs a Claude CLI in a task of its own, and whose finisher      *)
(* claims the next turn of the queue.  The claim of a delivery is named by  *)
(* the delivery: no turn is claimed twice.                                  *)
(*                                                                          *)
(* TreeQueueManager._lock guards bodies that never suspend (the lock of a   *)
(* tree is only taken under it, and delivery of status edits is fire and    *)
(* forget), so every call of the manager is one step.  The workflow's state *)
(* lock is held by a stop or clear while it drains the tasks it cancelled:  *)
(* command is the holder.  One chat is modelled.                            *)
(***************************************************************************)
EXTENDS Naturals, Sequences, FiniteSets, Functions, Queues

CONSTANTS
  Messages,    \* platform messages that are prompts
  Deliveries,  \* arrivals of messages: a platform may deliver one twice
  Message,     \* [Deliveries -> Messages]
  ReplyTo,     \* [Messages -> References or NoReference]: what it replies to
  Clearable,   \* the references a user may answer with /clear
  NoClaim,     \* Python's None where a claim could be
  NoReference, \* Python's None where a reference could be
  SlowStop,    \* whether a CLI may outlast CANCEL_TASK_DRAIN_TIMEOUT_S
  MaxRestarts  \* how often the process may crash and restart

References == [message : Messages, kind : {"prompt", "status"}]

ASSUME TreesAssumption ==
  /\ Message \in [Deliveries -> Messages]
  /\ ReplyTo \in [Messages -> References \cup {NoReference}]
  /\ Clearable \subseteq References
  /\ NoClaim \notin Deliveries
  /\ NoReference \notin References
  /\ SlowStop \in BOOLEAN
  /\ MaxRestarts \in Nat

VARIABLES
  intake,    \* where each delivery is on its way to admission
  fresh,     \* deliveries whose AdmissionToken is that of the current generations
  graph,     \* the nodes of the published trees
  queue,     \* by root, the MessageNodeQueue of its tree
  active,    \* by root, the claim of _active
  cancelled, \* by root, _active.cancellation_requested
  task,      \* the task and slot of each claim
  command,   \* the stop or clear that holds _state_lock
  stored,    \* the nodes in the SessionStore
  restarts

trees == <<graph, queue, active, cancelled>>
vars  == <<intake, fresh, trees, task, command, stored, restarts>>

\* An admission is provisional while its status message is being sent; it has
\* resolved the message it replies to, or is to be a root.
Provisional == {"reply", "root"}

\* A task is launched and not entered yet, runs its CLI, unwinds after its end
\* or its cancellation, or is recovered because it was cancelled before it ran.
Ended == {"none", "done"}
Tasks == Ended \cup {"launched", "running", "unwinding", "recovering"}

States == {"pending", "in_progress", "completed", "error"}
Nodes  == [turn : Deliveries, root : Messages, state : States,
           status : BOOLEAN, session : BOOLEAN]

\* waits: cancelled tasks being drained; roots: trees to save; snapshot and
\* removed: what is then written to the store.
NoCommand == [phase |-> "none", waits |-> {}, roots |-> {},
              snapshot |-> << >>, removed |-> {}]

Init ==
  /\ intake = [d \in Deliveries |-> "away"]
  /\ fresh = {}
  /\ graph = << >>
  /\ queue = [r \in Messages |-> << >>]
  /\ active = [r \in Messages |-> NoClaim]
  /\ cancelled = [r \in Messages |-> FALSE]
  /\ task = [d \in Deliveries |-> "none"]
  /\ command = NoCommand
  /\ stored = << >>
  /\ restarts = 0

-----------------------------------------------------------------------------
(* The graph: trees, references, snapshots.                                 *)

Present == DOMAIN graph
Tree(r) == {m \in Present : graph[m].root = r}
Roots   == {m \in Present : graph[m].root = m}
Runnable(m) == graph[m].state \in {"pending", "in_progress"}

Resolves(ref) ==
  /\ ref.message \in Present
  /\ ref.kind = "status" => graph[ref.message].status

\* What m replies to: a reply to a status is also below the prompt that it answers.
Direct(m) == IF ReplyTo[m] = NoReference THEN {}
             ELSE {ReplyTo[m], [message |-> ReplyTo[m].message, kind |-> "prompt"]}

\* The references above each message: the least set that holds what it replies to
\* and, with a reference, what the message of that replies to.
Climbs(S, m) == Direct(m) \subseteq S /\ \A ref \in S : Direct(ref.message) \subseteq S
Above == [m \in Messages |->
            CHOOSE S \in SUBSET References :
              Climbs(S, m) /\ \A T \in SUBSET References : Climbs(T, m) => S \subseteq T]

\* A platform lets nobody reply to what is not there yet.
ASSUME RepliesAssumption == \A m \in Messages : \A ref \in Above[m] : ref.message # m

\* get_reference_descendants: the nodes of the literal reply subtree.
BelowPrompts(ref) ==
  {m \in Tree(graph[ref.message].root) :
     ref.kind = "prompt" /\ (ref \in Above[m] \/ m = ref.message)}
Below(ref) ==
  {m \in Tree(graph[ref.message].root) :
     ref \in Above[m] \/ (ref.kind = "prompt" /\ m = ref.message)}

Descendants(m) == Below([message |-> m, kind |-> "prompt"]) \ {m}

Kept(nodes, S) == [m \in DOMAIN nodes \ S |-> nodes[m]]
Marked(nodes, S) ==
  [m \in DOMAIN nodes |-> IF m \in S THEN [nodes[m] EXCEPT !.state = "error"]
                          ELSE nodes[m]]

Joined(g, h) == [m \in DOMAIN g \cup DOMAIN h |-> IF m \in DOMAIN g THEN g[m] ELSE h[m]]

\* with_tree and without_tree of the ConversationSnapshot.
SnapshotOf(nodes, R) == Kept(nodes, {m \in DOMAIN nodes : nodes[m].root \notin R})
Without(R) == Kept(stored, {m \in DOMAIN stored : stored[m].root \in R})
WithTree(nodes, r) == Joined(SnapshotOf(nodes, {r}), Without({r}))

-----------------------------------------------------------------------------
(* Intake and admission.                                                    *)

StateLockFree == command.phase = "none"

RepliesToTurn(m) == ReplyTo[m] # NoReference /\ Resolves(ReplyTo[m])

\* The generations are read and the reply target is looked up, then the status
\* message is sent.
Receive(d) ==
  /\ StateLockFree
  /\ intake[d] = "away"
  /\ intake' = [intake EXCEPT ![d] = IF RepliesToTurn(Message[d]) THEN "reply" ELSE "root"]
  /\ fresh' = fresh \cup {d}
  /\ UNCHANGED <<trees, task, command, stored, restarts>>

\* The status message could not be sent: the delivery is dropped.
SendFails(d) ==
  /\ intake[d] \in Provisional
  /\ intake' = [intake EXCEPT ![d] = "gone"]
  /\ UNCHANGED <<fresh, trees, task, command, stored, restarts>>

AdmissibleAnyTime(d) ==
  /\ Message[d] \notin Present
  /\ intake[d] = "reply" => Resolves(ReplyTo[Message[d]])
Admissible(d) ==
  /\ d \in fresh
  /\ Message[d] \notin Present
  /\ intake[d] = "reply" => Resolves(ReplyTo[Message[d]])

\* Crossed by a stop or clear, delivered twice, or its parent was removed.
Reject(d) ==
  /\ StateLockFree
  /\ intake[d] \in Provisional
  /\ ~Admissible(d)
  /\ intake' = [intake EXCEPT ![d] = "gone"]
  /\ UNCHANGED <<fresh, trees, task, command, stored, restarts>>

IdleOrCancelled(r) == active[r] = NoClaim \/ cancelled[r]
Idle(r) == active[r] = NoClaim

AddTurn(d, r) ==
  Joined(graph, [m \in {Message[d]} |->
                   [turn |-> d, root |-> r, status |-> TRUE, session |-> FALSE,
                    state |-> IF Idle(r) THEN "in_progress" ELSE "pending"]])

Launched(claim) == [task EXCEPT ![claim] = "launched"]

EnqueueOrClaim(d, r) ==
  IF Idle(r)
  THEN /\ active' = [active EXCEPT ![r] = d]
       /\ task' = Launched(d)
       /\ UNCHANGED queue
  ELSE /\ queue' = [queue EXCEPT ![r] = Append(@, Message[d])]
       /\ UNCHANGED <<active, task>>

\* A reply joins the tree of its parent, any other prompt is the root of a new one;
\* the snapshot is saved under the same lock.
Admit(d) ==
  /\ StateLockFree
  /\ intake[d] \in Provisional
  /\ Admissible(d)
  /\ intake' = [intake EXCEPT ![d] = "gone"]
  /\ LET m == Message[d]
         r == IF intake[d] = "reply" THEN graph[ReplyTo[m].message].root ELSE m
     IN  /\ graph' = AddTurn(d, r)
         /\ stored' = WithTree(graph', r)
         /\ EnqueueOrClaim(d, r)
  /\ UNCHANGED <<fresh, cancelled, command, restarts>>

-----------------------------------------------------------------------------
(* The runner of a turn.  A call of the manager is honoured while the claim *)
(* is the active one of its tree, is not cancelled and its node is there.   *)

IsActive(d, r) == active[r] = d /\ ~cancelled[r]

Owns(d, r) == IsActive(d, r) /\ Message[d] \in Tree(r)

Move(d, place) == task' = [task EXCEPT ![d] = place]

\* _run_claim is entered.  It cannot find itself cancelled: nothing suspends
\* before process_node, and a task cancelled earlier is not entered at all.
Start(d) ==
  /\ task[d] = "launched"
  /\ Move(d, "running")
  /\ UNCHANGED <<intake, fresh, trees, command, stored, restarts>>

Store(r) == stored' = WithTree(graph', r)

\* The CLI has told its session's id and the session manager has accepted it.
RecordSession(d, r) ==
  /\ task[d] = "running"
  /\ Owns(d, r)
  /\ graph[Message[d]].state = "in_progress"
  /\ graph' = [graph EXCEPT ![Message[d]].session = TRUE]
  /\ Store(r)
  /\ UNCHANGED <<intake, fresh, queue, active, cancelled, task, command, restarts>>

\* complete_claim: also of a turn that has shown an error before.
Succeed(d, r) ==
  /\ task[d] = "running"
  /\ Owns(d, r)
  /\ graph[Message[d]].state \in {"in_progress", "error"}
  /\ \E session \in {TRUE, graph[Message[d]].session} :
       graph' = [graph EXCEPT ![Message[d]].state = "completed",
                              ![Message[d]].session = session]
  /\ Store(r)
  /\ UNCHANGED <<intake, fresh, queue, active, cancelled, task, command, restarts>>

\* fail_claim: a completed turn keeps its outcome and fails nobody.
FailedTurns(m, propagate) ==
  IF graph[m].state = "completed" THEN {}
  ELSE {m} \cup
       {x \in Descendants(m) : propagate /\ graph[x].state = "pending"}

FailForgetsQueue(d, r, propagate) ==
  /\ Owns(d, r)
  /\ graph' = Marked(graph, FailedTurns(Message[d], propagate))
  /\ UNCHANGED queue
  /\ Store(r)
Fail(d, r, propagate) ==
  /\ Owns(d, r)
  /\ graph' = Marked(graph, FailedTurns(Message[d], propagate))
  /\ queue' = [queue EXCEPT ![r] = Dequeued(@, FailedTurns(Message[d], propagate))]
  /\ Store(r)

\* An error that the CLI reports and may still recover from.
ErrorEvent(d, r) ==
  /\ task[d] = "running"
  /\ Fail(d, r, FALSE)
  /\ UNCHANGED <<intake, fresh, active, cancelled, task, command, restarts>>

\* No CLI session can be had: the turn fails, its descendants do not.
SessionRefused(d, r) ==
  /\ task[d] = "running"
  /\ ~graph[Message[d]].session
  /\ graph[Message[d]].state = "in_progress"
  /\ Fail(d, r, FALSE)
  /\ Move(d, "unwinding")
  /\ UNCHANGED <<intake, fresh, active, cancelled, command, restarts>>

\* The runner raises.
RunnerRaises(d, r) ==
  /\ task[d] = "running"
  /\ Fail(d, r, TRUE)
  /\ Move(d, "unwinding")
  /\ UNCHANGED <<intake, fresh, active, cancelled, command, restarts>>

\* The CLI ends badly or without a result.
EndsBadly(d, r) ==
  /\ task[d] = "running"
  /\ Fail(d, r, TRUE)
  /\ Move(d, "unwinding")
  /\ UNCHANGED <<intake, fresh, active, cancelled, command, restarts>>

EndsWell(d, r) ==
  /\ task[d] = "running"
  /\ Owns(d, r)
  /\ graph[Message[d]].state = "completed"
  /\ Move(d, "unwinding")
  /\ UNCHANGED <<intake, fresh, trees, command, stored, restarts>>

Recovered(d) == task[d] = "recovering"
Finishing(d) == task[d] = "unwinding" \/ Recovered(d)

\* The first turn of the queue that still waits, and the rest of the queue.
Waiting(r) == {i \in DOMAIN queue[r] :
                 /\ queue[r][i] \in Tree(r)
                 /\ graph[queue[r][i]].state = "pending"}

FinishUnlaunched(d, r, i) ==
  LET m == queue[r][i] IN
  /\ graph' = [graph EXCEPT ![m].state = "in_progress"]
  /\ queue' = [queue EXCEPT ![r] = SubSeq(@, i + 1, Len(@))]
  /\ active' = [active EXCEPT ![r] = graph[m].turn]
  /\ cancelled' = [cancelled EXCEPT ![r] = FALSE]
  /\ Move(d, "done")

ClaimNext(d, r, i) ==
  LET m == queue[r][i] IN
  /\ graph' = [graph EXCEPT ![m].state = "in_progress"]
  /\ queue' = [queue EXCEPT ![r] = SubSeq(@, i + 1, Len(@))]
  /\ active' = [active EXCEPT ![r] = graph[m].turn]
  /\ cancelled' = [cancelled EXCEPT ![r] = FALSE]
  /\ task' = [Launched(graph[m].turn) EXCEPT ![d] = "done"]

\* _finish_claim: the claim is released and the next turn claimed and launched
\* in one step.  No snapshot is saved of it.
FinishAndContinue(d, r) ==
  /\ Finishing(d)
  /\ active[r] = d
  /\ \E i \in Waiting(r) :
       /\ \A j \in Waiting(r) : i <= j
       /\ ClaimNext(d, r, i)
  /\ UNCHANGED <<intake, fresh, command, stored, restarts>>

FinishLast(d, r) ==
  /\ Finishing(d)
  /\ active[r] = d
  /\ Waiting(r) = {}
  /\ queue' = [queue EXCEPT ![r] = << >>]
  /\ active' = [active EXCEPT ![r] = NoClaim]
  /\ cancelled' = [cancelled EXCEPT ![r] = FALSE]
  /\ Move(d, "done")
  /\ UNCHANGED <<intake, fresh, graph, command, stored, restarts>>

\* The tree was cleared meanwhile: nobody is launched.
FinishDetached(d) ==
  /\ Finishing(d)
  /\ \A r \in Messages : active[r] # d
  /\ Move(d, "done")
  /\ UNCHANGED <<intake, fresh, trees, command, stored, restarts>>

-----------------------------------------------------------------------------
(* Stop and clear.                                                          *)

\* TreeQueueProcessor.cancel of some claims.
Halted(t) == CASE t = "launched" -> "recovering"
               [] t = "running"  -> "unwinding"
               [] OTHER          -> t
CancelTasks(claims) ==
  task' = [d \in Deliveries |-> IF d \in claims THEN Halted(task[d]) ELSE task[d]]

ActiveOf(R) == {active[r] : r \in R} \ {NoClaim}

\* Does the active claim of a tree run one of these nodes?
RunsOne(r, S) == active[r] # NoClaim /\ Message[active[r]] \in S

\* The active turn of a tree has had its status cleared and still unwinds: its
\* cancellation cannot be described by a NodeUiTarget, which raises ValueError.
Nameless(r) ==
  /\ RunsOne(r, Tree(r))
  /\ graph[Message[active[r]]].state = "error"
  /\ ~graph[Message[active[r]]].status

Draining(claims, R, gone) ==
  command' = [NoCommand EXCEPT !.phase = "draining", !.waits = claims,
                               !.roots = R, !.removed = gone]

RunnablesOf(R) == {m \in Present : graph[m].root \in R /\ Runnable(m)}

CancelNode(m, r, claims) ==
  /\ graph' = IF Runnable(m) THEN Marked(graph, {m}) ELSE graph
  /\ queue' = [queue EXCEPT ![r] = Dequeued(@, {m})]
  /\ cancelled' = [cancelled EXCEPT ![r] = @ \/ claims # {}]

\* /stop in reply to a message of a turn, or of nobody's.
StopReply(m) ==
  /\ StateLockFree
  /\ m \in Present
  /\ LET r == graph[m].root
         claims == IF RunsOne(r, {m}) THEN {active[r]} ELSE {}
     IN  /\ ~(claims # {} /\ Nameless(r))
         /\ CancelNode(m, r, claims)
         /\ CancelTasks(claims)
         /\ Draining(claims, {r}, {})
  /\ UNCHANGED <<intake, fresh, active, stored, restarts>>

\* cancel_all of some trees.
CancelTrees(R) ==
  /\ graph' = Marked(graph, RunnablesOf(R))
  /\ queue' = [r \in Messages |-> IF r \in R THEN << >> ELSE queue[r]]
  /\ cancelled' = [r \in Messages |-> cancelled[r] \/ (r \in R /\ active[r] # NoClaim)]
  /\ CancelTasks(ActiveOf(R))

\* Trees are cancelled one after the other until one of them raises.
Reached(R) ==
  IF \E r \in Roots : Nameless(r)
  THEN R \subseteq {r \in Roots : ~Nameless(r)}
  ELSE R = Roots

CancelAll ==
  \E R \in SUBSET Roots :
    /\ Reached(R)
    /\ CancelTrees(R)
    /\ IF R = Roots THEN Draining(ActiveOf(R), R, {}) ELSE UNCHANGED command

\* A standalone /stop: the stop generation advances and all trees are cancelled.
StopAll ==
  /\ StateLockFree
  /\ fresh' = {}
  /\ CancelAll
  /\ UNCHANGED <<intake, active, stored, restarts>>

ClearScope ==
  \E R \in SUBSET Roots :
    /\ Reached(R)
    /\ graph' = SnapshotOf(graph, Roots \ R)
    /\ queue' = [r \in Messages |-> IF r \in R THEN << >> ELSE queue[r]]
    /\ active' = [r \in Messages |-> IF r \in R THEN NoClaim ELSE active[r]]
    /\ cancelled' = [r \in Messages |-> r \notin R /\ cancelled[r]]
    /\ CancelTasks(ActiveOf(R))
    /\ Draining(IF R = Roots THEN ActiveOf(R) ELSE {}, {}, Messages)

\* A standalone /clear also unpublishes the trees, and clears the store even
\* when that has raised.
ClearChat ==
  /\ StateLockFree
  /\ fresh' = {}
  /\ ClearScope
  /\ UNCHANGED <<intake, stored, restarts>>

\* The nodes affected before the nameless turn are marked; then it raises.
ClearAborts(r, affected) ==
  \E S \in SUBSET affected :
    /\ graph' = Marked(graph, {m \in S : Runnable(m)})
    /\ queue' = [queue EXCEPT ![r] = Dequeued(@, S)]
    /\ UNCHANGED <<active, cancelled, task, command>>

\* A prompt goes with all below it; a status goes alone with all below it, and the
\* session of its prompt with it.
RemoveSubtree(ref, r, affected, claims) ==
  LET m == ref.message
      gone == Below(ref)
      left == IF ref.kind = "status"
              THEN [graph EXCEPT ![m].status = FALSE, ![m].session = FALSE,
                                 ![m].state = "error"]
              ELSE graph
  IN  /\ graph' = Kept(left, gone)
      /\ queue' = [queue EXCEPT ![r] = Dequeued(@, affected)]
      /\ active' = [active EXCEPT ![r] = IF r \in gone THEN NoClaim ELSE @]
      /\ cancelled' = [cancelled EXCEPT ![r] = r \notin gone /\ (@ \/ claims # {})]

\* /clear in reply to a prompt or a status.
ClearReply(ref) ==
  /\ StateLockFree
  /\ Resolves(ref)
  /\ LET r == graph[ref.message].root
         affected == Below(ref) \cup {ref.message}
         claims == IF RunsOne(r, affected) THEN {active[r]} ELSE {}
         whole == r \in Below(ref)
     IN  IF claims # {} /\ Nameless(r)
         THEN ClearAborts(r, affected)
         ELSE /\ RemoveSubtree(ref, r, affected, claims)
              /\ CancelTasks(claims)
              /\ Draining(claims, IF whole THEN {} ELSE {r}, IF whole THEN {r} ELSE {})
  /\ UNCHANGED <<intake, fresh, stored, restarts>>

\* The cancelled tasks have finished, or 5 seconds are over: the snapshots to be
\* saved are taken.
Drained ==
  /\ command.phase = "draining"
  /\ \A d \in command.waits :
       task[d] = "done" \/ (SlowStop /\ task[d] = "unwinding")
  /\ command' = [command EXCEPT !.phase = "saving", !.waits = {},
                                !.snapshot = SnapshotOf(graph, command.roots)]
  /\ UNCHANGED <<intake, fresh, trees, task, stored, restarts>>

\* The result has come back to the workflow through two tasks: it is saved and
\* the state lock is released.
Save ==
  /\ command.phase = "saving"
  /\ stored' = Joined(command.snapshot, Without(command.roots \cup command.removed))
  /\ command' = NoCommand
  /\ UNCHANGED <<intake, fresh, trees, task, restarts>>

-----------------------------------------------------------------------------
(* Crash and restart.                                                       *)

Interrupted == {"pending", "in_progress"}

\* A node that could run needs its status message.
Legible(node) == node.state \in Interrupted => node.status

\* from_snapshot refuses a tree with a node that is not legible or whose parent or
\* exact reference is missing.
WellFormed(nodes, r) ==
  \A m \in DOMAIN nodes : nodes[m].root = r =>
    /\ r \in DOMAIN nodes
    /\ Legible(nodes[m])
    /\ m # r => /\ ReplyTo[m].message \in DOMAIN nodes
                /\ nodes[ReplyTo[m].message].root = r
                /\ ReplyTo[m].kind = "status" => nodes[ReplyTo[m].message].status

\* What could run when the process ended has failed.
Reconciled(nodes) == Marked(nodes, {m \in DOMAIN nodes : nodes[m].state \in Interrupted})

Restored ==
  Reconciled(Kept(stored, {m \in DOMAIN stored : ~WellFormed(stored, stored[m].root)}))

Restart ==
  /\ restarts < MaxRestarts
  /\ restarts' = restarts + 1
  /\ intake' = [d \in Deliveries |->
       IF intake[d] \in Provisional THEN "gone" ELSE intake[d]]
  /\ fresh' = {}
  /\ graph' = Restored
  /\ stored' = Restored
  /\ queue' = [r \in Messages |-> << >>]
  /\ active' = [r \in Messages |-> NoClaim]
  /\ cancelled' = [r \in Messages |-> FALSE]
  /\ task' = [d \in Deliveries |-> IF task[d] = "none" THEN "none" ELSE "done"]
  /\ command' = NoCommand

-----------------------------------------------------------------------------
Run(d, r) == \/ RecordSession(d, r) \/ Succeed(d, r) \/ ErrorEvent(d, r)
             \/ SessionRefused(d, r) \/ RunnerRaises(d, r)
             \/ EndsBadly(d, r) \/ EndsWell(d, r)

End(d, r) == EndsBadly(d, r) \/ EndsWell(d, r)

Finish(d) == \/ FinishDetached(d)
             \/ \E r \in Messages : FinishAndContinue(d, r) \/ FinishLast(d, r)

Command == \/ StopAll \/ ClearChat
           \/ \E m \in Messages : StopReply(m)
           \/ \E ref \in Clearable : ClearReply(ref)

Next == \/ \E d \in Deliveries :
             \/ Receive(d) \/ SendFails(d) \/ Reject(d) \/ Admit(d)
             \/ Start(d) \/ Finish(d)
             \/ \E r \in Messages : Run(d, r)
        \/ Command \/ Drained \/ Save
        \/ Restart

Spec == Init /\ [][Next]_vars

\* Every task runs on, every CLI ends, and a drain ends with the tasks it waits for.
FairSpec ==
  /\ Spec
  /\ WF_vars(Drained) /\ WF_vars(Save)
  /\ \A d \in Deliveries :
       WF_vars(Start(d)) /\ WF_vars(Finish(d)) /\ WF_vars(\E r \in Messages : End(d, r))

-----------------------------------------------------------------------------
(* Properties.                                                              *)

TypeOK ==
  /\ intake \in [Deliveries -> {"away", "gone"} \cup Provisional]
  /\ fresh \subseteq Deliveries
  /\ Present \subseteq Messages
  /\ graph \in [Present -> Nodes]
  /\ queue \in [Messages -> Seq(Messages)]
  /\ active \in [Messages -> Deliveries \cup {NoClaim}]
  /\ cancelled \in [Messages -> BOOLEAN]
  /\ task \in [Deliveries -> Tasks]
  /\ command.phase \in {"none", "draining", "saving"}
  /\ command.waits \subseteq Deliveries
  /\ command.roots \cup command.removed \subseteq Messages
  /\ DOMAIN stored \subseteq Messages
  /\ \A m \in DOMAIN stored : stored[m] \in Nodes
  /\ restarts \in 0 .. MaxRestarts

\* The queue of a tree holds the turns that wait in it, all of them and each of
\* them once, however they were stopped, failed or removed from the middle.  A
\* queue that is not empty has an active claim before it, and an active claim a
\* task that is going to finish it: otherwise the tree never moves again.
QueuesMove ==
  \A r \in Messages :
    /\ Range(queue[r]) = {m \in Tree(r) : graph[m].state = "pending"}
    /\ IsInjective(queue[r])
    /\ queue[r] # << >> => active[r] # NoClaim
    /\ active[r] # NoClaim => task[active[r]] \notin Ended

\* A CLI that nobody has cancelled works for the active claim of a published
\* tree: what has been stopped, cleared or replaced is never left running, and
\* a turn is shown in progress only while its CLI is.
RunnersAreOwned ==
  /\ \A d \in Deliveries : task[d] \in {"launched", "running"} =>
       \E r \in Messages : Owns(d, r)
  /\ \A m \in Present : graph[m].state = "in_progress" =>
       task[graph[m].turn] \in {"launched", "running"}

\* No interleaving of turns, stops, clears and restarts parts the queues, the
\* claims and the tasks of a tree from one another.
TreesAreSound == TypeOK /\ QueuesMove /\ RunnersAreOwned

\* The turns of a tree run one after the other, cancelled ones included: the
\* next one is launched when the last one has ended its CLI.
OneTurnPerTree ==
  \A m, n \in Present :
    /\ graph[m].root = graph[n].root
    /\ task[graph[m].turn] \in {"launched", "running", "unwinding"}
    /\ task[graph[n].turn] \in {"launched", "running", "unwinding"}
    => m = n

\* The store and the published trees agree when no command is at work: what was
\* cleared is gone for good, also after a restart, what was admitted is there,
\* and nothing is stored as completed that is not.  At any time every tree of the
\* store can be restored: from_snapshot refuses none.
StoreMatchesTrees ==
  /\ command.phase = "none" =>
       /\ DOMAIN stored = Present
       /\ \A m \in Present :
            /\ stored[m].root = graph[m].root
            /\ stored[m].status = graph[m].status
            /\ stored[m].state = "completed" => graph[m].state = "completed"
  /\ \A m \in DOMAIN stored : WellFormed(stored, stored[m].root)

\* "Stop every pending and active messaging task" (workflow.py): a turn that
\* arrived before a stop of everything, or before a clear of its chat, is never
\* launched after it, whether it was being admitted, was queued, or was next.
StopIsABoundary ==
  [][\A d \in Deliveries : task[d] = "none" /\ task'[d] = "launched" => d \in fresh]_vars

\* "a cancellation tombstone prevents late success from reviving a stopped node"
\* (ARCHITECTURE.md): a turn whose CLI has ended or was cancelled keeps its
\* outcome as long as the process lives; only a clear of its status takes it away.
OutcomeKept(m) ==
  LET d == graph[m].turn IN
  task[d] \in {"unwinding", "recovering", "done"}
    /\ m \in DOMAIN graph' /\ graph'[m].turn = d
    /\ restarts' = restarts
  => /\ graph'[m].state = graph[m].state \/ ~graph'[m].status
     /\ graph'[m].session => graph[m].session

\* Turns neither overlap nor change once they are over.
TurnsAreOrderly == [][OneTurnPerTree' /\ \A m \in Present : OutcomeKept(m)]_vars

\* Every turn that was admitted is run, stopped or removed in the end: no claim is
\* lost between the finisher, the recovery and the drain, which would leave the
\* turns behind it queued for ever.  And every stop or clear returns.
EveryTurnEnds ==
  /\ \A m \in Messages : (m \in Present /\ Runnable(m)) ~> ~(m \in Present /\ Runnable(m))
  /\ command.phase # "none" ~> command.phase = "none"
=============================================================================
